------------------------------ MODULE MCTicker ------------------------------
(***************************************************************************)
(* Instances of Ticker for TLC: who runs, which predicates are configured, *)
(* and what may be added to the ticker's path from the command line.       *)
(***************************************************************************)
EXTENDS Ticker

MCOne == {"daemon"}
MCTwo == {"daemon", "standby"}

MCNone       == <<>>
MCPredicate  == <<"red_win">>

MCBetween  == {<<2, 2>>}                  \* one between two ticks
MCForeign  == {<<2, 0>>}                  \* a tick to come, under an earlier time
MCTimeless == {<<s, None>> : s \in Slot}  \* without the optional time
=============================================================================
