------------------------------- MODULE MCFeed -------------------------------
(***************************************************************************)
(* Instances of Feed for TLC: a match with three outcomes, a match with    *)
(* two, and a price that is announced with two different precisions.       *)
(***************************************************************************)
EXTENDS Feed

Match  == [path |-> "match", kind |-> Vs]
Duel   == [path |-> "duel", kind |-> Winner]
Coarse == [path |-> "day", kind |-> Price(2)]
Fine   == [path |-> "day", kind |-> Price(3)]
Noon   == [path |-> "day/noon", kind |-> Price(2)]

MCPath    == {"match", "duel", "day", "day/noon"}
OwnPath   == {<<p, p>> : p \in MCPath}
Below     == OwnPath \union {<<"day", "day/noon">>}

MCPrices  == {Coarse, Fine}
MCNested  == {Coarse, Noon}
MCSteady  == {Match, Duel, Coarse}

MCFilter  == {0, 1}
OneFilter == {1}

\* Sources that make up their mind once, and one that changes its mind about
\* the match.
PriceReport  == {[id |-> Coarse, value |-> 1], [id |-> Fine, value |-> 1]}
NestedReport == {[id |-> Coarse, value |-> 2], [id |-> Noon, value |-> 0]}
SteadyReport == {[id |-> Match, value |-> 0], [id |-> Match, value |-> 1],
                 [id |-> Coarse, value |-> 1], [id |-> Duel, value |-> 0]}
=============================================================================
