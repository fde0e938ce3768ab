----------------------------- MODULE MCNodeTree -----------------------------
(***************************************************************************)
(* An instance of NodeTree for TLC.  Under the root there are a ticker's   *)
(* node 1 with two ticks below it, a node 20 of matches by date, and two   *)
(* events 10 and 11.  The text of 1 is a prefix of those of 10 and 11, 10  *)
(* and 11 have the same label, and the event at 10 has no time.            *)
(***************************************************************************)
EXTENDS NodeTree

MCPath == {<<>>, <<1>>, <<1, 4>>, <<1, 5>>, <<10>>, <<11>>,
           <<20>>, <<20, 7>>, <<20, 7, 8>>}

Occur(p, t) == [path |-> p, kind |-> "occur", time |-> t]
Vs(p, t)    == [path |-> p, kind |-> "vs", time |-> t]

MCEvent == {Occur(<<1, 4>>, 1), Occur(<<1, 5>>, 2), Occur(<<10>>, None),
            Vs(<<20, 7, 8>>, 3), Occur(<<11>>, 1)}

MCNodes    == {<< <<1>>, "Range">>}
MCInferred == [p \in MCPath |-> IF p = <<20>> THEN "DateMap" ELSE "List"]
MCDate     == {7}
MCPrefix   == {<<1, 10>>, <<1, 11>>}
MCLabel    == [n \in {1, 4, 5, 7, 8, 10, 11, 20} |-> IF n = 11 THEN 10 ELSE n]
=============================================================================
