----------------------------- MODULE MCContract -----------------------------
(***************************************************************************)
(* An instance of Contract for TLC: words of three bits, so that prices of *)
(* up to three digits meet values that fit them and values that do not,    *)
(* numerals that are not in the form the code writes, or too large.        *)
(* A group of 31 elements, an oracle's key and nonces some of which have   *)
(* to be negated, and nothing in common between their multiples.           *)
(***************************************************************************)
EXTENDS Contract, RestApi, TLC

MCToken == STRING

MCDecimal  == [v \in 0 .. 8 |-> ToString(v)]
MCNumberOf == [t \in Range(MCDecimal) |-> CHOOSE v \in 0 .. 8 : MCDecimal[v] = t]
                @@ "05" :> 5 @@ "+2" :> 2

A == <<"A">>
B == <<"B">>

MCTeams == {<<A>>, <<A, B>>, <<A, A>>, <<A, B, A>>, <<<<>>, B>>,
            <<<<"A", "?", "x">>, B>>, <<<<"?">>, B>>, <<B, <<"draw">> >>, <<<<>>>>}

Numerals == {<<t>> : t \in DOMAIN MCNumberOf}
Win(team) == team \o <<"_", "win">>
MCReports == Numerals \union
  {A, B, <<>>, Win(A), Win(B), Win(<<>>), Win(Win(A)), <<"draw">>, <<"true">>, <<"false">>}

Args == {<<"?">>} \union {<<"?", "n", "=">> \o t : t \in Numerals} \union
  {<<"?", "n", "=", "2", "&", "n", "=", "2">>, <<"?", "n", "=", "2", "_", "5">>}
Bases == {<<"vs">>, <<"winner">>, <<"occur">>, <<"price">>, <<"draw">>}
MCKinds ==
  LET plain  == Bases \union {b \o a : b \in Bases, a \in Args}
      short  == Bases \union {<<"price", "?", "n", "=", "2">>, <<"vs", "?">>}
      equals == {k \o <<"=">> \o r : k \in short, r \in MCReports}
      above  == {k \o <<"_">> \o r : k \in short, r \in MCReports}
      nested == {k \o <<"=", "true">> : k \in {<<"price", "_", "5">>, <<"occur", "=", "true">>,
                                               <<"vs", "=", "draw">>, <<"vs", "_", "2">>}}
  IN plain \union equals \union above \union nested

MCDirectories == {<<"/">>, <<"/", "s">>, <<"/", "s", "/", "A">>, <<"/", "v", ".", "1">>,
                  <<"/", "?", "/", "B", ".", "occur">>}

MCEvenY     == LET low == {k \in 1 .. 15 : k % 3 = 1}
               IN low \union {31 - k : k \in 1 .. 15 \ low}
MCNonceSeed == <<8, 45, 20>>
=============================================================================
