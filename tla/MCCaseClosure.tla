----------------------------- MODULE MCCaseClosure -----------------------------
(***************************************************************************)
(* A mandatory artifact that two directories may hold under one name, and a *)
(* conditional one; two consequences of one content; a conclusion.          *)
(***************************************************************************)
EXTENDS CaseClosure

MCMatches == [a \in {"m", "o"} |-> IF a = "m" THEN {1, 2} ELSE {3}]
MCNameOf == <<"x", "x", "y">>
MCGates ==
  {[requires |-> {{"m"}, {"o"}}, any |-> FALSE, quality |-> "validated"],
   [requires |-> {{"m"}, {"o"}}, any |-> TRUE, quality |-> "corroborated"],
   [requires |-> {{"m", "o"}}, any |-> FALSE, quality |-> "authoritative"]}
Acquired(f, c, rank, fits) == [file |-> f, hash |-> c, rank |-> rank, flag |-> "none", fits |-> fits]
MCAcquisitions ==
  {Acquired(1, "first", "validated", TRUE), Acquired(1, "second", "authoritative", TRUE),
   Acquired(2, "first", "corroborated", TRUE), Acquired(2, "second", "validated", FALSE),
   Acquired(3, "first", "authoritative", TRUE), Acquired(2, "cut", "validated", TRUE)}
MCEffectOf == [a \in {"b1", "b2"} |-> "same"]
MCAuthorOf == [c \in {"c"} |-> "r1"]
MCRequired == [c \in {"c"} |-> 1]
=============================================================================
