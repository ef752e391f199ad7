--------------------------- MODULE MCProjectFiles ---------------------------
(* Two directories; dependency a requires b; one version of each is older  *)
(* than the one bound, the other newer.                                    *)
EXTENDS ProjectFiles, TLC

CONSTANTS m1, m2, a, b, early, late, soon

MCNeeds == [d \in {a, b} |-> IF d = a THEN {b} ELSE {}]
MCOlder == [t \in {soon} |-> {early}]
Directories == Permutations({m1, m2})
=============================================================================
