--------------------------- MODULE MCVersionSets ----------------------------
(* Constraints on 0.1.0 and 1.0.0, whose `~` and `^` bounds are 0.2.0 and  *)
(* 2.0.0; the versions at, just below and just above each are observed.    *)
EXTENDS VersionSets

MCNamed == {Release(0, 1, 0), Release(1, 0, 0)}
MCPoints ==
    {b + d : b \in {Release(0, 1, 0), Release(0, 2, 0), Release(1, 0, 0), Release(2, 0, 0)},
             d \in {-1, 0, 1, 2}}
MCAvailable == {Release(0, 1, 0), Release(1, 0, 0), Release(1, 0, 1)}

ASSUME ObservedEnough == Observed
=============================================================================
