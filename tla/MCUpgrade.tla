----------------------------- MODULE MCUpgrade -----------------------------
(* A first and a second attempt, one after the other or at the same time. *)
EXTENDS Upgrade, TLC

CONSTANTS r1, r2, d1, d2

MCRun == {r1, r2}
MCDir == {d1, d2}
MCDirOf == (r1 :> d1) @@ (r2 :> d2)

OneRun == {r1}
OneDirOf == r1 :> d1
=============================================================================
