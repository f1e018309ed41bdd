---------------------------- MODULE MCLedgerLock ----------------------------
(* Small instances of LedgerLock: who the handles belong to. *)
EXTENDS LedgerLock, TLC

CONSTANTS h1, h2, h3, a1, a2, a3, r1

\* One handle an agent: the use the tests make of the lock.
TwoAgents == h1 :> a1 @@ h2 :> a2
ThreeAgents == h1 :> a1 @@ h2 :> a2 @@ h3 :> a3

\* h1 and h2 are two sessions of the agent a1.
SharedAgent == h1 :> a1 @@ h2 :> a1 @@ h3 :> a2

SameResource == [h \in Handle |-> r1]
UnitTtl == [h \in Handle |-> 1]
MixedTtl == [h \in Handle |-> IF h = h1 THEN 2 ELSE 1]
=============================================================================
