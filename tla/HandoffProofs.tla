--------------------------- MODULE HandoffProofs ---------------------------
(* Proofs about Handoff, for any ids, agents and targets. *)
EXTENDS Handoff, TLAPS

\* The invariant is kept by every call, also by a completion from anywhere.
LEMMA HandoffInvStep ==
  ASSUME HandoffInv, [OpenNext]_vars
  PROVE  HandoffInv'
<1> USE DEF HandoffInv, TypeOK, Status, ClaimsLeavePending, ClaimedOnce
<1>1. ASSUME NEW i \in Id, CreateHandoff(i)
      PROVE  HandoffInv'
  BY <1>1 DEF CreateHandoff
<1>2. ASSUME NEW a \in Agent, ListPending(a) \/ Crash(a)
      PROVE  HandoffInv'
  BY <1>2 DEF ListPending, Crash, Pending
<1>3. ASSUME NEW a \in Agent, NEW i \in Id, ClaimWon(a, i)
      PROVE  HandoffInv'
  <2>1. \A b \in Agent : <<i, b>> \notin claims
    BY <1>3 DEF ClaimWon
  <2>2. TypeOK' /\ ClaimsLeavePending'
    BY <1>3 DEF ClaimWon
  <2>3. ClaimedOnce'
    BY <1>3, <2>1 DEF ClaimWon
  <2> QED
    BY <2>2, <2>3
<1>4. ASSUME NEW a \in Agent, NEW i \in Id, ClaimLost(a, i)
      PROVE  HandoffInv'
  BY <1>4 DEF ClaimLost
<1>5. ASSUME NEW a \in Agent, NEW i \in Id, Complete(a, i)
      PROVE  HandoffInv'
  BY <1>5 DEF Complete
<1>6. ASSUME NEW i \in Id, CompleteAny(i)
      PROVE  HandoffInv'
  BY <1>6 DEF CompleteAny
<1>7. CASE UNCHANGED vars
  BY <1>7 DEF vars
<1> QED
  BY <1>1, <1>2, <1>3, <1>4, <1>5, <1>6, <1>7 DEF OpenNext, Next

\* The table is well-formed, a claimed handoff never comes back to "pending",
\* and nobody claims it again: whoever calls complete_handoff, and when.
THEOREM HandoffInvariant == OpenSpec => []HandoffInv
<1>1. Init => HandoffInv
  BY DEF Init, HandoffInv, TypeOK, Status, ClaimsLeavePending, ClaimedOnce
<1> QED
  BY <1>1, HandoffInvStep, PTL DEF OpenSpec

\* The statements keep the table and the agents' lists well-formed, and a
\* handoff is claimed at most once, whoever completes what and dies when.
THEOREM ClaimOnce == OpenSpec => [](TypeOK /\ ClaimedOnce)
<1>1. HandoffInv => TypeOK /\ ClaimedOnce
  BY DEF HandoffInv
<1> QED
  BY <1>1, HandoffInvariant, PTL

-----------------------------------------------------------------------------
(* Who works on what. *)

\* The targets of what an agent has in its hands, listed or claimed: the list
\* was made for it, and a claim is made from a list.
Addressed ==
  \A a \in Agent : \A i \in listed[a] \cup working[a] : Target[i] \in {a, All}

\* A list is filtered by target when it is made, and what is claimed later comes
\* from it, whatever has happened to the rows in between.
LEMMA AddressedStep ==
  ASSUME TypeOK, Addressed, [OpenNext]_vars
  PROVE  Addressed'
<1> USE DEF TypeOK, Addressed
<1>1. ASSUME NEW a \in Agent, ListPending(a)
      PROVE  Addressed'
  BY <1>1 DEF ListPending, Pending
<1>2. ASSUME NEW a \in Agent, Crash(a)
      PROVE  Addressed'
  BY <1>2 DEF Crash
<1>3. ASSUME NEW a \in Agent, NEW i \in Id,
             ClaimWon(a, i) \/ ClaimLost(a, i) \/ Complete(a, i)
      PROVE  Addressed'
  BY <1>3 DEF ClaimWon, ClaimLost, Complete
<1>4. ASSUME NEW i \in Id, CreateHandoff(i) \/ CompleteAny(i)
      PROVE  Addressed'
  BY <1>4 DEF CreateHandoff, CompleteAny
<1>5. CASE UNCHANGED vars
  BY <1>5 DEF vars
<1> QED
  BY <1>1, <1>2, <1>3, <1>4, <1>5 DEF OpenNext, Next

\* No agent works on a handoff that was addressed to another, although
\* claim_handoff does not look at the target (handoff.py:56-61).
THEOREM WorkAddressed == OpenSpec => []WorkIsAddressed
<1>1. Init => Addressed
  BY DEF Init, Addressed
<1>2. Addressed => WorkIsAddressed
  BY DEF Addressed, WorkIsAddressed
<1> QED
  BY <1>1, <1>2, AddressedStep, ClaimOnce, PTL DEF OpenSpec

\* What an agent works on it has claimed, so the claims tell whose it is.
WorkIsClaimed ==
  \A a \in Agent : \A i \in working[a] : <<i, a>> \in claims

\* An agent gets work only by a claim, and claims are never taken back.
LEMMA WorkIsClaimedStep ==
  ASSUME TypeOK, WorkIsClaimed, [OpenNext]_vars
  PROVE  WorkIsClaimed'
<1> USE DEF TypeOK, WorkIsClaimed
<1>1. ASSUME NEW a \in Agent, ListPending(a) \/ Crash(a)
      PROVE  WorkIsClaimed'
  BY <1>1 DEF ListPending, Crash
<1>2. ASSUME NEW a \in Agent, NEW i \in Id,
             ClaimWon(a, i) \/ ClaimLost(a, i) \/ Complete(a, i)
      PROVE  WorkIsClaimed'
  BY <1>2, ZenonT(60) DEF ClaimWon, ClaimLost, Complete
<1>3. ASSUME NEW i \in Id, CreateHandoff(i) \/ CompleteAny(i)
      PROVE  WorkIsClaimed'
  BY <1>3 DEF CreateHandoff, CompleteAny
<1>4. CASE UNCHANGED vars
  BY <1>4 DEF vars
<1> QED
  BY <1>1, <1>2, <1>3, <1>4 DEF OpenNext, Next

\* An agent at work has the handoff to itself, for good: its claim is the only
\* one, and the row never goes back (handoff.py:89, 93).
THEOREM WorkOwn == OpenSpec => []WorkIsOwn
<1>1. Init => WorkIsClaimed
  BY DEF Init, WorkIsClaimed
<1>2. HandoffInv /\ WorkIsClaimed => WorkIsOwn
  <2> SUFFICES ASSUME HandoffInv, WorkIsClaimed, NEW a \in Agent, NEW i \in working[a]
               PROVE  /\ status[i] \in {"in_progress", "completed"}
                      /\ \A b \in Agent \ {a} : i \notin working[b]
    BY DEF WorkIsOwn
  <2>1. <<i, a>> \in claims /\ i \in Id
    BY DEF WorkIsClaimed, HandoffInv, TypeOK
  <2>2. status[i] \in {"in_progress", "completed"}
    BY <2>1 DEF HandoffInv, ClaimsLeavePending
  <2>3. \A b \in Agent : i \in working[b] => b = a
    BY <2>1 DEF WorkIsClaimed, HandoffInv, ClaimedOnce
  <2> QED
    BY <2>2, <2>3
<1>3. HandoffInv => TypeOK
  BY DEF HandoffInv
<1> QED
  BY <1>1, <1>2, <1>3, WorkIsClaimedStep, HandoffInvariant, PTL DEF OpenSpec
=============================================================================
