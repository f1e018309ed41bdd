------------------------------ MODULE Handoff ------------------------------
(***************************************************************************)
(* The task handoffs of os_manager/ledger/handoff.py: rows of the SQLite   *)
(* table "handoffs", one transaction a call.  An agent lists what is       *)
(* pending for it, picks from the list, which others may have picked from  *)
(* in the meantime, works on what it could claim and completes it.         *)
(***************************************************************************)
EXTENDS FiniteSets

CONSTANTS
  Id,      \* values of handoff_id
  Agent,   \* agents that list, claim and complete
  All,     \* the target_agent_id 'all'
  Target   \* Target[i]: the target_agent_id of handoff i

ASSUME TargetAssumption ==
  /\ All \notin Agent
  /\ Target \in [Id -> Agent \cup {All}]

VARIABLES
  status,   \* the column status, "absent" when there is no row
  listed,   \* listed[a]: ids in the answer a had to list_pending_handoffs
  working,  \* working[a]: ids a claimed and has not completed
  claims    \* history: the successful claims, as <<id, agent>>

vars == <<status, listed, working, claims>>

Status == {"absent", "pending", "in_progress", "completed"}

TypeOK ==
  /\ status \in [Id -> Status]
  /\ listed \in [Agent -> SUBSET Id]
  /\ working \in [Agent -> SUBSET Id]
  /\ claims \in SUBSET (Id \X Agent)

Init ==
  /\ status = [i \in Id |-> "absent"]
  /\ listed = [a \in Agent |-> {}]
  /\ working = [a \in Agent |-> {}]
  /\ claims = {}

\* Mutant: INSERT OR REPLACE.
CreateHandoff_Replaces(i) ==
  /\ status' = [status EXCEPT ![i] = "pending"]
  /\ UNCHANGED <<listed, working, claims>>

\* INSERT; a second row of the same handoff_id raises and changes nothing.
CreateHandoff(i) ==
  /\ status[i] = "absent"
  /\ status' = [status EXCEPT ![i] = "pending"]
  /\ UNCHANGED <<listed, working, claims>>

\* Mutant: the list is not filtered by target.
Pending_AnyTarget(a) == {i \in Id : status[i] = "pending"}

\* SELECT ... WHERE status = 'pending' AND (target = ? OR target = 'all')
Pending(a) == {i \in Id : status[i] = "pending" /\ Target[i] \in {a, All}}

ListPending(a) ==
  /\ listed' = [listed EXCEPT ![a] = Pending(a)]
  /\ UNCHANGED <<status, working, claims>>

\* Mutant: the UPDATE does not ask for the status.
ClaimWon_AnyStatus(a, i) ==
  /\ i \in listed[a]
  /\ status' = [status EXCEPT ![i] = "in_progress"]
  /\ working' = [working EXCEPT ![a] = @ \cup {i}]
  /\ claims' = claims \cup {<<i, a>>}
  /\ listed' = [listed EXCEPT ![a] = @ \ {i}]

\* UPDATE ... SET status = 'in_progress' WHERE handoff_id = ? AND status =
\* 'pending': whether a row was changed is the answer.  Neither the target
\* nor the claiming agent appear in the statement.
ClaimWon(a, i) ==
  /\ i \in listed[a]
  /\ status[i] = "pending"
  /\ status' = [status EXCEPT ![i] = "in_progress"]
  /\ working' = [working EXCEPT ![a] = @ \cup {i}]
  /\ claims' = claims \cup {<<i, a>>}
  /\ listed' = [listed EXCEPT ![a] = @ \ {i}]

ClaimLost(a, i) ==
  /\ i \in listed[a]
  /\ status[i] # "pending"
  /\ listed' = [listed EXCEPT ![a] = @ \ {i}]
  /\ UNCHANGED <<status, working, claims>>

\* UPDATE ... SET status = 'completed' WHERE handoff_id = ?, by an agent that
\* did the work.
Complete(a, i) ==
  /\ i \in working[a]
  /\ status' = [status EXCEPT ![i] = "completed"]
  /\ working' = [working EXCEPT ![a] = @ \ {i}]
  /\ UNCHANGED <<listed, claims>>

\* An agent dies; no row says that the work was its own.
Crash(a) ==
  /\ listed' = [listed EXCEPT ![a] = {}]
  /\ working' = [working EXCEPT ![a] = {}]
  /\ UNCHANGED <<status, claims>>

Next ==
  \/ \E i \in Id : CreateHandoff(i)
  \/ \E a \in Agent :
       \/ ListPending(a)
       \/ Crash(a)
       \/ \E i \in Id : ClaimWon(a, i) \/ ClaimLost(a, i) \/ Complete(a, i)

Spec == Init /\ [][Next]_vars

\* complete_handoff has no other condition than the row: any caller, at any
\* time, completes anything.
CompleteAny(i) ==
  /\ status[i] # "absent"
  /\ status' = [status EXCEPT ![i] = "completed"]
  /\ UNCHANGED <<listed, working, claims>>

OpenNext == Next \/ \E i \in Id : CompleteAny(i)
OpenSpec == Init /\ [][OpenNext]_vars

-----------------------------------------------------------------------------
(* Properties *)

\* A handoff is claimed at most once and for good, also when two agents pick
\* it from lists they got before either claimed it, or after one died
\* (handoff.py:89, 93).
ClaimedOnce ==
  \A i \in Id : \A a, b \in Agent :
    <<i, a>> \in claims /\ <<i, b>> \in claims => a = b

\* Why: a claimed handoff has left "pending" and nothing takes it back.
ClaimsLeavePending ==
  \A c \in claims : status[c[1]] \in {"in_progress", "completed"}

HandoffInv == TypeOK /\ ClaimsLeavePending /\ ClaimedOnce

\* Nobody works on what was addressed to another, although claim_handoff
\* does not look at the target: the list does (handoff.py:56-61).
WorkIsAddressed ==
  \A a \in Agent : \A i \in working[a] : Target[i] \in {a, All}

\* An agent at work has the handoff to itself: no listing, claim or
\* completion of others, and no death, puts it back or gives it to another.
WorkIsOwn ==
  \A a \in Agent : \A i \in working[a] :
    /\ status[i] \in {"in_progress", "completed"}
    /\ \A b \in Agent \ {a} : i \notin working[b]
=============================================================================
