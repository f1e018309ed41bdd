----------------------------- MODULE LeaseMutex -----------------------------
(***************************************************************************)
(* What DistributedLock promises to its callers, without a database: a     *)
(* handle is granted a resource until some time, at most a ttl ahead, and  *)
(* only when no handle of that resource holds a lease that still runs.     *)
(***************************************************************************)
EXTENDS Integers

CONSTANTS Handle, ResourceOf, TtlOf, MaxClock

VARIABLES
  clock,     \* the wall clock
  acquired,  \* acquired[h]: the last grant to h was not given back
  lease      \* lease[h]: the time that grant runs to

vars == <<clock, acquired, lease>>

Init ==
  /\ clock = 0
  /\ acquired = [h \in Handle |-> FALSE]
  /\ lease = [h \in Handle |-> 0]

Holds(h) == acquired[h] /\ lease[h] >= clock

\* A slow caller may be granted a lease that has partly, or wholly, run.
Grant(h, until) ==
  /\ \A g \in Handle : ResourceOf[g] = ResourceOf[h] => ~Holds(g)
  /\ until <= clock + TtlOf[h]
  /\ acquired' = [acquired EXCEPT ![h] = TRUE]
  /\ lease' = [lease EXCEPT ![h] = until]
  /\ UNCHANGED clock

\* By release, or by dying.
GiveBack(h) ==
  /\ acquired' = [acquired EXCEPT ![h] = FALSE]
  /\ lease' = [lease EXCEPT ![h] = 0]
  /\ UNCHANGED clock

Tick ==
  /\ clock < MaxClock
  /\ clock' = clock + 1
  /\ UNCHANGED <<acquired, lease>>

Next ==
  \/ Tick
  \/ \E h \in Handle :
       \/ \E until \in 0..MaxClock + TtlOf[h] : Grant(h, until)
       \/ GiveBack(h)

Spec == Init /\ [][Next]_vars
=============================================================================
