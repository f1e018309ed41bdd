-------------------------- MODULE LedgerLockProofs --------------------------
(* Proofs about LedgerLock, for any handles, agents, resources and ttls. *)
EXTENDS LedgerLock, TLAPS

USE ConfigAssumption

\* The statements of the transactions keep the table a set of rows.
LEMMA NewRowType ==
  ASSUME TypeOK, NEW h \in Handle
  PROVE  NewRow(h) \in LockRow
BY DEF NewRow, LockRow, TypeOK

\* Type correctness: the tables, the locals and the attributes keep their
\* kinds through every call, failure, crash and tick.
THEOREM TypeCorrect == Spec => []TypeOK
<1>1. Init => TypeOK
  BY DEF Init, TypeOK, PcValues
<1>2. TypeOK /\ [Next]_vars => TypeOK'
  <2> SUFFICES ASSUME TypeOK, [Next]_vars
               PROVE  TypeOK'
    OBVIOUS
  <2>1. CASE Tick
    BY <2>1 DEF Tick, TypeOK
  <2>2. ASSUME NEW h \in Handle, HandleStep(h)
        PROVE  TypeOK'
    <3>1. CASE CallAcquire(h)
      BY <3>1 DEF CallAcquire, TypeOK, PcValues
    <3>2. CASE ReadNow(h)
      BY <3>2 DEF ReadNow, TypeOK, PcValues
    <3>3. CASE TxnAcquired(h)
      <4>1. NewRow(h) \in LockRow
        BY NewRowType
      <4>2. now[h] + TtlOf[h] \in Nat
        BY DEF TypeOK
      <4> QED
        BY <3>3, <4>1, <4>2 DEF TxnAcquired, Return, AfterExpiry, TypeOK, PcValues
    <3>4. CASE TxnRefused(h)
      BY <3>4 DEF TxnRefused, AfterExpiry, TypeOK, PcValues
    <3>5. CASE TxnBusy(h)
      BY <3>5 DEF TxnBusy, Return, TypeOK, PcValues
    <3>6. CASE GiveUp(h)
      BY <3>6 DEF GiveUp, Return, TypeOK, PcValues
    <3>7. CASE Retry(h)
      BY <3>7 DEF Retry, TypeOK, PcValues
    <3>8. CASE Release(h)
      BY <3>8 DEF Release, AfterRelease, TypeOK
    <3>9. CASE ReadProbe(h)
      BY <3>9 DEF ReadProbe, TypeOK, PcValues
    <3>10. ASSUME NEW locked \in BOOLEAN, SelectProbe(h, locked)
           PROVE  TypeOK'
      BY <3>10 DEF SelectProbe, Return, TypeOK, PcValues
    <3>11. CASE Crash(h)
      BY <3>11 DEF Crash, Return, TypeOK, PcValues
    <3> QED
      BY <2>2, <3>1, <3>2, <3>3, <3>4, <3>5, <3>6, <3>7, <3>8, <3>9, <3>10, <3>11
         DEF HandleStep, AcquireStep
  <2>3. CASE UNCHANGED vars
    BY <2>3 DEF vars, TypeOK
  <2> QED
    BY <2>1, <2>2, <2>3 DEF Next
<1> QED
  BY <1>1, <1>2, PTL DEF Spec

-----------------------------------------------------------------------------
(* Mutual exclusion.  LockInv is inductive when the handles of a resource  *)
(* belong to different agents: a holder then has the only row of its       *)
(* resource, and no time read in the past makes that row look expired.     *)

\* A clean-up with a time of the past spares the row of every holder.
LEMMA CleanUpSparesHolders ==
  ASSUME LockInv, NEW h \in Handle, NEW g \in Handle, Holds(g)
  PROVE  [resource |-> ResourceOf[g], holder |-> AgentOf[g],
          expires |-> lease[g]] \in AfterExpiry(ResourceOf[h], now[h])
BY DEF LockInv, TypeOK, NowIsPast, HolderHasRow, Holds, AfterExpiry

\* Hence an attempt that gets through meets no holder.
LEMMA GrantMeetsNoHolder ==
  ASSUME LockInv, NEW h \in Handle, TxnAcquired(h),
         NEW g \in Handle, ResourceOf[g] = ResourceOf[h]
  PROVE  ~Holds(g)
BY CleanUpSparesHolders DEF TxnAcquired, Taken

\* Nobody holds the lock of an empty table.
LEMMA LockInvInit == Init => LockInv
<1> SUFFICES ASSUME Init PROVE LockInv
  OBVIOUS
<1>1. TypeOK
  BY DEF Init, TypeOK, PcValues
<1>2. NowIsPast /\ HolderHasRow
  BY DEF Init, NowIsPast, HolderHasRow, Holds
<1> QED
  BY <1>1, <1>2 DEF LockInv, Init

\* A step that leaves the table and the leases alone, and reads no time but
\* the present, keeps LockInv.
LEMMA QuietStep ==
  ASSUME LockInv, TypeOK', UNCHANGED <<locks, lease>>,
         clock' = clock \/ clock' = clock + 1,
         \A g \in Handle : now'[g] <= clock',
         \A g \in Handle : acquired'[g] => acquired[g]
  PROVE  LockInv'
<1>1. HolderHasRow'
  BY DEF LockInv, TypeOK, HolderHasRow, Holds
<1> QED
  BY <1>1 DEF LockInv, NowIsPast

\* The table is as the holders believe after every statement, whoever executes it.
LEMMA LockInvStep ==
  ASSUME LockInv, DistinctAgents, TypeOK', [Next]_vars
  PROVE  LockInv'
<1> USE DEF TypeOK
<1>0. TypeOK /\ NowIsPast
  BY DEF LockInv
<1>1. CASE Tick
  BY <1>0, <1>1, QuietStep DEF Tick, NowIsPast
<1>2. ASSUME NEW h \in Handle, HandleStep(h)
      PROVE  LockInv'
  <2>1. CASE CallAcquire(h)
    BY <1>0, <2>1, QuietStep DEF CallAcquire, NowIsPast
  <2>2. CASE ReadNow(h)
    BY <1>0, <2>2, QuietStep DEF ReadNow, NowIsPast
  <2>3. CASE TxnAcquired(h)
    <3> DEFINE R == ResourceOf[h]
    <3>1. NowIsPast'
      BY <1>0, <2>3 DEF TxnAcquired, Return, NowIsPast
    <3>2. HolderHasRow'
      <4> SUFFICES ASSUME NEW g \in Handle, Holds(g)'
                   PROVE  [resource |-> ResourceOf[g], holder |-> AgentOf[g],
                           expires |-> lease'[g]] \in locks'
        BY DEF HolderHasRow
      <4>1. CASE g = h
        BY <2>3, <4>1, <1>0 DEF TxnAcquired, NewRow
      <4>2. CASE g # h
        <5>1. Holds(g) /\ lease'[g] = lease[g]
          BY <2>3, <4>2, <1>0 DEF TxnAcquired, Holds
        <5> QED
          BY <5>1, <2>3, CleanUpSparesHolders DEF TxnAcquired
      <4> QED
        BY <4>1, <4>2
    <3>3. ASSUME NEW k \in locks', NEW l \in locks', k.resource = l.resource
          PROVE  k = l
      BY <3>3, <2>3 DEF TxnAcquired, Taken, AfterExpiry, NewRow, LockInv
    <3> QED
      BY <3>1, <3>2, <3>3 DEF LockInv
  <2>4. CASE TxnRefused(h)
    <3>1. NowIsPast'
      BY <1>0, <2>4 DEF TxnRefused, NowIsPast
    <3>2. HolderHasRow'
      BY <2>4, CleanUpSparesHolders DEF TxnRefused, HolderHasRow, Holds
    <3> QED
      BY <3>1, <3>2, <2>4 DEF LockInv, TxnRefused, AfterExpiry
  <2>5. CASE TxnBusy(h)
    BY <1>0, <2>5, QuietStep DEF TxnBusy, Return, NowIsPast
  <2>6. CASE GiveUp(h)
    BY <1>0, <2>6, QuietStep DEF GiveUp, Return, NowIsPast
  <2>7. CASE Retry(h)
    BY <1>0, <2>7, QuietStep DEF Retry, NowIsPast
  <2>8. CASE Release(h)
    <3>1. NowIsPast'
      BY <1>0, <2>8 DEF Release, NowIsPast
    <3>2. HolderHasRow'
      <4> SUFFICES ASSUME NEW g \in Handle, Holds(g)'
                   PROVE  [resource |-> ResourceOf[g], holder |-> AgentOf[g],
                           expires |-> lease'[g]] \in locks'
        BY DEF HolderHasRow
      <4>1. g # h /\ Holds(g) /\ lease'[g] = lease[g]
        BY <2>8, <1>0 DEF Release, Holds
      <4>2. [resource |-> ResourceOf[g], holder |-> AgentOf[g],
             expires |-> lease[g]] \in locks
        BY <4>1 DEF LockInv, HolderHasRow
      <4> QED
        BY <4>1, <4>2, <2>8 DEF Release, AfterRelease, DistinctAgents
    <3> QED
      BY <3>1, <3>2, <2>8 DEF LockInv, Release, AfterRelease
  <2>9. CASE ReadProbe(h)
    BY <1>0, <2>9, QuietStep DEF ReadProbe, NowIsPast
  <2>10. ASSUME NEW locked \in BOOLEAN, SelectProbe(h, locked)
         PROVE  LockInv'
    BY <1>0, <2>10, QuietStep DEF SelectProbe, Return, NowIsPast
  <2>11. CASE Crash(h)
    <3>1. NowIsPast'
      BY <1>0, <2>11 DEF Crash, Return, NowIsPast
    <3>2. HolderHasRow'
      BY <1>0, <2>11 DEF Crash, LockInv, HolderHasRow, Holds
    <3> QED
      BY <3>1, <3>2, <2>11 DEF LockInv, Crash
  <2> QED
    BY <1>2, <2>1, <2>2, <2>3, <2>4, <2>5, <2>6, <2>7, <2>8, <2>9, <2>10, <2>11
       DEF HandleStep, AcquireStep
<1>3. CASE UNCHANGED vars
  <2>1. HolderHasRow'
    BY <1>3 DEF vars, LockInv, HolderHasRow, Holds
  <2> QED
    BY <2>1, <1>3 DEF vars, LockInv, NowIsPast
<1> QED
  BY <1>1, <1>2, <1>3 DEF Next

\* LockInv is an invariant when no two handles of a resource share an agent.
THEOREM LockInvariant ==
  ASSUME DistinctAgents
  PROVE  Spec => []LockInv
<1>1. LockInv /\ TypeOK' /\ [Next]_vars => LockInv'
  BY LockInvStep
<1> QED
  BY <1>1, LockInvInit, TypeCorrect, PTL DEF Spec

\* At most one handle holds a resource at any time: the promise of acquire
\* (lock.py:26-62), against every interleaving of late transactions,
\* clean-ups, releases and deaths.
THEOREM Mutex ==
  ASSUME DistinctAgents
  PROVE  Spec => []MutualExclusion
<1>1. LockInv => MutualExclusion
  <2> SUFFICES ASSUME LockInv, NEW g \in Handle, NEW h \in Handle,
                      g # h, ResourceOf[g] = ResourceOf[h],
                      Holds(g), Holds(h)
               PROVE  FALSE
    BY DEF MutualExclusion
  <2> DEFINE RowOf(x) == [resource |-> ResourceOf[x], holder |-> AgentOf[x],
                          expires |-> lease[x]]
  <2>1. RowOf(g) \in locks /\ RowOf(h) \in locks
    BY DEF LockInv, HolderHasRow
  <2>2. RowOf(g) = RowOf(h)
    BY <2>1 DEF LockInv
  <2>3. RowOf(g).holder = RowOf(h).holder
    BY <2>2
  <2> QED
    BY <2>3 DEF DistinctAgents
<1> QED
  BY <1>1, LockInvariant, PTL

\* is_locked never reports a resource free while somebody holds it
\* (lock.py:76-85).
THEOREM FreeIsFree ==
  ASSUME DistinctAgents
  PROVE  Spec => FreeMeansFree
<1>1. ASSUME LockInv, NEW g \in Handle, NEW h \in Handle,
             SelectProbe(h, FALSE), ResourceOf[g] = ResourceOf[h]
      PROVE  ~Holds(g)
  <2> SUFFICES ASSUME Holds(g) PROVE FALSE
    OBVIOUS
  <2> DEFINE row == [resource |-> ResourceOf[g], holder |-> AgentOf[g],
                     expires |-> lease[g]]
  <2>1. row \in locks
    BY <1>1 DEF LockInv, HolderHasRow
  <2>2. row.resource = ResourceOf[h] /\ row.expires >= now[h]
    BY <1>1 DEF LockInv, TypeOK, NowIsPast, Holds
  <2>3. LiveRowAt(ResourceOf[h], now[h])
    BY <2>1, <2>2 DEF LiveRowAt
  <2> QED
    BY <1>1, <2>3 DEF SelectProbe
<1>2. LockInv /\ [Next]_vars =>
        [\A g, h \in Handle :
           SelectProbe(h, FALSE) /\ ResourceOf[g] = ResourceOf[h]
             => ~Holds(g)]_vars
  BY <1>1
<1> QED
  BY <1>2, LockInvariant, PTL DEF FreeMeansFree, Spec

-----------------------------------------------------------------------------
(* Refinement. *)

\* The handles and their table implement the lease mutex.
THEOREM Refinement ==
  ASSUME DistinctAgents
  PROVE  Spec => ImplementsLeaseMutex
<1>1. Init => Abstract!Init
  BY DEF Init, Abstract!Init
<1>2. LockInv /\ [Next]_vars => [Abstract!Next]_(Abstract!vars)
  <2> SUFFICES ASSUME LockInv, [Next]_vars
               PROVE  [Abstract!Next]_(Abstract!vars)
    OBVIOUS
  <2> USE DEF Abstract!vars
  <2>0. TypeOK /\ NowIsPast
    BY DEF LockInv
  <2>1. CASE Tick
    BY <2>1 DEF Tick, Abstract!Tick, Abstract!Next
  <2>2. ASSUME NEW h \in Handle, TxnAcquired(h)
        PROVE  Abstract!Next
    <3> DEFINE until == now[h] + TtlOf[h]
    <3>1. until \in 0..MaxClock + TtlOf[h] /\ until <= clock + TtlOf[h]
      BY <2>0 DEF TypeOK, NowIsPast
    <3>2. \A g \in Handle : ResourceOf[g] = ResourceOf[h] => ~Abstract!Holds(g)
      BY <2>2, GrantMeetsNoHolder DEF Abstract!Holds, Holds
    <3>3. Abstract!Grant(h, until)
      BY <2>2, <3>1, <3>2 DEF TxnAcquired, Abstract!Grant
    <3> QED
      BY <3>1, <3>3 DEF Abstract!Next
  <2>3. ASSUME NEW h \in Handle, Release(h) \/ Crash(h)
        PROVE  Abstract!Next
    BY <2>3 DEF Release, Crash, Abstract!GiveBack, Abstract!Next
  <2>4. ASSUME NEW h \in Handle, HandleStep(h),
               ~TxnAcquired(h), ~Release(h), ~Crash(h)
        PROVE  UNCHANGED Abstract!vars
    BY <2>4 DEF HandleStep, AcquireStep, CallAcquire, ReadNow, TxnRefused,
                TxnBusy, GiveUp, Retry, ReadProbe, SelectProbe
  <2>5. CASE UNCHANGED vars
    BY <2>5 DEF vars
  <2> QED
    BY <2>1, <2>2, <2>3, <2>4, <2>5 DEF Next
<1> QED
  BY <1>1, <1>2, LockInvariant, PTL
     DEF Spec, ImplementsLeaseMutex, Abstract!Spec
=============================================================================
