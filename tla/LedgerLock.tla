----------------------------- MODULE LedgerLock -----------------------------
(***************************************************************************)
(* The advisory mutex of os_manager/ledger/lock.py: DistributedLock        *)
(* handles, in processes of their own, contend for rows of the SQLite      *)
(* table "locks".  A handle reads the wall clock first and only then opens *)
(* the transaction that deletes an expired row and inserts its own, so the *)
(* clock may run on (SQLite makes a writer wait for up to ten seconds)     *)
(* between the time that goes into the row and the row itself.             *)
(*                                                                         *)
(* Time is one shared clock of whole units, advanced by Tick.  The 0.05 s  *)
(* sleep between two attempts is shorter than a unit and is left out.      *)
(***************************************************************************)
EXTENDS Integers

CONSTANTS
  Handle,      \* DistributedLock objects, in any number of processes
  Agent,       \* values of agent_id
  Resource,    \* values of resource_id
  AgentOf,     \* AgentOf[h]: the agent_id handle h was made with
  ResourceOf,  \* ResourceOf[h]: its resource_id
  TtlOf,       \* TtlOf[h]: its ttl_seconds
  Timeout,     \* the timeout argument of a blocking acquire
  MaxClock     \* bound: the clock stops here

ASSUME ConfigAssumption ==
  /\ AgentOf \in [Handle -> Agent]
  /\ ResourceOf \in [Handle -> Resource]
  /\ TtlOf \in [Handle -> Nat]
  /\ Timeout \in Nat
  /\ MaxClock \in Nat

VARIABLES
  clock,     \* time.time()
  locks,     \* rows of the table locks
  pc,        \* where each handle is in acquire() or is_locked()
  blocking,  \* the argument of the acquire in progress
  start,     \* its local start
  now,       \* its local now (is_locked has one too)
  acquired,  \* the attribute _acquired
  lease      \* history: expires_at of the row that made _acquired true

vars == <<clock, locks, pc, blocking, start, now, acquired, lease>>

PcValues == {"idle", "loop", "txn", "failed", "select"}
LockRow == [resource: Resource, holder: Agent, expires: Nat]

TypeOK ==
  /\ clock \in 0..MaxClock
  /\ locks \subseteq LockRow
  /\ pc \in [Handle -> PcValues]
  /\ blocking \in [Handle -> BOOLEAN]
  /\ start \in [Handle -> Nat]
  /\ now \in [Handle -> Nat]
  /\ acquired \in [Handle -> BOOLEAN]
  /\ lease \in [Handle -> Nat]

Init ==
  /\ clock = 0
  /\ locks = {}
  /\ pc = [h \in Handle |-> "idle"]
  /\ blocking = [h \in Handle |-> FALSE]
  /\ start = [h \in Handle |-> 0]
  /\ now = [h \in Handle |-> 0]
  /\ acquired = [h \in Handle |-> FALSE]
  /\ lease = [h \in Handle |-> 0]

-----------------------------------------------------------------------------
(* The statements of the transactions. *)

\* Mutant: a row that expires at this very moment is deleted too.
AfterExpiry_Inclusive(r, t) == {l \in locks : ~(l.resource = r /\ l.expires <= t)}

\* DELETE FROM locks WHERE resource_id = ? AND expires_at < ?
AfterExpiry(r, t) == {l \in locks : ~(l.resource = r /\ l.expires < t)}

\* resource_id is the primary key: INSERT fails when a row has it.
Taken(rows, r) == \E l \in rows : l.resource = r

\* The row INSERTed: expires_at is computed from the local now.
NewRow(h) == [resource |-> ResourceOf[h], holder |-> AgentOf[h],
              expires |-> now[h] + TtlOf[h]]

\* Mutant: the release does not look at the holder.
AfterRelease_AnyHolder(h) == {l \in locks : l.resource # ResourceOf[h]}

\* DELETE FROM locks WHERE resource_id = ? AND holder_agent_id = ?
AfterRelease(h) == {l \in locks : ~(l.resource = ResourceOf[h]
                                    /\ l.holder = AgentOf[h])}

\* Mutant: the last moment of a lease does not count.
LiveRowAt_Strict(r, t) == \E l \in locks : l.resource = r /\ l.expires > t

\* SELECT 1 FROM locks WHERE resource_id = ? AND expires_at >= ?
LiveRowAt(r, t) == \E l \in locks : l.resource = r /\ l.expires >= t

\* A call returns or raises; its locals are gone.
Return(h) ==
  /\ pc' = [pc EXCEPT ![h] = "idle"]
  /\ start' = [start EXCEPT ![h] = 0]
  /\ now' = [now EXCEPT ![h] = 0]
  /\ blocking' = [blocking EXCEPT ![h] = FALSE]

-----------------------------------------------------------------------------
(* acquire() *)

\* acquire(blocking) is called and reads start.
CallAcquire(h) ==
  /\ pc[h] = "idle"
  /\ \E b \in BOOLEAN : blocking' = [blocking EXCEPT ![h] = b]
  /\ start' = [start EXCEPT ![h] = clock]
  /\ pc' = [pc EXCEPT ![h] = "loop"]
  /\ UNCHANGED <<clock, locks, now, acquired, lease>>

\* The head of the loop reads now, before it connects to the database.
ReadNow(h) ==
  /\ pc[h] = "loop"
  /\ now' = [now EXCEPT ![h] = clock]
  /\ pc' = [pc EXCEPT ![h] = "txn"]
  /\ UNCHANGED <<clock, locks, blocking, start, acquired, lease>>

\* Mutant: INSERT OR REPLACE.
TxnAcquired_Replaces(h) ==
  /\ pc[h] = "txn"
  /\ locks' = {l \in locks : l.resource # ResourceOf[h]} \cup {NewRow(h)}
  /\ acquired' = [acquired EXCEPT ![h] = TRUE]
  /\ lease' = [lease EXCEPT ![h] = now[h] + TtlOf[h]]
  /\ Return(h)
  /\ UNCHANGED clock

\* One transaction: the expired row goes and ours is inserted.
TxnAcquired(h) ==
  LET rows == AfterExpiry(ResourceOf[h], now[h]) IN
  /\ pc[h] = "txn"
  /\ ~Taken(rows, ResourceOf[h])
  /\ locks' = rows \cup {NewRow(h)}
  /\ acquired' = [acquired EXCEPT ![h] = TRUE]
  /\ lease' = [lease EXCEPT ![h] = now[h] + TtlOf[h]]
  /\ Return(h)
  /\ UNCHANGED clock

\* The INSERT raises; the exception is swallowed and the DELETE commits.
TxnRefused(h) ==
  LET rows == AfterExpiry(ResourceOf[h], now[h]) IN
  /\ pc[h] = "txn"
  /\ Taken(rows, ResourceOf[h])
  /\ locks' = rows
  /\ pc' = [pc EXCEPT ![h] = "failed"]
  /\ UNCHANGED <<clock, blocking, start, now, acquired, lease>>

\* The busy timeout of the connection runs out: "database is locked" is
\* raised by the DELETE, outside the try, and leaves acquire.
TxnBusy(h) ==
  /\ pc[h] = "txn"
  /\ Return(h)
  /\ UNCHANGED <<clock, locks, acquired, lease>>

\* Mutant: the timeout is forgotten.
GiveUp_NonBlockingOnly(h) ==
  /\ pc[h] = "failed"
  /\ ~blocking[h]
  /\ Return(h)
  /\ UNCHANGED <<clock, locks, acquired, lease>>

\* A failed attempt ends the call when it may not wait or has waited enough.
GiveUp(h) ==
  /\ pc[h] = "failed"
  /\ ~blocking[h] \/ clock - start[h] >= Timeout
  /\ Return(h)
  /\ UNCHANGED <<clock, locks, acquired, lease>>

\* Otherwise it sleeps and goes round again.
Retry(h) ==
  /\ pc[h] = "failed"
  /\ blocking[h] /\ clock - start[h] < Timeout
  /\ pc' = [pc EXCEPT ![h] = "loop"]
  /\ UNCHANGED <<clock, locks, blocking, start, now, acquired, lease>>

-----------------------------------------------------------------------------
(* release(), is_locked(), crashes and time *)

\* Mutant: the released lease is marked with a time that is none.
Release_Sentinel(h) ==
  /\ pc[h] = "idle"
  /\ locks' = AfterRelease(h)
  /\ acquired' = [acquired EXCEPT ![h] = FALSE]
  /\ lease' = [lease EXCEPT ![h] = -1]
  /\ UNCHANGED <<clock, pc, blocking, start, now>>

\* release() deletes by agent and looks at nothing else, _acquired included.
Release(h) ==
  /\ pc[h] = "idle"
  /\ locks' = AfterRelease(h)
  /\ acquired' = [acquired EXCEPT ![h] = FALSE]
  /\ lease' = [lease EXCEPT ![h] = 0]
  /\ UNCHANGED <<clock, pc, blocking, start, now>>

\* is_locked() reads now ...
ReadProbe(h) ==
  /\ pc[h] = "idle"
  /\ now' = [now EXCEPT ![h] = clock]
  /\ pc' = [pc EXCEPT ![h] = "select"]
  /\ UNCHANGED <<clock, locks, blocking, start, acquired, lease>>

\* ... then asks the database and returns whether there was a row.
SelectProbe(h, locked) ==
  /\ pc[h] = "select"
  /\ locked = LiveRowAt(ResourceOf[h], now[h])
  /\ Return(h)
  /\ UNCHANGED <<clock, locks, acquired, lease>>

\* The process of h dies: its row, if any, stays until it expires.
Crash(h) ==
  /\ Return(h)
  /\ acquired' = [acquired EXCEPT ![h] = FALSE]
  /\ lease' = [lease EXCEPT ![h] = 0]
  /\ UNCHANGED <<clock, locks>>

Tick ==
  /\ clock < MaxClock
  /\ clock' = clock + 1
  /\ UNCHANGED <<locks, pc, blocking, start, now, acquired, lease>>

AcquireStep(h) ==
  \/ ReadNow(h) \/ TxnAcquired(h) \/ TxnRefused(h) \/ GiveUp(h) \/ Retry(h)

HandleStep(h) ==
  \/ CallAcquire(h) \/ AcquireStep(h) \/ TxnBusy(h)
  \/ Release(h) \/ ReadProbe(h) \/ Crash(h)
  \/ \E locked \in BOOLEAN : SelectProbe(h, locked)

Next == Tick \/ \E h \in Handle : HandleStep(h)

Spec == Init /\ [][Next]_vars

\* A process in a call keeps running and time passes; nobody is obliged to
\* call, to release or to crash.
FairSpec == Spec /\ WF_vars(Tick)
                 /\ \A h \in Handle : WF_vars(AcquireStep(h))

\* The handles used as "with" uses them: __exit__ releases what __enter__
\* acquired, so a handle that never held the lock does not release it.
WithStep == Next /\ \A h \in Handle : Release(h) => acquired[h]
WithSpec == Init /\ [][WithStep]_vars

-----------------------------------------------------------------------------
(* Properties *)

\* h was told it holds its resource and, by the clock, its lease still runs.
Holds(h) == acquired[h] /\ lease[h] >= clock

\* Two handles never hold the same resource at once, although each stamps
\* its row with a time read before the transaction (acquire, lock.py:30-51).
MutualExclusion ==
  \A g, h \in Handle :
    g # h /\ ResourceOf[g] = ResourceOf[h] => ~(Holds(g) /\ Holds(h))

\* The same of two agents: that two sessions of one agent share a resource
\* is no harm, that two agents do is what the lock is there to prevent.
AgentsExclude ==
  \A g, h \in Handle :
    AgentOf[g] # AgentOf[h] /\ ResourceOf[g] = ResourceOf[h]
      => ~(Holds(g) /\ Holds(h))

\* Whoever holds a resource has the row of it: nobody's expiry clean-up and
\* nobody's release took a running lease away (lock.py:36-39, 68-71).
HolderHasRow ==
  \A h \in Handle : Holds(h) =>
    [resource |-> ResourceOf[h], holder |-> AgentOf[h],
     expires |-> lease[h]] \in locks

\* The time in an attempt is never ahead of the clock, so no clean-up can
\* remove a row that has not expired.
NowIsPast == \A h \in Handle : now[h] <= clock

\* The inductive invariant behind MutualExclusion.
LockInv ==
  /\ TypeOK
  /\ NowIsPast
  /\ HolderHasRow
  /\ \A k, l \in locks : k.resource = l.resource => k = l

\* is_locked() returns False only when nobody holds the resource, although
\* the time it compares with was read before (lock.py:78-85).
FreeMeansFree ==
  [][\A g, h \in Handle :
       SelectProbe(h, FALSE) /\ ResourceOf[g] = ResourceOf[h] => ~Holds(g)]_vars

\* The handles of one resource belong to different agents.
DistinctAgents ==
  \A g, h \in Handle :
    g # h /\ ResourceOf[g] = ResourceOf[h] => AgentOf[g] # AgentOf[h]

\* The table, the locals and the retries implement the lease mutex: a grant
\* is made only when nobody holds the resource, whatever the order in which
\* the attempts, the clean-ups, the releases and the deaths come.
Abstract == INSTANCE LeaseMutex WITH
    Handle <- Handle, ResourceOf <- ResourceOf, TtlOf <- TtlOf,
    MaxClock <- MaxClock, clock <- clock, acquired <- acquired,
    lease <- lease
ImplementsLeaseMutex == Abstract!Spec

\* A blocking acquire returns once its timeout is over, whatever the other
\* handles do and whoever died with the lock (lock.py:59-60).
AcquireReturns ==
  \A h \in Handle :
    (pc[h] \in {"loop", "txn", "failed"} /\ start[h] + Timeout <= MaxClock)
      ~> pc[h] = "idle"
=============================================================================
