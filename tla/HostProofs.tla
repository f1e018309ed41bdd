----------------------------- MODULE HostProofs -----------------------------
(***************************************************************************)
(* Proofs about the components of Host, for any values of their constants. *)
(* A behaviour is one component's, so each theorem rests on an inductive   *)
(* invariant of that component alone.                                      *)
(***************************************************************************)
EXTENDS Host, FiniteSetTheorems, SequenceTheorems, TLAPS

\* A behaviour stays with its component, whose steps it makes.
LEMMA OneComponent ==
  [HostNext]_all =>
    /\ which' = which
    /\ which = "kernel" => [K!Next]_kernelVars
    /\ which = "fstab" => [M!Next]_fstabVars
    /\ which = "desktop" => [D!Next]_desktopVars
    /\ which = "zram" => [Z!Next]_zramVars
    /\ which = "scx" => [X!Next]_scxVars
    /\ which = "ai" => [A!Next]_aiVars
    /\ which = "metrics" => [E!Next]_metricsVars
BY DEF HostNext, all

\* What a sequence is after its first element.
LEMMA TailOf ==
  ASSUME NEW S, NEW s \in Seq(S), s # <<>>
  PROVE  /\ Head(s) = s[1] /\ s[1] \in S
         /\ Tail(s) \in Seq(S)
         /\ Len(s) \in Nat \ {0} /\ Len(Tail(s)) = Len(s) - 1
         /\ DOMAIN s = 1..Len(s) /\ DOMAIN Tail(s) = 1..(Len(s) - 1)
         /\ \A i \in 1..(Len(s) - 1) : Tail(s)[i] = s[i + 1]
BY HeadTailProperties, LenProperties, EmptySeq

-----------------------------------------------------------------------------
(* FstabMigration *)

\* As long as no migration has truncated fstab it is the original, and so are
\* the copies made; from then on the copy of the one that did is.
FirstEntrySaved ==
  \/ \E m \in Migration : fstab_backup[m] = fstab_orig
  \/ fstab_fstab = fstab_orig /\ \A m \in Migration : fstab_backup[m] = "none"

\* A migration makes its backup once, and before it opens fstab.
BackupFirst ==
  \A m \in Migration :
    fstab_job[m].pc \in {"open", "write", "umount", "mount", "restore", "refill"}
      => fstab_backup[m] # "none"

BackupOnce ==
  \A m \in Migration : fstab_job[m].pc \in {"call", "backup"} => fstab_backup[m] = "none"

FstabType ==
  /\ fstab_orig \in M!Entry
  /\ fstab_fstab \in M!Entry \cup {"empty"}
  /\ fstab_backup \in [Migration -> M!Entry \cup {"none", "empty"}]
  /\ fstab_job \in [Migration ->
       [pc : {"call", "already_migrated", "backup", "open", "write", "umount", "failed", "mount",
              "pending_reboot", "migrated", "restore", "refill", "rolled_back"},
        read : M!Entry \cup {"empty"}, hardened : BOOLEAN]]

FstabInv == FstabType /\ FirstEntrySaved /\ BackupFirst /\ BackupOnce

\* No step of any migration loses the first entry.
LEMMA FstabStep == FstabInv /\ [M!Next]_fstabVars => FstabInv'
<1> SUFFICES ASSUME FstabInv, [M!Next]_fstabVars PROVE FstabInv'
  OBVIOUS
<1> USE DEF FstabInv, FstabType, FirstEntrySaved, BackupFirst, BackupOnce, M!Entry
<1>1. ASSUME NEW m \in Migration, M!Read(m)
      PROVE  FstabInv'
  BY <1>1 DEF M!Read, M!At
<1>2. ASSUME NEW m \in Migration, M!CopyBackup(m)
      PROVE  FstabInv'
  BY <1>2 DEF M!CopyBackup, M!At, M!To
<1>3. ASSUME NEW m \in Migration, M!Truncate(m) \/ M!TruncateForRestore(m)
      PROVE  FstabInv'
  BY <1>3 DEF M!Truncate, M!TruncateForRestore, M!At, M!To
<1>4. ASSUME NEW m \in Migration, M!WriteEntry(m)
      PROVE  FstabInv'
  <2>1. fstab_fstab' \in M!Entry \cup {"empty"}
    BY <1>4 DEF M!WriteEntry, M!NewEntry
  <2> QED
    BY <1>4, <2>1 DEF M!WriteEntry, M!At, M!To
<1>5. ASSUME NEW m \in Migration,
             M!Fails(m) \/ M!Umount(m) \/ M!UmountRefused(m) \/ M!Mount(m) \/ M!MountFails(m)
      PROVE  FstabInv'
  BY <1>5 DEF M!Fails, M!Umount, M!UmountRefused, M!Mount, M!MountFails, M!At, M!To
<1>6. ASSUME NEW m \in Migration, M!Restore(m)
      PROVE  FstabInv'
  BY <1>6 DEF M!Restore, M!At, M!To
<1>7. CASE UNCHANGED fstabVars
  BY <1>7 DEF fstabVars
<1> QED
  BY <1>1, <1>2, <1>3, <1>4, <1>5, <1>6, <1>7 DEF M!Next

\* For any number of migrations, in any order and with any failures, the entry
\* that was there first is in fstab or in a backup (migrate_ntfs_driver).
THEOREM FirstEntryKept == HostSpec => []OriginalEntryKept
<1> DEFINE I == which = "fstab" => FstabInv
<1>1. HostInit => I
  BY DEF HostInit, M!Init, FstabInv, FstabType, FirstEntrySaved, BackupFirst, BackupOnce, M!Entry
<1>2. I /\ [HostNext]_all => I'
  BY OneComponent, FstabStep
<1>3. I => OriginalEntryKept
  BY DEF FstabInv, FirstEntrySaved, OriginalEntryKept, M!OriginalEntryKept
<1> QED
  BY <1>1, <1>2, <1>3, PTL DEF HostSpec

-----------------------------------------------------------------------------
(* Scx *)

\* What a call may have before it.
ScxStep ==
  [op : {"truncate", "fill", "reload", "restart", "spawn", "enable", "stop", "pkill", "disable"},
   arg : ScxProfile \cup {"unit", "scx.service", "scx_"}]

\* What follows what: a file that is written is loaded, and then the service is
\* restarted; the service is stopped before the processes are.
InOrder(s) ==
  \A i \in DOMAIN s :
    /\ s[i].op = "truncate" => i + 1 \in DOMAIN s /\ s[i + 1].op = "fill"
    /\ s[i].op = "fill" => i + 1 \in DOMAIN s /\ s[i + 1].op = "reload" /\ s[i].arg \in ScxProfile
    /\ s[i].op = "reload" => i + 1 \in DOMAIN s /\ s[i + 1].op = "restart"
    /\ s[i].op = "stop" => i + 1 \in DOMAIN s /\ s[i + 1].op = "pkill"

StopsOnly(s) == \A i \in DOMAIN s : s[i].op \in {"stop", "pkill", "disable"}

ScxTodo == {s \in Seq(ScxStep) : InOrder(s)}
ScxRun == [todo : ScxTodo, promise : {"none", "stop", "disable"}]
ScxService == [state : {"inactive", "active", "waiting"}, profile : ScxProfile \cup {"none"}]

ScxType ==
  /\ scx_unitfile \in ScxProfile \cup {"none", "torn"}
  /\ scx_loaded \in ScxProfile \cup {"none", "torn"}
  /\ scx_service \in ScxService
  /\ scx_job \in [ScxCall -> ScxRun]

XTodo(r) == scx_job[r].todo
Has(r, op) == \E i \in DOMAIN XTodo(r) : XTodo(r)[i].op = op
Due(r, op) == XTodo(r) # <<>> /\ XTodo(r)[1].op = op

\* What the steps that a stop or disable has behind it have brought about.
Stopped(r) ==
  /\ StopsOnly(XTodo(r))
  /\ ~Has(r, "stop") => scx_service.state = "inactive" /\ scx_attached.by # "service"
  /\ ~Has(r, "pkill") => scx_attached = X!Nobody
  /\ scx_job[r].promise = "disable" /\ ~Has(r, "disable") => ~scx_enabled

\* A start that is between its write and its reload will bring what systemd has
\* loaded to what the file says; one before its restart, the service to that.
UnitInStep ==
  ~scx_suspect =>
    /\ scx_unitfile \notin ScxProfile =>
         \/ \E r \in ScxCall : Due(r, "fill")
         \/ scx_loaded = scx_unitfile /\ scx_service.state # "active"
    /\ scx_loaded # scx_unitfile => \E r \in ScxCall : Due(r, "fill") \/ Due(r, "reload")
    /\ scx_service.state = "active" /\ scx_loaded \notin ScxProfile =>
         \E r \in ScxCall : Due(r, "fill") \/ Due(r, "reload")
    /\ scx_service.state = "active" /\ scx_service.profile # scx_loaded =>
         \E r \in ScxCall : Due(r, "fill") \/ Due(r, "reload") \/ Due(r, "restart")

ScxInv ==
  /\ ScxType
  /\ \A r \in ScxCall : scx_job[r].promise # "none" => Stopped(r)
  /\ UnitInStep

\* The steps that are left after the first.
LEMMA ScxRest ==
  ASSUME NEW s \in ScxTodo, s # <<>>
  PROVE  /\ Head(s) = s[1] /\ s[1] \in ScxStep /\ Tail(s) \in ScxTodo
         /\ DOMAIN s = 1..Len(s) /\ 1 \in DOMAIN s
         /\ \A op : op # s[1].op =>
              ((\E i \in DOMAIN s : s[i].op = op) <=> \E i \in DOMAIN Tail(s) : Tail(s)[i].op = op)
         /\ s[1].op = "truncate" => Tail(s) # <<>> /\ Tail(s)[1].op = "fill"
         /\ s[1].op = "fill" => Tail(s) # <<>> /\ Tail(s)[1].op = "reload" /\ s[1].arg \in ScxProfile
         /\ s[1].op = "reload" => Tail(s) # <<>> /\ Tail(s)[1].op = "restart"
         /\ (\E i \in DOMAIN s : s[i].op = "stop") => \E i \in DOMAIN Tail(s) : Tail(s)[i].op = "pkill"
<1>1. s \in Seq(ScxStep) /\ InOrder(s)
  BY DEF ScxTodo
<1>2. /\ Head(s) = s[1] /\ s[1] \in ScxStep /\ Tail(s) \in Seq(ScxStep)
      /\ Len(s) \in Nat \ {0} /\ DOMAIN s = 1..Len(s) /\ 1 \in DOMAIN s
      /\ DOMAIN Tail(s) = 1..(Len(s) - 1)
      /\ \A i \in 1..(Len(s) - 1) : Tail(s)[i] = s[i + 1]
  BY <1>1, TailOf
<1> DEFINE t == Tail(s)
<1> HIDE DEF t
<1>3. \A i \in DOMAIN t : i + 1 \in DOMAIN s /\ t[i] = s[i + 1]
  BY <1>2 DEF t
<1>4. \A i \in DOMAIN s : i # 1 => i - 1 \in DOMAIN t /\ t[i - 1] = s[i]
  BY <1>2 DEF t
<1>5. InOrder(t)
  <2>1. \A i \in DOMAIN t : i + 2 \in DOMAIN s => i + 1 \in DOMAIN t /\ t[i + 1] = s[i + 2]
    BY <1>2 DEF t
  <2>2. \A i \in DOMAIN t : (i + 1) + 1 = i + 2
    BY <1>2 DEF t
  <2> QED
    BY <1>1, <1>3, <2>1, <2>2 DEF InOrder
<1>6. \A op : op # s[1].op => ((\E i \in DOMAIN s : s[i].op = op) <=> \E i \in DOMAIN t : t[i].op = op)
  BY <1>3, <1>4
<1>7. \A i \in DOMAIN s : s[i].op = "stop" => i + 1 \in DOMAIN s /\ i + 1 # 1 /\ s[i + 1].op = "pkill"
  BY <1>1, <1>2 DEF InOrder
<1>8. ASSUME 2 \in DOMAIN s
      PROVE  t # <<>> /\ t[1] = s[2]
  <2>1. 1 \in DOMAIN t
    BY <1>2, <1>8 DEF t
  <2>2. 1 + 1 = 2 /\ DOMAIN <<>> = {}
    OBVIOUS
  <2> QED
    BY <1>3, <2>1, <2>2
<1>9. /\ s[1].op = "truncate" => 2 \in DOMAIN s /\ s[2].op = "fill"
      /\ s[1].op = "fill" => 2 \in DOMAIN s /\ s[2].op = "reload" /\ s[1].arg \in ScxProfile
      /\ s[1].op = "reload" => 2 \in DOMAIN s /\ s[2].op = "restart"
  BY <1>1, <1>2 DEF InOrder
<1>10. (\E i \in DOMAIN s : s[i].op = "stop") => \E i \in DOMAIN t : t[i].op = "pkill"
  BY <1>4, <1>7, ZenonT(60)
<1> QED
  BY <1>2, <1>5, <1>6, <1>8, <1>9, <1>10 DEF t, ScxTodo

\* Lists of steps that are written out.
LEMMA ScxListed ==
  ASSUME NEW a \in ScxStep, NEW b \in ScxStep, NEW c \in ScxStep, NEW d \in ScxStep
  PROVE  /\ a.op \in {"spawn"} => <<a>> \in ScxTodo
         /\ a.op = "stop" /\ b.op = "pkill" => <<a, b>> \in ScxTodo
         /\ a.op = "truncate" /\ b.op = "fill" /\ b.arg \in ScxProfile /\ c.op = "reload"
              /\ d.op = "restart" => <<a, b, c, d>> \in ScxTodo
<1>1. ASSUME a.op = "spawn"
      PROVE  <<a>> \in ScxTodo
  <2>1. <<a>> \in Seq(ScxStep) /\ DOMAIN <<a>> = {1} /\ <<a>>[1] = a
    OBVIOUS
  <2> QED
    BY <1>1, <2>1 DEF ScxTodo, InOrder
<1>2. ASSUME a.op = "stop", b.op = "pkill"
      PROVE  <<a, b>> \in ScxTodo
  <2> DEFINE s == <<a, b>>
  <2>1. s \in Seq(ScxStep) /\ DOMAIN s = {1, 2} /\ s[1] = a /\ s[2] = b
    OBVIOUS
  <2> HIDE DEF s
  <2>2. InOrder(s)
    BY <1>2, <2>1 DEF InOrder
  <2> QED
    BY <2>1, <2>2 DEF ScxTodo, s
<1>3. ASSUME a.op = "truncate", b.op = "fill", b.arg \in ScxProfile, c.op = "reload", d.op = "restart"
      PROVE  <<a, b, c, d>> \in ScxTodo
  <2> DEFINE s == <<a, b, c, d>>
  <2>1. /\ s \in Seq(ScxStep) /\ DOMAIN s = {1, 2, 3, 4}
        /\ s[1] = a /\ s[2] = b /\ s[3] = c /\ s[4] = d
    OBVIOUS
  <2> HIDE DEF s
  <2>2. InOrder(s)
    BY <1>3, <2>1 DEF InOrder
  <2> QED
    BY <2>1, <2>2 DEF ScxTodo, s
<1> QED
  BY <1>1, <1>2, <1>3

\* A last step that calls for none after it.
LEMMA ScxAppend ==
  ASSUME NEW s \in ScxTodo, NEW a \in ScxStep, a.op = "enable"
  PROVE  s \o <<a>> \in ScxTodo
<1> DEFINE l == <<a>>
           t == s \o l
<1>1. s \in Seq(ScxStep) /\ Len(s) \in Nat /\ DOMAIN s = 1..Len(s) /\ InOrder(s)
  BY LenProperties DEF ScxTodo
<1>2. l \in Seq(ScxStep) /\ Len(l) = 1 /\ l[1] = a
  OBVIOUS
<1> HIDE DEF l
<1>3. /\ t \in Seq(ScxStep) /\ Len(t) = Len(s) + 1
      /\ \A i \in 1..(Len(s) + 1) : t[i] = IF i <= Len(s) THEN s[i] ELSE l[i - Len(s)]
  BY <1>1, <1>2, ConcatProperties
<1>4. DOMAIN t = 1..(Len(s) + 1)
  BY <1>3, LenProperties
<1> HIDE DEF t
<1>5. \A i \in DOMAIN s : i \in DOMAIN t /\ t[i] = s[i]
  BY <1>1, <1>3, <1>4
<1>6. \A i \in DOMAIN t : i \notin DOMAIN s => t[i] = a
  BY <1>1, <1>2, <1>3, <1>4
<1>7. InOrder(t)
  <2> SUFFICES ASSUME NEW i \in DOMAIN t, i \in DOMAIN s
               PROVE  /\ t[i].op = "truncate" => i + 1 \in DOMAIN t /\ t[i + 1].op = "fill"
                      /\ t[i].op = "fill" => i + 1 \in DOMAIN t /\ t[i + 1].op = "reload" /\ t[i].arg \in ScxProfile
                      /\ t[i].op = "reload" => i + 1 \in DOMAIN t /\ t[i + 1].op = "restart"
                      /\ t[i].op = "stop" => i + 1 \in DOMAIN t /\ t[i + 1].op = "pkill"
    BY <1>6 DEF InOrder
  <2> QED
    BY <1>1, <1>5 DEF InOrder
<1> QED
  BY <1>3, <1>7 DEF ScxTodo, t, l

\* A first step that calls for none after it.
LEMMA ScxPrepend ==
  ASSUME NEW s \in ScxTodo, NEW a \in ScxStep, a.op = "disable"
  PROVE  /\ <<a>> \o s \in ScxTodo
         /\ \E i \in DOMAIN (<<a>> \o s) : (<<a>> \o s)[i].op = "disable"
         /\ StopsOnly(s) => StopsOnly(<<a>> \o s)
         /\ \A op : (\E i \in DOMAIN s : s[i].op = op)
              => \E i \in DOMAIN (<<a>> \o s) : (<<a>> \o s)[i].op = op
<1> DEFINE l == <<a>>
           t == l \o s
<1>1. s \in Seq(ScxStep) /\ Len(s) \in Nat /\ DOMAIN s = 1..Len(s) /\ InOrder(s)
  BY LenProperties DEF ScxTodo
<1>2. l \in Seq(ScxStep) /\ Len(l) = 1 /\ l[1] = a
  OBVIOUS
<1> HIDE DEF l
<1>3. /\ t \in Seq(ScxStep) /\ Len(t) = 1 + Len(s)
      /\ \A i \in 1..(1 + Len(s)) : t[i] = IF i <= 1 THEN l[i] ELSE s[i - 1]
  <2>1. /\ t \in Seq(ScxStep) /\ Len(t) = Len(l) + Len(s)
        /\ \A i \in 1..(Len(l) + Len(s)) : t[i] = IF i <= Len(l) THEN l[i] ELSE s[i - Len(l)]
    BY <1>1, <1>2, ConcatProperties
  <2> QED
    BY <1>2, <2>1
<1>4. DOMAIN t = 1..(1 + Len(s))
  BY <1>3, LenProperties
<1> HIDE DEF t
<1>5. \A i \in DOMAIN s : i + 1 \in DOMAIN t /\ t[i + 1] = s[i]
  BY <1>1, <1>3, <1>4
<1>6. 1 \in DOMAIN t /\ t[1] = a /\ \A i \in DOMAIN t : i # 1 => i - 1 \in DOMAIN s /\ t[i] = s[i - 1]
  BY <1>1, <1>2, <1>3, <1>4
<1>7. InOrder(t)
  <2> SUFFICES ASSUME NEW i \in DOMAIN t, i # 1
               PROVE  /\ t[i].op = "truncate" => i + 1 \in DOMAIN t /\ t[i + 1].op = "fill"
                      /\ t[i].op = "fill" => i + 1 \in DOMAIN t /\ t[i + 1].op = "reload" /\ t[i].arg \in ScxProfile
                      /\ t[i].op = "reload" => i + 1 \in DOMAIN t /\ t[i + 1].op = "restart"
                      /\ t[i].op = "stop" => i + 1 \in DOMAIN t /\ t[i + 1].op = "pkill"
    BY <1>6 DEF InOrder
  <2>1. i - 1 \in DOMAIN s /\ t[i] = s[i - 1]
    BY <1>6
  <2>2. i \in DOMAIN s => i + 1 \in DOMAIN t /\ t[i + 1] = s[i]
    BY <1>5
  <2>3. (i - 1) + 1 = i
    BY <1>4
  <2> QED
    BY <1>1, <2>1, <2>2, <2>3 DEF InOrder
<1>8. \A op : (\E i \in DOMAIN s : s[i].op = op) => \E i \in DOMAIN t : t[i].op = op
  BY <1>5
<1>11. StopsOnly(s) => StopsOnly(t)
  BY <1>6 DEF StopsOnly
<1>9. \E i \in DOMAIN t : t[i].op = "disable"
  BY <1>6
<1>10. t \in ScxTodo
  BY <1>3, <1>7 DEF ScxTodo
<1> QED
  BY <1>8, <1>9, <1>10, <1>11 DEF t, l

\* The lists of steps that calls begin with.
LEMMA ScxPrograms ==
  /\ <<>> \in ScxTodo
  /\ \A p \in ScxProfile :
       X!StartSteps(p) \in ScxTodo /\ X!RuntimeSteps(p) \in ScxTodo /\ X!EnableSteps(p) \in ScxTodo
  /\ X!StopSteps \in ScxTodo /\ X!DisableSteps \in ScxTodo
  /\ StopsOnly(X!StopSteps) /\ StopsOnly(X!DisableSteps)
  /\ \A op \in {"stop", "pkill"} : \E i \in DOMAIN X!StopSteps : X!StopSteps[i].op = op
  /\ \A op \in {"stop", "pkill", "disable"} :
       \E i \in DOMAIN X!DisableSteps : X!DisableSteps[i].op = op
<1>1. /\ \A p \in ScxProfile :
           /\ X!Op("fill", p) \in ScxStep /\ X!Op("fill", p).op = "fill" /\ X!Op("fill", p).arg = p
           /\ X!Op("spawn", p) \in ScxStep /\ X!Op("spawn", p).op = "spawn"
      /\ X!Op("truncate", "unit") \in ScxStep /\ X!Op("truncate", "unit").op = "truncate"
      /\ X!Op("pkill", "scx_") \in ScxStep /\ X!Op("pkill", "scx_").op = "pkill"
      /\ \A op \in {"reload", "restart", "enable", "stop", "disable"} :
           X!Systemctl(op) \in ScxStep /\ X!Systemctl(op).op = op
  BY DEF X!Op, X!Systemctl, ScxStep
<1>2. <<>> \in ScxTodo
  BY EmptySeq DEF ScxTodo, InOrder
<1>3. ASSUME NEW p \in ScxProfile
      PROVE  X!RuntimeSteps(p) \in ScxTodo
  BY <1>1, ScxListed DEF X!RuntimeSteps
<1>4. ASSUME NEW p \in ScxProfile
      PROVE  X!StartSteps(p) \in ScxTodo
  BY <1>1, ScxListed DEF X!StartSteps
<1>5. ASSUME NEW p \in ScxProfile
      PROVE  X!EnableSteps(p) \in ScxTodo
  BY <1>1, <1>4, ScxAppend DEF X!EnableSteps
<1>6. /\ X!StopSteps \in ScxTodo
      /\ StopsOnly(X!StopSteps)
      /\ \A op \in {"stop", "pkill"} : \E i \in DOMAIN X!StopSteps : X!StopSteps[i].op = op
  <2>1. X!StopSteps = <<X!Systemctl("stop"), X!Op("pkill", "scx_")>>
    BY DEF X!StopSteps
  <2>2. X!StopSteps \in ScxTodo
    BY <1>1, <2>1, ScxListed
  <2>3. /\ 1 \in DOMAIN X!StopSteps /\ X!StopSteps[1] = X!Systemctl("stop")
        /\ 2 \in DOMAIN X!StopSteps /\ X!StopSteps[2] = X!Op("pkill", "scx_")
    BY <2>1
  <2>4. DOMAIN X!StopSteps = {1, 2}
    BY <2>1
  <2> QED
    BY <1>1, <2>2, <2>3, <2>4 DEF StopsOnly
<1>7. /\ X!DisableSteps \in ScxTodo /\ StopsOnly(X!DisableSteps)
      /\ \A op \in {"stop", "pkill", "disable"} :
           \E i \in DOMAIN X!DisableSteps : X!DisableSteps[i].op = op
  <2>1. X!DisableSteps = <<X!Systemctl("disable")>> \o X!StopSteps
    BY DEF X!DisableSteps
  <2>2. X!Systemctl("disable") \in ScxStep /\ X!Systemctl("disable").op = "disable"
    BY <1>1
  <2> DEFINE a == X!Systemctl("disable")
             s == X!StopSteps
             t == <<a>> \o s
  <2> HIDE DEF a, s
  <2>3. /\ t \in ScxTodo /\ StopsOnly(t)
        /\ \E i \in DOMAIN t : t[i].op = "disable"
        /\ \A op : (\E i \in DOMAIN s : s[i].op = op) => \E i \in DOMAIN t : t[i].op = op
    <3>1. s \in ScxTodo /\ StopsOnly(s) /\ a \in ScxStep /\ a.op = "disable"
      BY <1>6, <2>2 DEF a, s
    <3> QED
      BY <3>1, ScxPrepend
  <2>4. t = X!DisableSteps
    BY <2>1 DEF a, s
  <2> HIDE DEF t
  <2>5. \A op \in {"stop", "pkill"} : \E i \in DOMAIN s : s[i].op = op
    BY <1>6 DEF s
  <2> QED
    BY <2>3, <2>4, <2>5
<1> QED
  BY <1>2, <1>3, <1>4, <1>5, <1>6, <1>7

\* A step changes what one call has before it.
LEMMA ScxMoves ==
  ASSUME ScxType, NEW r \in ScxCall, NEW j \in ScxRun,
         scx_job' = [scx_job EXCEPT ![r] = j]
  PROVE  /\ scx_job' \in [ScxCall -> ScxRun]
         /\ scx_job'[r] = j /\ XTodo(r)' = j.todo
         /\ \A q \in ScxCall \ {r} :
              /\ scx_job'[q] = scx_job[q] /\ XTodo(q)' = XTodo(q)
              /\ \A op : (Has(q, op)' <=> Has(q, op)) /\ (Due(q, op)' <=> Due(q, op))
<1>1. /\ scx_job' \in [ScxCall -> ScxRun] /\ scx_job'[r] = j
      /\ \A q \in ScxCall \ {r} : scx_job'[q] = scx_job[q]
  BY DEF ScxType
<1> QED
  BY <1>1 DEF XTodo, Has, Due

\* What is left once a call has made its next step.
LEMMA ScxFirst ==
  ASSUME ScxType, NEW r \in ScxCall, XTodo(r) # <<>>
  PROVE  /\ scx_job[r] \in ScxRun
         /\ Head(scx_job[r].todo) = XTodo(r)[1] /\ XTodo(r)[1] \in ScxStep
         /\ Tail(XTodo(r)) \in ScxTodo
         /\ StopsOnly(XTodo(r)) => StopsOnly(Tail(XTodo(r)))
         /\ XTodo(r)[1].op = "fill" => XTodo(r)[1].arg \in ScxProfile
<1>1. scx_job[r] \in ScxRun /\ XTodo(r) \in ScxTodo
  BY DEF ScxType, ScxRun, XTodo
<1>2. StopsOnly(XTodo(r)) => StopsOnly(Tail(XTodo(r)))
  <2>1. XTodo(r) \in Seq(ScxStep)
    BY <1>1 DEF ScxTodo
  <2>2. \A i \in DOMAIN Tail(XTodo(r)) :
          i + 1 \in DOMAIN XTodo(r) /\ Tail(XTodo(r))[i] = XTodo(r)[i + 1]
    BY <2>1, TailOf
  <2> QED
    BY <2>2 DEF StopsOnly
<1>3. /\ Head(XTodo(r)) = XTodo(r)[1] /\ XTodo(r)[1] \in ScxStep
      /\ Tail(XTodo(r)) \in ScxTodo
      /\ XTodo(r)[1].op = "fill" => XTodo(r)[1].arg \in ScxProfile
  BY <1>1, ScxRest
<1> QED
  BY <1>1, <1>2, <1>3 DEF XTodo

\* A step after which a call has its other steps before it.
LEMMA ScxThen ==
  ASSUME ScxType, NEW r \in ScxCall, XTodo(r) # <<>>,
         NEW promise \in [ScxCall -> {"none", "stop", "disable"}],
         scx_job' = [q \in ScxCall |->
           [promise |-> promise[q], todo |-> IF q = r THEN Tail(XTodo(q)) ELSE XTodo(q)]]
  PROVE  /\ scx_job' \in [ScxCall -> ScxRun]
         /\ \A q \in ScxCall : scx_job'[q].promise = promise[q]
         /\ \A q \in ScxCall : StopsOnly(XTodo(q)) => StopsOnly(XTodo(q)')
         /\ \A q \in ScxCall : \A op :
              q # r \/ op # XTodo(r)[1].op =>
                /\ Has(q, op)' <=> Has(q, op)
                /\ Due(q, op) => Due(q, op)'
         /\ XTodo(r)[1].op = "truncate" => Due(r, "fill")'
         /\ XTodo(r)[1].op = "fill" => Due(r, "reload")'
         /\ XTodo(r)[1].op = "reload" => Due(r, "restart")'
         /\ Has(r, "stop") => Has(r, "pkill")'
<1>1. \A q \in ScxCall : scx_job[q] \in ScxRun /\ XTodo(q) \in ScxTodo
  BY DEF ScxType, ScxRun, XTodo
<1>2. Tail(XTodo(r)) \in ScxTodo
  BY ScxFirst
<1>3. /\ \A q \in ScxCall : scx_job'[q].promise = promise[q]
      /\ XTodo(r)' = Tail(XTodo(r))
      /\ \A q \in ScxCall \ {r} : XTodo(q)' = XTodo(q)
  BY DEF XTodo
<1>4. scx_job' \in [ScxCall -> ScxRun]
  <2>1. \A q \in ScxCall :
          [promise |-> promise[q], todo |-> IF q = r THEN Tail(XTodo(q)) ELSE XTodo(q)] \in ScxRun
    BY <1>1, <1>2 DEF ScxRun
  <2> QED
    BY <2>1
<1>5. \A q \in ScxCall : StopsOnly(XTodo(q)) => StopsOnly(XTodo(q)')
  BY <1>3, ScxFirst
<1>6. \A op : op # XTodo(r)[1].op => (Has(r, op)' <=> Has(r, op))
  <2> DEFINE s == XTodo(r)
  <2>1. \A op : op # s[1].op =>
          ((\E i \in DOMAIN s : s[i].op = op) <=> \E i \in DOMAIN Tail(s) : Tail(s)[i].op = op)
    <3>1. s \in ScxTodo /\ s # <<>>
      BY <1>1
    <3> HIDE DEF s
    <3> QED
      BY <3>1, ScxRest
  <2> QED
    BY <1>3, <2>1, ZenonT(60) DEF Has
<1>7. Has(r, "stop") => Has(r, "pkill")'
  BY <1>1, <1>3, ScxRest DEF Has
<1>8. \A q \in ScxCall \ {r} : \A op : (Has(q, op)' <=> Has(q, op)) /\ (Due(q, op)' <=> Due(q, op))
  BY <1>3 DEF Has, Due
<1>9. \A op : Due(r, op) => op = XTodo(r)[1].op
  BY DEF Due
<1>10. /\ XTodo(r)[1].op = "truncate" => Due(r, "fill")'
       /\ XTodo(r)[1].op = "fill" => Due(r, "reload")'
       /\ XTodo(r)[1].op = "reload" => Due(r, "restart")'
  BY <1>1, <1>3, ScxRest DEF Due
<1> QED
  BY <1>3, <1>4, <1>5, <1>6, <1>7, <1>8, <1>9, <1>10

\* The parts of what Then and ThenStarted leave that the invariant speaks of.
Moved(r) ==
  /\ scx_job' \in [ScxCall -> ScxRun]
  /\ \A q \in ScxCall : StopsOnly(XTodo(q)) => StopsOnly(XTodo(q)')
  /\ \A q \in ScxCall : \A op :
       q # r \/ op # XTodo(r)[1].op => (Has(q, op)' <=> Has(q, op)) /\ (Due(q, op) => Due(q, op)')
  /\ XTodo(r)[1].op = "truncate" => Due(r, "fill")'
  /\ XTodo(r)[1].op = "fill" => Due(r, "reload")'
  /\ XTodo(r)[1].op = "reload" => Due(r, "restart")'
  /\ Has(r, "stop") => Has(r, "pkill")'

\* A step that starts nothing leaves the promises.
LEMMA ScxPromiseKept ==
  ASSUME ScxType, NEW r \in ScxCall, XTodo(r) # <<>>, X!Then(r)
  PROVE  Moved(r) /\ \A q \in ScxCall : scx_job'[q].promise = scx_job[q].promise
<1> DEFINE promise == [q \in ScxCall |-> scx_job[q].promise]
           j == [scx_job[r] EXCEPT !.todo = Tail(@)]
<1>1. \A q \in ScxCall : scx_job[q] \in ScxRun
  BY DEF ScxType
<1>2. promise \in [ScxCall -> {"none", "stop", "disable"}]
  BY <1>1 DEF ScxRun
<1>3. j = [promise |-> promise[r], todo |-> Tail(XTodo(r))]
  BY <1>1 DEF ScxRun, XTodo
<1>4. \A q \in ScxCall : scx_job[q] = [promise |-> promise[q], todo |-> XTodo(q)]
  BY <1>1 DEF ScxRun, XTodo
<1>5. scx_job' = [scx_job EXCEPT ![r] = j]
  BY DEF X!Then
<1> HIDE DEF j, promise
<1>6. scx_job' = [q \in ScxCall |->
         [promise |-> promise[q], todo |-> IF q = r THEN Tail(XTodo(q)) ELSE XTodo(q)]]
  BY <1>3, <1>4, <1>5 DEF ScxType
<1>7. \A q \in ScxCall : promise[q] = scx_job[q].promise
  BY DEF promise
<1> QED
  BY <1>2, <1>6, <1>7, ScxThen DEF Moved

\* One that starts something ends them.
LEMMA ScxPromiseEnds ==
  ASSUME ScxType, NEW r \in ScxCall, XTodo(r) # <<>>, X!ThenStarted(r)
  PROVE  Moved(r) /\ \A q \in ScxCall : scx_job'[q].promise = "none"
<1> DEFINE promise == [q \in ScxCall |-> "none"]
<1>1. promise \in [ScxCall -> {"none", "stop", "disable"}] /\ \A q \in ScxCall : promise[q] = "none"
  OBVIOUS
<1>2. \A q \in ScxCall : promise[q] = "none" /\ XTodo(q) = scx_job[q].todo
  BY DEF XTodo
<1>3. scx_job' = [q \in ScxCall |->
         [promise |-> "none", todo |-> IF q = r THEN Tail(XTodo(q)) ELSE XTodo(q)]]
  BY <1>2 DEF X!ThenStarted
<1>4. scx_job' = [q \in ScxCall |->
         [promise |-> promise[q], todo |-> IF q = r THEN Tail(XTodo(q)) ELSE XTodo(q)]]
  BY <1>1, <1>3
<1> HIDE DEF promise
<1> QED
  BY <1>1, <1>4, ScxThen, ZenonT(60) DEF Moved

\* ServiceStarts, of a profile.
LEMMA ScxStarts ==
  ASSUME NEW p \in ScxProfile, NEW holder, X!ServiceStarts(p, holder)
  PROVE  /\ scx_service' \in ScxService
         /\ scx_service'.state = "active" => scx_service'.profile = p
BY DEF X!ServiceStarts, X!Inactive, ScxService

\* No step of any call, of systemd or of the system leaves the invariant.
LEMMA ScxStepKeeps == ScxInv /\ [X!Next]_scxVars => ScxInv'
<1> SUFFICES ASSUME ScxInv, [X!Next]_scxVars PROVE ScxInv'
  OBVIOUS
<1>0. /\ ScxType
      /\ \A q \in ScxCall : scx_job[q].promise # "none" => Stopped(q)
      /\ UnitInStep
  BY DEF ScxInv
<1> DEFINE Idle == [state |-> "inactive", profile |-> "none"]
<1>a. Idle \in ScxService /\ Idle.state = "inactive" /\ X!Inactive = Idle
      /\ X!Nobody.by = "none" /\ X!Nobody.profile = "none"
  BY DEF ScxService, X!Inactive, X!Nobody
<1> HIDE DEF Idle
<1>b. \A r \in ScxCall : \A op : X!Before(r, op) => XTodo(r) # <<>> /\ XTodo(r)[1].op = op
  BY <1>0, ScxFirst DEF X!Before, XTodo
<1>1. ASSUME NEW r \in ScxCall, X!StartOrEnable(r)
      PROVE  ScxInv'
  <2>0. PICK p \in ScxProfile :
          \E steps \in {X!StartSteps(p), X!RuntimeSteps(p), X!EnableSteps(p)} :
            scx_job' = [scx_job EXCEPT ![r] = [todo |-> steps, promise |-> "none"]]
    BY <1>1 DEF X!StartOrEnable
  <2>1. PICK steps \in {X!StartSteps(p), X!RuntimeSteps(p), X!EnableSteps(p)} :
          scx_job' = [scx_job EXCEPT ![r] = [todo |-> steps, promise |-> "none"]]
    BY <2>0
  <2> DEFINE j == [todo |-> steps, promise |-> "none"]
  <2>2. j \in ScxRun /\ j.promise = "none"
    BY ScxPrograms DEF ScxRun
  <2> HIDE DEF j
  <2>3. /\ scx_job' \in [ScxCall -> ScxRun] /\ scx_job'[r].promise = "none"
        /\ \A q \in ScxCall \ {r} :
             /\ scx_job'[q] = scx_job[q] /\ XTodo(q)' = XTodo(q)
             /\ \A op : (Has(q, op)' <=> Has(q, op)) /\ (Due(q, op)' <=> Due(q, op))
    BY <1>0, <2>1, <2>2, ScxMoves DEF j
  <2>4. \A op : ~Due(r, op)
    BY <1>1 DEF X!StartOrEnable, X!Idle, Due, XTodo
  <2>5. UNCHANGED <<scx_unitfile, scx_loaded, scx_service, scx_enabled, scx_attached, scx_suspect>>
    BY <1>1 DEF X!StartOrEnable
  <2> QED
    BY <1>0, <2>3, <2>4, <2>5 DEF ScxInv, ScxType, Stopped, UnitInStep
<1>2. ASSUME NEW r \in ScxCall, X!StopOrDisable(r)
      PROVE  ScxInv'
  <2>1. PICK j \in {[todo |-> X!StopSteps, promise |-> "stop"],
                    [todo |-> X!DisableSteps, promise |-> "disable"]} :
          scx_job' = [scx_job EXCEPT ![r] = j]
    BY <1>2 DEF X!StopOrDisable
  <2>2. /\ j \in ScxRun /\ StopsOnly(j.todo)
        /\ \A op \in {"stop", "pkill"} : \E i \in DOMAIN j.todo : j.todo[i].op = op
        /\ j.promise = "disable" => \E i \in DOMAIN j.todo : j.todo[i].op = "disable"
    BY ScxPrograms DEF ScxRun
  <2>3. /\ scx_job' \in [ScxCall -> ScxRun] /\ scx_job'[r] = j /\ XTodo(r)' = j.todo
        /\ \A q \in ScxCall \ {r} :
             /\ scx_job'[q] = scx_job[q] /\ XTodo(q)' = XTodo(q)
             /\ \A op : (Has(q, op)' <=> Has(q, op)) /\ (Due(q, op)' <=> Due(q, op))
    BY <1>0, <2>1, <2>2, ScxMoves
  <2>4. \A op : ~Due(r, op)
    BY <1>2 DEF X!StopOrDisable, X!Idle, Due, XTodo
  <2>5. UNCHANGED <<scx_unitfile, scx_loaded, scx_service, scx_enabled, scx_attached, scx_suspect>>
    BY <1>2 DEF X!StopOrDisable
  <2>6. Stopped(r)'
    BY <2>2, <2>3 DEF Stopped, Has
  <2>7. \A q \in ScxCall : scx_job'[q].promise # "none" => Stopped(q)'
    BY <1>0, <2>3, <2>5, <2>6 DEF Stopped
  <2> QED
    BY <1>0, <2>3, <2>4, <2>5, <2>7 DEF ScxInv, ScxType, UnitInStep
<1>3. ASSUME NEW r \in ScxCall, X!Truncate(r) \/ X!Fill(r) \/ X!Reload(r)
      PROVE  ScxInv'
  <2>1. /\ XTodo(r) # <<>> /\ X!Then(r)
        /\ UNCHANGED <<scx_service, scx_enabled, scx_attached, scx_suspect>>
    BY <1>3, <1>b DEF X!Truncate, X!Fill, X!Reload
  <2>2. Moved(r) /\ \A q \in ScxCall : scx_job'[q].promise = scx_job[q].promise
    BY <1>0, <2>1, ScxPromiseKept
  <2>3. XTodo(r)[1].op \in {"truncate", "fill", "reload"}
    BY <1>3, <1>b DEF X!Truncate, X!Fill, X!Reload
  <2>4. \A q \in ScxCall : \A op : op \in {"stop", "pkill", "disable"} => (Has(q, op)' <=> Has(q, op))
    BY <2>2, <2>3 DEF Moved
  <2>5. \A q \in ScxCall : scx_job'[q].promise # "none" => Stopped(q)'
    BY <1>0, <2>1, <2>2, <2>4 DEF Moved, Stopped
  <2>6. ScxType' /\ UnitInStep'
    <3>1. CASE X!Truncate(r)
      <4>1. Due(r, "fill")' /\ scx_unitfile' = "torn" /\ scx_loaded' = scx_loaded
        BY <2>2, <3>1, <1>b DEF X!Truncate, Moved
      <4> QED
        BY <1>0, <2>1, <2>2, <4>1 DEF Moved, ScxType, UnitInStep
    <3>2. CASE X!Fill(r)
      <4>1. Due(r, "reload")' /\ scx_unitfile' \in ScxProfile /\ scx_loaded' = scx_loaded
        BY <1>0, <2>2, <3>2, <1>b, ScxFirst DEF X!Fill, Moved
      <4> QED
        BY <1>0, <2>1, <2>2, <4>1 DEF Moved, ScxType, UnitInStep
    <3>3. CASE X!Reload(r)
      <4>1. /\ Due(r, "restart")' /\ scx_unitfile' = scx_unitfile /\ scx_loaded' = scx_unitfile
            /\ XTodo(r)[1].op = "reload"
        BY <2>2, <3>3, <1>b DEF X!Reload, Moved
      <4>2. \A q \in ScxCall : Due(q, "fill") => Due(q, "fill")'
        BY <2>2, <4>1 DEF Moved
      <4>3. ScxType'
        BY <1>0, <2>1, <2>2, <4>1 DEF Moved, ScxType
      <4>4. UnitInStep'
        BY <1>0, <2>1, <4>1, <4>2 DEF UnitInStep
      <4> QED
        BY <4>3, <4>4
    <3> QED
      BY <1>3, <3>1, <3>2, <3>3
  <2> QED
    BY <2>5, <2>6 DEF ScxInv
<1>4. ASSUME NEW r \in ScxCall, X!Restart(r)
      PROVE  ScxInv'
  <2>1. /\ XTodo(r) # <<>> /\ XTodo(r)[1].op = "restart" /\ X!ThenStarted(r)
        /\ scx_loaded \in ScxProfile /\ X!ServiceStarts(scx_loaded, X!Detached)
        /\ UNCHANGED <<scx_unitfile, scx_loaded, scx_enabled, scx_suspect>>
    BY <1>4, <1>b DEF X!Restart
  <2>2. Moved(r) /\ \A q \in ScxCall : scx_job'[q].promise = "none"
    BY <1>0, <2>1, ScxPromiseEnds
  <2>3. \A q \in ScxCall : \A op : op \in {"fill", "reload"} => (Due(q, op) => Due(q, op)')
    BY <2>1, <2>2 DEF Moved
  <2>4. scx_service' \in ScxService /\ (scx_service'.state = "active" => scx_service'.profile = scx_loaded)
    BY <2>1, ScxStarts
  <2>5. ScxType'
    BY <1>0, <2>1, <2>2, <2>4 DEF Moved, ScxType
  <2>6. UnitInStep'
    BY <1>0, <2>1, <2>3, <2>4 DEF UnitInStep
  <2> QED
    BY <2>2, <2>5, <2>6 DEF ScxInv
<1>5. ASSUME NEW r \in ScxCall, X!RestartRefused(r)
      PROVE  ScxInv'
  <2> DEFINE j == [scx_job[r] EXCEPT !.todo = <<>>]
  <2>1. /\ XTodo(r) # <<>> /\ XTodo(r)[1].op = "restart" /\ scx_loaded \notin ScxProfile
        /\ scx_job' = [scx_job EXCEPT ![r] = j]
        /\ UNCHANGED <<scx_unitfile, scx_loaded, scx_service, scx_enabled, scx_attached, scx_suspect>>
    BY <1>5, <1>b DEF X!RestartRefused
  <2>2. j \in ScxRun /\ j.promise = scx_job[r].promise
    <3>1. scx_job[r] \in ScxRun
      BY <1>0 DEF ScxType
    <3> QED
      BY <3>1, ScxPrograms DEF ScxRun
  <2> HIDE DEF j
  <2>3. scx_job[r].promise = "none"
    <3>1. 1 \in DOMAIN XTodo(r)
      BY <1>0, <2>1, ScxRest DEF ScxType, ScxRun, XTodo
    <3>2. ~StopsOnly(XTodo(r))
      BY <2>1, <3>1 DEF StopsOnly
    <3> QED
      BY <1>0, <3>2 DEF Stopped
  <2>4. /\ scx_job' \in [ScxCall -> ScxRun] /\ scx_job'[r].promise = "none"
        /\ \A q \in ScxCall \ {r} :
             /\ scx_job'[q] = scx_job[q] /\ XTodo(q)' = XTodo(q)
             /\ \A op : (Has(q, op)' <=> Has(q, op)) /\ (Due(q, op)' <=> Due(q, op))
    BY <1>0, <2>1, <2>2, <2>3, ScxMoves
  <2>5. \A op : op \in {"fill", "reload"} => ~Due(r, op)
    BY <2>1 DEF Due
  <2>6. \A q \in ScxCall : \A op : op \in {"fill", "reload"} => (Due(q, op) => Due(q, op)')
    BY <2>4, <2>5
  <2>7. UnitInStep'
    BY <1>0, <2>1, <2>6 DEF UnitInStep
  <2> QED
    BY <1>0, <2>1, <2>4, <2>7 DEF ScxInv, ScxType, Stopped
<1>6. ASSUME NEW r \in ScxCall, X!Spawn(r) \/ X!Enable(r)
      PROVE  ScxInv'
  <2>1. /\ XTodo(r) # <<>> /\ XTodo(r)[1].op \in {"spawn", "enable"} /\ X!ThenStarted(r)
        /\ UNCHANGED <<scx_unitfile, scx_loaded, scx_service, scx_suspect>>
    BY <1>6, <1>b DEF X!Spawn, X!Enable
  <2>2. Moved(r) /\ \A q \in ScxCall : scx_job'[q].promise = "none"
    BY <1>0, <2>1, ScxPromiseEnds
  <2>3. \A q \in ScxCall : \A op : op \in {"fill", "reload", "restart"} => (Due(q, op) => Due(q, op)')
    BY <2>1, <2>2 DEF Moved
  <2>4. UnitInStep'
    BY <1>0, <2>1, <2>3 DEF UnitInStep
  <2> QED
    BY <1>0, <2>1, <2>2, <2>4 DEF ScxInv, ScxType, Moved
<1>7. ASSUME NEW r \in ScxCall, X!Stop(r) \/ X!Pkill(r) \/ X!Disable(r)
      PROVE  ScxInv'
  <2>1. /\ XTodo(r) # <<>> /\ XTodo(r)[1].op \in {"stop", "pkill", "disable"} /\ X!Then(r)
        /\ UNCHANGED <<scx_unitfile, scx_loaded, scx_suspect>>
    BY <1>7, <1>b DEF X!Stop, X!Pkill, X!Disable
  <2>2. Moved(r) /\ \A q \in ScxCall : scx_job'[q].promise = scx_job[q].promise
    BY <1>0, <2>1, ScxPromiseKept
  <2>3. \A q \in ScxCall : \A op : op \in {"fill", "reload", "restart"} => (Due(q, op) => Due(q, op)')
    BY <2>1, <2>2 DEF Moved
  <2>4. scx_service' \in ScxService /\ (scx_service' = scx_service \/ scx_service'.state # "active")
    BY <1>0, <1>7, <1>a DEF X!Stop, X!Pkill, X!Disable, ScxType
  <2>5. ScxType' /\ UnitInStep'
    <3>1. ScxType'
      BY <1>0, <2>1, <2>2, <2>4 DEF ScxType, Moved
    <3>2. UnitInStep'
      BY <1>0, <2>1, <2>3, <2>4 DEF UnitInStep
    <3> QED
      BY <3>1, <3>2
  <2>6. ASSUME NEW q \in ScxCall, Stopped(q), scx_job'[q].promise = scx_job[q].promise
        PROVE  Stopped(q)'
    <3>1. /\ StopsOnly(XTodo(q)')
          /\ \A op : q # r \/ op # XTodo(r)[1].op => (Has(q, op)' <=> Has(q, op))
      BY <2>2, <2>6 DEF Moved, Stopped
    <3>2. CASE X!Stop(r)
      <4>1. /\ scx_service' = Idle /\ scx_attached' = X!Detached /\ scx_enabled' = scx_enabled
            /\ XTodo(r)[1].op = "stop"
        BY <3>2, <1>a, <1>b DEF X!Stop
      <4>2. scx_attached'.by # "service" /\ (scx_attached = X!Nobody => scx_attached' = X!Nobody)
        BY <4>1, <1>a DEF X!Detached
      <4>3. ~Has(q, "pkill")' => scx_attached' = X!Nobody
        <5>1. CASE q = r
          <6>1. Has(r, "stop")
            BY <1>0, <2>1, <4>1, ScxRest DEF Has, ScxType, ScxRun, XTodo
          <6> QED
            BY <5>1, <6>1, <2>2 DEF Moved
        <5>2. CASE q # r
          BY <5>2, <2>6, <3>1, <4>2 DEF Stopped
        <5> QED
          BY <5>1, <5>2
      <4> QED
        BY <1>a, <2>6, <3>1, <4>1, <4>2, <4>3 DEF Stopped
    <3>3. CASE X!Pkill(r)
      <4>1. /\ scx_attached' = X!Nobody /\ scx_enabled' = scx_enabled /\ XTodo(r)[1].op = "pkill"
            /\ scx_service.state = "inactive" => scx_service' = scx_service
        BY <3>3, <1>b DEF X!Pkill
      <4> QED
        BY <1>a, <2>6, <3>1, <4>1 DEF Stopped
    <3>4. CASE X!Disable(r)
      <4>1. /\ scx_enabled' = FALSE /\ UNCHANGED <<scx_attached, scx_service>>
            /\ XTodo(r)[1].op = "disable"
        BY <3>4, <1>b DEF X!Disable
      <4> QED
        BY <2>6, <3>1, <4>1 DEF Stopped
    <3> QED
      BY <1>7, <3>2, <3>3, <3>4
  <2> QED
    BY <1>0, <2>2, <2>5, <2>6 DEF ScxInv
<1>8. ASSUME NEW r \in ScxCall, X!CommandFails(r)
      PROVE  ScxInv'
  <2> DEFINE op0 == XTodo(r)[1].op
             rest == IF op0 \in {"truncate", "fill", "restart", "spawn", "enable"}
                     THEN <<>> ELSE Tail(XTodo(r))
             j == [promise |-> "none", todo |-> rest]
  <2>1. /\ XTodo(r) # <<>>
        /\ scx_suspect' = (scx_suspect \/ op0 \in {"fill", "reload", "restart"})
        /\ UNCHANGED <<scx_unitfile, scx_loaded, scx_service, scx_enabled, scx_attached>>
    BY <1>0, <1>8, ScxFirst DEF X!CommandFails, XTodo
  <2>2. rest \in ScxTodo /\ scx_job[r] \in ScxRun
    BY <1>0, <2>1, ScxFirst, ScxPrograms
  <2>3. scx_job' = [scx_job EXCEPT ![r] = j]
    <3>1. Head(scx_job[r].todo) = XTodo(r)[1] /\ scx_job[r].todo = XTodo(r)
      BY <1>0, <2>1, ScxFirst DEF XTodo
    <3>2. scx_job' = [scx_job EXCEPT ![r].promise = "none", ![r].todo = rest]
      BY <1>8, <3>1 DEF X!CommandFails
    <3> HIDE DEF rest
    <3>3. j = [scx_job[r] EXCEPT !.promise = "none", !.todo = rest]
      <4>1. [scx_job[r] EXCEPT !.promise = "none"] = [promise |-> "none", todo |-> scx_job[r].todo]
        BY <2>2 DEF ScxRun
      <4>2. [[promise |-> "none", todo |-> scx_job[r].todo] EXCEPT !.todo = rest] = j
        OBVIOUS
      <4> QED
        BY <4>1, <4>2
    <3> QED
      BY <1>0, <3>2, <3>3 DEF ScxType
  <2>4. j \in ScxRun /\ j.promise = "none"
    BY <2>2 DEF ScxRun
  <2> HIDE DEF j, rest
  <2>5. /\ scx_job' \in [ScxCall -> ScxRun] /\ scx_job'[r].promise = "none"
        /\ \A q \in ScxCall \ {r} :
             /\ scx_job'[q] = scx_job[q] /\ XTodo(q)' = XTodo(q)
             /\ \A op : (Has(q, op)' <=> Has(q, op)) /\ (Due(q, op)' <=> Due(q, op))
    BY <1>0, <2>3, <2>4, ScxMoves
  <2>6. \A op : Due(r, op) => op = op0
    BY DEF Due
  <2>7. UnitInStep'
    <3>1. CASE op0 \in {"fill", "reload", "restart"}
      BY <2>1, <3>1 DEF UnitInStep
    <3>2. CASE op0 \notin {"fill", "reload", "restart"}
      <4>1. \A q \in ScxCall : \A op : op \in {"fill", "reload", "restart"} => (Due(q, op) => Due(q, op)')
        BY <2>5, <2>6, <3>2
      <4> HIDE DEF op0
      <4> QED
        BY <1>0, <2>1, <4>1 DEF UnitInStep
    <3> QED
      BY <3>1, <3>2
  <2> QED
    BY <1>0, <2>1, <2>5, <2>7 DEF ScxInv, ScxType, Stopped
<1>9. CASE X!SchedulerExits \/ X!GiveUp
  <2>1. /\ scx_service' \in ScxService /\ (scx_service' = scx_service \/ scx_service'.state # "active")
        /\ UNCHANGED <<scx_unitfile, scx_loaded, scx_enabled, scx_job, scx_suspect>>
    BY <1>0, <1>9, <1>a DEF X!SchedulerExits, X!GiveUp, ScxType, ScxService
  <2>2. ScxType' /\ UnitInStep'
    BY <1>0, <2>1 DEF ScxType, UnitInStep, Due, XTodo
  <2>3. ASSUME NEW q \in ScxCall, Stopped(q)
        PROVE  Stopped(q)'
    <3>1. /\ XTodo(q)' = XTodo(q) /\ \A op : Has(q, op)' <=> Has(q, op)
      BY <2>1 DEF XTodo, Has
    <3> QED
      BY <1>9, <1>a, <2>1, <2>3, <3>1 DEF X!SchedulerExits, X!GiveUp, Stopped
  <2> QED
    BY <1>0, <2>1, <2>2, <2>3 DEF ScxInv
<1>10. CASE X!AutoRestart
  <2>1. /\ scx_service.state = "waiting" /\ scx_loaded \in ScxProfile
        /\ X!ServiceStarts(scx_loaded, scx_attached)
        /\ UNCHANGED <<scx_unitfile, scx_loaded, scx_enabled, scx_job, scx_suspect>>
    BY <1>10 DEF X!AutoRestart
  <2>2. scx_service' \in ScxService /\ (scx_service'.state = "active" => scx_service'.profile = scx_loaded)
    BY <2>1, ScxStarts
  <2>3. ScxType' /\ UnitInStep'
    BY <1>0, <2>1, <2>2 DEF ScxType, UnitInStep, Due, XTodo
  <2>4. ASSUME NEW q \in ScxCall, Stopped(q)
        PROVE  Stopped(q)'
    <3>1. /\ XTodo(q)' = XTodo(q) /\ \A op : Has(q, op)' <=> Has(q, op)
      BY <2>1 DEF XTodo, Has
    <3>2. Has(q, "stop")
      BY <2>1, <2>4 DEF Stopped
    <3>3. Has(q, "pkill")
      BY <1>0, <3>2 DEF Has, ScxType, ScxRun, ScxTodo, InOrder, XTodo
    <3> QED
      BY <2>1, <2>4, <3>1, <3>2, <3>3 DEF Stopped
  <2> QED
    BY <1>0, <2>1, <2>3, <2>4 DEF ScxInv
<1>11. CASE X!Boot
  <2> DEFINE j(r) == [todo |-> <<>>,
        promise |-> IF X!Idle(r) /\ scx_job[r].promise = "disable" THEN "disable" ELSE "none"]
  <2>1. /\ scx_job' = [r \in ScxCall |-> j(r)]
        /\ scx_loaded' = scx_unitfile
        /\ UNCHANGED <<scx_unitfile, scx_enabled>>
    BY <1>11 DEF X!Boot
  <2>2. \A r \in ScxCall : j(r) \in ScxRun
    BY ScxPrograms DEF ScxRun
  <2>3. /\ scx_job' \in [ScxCall -> ScxRun]
        /\ \A r \in ScxCall : XTodo(r)' = <<>> /\ (scx_job'[r].promise # "none" =>
             X!Idle(r) /\ scx_job[r].promise = "disable")
    BY <2>1, <2>2 DEF XTodo
  <2> HIDE DEF j
  <2>4. \/ scx_unitfile \in ScxProfile /\ X!ServiceStarts(scx_unitfile, X!Nobody) /\ scx_enabled
        \/ scx_service' = Idle /\ scx_attached' = X!Nobody
    BY <1>11, <1>a DEF X!Boot
  <2>5. /\ scx_service' \in ScxService
        /\ scx_service'.state = "active" => scx_unitfile \in ScxProfile /\ scx_service'.profile = scx_unitfile
    BY <1>a, <2>4, ScxStarts
  <2>6. ScxType' /\ UnitInStep'
    BY <1>0, <2>1, <2>3, <2>5 DEF ScxType, UnitInStep
  <2>7. ASSUME NEW q \in ScxCall, scx_job'[q].promise # "none"
        PROVE  Stopped(q)'
    <3>1. Stopped(q) /\ XTodo(q) = <<>> /\ scx_job[q].promise = "disable"
      BY <1>0, <2>3, <2>7 DEF X!Idle, XTodo
    <3>2. ~scx_enabled
      BY <3>1 DEF Stopped, Has
    <3> QED
      BY <1>a, <2>1, <2>3, <2>4, <3>2 DEF Stopped, StopsOnly
  <2> QED
    BY <2>6, <2>7 DEF ScxInv
<1>12. CASE UNCHANGED scxVars
  BY <1>0, <1>12 DEF scxVars, ScxInv, ScxType, Stopped, UnitInStep, Has, Due, XTodo
<1> QED
  BY <1>1, <1>2, <1>3, <1>4, <1>5, <1>6, <1>7, <1>8, <1>9, <1>10, <1>11, <1>12 DEF X!Next

\* Whatever calls overlap, a stop leaves no scheduler, a disable none at the next
\* boot, and a service that runs is the one of its unit file (scheduler/scx.py).
THEOREM SchedulerIsAsAsked == HostSpec => []SchedulerAsAsked
<1> DEFINE I == which = "scx" => ScxInv
<1>1. HostInit => I
  <2> SUFFICES ASSUME X!Init PROVE ScxInv
    BY DEF HostInit
  <2> DEFINE j == [todo |-> <<>>, promise |-> "none"]
  <2>1. j \in ScxRun /\ j.promise = "none"
    BY ScxPrograms DEF ScxRun
  <2>2. X!Inactive \in ScxService /\ X!Inactive.state = "inactive"
    BY DEF X!Inactive, ScxService
  <2>3. /\ scx_unitfile = "none" /\ scx_loaded = "none" /\ scx_service = X!Inactive
        /\ scx_job = [r \in ScxCall |-> j]
    BY DEF X!Init
  <2> HIDE DEF j
  <2> QED
    BY <2>1, <2>2, <2>3 DEF ScxInv, ScxType, UnitInStep
<1>2. I /\ [HostNext]_all => I'
  BY OneComponent, ScxStepKeeps
<1>3. I => SchedulerAsAsked
  <2> SUFFICES ASSUME ScxInv PROVE X!StopStops /\ X!RunsUnitFile
    BY DEF SchedulerAsAsked, X!SchedulerAsAsked
  <2>1. X!StopStops
    <3> SUFFICES ASSUME NEW r \in ScxCall, X!Idle(r), scx_job[r].promise # "none"
                 PROVE  /\ scx_attached.profile = "none" /\ scx_service.state # "waiting"
                        /\ scx_job[r].promise = "disable" => ~scx_enabled
      BY DEF X!StopStops, X!Probe
    <3>1. Stopped(r) /\ \A op : ~Has(r, op)
      BY DEF ScxInv, X!Idle, Has, XTodo
    <3> QED
      BY <3>1 DEF Stopped, X!Nobody
  <2>2. X!RunsUnitFile
    <3> SUFFICES ASSUME \A r \in ScxCall : \A i \in DOMAIN XTodo(r) : XTodo(r)[i].op # "restart",
                        ~scx_suspect, scx_service.state = "active"
                 PROVE  scx_service.profile = scx_unitfile
      BY DEF X!RunsUnitFile, X!Probe, XTodo
    <3>1. ASSUME NEW r \in ScxCall, NEW op \in {"fill", "reload", "restart"}
          PROVE  ~Due(r, op)
      <4>1. XTodo(r) \in ScxTodo /\ (XTodo(r) # <<>> => 1 \in DOMAIN XTodo(r))
        BY ScxRest DEF ScxInv, ScxType, ScxRun, XTodo
      <4> QED
        BY <4>1 DEF Due, ScxTodo, InOrder
    <3> QED
      BY <3>1 DEF ScxInv, UnitInStep
  <2> QED
    BY <2>1, <2>2
<1> QED
  BY <1>1, <1>2, <1>3, PTL DEF HostSpec

-----------------------------------------------------------------------------
(* MetricsExporter *)

HookName == {"PreToolUse", "PostToolUseFailure"}

MetricsLine ==
  [run : HookRun, hook : HookName, exit_code : {0, 2}, whole : BOOLEAN]

\* One line for each run that has begun to log; a failed tool is in the error
\* log before.
LogsInStep ==
  /\ IsFiniteSet(metrics_audit) /\ IsFiniteSet(metrics_errors)
  /\ metrics_audit \subseteq MetricsLine
  /\ metrics_hook \in [HookRun -> HookName \cup {"down", "writing", "done"}]
  /\ \A l, m \in metrics_audit : l.run = m.run => l = m
  /\ \A l \in metrics_audit :
       /\ metrics_hook[l.run] \in {"writing", "done"}
       /\ l.hook = "PostToolUseFailure" => l.run \in metrics_errors
  /\ \A r \in HookRun : metrics_hook[r] = "PostToolUseFailure" => r \in metrics_errors

\* The instance counts as FiniteSets does.
LEMMA SameCardinality == \A S : E!Cardinality(S) = Cardinality(S)
BY DEF E!Cardinality, Cardinality

\* What the counters compare, for logs that are in step.
LEMMA Counts ==
  ASSUME LogsInStep
  PROVE  /\ \A h \in E!Hook : E!hook_executions[h] \in Nat /\ E!hook_blocks[h] \in Nat
         /\ \A h \in E!Hook : E!hook_blocks[h] <= E!hook_executions[h]
         /\ E!tool_failures_total \in Nat
         /\ E!hook_executions["PostToolUseFailure"] <= E!tool_failures_total
<1>1. \A h \in E!Hook : E!Records(h) \in SUBSET metrics_audit
  BY DEF E!Records
<1>2. \A h \in E!Hook : IsFiniteSet(E!Records(h)) /\ Cardinality(E!Records(h)) \in Nat
  BY <1>1, FS_Subset, FS_CardinalityType DEF LogsInStep
<1>3. ASSUME NEW h \in E!Hook
      PROVE  /\ Cardinality({l \in E!Records(h) : l.exit_code = 2}) \in Nat
             /\ Cardinality({l \in E!Records(h) : l.exit_code = 2}) <= Cardinality(E!Records(h))
  <2>1. {l \in E!Records(h) : l.exit_code = 2} \in SUBSET E!Records(h)
    OBVIOUS
  <2> QED
    BY <1>2, <2>1, FS_Subset, FS_CardinalityType
<1>4. /\ Cardinality(E!Records("PostToolUseFailure")) <= Cardinality(metrics_errors)
      /\ Cardinality(metrics_errors) \in Nat
  <2> DEFINE S == E!Records("PostToolUseFailure")
             f == [l \in S |-> l.run]
  <2>1. \A l \in S : l \in metrics_audit /\ l.run \in metrics_errors
    BY DEF LogsInStep, E!Records
  <2>2. \A l, m \in S : f[l] = f[m] => l = m
    BY <2>1 DEF LogsInStep
  <2>3. f \in [S -> metrics_errors]
    BY <2>1
  <2> HIDE DEF f, S
  <2>4. f \in Injection(S, metrics_errors)
    BY <2>2, <2>3 DEF Injection, IsInjective
  <2>5. IsFiniteSet(metrics_errors)
    BY DEF LogsInStep
  <2> QED
    BY <2>4, <2>5, FS_Injection, FS_CardinalityType DEF S
<1>5. "PostToolUseFailure" \in E!Hook
  BY DEF E!Hook
<1> QED
  BY <1>2, <1>3, <1>4, <1>5, SameCardinality DEF E!hook_executions, E!hook_blocks, E!tool_failures_total

\* The logs are in step after a step, and have what they had.
LogsMore ==
  /\ LogsInStep'
  /\ \A l \in metrics_audit : l.whole => l \in metrics_audit'
  /\ metrics_errors \subseteq metrics_errors'

\* The logs only grow, and stay in step.
LEMMA LogsGrow ==
  ASSUME LogsInStep, [E!Next]_metricsVars
  PROVE  /\ LogsMore
         /\ \A h \in E!Hook : /\ E!hook_executions'[h] \in Nat
                               /\ E!hook_executions[h] <= E!hook_executions'[h]
         /\ E!tool_failures_total <= E!tool_failures_total'
<1>1. LogsMore
  <2>1. ASSUME NEW r \in HookRun, E!LogError(r)
        PROVE  LogsMore
    <3>1. IsFiniteSet(metrics_errors')
      BY <2>1, FS_AddElement DEF E!LogError, LogsInStep
    <3> QED
      BY <2>1, <3>1 DEF E!LogError, LogsInStep, HookName, LogsMore
  <2>2. ASSUME NEW r \in HookRun, E!OtherHook(r) \/ E!KillHook(r)
        PROVE  LogsMore
    <3>1. /\ UNCHANGED <<metrics_audit, metrics_errors>>
          /\ \/ metrics_hook' = [metrics_hook EXCEPT ![r] = "PreToolUse"] /\ metrics_hook[r] = "down"
             \/ metrics_hook' = [metrics_hook EXCEPT ![r] = "done"]
      BY <2>2 DEF E!OtherHook, E!KillHook
    <3>2. metrics_hook' \in [HookRun -> HookName \cup {"down", "writing", "done"}]
      BY <3>1 DEF LogsInStep, HookName
    <3>3. ASSUME NEW l \in metrics_audit
          PROVE  metrics_hook'[l.run] \in {"writing", "done"}
      <4>1. l.run \in HookRun /\ metrics_hook[l.run] \in {"writing", "done"}
        BY DEF LogsInStep, MetricsLine
      <4> QED
        BY <3>1, <4>1 DEF LogsInStep
    <3>4. ASSUME NEW q \in HookRun, metrics_hook'[q] = "PostToolUseFailure"
          PROVE  q \in metrics_errors
      BY <3>1, <3>4 DEF LogsInStep
    <3> QED
      BY <3>1, <3>2, <3>3, <3>4 DEF LogsInStep, LogsMore
  <2>3. ASSUME NEW r \in HookRun, E!AppendTrace(r)
        PROVE  LogsMore
    <3>1. PICK code \in {0, 2} : metrics_audit' = metrics_audit \cup
            {[run |-> r, hook |-> metrics_hook[r], exit_code |-> code, whole |-> FALSE]}
      BY <2>3 DEF E!AppendTrace
    <3> DEFINE line == [run |-> r, hook |-> metrics_hook[r], exit_code |-> code, whole |-> FALSE]
    <3>2. /\ line \in MetricsLine /\ line.run = r /\ line.hook = metrics_hook[r]
          /\ metrics_hook[r] \in HookName
      BY <2>3 DEF E!AppendTrace, E!Hook, MetricsLine, HookName
    <3> HIDE DEF line
    <3>3. metrics_audit' = metrics_audit \cup {line}
      BY <3>1 DEF line
    <3>4. IsFiniteSet(metrics_audit')
      BY <3>3, FS_AddElement DEF LogsInStep
    <3>5. \A l \in metrics_audit : l.run # r
      BY <3>2 DEF LogsInStep, HookName
    <3>6. metrics_hook' = [metrics_hook EXCEPT ![r] = "writing"] /\ metrics_errors' = metrics_errors
      BY <2>3 DEF E!AppendTrace
    <3>7. line.hook = "PostToolUseFailure" => r \in metrics_errors
      BY <3>2 DEF LogsInStep
    <3> QED
      BY <3>2, <3>3, <3>4, <3>5, <3>6, <3>7 DEF LogsInStep, MetricsLine, LogsMore
  <2>4. ASSUME NEW r \in HookRun, E!WriteTrace(r)
        PROVE  LogsMore
    <3> DEFINE w(l) == IF l.run = r THEN [l EXCEPT !.whole = TRUE] ELSE l
               f == [l \in metrics_audit |-> w(l)]
    <3>1. metrics_audit' = {w(l) : l \in metrics_audit}
      BY <2>4 DEF E!WriteTrace
    <3>2. \A l \in metrics_audit :
            /\ w(l) \in MetricsLine /\ w(l).run = l.run /\ w(l).hook = l.hook
            /\ l.whole => w(l) = l
      BY DEF LogsInStep, MetricsLine
    <3> HIDE DEF w
    <3>3. IsFiniteSet(metrics_audit')
      <4>1. f \in Surjection(metrics_audit, metrics_audit')
        BY <3>1 DEF Surjection
      <4> HIDE DEF f
      <4> QED
        BY <4>1, FS_Surjection DEF LogsInStep
    <3>4. metrics_hook' = [metrics_hook EXCEPT ![r] = "done"] /\ metrics_errors' = metrics_errors
      BY <2>4 DEF E!WriteTrace
    <3>5. metrics_audit' \subseteq MetricsLine
      BY <3>1, <3>2
    <3>6. \A l, m \in metrics_audit' : l.run = m.run => l = m
      BY <3>1, <3>2 DEF LogsInStep
    <3>7. \A l \in metrics_audit' :
            metrics_hook'[l.run] \in {"writing", "done"} /\ (l.hook = "PostToolUseFailure" => l.run \in metrics_errors')
      BY <3>1, <3>2, <3>4 DEF LogsInStep, MetricsLine
    <3>8. \A l \in metrics_audit : l.whole => l \in metrics_audit'
      BY <3>1, <3>2
    <3>9. /\ metrics_hook' \in [HookRun -> HookName \cup {"down", "writing", "done"}]
          /\ \A q \in HookRun : metrics_hook'[q] = "PostToolUseFailure" => q \in metrics_errors'
          /\ IsFiniteSet(metrics_errors')
      BY <3>4 DEF LogsInStep
    <3> QED
      BY <3>3, <3>4, <3>5, <3>6, <3>7, <3>8, <3>9 DEF LogsInStep, LogsMore
  <2>5. CASE UNCHANGED <<metrics_audit, metrics_errors, metrics_hook>>
    BY <2>5 DEF LogsInStep, LogsMore
  <2>6. CASE E!Serve
    BY <2>5, <2>6 DEF E!Serve, E!Accept, E!Route, E!Hangup, E!ReadHost, E!AskSystemd, E!ReadAudit,
      E!ReadErrors, E!Answer, E!Restart, E!Gather
  <2>7. ASSUME NEW c \in Client, E!Connect(c) \/ E!Send(c) \/ E!Leave(c)
        PROVE  LogsMore
    BY <2>5, <2>7 DEF E!Connect, E!Send, E!Leave
  <2> QED
    BY <2>1, <2>2, <2>3, <2>4, <2>5, <2>6, <2>7 DEF E!Next, metricsVars
<1>2. ASSUME NEW h \in E!Hook
      PROVE  /\ E!hook_executions'[h] \in Nat
             /\ E!hook_executions[h] <= E!hook_executions'[h]
  <2>1. E!Records(h) \in SUBSET E!Records(h)'
    BY <1>1 DEF LogsMore, E!Records
  <2>2. E!Records(h)' \in SUBSET metrics_audit'
    BY DEF E!Records
  <2>3. IsFiniteSet(E!Records(h)')
    BY <1>1, <2>2, FS_Subset DEF LogsMore, LogsInStep
  <2>4. /\ Cardinality(E!Records(h)) <= Cardinality(E!Records(h)')
        /\ Cardinality(E!Records(h)') \in Nat
    BY <2>1, <2>3, FS_Subset, FS_CardinalityType
  <2> QED
    BY <2>4, SameCardinality DEF E!hook_executions
<1>3. E!tool_failures_total <= E!tool_failures_total'
  <2>1. IsFiniteSet(metrics_errors')
    BY <1>1 DEF LogsMore, LogsInStep
  <2> QED
    BY <1>1, <2>1, FS_Subset, SameCardinality DEF LogsMore, E!tool_failures_total
<1> QED
  BY <1>1, <1>2, <1>3


\* What is still to be done for a request.
ScrapeTodos ==
  {<<>>, <<"request">>, <<"write">>, <<"errors", "write">>, <<"audit", "errors", "write">>,
   <<"systemd", "audit", "errors", "write">>, <<"host", "systemd", "audit", "errors", "write">>}

\* What was gathered is not more than what the logs have now, and the failures
\* were counted after the executions.
DataAgrees(d, ex) ==
  /\ "hooks" \in DOMAIN d =>
       \A h \in E!Hook :
         /\ d.hooks.executions[h] \in Nat /\ d.hooks.blocks[h] \in Nat
         /\ d.hooks.blocks[h] <= d.hooks.executions[h]
         /\ d.hooks.executions[h] <= ex[h]
  /\ "tool_failures_total" \in DOMAIN d =>
       /\ "hooks" \in DOMAIN d /\ d.tool_failures_total \in Nat
       /\ d.hooks.executions["PostToolUseFailure"] <= d.tool_failures_total

\* No execution that was logged before the request is missing.
FloorHolds(s, ex) ==
  \A h \in E!Hook :
    /\ s.floor[h] \in Nat /\ s.floor[h] <= ex[h]
    /\ "hooks" \in DOMAIN s.data => s.floor[h] <= s.data.hooks.executions[h]

IsServer(s) == s = [serves |-> s.serves, todo |-> s.todo, data |-> s.data, floor |-> s.floor]
IsClient(j) == j = [pc |-> j.pc, path |-> j.path, status |-> j.status, answer |-> j.answer]

\* The server s is between two steps of CollectAll, for a request among cl whose
\* path does not change any more once it is routed.
Gathering(s, cl) ==
  /\ s.todo \in ScrapeTodos
  /\ s.todo # <<>> => s.serves \in Client
  /\ s.todo = <<"request">> => s.data = E!None
  /\ s.todo \notin {<<>>, <<"request">>} => cl[s.serves].pc \notin {"down", "connected"}
  /\ s.todo \notin {<<>>, <<"write">>} => "tool_failures_total" \notin DOMAIN s.data
  /\ s.todo = <<"errors", "write">> => "hooks" \in DOMAIN s.data
  /\ s.todo = <<"write">> /\ cl[s.serves].path = "/metrics" => "hooks" \in DOMAIN s.data

ServerIn(s, cl, ex) ==
  IsServer(s) /\ Gathering(s, cl) /\ DataAgrees(s.data, ex) /\ FloorHolds(s, ex)
ServerInStep == ServerIn(metrics_server, metrics_client, E!hook_executions)

ClientsInStep ==
  /\ metrics_client = [c \in Client |-> metrics_client[c]]
  /\ \A c \in Client : IsClient(metrics_client[c])
  /\ metrics_queue \in Seq(Client)
  /\ \A c \in E!Scraped : E!CountersAgree(metrics_client[c].answer)

MetricsInv == LogsInStep /\ ServerInStep /\ ClientsInStep

\* Before the first scrape nothing is cached and nobody waits.
LEMMA MetricsInitially ==
  ASSUME E!Init
  PROVE  MetricsInv
<1>1. LogsInStep
  BY FS_EmptySet DEF E!Init, LogsInStep, HookName
<1>2. \A h \in E!Hook : E!hook_executions[h] \in Nat
  BY <1>1, Counts
<1>3. ServerInStep
  BY <1>2 DEF E!Init, ServerInStep, ServerIn, IsServer, Gathering, FloorHolds, ScrapeTodos, DataAgrees, E!None
<1>4. ClientsInStep
  BY DEF E!Init, ClientsInStep, IsClient, E!Scraped
<1> QED
  BY <1>1, <1>3, <1>4 DEF MetricsInv

\* A sequence that begins with one and goes on with the other.
LEMMA ConcatIs ==
  ASSUME NEW S, NEW s \in Seq(S), NEW t \in Seq(S), NEW u \in Seq(S),
         Len(u) = Len(s) + Len(t),
         \A i \in 1..Len(s) : u[i] = s[i],
         \A i \in 1..Len(t) : u[Len(s) + i] = t[i]
  PROVE  s \o t = u
<1> DEFINE c == s \o t
<1>1. c \in Seq(S) /\ Len(c) = Len(u)
      /\ \A i \in 1..Len(u) : c[i] = IF i <= Len(s) THEN s[i] ELSE t[i - Len(s)]
  BY ConcatProperties
<1>2. Len(s) \in Nat /\ Len(t) \in Nat
  BY LenProperties
<1> HIDE DEF c
<1>3. ASSUME NEW i \in 1..Len(u)
      PROVE  c[i] = u[i]
  <2>1. CASE i <= Len(s)
    BY <1>1, <1>2, <2>1
  <2>2. CASE ~(i <= Len(s))
    <3>1. i - Len(s) \in 1..Len(t) /\ Len(s) + (i - Len(s)) = i
      BY <1>2, <2>2
    <3>2. u[Len(s) + (i - Len(s))] = t[i - Len(s)]
      BY <3>1
    <3> QED
      BY <1>1, <2>2, <3>1, <3>2
  <2> QED
    BY <2>1, <2>2
<1>4. c = u
  BY <1>1, <1>3, SeqEqual
<1> QED
  BY <1>4 DEF c

\* The steps of a scrape, in the order of collect_all_metrics.
LEMMA ScrapeSteps ==
  /\ E!CollectAll \o <<"write">> = <<"host", "systemd", "audit", "errors", "write">>
  /\ <<>> \o <<"write">> = <<"write">>
<1> DEFINE S == {"host", "systemd", "audit", "errors", "write"}
<1> DEFINE s == <<"host", "systemd">>
           t == <<"audit", "errors">>
           u == <<"host", "systemd", "audit", "errors">>
           v == <<"write">>
           w == <<"host", "systemd", "audit", "errors", "write">>
<1>1. s \o t = u
  <2>1. s \in Seq(S) /\ t \in Seq(S) /\ u \in Seq(S)
    OBVIOUS
  <2>2. Len(s) = 2 /\ Len(t) = 2 /\ Len(u) = 4
    OBVIOUS
  <2>3. u[1] = s[1] /\ u[2] = s[2] /\ u[3] = t[1] /\ u[4] = t[2]
    OBVIOUS
  <2> HIDE DEF S, s, t, u
  <2>4. /\ Len(u) = Len(s) + Len(t)
        /\ \A i \in 1..Len(s) : u[i] = s[i]
        /\ \A i \in 1..Len(t) : u[Len(s) + i] = t[i]
    BY <2>2, <2>3
  <2> QED
    BY <2>1, <2>4, ConcatIs
<1>2. u \o v = w
  <2>1. u \in Seq(S) /\ v \in Seq(S) /\ w \in Seq(S)
    OBVIOUS
  <2>2. Len(u) = 4 /\ Len(v) = 1 /\ Len(w) = 5
    OBVIOUS
  <2>3. w[1] = u[1] /\ w[2] = u[2] /\ w[3] = u[3] /\ w[4] = u[4] /\ w[5] = v[1]
    OBVIOUS
  <2> HIDE DEF S, u, v, w
  <2>4. /\ Len(w) = Len(u) + Len(v)
        /\ \A i \in 1..Len(u) : w[i] = u[i]
        /\ \A i \in 1..Len(v) : w[Len(u) + i] = v[i]
    BY <2>2, <2>3
  <2> QED
    BY <2>1, <2>4, ConcatIs
<1>3. <<>> \o <<"write">> = <<"write">>
  BY ConcatIs, <<"write">> \in Seq(S), <<>> \in Seq(S)
<1> QED
  BY <1>1, <1>2, <1>3 DEF E!CollectAll, E!HarnessSteps

\* Each step leaves the rest.
LEMMA ScrapeMoves ==
  ASSUME NEW t \in ScrapeTodos, t # <<>>
  PROVE  /\ Head(t) = "request" <=> t = <<"request">>
         /\ Head(t) = "write" <=> t = <<"write">>
         /\ Head(t) = "host" => Tail(t) = <<"systemd", "audit", "errors", "write">>
         /\ Head(t) = "systemd" => Tail(t) = <<"audit", "errors", "write">>
         /\ Head(t) = "audit" => Tail(t) = <<"errors", "write">>
         /\ Head(t) = "errors" => Tail(t) = <<"write">> /\ t = <<"errors", "write">>
<1>1. CASE t = <<"request">>
  BY <1>1
<1>2. CASE t = <<"write">>
  BY <1>2
<1>3. CASE t = <<"errors", "write">>
  BY <1>3
<1>4. CASE t = <<"audit", "errors", "write">>
  BY <1>4
<1>5. CASE t = <<"systemd", "audit", "errors", "write">>
  BY <1>5
<1>6. CASE t = <<"host", "systemd", "audit", "errors", "write">>
  BY <1>6
<1> QED
  BY <1>1, <1>2, <1>3, <1>4, <1>5, <1>6 DEF ScrapeTodos

\* Requests that are sent stay so.
Sent(cl, cl2) ==
  \A c \in Client : cl[c].pc \notin {"down", "connected"} =>
    cl2[c].pc \notin {"down", "connected"} /\ cl2[c].path = cl[c].path
Grown(ex, ex2) ==
  \A h \in E!Hook : ex[h] \in Nat /\ ex2[h] \in Nat /\ ex[h] <= ex2[h]

\* A server that waits is where it was.
LEMMA ServerLater ==
  ASSUME NEW s, NEW cl, NEW cl2, NEW ex, NEW ex2,
         ServerIn(s, cl, ex), Sent(cl, cl2), Grown(ex, ex2)
  PROVE  ServerIn(s, cl2, ex2)
<1>1. DataAgrees(s.data, ex2)
  BY DEF ServerIn, DataAgrees, Grown
<1>2. FloorHolds(s, ex2)
  BY DEF ServerIn, FloorHolds, Grown
<1>3. Gathering(s, cl2)
  BY DEF ServerIn, Gathering, Sent, ScrapeTodos
<1> QED
  BY <1>1, <1>2, <1>3 DEF ServerIn

\* A value that is put among the data leaves the other ones.
LEMMA Gathered ==
  ASSUME NEW d, NEW key, NEW value, NEW e,
         e = [k \in DOMAIN d \cup {key} |-> IF k = key THEN value ELSE d[k]]
  PROVE  /\ \A k : k \in DOMAIN e <=> k \in DOMAIN d \/ k = key
         /\ e[key] = value
         /\ \A k \in DOMAIN d : k # key => e[k] = d[k]
OBVIOUS

\* The server goes on.
LEMMA ServerGoesOn ==
  ASSUME MetricsInv, E!Serve
  PROVE  ServerIn(metrics_server', metrics_client, E!hook_executions)
<1> DEFINE s == metrics_server
           t == metrics_server'
           ex == E!hook_executions
           cl == metrics_client
<1>1. /\ IsServer(s) /\ Gathering(s, cl) /\ DataAgrees(s.data, ex) /\ FloorHolds(s, ex)
      /\ metrics_queue \in Seq(Client)
  BY DEF MetricsInv, ServerInStep, ServerIn, ClientsInStep
<1>2. /\ \A h \in E!Hook : ex[h] \in Nat /\ E!hook_blocks[h] \in Nat /\ E!hook_blocks[h] <= ex[h]
      /\ E!tool_failures_total \in Nat
      /\ ex["PostToolUseFailure"] <= E!tool_failures_total
      /\ "PostToolUseFailure" \in E!Hook
  BY Counts DEF MetricsInv, E!Hook
<1> HIDE DEF ex
<1>3. CASE E!Accept
  <2>1. Head(metrics_queue) \in Client
    BY <1>1, <1>3 DEF E!Accept
  <2>2. /\ IsServer(t) /\ t.serves \in Client /\ t.todo = <<"request">> /\ t.data = E!None
        /\ t.floor = s.floor
    BY <1>1, <1>3, <2>1 DEF E!Accept, IsServer
  <2> QED
    BY <1>1, <2>2 DEF ServerIn, Gathering, ScrapeTodos, DataAgrees, FloorHolds, E!None, ex
<1>4. CASE E!Route
  <2>1. s.todo = <<"request">> /\ cl[s.serves].pc = "sent" /\ s.serves \in Client /\ s.data = E!None
    BY <1>1, <1>4, ScrapeMoves DEF E!Route, E!Before, Gathering
  <2>2. /\ IsServer(t) /\ t.serves = s.serves /\ t.data = s.data /\ t.floor = ex
        /\ t.todo = IF cl[s.serves].path = "/metrics"
                    THEN <<"host", "systemd", "audit", "errors", "write">> ELSE <<"write">>
    BY <1>1, <1>4, ScrapeSteps DEF E!Route, IsServer, ex
  <2>3. Gathering(t, cl)
    BY <2>1, <2>2 DEF Gathering, ScrapeTodos, E!None
  <2> QED
    BY <1>2, <2>1, <2>2, <2>3 DEF ServerIn, DataAgrees, FloorHolds, E!None, ex
<1>5. CASE E!Hangup \/ E!Answer \/ E!Restart
  <2>1. IsServer(t) /\ t.todo = <<>> /\ t.floor = s.floor /\ t.data \in {s.data, E!None}
    BY <1>1, <1>5 DEF E!Hangup, E!Answer, E!Restart, IsServer
  <2> QED
    BY <1>1, <2>1 DEF ServerIn, Gathering, ScrapeTodos, DataAgrees, FloorHolds, E!None, ex
<1>6. ASSUME NEW step, NEW key, NEW value, E!Gather(step, key, value)
      PROVE  /\ IsServer(t) /\ t.serves = s.serves /\ t.floor = s.floor
             /\ s.todo # <<>> /\ Head(s.todo) = step /\ t.todo = Tail(s.todo)
             /\ \A k : k \in DOMAIN t.data <=> k \in DOMAIN s.data \/ k = key
             /\ t.data[key] = value
             /\ \A k \in DOMAIN s.data : k # key => t.data[k] = s.data[k]
  <2>1. /\ IsServer(t) /\ t.serves = s.serves /\ t.floor = s.floor /\ t.todo = Tail(s.todo)
        /\ t.data = [k \in DOMAIN s.data \cup {key} |-> IF k = key THEN value ELSE s.data[k]]
    BY <1>1, <1>6 DEF E!Gather, IsServer
  <2>2. s.todo # <<>> /\ Head(s.todo) = step
    BY <1>6 DEF E!Gather, E!Before
  <2> QED
    BY <2>1, <2>2, Gathered
<1>7. CASE E!ReadHost \/ E!AskSystemd
  <2>1. PICK step, value : step \in {"host", "systemd"} /\ E!Gather(step, step, value)
    <3>1. ASSUME E!ReadHost PROVE \E value : E!Gather("host", "host", value)
      BY <3>1 DEF E!ReadHost
    <3>2. ASSUME E!AskSystemd PROVE \E value : E!Gather("systemd", "systemd", value)
      BY <3>2 DEF E!AskSystemd
    <3> QED
      BY <1>7, <3>1, <3>2
  <2>2. /\ t.todo \in {<<"systemd", "audit", "errors", "write">>, <<"audit", "errors", "write">>}
        /\ s.todo \notin {<<>>, <<"request">>, <<"write">>}
    BY <1>1, <1>6, <2>1, ScrapeMoves DEF Gathering
  <2>3. /\ IsServer(t) /\ t.serves = s.serves /\ t.floor = s.floor
        /\ "hooks" \in DOMAIN t.data => "hooks" \in DOMAIN s.data /\ t.data["hooks"] = s.data["hooks"]
        /\ "hooks" \in DOMAIN s.data => "hooks" \in DOMAIN t.data
        /\ "tool_failures_total" \in DOMAIN t.data =>
             /\ "tool_failures_total" \in DOMAIN s.data
             /\ t.data["tool_failures_total"] = s.data["tool_failures_total"]
    BY <1>6, <2>1
  <2>4. Gathering(t, cl)
    BY <1>1, <2>2, <2>3 DEF Gathering, ScrapeTodos
  <2>5. DataAgrees(t.data, ex)
    BY <1>1, <2>3 DEF DataAgrees
  <2>6. FloorHolds(t, ex)
    BY <1>1, <2>3 DEF FloorHolds
  <2> QED
    BY <2>3, <2>4, <2>5, <2>6 DEF ServerIn, ex
<1>8. CASE E!ReadAudit
  <2>1. PICK value : /\ value = [executions |-> ex, blocks |-> E!hook_blocks]
                     /\ E!Gather("audit", "hooks", value)
    BY <1>8 DEF E!ReadAudit, ex
  <2>2. t.todo = <<"errors", "write">> /\ s.todo \notin {<<>>, <<"request">>, <<"write">>}
    <3>1. s.todo # <<>> /\ Head(s.todo) = "audit" /\ t.todo = Tail(s.todo)
      BY <1>6, <2>1
    <3>2. s.todo \in ScrapeTodos
      BY <1>1 DEF Gathering
    <3> QED
      BY <3>1, <3>2, ScrapeMoves
  <2>3. /\ IsServer(t) /\ t.serves = s.serves /\ t.floor = s.floor
        /\ "hooks" \in DOMAIN t.data
        /\ t.data["hooks"] = [executions |-> ex, blocks |-> E!hook_blocks]
        /\ "tool_failures_total" \notin DOMAIN t.data
    <3>1. /\ IsServer(t) /\ t.serves = s.serves /\ t.floor = s.floor
          /\ t.data["hooks"] = value
          /\ \A k : k \in DOMAIN t.data <=> k \in DOMAIN s.data \/ k = "hooks"
      BY <1>6, <2>1
    <3>2. "tool_failures_total" \notin DOMAIN s.data
      BY <1>1, <2>2 DEF Gathering
    <3> QED
      BY <2>1, <3>1, <3>2
  <2>4. Gathering(t, cl)
    BY <1>1, <2>2, <2>3 DEF Gathering, ScrapeTodos
  <2>5. DataAgrees(t.data, ex)
    BY <1>2, <2>3 DEF DataAgrees
  <2>6. FloorHolds(t, ex)
    BY <1>1, <2>3 DEF FloorHolds
  <2> QED
    BY <2>3, <2>4, <2>5, <2>6 DEF ServerIn, ex
<1>9. CASE E!ReadErrors
  <2>1. E!Gather("errors", "tool_failures_total", E!tool_failures_total)
    BY <1>9 DEF E!ReadErrors
  <2>2. /\ t.todo = <<"write">> /\ s.todo = <<"errors", "write">>
        /\ "hooks" \in DOMAIN s.data
    BY <1>1, <1>6, <2>1, ScrapeMoves DEF Gathering
  <2>3. /\ IsServer(t) /\ t.serves = s.serves /\ t.floor = s.floor
        /\ "hooks" \in DOMAIN t.data /\ t.data["hooks"] = s.data["hooks"]
        /\ t.data["tool_failures_total"] = E!tool_failures_total
    BY <1>6, <2>1, <2>2
  <2>4. Gathering(t, cl)
    BY <1>1, <2>2, <2>3 DEF Gathering, ScrapeTodos
  <2>5. DataAgrees(t.data, ex)
    BY <1>1, <1>2, <2>2, <2>3 DEF DataAgrees
  <2>6. FloorHolds(t, ex)
    BY <1>1, <2>2, <2>3 DEF FloorHolds
  <2> QED
    BY <2>3, <2>4, <2>5, <2>6 DEF ServerIn, ex
<1> QED
  BY <1>3, <1>4, <1>5, <1>7, <1>8, <1>9 DEF E!Serve, ex

\* A client that is answered keeps its path.
LEMMA ClientAnswers ==
  \A x, answer, status : IsClient(x) =>
    [x EXCEPT !.pc = "answered", !.answer = answer, !.status = status]
      = [pc |-> "answered", path |-> x.path, status |-> status, answer |-> answer]
<1> SUFFICES ASSUME NEW x, IsClient(x), NEW answer, NEW status
             PROVE  [x EXCEPT !.pc = "answered", !.answer = answer, !.status = status]
                      = [pc |-> "answered", path |-> x.path, status |-> status, answer |-> answer]
  OBVIOUS
<1> DEFINE j == [pc |-> "answered", path |-> x.path, status |-> status, answer |-> answer]
<1>1. [x EXCEPT !.pc = "answered", !.answer = answer, !.status = status] = j
  <2>1. PICK p, q, s, a : x = [pc |-> p, path |-> q, status |-> s, answer |-> a]
    BY DEF IsClient
  <2> DEFINE w == [x EXCEPT !.pc = "answered"]
             z == [w EXCEPT !.answer = answer]
  <2>2. w = [pc |-> "answered", path |-> q, status |-> s, answer |-> a]
    BY <2>1
  <2>3. [x EXCEPT !.pc = "answered", !.answer = answer, !.status = status] = [z EXCEPT !.status = status]
    OBVIOUS
  <2> HIDE DEF w
  <2>4. z = [pc |-> "answered", path |-> q, status |-> s, answer |-> answer]
    BY <2>2
  <2> HIDE DEF z
  <2>5. [z EXCEPT !.status = status] = [pc |-> "answered", path |-> q, status |-> status, answer |-> answer]
    BY <2>4
  <2>6. x.path = q
    BY <2>1
  <2> QED
    BY <2>3, <2>5, <2>6
<1> QED
  BY <1>1

\* The clients get what was gathered for them.
LEMMA ClientsGoOn ==
  ASSUME MetricsInv, [E!Next]_metricsVars
  PROVE  ClientsInStep' /\ Sent(metrics_client, metrics_client')
<1> DEFINE cl == metrics_client
           cm == metrics_client'
           Agrees(c) == cm[c].pc = "answered" /\ cm[c].path = "/metrics" =>
                          E!CountersAgree(cm[c].answer)
           Fine(c) == /\ IsClient(cm[c]) /\ Agrees(c)
                      /\ cl[c].pc \notin {"down", "connected"} =>
                           cm[c].pc \notin {"down", "connected"} /\ cm[c].path = cl[c].path
<1>1. /\ cl = [c \in Client |-> cl[c]] /\ metrics_queue \in Seq(Client)
      /\ \A c \in Client :
           /\ IsClient(cl[c])
           /\ cl[c].pc = "answered" /\ cl[c].path = "/metrics" => E!CountersAgree(cl[c].answer)
  BY DEF MetricsInv, ClientsInStep, E!Scraped
<1>2. SUFFICES /\ cm = [c \in Client |-> cm[c]] /\ metrics_queue' \in Seq(Client)
               /\ \A c \in Client : Fine(c)
  BY DEF ClientsInStep, E!Scraped, E!CountersAgree, Sent
<1>3. ASSUME NEW c \in Client, cm = [cl EXCEPT ![c] = cm[c]], Fine(c),
             metrics_queue' \in {metrics_queue, Append(metrics_queue, c)}
      PROVE  /\ cm = [d \in Client |-> cm[d]] /\ metrics_queue' \in Seq(Client)
             /\ \A d \in Client : Fine(d)
  <2>1. metrics_queue' \in Seq(Client)
    BY <1>1, <1>3, AppendProperties
  <2>2. cm = [d \in Client |-> cm[d]] /\ \A d \in Client : d # c => cm[d] = cl[d]
    BY <1>1, <1>3
  <2> QED
    BY <1>1, <1>3, <2>1, <2>2
<1>4. ASSUME NEW c \in Client, E!Connect(c) \/ E!Send(c) \/ E!Leave(c)
      PROVE  /\ cm = [d \in Client |-> cm[d]] /\ metrics_queue' \in Seq(Client)
             /\ \A d \in Client : Fine(d)
  <2>1. /\ cm = [cl EXCEPT ![c] = cm[c]]
        /\ IsClient(cm[c])
        /\ \/ cl[c].pc = "down" /\ cm[c].pc = "connected"
           \/ cl[c].pc = "connected" /\ cm[c].pc = "sent"
           \/ cl[c].pc \in {"connected", "sent"} /\ cm[c].pc = "gone" /\ cm[c].path = cl[c].path
        /\ metrics_queue' \in {metrics_queue, Append(metrics_queue, c)}
    <3>1. \/ E!Connect(c) /\ cm = [cl EXCEPT ![c] = [cl[c] EXCEPT !.pc = "connected"]]
          \/ /\ E!Send(c)
             /\ \E path \in E!Path :
                  cm = [cl EXCEPT ![c] = [cl[c] EXCEPT !.pc = "sent", !.path = path]]
          \/ E!Leave(c) /\ cm = [cl EXCEPT ![c] = [cl[c] EXCEPT !.pc = "gone"]]
      <4>1. CASE E!Connect(c)
        BY <4>1 DEF E!Connect
      <4>2. CASE E!Send(c)
        BY <4>2 DEF E!Send
      <4>3. CASE E!Leave(c)
        BY <4>3 DEF E!Leave
      <4> QED
        BY <1>4, <4>1, <4>2, <4>3
    <3>2. PICK v : cm = [cl EXCEPT ![c] = v]
      BY <3>1
    <3>3. cm[c] = v /\ cm = [cl EXCEPT ![c] = cm[c]]
      BY <1>1, <3>2
    <3>4. metrics_queue' \in {metrics_queue, Append(metrics_queue, c)}
      BY <1>4 DEF E!Connect, E!Send, E!Leave
    <3>5. /\ IsClient(cm[c])
          /\ \/ cl[c].pc = "down" /\ cm[c].pc = "connected"
             \/ cl[c].pc = "connected" /\ cm[c].pc = "sent"
             \/ cl[c].pc \in {"connected", "sent"} /\ cm[c].pc = "gone" /\ cm[c].path = cl[c].path
      <4>1. CASE E!Connect(c) /\ cm = [cl EXCEPT ![c] = [cl[c] EXCEPT !.pc = "connected"]]
        <5>1. cm[c] = [cl[c] EXCEPT !.pc = "connected"] /\ cl[c].pc = "down" /\ IsClient(cl[c])
          BY <1>1, <4>1 DEF E!Connect
        <5> QED
          BY <5>1 DEF IsClient
      <4>2. CASE E!Send(c) /\ \E path \in E!Path :
                  cm = [cl EXCEPT ![c] = [cl[c] EXCEPT !.pc = "sent", !.path = path]]
        <5>1. PICK path \in E!Path : cm = [cl EXCEPT ![c] = [cl[c] EXCEPT !.pc = "sent", !.path = path]]
          BY <4>2
        <5>2. /\ cm[c] = [cl[c] EXCEPT !.pc = "sent", !.path = path]
              /\ cl[c].pc = "connected" /\ IsClient(cl[c])
          BY <1>1, <4>2, <5>1 DEF E!Send
        <5> QED
          BY <5>2 DEF IsClient
      <4>3. CASE E!Leave(c) /\ cm = [cl EXCEPT ![c] = [cl[c] EXCEPT !.pc = "gone"]]
        <5>1. cm[c] = [cl[c] EXCEPT !.pc = "gone"] /\ cl[c].pc \in {"connected", "sent"} /\ IsClient(cl[c])
          BY <1>1, <4>3 DEF E!Leave
        <5> QED
          BY <5>1 DEF IsClient
      <4> QED
        BY <3>1, <4>1, <4>2, <4>3
    <3> QED
      BY <3>3, <3>4, <3>5
  <2> QED
    BY <1>3, <2>1
<1>5. CASE E!Answer
  <2> DEFINE c == metrics_server.serves
  <2>1. c \in Client /\ (cl[c].path = "/metrics" => E!CountersAgree(metrics_server.data))
    BY <1>5, ScrapeMoves
       DEF E!Answer, E!Before, MetricsInv, ServerInStep, ServerIn, Gathering, DataAgrees, E!CountersAgree, E!Hook
  <2>2. CASE cl[c].pc # "sent"
    BY <1>1, <1>5, <2>2 DEF E!Answer
  <2>3. CASE cl[c].pc = "sent"
    <3>1. /\ cm = [cl EXCEPT ![c] = cm[c]] /\ IsClient(cm[c])
          /\ cm[c].path = cl[c].path /\ cm[c].pc = "answered" /\ cm[c].answer = metrics_server.data
          /\ metrics_queue' = metrics_queue
      <4>0. PICK status : status = IF cl[c].path = "/other" THEN 404 ELSE 200
        OBVIOUS
      <4>x. PICK x : x = cl[c]
        OBVIOUS
      <4>d. PICK d : d = metrics_server.data
        OBVIOUS
      <4>1. PICK j : j = [x EXCEPT !.pc = "answered", !.answer = d, !.status = status]
        OBVIOUS
      <4>2. cm = [cl EXCEPT ![c] = j] /\ metrics_queue' = metrics_queue
        BY <1>5, <2>3, <4>0, <4>x, <4>d, <4>1, ZenonT(60) DEF E!Answer
      <4>3. IsClient(j) /\ j.path = cl[c].path /\ j.pc = "answered" /\ j.answer = metrics_server.data
        <5>1. IsClient(x)
          BY <1>1, <2>1, <4>x
        <5>2. j = [pc |-> "answered", path |-> x.path, status |-> status, answer |-> d]
          <6>1. [x EXCEPT !.pc = "answered", !.answer = d, !.status = status]
                  = [pc |-> "answered", path |-> x.path, status |-> status, answer |-> d]
            BY <5>1, ClientAnswers, Zenon
          <6> QED
            BY <4>1, <6>1, Zenon
        <5> QED
          BY <4>x, <4>d, <5>2 DEF IsClient
      <4>4. cm[c] = j
        BY <1>1, <2>1, <4>2
      <4> QED
        BY <4>2, <4>3, <4>4
    <3> QED
      BY <1>3, <2>1, <3>1
  <2> QED
    BY <2>2, <2>3
<1>6. CASE E!Restart
  <2>1. ASSUME NEW c \in Client
        PROVE  Fine(c)
    BY <1>1, <1>6, <2>1 DEF E!Restart, IsClient
  <2> QED
    BY <1>6, <2>1 DEF E!Restart
<1>7. CASE E!Accept
  BY <1>1, <1>7, HeadTailProperties DEF E!Accept
<1>8. CASE UNCHANGED <<metrics_client, metrics_queue>>
  BY <1>1, <1>8
<1> QED
  BY <1>4, <1>5, <1>6, <1>7, <1>8
     DEF E!Next, E!Serve, E!Route, E!Hangup, E!ReadHost, E!AskSystemd, E!ReadAudit, E!ReadErrors, E!Gather,
         E!LogError, E!OtherHook, E!AppendTrace, E!WriteTrace, E!KillHook, metricsVars

\* Each step keeps the invariant.
LEMMA MetricsStepKeeps ==
  ASSUME MetricsInv, [E!Next]_metricsVars
  PROVE  MetricsInv'
<1>1. LogsInStep' /\ Grown(E!hook_executions, E!hook_executions')
  BY LogsGrow, Counts DEF MetricsInv, LogsMore, Grown
<1>2. ClientsInStep' /\ Sent(metrics_client, metrics_client')
  BY ClientsGoOn
<1>3. ServerIn(metrics_server', metrics_client, E!hook_executions)
  <2>1. CASE E!Serve
    BY <2>1, ServerGoesOn
  <2>2. CASE UNCHANGED metrics_server
    BY <2>2 DEF MetricsInv, ServerInStep
  <2> QED
    BY <2>1, <2>2 DEF E!Next, E!Connect, E!Send, E!Leave, E!LogError, E!OtherHook, E!AppendTrace,
      E!WriteTrace, E!KillHook, metricsVars
<1>4. ServerInStep'
  BY <1>1, <1>2, <1>3, ServerLater DEF ServerInStep
<1> QED
  BY <1>1, <1>2, <1>4 DEF MetricsInv

\* ScrapesAgree, for any number of connections and of runs of hooks: counters
\* that collect_harness_metrics reads one after the other from two logs that
\* grow agree in every answer.
THEOREM AnswersAgree == HostSpec => []ScrapesAgree
<1> DEFINE I == which = "metrics" => MetricsInv
<1>1. HostInit => I
  BY MetricsInitially DEF HostInit
<1>2. I /\ [HostNext]_all => I'
  BY OneComponent, MetricsStepKeeps
<1>3. I => ScrapesAgree
  BY DEF MetricsInv, ServerInStep, ServerIn, FloorHolds, ClientsInStep, ScrapesAgree, E!ScrapesAgree
<1> QED
  BY <1>1, <1>2, <1>3, PTL DEF HostSpec

-----------------------------------------------------------------------------
(* AiGateway *)

RouterState == {"absent", "starting", "serving", "hung", "ending", "ended"}
AiRouter == [source : {"none", "autostart", "transient", "scope", "process"}, state : RouterState]

\* What a call may have before it.
StopFull == <<"stop_headroom", "stop_units", "scopes", "stop_scopes", "fallback", "drain">>
StopTodos ==
  {StopFull, <<"stop_units", "scopes", "stop_scopes", "fallback", "drain">>,
   <<"scopes", "stop_scopes", "fallback", "drain">>, <<"stop_scopes", "fallback", "drain">>,
   <<"fallback", "drain">>, <<"escalate", "drain">>, <<"drain">>, <<>>}
StartFull == <<"health", "start_router", "start_headroom">>
StartTodos ==
  {StartFull, <<"start_router", "start_headroom">>, <<"start_headroom">>, <<>>}

\* A restart before, during and after it takes the old router down.
RestartFull == <<"stop_headroom", "stop_units", "scopes", "stop_scopes", "fallback", "drain",
                 "health", "start_router", "start_headroom">>
EarlyTodos ==
  {RestartFull, <<"stop_units", "scopes", "stop_scopes", "fallback", "drain",
                  "health", "start_router", "start_headroom">>}
DrainStart == <<"drain", "health", "start_router", "start_headroom">>
MidTodos ==
  {<<"scopes", "stop_scopes", "fallback", "drain", "health", "start_router", "start_headroom">>,
   <<"stop_scopes", "fallback", "drain", "health", "start_router", "start_headroom">>,
   <<"fallback", "drain", "health", "start_router", "start_headroom">>,
   <<"escalate", "drain", "health", "start_router", "start_headroom">>, DrainStart}

AiTodos(action) ==
  CASE action = "stop" -> StopTodos
    [] action = "restart" -> EarlyTodos \cup MidTodos \cup StartTodos
    [] action = "start" -> StartTodos
    [] action = "claude" -> StartTodos \cup {<<"ensure">>}
    [] action = "none" -> {<<>>}

IsAiJob(j) ==
  /\ j = [action |-> j.action, todo |-> j.todo, found |-> j.found, health |-> j.health, rc |-> j.rc]
  /\ j.action \in {"none", "start", "stop", "restart", "claude"}
  /\ j.todo \in AiTodos(j.action)
  /\ j.found \in SUBSET A!Pid
  /\ j.rc \in {0, 1}

AiLives(r) == r.state \in {"starting", "serving", "hung"}
AiDownOrSteady(ro, po) == po = 0 \/ (po \in A!Pid /\ ro[po].state \in {"serving", "hung"})

\* Of a stop that nothing came in the way of: no router comes up while it lasts,
\* and the drained port is that of the last one.
StopOk(j, ro, he) ==
  /\ \A p \in A!Pid : ro[p].state # "starting"
  /\ j.todo # StopFull => ~he
  /\ j.todo = <<>> /\ j.rc = 0 => \A p \in A!Pid : ~AiLives(ro[p])

\* Of a restart: the unit is down until the port is free; then who has the port
\* serves, and the unit does not run towards its end, so that what is started or
\* found lives.
RestartOk(j, ro, po, he) ==
  /\ po # A!OtherProgram
  /\ j.todo \in MidTodos => \A p \in A!Pid : ro[p].source = "autostart" =>
       ro[p].state \in {"absent", "ended"}
  /\ j.todo \in StartTodos =>
       \A p \in A!Pid : ro[p].source = "autostart" => ro[p].state # "ending"
  /\ j.todo \in StartTodos /\ j.rc = 0 => AiDownOrSteady(ro, po)
  /\ j.todo \in {<<"start_headroom">>, <<>>} /\ j.rc = 0 => \E p \in A!Pid : AiLives(ro[p])
  /\ j.todo = <<>> => he

CallOk(j, ro, po, he) ==
  /\ j.action = "stop" => StopOk(j, ro, he)
  /\ j.action = "restart" => RestartOk(j, ro, po, he)

\* Who serves or hangs has the port.
PortHeld(ro, po) == \A p \in A!Pid : ro[p].state \in {"serving", "hung"} => po = p

AiHost ==
  /\ ai_router \in [A!Pid -> AiRouter]
  /\ ai_port \in {0, A!OtherProgram} \cup A!Pid
  /\ ai_headroom \in BOOLEAN
  /\ PortHeld(ai_router, ai_port)
AiJobs == ai_job = [c \in AiCall |-> ai_job[c]] /\ \A c \in AiCall : IsAiJob(ai_job[c])

AiInv ==
  /\ AiHost /\ AiJobs
  /\ \A c \in AiCall : c \notin ai_spoiled => CallOk(ai_job[c], ai_router, ai_port, ai_headroom)

\* The numbers are apart.
LEMMA AiNumbers == 0 \notin A!Pid /\ A!OtherProgram \notin A!Pid /\ A!OtherProgram # 0
BY GatewayAssumption DEF A!Pid, A!OtherProgram

AiRest(t) == IF Len(t) > 1 THEN Tail(t) ELSE <<>>

\* The steps of a stop.
LEMMA StopMoves ==
  ASSUME NEW t \in StopTodos, t # <<>>
  PROVE  /\ AiRest(t) \in StopTodos /\ AiRest(t) # StopFull
         /\ AiRest(t) = <<>> <=> t = <<"drain">>
         /\ Head(t) \in {"stop_headroom", "stop_units", "scopes", "stop_scopes", "fallback", "escalate", "drain"}
         /\ Head(t) = "stop_headroom" <=> t = StopFull
         /\ Head(t) = "drain" <=> t = <<"drain">>
         /\ Head(t) = "fallback" => Tail(t) = <<"drain">>
         /\ Head(t) = "scopes" => Tail(t) = AiRest(t)
<1>1. CASE t = StopFull
  <2>1. Head(t) = "stop_headroom" /\ t # <<>> /\ t # <<"drain">>
    BY <1>1 DEF StopFull
  <2>2. AiRest(t) = <<"stop_units", "scopes", "stop_scopes", "fallback", "drain">> /\ Tail(t) = AiRest(t)
    BY <1>1 DEF AiRest, StopFull
  <2>3. <<"stop_units", "scopes", "stop_scopes", "fallback", "drain">> # StopFull /\ <<"stop_units", "scopes", "stop_scopes", "fallback", "drain">> # <<>>
    BY <1>1 DEF StopFull
  <2>4. <<"stop_units", "scopes", "stop_scopes", "fallback", "drain">> \in StopTodos
    BY DEF StopTodos
  <2> QED
    BY <1>1, <2>1, <2>2, <2>3, <2>4
<1>2. CASE t = <<"stop_units", "scopes", "stop_scopes", "fallback", "drain">>
  <2>1. Head(t) = "stop_units" /\ t # <<>> /\ t # <<"drain">>
    BY <1>2
  <2>2. AiRest(t) = <<"scopes", "stop_scopes", "fallback", "drain">> /\ Tail(t) = AiRest(t)
    BY <1>2 DEF AiRest
  <2>3. <<"scopes", "stop_scopes", "fallback", "drain">> # StopFull /\ <<"scopes", "stop_scopes", "fallback", "drain">> # <<>> /\ t # StopFull
    BY <1>2 DEF StopFull
  <2>4. <<"scopes", "stop_scopes", "fallback", "drain">> \in StopTodos
    BY DEF StopTodos
  <2> QED
    BY <1>2, <2>1, <2>2, <2>3, <2>4
<1>3. CASE t = <<"scopes", "stop_scopes", "fallback", "drain">>
  <2>1. Head(t) = "scopes" /\ t # <<>> /\ t # <<"drain">>
    BY <1>3
  <2>2. AiRest(t) = <<"stop_scopes", "fallback", "drain">> /\ Tail(t) = AiRest(t)
    BY <1>3 DEF AiRest
  <2>3. <<"stop_scopes", "fallback", "drain">> # StopFull /\ <<"stop_scopes", "fallback", "drain">> # <<>> /\ t # StopFull
    BY <1>3 DEF StopFull
  <2>4. <<"stop_scopes", "fallback", "drain">> \in StopTodos
    BY DEF StopTodos
  <2> QED
    BY <1>3, <2>1, <2>2, <2>3, <2>4
<1>4. CASE t = <<"stop_scopes", "fallback", "drain">>
  <2>1. Head(t) = "stop_scopes" /\ t # <<>> /\ t # <<"drain">>
    BY <1>4
  <2>2. AiRest(t) = <<"fallback", "drain">> /\ Tail(t) = AiRest(t)
    BY <1>4 DEF AiRest
  <2>3. <<"fallback", "drain">> # StopFull /\ <<"fallback", "drain">> # <<>> /\ t # StopFull
    BY <1>4 DEF StopFull
  <2>4. <<"fallback", "drain">> \in StopTodos
    BY DEF StopTodos
  <2> QED
    BY <1>4, <2>1, <2>2, <2>3, <2>4
<1>5. CASE t = <<"fallback", "drain">>
  <2>1. Head(t) = "fallback" /\ t # <<>> /\ t # <<"drain">>
    BY <1>5
  <2>2. AiRest(t) = <<"drain">> /\ Tail(t) = AiRest(t)
    BY <1>5 DEF AiRest
  <2>3. <<"drain">> # StopFull /\ <<"drain">> # <<>> /\ t # StopFull
    BY <1>5 DEF StopFull
  <2>4. <<"drain">> \in StopTodos
    BY DEF StopTodos
  <2> QED
    BY <1>5, <2>1, <2>2, <2>3, <2>4
<1>6. CASE t = <<"escalate", "drain">>
  <2>1. Head(t) = "escalate" /\ t # <<>> /\ t # <<"drain">>
    BY <1>6
  <2>2. AiRest(t) = <<"drain">> /\ Tail(t) = AiRest(t)
    BY <1>6 DEF AiRest
  <2>3. <<"drain">> # StopFull /\ <<"drain">> # <<>> /\ t # StopFull
    BY <1>6 DEF StopFull
  <2>4. <<"drain">> \in StopTodos
    BY DEF StopTodos
  <2> QED
    BY <1>6, <2>1, <2>2, <2>3, <2>4
<1>7. CASE t = <<"drain">>
  <2>1. Head(t) = "drain" /\ t # <<>> /\ t = <<"drain">>
    BY <1>7
  <2>2. AiRest(t) = <<>>
    BY <1>7 DEF AiRest
  <2>3. <<>> # StopFull /\ t # StopFull
    BY <1>7 DEF StopFull
  <2>4. <<>> \in StopTodos
    BY DEF StopTodos
  <2> QED
    BY <1>7, <2>1, <2>2, <2>3, <2>4
<1> QED
  BY <1>1, <1>2, <1>3, <1>4, <1>5, <1>6, <1>7 DEF StopTodos

\* The steps of a restart until the port is free.
LEMMA RestartMoves ==
  ASSUME NEW t \in EarlyTodos \cup MidTodos
  PROVE  /\ t # <<>> /\ AiRest(t) = Tail(t) /\ t \notin StartTodos
         /\ t \in EarlyTodos <=> Head(t) \in {"stop_headroom", "stop_units"}
         /\ t \in MidTodos <=> Head(t) \in {"scopes", "stop_scopes", "fallback", "escalate", "drain"}
         /\ Head(t) \in {"stop_headroom", "stop_units", "scopes", "stop_scopes", "fallback", "escalate", "drain"}
         /\ Head(t) = "stop_headroom" => Tail(t) \in EarlyTodos
         /\ Head(t) = "stop_units" => Tail(t) \in MidTodos
         /\ Head(t) \in {"scopes", "stop_scopes", "escalate", "fallback"} => Tail(t) \in MidTodos
         /\ Head(t) = "fallback" => Tail(t) = DrainStart
         /\ Head(t) = "drain" => t = DrainStart /\ Tail(t) = StartFull
         /\ \E i \in DOMAIN t : t[i] = "drain"
<1> USE DEF EarlyTodos, MidTodos, StartTodos, AiRest, RestartFull, StartFull, DrainStart
<1>1. CASE t = RestartFull
  <2>1. 6 \in DOMAIN t /\ t[6] = "drain"
    BY <1>1
  <2> QED
    BY <1>1, <2>1
<1>2. CASE t = <<"stop_units", "scopes", "stop_scopes", "fallback", "drain",
                  "health", "start_router", "start_headroom">>
  <2>1. 5 \in DOMAIN t /\ t[5] = "drain"
    BY <1>2
  <2> QED
    BY <1>2, <2>1
<1>3. CASE t = <<"scopes", "stop_scopes", "fallback", "drain", "health", "start_router", "start_headroom">>
  <2>1. 4 \in DOMAIN t /\ t[4] = "drain"
    BY <1>3
  <2> QED
    BY <1>3, <2>1
<1>4. CASE t = <<"stop_scopes", "fallback", "drain", "health", "start_router", "start_headroom">>
  <2>1. 3 \in DOMAIN t /\ t[3] = "drain"
    BY <1>4
  <2> QED
    BY <1>4, <2>1
<1>5. CASE t = <<"fallback", "drain", "health", "start_router", "start_headroom">>
  <2>1. 2 \in DOMAIN t /\ t[2] = "drain"
    BY <1>5
  <2> QED
    BY <1>5, <2>1
<1>6. CASE t = <<"escalate", "drain", "health", "start_router", "start_headroom">>
  <2>1. 2 \in DOMAIN t /\ t[2] = "drain"
    BY <1>6
  <2> QED
    BY <1>6, <2>1
<1>7. CASE t = DrainStart
  <2>1. 1 \in DOMAIN t /\ t[1] = "drain"
    BY <1>7
  <2> QED
    BY <1>7, <2>1
<1> QED
  BY <1>1, <1>2, <1>3, <1>4, <1>5, <1>6, <1>7

\* The steps of a restart are not those of a stop.
LEMMA RestartStops == StopFull \notin EarlyTodos \cup MidTodos
<1>1. \A t \in EarlyTodos \cup MidTodos : t = StopFull => Head(t) = "stop_headroom" /\ Len(t) = 6
  BY DEF StopFull
<1>2. Len(RestartFull) = 9
  BY DEF RestartFull
<1>3. \A t \in EarlyTodos \cup MidTodos : Head(t) = "stop_headroom" => t = RestartFull
  BY RestartMoves DEF EarlyTodos
<1> QED
  BY <1>1, <1>2, <1>3

\* The steps of a start.
LEMMA StartMoves ==
  ASSUME NEW t \in StartTodos
  PROVE  /\ t \notin EarlyTodos \cup MidTodos
         /\ t # <<>> =>
              /\ Head(t) \in {"health", "start_router", "start_headroom"}
              /\ Head(t) = "health" => t = StartFull /\ Tail(t) = <<"start_router", "start_headroom">>
                                        /\ AiRest(t) = Tail(t)
              /\ Head(t) = "start_router" => t = <<"start_router", "start_headroom">>
                                              /\ AiRest(t) = <<"start_headroom">>
              /\ Head(t) = "start_headroom" => t = <<"start_headroom">> /\ AiRest(t) = <<>>
              /\ AiRest(t) \in StartTodos
<1> USE DEF EarlyTodos, MidTodos, StartTodos, AiRest, RestartFull, StartFull, DrainStart
<1>1. CASE t = <<>>
  BY <1>1
<1>2. CASE t = StartFull
  BY <1>2
<1>3. CASE t = <<"start_router", "start_headroom">>
  BY <1>3
<1>4. CASE t = <<"start_headroom">>
  BY <1>4
<1> QED
  BY <1>1, <1>2, <1>3, <1>4

\* A call that begins: its action and what it has to do change.
LEMMA AiBegins ==
  \A j, p, q : IsAiJob(j) =>
    [j EXCEPT !.action = p, !.todo = q]
      = [action |-> p, todo |-> q, found |-> j.found, health |-> j.health, rc |-> j.rc]
<1> SUFFICES ASSUME NEW j, NEW p, NEW q, IsAiJob(j)
             PROVE  [j EXCEPT !.action = p, !.todo = q]
                      = [action |-> p, todo |-> q, found |-> j.found, health |-> j.health, rc |-> j.rc]
  OBVIOUS
<1>1. PICK a, t, f, h, r : j = [action |-> a, todo |-> t, found |-> f, health |-> h, rc |-> r]
  BY DEF IsAiJob
<1>2. j.action = a /\ j.todo = t /\ j.found = f /\ j.health = h /\ j.rc = r
  BY <1>1
<1> DEFINE y == [j EXCEPT !.action = p]
<1>3. y = [action |-> p, todo |-> t, found |-> f, health |-> h, rc |-> r]
  BY <1>1
<1>4. [j EXCEPT !.action = p, !.todo = q] = [y EXCEPT !.todo = q]
  OBVIOUS
<1> HIDE DEF y
<1>5. [y EXCEPT !.todo = q] = [action |-> p, todo |-> q, found |-> f, health |-> h, rc |-> r]
  BY <1>3
<1> QED
  BY <1>2, <1>4, <1>5

\* A call that looks: what is left to do and what it found change.
LEMMA AiFinds ==
  \A j, p, q : IsAiJob(j) =>
    [j EXCEPT !.todo = p, !.found = q]
      = [action |-> j.action, todo |-> p, found |-> q, health |-> j.health, rc |-> j.rc]
<1> SUFFICES ASSUME NEW j, NEW p, NEW q, IsAiJob(j)
             PROVE  [j EXCEPT !.todo = p, !.found = q]
                      = [action |-> j.action, todo |-> p, found |-> q, health |-> j.health, rc |-> j.rc]
  OBVIOUS
<1>1. PICK a, t, f, h, r : j = [action |-> a, todo |-> t, found |-> f, health |-> h, rc |-> r]
  BY DEF IsAiJob
<1>2. j.action = a /\ j.todo = t /\ j.found = f /\ j.health = h /\ j.rc = r
  BY <1>1
<1> DEFINE y == [j EXCEPT !.todo = p]
<1>3. y = [action |-> a, todo |-> p, found |-> f, health |-> h, rc |-> r]
  BY <1>1
<1>4. [j EXCEPT !.todo = p, !.found = q] = [y EXCEPT !.found = q]
  OBVIOUS
<1> HIDE DEF y
<1>5. [y EXCEPT !.found = q] = [action |-> a, todo |-> p, found |-> q, health |-> h, rc |-> r]
  BY <1>3
<1> QED
  BY <1>2, <1>4, <1>5

\* The same, assigned in the other order.
LEMMA AiFindsFirst ==
  \A j, p, q : IsAiJob(j) =>
    [j EXCEPT !.found = p, !.todo = q]
      = [action |-> j.action, todo |-> q, found |-> p, health |-> j.health, rc |-> j.rc]
<1> SUFFICES ASSUME NEW j, NEW p, NEW q, IsAiJob(j)
             PROVE  [j EXCEPT !.found = p, !.todo = q]
                      = [action |-> j.action, todo |-> q, found |-> p, health |-> j.health, rc |-> j.rc]
  OBVIOUS
<1>1. PICK a, t, f, h, r : j = [action |-> a, todo |-> t, found |-> f, health |-> h, rc |-> r]
  BY DEF IsAiJob
<1>2. j.action = a /\ j.todo = t /\ j.found = f /\ j.health = h /\ j.rc = r
  BY <1>1
<1> DEFINE y == [j EXCEPT !.found = p]
<1>3. y = [action |-> a, todo |-> t, found |-> p, health |-> h, rc |-> r]
  BY <1>1
<1>4. [j EXCEPT !.found = p, !.todo = q] = [y EXCEPT !.todo = q]
  OBVIOUS
<1> HIDE DEF y
<1>5. [y EXCEPT !.todo = q] = [action |-> a, todo |-> q, found |-> p, health |-> h, rc |-> r]
  BY <1>3
<1> QED
  BY <1>2, <1>4, <1>5

\* A call that asks for the health: what is left to do and the answer change.
LEMMA AiReads ==
  \A j, p, q : IsAiJob(j) =>
    [j EXCEPT !.todo = p, !.health = q]
      = [action |-> j.action, todo |-> p, found |-> j.found, health |-> q, rc |-> j.rc]
<1> SUFFICES ASSUME NEW j, NEW p, NEW q, IsAiJob(j)
             PROVE  [j EXCEPT !.todo = p, !.health = q]
                      = [action |-> j.action, todo |-> p, found |-> j.found, health |-> q, rc |-> j.rc]
  OBVIOUS
<1>1. PICK a, t, f, h, r : j = [action |-> a, todo |-> t, found |-> f, health |-> h, rc |-> r]
  BY DEF IsAiJob
<1>2. j.action = a /\ j.todo = t /\ j.found = f /\ j.health = h /\ j.rc = r
  BY <1>1
<1> DEFINE y == [j EXCEPT !.todo = p]
<1>3. y = [action |-> a, todo |-> p, found |-> f, health |-> h, rc |-> r]
  BY <1>1
<1>4. [j EXCEPT !.todo = p, !.health = q] = [y EXCEPT !.health = q]
  OBVIOUS
<1> HIDE DEF y
<1>5. [y EXCEPT !.health = q] = [action |-> a, todo |-> p, found |-> f, health |-> q, rc |-> r]
  BY <1>3
<1> QED
  BY <1>2, <1>4, <1>5

\* Step goes on with the rest.
LEMMA AiStepOf ==
  ASSUME NEW j, IsAiJob(j), j.todo # <<>>
  PROVE  /\ IsAiJob(A!Step(j)) /\ A!Step(j).action = j.action /\ A!Step(j).rc = j.rc
         /\ A!Step(j).todo = AiRest(j.todo)
<1>1. AiRest(j.todo) \in AiTodos(j.action)
  <2>1. CASE j.action = "stop"
    BY <2>1, StopMoves DEF IsAiJob, AiTodos
  <2>2. CASE j.action = "restart" /\ j.todo \in EarlyTodos \cup MidTodos
    <3>1. AiRest(j.todo) \in EarlyTodos \cup MidTodos \cup StartTodos
      BY <2>2, RestartMoves, ZenonT(60) DEF StartTodos
    <3> QED
      BY <2>2, <3>1 DEF AiTodos
  <2>3. CASE j.action = "restart" /\ j.todo \in StartTodos
    BY <2>3, StartMoves DEF AiTodos
  <2>4. CASE j.action = "start"
    BY <2>4, StartMoves DEF IsAiJob, AiTodos
  <2>5. CASE j.action = "claude" /\ j.todo \in StartTodos
    BY <2>5, StartMoves DEF AiTodos
  <2>6. CASE j.action = "claude" /\ j.todo = <<"ensure">>
    <3>1. AiRest(j.todo) = <<>>
      BY <2>6 DEF AiRest
    <3> QED
      BY <2>6, <3>1 DEF AiTodos, StartTodos
  <2>7. CASE j.action = "none"
    BY <2>7 DEF IsAiJob, AiTodos
  <2> QED
    BY <2>1, <2>2, <2>3, <2>4, <2>5, <2>6, <2>7 DEF IsAiJob, AiTodos
<1>2. PICK a, t, f, h, r : j = [action |-> a, todo |-> t, found |-> f, health |-> h, rc |-> r]
  BY DEF IsAiJob
<1>3. CASE Len(j.todo) > 1
  <2>1. A!Step(j) = [action |-> a, todo |-> AiRest(t), found |-> f, health |-> h, rc |-> r]
    BY <1>2, <1>3 DEF A!Step, AiRest
  <2> QED
    BY <1>1, <1>2, <2>1 DEF IsAiJob
<1>4. CASE ~(Len(j.todo) > 1)
  <2>1. PICK b, e, g, n : b = "none" /\ e = <<>> /\ g = {} /\ n = [headroom |-> FALSE, router |-> FALSE]
    OBVIOUS
  <2>2. A!Idle = [action |-> b, todo |-> e, found |-> g, health |-> n, rc |-> 0]
    BY <2>1 DEF A!Idle
  <2>3. A!Step(j) = [A!Idle EXCEPT !.action = a, !.rc = r]
    BY <1>2, <1>4 DEF A!Step
  <2> DEFINE y == [A!Idle EXCEPT !.action = a]
  <2>4. y = [action |-> a, todo |-> e, found |-> g, health |-> n, rc |-> 0]
    BY <2>2
  <2>5. A!Step(j) = [y EXCEPT !.rc = r]
    BY <2>3
  <2> HIDE DEF y
  <2>6. A!Step(j) = [action |-> a, todo |-> e, found |-> g, health |-> n, rc |-> r]
    BY <2>4, <2>5
  <2> QED
    BY <1>1, <1>2, <1>4, <2>1, <2>6 DEF IsAiJob, AiRest
<1> QED
  BY <1>3, <1>4

\* A step of one call.
LEMMA AiCallStep ==
  ASSUME AiInv, NEW c \in AiCall, NEW v, ai_job' = [ai_job EXCEPT ![c] = v], IsAiJob(v), AiHost',
         c \notin ai_spoiled' => CallOk(v, ai_router', ai_port', ai_headroom'),
         \A d \in AiCall \ {c} : d \notin ai_spoiled' =>
           CallOk(ai_job[d], ai_router', ai_port', ai_headroom')
  PROVE  AiInv'
<1>1. ai_job = [d \in AiCall |-> ai_job[d]]
  BY DEF AiInv, AiJobs
<1>2. /\ ai_job' = [d \in AiCall |-> ai_job'[d]]
      /\ ai_job'[c] = v /\ \A d \in AiCall \ {c} : ai_job'[d] = ai_job[d]
  BY <1>1
<1> QED
  BY <1>2 DEF AiInv, AiJobs

\* What End does.
LEMMA AiEnds ==
  ASSUME AiHost, NEW pids \in SUBSET A!Pid, A!End(pids), ai_headroom' \in BOOLEAN
  PROVE  /\ AiHost'
         /\ \A p \in A!Pid : /\ ai_router'[p].source = ai_router[p].source
                              /\ ai_router'[p].state = IF p \in pids THEN "ended" ELSE ai_router[p].state
         /\ ai_port' = IF ai_port \in pids THEN 0 ELSE ai_port
<1>1. ASSUME NEW p \in A!Pid
      PROVE  /\ ai_router'[p] \in AiRouter
             /\ ai_router'[p].source = ai_router[p].source
             /\ ai_router'[p].state = IF p \in pids THEN "ended" ELSE ai_router[p].state
  BY DEF A!End, AiHost, AiRouter, RouterState
<1>2. ai_router' \in [A!Pid -> AiRouter]
  BY <1>1 DEF A!End
<1> QED
  BY <1>1, <1>2, AiNumbers DEF A!End, AiHost, PortHeld

\* The commands as the steps of do_stop, do_start and do_restart.
LEMMA AiSteps ==
  /\ A!Steps("start") = StartFull /\ A!Steps("stop") = StopFull
  /\ A!Steps("restart") = RestartFull /\ A!Steps("claude") = <<"ensure">>
<1> DEFINE S == {"stop_headroom", "stop_units", "scopes", "stop_scopes", "fallback", "drain",
                 "health", "start_router", "start_headroom"}
           s == <<"stop_headroom", "stop_units", "scopes", "stop_scopes", "fallback">>
           t == <<"drain">>
           u == StopFull
           v == StartFull
           w == RestartFull
<1>1. s \o t = u
  <2>1. s \in Seq(S) /\ t \in Seq(S) /\ u \in Seq(S)
    BY DEF StopFull
  <2>2. Len(s) = 5 /\ Len(t) = 1 /\ Len(u) = 6
    BY DEF StopFull
  <2>3. u[1] = s[1] /\ u[2] = s[2] /\ u[3] = s[3] /\ u[4] = s[4] /\ u[5] = s[5] /\ u[6] = t[1]
    BY DEF StopFull
  <2> HIDE DEF S, s, t, u
  <2>4. /\ Len(u) = Len(s) + Len(t)
        /\ \A i \in 1..Len(s) : u[i] = s[i]
        /\ \A i \in 1..Len(t) : u[Len(s) + i] = t[i]
    BY <2>2, <2>3
  <2> QED
    BY <2>1, <2>4, ConcatIs
<1>2. u \o v = w
  <2>1. u \in Seq(S) /\ v \in Seq(S) /\ w \in Seq(S)
    BY DEF StopFull, StartFull, RestartFull
  <2>2. Len(u) = 6 /\ Len(v) = 3 /\ Len(w) = 9
    BY DEF StopFull, StartFull, RestartFull
  <2>3. /\ w[1] = u[1] /\ w[2] = u[2] /\ w[3] = u[3] /\ w[4] = u[4] /\ w[5] = u[5] /\ w[6] = u[6]
        /\ w[7] = v[1] /\ w[8] = v[2] /\ w[9] = v[3]
    BY DEF StopFull, StartFull, RestartFull
  <2> HIDE DEF S, u, v, w
  <2>4. /\ Len(w) = Len(u) + Len(v)
        /\ \A i \in 1..Len(u) : w[i] = u[i]
        /\ \A i \in 1..Len(v) : w[Len(u) + i] = v[i]
    BY <2>2, <2>3
  <2> QED
    BY <2>1, <2>4, ConcatIs
<1>3. A!StopSteps = StopFull /\ A!StartSteps = StartFull
  BY <1>1 DEF A!StopSteps, A!DrainGate, A!StartSteps, StartFull
<1> QED
  BY <1>2, <1>3 DEF A!Steps

\* A step of one call that changes its own record only.
LEMMA AiPrivate ==
  ASSUME AiInv, NEW c \in AiCall, NEW v, ai_job' = [ai_job EXCEPT ![c] = v], IsAiJob(v),
         UNCHANGED <<ai_router, ai_port, ai_headroom>>, ai_spoiled \subseteq ai_spoiled',
         c \notin ai_spoiled' => CallOk(v, ai_router, ai_port, ai_headroom)
  PROVE  AiInv'
<1>1. AiHost'
  BY DEF AiInv, AiHost
<1>2. \A d \in AiCall \ {c} : d \notin ai_spoiled' => CallOk(ai_job[d], ai_router', ai_port', ai_headroom')
  BY DEF AiInv
<1> QED
  BY <1>1, <1>2, AiCallStep

\* What takes routers or the proxy down leaves a stop as it is.
LEMMA StopKept ==
  ASSUME NEW j, NEW ro, NEW ro2, NEW he, NEW he2, StopOk(j, ro, he), he2 => he,
         \A p \in A!Pid : ro2[p].state = ro[p].state \/ ro2[p].state \in {"ended", "ending"}
  PROVE  StopOk(j, ro2, he2)
BY DEF StopOk, AiLives

\* A step of a call that takes something down.
LEMMA AiTakesDown ==
  ASSUME AiInv, NEW c \in AiCall, NEW v, ai_job' = [ai_job EXCEPT ![c] = v], IsAiJob(v), AiHost',
         ai_spoiled' = ai_spoiled \cup (A!Ups \ {c}), ai_headroom' => ai_headroom,
         \A p \in A!Pid : \/ ai_router'[p].state = ai_router[p].state
                          \/ ai_router'[p].state \in {"ended", "ending"},
         v.action = ai_job[c].action, v.todo # <<>>, v.todo # StopFull,
         ai_job[c].todo = StopFull => ~ai_headroom',
         v.action = "restart" /\ c \notin ai_spoiled => RestartOk(v, ai_router', ai_port', ai_headroom')
  PROVE  AiInv'
<1>1. ASSUME NEW d \in AiCall \ {c}, d \notin ai_spoiled'
      PROVE  CallOk(ai_job[d], ai_router', ai_port', ai_headroom')
  <2>1. ai_job[d].action # "restart" /\ d \notin ai_spoiled
    BY <1>1 DEF A!Ups
  <2>2. ai_job[d].action = "stop" => StopOk(ai_job[d], ai_router, ai_headroom)
    BY <1>1, <2>1 DEF AiInv, CallOk
  <2> QED
    BY <2>1, <2>2, StopKept DEF CallOk
<1>2. ASSUME c \notin ai_spoiled', v.action = "stop"
      PROVE  StopOk(v, ai_router', ai_headroom')
  <2>1. StopOk(ai_job[c], ai_router, ai_headroom)
    BY <1>2 DEF AiInv, CallOk
  <2>2. StopOk(ai_job[c], ai_router', ai_headroom')
    BY <2>1, StopKept
  <2> QED
    BY <2>2 DEF StopOk
<1> QED
  BY <1>1, <1>2, AiCallStep DEF CallOk

\* A restart before its drain.
LEMMA RestartDown ==
  ASSUME NEW j, NEW ro, NEW po, NEW he, po # A!OtherProgram,
         \/ j.todo \in EarlyTodos
         \/ /\ j.todo \in MidTodos
            /\ \A p \in A!Pid : ro[p].source = "autostart" => ro[p].state \in {"absent", "ended"}
  PROVE  RestartOk(j, ro, po, he)
<1>1. j.todo \in EarlyTodos => j.todo \notin MidTodos
  BY RestartMoves
<1>2. j.todo \notin StartTodos /\ j.todo \notin {<<"start_headroom">>, <<>>}
  BY RestartMoves DEF StartTodos
<1> QED
  BY <1>1, <1>2 DEF RestartOk

\* What a call has before it, by its first step.
LEMMA AiAt ==
  ASSUME AiInv, NEW c \in AiCall, NEW step, A!Before(c, step)
  PROVE  /\ IsAiJob(ai_job[c]) /\ ai_job[c].todo # <<>> /\ Head(ai_job[c].todo) = step
         /\ ai_job[c].todo \in AiTodos(ai_job[c].action)
         /\ ai_job[c].action = "stop" => ai_job[c].todo \in StopTodos
         /\ ai_job[c].action = "restart" =>
              ai_job[c].todo \in EarlyTodos \cup MidTodos \cup StartTodos
         /\ c \notin ai_spoiled => CallOk(ai_job[c], ai_router, ai_port, ai_headroom)
BY DEF AiInv, AiJobs, A!Before, IsAiJob, AiTodos

\* The steps of do_stop that end something.
LEMMA AiStopKeeps ==
  ASSUME AiInv, NEW c \in AiCall,
         A!StopHeadroom(c) \/ A!StopUnits(c) \/ A!StopScopes(c) \/ A!Escalate(c)
  PROVE  AiInv'
<1> DEFINE j == ai_job[c]
           v == A!Step(j)
<1>1. PICK step : /\ step \in {"stop_headroom", "stop_units", "stop_scopes", "escalate"}
                  /\ A!Before(c, step)
                  /\ step = "stop_headroom" => A!StopHeadroom(c)
                  /\ step = "stop_units" => A!StopUnits(c)
                  /\ step = "stop_scopes" => A!StopScopes(c)
                  /\ step = "escalate" => A!Escalate(c)
  BY DEF A!StopHeadroom, A!StopUnits, A!StopScopes, A!Escalate
<1>2. /\ IsAiJob(j) /\ j.todo # <<>> /\ Head(j.todo) = step
      /\ j.action = "stop" => j.todo \in StopTodos
      /\ j.action = "restart" => j.todo \in EarlyTodos \cup MidTodos \cup StartTodos
      /\ c \notin ai_spoiled => CallOk(j, ai_router, ai_port, ai_headroom)
      /\ j.todo \in AiTodos(j.action)
  BY <1>1, AiAt
<1>3. /\ IsAiJob(v) /\ v.action = j.action /\ v.rc = j.rc /\ v.todo = AiRest(j.todo)
  BY <1>2, AiStepOf
<1>4. j.action \in {"stop", "restart"}
  BY <1>1, <1>2, StartMoves DEF IsAiJob, AiTodos
<1>5. /\ ai_job' = [ai_job EXCEPT ![c] = v]
      /\ ai_spoiled' = ai_spoiled \cup (A!Ups \ {c})
  BY <1>1 DEF A!StopHeadroom, A!StopUnits, A!StopScopes, A!Escalate, A!Then
<1> HIDE DEF v
<1>6. /\ AiHost'
      /\ ai_headroom' => ai_headroom
      /\ step = "stop_headroom" => ~ai_headroom'
      /\ ai_port' \in {ai_port, 0}
      /\ \A p \in A!Pid : /\ ai_router'[p].source = ai_router[p].source
                           /\ ai_router'[p].state \in {ai_router[p].state, "ended"}
      /\ step = "stop_units" => \A p \in A!Pid : ai_router[p].source = "autostart" =>
                                  ai_router'[p].state \in {"absent", "ended"}
  <2>1. CASE step = "stop_headroom"
    BY <1>1, <2>1 DEF A!StopHeadroom, AiInv, AiHost
  <2>2. CASE step # "stop_headroom"
    <3>1. PICK pids \in SUBSET A!Pid :
            /\ A!End(pids) /\ UNCHANGED ai_headroom
            /\ step = "stop_units" => pids = UNION {A!OfSource(s) : s \in A!Unit}
      <4>1. A!StopUnits(c) => UNION {A!OfSource(s) : s \in A!Unit} \in SUBSET A!Pid
        BY DEF A!OfSource
      <4>2. {p \in j.found : A!Running(p)} \in SUBSET A!Pid /\ {} \in SUBSET A!Pid
        BY <1>2 DEF IsAiJob
      <4>3. CASE step = "stop_units"
        BY <1>1, <4>1, <4>3 DEF A!StopUnits
      <4>4. CASE step = "stop_scopes"
        BY <1>1, <4>2, <4>4 DEF A!StopScopes
      <4>5. CASE step = "escalate"
        BY <1>1, <4>2, <4>5 DEF A!Escalate
      <4> QED
        BY <1>1, <2>2, <4>3, <4>4, <4>5
    <3>2. /\ AiHost'
          /\ \A p \in A!Pid : /\ ai_router'[p].source = ai_router[p].source
                               /\ ai_router'[p].state = IF p \in pids THEN "ended" ELSE ai_router[p].state
          /\ ai_port' = IF ai_port \in pids THEN 0 ELSE ai_port
      BY <3>1, AiEnds DEF AiInv, AiHost
    <3>3. ASSUME step = "stop_units", NEW p \in A!Pid, ai_router[p].source = "autostart", p \notin pids
          PROVE  ai_router[p].state \in {"absent", "ended"}
      <4>1. p \notin A!OfSource("autostart")
        BY <3>1, <3>3 DEF A!Unit
      <4> QED
        BY <3>3, <4>1 DEF A!OfSource, A!Running, AiInv, AiHost, AiRouter, RouterState
    <3> QED
      BY <2>2, <3>1, <3>2, <3>3 DEF AiInv, AiHost
  <2> QED
    BY <2>1, <2>2
<1>7. v.todo # <<>> /\ v.todo # StopFull
  <2>1. CASE j.action = "stop"
    BY <1>1, <1>2, <1>3, <2>1, StopMoves
  <2>2. CASE j.action = "restart"
    <3>1. j.todo \in EarlyTodos \cup MidTodos
      BY <1>1, <1>2, <2>2, StartMoves
    <3>3. /\ AiRest(j.todo) = Tail(j.todo)
          /\ step = "stop_headroom" => Tail(j.todo) \in EarlyTodos
          /\ step = "stop_units" => Tail(j.todo) \in MidTodos
          /\ step \in {"stop_scopes", "escalate"} => Tail(j.todo) \in MidTodos /\ j.todo \in MidTodos
      BY <1>2, <3>1, RestartMoves
    <3>2. v.todo \in EarlyTodos \cup MidTodos
      BY <1>1, <1>3, <3>3
    <3> QED
      BY <3>2, RestartMoves, RestartStops
  <2> QED
    BY <1>4, <2>1, <2>2
<1>8. ASSUME v.action = "restart", c \notin ai_spoiled
      PROVE  RestartOk(v, ai_router', ai_port', ai_headroom')
  <2>1. j.todo \in EarlyTodos \cup MidTodos
    BY <1>1, <1>2, <1>3, <1>8, StartMoves
  <2>7. /\ AiRest(j.todo) = Tail(j.todo)
        /\ step = "stop_headroom" => Tail(j.todo) \in EarlyTodos
        /\ step = "stop_units" => Tail(j.todo) \in MidTodos
        /\ step \in {"stop_scopes", "escalate"} => Tail(j.todo) \in MidTodos /\ j.todo \in MidTodos
    BY <1>2, <2>1, RestartMoves
  <2>2. RestartOk(j, ai_router, ai_port, ai_headroom)
    BY <1>2, <1>3, <1>8 DEF CallOk
  <2>3. ai_port' # A!OtherProgram
    BY <1>6, <2>2, AiNumbers DEF RestartOk
  <2>4. CASE step = "stop_headroom"
    BY <1>3, <2>3, <2>4, <2>7, RestartDown
  <2>5. CASE step = "stop_units"
    <3>1. v.todo \in MidTodos
      BY <1>3, <2>5, <2>7
    <3> QED
      BY <1>6, <2>3, <2>5, <3>1, RestartDown
  <2>6. CASE step \in {"stop_scopes", "escalate"}
    <3>1. v.todo \in MidTodos /\ j.todo \in MidTodos
      BY <1>3, <2>6, <2>7
    <3>2. \A p \in A!Pid : ai_router'[p].source = "autostart" => ai_router'[p].state \in {"absent", "ended"}
      BY <1>6, <2>2, <3>1 DEF RestartOk
    <3> QED
      BY <2>3, <3>1, <3>2, RestartDown
  <2> QED
    BY <1>1, <2>4, <2>5, <2>6
<1>9. ai_job[c].todo = StopFull => ~ai_headroom'
  <2>1. Head(StopFull) = "stop_headroom"
    BY DEF StopFull
  <2> QED
    BY <1>2, <1>6, <2>1
<1> QED
  <2>1. /\ \A p \in A!Pid : \/ ai_router'[p].state = ai_router[p].state
                            \/ ai_router'[p].state \in {"ended", "ending"}
        /\ AiHost' /\ (ai_headroom' => ai_headroom)
    BY <1>6
  <2>2. v.action = ai_job[c].action
    BY <1>3
  <2> QED
    BY <1>3, <1>5, <1>7, <1>8, <1>9, <2>1, <2>2, AiTakesDown

\* Before a sequence of steps.
LEMMA AiFallbackTodo ==
  /\ <<>> \o <<"drain">> = <<"drain">> /\ <<"escalate">> \o <<"drain">> = <<"escalate", "drain">>
  /\ <<>> \o DrainStart = DrainStart
  /\ <<"escalate">> \o DrainStart
       = <<"escalate", "drain", "health", "start_router", "start_headroom">>
<1> DEFINE S == {"escalate", "drain", "health", "start_router", "start_headroom"}
           e == <<"escalate">>
           d == <<"drain">>
           n == <<>>
           ed == <<"escalate", "drain">>
           es == <<"escalate", "drain", "health", "start_router", "start_headroom">>
<1>1. e \in Seq(S) /\ d \in Seq(S) /\ n \in Seq(S) /\ ed \in Seq(S) /\ es \in Seq(S) /\ DrainStart \in Seq(S)
  BY DEF DrainStart
<1>2. Len(e) = 1 /\ Len(d) = 1 /\ Len(n) = 0 /\ Len(ed) = 2 /\ Len(es) = 5 /\ Len(DrainStart) = 4
  BY DEF DrainStart
<1>3. /\ ed[1] = e[1] /\ ed[2] = d[1] /\ es[1] = e[1]
      /\ es[2] = DrainStart[1] /\ es[3] = DrainStart[2] /\ es[4] = DrainStart[3] /\ es[5] = DrainStart[4]
  BY DEF DrainStart
<1> HIDE DEF S, e, d, n, ed, es
<1>4. n \o d = d
  <2>1. /\ Len(d) = Len(n) + Len(d)
        /\ \A i \in 1..Len(n) : d[i] = n[i]
        /\ \A i \in 1..Len(d) : d[Len(n) + i] = d[i]
    BY <1>2
  <2> QED
    BY <1>1, <2>1, ConcatIs
<1>5. n \o DrainStart = DrainStart
  <2>1. /\ Len(DrainStart) = Len(n) + Len(DrainStart)
        /\ \A i \in 1..Len(n) : DrainStart[i] = n[i]
        /\ \A i \in 1..Len(DrainStart) : DrainStart[Len(n) + i] = DrainStart[i]
    BY <1>2
  <2> QED
    BY <1>1, <2>1, ConcatIs
<1>6. e \o d = ed
  <2>1. /\ Len(ed) = Len(e) + Len(d)
        /\ \A i \in 1..Len(e) : ed[i] = e[i]
        /\ \A i \in 1..Len(d) : ed[Len(e) + i] = d[i]
    BY <1>2, <1>3
  <2> QED
    BY <1>1, <2>1, ConcatIs
<1>7. e \o DrainStart = es
  <2>1. /\ Len(es) = Len(e) + Len(DrainStart)
        /\ \A i \in 1..Len(e) : es[i] = e[i]
        /\ \A i \in 1..Len(DrainStart) : es[Len(e) + i] = DrainStart[i]
    BY <1>2, <1>3
  <2> QED
    BY <1>1, <2>1, ConcatIs
<1> QED
  BY <1>4, <1>5, <1>6, <1>7 DEF e, d, n, ed, es

\* The fallback sends SIGTERM to what runs.
LEMMA AiFallbackKeeps ==
  ASSUME AiInv, NEW c \in AiCall, A!Fallback(c)
  PROVE  AiInv'
<1> DEFINE j == ai_job[c]
           pids == {p \in A!Pid : A!Running(p)}
           todo == (IF pids = {} THEN <<>> ELSE <<"escalate">>) \o Tail(j.todo)
           v == [j EXCEPT !.found = pids, !.todo = todo]
<1>1. /\ IsAiJob(j) /\ j.todo # <<>> /\ Head(j.todo) = "fallback"
      /\ j.action = "stop" => j.todo \in StopTodos
      /\ j.action = "restart" => j.todo \in EarlyTodos \cup MidTodos \cup StartTodos
      /\ c \notin ai_spoiled => CallOk(j, ai_router, ai_port, ai_headroom)
      /\ j.todo \in AiTodos(j.action)
  BY AiAt DEF A!Fallback
<1>2. j.action \in {"stop", "restart"}
  BY <1>1, StartMoves DEF IsAiJob, AiTodos
<1>3. CASE j.action = "restart" => j.todo \in MidTodos /\ Tail(j.todo) = DrainStart
  <2>1. j.action = "stop" => Tail(j.todo) = <<"drain">> /\ j.todo # StopFull
    BY <1>1, StopMoves
  <2>2. /\ j.action = "stop" => todo \in {<<"drain">>, <<"escalate", "drain">>}
        /\ j.action = "restart" => todo \in MidTodos
    BY <1>3, <2>1, AiFallbackTodo DEF MidTodos
  <2>3. v = [action |-> j.action, todo |-> todo, found |-> pids, health |-> j.health, rc |-> j.rc]
    <3>1. PICK x, p, q : x = j /\ p = pids /\ q = todo
      OBVIOUS
    <3>2. [x EXCEPT !.found = p, !.todo = q]
            = [action |-> x.action, todo |-> q, found |-> p, health |-> x.health, rc |-> x.rc]
      BY <1>1, <3>1, AiFindsFirst, ZenonT(60)
    <3> QED
      BY <3>1, <3>2
  <2> HIDE DEF todo
  <2>4. IsAiJob(v) /\ v.action = j.action /\ v.todo = todo
    <3>1. todo \in AiTodos(j.action)
      BY <1>2, <2>2 DEF AiTodos, StopTodos
    <3>2. pids \in SUBSET A!Pid
      OBVIOUS
    <3> HIDE DEF pids, v
    <3> QED
      BY <1>1, <2>3, <3>1, <3>2 DEF IsAiJob
  <2>5. /\ ai_job' = [ai_job EXCEPT ![c] = v]
        /\ ai_spoiled' = ai_spoiled \cup (A!Ups \ {c})
        /\ ai_router' = [p \in A!Pid |-> IF p \in pids THEN [ai_router[p] EXCEPT !.state = "ending"]
                                                     ELSE ai_router[p]]
        /\ UNCHANGED <<ai_port, ai_headroom>>
    BY DEF A!Fallback, todo
  <2> HIDE DEF v
  <2>6. \A p \in A!Pid : /\ ai_router'[p] \in AiRouter
                         /\ ai_router'[p].source = ai_router[p].source
                         /\ ai_router'[p].state = IF p \in pids THEN "ending" ELSE ai_router[p].state
    BY <2>5 DEF AiInv, AiHost, AiRouter, RouterState
  <2>7. AiHost'
    BY <2>5, <2>6 DEF AiInv, AiHost, PortHeld
  <2>8. ASSUME j.action = "restart", c \notin ai_spoiled
        PROVE  RestartOk(v, ai_router', ai_port', ai_headroom')
    <3>1. RestartOk(j, ai_router, ai_port, ai_headroom)
      BY <1>1, <2>8 DEF CallOk
    <3>2. \A p \in A!Pid : ai_router'[p].source = "autostart" => ai_router'[p].state \in {"absent", "ended"}
      BY <1>3, <2>6, <2>8, <3>1 DEF RestartOk, A!Running
    <3> QED
      BY <2>2, <2>4, <2>5, <2>8, <3>1, <3>2, RestartDown DEF RestartOk
  <2>9. v.todo # <<>> /\ v.todo # StopFull /\ j.todo # StopFull
    <3>1. \A t \in {<<"drain">>, <<"escalate", "drain">>} : t # <<>> /\ t # StopFull
      <4>1. Len(StopFull) = 6
        BY DEF StopFull
      <4>2. \A t \in {<<"drain">>, <<"escalate", "drain">>} : Len(t) \in {1, 2}
        OBVIOUS
      <4> QED
        BY <4>1, <4>2
    <3>2. \A t \in MidTodos : t # <<>> /\ t # StopFull
      BY RestartMoves, RestartStops
    <3>3. CASE j.action = "stop"
      BY <2>1, <2>2, <2>4, <3>1, <3>3
    <3>4. CASE j.action = "restart"
      BY <1>3, <2>2, <2>4, <3>2, <3>4
    <3> QED
      BY <1>2, <3>3, <3>4
  <2>10. /\ \A p \in A!Pid : \/ ai_router'[p].state = ai_router[p].state
                             \/ ai_router'[p].state \in {"ended", "ending"}
         /\ ai_headroom' => ai_headroom
    BY <2>5, <2>6
  <2> QED
    BY <2>4, <2>5, <2>7, <2>8, <2>9, <2>10, AiTakesDown
<1>4. j.action = "restart" => j.todo \in MidTodos /\ Tail(j.todo) = DrainStart
  <2>1. j.action = "restart" => j.todo \in EarlyTodos \cup MidTodos
    BY <1>1, StartMoves
  <2> QED
    BY <1>1, <2>1, RestartMoves
<1> QED
  BY <1>3, <1>4

\* The steps of do_stop that look.
LEMMA AiLooks ==
  ASSUME AiInv, NEW c \in AiCall,
         A!FindScopes(c) \/ A!NoFallback(c)
  PROVE  AiInv'
<1> DEFINE j == ai_job[c]
<1>1. PICK step \in {"scopes", "fallback"} : A!Before(c, step)
  BY DEF A!FindScopes, A!NoFallback
<1>2. /\ IsAiJob(j) /\ j.todo # <<>> /\ Head(j.todo) = step
      /\ j.action = "stop" => j.todo \in StopTodos
      /\ j.action = "restart" => j.todo \in EarlyTodos \cup MidTodos \cup StartTodos
      /\ c \notin ai_spoiled => CallOk(j, ai_router, ai_port, ai_headroom)
      /\ j.todo \in AiTodos(j.action)
  BY <1>1, AiAt
<1>3. j.action \in {"stop", "restart"}
  BY <1>1, <1>2, StartMoves DEF IsAiJob, AiTodos
<1>4. j.action = "stop" => /\ AiRest(j.todo) # StopFull /\ AiRest(j.todo) # <<>> /\ j.todo # StopFull
                           /\ step = "scopes" => AiRest(j.todo) = Tail(j.todo)
  <2>1. j.action = "stop" => /\ AiRest(j.todo) # StopFull
                             /\ AiRest(j.todo) = <<>> <=> Head(j.todo) = "drain"
                             /\ j.todo = StopFull <=> Head(j.todo) = "stop_headroom"
                             /\ Head(j.todo) = "scopes" => AiRest(j.todo) = Tail(j.todo)
    BY <1>2, StopMoves
  <2> QED
    BY <1>1, <1>2, <2>1
<1>5. j.action = "restart" => j.todo \in MidTodos /\ AiRest(j.todo) \in MidTodos /\ AiRest(j.todo) = Tail(j.todo)
  <2>1. j.action = "restart" => j.todo \in EarlyTodos \cup MidTodos
    BY <1>1, <1>2, StartMoves
  <2>2. j.action = "restart" => /\ AiRest(j.todo) = Tail(j.todo) /\ j.todo \in MidTodos
                                /\ Tail(j.todo) \in MidTodos
    BY <1>1, <1>2, <2>1, RestartMoves
  <2> QED
    BY <2>2
<1>6. PICK v : /\ ai_job' = [ai_job EXCEPT ![c] = v] /\ IsAiJob(v)
               /\ v.action = j.action /\ v.rc = j.rc /\ v.todo = AiRest(j.todo)
  <2>1. CASE A!FindScopes(c)
    <3>1. PICK todo, found : todo = Tail(j.todo) /\ found = A!OfSource("scope")
      OBVIOUS
    <3>2. PICK v : v = [action |-> j.action, todo |-> todo, found |-> found, health |-> j.health, rc |-> j.rc]
      OBVIOUS
    <3>3. v = [j EXCEPT !.todo = todo, !.found = found]
      <4>1. [j EXCEPT !.todo = todo, !.found = found]
              = [action |-> j.action, todo |-> todo, found |-> found, health |-> j.health, rc |-> j.rc]
        <5>1. PICK x : x = j
          OBVIOUS
        <5>2. [x EXCEPT !.todo = todo, !.found = found]
                = [action |-> x.action, todo |-> todo, found |-> found, health |-> x.health, rc |-> x.rc]
          BY <1>2, <5>1, AiFinds
        <5> QED
          BY <5>1, <5>2
      <4> QED
        BY <3>2, <4>1, Zenon
    <3>4. ai_job' = [ai_job EXCEPT ![c] = v]
      BY <2>1, <3>1, <3>3 DEF A!FindScopes
    <3>5. step = "scopes"
      BY <1>2, <2>1 DEF A!FindScopes, A!Before
    <3>6. todo = AiRest(j.todo)
      BY <1>3, <1>4, <1>5, <3>1, <3>5
    <3>7. found \in SUBSET A!Pid
      BY <3>1 DEF A!OfSource
    <3>8. AiRest(j.todo) \in AiTodos(j.action)
      BY <1>2, AiStepOf DEF IsAiJob
    <3> QED
      <4>1. v.action = j.action /\ v.rc = j.rc /\ v.todo = AiRest(j.todo)
        BY <3>2, <3>6
      <4>2. IsAiJob(v)
        BY <1>2, <3>2, <3>6, <3>7, <3>8 DEF IsAiJob
      <4> QED
        BY <3>4, <4>1, <4>2
  <2>2. CASE A!NoFallback(c)
    <3>1. ai_job' = [ai_job EXCEPT ![c] = A!Step(j)]
      BY <2>2 DEF A!NoFallback, A!Then
    <3> QED
      BY <1>2, <3>1, AiStepOf
  <2> QED
    BY <2>1, <2>2
<1>7. UNCHANGED <<ai_router, ai_port, ai_headroom, ai_spoiled>>
  BY DEF A!FindScopes, A!NoFallback
<1>8. ASSUME c \notin ai_spoiled'
      PROVE  CallOk(v, ai_router, ai_port, ai_headroom)
  <2>1. CallOk(j, ai_router, ai_port, ai_headroom)
    BY <1>2, <1>7, <1>8
  <2>2. CASE j.action = "stop"
    BY <1>4, <1>6, <2>1, <2>2 DEF CallOk, StopOk
  <2>3. CASE j.action = "restart"
    BY <1>5, <1>6, <2>1, <2>3, RestartDown DEF CallOk, RestartOk
  <2> QED
    BY <1>3, <2>2, <2>3
<1> QED
  BY <1>6, <1>7, <1>8, AiPrivate

\* The gate.
LEMMA AiDrains ==
  ASSUME AiInv, NEW c \in AiCall, A!Drained(c) \/ A!NotDrained(c)
  PROVE  AiInv'
<1> DEFINE j == ai_job[c]
<1>1. /\ IsAiJob(j) /\ j.todo # <<>> /\ Head(j.todo) = "drain"
      /\ j.action = "stop" => j.todo \in StopTodos
      /\ j.action = "restart" => j.todo \in EarlyTodos \cup MidTodos \cup StartTodos
      /\ c \notin ai_spoiled => CallOk(j, ai_router, ai_port, ai_headroom)
      /\ j.todo \in AiTodos(j.action)
  BY AiAt DEF A!Drained, A!NotDrained
<1>2. j.action \in {"stop", "restart"}
  BY <1>1, StartMoves DEF IsAiJob, AiTodos
<1>3. j.action = "stop" => AiRest(j.todo) = <<>> /\ j.todo # StopFull
  <2>1. j.action = "stop" => /\ AiRest(j.todo) = <<>> <=> j.todo = <<"drain">>
                             /\ Head(j.todo) = "drain" <=> j.todo = <<"drain">>
                             /\ j.todo = StopFull <=> Head(j.todo) = "stop_headroom"
    BY <1>1, StopMoves
  <2> QED
    BY <1>1, <2>1
<1>4. j.action = "restart" => j.todo \in MidTodos /\ AiRest(j.todo) = StartFull
  <2>1. j.action = "restart" => j.todo \in EarlyTodos \cup MidTodos
    BY <1>1, StartMoves
  <2>2. j.action = "restart" => /\ AiRest(j.todo) = Tail(j.todo) /\ j.todo \in MidTodos
                                /\ Tail(j.todo) = StartFull
    BY <1>1, <2>1, RestartMoves
  <2> QED
    BY <2>2
<1>5. PICK v : /\ ai_job' = [ai_job EXCEPT ![c] = v] /\ IsAiJob(v)
               /\ v.action = j.action /\ v.todo = AiRest(j.todo)
               /\ v.rc = 0 => ai_port = 0
  <2>1. CASE A!Drained(c)
    <3>1. ai_job' = [ai_job EXCEPT ![c] = A!Step(j)] /\ ai_port = 0
      BY <2>1 DEF A!Drained, A!Then, A!is_port_in_use
    <3>2. /\ IsAiJob(A!Step(j)) /\ A!Step(j).action = j.action
          /\ A!Step(j).todo = AiRest(j.todo)
      BY <1>1, AiStepOf
    <3> QED
      BY <3>1, <3>2
  <2>2. CASE A!NotDrained(c)
    <3>1. PICK i : i = [j EXCEPT !.rc = 1]
      OBVIOUS
    <3>2. /\ i = [action |-> j.action, todo |-> j.todo, found |-> j.found, health |-> j.health, rc |-> 1]
      BY <1>1, <3>1 DEF IsAiJob
    <3>3. IsAiJob(i) /\ i.todo = j.todo /\ i.action = j.action /\ i.rc = 1
      BY <1>1, <3>2 DEF IsAiJob
    <3>4. ai_job' = [ai_job EXCEPT ![c] = A!Step(i)]
      BY <2>2, <3>1 DEF A!NotDrained
    <3>5. /\ IsAiJob(A!Step(i)) /\ A!Step(i).action = j.action /\ A!Step(i).rc = 1
          /\ A!Step(i).todo = AiRest(j.todo)
      BY <1>1, <3>3, AiStepOf
    <3> QED
      BY <3>4, <3>5, 1 # 0
  <2> QED
    BY <2>1, <2>2
<1>6. UNCHANGED <<ai_router, ai_port, ai_headroom, ai_spoiled>>
  BY DEF A!Drained, A!NotDrained
<1>7. ASSUME c \notin ai_spoiled'
      PROVE  CallOk(v, ai_router, ai_port, ai_headroom)
  <2>1. CallOk(j, ai_router, ai_port, ai_headroom)
    BY <1>1, <1>6, <1>7
  <2>2. CASE j.action = "stop"
    <3>1. ai_port = 0 => \A p \in A!Pid : ai_router[p].state \notin {"serving", "hung"}
      BY AiNumbers DEF AiInv, AiHost, PortHeld
    <3> QED
      BY <1>3, <1>5, <2>1, <2>2, <3>1 DEF CallOk, StopOk, AiLives
  <2>3. CASE j.action = "restart"
    <3>1. RestartOk(j, ai_router, ai_port, ai_headroom)
      BY <2>1, <2>3 DEF CallOk
    <3>2. StartFull # <<>> /\ StartFull # <<"start_headroom">> /\ StartFull \in StartTodos
      <4>1. Len(StartFull) = 3
        BY DEF StartFull
      <4> QED
        BY <4>1 DEF StartTodos
    <3>3. StartFull \notin MidTodos
      BY <3>2, StartMoves
    <3>4. \A p \in A!Pid : ai_router[p].source = "autostart" => ai_router[p].state # "ending"
      BY <1>4, <2>3, <3>1 DEF RestartOk
    <3>5. RestartOk(v, ai_router, ai_port, ai_headroom)
      BY <1>4, <1>5, <2>3, <3>1, <3>2, <3>3, <3>4 DEF RestartOk, AiDownOrSteady
    <3> QED
      BY <1>5, <2>3, <3>5 DEF CallOk
  <2> QED
    BY <1>2, <2>2, <2>3
<1> QED
  BY <1>5, <1>6, <1>7, AiPrivate

\* A restart after its drain.
LEMMA RestartGoesOn ==
  ASSUME NEW j, NEW v, NEW ro, NEW po, NEW he, j.todo \in StartTodos, j.todo # <<>>,
         RestartOk(j, ro, po, he), v.todo = AiRest(j.todo), v.rc = j.rc,
         Head(j.todo) = "start_router" /\ v.rc = 0 => \E p \in A!Pid : AiLives(ro[p]),
         Head(j.todo) = "start_headroom" => he
  PROVE  RestartOk(v, ro, po, he)
<1>1. /\ Head(j.todo) \in {"health", "start_router", "start_headroom"}
      /\ Head(j.todo) = "health" => AiRest(j.todo) = <<"start_router", "start_headroom">>
      /\ Head(j.todo) = "start_router" => AiRest(j.todo) = <<"start_headroom">>
      /\ Head(j.todo) = "start_headroom" => j.todo = <<"start_headroom">> /\ AiRest(j.todo) = <<>>
      /\ AiRest(j.todo) \in StartTodos
  BY StartMoves
<1>2. v.todo \in StartTodos /\ v.todo \notin MidTodos
  BY <1>1, StartMoves
<1>3. v.todo = <<>> => Head(j.todo) = "start_headroom"
  BY <1>1
<1>4. v.todo = <<"start_headroom">> => Head(j.todo) = "start_router"
  BY <1>1
<1>5. v.todo \in {<<"start_headroom">>, <<>>} /\ v.rc = 0 => \E p \in A!Pid : AiLives(ro[p])
  BY <1>1, <1>3, <1>4 DEF RestartOk
<1> QED
  BY <1>1, <1>2, <1>3, <1>5 DEF RestartOk

\* Routers were started, and no more.
OnlyStarted(ro, ro2) ==
  \A p \in A!Pid : ro2[p] = ro[p] \/ (ro[p].state = "absent" /\ ro2[p].state = "starting")

\* A new router does not disturb a restart that is past its drain.
LEMMA RestartStarts ==
  ASSUME NEW j, NEW ro, NEW ro2, NEW po, NEW he, j.todo \in StartTodos,
         RestartOk(j, ro, po, he),
         OnlyStarted(ro, ro2)
  PROVE  RestartOk(j, ro2, po, he)
<1>1. j.todo \notin MidTodos
  BY StartMoves
<1>2. AiDownOrSteady(ro, po) => AiDownOrSteady(ro2, po)
  BY DEF AiDownOrSteady, OnlyStarted
<1>3. (\E p \in A!Pid : AiLives(ro[p])) => \E p \in A!Pid : AiLives(ro2[p])
  BY DEF AiLives, OnlyStarted
<1>4. ASSUME NEW p \in A!Pid, ro2[p].source = "autostart", ro2[p].state = "ending"
      PROVE  ro[p].source = "autostart" /\ ro[p].state = "ending"
  BY <1>4 DEF OnlyStarted
<1> QED
  BY <1>1, <1>2, <1>3, <1>4 DEF RestartOk

\* A router that is started, by a call or at login.
LEMMA AiNewRouter ==
  ASSUME AiInv, NEW pid \in A!FreePids, NEW source \in {"autostart", "transient", "scope", "process"},
         ai_router' = [ai_router EXCEPT ![pid] = [source |-> source, state |-> "starting"]],
         UNCHANGED <<ai_port, ai_headroom>>, ai_spoiled' = ai_spoiled \cup A!Stopping
  PROVE  /\ AiHost' /\ AiLives(ai_router'[pid]) /\ pid \in A!Pid
         /\ OnlyStarted(ai_router, ai_router')
<1> DEFINE r == [source |-> source, state |-> "starting"]
<1>1. r \in AiRouter /\ r.state = "starting"
  BY DEF AiRouter, RouterState
<1> HIDE DEF r
<1>2. /\ ai_router' = [ai_router EXCEPT ![pid] = r]
      /\ pid \in A!Pid /\ ai_router[pid].state = "absent"
  BY DEF r, A!FreePids
<1>3. /\ ai_router' \in [A!Pid -> AiRouter] /\ ai_router'[pid] = r
      /\ \A p \in A!Pid : p # pid => ai_router'[p] = ai_router[p]
  BY <1>1, <1>2 DEF AiInv, AiHost
<1>4. PortHeld(ai_router', ai_port')
  BY <1>1, <1>3 DEF PortHeld, AiInv, AiHost
<1> QED
  BY <1>1, <1>2, <1>3, <1>4 DEF AiInv, AiHost, AiLives, OnlyStarted

\* Others do not mind a router that is started.
LEMMA AiOthersOfStart ==
  ASSUME AiInv, NEW d \in AiCall, d \notin ai_spoiled', ai_spoiled' = ai_spoiled \cup A!Stopping,
         UNCHANGED <<ai_port, ai_headroom>>,
         OnlyStarted(ai_router, ai_router')
  PROVE  CallOk(ai_job[d], ai_router', ai_port', ai_headroom')
<1>1. /\ d \notin ai_spoiled /\ ai_job[d].action # "stop"
      /\ ai_job[d].action = "restart" => ~(\E i \in DOMAIN ai_job[d].todo : ai_job[d].todo[i] = "drain")
  BY DEF A!Stopping, A!Downs, A!Ups
<1>2. ai_job[d].action = "restart" => ai_job[d].todo \in StartTodos
  BY <1>1, RestartMoves DEF AiInv, AiJobs, IsAiJob, AiTodos
<1>3. ai_job[d].action = "restart" => RestartOk(ai_job[d], ai_router, ai_port, ai_headroom)
  BY <1>1 DEF AiInv, CallOk
<1> QED
  BY <1>1, <1>2, <1>3, RestartStarts DEF CallOk

\* The steps of do_start.
LEMMA AiStartKeeps ==
  ASSUME AiInv, NEW c \in AiCall,
         A!ReadHealth(c) \/ A!AlreadyOnline(c) \/ A!StartRouter(c) \/ A!StartHeadroom(c)
  PROVE  AiInv'
<1> DEFINE j == ai_job[c]
<1>1. PICK step \in {"health", "start_router", "start_headroom"} :
        /\ A!Before(c, step)
        /\ step = "health" => A!ReadHealth(c)
        /\ step = "start_router" => A!AlreadyOnline(c) \/ A!StartRouter(c)
        /\ step = "start_headroom" => A!StartHeadroom(c)
  BY DEF A!ReadHealth, A!AlreadyOnline, A!StartRouter, A!StartHeadroom
<1>2. /\ IsAiJob(j) /\ j.todo # <<>> /\ Head(j.todo) = step
      /\ j.action = "stop" => j.todo \in StopTodos
      /\ j.action = "restart" => j.todo \in EarlyTodos \cup MidTodos \cup StartTodos
      /\ c \notin ai_spoiled => CallOk(j, ai_router, ai_port, ai_headroom)
      /\ j.todo \in AiTodos(j.action)
  BY <1>1, AiAt
<1>3. j.action # "stop" /\ j.todo \in StartTodos
  <2>1. j.action # "stop"
    BY <1>1, <1>2, StopMoves
  <2>2. j.action = "restart" => j.todo \in StartTodos
    BY <1>1, <1>2, RestartMoves
  <2>3. j.todo # <<"ensure">>
    BY <1>1, <1>2
  <2> QED
    BY <1>2, <2>1, <2>2, <2>3 DEF IsAiJob, AiTodos
<1>4. PICK v : /\ ai_job' = [ai_job EXCEPT ![c] = v] /\ IsAiJob(v)
               /\ v.action = j.action /\ v.rc = j.rc /\ v.todo = AiRest(j.todo)
  <2>1. CASE step = "health"
    <3>1. PICK x, todo, health : x = j /\ todo = Tail(j.todo) /\ health = A!check_gateway_health
      OBVIOUS
    <3>2. PICK v : v = [action |-> x.action, todo |-> todo, found |-> x.found, health |-> health, rc |-> x.rc]
      OBVIOUS
    <3>3. [x EXCEPT !.todo = todo, !.health = health]
            = [action |-> x.action, todo |-> todo, found |-> x.found, health |-> health, rc |-> x.rc]
      <4>1. IsAiJob(x)
        BY <1>2, <3>1
      <4> QED
        BY <4>1, AiReads
    <3>4. ai_job' = [ai_job EXCEPT ![c] = v]
      BY <1>1, <2>1, <3>1, <3>2, <3>3, ZenonT(60) DEF A!ReadHealth
    <3>5. todo = AiRest(j.todo)
      BY <1>2, <1>3, <2>1, <3>1, StartMoves
    <3>6. AiRest(j.todo) \in AiTodos(j.action)
      BY <1>2, AiStepOf DEF IsAiJob
    <3>7. v.action = j.action /\ v.rc = j.rc /\ v.todo = AiRest(j.todo)
      BY <3>1, <3>2, <3>5
    <3>8. IsAiJob(v)
      BY <1>2, <3>1, <3>2, <3>5, <3>6 DEF IsAiJob
    <3> QED
      BY <3>4, <3>7, <3>8
  <2>2. CASE step # "health"
    <3>1. ai_job' = [ai_job EXCEPT ![c] = A!Step(j)]
      BY <1>1, <2>2 DEF A!AlreadyOnline, A!StartRouter, A!StartHeadroom, A!Then
    <3>2. /\ IsAiJob(A!Step(j)) /\ A!Step(j).action = j.action /\ A!Step(j).rc = j.rc
          /\ A!Step(j).todo = AiRest(j.todo)
      BY <1>2, AiStepOf
    <3> QED
      BY <3>1, <3>2
  <2> QED
    BY <2>1, <2>2
<1>5. c \notin ai_spoiled /\ j.action = "restart" => RestartOk(j, ai_router, ai_port, ai_headroom)
  BY <1>2 DEF CallOk
<1>6. CASE A!ReadHealth(c) \/ A!AlreadyOnline(c)
  <2>1. UNCHANGED <<ai_router, ai_port, ai_headroom, ai_spoiled>>
    BY <1>6 DEF A!ReadHealth, A!AlreadyOnline
  <2>2. ASSUME c \notin ai_spoiled', v.action = "restart"
        PROVE  RestartOk(v, ai_router, ai_port, ai_headroom)
    <3>1. RestartOk(j, ai_router, ai_port, ai_headroom)
      BY <1>4, <1>5, <2>1, <2>2
    <3>2. ASSUME step = "start_router", v.rc = 0
          PROVE  \E p \in A!Pid : AiLives(ai_router[p])
      <4>1. ai_port # 0
        BY <1>2, <1>6, <3>2 DEF A!AlreadyOnline, A!is_port_in_use, A!ReadHealth, A!Before
      <4> QED
        BY <1>3, <1>4, <3>1, <3>2, <4>1 DEF RestartOk, AiDownOrSteady, AiLives
    <3>3. step # "start_headroom"
      BY <1>2, <1>6 DEF A!AlreadyOnline, A!ReadHealth, A!Before
    <3> QED
      BY <1>2, <1>3, <1>4, <3>1, <3>2, <3>3, RestartGoesOn
  <2>3. ai_spoiled \subseteq ai_spoiled'
    BY <2>1
  <2>4. c \notin ai_spoiled' => CallOk(v, ai_router, ai_port, ai_headroom)
    BY <1>3, <1>4, <2>2 DEF CallOk
  <2> QED
    BY <1>4, <2>1, <2>3, <2>4, AiPrivate
<1>7. CASE A!StartRouter(c)
  <2>1. /\ step = "start_router" /\ UNCHANGED <<ai_port, ai_headroom>>
        /\ ai_spoiled' = ai_spoiled \cup A!Stopping
    BY <1>2, <1>7 DEF A!StartRouter, A!Before
  <2>2. /\ AiHost'
        /\ OnlyStarted(ai_router, ai_router')
        /\ \/ \E p \in A!Pid : AiLives(ai_router'[p])
           \/ A!OfSource("autostart") # {} /\ UNCHANGED ai_router
    <3>1. CASE A!OfSource("autostart") # {} /\ UNCHANGED ai_router
      BY <2>1, <3>1 DEF AiInv, AiHost, OnlyStarted
    <3>2. ASSUME NEW pid \in A!FreePids, NEW s \in {"autostart", "transient", "process"},
                 ai_router' = [ai_router EXCEPT ![pid] = [source |-> s, state |-> "starting"]]
          PROVE  /\ AiHost'
                 /\ OnlyStarted(ai_router, ai_router')
                 /\ \E p \in A!Pid : AiLives(ai_router'[p])
      BY <2>1, <3>2, AiNewRouter
    <3> QED
      BY <1>7, <3>1, <3>2 DEF A!StartRouter
  <2>3. ASSUME c \notin ai_spoiled', v.action = "restart"
        PROVE  RestartOk(v, ai_router', ai_port', ai_headroom')
    <3>1. RestartOk(j, ai_router, ai_port, ai_headroom)
      BY <1>4, <1>5, <2>1, <2>3
    <3>2. RestartOk(j, ai_router', ai_port, ai_headroom)
      BY <1>3, <2>2, <3>1, RestartStarts
    <3>3. \E p \in A!Pid : AiLives(ai_router'[p])
      <4>1. ASSUME A!OfSource("autostart") # {}, UNCHANGED ai_router
            PROVE  \E p \in A!Pid : AiLives(ai_router'[p])
        <5>1. PICK p \in A!Pid : A!Running(p) /\ ai_router[p].source = "autostart"
          BY <4>1 DEF A!OfSource
        <5>2. ai_router[p].state # "ending"
          BY <1>3, <3>1, <5>1 DEF RestartOk
        <5> QED
          BY <4>1, <5>1, <5>2 DEF A!Running, AiLives
      <4> QED
        BY <2>2, <4>1
    <3>4. RestartOk(v, ai_router', ai_port, ai_headroom)
      BY <1>2, <1>3, <1>4, <2>1, <3>2, <3>3, RestartGoesOn
    <3> QED
      BY <2>1, <3>4
  <2>4. c \notin ai_spoiled' => CallOk(v, ai_router', ai_port', ai_headroom')
    BY <1>3, <1>4, <2>3 DEF CallOk
  <2>5. \A d \in AiCall \ {c} : d \notin ai_spoiled' => CallOk(ai_job[d], ai_router', ai_port', ai_headroom')
    BY <2>1, <2>2, AiOthersOfStart
  <2> QED
    BY <1>4, <2>2, <2>4, <2>5, AiCallStep
<1>8. CASE A!StartHeadroom(c)
  <2>1. /\ step = "start_headroom" /\ UNCHANGED <<ai_router, ai_port>> /\ ai_headroom' = TRUE
        /\ ai_spoiled' = IF ai_headroom' = ai_headroom THEN ai_spoiled ELSE ai_spoiled \cup A!Downs
    BY <1>2, <1>8 DEF A!StartHeadroom, A!Before
  <2>2. AiHost'
    BY <2>1 DEF AiInv, AiHost
  <2>3. ASSUME NEW k, RestartOk(k, ai_router, ai_port, ai_headroom)
        PROVE  RestartOk(k, ai_router, ai_port, ai_headroom')
    BY <2>1, <2>3 DEF RestartOk
  <2>4. ASSUME NEW d \in AiCall \ {c}, d \notin ai_spoiled'
        PROVE  CallOk(ai_job[d], ai_router', ai_port', ai_headroom')
    <3>1. CallOk(ai_job[d], ai_router, ai_port, ai_headroom)
      BY <2>1, <2>4 DEF AiInv
    <3>2. ai_job[d].action = "stop" => ai_headroom' = ai_headroom
      BY <2>1, <2>4 DEF A!Downs
    <3> QED
      BY <2>1, <2>3, <3>1, <3>2 DEF CallOk
  <2>5. ASSUME c \notin ai_spoiled', v.action = "restart"
        PROVE  RestartOk(v, ai_router, ai_port, ai_headroom')
    <3>1. RestartOk(j, ai_router, ai_port, ai_headroom')
      BY <1>4, <1>5, <2>1, <2>3, <2>5
    <3> QED
      BY <1>2, <1>3, <1>4, <2>1, <3>1, RestartGoesOn
  <2>6. c \notin ai_spoiled' => CallOk(v, ai_router', ai_port', ai_headroom')
    BY <1>3, <1>4, <2>1, <2>5 DEF CallOk
  <2> QED
    BY <1>4, <2>2, <2>4, <2>6, AiCallStep
<1> QED
  BY <1>6, <1>7, <1>8

\* A call begins.
LEMMA AiBeginKeeps ==
  ASSUME AiInv, NEW c \in AiCall, A!Begin(c)
  PROVE  AiInv'
<1> DEFINE j == ai_job[c]
<1>1. PICK a \in Action[c] : ai_job' = [ai_job EXCEPT ![c] = [j EXCEPT !.action = a, !.todo = A!Steps(a)]]
  BY DEF A!Begin
<1>2. a \in {"start", "stop", "restart", "claude"} /\ IsAiJob(j)
  BY GatewayAssumption DEF AiInv, AiJobs
<1>3. PICK x, todo : x = j /\ todo = A!Steps(a)
  OBVIOUS
<1>4. PICK v : v = [action |-> a, todo |-> todo, found |-> x.found, health |-> x.health, rc |-> x.rc]
  OBVIOUS
<1>5. ai_job' = [ai_job EXCEPT ![c] = v]
  <2>1. IsAiJob(x)
    BY <1>2, <1>3
  <2>2. [x EXCEPT !.action = a, !.todo = todo]
          = [action |-> a, todo |-> todo, found |-> x.found, health |-> x.health, rc |-> x.rc]
    BY <2>1, AiBegins
  <2> QED
    BY <1>1, <1>3, <1>4, <2>2
<1>6. /\ a = "start" => todo = StartFull
      /\ a = "stop" => todo = StopFull
      /\ a = "restart" => todo = RestartFull
      /\ a = "claude" => todo = <<"ensure">>
  BY <1>3, AiSteps
<1>7. IsAiJob(v) /\ v.action = a /\ v.todo = todo
  <2>1. todo \in AiTodos(a)
    BY <1>2, <1>6 DEF AiTodos, StopTodos, StartTodos, EarlyTodos
  <2> QED
    BY <1>2, <1>3, <1>4, <2>1 DEF IsAiJob
<1>8. /\ UNCHANGED <<ai_router, ai_port, ai_headroom>> /\ ai_spoiled \subseteq ai_spoiled'
      /\ c \notin ai_spoiled' =>
           ai_port # A!OtherProgram /\ \A p \in A!Pid : ai_router[p].state # "starting"
  BY DEF A!Begin
<1>9. ASSUME c \notin ai_spoiled'
      PROVE  CallOk(v, ai_router, ai_port, ai_headroom)
  <2>1. CASE a = "stop"
    <3>1. StopFull # <<>>
      BY DEF StopFull
    <3> QED
      BY <1>6, <1>7, <1>8, <1>9, <2>1, <3>1 DEF CallOk, StopOk
  <2>2. CASE a = "restart"
    <3>1. RestartFull \in EarlyTodos
      BY DEF EarlyTodos
    <3>2. RestartOk(v, ai_router, ai_port, ai_headroom)
      BY <1>6, <1>7, <1>8, <1>9, <2>2, <3>1, RestartDown
    <3> QED
      BY <1>7, <2>2, <3>2 DEF CallOk
  <2>3. CASE a \notin {"stop", "restart"}
    BY <1>7, <2>3 DEF CallOk
  <2> QED
    BY <2>1, <2>2, <2>3
<1> QED
  BY <1>5, <1>7, <1>8, <1>9, AiPrivate

\* launch_claude, and a command that fails.
LEMMA AiRestKeeps ==
  ASSUME AiInv, NEW c \in AiCall, A!Ensure(c) \/ A!CommandFails(c)
  PROVE  AiInv'
<1> DEFINE j == ai_job[c]
<1>1. CASE A!Ensure(c)
  <2>1. /\ IsAiJob(j) /\ j.todo # <<>> /\ Head(j.todo) = "ensure"
        /\ j.action = "stop" => j.todo \in StopTodos
        /\ j.action = "restart" => j.todo \in EarlyTodos \cup MidTodos \cup StartTodos
    BY <1>1, AiAt DEF A!Ensure
  <2>2. j.action = "claude"
    BY <2>1, StopMoves, RestartMoves, StartMoves DEF IsAiJob, AiTodos
  <2>3. PICK todo \in {<<>>, StartFull} : ai_job' = [ai_job EXCEPT ![c] = [j EXCEPT !.todo = todo]]
    BY <1>1, AiSteps DEF A!Ensure, A!Steps
  <2>4. PICK v : v = [j EXCEPT !.todo = todo]
    OBVIOUS
  <2>5. v = [action |-> j.action, todo |-> todo, found |-> j.found, health |-> j.health, rc |-> j.rc]
    BY <2>1, <2>4 DEF IsAiJob
  <2>6. todo \in AiTodos("claude")
    BY <2>3 DEF AiTodos, StartTodos
  <2>7. IsAiJob(v) /\ v.action = "claude"
    BY <2>1, <2>2, <2>5, <2>6 DEF IsAiJob
  <2>8. ai_job' = [ai_job EXCEPT ![c] = v]
    BY <2>3, <2>4
  <2>9. UNCHANGED <<ai_router, ai_port, ai_headroom>> /\ ai_spoiled \subseteq ai_spoiled'
    BY <1>1 DEF A!Ensure
  <2>10. CallOk(v, ai_router, ai_port, ai_headroom)
    BY <2>7 DEF CallOk
  <2> QED
    BY <2>7, <2>8, <2>9, <2>10, AiPrivate
<1>2. CASE A!CommandFails(c)
  <2>1. PICK step : A!Before(c, step)
    BY <1>2 DEF A!CommandFails
  <2>2. IsAiJob(j) /\ j.todo # <<>>
    BY <2>1, AiAt
  <2>3. PICK i : i = [j EXCEPT !.found = {}]
    OBVIOUS
  <2>4. PICK none : none = {}
    OBVIOUS
  <2>5. i = [action |-> j.action, todo |-> j.todo, found |-> none, health |-> j.health, rc |-> j.rc]
    BY <2>2, <2>3, <2>4 DEF IsAiJob
  <2>6. IsAiJob(i) /\ i.todo = j.todo
    BY <2>2, <2>4, <2>5 DEF IsAiJob
  <2>7. ai_job' = [ai_job EXCEPT ![c] = A!Step(i)]
    BY <1>2, <2>3 DEF A!CommandFails
  <2>8. IsAiJob(A!Step(i))
    BY <2>2, <2>6, AiStepOf
  <2>9. /\ UNCHANGED <<ai_router, ai_port, ai_headroom>> /\ ai_spoiled \subseteq ai_spoiled'
        /\ c \in ai_spoiled'
    BY <1>2 DEF A!CommandFails
  <2> QED
    BY <2>7, <2>8, <2>9, AiPrivate
<1> QED
  BY <1>1, <1>2

\* A step of the session.
LEMMA AiSessionStep ==
  ASSUME AiInv, UNCHANGED ai_job, AiHost',
         \A d \in AiCall : d \notin ai_spoiled' => CallOk(ai_job[d], ai_router', ai_port', ai_headroom')
  PROVE  AiInv'
BY DEF AiInv, AiJobs

\* Whoever serves goes on.
LEMMA RestartKept ==
  ASSUME NEW j, NEW ro, NEW ro2, NEW po, NEW po2, NEW he, RestartOk(j, ro, po, he),
         po2 # A!OtherProgram,
         \A p \in A!Pid : ro2[p].source = ro[p].source,
         \A p \in A!Pid : ro[p].state \in {"absent", "ended"} => ro2[p].state \in {"absent", "ended"},
         \A p \in A!Pid : ro2[p].state = "ending" => ro[p].state = "ending",
         AiDownOrSteady(ro, po) => AiDownOrSteady(ro2, po2),
         AiDownOrSteady(ro, po) /\ (\E p \in A!Pid : AiLives(ro[p])) => \E p \in A!Pid : AiLives(ro2[p])
  PROVE  RestartOk(j, ro2, po2, he)
BY DEF RestartOk, StartTodos

\* Routers that bind, end and hang.
LEMMA AiRouterStep ==
  ASSUME AiInv, NEW pid \in A!Pid, A!Bind(pid) \/ A!Ends(pid) \/ A!Hangs(pid)
  PROVE  AiInv'
<1>1. CASE A!Bind(pid)
  <2> DEFINE st == IF ai_port = 0 THEN "serving" ELSE "ended"
  <2>1. /\ ai_router[pid].state = "starting"
        /\ ai_router' = [ai_router EXCEPT ![pid].state = st]
        /\ ai_port' = IF ai_port = 0 THEN pid ELSE ai_port
        /\ ai_spoiled' = ai_spoiled \cup IF ai_port = 0 THEN A!Downs ELSE {}
        /\ UNCHANGED <<ai_headroom, ai_job>>
    BY <1>1 DEF A!Bind
  <2>2. /\ st \in {"serving", "ended"}
        /\ st = "serving" <=> ai_port = 0
    OBVIOUS
  <2> HIDE DEF st
  <2>3. /\ ai_router' \in [A!Pid -> AiRouter]
        /\ ai_router'[pid].state = st /\ ai_router'[pid].source = ai_router[pid].source
        /\ \A p \in A!Pid : p # pid => ai_router'[p] = ai_router[p]
    BY <2>1, <2>2 DEF AiInv, AiHost, AiRouter, RouterState
  <2>4. AiHost'
    BY <2>1, <2>2, <2>3, AiNumbers DEF AiInv, AiHost, PortHeld
  <2>5. ASSUME NEW d \in AiCall, d \notin ai_spoiled'
        PROVE  CallOk(ai_job[d], ai_router', ai_port', ai_headroom')
    <3>1. CallOk(ai_job[d], ai_router, ai_port, ai_headroom)
      BY <2>1, <2>5 DEF AiInv
    <3>2. ai_job[d].action # "stop"
      BY <2>1, <3>1 DEF CallOk, StopOk
    <3>3. ASSUME RestartOk(ai_job[d], ai_router, ai_port, ai_headroom)
          PROVE  RestartOk(ai_job[d], ai_router', ai_port', ai_headroom)
      <4>1. ai_port' # A!OtherProgram
        BY <2>1, <3>3, AiNumbers DEF RestartOk
      <4>2. \A p \in A!Pid : ai_router'[p].source = ai_router[p].source
        BY <2>3
      <4>3. \A p \in A!Pid : ai_router[p].state \in {"absent", "ended"} => ai_router'[p].state \in {"absent", "ended"}
        BY <2>1, <2>3
      <4>4. \A p \in A!Pid : ai_router'[p].state = "ending" => ai_router[p].state = "ending"
        BY <2>2, <2>3
      <4>5. AiDownOrSteady(ai_router, ai_port) => AiDownOrSteady(ai_router', ai_port')
        BY <2>1, <2>2, <2>3 DEF AiDownOrSteady
      <4>6. AiDownOrSteady(ai_router, ai_port) => \E p \in A!Pid : AiLives(ai_router'[p])
        BY <2>1, <2>2, <2>3 DEF AiDownOrSteady, AiLives
      <4> QED
        BY <3>3, <4>1, <4>2, <4>3, <4>4, <4>5, <4>6, RestartKept
    <3> QED
      BY <2>1, <3>1, <3>2, <3>3 DEF CallOk
  <2> QED
    BY <2>1, <2>4, <2>5, AiSessionStep
<1>2. CASE A!Ends(pid)
  <2>1. /\ ai_router[pid].state = "ending" /\ A!End({pid})
        /\ UNCHANGED <<ai_headroom, ai_job, ai_spoiled>>
    BY <1>2 DEF A!Ends
  <2>2. /\ AiHost'
        /\ \A p \in A!Pid : /\ ai_router'[p].source = ai_router[p].source
                             /\ ai_router'[p].state = IF p \in {pid} THEN "ended" ELSE ai_router[p].state
        /\ ai_port' = IF ai_port \in {pid} THEN 0 ELSE ai_port
    BY <2>1, AiEnds DEF AiInv, AiHost
  <2>3. ASSUME NEW d \in AiCall, d \notin ai_spoiled'
        PROVE  CallOk(ai_job[d], ai_router', ai_port', ai_headroom')
    <3>1. CallOk(ai_job[d], ai_router, ai_port, ai_headroom)
      BY <2>1, <2>3 DEF AiInv
    <3>2. ASSUME StopOk(ai_job[d], ai_router, ai_headroom)
          PROVE  StopOk(ai_job[d], ai_router', ai_headroom)
      BY <2>2, <3>2, StopKept
    <3>3. ASSUME RestartOk(ai_job[d], ai_router, ai_port, ai_headroom)
          PROVE  RestartOk(ai_job[d], ai_router', ai_port', ai_headroom)
      <4>1. ai_port' # A!OtherProgram
        BY <2>2, <3>3, AiNumbers DEF RestartOk
      <4>2. AiDownOrSteady(ai_router, ai_port) => AiDownOrSteady(ai_router', ai_port')
        BY <2>1, <2>2 DEF AiDownOrSteady
      <4>3. (\E p \in A!Pid : AiLives(ai_router[p])) => \E p \in A!Pid : AiLives(ai_router'[p])
        BY <2>1, <2>2 DEF AiLives
      <4> QED
        BY <2>2, <3>3, <4>1, <4>2, <4>3, RestartKept
    <3> QED
      BY <2>1, <3>1, <3>2, <3>3 DEF CallOk
  <2> QED
    BY <2>1, <2>2, <2>3, AiSessionStep
<1>3. CASE A!Hangs(pid)
  <2>1. /\ ai_router[pid].state = "serving"
        /\ ai_router' = [ai_router EXCEPT ![pid].state = "hung"]
        /\ UNCHANGED <<ai_port, ai_headroom, ai_job, ai_spoiled>>
    BY <1>3 DEF A!Hangs
  <2>2. /\ ai_router' \in [A!Pid -> AiRouter]
        /\ ai_router'[pid].state = "hung" /\ ai_router'[pid].source = ai_router[pid].source
        /\ \A p \in A!Pid : p # pid => ai_router'[p] = ai_router[p]
    BY <2>1 DEF AiInv, AiHost, AiRouter, RouterState
  <2>3. AiHost'
    BY <2>1, <2>2 DEF AiInv, AiHost, PortHeld
  <2>4. ASSUME NEW d \in AiCall, d \notin ai_spoiled'
        PROVE  CallOk(ai_job[d], ai_router', ai_port', ai_headroom')
    <3>1. CallOk(ai_job[d], ai_router, ai_port, ai_headroom)
      BY <2>1, <2>4 DEF AiInv
    <3>2. ASSUME StopOk(ai_job[d], ai_router, ai_headroom)
          PROVE  StopOk(ai_job[d], ai_router', ai_headroom)
      BY <2>1, <2>2, <3>2 DEF StopOk, AiLives
    <3>3. ASSUME RestartOk(ai_job[d], ai_router, ai_port, ai_headroom)
          PROVE  RestartOk(ai_job[d], ai_router', ai_port', ai_headroom)
      <4>1. ai_port' # A!OtherProgram
        BY <2>1, <3>3 DEF RestartOk
      <4>2. AiDownOrSteady(ai_router, ai_port) => AiDownOrSteady(ai_router', ai_port')
        BY <2>1, <2>2 DEF AiDownOrSteady
      <4>3. (\E p \in A!Pid : AiLives(ai_router[p])) => \E p \in A!Pid : AiLives(ai_router'[p])
        BY <2>1, <2>2 DEF AiLives
      <4>4. /\ \A p \in A!Pid : ai_router'[p].source = ai_router[p].source
            /\ \A p \in A!Pid : ai_router[p].state \in {"absent", "ended"} => ai_router'[p].state \in {"absent", "ended"}
            /\ \A p \in A!Pid : ai_router'[p].state = "ending" => ai_router[p].state = "ending"
        BY <2>1, <2>2
      <4> QED
        BY <3>3, <4>1, <4>2, <4>3, <4>4, RestartKept
    <3> QED
      BY <2>1, <3>1, <3>2, <3>3 DEF CallOk
  <2> QED
    BY <2>1, <2>3, <2>4, AiSessionStep
<1> QED
  BY <1>1, <1>2, <1>3

\* The login of GNOME, and another program that takes the port.
LEMMA AiOthersStep ==
  ASSUME AiInv, A!GnomeStarts \/ A!OtherBinds \/ A!OtherLeaves
  PROVE  AiInv'
<1>1. CASE A!GnomeStarts
  <2>1. PICK pid \in A!FreePids :
          ai_router' = [ai_router EXCEPT ![pid] = [source |-> "scope", state |-> "starting"]]
    BY <1>1 DEF A!GnomeStarts
  <2>2. UNCHANGED <<ai_port, ai_headroom, ai_job>> /\ ai_spoiled' = ai_spoiled \cup A!Stopping
    BY <1>1 DEF A!GnomeStarts
  <2>3. AiHost' /\ OnlyStarted(ai_router, ai_router')
    BY <2>1, <2>2, AiNewRouter
  <2> QED
    BY <2>2, <2>3, AiOthersOfStart, AiSessionStep
<1>2. CASE A!OtherBinds
  <2>1. /\ ai_port = 0 /\ ai_port' = A!OtherProgram /\ ai_spoiled' = ai_spoiled \cup A!Ups
        /\ UNCHANGED <<ai_router, ai_headroom, ai_job>>
    BY <1>2 DEF A!OtherBinds
  <2>2. AiHost'
    BY <2>1, AiNumbers DEF AiInv, AiHost, PortHeld
  <2>3. ASSUME NEW d \in AiCall, d \notin ai_spoiled'
        PROVE  CallOk(ai_job[d], ai_router', ai_port', ai_headroom')
    <3>1. CallOk(ai_job[d], ai_router, ai_port, ai_headroom) /\ ai_job[d].action # "restart"
      BY <2>1, <2>3 DEF AiInv, A!Ups
    <3> QED
      BY <2>1, <3>1 DEF CallOk
  <2> QED
    BY <2>1, <2>2, <2>3, AiSessionStep
<1>3. CASE A!OtherLeaves
  <2>1. /\ ai_port = A!OtherProgram /\ ai_port' = 0
        /\ UNCHANGED <<ai_router, ai_headroom, ai_job, ai_spoiled>>
    BY <1>3 DEF A!OtherLeaves
  <2>2. AiHost'
    BY <2>1, AiNumbers DEF AiInv, AiHost, PortHeld
  <2>3. ASSUME NEW d \in AiCall, d \notin ai_spoiled'
        PROVE  CallOk(ai_job[d], ai_router', ai_port', ai_headroom')
    BY <2>1, <2>3 DEF AiInv, CallOk, RestartOk
  <2> QED
    BY <2>1, <2>2, <2>3, AiSessionStep
<1> QED
  BY <1>1, <1>2, <1>3

\* Before the first command every call is idle and a router that runs holds its port.
LEMMA AiInitially ==
  ASSUME A!Init
  PROVE  AiInv
<1>1. AiHost
  BY DEF A!Init, AiHost, AiRouter, RouterState, A!Absent, PortHeld
<1>2. PICK e, n : e = <<>> /\ n = [headroom |-> FALSE, router |-> FALSE]
  OBVIOUS
<1>3. A!Idle = [action |-> "none", todo |-> e, found |-> {}, health |-> n, rc |-> 0]
  BY <1>2 DEF A!Idle
<1>4. IsAiJob(A!Idle) /\ A!Idle.action = "none"
  BY <1>2, <1>3 DEF IsAiJob, AiTodos
<1>5. ai_job = [c \in AiCall |-> A!Idle]
  BY DEF A!Init
<1> QED
  BY <1>1, <1>4, <1>5 DEF AiInv, AiJobs, CallOk

\* The invariant of the gateway is kept by every step.
LEMMA AiKeeps ==
  ASSUME AiInv, [A!Next]_aiVars
  PROVE  AiInv'
<1>1. ASSUME NEW c \in AiCall, A!CallStep(c)
      PROVE  AiInv'
  BY <1>1, AiBeginKeeps, AiStopKeeps, AiFallbackKeeps, AiLooks, AiDrains, AiStartKeeps, AiRestKeeps
     DEF A!CallStep
<1>2. CASE UNCHANGED aiVars
  BY <1>2 DEF aiVars, AiInv, AiHost, AiJobs
<1> QED
  BY <1>1, <1>2, AiRouterStep, AiOthersStep DEF A!Next

\* GatewayAsAnswered, for any number of calls and of router processes: a stop
\* that answers 0 leaves neither router nor proxy, a restart that answers 0 has
\* a router that lives.
THEOREM GatewayDoesAsItAnswers == HostSpec => []GatewayAsAnswered
<1> DEFINE I == which = "ai" => AiInv
<1>1. HostInit => I
  BY AiInitially DEF HostInit
<1>2. I /\ [HostNext]_all => I'
  BY OneComponent, AiKeeps
<1>3. I => GatewayAsAnswered
  <2> SUFFICES ASSUME AiInv PROVE A!StoppedIsDown /\ A!RestartServes
    BY DEF GatewayAsAnswered, A!GatewayAsAnswered
  <2>1. A!StoppedIsDown
    <3>1. StopFull # <<>>
      BY DEF StopFull
    <3> QED
      BY <3>1 DEF AiInv, CallOk, StopOk, A!StoppedIsDown, A!Answered, A!Lives, AiLives
  <2>2. A!RestartServes
    BY DEF AiInv, CallOk, RestartOk, A!RestartServes, A!Answered, A!Lives, AiLives
  <2> QED
    BY <2>1, <2>2
<1> QED
  BY <1>1, <1>2, <1>3, PTL DEF HostSpec

-----------------------------------------------------------------------------
(* ZramRemediation *)

\* What the services and the runs have, as far as the promise needs it.
ZramType ==
  /\ DOMAIN zram_unit = Service
  /\ \A s \in Service : {"installed", "enabled", "masked", "state"} \subseteq DOMAIN zram_unit[s]
  /\ \A s \in Service : zram_unit[s].enabled => zram_unit[s].installed
  /\ DOMAIN zram_job = Remediation /\ DOMAIN zram_excused = Remediation
  /\ \A r \in Remediation : {"todo", "files", "conflicts", "pc"} \subseteq DOMAIN zram_job[r]

\* No boot starts a service of which v is known.
NotStarted(v) == v.enabled => v.masked
Quiet(v) == v.state = "inactive" /\ NotStarted(v)

AuditStep == [op : {"conf", "files", "active"}, arg : Service \cup {"audit"}]

\* What is left of an audit: the configuration, then two commands a service.
AuditRest(t) ==
  /\ t \in Seq(AuditStep)
  /\ \A i \in DOMAIN t :
       /\ t[i].op = "conf" => i = 1
       /\ t[i].op = "files" => i + 1 \in DOMAIN t /\ t[i + 1] = Z!Op("active", t[i].arg)
       /\ t[i].op = "active" => t[i].arg \in Service
       /\ t[i].op = "active" /\ i # 1 => t[i - 1].op = "files"

ToSee(t, s) == \E i \in DOMAIN t : t[i] = Z!Op("active", s)

\* The last audit of a run that excuses ex: what it has seen of a service is
\* still so, unless it found a conflict.
LastAudit(j, ex, u) ==
  /\ AuditRest(j.todo)
  /\ j.todo # <<>> /\ j.todo[1].op = "conf" => \A s \in Service : ToSee(j.todo, s)
  /\ \A s \in Service \ ex : ToSee(j.todo, s) \/ s \in j.conflicts \/ Quiet(u[s])
  /\ j.todo # <<>> /\ j.todo[1].op = "active" =>
       \/ j.todo[1].arg \in ex \/ NotStarted(u[j.todo[1].arg])
       \/ j.files.installed /\ ~j.files.masked /\ j.files.enabled

\* What a run may rely on.
Relies(j, ex, u) ==
  /\ j.pc = "post" => LastAudit(j, ex, u)
  /\ j.pc = "success" => \A s \in Service \ ex : Quiet(u[s])

ZramInv ==
  ZramType /\ \A r \in Remediation : Relies(zram_job[r], zram_excused[r], zram_unit)

\* The list of a finite set has all of it.
LEMMA AllListed ==
  ASSUME NEW S, IsFiniteSet(S)
  PROVE  /\ Len(Z!SetToSeq(S)) \in Nat
         /\ Z!SetToSeq(S) \in Seq(S)
         /\ \A s \in S : \E i \in 1..Len(Z!SetToSeq(S)) : Z!SetToSeq(S)[i] = s
<1> DEFINE n == Cardinality(S)
           f == Z!SetToSeq(S)
<1>1. n \in Nat
  BY FS_CardinalityType
<1>2. PICK g : g \in Bijection(1..n, S)
  BY <1>1, FS_CardinalityType DEF ExistsBijection
<1>3. Z!Cardinality(S) = n
  BY DEF Z!Cardinality, Cardinality
<1>4. /\ f \in [1..n -> S]
      /\ \A a, b \in 1..n : f[a] = f[b] => a = b
  <2>1. f = CHOOSE h \in [1..n -> S] : Z!IsInjective(h)
    BY <1>3 DEF Z!SetToSeq
  <2>2. g \in [1..n -> S] /\ Z!IsInjective(g)
    BY <1>2 DEF Bijection, Injection, IsInjective, Z!IsInjective
  <2> HIDE DEF f, n
  <2>3. f \in [1..n -> S] /\ Z!IsInjective(f)
    BY <2>1, <2>2, Zenon
  <2> QED
    BY <2>3 DEF Z!IsInjective
<1> HIDE DEF f
<1>5. f \in Seq(S) /\ Len(f) = n
  BY <1>1, <1>4, SeqDef
<1>6. ASSUME NEW s \in S PROVE \E i \in 1..n : f[i] = s
  <2>1. IsFiniteSet(1..n) /\ Cardinality(1..n) = n
    BY <1>1, FS_Interval
  <2>2. f \in Injection(1..n, S)
    BY <1>4 DEF Injection, IsInjective
  <2> QED
    BY <1>1, <1>4, <2>1, <2>2, FS_Injection DEF Surjection
<1> HIDE DEF n
<1> QED
  BY <1>5, <1>6 DEF f

\* A command has its name and its argument.
LEMMA OpFields ==
  \A x, op, arg : x = Z!Op(op, arg) => x.op = op /\ x.arg = arg
BY DEF Z!Op

\* An audit is what remains of it when it starts, and has all services to see.
LEMMA AuditIs ==
  /\ AuditRest(Z!Audit) /\ Z!Audit # <<>> /\ Z!Audit[1].op = "conf"
  /\ \A s \in Service : ToSee(Z!Audit, s)
<1> DEFINE q == Z!SetToSeq(Service)
           m == Len(q)
           h == <<Z!Op("conf", "audit")>>
           b == [i \in 1..(2 * m) |->
                   Z!Op(IF i % 2 = 1 THEN "files" ELSE "active", q[(i + 1) \div 2])]
           t == h \o b
<1>1. Z!Audit = t
  BY DEF Z!Audit
<1>2. m \in Nat /\ \A i \in 1..m : q[i] \in Service
  BY AllListed, ServiceAssumption, ElementOfSeq
<1>3. \A s \in Service : \E i \in 1..m : q[i] = s
  BY AllListed, ServiceAssumption
<1> HIDE DEF q, m
<1>4. \A i \in 1..(2 * m) : (i + 1) \div 2 \in 1..m
  BY <1>2
<1>5. b \in [1..(2 * m) -> AuditStep]
  BY <1>2, <1>4 DEF AuditStep, Z!Op
<1>6. b \in Seq(AuditStep) /\ Len(b) = 2 * m
  BY <1>2, <1>5, SeqDef
<1>7. h \in Seq(AuditStep) /\ Len(h) = 1 /\ h[1] = Z!Op("conf", "audit")
  BY DEF AuditStep, Z!Op
<1> HIDE DEF h
<1>8. /\ t \in Seq(AuditStep) /\ Len(t) = 2 * m + 1 /\ t[1] = Z!Op("conf", "audit")
      /\ \A i \in 2..(2 * m + 1) :
           t[i] = Z!Op(IF i % 2 = 0 THEN "files" ELSE "active", q[i \div 2])
  <2> HIDE DEF b
  <2>1. /\ t \in Seq(AuditStep) /\ Len(t) = 2 * m + 1 /\ t[1] = h[1]
        /\ \A i \in 2..(2 * m + 1) : t[i] = b[i - 1]
    <3>1. /\ t \in Seq(AuditStep) /\ Len(t) = Len(h) + Len(b)
          /\ \A i \in 1..(Len(h) + Len(b)) : t[i] = IF i <= Len(h) THEN h[i] ELSE b[i - Len(h)]
      BY <1>6, <1>7, ConcatProperties
    <3> HIDE DEF t
    <3>2. Len(h) + Len(b) = 2 * m + 1 /\ 1 \in 1..(2 * m + 1)
      BY <1>2, <1>6, <1>7
    <3>3. \A i \in 2..(2 * m + 1) : i \in 1..(2 * m + 1) /\ ~(i <= 1)
      BY <1>2
    <3> QED
      BY <1>7, <3>1, <3>2, <3>3
  <2> USE DEF b
  <2>2. ASSUME NEW i \in 2..(2 * m + 1)
        PROVE  b[i - 1] = Z!Op(IF i % 2 = 0 THEN "files" ELSE "active", q[i \div 2])
    <3>1. i - 1 \in 1..(2 * m) /\ (i - 1) + 1 = i /\ ((i - 1) % 2 = 1 <=> i % 2 = 0)
      BY <1>2
    <3> QED
      BY <3>1
  <2> HIDE DEF b
  <2> QED
    BY <1>7, <2>1, <2>2
<1> HIDE DEF t
<1>9. DOMAIN t = 1..(2 * m + 1) /\ t # <<>>
  BY <1>2, <1>8, LenProperties
<1>10. AuditRest(t)
  <2> SUFFICES ASSUME NEW i \in 1..(2 * m + 1)
               PROVE  /\ t[i].op = "conf" => i = 1
                      /\ t[i].op = "files" => i + 1 \in DOMAIN t /\ t[i + 1] = Z!Op("active", t[i].arg)
                      /\ t[i].op = "active" => t[i].arg \in Service
                      /\ t[i].op = "active" /\ i # 1 => t[i - 1].op = "files"
    BY <1>8, <1>9 DEF AuditRest
  <2>1. CASE i = 1
    BY <1>8, <2>1 DEF Z!Op
  <2>2. CASE i # 1 /\ i % 2 = 0
    <3>1. i + 1 \in 2..(2 * m + 1) /\ (i + 1) % 2 # 0 /\ (i + 1) \div 2 = i \div 2
      BY <1>2, <2>2
    <3>2. t[i] = Z!Op("files", q[i \div 2])
      <4>1. i \in 2..(2 * m + 1)
        BY <1>2, <2>2
      <4> QED
        BY <1>8, <2>2, <4>1
    <3>4. t[i + 1] = Z!Op("active", q[i \div 2])
      <4>1. t[i + 1] = Z!Op("active", q[(i + 1) \div 2])
        BY <1>8, <3>1
      <4> QED
        BY <3>1, <4>1
    <3>3. t[i].op = "files" /\ t[i].arg = q[i \div 2]
      BY <3>2, OpFields
    <3> QED
      BY <1>2, <1>9, <3>1, <3>3, <3>4
  <2>3. CASE i # 1 /\ i % 2 # 0
    <3>1. i - 1 \in 2..(2 * m + 1) /\ (i - 1) % 2 = 0 /\ i \div 2 \in 1..m
      BY <1>2, <2>3
    <3>2. t[i] = Z!Op("active", q[i \div 2]) /\ t[i - 1] = Z!Op("files", q[(i - 1) \div 2])
      <4>1. i \in 2..(2 * m + 1)
        BY <1>2, <2>3
      <4>2. t[i] = Z!Op("active", q[i \div 2])
        BY <1>8, <2>3, <4>1
      <4>3. t[i - 1] = Z!Op("files", q[(i - 1) \div 2])
        BY <1>8, <3>1
      <4> QED
        BY <4>2, <4>3
    <3>3. t[i].op = "active" /\ t[i].arg = q[i \div 2] /\ t[i - 1].op = "files"
      BY <3>2, OpFields
    <3> QED
      BY <1>2, <3>1, <3>3
  <2> QED
    BY <2>1, <2>2, <2>3
<1>11. ASSUME NEW s \in Service
       PROVE  ToSee(t, s)
  <2>1. PICK i \in 1..m : q[i] = s
    BY <1>3
  <2>2. 2 * i + 1 \in 2..(2 * m + 1) /\ (2 * i + 1) % 2 # 0 /\ (2 * i + 1) \div 2 = i
    BY <1>2
  <2> QED
    BY <1>8, <1>9, <2>1, <2>2 DEF ToSee
<1> QED
  BY <1>1, <1>8, <1>9, <1>10, <1>11 DEF Z!Op

\* What an audit has after its next command.
LEMMA AuditGoesOn ==
  ASSUME NEW t, AuditRest(t), t # <<>>
  PROVE  /\ Head(t) = t[1] /\ t[1] \in AuditStep
         /\ AuditRest(Tail(t))
         /\ \A s : ToSee(t, s) => t[1] = Z!Op("active", s) \/ ToSee(Tail(t), s)
         /\ Tail(t) # <<>> /\ t[1].op # "files" => Tail(t)[1].op = "files"
         /\ Tail(t) # <<>> => Tail(t)[1].op # "conf"
         /\ t[1].op = "files" =>
              /\ Tail(t) # <<>> /\ Tail(t)[1] = Z!Op("active", t[1].arg)
              /\ t[1].arg \in Service
<1> DEFINE n == Len(t)
           u == Tail(t)
<1>1. /\ Head(t) = t[1] /\ u \in Seq(AuditStep) /\ n \in Nat \ {0} /\ Len(u) = n - 1
      /\ DOMAIN t = 1..n /\ DOMAIN u = 1..(n - 1)
      /\ \A i \in 1..(n - 1) : u[i] = t[i + 1]
      /\ \A i \in 1..n : t[i] \in AuditStep
      /\ u # <<>> => n - 1 # 0
  BY TailOf, ElementOfSeq, EmptySeq DEF AuditRest
<1>2. \A i \in 1..n :
        /\ t[i].op = "conf" => i = 1
        /\ t[i].op = "files" => i + 1 \in 1..n /\ t[i + 1] = Z!Op("active", t[i].arg)
        /\ t[i].op = "active" => t[i].arg \in Service
        /\ t[i].op = "active" /\ i # 1 => t[i - 1].op = "files"
  BY <1>1 DEF AuditRest
<1>3. \A i \in 1..n : t[i].op \in {"conf", "files", "active"}
  BY <1>1 DEF AuditStep
<1> HIDE DEF n, u
<1>4. AuditRest(u)
  <2> SUFFICES ASSUME NEW i \in 1..(n - 1)
               PROVE  /\ u[i].op = "conf" => i = 1
                      /\ u[i].op = "files" => i + 1 \in 1..(n - 1) /\ u[i + 1] = Z!Op("active", u[i].arg)
                      /\ u[i].op = "active" => u[i].arg \in Service
                      /\ u[i].op = "active" /\ i # 1 => u[i - 1].op = "files"
    BY <1>1 DEF AuditRest
  <2>1. i + 1 \in 1..n /\ i + 1 # 1 /\ (i + 1) - 1 = i /\ i \in 1..n
    BY <1>1
  <2>2. u[i] = t[i + 1] /\ (i # 1 => i - 1 \in 1..(n - 1) /\ u[i - 1] = t[i])
    <3>1. i # 1 => i - 1 \in 1..(n - 1) /\ (i - 1) + 1 = i
      BY <1>1
    <3> QED
      BY <1>1, <3>1
  <2>3. u[i].op = "files" => (i + 1) + 1 \in 1..n /\ t[(i + 1) + 1] = Z!Op("active", u[i].arg)
    BY <1>2, <2>1, <2>2
  <2>4. u[i].op = "files" => i + 1 \in 1..(n - 1) /\ u[i + 1] = t[(i + 1) + 1]
    BY <1>1, <2>1, <2>3
  <2> QED
    BY <1>2, <2>1, <2>2, <2>3, <2>4
<1>5. ASSUME NEW s, ToSee(t, s)
      PROVE  t[1] = Z!Op("active", s) \/ ToSee(u, s)
  <2>1. PICK i \in 1..n : t[i] = Z!Op("active", s)
    BY <1>1, <1>5 DEF ToSee
  <2>2. CASE i = 1
    BY <2>1, <2>2
  <2>3. CASE i # 1
    <3>1. i - 1 \in 1..(n - 1) /\ (i - 1) + 1 = i
      BY <1>1, <2>3
    <3> QED
      BY <1>1, <2>1, <3>1 DEF ToSee
  <2> QED
    BY <2>2, <2>3
<1>6. ASSUME u # <<>>
      PROVE  1 \in 1..(n - 1) /\ u[1] = t[2] /\ 2 \in 1..n /\ 1 \in 1..n
  BY <1>1, <1>6
<1>7. t[2].op = "active" /\ 2 \in 1..n => t[1].op = "files"
  BY <1>2
<1>8. u # <<>> /\ t[1].op # "files" => u[1].op = "files"
  BY <1>2, <1>3, <1>6, <1>7
<1>9. u # <<>> => u[1].op # "conf"
  BY <1>2, <1>6
<1>10. t[1].op = "files" => u # <<>> /\ u[1] = Z!Op("active", t[1].arg) /\ t[1].arg \in Service
  <2> SUFFICES ASSUME t[1].op = "files"
               PROVE  u # <<>> /\ u[1] = Z!Op("active", t[1].arg) /\ t[1].arg \in Service
    OBVIOUS
  <2>1. 2 \in 1..n /\ t[2] = Z!Op("active", t[1].arg)
    BY <1>1, <1>2
  <2>2. Len(u) # 0 /\ u[1] = t[2]
    BY <1>1, <2>1
  <2>3. t[2].arg \in Service
    BY <1>2, <2>1 DEF Z!Op
  <2> QED
    BY <2>1, <2>2, <2>3, EmptySeq DEF Z!Op
<1> QED
  BY <1>1, <1>4, <1>5, <1>8, <1>9, <1>10 DEF u

\* What a run relies on stays when services are only touched that it excuses.
LEMMA RelianceStays ==
  ASSUME NEW j, NEW ex, NEW ex2, NEW u, NEW v, Relies(j, ex, u), ex \subseteq ex2,
         \A s \in Service \ ex2 : /\ Quiet(u[s]) => Quiet(v[s])
                                  /\ NotStarted(u[s]) => NotStarted(v[s])
  PROVE  Relies(j, ex2, v)
<1>1. ASSUME j.pc = "post"
      PROVE  LastAudit(j, ex2, v)
  <2>1. LastAudit(j, ex, u)
    BY <1>1 DEF Relies
  <2>2. \A s \in Service \ ex2 : ToSee(j.todo, s) \/ s \in j.conflicts \/ Quiet(v[s])
    BY <2>1 DEF LastAudit
  <2>3. j.todo # <<>> /\ j.todo[1].op = "active" => j.todo[1].arg \in Service
    BY <2>1, AuditGoesOn, TailOf DEF LastAudit, AuditRest
  <2> QED
    BY <2>1, <2>2, <2>3 DEF LastAudit
<1> QED
  BY <1>1 DEF Relies

\* The step of one run: the services keep what is relied on, and so does it.
LEMMA ZramRunStep ==
  ASSUME ZramInv, NEW r \in Remediation,
         DOMAIN zram_job' = Remediation /\ DOMAIN zram_excused' = Remediation,
         \A q \in Remediation \ {r} :
           zram_job'[q] = zram_job[q] /\ zram_excused'[q] = zram_excused[q],
         {"todo", "files", "conflicts", "pc"} \subseteq DOMAIN zram_job'[r],
         DOMAIN zram_unit' = Service,
         \A s \in Service :
           /\ {"installed", "enabled", "masked", "state"} \subseteq DOMAIN zram_unit'[s]
           /\ zram_unit'[s].enabled => zram_unit'[s].installed
           /\ Quiet(zram_unit[s]) => Quiet(zram_unit'[s])
           /\ NotStarted(zram_unit[s]) => NotStarted(zram_unit'[s]),
         Relies(zram_job'[r], zram_excused'[r], zram_unit')
  PROVE  ZramInv'
<1>1. ASSUME NEW q \in Remediation \ {r}
      PROVE  Relies(zram_job'[q], zram_excused'[q], zram_unit')
  BY RelianceStays DEF ZramInv
<1>2. \A q \in Remediation : Relies(zram_job'[q], zram_excused'[q], zram_unit')
  BY <1>1
<1>3. ZramType'
  BY DEF ZramInv, ZramType
<1> QED
  BY <1>2, <1>3 DEF ZramInv

\* A query leaves the services as they are, and its run with what it relies on.
LEMMA ZramQueryKeeps ==
  ASSUME ZramInv, NEW r \in Remediation, Z!Query(r)
  PROVE  ZramInv'
<1> DEFINE j == zram_job[r]
           k == zram_job'[r]
           t == j.todo
           ex == zram_excused[r]
           keeps == {"todo", "files", "conflicts", "pc"}
<1>1. /\ DOMAIN zram_job = Remediation /\ DOMAIN zram_excused = Remediation
      /\ DOMAIN zram_unit = Service /\ keeps \subseteq DOMAIN j
      /\ \A s \in Service :
           /\ {"installed", "enabled", "masked", "state"} \subseteq DOMAIN zram_unit[s]
           /\ zram_unit[s].enabled => zram_unit[s].installed
      /\ Relies(j, ex, zram_unit)
  <2>1. ZramType /\ Relies(j, ex, zram_unit)
    BY DEF ZramInv
  <2> QED
    BY <2>1 DEF ZramType
<1>2. /\ DOMAIN zram_job' = Remediation /\ DOMAIN zram_excused' = Remediation
      /\ \A q \in Remediation \ {r} :
           zram_job'[q] = zram_job[q] /\ zram_excused'[q] = zram_excused[q]
      /\ keeps \subseteq DOMAIN k /\ k.pc = j.pc /\ zram_unit' = zram_unit
      /\ t # <<>> /\ ex \subseteq zram_excused'[r]
  BY <1>1 DEF Z!Query, Z!QueryConf, Z!QueryFiles, Z!QueryActive, Z!QueryTimesOut, Z!Before
<1>3. ASSUME j.pc = "post"
      PROVE  LastAudit(k, zram_excused'[r], zram_unit)
  <2>1. LastAudit(j, ex, zram_unit) /\ AuditRest(t)
    BY <1>1, <1>3 DEF Relies, LastAudit
  <2>2. /\ Head(t) = t[1] /\ t[1] \in AuditStep
        /\ AuditRest(Tail(t))
        /\ \A s : ToSee(t, s) => t[1] = Z!Op("active", s) \/ ToSee(Tail(t), s)
        /\ Tail(t) # <<>> /\ t[1].op # "files" => Tail(t)[1].op = "files"
        /\ Tail(t) # <<>> => Tail(t)[1].op # "conf"
        /\ t[1].op = "files" =>
              /\ Tail(t) # <<>> /\ Tail(t)[1] = Z!Op("active", t[1].arg)
              /\ t[1].arg \in Service
    BY <1>2, <2>1, AuditGoesOn
  <2>3. CASE Z!QueryConf(r)
    <3>1. /\ t[1].op = "conf" /\ k.todo = Tail(t) /\ k.conflicts = {} /\ zram_excused' = zram_excused
      BY <1>1, <2>2, <2>3 DEF Z!QueryConf, Z!Before
    <3>2. \A s \in Service : ToSee(Tail(t), s)
      BY <1>2, <2>1, <2>2, <3>1, OpFields DEF LastAudit
    <3> QED
      BY <2>2, <3>1, <3>2 DEF LastAudit
  <2>4. CASE Z!QueryFiles(r)
    <3> DEFINE s == t[1].arg
               f == Z!FilesStatus(s)
    <3>1. /\ t[1].op = "files" /\ k.todo = Tail(t) /\ k.conflicts = j.conflicts
          /\ k.files = f /\ zram_excused' = zram_excused
      BY <1>1, <2>2, <2>4 DEF Z!QueryFiles, Z!Before, Z!Arg
    <3>2. (f.installed /\ ~f.masked /\ f.enabled) \/ NotStarted(zram_unit[s])
      BY <1>1, <2>2, <3>1 DEF Z!FilesStatus, NotStarted
    <3>3. \A x : ToSee(t, x) => ToSee(Tail(t), x)
      BY <2>2, <3>1, OpFields
    <3>4. Tail(t)[1].arg = s
      BY <2>2, <3>1 DEF Z!Op
    <3> HIDE DEF f, s
    <3> QED
      BY <2>1, <2>2, <3>1, <3>2, <3>3, <3>4 DEF LastAudit
  <2>5. CASE Z!QueryActive(r)
    <3> DEFINE s == t[1].arg
    <3>1. /\ t[1].op = "active" /\ k.todo = Tail(t) /\ zram_excused' = zram_excused
          /\ k.conflicts = IF Z!Conflict(j.files, zram_unit[s].state)
                           THEN j.conflicts \cup {s} ELSE j.conflicts
      BY <1>1, <2>2, <2>5 DEF Z!QueryActive, Z!Before, Z!Arg
    <3>2. s \in ex \/ s \in k.conflicts \/ Quiet(zram_unit[s])
      BY <1>2, <2>1, <3>1 DEF LastAudit, Z!Conflict, Quiet
    <3>3. j.conflicts \subseteq k.conflicts
      BY <3>1
    <3>4. \A x : ToSee(t, x) => x = s \/ ToSee(Tail(t), x)
      BY <2>2, OpFields
    <3>5. \A x \in Service \ ex : ToSee(Tail(t), x) \/ x \in k.conflicts \/ Quiet(zram_unit[x])
      BY <2>1, <3>2, <3>3, <3>4 DEF LastAudit
    <3> QED
      BY <2>2, <3>1, <3>5 DEF LastAudit
  <2>6. CASE Z!QueryTimesOut(r)
    <3> DEFINE s == t[1].arg
               u == Tail(t)
    <3>1. /\ t[1].op = "files" /\ k.todo = Tail(u) /\ k.conflicts = j.conflicts
          /\ zram_excused'[r] = ex \cup {s}
      BY <1>1, <2>2, <2>6 DEF Z!QueryTimesOut, Z!Before, Z!Arg
    <3>2. AuditRest(u) /\ u # <<>> /\ u[1] = Z!Op("active", s)
      BY <2>2, <3>1
    <3> HIDE DEF u
    <3>3. /\ AuditRest(Tail(u)) /\ Head(u) = u[1]
          /\ \A x : ToSee(u, x) => u[1] = Z!Op("active", x) \/ ToSee(Tail(u), x)
          /\ Tail(u) # <<>> /\ u[1].op # "files" => Tail(u)[1].op = "files"
      BY <3>2, AuditGoesOn
    <3>4. \A x : ToSee(t, x) => x = s \/ ToSee(Tail(u), x)
      BY <2>2, <3>1, <3>2, <3>3, OpFields DEF u
    <3>5. Tail(u) # <<>> => Tail(u)[1].op = "files"
      BY <3>2, <3>3 DEF Z!Op
    <3>6. \A x \in Service \ zram_excused'[r] :
            ToSee(Tail(u), x) \/ x \in k.conflicts \/ Quiet(zram_unit[x])
      BY <2>1, <3>1, <3>4 DEF LastAudit
    <3> QED
      BY <3>1, <3>3, <3>5, <3>6 DEF LastAudit
  <2> QED
    BY <2>3, <2>4, <2>5, <2>6 DEF Z!Query
<1>4. Relies(k, zram_excused'[r], zram_unit)
  BY <1>1, <1>2, <1>3 DEF Relies
<1> QED
  BY <1>1, <1>2, <1>4, ZramRunStep

\* A privileged command leaves what is quiet quiet, and is no step of an audit.
LEMMA ZramCommandKeeps ==
  ASSUME ZramInv, NEW r \in Remediation, Z!PrivilegedCommand(r)
  PROVE  ZramInv'
<1> DEFINE j == zram_job[r]
           k == zram_job'[r]
           fields == {"installed", "enabled", "masked", "state"}
           keeps == {"todo", "files", "conflicts", "pc"}
<1>1. /\ DOMAIN zram_job = Remediation /\ DOMAIN zram_excused = Remediation
      /\ DOMAIN zram_unit = Service /\ keeps \subseteq DOMAIN j
      /\ \A s \in Service :
           /\ fields \subseteq DOMAIN zram_unit[s]
           /\ zram_unit[s].enabled => zram_unit[s].installed
      /\ Relies(j, zram_excused[r], zram_unit)
  <2>1. ZramType /\ Relies(j, zram_excused[r], zram_unit)
    BY DEF ZramInv
  <2> QED
    BY <2>1 DEF ZramType
<1>2. /\ DOMAIN zram_job' = Remediation /\ zram_excused' = zram_excused
      /\ \A q \in Remediation \ {r} : zram_job'[q] = zram_job[q]
      /\ keeps \subseteq DOMAIN k /\ k.pc \in {j.pc, "raised"}
  BY <1>1 DEF Z!PrivilegedCommand, Z!Stop, Z!Disable, Z!Mask, Z!ResetFailed, Z!WriteConf,
              Z!WriteRaises, Z!RestartGenerator, Z!CommandLost, Z!Before, Z!Then
<1>3. /\ DOMAIN zram_unit' = Service
      /\ \A s \in Service :
           /\ fields \subseteq DOMAIN zram_unit'[s]
           /\ zram_unit'[s].enabled => zram_unit'[s].installed
           /\ Quiet(zram_unit[s]) => Quiet(zram_unit'[s])
           /\ NotStarted(zram_unit[s]) => NotStarted(zram_unit'[s])
  <2>1. CASE UNCHANGED zram_unit
    BY <1>1, <2>1
  <2>2. CASE Z!Stop(r) \/ Z!ResetFailed(r)
    BY <1>1, <2>2 DEF Z!Stop, Z!ResetFailed, Z!Set, Quiet, NotStarted
  <2>3. CASE Z!Disable(r)
    BY <1>1, <2>3 DEF Z!Disable, Z!Set, Quiet, NotStarted
  <2>4. CASE Z!Mask(r)
    BY <1>1, <2>4 DEF Z!Mask, Z!Set, Quiet, NotStarted
  <2> QED
    BY <2>1, <2>2, <2>3, <2>4 DEF Z!PrivilegedCommand, Z!WriteConf, Z!WriteRaises,
       Z!RestartGenerator, Z!CommandLost
<1>4. j.pc # "post"
  <2>1. SUFFICES ASSUME j.pc = "post" PROVE FALSE
    OBVIOUS
  <2>2. AuditRest(j.todo)
    BY <1>1, <2>1 DEF Relies, LastAudit
  <2>3. j.todo # <<>> /\ Head(j.todo).op \notin {"conf", "files", "active"}
    BY <2>1 DEF Z!PrivilegedCommand, Z!Stop, Z!Disable, Z!Mask, Z!ResetFailed, Z!WriteConf,
                Z!WriteRaises, Z!RestartGenerator, Z!CommandLost, Z!Before
  <2> QED
    BY <2>2, <2>3, AuditGoesOn DEF AuditStep
<1>5. Relies(k, zram_excused'[r], zram_unit')
  BY <1>1, <1>2, <1>3, <1>4 DEF Relies
<1> QED
  BY <1>1, <1>2, <1>3, <1>5, ZramRunStep

\* A run starts with an audit.
LEMMA ZramStarts ==
  ASSUME NEW r \in Remediation, Z!Start(r), DOMAIN zram_job = Remediation
  PROVE  /\ {"todo", "files", "conflicts", "pc"} \subseteq DOMAIN zram_job'[r]
         /\ zram_job'[r].pc = "audit"
<1>1. PICK path : zram_job' = [zram_job EXCEPT ![r] =
                    [Z!Idle EXCEPT !.todo = Z!Audit, !.path = path, !.pc = "audit"]]
  BY DEF Z!Start
<1>2. {"todo", "path", "files", "conflicts", "pc"} \subseteq DOMAIN Z!Idle
  BY DEF Z!Idle
<1> QED
  BY <1>1, <1>2

\* The steps of a run between its audits and commands.
LEMMA ZramPhaseKeeps ==
  ASSUME ZramInv, NEW r \in Remediation,
         Z!Start(r) \/ Z!Remediate(r) \/ Z!PostAudit(r) \/ Z!Answer(r)
  PROVE  ZramInv'
<1> DEFINE j == zram_job[r]
           k == zram_job'[r]
           keeps == {"todo", "files", "conflicts", "pc"}
<1>1. /\ DOMAIN zram_job = Remediation /\ DOMAIN zram_excused = Remediation
      /\ DOMAIN zram_unit = Service /\ keeps \subseteq DOMAIN j
      /\ \A s \in Service :
           /\ {"installed", "enabled", "masked", "state"} \subseteq DOMAIN zram_unit[s]
           /\ zram_unit[s].enabled => zram_unit[s].installed
      /\ Relies(j, zram_excused[r], zram_unit)
  <2>1. ZramType /\ Relies(j, zram_excused[r], zram_unit)
    BY DEF ZramInv
  <2> QED
    BY <2>1 DEF ZramType
<1>2. /\ DOMAIN zram_job' = Remediation /\ DOMAIN zram_excused' = Remediation
      /\ \A q \in Remediation \ {r} :
           zram_job'[q] = zram_job[q] /\ zram_excused'[q] = zram_excused[q]
      /\ keeps \subseteq DOMAIN k /\ UNCHANGED zram_unit
  <2>1. CASE Z!Start(r)
    <3>1. /\ DOMAIN zram_job' = Remediation /\ DOMAIN zram_excused' = Remediation
          /\ \A q \in Remediation \ {r} :
               zram_job'[q] = zram_job[q] /\ zram_excused'[q] = zram_excused[q]
          /\ UNCHANGED zram_unit
      BY <1>1, <2>1 DEF Z!Start
    <3> QED
      BY <2>1, <3>1, ZramStarts DEF ZramType, ZramInv
  <2>2. CASE Z!Remediate(r) \/ Z!PostAudit(r) \/ Z!Answer(r)
    BY <1>1, <2>2 DEF Z!Remediate, Z!PostAudit, Z!Answer
  <2> QED
    BY <2>1, <2>2
<1>3. Relies(k, zram_excused'[r], zram_unit)
  <2>1. CASE Z!Start(r) \/ Z!Remediate(r)
    <3>1. k.pc \in {"audit", "live"}
      BY <1>1, <2>1, ZramStarts DEF Z!Remediate
    <3> QED
      BY <3>1 DEF Relies
  <2>2. CASE Z!PostAudit(r)
    <3>1. k.pc = "post" /\ k.todo = Z!Audit
      BY <1>1, <2>2 DEF Z!PostAudit
    <3> QED
      BY <3>1, AuditIs DEF Relies, LastAudit
  <2>3. CASE Z!Answer(r)
    <3>1. /\ j.pc = "post" /\ j.todo = <<>> /\ zram_excused' = zram_excused
          /\ k.pc = IF j.conflicts = {} THEN "success" ELSE "issues"
      BY <1>1, <2>3 DEF Z!Answer
    <3>2. \A s : ~ToSee(<<>>, s)
      BY DEF ToSee
    <3>3. \A s \in Service \ zram_excused[r] : s \in j.conflicts \/ Quiet(zram_unit[s])
      BY <1>1, <3>1, <3>2 DEF Relies, LastAudit
    <3> QED
      BY <3>1, <3>3 DEF Relies
  <2> QED
    BY <2>1, <2>2, <2>3
<1> QED
  BY <1>1, <1>2, <1>3, ZramRunStep

\* What the system does to a service excuses it, and a boot starts no service
\* that is masked or disabled.
LEMMA ZramSystemKeeps ==
  ASSUME ZramInv,
         Z!Boot \/ \E s \in Service : Z!StartUnit(s) \/ Z!Enable(s) \/ Z!Unmask(s)
  PROVE  ZramInv'
<1> DEFINE fields == {"installed", "enabled", "masked", "state"}
           keeps == {"todo", "files", "conflicts", "pc"}
<1>1. /\ DOMAIN zram_job = Remediation /\ DOMAIN zram_excused = Remediation
      /\ DOMAIN zram_unit = Service
      /\ \A r \in Remediation : keeps \subseteq DOMAIN zram_job[r]
      /\ \A s \in Service :
           /\ fields \subseteq DOMAIN zram_unit[s]
           /\ zram_unit[s].enabled => zram_unit[s].installed
  BY DEF ZramInv, ZramType
<1>2. \A r \in Remediation : Relies(zram_job[r], zram_excused[r], zram_unit)
  BY DEF ZramInv
<1>3. CASE Z!Boot
  <2>1. PICK holder :
          /\ holder \in {"none", "generator"}
               \cup {s \in Service : zram_unit[s].enabled /\ ~zram_unit[s].masked}
          /\ zram_unit' = [s \in Service |-> [zram_unit[s] EXCEPT
               !.state = CASE s = holder -> "active"
                           [] s \in {x \in Service : zram_unit[x].enabled /\ ~zram_unit[x].masked}
                                      \ {holder} -> "failed"
                           [] OTHER -> "inactive"]]
    BY <1>3, ZenonT(60) DEF Z!Boot, Z!GeneratorStarts
  <2>2. /\ DOMAIN zram_unit' = Service
        /\ \A s \in Service :
             /\ fields \subseteq DOMAIN zram_unit'[s]
             /\ zram_unit'[s].enabled = zram_unit[s].enabled
             /\ zram_unit'[s].masked = zram_unit[s].masked
             /\ zram_unit'[s].installed = zram_unit[s].installed
    BY <1>1, <2>1
  <2>3. ASSUME NEW s \in Service, NotStarted(zram_unit[s])
        PROVE  zram_unit'[s].state = "inactive"
    <3>1. s # holder
      BY <2>1, <2>3, ServiceAssumption DEF NotStarted
    <3>2. ~(zram_unit[s].enabled /\ ~zram_unit[s].masked)
      BY <2>3 DEF NotStarted
    <3> QED
      BY <1>1, <2>1, <3>1, <3>2
  <2>4. \A s \in Service :
          /\ Quiet(zram_unit[s]) => Quiet(zram_unit'[s])
          /\ NotStarted(zram_unit[s]) => NotStarted(zram_unit'[s])
    BY <2>2, <2>3 DEF Quiet, NotStarted
  <2>5. /\ DOMAIN zram_job' = Remediation /\ zram_excused' = zram_excused
        /\ \A r \in Remediation :
             /\ keeps \subseteq DOMAIN zram_job'[r]
             /\ zram_job'[r] = zram_job[r] \/ zram_job'[r].pc = "dead"
    <3>1. /\ zram_excused' = zram_excused
          /\ zram_job' = [r \in Remediation |->
               IF zram_job[r].pc \in {"audit", "live", "post"}
               THEN [zram_job[r] EXCEPT !.todo = <<>>, !.pc = "dead"] ELSE zram_job[r]]
      BY <1>3 DEF Z!Boot
    <3>2. ASSUME NEW r \in Remediation
          PROVE  /\ keeps \subseteq DOMAIN zram_job'[r]
                 /\ zram_job'[r] = zram_job[r] \/ zram_job'[r].pc = "dead"
      <4>1. zram_job'[r] = IF zram_job[r].pc \in {"audit", "live", "post"}
              THEN [zram_job[r] EXCEPT !.todo = <<>>, !.pc = "dead"] ELSE zram_job[r]
        BY <3>1
      <4> QED
        BY <1>1, <4>1
    <3> QED
      BY <1>1, <3>1, <3>2
  <2>6. ASSUME NEW r \in Remediation
        PROVE  Relies(zram_job[r], zram_excused[r], zram_unit')
    <3>1. Relies(zram_job[r], zram_excused[r], zram_unit) /\ zram_excused[r] \subseteq zram_excused[r]
      BY <1>2
    <3>2. \A s \in Service \ zram_excused[r] :
            /\ Quiet(zram_unit[s]) => Quiet(zram_unit'[s])
            /\ NotStarted(zram_unit[s]) => NotStarted(zram_unit'[s])
      BY <2>4
    <3> QED
      BY <3>1, <3>2, RelianceStays
  <2>7. \A r \in Remediation : Relies(zram_job'[r], zram_excused'[r], zram_unit')
    BY <2>5, <2>6 DEF Relies
  <2>8. ZramType'
    BY <1>1, <2>2, <2>5 DEF ZramType
  <2> QED
    BY <2>7, <2>8 DEF ZramInv
<1>4. ASSUME NEW s \in Service, Z!StartUnit(s) \/ Z!Enable(s) \/ Z!Unmask(s)
      PROVE  ZramInv'
  <2>1. /\ zram_job' = zram_job /\ DOMAIN zram_excused' = Remediation
        /\ \A r \in Remediation : zram_excused'[r] = zram_excused[r] \cup {s}
    BY <1>4 DEF Z!StartUnit, Z!Enable, Z!Unmask, Z!Touch
  <2>2. /\ DOMAIN zram_unit' = Service
        /\ \A x \in Service \ {s} : zram_unit'[x] = zram_unit[x]
        /\ fields \subseteq DOMAIN zram_unit'[s]
        /\ zram_unit'[s].enabled => zram_unit'[s].installed
    <3>1. CASE Z!StartUnit(s)
      BY <1>1, <3>1 DEF Z!StartUnit, Z!Set, Z!Started
    <3>2. CASE Z!Enable(s)
      BY <1>1, <3>2 DEF Z!Enable, Z!Set
    <3>3. CASE Z!Unmask(s)
      BY <1>1, <3>3 DEF Z!Unmask, Z!Set
    <3> QED
      BY <1>4, <3>1, <3>2, <3>3
  <2>3. \A r \in Remediation : Relies(zram_job[r], zram_excused'[r], zram_unit')
    BY <1>2, <2>1, <2>2, RelianceStays
  <2>4. ZramType'
    BY <1>1, <2>1, <2>2 DEF ZramType
  <2> QED
    BY <2>1, <2>3, <2>4 DEF ZramInv
<1> QED
  BY <1>3, <1>4

\* For any services, any number of remediations that overlap, and whatever
\* commands are lost: what a success has promised of a service holds, at later
\* boots too, until somebody touches that service (remediate_zram_conflicts).
THEOREM NothingComesBack == HostSpec => []NoComeback
<1> DEFINE I == which = "zram" => ZramInv
<1>1. HostInit => I
  <2> SUFFICES ASSUME HostInit, which = "zram" PROVE ZramInv
    OBVIOUS
  <2>1. /\ zram_unit \in [Service -> [installed : BOOLEAN, enabled : {FALSE}, masked : {FALSE},
                                     state : {"inactive"}]]
        /\ zram_job = [r \in Remediation |-> Z!Idle]
        /\ zram_excused = [r \in Remediation |-> {}]
    BY DEF HostInit, Z!Init
  <2>2. ZramType
    BY <2>1 DEF ZramType, Z!Idle
  <2>3. \A r \in Remediation : zram_job[r].pc = "down"
    BY <2>1 DEF Z!Idle
  <2> QED
    BY <2>2, <2>3 DEF ZramInv, Relies
<1>2. I /\ [HostNext]_all => I'
  <2> SUFFICES ASSUME I, [HostNext]_all, which' = "zram" PROVE ZramInv'
    OBVIOUS
  <2>1. ZramInv /\ [Z!Next]_zramVars
    BY OneComponent
  <2>2. CASE UNCHANGED zramVars
    BY <2>1, <2>2 DEF zramVars, ZramInv, ZramType
  <2>3. CASE Z!Boot \/ \E s \in Service : Z!StartUnit(s) \/ Z!Enable(s) \/ Z!Unmask(s)
    BY <2>1, <2>3, ZramSystemKeeps
  <2>4. ASSUME NEW r \in Remediation,
               Z!Start(r) \/ Z!Query(r) \/ Z!Remediate(r) \/ Z!PrivilegedCommand(r)
                 \/ Z!PostAudit(r) \/ Z!Answer(r)
        PROVE  ZramInv'
    BY <2>1, <2>4, ZramPhaseKeeps, ZramQueryKeeps, ZramCommandKeeps
  <2> QED
    BY <2>1, <2>2, <2>3, <2>4 DEF Z!Next
<1>3. I => NoComeback
  BY DEF ZramInv, Relies, Quiet, NoComeback, Z!NoComeback
<1> QED
  BY <1>1, <1>2, <1>3, PTL DEF HostSpec
=============================================================================
