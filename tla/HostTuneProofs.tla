--------------------------- MODULE HostTuneProofs ---------------------------
(***************************************************************************)
(* Proofs about what "osm tune" makes of the host, for any commands, any   *)
(* that overlap, and any step of theirs lost: Desktop (no setting of the   *)
(* user is lost, no success is a lie) and KernelTuning (what is loaded is  *)
(* what a boot loads, and the power profile settles).                      *)
(***************************************************************************)
EXTENDS HostProofs

\* Sequences that are written out.
LEMMA Listed ==
  ASSUME NEW S, NEW a \in S, NEW b \in S, NEW c \in S
  PROVE  /\ <<a>> \in Seq(S) /\ Len(<<a>>) = 1 /\ <<a>>[1] = a
         /\ <<a, b>> \in Seq(S)
         /\ <<a, b, c>> \in Seq(S) /\ Len(<<a, b, c>>) = 3
         /\ <<a, b, c>>[1] = a /\ <<a, b, c>>[2] = b /\ <<a, b, c>>[3] = c
OBVIOUS

DesktopText == D!Key \cup Mode \cup STRING \cup {"left", "right", "true", "user", "default"}
DesktopArg == DesktopText \X DesktopText
DesktopStep ==
  [op : {"open", "dump", "clean"}, arg : {<<>>}]
    \cup [op : {"clone", "install", "set"}, arg : DesktopArg]

DesktopRun ==
  [mode : Mode \cup {"none"}, todo : Seq(DesktopStep), snap : Nat, ok : BOOLEAN,
   pc : DesktopPreset \cup {"down", "backup", "done", "dead"}]

DesktopType ==
  /\ desktop_orig \in [D!Key -> DesktopText]
  /\ desktop_snaps \in Seq([D!Key -> DesktopText])
  /\ desktop_settings \in [D!Key -> DesktopText]
  /\ desktop_session \in [Session -> DesktopRun]

DTodo(r) == desktop_session[r].todo
DSnap(r) == desktop_session[r].snap
Opening(r) == DTodo(r) # <<>> /\ DTodo(r)[1].op = "open"
Dumping(r) == DTodo(r) # <<>> /\ DTodo(r)[1].op = "dump"

\* A run opens its snapshot first, then dumps to it, and does so once.
OpensFirst(r) ==
  /\ \A i \in 2..Len(DTodo(r)) :
       DTodo(r)[i].op # "open" /\ (DTodo(r)[i].op = "dump" => i = 2 /\ Opening(r))
  /\ Opening(r) => DSnap(r) = 0 /\ Len(DTodo(r)) >= 2 /\ DTodo(r)[2].op = "dump"
  /\ Dumping(r) => DSnap(r) # 0
  /\ DSnap(r) <= Len(desktop_snaps)
  /\ desktop_session[r].pc \in {"down", "done"} => DTodo(r) = <<>>

\* No two runs have one file.
OwnSnapshots ==
  \A r \in Session : \A q \in Session \ {r} : DSnap(q) = DSnap(r) => DSnap(r) = 0

\* A setting of the user that is in a snapshot, or was given up.
Safe(k) ==
  \/ desktop_orig[k] # "user"
  \/ k \in desktop_unsaved
  \/ \E i \in DOMAIN desktop_snaps : desktop_snaps[i][k] = "user"

\* What is anywhere else than the user's setting has a copy of that.
OthersSaved ==
  \A k \in D!Key :
    /\ desktop_settings[k] # "user" => Safe(k)
    /\ \A i \in DOMAIN desktop_snaps : desktop_snaps[i][k] \notin {"user", "default"} => Safe(k)

\* The file of a run is empty until it dumps, and then no setting is lost.
DumpSaves(r) ==
  DTodo(r) # <<>> /\ ~Opening(r) /\ DSnap(r) # 0 =>
    IF Dumping(r) THEN desktop_snaps[DSnap(r)] = D!Nothing ELSE \A k \in D!Key : Safe(k)

\* A theme that is not installed yet is still to be.
InstallsAll(r) ==
  desktop_session[r].ok /\ desktop_session[r].mode # "none" /\ desktop_session[r].pc # "dead"
    /\ (DSnap(r) # 0 \/ Opening(r)) =>
      \A t \in DOMAIN Theme :
        \/ <<Theme[t], desktop_session[r].mode>> \in desktop_installed
        \/ \E i \in DOMAIN DTodo(r) :
             DTodo(r)[i] = D!Op("install", <<Theme[t], desktop_session[r].mode>>)

RunInv(r) == OpensFirst(r) /\ DumpSaves(r) /\ InstallsAll(r)

DesktopInv ==
  DesktopType /\ OwnSnapshots /\ OthersSaved /\ \A r \in Session : RunInv(r)

\* The steps that a pipeline is made of.
LEMMA StepIs ==
  /\ \A o \in {"open", "dump", "clean"} :
       D!Op(o, <<>>) \in DesktopStep /\ D!Op(o, <<>>).op = o
  /\ \A o \in {"clone", "install", "set"}, a \in DesktopArg :
       D!Op(o, a) \in DesktopStep /\ D!Op(o, a).op = o
BY DEF D!Op, DesktopStep

\* Each preset sets settings that exist to values that are read back.
LEMMA MatrixIs ==
  ASSUME NEW preset \in DesktopPreset, NEW mode \in Mode
  PROVE  D!Matrix(preset, mode) \in Seq(DesktopArg)
<1>1. preset \in {"standard", "macos-core", "macos-full"}
  BY DesktopAssumption
<1>2. /\ <<"button-layout", "right">> \in DesktopArg
      /\ <<"button-layout", "left">> \in DesktopArg
      /\ <<"night-light", "true">> \in DesktopArg
      /\ <<"blur", "true">> \in DesktopArg
      /\ <<"gtk-theme", mode>> \in DesktopArg
  BY DEF DesktopArg, DesktopText, D!Key
<1>3. CASE preset = "standard"
  <2>1. D!Matrix(preset, mode) = <<<<"button-layout", "right">>, <<"night-light", "true">>>>
    BY <1>3 DEF D!Matrix
  <2> QED BY <2>1, <1>2, Listed
<1>4. CASE preset = "macos-core"
  <2>1. D!Matrix(preset, mode) = <<<<"button-layout", "left">>, <<"gtk-theme", mode>>>>
    BY <1>4 DEF D!Matrix
  <2> QED BY <2>1, <1>2, Listed
<1>5. CASE preset = "macos-full"
  <2>1. D!Matrix(preset, mode) = <<<<"button-layout", "left">>, <<"gtk-theme", mode>>, <<"blur", "true">>>>
    BY <1>5 DEF D!Matrix
  <2> QED BY <2>1, <1>2, Listed
<1> QED
  BY <1>1, <1>3, <1>4, <1>5

\* A pipeline only sets, or it opens a snapshot and dumps into it before all else,
\* and then installs each theme of the list.
LEMMA PipelineSteps ==
  ASSUME NEW preset \in DesktopPreset, NEW mode \in Mode
  PROVE  LET p == D!Pipeline(preset, mode) IN
         /\ p \in Seq(DesktopStep)
         /\ \/ \A i \in DOMAIN p : p[i].op = "set"
            \/ /\ Len(p) >= 2 /\ p[1].op = "open" /\ p[2].op = "dump"
               /\ \A i \in 3..Len(p) : p[i].op \notin {"open", "dump"}
               /\ \A t \in DOMAIN Theme : \E i \in DOMAIN p :
                    p[i] = D!Op("install", <<Theme[t], mode>>)
<1> DEFINE n == 2 * Len(Theme)
           set == D!Setters(preset, mode)
           install == D!Installers(mode)
<1>1. Theme \in Seq(STRING) /\ Len(Theme) \in Nat /\ DOMAIN Theme = 1..Len(Theme) /\ n \in Nat
  BY DesktopAssumption, LenProperties
<1>2. \A i \in 1..Len(Theme) : Theme[i] \in DesktopText
  BY <1>1, ElementOfSeq DEF DesktopText
<1>3. set \in Seq(DesktopStep) /\ \A i \in DOMAIN set : set[i].op = "set"
  <2> DEFINE m == D!Matrix(preset, mode)
  <2>1. Len(m) \in Nat /\ DOMAIN m = 1..Len(m) /\ \A i \in 1..Len(m) : m[i] \in DesktopArg
    BY MatrixIs, LenProperties, ElementOfSeq
  <2>2. set = [i \in 1..Len(m) |-> D!Op("set", m[i])]
    BY <2>1 DEF D!Setters
  <2> HIDE DEF m, set
  <2>3. \A i \in 1..Len(m) : D!Op("set", m[i]) \in DesktopStep /\ D!Op("set", m[i]).op = "set"
    BY <2>1, StepIs
  <2> QED
    BY <2>1, <2>2, <2>3
<1>4. /\ install \in Seq(DesktopStep) /\ Len(install) = n
      /\ \A i \in 1..n : install[i].op \in {"clone", "install"}
      /\ \A t \in DOMAIN Theme : install[2 * t] = D!Op("install", <<Theme[t], mode>>)
  <2> DEFINE op(i) == IF i % 2 = 1 THEN "clone" ELSE "install"
             F(i) == D!Op(op(i), <<Theme[(i + 1) \div 2], mode>>)
  <2>1. \A i \in 1..n : (i + 1) \div 2 \in 1..Len(Theme)
    BY <1>1
  <2>2. \A i \in 1..n : <<Theme[(i + 1) \div 2], mode>> \in DesktopArg
    <3>1. mode \in DesktopText
      BY DEF DesktopText
    <3> QED
      BY <2>1, <1>2, <3>1 DEF DesktopArg
  <2>3. \A i \in 1..n : F(i) \in DesktopStep /\ F(i).op \in {"clone", "install"}
    BY <2>2, StepIs
  <2>4. \A t \in DOMAIN Theme :
          op(2 * t) = "install" /\ (2 * t + 1) \div 2 = t /\ 2 * t \in 1..n
    BY <1>1
  <2>5. install = [i \in 1..n |-> F(i)]
    BY DEF D!Installers
  <2>6. \A t \in DOMAIN Theme : F(2 * t) = D!Op("install", <<Theme[t], mode>>)
    BY <2>4
  <2> HIDE DEF F, install, n
  <2> QED
    BY <1>1, <2>3, <2>4, <2>5, <2>6
<1>5. CASE preset = "standard"
  BY <1>3, <1>5 DEF D!Pipeline
<1>6. CASE preset # "standard"
  <2> DEFINE a == <<D!Op("open", <<>>), D!Op("dump", <<>>), D!Clean>>
             b == a \o install
             c == b \o <<D!Clean>>
             p == c \o set
  <2>1. D!Clean \in DesktopStep /\ D!Clean.op = "clean"
    BY StepIs DEF D!Clean
  <2>2. /\ a \in Seq(DesktopStep) /\ Len(a) = 3
        /\ a[1].op = "open" /\ a[2].op = "dump" /\ a[3].op = "clean"
        /\ <<D!Clean>> \in Seq(DesktopStep) /\ Len(<<D!Clean>>) = 1 /\ <<D!Clean>>[1].op = "clean"
    <3>1. /\ D!Op("open", <<>>) \in DesktopStep /\ D!Op("open", <<>>).op = "open"
          /\ D!Op("dump", <<>>) \in DesktopStep /\ D!Op("dump", <<>>).op = "dump"
      BY StepIs
    <3> QED
      BY <3>1, <2>1, Listed
  <2>3. D!Pipeline(preset, mode) = p
    BY <1>6 DEF D!Pipeline
  <2> HIDE DEF a, install, set, n
  <2>4. b \in Seq(DesktopStep) /\ Len(b) = 3 + n
        /\ \A i \in 1..(3 + n) : b[i] = IF i <= 3 THEN a[i] ELSE install[i - 3]
    <3>1. a \in Seq(DesktopStep) /\ install \in Seq(DesktopStep) /\ Len(a) = 3 /\ Len(install) = n
      BY <2>2, <1>4
    <3>2. /\ b \in Seq(DesktopStep) /\ Len(b) = Len(a) + Len(install)
          /\ \A i \in 1..(Len(a) + Len(install)) :
               b[i] = IF i <= Len(a) THEN a[i] ELSE install[i - Len(a)]
      BY <3>1, ConcatProperties
    <3> QED
      BY <3>1, <3>2
  <2> HIDE DEF b
  <2>5. c \in Seq(DesktopStep) /\ Len(c) = 4 + n
        /\ \A i \in 1..(4 + n) : c[i] = IF i <= 3 + n THEN b[i] ELSE <<D!Clean>>[i - (3 + n)]
    BY <2>2, <2>4, <1>1, ConcatProperties
  <2> HIDE DEF c
  <2>6. /\ p \in Seq(DesktopStep) /\ Len(set) \in Nat
        /\ Len(p) = 4 + n + Len(set) /\ DOMAIN p = 1..Len(p)
        /\ \A i \in 1..(4 + n + Len(set)) :
             p[i] = IF i <= 4 + n THEN c[i] ELSE set[i - (4 + n)]
        /\ \A i \in 1..Len(set) : set[i].op = "set"
    <3>1. /\ c \in Seq(DesktopStep) /\ set \in Seq(DesktopStep) /\ Len(c) = 4 + n
          /\ Len(set) \in Nat /\ DOMAIN set = 1..Len(set)
      BY <2>5, <1>3, LenProperties
    <3>2. /\ p \in Seq(DesktopStep) /\ Len(p) = Len(c) + Len(set)
          /\ \A i \in 1..(Len(c) + Len(set)) :
               p[i] = IF i <= Len(c) THEN c[i] ELSE set[i - Len(c)]
      BY <3>1, ConcatProperties
    <3>3. DOMAIN p = 1..Len(p)
      BY <3>2, LenProperties
    <3> QED
      BY <1>3, <3>1, <3>2, <3>3
  <2> HIDE DEF p
  <2>7. p[1].op = "open" /\ p[2].op = "dump"
    BY <2>2, <2>4, <2>5, <2>6, <1>1
  <2>8. ASSUME NEW i \in 3..Len(p)
        PROVE  p[i].op \notin {"open", "dump"}
    <3>1. CASE i = 3
      BY <3>1, <2>2, <2>4, <2>5, <2>6, <1>1
    <3>2. CASE i > 3 /\ i <= 3 + n
      <4>1. p[i] = install[i - 3] /\ i - 3 \in 1..n
        BY <3>2, <2>4, <2>5, <2>6, <1>1
      <4> QED
        BY <4>1, <1>4
    <3>3. CASE i = 4 + n
      BY <3>3, <2>2, <2>5, <2>6, <1>1, SMTT(30)
    <3>4. CASE i > 4 + n
      <4>1. i - (4 + n) \in 1..Len(set) /\ p[i] = set[i - (4 + n)]
        BY <3>4, <2>6, <1>1
      <4> QED
        BY <4>1, <2>6
    <3> QED
      BY <3>1, <3>2, <3>3, <3>4, <2>6, <1>1
  <2>9. \A t \in DOMAIN Theme : \E i \in DOMAIN p : p[i] = D!Op("install", <<Theme[t], mode>>)
    <3> TAKE t \in DOMAIN Theme
    <3>1. 3 + 2 * t \in DOMAIN p /\ p[3 + 2 * t] = install[2 * t]
      BY <2>4, <2>5, <2>6, <1>1, SMTT(30) DEF n
    <3> QED
      BY <3>1, <1>4
  <2> QED
    BY <2>3, <2>6, <2>7, <2>8, <2>9, <1>1
<1> QED
  BY <1>5, <1>6

\* The steps a run has before it, and those it has after the first.
LEMMA RestIs ==
  ASSUME DesktopType, NEW r \in Session, DTodo(r) # <<>>
  PROVE  /\ DTodo(r) \in Seq(DesktopStep) /\ Len(DTodo(r)) \in Nat \ {0}
         /\ DOMAIN DTodo(r) = 1..Len(DTodo(r))
         /\ DTodo(r)[1] \in DesktopStep
         /\ Head(DTodo(r)) = DTodo(r)[1]
         /\ D!Rest(r) \in Seq(DesktopStep) /\ Len(D!Rest(r)) = Len(DTodo(r)) - 1
         /\ DOMAIN D!Rest(r) = 1..(Len(DTodo(r)) - 1)
         /\ \A i \in 1..(Len(DTodo(r)) - 1) : D!Rest(r)[i] = DTodo(r)[i + 1]
<1>1. DTodo(r) \in Seq(DesktopStep)
  BY DEF DesktopType, DesktopRun, DTodo
<1> QED
  BY <1>1, TailOf DEF D!Rest, DTodo

\* Steps among which no snapshot is opened or dumped.
Plain(steps) == \A i \in DOMAIN steps : steps[i].op \notin {"open", "dump"}

\* Once its snapshot is open, what a run does after its next step is plain.
LEMMA RestIsPlain ==
  ASSUME DesktopType, NEW r \in Session, OpensFirst(r), DTodo(r) # <<>>, ~Opening(r)
  PROVE  /\ Plain(D!Rest(r))
         /\ ~Dumping(r) => Plain(DTodo(r))
<1>1. \A i \in 2..Len(DTodo(r)) : DTodo(r)[i].op \notin {"open", "dump"}
  BY DEF OpensFirst
<1>2. Plain(D!Rest(r))
  <2>1. ASSUME NEW i \in DOMAIN D!Rest(r)
        PROVE  i + 1 \in 2..Len(DTodo(r)) /\ D!Rest(r)[i] = DTodo(r)[i + 1]
    BY RestIs
  <2> QED
    BY <1>1, <2>1 DEF Plain
<1>3. ASSUME ~Dumping(r), NEW i \in DOMAIN DTodo(r)
      PROVE  DTodo(r)[i].op \notin {"open", "dump"}
  <2>1. i = 1 \/ i \in 2..Len(DTodo(r))
    BY RestIs
  <2> QED
    BY <1>1, <1>3, <2>1 DEF Opening, Dumping
<1> QED
  BY <1>2, <1>3 DEF Plain

\* A run whose snapshot is complete has nothing left to open or to dump.
LEMMA PlainRun ==
  ASSUME NEW r \in Session, DTodo(r)' \in Seq(DesktopStep), Plain(DTodo(r)'),
         DSnap(r)' <= Len(desktop_snaps'), desktop_session'[r].pc \notin {"down", "done"}
  PROVE  ~Opening(r)' /\ ~Dumping(r)' /\ OpensFirst(r)'
<1>1. /\ DOMAIN DTodo(r)' = 1..Len(DTodo(r)')
      /\ DTodo(r)' # <<>> => 1 \in DOMAIN DTodo(r)'
      /\ Len(DTodo(r)') \in Nat
  BY LenProperties, EmptySeq
<1>2. ~Opening(r)' /\ ~Dumping(r)'
  BY <1>1 DEF Plain, Opening, Dumping
<1> QED
  BY <1>1, <1>2 DEF Plain, OpensFirst

\* A step changes one run.
LEMMA OtherRuns ==
  ASSUME DesktopType, NEW r \in Session, NEW j \in DesktopRun,
         desktop_session' = [desktop_session EXCEPT ![r] = j]
  PROVE  /\ desktop_session' \in [Session -> DesktopRun]
         /\ desktop_session'[r] = j /\ DTodo(r)' = j.todo /\ DSnap(r)' = j.snap
         /\ \A q \in Session \ {r} :
              /\ desktop_session'[q] = desktop_session[q]
              /\ DTodo(q)' = DTodo(q) /\ DSnap(q)' = DSnap(q)
              /\ Opening(q)' <=> Opening(q)
              /\ Dumping(q)' <=> Dumping(q)
BY DEF DesktopType, DTodo, DSnap, Opening, Dumping

\* The other runs' part of the invariant, as long as nothing that was saved is
\* lost.
LEMMA OthersKeep ==
  ASSUME DesktopInv, NEW q \in Session,
         desktop_session'[q] = desktop_session[q],
         Len(desktop_snaps) <= Len(desktop_snaps'), Len(desktop_snaps') \in Nat,
         Dumping(q) => desktop_snaps'[DSnap(q)] = desktop_snaps[DSnap(q)],
         \A k \in D!Key : Safe(k) => Safe(k)',
         desktop_installed \subseteq desktop_installed'
  PROVE  RunInv(q)'
<1> USE DEF DesktopInv, RunInv
<1>1. /\ DTodo(q)' = DTodo(q) /\ DSnap(q)' = DSnap(q)
      /\ Opening(q)' <=> Opening(q)
      /\ Dumping(q)' <=> Dumping(q)
  BY DEF DTodo, DSnap, Opening, Dumping
<1>2. DSnap(q) \in Nat /\ Len(desktop_snaps) \in Nat
  BY LenProperties DEF DesktopType, DesktopRun, DSnap
<1>3. OpensFirst(q)'
  <2>1. DSnap(q)' <= Len(desktop_snaps')
    BY <1>1, <1>2 DEF OpensFirst
  <2> QED
    BY <1>1, <2>1 DEF OpensFirst
<1>4. DumpSaves(q)'
  BY <1>1 DEF DumpSaves
<1>5. InstallsAll(q)'
  BY <1>1 DEF InstallsAll
<1> QED
  BY <1>3, <1>4, <1>5

\* A step that is neither the opening nor the dump of a snapshot.
LEMMA Advance ==
  ASSUME DesktopInv, NEW r \in Session, DTodo(r) # <<>>, ~Opening(r), ~Dumping(r),
         NEW ok \in BOOLEAN, ok => desktop_session[r].ok,
         desktop_session' = [desktop_session EXCEPT ![r].todo = D!Rest(r), ![r].ok = ok],
         UNCHANGED <<desktop_orig, desktop_snaps>>,
         desktop_settings' \in [D!Key -> DesktopText], OthersSaved',
         desktop_unsaved \subseteq desktop_unsaved',
         desktop_installed \subseteq desktop_installed',
         ok /\ DTodo(r)[1].op = "install" => DTodo(r)[1].arg \in desktop_installed'
  PROVE  DesktopInv'
<1> USE DEF DesktopInv, RunInv
<1> DEFINE t == DTodo(r)  rest == D!Rest(r)
           j == [desktop_session[r] EXCEPT !.todo = rest, !.ok = ok]
<1>1. /\ t \in Seq(DesktopStep) /\ Len(t) \in Nat \ {0} /\ DOMAIN t = 1..Len(t)
      /\ rest \in Seq(DesktopStep) /\ Len(rest) = Len(t) - 1 /\ DOMAIN rest = 1..(Len(t) - 1)
      /\ \A i \in 1..(Len(t) - 1) : rest[i] = t[i + 1]
  BY RestIs
<1>2. /\ j \in DesktopRun /\ j.todo = rest /\ j.ok = ok /\ j.snap = DSnap(r)
      /\ j.mode = desktop_session[r].mode /\ j.pc = desktop_session[r].pc
      /\ desktop_session' = [desktop_session EXCEPT ![r] = j]
  <2>1. desktop_session[r] \in DesktopRun
    BY DEF DesktopType
  <2>2. ASSUME NEW x \in DesktopRun, NEW y \in Seq(DesktopStep)
        PROVE  LET z == [x EXCEPT !.todo = y, !.ok = ok] IN
               /\ z \in DesktopRun /\ z.todo = y /\ z.ok = ok /\ z.snap = x.snap
               /\ z.mode = x.mode /\ z.pc = x.pc
    BY DEF DesktopRun
  <2>3. /\ j \in DesktopRun /\ j.todo = rest /\ j.ok = ok /\ j.snap = DSnap(r)
        /\ j.mode = desktop_session[r].mode /\ j.pc = desktop_session[r].pc
    <3> HIDE DEF rest
    <3> QED
      BY <2>1, <2>2, <1>1 DEF DSnap
  <2>4. desktop_session' = [desktop_session EXCEPT ![r] = j]
    OBVIOUS
  <2> QED
    BY <2>3, <2>4
<1> HIDE DEF t, rest, j
<1>3. /\ desktop_session' \in [Session -> DesktopRun]
      /\ desktop_session'[r] = j /\ DTodo(r)' = rest /\ DSnap(r)' = DSnap(r)
      /\ \A q \in Session \ {r} :
            desktop_session'[q] = desktop_session[q] /\ DSnap(q)' = DSnap(q)
  BY <1>2, OtherRuns
<1>4. /\ \A i \in DOMAIN rest : rest[i].op \notin {"open", "dump"}
      /\ ~Opening(r)' /\ ~Dumping(r)'
  <2>1. \A i \in 2..Len(t) : t[i].op \notin {"open", "dump"}
    BY <1>1 DEF OpensFirst, t
  <2>2. \A i \in DOMAIN rest : rest[i].op \notin {"open", "dump"}
    BY <1>1, <2>1
  <2>3. rest # <<>> => 1 \in DOMAIN rest
    BY <1>1, EmptySeq
  <2> QED
    BY <2>2, <2>3, <1>3 DEF Opening, Dumping
<1>5. \A k \in D!Key : Safe(k) => Safe(k)'
  BY DEF Safe
<1>6. \A q \in Session \ {r} : RunInv(q)'
  <2>1. Len(desktop_snaps') \in Nat
    BY LenProperties DEF DesktopType
  <2> QED
    BY <2>1, <1>3, <1>5, OthersKeep
<1>7. OpensFirst(r)'
  BY <1>1, <1>2, <1>3, <1>4 DEF OpensFirst
<1>8. DumpSaves(r)'
  BY <1>3, <1>4, <1>5 DEF DumpSaves
<1>9. InstallsAll(r)'
  <2>1. ASSUME ok, desktop_session[r].mode # "none", desktop_session[r].pc # "dead", DSnap(r) # 0,
               NEW k \in DOMAIN Theme, <<Theme[k], desktop_session[r].mode>> \notin desktop_installed'
        PROVE  \E i \in DOMAIN rest : rest[i] = D!Op("install", <<Theme[k], desktop_session[r].mode>>)
    <3>1. PICK i \in DOMAIN t : t[i] = D!Op("install", <<Theme[k], desktop_session[r].mode>>)
      BY <2>1 DEF InstallsAll, t
    <3>2. i # 1
      BY <2>1, <3>1 DEF t, D!Op
    <3>3. i - 1 \in DOMAIN rest /\ rest[i - 1] = t[i]
      BY <3>2, <1>1
    <3> QED
      BY <3>1, <3>3
  <2> QED
    BY <2>1, <1>2, <1>3, <1>4 DEF InstallsAll
<1>10. DesktopType' /\ OwnSnapshots'
  BY <1>3 DEF DesktopType, OwnSnapshots
<1> QED
  BY <1>6, <1>7, <1>8, <1>9, <1>10

\* No step of any run of the desktop breaks the invariant.
LEMMA DesktopStepKeeps == DesktopInv /\ [D!Next]_desktopVars => DesktopInv'
<1> SUFFICES ASSUME DesktopInv, [D!Next]_desktopVars PROVE DesktopInv'
  OBVIOUS
<1> USE DEF DesktopInv, RunInv
<1>0. /\ Len(desktop_snaps) \in Nat /\ DOMAIN desktop_snaps = 1..Len(desktop_snaps)
      /\ \A r \in Session : DSnap(r) \in Nat /\ desktop_session[r] \in DesktopRun
  BY LenProperties DEF DesktopType, DesktopRun, DSnap
\* A step that takes the place of the run's steps, and of none of its files.
<1>j. ASSUME NEW r \in Session, NEW j \in DesktopRun,
             desktop_session' = [desktop_session EXCEPT ![r] = j], j.snap \in {0, DSnap(r)},
             UNCHANGED <<desktop_orig, desktop_settings, desktop_snaps, desktop_sandbox,
                         desktop_installed, desktop_unsaved>>,
             RunInv(r)'
      PROVE  DesktopInv'
  <2>1. /\ desktop_session' \in [Session -> DesktopRun]
        /\ DSnap(r)' \in {0, DSnap(r)}
        /\ \A q \in Session \ {r} :
              desktop_session'[q] = desktop_session[q] /\ DSnap(q)' = DSnap(q)
    BY <1>j, OtherRuns
  <2>2. \A k \in D!Key : Safe(k)' <=> Safe(k)
    BY <1>j DEF Safe
  <2>3. \A q \in Session \ {r} : RunInv(q)'
    BY <1>j, <1>0, <2>1, <2>2, OthersKeep
  <2>4. DesktopType' /\ OwnSnapshots' /\ OthersSaved'
    BY <1>j, <2>1, <2>2 DEF DesktopType, OwnSnapshots, OthersSaved
  <2> QED
    BY <1>j, <2>3, <2>4
<1>1. ASSUME NEW r \in Session, D!Apply(r)
      PROVE  DesktopInv'
  <2>1. PICK preset \in DesktopPreset, mode \in Mode :
          desktop_session' = [desktop_session EXCEPT ![r] =
            [mode |-> mode, todo |-> D!Pipeline(preset, mode), snap |-> 0, ok |-> TRUE, pc |-> preset]]
    BY <1>1 DEF D!Apply
  <2> DEFINE p == D!Pipeline(preset, mode)
             j == [mode |-> mode, todo |-> p, snap |-> 0, ok |-> TRUE, pc |-> preset]
  <2>2. p \in Seq(DesktopStep) /\ Len(p) \in Nat /\ DOMAIN p = 1..Len(p)
    BY PipelineSteps, LenProperties
  <2> HIDE DEF p
  <2>3. /\ j \in DesktopRun /\ j.todo = p /\ j.snap = 0 /\ j.mode = mode /\ j.pc = preset
        /\ preset \notin {"down", "done"} /\ mode # "none"
    BY <2>2, DesktopAssumption DEF DesktopRun
  <2>4. /\ desktop_session'[r] = j /\ DTodo(r)' = p /\ DSnap(r)' = 0
        /\ desktop_session' = [desktop_session EXCEPT ![r] = j]
    <3>1. desktop_session' = [desktop_session EXCEPT ![r] = j]
      BY <2>1 DEF p
    <3> HIDE DEF j
    <3> QED
      BY <2>3, <3>1, OtherRuns
  <2> HIDE DEF j
  <2>5. CASE \A i \in DOMAIN p : p[i].op = "set"
    <3>1. ~Opening(r)' /\ ~Dumping(r)'
      BY <2>2, <2>4, <2>5, EmptySeq DEF Opening, Dumping
    <3>2. OpensFirst(r)'
      BY <2>2, <2>3, <2>4, <2>5, <3>1, <1>0, <1>1 DEF OpensFirst, D!Apply
    <3>3. DumpSaves(r)' /\ InstallsAll(r)'
      BY <2>3, <2>4, <3>1 DEF DumpSaves, InstallsAll
    <3> QED
      BY <1>1, <1>j, <2>3, <2>4, <3>2, <3>3 DEF D!Apply
  <2>6. CASE ~\A i \in DOMAIN p : p[i].op = "set"
    <3>1. /\ Len(p) >= 2 /\ p[1].op = "open" /\ p[2].op = "dump"
          /\ \A i \in 3..Len(p) : p[i].op \notin {"open", "dump"}
          /\ \A t \in DOMAIN Theme : \E i \in DOMAIN p :
               p[i] = D!Op("install", <<Theme[t], mode>>)
      BY <2>6, PipelineSteps DEF p
    <3>2. Opening(r)' /\ ~Dumping(r)'
      BY <2>2, <2>4, <3>1, EmptySeq DEF Opening, Dumping
    <3>3. OpensFirst(r)'
      BY <2>2, <2>3, <2>4, <3>1, <3>2, <1>0, <1>1 DEF OpensFirst, D!Apply
    <3>4. DumpSaves(r)' /\ InstallsAll(r)'
      BY <2>3, <2>4, <3>1, <3>2 DEF DumpSaves, InstallsAll
    <3> QED
      BY <1>1, <1>j, <2>3, <2>4, <3>3, <3>4 DEF D!Apply
  <2> QED
    BY <2>5, <2>6
<1>2. ASSUME NEW r \in Session, D!Backup(r)
      PROVE  DesktopInv'
  <2> DEFINE p == <<D!Op("open", <<>>), D!Op("dump", <<>>)>>
             j == [mode |-> "none", todo |-> p, snap |-> 0, ok |-> TRUE, pc |-> "backup"]
  <2>1. p \in Seq(DesktopStep) /\ Len(p) = 2 /\ p[1].op = "open" /\ p[2].op = "dump" /\ p # <<>>
    <3>1. /\ D!Op("open", <<>>) \in DesktopStep /\ D!Op("open", <<>>).op = "open"
          /\ D!Op("dump", <<>>) \in DesktopStep /\ D!Op("dump", <<>>).op = "dump"
      BY StepIs
    <3> QED
      BY <3>1
  <2>2. desktop_session' = [desktop_session EXCEPT ![r] = j]
    BY <1>2 DEF D!Backup
  <2> HIDE DEF p
  <2>3. j \in DesktopRun /\ j.todo = p /\ j.snap = 0 /\ j.mode = "none" /\ j.pc = "backup"
    BY <2>1 DEF DesktopRun
  <2> HIDE DEF j
  <2>4. desktop_session'[r] = j /\ DTodo(r)' = p /\ DSnap(r)' = 0
    BY <2>2, <2>3, OtherRuns
  <2>5. Opening(r)' /\ ~Dumping(r)'
    BY <2>1, <2>4 DEF Opening, Dumping
  <2>6. OpensFirst(r)'
    <3>1. desktop_snaps' = desktop_snaps /\ 0 <= Len(desktop_snaps)
      BY <1>0, <1>2 DEF D!Backup
    <3>2. \A i \in 2..Len(p) : i = 2
      BY <2>1
    <3> QED
      <4>1. /\ DTodo(r)'[2].op = "dump" /\ Len(DTodo(r)') = 2
            /\ \A i \in 2..Len(DTodo(r)') : i = 2
        BY <2>1, <2>4, <3>2
      <4>2. desktop_session'[r].pc \notin {"down", "done"} /\ DSnap(r)' <= Len(desktop_snaps')
        BY <2>3, <2>4, <3>1
      <4> QED
        BY <2>4, <2>5, <4>1, <4>2 DEF OpensFirst
  <2>7. DumpSaves(r)' /\ InstallsAll(r)'
    BY <2>3, <2>4, <2>5 DEF DumpSaves, InstallsAll
  <2> QED
    BY <1>2, <1>j, <2>2, <2>3, <2>4, <2>6, <2>7 DEF D!Backup
<1>3. ASSUME NEW r \in Session, D!DumpFails(r)
      PROVE  DesktopInv'
  <2> DEFINE j == [desktop_session[r] EXCEPT !.todo = D!Rest(r), !.snap = 0]
  <2>1. DTodo(r) # <<>> /\ DTodo(r)[1].op = "dump" /\ ~Opening(r)
    BY <1>3, RestIs DEF D!DumpFails, D!Before, DTodo, Opening
  <2>2. D!Rest(r) \in Seq(DesktopStep) /\ Plain(D!Rest(r)) /\ desktop_session[r].pc \notin {"down", "done"}
    BY <2>1, RestIs, RestIsPlain DEF OpensFirst
  <2>3. desktop_session' = [desktop_session EXCEPT ![r] = j]
    BY <1>3 DEF D!DumpFails
  <2>4. /\ j \in DesktopRun /\ j.todo = D!Rest(r) /\ j.snap = 0
        /\ j.pc = desktop_session[r].pc
    BY <1>0, <2>2 DEF DesktopRun
  <2> HIDE DEF j
  <2>5. desktop_session'[r] = j /\ DTodo(r)' = D!Rest(r) /\ DSnap(r)' = 0
    BY <2>3, <2>4, OtherRuns
  <2>6. ~Opening(r)' /\ OpensFirst(r)'
    <3>1. DSnap(r)' <= Len(desktop_snaps') /\ desktop_session'[r].pc \notin {"down", "done"}
      BY <1>0, <1>3, <2>2, <2>4, <2>5 DEF D!DumpFails
    <3> QED
      BY <2>2, <2>5, <3>1, PlainRun
  <2>7. DumpSaves(r)' /\ InstallsAll(r)'
    BY <2>5, <2>6 DEF DumpSaves, InstallsAll
  <2> QED
    BY <1>3, <1>j, <2>3, <2>4, <2>6, <2>7 DEF D!DumpFails
<1>4. ASSUME NEW r \in Session, D!InstallFails(r)
      PROVE  DesktopInv'
  <2>1. DTodo(r) # <<>> /\ ~Opening(r) /\ ~Dumping(r)
    BY <1>4, RestIs DEF D!InstallFails, D!Before, DTodo, Opening, Dumping
  <2>2. PICK i \in DOMAIN DTodo(r) : desktop_session' =
          [desktop_session EXCEPT ![r].ok = FALSE, ![r].todo = SubSeq(@, i, Len(@))]
    BY <1>4 DEF D!InstallFails, D!AfterFailure, DTodo
  <2> DEFINE rest == SubSeq(DTodo(r), i, Len(DTodo(r)))
             j == [desktop_session[r] EXCEPT !.ok = FALSE, !.todo = rest]
  <2>3. /\ DTodo(r) \in Seq(DesktopStep) /\ Len(DTodo(r)) \in Nat /\ i \in 1..Len(DTodo(r))
        /\ DOMAIN DTodo(r) = 1..Len(DTodo(r))
    BY <2>1, RestIs
  <2>4. /\ rest \in Seq(DesktopStep) /\ Len(rest) = Len(DTodo(r)) - i + 1
        /\ \A k \in 1..(Len(DTodo(r)) - i + 1) : rest[k] = DTodo(r)[i + k - 1]
    BY <2>3, SubSeqProperties, ElementOfSeq
  <2>5. Plain(rest)
    <3>1. Plain(DTodo(r)) /\ DOMAIN rest = 1..(Len(DTodo(r)) - i + 1)
      BY <2>1, <2>4, RestIsPlain, LenProperties
    <3> QED
      BY <2>3, <2>4, <3>1 DEF Plain
  <2>6. desktop_session' = [desktop_session EXCEPT ![r] = j]
    BY <2>2 DEF DTodo
  <2> HIDE DEF rest
  <2>7. /\ j \in DesktopRun /\ j.todo = rest /\ j.snap = DSnap(r) /\ j.ok = FALSE
        /\ j.pc = desktop_session[r].pc
    BY <1>0, <2>4 DEF DesktopRun, DSnap
  <2> HIDE DEF j
  <2>8. desktop_session'[r] = j /\ DTodo(r)' = rest /\ DSnap(r)' = DSnap(r)
    BY <2>6, <2>7, OtherRuns
  <2>9. j.pc \notin {"down", "done"} /\ DSnap(r)' <= Len(desktop_snaps')
    BY <1>4, <2>1, <2>7, <2>8 DEF OpensFirst, D!InstallFails
  <2>10. ~Opening(r)' /\ ~Dumping(r)' /\ OpensFirst(r)'
    BY <2>4, <2>5, <2>8, <2>9, PlainRun
  <2>11. DumpSaves(r)'
    <3>1. \A k \in D!Key : Safe(k) => Safe(k)'
      BY <1>4 DEF Safe, D!InstallFails
    <3> QED
      BY <2>1, <2>8, <2>10, <3>1 DEF DumpSaves
  <2>12. InstallsAll(r)'
    BY <2>7, <2>8 DEF InstallsAll
  <2> QED
    BY <1>4, <1>j, <2>6, <2>7, <2>10, <2>11, <2>12 DEF D!InstallFails
<1>5. ASSUME NEW r \in Session, D!Finish(r)
      PROVE  DesktopInv'
  <2> DEFINE j == [desktop_session[r] EXCEPT !.pc = "done"]
  <2>1. desktop_session' = [desktop_session EXCEPT ![r] = j] /\ DTodo(r) = <<>>
        /\ desktop_session[r].pc \notin {"down", "dead"}
    BY <1>5 DEF D!Finish, DTodo
  <2>2. /\ j \in DesktopRun /\ j.todo = DTodo(r) /\ j.snap = DSnap(r) /\ j.ok = desktop_session[r].ok
        /\ j.mode = desktop_session[r].mode /\ j.pc = "done"
    BY <1>0 DEF DesktopRun, DSnap, DTodo
  <2> HIDE DEF j
  <2>3. desktop_session'[r] = j /\ DTodo(r)' = DTodo(r) /\ DSnap(r)' = DSnap(r)
    BY <2>1, <2>2, OtherRuns
  <2>4. OpensFirst(r)' /\ DumpSaves(r)'
    BY <1>5, <2>1, <2>2, <2>3, EmptySeq DEF OpensFirst, DumpSaves, Opening, Dumping, D!Finish
  <2>5. InstallsAll(r)'
    BY <1>5, <2>1, <2>2, <2>3 DEF InstallsAll, Opening, D!Finish
  <2> QED
    BY <1>5, <1>j, <2>1, <2>2, <2>4, <2>5 DEF D!Finish
<1>6. ASSUME NEW r \in Session, D!Kill(r)
      PROVE  DesktopInv'
  <2> DEFINE j == [desktop_session[r] EXCEPT !.todo = <<>>, !.pc = "dead"]
  <2>1. desktop_session' = [desktop_session EXCEPT ![r] = j]
    BY <1>6 DEF D!Kill
  <2>2. j \in DesktopRun /\ j.todo = <<>> /\ j.snap = DSnap(r) /\ j.pc = "dead"
    <3>1. <<>> \in Seq(DesktopStep)
      BY EmptySeq
    <3> QED
      BY <1>0, <3>1 DEF DesktopRun, DSnap
  <2> HIDE DEF j
  <2>3. desktop_session'[r] = j /\ DTodo(r)' = <<>> /\ DSnap(r)' = DSnap(r)
    BY <2>1, <2>2, OtherRuns
  <2>4. OpensFirst(r)' /\ DumpSaves(r)' /\ InstallsAll(r)'
    BY <1>6, <2>2, <2>3, EmptySeq DEF OpensFirst, DumpSaves, InstallsAll, Opening, Dumping, D!Kill
  <2> QED
    BY <1>6, <1>j, <2>1, <2>2, <2>4 DEF D!Kill
<1>7. ASSUME NEW r \in Session, D!OpenSnapshot(r)
      PROVE  DesktopInv'
  <2> DEFINE n == Len(desktop_snaps) + 1
             j == [desktop_session[r] EXCEPT !.todo = D!Rest(r), !.snap = n]
  <2>1. Opening(r) /\ DTodo(r) # <<>>
    BY <1>7, RestIs DEF D!OpenSnapshot, D!Before, DTodo, Opening
  <2>2. D!Nothing \in [D!Key -> DesktopText] /\ \A k \in D!Key : D!Nothing[k] = "default"
    BY DEF D!Nothing, DesktopText
  <2>3. desktop_snaps' = Append(desktop_snaps, D!Nothing)
    BY <1>7 DEF D!OpenSnapshot, D!NewFile
  <2>4. /\ desktop_snaps' \in Seq([D!Key -> DesktopText]) /\ Len(desktop_snaps') = n
        /\ desktop_snaps'[n] = D!Nothing /\ n \in Nat /\ DOMAIN desktop_snaps' = 1..n
        /\ \A i \in DOMAIN desktop_snaps : desktop_snaps'[i] = desktop_snaps[i]
    <3>1. desktop_snaps \in Seq([D!Key -> DesktopText])
      BY DEF DesktopType
    <3>2. /\ desktop_snaps' \in Seq([D!Key -> DesktopText]) /\ Len(desktop_snaps') = n
          /\ desktop_snaps'[n] = D!Nothing
          /\ \A i \in 1..Len(desktop_snaps) : desktop_snaps'[i] = desktop_snaps[i]
      BY <2>2, <2>3, <3>1, AppendProperties
    <3> QED
      BY <1>0, <3>2, LenProperties
  <2>5. desktop_session' = [desktop_session EXCEPT ![r] = j]
    BY <1>7, <2>4 DEF D!OpenSnapshot
  <2> HIDE DEF n
  <2>6. /\ j \in DesktopRun /\ j.todo = D!Rest(r) /\ j.snap = n /\ j.ok = desktop_session[r].ok
        /\ j.mode = desktop_session[r].mode /\ j.pc = desktop_session[r].pc
    BY <1>0, <2>1, <2>4, RestIs DEF DesktopRun
  <2> HIDE DEF j
  <2>7. /\ desktop_session' \in [Session -> DesktopRun]
        /\ desktop_session'[r] = j /\ DTodo(r)' = D!Rest(r) /\ DSnap(r)' = n
        /\ \A q \in Session \ {r} :
              desktop_session'[q] = desktop_session[q] /\ DSnap(q)' = DSnap(q)
    BY <2>5, <2>6, OtherRuns
  <2>8. UNCHANGED <<desktop_orig, desktop_settings, desktop_installed, desktop_unsaved>>
    BY <1>7 DEF D!OpenSnapshot
  <2>9. \A k \in D!Key : Safe(k) => Safe(k)'
    BY <1>0, <2>4, <2>8 DEF Safe, n
  <2>10. OthersSaved'
    <3>1. \A i \in DOMAIN desktop_snaps' : i = n \/ i \in DOMAIN desktop_snaps
      BY <1>0, <2>4 DEF n
    <3> QED
      BY <2>2, <2>4, <2>8, <2>9, <3>1 DEF OthersSaved
  <2>11. \A q \in Session : DSnap(q) <= Len(desktop_snaps)
    BY DEF OpensFirst
  <2>12. \A q \in Session \ {r} : RunInv(q)'
    <3>1. \A q \in Session : Dumping(q) => desktop_snaps'[DSnap(q)] = desktop_snaps[DSnap(q)]
      BY <1>0, <2>4, <2>11 DEF OpensFirst
    <3>2. Len(desktop_snaps) <= Len(desktop_snaps') /\ Len(desktop_snaps') \in Nat
      BY <1>0, <2>4 DEF n
    <3> QED
      BY <2>7, <2>8, <2>9, <3>1, <3>2, OthersKeep
  <2>13. OwnSnapshots'
    <3>1. \A q \in Session \ {r} : DSnap(q)' # n
      BY <1>0, <2>7, <2>11 DEF n
    <3> QED
      BY <2>7, <3>1 DEF OwnSnapshots
  <2>14. /\ ~Opening(r)' /\ Dumping(r)'
         /\ \A i \in DOMAIN D!Rest(r) : D!Rest(r)[i].op = "dump" <=> i = 1
         /\ \A i \in DOMAIN D!Rest(r) : D!Rest(r)[i].op # "open"
    <3>1. /\ Len(DTodo(r)) >= 2 /\ DTodo(r)[2].op = "dump"
          /\ \A i \in 2..Len(DTodo(r)) : DTodo(r)[i].op # "open" /\ (DTodo(r)[i].op = "dump" => i = 2)
      BY <2>1 DEF OpensFirst
    <3>2. ASSUME NEW i \in DOMAIN D!Rest(r)
          PROVE  i + 1 \in 2..Len(DTodo(r)) /\ D!Rest(r)[i] = DTodo(r)[i + 1]
      BY <2>1, RestIs
    <3>3. 1 \in DOMAIN D!Rest(r) /\ D!Rest(r) # <<>> /\ D!Rest(r)[1] = DTodo(r)[2]
      BY <2>1, <3>1, RestIs, EmptySeq
    <3>4. \A i \in DOMAIN D!Rest(r) : i + 1 = 2 <=> i = 1
      BY <2>1, RestIs
    <3>5. /\ \A i \in DOMAIN D!Rest(r) : D!Rest(r)[i].op = "dump" <=> i = 1
          /\ \A i \in DOMAIN D!Rest(r) : D!Rest(r)[i].op # "open"
      BY <3>1, <3>2, <3>3, <3>4
    <3> QED
      BY <2>7, <3>3, <3>5 DEF Opening, Dumping
  <2>15. OpensFirst(r)'
    <3>1. \A i \in 2..Len(D!Rest(r)) : i \in DOMAIN D!Rest(r) /\ i # 1
      BY <2>1, RestIs
    <3>2. j.pc \notin {"down", "done"} /\ n # 0 /\ n <= Len(desktop_snaps')
      BY <1>0, <2>1, <2>4, <2>6 DEF OpensFirst, n
    <3> QED
      BY <2>7, <2>14, <3>1, <3>2 DEF OpensFirst
  <2>16. DumpSaves(r)' /\ InstallsAll(r)'
    <3>1. DumpSaves(r)'
      BY <2>4, <2>7, <2>14 DEF DumpSaves
    <3>2. ASSUME desktop_session[r].ok, desktop_session[r].mode # "none",
                 desktop_session[r].pc # "dead", NEW t \in DOMAIN Theme,
                 <<Theme[t], desktop_session[r].mode>> \notin desktop_installed
          PROVE  \E i \in DOMAIN D!Rest(r) :
                   D!Rest(r)[i] = D!Op("install", <<Theme[t], desktop_session[r].mode>>)
      <4>1. PICK i \in DOMAIN DTodo(r) :
              DTodo(r)[i] = D!Op("install", <<Theme[t], desktop_session[r].mode>>)
        BY <2>1, <3>2 DEF InstallsAll
      <4>2. i # 1
        BY <2>1, <4>1 DEF Opening, D!Op
      <4>3. i - 1 \in DOMAIN D!Rest(r) /\ D!Rest(r)[i - 1] = DTodo(r)[i]
        BY <2>1, <4>2, RestIs, SMTT(30)
      <4> QED
        BY <4>1, <4>3
    <3>3. InstallsAll(r)'
      BY <2>6, <2>7, <2>8, <3>2 DEF InstallsAll
    <3> QED
      BY <3>1, <3>3
  <2>17. DesktopType'
    BY <2>4, <2>7, <2>8 DEF DesktopType
  <2> QED
    BY <2>10, <2>12, <2>13, <2>15, <2>16, <2>17
<1>8. ASSUME NEW r \in Session, D!Dump(r)
      PROVE  DesktopInv'
  <2> DEFINE n == DSnap(r)
             j == [desktop_session[r] EXCEPT !.todo = D!Rest(r)]
  <2>1. Dumping(r) /\ ~Opening(r) /\ DTodo(r) # <<>>
    BY <1>8, RestIs DEF D!Dump, D!Before, DTodo, Opening, Dumping
  <2>2. n \in DOMAIN desktop_snaps /\ desktop_snaps[n] = D!Nothing
    BY <1>0, <2>1 DEF OpensFirst, DumpSaves
  <2>3. desktop_snaps' = [desktop_snaps EXCEPT ![n] = desktop_settings]
    BY <1>8 DEF D!Dump, DSnap
  <2>4. /\ desktop_snaps' \in Seq([D!Key -> DesktopText])
        /\ Len(desktop_snaps') = Len(desktop_snaps)
        /\ DOMAIN desktop_snaps' = DOMAIN desktop_snaps
        /\ desktop_snaps'[n] = desktop_settings
        /\ \A i \in DOMAIN desktop_snaps \ {n} : desktop_snaps'[i] = desktop_snaps[i]
    <3>1. desktop_snaps \in Seq([D!Key -> DesktopText]) /\ desktop_settings \in [D!Key -> DesktopText]
      BY DEF DesktopType
    <3>2. /\ desktop_snaps' \in Seq([D!Key -> DesktopText])
          /\ Len(desktop_snaps') = Len(desktop_snaps)
      BY <1>0, <2>2, <2>3, <3>1, ExceptSeq
    <3> QED
      BY <2>2, <2>3, <3>2
  <2>5. desktop_session' = [desktop_session EXCEPT ![r] = j]
    BY <1>8 DEF D!Dump, D!Then
  <2>6. /\ j \in DesktopRun /\ j.todo = D!Rest(r) /\ j.snap = n /\ j.ok = desktop_session[r].ok
        /\ j.mode = desktop_session[r].mode /\ j.pc = desktop_session[r].pc
    BY <1>0, <2>1, RestIs DEF DesktopRun, DSnap
  <2> HIDE DEF n, j
  <2>7. /\ desktop_session' \in [Session -> DesktopRun]
        /\ desktop_session'[r] = j /\ DTodo(r)' = D!Rest(r) /\ DSnap(r)' = n
        /\ \A q \in Session \ {r} :
              desktop_session'[q] = desktop_session[q] /\ DSnap(q)' = DSnap(q)
    BY <2>5, <2>6, OtherRuns
  <2>8. UNCHANGED <<desktop_orig, desktop_settings, desktop_installed, desktop_unsaved>>
    BY <1>8 DEF D!Dump
  <2>9. \A k \in D!Key : Safe(k)'
    <3>1. ASSUME NEW k \in D!Key, NEW i \in DOMAIN desktop_snaps, desktop_snaps[i][k] = "user"
          PROVE  desktop_snaps'[i][k] = "user"
      BY <2>2, <2>4, <3>1 DEF D!Nothing
    <3>2. \A k \in D!Key : Safe(k) => Safe(k)'
      BY <2>4, <2>8, <3>1 DEF Safe
    <3>3. \A k \in D!Key : desktop_settings[k] = "user" => Safe(k)'
      BY <2>2, <2>4 DEF Safe
    <3> QED
      BY <3>2, <3>3 DEF OthersSaved
  <2>10. OthersSaved' /\ OwnSnapshots' /\ DesktopType'
    BY <2>4, <2>7, <2>8, <2>9 DEF OthersSaved, OwnSnapshots, DesktopType, n
  <2>11. \A q \in Session \ {r} : RunInv(q)'
    <3>1. ASSUME NEW q \in Session \ {r}, Dumping(q)
          PROVE  desktop_snaps'[DSnap(q)] = desktop_snaps[DSnap(q)]
      <4>1. DSnap(q) # 0 /\ DSnap(q) \in DOMAIN desktop_snaps
        BY <1>0, <3>1 DEF OpensFirst
      <4>2. DSnap(q) # n
        BY <4>1 DEF OwnSnapshots, n
      <4> QED
        BY <2>4, <4>1, <4>2
    <3> QED
      BY <1>0, <2>4, <2>7, <2>8, <2>9, <3>1, OthersKeep
  <2>12. Plain(D!Rest(r)) /\ D!Rest(r) \in Seq(DesktopStep)
    BY <2>1, RestIs, RestIsPlain
  <2>13. ~Opening(r)' /\ ~Dumping(r)' /\ OpensFirst(r)'
    <3>1. DSnap(r)' <= Len(desktop_snaps') /\ desktop_session'[r].pc \notin {"down", "done"}
      BY <2>1, <2>4, <2>6, <2>7 DEF OpensFirst, n
    <3> QED
      BY <2>7, <2>12, <3>1, PlainRun
  <2>14. DumpSaves(r)'
    BY <2>9, <2>13 DEF DumpSaves
  <2>15. InstallsAll(r)'
    <3>1. ASSUME desktop_session[r].ok, desktop_session[r].mode # "none",
                 desktop_session[r].pc # "dead", n # 0, NEW t \in DOMAIN Theme,
                 <<Theme[t], desktop_session[r].mode>> \notin desktop_installed
          PROVE  \E i \in DOMAIN D!Rest(r) :
                   D!Rest(r)[i] = D!Op("install", <<Theme[t], desktop_session[r].mode>>)
      <4>1. PICK i \in DOMAIN DTodo(r) :
              DTodo(r)[i] = D!Op("install", <<Theme[t], desktop_session[r].mode>>)
        BY <3>1 DEF InstallsAll, n
      <4>2. i # 1
        BY <2>1, <4>1 DEF Dumping, D!Op
      <4>3. i - 1 \in DOMAIN D!Rest(r) /\ D!Rest(r)[i - 1] = DTodo(r)[i]
        BY <2>1, <4>2, RestIs
      <4> QED
        BY <4>1, <4>3
    <3> QED
      BY <2>6, <2>7, <2>8, <2>13, <3>1 DEF InstallsAll
  <2> QED
    BY <2>10, <2>11, <2>13, <2>14, <2>15
<1>9. ASSUME NEW r \in Session, D!CleanSandbox(r) \/ D!Clone(r) \/ D!Install(r) \/ D!SetFails(r)
      PROVE  DesktopInv'
  <2>1. /\ DTodo(r) # <<>> /\ ~Opening(r) /\ ~Dumping(r)
        /\ DTodo(r)[1].op = "install" => D!Install(r)
    BY <1>9, RestIs DEF D!CleanSandbox, D!Clone, D!Install, D!SetFails, D!Before, DTodo, Opening, Dumping
  <2>2. PICK ok \in BOOLEAN :
          /\ ok => desktop_session[r].ok
          /\ desktop_session' = [desktop_session EXCEPT ![r].todo = D!Rest(r), ![r].ok = ok]
    <3>1. CASE D!SetFails(r)
      BY <3>1 DEF D!SetFails
    <3>2. CASE ~D!SetFails(r)
      <4>1. desktop_session' = [desktop_session EXCEPT ![r].todo = D!Rest(r)]
        BY <1>9, <3>2 DEF D!CleanSandbox, D!Clone, D!Install, D!Then
      <4>2. [desktop_session EXCEPT ![r].todo = D!Rest(r)]
              = [desktop_session EXCEPT ![r].todo = D!Rest(r), ![r].ok = desktop_session[r].ok]
        BY <1>0 DEF DesktopType, DesktopRun
      <4>3. desktop_session[r].ok \in BOOLEAN
        BY <1>0 DEF DesktopRun
      <4> QED
        BY <4>1, <4>2, <4>3
    <3> QED
      BY <3>1, <3>2
  <2>3. /\ UNCHANGED <<desktop_orig, desktop_settings, desktop_snaps, desktop_unsaved>>
        /\ desktop_installed \subseteq desktop_installed'
        /\ DTodo(r)[1].op = "install" => DTodo(r)[1].arg \in desktop_installed'
    BY <1>9, <2>1, RestIs DEF D!CleanSandbox, D!Clone, D!Install, D!SetFails, D!Arg, DTodo
  <2>4. OthersSaved' /\ desktop_settings' \in [D!Key -> DesktopText]
    BY <2>3 DEF OthersSaved, Safe, DesktopType
  <2> QED
    BY <2>1, <2>2, <2>3, <2>4, Advance
<1>10. ASSUME NEW r \in Session, D!SetKey(r)
       PROVE  DesktopInv'
  <2>1. /\ DTodo(r) # <<>> /\ ~Opening(r) /\ ~Dumping(r)
        /\ DTodo(r)[1].op = "set" /\ D!Arg(r) = DTodo(r)[1].arg
    BY <1>10, RestIs DEF D!SetKey, D!Before, D!Arg, DTodo, Opening, Dumping
  <2>2. D!Arg(r) \in DesktopArg
    BY <2>1, RestIs DEF DesktopStep
  <2>3. desktop_settings' \in [D!Key -> DesktopText]
    BY <1>10, <2>2 DEF D!SetKey, DesktopArg, DesktopType
  <2>4. /\ desktop_session' = [desktop_session EXCEPT ![r].todo = D!Rest(r)]
        /\ UNCHANGED <<desktop_orig, desktop_snaps, desktop_installed>>
        /\ desktop_unsaved \subseteq desktop_unsaved'
    BY <1>10 DEF D!SetKey, D!Then
  <2>5. /\ desktop_session[r].ok \in BOOLEAN
        /\ desktop_session' = [desktop_session EXCEPT ![r].todo = D!Rest(r),
                                                     ![r].ok = desktop_session[r].ok]
    BY <1>0, <2>4 DEF DesktopType, DesktopRun
  <2>6. OthersSaved'
    <3>1. \A k \in D!Key : Safe(k) => Safe(k)'
      BY <2>4 DEF Safe
    <3>2. \A k \in D!Key : desktop_settings'[k] # desktop_settings[k] => Safe(k)'
      <4>1. \A k \in D!Key : desktop_settings'[k] # desktop_settings[k] => k = D!Arg(r)[1]
        BY <1>10 DEF D!SetKey, DesktopType
      <4>2. CASE DSnap(r) = 0
        BY <1>10, <4>1, <4>2 DEF D!SetKey, DSnap, Safe
      <4>3. CASE DSnap(r) # 0
        BY <2>1, <3>1, <4>3 DEF DumpSaves
      <4> QED
        BY <4>2, <4>3
    <3>3. \A k \in D!Key : desktop_settings'[k] # "user" => Safe(k)'
      BY <3>1, <3>2 DEF OthersSaved
    <3> QED
      BY <2>4, <3>1, <3>3 DEF OthersSaved
  <2> QED
    BY <2>1, <2>3, <2>4, <2>5, <2>6, Advance
<1>11. CASE D!Restore
  <2>1. PICK i \in DOMAIN desktop_snaps :
          desktop_settings' = [k \in D!Key |->
            IF desktop_snaps[i][k] = "default" THEN desktop_settings[k] ELSE desktop_snaps[i][k]]
    BY <1>11 DEF D!Restore
  <2>2. UNCHANGED <<desktop_orig, desktop_snaps, desktop_installed, desktop_session, desktop_unsaved>>
    BY <1>11 DEF D!Restore
  <2>3. desktop_snaps[i] \in [D!Key -> DesktopText]
    BY <1>0, ElementOfSeq DEF DesktopType
  <2>4. DesktopType'
    BY <2>1, <2>2, <2>3 DEF DesktopType
  <2>5. OthersSaved'
    BY <2>1, <2>2 DEF OthersSaved, Safe
  <2>6. OwnSnapshots' /\ \A r \in Session : RunInv(r)'
    BY <2>2 DEF OwnSnapshots, Safe, OpensFirst, DumpSaves, InstallsAll, Opening, Dumping, DTodo, DSnap
  <2> QED
    BY <2>4, <2>5, <2>6
<1>12. CASE UNCHANGED desktopVars
  BY <1>12 DEF desktopVars, DesktopType, OwnSnapshots, OthersSaved, Safe, OpensFirst, DumpSaves,
    InstallsAll, Opening, Dumping, DTodo, DSnap
<1> QED
  BY <1>1, <1>2, <1>3, <1>4, <1>5, <1>6, <1>7, <1>8, <1>9, <1>10, <1>11, <1>12 DEF D!Next

\* Whatever runs of osm tune desktop overlap, and whatever of their commands
\* fail, what they saved of the user's settings is kept, and who answers success
\* has installed its themes (commands/tune_macos.py).
THEOREM DesktopKeepsAndInstalls == HostSpec => []DesktopSafe
<1> DEFINE I == which = "desktop" => DesktopInv
<1>1. HostInit => I
  <2> SUFFICES ASSUME HostInit, which = "desktop" PROVE DesktopInv
    OBVIOUS
  <2>1. D!Init
    BY DEF HostInit
  <2>2. /\ desktop_orig \in [D!Key -> DesktopText] /\ desktop_settings = desktop_orig
        /\ desktop_snaps = <<>> /\ desktop_unsaved = {}
        /\ \A k \in D!Key : desktop_orig[k] \in {"user", "default"}
    BY <2>1 DEF D!Init, DesktopText
  <2>3. desktop_session = [r \in Session |->
          [mode |-> "none", todo |-> <<>>, snap |-> 0, ok |-> TRUE, pc |-> "down"]]
    BY <2>1 DEF D!Init
  <2>4. [mode |-> "none", todo |-> <<>>, snap |-> 0, ok |-> TRUE, pc |-> "down"] \in DesktopRun
    <3>1. <<>> \in Seq(DesktopStep)
      BY EmptySeq
    <3> QED
      BY <3>1 DEF DesktopRun
  <2>5. DesktopType
    <3>1. <<>> \in Seq([D!Key -> DesktopText])
      BY EmptySeq
    <3> QED
      BY <2>2, <2>3, <2>4, <3>1 DEF DesktopType
  <2>6. /\ Len(desktop_snaps) = 0 /\ DOMAIN desktop_snaps = {} /\ Len(<<>>) = 0
    BY <2>2
  <2>7. OwnSnapshots /\ OthersSaved /\ \A r \in Session : RunInv(r)
    BY <2>2, <2>3, <2>6 DEF OwnSnapshots, OthersSaved, Safe, RunInv, OpensFirst, DumpSaves,
      InstallsAll, Opening, Dumping, DTodo, DSnap
  <2> QED
    BY <2>5, <2>7 DEF DesktopInv
<1>2. I /\ [HostNext]_all => I'
  BY OneComponent, DesktopStepKeeps
<1>3. I => DesktopSafe
  <2> SUFFICES ASSUME DesktopInv PROVE D!SettingsKept /\ D!SuccessIsInstalled
    BY DEF DesktopSafe, D!DesktopSafe
  <2> USE DEF DesktopInv, RunInv
  <2>1. D!SettingsKept
    BY DEF D!SettingsKept, OthersSaved, Safe
  <2>2. ASSUME NEW r \in Session, desktop_session[r].pc = "done", desktop_session[r].ok,
               desktop_session[r].snap # 0, desktop_session[r].mode # "none"
        PROVE  \A i \in DOMAIN Theme : <<Theme[i], desktop_session[r].mode>> \in desktop_installed
    <3>1. DTodo(r) = <<>> /\ DOMAIN DTodo(r) = {} /\ desktop_session[r].pc # "dead"
      BY <2>2 DEF OpensFirst
    <3> QED
      BY <2>2, <3>1 DEF InstallsAll, DSnap
  <2> QED
    BY <2>1, <2>2 DEF D!SuccessIsInstalled
<1> QED
  BY <1>1, <1>2, <1>3, PTL DEF HostSpec

-----------------------------------------------------------------------------
(* KernelTuning: the files and the values *)

KernelFile ==
  {"performance", "memory", "network", "kernel", "scheduler", "mglru", "thp", "earlyoom"}

KernelKey ==
  {"swappiness", "page_cluster", "qdisc", "congestion", "somaxconn", "nmi_watchdog",
   "timer_migration", "base_slice", "mglru", "thp", "oom"}

\* What is loaded at once.
KernelLoad == {K!SysctlOrder, K!Tmpfiles, <<"scheduler">>, <<"earlyoom">>}

\* The place of a file in the order of a boot.
KernelRank(f) ==
  CASE f = "kernel" -> 1 [] f = "memory" -> 2 [] f = "network" -> 3 [] f = "performance" -> 4
    [] f = "scheduler" -> 5 [] f = "mglru" -> 6 [] f = "thp" -> 7 [] OTHER -> 8

KernelSets(f, k) == k \in DOMAIN K!Content[f]

\* The keys of every file.
LEMMA KernelContent ==
  /\ DOMAIN K!Content["performance"] = {"swappiness", "qdisc", "congestion"}
  /\ DOMAIN K!Content["memory"] = {"swappiness", "page_cluster"}
  /\ DOMAIN K!Content["network"] = {"qdisc", "congestion", "somaxconn"}
  /\ DOMAIN K!Content["kernel"] = {"nmi_watchdog", "timer_migration"}
  /\ DOMAIN K!Content["scheduler"] = {"base_slice"}
  /\ DOMAIN K!Content["mglru"] = {"mglru"}
  /\ DOMAIN K!Content["thp"] = {"thp"}
  /\ DOMAIN K!Content["earlyoom"] = {"oom"}
BY DEF K!Content, K!Performance, K!Vm, K!Network, K!Kernel, K!Eevdf, K!Mglru, K!Thp, K!Earlyoom

\* The orders in which files are loaded.
LEMMA KernelOrders ==
  /\ K!SysctlOrder = <<"kernel", "memory", "network", "performance", "scheduler">>
  /\ K!Tmpfiles = <<"mglru", "thp">>
  /\ K!LoadOrder = <<"kernel", "memory", "network", "performance", "scheduler",
                     "mglru", "thp", "earlyoom">>
<1> DEFINE s == <<"kernel", "memory", "network", "performance", "scheduler">>
           t == <<"mglru", "thp">>
           u == <<"earlyoom">>
           v == <<"kernel", "memory", "network", "performance", "scheduler", "mglru", "thp">>
           w == <<"kernel", "memory", "network", "performance", "scheduler", "mglru", "thp",
                  "earlyoom">>
<1>1. s \o t = v
  <2>1. /\ s \in Seq(KernelFile) /\ t \in Seq(KernelFile) /\ v \in Seq(KernelFile)
        /\ Len(s) = 5 /\ Len(t) = 2 /\ Len(v) = 7
    BY DEF KernelFile
  <2>2. /\ v[1] = s[1] /\ v[2] = s[2] /\ v[3] = s[3] /\ v[4] = s[4] /\ v[5] = s[5]
        /\ v[6] = t[1] /\ v[7] = t[2]
    OBVIOUS
  <2> HIDE DEF s, t, v
  <2>3. /\ \A i \in 1..5 : v[i] = s[i]
        /\ \A i \in 1..2 : v[5 + i] = t[i]
    BY <2>2
  <2>4. /\ Len(v) = Len(s) + Len(t)
        /\ \A i \in 1..Len(s) : v[i] = s[i]
        /\ \A i \in 1..Len(t) : v[Len(s) + i] = t[i]
    BY <2>1, <2>3
  <2> QED
    BY <2>1, <2>4, ConcatIs
<1>2. v \o u = w
  <2>1. /\ v \in Seq(KernelFile) /\ u \in Seq(KernelFile) /\ w \in Seq(KernelFile)
        /\ Len(v) = 7 /\ Len(u) = 1 /\ Len(w) = 8
    BY DEF KernelFile
  <2>2. /\ w[1] = v[1] /\ w[2] = v[2] /\ w[3] = v[3] /\ w[4] = v[4] /\ w[5] = v[5]
        /\ w[6] = v[6] /\ w[7] = v[7] /\ w[8] = u[1]
    OBVIOUS
  <2> HIDE DEF u, v, w
  <2>3. /\ \A i \in 1..7 : w[i] = v[i]
        /\ \A i \in 1..1 : w[7 + i] = u[i]
    BY <2>2
  <2>4. /\ Len(w) = Len(v) + Len(u)
        /\ \A i \in 1..Len(v) : w[i] = v[i]
        /\ \A i \in 1..Len(u) : w[Len(v) + i] = u[i]
    BY <2>1, <2>3
  <2> QED
    BY <2>1, <2>4, ConcatIs
<1> QED
  BY <1>1, <1>2 DEF K!SysctlOrder, K!Tmpfiles, K!LoadOrder

\* Whatever is loaded at once is in the order of a boot.
LEMMA KernelOrdered ==
  ASSUME NEW files \in KernelLoad \cup {K!LoadOrder}
  PROVE  /\ \A i \in DOMAIN files : i \in Int /\ files[i] \in KernelFile
         /\ \A i, j \in DOMAIN files :
              KernelRank(files[i]) <= KernelRank(files[j]) => i <= j
<1>1. CASE files = K!SysctlOrder
  BY <1>1, KernelOrders DEF KernelFile, KernelRank
<1>2. CASE files = K!Tmpfiles
  BY <1>2, KernelOrders DEF KernelFile, KernelRank
<1>3. CASE files = <<"scheduler">>
  BY <1>3 DEF KernelFile, KernelRank
<1>4. CASE files = <<"earlyoom">>
  BY <1>4 DEF KernelFile, KernelRank
<1>5. CASE files = K!LoadOrder
  BY <1>5, KernelOrders DEF KernelFile, KernelRank
<1> QED
  BY <1>1, <1>2, <1>3, <1>4, <1>5 DEF KernelLoad

\* The files that set a value are loaded together or not at all.
LEMMA KernelTogether ==
  ASSUME NEW files \in KernelLoad \cup {K!LoadOrder}, NEW k \in KernelKey
  PROVE  \/ \A f \in KernelFile : KernelSets(f, k) => \E i \in DOMAIN files : files[i] = f
         \/ \A i \in DOMAIN files : ~KernelSets(files[i], k)
<1> USE DEF KernelSets
<1>1. CASE files = K!SysctlOrder
  <2> DEFINE s == <<"kernel", "memory", "network", "performance", "scheduler">>
  <2>1. /\ DOMAIN s = 1..5 /\ s[1] = "kernel" /\ s[2] = "memory" /\ s[3] = "network"
        /\ s[4] = "performance" /\ s[5] = "scheduler"
    OBVIOUS
  <2> HIDE DEF s
  <2>2. CASE k \in {"mglru", "thp", "oom"}
    BY <1>1, <2>1, <2>2, KernelOrders, KernelContent DEF s
  <2>3. CASE k \notin {"mglru", "thp", "oom"}
    BY <1>1, <2>1, <2>3, KernelOrders, KernelContent DEF s, KernelFile, KernelKey
  <2> QED
    BY <2>2, <2>3
<1>2. CASE files = K!Tmpfiles
  BY <1>2, KernelOrders, KernelContent DEF KernelFile, KernelKey
<1>3. CASE files = <<"scheduler">>
  BY <1>3, KernelContent DEF KernelFile, KernelKey
<1>4. CASE files = <<"earlyoom">>
  BY <1>4, KernelContent DEF KernelFile, KernelKey
<1>5. CASE files = K!LoadOrder
  <2> DEFINE s == <<"kernel", "memory", "network", "performance", "scheduler", "mglru", "thp",
                    "earlyoom">>
  <2>1. /\ DOMAIN s = 1..8 /\ s[1] = "kernel" /\ s[2] = "memory" /\ s[3] = "network"
        /\ s[4] = "performance" /\ s[5] = "scheduler" /\ s[6] = "mglru" /\ s[7] = "thp"
        /\ s[8] = "earlyoom"
    OBVIOUS
  <2> HIDE DEF s
  <2> QED
    BY <1>5, <2>1, KernelOrders DEF s, KernelFile
<1> QED
  BY <1>1, <1>2, <1>3, <1>4, <1>5 DEF KernelLoad

\* The last of some files.
LEMMA KernelLast ==
  ASSUME NEW S, S \subseteq KernelFile, S # {}
  PROVE  \E f \in S : \A g \in S : KernelRank(g) <= KernelRank(f)
BY DEF KernelFile, KernelRank

\* Loading them leaves what none of them sets, and sets the others to what the
\* last that is there says.
LEMMA KernelOverlay ==
  ASSUME NEW files \in KernelLoad \cup {K!LoadOrder}, NEW values, NEW k \in DOMAIN values
  PROVE  /\ (\A i \in DOMAIN files : ~(files[i] \in kernel_conf /\ KernelSets(files[i], k)))
              => K!Overlay(values, files)[k] = values[k]
         /\ \A j \in DOMAIN files :
              /\ files[j] \in kernel_conf /\ KernelSets(files[j], k)
              /\ \A i \in DOMAIN files :
                   files[i] \in kernel_conf /\ KernelSets(files[i], k)
                     => KernelRank(files[i]) <= KernelRank(files[j])
              => K!Overlay(values, files)[k] = K!Content[files[j]][k]
<1> DEFINE S == {i \in DOMAIN files : files[i] \in kernel_conf /\ KernelSets(files[i], k)}
<1>1. K!Overlay(values, files)[k] =
        IF S = {} THEN values[k] ELSE K!Content[files[K!Max(S)]][k]
  BY DEF K!Overlay, KernelSets
<1>2. ASSUME NEW j \in S, \A i \in S : KernelRank(files[i]) <= KernelRank(files[j])
      PROVE  K!Max(S) = j
  <2>1. \A i \in S : i \in Int /\ i <= j
    BY <1>2, KernelOrdered
  <2> HIDE DEF S
  <2>2. j \in S /\ \A i \in S : j >= i
    BY <2>1
  <2>3. K!Max(S) \in S /\ \A i \in S : K!Max(S) >= i
    BY <2>2 DEF K!Max
  <2> QED
    BY <2>1, <2>2, <2>3
<1> QED
  BY <1>1, <1>2

\* A load that knows of all files that set a value makes it that of a boot.
LEMMA KernelWhole ==
  ASSUME NEW files \in KernelLoad \cup {K!LoadOrder}, NEW values, NEW k \in KernelKey,
         k \in DOMAIN values, kernel_conf \subseteq KernelFile,
         K!Setting(k) # {}, \A f \in K!Setting(k) : \E i \in DOMAIN files : files[i] = f
  PROVE  K!Overlay(values, files)[k] = K!Boot[k]
<1>1. k \in DOMAIN K!Default
  BY DEF K!Default, KernelKey
<1>2. K!Setting(k) = {f \in kernel_conf : KernelSets(f, k)}
  BY DEF K!Setting, KernelSets
<1>3. PICK f \in K!Setting(k) : \A g \in K!Setting(k) : KernelRank(g) <= KernelRank(f)
  BY <1>2, KernelLast
<1>4. K!Overlay(values, files)[k] = K!Content[f][k]
  <2>1. PICK j \in DOMAIN files : files[j] = f
    BY <1>3
  <2> QED
    BY <1>2, <1>3, <2>1, KernelOverlay
<1>5. \E i \in DOMAIN K!LoadOrder : K!LoadOrder[i] = f
  <2> DEFINE s == <<"kernel", "memory", "network", "performance", "scheduler", "mglru", "thp",
                    "earlyoom">>
  <2>1. /\ DOMAIN s = 1..8 /\ s[1] = "kernel" /\ s[2] = "memory" /\ s[3] = "network"
        /\ s[4] = "performance" /\ s[5] = "scheduler" /\ s[6] = "mglru" /\ s[7] = "thp"
        /\ s[8] = "earlyoom"
    OBVIOUS
  <2>2. f \in KernelFile
    BY <1>2
  <2> HIDE DEF s
  <2> QED
    BY <2>1, <2>2, KernelOrders DEF s, KernelFile
<1>6. K!Boot[k] = K!Content[f][k]
  <2>1. PICK j \in DOMAIN K!LoadOrder : K!LoadOrder[j] = f
    BY <1>5
  <2>2. K!Overlay(K!Default, K!LoadOrder)[k] = K!Content[f][k]
    BY <1>1, <1>2, <1>3, <2>1, KernelOverlay
  <2> QED
    BY <2>2 DEF K!Boot
<1> QED
  BY <1>4, <1>6

-----------------------------------------------------------------------------
(* KernelTuning: the steps of the commands *)

KernelValue ==
  {"1", "0", "auto", "balance_performance", "balance_power", "balanced", "low-power",
   "performance", 4, 8}

KernelStep ==
  [op : {"write"}, arg : KernelFile]
    \cup [op : {"load"}, arg : KernelLoad]
    \cup [op : {"set"},
          arg : [node : {"epp", "epb", "platform", "conservation", "fn_lock", "gpu"}
                          \X (KernelCpu \cup {"acpi"}),
                 value : KernelValue]]
    \cup [op : {"slice", "trigger", "rule", "source", "config", "unit", "read"},
          arg : {2, 3, "udev", "audit", "config", "1", TRUE, FALSE}]

IsIn(s, x) == \E i \in DOMAIN s : s[i] = x

\* What a concatenation has.
LEMMA ConcatHas ==
  ASSUME NEW S, NEW s \in Seq(S), NEW t \in Seq(S)
  PROVE  /\ s \o t \in Seq(S)
         /\ \A x : IsIn(s \o t, x) <=> IsIn(s, x) \/ IsIn(t, x)
<1> DEFINE c == s \o t
           m == Len(s)
           n == Len(t)
<1>1. /\ c \in Seq(S) /\ Len(c) = m + n /\ m \in Nat /\ n \in Nat
      /\ DOMAIN s = 1..m /\ DOMAIN t = 1..n /\ DOMAIN c = 1..(m + n)
      /\ \A i \in 1..(m + n) : c[i] = IF i <= m THEN s[i] ELSE t[i - m]
  <2>1. c \in Seq(S) /\ Len(c) = m + n /\ m \in Nat /\ n \in Nat
    BY ConcatProperties, LenProperties
  <2>2. \A i \in 1..(m + n) : c[i] = IF i <= m THEN s[i] ELSE t[i - m]
    BY ConcatProperties
  <2> HIDE DEF c
  <2> QED
    BY <2>1, <2>2, LenProperties
<1> HIDE DEF c, m, n
<1>2. ASSUME NEW x, IsIn(s, x)
      PROVE  IsIn(c, x)
  <2>1. PICK i \in 1..m : s[i] = x
    BY <1>1, <1>2 DEF IsIn
  <2>2. i \in 1..(m + n) /\ i <= m
    BY <1>1
  <2> QED
    BY <1>1, <2>1, <2>2 DEF IsIn
<1>3. ASSUME NEW x, IsIn(t, x)
      PROVE  IsIn(c, x)
  <2>1. PICK i \in 1..n : t[i] = x
    BY <1>1, <1>3 DEF IsIn
  <2>2. m + i \in 1..(m + n) /\ ~(m + i <= m) /\ (m + i) - m = i
    BY <1>1
  <2> QED
    BY <1>1, <2>1, <2>2 DEF IsIn
<1>4. ASSUME NEW x, IsIn(c, x)
      PROVE  IsIn(s, x) \/ IsIn(t, x)
  <2>1. PICK i \in 1..(m + n) : c[i] = x
    BY <1>1, <1>4 DEF IsIn
  <2>2. CASE i <= m
    <3>1. i \in 1..m
      BY <1>1, <2>2
    <3> QED
      BY <1>1, <2>1, <2>2, <3>1 DEF IsIn
  <2>3. CASE ~(i <= m)
    <3>1. i - m \in 1..n
      BY <1>1, <2>3
    <3> QED
      BY <1>1, <2>1, <2>3, <3>1 DEF IsIn
  <2> QED
    BY <2>2, <2>3
<1> QED
  BY <1>1, <1>2, <1>3, <1>4 DEF c

\* What a sequence has after its first.
LEMMA TailHas ==
  ASSUME NEW S, NEW s \in Seq(S), s # <<>>
  PROVE  /\ Tail(s) \in Seq(S) /\ Head(s) \in S
         /\ \A x : IsIn(s, x) <=> x = Head(s) \/ IsIn(Tail(s), x)
<1> DEFINE n == Len(s)
           t == Tail(s)
<1>1. /\ Head(s) = s[1] /\ s[1] \in S /\ t \in Seq(S) /\ n \in Nat \ {0}
      /\ DOMAIN s = 1..n /\ DOMAIN t = 1..(n - 1)
      /\ \A i \in 1..(n - 1) : t[i] = s[i + 1]
  BY TailOf
<1> HIDE DEF n, t
<1>2. ASSUME NEW x, IsIn(t, x)
      PROVE  IsIn(s, x)
  <2>1. PICK i \in 1..(n - 1) : t[i] = x
    BY <1>1, <1>2 DEF IsIn
  <2>2. i + 1 \in 1..n
    BY <1>1
  <2> QED
    BY <1>1, <2>1, <2>2 DEF IsIn
<1>3. ASSUME NEW x, IsIn(s, x)
      PROVE  x = s[1] \/ IsIn(t, x)
  <2>1. PICK i \in 1..n : s[i] = x
    BY <1>1, <1>3 DEF IsIn
  <2>2. CASE i = 1
    BY <2>1, <2>2
  <2>3. CASE i # 1
    <3>1. i - 1 \in 1..(n - 1) /\ (i - 1) + 1 = i
      BY <1>1, <2>3
    <3> QED
      BY <1>1, <2>1, <3>1 DEF IsIn
  <2> QED
    BY <2>2, <2>3
<1>4. IsIn(s, s[1])
  <2>1. 1 \in 1..n
    BY <1>1
  <2> QED
    BY <1>1, <2>1 DEF IsIn
<1> QED
  BY <1>1, <1>2, <1>3, <1>4 DEF t

\* What a power profile sets.
ProfileSteps(prof) ==
  {K!Set("epp", c, K!EppOf(prof)) : c \in KernelCpu}
    \cup {K!Set("epb", c, K!EpbOf(prof)) : c \in KernelCpu}
    \cup {K!Firmware("platform", K!PlatformOf(prof)), K!Op("slice", K!SliceOf(prof))}

\* A profile is applied to every CPU, to the platform and to the scheduler.
LEMMA ProfileHas ==
  ASSUME NEW prof
  PROVE  /\ K!Profile(prof) \in Seq(KernelStep)
         /\ \A x : IsIn(K!Profile(prof), x) <=> x \in ProfileSteps(prof)
<1> DEFINE q == K!SetToSeq(KernelCpu)
           a == [i \in DOMAIN q |-> K!Set("epp", q[i], K!EppOf(prof))]
           b == [i \in DOMAIN q |-> K!Set("epb", q[i], K!EpbOf(prof))]
           c == <<K!Firmware("platform", K!PlatformOf(prof)), K!Op("slice", K!SliceOf(prof))>>
<1>1. K!Profile(prof) = a \o b \o c
  BY DEF K!Profile
<1>2. /\ q \in Seq(KernelCpu) /\ Len(q) \in Nat
      /\ \A x \in KernelCpu : \E i \in 1..Len(q) : q[i] = x
  <2>1. q = Z!SetToSeq(KernelCpu)
    BY DEF K!SetToSeq, Z!SetToSeq, K!Cardinality, Z!Cardinality, K!IsInjective, Z!IsInjective
  <2> HIDE DEF q
  <2> QED
    BY <2>1, KernelAssumption, AllListed
<1> HIDE DEF q
<1>3. DOMAIN q = 1..Len(q) /\ \A i \in DOMAIN q : q[i] \in KernelCpu
  BY <1>2, LenProperties, ElementOfSeq
<1>4. /\ K!EppOf(prof) \in KernelValue /\ K!EpbOf(prof) \in KernelValue
      /\ K!PlatformOf(prof) \in KernelValue /\ K!SliceOf(prof) \in {2, 3}
  BY DEF K!EppOf, K!EpbOf, K!PlatformOf, K!SliceOf, KernelValue
<1>5. /\ \A x \in KernelCpu : K!Set("epp", x, K!EppOf(prof)) \in KernelStep
      /\ \A x \in KernelCpu : K!Set("epb", x, K!EpbOf(prof)) \in KernelStep
      /\ K!Firmware("platform", K!PlatformOf(prof)) \in KernelStep
      /\ K!Op("slice", K!SliceOf(prof)) \in KernelStep
  BY <1>4 DEF K!Set, K!Firmware, K!Op, KernelStep
<1>6. /\ a \in Seq(KernelStep)
      /\ \A x : IsIn(a, x) <=> x \in {K!Set("epp", d, K!EppOf(prof)) : d \in KernelCpu}
  <2>1. a \in [1..Len(q) -> KernelStep]
    BY <1>3, <1>5
  <2>2. a \in Seq(KernelStep)
    BY <1>2, <2>1, SeqDef
  <2> QED
    BY <1>2, <1>3, <2>2 DEF IsIn
<1>7. /\ b \in Seq(KernelStep)
      /\ \A x : IsIn(b, x) <=> x \in {K!Set("epb", d, K!EpbOf(prof)) : d \in KernelCpu}
  <2>1. b \in [1..Len(q) -> KernelStep]
    BY <1>3, <1>5
  <2>2. b \in Seq(KernelStep)
    BY <1>2, <2>1, SeqDef
  <2> QED
    BY <1>2, <1>3, <2>2 DEF IsIn
<1>8. /\ c \in Seq(KernelStep)
      /\ \A x : IsIn(c, x)
           <=> x \in {K!Firmware("platform", K!PlatformOf(prof)), K!Op("slice", K!SliceOf(prof))}
  <2> DEFINE f == K!Firmware("platform", K!PlatformOf(prof))
             s == K!Op("slice", K!SliceOf(prof))
  <2>1. f \in KernelStep /\ s \in KernelStep
    BY <1>5
  <2> HIDE DEF f, s
  <2>2. /\ <<f, s>> \in Seq(KernelStep) /\ DOMAIN <<f, s>> = {1, 2}
        /\ <<f, s>>[1] = f /\ <<f, s>>[2] = s
    BY <2>1
  <2>3. \A x : IsIn(<<f, s>>, x) <=> x \in {f, s}
    BY <2>2 DEF IsIn
  <2> QED
    BY <2>2, <2>3 DEF f, s
<1> HIDE DEF a, b, c
<1>9. /\ a \o b \in Seq(KernelStep)
      /\ \A x : IsIn(a \o b, x) <=> IsIn(a, x) \/ IsIn(b, x)
  BY <1>6, <1>7, ConcatHas
<1>10. /\ (a \o b) \o c \in Seq(KernelStep)
       /\ \A x : IsIn((a \o b) \o c, x) <=> IsIn(a \o b, x) \/ IsIn(c, x)
  BY <1>8, <1>9, ConcatHas, ZenonT(60)
<1> QED
  BY <1>1, <1>6, <1>7, <1>8, <1>9, <1>10 DEF ProfileSteps

\* Sequences of a few steps.
LEMMA FewSteps ==
  ASSUME NEW S
  PROVE  /\ <<>> \in Seq(S)
         /\ \A a \in S : <<a>> \in Seq(S)
         /\ \A a, b \in S : <<a, b>> \in Seq(S)
         /\ \A a, b, c \in S : <<a, b, c>> \in Seq(S)
OBVIOUS

\* The steps that commands are made of.
LEMMA KernelSteps ==
  /\ \A f \in KernelFile : K!Write(f) \in KernelStep
  /\ \A l \in KernelLoad : K!Load(l) \in KernelStep
  /\ \A n \in {"platform", "conservation", "fn_lock", "gpu"}, v \in KernelValue :
       K!Firmware(n, v) \in KernelStep
  /\ K!Trigger \in KernelStep
  /\ \A op \in {"rule", "source", "config", "unit", "read"},
       arg \in {"udev", "audit", "config", "1", TRUE, FALSE} : K!Op(op, arg) \in KernelStep
  /\ {K!SysctlOrder, K!Tmpfiles, <<"scheduler">>, <<"earlyoom">>} = KernelLoad
BY DEF K!Write, K!Load, K!Firmware, K!Set, K!Trigger, K!Op, KernelStep, KernelLoad, KernelValue

\* The hardware settings and the profile, which steps of other commands start.
LEMMA HardwareHas == K!TuneHardware \in Seq(KernelStep)
<1>1. /\ K!Firmware("conservation", "1") \in KernelStep
      /\ K!Firmware("fn_lock", "1") \in KernelStep
      /\ K!Firmware("gpu", "auto") \in KernelStep
  BY KernelSteps DEF KernelValue
<1> QED
  BY <1>1, FewSteps DEF K!TuneHardware

\* All tuning.
LEMMA TuneAllHas == K!TuneAll \in Seq(KernelStep)
<1> DEFINE w(f) == K!Write(f)
           a == <<w("mglru"), w("thp"), w("memory"), K!Load(K!Tmpfiles), w("scheduler"),
                  w("kernel"), K!Firmware("conservation", "1"), K!Firmware("fn_lock", "1"),
                  K!Op("rule", "udev")>>
           b == <<K!Load(K!SysctlOrder), K!Trigger>>
<1>1. K!TuneAll = K!ConfigureEarlyoom \o a \o K!Profile("ac") \o b
  BY DEF K!TuneAll
<1>2. K!ConfigureEarlyoom \in Seq(KernelStep) /\ b \in Seq(KernelStep)
  <2>1. /\ K!Write("earlyoom") \in KernelStep /\ K!Load(<<"earlyoom">>) \in KernelStep
        /\ K!Load(K!SysctlOrder) \in KernelStep /\ K!Trigger \in KernelStep
    BY KernelSteps DEF KernelFile
  <2> QED
    BY <2>1, FewSteps DEF K!ConfigureEarlyoom
<1>3. a \in Seq(KernelStep)
  <2>1. /\ w("mglru") \in KernelStep /\ w("thp") \in KernelStep /\ w("memory") \in KernelStep
        /\ K!Load(K!Tmpfiles) \in KernelStep
        /\ w("scheduler") \in KernelStep /\ w("kernel") \in KernelStep
        /\ K!Firmware("conservation", "1") \in KernelStep
        /\ K!Firmware("fn_lock", "1") \in KernelStep /\ K!Op("rule", "udev") \in KernelStep
    BY KernelSteps DEF KernelFile, KernelValue
  <2> HIDE DEF w
  <2> QED
    BY <2>1
<1> HIDE DEF a, b
<1>4. K!ConfigureEarlyoom \o a \in Seq(KernelStep)
  BY <1>2, <1>3, ConcatHas
<1>5. (K!ConfigureEarlyoom \o a) \o K!Profile("ac") \in Seq(KernelStep)
  BY <1>4, ProfileHas, ConcatHas
<1>6. ((K!ConfigureEarlyoom \o a) \o K!Profile("ac")) \o b \in Seq(KernelStep)
  BY <1>2, <1>5, ConcatHas
<1> QED
  BY <1>1, <1>6

\* Every command is a sequence of such steps.
LEMMA ProgramHas ==
  ASSUME NEW c \in DOMAIN K!Program
  PROVE  K!Program[c] \in Seq(KernelStep)
<1> DEFINE Is(t) == t \in Seq(KernelStep)
<1>1. /\ \A f \in KernelFile : K!Write(f) \in KernelStep
      /\ K!Load(K!SysctlOrder) \in KernelStep /\ K!Load(<<"scheduler">>) \in KernelStep
      /\ K!Load(<<"earlyoom">>) \in KernelStep /\ K!Trigger \in KernelStep
      /\ \A n \in {"platform", "conservation", "fn_lock", "gpu"}, v \in KernelValue :
           K!Firmware(n, v) \in KernelStep
      /\ K!Op("rule", "udev") \in KernelStep /\ K!Op("source", "audit") \in KernelStep
      /\ K!Op("config", "1") \in KernelStep /\ K!Op("unit", TRUE) \in KernelStep
      /\ K!Op("unit", FALSE) \in KernelStep /\ K!Op("read", "config") \in KernelStep
  BY KernelSteps
<1>2. /\ Is(K!TuneNetwork) /\ Is(K!TuneSystem) /\ Is(K!TuneKernel) /\ Is(K!TuneScheduler)
      /\ Is(K!ConfigureEarlyoom)
  BY <1>1, FewSteps DEF K!TuneNetwork, K!TuneSystem, K!TuneKernel, K!TuneScheduler,
                        K!ConfigureEarlyoom, KernelFile
<1>3. /\ Is(K!TuneGpu) /\ Is(K!TunePower) /\ Is(K!Revert)
      /\ Is(K!EnablePersistence) /\ Is(K!DisablePersistence)
  BY <1>1, FewSteps DEF K!TuneGpu, K!TunePower, K!Revert, K!EnablePersistence,
                        K!DisablePersistence, KernelValue
<1>4. /\ Is(<<K!Firmware("conservation", "1")>>) /\ Is(<<K!Firmware("conservation", "0")>>)
      /\ Is(<<K!Firmware("platform", "low-power")>>) /\ Is(<<K!Firmware("platform", "performance")>>)
      /\ Is(<<K!Firmware("fn_lock", "0")>>) /\ Is(<<K!Op("read", "config")>>)
  BY <1>1, FewSteps DEF KernelValue
<1>5. Is(K!TuneHardware) /\ Is(K!TuneAll) /\ Is(K!Profile("ac")) /\ Is(K!Profile("battery"))
  BY HardwareHas, TuneAllHas, ProfileHas
<1> HIDE DEF Is
<1>6. \A d \in DOMAIN K!Program : Is(K!Program[d])
  BY <1>2, <1>3, <1>4, <1>5 DEF K!Program
<1> QED
  BY <1>6 DEF Is

KernelType ==
  /\ kernel_plan \in Plans
  /\ kernel_todo \in [K!Runner -> Seq(KernelStep)]
  /\ kernel_conf \subseteq KernelFile
  /\ DOMAIN kernel_kernel = KernelKey
  /\ DOMAIN kernel_sysfs = K!Node
  /\ kernel_ac \in BOOLEAN /\ kernel_rule \in BOOLEAN
  /\ kernel_event \in BOOLEAN /\ kernel_mixed \in BOOLEAN
  /\ kernel_event => kernel_rule

\* A step of p takes the first of what p has to do, and puts others in its place.
LEMMA KernelThen ==
  ASSUME KernelType, NEW p \in K!Runner, NEW steps \in Seq(KernelStep),
         kernel_todo[p] # <<>>, K!Then(p, steps)
  PROVE  /\ kernel_todo' \in [K!Runner -> Seq(KernelStep)]
         /\ \A q \in K!Runner \ {p} : kernel_todo'[q] = kernel_todo[q]
         /\ Head(kernel_todo[p]) \in KernelStep
         /\ steps = <<>> => \A x : IsIn(kernel_todo[p], x)
                                    <=> x = Head(kernel_todo[p]) \/ IsIn(kernel_todo'[p], x)
<1> DEFINE t == kernel_todo[p]
<1>1. t \in Seq(KernelStep) /\ t # <<>>
  BY DEF KernelType
<1>2. /\ Tail(t) \in Seq(KernelStep) /\ Head(t) \in KernelStep
      /\ \A x : IsIn(t, x) <=> x = Head(t) \/ IsIn(Tail(t), x)
  BY <1>1, TailHas
<1>3. steps \o Tail(t) \in Seq(KernelStep) /\ (steps = <<>> => steps \o Tail(t) = Tail(t))
  BY <1>2, ConcatHas, ConcatEmptySeq
<1>4. kernel_todo' = [kernel_todo EXCEPT ![p] = steps \o Tail(t)]
  BY DEF K!Then
<1>5. kernel_todo'[p] = steps \o Tail(t)
  BY <1>4 DEF KernelType
<1> QED
  BY <1>2, <1>3, <1>4, <1>5 DEF KernelType

\* They hold at first.
LEMMA KernelInitially == K!Init => KernelType
<1> SUFFICES ASSUME K!Init PROVE KernelType
  OBVIOUS
<1>1. kernel_todo \in [K!Runner -> Seq(KernelStep)]
  BY FewSteps DEF K!Init
<1>2. DOMAIN kernel_kernel = KernelKey /\ DOMAIN kernel_sysfs = K!Node
  BY DEF K!Init, K!Default, K!DefaultSysfs, KernelKey
<1> QED
  BY <1>1, <1>2 DEF K!Init, KernelType

\* The steps keep the types.
LEMMA KernelTypeStep == KernelType /\ [K!Next]_kernelVars => KernelType'
<1> SUFFICES ASSUME KernelType, [K!Next]_kernelVars PROVE KernelType'
  OBVIOUS
<1>1. CASE UNCHANGED kernelVars
  BY <1>1 DEF KernelType, kernelVars
<1>2. CASE K!Plug
  BY <1>2 DEF KernelType, K!Plug
<1>3. CASE K!MatchRule
  <2>1. K!Profile(K!RuleProfile(kernel_ac)) \in Seq(KernelStep)
    BY ProfileHas
  <2> QED
    BY <1>3, <2>1 DEF KernelType, K!MatchRule
<1>4. CASE K!Reboot
  <2>1. kernel_todo' \in [K!Runner -> Seq(KernelStep)]
    BY <1>4, HardwareHas, FewSteps DEF K!Reboot
  <2>2. DOMAIN kernel_kernel' = KernelKey /\ DOMAIN kernel_sysfs' = K!Node
    BY <1>4, ZenonT(60) DEF K!Reboot, K!Boot, K!Overlay, K!Default, K!DefaultSysfs, KernelKey
  <2> QED
    BY <1>4, <2>1, <2>2 DEF KernelType, K!Reboot
<1>5. ASSUME NEW p \in Process, K!Start(p)
      PROVE  KernelType'
  <2>1. PICK c \in kernel_plan[p] : kernel_todo' = [kernel_todo EXCEPT ![p] = K!Program[c]]
    BY <1>5 DEF K!Start
  <2>2. c \in DOMAIN K!Program
    BY <2>1, PlanAssumption DEF KernelType
  <2> QED
    BY <1>5, <2>1, <2>2, ProgramHas DEF KernelType, K!Start
<1>6. ASSUME NEW p \in K!Runner, K!Step(p)
      PROVE  KernelType'
  <2>1. /\ kernel_todo' \in [K!Runner -> Seq(KernelStep)]
        /\ Head(kernel_todo[p]) \in KernelStep
    <3>1. K!Profile(K!AuditPower.power_source) \in Seq(KernelStep)
      BY ProfileHas
    <3>2. (IF kernel_persist.config THEN K!TuneHardware ELSE <<>>) \in Seq(KernelStep)
      BY HardwareHas, FewSteps
    <3>3. CASE K!Abort(p)
      BY <3>3, TailHas, FewSteps DEF K!Abort, KernelType
    <3>4. CASE ~K!Abort(p)
      <4>1. PICK steps \in Seq(KernelStep) : K!Then(p, steps)
        BY <1>6, <3>1, <3>2, <3>4, FewSteps
           DEF K!Step, K!WriteFile, K!LoadFiles, K!SetNode, K!SetSlice, K!WriteRule,
               K!TriggerEvents, K!ReadSource, K!WriteConfig, K!SetUnit, K!ReadConfig, K!Lost
      <4>2. kernel_todo[p] # <<>>
        BY <1>6, <3>4
           DEF K!Step, K!WriteFile, K!LoadFiles, K!SetNode, K!SetSlice, K!WriteRule,
               K!TriggerEvents, K!ReadSource, K!WriteConfig, K!SetUnit, K!ReadConfig, K!Lost,
               K!Before
      <4> QED
        BY <4>1, <4>2, KernelThen
    <3> QED
      BY <3>3, <3>4
  <2>2. CASE K!WriteFile(p)
    <3>1. Head(kernel_todo[p]).arg \in KernelFile
      BY <2>1, <2>2 DEF K!WriteFile, K!Before, KernelStep
    <3> QED
      BY <2>1, <2>2, <3>1 DEF KernelType, K!WriteFile
  <2>3. CASE K!LoadFiles(p)
    BY <2>1, <2>3 DEF KernelType, K!LoadFiles, K!Overlay
  <2>4. CASE K!SetNode(p)
    BY <2>1, <2>4 DEF KernelType, K!SetNode
  <2>5. CASE K!SetSlice(p)
    BY <2>1, <2>5 DEF KernelType, K!SetSlice
  <2>6. CASE K!WriteRule(p) \/ K!TriggerEvents(p)
    <3>1. CASE K!WriteRule(p)
      <4>1. kernel_rule' \in BOOLEAN /\ kernel_event' \in BOOLEAN /\ (kernel_event' => kernel_rule')
        BY <3>1 DEF KernelType, K!WriteRule
      <4> QED
        BY <2>1, <3>1, <4>1 DEF KernelType, K!WriteRule
    <3>2. CASE K!TriggerEvents(p)
      <4>1. kernel_rule' \in BOOLEAN /\ kernel_event' \in BOOLEAN /\ (kernel_event' => kernel_rule')
        BY <3>2 DEF KernelType, K!TriggerEvents
      <4> QED
        BY <2>1, <3>2, <4>1 DEF KernelType, K!TriggerEvents
    <3> QED
      BY <2>6, <3>1, <3>2
  <2>7. CASE K!ReadSource(p) \/ K!WriteConfig(p) \/ K!SetUnit(p) \/ K!ReadConfig(p)
    BY <2>1, <2>7 DEF KernelType, K!ReadSource, K!WriteConfig, K!SetUnit, K!ReadConfig
  <2>8. CASE K!Lost(p) \/ K!Abort(p)
    <3>1. kernel_mixed' \in BOOLEAN
      BY <2>8 DEF K!Lost, K!Abort
    <3> QED
      BY <2>1, <2>8, <3>1 DEF KernelType, K!Lost, K!Abort
  <2> QED
    BY <1>6, <2>2, <2>3, <2>4, <2>5, <2>6, <2>7, <2>8 DEF K!Step
<1> QED
  BY <1>1, <1>2, <1>3, <1>4, <1>5, <1>6 DEF K!Next

-----------------------------------------------------------------------------
(* KernelTuning: what is loaded is what a boot loads *)

\* It stays so when no file, value or load of the kernel's changes.
LEMMA KernelAlike ==
  ASSUME K!KernelIsBoot, UNCHANGED <<kernel_conf, kernel_unloaded>>,
         \A k \in KernelKey \ {"base_slice"} : kernel_kernel'[k] = kernel_kernel[k]
  PROVE  K!KernelIsBoot'
<1>1. K!Boot' = K!Boot /\ \A k : K!Setting(k)' = K!Setting(k)
  BY DEF K!Boot, K!Overlay, K!Setting
<1>2. DOMAIN K!Default = KernelKey
  BY DEF K!Default, KernelKey
<1> QED
  BY <1>1, <1>2 DEF K!KernelIsBoot

\* A file that is written awaits its load, and no other value is its.
LEMMA KernelWritten ==
  ASSUME KernelType, K!KernelIsBoot, NEW p \in K!Runner, K!WriteFile(p)
  PROVE  K!KernelIsBoot'
<1> DEFINE f == Head(kernel_todo[p]).arg
<1>1. /\ kernel_conf' = kernel_conf \cup {f} /\ kernel_unloaded' = kernel_unloaded \cup {f}
      /\ kernel_kernel' = kernel_kernel
  BY DEF K!WriteFile
<1>2. DOMAIN K!Default = KernelKey
  BY DEF K!Default, KernelKey
<1> HIDE DEF f
<1>3. ASSUME NEW k \in KernelKey \ {"base_slice"},
             K!Setting(k)' # {}, K!Setting(k)' \cap kernel_unloaded' = {}
      PROVE  kernel_kernel'[k] = K!Boot'[k]
  <2>1. ~KernelSets(f, k)
    BY <1>1, <1>3 DEF K!Setting, KernelSets
  <2>2. K!Setting(k)' = K!Setting(k)
    BY <1>1, <2>1 DEF K!Setting, KernelSets
  <2>3. kernel_kernel[k] = K!Boot[k]
    BY <1>1, <1>2, <1>3, <2>2 DEF K!KernelIsBoot
  <2>4. \A i \in DOMAIN K!LoadOrder :
          K!LoadOrder[i] \in kernel_conf' /\ k \in DOMAIN K!Content[K!LoadOrder[i]]
            <=> K!LoadOrder[i] \in kernel_conf /\ k \in DOMAIN K!Content[K!LoadOrder[i]]
    BY <1>1, <2>1 DEF KernelSets
  <2>5. K!Boot'[k] = K!Boot[k]
    <3> DEFINE S == {i \in DOMAIN K!LoadOrder : K!LoadOrder[i] \in kernel_conf
                                                /\ k \in DOMAIN K!Content[K!LoadOrder[i]]}
               T == {i \in DOMAIN K!LoadOrder : K!LoadOrder[i] \in kernel_conf'
                                                /\ k \in DOMAIN K!Content[K!LoadOrder[i]]}
    <3>1. S = T
      BY <2>4
    <3>2. K!Boot[k] = IF S = {} THEN K!Default[k] ELSE K!Content[K!LoadOrder[K!Max(S)]][k]
      BY <1>2 DEF K!Boot, K!Overlay
    <3>3. K!Boot'[k] = IF T = {} THEN K!Default[k] ELSE K!Content[K!LoadOrder[K!Max(T)]][k]
      BY <1>2 DEF K!Boot, K!Overlay
    <3> HIDE DEF S, T
    <3> QED
      BY <3>1, <3>2, <3>3
  <2> QED
    BY <1>1, <2>3, <2>5
<1> QED
  BY <1>2, <1>3 DEF K!KernelIsBoot

\* A load leaves no value half way.
LEMMA KernelLoaded ==
  ASSUME KernelType, K!KernelIsBoot, NEW p \in K!Runner, K!LoadFiles(p)
  PROVE  K!KernelIsBoot'
<1> DEFINE files == Head(kernel_todo[p]).arg
<1>1. /\ kernel_kernel' = K!Overlay(kernel_kernel, files)
      /\ kernel_unloaded' = kernel_unloaded \ K!Range(files)
      /\ kernel_conf' = kernel_conf
  BY DEF K!LoadFiles
<1>2. files \in KernelLoad
  <2>1. Head(kernel_todo[p]) \in KernelStep /\ Head(kernel_todo[p]).op = "load"
    BY TailHas DEF K!LoadFiles, K!Before, KernelType
  <2> QED
    BY <2>1 DEF KernelStep
<1> HIDE DEF files
<1>3. DOMAIN K!Default = KernelKey
  BY DEF K!Default, KernelKey
<1>4. K!Boot' = K!Boot /\ \A k : K!Setting(k)' = K!Setting(k)
  BY <1>1 DEF K!Boot, K!Overlay, K!Setting
<1>5. ASSUME NEW k \in KernelKey \ {"base_slice"},
             K!Setting(k) # {}, K!Setting(k) \cap kernel_unloaded' = {}
      PROVE  kernel_kernel'[k] = K!Boot[k]
  <2>1. k \in DOMAIN kernel_kernel /\ kernel_conf \subseteq KernelFile
    BY DEF KernelType
  <2>2. K!Setting(k) = {f \in kernel_conf : KernelSets(f, k)}
    BY DEF K!Setting, KernelSets
  <2>3. CASE \A f \in KernelFile : KernelSets(f, k) => \E i \in DOMAIN files : files[i] = f
    <3>1. \A f \in K!Setting(k) : \E i \in DOMAIN files : files[i] = f
      BY <2>1, <2>2, <2>3
    <3> QED
      BY <1>1, <1>2, <1>5, <2>1, <3>1, KernelWhole
  <2>4. CASE \A i \in DOMAIN files : ~KernelSets(files[i], k)
    <3>1. kernel_kernel'[k] = kernel_kernel[k]
      BY <1>1, <1>2, <2>1, <2>4, KernelOverlay
    <3>2. \A f \in K!Setting(k) : f \notin K!Range(files)
      BY <2>2, <2>4 DEF K!Range
    <3>3. K!Setting(k) \cap kernel_unloaded = {}
      BY <1>1, <1>5, <3>2
    <3> QED
      BY <1>3, <1>5, <3>1, <3>3 DEF K!KernelIsBoot
  <2> QED
    BY <1>2, <2>3, <2>4, KernelTogether
<1> QED
  BY <1>3, <1>4, <1>5 DEF K!KernelIsBoot

\* No step makes a loaded value another than the next boot's.
LEMMA KernelIsBootStep ==
  KernelType /\ K!KernelIsBoot /\ [K!Next]_kernelVars => K!KernelIsBoot'
<1> SUFFICES ASSUME KernelType, K!KernelIsBoot, [K!Next]_kernelVars
             PROVE  K!KernelIsBoot'
  OBVIOUS
<1>1. CASE UNCHANGED kernelVars
  BY <1>1, KernelAlike DEF kernelVars
<1>2. CASE K!Plug \/ K!MatchRule
  BY <1>2, KernelAlike DEF K!Plug, K!MatchRule
<1>3. CASE K!Reboot
  <2>1. K!Boot' = K!Boot /\ kernel_kernel' = K!Boot
    BY <1>3 DEF K!Reboot, K!Boot, K!Overlay
  <2> QED
    BY <2>1 DEF K!KernelIsBoot
<1>4. ASSUME NEW p \in Process, K!Start(p)
      PROVE  K!KernelIsBoot'
  BY <1>4, KernelAlike DEF K!Start
<1>5. ASSUME NEW p \in K!Runner, K!Step(p)
      PROVE  K!KernelIsBoot'
  <2>1. CASE K!WriteFile(p)
    BY <2>1, KernelWritten
  <2>2. CASE K!LoadFiles(p)
    BY <2>2, KernelLoaded
  <2>3. CASE K!SetSlice(p)
    BY <2>3, KernelAlike DEF K!SetSlice, KernelType
  <2>4. CASE UNCHANGED <<kernel_conf, kernel_unloaded, kernel_kernel>>
    BY <2>4, KernelAlike
  <2> QED
    BY <1>5, <2>1, <2>2, <2>3, <2>4
       DEF K!Step, K!SetNode, K!WriteRule, K!TriggerEvents, K!ReadSource, K!WriteConfig,
           K!SetUnit, K!ReadConfig, K!Lost, K!Abort
<1> QED
  BY <1>1, <1>2, <1>3, <1>4, <1>5 DEF K!Next

\* For any commands in any order, with any of their steps lost: a value whose
\* files are loaded is the one that the next boot loads (commands/tune.py).
THEOREM LoadedIsBoot == HostSpec => []KernelIsBoot
<1> DEFINE I == which = "kernel" => KernelType /\ K!KernelIsBoot
<1>1. HostInit => I
  <2> SUFFICES ASSUME HostInit, which = "kernel" PROVE KernelType /\ K!KernelIsBoot
    OBVIOUS
  <2>1. K!Init
    BY DEF HostInit
  <2> QED
    BY <2>1, KernelInitially DEF K!Init, K!KernelIsBoot, K!Setting
<1>2. I /\ [HostNext]_all => I'
  BY OneComponent, KernelTypeStep, KernelIsBootStep
<1>3. I => KernelIsBoot
  BY DEF KernelIsBoot
<1> QED
  BY <1>1, <1>2, <1>3, PTL DEF HostSpec

-----------------------------------------------------------------------------
(* KernelTuning: the power profile settles *)

Src == IF kernel_ac THEN "ac" ELSE "battery"

\* What udev has left to do, t, and what is set already make the profile of src.
Settles(t, sysfs, values, files, src) ==
  /\ \A x : IsIn(t, x) => x \in ProfileSteps(src)
  /\ \A c \in KernelCpu :
       /\ IsIn(t, K!Set("epp", c, K!EppOf(src))) \/ sysfs[<<"epp", c>>] = K!EppOf(src)
       /\ IsIn(t, K!Set("epb", c, K!EpbOf(src))) \/ sysfs[<<"epb", c>>] = K!EpbOf(src)
  /\ \/ IsIn(t, K!Firmware("platform", K!PlatformOf(src)))
     \/ K!PlatformOf(src) \notin PlatformChoices
     \/ sysfs[<<"platform", "acpi">>] = K!PlatformOf(src)
  /\ \/ IsIn(t, K!Op("slice", K!SliceOf(src)))
     \/ "scheduler" \in files
     \/ values.base_slice = K!SliceOf(src)

\* As long as nobody else touches the profile that udev has begun, an event that
\* it has not seen is pending or the profile settles on the source.
Settling ==
  ~kernel_mixed =>
    /\ kernel_rule
    /\ ~kernel_event =>
         Settles(kernel_todo["udev"], kernel_sysfs, kernel_kernel, kernel_conf, Src)

\* It settles when the last step is done.
LEMMA Settled == Settling => K!SettlesOnSource
<1> SUFFICES ASSUME Settling, ~kernel_mixed, ~kernel_event, kernel_todo["udev"] = <<>>
             PROVE  /\ \A c \in KernelCpu : /\ kernel_sysfs[<<"epp", c>>] = K!EppOf(Src)
                                            /\ kernel_sysfs[<<"epb", c>>] = K!EpbOf(Src)
                    /\ K!PlatformOf(Src) \in PlatformChoices
                         => kernel_sysfs[<<"platform", "acpi">>] = K!PlatformOf(Src)
                    /\ "scheduler" \notin kernel_conf
                         => kernel_kernel.base_slice = K!SliceOf(Src)
  <2>1. /\ K!Telemetry.profile = Src
        /\ K!Telemetry.power.platform_profile = kernel_sysfs[<<"platform", "acpi">>]
        /\ K!Telemetry.scheduler.base_slice_ns = kernel_kernel.base_slice
    BY DEF K!Telemetry, K!AuditPower, K!AuditScheduler, Src
  <2> QED
    BY <2>1 DEF K!SettlesOnSource
<1>1. \A x : ~IsIn(<<>>, x)
  BY DEF IsIn
<1> QED
  BY <1>1 DEF Settling, Settles

\* Nothing that is not a profile's step disturbs it.
LEMMA SettlesAlike ==
  ASSUME Settling, ~kernel_mixed' => ~kernel_mixed, kernel_rule => kernel_rule',
         kernel_rule /\ ~kernel_event' => kernel_ac' = kernel_ac /\ ~kernel_event,
         kernel_todo'["udev"] = kernel_todo["udev"],
         \A c \in KernelCpu :
           /\ kernel_sysfs'[<<"epp", c>>] = kernel_sysfs[<<"epp", c>>]
           /\ kernel_sysfs'[<<"epb", c>>] = kernel_sysfs[<<"epb", c>>],
         kernel_sysfs'[<<"platform", "acpi">>] = kernel_sysfs[<<"platform", "acpi">>],
         kernel_conf \subseteq kernel_conf',
         "scheduler" \notin kernel_conf => kernel_kernel'.base_slice = kernel_kernel.base_slice
  PROVE  Settling'
<1> SUFFICES ASSUME ~kernel_mixed', ~kernel_event', kernel_rule
             PROVE  Settles(kernel_todo'["udev"], kernel_sysfs', kernel_kernel', kernel_conf', Src')
  BY DEF Settling
<1>1. Settles(kernel_todo["udev"], kernel_sysfs, kernel_kernel, kernel_conf, Src) /\ Src' = Src
  BY DEF Settling, Src
<1> QED
  BY <1>1 DEF Settles

\* The fields of the steps of a profile.
LEMMA ProfileFields ==
  /\ \A n, of, v : /\ K!Set(n, of, v).op = "set"
                  /\ K!Set(n, of, v).arg.node = <<n, of>>
                  /\ K!Set(n, of, v).arg.value = v
  /\ \A n, v : K!Firmware(n, v) = K!Set(n, "acpi", v)
  /\ \A v : K!Op("slice", v).op = "slice" /\ K!Op("slice", v).arg = v
BY DEF K!Set, K!Firmware, K!Op

\* What tee makes of a node.
NodeSet(a, sysfs, sysfs2) ==
  sysfs2 = IF a.node[1] = "platform" /\ a.value \notin PlatformChoices THEN sysfs
           ELSE [sysfs EXCEPT ![a.node] = a.value]

\* udev sets a node: its step is done, and the others' are as they were.
LEMMA SettlesNode ==
  ASSUME NEW t, NEW u, NEW x, NEW sysfs, NEW sysfs2, NEW values, NEW files, NEW src,
         Settles(t, sysfs, values, files, src), DOMAIN sysfs = K!Node,
         \A y : IsIn(t, y) <=> y = x \/ IsIn(u, y),
         x.op = "set", NodeSet(x.arg, sysfs, sysfs2)
  PROVE  Settles(u, sysfs2, values, files, src)
<1>1. x \in ProfileSteps(src)
  BY DEF Settles
<1>2. PICK n \in {"epp", "epb", "platform"}, of \in KernelCpu \cup {"acpi"},
           v \in {K!EppOf(src), K!EpbOf(src), K!PlatformOf(src)} :
        /\ x = K!Set(n, of, v)
        /\ n = "epp" => of \in KernelCpu /\ v = K!EppOf(src)
        /\ n = "epb" => of \in KernelCpu /\ v = K!EpbOf(src)
        /\ n = "platform" => of = "acpi" /\ v = K!PlatformOf(src)
  BY <1>1, ProfileFields DEF ProfileSteps
<1>3. x.arg.node = <<n, of>> /\ x.arg.value = v /\ x.arg.node[1] = n
  BY <1>2, ProfileFields
<1>4. /\ <<"platform", "acpi">> \in K!Node
      /\ \A c \in KernelCpu : <<"epp", c>> \in K!Node /\ <<"epb", c>> \in K!Node
  BY DEF K!Node
<1>5. \A m \in K!Node :
        sysfs2[m] = IF m = <<n, of>> /\ ~(n = "platform" /\ v \notin PlatformChoices)
                    THEN v ELSE sysfs[m]
  BY <1>3 DEF NodeSet
<1>6. ASSUME NEW c \in KernelCpu
      PROVE  /\ IsIn(u, K!Set("epp", c, K!EppOf(src))) \/ sysfs2[<<"epp", c>>] = K!EppOf(src)
             /\ IsIn(u, K!Set("epb", c, K!EpbOf(src))) \/ sysfs2[<<"epb", c>>] = K!EpbOf(src)
  <2>1. /\ IsIn(t, K!Set("epp", c, K!EppOf(src))) \/ sysfs[<<"epp", c>>] = K!EppOf(src)
        /\ IsIn(t, K!Set("epb", c, K!EpbOf(src))) \/ sysfs[<<"epb", c>>] = K!EpbOf(src)
    BY DEF Settles
  <2>2. x = K!Set("epp", c, K!EppOf(src)) => n = "epp" /\ of = c
    BY <1>3, ProfileFields
  <2>3. x = K!Set("epb", c, K!EpbOf(src)) => n = "epb" /\ of = c
    BY <1>3, ProfileFields
  <2>4. sysfs2[<<"epp", c>>] = IF n = "epp" /\ of = c THEN v ELSE sysfs[<<"epp", c>>]
    BY <1>4, <1>5
  <2>5. sysfs2[<<"epb", c>>] = IF n = "epb" /\ of = c THEN v ELSE sysfs[<<"epb", c>>]
    BY <1>4, <1>5
  <2>6. IsIn(u, K!Set("epp", c, K!EppOf(src))) \/ sysfs2[<<"epp", c>>] = K!EppOf(src)
    BY <1>2, <2>1, <2>2, <2>4
  <2>7. IsIn(u, K!Set("epb", c, K!EpbOf(src))) \/ sysfs2[<<"epb", c>>] = K!EpbOf(src)
    BY <1>2, <2>1, <2>3, <2>5
  <2> QED
    BY <2>6, <2>7
<1>7. \/ IsIn(u, K!Firmware("platform", K!PlatformOf(src)))
      \/ K!PlatformOf(src) \notin PlatformChoices
      \/ sysfs2[<<"platform", "acpi">>] = K!PlatformOf(src)
  <2>1. \/ IsIn(t, K!Firmware("platform", K!PlatformOf(src)))
        \/ K!PlatformOf(src) \notin PlatformChoices
        \/ sysfs[<<"platform", "acpi">>] = K!PlatformOf(src)
    BY DEF Settles
  <2>2. x = K!Firmware("platform", K!PlatformOf(src)) => n = "platform"
    BY <1>3, ProfileFields
  <2>3. n = "platform" /\ K!PlatformOf(src) \in PlatformChoices
          => sysfs2[<<"platform", "acpi">>] = K!PlatformOf(src)
    BY <1>2, <1>4, <1>5
  <2>4. n # "platform" => sysfs2[<<"platform", "acpi">>] = sysfs[<<"platform", "acpi">>]
    BY <1>4, <1>5
  <2> QED
    BY <2>1, <2>2, <2>3, <2>4
<1>8. \/ IsIn(u, K!Op("slice", K!SliceOf(src)))
      \/ "scheduler" \in files
      \/ values.base_slice = K!SliceOf(src)
  BY ProfileFields DEF Settles
<1>9. \A y : IsIn(u, y) => y \in ProfileSteps(src)
  BY DEF Settles
<1> QED
  BY <1>6, <1>7, <1>8, <1>9 DEF Settles

\* udev sets the slice.
LEMMA SettlesSlice ==
  ASSUME NEW t, NEW u, NEW x, NEW sysfs, NEW values, NEW values2, NEW files, NEW src,
         Settles(t, sysfs, values, files, src), "base_slice" \in DOMAIN values,
         \A y : IsIn(t, y) <=> y = x \/ IsIn(u, y),
         x.op = "slice",
         values2 = [values EXCEPT !.base_slice = x.arg]
  PROVE  Settles(u, sysfs, values2, files, src)
<1>1. x \in ProfileSteps(src)
  BY DEF Settles
<1>2. x.arg = K!SliceOf(src)
  BY <1>1, ProfileFields DEF ProfileSteps
<1>3. values2.base_slice = K!SliceOf(src)
  BY <1>2
<1>4. \A n, of, v : x # K!Set(n, of, v) /\ x # K!Firmware(n, v)
  BY ProfileFields
<1>5. \A y : y # x => (IsIn(t, y) <=> IsIn(u, y))
  OBVIOUS
<1>6. \A y : IsIn(u, y) => IsIn(t, y)
  OBVIOUS
<1> QED
  BY <1>3, <1>4, <1>5, <1>6 DEF Settles

\* Only udev's match begins a profile that nobody has mixed.
LEMMA KernelUnmixed ==
  ASSUME NEW p \in K!Runner, K!Step(p), ~kernel_mixed'
  PROVE  /\ ~kernel_mixed /\ ~K!Abort(p) /\ kernel_ac' = kernel_ac
         /\ kernel_rule => kernel_rule'
         /\ p # "udev" => ~K!SetSlice(p)
<1>1. ~K!Abort(p)
  BY DEF K!Abort
<1>2. ~kernel_mixed
  <2>1. CASE K!SetNode(p)
    BY <2>1 DEF K!SetNode
  <2>2. CASE K!SetSlice(p)
    BY <2>2 DEF K!SetSlice
  <2>3. CASE K!Lost(p)
    BY <2>3 DEF K!Lost
  <2>4. CASE kernel_mixed' = kernel_mixed
    BY <2>4
  <2> QED
    BY <1>1, <2>1, <2>2, <2>3, <2>4 DEF K!Step, K!WriteFile, K!LoadFiles, K!WriteRule,
       K!TriggerEvents, K!ReadSource, K!WriteConfig, K!SetUnit, K!ReadConfig
<1>3. p # "udev" => ~K!SetSlice(p)
  BY DEF K!SetSlice
<1>4. kernel_ac' = kernel_ac
  BY <1>1 DEF K!Step, K!WriteFile, K!LoadFiles, K!SetNode, K!SetSlice, K!WriteRule,
     K!TriggerEvents, K!ReadSource, K!WriteConfig, K!SetUnit, K!ReadConfig, K!Lost
<1>5. kernel_rule => kernel_rule'
  <2>1. CASE K!WriteRule(p)
    BY <2>1 DEF K!WriteRule
  <2>2. CASE kernel_rule' = kernel_rule
    BY <2>2
  <2> QED
    BY <1>1, <2>1, <2>2 DEF K!Step, K!WriteFile, K!LoadFiles, K!SetNode, K!SetSlice,
       K!TriggerEvents, K!ReadSource, K!WriteConfig, K!SetUnit, K!ReadConfig, K!Lost
<1> QED
  BY <1>1, <1>2, <1>3, <1>4, <1>5

\* A step of udev brings the profile nearer, or it is mixed.
LEMMA SettlesUdev ==
  ASSUME KernelType, Settling, K!Step("udev")
  PROVE  Settling'
<1> DEFINE t == kernel_todo["udev"]
           u == kernel_todo'["udev"]
           x == Head(t)
<1>1. "udev" \in K!Runner /\ t \in Seq(KernelStep)
  BY DEF K!Runner, KernelType
<1>2. SUFFICES ASSUME ~kernel_mixed'
               PROVE  /\ kernel_rule'
                      /\ ~kernel_event'
                           => Settles(u, kernel_sysfs', kernel_kernel', kernel_conf', Src')
  BY DEF Settling
<1>3. ~kernel_mixed /\ kernel_rule /\ kernel_rule' /\ ~K!Abort("udev") /\ kernel_ac' = kernel_ac
  BY <1>1, <1>2, KernelUnmixed DEF Settling
<1>4. SUFFICES ASSUME ~kernel_event'
               PROVE  Settles(u, kernel_sysfs', kernel_kernel', kernel_conf', Src)
  BY <1>3 DEF Src
<1>5. ~kernel_event
  BY <1>3, <1>4 DEF K!Step, K!WriteFile, K!LoadFiles, K!SetNode, K!SetSlice, K!WriteRule,
     K!TriggerEvents, K!ReadSource, K!WriteConfig, K!SetUnit, K!ReadConfig, K!Lost
<1>6. Settles(t, kernel_sysfs, kernel_kernel, kernel_conf, Src)
  BY <1>3, <1>5 DEF Settling
<1>7. t # <<>>
  BY <1>3 DEF K!Step, K!WriteFile, K!LoadFiles, K!SetNode, K!SetSlice, K!WriteRule,
     K!TriggerEvents, K!ReadSource, K!WriteConfig, K!SetUnit, K!ReadConfig, K!Lost, K!Before
<1>8. x \in ProfileSteps(Src)
  <2>1. IsIn(t, x)
    BY <1>1, <1>7, TailHas
  <2> QED
    BY <1>6, <2>1 DEF Settles
<1>9. \/ x.op = "slice"
      \/ x.op = "set" /\ x.arg.node[1] \in {"epp", "epb", "platform"}
  BY <1>8, ProfileFields DEF ProfileSteps
<1>10. K!SetNode("udev") \/ K!SetSlice("udev")
  <2>1. K!Mixes("udev")
    BY <1>9 DEF K!Mixes
  <2>2. ~K!Lost("udev")
    BY <1>2, <2>1 DEF K!Lost
  <2> QED
    BY <1>3, <1>9, <2>2 DEF K!Step, K!WriteFile, K!LoadFiles, K!WriteRule, K!TriggerEvents,
       K!ReadSource, K!WriteConfig, K!SetUnit, K!ReadConfig, K!Before
<1>11. \A y : IsIn(t, y) <=> y = x \/ IsIn(u, y)
  <2>1. K!Then("udev", <<>>)
    BY <1>10 DEF K!SetNode, K!SetSlice
  <2> QED
    BY <1>1, <1>7, <2>1, KernelThen, FewSteps
<1>12. CASE K!SetNode("udev")
  <2>1. /\ x.op = "set" /\ kernel_kernel' = kernel_kernel /\ kernel_conf' = kernel_conf
        /\ NodeSet(x.arg, kernel_sysfs, kernel_sysfs')
    BY <1>12 DEF K!SetNode, K!Before, NodeSet
  <2>2. DOMAIN kernel_sysfs = K!Node
    BY DEF KernelType
  <2> HIDE DEF t, u, x
  <2>3. Settles(u, kernel_sysfs', kernel_kernel, kernel_conf, Src)
    BY <1>6, <1>11, <2>1, <2>2, SettlesNode
  <2> QED
    BY <2>1, <2>3
<1>13. CASE K!SetSlice("udev")
  <2>1. /\ x.op = "slice" /\ kernel_sysfs' = kernel_sysfs /\ kernel_conf' = kernel_conf
        /\ kernel_kernel' = [kernel_kernel EXCEPT !.base_slice = x.arg]
    BY <1>13 DEF K!SetSlice, K!Before
  <2>2. "base_slice" \in DOMAIN kernel_kernel
    BY DEF KernelType, KernelKey
  <2> HIDE DEF t, u, x
  <2> QED
    BY <1>6, <1>11, <2>1, <2>2, SettlesSlice
<1> QED
  BY <1>10, <1>12, <1>13

\* A load leaves the slice, unless a file sets it.
LEMMA SliceLoaded ==
  ASSUME KernelType, NEW p \in K!Runner, K!LoadFiles(p), "scheduler" \notin kernel_conf
  PROVE  kernel_kernel'.base_slice = kernel_kernel.base_slice
<1> DEFINE files == Head(kernel_todo[p]).arg
<1>1. kernel_kernel' = K!Overlay(kernel_kernel, files)
  BY DEF K!LoadFiles
<1>2. files \in KernelLoad
  <2>1. Head(kernel_todo[p]) \in KernelStep /\ Head(kernel_todo[p]).op = "load"
    BY TailHas DEF K!LoadFiles, K!Before, KernelType
  <2> QED
    BY <2>1 DEF KernelStep
<1> HIDE DEF files
<1>3. \A f \in KernelFile : KernelSets(f, "base_slice") => f = "scheduler"
  BY KernelContent DEF KernelFile, KernelSets
<1>4. \A i \in DOMAIN files : ~(files[i] \in kernel_conf /\ KernelSets(files[i], "base_slice"))
  BY <1>2, <1>3, KernelOrdered
<1>5. "base_slice" \in DOMAIN kernel_kernel
  BY DEF KernelType, KernelKey
<1> QED
  BY <1>1, <1>2, <1>4, <1>5, KernelOverlay

\* The steps of the others touch the profile and mix it, or leave it.
LEMMA SettlesOther ==
  ASSUME KernelType, Settling, NEW p \in K!Runner \ {"udev"}, K!Step(p)
  PROVE  Settling'
<1>1. CASE kernel_mixed'
  BY <1>1 DEF Settling
<1>2. CASE ~kernel_mixed'
  <2>1. ~K!Abort(p) /\ ~K!SetSlice(p) /\ ~kernel_mixed
    BY <1>2, KernelUnmixed
  <2>2. kernel_todo'["udev"] = kernel_todo["udev"]
    <3>1. PICK s : kernel_todo' = [kernel_todo EXCEPT ![p] = s]
      BY <2>1 DEF K!Step, K!WriteFile, K!LoadFiles, K!SetNode, K!WriteRule, K!TriggerEvents,
         K!ReadSource, K!WriteConfig, K!SetUnit, K!ReadConfig, K!Lost, K!Then
    <3> QED
      BY <3>1 DEF KernelType, K!Runner
  <2>3. CASE K!SetNode(p)
    <3> DEFINE a == Head(kernel_todo[p]).arg
    <3>1. /\ Head(kernel_todo[p]).op = "set" /\ ~K!Mixes(p)
          /\ kernel_sysfs' = IF a.node[1] = "platform" /\ a.value \notin PlatformChoices
                             THEN kernel_sysfs ELSE [kernel_sysfs EXCEPT ![a.node] = a.value]
      BY <1>2, <2>3 DEF K!SetNode, K!Before
    <3>2. a.node[1] \notin {"epp", "epb", "platform"}
      BY <3>1 DEF K!Mixes
    <3>3. \A m : m[1] \in {"epp", "epb", "platform"} => kernel_sysfs'[m] = kernel_sysfs[m]
      BY <3>1, <3>2
    <3>4. \A c : /\ <<"epp", c>>[1] = "epp" /\ <<"epb", c>>[1] = "epb"
                /\ <<"platform", c>>[1] = "platform"
      OBVIOUS
    <3>5. /\ kernel_sysfs'[<<"platform", "acpi">>] = kernel_sysfs[<<"platform", "acpi">>]
          /\ \A c \in KernelCpu : /\ kernel_sysfs'[<<"epp", c>>] = kernel_sysfs[<<"epp", c>>]
                                  /\ kernel_sysfs'[<<"epb", c>>] = kernel_sysfs[<<"epb", c>>]
      BY <3>3, <3>4
    <3> QED
      BY <2>1, <2>2, <2>3, <3>5, SettlesAlike DEF K!SetNode
  <2>4. CASE K!LoadFiles(p)
    BY <2>1, <2>2, <2>4, SettlesAlike, SliceLoaded DEF K!LoadFiles
  <2>5. CASE K!WriteFile(p)
    BY <2>1, <2>2, <2>5, SettlesAlike DEF K!WriteFile
  <2>6. CASE K!WriteRule(p)
    BY <2>1, <2>2, <2>6, SettlesAlike DEF K!WriteRule
  <2>7. CASE K!TriggerEvents(p)
    BY <2>1, <2>2, <2>7, SettlesAlike DEF K!TriggerEvents
  <2>8. CASE K!ReadSource(p) \/ K!WriteConfig(p) \/ K!SetUnit(p) \/ K!ReadConfig(p)
    BY <2>1, <2>2, <2>8, SettlesAlike DEF K!ReadSource, K!WriteConfig, K!SetUnit, K!ReadConfig
  <2>9. CASE K!Lost(p)
    BY <2>1, <2>2, <2>9, SettlesAlike DEF K!Lost
  <2> QED
    BY <2>1, <2>3, <2>4, <2>5, <2>6, <2>7, <2>8, <2>9 DEF K!Step
<1> QED
  BY <1>1, <1>2

\* The profile settles, whatever is plugged, triggered, written or booted.
LEMMA SettlingStep == KernelType /\ Settling /\ [K!Next]_kernelVars => Settling'
<1> SUFFICES ASSUME KernelType, Settling, [K!Next]_kernelVars PROVE Settling'
  OBVIOUS
<1>1. CASE UNCHANGED kernelVars
  BY <1>1, SettlesAlike DEF kernelVars
<1>2. CASE K!Plug
  BY <1>2, SettlesAlike DEF K!Plug
<1>3. CASE K!MatchRule
  <2>1. /\ kernel_todo' = [kernel_todo EXCEPT !["udev"] = K!Profile(K!RuleProfile(kernel_ac))]
        /\ kernel_rule' /\ Src' = Src /\ K!RuleProfile(kernel_ac) = Src
    BY <1>3 DEF K!MatchRule, K!RuleProfile, Src, KernelType
  <2>2. kernel_todo'["udev"] = K!Profile(Src)
    BY <2>1 DEF KernelType, K!Runner
  <2>3. Settles(K!Profile(Src), kernel_sysfs', kernel_kernel', kernel_conf', Src)
    BY ProfileHas DEF Settles, ProfileSteps
  <2> QED
    BY <2>1, <2>2, <2>3 DEF Settling
<1>4. CASE K!Reboot
  BY <1>4 DEF K!Reboot, Settling
<1>5. ASSUME NEW p \in Process, K!Start(p)
      PROVE  Settling'
  <2>1. PICK s : kernel_todo' = [kernel_todo EXCEPT ![p] = s]
    BY <1>5 DEF K!Start
  <2>2. kernel_todo'["udev"] = kernel_todo["udev"]
    BY <2>1, KernelAssumption DEF KernelType, K!Runner
  <2> QED
    BY <1>5, <2>2, SettlesAlike DEF K!Start
<1>6. ASSUME NEW p \in K!Runner, K!Step(p)
      PROVE  Settling'
  BY <1>6, SettlesUdev, SettlesOther
<1> QED
  BY <1>1, <1>2, <1>3, <1>4, <1>5, <1>6 DEF K!Next

\* For any number of CPUs and any commands that overlap: once udev is done and
\* nobody else has touched the profile it began, the CPUs, the platform and the
\* scheduler have that of the supply that the telemetry reports
\* (apply_power_profile, 99-osm-power-profile.rules).
THEOREM ProfileSettles == HostSpec => []SettlesOnSource
<1> DEFINE I == which = "kernel" => KernelType /\ Settling
<1>1. HostInit => I
  <2> SUFFICES ASSUME HostInit, which = "kernel" PROVE KernelType /\ Settling
    OBVIOUS
  <2>1. K!Init
    BY DEF HostInit
  <2> QED
    BY <2>1, KernelInitially DEF K!Init, Settling
<1>2. I /\ [HostNext]_all => I'
  BY OneComponent, KernelTypeStep, SettlingStep
<1>3. I => SettlesOnSource
  BY Settled DEF SettlesOnSource
<1> QED
  BY <1>1, <1>2, <1>3, PTL DEF HostSpec
=============================================================================
