--------------------------- MODULE TuningProofs ----------------------------
(* What holds of the snapshots for any number of runs, files and commands. *)
EXTENDS Tuning, TLAPS

\* What is left of a list of files, and what is at its head.
LEMMA ListLemma ==
  ASSUME NEW s \in Seq(File), s # <<>>
  PROVE  /\ Head(s) \in File
         /\ In(Head(s), s)
         /\ Tail(s) \in Seq(File)
         /\ \A f \in File : In(f, Tail(s)) => In(f, s)
  BY DEF In

\* What appending to a list of files keeps and adds.
LEMMA AppendLemma ==
  ASSUME NEW s \in Seq(File), NEW f \in File, NEW g \in File
  PROVE  /\ Append(s, f) \in Seq(File)
         /\ In(g, s) => In(g, Append(s, f))
         /\ In(f, Append(s, f))
  BY DEF In

\* A run that goes on stays well typed.
LEMMA GoLemma ==
  ASSUME TypeOK, NEW r \in Run, NEW todo \in Seq(File),
         NEW pc \in {"copy", "write", "fill", "restore", "refill"} \cup Ended,
         pc \in Applying => run[r].command \in Command,
         Go(r, pc, todo)
  PROVE  /\ run' \in [Run -> RunState]
         /\ run'[r] = [pc |-> pc, command |-> run[r].command,
                       root |-> run[r].root, dir |-> run[r].dir,
                       id |-> run[r].id, todo |-> todo]
         /\ \A q \in Run \ {r} : run'[q] = run[q]
         /\ \A q \in Run : run'[q].pc \in Applying => run'[q].command \in Command
<1>1. run'[r] = [pc |-> pc, command |-> run[r].command, root |-> run[r].root,
                 dir |-> run[r].dir, id |-> run[r].id, todo |-> todo]
  BY DEF TypeOK, Go, RunState
<1>2. \A q \in Run \ {r} : run'[q] = run[q]
  BY DEF TypeOK, Go
<1>3. run[r] \in RunState
  BY DEF TypeOK
<1>4. run'[r] \in RunState
  BY <1>1, <1>3 DEF RunState, Applying
<1>5. run' = [q \in Run |-> run'[q]]
  BY DEF TypeOK, Go
<1>6. \A q \in Run : run'[q].pc \in Applying => run'[q].command \in Command
  BY <1>1, <1>2 DEF TypeOK
<1>7. QED
  BY <1>1, <1>2, <1>4, <1>5, <1>6 DEF TypeOK

\* A run that ends stays well typed.
LEMMA EndLemma ==
  ASSUME TypeOK, NEW r \in Run, NEW pc \in Ended, Go(r, pc, <<>>)
  PROVE  /\ run' \in [Run -> RunState]
         /\ \A q \in Run : run'[q].pc \in Applying => run'[q].command \in Command
<1>1. pc \notin Applying
  BY DEF Applying, Ended
<1>2. <<>> \in Seq(File)
  OBVIOUS
<1>3. QED
  BY <1>1, <1>2, GoLemma

\* The snapshot of a run, changed, is a snapshot; the others are as before.
LEMMA SetMineLemma ==
  ASSUME TypeOK, NEW r \in Run, NEW s \in Snapshot, SetMine(r, s)
  PROVE  /\ snaps' \in [Dir -> [Second -> Snapshot]]
         /\ snaps'[run[r].dir][run[r].id] = s
         /\ \A d \in Dir, i \in Second :
              d # run[r].dir \/ i # run[r].id => snaps'[d][i] = snaps[d][i]
<1>1. run[r].dir \in Dir /\ run[r].id \in Second
  BY DEF TypeOK, RunState
<1>2. QED
  BY <1>1 DEF TypeOK, SetMine

\* Where a run stands after Go, without the records.
Standing(r, pc, todo) ==
  /\ run'[r].pc = pc
  /\ run'[r].command = run[r].command
  /\ run'[r].dir = run[r].dir
  /\ run'[r].id = run[r].id
  /\ run'[r].todo = todo
  /\ \A q \in Run \ {r} : run'[q] = run[q]

\* A run that goes on keeps its command, its directory and its name.
LEMMA StandingLemma ==
  ASSUME TypeOK, NEW r \in Run, NEW todo \in Seq(File),
         NEW pc \in {"copy", "write", "fill"},
         run[r].command \in Command,
         Go(r, pc, todo)
  PROVE  Standing(r, pc, todo)
<1>1. run'[r] = [pc |-> pc, command |-> run[r].command, root |-> run[r].root,
                 dir |-> run[r].dir, id |-> run[r].id, todo |-> todo]
  BY GoLemma
<1>2. QED
  BY <1>1, GoLemma DEF Standing

\* The directory of a run is a snapshot, whether it exists or not.
LEMMA MineLemma ==
  ASSUME TypeOK, NEW r \in Run
  PROVE  /\ Mine(r) \in Snapshot
         /\ run[r].dir \in Dir /\ run[r].id \in Second
         /\ run[r].todo \in Seq(File)
  BY DEF TypeOK, Mine, RunState

\* Before the first command nothing is open and every file is the original.
LEMMA TypeInit == Init => TypeOK
  BY TuningAssumption DEF Init, TypeOK, Second, Dir, Content, Ended,
    NoSnapshot, Snapshot, RunState, Applying

\* What the steps of create_system_snapshot make of a snapshot.
LEMMA UpdateLemma ==
  ASSUME NEW s \in Snapshot, NEW f \in File, NEW c \in Content
  PROVE  /\ [s EXCEPT !.copies[f] = c, !.listed = Append(@, f)] \in Snapshot
         /\ [s EXCEPT !.listed = Append(@, f)] \in Snapshot
         /\ [s EXCEPT !.complete = TRUE] \in Snapshot
<1>1. [s.copies EXCEPT ![f] = c] \in [File -> Content]
  BY DEF Snapshot
<1>2. Append(s.listed, f) \in Seq(File)
  BY DEF Snapshot
<1>3. QED
  BY <1>1, <1>2 DEF Snapshot

\* Every action keeps the types.
LEMMA TypeStep ==
  ASSUME TypeOK, [Next]_vars
  PROVE  TypeOK'
<1> USE TuningAssumption
<1>1. ASSUME NEW r \in Run, NEW root \in BOOLEAN, NEW c \in Command,
             BeginApply(r, c, root) PROVE TypeOK'
  BY <1>1 DEF BeginApply, SnapId, TypeOK, RunState, Applying, Dir, Second
<1>2. ASSUME NEW r \in Run, NEW root \in BOOLEAN, NEW d \in Dir,
             NEW i \in Second, BeginRevert(r, root, d, i) PROVE TypeOK'
  <2>1. snaps[d][i].listed \in Seq(File) /\ PathOf(i) \in Dir
    BY DEF TypeOK, Snapshot, PathOf, Dir
  <2>2. run'[r] \in RunState /\ run'[r].pc = "restore"
    BY <1>2, <2>1 DEF BeginRevert, TypeOK, RunState, Applying
  <2>3. QED
    BY <1>2, <2>2 DEF BeginRevert, TypeOK, Applying
<1>3. ASSUME NEW r \in Run, NEW root \in BOOLEAN, NothingToRevert(r, root)
      PROVE TypeOK'
  <2>1. run'[r] = [pc |-> "failed", command |-> "revert", root |-> root,
                   dir |-> run[r].dir, id |-> run[r].id, todo |-> run[r].todo]
    BY <1>3, ZenonT(60) DEF NothingToRevert, TypeOK, RunState
  <2>2. run'[r] \in RunState
    BY <2>1, MineLemma DEF RunState, Ended
  <2>3. QED
    BY <1>3, <2>1, <2>2 DEF NothingToRevert, TypeOK, Applying
<1>4. ASSUME NEW r \in Run, MakeDir(r) PROVE TypeOK'
  <2>1. PICK d \in Dir :
          /\ run' = [run EXCEPT ![r].pc = "copy", ![r].dir = d]
          /\ snaps' = [snaps EXCEPT ![d][run[r].id].made = TRUE]
    BY <1>4 DEF MakeDir
  <2>2. /\ run[r].id \in Second
        /\ snaps[d][run[r].id] \in Snapshot
    BY MineLemma DEF TypeOK
  <2>3. [snaps[d][run[r].id] EXCEPT !.made = TRUE] \in Snapshot
    BY <2>2 DEF Snapshot
  <2>4. snaps' \in [Dir -> [Second -> Snapshot]]
    BY <2>1, <2>2, <2>3 DEF TypeOK
  <2>5. run'[r] = [pc |-> "copy", command |-> run[r].command,
                   root |-> run[r].root, dir |-> d, id |-> run[r].id,
                   todo |-> run[r].todo]
    BY <2>1, ZenonT(60) DEF TypeOK, RunState
  <2>6. run'[r] \in RunState
    BY <2>5 DEF TypeOK, RunState, Applying
  <2>7. \A q \in Run : run'[q].pc \in Applying => run'[q].command \in Command
    BY <1>4, <2>1 DEF MakeDir, At, TypeOK, RunState, Applying
  <2>8. QED
    BY <1>4, <2>1, <2>4, <2>6, <2>7 DEF MakeDir, TypeOK
<1>5. ASSUME NEW r \in Run, CopyFile(r) PROVE TypeOK'
  <2> DEFINE f == Head(run[r].todo)
             s == [Mine(r) EXCEPT !.copies[f] = disk[f], !.listed = Append(@, f)]
  <2>1. /\ f \in File
        /\ disk[f] \in Content
        /\ Tail(run[r].todo) \in Seq(File)
        /\ run[r].command \in Command
    BY <1>5, MineLemma, ListLemma DEF CopyFile, TypeOK, At, Applying
  <2>2. s \in Snapshot
    BY <2>1, MineLemma, UpdateLemma
  <2>3. QED
    BY <1>5, <2>1, <2>2, SetMineLemma, GoLemma DEF CopyFile, TypeOK
<1>6. ASSUME NEW r \in Run, SkipAbsent(r) PROVE TypeOK'
  <2>1. Tail(run[r].todo) \in Seq(File) /\ run[r].command \in Command
    BY <1>6, MineLemma, ListLemma DEF SkipAbsent, TypeOK, At, Applying
  <2>2. QED
    BY <1>6, <2>1, GoLemma DEF SkipAbsent, TypeOK
<1>7. ASSUME NEW r \in Run, CopyLost(r) PROVE TypeOK'
  <2> DEFINE f == Head(run[r].todo)
             s == [Mine(r) EXCEPT !.listed = Append(@, f)]
  <2>1. /\ f \in File
        /\ disk[f] \in Content
        /\ Tail(run[r].todo) \in Seq(File)
        /\ run[r].command \in Command
    BY <1>7, MineLemma, ListLemma DEF CopyLost, TypeOK, At, Applying
  <2>2. s \in Snapshot
    BY <2>1, MineLemma, UpdateLemma
  <2>3. QED
    BY <1>7, <2>1, <2>2, SetMineLemma, GoLemma DEF CopyLost, TypeOK
<1>8. ASSUME NEW r \in Run, WriteManifest(r) PROVE TypeOK'
  <2>1. /\ [Mine(r) EXCEPT !.complete = TRUE] \in Snapshot
        /\ run[r].command \in Command
    BY <1>8, MineLemma DEF Snapshot, WriteManifest, TypeOK, At, Applying
  <2>2. QED
    BY <1>8, <2>1, SetMineLemma, GoLemma DEF WriteManifest, TypeOK
<1>9. ASSUME NEW r \in Run, SnapshotFails(r) PROVE TypeOK'
  <2>1. run[r].command \in Command
    BY <1>9 DEF SnapshotFails, TypeOK, Applying
  <2>2. QED
    BY <1>9, <2>1, GoLemma DEF SnapshotFails, TypeOK
<1>10. ASSUME NEW r \in Run, OpenFile(r) PROVE TypeOK'
  <2>1. Head(run[r].todo) \in File /\ run[r].command \in Command
    BY <1>10, MineLemma, ListLemma DEF OpenFile, TypeOK, At, Applying
  <2>2. QED
    BY <1>10, <2>1, MineLemma, GoLemma DEF OpenFile, TypeOK, Content
<1>11. ASSUME NEW r \in Run, FillFile(r) PROVE TypeOK'
  <2>1. Tail(run[r].todo) \in Seq(File) /\ run[r].command \in Command
    BY <1>11, MineLemma, ListLemma DEF FillFile, TypeOK, At, Applying
  <2>2. QED
    BY <1>11, <2>1, GoLemma DEF FillFile, TypeOK, Content
<1>12. ASSUME NEW r \in Run, NothingToWrite(r) PROVE TypeOK'
  BY <1>12, MineLemma, ListLemma, GoLemma
    DEF NothingToWrite, TypeOK, At, Applying, Ended
<1>13. ASSUME NEW r \in Run, WriteFails(r) PROVE TypeOK'
  <2>1. Tail(run[r].todo) \in Seq(File) /\ run[r].command \in Command
    BY <1>13, MineLemma, ListLemma DEF WriteFails, TypeOK, Applying
  <2>2. CASE Go(r, "write", Tail(run[r].todo))
    BY <1>13, <2>1, <2>2, GoLemma DEF WriteFails, TypeOK
  <2>3. CASE Go(r, "failed", <<>>)
    BY <1>13, <2>3, EndLemma DEF WriteFails, TypeOK, Ended
  <2>4. QED
    BY <1>13, <2>2, <2>3 DEF WriteFails
<1>14. ASSUME NEW r \in Run, FinishApply(r) PROVE TypeOK'
  BY <1>14, MineLemma, ListLemma, GoLemma
    DEF FinishApply, TypeOK, At, Applying, Ended
<1>15. ASSUME NEW r \in Run, OpenRestore(r) PROVE TypeOK'
  <2>1. run[r].todo \in Seq(File) /\ Head(run[r].todo) \in File
    BY <1>15, MineLemma, ListLemma DEF OpenRestore
  <2>2. QED
    BY <1>15, <2>1, GoLemma DEF OpenRestore, TypeOK, Content, Applying
<1>16. ASSUME NEW r \in Run, FillRestore(r) PROVE TypeOK'
  <2>1. /\ Tail(run[r].todo) \in Seq(File)
        /\ Mine(r).copies[Head(run[r].todo)] \in Content
    BY <1>16, MineLemma, ListLemma DEF FillRestore, Snapshot
  <2>2. QED
    BY <1>16, <2>1, GoLemma DEF FillRestore, TypeOK, Applying
<1>17. ASSUME NEW r \in Run, SkipRestore(r) PROVE TypeOK'
  BY <1>17, MineLemma, ListLemma, GoLemma
    DEF SkipRestore, TypeOK, At, Applying, Ended
<1>18. ASSUME NEW r \in Run, RestoreFails(r) PROVE TypeOK'
  <2>1. Tail(run[r].todo) \in Seq(File)
    BY <1>18, MineLemma, ListLemma DEF RestoreFails
  <2>2. CASE Go(r, "restore", Tail(run[r].todo))
    BY <1>18, <2>1, <2>2, GoLemma DEF RestoreFails, TypeOK, Applying
  <2>3. CASE Go(r, "failed", <<>>)
    BY <1>18, <2>3, EndLemma DEF RestoreFails, TypeOK, Ended
  <2>4. QED
    BY <1>18, <2>2, <2>3 DEF RestoreFails
<1>19. ASSUME NEW r \in Run, FinishRevert(r) PROVE TypeOK'
  BY <1>19, MineLemma, ListLemma, GoLemma
    DEF FinishRevert, TypeOK, At, Applying, Ended
<1>20. ASSUME NEW r \in Run, Kill(r) PROVE TypeOK'
  BY <1>20, EndLemma DEF Kill, TypeOK, Ended
<1>21. ASSUME Tick PROVE TypeOK'
  BY <1>21 DEF Tick, TypeOK, Second
<1>22. CASE UNCHANGED vars
  BY <1>22 DEF vars, TypeOK
<1>23. QED
  BY <1>1, <1>2, <1>3, <1>4, <1>5, <1>6, <1>7, <1>8, <1>9, <1>10, <1>11,
    <1>12, <1>13, <1>14, <1>15, <1>16, <1>17, <1>18, <1>19, <1>20, <1>21,
    <1>22 DEF Next, Begin, Snapshotting, Writing, Restoring

-----------------------------------------------------------------------------
(* The structure: who owns what, and where each run is. *)

\* Before the first command no snapshot exists that could lack a file.
LEMMA StructureInit == Init => Structure
<1>1. ASSUME Init PROVE IdsAreOwn
  BY <1>1, TuningAssumption DEF Init, IdsAreOwn, NoSnapshot, Dir
<1>2. ASSUME Init PROVE MadeFirst
  BY <1>2 DEF Init, MadeFirst
<1>3. ASSUME Init, NEW r \in Run PROVE Place(r)
  BY <1>3 DEF Init, Place, At
<1>4. QED
  BY <1>1, <1>2, <1>3 DEF Structure

\* A step that leaves the snapshots alone has to look after its own run only.
LEMMA QuietLemma ==
  ASSUME TypeOK, Structure, NEW r \in Run, snaps' = snaps,
         unsaved \subseteq unsaved',
         run'[r].command = run[r].command, run'[r].id = run[r].id,
         \A q \in Run \ {r} : run'[q] = run[q],
         Place(r)'
  PROVE  Structure'
<1>1. IdsAreOwn'
  BY DEF Structure, IdsAreOwn
<1>2. MadeFirst'
  BY DEF Structure, MadeFirst, NoSnapshot
<1>3. ASSUME NEW q \in Run \ {r} PROVE Place(q)'
  <2>1. run'[q] = run[q] /\ Mine(q)' = Mine(q)
    BY <1>3 DEF Mine
  <2>2. Place(q)
    BY <1>3 DEF Structure
  <2>3. QED
    BY <2>1, <2>2 DEF Place, At, Held
<1>4. QED
  BY <1>1, <1>2, <1>3 DEF Structure

\* A step of create_system_snapshot changes the snapshot of its own run.
LEMMA OwnLemma ==
  ASSUME TypeOK, Structure, NEW r \in Run, At(r, "copy"),
         NEW s \in Snapshot, s.made, SetMine(r, s), unsaved' = unsaved,
         run'[r].command = run[r].command, run'[r].id = run[r].id,
         \A q \in Run \ {r} : run'[q] = run[q],
         Place(r)'
  PROVE  Structure'
<1>1. /\ Mine(r).made /\ ~Mine(r).complete
      /\ run[r].command \in Command
      /\ run[r].dir \in Dir /\ run[r].id \in Second
  BY MineLemma DEF Structure, Place, TypeOK, At, Applying
<1>2. \A d \in Dir, i \in Second :
        snaps'[d][i].made <=> snaps[d][i].made
  BY <1>1, SetMineLemma DEF Mine
<1>3. IdsAreOwn'
  BY <1>2 DEF Structure, IdsAreOwn, Dir
<1>4. MadeFirst'
  <2>1. ASSUME NEW d \in Dir, NEW i \in Second, ~snaps'[d][i].made
        PROVE  snaps'[d][i] = NoSnapshot
    <3>1. ~snaps[d][i].made /\ snaps[d][i] = NoSnapshot
      BY <1>2, <2>1 DEF Structure, MadeFirst
    <3>2. d # run[r].dir \/ i # run[r].id
      BY <1>1, <3>1 DEF Mine
    <3>3. QED
      BY <3>1, <3>2, SetMineLemma
  <2>2. QED
    BY <2>1 DEF MadeFirst, NoSnapshot
<1>5. ASSUME NEW q \in Run \ {r} PROVE Place(q)'
  <2>1. run[q].dir \in Dir /\ run[q].id \in Second /\ Place(q)
    BY <1>5, MineLemma DEF Structure
  <2>2. Mine(q).complete => Mine(q)' = Mine(q)
    BY <1>1, <1>5, <2>1, SetMineLemma DEF Mine
  <2>3. At(q, "copy") => Mine(q)' = Mine(q)
    BY <1>1, <1>5, <2>1, SetMineLemma DEF Mine, At, TypeOK, Applying, Structure, IdsAreOwn
  <2>4. QED
    BY <1>2, <1>5, <2>1, <2>2, <2>3 DEF Place, At, Held
<1>6. QED
  BY <1>3, <1>4, <1>5 DEF Structure

\* The steps that only move a run on.
LEMMA MoveLemma ==
  ASSUME TypeOK, Structure, NEW r \in Run, NEW todo \in Seq(File),
         NEW pc \in {"copy", "write", "fill", "restore", "refill"} \cup Ended,
         pc \in Applying => run[r].pc \in Applying,
         pc = "copy" => At(r, "copy"),
         pc = "fill" => /\ todo # <<>>
                        /\ Held(r, Head(todo)) \/ Head(todo) \in unsaved',
         pc \in {"restore", "refill"} =>
           /\ run[r].pc \in {"restore", "refill"}
           /\ \A f \in File : In(f, todo) => In(f, run[r].todo),
         pc = "refill" => /\ todo # <<>>
                          /\ Mine(r).copies[Head(todo)] # "absent",
         Go(r, pc, todo), snaps' = snaps, unsaved \subseteq unsaved'
  PROVE  Structure'
<1>1. pc \in Applying => run[r].command \in Command
  BY DEF TypeOK
<1>2. /\ run'[r] = [pc |-> pc, command |-> run[r].command,
                    root |-> run[r].root, dir |-> run[r].dir,
                    id |-> run[r].id, todo |-> todo]
      /\ \A q \in Run \ {r} : run'[q] = run[q]
  BY <1>1, GoLemma
<1>3. Mine(r)' = Mine(r)
  BY <1>2 DEF Mine
<1>4. Place(r)
  BY DEF Structure
<1>5. pc \notin {"down", "mkdir"}
  BY DEF Ended
<1>6. Place(r)'
  BY <1>2, <1>3, <1>4, <1>5 DEF Place, At, Held
<1>7. QED
  BY <1>2, <1>6, QuietLemma

\* The steps after which a run writes on, or ends.
LEMMA WriteOnLemma ==
  ASSUME TypeOK, Structure, NEW r \in Run, NEW todo \in Seq(File),
         NEW pc \in {"write"} \cup Ended,
         pc = "write" => run[r].pc \in Applying,
         Go(r, pc, todo), snaps' = snaps, unsaved' = unsaved
  PROVE  Structure'
<1>1. pc \notin {"copy", "fill", "restore", "refill"}
  BY DEF Ended
<1>2. pc \in Applying => run[r].pc \in Applying
  BY DEF Ended, Applying
<1>3. pc \in {"copy", "write", "fill", "restore", "refill"} \cup Ended
  OBVIOUS
<1>4. unsaved \subseteq unsaved'
  OBVIOUS
<1>5. QED
  BY <1>1, <1>2, <1>3, <1>4, MoveLemma

\* The steps after which a revert goes on.
LEMMA RestoreOnLemma ==
  ASSUME TypeOK, Structure, NEW r \in Run, run[r].pc \in {"restore", "refill"},
         run[r].todo # <<>>,
         Go(r, "restore", Tail(run[r].todo)), snaps' = snaps, unsaved' = unsaved
  PROVE  Structure'
<1>1. /\ Tail(run[r].todo) \in Seq(File)
      /\ \A f \in File : In(f, Tail(run[r].todo)) => In(f, run[r].todo)
  BY MineLemma, ListLemma
<1>2. "restore" \notin Applying \cup {"copy", "fill", "refill"}
  BY DEF Applying
<1>3. unsaved \subseteq unsaved'
  OBVIOUS
<1> DEFINE pc == "restore"
<1>4. pc \in {"copy", "write", "fill", "restore", "refill"} \cup Ended
  OBVIOUS
<1>5. Go(r, pc, Tail(run[r].todo))
  OBVIOUS
<1>6. pc \notin Applying \cup {"copy", "fill", "refill"}
  BY <1>2
<1> HIDE DEF pc
<1>7. QED
  BY <1>1, <1>3, <1>4, <1>5, <1>6, MoveLemma

\* The steps of create_system_snapshot that change the snapshot and go on.
LEMMA CopyOnLemma ==
  ASSUME TypeOK, Structure, NEW r \in Run, At(r, "copy"),
         NEW s \in Snapshot, s.made, NEW todo \in Seq(File),
         NEW pc \in {"copy", "write"}, pc = "copy" => ~s.complete,
         SetMine(r, s), Go(r, pc, todo), unsaved' = unsaved
  PROVE  Structure'
<1>1. run[r].command \in Command
  BY DEF TypeOK, At, Applying
<1>2. Standing(r, pc, todo)
  BY <1>1, StandingLemma
<1>3. snaps'[run[r].dir][run[r].id] = s
  BY SetMineLemma
<1>4. Mine(r)' = s
  BY <1>2, <1>3 DEF Mine, Standing
<1>5. Place(r)'
  BY <1>2, <1>4 DEF Place, At, Standing
<1>6. QED
  BY <1>2, <1>5, OwnLemma DEF Standing

\* Every action keeps the structure.
LEMMA StructureStep ==
  ASSUME TypeOK, Structure, [Next]_vars
  PROVE  Structure'
<1>1. ASSUME NEW r \in Run, NEW root \in BOOLEAN, NEW c \in Command,
             BeginApply(r, c, root) PROVE Structure'
  <2>1. /\ run'[r].command = c /\ run'[r].id = second
        /\ run'[r].pc \in {"mkdir", "write"}
        /\ \A q \in Run \ {r} : run'[q] = run[q]
        /\ snaps' = snaps /\ unsaved' = unsaved
    BY <1>1 DEF BeginApply, TypeOK, RunState, SnapId
  <2>2. /\ run[r].command \notin Command
        /\ \A q \in Run : run[q].command \in Command => run[q].id # second
    BY <1>1, TuningAssumption
      DEF BeginApply, DistinctSeconds, Structure, Place
  <2>3. \A d \in Dir : ~snaps[d][second].made
    BY <2>2 DEF Structure, IdsAreOwn, TypeOK
  <2>4. IdsAreOwn'
    BY <2>1, <2>2 DEF Structure, IdsAreOwn
  <2>5. MadeFirst'
    BY <2>1 DEF Structure, MadeFirst, NoSnapshot
  <2>6. Place(r)'
    BY <2>1, <2>3 DEF Place, At
  <2>7. ASSUME NEW q \in Run \ {r} PROVE Place(q)'
    BY <2>1, <2>7, ZenonT(60) DEF Structure, Place, At, Mine, Held
  <2>8. QED
    BY <2>4, <2>5, <2>6, <2>7 DEF Structure
<1>2. ASSUME NEW r \in Run, NEW root \in BOOLEAN, NEW d \in Dir,
             NEW i \in Second, BeginRevert(r, root, d, i) PROVE Structure'
  <2>1. /\ run'[r] = [pc |-> "restore", command |-> "revert", root |-> root,
                      dir |-> PathOf(i), id |-> i, todo |-> snaps[d][i].listed]
        /\ \A q \in Run \ {r} : run'[q] = run[q]
        /\ snaps' = snaps /\ unsaved' = unsaved
        /\ run[r].command \notin Command
    BY <1>2, TuningAssumption
      DEF BeginRevert, TypeOK, Structure, Place
  <2>2. snaps[d][i].complete /\ snaps[d][i].made
    BY <1>2 DEF BeginRevert, ListedIn, Structure, MadeFirst, NoSnapshot
  <2>3. PathOf(i) = d
    BY <2>2 DEF PathOf, Structure, IdsAreOwn, Dir
  <2>4. Place(r)'
    BY <2>1, <2>2, <2>3 DEF Place, At, Mine
  <2>5. IdsAreOwn'
    BY <2>1, TuningAssumption DEF Structure, IdsAreOwn
  <2>6. MadeFirst'
    BY <2>1 DEF Structure, MadeFirst, NoSnapshot
  <2>7. ASSUME NEW q \in Run \ {r} PROVE Place(q)'
    BY <2>1, <2>7, ZenonT(60) DEF Structure, Place, At, Mine, Held
  <2>8. QED
    BY <2>4, <2>5, <2>6, <2>7 DEF Structure
<1>3. ASSUME NEW r \in Run, NEW root \in BOOLEAN, NothingToRevert(r, root)
      PROVE Structure'
  <2>1. /\ run'[r].pc = "failed" /\ run'[r].command = "revert"
        /\ \A q \in Run \ {r} : run'[q] = run[q]
        /\ snaps' = snaps /\ unsaved' = unsaved
        /\ run[r].command \notin Command
    BY <1>3, TuningAssumption
      DEF NothingToRevert, TypeOK, RunState, Structure, Place
  <2>2. Place(r)'
    BY <2>1 DEF Place, At
  <2>3. IdsAreOwn'
    BY <2>1, TuningAssumption DEF Structure, IdsAreOwn
  <2>4. MadeFirst'
    BY <2>1 DEF Structure, MadeFirst, NoSnapshot
  <2>5. ASSUME NEW q \in Run \ {r} PROVE Place(q)'
    BY <2>1, <2>5, ZenonT(60) DEF Structure, Place, At, Mine, Held
  <2>6. QED
    BY <2>2, <2>3, <2>4, <2>5 DEF Structure
<1>4. ASSUME NEW r \in Run, MakeDir(r) PROVE Structure'
  <2>1. PICK d \in Dir :
          /\ run' = [run EXCEPT ![r].pc = "copy", ![r].dir = d]
          /\ snaps' = [snaps EXCEPT ![d][run[r].id].made = TRUE]
    BY <1>4 DEF MakeDir
  <2>2. /\ run[r].id \in Second
        /\ run[r].command \in Command
        /\ \A e \in Dir : ~snaps[e][run[r].id].made
    BY <1>4, MineLemma DEF MakeDir, TypeOK, At, Applying, Structure, Place
  <2>3. /\ run'[r].pc = "copy" /\ run'[r].dir = d
        /\ run'[r].id = run[r].id /\ run'[r].command = run[r].command
        /\ \A q \in Run \ {r} : run'[q] = run[q]
    BY <2>1 DEF TypeOK, RunState
  <2>4. /\ snaps'[d][run[r].id].made
        /\ snaps'[d][run[r].id].complete = snaps[d][run[r].id].complete
        /\ \A e \in Dir, i \in Second :
             e # d \/ i # run[r].id => snaps'[e][i] = snaps[e][i]
    BY <2>1, <2>2 DEF TypeOK, Snapshot
  <2>5. ~snaps[d][run[r].id].complete
    BY <2>2 DEF Structure, MadeFirst, NoSnapshot
  <2>6. IdsAreOwn'
    BY <2>2, <2>3, <2>4 DEF Structure, IdsAreOwn, Dir
  <2>7. MadeFirst'
    <3>1. ASSUME NEW e \in Dir, NEW i \in Second, ~snaps'[e][i].made
          PROVE  snaps'[e][i] = NoSnapshot
      <4>1. e # d \/ i # run[r].id
        BY <2>4, <3>1
      <4>2. snaps'[e][i] = snaps[e][i]
        BY <2>4, <4>1
      <4>3. QED
        BY <3>1, <4>2 DEF Structure, MadeFirst
    <3>2. QED
      BY <3>1 DEF MadeFirst, NoSnapshot
  <2>8. Place(r)'
    BY <2>3, <2>4, <2>5 DEF Place, At, Mine
  <2>9. ASSUME NEW q \in Run \ {r} PROVE Place(q)'
    <3>1. run[q].dir \in Dir /\ run[q].id \in Second /\ Place(q)
      BY <2>9, MineLemma DEF Structure
    <3>2. Mine(q).complete => Mine(q)' = Mine(q)
      BY <2>3, <2>4, <2>5, <2>9, <3>1 DEF Mine
    <3>3. run[q].command \in Command => run[q].id # run[r].id
      BY <2>2, <2>9 DEF Structure, IdsAreOwn
    <3>4. run[q].pc \in {"mkdir", "copy"} => run[q].command \in Command
      BY <2>9 DEF TypeOK, Applying
    <3>5. run'[q] = run[q] /\ unsaved' = unsaved
      BY <1>4, <2>3, <2>9 DEF MakeDir
    <3>6. At(q, "mkdir") => \A e \in Dir : ~snaps'[e][run[q].id].made
      BY <2>4, <3>1, <3>3, <3>4 DEF Place, At
    <3>7. At(q, "copy") => Mine(q)' = Mine(q)
      BY <2>4, <3>1, <3>3, <3>4, <3>5 DEF Mine, At
    <3>8. QED
      BY <3>1, <3>2, <3>5, <3>6, <3>7 DEF Place, At, Held
  <2>10. QED
    BY <2>6, <2>7, <2>8, <2>9 DEF Structure
<1>5. ASSUME NEW r \in Run, CopyFile(r) PROVE Structure'
  <2> DEFINE f == Head(run[r].todo)
             s == [Mine(r) EXCEPT !.copies[f] = disk[f], !.listed = Append(@, f)]
  <2>1. /\ f \in File
        /\ disk[f] \in Content
        /\ Tail(run[r].todo) \in Seq(File)
        /\ run[r].command \in Command
    BY <1>5, MineLemma, ListLemma DEF CopyFile, TypeOK, At, Applying
  <2>2. s \in Snapshot /\ s.made /\ ~s.complete
    <3>1. Mine(r) \in Snapshot /\ Mine(r).made /\ ~Mine(r).complete
      BY <1>5, MineLemma DEF CopyFile, Structure, Place
    <3>2. s \in Snapshot
      BY <2>1, <3>1, UpdateLemma
    <3>3. QED
      BY <3>1, <3>2 DEF Snapshot
  <2>3. /\ SetMine(r, s)
        /\ At(r, "copy")
        /\ Go(r, "copy", Tail(run[r].todo))
        /\ unsaved' = unsaved
    BY <1>5 DEF CopyFile
  <2> HIDE DEF s
  <2>4. QED
    BY <2>1, <2>2, <2>3, CopyOnLemma
<1>6. ASSUME NEW r \in Run, CopyLost(r) PROVE Structure'
  <2> DEFINE f == Head(run[r].todo)
             s == [Mine(r) EXCEPT !.listed = Append(@, f)]
  <2>1. /\ f \in File
        /\ disk[f] \in Content
        /\ Tail(run[r].todo) \in Seq(File)
        /\ run[r].command \in Command
    BY <1>6, MineLemma, ListLemma DEF CopyLost, TypeOK, At, Applying
  <2>2. s \in Snapshot /\ s.made /\ ~s.complete
    <3>1. Mine(r) \in Snapshot /\ Mine(r).made /\ ~Mine(r).complete
      BY <1>6, MineLemma DEF CopyLost, Structure, Place
    <3>2. s \in Snapshot
      BY <2>1, <3>1, UpdateLemma
    <3>3. QED
      BY <3>1, <3>2 DEF Snapshot
  <2>3. /\ SetMine(r, s)
        /\ At(r, "copy")
        /\ Go(r, "copy", Tail(run[r].todo))
        /\ unsaved' = unsaved
    BY <1>6 DEF CopyLost
  <2> HIDE DEF s
  <2>4. QED
    BY <2>1, <2>2, <2>3, CopyOnLemma
<1>7. ASSUME NEW r \in Run, WriteManifest(r) PROVE Structure'
  <2> DEFINE s == [Mine(r) EXCEPT !.complete = TRUE]
             todo == HandlerOf[run[r].command].writes
  <2>1. run[r].command \in Command /\ todo \in Seq(File)
    BY <1>7, TuningAssumption DEF WriteManifest, TypeOK, At, Applying
  <2>2. s \in Snapshot /\ s.made
    BY <1>7, MineLemma DEF WriteManifest, Structure, Place, Snapshot
  <2>3. /\ SetMine(r, s)
        /\ At(r, "copy")
        /\ Go(r, "write", todo)
        /\ unsaved' = unsaved
    BY <1>7 DEF WriteManifest
  <2> HIDE DEF s
  <2>4. QED
    BY <2>1, <2>2, <2>3, CopyOnLemma
<1>8. ASSUME NEW r \in Run, OpenFile(r) PROVE Structure'
  <2>1. run[r].todo \in Seq(File) /\ At(r, "write") /\ run[r].todo # <<>>
    BY <1>8, MineLemma DEF OpenFile
  <2>2. /\ Held(r, Head(run[r].todo)) \/ Head(run[r].todo) \in unsaved'
        /\ unsaved \subseteq unsaved'
        /\ snaps' = snaps
        /\ Go(r, "fill", run[r].todo)
    BY <1>8 DEF OpenFile
  <2>3. QED
    BY <2>1, <2>2, MoveLemma DEF At, Applying
<1>9. ASSUME NEW r \in Run, FillFile(r) \/ NothingToWrite(r) PROVE Structure'
  <2>1. /\ Tail(run[r].todo) \in Seq(File)
        /\ run[r].pc \in Applying
        /\ Go(r, "write", Tail(run[r].todo))
        /\ snaps' = snaps /\ unsaved' = unsaved
    BY <1>9, MineLemma, ListLemma DEF FillFile, NothingToWrite, At, Applying
  <2>2. QED
    BY <2>1, WriteOnLemma
<1>10. ASSUME NEW r \in Run, SkipAbsent(r) PROVE Structure'
  <2>1. /\ Tail(run[r].todo) \in Seq(File)
        /\ run[r].pc \in Applying /\ At(r, "copy")
        /\ Go(r, "copy", Tail(run[r].todo))
        /\ snaps' = snaps /\ unsaved' = unsaved
    BY <1>10, MineLemma, ListLemma DEF SkipAbsent, At, Applying
  <2>2. QED
    BY <2>1, MoveLemma
<1>11. ASSUME NEW r \in Run, SnapshotFails(r) PROVE Structure'
  <2>1. /\ run[r].pc \in Applying
        /\ Go(r, "write", HandlerOf[run[r].command].writes)
        /\ snaps' = snaps /\ unsaved' = unsaved
    BY <1>11 DEF SnapshotFails, Applying
  <2>2. HandlerOf[run[r].command].writes \in Seq(File)
    BY <2>1, TuningAssumption DEF TypeOK
  <2>3. QED
    BY <2>1, <2>2, WriteOnLemma
<1>12. ASSUME NEW r \in Run, WriteFails(r) PROVE Structure'
  <2>1. /\ run[r].pc \in Applying /\ run[r].todo # <<>>
        /\ Go(r, "write", Tail(run[r].todo)) \/ Go(r, "failed", <<>>)
        /\ snaps' = snaps /\ unsaved' = unsaved
    BY <1>12 DEF WriteFails, Applying
  <2>2. Tail(run[r].todo) \in Seq(File) /\ <<>> \in Seq(File) /\ "failed" \in Ended
    BY <2>1, MineLemma, ListLemma DEF Ended
  <2>3. CASE Go(r, "write", Tail(run[r].todo))
    BY <2>1, <2>2, <2>3, WriteOnLemma
  <2>4. CASE Go(r, "failed", <<>>)
    BY <2>1, <2>2, <2>4, WriteOnLemma
  <2>5. QED
    BY <2>1, <2>3, <2>4
<1>13. ASSUME NEW r \in Run, FinishApply(r) \/ FinishRevert(r) \/ Kill(r)
       PROVE  Structure'
  <2>1. /\ Go(r, "done", <<>>) \/ Go(r, "dead", <<>>)
        /\ snaps' = snaps /\ unsaved' = unsaved
    BY <1>13 DEF FinishApply, FinishRevert, Kill
  <2>2. <<>> \in Seq(File) /\ "done" \in Ended /\ "dead" \in Ended
    BY DEF Ended
  <2>3. CASE Go(r, "done", <<>>)
    BY <2>1, <2>2, <2>3, WriteOnLemma
  <2>4. CASE Go(r, "dead", <<>>)
    BY <2>1, <2>2, <2>4, WriteOnLemma
  <2>5. QED
    BY <2>1, <2>3, <2>4
<1>14. ASSUME NEW r \in Run, OpenRestore(r) PROVE Structure'
  <2>1. /\ run[r].todo \in Seq(File) /\ run[r].todo # <<>>
        /\ run[r].pc = "restore"
        /\ Mine(r).copies[Head(run[r].todo)] # "absent"
        /\ Go(r, "refill", run[r].todo)
        /\ snaps' = snaps /\ unsaved' = unsaved
    BY <1>14, MineLemma DEF OpenRestore, At
  <2>2. "refill" \notin Applying
    BY DEF Applying
  <2>3. QED
    BY <2>1, <2>2, MoveLemma
<1>15. ASSUME NEW r \in Run, FillRestore(r) \/ SkipRestore(r) PROVE Structure'
  <2>1. /\ run[r].pc \in {"restore", "refill"}
        /\ Go(r, "restore", Tail(run[r].todo))
        /\ run[r].todo # <<>>
        /\ snaps' = snaps /\ unsaved' = unsaved
    BY <1>15 DEF FillRestore, SkipRestore, At
  <2>2. QED
    BY <2>1, RestoreOnLemma
<1>16. ASSUME NEW r \in Run, RestoreFails(r) PROVE Structure'
  <2>1. /\ run[r].pc \in {"restore", "refill"} /\ run[r].todo # <<>>
        /\ \/ Go(r, "restore", Tail(run[r].todo))
           \/ Go(r, "failed", <<>>)
        /\ snaps' = snaps /\ unsaved' = unsaved
    BY <1>16 DEF RestoreFails
  <2>2. CASE Go(r, "restore", Tail(run[r].todo))
    BY <2>1, <2>2, RestoreOnLemma
  <2>3. CASE Go(r, "failed", <<>>)
    <3>1. <<>> \in Seq(File) /\ "failed" \in Ended
      BY DEF Ended
    <3>2. QED
      BY <2>1, <2>3, <3>1, WriteOnLemma
  <2>4. QED
    BY <2>1, <2>2, <2>3
<1>17. CASE Tick \/ UNCHANGED vars
  <2>1. run' = run /\ snaps' = snaps /\ unsaved' = unsaved
    BY <1>17 DEF Tick, vars
  <2>2. QED
    BY <2>1, ZenonT(60) DEF Structure, IdsAreOwn, MadeFirst, NoSnapshot, Place, At, Mine, Held
<1>18. QED
  BY <1>1, <1>2, <1>3, <1>4, <1>5, <1>6, <1>7, <1>8, <1>9, <1>10, <1>11,
    <1>12, <1>13, <1>14, <1>15, <1>16, <1>17
    DEF Next, Begin, Snapshotting, Writing, Restoring

-----------------------------------------------------------------------------
(* The contents: what is on the disk and in the snapshots. *)

\* The steps that touch the snapshots.
LEMMA SnapsLemma ==
  ASSUME [Next]_vars
  PROVE  \/ snaps' = snaps
         \/ \E r \in Run : MakeDir(r) \/ CopyFile(r) \/ CopyLost(r) \/ WriteManifest(r)
<1>1. ASSUME NEW r \in Run, Begin(r) \/ Writing(r) \/ Restoring(r) \/ Kill(r)
      PROVE  snaps' = snaps
  BY <1>1 DEF Begin, Writing, Restoring, Kill,
    BeginApply, BeginRevert, NothingToRevert,
    OpenFile, FillFile, NothingToWrite, WriteFails, FinishApply,
    OpenRestore, FillRestore, SkipRestore, RestoreFails, FinishRevert
<1>2. ASSUME NEW r \in Run, Snapshotting(r)
      PROVE  \/ snaps' = snaps
             \/ MakeDir(r) \/ CopyFile(r) \/ CopyLost(r) \/ WriteManifest(r)
  BY <1>2 DEF Snapshotting, SkipAbsent, SnapshotFails
<1>3. ASSUME Tick \/ UNCHANGED vars PROVE snaps' = snaps
  BY <1>3 DEF Tick, vars
<1>4. QED
  BY <1>1, <1>2, <1>3 DEF Next

\* A finished snapshot is not touched.
LEMMA FinalLemma ==
  ASSUME TypeOK, Structure, [Next]_vars,
         NEW d \in Dir, NEW i \in Second, snaps[d][i].complete
  PROVE  snaps'[d][i] = snaps[d][i]
<1>1. snaps[d][i].made
  BY DEF Structure, MadeFirst, NoSnapshot
<1>2. ASSUME NEW r \in Run, MakeDir(r) PROVE snaps'[d][i] = snaps[d][i]
  <2>1. i # run[r].id
    BY <1>1, <1>2 DEF MakeDir, Structure, Place
  <2>2. QED
    BY <1>2, <2>1 DEF MakeDir, TypeOK
<1>3. ASSUME NEW r \in Run, NEW s, SetMine(r, s), At(r, "copy")
      PROVE  snaps'[d][i] = snaps[d][i]
  <2>1. d # run[r].dir \/ i # run[r].id
    BY <1>3 DEF Structure, Place, Mine
  <2>2. QED
    BY <1>3, <2>1, MineLemma DEF SetMine, TypeOK
<1>4. ASSUME NEW r \in Run, CopyFile(r) \/ CopyLost(r) \/ WriteManifest(r)
      PROVE  snaps'[d][i] = snaps[d][i]
  <2>1. At(r, "copy")
    BY <1>4 DEF CopyFile, CopyLost, WriteManifest
  <2>2. CASE CopyFile(r)
    BY <1>3, <2>1, <2>2 DEF CopyFile
  <2>3. CASE CopyLost(r)
    BY <1>3, <2>1, <2>3 DEF CopyLost
  <2>4. CASE WriteManifest(r)
    BY <1>3, <2>1, <2>4 DEF WriteManifest
  <2>5. QED
    BY <1>4, <2>2, <2>3, <2>4
<1>5. QED
  BY <1>2, <1>4, SnapsLemma

\* A file whose copy is in a finished snapshot is saved, there or elsewhere.
LEMMA HeldLemma ==
  ASSUME TypeOK, CopiesAreGood, NEW r \in Run, NEW f \in File,
         Minded(f), Held(r, f)
  PROVE  Saved(f)
<1>1. run[r].dir \in Dir /\ run[r].id \in Second
  BY MineLemma
<1>2. Mine(r).copies[f] = "user" \/ Saved(f)
  BY <1>1 DEF CopiesAreGood, Held, Mine
<1>3. QED
  BY <1>1, <1>2 DEF Held, Mine, Saved

\* What the disk may become: a file is written by a run that holds a copy.
LEMMA DiskLemma ==
  ASSUME TypeOK, Structure, [Next]_vars
  PROVE  /\ orig' = orig /\ unsaved \subseteq unsaved'
         /\ \A f \in File :
              \/ disk'[f] = disk[f]
              \/ f \in unsaved'
              \/ \E r \in Run : Held(r, f)
<1>1. ASSUME NEW r \in Run, NEW f \in File, NEW c,
             disk' = [disk EXCEPT ![f] = c], Held(r, f) \/ f \in unsaved',
             NEW g \in File
      PROVE  \/ disk'[g] = disk[g]
             \/ g \in unsaved'
             \/ \E q \in Run : Held(q, g)
  BY <1>1 DEF TypeOK
<1>2. ASSUME NEW r \in Run, OpenFile(r)
      PROVE  \A g \in File : disk'[g] = disk[g] \/ g \in unsaved'
                               \/ \E q \in Run : Held(q, g)
  <2>1. Head(run[r].todo) \in File
    BY <1>2, MineLemma, ListLemma DEF OpenFile
  <2>2. Held(r, Head(run[r].todo)) \/ Head(run[r].todo) \in unsaved'
    BY <1>2 DEF OpenFile
  <2>3. disk' = [disk EXCEPT ![Head(run[r].todo)] = "torn"]
    BY <1>2 DEF OpenFile
  <2>4. QED
    BY <1>1, <2>1, <2>2, <2>3
<1>3. ASSUME NEW r \in Run, FillFile(r)
      PROVE  \A g \in File : disk'[g] = disk[g] \/ g \in unsaved'
                               \/ \E q \in Run : Held(q, g)
  <2>1. Head(run[r].todo) \in File
    BY <1>3, MineLemma, ListLemma DEF FillFile
  <2>2. Held(r, Head(run[r].todo)) \/ Head(run[r].todo) \in unsaved'
    BY <1>3 DEF FillFile, Structure, Place
  <2>3. disk' = [disk EXCEPT ![Head(run[r].todo)] = "tuned"]
    BY <1>3 DEF FillFile
  <2>4. QED
    BY <1>1, <2>1, <2>2, <2>3
<1>4. ASSUME NEW r \in Run, OpenRestore(r) \/ FillRestore(r)
      PROVE  \A g \in File : disk'[g] = disk[g] \/ g \in unsaved'
                               \/ \E q \in Run : Held(q, g)
  <2> DEFINE f == Head(run[r].todo)
  <2>1. run[r].pc \in {"restore", "refill"} /\ run[r].todo # <<>>
    BY <1>4 DEF OpenRestore, FillRestore, At
  <2>2. f \in File /\ In(f, run[r].todo)
    BY <2>1, MineLemma, ListLemma
  <2>3. Mine(r).copies[f] # "absent"
    BY <1>4 DEF OpenRestore, FillRestore, Structure, Place
  <2>4. Held(r, f)
    BY <2>1, <2>2, <2>3 DEF Structure, Place, Held
  <2>5. \/ disk' = [disk EXCEPT ![f] = "torn"]
        \/ disk' = [disk EXCEPT ![f] = Mine(r).copies[f]]
    BY <1>4 DEF OpenRestore, FillRestore
  <2> HIDE DEF f
  <2>6. QED
    BY <1>1, <2>2, <2>4, <2>5
<1>5. ASSUME NEW r \in Run, Begin(r) \/ Snapshotting(r) \/ Kill(r)
      PROVE  disk' = disk /\ orig' = orig /\ unsaved' = unsaved
  BY <1>5 DEF Begin, BeginApply, BeginRevert, NothingToRevert, Snapshotting,
    MakeDir, CopyFile, SkipAbsent, CopyLost, WriteManifest, SnapshotFails, Kill
<1>6. ASSUME NEW r \in Run, Writing(r)
      PROVE  /\ orig' = orig /\ unsaved \subseteq unsaved'
             /\ disk' = disk \/ OpenFile(r) \/ FillFile(r)
  BY <1>6 DEF Writing, OpenFile, FillFile, NothingToWrite, WriteFails, FinishApply
<1>7. ASSUME NEW r \in Run, Restoring(r)
      PROVE  /\ orig' = orig /\ unsaved' = unsaved
             /\ disk' = disk \/ OpenRestore(r) \/ FillRestore(r)
  BY <1>7 DEF Restoring, OpenRestore, FillRestore, SkipRestore, RestoreFails, FinishRevert
<1>8. ASSUME Tick \/ UNCHANGED vars
      PROVE  disk' = disk /\ orig' = orig /\ unsaved' = unsaved
  BY <1>8 DEF Tick, vars
<1>9. orig' = orig /\ unsaved \subseteq unsaved'
  BY <1>5, <1>6, <1>7, <1>8 DEF Next
<1>10. \/ disk' = disk
       \/ \E r \in Run : OpenFile(r) \/ FillFile(r) \/ OpenRestore(r) \/ FillRestore(r)
  BY <1>5, <1>6, <1>7, <1>8 DEF Next
<1>11. QED
  BY <1>2, <1>3, <1>4, <1>9, <1>10

\* What a snapshot may come to hold: what is on the disk.
LEMMA CopyLemma ==
  ASSUME TypeOK, [Next]_vars, NEW d \in Dir, NEW i \in Second, NEW f \in File
  PROVE  snaps'[d][i].copies[f] \in {snaps[d][i].copies[f], disk[f]}
<1>0. snaps[d][i] \in Snapshot
  BY DEF TypeOK
<1>1. ASSUME NEW r \in Run, MakeDir(r)
      PROVE  snaps'[d][i].copies = snaps[d][i].copies
  BY <1>0, <1>1, MineLemma DEF MakeDir, TypeOK, Snapshot
<1>2. ASSUME NEW r \in Run, NEW s, SetMine(r, s),
             s.copies[f] \in {Mine(r).copies[f], disk[f]}
      PROVE  snaps'[d][i].copies[f] \in {snaps[d][i].copies[f], disk[f]}
  <2>1. \/ snaps'[d][i] = s /\ Mine(r) = snaps[d][i]
        \/ snaps'[d][i] = snaps[d][i]
    BY <1>2, MineLemma DEF SetMine, TypeOK, Mine
  <2>2. QED
    BY <1>2, <2>1
<1>3. ASSUME NEW r \in Run, CopyFile(r)
      PROVE  snaps'[d][i].copies[f] \in {snaps[d][i].copies[f], disk[f]}
  <2> DEFINE s == [Mine(r) EXCEPT !.copies[Head(run[r].todo)] = disk[Head(run[r].todo)],
                                  !.listed = Append(@, Head(run[r].todo))]
  <2>1. s.copies[f] \in {Mine(r).copies[f], disk[f]}
    BY MineLemma DEF Snapshot
  <2>2. SetMine(r, s)
    BY <1>3 DEF CopyFile
  <2> HIDE DEF s
  <2>3. QED
    BY <1>2, <2>1, <2>2
<1>4. ASSUME NEW r \in Run, CopyLost(r) \/ WriteManifest(r)
      PROVE  snaps'[d][i].copies[f] \in {snaps[d][i].copies[f], disk[f]}
  <2>1. PICK s : SetMine(r, s) /\ s.copies = Mine(r).copies
    <3>1. Mine(r) \in Snapshot
      BY MineLemma
    <3>2. QED
      BY <1>4, <3>1 DEF CopyLost, WriteManifest, Snapshot
  <2>2. QED
    BY <1>2, <2>1
<1>5. QED
  BY <1>1, <1>3, <1>4, SnapsLemma

\* Together: what was saved stays saved, and nothing else is overwritten.
LEMMA ContentStep ==
  ASSUME TypeOK, Structure, CopiesAreGood, OriginalIsKept, [Next]_vars
  PROVE  CopiesAreGood' /\ OriginalIsKept'
<1>1. ASSUME NEW f \in File, Minded(f)' PROVE Minded(f)
  BY <1>1, DiskLemma DEF Minded
<1>2. ASSUME NEW f \in File, Saved(f) PROVE Saved(f)'
  <2>1. PICK d \in Dir, i \in Second :
          /\ snaps[d][i].complete
          /\ In(f, snaps[d][i].listed)
          /\ snaps[d][i].copies[f] = "user"
    BY <1>2 DEF Saved
  <2>2. snaps'[d][i] = snaps[d][i]
    BY <2>1, FinalLemma
  <2>3. QED
    BY <2>1, <2>2 DEF Saved
<1>3. ASSUME NEW f \in File, Minded(f)'
      PROVE  disk'[f] = "user" \/ Saved(f)'
  <2>1. disk[f] = "user" \/ Saved(f)
    BY <1>1, <1>3 DEF OriginalIsKept
  <2>2. CASE disk'[f] = disk[f]
    BY <1>2, <2>1, <2>2
  <2>3. CASE f \in unsaved'
    BY <1>3, <2>3 DEF Minded
  <2>4. CASE \E r \in Run : Held(r, f)
    BY <1>1, <1>2, <1>3, <2>4, HeldLemma
  <2>5. QED
    BY <2>2, <2>3, <2>4, DiskLemma
<1>4. ASSUME NEW f \in File, Minded(f)', NEW d \in Dir, NEW i \in Second
      PROVE  snaps'[d][i].copies[f] \in {"absent", "user"} \/ Saved(f)'
  <2>1. snaps[d][i].copies[f] \in {"absent", "user"} \/ Saved(f)
    BY <1>1, <1>4 DEF CopiesAreGood
  <2>2. disk[f] = "user" \/ Saved(f)
    BY <1>1, <1>4 DEF OriginalIsKept
  <2>3. snaps'[d][i].copies[f] \in {snaps[d][i].copies[f], disk[f]}
    BY CopyLemma
  <2>4. QED
    BY <1>2, <2>1, <2>2, <2>3
<1>5. QED
  BY <1>3, <1>4 DEF CopiesAreGood, OriginalIsKept

\* Before the first command every file is its own original.
LEMMA ContentInit == Init => CopiesAreGood /\ OriginalIsKept
  BY DEF Init, CopiesAreGood, OriginalIsKept, Minded, NoSnapshot

-----------------------------------------------------------------------------
(* The theorems *)

\* Every behaviour is well typed, for any runs, files, commands and handlers.
THEOREM TypeCorrect == Spec => []TypeOK
<1>1. Init => TypeOK
  BY TypeInit
<1>2. TypeOK /\ [Next]_vars => TypeOK'
  BY TypeStep
<1>3. QED
  BY <1>1, <1>2, PTL DEF Spec

\* create_system_snapshot and revert_system_snapshot keep the invariant that
\* says whose a snapshot is, where each run stands and what the copies are.
THEOREM TuningInvariant == Spec => []TuningInv
<1>1. Init => TuningInv
  BY TypeInit, StructureInit, ContentInit DEF TuningInv
<1>2. TuningInv /\ [Next]_vars => TuningInv'
  BY TypeStep, StructureStep, ContentStep DEF TuningInv
<1>3. QED
  BY <1>1, <1>2, PTL DEF Spec

\* A file the user had is in place or can be got back with osm tune revert,
\* unless it was written without a copy in the snapshot of its run.
THEOREM OriginalKept == Spec => []OriginalIsKept
<1>1. TuningInv => OriginalIsKept
  BY DEF TuningInv
<1>2. QED
  BY <1>1, TuningInvariant, PTL

\* Once its manifest is written a snapshot is never changed.
THEOREM SnapshotsAreFinal == Spec => SnapshotsStay
<1>1. TuningInv /\ [Next]_vars
      => [\A d \in Dir, i \in Second :
            snaps[d][i].complete => snaps'[d][i] = snaps[d][i]]_snaps
  BY FinalLemma DEF TuningInv
<1>2. QED
  BY <1>1, TuningInvariant, PTL DEF Spec, SnapshotsStay
=============================================================================
