------------------------------- MODULE Tuning -------------------------------
(***************************************************************************)
(* Snapshots of osm tune (commands/tune.py): runs of the command, as root  *)
(* or not, that save the files of a handler and write them, or put back    *)
(* what a snapshot holds.  They share the disk and the two directories of  *)
(* snapshots; any of them may be cut short, fail, or overlap another.      *)
(* A file is truncated before it is filled, and is "torn" in between.      *)
(***************************************************************************)
EXTENDS Integers, Sequences

CONSTANTS
  Run,        \* invocations of osm tune
  File,       \* the configuration files looked at
  UserFile,   \* those that belong to the user who runs the command
  Command,    \* the subcommands
  HandlerOf,  \* HandlerOf[c]: targets, writes and guarded (TuneDomains)
  MaxSecond   \* bound on the clock

ASSUME TuningAssumption ==
  /\ UserFile \subseteq File
  /\ {"none", "revert"} \cap Command = {}
  /\ MaxSecond \in Nat
  /\ \A c \in Command :
       /\ HandlerOf[c].targets \in Seq(File)
       /\ HandlerOf[c].writes \in Seq(File)
       /\ HandlerOf[c].guarded \in SUBSET File

VARIABLES
  orig,     \* history: the disk before the first run
  disk,     \* the files
  snaps,    \* snaps[d][i]: the snapshot snap_<i> in directory d
  second,   \* the time of day
  run,      \* the invocations
  unsaved   \* history: files written with no copy in the run's own snapshot

vars == <<orig, disk, snaps, second, run, unsaved>>

Second == 0..MaxSecond
Dir == {"system", "home"}  \* /var/backups/osm/snapshots, ~/.local/share/osm/snapshots
Content == {"absent", "user", "tuned", "torn"}
Applying == {"mkdir", "copy", "write", "fill"}
Ended == {"done", "failed", "dead"}

In(f, files) == \E i \in 1..Len(files) : files[i] = f

NoSnapshot ==
  [made |-> FALSE, copies |-> [f \in File |-> "absent"], listed |-> <<>>,
   complete |-> FALSE]

Snapshot ==
  [made : BOOLEAN, copies : [File -> Content], listed : Seq(File),
   complete : BOOLEAN]

RunState ==
  [pc : {"down", "restore", "refill"} \cup Applying \cup Ended,
   command : Command \cup {"none", "revert"}, root : BOOLEAN,
   dir : Dir, id : Second, todo : Seq(File)]

TypeOK ==
  /\ orig \in [File -> {"absent", "user"}]
  /\ disk \in [File -> Content]
  /\ snaps \in [Dir -> [Second -> Snapshot]]
  /\ second \in Second
  /\ run \in [Run -> RunState]
  /\ unsaved \in SUBSET File
  /\ \A r \in Run : run[r].pc \in Applying => run[r].command \in Command

Init ==
  /\ orig \in [File -> {"absent", "user"}]
  /\ disk = orig
  /\ snaps = [d \in Dir |-> [i \in Second |-> NoSnapshot]]
  /\ second = 0
  /\ run = [r \in Run |->
              [pc |-> "down", command |-> "none", root |-> FALSE,
               dir |-> "system", id |-> 0, todo |-> <<>>]]
  /\ unsaved = {}

At(r, pc) == run[r].pc = pc

Go(r, pc, todo) == run' = [run EXCEPT ![r].pc = pc, ![r].todo = todo]

\* The snapshot of a run, and what one more file does to it.
Mine(r) == snaps[run[r].dir][run[r].id]

SetMine(r, s) == snaps' = [snaps EXCEPT ![run[r].dir][run[r].id] = s]

-----------------------------------------------------------------------------
(* create_system_snapshot *)

\* Mutant: a coarser time.
SnapId_Coarse(t) == (t \div 2) * 2

\* snap_<UTC to the second>
SnapId(t) == t

\* Two snapshots are not begun in the same second (see README).
DistinctSeconds(r) ==
  \A q \in Run : run[q].command \in Command => run[q].id # second

\* The handlers that take no snapshot write at once.
BeginApply(r, c, root) ==
  /\ At(r, "down")
  /\ DistinctSeconds(r)
  /\ \E pc \in {"mkdir", "write"} :
       /\ pc = "mkdir" <=> HandlerOf[c].targets # <<>>
       /\ run' = [run EXCEPT ![r] =
                    [pc |-> pc, command |-> c, root |-> root, dir |-> "system",
                     id |-> SnapId(second),
                     todo |-> IF pc = "mkdir" THEN HandlerOf[c].targets
                                              ELSE HandlerOf[c].writes]]
  /\ UNCHANGED <<orig, disk, snaps, second, unsaved>>

\* mkdir(exist_ok=True): an unprivileged run may use the system's directory
\* only when it is there, and turns to its home directory otherwise.
MakeDir(r) ==
  /\ At(r, "mkdir")
  /\ \E d \in Dir :
       /\ d = "system" <=> run[r].root \/ snaps["system"][run[r].id].made
       /\ run' = [run EXCEPT ![r].pc = "copy", ![r].dir = d]
       /\ snaps' = [snaps EXCEPT ![d][run[r].id].made = TRUE]
  /\ UNCHANGED <<orig, disk, second, unsaved>>

CopyFile(r) ==
  /\ At(r, "copy")
  /\ run[r].todo # <<>>
  /\ LET f == Head(run[r].todo)
     IN  /\ disk[f] # "absent"
         /\ SetMine(r, [Mine(r) EXCEPT !.copies[f] = disk[f],
                                       !.listed = Append(@, f)])
  /\ Go(r, "copy", Tail(run[r].todo))
  /\ UNCHANGED <<orig, disk, second, unsaved>>

SkipAbsent(r) ==
  /\ At(r, "copy")
  /\ run[r].todo # <<>>
  /\ disk[Head(run[r].todo)] = "absent"
  /\ Go(r, "copy", Tail(run[r].todo))
  /\ UNCHANGED <<orig, disk, snaps, second, unsaved>>

\* The copy is refused and sudo cp fails too: the file is listed all the same.
CopyLost(r) ==
  /\ At(r, "copy")
  /\ run[r].todo # <<>>
  /\ LET f == Head(run[r].todo)
     IN  /\ disk[f] # "absent"
         /\ SetMine(r, [Mine(r) EXCEPT !.listed = Append(@, f)])
  /\ Go(r, "copy", Tail(run[r].todo))
  /\ UNCHANGED <<orig, disk, second, unsaved>>

WriteManifest(r) ==
  /\ At(r, "copy")
  /\ run[r].todo = <<>>
  /\ SetMine(r, [Mine(r) EXCEPT !.complete = TRUE])
  /\ Go(r, "write", HandlerOf[run[r].command].writes)
  /\ UNCHANGED <<orig, disk, second, unsaved>>

\* Any other exception, or a sudo tee of the manifest that fails: there is no
\* manifest, and the handlers do not look at the answer.
SnapshotFails(r) ==
  /\ run[r].pc \in {"mkdir", "copy"}
  /\ Go(r, "write", HandlerOf[run[r].command].writes)
  /\ UNCHANGED <<orig, disk, snaps, second, unsaved>>

-----------------------------------------------------------------------------
(* What a handler writes *)

Held(r, f) == Mine(r).complete /\ In(f, Mine(r).listed) /\ Mine(r).copies[f] # "absent"

OpenFile(r) ==
  /\ At(r, "write")
  /\ run[r].todo # <<>>
  /\ LET f == Head(run[r].todo)
     IN  /\ f = "fstab" => disk[f] # "absent"
         /\ disk' = [disk EXCEPT ![f] = "torn"]
         /\ unsaved' = unsaved \cup {g \in {f} : ~Held(r, f)}
  /\ Go(r, "fill", run[r].todo)
  /\ UNCHANGED <<orig, snaps, second>>

FillFile(r) ==
  /\ At(r, "fill")
  /\ run[r].todo # <<>>
  /\ disk' = [disk EXCEPT ![Head(run[r].todo)] = "tuned"]
  /\ Go(r, "write", Tail(run[r].todo))
  /\ UNCHANGED <<orig, snaps, second, unsaved>>

\* There is no fstab or it names ntfs3 already; the bookmark or the hooks of
\* .bashrc are there.
NothingToWrite(r) ==
  /\ At(r, "write")
  /\ run[r].todo # <<>>
  /\ LET f == Head(run[r].todo)
     IN  f = "fstab" \/ (f \in {"bookmarks", ".bashrc"} /\ disk[f] # "absent")
  /\ Go(r, "write", Tail(run[r].todo))
  /\ UNCHANGED <<orig, disk, snaps, second, unsaved>>

\* A sudo tee whose failure nobody looks at, or a write in a try.
Swallowed(r, f) ==
  \/ f \in HandlerOf[run[r].command].guarded
  \/ ~run[r].root /\ f \notin UserFile

\* The write fails, before or after the file is truncated.
WriteFails(r) ==
  /\ run[r].pc \in {"write", "fill"}
  /\ run[r].todo # <<>>
  /\ \/ /\ Swallowed(r, Head(run[r].todo))
        /\ Go(r, "write", Tail(run[r].todo))
     \/ /\ ~Swallowed(r, Head(run[r].todo))
        /\ Go(r, "failed", <<>>)
  /\ UNCHANGED <<orig, disk, snaps, second, unsaved>>

FinishApply(r) ==
  /\ At(r, "write")
  /\ run[r].todo = <<>>
  /\ Go(r, "done", <<>>)
  /\ UNCHANGED <<orig, disk, snaps, second, unsaved>>

-----------------------------------------------------------------------------
(* revert_system_snapshot *)

\* list_system_snapshots: the manifests a run finds; root does not look into
\* the home directory of another user.
ListedIn(d, root) ==
  {i \in Second : snaps[d][i].complete /\ (d = "home" => ~root)}

\* Mutant: without the way to the home directory.
PathOf_System(i) == "system"

\* Where the copies are looked for.
PathOf(i) == IF snaps["system"][i].made THEN "system" ELSE "home"

BeginRevert(r, root, d, i) ==
  /\ At(r, "down")
  /\ i \in ListedIn(d, root)
  /\ d = "home" => i \notin ListedIn("system", root)
  /\ run' = [run EXCEPT ![r] =
               [pc |-> "restore", command |-> "revert", root |-> root,
                dir |-> PathOf(i), id |-> i, todo |-> snaps[d][i].listed]]
  /\ UNCHANGED <<orig, disk, snaps, second, unsaved>>

\* No snapshot, or none of that identifier.
NothingToRevert(r, root) ==
  /\ At(r, "down")
  /\ run' = [run EXCEPT ![r].pc = "failed", ![r].command = "revert",
                        ![r].root = root]
  /\ UNCHANGED <<orig, disk, snaps, second, unsaved>>

OpenRestore(r) ==
  /\ At(r, "restore")
  /\ run[r].todo # <<>>
  /\ Mine(r).copies[Head(run[r].todo)] # "absent"
  /\ disk' = [disk EXCEPT ![Head(run[r].todo)] = "torn"]
  /\ Go(r, "refill", run[r].todo)
  /\ UNCHANGED <<orig, snaps, second, unsaved>>

FillRestore(r) ==
  /\ At(r, "refill")
  /\ run[r].todo # <<>>
  /\ disk' = [disk EXCEPT ![Head(run[r].todo)] = Mine(r).copies[Head(run[r].todo)]]
  /\ Go(r, "restore", Tail(run[r].todo))
  /\ UNCHANGED <<orig, snaps, second, unsaved>>

\* The snapshot lists a file of which it has no copy.
SkipRestore(r) ==
  /\ At(r, "restore")
  /\ run[r].todo # <<>>
  /\ Mine(r).copies[Head(run[r].todo)] = "absent"
  /\ Go(r, "restore", Tail(run[r].todo))
  /\ UNCHANGED <<orig, disk, snaps, second, unsaved>>

\* Without privilege a failed sudo cp counts as restored; with it the copy
\* raises and the rest is not restored.
RestoreFails(r) ==
  /\ run[r].pc \in {"restore", "refill"}
  /\ run[r].todo # <<>>
  /\ \/ ~run[r].root /\ Go(r, "restore", Tail(run[r].todo))
     \/ Go(r, "failed", <<>>)
  /\ UNCHANGED <<orig, disk, snaps, second, unsaved>>

\* Mutant: a snapshot is dropped when it has been put back.
FinishRevert_Drops(r) ==
  /\ At(r, "restore")
  /\ run[r].todo = <<>>
  /\ Go(r, "done", <<>>)
  /\ SetMine(r, NoSnapshot)
  /\ UNCHANGED <<orig, disk, second, unsaved>>

FinishRevert(r) ==
  /\ At(r, "restore")
  /\ run[r].todo = <<>>
  /\ Go(r, "done", <<>>)
  /\ UNCHANGED <<orig, disk, snaps, second, unsaved>>

-----------------------------------------------------------------------------
Kill(r) ==
  /\ run[r].pc \notin Ended \cup {"down"}
  /\ Go(r, "dead", <<>>)
  /\ UNCHANGED <<orig, disk, snaps, second, unsaved>>

Tick ==
  /\ second < MaxSecond
  /\ second' = second + 1
  /\ UNCHANGED <<orig, disk, snaps, run, unsaved>>

Snapshotting(r) ==
  MakeDir(r) \/ CopyFile(r) \/ SkipAbsent(r) \/ CopyLost(r)
    \/ WriteManifest(r) \/ SnapshotFails(r)

Writing(r) ==
  OpenFile(r) \/ FillFile(r) \/ NothingToWrite(r) \/ WriteFails(r)
    \/ FinishApply(r)

Restoring(r) ==
  OpenRestore(r) \/ FillRestore(r) \/ SkipRestore(r) \/ RestoreFails(r)
    \/ FinishRevert(r)

Begin(r) ==
  \E root \in BOOLEAN :
    \/ \E c \in Command : BeginApply(r, c, root)
    \/ \E d \in Dir, i \in Second : BeginRevert(r, root, d, i)
    \/ NothingToRevert(r, root)

Next ==
  Tick \/ \E r \in Run :
            Begin(r) \/ Snapshotting(r) \/ Writing(r) \/ Restoring(r) \/ Kill(r)

Spec == Init /\ [][Next]_vars

-----------------------------------------------------------------------------
(* Properties *)

Saved(f) ==
  \E d \in Dir, i \in Second :
    /\ snaps[d][i].complete
    /\ In(f, snaps[d][i].listed)
    /\ snaps[d][i].copies[f] = "user"

Minded(f) == orig[f] = "user" /\ f \notin unsaved

\* A file the user had, and that was never written without a copy in the
\* snapshot of the run that wrote it, is in its place or in a snapshot that
\* revert can find: through any runs, overlaps, reverts, failures and deaths.
OriginalIsKept ==
  \A f \in File : Minded(f) => disk[f] = "user" \/ Saved(f)

\* An identifier belongs to one run and one directory.
IdsAreOwn ==
  /\ \A q, r \in Run :
       /\ run[q].command \in Command
       /\ run[r].command \in Command
       /\ run[q].id = run[r].id
       => q = r
  /\ \A d \in Dir, i \in Second : snaps[d][i].made =>
       \E q \in Run : run[q].command \in Command /\ run[q].id = i
  /\ \A i \in Second : ~(snaps["system"][i].made /\ snaps["home"][i].made)

\* What the place a run has reached says of its snapshot and of its work.
Place(r) ==
  /\ At(r, "down") => run[r].command = "none"
  /\ At(r, "mkdir") => \A d \in Dir : ~snaps[d][run[r].id].made
  /\ At(r, "copy") => Mine(r).made /\ ~Mine(r).complete
  /\ At(r, "fill") =>
       /\ run[r].todo # <<>>
       /\ Held(r, Head(run[r].todo)) \/ Head(run[r].todo) \in unsaved
  /\ run[r].pc \in {"restore", "refill"} =>
       /\ run[r].command = "revert"
       /\ Mine(r).complete
       /\ \A f \in File : In(f, run[r].todo) => In(f, Mine(r).listed)
  /\ At(r, "refill") =>
       run[r].todo # <<>> /\ Mine(r).copies[Head(run[r].todo)] # "absent"

\* A directory that is not there is empty.
MadeFirst ==
  \A d \in Dir, i \in Second : ~snaps[d][i].made => snaps[d][i] = NoSnapshot

\* A copy that is not the original was taken when the original was saved.
CopiesAreGood ==
  \A d \in Dir, i \in Second, f \in File :
    Minded(f) => snaps[d][i].copies[f] \in {"absent", "user"} \/ Saved(f)

Structure == IdsAreOwn /\ MadeFirst /\ \A r \in Run : Place(r)

\* The inductive invariant of the snapshots.
TuningInv == TypeOK /\ Structure /\ CopiesAreGood /\ OriginalIsKept

\* A snapshot that has its manifest is never changed again, by any run.
SnapshotsStay ==
  [][\A d \in Dir, i \in Second :
       snaps[d][i].complete => snaps'[d][i] = snaps[d][i]]_snaps
=============================================================================
