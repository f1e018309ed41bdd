------------------------------ MODULE Desktop ------------------------------
(***************************************************************************)
(* osm tune desktop (commands/tune_macos.py, commands/tune.py): runs that  *)
(* dump the GNOME settings to a snapshot, install the themes through one   *)
(* sandbox directory, set the keys of a preset one by one, or load a       *)
(* snapshot.  Runs overlap, and any of their commands may fail.            *)
(***************************************************************************)
EXTENDS Naturals, Sequences

CONSTANTS
  Session,       \* runs of osm tune desktop
  Preset,        \* those that are used
  Theme,         \* the themes, in the order they are installed
  Mode,          \* "Dark", "Light"
  MaxSnapshots

VARIABLES
  orig,       \* history: the settings before the first run
  settings,   \* what dconf holds; "default": nothing for that key
  snaps,      \* the snapshot files, by name and so by time
  sandbox,    \* clones in /tmp/osm-macos-build
  installed,  \* <<theme, mode>>
  session,    \* the runs
  unsaved     \* history: keys set by a run that has no snapshot

vars == <<orig, settings, snaps, sandbox, installed, session, unsaved>>

\* One key for each set of presets: all, macos, macos-full, standard.
Key == {"button-layout", "gtk-theme", "blur", "night-light"}

Matrix(preset, mode) ==
  CASE preset = "standard" -> <<<<"button-layout", "right">>, <<"night-light", "true">>>>
    [] preset = "macos-core" -> <<<<"button-layout", "left">>, <<"gtk-theme", mode>>>>
    [] preset = "macos-full" -> <<<<"button-layout", "left">>, <<"gtk-theme", mode>>,
                                  <<"blur", "true">>>>

Op(op, arg) == [op |-> op, arg |-> arg]

Setters(preset, mode) ==
  LET m == Matrix(preset, mode) IN [i \in DOMAIN m |-> Op("set", m[i])]

\* Clone and installer of each theme.
Installers(mode) ==
  [i \in 1..(2 * Len(Theme)) |-> Op(IF i % 2 = 1 THEN "clone" ELSE "install",
                                <<Theme[(i + 1) \div 2], mode>>)]

Clean == Op("clean", <<>>)

\* run_macos_desktop_pipeline; the standard preset only sets its keys.
Pipeline(preset, mode) ==
  IF preset = "standard" THEN Setters(preset, mode)
  ELSE <<Op("open", <<>>), Op("dump", <<>>), Clean>> \o Installers(mode)
         \o <<Clean>> \o Setters(preset, mode)

\* The keys do not depend on each other: one that the user has set is enough.
Init ==
  /\ \E k \in Key : orig = [j \in Key |-> IF j = k THEN "user" ELSE "default"]
  /\ settings = orig
  /\ snaps = <<>> /\ sandbox = {} /\ installed = {} /\ unsaved = {}
  /\ session = [r \in Session |->
       [mode |-> "none", todo |-> <<>>, snap |-> 0, ok |-> TRUE, pc |-> "down"]]

Before(r, op) == session[r].todo # <<>> /\ Head(session[r].todo).op = op
Arg(r) == Head(session[r].todo).arg
Rest(r) == Tail(session[r].todo)
Then(r, todo) == session' = [session EXCEPT ![r].todo = todo]

Apply(r) ==
  /\ session[r].pc = "down"
  /\ \E preset \in Preset, mode \in Mode :
       session' = [session EXCEPT ![r] =
         [mode |-> mode, todo |-> Pipeline(preset, mode), snap |-> 0, ok |-> TRUE,
          pc |-> preset]]
  /\ UNCHANGED <<orig, settings, snaps, sandbox, installed, unsaved>>

\* desktop backup.
Backup(r) ==
  /\ session[r].pc = "down"
  /\ session' = [session EXCEPT ![r] =
       [mode |-> "none", todo |-> <<Op("open", <<>>), Op("dump", <<>>)>>, snap |-> 0,
        ok |-> TRUE, pc |-> "backup"]]
  /\ UNCHANGED <<orig, settings, snaps, sandbox, installed, unsaved>>

Nothing == [k \in Key |-> "default"]

\* Mutant: one name for every snapshot.
NewFile_OneName == <<Nothing>>

\* desktop-<local second>, opened before anything is dumped.
NewFile == Append(snaps, Nothing)

OpenSnapshot(r) ==
  /\ Before(r, "open")
  /\ Len(snaps) < MaxSnapshots
  /\ snaps' = NewFile
  /\ session' = [session EXCEPT ![r].todo = Rest(r), ![r].snap = Len(snaps')]
  /\ UNCHANGED <<orig, settings, sandbox, installed, unsaved>>

\* dconf dump writes the keys that are not at their default.
Dump(r) ==
  /\ Before(r, "dump")
  /\ snaps' = [snaps EXCEPT ![session[r].snap] = settings]
  /\ Then(r, Rest(r))
  /\ UNCHANGED <<orig, settings, sandbox, installed, unsaved>>

\* The answer is None, the empty file stays, and the pipeline goes on.
DumpFails(r) ==
  /\ Before(r, "dump")
  /\ session' = [session EXCEPT ![r].todo = Rest(r), ![r].snap = 0]
  /\ UNCHANGED <<orig, settings, snaps, sandbox, installed, unsaved>>

CleanSandbox(r) ==
  /\ Before(r, "clean")
  /\ sandbox' = {}
  /\ Then(r, Rest(r))
  /\ UNCHANGED <<orig, settings, snaps, installed, unsaved>>

\* git clone wants no directory of that name.
Clone(r) ==
  /\ Before(r, "clone")
  /\ Arg(r)[1] \notin sandbox
  /\ sandbox' = sandbox \cup {Arg(r)[1]}
  /\ Then(r, Rest(r))
  /\ UNCHANGED <<orig, settings, snaps, installed, unsaved>>

\* Another run may have cleaned the clone away.
Install(r) ==
  /\ Before(r, "install")
  /\ Arg(r)[1] \in sandbox
  /\ installed' = installed \cup {Arg(r)}
  /\ Then(r, Rest(r))
  /\ UNCHANGED <<orig, settings, snaps, sandbox, unsaved>>

\* Mutant: the loop goes on.
AfterFailure_GoesOn(r) == session' = [session EXCEPT ![r].todo = Rest(r)]

\* The first command that fails ends the loop; the sandbox is cleaned and the
\* keys are set all the same.
AfterFailure(r) ==
  \E i \in DOMAIN session[r].todo :
    /\ session[r].todo[i] = Clean
    /\ session' = [session EXCEPT ![r].ok = FALSE,
                                 ![r].todo = SubSeq(@, i, Len(@))]

InstallFails(r) ==
  /\ Before(r, "clone") \/ Before(r, "install")
  /\ AfterFailure(r)
  /\ UNCHANGED <<orig, settings, snaps, sandbox, installed, unsaved>>

SetKey(r) ==
  /\ Before(r, "set")
  /\ settings' = [settings EXCEPT ![Arg(r)[1]] = Arg(r)[2]]
  /\ unsaved' = IF session[r].snap = 0 THEN unsaved \cup {Arg(r)[1]} ELSE unsaved
  /\ Then(r, Rest(r))
  /\ UNCHANGED <<orig, snaps, sandbox, installed>>

SetFails(r) ==
  /\ Before(r, "set")
  /\ session' = [session EXCEPT ![r].todo = Rest(r), ![r].ok = FALSE]
  /\ UNCHANGED <<orig, settings, snaps, sandbox, installed, unsaved>>

Finish(r) ==
  /\ session[r].pc \notin {"down", "done", "dead"}
  /\ session[r].todo = <<>>
  /\ session' = [session EXCEPT ![r].pc = "done"]
  /\ UNCHANGED <<orig, settings, snaps, sandbox, installed, unsaved>>

Kill(r) ==
  /\ session[r].todo # <<>>
  /\ session' = [session EXCEPT ![r].todo = <<>>, ![r].pc = "dead"]
  /\ UNCHANGED <<orig, settings, snaps, sandbox, installed, unsaved>>

\* desktop restore of any snapshot, the newest by default: dconf load sets the
\* keys of the file and leaves the others.
Restore ==
  /\ \E i \in DOMAIN snaps :
       settings' = [k \in Key |-> IF snaps[i][k] = "default" THEN settings[k]
                                                             ELSE snaps[i][k]]
  /\ UNCHANGED <<orig, snaps, sandbox, installed, session, unsaved>>

Next ==
  Restore \/ \E r \in Session :
    \/ Apply(r) \/ Backup(r) \/ OpenSnapshot(r) \/ Dump(r) \/ DumpFails(r)
    \/ CleanSandbox(r) \/ Clone(r) \/ Install(r) \/ InstallFails(r)
    \/ SetKey(r) \/ SetFails(r) \/ Finish(r) \/ Kill(r)

Spec == Init /\ [][Next]_vars

-----------------------------------------------------------------------------
(* Properties *)

\* A setting of the user that no run without a snapshot has overwritten is in
\* place or in a snapshot file.
SettingsKept ==
  \A k \in Key : orig[k] = "user" /\ k \notin unsaved =>
    settings[k] = "user" \/ \E i \in DOMAIN snaps : snaps[i][k] = "user"

\* A run of a macos preset that answers success has every theme of its mode
\* installed, although another run may clean the sandbox they share at any
\* moment.
SuccessIsInstalled ==
  \A r \in Session :
    session[r].pc = "done" /\ session[r].ok /\ session[r].snap # 0 /\ session[r].mode # "none" =>
      \A i \in DOMAIN Theme : <<Theme[i], session[r].mode>> \in installed

\* Overlapping runs of the desktop lose no setting they saved and claim no
\* theme they did not install.
DesktopSafe == SettingsKept /\ SuccessIsInstalled
=============================================================================
