------------------------------ MODULE Upgrade ------------------------------
(***************************************************************************)
(* The Debian 13 upgrade of scripts/upgrade_debian_trixie.sh: invocations  *)
(* that check, back up /etc/apt, switch it to trixie, ask, and upgrade in  *)
(* phases.  They may be tried again, cut short or run at the same time;    *)
(* they share /etc/apt, the package lists, the packages and APT's lock.    *)
(***************************************************************************)
EXTENDS FiniteSets

CONSTANTS
  Run,    \* invocations of the script
  Third,  \* third-party files sources.list.d/*.list
  Dir,    \* backup directories
  DirOf,  \* DirOf[r]: by its time stamp, or OSM_BACKUP_DIR
  None

ASSUME RunAssumption ==
  /\ None \notin Run
  /\ DirOf \in [Run -> Dir]
  /\ Third \cap {"sources.list", "debian.sources"} = {}

VARIABLES
  etc,        \* /etc/apt: what each file of sources holds
  saved,      \* the copy in each backup directory
  lists,      \* the origins apt-get update found
  unpacked,   \* the origins packages were unpacked from
  dpkg,       \* "broken" when dpkg --audit has something to say
  apt_lock,   \* who holds the lock of APT and dpkg
  mode,       \* what each invocation was asked for
  pc, todo,   \* where it is; the files of a loop it has still to do
  exit,       \* its exit code, "killed", or "none"
  consented   \* history: invocations let past the point of no return

vars == <<etc, saved, lists, unpacked, dpkg, apt_lock, mode, pc, todo, exit,
          consented>>
apt == <<lists, unpacked, dpkg, apt_lock>>

\* A file that was not there before is "original" as long as it is not.
File == Third \cup {"sources.list", "debian.sources"}
Content == {"original", "torn", "trixie", "cleared", "disabled"}
Origin == {"bookworm", "trixie"} \cup Third
Phase == {"minimal", "firmware", "full"}

TypeOK ==
  /\ etc \in [File -> Content]
  /\ saved \in [Dir -> [File -> Content \cup {"none"}]]
  /\ lists \in SUBSET Origin
  /\ unpacked \in SUBSET Origin
  /\ dpkg \in {"clean", "broken"}
  /\ apt_lock \in Run \cup {None}
  /\ mode \in [Run -> {"apply", "backup", "transition", "check"}]
  /\ pc \in [Run -> {"down", "preflight", "backup", "open", "write", "clear",
                     "disable", "confirm", "update", "repair", "ended"}
                    \cup Phase]
  /\ todo \in [Run -> SUBSET File]
  /\ exit \in [Run -> {"none", "0", "1", "2", "3", "killed"}]
  /\ consented \in SUBSET Run

Init ==
  /\ etc = [f \in File |-> "original"]
  /\ saved = [d \in Dir |-> [f \in File |-> "none"]]
  /\ lists = {"bookworm"} \cup Third
  /\ unpacked = {}
  /\ dpkg = "clean"
  /\ apt_lock = None
  /\ mode = [r \in Run |-> "check"]
  /\ pc = [r \in Run |-> "down"]
  /\ todo = [r \in Run |-> {}]
  /\ exit = [r \in Run |-> "none"]
  /\ consented = {}

Go(r, from, to) == pc[r] = from /\ pc' = [pc EXCEPT ![r] = to]

End(r, code) ==
  /\ pc' = [pc EXCEPT ![r] = "ended"]
  /\ exit' = [exit EXCEPT ![r] = code]
  /\ todo' = [todo EXCEPT ![r] = {}]

\* The pipeline goes on to its next phase; the invocation that was for this
\* phase alone has succeeded.
PhaseDone(r, last, next) ==
  /\ pc[r] = last
  /\ \/ /\ mode[r] = "apply"
        /\ pc' = [pc EXCEPT ![r] = next]
        /\ UNCHANGED <<todo, exit>>
     \/ mode[r] # "apply" /\ End(r, "0")

-----------------------------------------------------------------------------
(* Phase 0: pre-flight *)

\* --check, --dry-run and no option at all are the mode "check".
Start(r, m) ==
  /\ Go(r, "down", "preflight")
  /\ mode' = [mode EXCEPT ![r] = m]
  /\ UNCHANGED <<etc, saved, apt, todo, exit, consented>>

\* Any check may fail: power, memory, space, network, a multiplexer.
PreflightFails(r) ==
  /\ pc[r] = "preflight"
  /\ End(r, "2")
  /\ UNCHANGED <<etc, saved, apt, mode, consented>>

\* Past the checks, of which two look at state that is modelled here.
PreflightPasses(r) ==
  /\ pc[r] = "preflight"
  /\ dpkg = "clean"
  /\ apt_lock = None
  /\ \/ /\ mode[r] \in {"apply", "backup"}
        /\ Go(r, "preflight", "backup")
        /\ todo' = [todo EXCEPT ![r] = File]
        /\ UNCHANGED exit
     \/ /\ mode[r] = "transition"
        /\ Go(r, "preflight", "open")
        /\ UNCHANGED <<todo, exit>>
     \/ mode[r] = "check" /\ End(r, "0")
  /\ UNCHANGED <<etc, saved, apt, mode, consented>>

-----------------------------------------------------------------------------
(* Phase 1: backup *)

\* Mutant: only sources.list is copied.
CopyOf_ListOnly(old, f) == IF f = "sources.list" THEN etc[f] ELSE old

\* cp -a /etc/apt/. into the directory: the copy of a file that has been
\* renamed stays there from an earlier time.
CopyOf(old, f) ==
  IF etc[f] = "disabled" /\ old = "original" THEN "original" ELSE etc[f]

CopyFile(r, f) ==
  /\ pc[r] = "backup"
  /\ f \in todo[r]
  /\ saved' = [saved EXCEPT ![DirOf[r]][f] = CopyOf(@, f)]
  /\ todo' = [todo EXCEPT ![r] = @ \ {f}]
  /\ UNCHANGED <<etc, apt, mode, pc, exit, consented>>

\* Mutant: the failure is not returned.
BackupFails_GoesOn(r) ==
  /\ PhaseDone(r, "backup", "open")
  /\ UNCHANGED <<etc, saved, apt, mode, consented>>

\* mkdir, cp or dpkg --get-selections fails; with --backup-only the mirror
\* on the second disk may fail as well, and the shell exits.
BackupFails(r) ==
  /\ pc[r] = "backup"
  /\ \E code \in IF mode[r] = "backup" THEN {"1", "2"} ELSE {"2"} : End(r, code)
  /\ UNCHANGED <<etc, saved, apt, mode, consented>>

BackupDone(r) ==
  /\ todo[r] = {}
  /\ PhaseDone(r, "backup", "open")
  /\ UNCHANGED <<etc, saved, apt, mode, consented>>

-----------------------------------------------------------------------------
(* Phase 2: sources *)

\* Mutant: without nullglob the pattern stands for itself.
ThirdPartyLists_NoNullglob ==
  IF \E f \in Third : etc[f] = "original"
  THEN {f \in Third : etc[f] = "original"} ELSE {"*.list"}

ThirdPartyLists == {f \in Third : etc[f] = "original"}

\* What comes after a step that failed.  The pipeline calls transition_sources
\* in the condition of an if, where errexit is off: it goes on.  With
\* --transition-only the shell exits.
FailedStep(r, next, files) ==
  \/ mode[r] = "transition" /\ End(r, "1")
  \/ /\ mode[r] # "transition"
     /\ pc' = [pc EXCEPT ![r] = next]
     /\ todo' = [todo EXCEPT ![r] = files]
     /\ UNCHANGED exit

\* cat > debian.sources truncates the file, then writes it.
OpenSources(r) ==
  /\ Go(r, "open", "write")
  /\ etc' = [etc EXCEPT !["debian.sources"] = "torn"]
  /\ UNCHANGED <<saved, apt, mode, todo, exit, consented>>

WriteSources(r) ==
  /\ Go(r, "write", "clear")
  /\ etc' = [etc EXCEPT !["debian.sources"] = "trixie"]
  /\ UNCHANGED <<saved, apt, mode, todo, exit, consented>>

SourcesFail(r) ==
  /\ pc[r] \in {"open", "write"}
  /\ FailedStep(r, "clear", {})
  /\ UNCHANGED <<etc, saved, apt, mode, consented>>

\* The legacy list is replaced by a comment; the glob is expanded.
ClearLegacy(r) ==
  /\ Go(r, "clear", "disable")
  /\ etc' = [etc EXCEPT !["sources.list"] = "cleared"]
  /\ todo' = [todo EXCEPT ![r] = ThirdPartyLists]
  /\ UNCHANGED <<saved, apt, mode, exit, consented>>

ClearFails(r) ==
  /\ pc[r] = "clear"
  /\ FailedStep(r, "disable", ThirdPartyLists)
  /\ UNCHANGED <<etc, saved, apt, mode, consented>>

\* mv f f.disabled_for_upgrade
Disable(r, f) ==
  /\ pc[r] = "disable"
  /\ f \in todo[r]
  /\ etc[f] = "original"
  /\ etc' = [etc EXCEPT ![f] = "disabled"]
  /\ todo' = [todo EXCEPT ![r] = @ \ {f}]
  /\ UNCHANGED <<saved, apt, mode, pc, exit, consented>>

\* The mv fails, as it must when another invocation has moved the file.
DisableFails(r, f) ==
  /\ pc[r] = "disable"
  /\ f \in todo[r]
  /\ FailedStep(r, "disable", todo[r] \ {f})
  /\ UNCHANGED <<etc, saved, apt, mode, consented>>

SourcesDone(r) ==
  /\ todo[r] = {}
  /\ PhaseDone(r, "disable", "confirm")
  /\ UNCHANGED <<etc, saved, apt, mode, consented>>

-----------------------------------------------------------------------------
(* The point of no return, phases 3 and 4 *)

\* YES, or --non-interactive.
Confirm(r) ==
  /\ Go(r, "confirm", "update")
  /\ consented' = consented \cup {r}
  /\ UNCHANGED <<etc, saved, apt, mode, todo, exit>>

\* Mutant: the answer is not looked at.
Decline_GoesOn(r) ==
  /\ Go(r, "confirm", "update")
  /\ UNCHANGED <<etc, saved, apt, mode, todo, exit, consented>>

Decline(r) ==
  /\ pc[r] = "confirm"
  /\ End(r, "1")
  /\ UNCHANGED <<etc, saved, apt, mode, consented>>

\* Before the switch there is no debian.sources.
Offers ==
  (IF etc["sources.list"] = "original" THEN {"bookworm"} ELSE {})
  \cup (IF etc["debian.sources"] = "trixie" THEN {"trixie"} ELSE {})
  \cup ThirdPartyLists

\* apt-get update
Update(r) ==
  /\ Go(r, "update", "minimal")
  /\ apt_lock = None
  /\ lists' = Offers
  /\ UNCHANGED <<etc, saved, unpacked, dpkg, apt_lock, mode, todo, exit,
                 consented>>

\* upgrade, install or full-upgrade starts to unpack; APT refuses to while
\* packages are broken.
BeginApt(r) ==
  /\ pc[r] \in Phase
  /\ apt_lock = None
  /\ dpkg = "clean"
  /\ apt_lock' = r
  /\ dpkg' = "broken"
  /\ unpacked' = unpacked \cup lists
  /\ UNCHANGED <<etc, saved, lists, mode, pc, todo, exit, consented>>

AfterPhase(p) == IF p = "minimal" THEN "firmware" ELSE "full"

EndApt(r) ==
  /\ apt_lock = r
  /\ apt_lock' = None
  /\ dpkg' = "clean"
  /\ IF pc[r] = "full" THEN End(r, "0")
     ELSE /\ pc' = [pc EXCEPT ![r] = AfterPhase(pc[r])]
          /\ UNCHANGED <<todo, exit>>
  /\ UNCHANGED <<etc, saved, lists, unpacked, mode, consented>>

\* Mutant: run_full_upgrade goes on after an error as the firmware does.
FailApt_Success(r) ==
  /\ pc[r] \in Phase \cup {"update"}
  /\ apt_lock' = IF apt_lock = r THEN None ELSE apt_lock
  /\ IF pc[r] = "full" THEN End(r, "0")
     ELSE /\ pc' = [pc EXCEPT ![r] =
                      IF @ = "firmware" THEN "full" ELSE "repair"]
          /\ UNCHANGED <<todo, exit>>
  /\ UNCHANGED <<etc, saved, lists, unpacked, dpkg, mode, consented>>

\* The command fails before or after it has unpacked something.  That of
\* the firmware is only warned about.
FailApt(r) ==
  /\ pc[r] \in Phase \cup {"update"}
  /\ apt_lock' = IF apt_lock = r THEN None ELSE apt_lock
  /\ pc' = [pc EXCEPT ![r] = IF @ = "firmware" THEN "full" ELSE "repair"]
  /\ UNCHANGED <<etc, saved, lists, unpacked, dpkg, mode, todo, exit,
                 consented>>

\* dpkg --configure -a and apt-get install -f, whose results are ignored;
\* they need the lock too.
Repair(r) ==
  /\ pc[r] = "repair"
  /\ dpkg' \in IF apt_lock = None THEN {dpkg, "clean"} ELSE {dpkg}
  /\ unpacked' = IF dpkg' # dpkg THEN unpacked \cup lists ELSE unpacked
  /\ End(r, "3")
  /\ UNCHANGED <<etc, saved, lists, apt_lock, mode, consented>>

-----------------------------------------------------------------------------
(* The outside *)

\* Loss of power, a closed terminal, a signal.
Kill(r) ==
  /\ pc[r] \notin {"down", "ended"}
  /\ End(r, "killed")
  /\ apt_lock' = IF apt_lock = r THEN None ELSE apt_lock
  /\ UNCHANGED <<etc, saved, lists, unpacked, dpkg, mode, consented>>

\* The rescue script, from a live system: what it does for packages.
Rescue ==
  /\ dpkg = "broken"
  /\ apt_lock = None
  /\ dpkg' = "clean"
  /\ unpacked' = unpacked \cup lists
  /\ UNCHANGED <<etc, saved, lists, apt_lock, mode, pc, todo, exit, consented>>

Preflight(r) ==
  \/ \E m \in {"apply", "backup", "transition", "check"} : Start(r, m)
  \/ PreflightFails(r) \/ PreflightPasses(r)

CreateBackup(r) ==
  \/ \E f \in File : CopyFile(r, f)
  \/ BackupFails(r) \/ BackupDone(r)

TransitionSources(r) ==
  \/ OpenSources(r) \/ WriteSources(r) \/ SourcesFail(r)
  \/ ClearLegacy(r) \/ ClearFails(r)
  \/ \E f \in Third : Disable(r, f) \/ DisableFails(r, f)
  \/ SourcesDone(r)

Upgrading(r) ==
  \/ Confirm(r) \/ Decline(r)
  \/ Update(r) \/ BeginApt(r) \/ EndApt(r) \/ FailApt(r) \/ Repair(r)

Next ==
  \/ \E r \in Run : Preflight(r) \/ CreateBackup(r) \/ TransitionSources(r)
                    \/ Upgrading(r) \/ Kill(r)
  \/ Rescue

Spec == Init /\ [][Next]_vars

-----------------------------------------------------------------------------
(* Properties *)

Pristine == \A f \in File : etc[f] = "original"

\* --transition-only switches without a backup.
Unprotected ==
  \E r \in Run : mode[r] = "transition" /\ pc[r] \notin {"down", "preflight"}

HasOriginal(d) == \A f \in File : saved[d][f] = "original"

\* From the moment /etc/apt is touched, and whatever fails, dies, is tried
\* again or runs at the same time, some backup holds what was there before
\* (design document, phase 1 before phase 2).
OriginalIsKept ==
  Pristine \/ Unprotected \/ \E r \in Run : HasOriginal(DirOf[r])

Copying == {"down", "preflight", "backup"}
Switching == {"open", "write", "clear", "disable"}

\* Why: while nothing is touched, what a run has copied is original; once
\* something is, a run that will not copy again has it all.
KeeperExists ==
  \/ Unprotected
  \/ IF Pristine
     THEN \A r \in Run :
            /\ pc[r] = "backup" =>
                 \A f \in File \ todo[r] : saved[DirOf[r]][f] = "original"
            /\ mode[r] = "apply" /\ pc[r] \in Switching =>
                 HasOriginal(DirOf[r])
     ELSE \E r \in Run : pc[r] \notin Copying /\ HasOriginal(DirOf[r])

HasAll(d) == \A f \in File : saved[d][f] # "none"

\* Nothing is unpacked, not by a repair either, before somebody was asked and
\* said yes, after a backup of every file (upgrade_debian_trixie.sh:831).
UnpackedWithConsent ==
  unpacked # {} => \E r \in consented : HasAll(DirOf[r])

\* Why: a run gets to its question with its backup, and to its packages
\* with its question.
ConsentInv ==
  /\ \A r \in Run :
       /\ pc[r] = "backup" =>
            \A f \in File \ todo[r] : saved[DirOf[r]][f] # "none"
       /\ mode[r] = "apply" /\ pc[r] \in Switching \cup {"confirm"} =>
            HasAll(DirOf[r])
       /\ pc[r] \in Switching => mode[r] \in {"apply", "transition"}
       /\ pc[r] = "confirm" => mode[r] = "apply"
       /\ pc[r] \in Phase \cup {"update", "repair"} => r \in consented
       /\ r \in consented => HasAll(DirOf[r])
  /\ unpacked # {} \/ dpkg = "broken" => consented # {}

\* The lock is with a run that was let past the point of no return.
LockIsConsented ==
  apt_lock # None => pc[apt_lock] \in Phase /\ dpkg = "broken"

\* An exit code is for good.
CodeIsFinal == \A r \in Run : exit[r] # "none" => pc[r] = "ended"

\* Broken packages are never silent: unless APT is at work, a run has been
\* cut short, or has reported the failure, or is about to, although the
\* failure of the firmware is passed over (upgrade_debian_trixie.sh:768).
BreakageIsReported ==
  dpkg = "broken" /\ apt_lock = None =>
    \E r \in consented : exit[r] \in {"3", "killed"}
                          \/ pc[r] \in {"full", "repair"}

UpgradeInv ==
  /\ TypeOK
  /\ KeeperExists
  /\ ConsentInv
  /\ LockIsConsented
  /\ CodeIsFinal
  /\ BreakageIsReported

\* Packages come from trixie alone: every other source has been cleared or
\* disabled before the upgrade.
TrixieOnly == unpacked \subseteq {"trixie"}
=============================================================================
