--------------------------- MODULE FstabMigration ---------------------------
(***************************************************************************)
(* migrate_ntfs_driver (commands/tune.py): runs that rewrite the entry of  *)
(* /mnt/data in /etc/fstab from ntfs-3g to ntfs3, after a backup, and      *)
(* mount the volume anew, or put the backup back when that fails.  They    *)
(* may overlap, fail and die.  The file is seen as its entry: a content    *)
(* read while it is being written, or made of such a one, is "empty".      *)
(***************************************************************************)
CONSTANTS
  Migration,  \* calls of migrate_ntfs_driver
  OtherNtfs   \* TRUE: another line of fstab names ntfs-3g as well

VARIABLES
  orig,     \* history: the entry before the first run
  fstab,
  backup,   \* backup[m]: fstab.bak.<second> of m, "none": not made
  mounted,  \* the driver /mnt/data is mounted with, "none": it is not
  job       \* where each migration stands

vars == <<orig, fstab, backup, mounted, job>>

Entry == {"ntfs-3g", "ntfs3", "hardened"}

Migrated(content, hardened) ==
  /\ content # "ntfs-3g" /\ content # "empty"
  /\ ~OtherNtfs
  /\ hardened => content = "hardened"

\* Plain, only an ntfs-3g entry is replaced; hardened, one of ntfs3 too.
NewEntry(content, hardened) ==
  CASE content = "empty" -> "empty"
    [] content # "empty" /\ hardened -> "hardened"
    [] content = "ntfs-3g" /\ ~hardened -> "ntfs3"
    [] OTHER -> content

Init ==
  /\ orig \in Entry
  /\ fstab = orig
  /\ backup = [m \in Migration |-> "none"]
  /\ mounted \in {"none", orig}
  /\ job \in [Migration -> [pc : {"call"}, read : {"empty"}, hardened : BOOLEAN]]

At(m, pc) == job[m].pc = pc
To(m, pc) == job' = [job EXCEPT ![m].pc = pc]

Read(m) ==
  /\ At(m, "call")
  /\ job' = [job EXCEPT ![m].read = fstab,
                        ![m].pc = IF Migrated(fstab, job[m].hardened)
                                  THEN "already_migrated" ELSE "backup"]
  /\ UNCHANGED <<orig, fstab, backup, mounted>>

CopyBackup(m) ==
  /\ At(m, "backup")
  /\ backup' = [backup EXCEPT ![m] = fstab]
  /\ To(m, "open")
  /\ UNCHANGED <<orig, fstab, mounted>>

\* write_text truncates, then writes what was made of the content read.
Truncate(m) ==
  /\ At(m, "open")
  /\ fstab' = "empty"
  /\ To(m, "write")
  /\ UNCHANGED <<orig, backup, mounted>>

WriteEntry(m) ==
  /\ At(m, "write")
  /\ fstab' = NewEntry(job[m].read, job[m].hardened)
  /\ To(m, "umount")
  /\ UNCHANGED <<orig, backup, mounted>>

\* An exception, or the death of the run.
Fails(m) ==
  /\ job[m].pc \in {"backup", "open", "write", "umount", "mount", "restore", "refill"}
  /\ To(m, "failed")
  /\ UNCHANGED <<orig, fstab, backup, mounted>>

Umount(m) ==
  /\ At(m, "umount")
  /\ mounted # "none"
  /\ mounted' = "none"
  /\ To(m, "mount")
  /\ UNCHANGED <<orig, fstab, backup>>

\* In use, or not mounted at all.
UmountRefused(m) ==
  /\ At(m, "umount")
  /\ To(m, "pending_reboot")
  /\ UNCHANGED <<orig, fstab, backup, mounted>>

Mount(m) ==
  /\ At(m, "mount")
  /\ fstab # "empty"
  /\ mounted = "none"
  /\ mounted' = fstab
  /\ To(m, "migrated")
  /\ UNCHANGED <<orig, fstab, backup>>

MountFails(m) ==
  /\ At(m, "mount")
  /\ To(m, "restore")
  /\ UNCHANGED <<orig, fstab, backup, mounted>>

\* The copy of the backup over fstab truncates it first.
TruncateForRestore(m) ==
  /\ At(m, "restore")
  /\ fstab' = "empty"
  /\ To(m, "refill")
  /\ UNCHANGED <<orig, backup, mounted>>

\* Mutant: the backup is moved.
Restore_Moves(m) ==
  /\ At(m, "refill")
  /\ fstab' = backup[m]
  /\ backup' = [backup EXCEPT ![m] = "none"]
  /\ To(m, "rolled_back")
  /\ mounted' = mounted
  /\ UNCHANGED orig

\* The mount that follows may fail or not; the copy may have failed.
Restore(m) ==
  /\ At(m, "refill")
  /\ fstab' \in {backup[m], "empty"}
  /\ mounted' \in {mounted} \cup {e \in {fstab'} : mounted = "none" /\ e # "empty"}
  /\ To(m, "rolled_back")
  /\ UNCHANGED <<orig, backup>>

Next ==
  \E m \in Migration :
    \/ Read(m) \/ CopyBackup(m) \/ Truncate(m) \/ WriteEntry(m) \/ Fails(m)
    \/ Umount(m) \/ UmountRefused(m) \/ Mount(m) \/ MountFails(m)
    \/ TruncateForRestore(m) \/ Restore(m)

Spec == Init /\ [][Next]_vars

-----------------------------------------------------------------------------
\* Whatever runs overlap, fail, die, roll each other's work back or write what
\* they made of a file that was being written: the entry that was there first
\* is in fstab or in a backup.
OriginalEntryKept == fstab = orig \/ \E m \in Migration : backup[m] = orig
=============================================================================
