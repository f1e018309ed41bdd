--------------------------- MODULE ZramRemediation ---------------------------
(***************************************************************************)
(* memory/zram.py: runs audit the services that compete with               *)
(* systemd-zram-generator for /dev/zram0, stop and mask those that         *)
(* conflict, write the generator's configuration, restart it, and answer   *)
(* success when a second audit finds no conflict.  Any command may have    *)
(* no effect (check=False), runs overlap, and in between the system is     *)
(* rebooted and the services are installed, enabled, unmasked and started. *)
(***************************************************************************)
EXTENDS Naturals, Sequences, SequencesExt

CONSTANTS
  Service,  \* CONFLICTING_ZRAM_SERVICES
  Run,      \* invocations of remediate_zram_conflicts
  Preset    \* the PRESET column of list-unit-files says enabled (Debian)

VARIABLES
  unit,     \* what systemd knows of each service
  conf,     \* zram-generator.conf: "none", "other", "zram0"
  package,  \* systemd-zram-generator is installed
  device,   \* what made /dev/zram0: "none", "generator" or a service
  job,      \* the runs
  excused   \* history: excused[r], services touched, or not seen, since the
            \* last audit of r began

vars == <<unit, conf, package, device, job, excused>>

Op(op, arg) == [op |-> op, arg |-> arg]

-----------------------------------------------------------------------------
(* The audit *)

\* Two commands a service, after the swap devices and the configuration.
Audit ==
  LET s == SetToSeq(Service)
  IN  <<Op("conf", "audit")>>
        \o [i \in 1..(2 * Len(s)) |-> Op(IF i % 2 = 1 THEN "files" ELSE "active",
                                         s[(i + 1) \div 2])]

\* The words "masked" and "enabled" are looked for in the whole line.
FilesStatus(s) ==
  [installed |-> unit[s].installed \/ unit[s].masked,
   masked |-> unit[s].masked,
   enabled |-> unit[s].installed /\ ~unit[s].masked /\ (unit[s].enabled \/ Preset)]

Unseen == [installed |-> FALSE, masked |-> FALSE, enabled |-> FALSE]

\* Mutant: only a service that runs is in conflict.
Conflict_Running(files, state) == state # "inactive"

Conflict(files, state) ==
  \/ files.installed /\ ~files.masked /\ files.enabled
  \/ state # "inactive"

StatusOf(j) ==
  CASE j.conflicts # {} -> "CONFLICT_DETECTED"
    [] j.conflicts = {} /\ j.swap /\ j.configured -> "OPTIMAL"
    [] j.conflicts = {} /\ j.swap /\ ~j.configured -> "DEGRADED"
    [] OTHER -> "UNCONFIGURED"

-----------------------------------------------------------------------------
(* The remediation *)

\* What is done once the first audit is over.
Actions(conflicts, configured) ==
  LET s == SetToSeq(conflicts)
      verb == <<"stop", "disable", "mask", "reset-failed">>
  IN  [i \in 1..(4 * Len(s)) |-> Op(verb[((i - 1) % 4) + 1], s[((i - 1) \div 4) + 1])]
        \o (IF configured THEN <<>> ELSE <<Op("write", "conf")>>)
        \o <<Op("restart", "generator")>>

Idle == [todo |-> <<>>, path |-> "none", files |-> Unseen, swap |-> FALSE,
         configured |-> FALSE, conflicts |-> {}, pc |-> "down", initial |-> "none", status |-> "none"]

Init ==
  /\ unit \in [Service -> [installed : BOOLEAN, enabled : {FALSE}, masked : {FALSE},
                           state : {"inactive"}]]
  /\ conf \in {"none", "other"}
  /\ package \in BOOLEAN
  /\ device = "none"
  /\ job = [r \in Run |-> Idle]
  /\ excused = [r \in Run |-> {}]

Before(r, op) == job[r].todo # <<>> /\ Head(job[r].todo).op = op
Arg(r) == Head(job[r].todo).arg
Then(r) == job' = [job EXCEPT ![r].todo = Tail(@)]
Set(s, status) == unit' = [unit EXCEPT ![s] = status]

\* run_privileged_command: as root or by sudo, or by sudo with a password.
Start(r) ==
  /\ job[r].pc = "down"
  /\ \E path \in {"direct", "password"} :
       job' = [job EXCEPT ![r] = [Idle EXCEPT !.todo = Audit, !.path = path, !.pc = "audit"]]
  /\ excused' = [excused EXCEPT ![r] = {}]
  /\ UNCHANGED <<unit, conf, package, device>>

\* Whether /proc/swaps has a zRAM device, and the file [zram0].
QueryConf(r) ==
  /\ Before(r, "conf")
  /\ job' = [job EXCEPT ![r].todo = Tail(@), ![r].swap = (device # "none"),
                        ![r].configured = (conf = "zram0"), ![r].conflicts = {}]
  /\ UNCHANGED <<unit, conf, package, device, excused>>

QueryFiles(r) ==
  /\ Before(r, "files")
  /\ job' = [job EXCEPT ![r].todo = Tail(@), ![r].files = FilesStatus(Arg(r))]
  /\ UNCHANGED <<unit, conf, package, device, excused>>

QueryActive(r) ==
  /\ Before(r, "active")
  /\ job' = [job EXCEPT ![r].todo = Tail(@),
       ![r].conflicts = IF Conflict(job[r].files, unit[Arg(r)].state)
                        THEN @ \cup {Arg(r)} ELSE @]
  /\ UNCHANGED <<unit, conf, package, device, excused>>

\* After five seconds the query ends: what it has not seen is False.
QueryTimesOut(r) ==
  /\ Before(r, "files")
  /\ job' = [job EXCEPT ![r].todo = Tail(Tail(@)), ![r].files = Unseen]
  /\ excused' = [excused EXCEPT ![r] = @ \cup {Arg(r)}]
  /\ UNCHANGED <<unit, conf, package, device>>

Remediate(r) ==
  /\ job[r].pc = "audit" /\ job[r].todo = <<>>
  /\ job' = [job EXCEPT ![r].todo = Actions(job[r].conflicts, job[r].configured),
                        ![r].pc = "live",
                        ![r].initial = StatusOf(job[r])]
  /\ UNCHANGED <<unit, conf, package, device, excused>>

Freed(s) == IF device = s THEN "none" ELSE device

Stop(r) ==
  /\ Before(r, "stop")
  /\ LET s == Arg(r)
     IN  /\ Set(s, [unit[s] EXCEPT !.state = IF @ = "active" THEN "inactive" ELSE @])
         /\ device' = Freed(s)
  /\ Then(r)
  /\ UNCHANGED <<conf, package, excused>>

Disable(r) ==
  /\ Before(r, "disable")
  /\ Set(Arg(r), [unit[Arg(r)] EXCEPT !.enabled = FALSE])
  /\ Then(r)
  /\ UNCHANGED <<conf, package, device, excused>>

Mask(r) ==
  /\ Before(r, "mask")
  /\ Set(Arg(r), [unit[Arg(r)] EXCEPT !.masked = TRUE])
  /\ Then(r)
  /\ UNCHANGED <<conf, package, device, excused>>

ResetFailed(r) ==
  /\ Before(r, "reset-failed")
  /\ LET s == Arg(r)
     IN  Set(s, [unit[s] EXCEPT !.state = IF @ = "failed" THEN "inactive" ELSE @])
  /\ Then(r)
  /\ UNCHANGED <<conf, package, device, excused>>

\* The other lines of the file go.
WriteConf(r) ==
  /\ Before(r, "write") /\ job[r].path # "password"
  /\ conf' = "zram0"
  /\ Then(r)
  /\ UNCHANGED <<unit, package, device, excused>>

\* input and text are given twice: TypeError, with the services masked.
WriteRaises(r) ==
  /\ Before(r, "write") /\ job[r].path = "password"
  /\ job' = [job EXCEPT ![r].todo = <<>>, ![r].pc = "raised"]
  /\ UNCHANGED <<unit, conf, package, device, excused>>

GeneratorStarts(holder) ==
  IF conf = "zram0" /\ package /\ holder \in {"none", "generator"} THEN "generator" ELSE holder

\* daemon-reload has the generator make its unit from the configuration.
RestartGenerator(r) ==
  /\ Before(r, "restart")
  /\ device' = GeneratorStarts(device)
  /\ Then(r)
  /\ UNCHANGED <<unit, conf, package, excused>>

CommandLost(r) ==
  /\ job[r].pc = "live" /\ job[r].todo # <<>>
  /\ Then(r)
  /\ UNCHANGED <<unit, conf, package, device, excused>>

PostAudit(r) ==
  /\ job[r].pc = "live" /\ job[r].todo = <<>>
  /\ job' = [job EXCEPT ![r].todo = Audit, ![r].pc = "post"]
  /\ excused' = [excused EXCEPT ![r] = {}]
  /\ UNCHANGED <<unit, conf, package, device>>

Answer(r) ==
  /\ job[r].pc = "post" /\ job[r].todo = <<>>
  /\ job' = [job EXCEPT ![r].pc = IF job[r].conflicts = {} THEN "success" ELSE "issues",
                        ![r].status = StatusOf(job[r])]
  /\ UNCHANGED <<unit, conf, package, device, excused>>

-----------------------------------------------------------------------------
(* The system *)

Touch(s) == excused' = [r \in Run |-> excused[r] \cup {s}]

\* A service that starts makes the device, or fails when it is there.
Started(u, holder) ==
  IF u.installed /\ ~u.masked
  THEN [u EXCEPT !.state = IF holder = "none" THEN "active" ELSE "failed"] ELSE u

StartUnit(s) ==
  /\ unit[s].installed /\ ~unit[s].masked /\ unit[s].state # "active"
  /\ Set(s, Started(unit[s], device))
  /\ device' = IF device = "none" THEN s ELSE device
  /\ Touch(s)
  /\ UNCHANGED <<conf, package, job>>

\* The package of the service, or the user: enable.
Enable(s) ==
  /\ ~unit[s].masked
  /\ Set(s, [unit[s] EXCEPT !.installed = TRUE, !.enabled = TRUE])
  /\ Touch(s)
  /\ UNCHANGED <<conf, package, device, job>>

Unmask(s) ==
  /\ unit[s].masked
  /\ Set(s, [unit[s] EXCEPT !.masked = FALSE])
  /\ Touch(s)
  /\ UNCHANGED <<conf, package, device, job>>

\* The generator and the enabled services start in any order; runs die.
Boot ==
  LET starts == {s \in Service : unit[s].enabled /\ ~unit[s].masked}
      first == starts \cup ({GeneratorStarts("none")} \ {"none"})
  IN  \E holder \in IF first = {} THEN {"none"} ELSE first :
        /\ device' = holder
        /\ unit' = [s \in Service |-> [unit[s] EXCEPT
             !.state = CASE s = holder -> "active"
                         [] s \in starts \ {holder} -> "failed"
                         [] OTHER -> "inactive"]]
  /\ job' = [r \in Run |-> IF job[r].pc \in {"audit", "live", "post"}
                           THEN [job[r] EXCEPT !.todo = <<>>, !.pc = "dead"] ELSE job[r]]
  /\ UNCHANGED <<conf, package, excused>>

PrivilegedCommand(r) ==
  Stop(r) \/ Disable(r) \/ Mask(r) \/ ResetFailed(r) \/ WriteConf(r) \/ WriteRaises(r)
    \/ RestartGenerator(r) \/ CommandLost(r)

Query(r) == QueryConf(r) \/ QueryFiles(r) \/ QueryActive(r) \/ QueryTimesOut(r)

Next ==
  \/ Boot
  \/ \E s \in Service : StartUnit(s) \/ Enable(s) \/ Unmask(s)
  \/ \E r \in Run :
       Start(r) \/ Query(r) \/ Remediate(r) \/ PrivilegedCommand(r) \/ PostAudit(r) \/ Answer(r)

Spec == Init /\ [][Next]_vars

-----------------------------------------------------------------------------
(* Properties *)

\* Once a run has answered success, a service that it saw in its last audit and
\* that nobody installs, enables, unmasks or starts after that runs no more and
\* fails no more, at any later boot too, whatever commands were lost.
NoComeback ==
  \A r \in Run : job[r].pc = "success" =>
    \A s \in Service \ excused[r] : unit[s].state = "inactive"

\* remediate_zram_conflicts: "enforce canonical generator".  A run that found
\* conflicts, answers success and saw every service has not left the system
\* without zRAM.
EnforcesGenerator ==
  \A r \in Run : job[r].pc = "success" /\ job[r].initial = "CONFLICT_DETECTED" /\ excused[r] = {} =>
    job[r].status # "UNCONFIGURED"
=============================================================================
