--------------------------------- MODULE Scx ---------------------------------
(***************************************************************************)
(* scheduler/scx.py: starting, stopping, enabling and disabling a sched_ext *)
(* scheduler as scx.service or as a detached process.  The kernel attaches *)
(* one scheduler at a time; systemd starts a service that failed again;    *)
(* runs overlap, and their commands may fail or have no effect.            *)
(***************************************************************************)
EXTENDS Naturals, Sequences

CONSTANTS
  Run,       \* calls of the functions of scx.py
  Profile,   \* SCX_PROFILES
  Installed  \* those whose binary is found

VARIABLES
  kernel,    \* the running kernel has sched_ext
  unitfile,  \* profile in scx.service: "none" if absent, "torn" while written
  loaded,    \* what systemd has read of it
  service,   \* scx.service: state and the profile it was started with
  enabled,   \* at boot
  attached,  \* by whom the scheduler in the kernel runs, and which
  job,       \* the calls: what they do next, and "stop" or "disable" as long
             \* as nothing was started, and no command lost, since they began
  suspect    \* history: a start ended between its write and its restart

vars == <<kernel, unitfile, loaded, service, enabled, attached, job, suspect>>

Nobody == [by |-> "none", profile |-> "none"]
Inactive == [state |-> "inactive", profile |-> "none"]

\* The answer of probe_sched_ext_support.
Probe ==
  [kernel_supported |-> kernel,
   active_scheduler |-> attached.profile,
   service_active |-> service.state = "active",
   service_enabled |-> enabled]

-----------------------------------------------------------------------------
(* The calls, as the steps they make *)

Op(op, arg) == [op |-> op, arg |-> arg]
Systemctl(verb) == Op(verb, "scx.service")

StartSteps(p) ==
  <<Op("truncate", "unit"), Op("fill", p), Systemctl("reload"), Systemctl("restart")>>
RuntimeSteps(p) == <<Op("spawn", p)>>
EnableSteps(p) == StartSteps(p) \o <<Systemctl("enable")>>

\* Mutant: only the service.
StopSteps_Service == <<Systemctl("stop")>>

StopSteps == <<Systemctl("stop"), Op("pkill", "scx_")>>
DisableSteps == <<Systemctl("disable")>> \o StopSteps

Init ==
  /\ kernel \in BOOLEAN
  /\ unitfile = "none" /\ loaded = "none"
  /\ service = Inactive /\ enabled = FALSE
  /\ attached = Nobody
  /\ job = [r \in Run |-> [todo |-> <<>>, promise |-> "none"]]
  /\ suspect = FALSE

Idle(r) == job[r].todo = <<>>

\* Without the kernel or the binary a start does nothing.  Calls are made again
\* and again.
StartOrEnable(r) ==
  /\ Idle(r) /\ Probe.kernel_supported
  /\ \E p \in Profile \cap Installed :
       \E steps \in {StartSteps(p), RuntimeSteps(p), EnableSteps(p)} :
         job' = [job EXCEPT ![r] = [todo |-> steps, promise |-> "none"]]
  /\ UNCHANGED <<kernel, unitfile, loaded, service, enabled, attached, suspect>>

StopOrDisable(r) ==
  /\ Idle(r)
  /\ \/ job' = [job EXCEPT ![r] = [todo |-> StopSteps, promise |-> "stop"]]
     \/ job' = [job EXCEPT ![r] = [todo |-> DisableSteps, promise |-> "disable"]]
  /\ UNCHANGED <<kernel, unitfile, loaded, service, enabled, attached, suspect>>

Before(r, step) == job[r].todo # <<>> /\ Head(job[r].todo).op = step
Then(r) == job' = [job EXCEPT ![r].todo = Tail(@)]

\* A step that starts a scheduler, now or at boot.
ThenStarted(r) ==
  job' = [s \in Run |-> [promise |-> "none",
                         todo |-> IF s = r THEN Tail(job[s].todo) ELSE job[s].todo]]

\* tee.
Truncate(r) ==
  /\ Before(r, "truncate")
  /\ unitfile' = "torn"
  /\ Then(r)
  /\ UNCHANGED <<kernel, loaded, service, enabled, attached, suspect>>

Fill(r) ==
  /\ Before(r, "fill")
  /\ unitfile' = Head(job[r].todo).arg
  /\ Then(r)
  /\ UNCHANGED <<kernel, loaded, service, enabled, attached, suspect>>

Reload(r) ==
  /\ Before(r, "reload")
  /\ loaded' = unitfile
  /\ Then(r)
  /\ UNCHANGED <<kernel, unitfile, service, enabled, attached, suspect>>

\* ExecStart under ConditionPathExists; a second scheduler cannot attach, and
\* systemd tries again later.
ServiceStarts(p, holder) ==
  /\ service' = CASE ~kernel' -> Inactive
                  [] kernel' /\ holder = Nobody -> [state |-> "active", profile |-> p]
                  [] OTHER -> [state |-> "waiting", profile |-> p]
  /\ attached' = IF kernel' /\ holder = Nobody THEN [by |-> "service", profile |-> p] ELSE holder

Detached == IF attached.by = "service" THEN Nobody ELSE attached

Restart(r) ==
  /\ Before(r, "restart")
  /\ loaded \in Profile
  /\ kernel' = kernel
  /\ ServiceStarts(loaded, Detached)
  /\ ThenStarted(r)
  /\ UNCHANGED <<unitfile, loaded, enabled, suspect>>

\* The answer is an error: systemd has read a torn file.
RestartRefused(r) ==
  /\ Before(r, "restart")
  /\ loaded \notin Profile
  /\ job' = [job EXCEPT ![r].todo = <<>>]
  /\ UNCHANGED <<kernel, unitfile, loaded, service, enabled, attached, suspect>>

\* Popen: a process that cannot attach exits, the answer is success.
Spawn(r) ==
  /\ Before(r, "spawn")
  /\ attached' = IF attached = Nobody THEN [by |-> "runtime", profile |-> Head(job[r].todo).arg]
                                      ELSE attached
  /\ ThenStarted(r)
  /\ UNCHANGED <<kernel, unitfile, loaded, service, enabled, suspect>>

Enable(r) ==
  /\ Before(r, "enable")
  /\ enabled' = TRUE
  /\ ThenStarted(r)
  /\ UNCHANGED <<kernel, unitfile, loaded, service, attached, suspect>>

Stop(r) ==
  /\ Before(r, "stop")
  /\ service' = Inactive
  /\ attached' = Detached
  /\ Then(r)
  /\ UNCHANGED <<kernel, unitfile, loaded, enabled, suspect>>

\* pkill -f scx_: SIGTERM is a clean end for systemd, which does not restart
\* the service; one that waits has no process.
Pkill(r) ==
  /\ Before(r, "pkill")
  /\ attached' = Nobody
  /\ service' = IF service.state = "active" THEN Inactive ELSE service
  /\ Then(r)
  /\ UNCHANGED <<kernel, unitfile, loaded, enabled, suspect>>

Disable(r) ==
  /\ Before(r, "disable")
  /\ enabled' = FALSE
  /\ Then(r)
  /\ UNCHANGED <<kernel, unitfile, loaded, service, attached, suspect>>

\* Some results are looked at (tee, restart, enable), the others are not.
CommandFails(r) ==
  /\ job[r].todo # <<>>
  /\ LET step == Head(job[r].todo).op
     IN  /\ job' = [job EXCEPT ![r].promise = "none",
              ![r].todo = IF step \in {"truncate", "fill", "restart", "spawn", "enable"}
                          THEN <<>> ELSE Tail(@)]
         /\ suspect' = (suspect \/ step \in {"fill", "reload", "restart"})
  /\ UNCHANGED <<kernel, unitfile, loaded, service, enabled, attached>>

-----------------------------------------------------------------------------
(* systemd, the kernel and the system *)

\* A scheduler that fails is detached.
SchedulerExits ==
  /\ attached # Nobody
  /\ attached' = Nobody
  /\ service' = IF attached.by = "service" THEN [service EXCEPT !.state = "waiting"] ELSE service
  /\ UNCHANGED <<kernel, unitfile, loaded, enabled, job, suspect>>

\* Restart=on-failure, with the unit as it is loaded by then.
AutoRestart ==
  /\ service.state = "waiting" /\ loaded \in Profile
  /\ kernel' = kernel
  /\ ServiceStarts(loaded, attached)
  /\ UNCHANGED <<unitfile, loaded, enabled, job, suspect>>

\* The limit of starts.
GiveUp ==
  /\ service.state = "waiting"
  /\ service' = Inactive
  /\ UNCHANGED <<kernel, unitfile, loaded, enabled, attached, job, suspect>>

\* Perhaps into another kernel.
Boot ==
  /\ kernel' \in BOOLEAN
  /\ loaded' = unitfile
  /\ IF enabled /\ unitfile \in Profile THEN ServiceStarts(unitfile, Nobody)
     ELSE service' = Inactive /\ attached' = Nobody
  /\ job' = [r \in Run |-> [todo |-> <<>>,
       promise |-> IF Idle(r) /\ job[r].promise = "disable" THEN "disable" ELSE "none"]]
  /\ suspect' = FALSE
  /\ UNCHANGED <<unitfile, enabled>>

Next ==
  \/ SchedulerExits \/ AutoRestart \/ GiveUp \/ Boot
  \/ \E r \in Run :
       \/ StartOrEnable(r) \/ StopOrDisable(r) \/ Truncate(r) \/ Fill(r) \/ Reload(r) \/ Restart(r)
       \/ RestartRefused(r) \/ Spawn(r) \/ Enable(r) \/ Stop(r) \/ Pkill(r)
       \/ Disable(r) \/ CommandFails(r)

Spec == Init /\ [][Next]_vars

-----------------------------------------------------------------------------
(* Properties *)

\* After a stop that lost no command and during which nothing was started, no
\* scheduler runs and none is about to; after a disable none does at the next
\* boots either.
StopStops ==
  \A r \in Run : Idle(r) /\ job[r].promise # "none" =>
    /\ Probe.active_scheduler = "none"
    /\ service.state # "waiting"
    /\ job[r].promise = "disable" => ~Probe.service_enabled

\* Once every start has come to its restart, the service runs the profile that
\* the unit file has for the next boot, whatever order the starts were in.
RunsUnitFile ==
  (\A r \in Run : \A i \in DOMAIN job[r].todo : job[r].todo[i].op # "restart") /\ ~suspect
    /\ Probe.service_active => service.profile = unitfile

\* The scheduler that runs is the one that was asked for last.
SchedulerAsAsked == StopStops /\ RunsUnitFile
=============================================================================
