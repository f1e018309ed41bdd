---------------------------- MODULE KernelTuning ----------------------------
(***************************************************************************)
(* What osm tune (commands/tune.py) makes of the running system: the files *)
(* it writes, what the kernel has loaded of them, and the power profile    *)
(* that udev has it apply when the supply changes.  A run is a list of     *)
(* steps, any of which may fail or be the last; runs overlap, the supply   *)
(* changes and the system is rebooted at any moment.                       *)
(***************************************************************************)
EXTENDS Naturals, Sequences, SequencesExt

CONSTANTS
  Process,  \* invocations by users
  Cpu,      \* "cpu0" and the others
  Plans,    \* for each user the commands given in a behaviour
  PlatformChoices   \* platform profiles the firmware knows

VARIABLES
  plan,      \* plan[p]: the commands p gives in this behaviour
  conf,      \* the files osm has written
  unloaded,  \* those written since they were last loaded
  kernel,    \* sysctl values and the like
  sysfs,     \* EPP and EPB of each CPU, platform profile, firmware switches
  ac,        \* the mains is online
  rule,      \* 99-osm-power-profile.rules is there
  event,     \* a uevent of the supply awaits udev
  persist,   \* hardware-tune.conf and osm-hardware-tune.service
  todo,      \* todo[p]: the steps process p has before it
  mixed      \* history: a profile was touched since udev last began one

vars == <<plan, conf, unloaded, kernel, sysfs, ac, rule, event, persist, todo,
          mixed>>

Runner == Process \cup {"udev", "boot"}

-----------------------------------------------------------------------------
(* The generated files, by the keys that differ *)

Performance == [swappiness |-> 10, qdisc |-> "fq", congestion |-> "bbr"]
Vm == [swappiness |-> 180, page_cluster |-> 0]
Network == [qdisc |-> "fq_codel", congestion |-> "bbr", somaxconn |-> 8192]
Kernel == [nmi_watchdog |-> 0, timer_migration |-> 0]
Eevdf == [base_slice |-> 2]
Mglru == [mglru |-> 7]
Thp == [thp |-> "madvise"]
Earlyoom == [oom |-> "osm"]

Content ==
  [performance |-> Performance, memory |-> Vm, network |-> Network,
   kernel |-> Kernel, scheduler |-> Eevdf, mglru |-> Mglru, thp |-> Thp,
   earlyoom |-> Earlyoom]

\* As a system that osm has not touched boots.
Default ==
  [swappiness |-> 60, page_cluster |-> 3, qdisc |-> "pfifo_fast",
   congestion |-> "cubic", somaxconn |-> 4096, nmi_watchdog |-> 1,
   timer_migration |-> 1, base_slice |-> 3, mglru |-> 7, thp |-> "always",
   oom |-> "distribution"]

\* sysctl --system reads /etc/sysctl.d in this order, and the last one wins.
SysctlOrder == <<"kernel", "memory", "network", "performance", "scheduler">>
Tmpfiles == <<"mglru", "thp">>
LoadOrder == SysctlOrder \o Tmpfiles \o <<"earlyoom">>

\* Values once files, those that are there, are loaded over them: of those that
\* set a value the last one wins.
Overlay(values, files) ==
  [k \in DOMAIN values |->
     LET setters == {i \in DOMAIN files : files[i] \in conf /\ k \in DOMAIN Content[files[i]]}
     IN  IF setters = {} THEN values[k] ELSE Content[files[Max(setters)]][k]]

-----------------------------------------------------------------------------
(* The commands *)

Op(op, arg) == [op |-> op, arg |-> arg]
Write(f) == Op("write", f)
Load(files) == Op("load", files)
Set(node, of, value) == Op("set", [node |-> <<node, of>>, value |-> value])
Firmware(node, value) == Set(node, "acpi", value)
Trigger == Op("trigger", "udev")

EppOf(prof) == IF prof = "ac" THEN "balance_performance" ELSE "balance_power"
EpbOf(prof) == IF prof = "ac" THEN 4 ELSE 8
PlatformOf(prof) == IF prof = "ac" THEN "balanced" ELSE "low-power"
SliceOf(prof) == IF prof = "ac" THEN 2 ELSE 3

\* apply_power_profile, node by node.
Profile(prof) ==
  LET cpus == SetToSeq(Cpu)
  IN  [i \in DOMAIN cpus |-> Set("epp", cpus[i], EppOf(prof))]
        \o [i \in DOMAIN cpus |-> Set("epb", cpus[i], EpbOf(prof))]
        \o <<Firmware("platform", PlatformOf(prof)), Op("slice", SliceOf(prof))>>

\* udev starts osm tune power --profile by ATTR{online}.
RuleProfile_Swapped(online) == IF online THEN "battery" ELSE "ac"
RuleProfile(online) == IF online THEN "ac" ELSE "battery"

\* Mutant: only the file that was written.
Network_OwnFile == <<Write("network"), Load(<<"network">>)>>

TuneNetwork == <<Write("network"), Load(SysctlOrder)>>
TuneSystem == <<Write("performance"), Load(SysctlOrder)>>
TuneKernel == <<Write("kernel"), Load(SysctlOrder)>>
TuneScheduler == <<Write("scheduler"), Load(<<"scheduler">>)>>
ConfigureEarlyoom == <<Write("earlyoom"), Load(<<"earlyoom">>)>>
TuneHardware ==
  <<Firmware("conservation", "1"), Firmware("fn_lock", "1"), Firmware("gpu", "auto")>>
TuneGpu == <<Firmware("gpu", "auto"), Trigger>>
TunePower == <<Op("rule", "udev"), Trigger, Op("source", "audit")>>

TuneAll ==
  ConfigureEarlyoom
    \o <<Write("mglru"), Write("thp"), Write("memory"), Load(Tmpfiles),
         Write("scheduler"), Write("kernel"),
         Firmware("conservation", "1"), Firmware("fn_lock", "1"),
         Op("rule", "udev")>>
    \o Profile("ac") \o <<Load(SysctlOrder), Trigger>>

Revert == <<Load(SysctlOrder), Trigger>>
EnablePersistence == <<Op("config", "1"), Op("unit", TRUE)>>
DisablePersistence == <<Op("unit", FALSE)>>

Program ==
  [network |-> TuneNetwork, system |-> TuneSystem, kernel |-> TuneKernel,
   scheduler |-> TuneScheduler, memory |-> ConfigureEarlyoom,
   hardware |-> TuneHardware, gpu |-> TuneGpu, power |-> TunePower,
   all |-> TuneAll, revert |-> Revert,
   ac |-> Profile("ac"), battery |-> Profile("battery"),
   battery_on |-> <<Firmware("conservation", "1")>>,
   battery_off |-> <<Firmware("conservation", "0")>>,
   profile_quiet |-> <<Firmware("platform", "low-power")>>,
   profile_performance |-> <<Firmware("platform", "performance")>>,
   fn_lock_off |-> <<Firmware("fn_lock", "0")>>,
   persist_enable |-> EnablePersistence, persist_disable |-> DisablePersistence,
   persist_apply |-> <<Op("read", "config")>>]

-----------------------------------------------------------------------------
(* Steps *)

Node == ({"epp", "epb"} \X Cpu) \cup ({"platform", "conservation", "fn_lock", "gpu"} \X {"acpi"})

DefaultSysfs ==
  [n \in Node |-> CASE n[1] = "epp" -> "performance"
                    [] n[1] = "epb" -> 6
                    [] n[1] = "platform" -> "performance"
                    [] n[1] = "gpu" -> "on"
                    [] OTHER -> "0"]

Init ==
  /\ plan \in Plans
  /\ conf = {} /\ unloaded = {}
  /\ kernel = Default /\ sysfs = DefaultSysfs
  /\ ac \in BOOLEAN /\ rule = FALSE /\ event = FALSE
  /\ persist = [config |-> FALSE, unit |-> FALSE]
  /\ todo = [p \in Runner |-> <<>>]
  /\ mixed = TRUE

\* Process p is before a step op.
Before(p, op) == todo[p] # <<>> /\ Head(todo[p]).op = op

Then(p, steps) == todo' = [todo EXCEPT ![p] = steps \o Tail(@)]

\* A step that touches the profile spoils what udev last began.
Mixes(p) ==
  \/ Head(todo[p]).op = "slice"
  \/ /\ Head(todo[p]).op = "set"
     /\ Head(todo[p]).arg.node[1] \in {"epp", "epb", "platform"}

Start(p) ==
  /\ todo[p] = <<>>
  /\ \E c \in plan[p] : todo' = [todo EXCEPT ![p] = Program[c]]
  /\ UNCHANGED <<plan, conf, unloaded, kernel, sysfs, ac, rule, event, persist, mixed>>

WriteFile(p) ==
  /\ Before(p, "write")
  /\ conf' = conf \cup {Head(todo[p]).arg}
  /\ unloaded' = unloaded \cup {Head(todo[p]).arg}
  /\ Then(p, <<>>)
  /\ UNCHANGED <<plan, kernel, sysfs, ac, rule, event, persist, mixed>>

\* sysctl --system or -p, systemd-tmpfiles --create, restart of earlyoom.
LoadFiles(p) ==
  /\ Before(p, "load")
  /\ kernel' = Overlay(kernel, Head(todo[p]).arg)
  /\ unloaded' = unloaded \ Range(Head(todo[p]).arg)
  /\ Then(p, <<>>)
  /\ UNCHANGED <<plan, conf, sysfs, ac, rule, event, persist, mixed>>

\* tee; a platform profile the firmware does not list is not written.
SetNode(p) ==
  /\ Before(p, "set")
  /\ LET a == Head(todo[p]).arg
     IN  sysfs' = IF a.node[1] = "platform" /\ a.value \notin PlatformChoices THEN sysfs
                  ELSE [sysfs EXCEPT ![a.node] = a.value]
  /\ mixed' = (mixed \/ (p # "udev" /\ Mixes(p)))
  /\ Then(p, <<>>)
  /\ UNCHANGED <<plan, conf, unloaded, kernel, ac, rule, event, persist>>

\* sysctl -w kernel.sched_base_slice_ns, in milliseconds here.
SetSlice(p) ==
  /\ Before(p, "slice")
  /\ kernel' = [kernel EXCEPT !.base_slice = Head(todo[p]).arg]
  /\ mixed' = (mixed \/ p # "udev")
  /\ Then(p, <<>>)
  /\ UNCHANGED <<plan, conf, unloaded, sysfs, ac, rule, event, persist>>

WriteRule(p) ==
  /\ Before(p, "rule")
  /\ rule' = TRUE
  /\ Then(p, <<>>)
  /\ UNCHANGED <<plan, conf, unloaded, kernel, sysfs, ac, event, persist, mixed>>

\* udevadm trigger raises an event for every device.
TriggerEvents(p) ==
  /\ Before(p, "trigger")
  /\ event' = rule
  /\ Then(p, <<>>)
  /\ UNCHANGED <<plan, conf, unloaded, kernel, sysfs, ac, rule, persist, mixed>>

-----------------------------------------------------------------------------
(* The audits *)

AuditPower ==
  [current_epp |-> sysfs[<<"epp", "cpu0">>],
   power_source |-> IF ac THEN "ac" ELSE "battery",
   platform_profile |-> sysfs[<<"platform", "acpi">>],
   conservation_mode |-> sysfs[<<"conservation", "acpi">>],
   fn_lock |-> sysfs[<<"fn_lock", "acpi">>]]

AuditMemory ==
  [mglru_enabled |-> kernel.mglru, thp_mode |-> kernel.thp,
   swappiness |-> kernel.swappiness, page_cluster |-> kernel.page_cluster,
   earlyoom |-> kernel.oom]

AuditSysctl ==
  [swappiness |-> kernel.swappiness, congestion_control |-> kernel.congestion]

AuditNetwork ==
  [congestion_control |-> kernel.congestion, default_qdisc |-> kernel.qdisc,
   somaxconn |-> kernel.somaxconn, network_dropin_present |-> "network" \in conf]

AuditKernel ==
  [nmi_watchdog |-> kernel.nmi_watchdog, timer_migration |-> kernel.timer_migration,
   kernel_dropin_present |-> "kernel" \in conf]

AuditScheduler == [base_slice_ns |-> kernel.base_slice]
AuditGpu == [control |-> sysfs[<<"gpu", "acpi">>]]

Telemetry ==
  [profile |-> AuditPower.power_source, power |-> AuditPower,
   memory |-> AuditMemory, sysctl |-> AuditSysctl, network |-> AuditNetwork,
   kernel |-> AuditKernel, scheduler |-> AuditScheduler, hardware |-> AuditGpu]

-----------------------------------------------------------------------------
\* power --apply: the source is read, then its profile is applied.
ReadSource(p) ==
  /\ Before(p, "source")
  /\ Then(p, Profile(AuditPower.power_source))
  /\ UNCHANGED <<plan, conf, unloaded, kernel, sysfs, ac, rule, event, persist, mixed>>

\* configure_hardware_persistence; the unit goes and the configuration stays.
WriteConfig(p) ==
  /\ Before(p, "config")
  /\ persist' = [persist EXCEPT !.config = TRUE]
  /\ Then(p, <<>>)
  /\ UNCHANGED <<plan, conf, unloaded, kernel, sysfs, ac, rule, event, mixed>>

SetUnit(p) ==
  /\ Before(p, "unit")
  /\ persist' = [persist EXCEPT !.unit = Head(todo[p]).arg]
  /\ Then(p, <<>>)
  /\ UNCHANGED <<plan, conf, unloaded, kernel, sysfs, ac, rule, event, mixed>>

\* hardware-persist apply: what the configuration says, if it is there.
ReadConfig(p) ==
  /\ Before(p, "read")
  /\ Then(p, IF persist.config THEN TuneHardware ELSE <<>>)
  /\ UNCHANGED <<plan, conf, unloaded, kernel, sysfs, ac, rule, event, persist, mixed>>

\* A step whose failure nobody looks at.
Lost(p) ==
  /\ todo[p] # <<>>
  /\ mixed' = (mixed \/ Mixes(p))
  /\ Then(p, <<>>)
  /\ UNCHANGED <<plan, conf, unloaded, kernel, sysfs, ac, rule, event, persist>>

\* One that raises or returns False, or the death of the run.
Abort(p) ==
  /\ todo[p] # <<>>
  /\ todo' = [todo EXCEPT ![p] = <<>>]
  /\ mixed' = TRUE
  /\ UNCHANGED <<plan, conf, unloaded, kernel, sysfs, ac, rule, event, persist>>

-----------------------------------------------------------------------------
(* The system *)

Plug ==
  /\ ac' = ~ac
  /\ event' = rule
  /\ UNCHANGED <<plan, conf, unloaded, kernel, sysfs, rule, persist, todo, mixed>>

\* The events of one device are handled one after the other.
MatchRule ==
  /\ event
  /\ todo["udev"] = <<>>
  /\ event' = FALSE
  /\ todo' = [todo EXCEPT !["udev"] = Profile(RuleProfile(ac))]
  /\ mixed' = FALSE
  /\ UNCHANGED <<plan, conf, unloaded, kernel, sysfs, ac, rule, persist>>

\* What the next boot would load.
Boot == Overlay(Default, LoadOrder)

\* The unit runs osm tune hardware --apply and does not read the configuration.
Reboot ==
  /\ kernel' = Boot /\ unloaded' = {}
  /\ sysfs' = DefaultSysfs
  /\ event' = rule
  /\ todo' = [p \in Runner |-> IF p = "boot" /\ persist.unit THEN TuneHardware ELSE <<>>]
  /\ mixed' = TRUE
  /\ UNCHANGED <<plan, conf, ac, rule, persist>>

Step(p) ==
  WriteFile(p) \/ LoadFiles(p) \/ SetNode(p) \/ SetSlice(p) \/ WriteRule(p)
    \/ TriggerEvents(p) \/ ReadSource(p) \/ WriteConfig(p) \/ SetUnit(p)
    \/ ReadConfig(p) \/ Lost(p) \/ Abort(p)

Next ==
  \/ Plug \/ MatchRule \/ Reboot
  \/ \E p \in Process : Start(p)
  \/ \E p \in Runner : Step(p)

Spec == Init /\ [][Next]_vars

-----------------------------------------------------------------------------
(* Properties *)

Setting(k) == {f \in conf : k \in DOMAIN Content[f]}

\* Values that no file awaiting its load sets are those the next boot loads,
\* the files of overlapping keys included: what osm tune reports of a tuned
\* system is what it will be after a reboot.  The slice is the profile's too.
KernelIsBoot ==
  \A k \in DOMAIN Default \ {"base_slice"} :
    Setting(k) # {} /\ Setting(k) \cap unloaded = {} => kernel[k] = Boot[k]

\* When udev has handled its events, and nobody else touched the profile since
\* it began the last, every CPU and the platform have the profile of the source
\* that the telemetry reports, whatever was plugged while the profile was
\* applied; the slice as well, unless a file sets it.
SettlesOnSource ==
  ~mixed /\ ~event /\ todo["udev"] = <<>> =>
    LET src == Telemetry.profile
    IN  /\ \A c \in Cpu : sysfs[<<"epp", c>>] = EppOf(src) /\ sysfs[<<"epb", c>>] = EpbOf(src)
        /\ PlatformOf(src) \in PlatformChoices => Telemetry.power.platform_profile = PlatformOf(src)
        /\ "scheduler" \notin conf => Telemetry.scheduler.base_slice_ns = SliceOf(src)
=============================================================================
