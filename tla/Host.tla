-------------------------------- MODULE Host --------------------------------
(***************************************************************************)
(* The components of osm that act on the host side by side: one is chosen  *)
(* at the start and makes all the steps, for they share no state that      *)
(* their properties speak of.                                              *)
(***************************************************************************)
EXTENDS Tuning, FiniteSets

CONSTANTS
  Process, KernelCpu, Plans, PlatformChoices,             \* KernelTuning
  Migration, OtherNtfs,                                   \* FstabMigration
  Session, DesktopPreset, Theme, Mode, MaxSnapshots,      \* Desktop
  Service, Remediation, UnitPreset,                       \* ZramRemediation
  ScxCall, ScxProfile, Installed,                         \* Scx
  AiCall, Action, MaxPid,                                 \* AiGateway
  Client, HookRun, Meminfo, Loadavg, Failed               \* MetricsExporter

ASSUME KernelAssumption ==
  IsFiniteSet(KernelCpu) /\ Process \cap {"udev", "boot"} = {}
ASSUME DesktopAssumption ==
  /\ DesktopPreset \subseteq {"standard", "macos-core", "macos-full"}
  /\ Theme \in Seq(STRING) /\ "none" \notin Mode /\ MaxSnapshots \in Nat
ASSUME ServiceAssumption ==
  IsFiniteSet(Service) /\ Service \cap {"none", "generator"} = {}
ASSUME ScxAssumption == ScxProfile \cap {"none", "torn"} = {}
ASSUME GatewayAssumption ==
  MaxPid \in Nat /\ Action \in [AiCall -> SUBSET {"start", "stop", "restart", "claude"}]

VARIABLE which  \* the component

VARIABLES
  kernel_plan, kernel_conf, kernel_unloaded, kernel_kernel, kernel_sysfs,
  kernel_ac, kernel_rule, kernel_event, kernel_persist, kernel_todo,
  kernel_mixed
kernelVars ==
  <<kernel_plan, kernel_conf, kernel_unloaded, kernel_kernel, kernel_sysfs,
  kernel_ac, kernel_rule, kernel_event, kernel_persist, kernel_todo,
  kernel_mixed>>
K == INSTANCE KernelTuning WITH
  Cpu <- KernelCpu, plan <- kernel_plan, conf <- kernel_conf,
  unloaded <- kernel_unloaded, kernel <- kernel_kernel, sysfs <- kernel_sysfs,
  ac <- kernel_ac, rule <- kernel_rule, event <- kernel_event,
  persist <- kernel_persist, todo <- kernel_todo, mixed <- kernel_mixed
ASSUME PlanAssumption ==
  \A given \in Plans : \A p \in Process : given[p] \subseteq DOMAIN K!Program

VARIABLES
  fstab_orig, fstab_fstab, fstab_backup, fstab_mounted, fstab_job
fstabVars ==
  <<fstab_orig, fstab_fstab, fstab_backup, fstab_mounted, fstab_job>>
M == INSTANCE FstabMigration WITH
  orig <- fstab_orig, fstab <- fstab_fstab, backup <- fstab_backup,
  mounted <- fstab_mounted, job <- fstab_job

VARIABLES
  desktop_orig, desktop_settings, desktop_snaps, desktop_sandbox,
  desktop_installed, desktop_session, desktop_unsaved
desktopVars ==
  <<desktop_orig, desktop_settings, desktop_snaps, desktop_sandbox,
  desktop_installed, desktop_session, desktop_unsaved>>
D == INSTANCE Desktop WITH
  Preset <- DesktopPreset, orig <- desktop_orig, settings <- desktop_settings,
  snaps <- desktop_snaps, sandbox <- desktop_sandbox,
  installed <- desktop_installed, session <- desktop_session,
  unsaved <- desktop_unsaved

VARIABLES
  zram_unit, zram_conf, zram_package, zram_device, zram_job, zram_excused
zramVars ==
  <<zram_unit, zram_conf, zram_package, zram_device, zram_job, zram_excused>>
Z == INSTANCE ZramRemediation WITH
  Run <- Remediation, Preset <- UnitPreset, unit <- zram_unit,
  conf <- zram_conf, package <- zram_package, device <- zram_device,
  job <- zram_job, excused <- zram_excused

VARIABLES
  scx_kernel, scx_unitfile, scx_loaded, scx_service, scx_enabled, scx_attached,
  scx_job, scx_suspect
scxVars ==
  <<scx_kernel, scx_unitfile, scx_loaded, scx_service, scx_enabled,
  scx_attached, scx_job, scx_suspect>>
X == INSTANCE Scx WITH
  Run <- ScxCall, Profile <- ScxProfile, kernel <- scx_kernel,
  unitfile <- scx_unitfile, loaded <- scx_loaded, service <- scx_service,
  enabled <- scx_enabled, attached <- scx_attached, job <- scx_job,
  suspect <- scx_suspect

VARIABLES
  ai_router, ai_port, ai_headroom, ai_job, ai_spoiled
aiVars ==
  <<ai_router, ai_port, ai_headroom, ai_job, ai_spoiled>>
A == INSTANCE AiGateway WITH
  Call <- AiCall, router <- ai_router, port <- ai_port,
  headroom <- ai_headroom, job <- ai_job, spoiled <- ai_spoiled

VARIABLES
  metrics_audit, metrics_errors, metrics_hook, metrics_client, metrics_queue,
  metrics_server
metricsVars ==
  <<metrics_audit, metrics_errors, metrics_hook, metrics_client, metrics_queue,
  metrics_server>>
E == INSTANCE MetricsExporter WITH
  audit <- metrics_audit, errors <- metrics_errors, hook <- metrics_hook,
  client <- metrics_client, queue <- metrics_queue, server <- metrics_server

all == <<which, vars, kernelVars, fstabVars, desktopVars, zramVars,
         scxVars, aiVars, metricsVars>>

HostInit ==
  /\ which \in {"tuning", "kernel", "fstab", "desktop", "zram", "scx", "ai", "metrics"}
  /\ Init
  /\ which # "tuning" => orig = [f \in File |-> "absent"]
  /\ IF which = "kernel" THEN K!Init
     ELSE kernel_plan = 0 /\ kernel_conf = 0 /\ kernel_unloaded = 0 /\
          kernel_kernel = 0 /\ kernel_sysfs = 0 /\ kernel_ac = 0 /\ kernel_rule = 0 /\
          kernel_event = 0 /\ kernel_persist = 0 /\ kernel_todo = 0 /\
          kernel_mixed = 0
  /\ IF which = "fstab" THEN M!Init
     ELSE fstab_orig = 0 /\ fstab_fstab = 0 /\ fstab_backup = 0 /\ fstab_mounted = 0 /\
          fstab_job = 0
  /\ IF which = "desktop" THEN D!Init
     ELSE desktop_orig = 0 /\ desktop_settings = 0 /\ desktop_snaps = 0 /\
          desktop_sandbox = 0 /\ desktop_installed = 0 /\ desktop_session = 0 /\
          desktop_unsaved = 0
  /\ IF which = "zram" THEN Z!Init
     ELSE zram_unit = 0 /\ zram_conf = 0 /\ zram_package = 0 /\ zram_device = 0 /\
          zram_job = 0 /\ zram_excused = 0
  /\ IF which = "scx" THEN X!Init
     ELSE scx_kernel = 0 /\ scx_unitfile = 0 /\ scx_loaded = 0 /\ scx_service = 0 /\
          scx_enabled = 0 /\ scx_attached = 0 /\ scx_job = 0 /\ scx_suspect = 0
  /\ IF which = "ai" THEN A!Init
     ELSE ai_router = 0 /\ ai_port = 0 /\ ai_headroom = 0 /\ ai_job = 0 /\
          ai_spoiled = 0
  /\ IF which = "metrics" THEN E!Init
     ELSE metrics_audit = 0 /\ metrics_errors = 0 /\ metrics_hook = 0 /\
          metrics_client = 0 /\ metrics_queue = 0 /\ metrics_server = 0

HostNext ==
  \/ /\ which = "tuning" /\ Next
     /\ UNCHANGED <<which, kernelVars, fstabVars, desktopVars, zramVars,
                  scxVars, aiVars, metricsVars>>
  \/ /\ which = "kernel" /\ K!Next
     /\ UNCHANGED <<which, vars, fstabVars, desktopVars, zramVars, scxVars,
                  aiVars, metricsVars>>
  \/ /\ which = "fstab" /\ M!Next
     /\ UNCHANGED <<which, vars, kernelVars, desktopVars, zramVars, scxVars,
                  aiVars, metricsVars>>
  \/ /\ which = "desktop" /\ D!Next
     /\ UNCHANGED <<which, vars, kernelVars, fstabVars, zramVars, scxVars,
                  aiVars, metricsVars>>
  \/ /\ which = "zram" /\ Z!Next
     /\ UNCHANGED <<which, vars, kernelVars, fstabVars, desktopVars, scxVars,
                  aiVars, metricsVars>>
  \/ /\ which = "scx" /\ X!Next
     /\ UNCHANGED <<which, vars, kernelVars, fstabVars, desktopVars, zramVars,
                  aiVars, metricsVars>>
  \/ /\ which = "ai" /\ A!Next
     /\ UNCHANGED <<which, vars, kernelVars, fstabVars, desktopVars, zramVars,
                  scxVars, metricsVars>>
  \/ /\ which = "metrics" /\ E!Next
     /\ UNCHANGED <<which, vars, kernelVars, fstabVars, desktopVars, zramVars,
                  scxVars, aiVars>>

HostSpec == HostInit /\ [][HostNext]_all

\* Values whose files are loaded are those of the next boot, whichever osm
\* tune commands overlap or fail (commands/tune.py).
KernelIsBoot == which = "kernel" => K!KernelIsBoot
\* Once udev is done, the power profile is that of the supply
\* (apply_power_profile).
SettlesOnSource == which = "kernel" => K!SettlesOnSource
\* The first entry is in /etc/fstab or in a backup (migrate_ntfs_driver).
OriginalEntryKept == which = "fstab" => M!OriginalEntryKept
\* Overlapping desktop runs keep what they saved and have what they claim
\* (commands/tune_macos.py).
DesktopSafe == which = "desktop" => D!DesktopSafe
\* After a success no conflicting service comes back
\* (remediate_zram_conflicts).
NoComeback == which = "zram" => Z!NoComeback
\* A stop leaves no scheduler and the service runs what its unit file says
\* (scheduler/scx.py).
SchedulerAsAsked == which = "scx" => X!SchedulerAsAsked
\* A stop or restart that answers 0 has stopped or restarted the gateway
\* (commands/ai.py).
GatewayAsAnswered == which = "ai" => A!GatewayAsAnswered
\* Counters read one after the other from two growing logs agree
\* (collect_harness_metrics).
ScrapesAgree == which = "metrics" => E!ScrapesAgree
=============================================================================
