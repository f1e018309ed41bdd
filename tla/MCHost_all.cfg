\* Every component with what its constants are in MCHost.
SPECIFICATION HostSpec
CONSTANTS
  Run = {r1, r2}
  File <- MCFile
  UserFile <- MCUserFile
  Command <- MCCommand
  HandlerOf <- MCHandlerOf
  MaxSecond = 1
  Process = {"u", "w"}
  KernelCpu = {"cpu0"}
  Plans <- MCPlans
  PlatformChoices = {"balanced", "low-power"}
  Migration = {"m1", "m2"}
  OtherNtfs = FALSE
  Session = {"s1", "s2"}
  DesktopPreset = {"macos-core", "standard"}
  Theme <- MCTheme
  Mode = {"Dark", "Light"}
  MaxSnapshots = 2
  Service = {"zramswap", "zram-config"}
  Remediation = {"z1"}
  UnitPreset = FALSE
  ScxCall = {"x1", "x2"}
  ScxProfile = {"lavd", "rusty"}
  Installed = {"lavd", "rusty"}
  AiCall = {"c1", "c2"}
  Action <- MCAction
  MaxPid = 2
  Client = {"prometheus", "probe"}
  HookRun = {1}
  Meminfo <- MCMeminfo
  Loadavg <- MCLoadavg
  Failed = {}
INVARIANTS
  TuningInv
  OriginalIsKept
  
  
  
  DesktopSafe
  NoComeback
  
  GatewayAsAnswered
  

  
\* The runs end.
CHECK_DEADLOCK FALSE
