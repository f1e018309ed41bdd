---------------------------- MODULE TuneDomains ----------------------------
(***************************************************************************)
(* What each handler of osm tune (commands/tune.py) saves and writes:      *)
(*   targets   the target_files of its snapshot, none: it takes none       *)
(*   writes    the configuration files it writes, in order                 *)
(*   guarded   those whose failure it passes over                          *)
(* The values written to /sys and the texts it prints are left out.        *)
(***************************************************************************)
EXTENDS Sequences

Handler(targets, writes, guarded) ==
  [targets |-> targets, writes |-> writes, guarded |-> guarded]

\* Files of the user who runs the command; the others need root.
FileOfUser == {"bookmarks", "starship.toml", ".tmux.conf", ".bashrc"}

SavedAsWritten(files) == Handler(files, files, {})

Storage ==
  LET files == <<"fstab", "60-nvme-schedulers.rules">>
  IN  Handler(files, files, {"fstab"})

\* Four files are saved and one is written; remediate_zram_conflicts writes
\* files that are not saved (module ZramRemediation).
Memory ==
  Handler(<<"99-osm-memory.conf", "00-osm-mglru.conf", "00-osm-thp.conf",
            "earlyoom">>,
          <<"earlyoom">>, {"earlyoom"})

\* Saves two files it does not write.
Hardware == Handler(<<"nvidia-pm.conf", "80-nvidia-pm.rules">>, <<>>, {})

System ==
  Handler(<<"99-osm-performance.conf", "sysctl.conf">>,
          <<"99-osm-performance.conf">>, {})

Scheduler ==
  SavedAsWritten(<<"99-osm-scheduler.conf", "session.slice.d/10-resources.conf",
                   "background.slice.d/10-resources.conf">>)

Audio == SavedAsWritten(<<"99-low-latency.conf", "95-pipewire.conf">>)

Power ==
  LET files == <<"99-osm-power-profile.rules">>
  IN  Handler(files, files, {"99-osm-power-profile.rules"})

Network == SavedAsWritten(<<"99-osm-network.conf">>)

Kernel == SavedAsWritten(<<"99-osm-kernel.conf">>)

Cpu ==
  SavedAsWritten(<<"session.slice.d/10-cpuset.conf",
                   "background.slice.d/10-cpuset.conf">>)

\* osm tune all: the files of the user come last and are not saved.
All ==
  Handler(<<"fstab", "60-nvme-schedulers.rules", "99-osm-memory.conf",
            "00-osm-mglru.conf", "00-osm-thp.conf", "earlyoom",
            "99-osm-scheduler.conf", "99-osm-kernel.conf",
            "session.slice.d/10-resources.conf",
            "background.slice.d/10-resources.conf",
            "session.slice.d/10-cpuset.conf",
            "background.slice.d/10-cpuset.conf", "99-low-latency.conf",
            "95-pipewire.conf", "99-osm-power-profile.rules",
            "nvidia-pm.conf", "80-nvidia-pm.rules">>,
          <<"fstab", "60-nvme-schedulers.rules", "earlyoom",
            "00-osm-mglru.conf", "00-osm-thp.conf", "99-osm-memory.conf",
            "99-osm-scheduler.conf", "99-osm-kernel.conf",
            "session.slice.d/10-resources.conf",
            "background.slice.d/10-resources.conf",
            "session.slice.d/10-cpuset.conf",
            "background.slice.d/10-cpuset.conf", "99-low-latency.conf",
            "95-pipewire.conf", "nvidia-pm.conf", "80-nvidia-pm.rules",
            "99-osm-power-profile.rules", "bookmarks", "starship.toml",
            ".tmux.conf", ".bashrc">>,
          {"fstab", "earlyoom"})

Gpu == Handler(<<>>, <<"nvidia-pm.conf", "80-nvidia-pm.rules">>, {})

Persist ==
  Handler(<<>>, <<"hardware-tune.conf", "osm-hardware-tune.service">>, {})

Desktop == Handler(<<>>, <<"bookmarks">>, {})

Terminal == Handler(<<>>, <<"starship.toml", ".tmux.conf", ".bashrc">>, {})

\* The handler a subcommand is dispatched to.
SubactionHandler ==
  [storage |-> Storage, memory |-> Memory, hardware |-> Hardware,
   system |-> System, scheduler |-> Scheduler, audio |-> Audio,
   power |-> Power, network |-> Network, kernel |-> Kernel, cpu |-> Cpu,
   all |-> All, gpu |-> Gpu, persist |-> Persist, desktop |-> Desktop,
   terminal |-> Terminal]

\* A handler as it looks to a reader interested in a few files only.
Only(files, h) ==
  LET keep(s) == SelectSeq(s, LAMBDA f : f \in files)
  IN  Handler(keep(h.targets), keep(h.writes), h.guarded \cap files)
=============================================================================
