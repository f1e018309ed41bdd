# os-manager: TLA+ models, checks and proofs

TLA+ modules that model the stateful parts of os-manager, TLC configurations
that check them on small instances, and proofs, checked by TLAPS, of the
properties that matter most for every value of the constants.

    tlc -config MCLedgerLock_all.cfg MCLedgerLock        # one run
    tlapm LedgerLockProofs.tla                           # one proof

`PROJECT.json` lists the runs, the source lines behind every definition, the
hazards, the findings and, for every checked property, a mutation of the model
that breaks it.

## The system

os-manager is a command line tool (`osm`), a few daemons and many scripts that
tune, repair and migrate a Debian machine, with a coordination layer for the
coding agents that work on it. Its parts, with the state they keep:

| Part | State | Operations | How it meets the others |
|---|---|---|---|
| Ledger lock (`ledger/lock.py`) | rows of SQLite table `locks`, attribute `_acquired` | acquire, release, is_locked | processes of several agents share one database file |
| Handoffs (`ledger/handoff.py`) | rows of table `handoffs` | create, list pending, claim, complete | same database; agents list, then claim |
| Event store (`ledger/store.py`) | rows of table `events` | append, query | same database; one statement each |
| Message bus (`scripts/agent_bus.py`) | `clients`, `writers_to_id`, `subscriptions`, one task per connection | register, subscribe, publish, send, ping; unregister | Unix socket; `bus_send.sh` and agents are clients |
| PSI engine (`memory/psi_daemon.py`, `commands/psi.py`) | controller's last mitigation time and tier | sample, decide, compact zRAM, kick MGLRU, drop caches | reads `/proc/pressure`; a daemon under systemd and any number of `osm psi monitor` |
| Privileged execution (`sudo_exec.sh`, `commands/hsi.py`, helpers in `psi_daemon.py`, `zram.py`, `scx.py`) | none of its own | run a command as root, with input | used by all that writes to `/sys`, `/etc` and systemd |
| zRAM remediation (`memory/zram.py`) | state of the services that want `/dev/zram0`, generator's file | audit, stop, disable, mask, write, restart, audit again | systemd; called by `osm mem` and `osm tune memory` |
| sched_ext (`scheduler/scx.py`) | unit file, `scx.service`, the attached scheduler | start, run detached, enable, stop, disable | systemd, the kernel's one scheduler slot |
| AI gateway (`commands/ai.py`, `ai_claude.py`) | user units `headroom-default` and `app-9router`, GNOME scopes, plain processes, port 20128 | start, stop, restart, claude | user systemd, GNOME's autostart |
| Tuning (`commands/tune.py`, `tune_macos.py`) | configuration files, snapshots in two directories, loaded values, power profile, fstab entry, GNOME settings | snapshot, apply, revert, react to the supply, migrate NTFS driver, desktop presets | files under `/etc`, `/var/backups` and home; udev, systemd at boot, dconf |
| Upgrade (`upgrade_debian_trixie.sh`, `commands/upgrade.py`) | APT sources, backups, phase | pre-flight, back up, switch, upgrade, repair, verify | APT |
| Disk migration (`scripts/migration/`) | partitions, boot entries, staging data | check, reclaim, expand, relocate, switch boot | block devices |
| Guards (`hooks/*.sh`, `security/ast_guard.py`) | none | allow or deny a tool call | called by the agents' harness |
| MCP server and client configuration (`os_manager/mcp/`) | a configuration file | answer requests; back up and rewrite the file | standard input and output; agents' files |
| Metrics exporter (`metrics_exporter.py`) | none of its own | accept, gather, answer: one connection at a time | HTTP; reads two logs that the hooks append to |
| Everything else | none that outlives a call | reports, detection, installation | |

What is hard in it: processes that share the ledger and its wall-clock leases;
the bus, whose handlers interleave at every await and whose clients come back
under the same name; mitigation that takes longer than its own cooldown; and
sequences of privileged steps any of which may fail or be cut short, on the
only copy of a configuration or a disk. `PROJECT.json` lists these hazards at
the lines where they bite. What makes each part correct:

* lock: two holders never overlap; a crashed holder delays, never blocks; a
  reported free resource is free;
* handoffs: one claimer, the right one, for good;
* bus: the registry follows the connections; an event reaches those who were
  told they are subscribed and nobody else; a reconnected agent keeps its place;
* PSI: the gravest tier, at most once a cooldown, and always in the end;
* tuning, upgrade, migration: what was there can be had back until the point of
  no return, and that point is passed only after every check; what is loaded
  is what the next boot loads;
* services: what a call answers is so, whatever ran as what before it, and
  stays so.
* metrics: numbers read one after the other describe one system.

## Modules

| Module | What it is | Runs |
|---|---|---|
| `LeaseMutex` | what the lock promises: grants to free resources, giving back, time | refined by `LedgerLock` |
| `LedgerLock` | `ledger/lock.py` step by step | `lock`, `lock_shared_agent` (`MCLedgerLock`) |
| `LedgerLockProofs` | its theorems | |
| `Handoff` | `ledger/handoff.py` as agents use it | `handoff` (`MCHandoff`) |
| `HandoffProofs` | its theorems | |
| `AgentBus` | `scripts/agent_bus.py`, its clients and the socket between | `bus`, `bus_rename`, `bus_send_script` (`MCAgentBus`) |
| `AgentBusProofs` | its theorems | |
| `PsiMitigation` | the staged controller, its processes, time and load | `psi`, `psi_after_action` (`MCPsiMitigation`) |
| `PsiMitigationProofs` | its theorems | |
| `Upgrade` | phases 0 to 4 of `upgrade_debian_trixie.sh`, in all modes | `upgrade`, `upgrade_failed_switch` (`MCUpgrade`) |
| `UpgradeProofs` | its theorems | |
| `Host` | the modules below side by side | `host` (`MCHost`) |
| `HostProofs` | theorems about `FstabMigration`, `Scx`, `MetricsExporter`, `AiGateway` and `ZramRemediation` | |
| `HostTuneProofs` | theorems about `Desktop` and `KernelTuning` | |
| `Tuning` | snapshots of `commands/tune.py`: any handler, any files | `host` |
| `TuneDomains` | which files each handler saves and writes; gives `Tuning` its constants | `host` |
| `TuningProofs` | theorems about `Tuning` | |
| `KernelTuning` | what the handlers write and load, the power profile, udev, reboot | `host` |
| `FstabMigration` | `migrate_ntfs_driver` | `host` |
| `Desktop` | `osm tune desktop` | `host` |
| `ZramRemediation` | `memory/zram.py` | `host`, `zram_success` (`MCZram`) |
| `Scx` | `scheduler/scx.py` | `host` |
| `AiGateway` | `commands/ai.py`, `ai_claude.py` | `host` |
| `MetricsExporter` | `metrics_exporter.py`, and the hooks that write its logs | `host` |

### LedgerLock

`locks` is the table (its primary key is `Taken`); `pc`, `blocking`, `start` and
`now` are where a handle is in a call and that call's locals; `acquired` is
`_acquired`; `lease` is a history variable, the expiry the handle believes in.
`acquire` is `CallAcquire`, `ReadNow` (before the connection is opened), one
transaction that is `TxnAcquired`, `TxnRefused` or `TxnBusy`, and `GiveUp` or
`Retry`. The transaction is one step: its DELETE takes SQLite's write lock. The
clock may run any amount between `ReadNow` and the transaction, which is the
wait for that lock. `release` is one step and looks at neither `_acquired` nor
the lease. `is_locked` is two, a reading and a SELECT. A process may die
anywhere; its row stays. The wall clock is monotone in the model.

### Handoff

`listed[a]` is the answer an agent still has in hand, `working[a]` what it claimed;
`claim_handoff` is `ClaimWon` or `ClaimLost`, according to whether the UPDATE
changed a row. Nothing in the statement names the target, so that the right
agent works rests on the listing. `OpenSpec` adds `CompleteAny`: the code lets
anyone complete anything.

### AgentBus

One action per JSON-RPC method, each the whole turn of the handler up to the
`drain` of its answer; `Drained` and `Aborted` are the two ways the drain ends.
A closed client is noticed when the handler writes to it or reads the end of
the stream, not before. `Disconnect` may reset the connection if the client left
answers unread. `EndTask` is the `finally` block, with `unregister` in it.
`Restart` is a daemon that dies and its successor. The clients play scripts of
frames (MCAgentBus gives them) and may stop at any point. Topics are sequences
of segments, and `ns.*` is a pattern with a `wild` flag.

### PsiMitigation

Each engine is a process with a controller: `Decide` is `evaluate_and_mitigate` up
to its first action, then each action ends in a step of its own, since a
writeback sync may take long, and `Record` sets `last_mitigation_time` to the
time read at the beginning. Times are kept as ages, capped at the cooldown,
beyond which the code cannot tell them apart, so the model is finite without
a bound on the clock. The thresholds are scaled down; samples lie on both sides
of each.

### Upgrade

Each element of `Run` is one invocation of the script, in one of its modes; a
retry is another element, and invocations may overlap. They share `/etc/apt`
(`etc`, one content for each file of sources), the package lists, the origins
packages were unpacked from, the state of dpkg and APT's lock. `CopyFile` is
`cp -a` of one file, merged into what the directory already holds; `DirOf` says
which directory an invocation uses. Phase 2 is `OpenSources` and `WriteSources`
(a `cat >` truncates first), `ClearLegacy` and one `Disable` a third-party file,
and each may fail: `FailedStep` is what the shell does then, which differs between
the pipeline (errexit is off in the condition of an `if`) and
`--transition-only`. `BeginApt`, `EndApt` and `FailApt` are the three commands that
unpack, one after the other; the firmware's failure is passed over. `Kill` is
loss of power, `Rescue` the generated rescue script. `"original"` is what a file
held before the first invocation, its absence included. `OSM_APT_DIR` is not set:
with it the script switches one directory and backs up another.

### Tuning and TuneDomains

A run is one invocation of `osm tune`, as root or not. `BeginApply` reads the
time that names the snapshot; `MakeDir`, `CopyFile` (or `SkipAbsent`,
`CopyLost`) for each target, and `WriteManifest` are `create_system_snapshot`;
`OpenFile` and `FillFile` are a write, which truncates first. `SnapshotFails`
goes on to the writes, as the handlers do. `guarded` are the files whose failure
a handler passes over. A revert looks for the manifest (`ListedIn`), in
`/var/backups` before the home directory (`PathOf`), and puts back what was
copied: a file that was absent stays as the run left it. A user who is not root
saves to the home directory and cannot write root's files. `Kill` may come
anywhere. `Tuning` has the handlers as constants, so its theorems hold for any;
`TuneDomains` has them as they are.

### KernelTuning

A command is a list of steps (`Program`): write a file, load it, write a node of
`/sys`, trigger udev, write the persisted configuration, enable a unit, read the
supply. `LoadFiles` overlays the files in the order systemd loads them
(`LoadOrder`), so that two files which set one key are told apart. `Abort` is an
error that ends a run, `Lost` a step whose failure is dropped. udev runs the
rule once for all events that came while it was busy (`event`), and the rule
names the profile of the supply as it is then (`MatchRule`); `Plug` changes the
supply at any moment. `Reboot` starts from the defaults and loads. `AuditPower`
and its like are what the reports read. Of the values written those are kept
that two handlers set, or that a property speaks of.

### FstabMigration

Each call reads, copies to the backup named by the time, truncates, fills,
unmounts, mounts, and, if that fails, writes the backup back. The file is its one
entry; a content read while it is written is `"empty"`.

### Desktop

`Apply` reads what the session asked; `OpenSnapshot` creates the file and `Dump`
fills it from `dconf`; `Clone` and `Install` go through one sandbox directory, which
`CleanSandbox` of any run removes; `SetKey` sets one key. `Backup` and `Restore` are
the subcommands of that name. A snapshot's name has the time in it, so each
is a file of its own.

### ZramRemediation

An audit is three queries, a step each, between which anything may happen
(`QueryConf`, which also reads the swap devices, `QueryFiles`, `QueryActive`);
those of a service may time out. `Remediate` makes the list of commands that
`Actions` gives; each is a step, and `CommandLost` is one without effect.
`WriteRaises` is the write with a password, which raises a TypeError. Services
may be installed, started, enabled, unmasked by others (`excused` remembers
them), and the system booted.

### Scx

The kernel holds one scheduler (`attached`), by the service or by a detached
process. `StartSteps` writes the unit file (truncate, fill), reloads and restarts;
`loaded` is what systemd read at the last reload. A service that fails waits and is
started again (`AutoRestart`) until its limit (`GiveUp`). `suspect` remembers that a
command failed, for then nothing is promised.

### AiGateway

A router has a source, the way it was started, and a state; `Bind` is the moment
it takes the port, which one has. The steps of a call are those of the functions
(`StopSteps`, `StartSteps`, the drain of a restart), each with its own query of
what exists at that moment (`FindScopes` before `StopScopes`). `GnomeStarts` is
the autostart at login, `OtherBinds` another program on the port, `Hangs` a
router that keeps the port and does not answer.

### MetricsExporter

A server that takes one connection after the other; a client may be silent or
leave. A scrape gathers in the order of the code: `/proc`, systemd, the audit log,
the error log. A hook appends to the error log, then to the audit log (a line is
readable once whole), and may be killed between.

### Host

The components above share no state that their properties speak of, so one
module has them side by side: `which` is chosen at the start, the chosen
component makes all the steps and the others' variables stay 0. A property of
`Host` is that of the component when it was chosen. `Host` declares the
constants of all of them and what is assumed of these (see Proofs); `MCHost`
gives them values.

## Runs

| Run | Bounds | Shows |
|---|---|---|
| `lock` | 2 handles of 2 agents, time-to-live 2 and 1, clock to 4, timeout 1 | types, the inductive invariant, mutual exclusion, `is_locked`, refinement of `LeaseMutex`, a blocking acquire returns |
| `lock_shared_agent` | 3 handles, 2 of one agent | violated: a stale release takes the live row of another session of the agent |
| `handoff` | 2 handoffs (one to an agent, one to all), 3 agents | claimed once, by an addressee, worked on alone |
| `bus` | 3 connections, 3 agent ids, 2 patterns, scripts of up to 3 frames | `BusInv` (types and the agreement of the maps), registry, routing, take-over, clean-up |
| `bus_rename` | 2 connections | violated: a second register leaves the first id behind |
| `bus_send_script` | 1 connection | violated: what `bus_send.sh` sent is not read |
| `psi` | 2 engines, every sample, cooldown 2 | cooldown, tiers, liveness |
| `psi_after_action` | 1 engine | violated: a long action is followed at once by the next |
| `upgrade` | 2 invocations, 2 directories, 1 third-party file | types, the inductive invariant, the original is kept, consent, breakage is reported |
| `upgrade_failed_switch` | 1 invocation | violated: a failed switch does not stop the upgrade |
| `host` | each component on a small instance, see below | snapshots keep the originals and never change; loaded values are the next boot's; the profile settles on the supply; the first fstab entry is kept; desktop settings are kept; no zRAM service comes back; the scheduler and the gateway are as answered; scrapes agree |
| `zram_success` | 1 service, 1 run | violated: success, and no zRAM is configured |

Why these bounds are enough: a breach of mutual exclusion needs two handles and
a clock that passes one expiry between a reading and its transaction, which
needs a lease, an expiry and a tick, so 4 ticks leave room for two rounds. A
handoff needs a claimer, a rival and a third who completes. On the bus every
hazard is between two connections of one id or a publisher and a subscriber,
and the third connection adds the bystander. The cooldown of 2 has a point
inside it and one at its edge. For the upgrade every hazard is between a first
attempt and a second; one third-party file stands for each.

In `host`, `Tuning` has two invocations and two seconds, fstab (there or not) and
the file that `gpu power-save` writes with no snapshot: an original is lost, if at
all, by one run that writes between another's copy and its manifest. `KernelTuning`
has the pairs of commands that set one key in two files (network against system
and against scheduler), memory against revert, power against udev, and the
persistence switched by two users; one CPU, for all get one value. Two
migrations of fstab. Two desktop sessions, a preset with themes and one without,
one theme, two modes, two snapshots. One remediation against two services, so
that one holds the device and the other wants it. Two calls of scx with two
profiles. Two calls of osm ai, one that stops or restarts and one that starts,
restarts or launches, and two router processes. Two clients of the exporter
and one hook, which comes between any two of its reads.

The runs of `MCAgentBus`, `MCUpgrade` and `MCHost` check no deadlock: clients stop when
their scripts end, invocations end, and then nothing is left to do. All other
runs check it.

Fairness: in `LedgerLock` time passes and a process inside a call keeps running
(nobody is obliged to call, release or crash); `TxnBusy` is not among the fair
steps. In `AgentBus` the event loop runs every handler that can go on; clients
owe nothing. In `PsiMitigation` time passes, systemd starts the daemon
(`Restart=always`), the loop polls and actions end: `os.sync` returns. The
components of `MCHost` state none: nobody is obliged to run a command, and each
of their properties is of what has been answered.

## Findings

* `lock_shared_agent`: `release` deletes by agent id (`lock.py:69`), so a handle
  whose lease has run out removes another session's row.
* `bus_rename`: `register` on a registered connection (`agent_bus.py:118`) leaves
  the old id in `clients` after the connection is gone.
* `bus_send_script`: the sender closes without reading; the answer's drain
  raises (`agent_bus.py:129`) and the frame behind it is dropped.
* `psi_after_action`: the cooldown counts from before the actions
  (`psi_daemon.py:262`), the design document says after.
* `upgrade_failed_switch`: `transition_sources` is called where errexit is off
  (`upgrade_debian_trixie.sh:825`); a file of sources that could not be cleared or
  disabled stays, success is logged, and packages are unpacked from it.
* `zram_success`: `remediate_zram_conflicts` takes any audit without a conflict for
  success, `UNCONFIGURED` too (`memory/zram.py`): a generator that did not start
  after its rivals were masked is reported as enforced.

Met while modelling and not checked by a run:

* A revert does not remove files that a command created, although the design
  says it restores (`docs/superpowers/plans/2026-08-24-adaptive-kernel-system-optimization.md:16`).
* `osm tune power --apply` reads the supply before it applies the profile;
  `sysctl --system` resets the slice; `performance.conf` is loaded after, and
  overrides, memory's swappiness and network's queue discipline;
  `osm-hardware-tune.service` does not read `hardware-tune.conf`.
* A failed `dconf dump` leaves an empty snapshot that is then the latest; `dconf load`
  does not unset what is missing from it.
* fstab read while another run writes it is migrated as empty and written back.
* A zRAM query that times out reads as no conflict; the write with a password raises a
  TypeError after the services were masked; the generator's file is overwritten with no backup.
* Stopping or disabling scx ignores results, and `pkill -f scx_` matches
  whatever has that in its command line.
* The drain of `osm ai restart` watches only the port; the start follows although
  the stop failed; `osm ai claude` says "direct connection" and still sets the
  address of a proxy that is not there.
* The exporter waits for a silent client with everybody else in the queue; a
  `systemctl` that times out counts 0 failed units.
* Of less weight: a wall clock that steps back lengthens leases; a bus that stops
  removes the socket path of its successor; `OSM_BACKUP_DIR` given twice overwrites
  a backup; `--check` pre-seeds debconf; `complete_handoff` asks for nothing.

## Proofs

Every safety property that a passing run checks is a theorem of its
specification: the run shows it on a small instance, the theorem for every value
of the constants. TLC evaluates the assumptions on the constants in the runs of
their modules:

* `ConfigAssumption`, `TargetAssumption`, `CooldownAssumption`, `RunAssumption`,
  `TuningAssumption`: types.
* `NoneAssumption`, `FrameAssumption` (`AgentBus`): a frame that registers, subscribes
  or sends names an agent and topics. The code takes what the JSON has; `Agent` and
  `Pattern` are whatever that is.
* In `Host`: machines have finitely many CPUs and services
  (`KernelAssumption`, `ServiceAssumption`); invocations of `osm` are neither udev nor
  the boot; a plan has only commands that exist (`PlanAssumption`), desktop presets
  are the three of the parser, a call of `osm ai` does what its parser knows
  (`DesktopAssumption`, `GatewayAssumption`); and the values the models use for "no
  profile", "no mode", "no service" are not names of such (`ScxAssumption` and the
  others).

Three hypotheses are more than types and are stated by the theorems that need
them: `DistinctAgents`, `DistinctDirs` and `EachRegistersOnce`. Each of them is
what the code leaves to its callers; that it cannot be dropped is shown by a
violated run (`lock_shared_agent`, `bus_rename`) or said below.

`LedgerLockProofs`. `TypeCorrect`, then the inductive invariant `LockInv`: each
resource has one row at most; the time an attempt has read is not ahead of the
clock; and a handle whose lease runs has its row in the table. Mutual exclusion
by itself is not inductive: the clean-up of a second handle could remove the
first one's row. It cannot because the time it uses is past and the row's expiry
is not (`CleanUpSparesHolders`), and a release cannot because the agents differ,
which is why `Mutex`, `FreeIsFree` and `Refinement` assume `DistinctAgents`; the
run `lock_shared_agent` shows the assumption is needed. A grant then meets no
holder (`GrantMeetsNoHolder`), which is the heart of the refinement.

`HandoffProofs`. A claimed handoff has left `pending` and nothing takes it back; so
a second claim finds no row (`ClaimOnce`, from `HandoffInv`). Claims are kept, and
who works on a handoff has claimed it (`WorkIsClaimed`); two who did would be two
claims, so `WorkOwn`. `WorkAddressed` is carried by the lists: what an agent has
listed was addressed to it, and targets never change.

`AgentBusProofs`. Whatever clients send: `EventsWereAsked`, since a subscription
is stored only with the answer that says so, and that answer is remembered
(`Asked`); `NoOrphans`, from `OwnName` (an agent_id that was never shared is
registered to the connection that knows itself by it, so `unregister` finds it and
its subscriptions); and `SuccessorIsKept`. With clients that register once
(`EachRegistersOnce`), `TablesAgree`, `RegisteredAreAlive`, `ToldIsStored` and
`PublishedReaches`: the inductive invariant says that a connection that has
registered has no second registration left in what it has sent or is going to
send, so that the two tables of the broker cannot part; that a handler which ends
finds its own entry follows, and from that the rest. The run `bus_rename` shows
what a second registration does. `MixedScripts` of the run `bus` meets the
hypothesis (`OnceAssumption`).

`PsiMitigationProofs`. `CooldownIsOwn`: while it polls, the age the code computes is
at most the age of the last decision; while it acts, its local `now` is that
decision. Ages grow monotonically (`OlderIsMonotone`), so a decision outside
the cooldown is a cooldown after the last one (`Spaced`). `CooldownCause` needs
that the time an engine reads is that of its last decision or of the boot
(`LastIsDecisionOrBoot`). `Gravest` holds for any thresholds: the tests are in the
order of the tiers, so it does not need the thresholds to be.

`UpgradeProofs`. Consent and reports (`SafetyInv`) are inductive by themselves: a
run comes to its question with its backup and to its packages with its
question; whoever leaves packages broken has an exit code or is going to.
That the original is kept needs `KeeperExists`: while nothing is touched, all that
has been copied is original, so the run that touches first has it all; after
that, some run past its copying has it, and nobody else writes to its
directory. `Frame` states once what a step can do to backups and sources, and
the argument uses nothing else of the 23 actions. `DistinctDirs` is needed: two
invocations given the same `OSM_BACKUP_DIR` overwrite the original.

`TuningProofs`. `TypeCorrect`; `TuningInvariant`, of which `OriginalKept` is a
part; and `SnapshotsAreFinal`: no step of any run changes a snapshot that has
its manifest. That an original is in place or saved is not inductive: a write
relies on the copy being good, which relies on what the file was when it was
copied, on the snapshot being the run's own, and on its not changing since. So
`TuningInv` adds `Structure` (an identifier is of one run and one directory, a
directory that was not made is empty, and what the place of a run says of its
snapshot) and `CopiesAreGood`: a copy that is not the original was taken when
the original was already saved. Any files, handlers, runs and number of seconds.
Two snapshots are not begun in one second: this is a guard of `BeginApply`
(`DistinctSeconds`), for the identifier is the time to the second, and two runs
within one would share a directory.

`HostProofs` and `HostTuneProofs`. `OneComponent`: a step of `Host` is one of the
component that was chosen, so each theorem is about that component alone. For
any number of calls that overlap:

* `FirstEntryKept` (`FstabInv`). Some copy is of the first entry, or no copy has
  been made and it is in fstab; each migration copies once, and before it truncates.
  What is read may be torn: that is in the types, and does not matter.
* `SchedulerIsAsAsked` (`ScxInv`). What a stop has behind it is brought about, while
  nothing was started meanwhile (`Stopped`); and the unit file, what systemd has read of it and the profile that
  runs differ only while a call still has the step to do that brings them
  together (`UnitInStep`).
* `AnswersAgree` (`MetricsInv`). A failure's error line is written before its audit
  line (`LogsInStep`), the exporter reads the logs in the other order, and what it has
  read is never more than the logs have now (`ServerInStep`): so the counters of an
  answer agree although both logs grow between the readings.
* `GatewayDoesAsItAnswers` (`AiInv`). For every list of steps a call may have left, what
  the call has brought about so far (`StopOk`, `RestartOk`), unless something was
  started meanwhile; and who serves has the port.
* `NothingComesBack` (`ZramInv`). In its last audit, a run that has yet to succeed has
  every service still to see, has found it in conflict, or has seen it quiet: not
  running, not failed, and with nothing that would start it (`LastAudit`). A success
  has found no conflict, and a quiet service stays so at a boot (`Relies`). The queries
  of one service are two (`files`, then `active`), and between them others act; hence
  the part of `LastAudit` about a service of which only the first was asked.
* `DesktopKeepsAndInstalls` (`DesktopInv`). Sessions open files of their own
  (`OwnSnapshots`), a session opens, dumps, and only then sets (`OpensFirst`,
  `DumpSaves`), whatever is not the user's has a copy of the user's (`OthersSaved`),
  and a theme that is not installed is still to be (`InstallsAll`).
* `LoadedIsBoot`. Files that set one key are loaded together, and in the order in
  which a boot loads them (`KernelTogether`, `KernelOrders`); so a load that overlays all
  of them leaves what a boot would (`KernelOverlay`, `KernelWhole`), and a value none
  of whose files awaits its load stays so. `KernelType` goes through every list of
  steps of every command (`ProgramHas`).
* `ProfileSettles` (`Settling`). While nobody else has touched the profile that udev
  began, either an event is pending or what udev has left to do, over what is set
  already, makes the profile of the supply (`Settles`); `SettlesNode` and
  `SettlesSlice` say that a step of udev keeps this, `SettlesUdev` that the rule, begun
  anew, establishes it.

Model-checked only: liveness (`AcquireReturns`, `ClosedIsForgotten`,
`CriticalIsMet`), which is out of the prover's reach, as is `ENABLED`; and that the
six violated properties are violated. What a fold computes is not reasoned about by
the provers either: `Overlay` of `KernelTuning` says which file wins without one.

## Not modelled

The event store (one statement a call), wording and formatting, option
parsing, reports, detection and installation. The bus's write buffers, which
the code does not bound, and its socket path. Wall clocks that step back, and
two snapshots of one second. Of tuning, the values of `/sys` that one handler
alone sets, GRUB, and the scripts `tune_system.sh` and `tune_hardware.sh`. Of the
upgrade, phase 5 and the virtual environment. Of the PSI engine, the parsing of
`/proc/pressure`, the management of its unit and the results of its writes. Of
privileged execution, everything but its effect where it is called. The guards:
their core is the parsing of shell text. See `components` in `PROJECT.json`.

## Plan

1. `LeaseMutex`, `LedgerLock`, `Handoff`, with proofs: done.
2. `AgentBus`, with proofs: done.
3. `PsiMitigation`, with proofs: done; success of the privileged writes next.
4. Services (`ZramRemediation`, `Scx`, `AiGateway`), with failures at every step and
   proofs: done; privileged execution as a module of its own.
5. `Upgrade`, with proofs: done; phase 5 and the virtual environment next.
6. Tuning (`Tuning`, `TuneDomains`, `KernelTuning`, `FstabMigration`, `Desktop`): done, with
   proofs.
7. `MetricsExporter`, with proofs: done.
8. Disk migration: destructive steps and the checks before them.
9. MCP server and client configuration; CPU topology as a pure algorithm.

Theorems still worth proving: that an abstract registry, in which a client is
there or is not, is implemented by the bus for clients that register once; and that
no destructive step of the disk migration precedes its checks.
