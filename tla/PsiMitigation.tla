--------------------------- MODULE PsiMitigation ---------------------------
(***************************************************************************)
(* The memory pressure mitigation of os_manager/memory/psi_daemon.py: each *)
(* process that polls (the osm-psi daemon, and every "osm psi monitor") has*)
(* a StagedMitigationController of its own, samples the pressure, decides  *)
(* on a tier and, outside its cooldown, runs the actions of that tier,     *)
(* each of which takes its time: a writeback sync may take very long.      *)
(*                                                                         *)
(* Times are kept as ages that Tick increases and that stop at Cooldown,   *)
(* beyond which the code does not tell them apart.                         *)
(***************************************************************************)
EXTENDS Integers, FiniteSets, FiniteSetsExt

CONSTANTS
  Engine,      \* processes with a StagedMitigationController
  Reading,     \* samples: [some10, some60, full10]
  Thresholds,  \* PsiThresholds, without the cooldown
  Cooldown     \* cooldown_seconds

ASSUME CooldownAssumption == Cooldown \in Nat \ {0}

VARIABLES
  load,       \* what /proc/pressure/memory says now
  uptime,     \* time.monotonic(), up to Cooldown
  pc,         \* where each engine is in evaluate_and_mitigate
  tier,       \* its target_tier while it acts
  now_age,    \* age of its local now while it acts
  last_age,   \* now - last_mitigation_time, up to Cooldown
  begun_age,  \* history: age of its last decision to act
  done_age    \* history: age of the last action it finished

vars == <<load, uptime, pc, tier, now_age, last_age, begun_age, done_age>>

Tier == 0..3
Age == 0..Cooldown

TypeOK ==
  /\ load \in Reading
  /\ uptime \in Age
  /\ pc \in [Engine -> {"down", "idle", "compact", "kick", "drop", "record"}]
  /\ tier \in [Engine -> Tier]
  /\ now_age \in [Engine -> Age]
  /\ last_age \in [Engine -> Age]
  /\ begun_age \in [Engine -> Age]
  /\ done_age \in [Engine -> Age]

\* The machine may have been up for any time when the engines are started.
Init ==
  /\ load \in Reading
  /\ uptime \in Age
  /\ pc = [e \in Engine |-> "down"]
  /\ tier = [e \in Engine |-> 0]
  /\ now_age = [e \in Engine |-> 0]
  /\ last_age = [e \in Engine |-> 0]
  /\ begun_age = [e \in Engine |-> Cooldown]
  /\ done_age = [e \in Engine |-> Cooldown]

-----------------------------------------------------------------------------
(* The tiers *)

\* Mutant: the mildest tier is asked for first.
TierOf_MildestFirst(m) ==
  IF m.some10 >= Thresholds.tier1_some10 \/ m.some60 >= Thresholds.tier1_some60
  THEN 1
  ELSE IF m.full10 >= Thresholds.tier3_full10 THEN 3
  ELSE IF m.full10 >= Thresholds.tier2_full10 THEN 2 ELSE 0

\* The chain of evaluate_and_mitigate, from the gravest tier down.
TierOf(m) ==
  IF m.full10 >= Thresholds.tier3_full10 THEN 3
  ELSE IF \/ m.some10 >= Thresholds.tier2_some10
          \/ m.full10 >= Thresholds.tier2_full10 THEN 2
  ELSE IF \/ m.some10 >= Thresholds.tier1_some10
          \/ m.some60 >= Thresholds.tier1_some60 THEN 1
  ELSE 0

\* The triggers of each tier by themselves.
Triggers(t, m) ==
  \/ t = 0
  \/ t = 1 /\ (m.some10 >= Thresholds.tier1_some10
               \/ m.some60 >= Thresholds.tier1_some60)
  \/ t = 2 /\ (m.some10 >= Thresholds.tier2_some10
               \/ m.full10 >= Thresholds.tier2_full10)
  \/ t = 3 /\ m.full10 >= Thresholds.tier3_full10

-----------------------------------------------------------------------------
(* One engine *)

\* Mutant: last_mitigation_time starts as the present.
Start_Now(e) ==
  /\ pc[e] = "down"
  /\ pc' = [pc EXCEPT ![e] = "idle"]
  /\ last_age' = [last_age EXCEPT ![e] = 0]
  /\ UNCHANGED <<load, uptime, tier, now_age, begun_age, done_age>>

\* A new process has last_mitigation_time = 0.0, on the monotonic clock.
Start(e) ==
  /\ pc[e] = "down"
  /\ pc' = [pc EXCEPT ![e] = "idle"]
  /\ last_age' = [last_age EXCEPT ![e] = uptime]
  /\ UNCHANGED <<load, uptime, tier, now_age, begun_age, done_age>>

\* A sample outside every tier, or within the cooldown, changes nothing; any
\* other is the decision to act.  last_mitigation_time is not set yet.
Decide(e) ==
  /\ pc[e] = "idle"
  /\ TierOf(load) # 0
  /\ last_age[e] >= Cooldown
  /\ tier' = [tier EXCEPT ![e] = TierOf(load)]
  /\ now_age' = [now_age EXCEPT ![e] = 0]
  /\ begun_age' = [begun_age EXCEPT ![e] = 0]
  /\ pc' = [pc EXCEPT ![e] = "compact"]
  /\ UNCHANGED <<load, uptime, last_age, done_age>>

\* An action ends: the next of the tier follows, or the record of it all.
Act(e, from, to) ==
  /\ pc[e] = from
  /\ pc' = [pc EXCEPT ![e] = to]
  /\ done_age' = [done_age EXCEPT ![e] = 0]
  /\ UNCHANGED <<load, uptime, tier, now_age, last_age, begun_age>>

\* compact_zram_devices, of every tier
CompactZram(e) == Act(e, "compact", IF tier[e] >= 2 THEN "kick" ELSE "record")

\* Mutant: the test for the third tier is off by one.
MglruKick_NeverDrops(e) == Act(e, "kick", IF tier[e] > 3 THEN "drop" ELSE "record")

\* trigger_mglru_kick: page aging, and a sync that waits for the writeback
MglruKick(e) == Act(e, "kick", IF tier[e] >= 3 THEN "drop" ELSE "record")

\* trigger_critical_cache_drop
DropCaches(e) == Act(e, "drop", "record")

\* Mutant: last_mitigation_time is not set.
Record_Forgets(e) ==
  /\ pc[e] = "record"
  /\ pc' = [pc EXCEPT ![e] = "idle"]
  /\ tier' = [tier EXCEPT ![e] = 0]
  /\ now_age' = [now_age EXCEPT ![e] = 0]
  /\ UNCHANGED <<load, uptime, last_age, begun_age, done_age>>

\* Mutant: last_mitigation_time is the end of the cooldown.
Record_AfterNow(e) ==
  /\ pc[e] = "record"
  /\ pc' = [pc EXCEPT ![e] = "idle"]
  /\ last_age' = [last_age EXCEPT ![e] = now_age[e] - Cooldown]
  /\ tier' = [tier EXCEPT ![e] = 0]
  /\ now_age' = [now_age EXCEPT ![e] = 0]
  /\ UNCHANGED <<load, uptime, begun_age, done_age>>

\* last_mitigation_time = now, the time the evaluation began.
Record(e) ==
  /\ pc[e] = "record"
  /\ pc' = [pc EXCEPT ![e] = "idle"]
  /\ last_age' = [last_age EXCEPT ![e] = now_age[e]]
  /\ tier' = [tier EXCEPT ![e] = 0]
  /\ now_age' = [now_age EXCEPT ![e] = 0]
  /\ UNCHANGED <<load, uptime, begun_age, done_age>>

\* The process dies or is stopped; systemd, or the user, starts it again.
Die(e) ==
  /\ pc[e] # "down"
  /\ pc' = [pc EXCEPT ![e] = "down"]
  /\ tier' = [tier EXCEPT ![e] = 0]
  /\ now_age' = [now_age EXCEPT ![e] = 0]
  /\ begun_age' = [begun_age EXCEPT ![e] = Cooldown]
  /\ done_age' = [done_age EXCEPT ![e] = Cooldown]
  /\ UNCHANGED <<load, uptime, last_age>>

-----------------------------------------------------------------------------
(* The machine *)

Older(a) == IF a < Cooldown THEN a + 1 ELSE Cooldown

Tick ==
  /\ uptime' = Older(uptime)
  /\ now_age' = [e \in Engine |-> IF pc[e] \in {"down", "idle"} THEN 0
                                  ELSE Older(now_age[e])]
  /\ last_age' = [e \in Engine |-> Older(last_age[e])]
  /\ begun_age' = [e \in Engine |-> Older(begun_age[e])]
  /\ done_age' = [e \in Engine |-> Older(done_age[e])]
  /\ UNCHANGED <<load, pc, tier>>

LoadChanges ==
  /\ load' \in Reading
  /\ UNCHANGED <<uptime, pc, tier, now_age, last_age, begun_age, done_age>>

Mitigate(e) == CompactZram(e) \/ MglruKick(e) \/ DropCaches(e) \/ Record(e)

Next ==
  \/ Tick
  \/ LoadChanges
  \/ \E e \in Engine : Start(e) \/ Decide(e) \/ Mitigate(e) \/ Die(e)

Spec == Init /\ [][Next]_vars

\* Time passes, the loop polls for ever and actions end (a sync returns).
FairSpec ==
  /\ Spec
  /\ WF_vars(Tick)
  /\ \A e \in Engine : WF_vars(Start(e)) /\ WF_vars(Decide(e))
                         /\ WF_vars(Mitigate(e))

-----------------------------------------------------------------------------
(* Properties *)

\* A decision is for the gravest tier that the sample triggers: the order of
\* the chain hides none (psi_daemon.py:217-231).
GravestTier ==
  [][\A e \in Engine : Decide(e) =>
       tier'[e] = Max({t \in Tier : Triggers(t, load)})]_vars

\* An engine decides to act at most once in a cooldown, however long its
\* actions take (psi_daemon.py:206-208, 260).
DecisionsAreSpaced ==
  [][\A e \in Engine : Decide(e) => begun_age[e] >= Cooldown]_vars

\* Why: while it polls, the age the code computes is no more than the age
\* of its last decision, and while it acts its local now is that decision.
CooldownIsOwn ==
  \A e \in Engine :
    /\ pc[e] = "idle" => last_age[e] <= begun_age[e]
    /\ pc[e] \in {"compact", "kick", "drop", "record"} =>
         now_age[e] = begun_age[e]
    /\ pc[e] = "down" => begun_age[e] = Cooldown

\* Pressure that stays critical is met with cache drops again and again, by
\* every engine that stays up: the cooldown delays and never starves.
CriticalIsMet ==
  \A e \in Engine :
    <>[](TierOf(load) = 3 /\ pc[e] # "down") => []<>(pc[e] = "drop")

\* The design's guarantee: a cooldown after an action was executed.
CooldownAfterAction ==
  [][\A e \in Engine : Decide(e) => done_age[e] >= Cooldown]_vars

\* And the other way: an engine is in its cooldown because it has acted, or
\* because the machine is not yet up for a cooldown: last_mitigation_time
\* starts as 0.0, which is the time of the boot (psi_daemon.py:203).
CooldownHasCause ==
  \A e \in Engine : pc[e] = "idle" /\ last_age[e] < Cooldown =>
    begun_age[e] < Cooldown \/ last_age[e] = uptime
=============================================================================
