------------------------ MODULE PsiMitigationProofs ------------------------
(* Proofs about PsiMitigation, for any engines, samples, thresholds and    *)
(* cooldown.                                                               *)
EXTENDS PsiMitigation, TLAPS

USE CooldownAssumption

\* A sample has a tier.
LEMMA TierOfType == \A m : TierOf(m) \in Tier
BY DEF TierOf, Tier

\* A clock that ticks stays within its bound.
LEMMA OlderIsAge == \A a \in Age : Older(a) \in Age
BY DEF Older, Age

\* Ageing keeps the order of two ages, also where they stop.
LEMMA OlderIsMonotone ==
  \A a, b \in Age : a <= b => Older(a) <= Older(b)
BY DEF Older, Age

\* The types are kept by every step of an engine and of the machine.
LEMMA TypeStep == TypeOK /\ [Next]_vars => TypeOK'
<1> SUFFICES ASSUME TypeOK, [Next]_vars PROVE TypeOK'
  OBVIOUS
<1> USE DEF TypeOK
<1>0. 0 \in Age /\ Cooldown \in Age /\ 0 \in Tier
  BY DEF Age, Tier
<1>1. CASE Tick
  BY <1>0, <1>1, OlderIsAge DEF Tick
<1>2. CASE LoadChanges
  BY <1>2 DEF LoadChanges
<1>3. ASSUME NEW e \in Engine, Start(e)
      PROVE  TypeOK'
  BY <1>3 DEF Start
<1>4. ASSUME NEW e \in Engine, Decide(e)
      PROVE  TypeOK'
  BY <1>0, <1>4, TierOfType DEF Decide
<1>5. ASSUME NEW e \in Engine, Mitigate(e)
      PROVE  TypeOK'
  BY <1>0, <1>5 DEF Mitigate, CompactZram, MglruKick, DropCaches, Act, Record
<1>6. ASSUME NEW e \in Engine, Die(e)
      PROVE  TypeOK'
  BY <1>0, <1>6 DEF Die
<1>7. CASE UNCHANGED vars
  BY <1>7 DEF vars
<1> QED
  BY <1>1, <1>2, <1>3, <1>4, <1>5, <1>6, <1>7 DEF Next

\* No step makes the cooldown that an engine computes older than its last decision.
LEMMA CooldownIsOwnStep == TypeOK /\ CooldownIsOwn /\ [Next]_vars => CooldownIsOwn'
<1> SUFFICES ASSUME TypeOK, CooldownIsOwn, [Next]_vars PROVE CooldownIsOwn'
  OBVIOUS
<1> USE DEF TypeOK, CooldownIsOwn
<1>1. CASE Tick
  <2>1. Older(Cooldown) = Cooldown
    BY DEF Older
  <2> QED
    BY <1>1, <2>1, OlderIsMonotone DEF Tick
<1>2. CASE LoadChanges
  BY <1>2 DEF LoadChanges
<1>3. ASSUME NEW e \in Engine, Start(e)
      PROVE  CooldownIsOwn'
  BY <1>3 DEF Start, Age
<1>4. ASSUME NEW e \in Engine, Decide(e)
      PROVE  CooldownIsOwn'
  BY <1>4 DEF Decide
<1>5. ASSUME NEW e \in Engine, Mitigate(e)
      PROVE  CooldownIsOwn'
  BY <1>5 DEF Mitigate, CompactZram, MglruKick, DropCaches, Act, Record, Age
<1>6. ASSUME NEW e \in Engine, Die(e)
      PROVE  CooldownIsOwn'
  BY <1>6 DEF Die
<1>7. CASE UNCHANGED vars
  BY <1>7 DEF vars
<1> QED
  BY <1>1, <1>2, <1>3, <1>4, <1>5, <1>6, <1>7 DEF Next

\* While an engine polls, the cooldown it computes is never older than its
\* last decision, however long the actions of that decision took.
THEOREM CooldownInvariant == Spec => [](TypeOK /\ CooldownIsOwn)
<1>1. Init => TypeOK /\ CooldownIsOwn
  BY DEF Init, TypeOK, CooldownIsOwn, Age, Tier
<1> QED
  BY <1>1, TypeStep, CooldownIsOwnStep, PTL DEF Spec

\* Two decisions of one engine are at least a cooldown apart
\* (psi_daemon.py:206-208, 260), for any lengths of the actions.
THEOREM Spaced == Spec => DecisionsAreSpaced
<1>1. TypeOK /\ CooldownIsOwn /\ [Next]_vars =>
        [\A e \in Engine : Decide(e) => begun_age[e] >= Cooldown]_vars
  <2> SUFFICES ASSUME TypeOK, CooldownIsOwn, NEW e \in Engine, Decide(e)
               PROVE  begun_age[e] >= Cooldown
    OBVIOUS
  <2> QED
    BY DEF Decide, CooldownIsOwn, TypeOK, Age
<1> QED
  BY <1>1, CooldownInvariant, PTL DEF Spec, DecisionsAreSpaced

\* The types hold for any engines, samples and thresholds.
THEOREM TypeCorrect == Spec => []TypeOK
BY CooldownInvariant, PTL

-----------------------------------------------------------------------------
(* An engine is in its cooldown for a reason. *)

\* last_mitigation_time of an engine that polls is the time of its last
\* decision, or that of the boot.
LastIsDecisionOrBoot ==
  \A e \in Engine : pc[e] = "idle" => last_age[e] \in {begun_age[e], uptime}

\* Only a decision of its own moves the time that an engine reads.
LEMMA LastIsDecisionOrBootStep ==
  TypeOK /\ CooldownIsOwn /\ LastIsDecisionOrBoot /\ [Next]_vars => LastIsDecisionOrBoot'
<1> SUFFICES ASSUME TypeOK, CooldownIsOwn, LastIsDecisionOrBoot, [Next]_vars
             PROVE  LastIsDecisionOrBoot'
  OBVIOUS
<1> USE DEF TypeOK, LastIsDecisionOrBoot
<1>1. CASE Tick
  BY <1>1 DEF Tick
<1>2. CASE LoadChanges
  BY <1>2 DEF LoadChanges
<1>3. ASSUME NEW e \in Engine, Start(e) \/ Decide(e) \/ Die(e)
      PROVE  LastIsDecisionOrBoot'
  BY <1>3 DEF Start, Decide, Die
<1>4. ASSUME NEW e \in Engine, Mitigate(e)
      PROVE  LastIsDecisionOrBoot'
  BY <1>4 DEF Mitigate, CompactZram, MglruKick, DropCaches, Act, Record, CooldownIsOwn
<1>5. CASE UNCHANGED vars
  BY <1>5 DEF vars
<1> QED
  BY <1>1, <1>2, <1>3, <1>4, <1>5 DEF Next

\* An engine that holds back has acted within its cooldown, or the machine is
\* not up for a cooldown yet: restarts and long actions are no other cause
\* (psi_daemon.py:203).
THEOREM CooldownCause == Spec => []CooldownHasCause
<1>1. Init => LastIsDecisionOrBoot
  BY DEF Init, LastIsDecisionOrBoot
<1>2. TypeOK /\ LastIsDecisionOrBoot => CooldownHasCause
  BY DEF LastIsDecisionOrBoot, CooldownHasCause
<1> QED
  BY <1>1, <1>2, CooldownInvariant, LastIsDecisionOrBootStep, PTL DEF Spec

-----------------------------------------------------------------------------
(* The tier that is decided on. *)

\* The chain of conditions stops at the gravest tier that is triggered.
LEMMA TierOfIsGravest ==
  \A m : /\ Triggers(TierOf(m), m)
        /\ \A t \in Tier : Triggers(t, m) => t <= TierOf(m)
BY DEF TierOf, Triggers, Tier

\* A decision is for the gravest tier that the sample triggers
\* (psi_daemon.py:217-231), whatever the thresholds, ordered or not.
THEOREM Gravest == Spec => GravestTier
<1>1. ASSUME TypeOK, NEW e \in Engine, Decide(e)
      PROVE  tier'[e] = Max({t \in Tier : Triggers(t, load)})
  <2> DEFINE S == {t \in Tier : Triggers(t, load)}
  <2>1. tier'[e] = TierOf(load)
    BY <1>1 DEF Decide, TypeOK
  <2>2. TierOf(load) \in S /\ \A t \in S : t <= TierOf(load)
    BY TierOfIsGravest, TierOfType
  <2>3. S \subseteq Nat
    BY DEF Tier
  <2>4. \A x \in S : (\A y \in S : x >= y) => x = TierOf(load)
    BY <2>2, <2>3
  <2>5. \E x \in S : \A y \in S : x >= y
    BY <2>2, <2>3
  <2>6. Max(S) = TierOf(load)
    <3> HIDE DEF S
    <3> QED
      BY <2>4, <2>5 DEF Max
  <2> QED
    BY <2>1, <2>6
<1>2. TypeOK /\ [Next]_vars =>
        [\A e \in Engine : Decide(e) =>
           tier'[e] = Max({t \in Tier : Triggers(t, load)})]_vars
  BY <1>1
<1> QED
  BY <1>2, CooldownInvariant, PTL DEF Spec, GravestTier
=============================================================================
