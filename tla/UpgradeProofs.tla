--------------------------- MODULE UpgradeProofs ---------------------------
(* What holds of Upgrade for any number of invocations and sources. *)
EXTENDS Upgrade, TLAPS

\* Whether it goes on or ends, a failed step leaves its run well typed.
LEMMA FailedStepTypes ==
  ASSUME TypeOK, NEW r \in Run, NEW next \in {"clear", "disable"},
         NEW files \in SUBSET File, FailedStep(r, next, files)
  PROVE  /\ pc' \in [Run -> {"down", "preflight", "backup", "open", "write",
                             "clear", "disable", "confirm", "update",
                             "repair", "ended"} \cup Phase]
         /\ todo' \in [Run -> SUBSET File]
         /\ exit' \in [Run -> {"none", "0", "1", "2", "3", "killed"}]
<1>1. CASE mode[r] = "transition"
  BY <1>1 DEF TypeOK, FailedStep, End, Phase
<1>2. CASE mode[r] # "transition"
  BY <1>2 DEF TypeOK, FailedStep, Phase
<1>3. QED
  BY <1>1, <1>2

\* Every action keeps the types.
LEMMA TypeStep ==
  ASSUME TypeOK, [Next]_vars
  PROVE  TypeOK'
<1> USE RunAssumption DEF TypeOK, apt, File, Content, Origin, Phase
<1>1. ASSUME NEW r \in Run, NEW m \in {"apply", "backup", "transition", "check"},
            Start(r, m) PROVE TypeOK'
  BY <1>1 DEF Start, Go
<1>2. ASSUME NEW r \in Run, PreflightFails(r) PROVE TypeOK'
  BY <1>2 DEF PreflightFails, End
<1>3. ASSUME NEW r \in Run, PreflightPasses(r) PROVE TypeOK'
  BY <1>3 DEF PreflightPasses, Go, End
<1>4. ASSUME NEW r \in Run, NEW f \in File, CopyFile(r, f) PROVE TypeOK'
  BY <1>4 DEF CopyFile, CopyOf
<1>5. ASSUME NEW r \in Run, BackupFails(r) PROVE TypeOK'
  BY <1>5 DEF BackupFails, End
<1>6. ASSUME NEW r \in Run, BackupDone(r) PROVE TypeOK'
  BY <1>6, ZenonT(60) DEF BackupDone, PhaseDone, End
<1>7. ASSUME NEW r \in Run, OpenSources(r) PROVE TypeOK'
  BY <1>7 DEF OpenSources, Go
<1>8. ASSUME NEW r \in Run, WriteSources(r) PROVE TypeOK'
  BY <1>8 DEF WriteSources, Go
<1>9. ASSUME NEW r \in Run, SourcesFail(r) PROVE TypeOK'
  BY <1>9, ZenonT(60) DEF SourcesFail, FailedStep, End
<1>10. ASSUME NEW r \in Run, ClearLegacy(r) PROVE TypeOK'
  BY <1>10 DEF ClearLegacy, Go, ThirdPartyLists
<1>11. ASSUME NEW r \in Run, ClearFails(r) PROVE TypeOK'
  <2>1. ThirdPartyLists \in SUBSET File
    BY DEF ThirdPartyLists
  <2>2. QED
    BY <1>11, <2>1, FailedStepTypes DEF ClearFails
<1>12. ASSUME NEW r \in Run, NEW f \in Third, Disable(r, f) PROVE TypeOK'
  BY <1>12 DEF Disable
<1>13. ASSUME NEW r \in Run, NEW f \in Third, DisableFails(r, f) PROVE TypeOK'
  <2>1. todo[r] \ {f} \in SUBSET File
    BY <1>13
  <2>2. QED
    BY <1>13, <2>1, FailedStepTypes DEF DisableFails
<1>14. ASSUME NEW r \in Run, SourcesDone(r) PROVE TypeOK'
  BY <1>14, ZenonT(60) DEF SourcesDone, PhaseDone, End
<1>15. ASSUME NEW r \in Run, Confirm(r) PROVE TypeOK'
  BY <1>15 DEF Confirm, Go
<1>16. ASSUME NEW r \in Run, Decline(r) PROVE TypeOK'
  BY <1>16 DEF Decline, End
<1>17. ASSUME NEW r \in Run, Update(r) PROVE TypeOK'
  BY <1>17 DEF Update, Go, Offers, ThirdPartyLists
<1>18. ASSUME NEW r \in Run, BeginApt(r) PROVE TypeOK'
  BY <1>18 DEF BeginApt
<1>19. ASSUME NEW r \in Run, EndApt(r) PROVE TypeOK'
  BY <1>19, ZenonT(60) DEF EndApt, End, AfterPhase
<1>20. ASSUME NEW r \in Run, FailApt(r) PROVE TypeOK'
  BY <1>20 DEF FailApt
<1>21. ASSUME NEW r \in Run, Repair(r) PROVE TypeOK'
  BY <1>21 DEF Repair, End
<1>22. ASSUME NEW r \in Run, Kill(r) PROVE TypeOK'
  BY <1>22 DEF Kill, End
<1>23. ASSUME Rescue PROVE TypeOK'
  BY <1>23 DEF Rescue
<1>24. CASE UNCHANGED vars
  BY <1>24 DEF vars
<1>25. QED
  BY <1>1, <1>2, <1>3, <1>4, <1>5, <1>6, <1>7, <1>8, <1>9, <1>10, <1>11,
    <1>12, <1>13, <1>14, <1>15, <1>16, <1>17, <1>18, <1>19, <1>20, <1>21,
    <1>22, <1>23, <1>24 DEF Next, Preflight, CreateBackup, TransitionSources,
    Upgrading

\* The lock is freed when its holder fails, ends or dies.
LEMMA LockStep ==
  ASSUME TypeOK, LockIsConsented, [Next]_vars
  PROVE  LockIsConsented'
<1> USE RunAssumption DEF TypeOK, LockIsConsented, apt, Phase
<1>1. ASSUME NEW r \in Run, NEW m \in {"apply", "backup", "transition", "check"},
            Start(r, m) PROVE LockIsConsented'
  BY <1>1 DEF Start, Go
<1>2. ASSUME NEW r \in Run, PreflightFails(r) PROVE LockIsConsented'
  BY <1>2 DEF PreflightFails, End
<1>3. ASSUME NEW r \in Run, PreflightPasses(r) PROVE LockIsConsented'
  BY <1>3 DEF PreflightPasses, Go, End
<1>4. ASSUME NEW r \in Run, NEW f \in File, CopyFile(r, f) PROVE LockIsConsented'
  BY <1>4 DEF CopyFile, CopyOf
<1>5. ASSUME NEW r \in Run, BackupFails(r) PROVE LockIsConsented'
  BY <1>5 DEF BackupFails, End
<1>6. ASSUME NEW r \in Run, BackupDone(r) PROVE LockIsConsented'
  BY <1>6 DEF BackupDone, PhaseDone, End
<1>7. ASSUME NEW r \in Run, OpenSources(r) PROVE LockIsConsented'
  BY <1>7 DEF OpenSources, Go
<1>8. ASSUME NEW r \in Run, WriteSources(r) PROVE LockIsConsented'
  BY <1>8 DEF WriteSources, Go
<1>9. ASSUME NEW r \in Run, SourcesFail(r) PROVE LockIsConsented'
  BY <1>9 DEF SourcesFail, FailedStep, End
<1>10. ASSUME NEW r \in Run, ClearLegacy(r) PROVE LockIsConsented'
  BY <1>10 DEF ClearLegacy, Go, ThirdPartyLists
<1>11. ASSUME NEW r \in Run, ClearFails(r) PROVE LockIsConsented'
  BY <1>11 DEF ClearFails, FailedStep, End, ThirdPartyLists
<1>12. ASSUME NEW r \in Run, NEW f \in Third, Disable(r, f) PROVE LockIsConsented'
  BY <1>12 DEF Disable
<1>13. ASSUME NEW r \in Run, NEW f \in Third, DisableFails(r, f) PROVE LockIsConsented'
  BY <1>13 DEF DisableFails, FailedStep, End
<1>14. ASSUME NEW r \in Run, SourcesDone(r) PROVE LockIsConsented'
  BY <1>14 DEF SourcesDone, PhaseDone, End
<1>15. ASSUME NEW r \in Run, Confirm(r) PROVE LockIsConsented'
  BY <1>15 DEF Confirm, Go
<1>16. ASSUME NEW r \in Run, Decline(r) PROVE LockIsConsented'
  BY <1>16 DEF Decline, End
<1>17. ASSUME NEW r \in Run, Update(r) PROVE LockIsConsented'
  BY <1>17 DEF Update, Go, Offers, ThirdPartyLists
<1>18. ASSUME NEW r \in Run, BeginApt(r) PROVE LockIsConsented'
  BY <1>18 DEF BeginApt
<1>19. ASSUME NEW r \in Run, EndApt(r) PROVE LockIsConsented'
  BY <1>19 DEF EndApt, End, AfterPhase
<1>20. ASSUME NEW r \in Run, FailApt(r) PROVE LockIsConsented'
  BY <1>20 DEF FailApt
<1>21. ASSUME NEW r \in Run, Repair(r) PROVE LockIsConsented'
  BY <1>21 DEF Repair, End
<1>22. ASSUME NEW r \in Run, Kill(r) PROVE LockIsConsented'
  BY <1>22 DEF Kill, End
<1>23. ASSUME Rescue PROVE LockIsConsented'
  BY <1>23 DEF Rescue
<1>24. CASE UNCHANGED vars
  BY <1>24 DEF vars
<1>25. QED
  BY <1>1, <1>2, <1>3, <1>4, <1>5, <1>6, <1>7, <1>8, <1>9, <1>10, <1>11,
    <1>12, <1>13, <1>14, <1>15, <1>16, <1>17, <1>18, <1>19, <1>20, <1>21,
    <1>22, <1>23, <1>24 DEF Next, Preflight, CreateBackup, TransitionSources,
    Upgrading

\* Nothing follows an exit code.
LEMMA CodeStep ==
  ASSUME TypeOK, LockIsConsented, CodeIsFinal, [Next]_vars
  PROVE  CodeIsFinal'
<1> USE RunAssumption DEF TypeOK, LockIsConsented, CodeIsFinal, apt, Phase
<1>1. ASSUME NEW r \in Run, NEW m \in {"apply", "backup", "transition", "check"},
            Start(r, m) PROVE CodeIsFinal'
  BY <1>1 DEF Start, Go
<1>2. ASSUME NEW r \in Run, PreflightFails(r) PROVE CodeIsFinal'
  BY <1>2 DEF PreflightFails, End
<1>3. ASSUME NEW r \in Run, PreflightPasses(r) PROVE CodeIsFinal'
  BY <1>3 DEF PreflightPasses, Go, End
<1>4. ASSUME NEW r \in Run, NEW f \in File, CopyFile(r, f) PROVE CodeIsFinal'
  BY <1>4 DEF CopyFile, CopyOf
<1>5. ASSUME NEW r \in Run, BackupFails(r) PROVE CodeIsFinal'
  BY <1>5 DEF BackupFails, End
<1>6. ASSUME NEW r \in Run, BackupDone(r) PROVE CodeIsFinal'
  BY <1>6, ZenonT(60) DEF BackupDone, PhaseDone, End
<1>7. ASSUME NEW r \in Run, OpenSources(r) PROVE CodeIsFinal'
  BY <1>7 DEF OpenSources, Go
<1>8. ASSUME NEW r \in Run, WriteSources(r) PROVE CodeIsFinal'
  BY <1>8 DEF WriteSources, Go
<1>9. ASSUME NEW r \in Run, SourcesFail(r) PROVE CodeIsFinal'
  BY <1>9 DEF SourcesFail, FailedStep, End
<1>10. ASSUME NEW r \in Run, ClearLegacy(r) PROVE CodeIsFinal'
  BY <1>10 DEF ClearLegacy, Go, ThirdPartyLists
<1>11. ASSUME NEW r \in Run, ClearFails(r) PROVE CodeIsFinal'
  BY <1>11 DEF ClearFails, FailedStep, End, ThirdPartyLists
<1>12. ASSUME NEW r \in Run, NEW f \in Third, Disable(r, f) PROVE CodeIsFinal'
  BY <1>12 DEF Disable
<1>13. ASSUME NEW r \in Run, NEW f \in Third, DisableFails(r, f) PROVE CodeIsFinal'
  BY <1>13 DEF DisableFails, FailedStep, End
<1>14. ASSUME NEW r \in Run, SourcesDone(r) PROVE CodeIsFinal'
  BY <1>14, ZenonT(60) DEF SourcesDone, PhaseDone, End
<1>15. ASSUME NEW r \in Run, Confirm(r) PROVE CodeIsFinal'
  BY <1>15 DEF Confirm, Go
<1>16. ASSUME NEW r \in Run, Decline(r) PROVE CodeIsFinal'
  BY <1>16 DEF Decline, End
<1>17. ASSUME NEW r \in Run, Update(r) PROVE CodeIsFinal'
  BY <1>17 DEF Update, Go, Offers, ThirdPartyLists
<1>18. ASSUME NEW r \in Run, BeginApt(r) PROVE CodeIsFinal'
  BY <1>18 DEF BeginApt
<1>19. ASSUME NEW r \in Run, EndApt(r) PROVE CodeIsFinal'
  BY <1>19, ZenonT(60) DEF EndApt, End, AfterPhase
<1>20. ASSUME NEW r \in Run, FailApt(r) PROVE CodeIsFinal'
  BY <1>20 DEF FailApt
<1>21. ASSUME NEW r \in Run, Repair(r) PROVE CodeIsFinal'
  BY <1>21 DEF Repair, End
<1>22. ASSUME NEW r \in Run, Kill(r) PROVE CodeIsFinal'
  BY <1>22 DEF Kill, End
<1>23. ASSUME Rescue PROVE CodeIsFinal'
  BY <1>23 DEF Rescue
<1>24. CASE UNCHANGED vars
  BY <1>24 DEF vars
<1>25. QED
  BY <1>1, <1>2, <1>3, <1>4, <1>5, <1>6, <1>7, <1>8, <1>9, <1>10, <1>11,
    <1>12, <1>13, <1>14, <1>15, <1>16, <1>17, <1>18, <1>19, <1>20, <1>21,
    <1>22, <1>23, <1>24 DEF Next, Preflight, CreateBackup, TransitionSources,
    Upgrading

\* A run meets its question with its backup, its packages with consent.
LEMMA ConsentStep ==
  ASSUME TypeOK, LockIsConsented, ConsentInv, [Next]_vars
  PROVE  ConsentInv'
<1> USE RunAssumption DEF TypeOK, LockIsConsented, ConsentInv, HasAll,
    Switching, apt, Phase, Content
<1>1. ASSUME NEW r \in Run, NEW m \in {"apply", "backup", "transition", "check"},
            Start(r, m) PROVE ConsentInv'
  BY <1>1 DEF Start, Go
<1>2. ASSUME NEW r \in Run, PreflightFails(r) PROVE ConsentInv'
  BY <1>2 DEF PreflightFails, End
<1>3. ASSUME NEW r \in Run, PreflightPasses(r) PROVE ConsentInv'
  BY <1>3 DEF PreflightPasses, Go, End
<1>4. ASSUME NEW r \in Run, NEW f \in File, CopyFile(r, f) PROVE ConsentInv'
  BY <1>4, SMTT(30) DEF CopyFile, CopyOf
<1>5. ASSUME NEW r \in Run, BackupFails(r) PROVE ConsentInv'
  BY <1>5 DEF BackupFails, End
<1>6. ASSUME NEW r \in Run, BackupDone(r) PROVE ConsentInv'
  BY <1>6, SMTT(30) DEF BackupDone, PhaseDone, End
<1>7. ASSUME NEW r \in Run, OpenSources(r) PROVE ConsentInv'
  BY <1>7 DEF OpenSources, Go
<1>8. ASSUME NEW r \in Run, WriteSources(r) PROVE ConsentInv'
  BY <1>8 DEF WriteSources, Go
<1>9. ASSUME NEW r \in Run, SourcesFail(r) PROVE ConsentInv'
  BY <1>9 DEF SourcesFail, FailedStep, End
<1>10. ASSUME NEW r \in Run, ClearLegacy(r) PROVE ConsentInv'
  BY <1>10 DEF ClearLegacy, Go, ThirdPartyLists
<1>11. ASSUME NEW r \in Run, ClearFails(r) PROVE ConsentInv'
  BY <1>11 DEF ClearFails, FailedStep, End, ThirdPartyLists
<1>12. ASSUME NEW r \in Run, NEW f \in Third, Disable(r, f) PROVE ConsentInv'
  BY <1>12 DEF Disable
<1>13. ASSUME NEW r \in Run, NEW f \in Third, DisableFails(r, f) PROVE ConsentInv'
  BY <1>13 DEF DisableFails, FailedStep, End
<1>14. ASSUME NEW r \in Run, SourcesDone(r) PROVE ConsentInv'
  BY <1>14, SMTT(30) DEF SourcesDone, PhaseDone, End
<1>15. ASSUME NEW r \in Run, Confirm(r) PROVE ConsentInv'
  BY <1>15 DEF Confirm, Go
<1>16. ASSUME NEW r \in Run, Decline(r) PROVE ConsentInv'
  BY <1>16 DEF Decline, End
<1>17. ASSUME NEW r \in Run, Update(r) PROVE ConsentInv'
  BY <1>17 DEF Update, Go, Offers, ThirdPartyLists
<1>18. ASSUME NEW r \in Run, BeginApt(r) PROVE ConsentInv'
  BY <1>18 DEF BeginApt
<1>19. ASSUME NEW r \in Run, EndApt(r) PROVE ConsentInv'
  <2>1. r \in consented /\ pc[r] \in Phase /\ HasAll(DirOf[r])
    BY <1>19 DEF EndApt
  <2>2. CASE pc[r] = "full"
    BY <1>19, <2>1, <2>2 DEF EndApt, End
  <2>3. CASE pc[r] # "full"
    BY <1>19, <2>1, <2>3 DEF EndApt, AfterPhase
  <2>4. QED
    BY <2>2, <2>3
<1>20. ASSUME NEW r \in Run, FailApt(r) PROVE ConsentInv'
  BY <1>20 DEF FailApt
<1>21. ASSUME NEW r \in Run, Repair(r) PROVE ConsentInv'
  BY <1>21 DEF Repair, End
<1>22. ASSUME NEW r \in Run, Kill(r) PROVE ConsentInv'
  BY <1>22 DEF Kill, End
<1>23. ASSUME Rescue PROVE ConsentInv'
  BY <1>23 DEF Rescue
<1>24. CASE UNCHANGED vars
  BY <1>24 DEF vars
<1>25. QED
  BY <1>1, <1>2, <1>3, <1>4, <1>5, <1>6, <1>7, <1>8, <1>9, <1>10, <1>11,
    <1>12, <1>13, <1>14, <1>15, <1>16, <1>17, <1>18, <1>19, <1>20, <1>21,
    <1>22, <1>23, <1>24 DEF Next, Preflight, CreateBackup, TransitionSources,
    Upgrading

\* Whoever leaves packages broken says so or is going to.
LEMMA BreakageStep ==
  ASSUME TypeOK, LockIsConsented, ConsentInv, CodeIsFinal,
         BreakageIsReported, [Next]_vars
  PROVE  BreakageIsReported'
<1> USE RunAssumption DEF TypeOK, LockIsConsented, ConsentInv, CodeIsFinal,
    BreakageIsReported, apt, Phase
<1>1. ASSUME NEW r \in Run, NEW m \in {"apply", "backup", "transition", "check"},
            Start(r, m) PROVE BreakageIsReported'
  BY <1>1 DEF Start, Go
<1>2. ASSUME NEW r \in Run, PreflightFails(r) PROVE BreakageIsReported'
  BY <1>2 DEF PreflightFails, End
<1>3. ASSUME NEW r \in Run, PreflightPasses(r) PROVE BreakageIsReported'
  BY <1>3 DEF PreflightPasses, Go, End
<1>4. ASSUME NEW r \in Run, NEW f \in File, CopyFile(r, f) PROVE BreakageIsReported'
  BY <1>4 DEF CopyFile, CopyOf
<1>5. ASSUME NEW r \in Run, BackupFails(r) PROVE BreakageIsReported'
  BY <1>5 DEF BackupFails, End
<1>6. ASSUME NEW r \in Run, BackupDone(r) PROVE BreakageIsReported'
  BY <1>6 DEF BackupDone, PhaseDone, End
<1>7. ASSUME NEW r \in Run, OpenSources(r) PROVE BreakageIsReported'
  BY <1>7 DEF OpenSources, Go
<1>8. ASSUME NEW r \in Run, WriteSources(r) PROVE BreakageIsReported'
  BY <1>8 DEF WriteSources, Go
<1>9. ASSUME NEW r \in Run, SourcesFail(r) PROVE BreakageIsReported'
  BY <1>9 DEF SourcesFail, FailedStep, End
<1>10. ASSUME NEW r \in Run, ClearLegacy(r) PROVE BreakageIsReported'
  BY <1>10 DEF ClearLegacy, Go, ThirdPartyLists
<1>11. ASSUME NEW r \in Run, ClearFails(r) PROVE BreakageIsReported'
  BY <1>11 DEF ClearFails, FailedStep, End, ThirdPartyLists
<1>12. ASSUME NEW r \in Run, NEW f \in Third, Disable(r, f) PROVE BreakageIsReported'
  BY <1>12 DEF Disable
<1>13. ASSUME NEW r \in Run, NEW f \in Third, DisableFails(r, f) PROVE BreakageIsReported'
  BY <1>13 DEF DisableFails, FailedStep, End
<1>14. ASSUME NEW r \in Run, SourcesDone(r) PROVE BreakageIsReported'
  BY <1>14 DEF SourcesDone, PhaseDone, End
<1>15. ASSUME NEW r \in Run, Confirm(r) PROVE BreakageIsReported'
  BY <1>15 DEF Confirm, Go
<1>16. ASSUME NEW r \in Run, Decline(r) PROVE BreakageIsReported'
  BY <1>16 DEF Decline, End
<1>17. ASSUME NEW r \in Run, Update(r) PROVE BreakageIsReported'
  BY <1>17 DEF Update, Go, Offers, ThirdPartyLists
<1>18. ASSUME NEW r \in Run, BeginApt(r) PROVE BreakageIsReported'
  BY <1>18 DEF BeginApt
<1>19. ASSUME NEW r \in Run, EndApt(r) PROVE BreakageIsReported'
  BY <1>19 DEF EndApt, End, AfterPhase
<1>20. ASSUME NEW r \in Run, FailApt(r) PROVE BreakageIsReported'
  BY <1>20 DEF FailApt
<1>21. ASSUME NEW r \in Run, Repair(r) PROVE BreakageIsReported'
  BY <1>21 DEF Repair, End
<1>22. ASSUME NEW r \in Run, Kill(r) PROVE BreakageIsReported'
  BY <1>22 DEF Kill, End
<1>23. ASSUME Rescue PROVE BreakageIsReported'
  BY <1>23 DEF Rescue
<1>24. CASE UNCHANGED vars
  BY <1>24 DEF vars
<1>25. QED
  BY <1>1, <1>2, <1>3, <1>4, <1>5, <1>6, <1>7, <1>8, <1>9, <1>10, <1>11,
    <1>12, <1>13, <1>14, <1>15, <1>16, <1>17, <1>18, <1>19, <1>20, <1>21,
    <1>22, <1>23, <1>24 DEF Next, Preflight, CreateBackup, TransitionSources,
    Upgrading

\* What a step can do to the backups, the sources and the way of a run.
Frame ==
  /\ \A q \in Run :
       /\ pc[q] \notin Copying => pc'[q] \notin Copying
       /\ mode[q] = "transition" /\ pc[q] \notin {"down", "preflight"} =>
            mode'[q] = "transition" /\ pc'[q] \notin {"down", "preflight"}
       /\ pc'[q] = "backup" =>
            \/ todo'[q] = File
            \/ pc[q] = "backup" /\ todo'[q] = todo[q]
            \/ \E f \in File : CopyFile(q, f)
       /\ pc'[q] \in Switching =>
            \/ mode'[q] = "transition"
            \/ pc[q] \in Switching /\ mode'[q] = mode[q]
            \/ pc[q] = "backup" /\ todo[q] = {}
  /\ saved' = saved \/ \E q \in Run, f \in File : CopyFile(q, f)
  /\ \/ etc' = etc
     \/ \E q \in Run : pc[q] \in Switching /\ pc'[q] \notin Copying /\ saved' = saved
  /\ \A f \in File : etc[f] # "original" => etc'[f] # "original"

\* Every step of every run stays within that frame.
LEMMA StepFrame ==
  ASSUME TypeOK, LockIsConsented, ConsentInv, [Next]_vars
  PROVE  Frame
<1> USE RunAssumption DEF TypeOK, LockIsConsented, ConsentInv, Frame,
    Copying, Switching, apt, Phase, File, Content
<1>1. ASSUME NEW r \in Run, NEW m \in {"apply", "backup", "transition", "check"},
            Start(r, m) PROVE Frame
  BY <1>1 DEF Start, Go
<1>2. ASSUME NEW r \in Run, PreflightFails(r) PROVE Frame
  BY <1>2 DEF PreflightFails, End
<1>3. ASSUME NEW r \in Run, PreflightPasses(r) PROVE Frame
  BY <1>3 DEF PreflightPasses, Go, End
<1>4. ASSUME NEW r \in Run, NEW f \in File, CopyFile(r, f) PROVE Frame
  BY <1>4, ZenonT(60) DEF CopyFile, CopyOf
<1>5. ASSUME NEW r \in Run, BackupFails(r) PROVE Frame
  BY <1>5 DEF BackupFails, End
<1>6. ASSUME NEW r \in Run, BackupDone(r) PROVE Frame
  BY <1>6 DEF BackupDone, PhaseDone, End
<1>7. ASSUME NEW r \in Run, OpenSources(r) PROVE Frame
  BY <1>7 DEF OpenSources, Go
<1>8. ASSUME NEW r \in Run, WriteSources(r) PROVE Frame
  BY <1>8 DEF WriteSources, Go
<1>9. ASSUME NEW r \in Run, SourcesFail(r) PROVE Frame
  BY <1>9 DEF SourcesFail, FailedStep, End
<1>10. ASSUME NEW r \in Run, ClearLegacy(r) PROVE Frame
  BY <1>10 DEF ClearLegacy, Go, ThirdPartyLists
<1>11. ASSUME NEW r \in Run, ClearFails(r) PROVE Frame
  BY <1>11 DEF ClearFails, FailedStep, End, ThirdPartyLists
<1>12. ASSUME NEW r \in Run, NEW f \in Third, Disable(r, f) PROVE Frame
  BY <1>12 DEF Disable
<1>13. ASSUME NEW r \in Run, NEW f \in Third, DisableFails(r, f) PROVE Frame
  BY <1>13 DEF DisableFails, FailedStep, End
<1>14. ASSUME NEW r \in Run, SourcesDone(r) PROVE Frame
  BY <1>14 DEF SourcesDone, PhaseDone, End
<1>15. ASSUME NEW r \in Run, Confirm(r) PROVE Frame
  BY <1>15 DEF Confirm, Go
<1>16. ASSUME NEW r \in Run, Decline(r) PROVE Frame
  BY <1>16 DEF Decline, End
<1>17. ASSUME NEW r \in Run, Update(r) PROVE Frame
  BY <1>17 DEF Update, Go, Offers, ThirdPartyLists
<1>18. ASSUME NEW r \in Run, BeginApt(r) PROVE Frame
  BY <1>18 DEF BeginApt
<1>19. ASSUME NEW r \in Run, EndApt(r) PROVE Frame
  BY <1>19 DEF EndApt, End, AfterPhase
<1>20. ASSUME NEW r \in Run, FailApt(r) PROVE Frame
  BY <1>20 DEF FailApt
<1>21. ASSUME NEW r \in Run, Repair(r) PROVE Frame
  BY <1>21 DEF Repair, End
<1>22. ASSUME NEW r \in Run, Kill(r) PROVE Frame
  BY <1>22 DEF Kill, End
<1>23. ASSUME Rescue PROVE Frame
  BY <1>23 DEF Rescue
<1>24. CASE UNCHANGED vars
  BY <1>24 DEF vars
<1> HIDE DEF TypeOK, LockIsConsented, ConsentInv, Frame, Copying, Switching, apt,
    Phase, File, Content
<1>25. QED
  BY <1>1, <1>2, <1>3, <1>4, <1>5, <1>6, <1>7, <1>8, <1>9, <1>10, <1>11,
    <1>12, <1>13, <1>14, <1>15, <1>16, <1>17, <1>18, <1>19, <1>20, <1>21,
    <1>22, <1>23, <1>24 DEF Next, Preflight, CreateBackup, TransitionSources,
    Upgrading

\* No two invocations share a backup directory.
DistinctDirs == \A q, r \in Run : DirOf[q] = DirOf[r] => q = r

\* A run that is done copying keeps what it has copied.
LEMMA CopyIsKept ==
  ASSUME DistinctDirs, TypeOK, Frame, NEW k \in Run, pc[k] \notin Copying
  PROVE  saved'[DirOf[k]] = saved[DirOf[k]]
<1>1. CASE saved' = saved
  BY <1>1
<1>2. ASSUME NEW q \in Run, NEW f \in File, CopyFile(q, f)
      PROVE  saved'[DirOf[k]] = saved[DirOf[k]]
  <2>1. q # k
    BY <1>2 DEF CopyFile, Copying
  <2>2. DirOf[q] # DirOf[k] /\ DirOf[q] \in Dir /\ DirOf[k] \in Dir
    BY <2>1, RunAssumption DEF DistinctDirs
  <2>3. QED
    BY <1>2, <2>2 DEF CopyFile, TypeOK
<1>3. QED
  BY <1>1, <1>2 DEF Frame

\* While nothing is touched, a copy that is original stays so.
LEMMA CopiesStayOriginal ==
  ASSUME TypeOK, Frame, Pristine, NEW d \in Dir, NEW f \in File,
         saved[d][f] = "original"
  PROVE  saved'[d][f] = "original"
<1>1. CASE saved' = saved
  BY <1>1
<1>2. ASSUME NEW q \in Run, NEW g \in File, CopyFile(q, g)
      PROVE  saved'[d][f] = "original"
  BY <1>2, RunAssumption DEF CopyFile, CopyOf, TypeOK, Pristine
<1>3. QED
  BY <1>1, <1>2 DEF Frame

\* The run that touches the sources first has copied every file before, and
\* nobody writes to its directory again.
LEMMA KeeperStep ==
  ASSUME DistinctDirs, TypeOK, ConsentInv, KeeperExists, Frame
  PROVE  KeeperExists'
<1> SUFFICES ASSUME ~Unprotected' PROVE KeeperExists'
  BY DEF KeeperExists
<1>1. ~Unprotected
  BY DEF Frame, Unprotected
<1>2. CASE ~Pristine
  <2>1. PICK k \in Run : pc[k] \notin Copying /\ HasOriginal(DirOf[k])
    BY <1>1, <1>2 DEF KeeperExists
  <2>2. HasOriginal(DirOf[k])'
    BY <2>1, CopyIsKept DEF HasOriginal, File
  <2>3. pc'[k] \notin Copying
    BY <2>1 DEF Frame
  <2>4. ~Pristine'
    BY <1>2 DEF Pristine, Frame, File
  <2>5. QED
    BY <2>2, <2>3, <2>4 DEF KeeperExists, Copying
<1>3. CASE Pristine /\ ~Pristine'
  <2>1. PICK k \in Run : pc[k] \in Switching /\ pc'[k] \notin Copying
                         /\ saved' = saved
    BY <1>3 DEF Frame, Pristine, File
  <2>2. mode[k] = "apply"
    BY <1>1, <2>1 DEF Unprotected, ConsentInv, Switching
  <2>3. HasOriginal(DirOf[k])
    BY <1>1, <1>3, <2>1, <2>2 DEF KeeperExists
  <2>4. HasOriginal(DirOf[k])'
    BY <2>1, <2>3 DEF HasOriginal, File
  <2>5. QED
    BY <1>3, <2>1, <2>4 DEF KeeperExists, Copying
<1>4. CASE Pristine /\ Pristine'
  <2> SUFFICES ASSUME NEW r \in Run
      PROVE  /\ pc'[r] = "backup" =>
                  \A f \in File \ todo'[r] : saved'[DirOf[r]][f] = "original"
             /\ mode'[r] = "apply" /\ pc'[r] \in Switching =>
                  HasOriginal(DirOf[r])'
    BY <1>4 DEF KeeperExists, Switching, File
  <2>1. ASSUME pc'[r] = "backup"
        PROVE  \A f \in File \ todo'[r] : saved'[DirOf[r]][f] = "original"
    <3>1. CASE todo'[r] = File
      BY <3>1
    <3>2. CASE pc[r] = "backup" /\ todo'[r] = todo[r]
      BY <1>1, <1>4, <3>2, CopiesStayOriginal, RunAssumption DEF KeeperExists
    <3>3. ASSUME NEW g \in File, CopyFile(r, g)
          PROVE  \A f \in File \ todo'[r] : saved'[DirOf[r]][f] = "original"
      <4>1. todo'[r] = todo[r] \ {g}
        BY <3>3 DEF CopyFile, TypeOK
      <4>2. saved'[DirOf[r]][g] = "original"
        BY <1>4, <3>3, RunAssumption DEF CopyFile, CopyOf, TypeOK, Pristine
      <4>3. \A f \in File \ todo[r] : saved[DirOf[r]][f] = "original"
        BY <1>1, <1>4, <3>3 DEF KeeperExists, CopyFile
      <4>4. QED
        BY <1>4, <4>1, <4>2, <4>3, CopiesStayOriginal,
           RunAssumption
    <3>4. QED
      BY <2>1, <3>1, <3>2, <3>3 DEF Frame
  <2>2. ASSUME mode'[r] = "apply", pc'[r] \in Switching
        PROVE  HasOriginal(DirOf[r])'
    <3>1. HasOriginal(DirOf[r])
      <4>1. CASE pc[r] \in Switching /\ mode'[r] = mode[r]
        BY <1>1, <1>4, <2>2, <4>1 DEF KeeperExists
      <4>2. CASE pc[r] = "backup" /\ todo[r] = {}
        BY <1>1, <1>4, <4>2 DEF KeeperExists, HasOriginal
      <4>3. QED
        BY <2>2, <4>1, <4>2 DEF Frame
    <3>2. QED
      BY <1>4, <3>1, CopiesStayOriginal, RunAssumption DEF HasOriginal, File
  <2>3. QED
    BY <2>1, <2>2
<1>5. QED
  BY <1>2, <1>3, <1>4

SafetyInv ==
  TypeOK /\ LockIsConsented /\ CodeIsFinal /\ ConsentInv /\ BreakageIsReported

\* The inductive invariant without what is said of originals: types, the
\* lock, consent and reports hold whatever directories are used.
THEOREM Safe == Spec => []SafetyInv
<1>1. Init => SafetyInv
  BY RunAssumption
     DEF Init, SafetyInv, TypeOK, LockIsConsented, CodeIsFinal, ConsentInv,
         BreakageIsReported, File, Content, Origin, Phase, Switching
<1>2. SafetyInv /\ [Next]_vars => SafetyInv'
  <2> SUFFICES ASSUME SafetyInv, [Next]_vars PROVE SafetyInv'
    OBVIOUS
  <2>1. TypeOK' /\ LockIsConsented'
    BY TypeStep, LockStep DEF SafetyInv
  <2>2. CodeIsFinal' /\ ConsentInv'
    BY CodeStep, ConsentStep DEF SafetyInv
  <2>3. BreakageIsReported'
    BY BreakageStep DEF SafetyInv
  <2>4. QED
    BY <2>1, <2>2, <2>3 DEF SafetyInv
<1>3. QED
  BY <1>1, <1>2, PTL DEF Spec

\* Types are kept.
THEOREM TypeCorrect == Spec => []TypeOK
<1>1. SafetyInv => TypeOK
  BY DEF SafetyInv
<1>2. QED
  BY <1>1, Safe, PTL

\* Nothing is unpacked without consent and a backup.
THEOREM Consent == Spec => []UnpackedWithConsent
<1>1. SafetyInv => UnpackedWithConsent
  BY DEF SafetyInv, ConsentInv, UnpackedWithConsent, TypeOK
<1>2. QED
  BY <1>1, Safe, PTL

\* Broken packages are reported.
THEOREM Breakage == Spec => []BreakageIsReported
<1>1. SafetyInv => BreakageIsReported
  BY DEF SafetyInv
<1>2. QED
  BY <1>1, Safe, PTL

\* The whole inductive invariant, when invocations keep their directories
\* apart.
THEOREM UpgradeInvariant ==
  ASSUME DistinctDirs
  PROVE  Spec => []UpgradeInv
<1>1. Init => KeeperExists
  BY RunAssumption DEF Init, KeeperExists, Pristine, Switching, File
<1>2. SafetyInv /\ KeeperExists /\ [Next]_vars => KeeperExists'
  <2> SUFFICES ASSUME SafetyInv, KeeperExists, [Next]_vars PROVE KeeperExists'
    OBVIOUS
  <2>1. Frame
    BY StepFrame DEF SafetyInv
  <2>2. QED
    BY <2>1, KeeperStep DEF SafetyInv
<1>3. SafetyInv /\ KeeperExists => UpgradeInv
  BY DEF SafetyInv, UpgradeInv
<1>4. QED
  BY <1>1, <1>2, <1>3, Safe, PTL DEF Spec

\* What was in /etc/apt is in some backup from the moment it is touched.
THEOREM OriginalKept ==
  ASSUME DistinctDirs
  PROVE  Spec => []OriginalIsKept
<1>1. UpgradeInv => OriginalIsKept
  BY DEF UpgradeInv, KeeperExists, OriginalIsKept
<1>2. QED
  BY <1>1, UpgradeInvariant, PTL
=============================================================================
