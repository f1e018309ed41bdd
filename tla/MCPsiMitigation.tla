-------------------------- MODULE MCPsiMitigation --------------------------
(* Small instances of PsiMitigation: thresholds and samples. *)
EXTENDS PsiMitigation

CONSTANTS daemon, monitor

\* The order of the real thresholds (10 and 25 some, 5 some60, 10 and 40
\* full), on a scale where every side of every threshold occurs.
SmallThresholds == [tier1_some10 |-> 1, tier1_some60 |-> 1,
                    tier2_some10 |-> 2, tier2_full10 |-> 1,
                    tier3_full10 |-> 2]
AllReadings == [some10: 0..2, some60: 0..1, full10: 0..2]

\* One sample of each tier.
OneEach == {[some10 |-> 0, some60 |-> 0, full10 |-> 0],
            [some10 |-> 1, some60 |-> 0, full10 |-> 0],
            [some10 |-> 2, some60 |-> 0, full10 |-> 0],
            [some10 |-> 2, some60 |-> 1, full10 |-> 2]}
=============================================================================
