---------------------------- MODULE EmailQueueMC ----------------------------
(* Instances of EmailQueue for TLC. *)
EXTENDS EmailQueue

CONSTANTS s1, s2, t1, t2, c1

MC_Email == {1, 2}
MC_OneEmail == {1}
MC_Servers == {s1, s2}
MC_OneServer == {s1}
MC_Tickers == {t1, t2}
MC_OneTicker == {t1}
MC_NoCaller == {}
MC_Caller == {c1}
MC_Priorities == {1, 2}
MC_OnePriority == {1}
MC_RetryLimits == {0, 2}
MC_OneRetryLimit == {2}

=============================================================================
