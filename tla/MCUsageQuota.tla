---------------------------- MODULE MCUsageQuota ----------------------------
(***************************************************************************)
(* A small instance of UsageQuota: the first worker's process is           *)
(* configured with SmallLimit, the others' with MaxLimit (a rolling change *)
(* of USAGE_DAILY_WRITE_LIMIT).                                            *)
(***************************************************************************)
EXTENDS UsageQuota, TLC

CONSTANTS w1, SmallLimit

MCDefaultLimit == [w \in Workers |-> IF w = w1 THEN SmallLimit ELSE MaxLimit]

\* Workers other than w1, and tenants, are interchangeable.
MCSymmetry == Permutations(Workers \ {w1}) \cup Permutations(Tenants)
=============================================================================
