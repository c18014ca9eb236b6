--------------------------- MODULE MCAccountAuth ---------------------------
(* Instances of AccountAuth with named workers. *)
EXTENDS AccountAuth, TLC

CONSTANTS l1, l2, r1, r2

MCSymmetry == Permutations(LoginWorkers) \cup Permutations(ResetWorkers)

\* What a request will still use: states are identified up to the rest, and up
\* to the streak, which nothing is claimed of once logins have overlapped.
Used(local, steps, unused) ==
    [w \in Workers |-> IF pc[w] \in steps THEN local[w] ELSE unused]

MCView ==
    <<userVars, tokenVars, now, pc,
      Used(typed, {"read", "consume", "hash"}, None),
      Used(token, {"consume", "hash"}, None),
      Used(at, {"read", "record", "consume"}, 0),
      Used(seen, {"record"}, 0),
      failures, redeemed, stale, overlapped, IF overlapped THEN 0 ELSE streak>>
=============================================================================
