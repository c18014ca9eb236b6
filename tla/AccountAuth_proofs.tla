-------------------------- MODULE AccountAuth_proofs --------------------------
(***************************************************************************)
(* For any requests in flight, passwords, limits and times: the account is *)
(* not locked early, it is locked in time if logins do not overlap, only a *)
(* reset or a login verified before lifts a lockout, and a reset token is  *)
(* used once; all of it is typed.                                          *)
(***************************************************************************)
EXTENDS AccountAuth, FiniteSetTheorems, TLAPS

PCs == {"idle", "read", "record", "clear", "purge", "issue", "consume",
        "hash", "unlock"}

\* TypeOK, but for the bound on the tokens, which nothing here rests on.
Typed ==
    /\ hash \in Passwords
    /\ attempts \in Nat
    /\ lockout \in Nat \cup {None}
    /\ tokens \in [TokenIds -> [expires : Nat, used : BOOLEAN] \cup {None}]
    /\ issued \in Nat
    /\ now \in 0 .. MaxTime
    /\ pc \in [Workers -> PCs]
    /\ typed \in [Workers -> Passwords \cup {None}]
    /\ token \in [Workers -> TokenIds \cup {None}]
    /\ at \in [Workers -> 0 .. MaxTime]
    /\ seen \in [Workers -> Nat]
    /\ failures \in Nat /\ streak \in Nat
    /\ redeemed \in [TokenIds -> Nat]
    /\ stale \subseteq LoginWorkers
    /\ overlapped \in BOOLEAN

\* Logins and resets go their own ways; a request with a time took it before.
Ways ==
    \A w \in Workers :
        /\ pc[w] \in {"read", "record", "clear"} => w \in LoginWorkers
        /\ pc[w] \in {"hash", "unlock"} => w \in ResetWorkers
        /\ at[w] <= now

\* No count, in the row or in a request, exceeds the failed logins.
Lagging ==
    /\ attempts <= failures
    /\ lockout # None => failures >= LockoutAttempts
    /\ \A w \in Workers : pc[w] = "record" => seen[w] <= failures

\* Until logins overlap one is under way at most, and no count is less than
\* the streak.
Undisturbed ==
    ~overlapped =>
        /\ \A v, w \in LoginWorkers :
               pc[v] # "idle" /\ pc[w] # "idle" => v = w
        /\ attempts >= streak
        /\ streak >= LockoutAttempts => lockout # None
        /\ \A w \in LoginWorkers : pc[w] = "record" => seen[w] >= streak

\* A login about to write, unless it is stale, began when no lockout that is
\* set now was in force.
Fresh ==
    \A w \in LoginWorkers \ stale :
        pc[w] \in {"record", "clear"} => lockout = None \/ lockout <= at[w]

\* A token that was issued and cannot be redeemed any more.
Spent(k) == k <= issued /\ (tokens[k] # None => tokens[k].used)

\* One request at most has consumed a token, or the token was redeemed.
Single ==
    /\ \A w \in Workers :
           /\ pc[w] \in {"consume", "hash"} =>
                  /\ token[w] \in TokenIds /\ token[w] <= issued
                  /\ typed[w] \in Passwords
           /\ pc[w] = "hash" => Spent(token[w]) /\ redeemed[token[w]] = 0
    /\ \A v, w \in Workers :
           pc[v] = "hash" /\ pc[w] = "hash" /\ token[v] = token[w] => v = w
    /\ \A k \in TokenIds :
           redeemed[k] <= 1 /\ (redeemed[k] # 0 => Spent(k))

IInv == Typed /\ Ways /\ Lagging /\ Undisturbed /\ Fresh /\ Single

-----------------------------------------------------------------------------
LEMMA InitIInv == Init => IInv
  <1> SUFFICES ASSUME Init PROVE IInv
    OBVIOUS
  <1> USE DEF Init
  <1>1. Typed
    <2>1. hash \in Passwords /\ now \in 0 .. MaxTime /\ 0 \in 0 .. MaxTime
      BY PasswordAssumption, NumberAssumption
    <2> QED BY <2>1 DEF Typed, PCs
  <1>2. Ways /\ Lagging
    BY NumberAssumption DEF Ways, Lagging
  <1>3. Undisturbed /\ Fresh
    BY NumberAssumption DEF Undisturbed, Fresh, Workers
  <1>4. Single
    BY DEF Single
  <1> QED BY <1>1, <1>2, <1>3, <1>4 DEF IInv

(* The locals of a request that ends, and those of the others. *)
LEMMA EndFacts ==
    ASSUME Typed, NEW w \in Workers, End(w)
    PROVE  /\ pc' \in [Workers -> PCs] /\ pc'[w] = "idle"
           /\ typed' \in [Workers -> Passwords \cup {None}]
           /\ token' \in [Workers -> TokenIds \cup {None}]
           /\ at' \in [Workers -> 0 .. MaxTime] /\ at'[w] = 0
           /\ seen' \in [Workers -> Nat]
           /\ \A v \in Workers \ {w} :
                  /\ pc'[v] = pc[v] /\ typed'[v] = typed[v]
                  /\ token'[v] = token[v] /\ at'[v] = at[v]
                  /\ seen'[v] = seen[v]
  BY NumberAssumption DEF Typed, End, PCs

(* A request ends and nothing else changes, but for what is known of it. *)
LEMMA EndStep ==
    ASSUME IInv, NEW w \in Workers, End(w), stale' \in {stale, stale \ {w}},
           UNCHANGED <<userVars, tokenVars, now, failures, streak, redeemed,
                       overlapped>>
    PROVE  IInv'
  <1> USE DEF userVars, tokenVars, IInv
  <1>1. Typed'
    BY EndFacts DEF Typed
  <1>2. Ways' /\ Lagging'
    BY EndFacts DEF Typed, Ways, Lagging
  <1>3. Undisturbed' /\ Fresh'
    BY EndFacts DEF Undisturbed, Fresh, Workers
  <1>4. Single'
    BY EndFacts DEF Single, Spent
  <1> QED BY <1>1, <1>2, <1>3, <1>4

(* A step of a reset request that leaves the account alone. *)
LEMMA AloofStep ==
    ASSUME IInv, NEW w \in ResetWorkers, UNCHANGED <<userVars, history>>,
           UNCHANGED <<now, seen, overlapped>>, Typed',
           \A v \in Workers \ {w} : pc'[v] = pc[v] /\ at'[v] = at[v],
           pc'[w] \in {"idle", "purge", "issue", "consume", "hash", "unlock"},
           at'[w] <= now
    PROVE  Ways' /\ Lagging' /\ Undisturbed' /\ Fresh'
  <1> USE DEF userVars, history, IInv
  <1>1. w \in Workers /\ w \notin LoginWorkers
    BY WorkersAssumption DEF Workers
  <1>2. \A v \in LoginWorkers : v \in Workers \ {w}
    BY <1>1 DEF Workers
  <1>3. Ways' /\ Lagging'
    BY <1>1 DEF Ways, Lagging
  <1>4. Undisturbed' /\ Fresh'
    BY <1>2 DEF Undisturbed, Fresh
  <1> QED BY <1>3, <1>4

(* A step of a login request that writes nothing. *)
LEMMA LoginStarts ==
    ASSUME IInv, NEW w \in LoginWorkers, NEW p \in Passwords, Login(w, p)
    PROVE  IInv'
  <1> USE DEF Login, Goto, userVars, tokenVars, history, IInv
  <1>1. w \in Workers
    BY DEF Workers
  <1>2. Typed'
    BY <1>1 DEF Typed, PCs
  <1>3. Ways' /\ Lagging'
    BY <1>1 DEF Typed, Ways, Lagging
  <1>4. Undisturbed'
    <2> SUFFICES ASSUME ~overlapped' PROVE Undisturbed'
      BY DEF Undisturbed
    <2>1. ~overlapped /\ \A v \in LoginWorkers : pc[v] = "idle"
      BY DEF Typed
    <2>2. /\ pc'[w] = "read"
          /\ \A v \in LoginWorkers \ {w} : pc'[v] = "idle"
      BY <1>1, <2>1 DEF Typed, Workers
    <2> QED BY <2>1, <2>2 DEF Undisturbed
  <1>5. Fresh'
    BY <1>1 DEF Typed, Fresh, Workers
  <1>6. Single'
    BY <1>1 DEF Typed, Single, Spent
  <1> QED BY <1>2, <1>3, <1>4, <1>5, <1>6

LEMMA VerifyStep ==
    ASSUME IInv, NEW w \in LoginWorkers, Verify(w)
    PROVE  IInv'
  <1> USE DEF Verify, Goto, userVars, tokenVars, history, IInv
  <1>1. w \in Workers
    BY DEF Workers
  <1>2. /\ pc'[w] \in {"record", "clear"} /\ seen'[w] = attempts
        /\ pc' \in [Workers -> PCs] /\ seen' \in [Workers -> Nat]
        /\ \A v \in Workers \ {w} : pc'[v] = pc[v] /\ seen'[v] = seen[v]
    BY <1>1 DEF Typed, PCs
  <1>3. Typed'
    BY <1>2 DEF Typed
  <1>4. Ways' /\ Lagging'
    BY <1>1, <1>2 DEF Ways, Lagging
  <1>5. Undisturbed'
    BY <1>1, <1>2 DEF Undisturbed, Workers
  <1>6. Fresh'
    BY <1>1, <1>2 DEF Typed, Fresh, LockedAt, Workers
  <1>7. Single'
    BY <1>1, <1>2 DEF Single, Spent
  <1> QED BY <1>3, <1>4, <1>5, <1>6, <1>7

LEMMA RecordStep ==
    ASSUME IInv, NEW w \in LoginWorkers, RecordFailure(w)
    PROVE  IInv'
  <1> USE DEF RecordFailure, tokenVars, IInv
  <1>1. w \in Workers /\ pc[w] = "record"
    BY DEF Workers
  <1>2. /\ seen[w] \in Nat /\ at[w] + LockoutTime \in Nat
        /\ seen[w] + 1 <= failures + 1
    BY <1>1, NumberAssumption DEF Typed, Lagging
  <1>3. /\ lockout' \in Nat \cup {None}
        /\ lockout' # None <=> seen[w] + 1 >= LockoutAttempts
    BY <1>2, NoneAssumption DEF ReachesLimit
  <1>4. Typed'
    BY <1>1, <1>2, <1>3, EndFacts DEF Typed
  <1>5. Ways'
    BY <1>1, EndFacts DEF Typed, Ways
  <1>6. Lagging'
    BY <1>1, <1>2, <1>3, EndFacts, NumberAssumption DEF Typed, Lagging
  <1>7. Undisturbed'
    <2> SUFFICES ASSUME ~overlapped PROVE Undisturbed'
      BY DEF Undisturbed
    <2>1. \A v \in LoginWorkers \ {w} : pc[v] = "idle"
      BY <1>1 DEF Undisturbed
    <2>2. \A v \in LoginWorkers : pc'[v] = "idle"
      BY <1>1, <2>1, EndFacts DEF Workers
    <2>3. seen[w] + 1 >= streak + 1
      BY <1>1, <1>2 DEF Undisturbed, Typed
    <2>4. streak' >= LockoutAttempts => lockout' # None
      BY <1>2, <1>3, <2>3, NumberAssumption DEF Typed
    <2> QED BY <2>2, <2>3, <2>4 DEF Undisturbed
  <1>8. Fresh'
    <2> SUFFICES ASSUME NEW v \in LoginWorkers \ stale', lockout' # None,
                        pc'[v] \in {"record", "clear"}
                 PROVE  FALSE
      BY DEF Fresh
    <2>1. v # w /\ pc[v] \in {"record", "clear"}
      BY <1>1, EndFacts DEF Workers
    <2> QED BY <2>1
  <1>9. Single'
    BY <1>1, EndFacts DEF Single, Spent
  <1> QED BY <1>4, <1>5, <1>6, <1>7, <1>8, <1>9

(* The counter is cleared, by a login or by a reset. *)
LEMMA ClearStep ==
    ASSUME IInv, NEW w \in Workers, ClearCounter, Typed',
           UNCHANGED <<now, failures, overlapped>>,
           \A v \in Workers \ {w} :
               pc'[v] = pc[v] /\ at'[v] = at[v] /\ seen'[v] = seen[v],
           \/ pc'[w] = "idle"
           \/ pc'[w] = "unlock" /\ w \in ResetWorkers,
           at'[w] <= now
    PROVE  Ways' /\ Lagging' /\ Undisturbed' /\ Fresh'
  <1> USE DEF ClearCounter, IInv
  <1>1. Ways'
    BY DEF Ways
  <1>2. Lagging'
    BY DEF Lagging, Typed
  <1>3. Undisturbed'
    <2>1. \A v \in LoginWorkers : v \in Workers
      BY DEF Workers
    <2>2. \A v \in LoginWorkers :
              v # w \/ pc'[v] = "idle"
      BY WorkersAssumption DEF Workers
    <2>3. ~(streak' >= LockoutAttempts)
      BY NumberAssumption
    <2> QED BY <2>1, <2>2, <2>3 DEF Undisturbed, Typed
  <1>4. Fresh'
    BY DEF Fresh
  <1> QED BY <1>1, <1>2, <1>3, <1>4

LEMMA SucceedStep ==
    ASSUME IInv, NEW w \in Workers, ClearCounter, End(w),
           stale' \in {stale, stale \ {w}},
           UNCHANGED <<hash, tokenVars, now, failures, redeemed, overlapped>>
    PROVE  IInv'
  <1> USE DEF tokenVars, IInv
  <1>1. Typed'
    BY EndFacts DEF Typed, ClearCounter
  <1>2. at'[w] <= now
    BY EndFacts DEF Typed
  <1>3. Ways' /\ Lagging' /\ Undisturbed' /\ Fresh'
    BY <1>1, <1>2, EndFacts, ClearStep
  <1>4. Single'
    BY EndFacts DEF Single, Spent
  <1> QED BY <1>1, <1>3, <1>4

-----------------------------------------------------------------------------
LEMMA ForgotStep ==
    ASSUME IInv, NEW w \in ResetWorkers, Forgot(w)
    PROVE  IInv'
  <1> USE DEF Forgot, Goto, userVars, tokenVars, localVars, history, IInv
  <1>1. w \in Workers
    BY DEF Workers
  <1>2. Typed' /\ pc'[w] = "purge"
    BY <1>1 DEF Typed, PCs
  <1>3. \A v \in Workers \ {w} : pc'[v] = pc[v] /\ at'[v] = at[v]
    BY DEF Typed
  <1>4. Ways' /\ Lagging' /\ Undisturbed' /\ Fresh'
    BY <1>1, <1>2, <1>3, AloofStep DEF Ways
  <1>5. Single'
    BY <1>1, <1>2, <1>3 DEF Single, Spent
  <1> QED BY <1>2, <1>4, <1>5

LEMMA PurgeStep ==
    ASSUME IInv, NEW w \in ResetWorkers, Purge(w)
    PROVE  IInv'
  <1> USE DEF Purge, Goto, userVars, localVars, history, IInv
  <1>1. w \in Workers
    BY DEF Workers
  <1>2. \A k \in TokenIds : tokens'[k] \in {tokens[k], None}
    OBVIOUS
  <1>3. Typed' /\ pc'[w] = "issue"
    <2>1. tokens' \in [TokenIds -> [expires : Nat, used : BOOLEAN]
                                      \cup {None}]
      BY DEF Typed
    <2> QED BY <1>1, <2>1 DEF Typed, PCs
  <1>4. \A v \in Workers \ {w} : pc'[v] = pc[v] /\ at'[v] = at[v]
    BY DEF Typed
  <1>5. Ways' /\ Lagging' /\ Undisturbed' /\ Fresh'
    BY <1>1, <1>3, <1>4, AloofStep DEF Ways
  <1>6. \A k \in TokenIds : Spent(k) => Spent(k)'
    BY <1>2 DEF Spent
  <1>7. Single'
    BY <1>1, <1>3, <1>4, <1>6 DEF Single
  <1> QED BY <1>3, <1>5, <1>7

LEMMA IssueStep ==
    ASSUME IInv, NEW w \in ResetWorkers, Issue(w)
    PROVE  IInv'
  <1> DEFINE new == [expires |-> now + TokenTtl, used |-> FALSE]
  <1> USE DEF Issue, userVars, history, IInv
  <1>1. w \in Workers
    BY DEF Workers
  <1>2. new \in [expires : Nat, used : BOOLEAN]
    BY NumberAssumption DEF Typed
  <1>3. tokens' = [tokens EXCEPT ![issued + 1] = new]
    OBVIOUS
  <1> HIDE DEF new
  <1>4. /\ tokens' \in [TokenIds -> [expires : Nat, used : BOOLEAN]
                                        \cup {None}]
        /\ \A k \in TokenIds : k <= issued => tokens'[k] = tokens[k]
    <2> DEFINE Token == [expires : Nat, used : BOOLEAN]
    <2>1. /\ tokens \in [TokenIds -> Token \cup {None}] /\ issued \in Nat
          /\ new \in Token
      BY <1>2 DEF Typed
    <2> HIDE DEF Token
    <2>2. tokens' \in [TokenIds -> Token \cup {None}]
      BY <1>3, <2>1
    <2>3. \A k \in TokenIds : k <= issued => k # issued + 1
      BY <2>1 DEF TokenIds
    <2>4. \A k \in TokenIds : k <= issued => tokens'[k] = tokens[k]
      BY <1>3, <2>1, <2>3
    <2> QED BY <2>2, <2>4 DEF Token
  <1>5. Typed'
    BY <1>1, <1>4, EndFacts DEF Typed
  <1>6. Ways' /\ Lagging' /\ Undisturbed' /\ Fresh'
    <2>1. at'[w] <= now
      BY <1>1, EndFacts DEF Typed
    <2>2. seen'[w] = 0 /\ pc'[w] = "idle"
      BY <1>1 DEF End, Typed
    <2>3. w \notin LoginWorkers /\ \A v \in LoginWorkers : v \in Workers
      BY WorkersAssumption DEF Workers
    <2>4. Ways' /\ Lagging'
      BY <1>1, <2>1, <2>2, EndFacts DEF Ways, Lagging
    <2>5. Undisturbed' /\ Fresh'
      BY <1>1, <2>3, EndFacts DEF Undisturbed, Fresh
    <2> QED BY <2>4, <2>5
  <1>7. \A k \in TokenIds :
            /\ k <= issued => k <= issued'
            /\ Spent(k) => Spent(k)'
    BY <1>4 DEF Spent, Typed, TokenIds
  <1>8. Single'
    BY <1>1, <1>7, EndFacts DEF Single
  <1> QED BY <1>5, <1>6, <1>8

LEMMA ResetStarts ==
    ASSUME IInv, NEW w \in ResetWorkers, NEW k \in TokenIds,
           NEW p \in Passwords, Reset(w, k, p)
    PROVE  IInv'
  <1> USE DEF Reset, Goto, userVars, tokenVars, history, IInv
  <1>1. w \in Workers
    BY DEF Workers
  <1>2. /\ Typed' /\ pc'[w] = "consume" /\ at'[w] = now
        /\ token'[w] = k /\ typed'[w] = p /\ now <= now
    BY <1>1 DEF Typed, PCs
  <1>3. \A v \in Workers \ {w} :
            /\ pc'[v] = pc[v] /\ at'[v] = at[v]
            /\ token'[v] = token[v] /\ typed'[v] = typed[v]
    BY DEF Typed
  <1>4. Ways' /\ Lagging' /\ Undisturbed' /\ Fresh'
    BY <1>1, <1>2, <1>3, AloofStep
  <1>5. Single'
    <2>1. \A i \in TokenIds : Spent(i) => Spent(i)'
      BY DEF Spent
    <2>2. k <= issued
      OBVIOUS
    <2> HIDE DEF Reset
    <2> QED BY <1>1, <1>2, <1>3, <2>1, <2>2 DEF Reset, Single, Spent
  <1> QED BY <1>2, <1>4, <1>5

LEMMA ConsumeStep ==
    ASSUME IInv, NEW w \in ResetWorkers, Consume(w)
    PROVE  IInv'
  <1> DEFINE j == token[w]
  <1> USE DEF Consume, Goto, userVars, localVars, history, IInv
  <1>1. /\ w \in Workers /\ j \in TokenIds /\ j <= issued
        /\ tokens[j] # None /\ ~tokens[j].used
    BY DEF Workers, Single, Redeemable
  <1>2. /\ tokens' \in [TokenIds -> [expires : Nat, used : BOOLEAN]
                                        \cup {None}]
        /\ tokens'[j].used
        /\ \A k \in TokenIds \ {j} : tokens'[k] = tokens[k]
    BY <1>1 DEF Typed
  <1>3. Typed' /\ pc'[w] = "hash"
    BY <1>1, <1>2 DEF Typed, PCs
  <1>4. \A v \in Workers \ {w} : pc'[v] = pc[v] /\ at'[v] = at[v]
    BY DEF Typed
  <1>5. Ways' /\ Lagging' /\ Undisturbed' /\ Fresh'
    BY <1>1, <1>3, <1>4, AloofStep DEF Ways
  <1>6. /\ ~Spent(j) /\ Spent(j)'
        /\ \A k \in TokenIds : Spent(k) => Spent(k)'
    BY <1>1, <1>2 DEF Spent
  <1>7. /\ redeemed[j] = 0
        /\ \A v \in Workers : pc[v] = "hash" => token[v] # j
    BY <1>1, <1>6 DEF Single
  <1>8. Single'
    BY <1>1, <1>3, <1>4, <1>6, <1>7 DEF Single
  <1> QED BY <1>3, <1>5, <1>8

LEMMA SetPasswordStep ==
    ASSUME IInv, NEW w \in ResetWorkers, SetPassword(w)
    PROVE  IInv'
  <1> DEFINE j == token[w]
  <1> USE DEF SetPassword, Goto, tokenVars, localVars, IInv
  <1>1. /\ w \in Workers /\ pc[w] = "hash" /\ j \in TokenIds
        /\ Spent(j) /\ redeemed[j] = 0 /\ typed[w] \in Passwords
    BY DEF Workers, Single
  <1>2. /\ redeemed' \in [TokenIds -> Nat] /\ redeemed'[j] = 1
        /\ \A k \in TokenIds \ {j} : redeemed'[k] = redeemed[k]
    BY <1>1 DEF Typed
  <1>3. Typed' /\ pc'[w] = "unlock"
    BY <1>1, <1>2 DEF Typed, PCs, ClearCounter
  <1>4. \A v \in Workers \ {w} : pc'[v] = pc[v]
    BY DEF Typed
  <1>5. Ways' /\ Lagging' /\ Undisturbed' /\ Fresh'
    BY <1>1, <1>3, <1>4, ClearStep DEF Ways
  <1>6. Single'
    BY <1>1, <1>2, <1>3, <1>4 DEF Single, Spent
  <1> QED BY <1>3, <1>5, <1>6

LEMMA TickStep == IInv /\ Tick => IInv'
  <1> SUFFICES ASSUME IInv, Tick PROVE IInv'
    OBVIOUS
  <1> USE DEF Tick, userVars, tokenVars, localVars, history, IInv
  <1>1. Typed'
    BY NumberAssumption DEF Typed
  <1>2. Ways' /\ Lagging'
    BY DEF Typed, Ways, Lagging
  <1>3. Undisturbed' /\ Fresh'
    BY DEF Undisturbed, Fresh
  <1>4. Single'
    BY DEF Single, Spent
  <1> QED BY <1>1, <1>2, <1>3, <1>4

LEMMA StepIInv == IInv /\ [Next]_vars => IInv'
  <1> SUFFICES ASSUME IInv, [Next]_vars PROVE IInv'
    OBVIOUS
  <1>1. CASE UNCHANGED vars
    BY <1>1
    DEF vars, userVars, tokenVars, localVars, history, IInv, Typed, Ways,
        Lagging, Undisturbed, Fresh, Single, Spent
  <1>2. CASE Tick
    BY <1>2, TickStep
  <1>3. ASSUME NEW w \in LoginWorkers, LoginStep(w) PROVE IInv'
    <2>1. w \in Workers
      BY DEF Workers
    <2>2. RefuseLocked(w) => IInv'
      BY <2>1, EndStep DEF RefuseLocked, history
    <2>3. Succeed(w) => IInv'
      BY <2>1, SucceedStep DEF Succeed
    <2> QED BY <1>3, <2>2, <2>3, LoginStarts, VerifyStep, RecordStep
            DEF LoginStep
  <1>4. ASSUME NEW w \in ResetWorkers, ResetStep(w) PROVE IInv'
    <2>1. w \in Workers
      BY DEF Workers
    <2>2. RefuseToken(w) => IInv'
      BY <2>1, EndStep DEF RefuseToken, history
    <2>3. Unlock(w) => IInv'
      BY <2>1, SucceedStep DEF Unlock
    <2> QED BY <1>4, <2>2, <2>3, ForgotStep, PurgeStep, IssueStep,
               ResetStarts, ConsumeStep, SetPasswordStep DEF ResetStep
  <1>5. ASSUME NEW w \in Workers, Die(w) PROVE IInv'
    BY <1>5, EndStep DEF Die
  <1> QED BY <1>1, <1>2, <1>3, <1>4, <1>5 DEF Next

LEMMA Invariance == Spec => []IInv
  BY InitIInv, StepIInv, PTL DEF Spec

-----------------------------------------------------------------------------
(* The bound on the tokens: every forgot request under way has one left.   *)

Issuing == {v \in ResetWorkers : pc[v] \in {"purge", "issue"}}

Budget == issued + Cardinality(Issuing) <= MaxTokens

LEMMA IssuingFinite ==
    IsFiniteSet(Issuing) /\ Cardinality(Issuing) \in Nat
  <1>1. Issuing \in SUBSET ResetWorkers
    BY DEF Issuing
  <1>2. IsFiniteSet(Issuing)
    BY <1>1, WorkersAssumption, FS_Subset
  <1>3. QED
    BY <1>2, FS_CardinalityType

(* No further request is on its way to a token. *)
LEMMA BudgetKept ==
    ASSUME Typed, Budget, UNCHANGED issued,
           \A v \in ResetWorkers : pc'[v] \in {"purge", "issue"} =>
                                      pc[v] \in {"purge", "issue"}
    PROVE  Budget'
  <1>1. Issuing' \in SUBSET Issuing
    BY DEF Issuing
  <1>2. /\ IsFiniteSet(Issuing') /\ Cardinality(Issuing) \in Nat
        /\ Cardinality(Issuing') <= Cardinality(Issuing)
    BY <1>1, IssuingFinite, FS_Subset
  <1>3. Cardinality(Issuing') \in Nat
    BY <1>2, FS_CardinalityType
  <1>4. issued' + Cardinality(Issuing') <= MaxTokens
    BY <1>2, <1>3, NumberAssumption DEF Budget, Typed
  <1>5. QED
    BY <1>4 DEF Budget

LEMMA BudgetForgot ==
    ASSUME Typed, Budget, NEW w \in ResetWorkers, Forgot(w)
    PROVE  Budget'
  <1>1. pc' = [pc EXCEPT ![w] = "purge"] /\ issued' = issued
        /\ pc[w] = "idle" /\ w \in Workers
    BY DEF Forgot, Goto, tokenVars, Workers
  <1>2. Issuing' = Issuing \cup {w} /\ w \notin Issuing
    BY <1>1 DEF Issuing, Typed, Workers
  <1>3. Cardinality(Issuing') = Cardinality(Issuing) + 1
    BY <1>2, IssuingFinite, FS_AddElement
  <1>4. issued + Cardinality(Issuing) < MaxTokens
    BY DEF Forgot, Issuing
  <1>5. QED
    BY <1>1, <1>3, <1>4, IssuingFinite, NumberAssumption DEF Budget, Typed

LEMMA BudgetIssue ==
    ASSUME Typed, Budget, NEW w \in ResetWorkers, Issue(w)
    PROVE  Budget'
  <1>1. pc' = [pc EXCEPT ![w] = "idle"] /\ issued' = issued + 1
        /\ pc[w] = "issue" /\ w \in Workers
    BY DEF Issue, End, Workers
  <1>2. Issuing' = Issuing \ {w} /\ w \in Issuing
    BY <1>1 DEF Issuing, Typed, Workers
  <1>3. Cardinality(Issuing') = Cardinality(Issuing) - 1
    BY <1>2, IssuingFinite, FS_RemoveElement
  <1>4. QED
    BY <1>1, <1>3, IssuingFinite, NumberAssumption DEF Budget, Typed

LEMMA BudgetStep == Typed /\ Budget /\ [Next]_vars => Budget'
  <1> SUFFICES ASSUME Typed, Budget, [Next]_vars PROVE Budget'
    OBVIOUS
  <1> DEFINE Fewer == \A v \in ResetWorkers :
                          pc'[v] \in {"purge", "issue"} =>
                              pc[v] \in {"purge", "issue"}
  <1>1. CASE UNCHANGED vars
    <2>1. UNCHANGED issued /\ Fewer
      BY <1>1 DEF vars, tokenVars
    <2>2. QED
      BY <2>1, BudgetKept
  <1>2. CASE Tick
    <2>1. UNCHANGED issued /\ Fewer
      BY <1>2 DEF Tick, tokenVars
    <2>2. QED
      BY <2>1, BudgetKept
  <1>3. ASSUME NEW w \in LoginWorkers, LoginStep(w) PROVE Budget'
    <2>1. UNCHANGED issued /\ w \notin ResetWorkers
          /\ \A v \in Workers \ {w} : pc'[v] = pc[v]
      BY <1>3, WorkersAssumption
      DEF Typed, LoginStep, Login, RefuseLocked, Verify, RecordFailure,
          Succeed, Goto, End, tokenVars
    <2>2. Fewer
      BY <2>1 DEF Workers
    <2>3. QED
      BY <2>1, <2>2, BudgetKept
  <1>4. ASSUME NEW w \in ResetWorkers, ResetStep(w) PROVE Budget'
    <2>1. CASE Forgot(w)
      BY <2>1, BudgetForgot
    <2>2. CASE Issue(w)
      BY <2>2, BudgetIssue
    <2>3. CASE Purge(w)
      <3>1. UNCHANGED issued /\ Fewer
        BY <2>3 DEF Purge, Goto, Typed, Workers
      <3>2. QED
        BY <3>1, BudgetKept
    <2>4. CASE \E k \in TokenIds, p \in Passwords : Reset(w, k, p)
      <3>1. UNCHANGED issued /\ Fewer
        BY <2>4 DEF Reset, Goto, Typed, Workers, tokenVars
      <3>2. QED
        BY <3>1, BudgetKept
    <2>5. CASE Consume(w) \/ RefuseToken(w) \/ SetPassword(w) \/ Unlock(w)
      <3>1. UNCHANGED issued /\ Fewer
        BY <2>5 DEF Consume, RefuseToken, SetPassword, Unlock, Goto, End,
                    Typed, Workers, tokenVars
      <3>2. QED
        BY <3>1, BudgetKept
    <2>6. QED
      BY <1>4, <2>1, <2>2, <2>3, <2>4, <2>5 DEF ResetStep
  <1>5. ASSUME NEW w \in Workers, Die(w) PROVE Budget'
    <2>1. UNCHANGED issued /\ Fewer
      BY <1>5 DEF Die, End, Typed, Workers, tokenVars
    <2>2. QED
      BY <2>1, BudgetKept
  <1>6. QED
    BY <1>1, <1>2, <1>3, <1>4, <1>5 DEF Next

LEMMA InitBudget == Init => Budget
  <1>1. ASSUME Init PROVE Budget
    <2>1. Issuing = {} /\ issued = 0
      BY <1>1 DEF Init, Issuing, Workers
    <2>2. Cardinality(Issuing) = 0
      BY <2>1, FS_EmptySet
    <2>3. QED
      BY <2>1, <2>2, NumberAssumption DEF Budget
  <1>2. QED
    BY <1>1

LEMMA BudgetHolds == Spec => []Budget
  <1>1. IInv => Typed
    BY DEF IInv
  <1>2. QED
    BY <1>1, InitBudget, BudgetStep, Invariance, PTL DEF Spec

-----------------------------------------------------------------------------
(* The row, the tokens and the requests keep their types; the ids of the   *)
(* tokens never run out, since a forgot request does not start without one *)
(* (createPasswordResetToken).                                             *)
THEOREM TypeCorrect == Spec => []TypeOK
  <1>1. ASSUME IInv, Budget PROVE TypeOK
    <2>1. issued \in 0 .. MaxTokens
      BY <1>1, IssuingFinite, NumberAssumption DEF IInv, Typed, Budget
    <2>2. QED
      BY <1>1, <2>1 DEF IInv, Typed, TypeOK, PCs
  <1>2. QED
    BY <1>1, Invariance, BudgetHolds, PTL

(* No lockout without as many failures as configured (recordFailedLogin).  *)
THEOREM LockedLate == Spec => []NeverLockedEarly
  <1>1. IInv => NeverLockedEarly
    BY DEF IInv, Lagging, NeverLockedEarly
  <1> QED BY <1>1, Invariance, PTL

(* A token changes the password once (consumePasswordResetToken).          *)
THEOREM TokensUsedOnce == Spec => []TokenUsedOnce
  <1>1. IInv => TokenUsedOnce
    BY DEF IInv, Single, TokenUsedOnce
  <1> QED BY <1>1, Invariance, PTL

(* A streak of failed logins locks the account, unless logins overlap.     *)
THEOREM LockedInTime == Spec => []LockedAfterFailures
  <1>1. IInv => LockedAfterFailures
    BY DEF IInv, Undisturbed, LockedAfterFailures, LockoutProtected
  <1> QED BY <1>1, Invariance, PTL

(* A reset lifts a lockout, or a login verified before the account was     *)
(* locked; a login that came later does not (login, recordFailedLogin,     *)
(* updateUserPassword, clearFailedLoginState).                             *)
THEOREM LockoutLasts == Spec => LockoutSticks
  <1> DEFINE Lifted == LockedAt(now) /\ ~LockedAt(now)' /\ now' = now
             ByReset == \E w \in ResetWorkers :
                            pc[w] \in {"hash", "unlock"} /\ pc'[w] # pc[w]
             ByStale == \E w \in stale :
                            pc[w] \in {"record", "clear"} /\ pc'[w] # pc[w]
  <1>1. ASSUME IInv, [Next]_vars, Lifted PROVE ByReset \/ ByStale
    <2>1. lockout' # lockout
      BY <1>1 DEF LockedAt
    <2>2. \/ \E w \in LoginWorkers : RecordFailure(w) \/ Succeed(w)
          \/ \E w \in ResetWorkers : SetPassword(w) \/ Unlock(w)
      BY <1>1, <2>1
      DEF Next, LoginStep, ResetStep, vars, userVars, Tick, Die, Login,
          RefuseLocked, Verify, Forgot, Purge, Issue, Reset, Consume,
          RefuseToken
    <2>3. ASSUME NEW w \in LoginWorkers, RecordFailure(w) \/ Succeed(w)
          PROVE  ByStale
      <3>1. w \in Workers /\ pc[w] \in {"record", "clear"} /\ pc'[w] = "idle"
        BY <1>1, <2>3 DEF Workers, RecordFailure, Succeed, End, IInv, Typed
      <3>2. w \in stale
        BY <1>1, <3>1, NoneAssumption
        DEF IInv, Fresh, Ways, Typed, LockedAt
      <3> QED BY <3>1, <3>2
    <2>4. ASSUME NEW w \in ResetWorkers, SetPassword(w) \/ Unlock(w)
          PROVE  ByReset
      <3>1. w \in Workers
        BY DEF Workers
      <3> QED BY <1>1, <2>4, <3>1
              DEF SetPassword, Unlock, Goto, End, IInv, Typed
    <2> QED BY <2>2, <2>3, <2>4
  <1>2. IInv /\ [Next]_vars => [Lifted => ByReset \/ ByStale]_vars
    BY <1>1
  <1> QED BY <1>2, Invariance, PTL DEF Spec, LockoutSticks
=============================================================================
