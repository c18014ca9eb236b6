----------------------------- MODULE AccountAuth -----------------------------
(***************************************************************************)
(* One account under AuthService: login with its lockout counter, and the  *)
(* forgotten-password flow with its single-use tokens.                     *)
(*                                                                         *)
(* Every repository call is one statement, hence one step; argon2 runs     *)
(* between two of them.  The counter is read, and written back as an       *)
(* absolute value later; the time of a request is taken when it arrives    *)
(* (login) or just before the statement that uses it.  A hash is modelled  *)
(* by the password it was made from.                                       *)
(***************************************************************************)
EXTENDS Integers, FiniteSets

CONSTANTS
    LoginWorkers,   \* login requests that can be in flight at once
    ResetWorkers,   \* forgot and reset requests that can be in flight
    Passwords,      \* the passwords people type
    Original,       \* the account's first password
    LockoutAttempts, LockoutTime, TokenTtl,
    None,
    MaxTime,        \* bound: the clock stops here
    MaxFailures,    \* bound: failed logins recorded
    MaxTokens       \* bound: reset tokens ever issued

ASSUME WorkersAssumption ==
    /\ LoginWorkers \cap ResetWorkers = {}
    /\ IsFiniteSet(ResetWorkers)
ASSUME PasswordAssumption == Original \in Passwords
ASSUME NumberAssumption ==
    /\ LockoutAttempts \in Nat \ {0} /\ LockoutTime \in Nat /\ TokenTtl \in Nat
    /\ MaxTime \in Nat /\ MaxFailures \in Nat /\ MaxTokens \in Nat
ASSUME NoneAssumption == None \notin Int

Workers == LoginWorkers \cup ResetWorkers
TokenIds == 1 .. MaxTokens

VARIABLES
    hash,        \* users.password_hash
    attempts,    \* users.failed_login_attempts
    lockout,     \* users.lockout_until, or None
    tokens,      \* password_reset_tokens: id -> [expires, used] or None
    issued,      \* tokens issued so far; an id is never reused
    now,
    pc,
    typed,       \* the password in each request
    token,       \* the token in each reset request
    at,          \* the time each request took
    seen,        \* the failed_login_attempts each login read
    failures,    \* history: failed logins recorded so far
    streak,      \* history: those since the counter was last cleared
    redeemed,    \* history: how often each token changed the password
    stale,       \* history: logins under way, verified before the account was
                 \*   last locked
    overlapped   \* history: two logins have been in flight at once

userVars == <<hash, attempts, lockout>>
tokenVars == <<tokens, issued>>
localVars == <<typed, token, at, seen>>
history == <<failures, streak, redeemed, stale>>
vars == <<userVars, tokenVars, now, pc, localVars, history, overlapped>>

Goto(w, from, to) == pc[w] = from /\ pc' = [pc EXCEPT ![w] = to]

\* The request of w is over.
End(w) ==
    /\ pc' = [pc EXCEPT ![w] = "idle"]
    /\ typed' = [typed EXCEPT ![w] = None]
    /\ token' = [token EXCEPT ![w] = None]
    /\ at' = [at EXCEPT ![w] = 0]
    /\ seen' = [seen EXCEPT ![w] = 0]

\* lockoutUntil !== null && lockoutUntil > now
LockedAt(t) == lockout # None /\ lockout > t

\* Mutants: the limit off by one, either way.
ReachesLimitLate(n) == n > LockoutAttempts
ReachesLimitEarly(n) == n + 1 >= LockoutAttempts

\* failedLoginAttempts >= lockoutAttempts
ReachesLimit(n) == n >= LockoutAttempts

\* Mutant: the counter is set to NULL.
ClearCounterToNull ==
    /\ attempts' = None
    /\ lockout' = None
    /\ streak' = 0

\* UPDATE users SET failed_login_attempts = 0, lockout_until = NULL
ClearCounter ==
    /\ attempts' = 0
    /\ lockout' = None
    /\ streak' = 0

Init ==
    /\ hash = Original
    /\ attempts = 0 /\ lockout = None
    /\ tokens = [k \in TokenIds |-> None] /\ issued = 0
    /\ now = 0
    /\ pc = [w \in Workers |-> "idle"]
    /\ typed = [w \in Workers |-> None]
    /\ token = [w \in Workers |-> None]
    /\ at = [w \in Workers |-> 0]
    /\ seen = [w \in Workers |-> 0]
    /\ failures = 0 /\ streak = 0
    /\ redeemed = [k \in TokenIds |-> 0]
    /\ stale = {}
    /\ overlapped = FALSE

-----------------------------------------------------------------------------
(* POST /login *)

Login(w, p) ==
    /\ failures + Cardinality({v \in LoginWorkers : pc[v] # "idle"})
         < MaxFailures
    /\ Goto(w, "idle", "read")
    /\ typed' = [typed EXCEPT ![w] = p]
    /\ at' = [at EXCEPT ![w] = now]
    /\ overlapped' = (overlapped \/ \E v \in LoginWorkers : pc[v] # "idle")
    /\ UNCHANGED <<userVars, tokenVars, now, token, seen, history>>

(* findUserByEmail; a locked account is refused (423). *)
RefuseLocked(w) ==
    /\ pc[w] = "read"
    /\ LockedAt(at[w])
    /\ End(w)
    /\ UNCHANGED <<userVars, tokenVars, now, history, overlapped>>

\* Mutant: the password is verified although the account is locked.
VerifyLocked(w) ==
    /\ Goto(w, "read", IF typed[w] = hash THEN "clear" ELSE "record")
    /\ seen' = [seen EXCEPT ![w] = attempts]
    /\ UNCHANGED <<userVars, tokenVars, now, typed, token, at, history,
                   overlapped>>

(* Otherwise argon2.verify decides between the two writes that follow. *)
Verify(w) ==
    /\ ~LockedAt(at[w])
    /\ Goto(w, "read", IF typed[w] = hash THEN "clear" ELSE "record")
    /\ seen' = [seen EXCEPT ![w] = attempts]
    /\ UNCHANGED <<userVars, tokenVars, now, typed, token, at, history,
                   overlapped>>

(* recordFailedLogin writes the count it read plus one, and the lockout it *)
(* follows from it, whatever the row says by now; 401 or 423.              *)
RecordFailure(w) ==
    /\ pc[w] = "record"
    /\ attempts' = seen[w] + 1
    /\ lockout' = IF ReachesLimit(seen[w] + 1) THEN at[w] + LockoutTime
                  ELSE None
    /\ failures' = failures + 1
    /\ streak' = streak + 1
    /\ stale' = (IF lockout' = None THEN stale
                 ELSE {v \in LoginWorkers : pc[v] \in {"record", "clear"}})
                \ {w}
    /\ End(w)
    /\ UNCHANGED <<hash, tokenVars, now, redeemed, overlapped>>

(* clearFailedLoginState; the handler then regenerates the session. *)
Succeed(w) ==
    /\ pc[w] = "clear"
    /\ ClearCounter
    /\ stale' = stale \ {w}
    /\ End(w)
    /\ UNCHANGED <<hash, tokenVars, now, failures, redeemed, overlapped>>

-----------------------------------------------------------------------------
(* POST /password/forgot *)

Forgot(w) ==
    /\ issued + Cardinality({v \in ResetWorkers : pc[v] \in {"purge", "issue"}})
         < MaxTokens
    /\ Goto(w, "idle", "purge")
    /\ UNCHANGED <<userVars, tokenVars, now, localVars, history, overlapped>>

(* purgeExpiredPasswordResetTokens(new Date()) *)
Purge(w) ==
    /\ Goto(w, "purge", "issue")
    /\ tokens' = [k \in TokenIds |->
                    IF tokens[k] # None /\ tokens[k].expires < now THEN None
                    ELSE tokens[k]]
    /\ UNCHANGED <<userVars, issued, now, localVars, history, overlapped>>

(* createPasswordResetToken *)
Issue(w) ==
    /\ pc[w] = "issue"
    /\ issued' = issued + 1
    /\ tokens' = [tokens EXCEPT ![issued + 1] =
                    [expires |-> now + TokenTtl, used |-> FALSE]]
    /\ End(w)
    /\ UNCHANGED <<userVars, now, history, overlapped>>

(* POST /password/reset, by anyone who was sent the token *)

Reset(w, k, p) ==
    /\ k <= issued
    /\ Goto(w, "idle", "consume")
    /\ token' = [token EXCEPT ![w] = k]
    /\ typed' = [typed EXCEPT ![w] = p]
    /\ at' = [at EXCEPT ![w] = now]
    /\ UNCHANGED <<userVars, tokenVars, now, seen, history, overlapped>>

\* Mutant: a used token is found again.
RedeemableAgain(k, t) == tokens[k] # None /\ tokens[k].expires >= t

\* used_at IS NULL AND expires_at >= now
Redeemable(k, t) ==
    tokens[k] # None /\ ~tokens[k].used /\ tokens[k].expires >= t

(* consumePasswordResetToken: one UPDATE decides, 400 if it finds no row. *)
Consume(w) ==
    /\ Goto(w, "consume", "hash")
    /\ Redeemable(token[w], at[w])
    /\ tokens' = [tokens EXCEPT ![token[w]].used = TRUE]
    /\ UNCHANGED <<userVars, issued, now, localVars, history, overlapped>>

RefuseToken(w) ==
    /\ pc[w] = "consume"
    /\ ~Redeemable(token[w], at[w])
    /\ End(w)
    /\ UNCHANGED <<userVars, tokenVars, now, history, overlapped>>

(* updateUserPassword, which clears the counter too ... *)
SetPassword(w) ==
    /\ Goto(w, "hash", "unlock")
    /\ hash' = typed[w]
    /\ ClearCounter
    /\ redeemed' = [redeemed EXCEPT ![token[w]] = @ + 1]
    /\ UNCHANGED <<tokenVars, now, localVars, failures, stale, overlapped>>

(* ... and clearFailedLoginState once more. *)
Unlock(w) ==
    /\ pc[w] = "unlock"
    /\ ClearCounter
    /\ End(w)
    /\ UNCHANGED <<hash, tokenVars, now, failures, redeemed, stale, overlapped>>

-----------------------------------------------------------------------------
(* A statement fails or the process dies; what was written stays. *)
Die(w) ==
    /\ pc[w] # "idle"
    /\ stale' = stale \ {w}
    /\ End(w)
    /\ UNCHANGED <<userVars, tokenVars, now, failures, streak, redeemed,
                   overlapped>>

Tick ==
    /\ now < MaxTime
    /\ now' = now + 1
    /\ UNCHANGED <<userVars, tokenVars, pc, localVars, history, overlapped>>

LoginStep(w) ==
    \/ \E p \in Passwords : Login(w, p)
    \/ RefuseLocked(w) \/ Verify(w) \/ RecordFailure(w) \/ Succeed(w)

ResetStep(w) ==
    \/ Forgot(w) \/ Purge(w) \/ Issue(w)
    \/ \E k \in TokenIds, p \in Passwords : Reset(w, k, p)
    \/ Consume(w) \/ RefuseToken(w) \/ SetPassword(w) \/ Unlock(w)

Next ==
    \/ Tick
    \/ \E w \in LoginWorkers : LoginStep(w)
    \/ \E w \in ResetWorkers : ResetStep(w)
    \/ \E w \in Workers : Die(w)

Spec == Init /\ [][Next]_vars

-----------------------------------------------------------------------------
TypeOK ==
    /\ hash \in Passwords
    /\ attempts \in Nat
    /\ lockout \in Nat \cup {None}
    /\ tokens \in [TokenIds -> [expires : Nat, used : BOOLEAN] \cup {None}]
    /\ issued \in 0 .. MaxTokens
    /\ now \in 0 .. MaxTime
    /\ pc \in [Workers -> {"idle", "read", "record", "clear", "purge", "issue",
                           "consume", "hash", "unlock"}]
    /\ typed \in [Workers -> Passwords \cup {None}]
    /\ token \in [Workers -> TokenIds \cup {None}]
    /\ at \in [Workers -> 0 .. MaxTime]
    /\ seen \in [Workers -> Nat]
    /\ failures \in Nat /\ streak \in Nat
    /\ redeemed \in [TokenIds -> Nat]
    /\ stale \subseteq LoginWorkers
    /\ overlapped \in BOOLEAN

(* However requests interleave and die, the account is locked only after   *)
(* as many wrong passwords as configured: lost updates make the counter    *)
(* lag behind the failed logins, never run ahead of them.                  *)
NeverLockedEarly ==
    /\ attempts <= failures
    /\ lockout # None => failures >= LockoutAttempts

(* A reset token changes the password at most once, even when several      *)
(* requests present it at the same time.                                   *)
TokenUsedOnce == \A k \in TokenIds : redeemed[k] <= 1

(* "Login attempts are lockout-protected": after LockoutAttempts wrong     *)
(* passwords in a row the account has been locked.                         *)
LockoutProtected == streak >= LockoutAttempts => lockout # None

(* So it is as long as login requests have not overlapped; two that do     *)
(* write the same count, or one of them overwrites a lockout with none.    *)
LockedAfterFailures == ~overlapped => LockoutProtected

(* A lockout in force is lifted by a password reset, or by a login whose   *)
(* password was already being verified when the account was locked (its    *)
(* write takes no notice); never by a login that came later, however many  *)
(* of them overlap.                                                        *)
LockoutSticks ==
    [][LockedAt(now) /\ ~LockedAt(now)' /\ now' = now =>
         \/ \E w \in ResetWorkers :
                pc[w] \in {"hash", "unlock"} /\ pc'[w] # pc[w]
         \/ \E w \in stale : pc[w] \in {"record", "clear"} /\ pc'[w] # pc[w]
      ]_vars
=============================================================================
