------------------------- MODULE Migrations_proofs -------------------------
(***************************************************************************)
(* Proofs about Migrations for any runners, files and builds: what is      *)
(* recorded took effect once and in order, a run that ends well has        *)
(* migrated, one that fails had a cause.  IInv is the inductive invariant. *)
(***************************************************************************)
EXTENDS Migrations, TLAPS

Active == {"next", "inserting", "committing"}

\* What runner r knows of the database while it goes through its files: its
\* SELECT was true, the files behind it are there as it has them, and, as
\* long as nobody ran beside it, nothing has changed ahead of it.
Knows(r) ==
    pc[r] \in Active =>
        \A f \in Files :
            /\ seen[r][f] \in {None, applied[f]}
            /\ f \in DOMAIN build[r] /\ f < at[r] => applied[f] = build[r][f]
            /\ ~disturbed[r] /\ f >= at[r] => seen[r][f] = applied[f]

\* What it knows of the file it comes to.
Applies(r) ==
    /\ pc[r] = "loading" => at[r] = 1
    /\ pc[r] \in {"inserting", "committing"} =>
           at[r] \in DOMAIN build[r] /\ seen[r][at[r]] = None
    /\ pc[r] = "committing" => applied[at[r]] = None

\* How it ended.
EndedWell(r) ==
    pc[r] = "done" => \A f \in DOMAIN build[r] : applied[f] = build[r][f]
EndedBadly(r) ==
    pc[r] = "failed" /\ ~disturbed[r] =>
        \E f \in DOMAIN build[r] : applied[f] \notin {None, build[r][f]}

Runner(r) == Knows(r) /\ Applies(r) /\ EndedWell(r) /\ EndedBadly(r)

\* Runs that overlap know it; two transactions do not hold one row.
Apart ==
    \A p, q \in Runners : p # q =>
        /\ p \in Running /\ q \in Running => disturbed[p] /\ disturbed[q]
        /\ pc[p] = "committing" /\ pc[q] = "committing" => at[p] # at[q]

IInv == TypeOK /\ RanOnce /\ InOrder /\ Apart /\ \A r \in Runners : Runner(r)

-----------------------------------------------------------------------------
(* The files of a build are the first n, for some n. *)
LEMMA BuildShape ==
    ASSUME NEW b \in Builds \cup {<<>>}
    PROVE  \E n \in 0 .. FileCount :
               DOMAIN b = 1 .. n /\ \A f \in 1 .. n : b[f] \in Checksums
  <1>1. CASE b \in Builds
    BY <1>1, BuildAssumption
  <1>2. CASE b = <<>>
    BY <1>2, NumberAssumption
  <1>3. QED
    BY <1>1, <1>2

LEMMA InitIInv == Init => IInv
  <1> SUFFICES ASSUME Init PROVE IInv
    OBVIOUS
  <1>1. TypeOK
    BY NumberAssumption DEF Init, TypeOK, Files
  <1>2. RanOnce /\ InOrder
    BY NumberAssumption DEF Init, RanOnce, InOrder, Files
  <1>3. Apart
    BY DEF Init, Apart, Running, Ended
  <1>4. \A r \in Runners : Runner(r)
    BY DEF Init, Runner, Knows, Applies, EndedWell, EndedBadly, Active
  <1>5. QED
    BY <1>1, <1>2, <1>3, <1>4 DEF IInv

(* A step takes no row back, and another runner's step neither moves a     *)
(* runner nor changes the database unless they run side by side.           *)
Kept == \A f \in Files : applied[f] # None => applied'[f] = applied[f]
Frame(v) ==
    /\ pc'[v] = pc[v] /\ build'[v] = build[v]
    /\ seen'[v] = seen[v] /\ at'[v] = at[v]
    /\ disturbed[v] => disturbed'[v]
    /\ ~disturbed'[v] /\ pc[v] \in Active => applied' = applied
    /\ pc[v] = "committing" => applied'[at[v]] = applied[at[v]]

LEMMA RunnerFrame ==
    ASSUME NEW v \in Runners, TypeOK, Runner(v), Kept, Frame(v),
           pc[v] = "idle" => disturbed'[v] = disturbed[v],
           pc[v] = "failed" => disturbed'[v] = disturbed[v]
    PROVE  Runner(v)'
  <1>1. PICK n \in 0 .. FileCount :
            /\ DOMAIN build[v] = 1 .. n
            /\ \A f \in 1 .. n : build[v][f] \in Checksums
    BY BuildShape DEF TypeOK
  <1>2. DOMAIN build[v] \subseteq Files
    BY <1>1, NumberAssumption DEF Files
  <1>3. Knows(v)'
    BY <1>1, <1>2, NoneAssumption DEF Runner, Knows, Kept, Frame
  <1>4. Applies(v)'
    BY DEF Runner, Applies, Frame
  <1>5. EndedWell(v)'
    BY <1>1, <1>2, NoneAssumption DEF Runner, EndedWell, Kept, Frame
  <1>6. EndedBadly(v)'
    BY <1>2 DEF Runner, EndedBadly, Kept, Frame
  <1>7. QED
    BY <1>3, <1>4, <1>5, <1>6 DEF Runner

-----------------------------------------------------------------------------
(* The steps of a runner that leave the database alone. *)
LEMMA QuietStep ==
    ASSUME IInv, NEW r \in Runners, UNCHANGED <<applied, ran>>,
           TypeOK', Runner(r)',
           \A v \in Runners \ {r} : Frame(v),
           \A v \in Runners \ {r} : v \notin Running =>
               disturbed'[v] = disturbed[v],
           \A v \in Runners \ {r} : v \in Running /\ pc'[r] \notin Ended =>
               disturbed'[v] /\ disturbed'[r],
           \A v \in Runners \ {r} :
               pc[v] = "committing" /\ pc'[r] = "committing" => at[v] # at'[r]
    PROVE  IInv'
  <1>1. RanOnce' /\ InOrder'
    BY DEF IInv, RanOnce, InOrder
  <1>2. \A v \in Runners : Runner(v)'
    <2>1. Kept
      BY DEF Kept
    <2>2. ASSUME NEW v \in Runners \ {r}
          PROVE  Runner(v)'
      BY <2>1, <2>2, RunnerFrame DEF IInv, Running, Ended
    <2>3. QED
      BY <2>2
  <1>3. Apart'
    BY DEF IInv, Apart, Frame, Running, Ended
  <1>4. QED
    BY <1>1, <1>2, <1>3 DEF IInv

LEMMA StepIInv == IInv /\ [Next]_vars => IInv'
  <1> SUFFICES ASSUME IInv, [Next]_vars PROVE IInv'
    OBVIOUS
  <1>a. TypeOK /\ RanOnce /\ InOrder /\ Apart
    BY DEF IInv
  <1>b. \A v \in Runners : Runner(v)
    BY DEF IInv
  <1>1. ASSUME NEW r \in Runners, Start(r) PROVE IInv'
    <2>1. TypeOK'
      <3>1. disturbed' \in [Runners -> BOOLEAN]
        <4>1. \A q \in Runners : disturbed[q] \in BOOLEAN
          BY <1>a DEF TypeOK
        <4>2. \A q \in Runners : (disturbed[q] \/ q \in Running) \in BOOLEAN
          OBVIOUS
        <4>3. (Running # {}) \in BOOLEAN
          OBVIOUS
        <4>4. QED
          BY <1>1, <4>2, <4>3, Zenon DEF Start
      <3>2. QED
        BY <1>a, <1>1, <3>1, NumberAssumption DEF TypeOK, Start
    <2>2. Runner(r)'
      BY <1>a, <1>1
         DEF TypeOK, Start, Runner, Knows, Applies, EndedWell, EndedBadly,
             Active
    <2>3. QED
      BY <1>a, <1>1, <2>1, <2>2, QuietStep
         DEF TypeOK, Start, Frame, Running, Ended
  <1>2. ASSUME NEW r \in Runners, Load(r) PROVE IInv'
    <2>1. TypeOK'
      BY <1>a, <1>2 DEF TypeOK, Load, Goto
    <2>2. /\ at'[r] = 1 /\ pc'[r] = "next"
          /\ seen'[r] = applied /\ applied' = applied
      BY <1>a, <1>b, <1>2 DEF TypeOK, Load, Goto, Runner, Applies
    <2>3. \A f \in Files : ~(f < 1)
      BY NumberAssumption DEF Files
    <2>4. Runner(r)'
      BY <2>2, <2>3 DEF Runner, Knows, Applies, EndedWell, EndedBadly
    <2>5. QED
      BY <1>a, <1>2, <2>1, <2>4, QuietStep
         DEF TypeOK, Load, Goto, Frame, Running, Ended, Apart
  <1>3. ASSUME NEW r \in Runners, Skip(r) PROVE IInv'
    <2>1. PICK n \in 0 .. FileCount : 
            /\ DOMAIN build[r] = 1 .. n
            /\ \A f \in 1 .. n : build[r][f] \in Checksums
      BY <1>a, BuildShape DEF TypeOK
    <2>2. TypeOK'
      BY <1>a, <1>3, <2>1, NumberAssumption DEF TypeOK, Skip, AtFile
    <2>3. at[r] \in Files /\ seen[r][at[r]] = applied[at[r]]
      BY <1>a, <1>b, <1>3, <2>1, NumberAssumption, NoneAssumption
         DEF TypeOK, Skip, AtFile, Runner, Knows, Active, Files
    <2>4. Runner(r)'
      <3>1. at'[r] = at[r] + 1 /\ applied[at[r]] = build[r][at[r]]
        BY <1>a, <1>3, <2>3 DEF TypeOK, Skip, AtFile
      <3>2. ASSUME NEW f \in Files
            PROVE  /\ seen[r][f] \in {None, applied[f]}
                   /\ f \in DOMAIN build[r] /\ f < at[r] + 1
                          => applied[f] = build[r][f]
                   /\ ~disturbed[r] /\ f >= at[r] + 1
                          => seen[r][f] = applied[f]
        <4>1. /\ seen[r][f] \in {None, applied[f]}
              /\ f \in DOMAIN build[r] /\ f < at[r]
                     => applied[f] = build[r][f]
              /\ ~disturbed[r] /\ f >= at[r] => seen[r][f] = applied[f]
          BY <1>b, <1>3 DEF Skip, AtFile, Runner, Knows, Active
        <4>2. f \in Nat /\ at[r] \in Nat
          BY <2>3, NumberAssumption DEF Files
        <4>3. f < at[r] + 1 => f < at[r] \/ f = at[r]
          BY <4>2
        <4>4. f >= at[r] + 1 => f >= at[r]
          BY <4>2
        <4>5. QED
          BY <3>1, <4>1, <4>3, <4>4
      <3>3. Knows(r)'
        BY <1>3, <3>1, <3>2 DEF Knows, Skip
      <3>4. QED
        BY <1>3, <3>3
           DEF Skip, AtFile, Runner, Applies, EndedWell, EndedBadly
    <2>5. QED
      BY <1>a, <1>3, <2>2, <2>4, QuietStep
         DEF TypeOK, Skip, AtFile, Frame, Running, Ended, Apart
  <1>4. ASSUME NEW r \in Runners, Mismatch(r) PROVE IInv'
    <2>1. PICK n \in 0 .. FileCount : DOMAIN build[r] = 1 .. n
      BY <1>a, BuildShape DEF TypeOK
    <2>2. TypeOK'
      BY <1>a, <1>4 DEF TypeOK, Mismatch, Goto
    <2>3. /\ at[r] \in DOMAIN build[r]
          /\ applied[at[r]] \notin {None, build[r][at[r]]}
      BY <1>a, <1>b, <1>4, <2>1, NumberAssumption, NoneAssumption
         DEF TypeOK, Mismatch, AtFile, Runner, Knows, Active, Files
    <2>4. Runner(r)'
      BY <1>a, <1>4, <2>3
         DEF TypeOK, Mismatch, Goto, Runner, Knows, Applies, EndedWell,
             EndedBadly, Active
    <2>5. QED
      BY <1>a, <1>4, <2>2, <2>4, QuietStep
         DEF TypeOK, Mismatch, Goto, Frame, Running, Ended, Apart
  <1>5. ASSUME NEW r \in Runners, Execute(r) PROVE IInv'
    <2>1. TypeOK'
      BY <1>a, <1>5 DEF TypeOK, Execute, Goto
    <2>2. Runner(r)'
      BY <1>a, <1>b, <1>5
         DEF TypeOK, Execute, AtFile, Goto, Runner, Knows, Applies, EndedWell,
             EndedBadly, Active
    <2>3. QED
      BY <1>a, <1>5, <2>1, <2>2, QuietStep
         DEF TypeOK, Execute, Goto, Frame, Running, Ended, Apart
  <1>6. ASSUME NEW r \in Runners, Record(r) PROVE IInv'
    <2>1. TypeOK'
      BY <1>a, <1>6 DEF TypeOK, Record
    <2>2. at[r] \in Files /\ at[r] >= at[r]
      <3>1. PICK n \in 0 .. FileCount : DOMAIN build[r] = 1 .. n
        BY <1>a, BuildShape DEF TypeOK
      <3>2. QED
        BY <1>a, <1>b, <1>6, <3>1, NumberAssumption
           DEF TypeOK, Record, Runner, Applies, Files
    <2>3. ~disturbed[r] => applied[at[r]] = None
      BY <1>b, <1>6, <2>2 DEF Record, Runner, Knows, Applies, Active
    <2>4. Runner(r)'
      BY <1>a, <1>b, <1>6, <2>3
         DEF TypeOK, Record, Runner, Knows, Applies, EndedWell, EndedBadly,
             Active
    <2>5. QED
      BY <1>a, <1>6, <2>1, <2>4, QuietStep
         DEF TypeOK, Record, Frame, Running, Ended, Apart
  <1>7. ASSUME NEW r \in Runners, Commit(r) PROVE IInv'
    <2> DEFINE f == at[r]
    <2>1. PICK n \in 0 .. FileCount : 
            /\ DOMAIN build[r] = 1 .. n
            /\ \A g \in 1 .. n : build[r][g] \in Checksums
      BY <1>a, BuildShape DEF TypeOK
    <2>2. /\ f \in 1 .. n /\ f \in Files
          /\ applied[f] = None /\ build[r][f] \in Checksums
      BY <1>a, <1>b, <1>7, <2>1, NumberAssumption
         DEF Commit, Goto, Runner, Applies, Files
    <2>3. /\ applied' = [applied EXCEPT ![f] = build[r][f]]
          /\ ran' = [ran EXCEPT ![f] = <<build[r][f]>>]
      <3>1. ran[f] = <<>>
        BY <1>a, <2>2 DEF RanOnce
      <3>2. Append(<<>>, build[r][f]) = <<build[r][f]>>
        OBVIOUS
      <3>3. QED
        BY <1>7, <3>1, <3>2 DEF Commit
    <2>4. TypeOK'
      <3>1. <<build[r][f]>> \in Seq(Checksums)
        BY <2>2
      <3>2. /\ applied' \in [Files -> Checksums \cup {None}]
            /\ ran' \in [Files -> Seq(Checksums)]
        BY <1>a, <2>2, <2>3, <3>1 DEF TypeOK
      <3>3. at' \in [Runners -> 1 .. FileCount + 1]
        <4>1. f + 1 \in 1 .. FileCount + 1
          BY <2>2, NumberAssumption DEF Files
        <4>2. QED
          BY <1>a, <1>7, <4>1 DEF TypeOK, Commit
      <3>4. QED
        BY <1>a, <1>7, <3>2, <3>3 DEF TypeOK, Commit, Goto
    <2>5. RanOnce'
      BY <1>a, <2>2, <2>3, NoneAssumption DEF RanOnce, TypeOK
    <2>6. \A g \in Files : g < f => applied[g] # None
      <3>1. ASSUME NEW g \in Files, g < f
            PROVE  applied[g] = build[r][g] /\ g \in 1 .. n
        <4>1. g \in 1 .. n
          BY <2>2, <3>1, NumberAssumption DEF Files
        <4>2. QED
          BY <1>b, <1>7, <2>1, <3>1, <4>1
             DEF Commit, Goto, Runner, Knows, Active
      <3>2. QED
        BY <2>1, <3>1, NoneAssumption
    <2>7. InOrder'
      <3>1. \A g \in Files : applied'[g] # None <=> applied[g] # None \/ g = f
        BY <1>a, <2>2, <2>3, NoneAssumption DEF TypeOK
      <3>2. \A g \in Files : 1 .. g \subseteq Files
        BY NumberAssumption DEF Files
      <3>3. ASSUME NEW g \in Files, applied'[g] # None, NEW h \in 1 .. g
            PROVE  applied'[h] # None
        <4>1. h \in Files /\ (g = f => h < f \/ h = f)
          BY <3>2, <3>3, NumberAssumption DEF Files
        <4>2. QED
          BY <1>a, <2>6, <3>1, <3>3, <4>1 DEF InOrder
      <3>4. QED
        BY <3>3 DEF InOrder
    <2>8. Kept
      BY <1>a, <2>2, <2>3 DEF Kept, TypeOK
    <2>9. Runner(r)'
      <3>1. Knows(r)'
        <4>1. ASSUME NEW g \in Files
              PROVE  /\ seen[r][g] \in {None, applied'[g]}
                     /\ g \in DOMAIN build[r] /\ g < f + 1
                            => applied'[g] = build[r][g]
                     /\ ~disturbed[r] /\ g >= f + 1
                            => seen[r][g] = applied'[g]
          <5>1. CASE g = f
            BY <1>a, <1>b, <1>7, <2>2, <2>3, <5>1, NumberAssumption
               DEF Commit, Goto, Runner, Applies, TypeOK, Files
          <5>2. CASE g # f
            BY <1>a, <1>b, <1>7, <2>2, <2>3, <5>2, NumberAssumption
               DEF Commit, Goto, Runner, Knows, Active, TypeOK, Files
          <5>3. QED
            BY <5>1, <5>2
        <4>2. QED
          BY <1>a, <1>7, <4>1 DEF Knows, Commit, TypeOK
      <3>2. QED
        BY <1>a, <1>7, <3>1
           DEF Commit, Goto, TypeOK, Runner, Applies, EndedWell, EndedBadly
    <2>10. ASSUME NEW v \in Runners \ {r}
           PROVE  Runner(v)'
      <3>1. Frame(v)
        <4>1. pc[v] \in Active => disturbed[v]
          BY <1>a, <1>7 DEF Apart, Running, Ended, Active, Commit, Goto
        <4>2. pc[v] = "committing" => applied'[at[v]] = applied[at[v]]
          BY <1>a, <1>7, <2>3 DEF Apart, Commit, Goto, TypeOK
        <4>3. QED
          BY <1>a, <1>7, <4>1, <4>2 DEF Frame, Commit, Goto, TypeOK
      <3>2. QED
        BY <1>a, <1>b, <1>7, <2>8, <3>1, RunnerFrame DEF Commit
    <2>11. Apart'
      BY <1>a, <1>7 DEF Apart, Commit, Goto, TypeOK, Running, Ended
    <2>12. QED
      BY <2>4, <2>5, <2>7, <2>9, <2>10, <2>11 DEF IInv
  <1>8. ASSUME NEW r \in Runners, Finish(r) PROVE IInv'
    <2>1. PICK n \in 0 .. FileCount : DOMAIN build[r] = 1 .. n
      BY <1>a, BuildShape DEF TypeOK
    <2>2. TypeOK'
      BY <1>a, <1>8 DEF TypeOK, Finish, Goto
    <2>3. \A f \in DOMAIN build[r] : f \in Files /\ f < at[r]
      BY <1>a, <1>8, <2>1, NumberAssumption DEF TypeOK, Finish, Files
    <2>4. Runner(r)'
      BY <1>a, <1>b, <1>8, <2>3
         DEF TypeOK, Finish, Goto, Runner, Knows, Applies, EndedWell,
             EndedBadly, Active
    <2>5. QED
      BY <1>a, <1>8, <2>2, <2>4, QuietStep
         DEF TypeOK, Finish, Goto, Frame, Running, Ended, Apart
  <1>9. ASSUME NEW r \in Runners, Fail(r) PROVE IInv'
    <2>1. TypeOK'
      BY <1>a, <1>9 DEF TypeOK, Fail
    <2>2. Runner(r)'
      BY <1>a, <1>9
         DEF TypeOK, Fail, Runner, Knows, Applies, EndedWell, EndedBadly,
             Active
    <2>3. QED
      BY <1>a, <1>9, <2>1, <2>2, QuietStep
         DEF TypeOK, Fail, Frame, Running, Ended, Apart
  <1>10. ASSUME UNCHANGED vars PROVE IInv'
    <2>1. TypeOK' /\ RanOnce' /\ InOrder'
      BY <1>a, <1>10 DEF vars, runnerVars, TypeOK, RanOnce, InOrder
    <2>2. Apart'
      BY <1>a, <1>10 DEF vars, runnerVars, Apart, Running
    <2>3. \A r \in Runners : Runner(r)'
      BY <1>b, <1>10
         DEF vars, runnerVars, Runner, Knows, Applies, EndedWell, EndedBadly
    <2>4. QED
      BY <2>1, <2>2, <2>3 DEF IInv
  <1>11. QED
    BY <1>1, <1>2, <1>3, <1>4, <1>5, <1>6, <1>7, <1>8, <1>9, <1>10
       DEF Next, Work

-----------------------------------------------------------------------------
LEMMA Invariance == Spec => []IInv
  BY InitIInv, StepIInv, PTL DEF Spec

(* Every reachable state is well typed (Init and every handler). *)
THEOREM MigrationsTyped == Spec => []TypeOK
  <1>1. IInv => TypeOK
    BY DEF IInv
  <1>2. QED
    BY <1>1, Invariance, PTL

(* schema_migrations tells what happened to the schema (applyMigration):   *)
(* whatever runs overlap or die, a file takes effect once or not at all.   *)
THEOREM MigratedOnce == Spec => []RanOnce
  <1>1. IInv => RanOnce
    BY DEF IInv
  <1>2. QED
    BY <1>1, Invariance, PTL

(* Files take effect in the order of their names (run, which reads what    *)
(* was applied only once).                                                 *)
THEOREM MigratedInOrder == Spec => []InOrder
  <1>1. IInv => InOrder
    BY DEF IInv
  <1>2. QED
    BY <1>1, Invariance, PTL

(* A run that ends without an error has brought the database to its build. *)
THEOREM DoneMeansMigrated == Spec => []DoneMigrated
  <1>1. IInv => DoneMigrated
    <2> SUFFICES ASSUME IInv, NEW r \in Runners, pc[r] = "done",
                        NEW f \in DOMAIN build[r]
                 PROVE  ran[f] = <<build[r][f]>>
      BY DEF DoneMigrated
    <2>1. PICK n \in 0 .. FileCount :
            /\ DOMAIN build[r] = 1 .. n
            /\ \A g \in 1 .. n : build[r][g] \in Checksums
      BY BuildShape DEF IInv, TypeOK
    <2>2. f \in Files /\ applied[f] = build[r][f]
      BY <2>1, NumberAssumption DEF IInv, Runner, EndedWell, Files
    <2>3. QED
      BY <2>1, <2>2, NoneAssumption DEF IInv, RanOnce
  <1>2. QED
    BY <1>1, Invariance, PTL

(* A run nothing happened to fails only for an edited file: what others    *)
(* left behind, failed or killed, is never in its way.                     *)
THEOREM FailureHasCause == Spec => []FailsForCause
  <1>1. IInv => FailsForCause
    BY DEF IInv, Runner, EndedBadly, FailsForCause
  <1>2. QED
    BY <1>1, Invariance, PTL
=============================================================================
