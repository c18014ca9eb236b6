----------------------------- MODULE Migrations -----------------------------
(***************************************************************************)
(* db/migrate.ts: runners that bring one Postgres database to the schema   *)
(* of their build.  Each deploy starts one; deploys can overlap, and a     *)
(* runner can be killed at any point.                                      *)
(*                                                                         *)
(* Files are numbered in the order of their names, and what a file says is *)
(* its checksum.  A file's SQL takes effect when its transaction commits.  *)
(* An INSERT of a key that an open transaction has inserted waits for that *)
(* transaction to end, and fails if it committed (PRIMARY KEY).            *)
(***************************************************************************)
EXTENDS Naturals, Sequences

CONSTANTS
    Runners,    \* a place where runs of migrate.ts follow each other
    FileCount,  \* the number of migration files there will ever be
    Checksums,
    Builds,     \* what the builds hold in migrations/: file -> checksum
    None

Files == 1 .. FileCount

ASSUME NumberAssumption == FileCount \in Nat
\* A build adds files after those there were, though it may edit those.
ASSUME BuildAssumption ==
    \A b \in Builds : \E n \in 0 .. FileCount : b \in [1 .. n -> Checksums]
ASSUME NoneAssumption == None \notin Checksums

VARIABLES
    applied,   \* schema_migrations: file -> checksum or None
    ran,       \* the schema: file -> the versions of it that took effect
    pc,        \* each runner: idle, loading, next, inserting, committing,
               \* done, failed
    build,     \* the files it has read
    seen,      \* the rows its SELECT returned
    at,        \* the file it has come to
    disturbed  \* history: another runner ran beside it, or its connection
               \* or SQL failed, or it was killed

runnerVars == <<pc, build, seen, at, disturbed>>
vars == <<applied, ran, runnerVars>>

Ended == {"idle", "done", "failed"}
Running == {r \in Runners : pc[r] \notin Ended}

Init ==
    /\ applied = [f \in Files |-> None]
    /\ ran = [f \in Files |-> <<>>]
    /\ pc = [r \in Runners |-> "idle"]
    /\ build = [r \in Runners |-> <<>>]
    /\ seen = [r \in Runners |-> [f \in Files |-> None]]
    /\ at = [r \in Runners |-> 1]
    /\ disturbed = [r \in Runners |-> FALSE]

-----------------------------------------------------------------------------
Goto(r, from, to) == pc[r] = from /\ pc' = [pc EXCEPT ![r] = to]

\* r is at a file its SELECT showed as s.
AtFile(r, s) ==
    pc[r] = "next" /\ at[r] \in DOMAIN build[r] /\ seen[r][at[r]] = s

(* A deploy starts: the directory is read. *)
Start(r) ==
    /\ pc[r] \in Ended
    /\ \E b \in Builds : build' = [build EXCEPT ![r] = b]
    /\ pc' = [pc EXCEPT ![r] = "loading"]
    /\ at' = [at EXCEPT ![r] = 1]
    /\ disturbed' = [q \in Runners |->
                        IF q = r THEN Running # {}
                        ELSE disturbed[q] \/ q \in Running]
    /\ UNCHANGED <<applied, ran, seen>>

(* ensureMigrationsTable and loadAppliedMigrations: one SELECT, up front. *)
Load(r) ==
    /\ Goto(r, "loading", "next")
    /\ seen' = [seen EXCEPT ![r] = applied]
    /\ UNCHANGED <<applied, ran, build, at, disturbed>>

(* The file was applied, by its checksum the same. *)
Skip(r) ==
    /\ AtFile(r, build[r][at[r]])
    /\ at' = [at EXCEPT ![r] = @ + 1]
    /\ UNCHANGED <<applied, ran, pc, build, seen, disturbed>>

\* Mutant: the run starts over.
MismatchRetried(r) ==
    /\ \E c \in Checksums : AtFile(r, c) /\ c # build[r][at[r]]
    /\ Goto(r, "next", "loading")
    /\ at' = [at EXCEPT ![r] = 1]
    /\ UNCHANGED <<applied, ran, build, seen, disturbed>>

(* It was applied and has changed since: the run is given up. *)
Mismatch(r) ==
    /\ \E c \in Checksums : AtFile(r, c) /\ c # build[r][at[r]]
    /\ Goto(r, "next", "failed")
    /\ UNCHANGED <<applied, ran, build, seen, at, disturbed>>

\* Mutant: files that were applied are run again.
ExecuteAny(r) ==
    /\ pc[r] = "next" /\ at[r] \in DOMAIN build[r]
    /\ Goto(r, "next", "inserting")
    /\ UNCHANGED <<applied, ran, build, seen, at, disturbed>>

(* applyMigration: BEGIN and the file's SQL. *)
Execute(r) ==
    /\ AtFile(r, None)
    /\ Goto(r, "next", "inserting")
    /\ UNCHANGED <<applied, ran, build, seen, at, disturbed>>

\* Mutant: INSERT ... ON CONFLICT DO NOTHING.
RecordUnlessThere(r) ==
    /\ \A q \in Runners : pc[q] = "committing" => at[q] # at[r]
    /\ Goto(r, "inserting", "committing")
    /\ UNCHANGED <<applied, ran, build, seen, at, disturbed>>

(* Its row is inserted, once no open transaction holds the same one. *)
Record(r) ==
    /\ \A q \in Runners : pc[q] = "committing" => at[q] # at[r]
    /\ pc[r] = "inserting"
    /\ pc' = [pc EXCEPT ![r] = IF applied[at[r]] = None THEN "committing"
                                                        ELSE "failed"]
    /\ UNCHANGED <<applied, ran, build, seen, at, disturbed>>

\* Mutant: the run goes on to the next file before the commit is known.
CommitUnawaited(r) ==
    /\ Goto(r, "committing", "next")
    /\ \/ /\ applied' = [applied EXCEPT ![at[r]] = build[r][at[r]]]
          /\ ran' = [ran EXCEPT ![at[r]] = Append(@, build[r][at[r]])]
       \/ UNCHANGED <<applied, ran>>
    /\ at' = [at EXCEPT ![r] = @ + 1]
    /\ UNCHANGED <<build, seen, disturbed>>

(* COMMIT: the SQL takes effect and the row is there. *)
Commit(r) ==
    /\ Goto(r, "committing", "next")
    /\ applied' = [applied EXCEPT ![at[r]] = build[r][at[r]]]
    /\ ran' = [ran EXCEPT ![at[r]] = Append(@, build[r][at[r]])]
    /\ at' = [at EXCEPT ![r] = @ + 1]
    /\ UNCHANGED <<build, seen, disturbed>>

(* The last file is behind it: the deploy may go on. *)
Finish(r) ==
    /\ at[r] \notin DOMAIN build[r]
    /\ Goto(r, "next", "done")
    /\ UNCHANGED <<applied, ran, build, seen, at, disturbed>>

(* SQL or the connection fails, or the process dies: the transaction is    *)
(* rolled back, exit(1) ends the run.                                      *)
Fail(r) ==
    /\ pc[r] \notin Ended
    /\ pc' = [pc EXCEPT ![r] = "failed"]
    /\ disturbed' = [disturbed EXCEPT ![r] = TRUE]
    /\ UNCHANGED <<applied, ran, build, seen, at>>

Work(r) ==
    \/ Load(r) \/ Skip(r) \/ Mismatch(r) \/ Execute(r) \/ Record(r)
    \/ Commit(r) \/ Finish(r)

Next == \E r \in Runners : Start(r) \/ Work(r) \/ Fail(r)

\* A process that is alive goes on, and the database answers it; an INSERT
\* that waits has its turn when the transaction it waits for ends.
Fairness == \A r \in Runners : WF_vars(Work(r)) /\ SF_vars(Record(r))

Spec == Init /\ [][Next]_vars /\ Fairness

-----------------------------------------------------------------------------
TypeOK ==
    /\ applied \in [Files -> Checksums \cup {None}]
    /\ ran \in [Files -> Seq(Checksums)]
    /\ pc \in [Runners -> {"idle", "loading", "next", "inserting",
                           "committing", "done", "failed"}]
    /\ build \in [Runners -> Builds \cup {<<>>}]
    /\ seen \in [Runners -> [Files -> Checksums \cup {None}]]
    /\ at \in [Runners -> 1 .. FileCount + 1]
    /\ disturbed \in [Runners -> BOOLEAN]

(* schema_migrations tells what happened to the schema: a recorded file    *)
(* took effect once, as the version recorded, any other not at all;        *)
(* whoever runs beside whom, and wherever a runner dies.                   *)
RanOnce ==
    \A f \in Files : ran[f] = IF applied[f] = None THEN <<>>
                              ELSE <<applied[f]>>

(* Files take effect in the order of their names: none is there without    *)
(* all before it.                                                          *)
InOrder ==
    \A f \in Files : applied[f] # None => \A g \in 1 .. f : applied[g] # None

(* A run that ends well, letting its deploy go on, leaves the schema of    *)
(* its build: every file of it in effect, in the version it holds.         *)
DoneMigrated ==
    \A r \in Runners : pc[r] = "done" =>
        \A f \in DOMAIN build[r] : ran[f] = <<build[r][f]>>

(* A run nothing happened to fails only for a file that was edited after   *)
(* it was applied: what a run that failed leaves never stands in the way   *)
(* of the next one.                                                        *)
FailsForCause ==
    \A r \in Runners : pc[r] = "failed" /\ ~disturbed[r] =>
        \E f \in DOMAIN build[r] : applied[f] \notin {None, build[r][f]}

(* Every run ends, though it may have to wait for others' transactions.    *)
RunEnds == \A r \in Runners : pc[r] = "loading" ~> pc[r] \in Ended
=============================================================================
