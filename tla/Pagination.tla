----------------------------- MODULE Pagination -----------------------------
(***************************************************************************)
(* A client walks a tenant's incidents or audit log page by page, newest   *)
(* first, while other requests add to the list.                            *)
(*                                                                         *)
(* A time is a millisecond and a microsecond within it.  Rows are stamped  *)
(* by the process in milliseconds, except that the audit log of Postgres   *)
(* is stamped by NOW(): the microsecond its transaction began.  JavaScript *)
(* reads every time in milliseconds, and so do the cursors made of them.   *)
(*                                                                         *)
(* Ids are random UUIDs: any order among them.  Clocks do not run back.    *)
(***************************************************************************)
EXTENDS Integers, FiniteSets

CONSTANTS
    Backends,     \* the backends considered: of {"memory", "postgres"}
    Writers,      \* requests that add a row
    Ids,          \* bound: the rows ever added
    MaxMs,        \* bound on the clock
    PerMs,        \* microseconds in a millisecond
    Limits,       \* the "limit" a client may ask for; None leaves it out
    DefaultLimit, MaxLimit,
    None

ASSUME NumberAssumption ==
    /\ Ids \subseteq Nat
    /\ MaxMs \in Nat /\ PerMs \in Nat \ {0}
    /\ DefaultLimit \in Nat \ {0} /\ MaxLimit \in Nat \ {0}
ASSUME LimitAssumption == Limits \subseteq (Nat \ {0}) \cup {None}
ASSUME BackendAssumption == Backends \subseteq {"memory", "postgres"}

Time == [ms : 0 .. MaxMs, us : 0 .. PerMs - 1]
Row == [ms : 0 .. MaxMs, us : 0 .. PerMs - 1, id : Ids]
Cursor == [ms : 0 .. MaxMs, us : {0}, id : Ids]

ASSUME NoneAssumption == None \notin Row \cup Cursor \cup Nat

VARIABLES
    list,     \* the list walked: "incidents" or "auditLogs"
    backend,
    now,      \* the clock
    rows,     \* the committed rows
    pending,  \* each writer: the row of its open transaction, or None
    walk,     \* "idle", "reading" (there is a next page), "done"
    cursor,   \* nextCursor of the last page, or None
    page,     \* the rows of the last page
    earlier,  \* history: the rows of the pages before it
    start,    \* history: the rows there were when the walk began
    cuts      \* history: the last rows of the pages so far

configVars == <<list, backend>>
tableVars == <<now, rows, pending>>
walkVars == <<walk, cursor, page, earlier, start, cuts>>
vars == <<configVars, tableVars, walkVars>>

Init ==
    /\ list \in {"incidents", "auditLogs"}
    /\ backend \in Backends
    /\ now = [ms |-> 0, us |-> 0]
    /\ rows = {}
    /\ pending = [w \in Writers |-> None]
    /\ walk = "idle" /\ cursor = None
    /\ page = {} /\ earlier = {} /\ start = {} /\ cuts = {}

\* The rows that keep their microseconds.
Fine == list = "auditLogs" /\ backend = "postgres"

\* Mutant: every INSERT in Postgres stamps with NOW().
StampByDatabase == IF backend = "postgres" THEN now ELSE [now EXCEPT !.us = 0]

Stamp == IF Fine THEN now ELSE [now EXCEPT !.us = 0]

-----------------------------------------------------------------------------
(* Writers.                                                                *)

Pending == {pending[w] : w \in Writers} \ {None}
Unused == Ids \ {r.id : r \in rows \cup Pending}
NewRow(i) == [ms |-> Stamp.ms, us |-> Stamp.us, id |-> i]

Tick ==
    /\ \/ now.us < PerMs - 1 /\ now' = [now EXCEPT !.us = @ + 1]
       \/ now.ms < MaxMs /\ now' = [ms |-> now.ms + 1, us |-> 0]
    /\ UNCHANGED <<configVars, rows, pending, walkVars>>

(* Postgres: BEGIN and INSERT stamp the row, COMMIT shows it. *)
Insert(w) ==
    /\ backend = "postgres" /\ pending[w] = None
    /\ \E i \in Unused : pending' = [pending EXCEPT ![w] = NewRow(i)]
    /\ UNCHANGED <<configVars, now, rows, walkVars>>

Commit(w) ==
    /\ pending[w] # None
    /\ rows' = rows \cup {pending[w]}
    /\ pending' = [pending EXCEPT ![w] = None]
    /\ UNCHANGED <<configVars, now, walkVars>>

Rollback(w) ==
    /\ pending[w] # None
    /\ pending' = [pending EXCEPT ![w] = None]
    /\ UNCHANGED <<configVars, now, rows, walkVars>>

(* The in-memory repositories stamp and append in one turn. *)
Append(w) ==
    /\ backend = "memory"
    /\ \E i \in Unused : rows' = rows \cup {NewRow(i)}
    /\ UNCHANGED <<configVars, now, pending, walkVars>>

-----------------------------------------------------------------------------
(* The reader.                                                             *)

\* ORDER BY created_at DESC, id DESC; compareDescending
Before(d, e) ==
    \/ d.ms > e.ms
    \/ d.ms = e.ms /\ d.us > e.us
    \/ d.ms = e.ms /\ d.us = e.us /\ d.id > e.id

\* encodeCursor of a row as JavaScript has it
CursorOf(r) == [r EXCEPT !.us = 0]

\* Mutants: (created_at, id) <= cursor; created_at <= cursor, ids left out.
AfterOrAt(c) == {r \in rows : c = None \/ Before(c, r) \/ c = r}

AfterByTime(c) == {r \in rows : c = None \/ r.ms <= c.ms}

\* The rows after a cursor: (created_at, id) < cursor; isAfterCursor
After(c) == {r \in rows : c = None \/ Before(c, r)}

NormalizedLimit(l) == IF l = None THEN DefaultLimit
                      ELSE IF l <= MaxLimit THEN l ELSE MaxLimit

\* p is the page of the first n of the given rows.
IsPage(p, given, n) ==
    /\ \/ Cardinality(p) = n
       \/ Cardinality(p) < n /\ p = given
    /\ \A r \in p, s \in given \ p : Before(r, s)

IsLast(r, p) == r \in p /\ \A s \in p : s = r \/ Before(s, r)

\* The page after cursor c is answered, at most n rows long; nextCursor is
\* null if the page is shorter.
Answer(c, n) ==
    LET given == After(c)
        before == IF c = None THEN {} ELSE cuts IN
    \E p \in SUBSET given :
        /\ IsPage(p, given, n)
        /\ page' = p
        /\ IF Cardinality(p) < n
           THEN walk' = "done" /\ cursor' = None /\ cuts' = before
           ELSE \E r \in p :
                    /\ IsLast(r, p)
                    /\ walk' = "reading"
                    /\ cursor' = CursorOf(r)
                    /\ cuts' = before \cup {r}

(* The list is asked for without a cursor. *)
FirstPage(l) ==
    /\ walk \in {"idle", "done"}
    /\ Answer(None, NormalizedLimit(l))
    /\ start' = rows
    /\ earlier' = {}
    /\ UNCHANGED <<configVars, tableVars>>

(* The cursor of the last page is followed. *)
NextPage(l) ==
    /\ walk = "reading"
    /\ Answer(cursor, NormalizedLimit(l))
    /\ earlier' = earlier \cup page
    /\ UNCHANGED <<configVars, tableVars, start>>

Next ==
    \/ Tick
    \/ \E w \in Writers : Insert(w) \/ Commit(w) \/ Rollback(w) \/ Append(w)
    \/ \E l \in Limits : FirstPage(l) \/ NextPage(l)

\* A client that has begun a walk goes on with it.
Fairness == WF_vars(\E l \in Limits : NextPage(l))

Spec == Init /\ [][Next]_vars /\ Fairness

-----------------------------------------------------------------------------
TypeOK ==
    /\ list \in {"incidents", "auditLogs"}
    /\ backend \in Backends
    /\ now \in Time
    /\ rows \subseteq Row
    /\ pending \in [Writers -> Row \cup {None}]
    /\ walk \in {"idle", "reading", "done"}
    /\ cursor \in Cursor \cup {None}
    /\ walk = "reading" <=> cursor # None
    /\ page \subseteq rows /\ earlier \subseteq rows /\ start \subseteq rows
    /\ cuts \subseteq rows

(* Every row of a page is older than every row of the pages before it: a   *)
(* walk goes down the list and shows no row twice, whatever is added       *)
(* meanwhile, be it committed out of the order of its stamps.              *)
NewestFirst == \A d \in earlier, e \in page : Before(d, e)

\* The walk is past row e.
Passed(e) ==
    walk = "done" \/ (walk = "reading" /\ ~Before(cursor, e))

(* A walk shows every row there was when it began.  In the one list that   *)
(* keeps microseconds it may skip a row, but only one stamped within the   *)
(* millisecond of the last row of some page, and before it.                *)
NothingSkipped ==
    \A e \in start :
        Passed(e) =>
            \/ e \in earlier \cup page
            \/ Fine /\ (\E p \in cuts : p.ms = e.ms /\ Before(p, e))

(* A walk comes to an end though rows keep being added and though every    *)
(* page may be asked for with another limit.                               *)
WalkEnds == walk = "reading" ~> walk = "done"
=============================================================================
