------------------------- MODULE Pagination_proofs -------------------------
(***************************************************************************)
(* Proofs about Pagination for any number of writers, rows, limits and     *)
(* instants: a walk goes down the list, shows nothing twice and skips      *)
(* nothing but what the cursor's lost microseconds hide.  IInv is the      *)
(* inductive invariant.                                                    *)
(***************************************************************************)
EXTENDS Pagination, TLAPS

\* Where a reader is: at the last of the rows it was shown.
Position ==
    walk = "reading" =>
        \E p \in page \cap cuts :
            /\ cursor = CursorOf(p)
            /\ \A q \in earlier \cup page : q = p \/ Before(q, p)

\* Only Fine lists have microseconds.
Coarse == ~Fine => \A r \in rows \cup Pending : r.us = 0

IInv == TypeOK /\ Coarse /\ Position /\ NewestFirst /\ NothingSkipped

-----------------------------------------------------------------------------
(* Before is transitive, and no row is before itself. *)
LEMMA BeforeOrder ==
    ASSUME NEW a \in Row, NEW b \in Row, NEW c \in Row
    PROVE  /\ ~Before(a, a)
           /\ Before(a, b) /\ Before(b, c) => Before(a, c)
  <1>1. \A r \in Row : r.ms \in Int /\ r.us \in Int /\ r.id \in Int
    <2> SUFFICES ASSUME NEW r \in Row
                 PROVE  r.ms \in Int /\ r.us \in Int /\ r.id \in Int
      OBVIOUS
    <2>1. r.ms \in 0 .. MaxMs /\ r.us \in 0 .. PerMs - 1 /\ r.id \in Ids
      BY DEF Row
    <2>2. r.id \in Nat
      BY <2>1, NumberAssumption
    <2>3. r.ms \in Int /\ r.us \in Int
      BY <2>1
    <2>4. QED
      BY <2>2, <2>3
  <1>2. QED
    BY <1>1 DEF Before

(* What comes after a row's cursor comes after the row; what comes after   *)
(* the row comes after its cursor too, unless it is of the same            *)
(* millisecond and one of the two has microseconds.                        *)
LEMMA CursorOrder ==
    ASSUME NEW p \in Row, NEW e \in Row
    PROVE  /\ CursorOf(p) \in Cursor
           /\ Before(CursorOf(p), e) => Before(p, e)
           /\ Before(p, e) /\ ~Before(CursorOf(p), e) =>
                  p.ms = e.ms /\ (p.us # 0 \/ e.us # 0)
  <1>1. /\ p.ms \in 0 .. MaxMs /\ p.us \in 0 .. PerMs - 1 /\ p.id \in Ids
        /\ e.ms \in 0 .. MaxMs /\ e.us \in 0 .. PerMs - 1 /\ e.id \in Ids
    BY DEF Row
  <1>2. /\ CursorOf(p) \in Cursor
        /\ CursorOf(p).ms = p.ms /\ CursorOf(p).us = 0
        /\ CursorOf(p).id = p.id
    BY <1>1 DEF CursorOf, Cursor, Row
  <1>3. QED
    BY <1>1, <1>2, NumberAssumption DEF Before

LEMMA LimitPositive ==
    ASSUME NEW l \in Limits
    PROVE  NormalizedLimit(l) \in Nat \ {0}
  BY LimitAssumption, NumberAssumption DEF NormalizedLimit

(* A page holds the first rows after the cursor: the rows it leaves out    *)
(* are after its last row, and if the walk is done there are none.         *)
LEMMA AnswerFacts ==
    ASSUME TypeOK, NEW c, NEW n \in Nat, Answer(c, n)
    PROVE  /\ page' \subseteq After(c)
           /\ \/ walk' = "done" /\ cursor' = None /\ page' = After(c)
              \/ /\ walk' = "reading"
                 /\ \E p \in page' \cap cuts' :
                        /\ cursor' = CursorOf(p)
                        /\ \A q \in page' : q = p \/ Before(q, p)
                        /\ \A q \in After(c) \ page' : Before(p, q)
           /\ cuts' \subseteq rows
           /\ c # None => cuts \subseteq cuts'
  <1>1. PICK p \in SUBSET After(c) :
          /\ IsPage(p, After(c), n)
          /\ page' = p
          /\ IF Cardinality(p) < n
             THEN /\ walk' = "done" /\ cursor' = None
                  /\ cuts' = IF c = None THEN {} ELSE cuts
             ELSE \E r \in p :
                    /\ IsLast(r, p)
                    /\ walk' = "reading" /\ cursor' = CursorOf(r)
                    /\ cuts' = (IF c = None THEN {} ELSE cuts) \cup {r}
    BY DEF Answer
  <1>2. After(c) \subseteq rows /\ cuts \subseteq rows
    BY DEF After, TypeOK
  <1>3. CASE Cardinality(p) < n
    <2>1. p = After(c)
      BY <1>1, <1>3 DEF IsPage
    <2>2. QED
      BY <1>1, <1>2, <1>3, <2>1
  <1>4. CASE ~(Cardinality(p) < n)
    <2>1. PICK r \in p :
            /\ IsLast(r, p)
            /\ walk' = "reading" /\ cursor' = CursorOf(r)
            /\ cuts' = (IF c = None THEN {} ELSE cuts) \cup {r}
      BY <1>1, <1>4
    <2>2. /\ \A q \in p : q = r \/ Before(q, r)
          /\ \A q \in After(c) \ p : Before(r, q)
      BY <1>1, <2>1 DEF IsLast, IsPage
    <2>3. QED
      BY <1>1, <1>2, <2>1, <2>2
  <1>5. QED
    BY <1>3, <1>4

-----------------------------------------------------------------------------
LEMMA InitIInv == Init => IInv
  <1> SUFFICES ASSUME Init PROVE IInv
    OBVIOUS
  <1>1. TypeOK
    BY NumberAssumption DEF Init, TypeOK, Time
  <1>2. Coarse
    BY DEF Init, Coarse, Pending
  <1>3. Position /\ NewestFirst /\ NothingSkipped
    BY DEF Init, Position, NewestFirst, NothingSkipped
  <1>4. QED
    BY <1>1, <1>2, <1>3 DEF IInv

(* Writers and the clock move no reader: what a walk has promised about    *)
(* the rows there were stays as it is.                                     *)
LEMMA WriterStep ==
    ASSUME IInv, TypeOK', Coarse', UNCHANGED <<configVars, walkVars>>
    PROVE  IInv'
  <1>1. Position'
    BY DEF IInv, Position, walkVars, Before, CursorOf
  <1>2. NewestFirst'
    BY DEF IInv, NewestFirst, walkVars, Before
  <1>3. NothingSkipped'
    BY DEF IInv, NothingSkipped, walkVars, configVars, Passed, Fine, Before
  <1>4. QED
    BY <1>1, <1>2, <1>3 DEF IInv

LEMMA NewRowTyped ==
    ASSUME TypeOK, NEW i \in Unused
    PROVE  /\ NewRow(i) \in Row
           /\ ~Fine => NewRow(i).us = 0
  BY NumberAssumption DEF TypeOK, Time, Row, Unused, NewRow, Stamp

(* A page that is answered keeps the invariant. *)
LEMMA ReaderStep ==
    ASSUME IInv, NEW l \in Limits,
           \/ /\ walk \in {"idle", "done"}
              /\ Answer(None, NormalizedLimit(l))
              /\ start' = rows /\ earlier' = {}
           \/ /\ walk = "reading"
              /\ Answer(cursor, NormalizedLimit(l))
              /\ start' = start /\ earlier' = earlier \cup page,
           UNCHANGED <<configVars, tableVars>>
    PROVE  IInv'
  <1>a. TypeOK /\ Coarse /\ Position /\ NewestFirst /\ NothingSkipped
    BY DEF IInv
  <1>b. NormalizedLimit(l) \in Nat
    BY LimitPositive
  <1>c. rows \subseteq Row /\ rows' = rows
    BY <1>a DEF TypeOK, tableVars
  <1>d. Coarse'
    BY <1>a DEF Coarse, Fine, Pending, configVars, tableVars
  <1>e. ~Fine => \A r \in rows : r.us = 0
    BY <1>a DEF Coarse
  <1>1. CASE /\ walk \in {"idle", "done"}
             /\ Answer(None, NormalizedLimit(l))
             /\ start' = rows /\ earlier' = {}
    <2>1. After(None) = rows
      BY DEF After
    <2>2. /\ page' \subseteq rows /\ cuts' \subseteq rows
          /\ \/ walk' = "done" /\ cursor' = None /\ page' = rows
             \/ /\ walk' = "reading"
                /\ \E p \in page' \cap cuts' :
                       /\ cursor' = CursorOf(p)
                       /\ \A q \in page' : q = p \/ Before(q, p)
                       /\ \A q \in rows \ page' : Before(p, q)
      BY <1>a, <1>b, <1>1, <2>1, AnswerFacts
    <2>3. TypeOK'
      <3>1. walk' \in {"done", "reading"} /\ cursor' \in Cursor \cup {None}
        BY <1>c, <2>2, CursorOrder
      <3>2. walk' = "reading" <=> cursor' # None
        BY <1>c, <2>2, CursorOrder, NoneAssumption
      <3>3. QED
        BY <1>a, <1>c, <1>1, <2>2, <3>1, <3>2
           DEF TypeOK, configVars, tableVars
    <2>4. Position'
      BY <1>1, <2>2 DEF Position, Before, CursorOf
    <2>5. NewestFirst'
      BY <1>1 DEF NewestFirst
    <2>6. NothingSkipped'
      <3>1. ASSUME NEW e \in rows, Passed(e)', e \notin page'
            PROVE  Fine /\ \E p \in cuts' : p.ms = e.ms /\ Before(p, e)
        <4>1. PICK p \in page' \cap cuts' :
                walk' = "reading" /\ cursor' = CursorOf(p) /\ Before(p, e)
          BY <2>2, <3>1
        <4>2. ~Before(CursorOf(p), e)
          BY <3>1, <4>1 DEF Passed, Before, CursorOf
        <4>3. p.ms = e.ms /\ (p.us # 0 \/ e.us # 0)
          BY <1>c, <2>2, <4>1, <4>2, CursorOrder
        <4>4. QED
          BY <1>e, <2>2, <4>1, <4>3
      <3>2. QED
        BY <1>1, <3>1 DEF NothingSkipped, Fine, configVars, Before
    <2>7. QED
      BY <1>d, <2>3, <2>4, <2>5, <2>6 DEF IInv
  <1>2. CASE /\ walk = "reading"
             /\ Answer(cursor, NormalizedLimit(l))
             /\ start' = start /\ earlier' = earlier \cup page
    <2>1. cursor # None
      BY <1>a, <1>2 DEF TypeOK
    <2>2. /\ page' \subseteq After(cursor) /\ cuts' \subseteq rows
          /\ cuts \subseteq cuts'
          /\ \/ walk' = "done" /\ cursor' = None /\ page' = After(cursor)
             \/ /\ walk' = "reading"
                /\ \E p \in page' \cap cuts' :
                       /\ cursor' = CursorOf(p)
                       /\ \A q \in page' : q = p \/ Before(q, p)
                       /\ \A q \in After(cursor) \ page' : Before(p, q)
      BY <1>a, <1>b, <1>2, <2>1, AnswerFacts
    <2>3. \A e \in rows : e \in After(cursor) <=> Before(cursor, e)
      BY <2>1 DEF After
    <2>4. /\ page' \subseteq rows
          /\ earlier' \subseteq rows /\ start' \subseteq rows
      BY <1>a, <1>2, <2>2 DEF After, TypeOK
    <2>5. TypeOK'
      <3>1. walk' \in {"done", "reading"} /\ cursor' \in Cursor \cup {None}
        BY <1>c, <2>2, <2>4, CursorOrder
      <3>2. walk' = "reading" <=> cursor' # None
        BY <1>c, <2>2, <2>4, CursorOrder, NoneAssumption
      <3>3. QED
        BY <1>a, <1>c, <2>2, <2>4, <3>1, <3>2
           DEF TypeOK, configVars, tableVars
    <2>6. NewestFirst'
      <3>1. PICK p \in page \cap cuts :
              /\ cursor = CursorOf(p)
              /\ \A q \in earlier \cup page : q = p \/ Before(q, p)
        BY <1>a, <1>2 DEF Position
      <3>2. ASSUME NEW d \in earlier \cup page, NEW e \in page'
            PROVE  Before(d, e)
        <4>1. d \in Row /\ e \in Row /\ p \in Row
          BY <1>a, <1>c, <2>4 DEF TypeOK
        <4>2. Before(p, e)
          BY <2>2, <2>3, <2>4, <3>1, <4>1, CursorOrder
        <4>3. QED
          BY <3>1, <4>1, <4>2, BeforeOrder
      <3>3. QED
        BY <1>2, <3>2 DEF NewestFirst, Before
    <2>7. Position'
      BY <2>2, <2>6 DEF Position, NewestFirst, Before, CursorOf
    <2>8. NothingSkipped'
      <3>1. ASSUME NEW e \in start, Passed(e)',
                   e \notin earlier \cup page \cup page'
            PROVE  Fine /\ \E p \in cuts' : p.ms = e.ms /\ Before(p, e)
        <4>0. e \in rows /\ e \in Row
          BY <1>a, <1>c DEF TypeOK
        <4>1. CASE ~Before(cursor, e)
          BY <1>a, <1>2, <2>2, <3>1, <4>1 DEF NothingSkipped, Passed
        <4>2. CASE Before(cursor, e)
          <5>1. e \in After(cursor) \ page'
            BY <2>3, <3>1, <4>0, <4>2
          <5>2. PICK p \in page' \cap cuts' :
                  walk' = "reading" /\ cursor' = CursorOf(p) /\ Before(p, e)
            BY <2>2, <5>1
          <5>3. ~Before(CursorOf(p), e)
            BY <3>1, <5>2 DEF Passed, Before, CursorOf
          <5>4. p.ms = e.ms /\ (p.us # 0 \/ e.us # 0)
            BY <1>c, <2>4, <4>0, <5>2, <5>3, CursorOrder
          <5>5. QED
            BY <1>e, <2>4, <4>0, <5>2, <5>4
        <4>3. QED
          BY <4>1, <4>2
      <3>2. QED
        BY <1>2, <3>1 DEF NothingSkipped, Fine, configVars, Before
    <2>9. QED
      BY <1>d, <2>5, <2>6, <2>7, <2>8 DEF IInv
  <1>3. QED
    BY <1>1, <1>2

LEMMA StepIInv == IInv /\ [Next]_vars => IInv'
  <1> SUFFICES ASSUME IInv, [Next]_vars PROVE IInv'
    OBVIOUS
  <1>a. TypeOK /\ Coarse
    BY DEF IInv
  <1>1. CASE Tick
    <2>1. now' \in Time
      BY <1>a, <1>1, NumberAssumption DEF Tick, TypeOK, Time
    <2>2. TypeOK'
      BY <1>a, <1>1, <2>1 DEF Tick, TypeOK, configVars, walkVars
    <2>3. Coarse'
      BY <1>a, <1>1 DEF Tick, Coarse, Fine, Pending, configVars
    <2>4. QED
      BY <1>1, <2>2, <2>3, WriterStep DEF Tick
  <1>2. ASSUME NEW w \in Writers, Insert(w) PROVE IInv'
    <2>1. PICK i \in Unused : pending' = [pending EXCEPT ![w] = NewRow(i)]
      BY <1>2 DEF Insert
    <2>2. NewRow(i) \in Row /\ (~Fine => NewRow(i).us = 0)
      BY <1>a, NewRowTyped
    <2>3. TypeOK'
      BY <1>a, <1>2, <2>1, <2>2 DEF Insert, TypeOK, configVars, walkVars
    <2>4. Pending' \subseteq Pending \cup {NewRow(i)}
      BY <1>a, <2>1 DEF Pending, TypeOK
    <2>5. Coarse'
      BY <1>a, <1>2, <2>2, <2>4 DEF Insert, Coarse, Fine, configVars
    <2>6. QED
      BY <1>2, <2>3, <2>5, WriterStep DEF Insert
  <1>3. ASSUME NEW w \in Writers, Commit(w) PROVE IInv'
    <2>1. pending[w] \in Row /\ pending[w] \in Pending
      BY <1>a, <1>3 DEF Commit, TypeOK, Pending
    <2>2. TypeOK'
      BY <1>a, <1>3, <2>1 DEF Commit, TypeOK, configVars, walkVars
    <2>3. Pending' \subseteq Pending
      BY <1>a, <1>3 DEF Commit, Pending, TypeOK
    <2>4. Coarse'
      BY <1>a, <1>3, <2>1, <2>3 DEF Commit, Coarse, Fine, configVars
    <2>5. QED
      BY <1>3, <2>2, <2>4, WriterStep DEF Commit
  <1>4. ASSUME NEW w \in Writers, Rollback(w) PROVE IInv'
    <2>1. TypeOK'
      BY <1>a, <1>4 DEF Rollback, TypeOK, configVars, walkVars
    <2>2. Pending' \subseteq Pending
      BY <1>a, <1>4 DEF Rollback, Pending, TypeOK
    <2>3. Coarse'
      BY <1>a, <1>4, <2>2 DEF Rollback, Coarse, Fine, configVars
    <2>4. QED
      BY <1>4, <2>1, <2>3, WriterStep DEF Rollback
  <1>5. ASSUME NEW w \in Writers, Append(w) PROVE IInv'
    <2>1. PICK i \in Unused : rows' = rows \cup {NewRow(i)}
      BY <1>5 DEF Append
    <2>2. NewRow(i) \in Row /\ (~Fine => NewRow(i).us = 0)
      BY <1>a, NewRowTyped
    <2>3. TypeOK'
      BY <1>a, <1>5, <2>1, <2>2 DEF Append, TypeOK, configVars, walkVars
    <2>4. Coarse'
      BY <1>a, <1>5, <2>1, <2>2
         DEF Append, Coarse, Fine, Pending, configVars
    <2>5. QED
      BY <1>5, <2>3, <2>4, WriterStep DEF Append
  <1>6. ASSUME NEW l \in Limits, FirstPage(l) \/ NextPage(l) PROVE IInv'
    BY <1>6, ReaderStep DEF FirstPage, NextPage
  <1>7. CASE UNCHANGED vars
    <2>1. TypeOK' /\ Coarse'
      BY <1>a, <1>7
         DEF vars, configVars, tableVars, walkVars, TypeOK, Coarse, Fine,
             Pending
    <2>2. QED
      BY <1>7, <2>1, WriterStep DEF vars
  <1>8. QED
    BY <1>1, <1>2, <1>3, <1>4, <1>5, <1>6, <1>7 DEF Next

-----------------------------------------------------------------------------
LEMMA Invariance == Spec => []IInv
  BY InitIInv, StepIInv, PTL DEF Spec

(* A walk goes down the list and shows no row twice (listEvents,           *)
(* listIncidents), whatever is added meanwhile.                            *)
THEOREM WalkNewestFirst == Spec => []NewestFirst
  <1>1. IInv => NewestFirst
    BY DEF IInv
  <1>2. QED
    BY <1>1, Invariance, PTL

(* A walk shows every row there was when it began, but for rows of the     *)
(* Postgres audit log in the millisecond of a cursor (encodeCursor).       *)
THEOREM WalkSkipsNothing == Spec => []NothingSkipped
  <1>1. IInv => NothingSkipped
    BY DEF IInv
  <1>2. QED
    BY <1>1, Invariance, PTL
=============================================================================
