------------------------- MODULE CustomerLedgerProofs -------------------------
(***************************************************************************)
(* What CustomerLedger guarantees for every set of customers, sessions and *)
(* transactions, and however long a ledger grows.                          *)
(***************************************************************************)
EXTENDS CustomerLedger, FiniteSetTheorems, TLAPS

-----------------------------------------------------------------------------
(* Lemmas about sets of rows *)

\* A finite set of rows that is not empty has a newest one.
LEMMA NewestExists ==
    ASSUME NEW S, IsFiniteSet(S), S # {}, \A r \in S : r.at \in Nat
    PROVE  \E r \in S : \A q \in S : q.at <= r.at
<1> DEFINE HasNewest(T) == \E r \in T : \A q \in T : q.at <= r.at
           Bad == {T \in SUBSET S : T # {} /\ ~HasNewest(T)}
<1>1. SUFFICES ASSUME S \in Bad PROVE FALSE
  OBVIOUS
<1>2. /\ IsWellFoundedOn(StrictSubsetOrdering(S), FiniteSubsetsOf(S))
      /\ Bad \subseteq FiniteSubsetsOf(S)
  BY FS_StrictSubsetOrderingWellFounded, FS_FiniteSubsetsOfFinite
<1>3. PICK T \in Bad : \A U \in Bad : ~(<<U, T>> \in StrictSubsetOrdering(S))
  <2> HIDE DEF Bad
  <2> QED BY <1>1, <1>2, WFMin
<1>4. PICK x \in T : TRUE
  OBVIOUS
<1>5. T \ {x} \notin Bad
  BY <1>3, <1>4 DEF StrictSubsetOrdering
<1>6. T \ {x} = {} \/ HasNewest(T \ {x})
  BY <1>5
<1>7. x \in S /\ T \subseteq S
  BY <1>4
<1>8. CASE T \ {x} = {}
  <2>1. \A q \in T : q = x
    BY <1>8
  <2> QED BY <1>4, <1>7, <2>1
<1>9. CASE HasNewest(T \ {x})
  <2>1. PICK r \in T \ {x} : \A q \in T \ {x} : q.at <= r.at
    BY <1>9
  <2>2. r.at \in Nat /\ x.at \in Nat /\ \A q \in T : q.at \in Nat
    BY <1>7, <2>1
  <2>3. CASE r.at <= x.at
    BY <1>4, <2>1, <2>2, <2>3
  <2>4. CASE x.at <= r.at
    BY <1>4, <2>1, <2>2, <2>4
  <2> QED BY <2>2, <2>3, <2>4
<1> QED BY <1>6, <1>8, <1>9

\* ORDER BY occurredAt DESC LIMIT 1 finds a row of the set.
LEMMA LatestIsThere ==
    ASSUME NEW S, IsFiniteSet(S), S # {}, S \subseteq RowShape
    PROVE  Latest(S) \in S /\ Latest(S) \in RowShape
<1>1. \A r \in S : r.at \in Nat
  BY DEF RowShape
<1>2. \E r \in S : \A q \in S : q.at <= r.at
  BY <1>1, NewestExists
<1> QED BY <1>2 DEF Latest

\* All rows there are: committed, and made in transactions that are open.
AllRows == rows \cup UNION {Made(s) : s \in Sessions}

\* Every entry a transaction posts is one of the entries there are.
LEMMA PostType ==
    ASSUME TypeOK, NEW s \in Sessions, session[s].todo # <<>>
    PROVE  /\ Post(s) \in Entries /\ Post(s).customer \in Customers /\ Post(s).delta \in Int
           /\ Tail(session[s].todo) \in Seq(Entries)
<1>1. session[s].todo \in Seq(Entries)
  BY DEF TypeOK
<1>2. Post(s) \in Entries /\ Tail(session[s].todo) \in Seq(Entries)
  BY <1>1 DEF Post
<1> QED BY <1>2, JobsAssumption

\* Rows have the columns of the table.
LEMMA AllRowsType ==
    ASSUME TypeOK
    PROVE  AllRows \subseteq RowShape /\ \A s \in Sessions : Made(s) \subseteq AllRows
BY DEF TypeOK, AllRows, Made

\* The clock is a number no row's stamp is beyond.
LEMMA ClockIsAhead ==
    ASSUME TypeOK, IsFiniteSet(AllRows)
    PROVE  Clock \in Nat /\ \A r \in AllRows : r.at < Clock + 1
<1> DEFINE stamps == {r.at : r \in AllRows}
<1>1. \A r \in AllRows : r.at \in Nat
  BY AllRowsType DEF RowShape
<1>2. Clock = IF stamps = {} THEN 0 ELSE CHOOSE n \in stamps : \A m \in stamps : m <= n
  BY DEF Clock, AllRows
<1>3. CASE AllRows = {}
  BY <1>2, <1>3
<1>4. CASE AllRows # {}
  <2>1. PICK r \in AllRows : \A q \in AllRows : q.at <= r.at
    BY <1>1, <1>4, NewestExists
  <2>2. r.at \in stamps /\ \A m \in stamps : m <= r.at
    BY <2>1
  <2>3. Clock \in stamps /\ \A m \in stamps : m <= Clock
    BY <1>2, <2>2
  <2> QED BY <1>1, <2>3
<1> QED BY <1>3, <1>4

-----------------------------------------------------------------------------
(* Type correctness *)

\* The row a post makes: stamped after all others, adding to the base.
NewRow(s, base) == Row(Post(s), Clock + 1, base)

\* An insert adds one row, newer than all, to what its session has made.
LEMMA InsertEffect ==
    ASSUME TypeOK, IsFiniteSet(AllRows), NEW s \in Sessions, session[s].todo # <<>>,
           NEW base \in Int, Insert(s, base)
    PROVE  /\ NewRow(s, base) \in RowShape
           /\ NewRow(s, base).entry = Post(s)
           /\ NewRow(s, base).running - NewRow(s, base).entry.delta = base
           /\ \A r \in AllRows : r.at < NewRow(s, base).at
           /\ Made(s)' = Made(s) \cup {NewRow(s, base)}
           /\ \A q \in Sessions \ {s} : session'[q] = session[q]
           /\ session'[s].step \in {"commit", "dedupe"}
           /\ session' \in [Sessions -> [step: Steps, todo: Seq(Entries),
                                         made: SUBSET RowShape, target: Nat]]
           /\ \A q \in Sessions : (At(q, "dedupe") \/ At(q, "select") \/ At(q, "wait")
                                   => session[q].todo # <<>>)'
<1>1. /\ Post(s) \in Entries /\ Post(s).delta \in Int
      /\ Tail(session[s].todo) \in Seq(Entries)
  BY PostType
<1>2. Clock \in Nat /\ \A r \in AllRows : r.at < Clock + 1
  BY ClockIsAhead
<1> DEFINE new == NewRow(s, base)
<1>3. /\ new = [at |-> Clock + 1, entry |-> Post(s), running |-> base + Post(s).delta]
  BY DEF NewRow, Row
<1>4. new \in RowShape /\ new.entry = Post(s) /\ new.at = Clock + 1
      /\ new.running - new.entry.delta = base
  BY <1>1, <1>2, <1>3 DEF RowShape
<1> DEFINE now == [step |-> NextStep(session[s].todo), todo |-> Tail(session[s].todo),
                   made |-> Made(s) \cup {new}, target |-> 0]
<1>5. session' = [session EXCEPT ![s] = now]
  BY DEF Insert, NewRow
<1>6. /\ NextStep(session[s].todo) \in {"commit", "dedupe"}
      /\ NextStep(session[s].todo) = "dedupe" => Tail(session[s].todo) # <<>>
  BY DEF NextStep
<1> HIDE DEF new
<1>7. session \in [Sessions -> [step: Steps, todo: Seq(Entries),
                                made: SUBSET RowShape, target: Nat]]
  BY DEF TypeOK
<1>8. /\ session'[s].step = NextStep(session[s].todo)
      /\ session'[s].todo = Tail(session[s].todo)
      /\ session'[s].made = Made(s) \cup {new}
      /\ \A q \in Sessions \ {s} : session'[q] = session[q]
  BY <1>5, <1>7
<1>9. session' \in [Sessions -> [step: Steps, todo: Seq(Entries),
                                 made: SUBSET RowShape, target: Nat]]
  <2>1. Made(s) \cup {new} \subseteq RowShape
    BY <1>4, <1>7 DEF Made
  <2>2. NextStep(session[s].todo) \in Steps
    BY <1>6 DEF Steps
  <2>3. now \in [step: Steps, todo: Seq(Entries), made: SUBSET RowShape, target: Nat]
    BY <1>1, <2>1, <2>2
  <2> HIDE DEF now
  <2> QED BY <1>5, <1>7, <2>3
<1>10. \A q \in Sessions : session'[q].step \in {"dedupe", "select", "wait"}
                          => session'[q].todo # <<>>
  BY <1>6, <1>8 DEF TypeOK, At
<1> QED BY <1>2, <1>4, <1>6, <1>8, <1>9, <1>10 DEF At, Made, new

\* What a session does before it inserts touches no row and no lock.
Moves(s) ==
    \/ \E job \in Jobs : Begin(s, job)
    \/ Skip(s) \/ NotADuplicate(s) \/ QueueForLatest(s)

SessionType ==
    /\ session \in [Sessions -> [step: Steps, todo: Seq(Entries),
                                 made: SUBSET RowShape, target: Nat]]
    /\ \A q \in Sessions : At(q, "dedupe") \/ At(q, "select") \/ At(q, "wait")
                           => session[q].todo # <<>>

\* The transaction of a session ends: the session holds nothing of its own.
LEMMA EndEffect ==
    ASSUME TypeOK, NEW s \in Sessions, EndTransaction(s)
    PROVE  /\ session'[s] = Idle /\ Made(s)' = {}
           /\ \A q \in Sessions \ {s} : session'[q] = session[q] /\ Made(q)' = Made(q)
           /\ lockedBy' \subseteq lockedBy
           /\ \A l \in lockedBy' : l[2] # s
           /\ SessionType'
<1>1. /\ session'[s] = Idle
      /\ \A q \in Sessions \ {s} : session'[q] = session[q]
  BY DEF EndTransaction, TypeOK
<1>2. Idle \in [step: Steps, todo: Seq(Entries), made: SUBSET RowShape, target: Nat]
  BY DEF Idle, Steps
<1>3. SessionType'
  <2>1. session' \in [Sessions -> [step: Steps, todo: Seq(Entries),
                                   made: SUBSET RowShape, target: Nat]]
    BY <1>2 DEF EndTransaction, TypeOK
  <2>2. \A q \in Sessions : session'[q].step \in {"dedupe", "select", "wait"}
                           => session'[q].todo # <<>>
    <3>1. session'[s].step = "idle"
      BY <1>1 DEF Idle
    <3>2. \A q \in Sessions : session[q].step \in {"dedupe", "select", "wait"}
                             => session[q].todo # <<>>
      BY DEF TypeOK, At
    <3> QED BY <1>1, <3>1, <3>2
  <2> QED BY <2>1, <2>2 DEF SessionType, At
<1> QED BY <1>1, <1>3 DEF EndTransaction, Made, Idle

\* A step that inserts nothing keeps the rows, and every session its own.
LEMMA MoveEffect ==
    ASSUME TypeOK, IsFiniteSet(AllRows), NEW s \in Sessions, Moves(s)
    PROVE  /\ rows' = rows /\ lockedBy' = lockedBy
           /\ \A q \in Sessions : Made(q)' = Made(q)
           /\ \A q \in Sessions \ {s} : session'[q] = session[q]
           /\ SessionType'
<1> DEFINE Shape == [step: Steps, todo: Seq(Entries), made: SUBSET RowShape, target: Nat]
<1>1. session \in [Sessions -> Shape]
  BY DEF TypeOK
<1>2. /\ rows' = rows /\ lockedBy' = lockedBy
      /\ session' \in [Sessions -> Shape]
      /\ \A q \in Sessions \ {s} : session'[q] = session[q]
      /\ session'[s].made = session[s].made
      /\ session'[s].step \in {"dedupe", "select", "wait"} => session'[s].todo # <<>>
  <2>1. CASE \E job \in Jobs : Begin(s, job)
    <3>1. PICK job \in Jobs : Begin(s, job)
      BY <2>1
    <3>2. job \in Seq(Entries) /\ job # <<>>
      BY JobsAssumption
    <3> QED BY <1>1, <3>1, <3>2 DEF Begin, Steps
  <2>2. CASE Skip(s)
    <3>1. session[s].todo # <<>>
      BY <2>2 DEF Skip, TypeOK
    <3>2. Tail(session[s].todo) \in Seq(Entries)
      BY <3>1, PostType
    <3> DEFINE step == NextStep(session[s].todo)
    <3>3. step \in Steps /\ (step = "dedupe" => Tail(session[s].todo) # <<>>)
          /\ step \notin {"select", "wait"}
      BY DEF NextStep, Steps
    <3>4. /\ session' = [session EXCEPT ![s].step = step, ![s].todo = Tail(@)]
          /\ rows' = rows /\ lockedBy' = lockedBy
      BY <2>2 DEF Skip
    <3> HIDE DEF step
    <3>5. session' \in [Sessions -> Shape]
      BY <1>1, <3>2, <3>3, <3>4
    <3>6. /\ session'[s].step = step /\ session'[s].todo = Tail(session[s].todo)
          /\ session'[s].made = session[s].made
          /\ \A q \in Sessions \ {s} : session'[q] = session[q]
      BY <1>1, <3>4
    <3> QED BY <3>3, <3>4, <3>5, <3>6
  <2>3. CASE NotADuplicate(s)
    BY <1>1, <2>3 DEF NotADuplicate, Steps, TypeOK, At
  <2>4. CASE QueueForLatest(s)
    <3> DEFINE seen == Visible(s, Post(s).customer)
    <3>1. seen \subseteq AllRows /\ seen # {}
      BY <2>4 DEF QueueForLatest, Visible, AllRows
    <3>2. IsFiniteSet(seen) /\ seen \subseteq RowShape
      BY <3>1, FS_Subset, AllRowsType
    <3>3. Latest(seen).at \in Nat
      BY <3>1, <3>2, LatestIsThere DEF RowShape
    <3>4. session' = [session EXCEPT ![s].step = "wait", ![s].target = Latest(seen).at]
      BY <2>4 DEF QueueForLatest
    <3>5. session[s].todo # <<>>
      BY <2>4 DEF QueueForLatest, TypeOK
    <3>6. rows' = rows /\ lockedBy' = lockedBy
      BY <2>4 DEF QueueForLatest
    <3> DEFINE at == Latest(seen).at
    <3>7. /\ session' = [session EXCEPT ![s].step = "wait", ![s].target = at]
          /\ at \in Nat
      BY <3>3, <3>4
    <3> HIDE DEF at
    <3>8. session' \in [Sessions -> Shape]
      BY <1>1, <3>7 DEF Steps
    <3>9. /\ session'[s].made = session[s].made /\ session'[s].todo = session[s].todo
          /\ \A q \in Sessions \ {s} : session'[q] = session[q]
      BY <1>1, <3>7
    <3> QED BY <3>5, <3>6, <3>8, <3>9
  <2> QED BY <2>1, <2>2, <2>3, <2>4 DEF Moves
<1>3. \A q \in Sessions : session'[q].step \in {"dedupe", "select", "wait"}
                         => session'[q].todo # <<>>
  BY <1>2 DEF TypeOK, At
<1> QED BY <1>2, <1>3 DEF Made, SessionType, At

\* The steps that insert: the row they add to is one the session sees, or none.
Inserts(s) == SelectNothing(s) \/ SelectLatest(s) \/ Granted(s)
Ends(s) == Commit(s) \/ UniqueViolation(s) \/ Abort(s)

\* An insert adds zero, or the balance of a row that its session saw or waited
\* for; it locks at most the row it added to.
LEMMA InsertBase ==
    ASSUME TypeOK, IsFiniteSet(AllRows), NEW s \in Sessions, Inserts(s)
    PROVE  /\ rows' = rows /\ session[s].todo # <<>>
           /\ At(s, "select") \/ At(s, "wait")
           /\ \/ lockedBy' = lockedBy /\ Insert(s, 0)
              \/ \E r \in rows \cup Made(s) :
                    /\ Insert(s, r.running) /\ r.running \in Int
                    /\ lockedBy' = lockedBy \cup {<<r.at, s>>} /\ r.at \in Nat
                    /\ \/ At(s, "select") /\ r.entry.customer = Post(s).customer
                       \/ At(s, "wait") /\ r.at = session[s].target /\ r \in rows
<1>1. CASE SelectNothing(s)
  BY <1>1 DEF SelectNothing, TypeOK
<1>2. CASE SelectLatest(s)
  <2> DEFINE seen == Visible(s, Post(s).customer)
  <2>1. seen \subseteq AllRows /\ seen # {}
    BY <1>2 DEF SelectLatest, Visible, AllRows
  <2>2. IsFiniteSet(seen) /\ seen \subseteq RowShape
    BY <2>1, FS_Subset, AllRowsType
  <2>3. Latest(seen) \in seen /\ Latest(seen).running \in Int /\ Latest(seen).at \in Nat
    BY <2>1, <2>2, LatestIsThere DEF RowShape
  <2>4. /\ Latest(seen) \in rows \cup Made(s)
        /\ Latest(seen).entry.customer = Post(s).customer
    BY <2>3 DEF Visible
  <2>5. /\ rows' = rows /\ At(s, "select") /\ Insert(s, Latest(seen).running)
        /\ lockedBy' = lockedBy \cup {<<Latest(seen).at, s>>}
    BY <1>2 DEF SelectLatest
  <2>6. session[s].todo # <<>>
    BY <2>5 DEF TypeOK
  <2> HIDE DEF seen
  <2> QED BY <2>3, <2>4, <2>5, <2>6
<1>3. CASE Granted(s)
  <2>1. PICK r \in rows : r.at = session[s].target /\ Insert(s, r.running)
    BY <1>3 DEF Granted
  <2>2. r.running \in Int /\ r.at \in Nat
    BY DEF TypeOK, RowShape
  <2>3. /\ rows' = rows /\ At(s, "wait")
        /\ lockedBy' = lockedBy \cup {<<r.at, s>>}
    BY <1>3, <2>1 DEF Granted
  <2>4. session[s].todo # <<>>
    BY <2>3 DEF TypeOK
  <2> QED BY <2>1, <2>2, <2>3, <2>4
<1> QED BY <1>1, <1>2, <1>3 DEF Inserts

\* Every step moves, inserts or ends a transaction.
LEMMA StepKinds ==
    ASSUME Next
    PROVE  \E s \in Sessions : Moves(s) \/ Inserts(s) \/ Ends(s)
BY DEF Next, Advance, Moves, Inserts, Ends

\* A transaction ends with its rows on record, or without a trace.
LEMMA EndRows ==
    ASSUME TypeOK, NEW s \in Sessions, Ends(s)
    PROVE  EndTransaction(s) /\ \/ rows' = rows
                                \/ rows' = rows \cup Made(s) /\ ~Conflict(s)
BY DEF Ends, Commit, UniqueViolation, Abort

\* What there is of rows after a step.
LEMMA AllRowsEffect ==
    ASSUME TypeOK, NEW s \in Sessions, rows' = rows, NEW new,
           Made(s)' = Made(s) \cup {new}, \A q \in Sessions \ {s} : Made(q)' = Made(q)
    PROVE  AllRows' = AllRows \cup {new}
BY DEF AllRows

\* There are finitely many rows, in a ledger of any length.
FiniteLedger == TypeOK /\ IsFiniteSet(AllRows)

LEMMA InitFinite ==
    ASSUME Init
    PROVE  FiniteLedger
<1>1. \A s \in Sessions : session[s] = Idle /\ Made(s) = {}
  BY DEF Init, Made, Idle
<1>2. AllRows = Opening
  BY <1>1 DEF Init, AllRows
<1>3. Idle \in [step: Steps, todo: Seq(Entries), made: SUBSET RowShape, target: Nat]
  BY DEF Idle, Steps
<1>4. TypeOK
  BY <1>1, <1>3, JobsAssumption DEF Init, TypeOK, At, Idle
<1> QED BY <1>2, <1>4, JobsAssumption DEF FiniteLedger

LEMMA StepFinite ==
    ASSUME FiniteLedger, [Next]_vars
    PROVE  FiniteLedger'
<1> USE DEF FiniteLedger
<1>1. CASE UNCHANGED vars
  BY <1>1 DEF vars, TypeOK, AllRows, Made, At
<1>2. CASE Next
  <2>1. PICK s \in Sessions : Moves(s) \/ Inserts(s) \/ Ends(s)
    BY <1>2, StepKinds
  <2>2. CASE Moves(s)
    <3>1. /\ rows' = rows /\ lockedBy' = lockedBy /\ SessionType'
          /\ \A q \in Sessions : Made(q)' = Made(q)
      BY <2>2, MoveEffect
    <3>2. AllRows' = AllRows
      BY <3>1 DEF AllRows
    <3> QED BY <3>1, <3>2 DEF TypeOK, SessionType
  <2>3. CASE Inserts(s)
    <3>1. PICK base \in Int : Insert(s, base)
      BY <2>3, InsertBase
    <3>2. rows' = rows /\ session[s].todo # <<>>
      BY <2>3, InsertBase
    <3>3. /\ Made(s)' = Made(s) \cup {NewRow(s, base)}
          /\ \A q \in Sessions \ {s} : session'[q] = session[q]
          /\ SessionType'
      BY <3>1, <3>2, InsertEffect DEF SessionType
    <3>4. \A q \in Sessions \ {s} : Made(q)' = Made(q)
      BY <3>3 DEF Made
    <3>5. AllRows' = AllRows \cup {NewRow(s, base)}
      BY <3>2, <3>3, <3>4, AllRowsEffect
    <3>6. IsFiniteSet(AllRows')
      BY <3>5, FS_AddElement
    <3>7. lockedBy' \subseteq Nat \X Sessions
      <4>1. lockedBy \subseteq Nat \X Sessions
        BY DEF TypeOK
      <4>2. lockedBy' = lockedBy \/ \E at \in Nat : lockedBy' = lockedBy \cup {<<at, s>>}
        BY <2>3, InsertBase
      <4> QED BY <4>1, <4>2
    <3> QED BY <3>2, <3>3, <3>6, <3>7 DEF TypeOK, SessionType
  <2>4. CASE Ends(s)
    <3>1. EndTransaction(s) /\ (rows' = rows \/ rows' = rows \cup Made(s))
      BY <2>4, EndRows
    <3>2. /\ Made(s)' = {} /\ SessionType' /\ lockedBy' \subseteq lockedBy
          /\ \A q \in Sessions \ {s} : Made(q)' = Made(q)
      BY <3>1, EndEffect
    <3>3. AllRows' \subseteq AllRows
      BY <3>1, <3>2 DEF AllRows
    <3>4. rows' \subseteq RowShape
      BY <3>1, AllRowsType DEF AllRows
    <3>5. IsFiniteSet(AllRows')
      BY <3>3, FS_Subset
    <3> QED BY <3>2, <3>4, <3>5 DEF TypeOK, SessionType
  <2> QED BY <2>1, <2>2, <2>3, <2>4
<1> QED BY <1>1, <1>2

\* Every reachable state has its type.
THEOREM TypeCorrect == Spec => []TypeOK
<1>1. Init => FiniteLedger
  BY InitFinite
<1>2. FiniteLedger /\ [Next]_vars => FiniteLedger'
  BY StepFinite
<1>3. FiniteLedger => TypeOK
  BY DEF FiniteLedger
<1> QED BY <1>1, <1>2, <1>3, PTL DEF Spec

-----------------------------------------------------------------------------
(* One row per event *)

SameEvent(r, q) == r.ref # NoRef /\ r.ref = q.ref /\ r.customer = q.customer

\* A transaction made no event twice, and posts none that it made.
OwnEventsDiffer ==
    \A s \in Sessions :
        /\ \A r, q \in Made(s) : SameEvent(r.entry, q.entry) => r = q
        /\ At(s, "select") \/ At(s, "wait") =>
              \A r \in Made(s) : ~SameEvent(r.entry, Post(s))

EventsInv == FiniteLedger /\ OwnEventsDiffer /\ OneRowPerEvent

\* What a session looks up before it goes on to select.
LEMMA LookedUp ==
    ASSUME TypeOK, NEW s \in Sessions, NotADuplicate(s)
    PROVE  /\ \A r \in Made(s) : ~SameEvent(r.entry, Post(s))
           /\ Post(s)' = Post(s)
<1>1. Post(s)' = Post(s)
  BY DEF NotADuplicate, Post, TypeOK
<1>2. \A r \in Made(s) : ~SameEvent(r.entry, Post(s))
  BY DEF NotADuplicate, Duplicate, Visible, SameEvent
<1> QED BY <1>1, <1>2

LEMMA StepEvents ==
    ASSUME EventsInv, [Next]_vars
    PROVE  OwnEventsDiffer' /\ OneRowPerEvent'
<1> USE DEF EventsInv, FiniteLedger
<1>1. CASE UNCHANGED vars
  BY <1>1 DEF vars, OwnEventsDiffer, OneRowPerEvent, Made, At, Post
<1>2. CASE Next
  <2>1. PICK s \in Sessions : Moves(s) \/ Inserts(s) \/ Ends(s)
    BY <1>2, StepKinds
  <2>2. ASSUME \A q \in Sessions \ {s} : session'[q] = session[q]
        PROVE  /\ \A q \in Sessions \ {s} :
                     Made(q)' = Made(q) /\ Post(q)' = Post(q)
               /\ \A q \in Sessions \ {s} :
                     (At(q, "select") \/ At(q, "wait"))' <=> At(q, "select") \/ At(q, "wait")
    BY <2>2 DEF Made, Post, At
  <2>3. CASE Moves(s)
    <3>1. /\ rows' = rows /\ \A q \in Sessions : Made(q)' = Made(q)
          /\ \A q \in Sessions \ {s} : session'[q] = session[q]
      BY <2>3, MoveEffect
    <3>2. (At(s, "select") \/ At(s, "wait"))' =>
             \A r \in Made(s) : ~SameEvent(r.entry, Post(s)')
      <4>1. CASE \E job \in Jobs : Begin(s, job)
        BY <4>1 DEF Begin, TypeOK, At
      <4>2. CASE Skip(s)
        <5>1. session'[s].step \in {"commit", "dedupe"}
          BY <4>2 DEF Skip, NextStep, TypeOK
        <5> QED BY <5>1 DEF At
      <4>3. CASE NotADuplicate(s)
        BY <4>3, LookedUp
      <4>4. CASE QueueForLatest(s)
        <5>1. Post(s)' = Post(s)
          BY <4>4 DEF QueueForLatest, Post, TypeOK
        <5>2. At(s, "select")
          BY <4>4 DEF QueueForLatest
        <5> QED BY <5>1, <5>2 DEF OwnEventsDiffer
      <4> QED BY <2>3, <4>1, <4>2, <4>3, <4>4 DEF Moves
    <3>3. OwnEventsDiffer'
      BY <2>2, <3>1, <3>2 DEF OwnEventsDiffer
    <3>4. OneRowPerEvent'
      BY <3>1 DEF OneRowPerEvent
    <3> QED BY <3>3, <3>4
  <2>4. CASE Inserts(s)
    <3>1. /\ rows' = rows /\ session[s].todo # <<>>
          /\ At(s, "select") \/ At(s, "wait")
          /\ \E base \in Int : Insert(s, base)
      BY <2>4, InsertBase
    <3>2. PICK base \in Int : Insert(s, base)
      BY <3>1
    <3> DEFINE new == NewRow(s, base)
    <3>3. /\ new.entry = Post(s) /\ Made(s)' = Made(s) \cup {new}
          /\ \A q \in Sessions \ {s} : session'[q] = session[q]
          /\ session'[s].step \in {"commit", "dedupe"}
      BY <3>1, <3>2, InsertEffect
    <3> HIDE DEF new
    <3>4. \A r \in Made(s) : ~SameEvent(r.entry, Post(s)) /\ ~SameEvent(Post(s), r.entry)
      BY <3>1 DEF OwnEventsDiffer, SameEvent
    <3>5. \A r, q \in Made(s)' : SameEvent(r.entry, q.entry) => r = q
      BY <3>3, <3>4 DEF OwnEventsDiffer
    <3>6. ~(At(s, "select") \/ At(s, "wait"))'
      BY <3>3 DEF At
    <3>7. OwnEventsDiffer'
      BY <2>2, <3>3, <3>5, <3>6 DEF OwnEventsDiffer
    <3>8. OneRowPerEvent'
      BY <3>1 DEF OneRowPerEvent
    <3> QED BY <3>7, <3>8
  <2>5. CASE Ends(s)
    <3>1. EndTransaction(s) /\ (rows' = rows \/ (rows' = rows \cup Made(s) /\ ~Conflict(s)))
      BY <2>5, EndRows
    <3>2. /\ session'[s] = Idle /\ Made(s)' = {}
          /\ \A q \in Sessions \ {s} : session'[q] = session[q]
      BY <3>1, EndEffect
    <3>3. ~(At(s, "select") \/ At(s, "wait"))'
      BY <3>2 DEF At, Idle
    <3>4. OwnEventsDiffer'
      BY <2>2, <3>2, <3>3 DEF OwnEventsDiffer
    <3>5. OneRowPerEvent'
      <4>1. CASE rows' = rows
        BY <4>1 DEF OneRowPerEvent
      <4>2. CASE rows' = rows \cup Made(s) /\ ~Conflict(s)
        <5>1. \A r, q \in rows : SameEvent(r.entry, q.entry) => r = q
          BY DEF OneRowPerEvent, SameEvent
        <5>2. \A r, q \in Made(s) : SameEvent(r.entry, q.entry) => r = q
          BY DEF OwnEventsDiffer
        <5>3. \A r \in rows, q \in Made(s) : /\ ~SameEvent(r.entry, q.entry)
                                             /\ ~SameEvent(q.entry, r.entry)
          BY <4>2 DEF Conflict, SameEvent
        <5>4. \A r, q \in rows' : SameEvent(r.entry, q.entry) => r = q
          BY <4>2, <5>1, <5>2, <5>3
        <5> QED BY <5>4 DEF OneRowPerEvent, SameEvent
      <4> QED BY <3>1, <4>1, <4>2
    <3> QED BY <3>4, <3>5
  <2> QED BY <2>1, <2>3, <2>4, <2>5
<1> QED BY <1>1, <1>2

\* A financial event leaves one row, however many transactions post it, whenever
\* each of them looks it up and however they overlap.
THEOREM EventsAreRecordedOnce == Spec => []OneRowPerEvent
<1>1. Init => EventsInv
  <2> SUFFICES ASSUME Init PROVE EventsInv
    OBVIOUS
  <2>1. \A s \in Sessions : session[s] = Idle /\ Made(s) = {}
    BY DEF Init, Made, Idle
  <2>2. OwnEventsDiffer
    BY <2>1 DEF OwnEventsDiffer, At, Idle
  <2>3. OneRowPerEvent
    BY JobsAssumption DEF Init, OneRowPerEvent
  <2> QED BY <2>2, <2>3, InitFinite DEF EventsInv
<1>2. EventsInv /\ [Next]_vars => EventsInv'
  <2>1. EventsInv /\ [Next]_vars => FiniteLedger'
    BY StepFinite DEF EventsInv
  <2> QED BY <2>1, StepEvents DEF EventsInv
<1>3. EventsInv => OneRowPerEvent
  BY DEF EventsInv
<1> QED BY <1>1, <1>2, <1>3, PTL DEF Spec

-----------------------------------------------------------------------------
(* Balances come from committed rows *)

\* No two rows have a stamp in common, so a lock is a lock on one row.
StampsDiffer == \A r, q \in AllRows : r.at = q.at => r = q

\* What a transaction has made is its own.
OwnRows == \A s, q \in Sessions : s # q => Made(s) \cap Made(q) = {}

\* A session locks rows it can see.
LocksAreOnRows == \A l \in lockedBy : \E r \in rows \cup Made(l[2]) : r.at = l[1]

\* A session waits for a committed row of the customer it posts to: nobody else
\* can hold one that is not committed.
WaitsForCommitted ==
    \A s \in Sessions : At(s, "wait") =>
        \E r \in rows : /\ r.at = session[s].target
                        /\ r.entry.customer = Post(s).customer

\* The rows of an open transaction add to a row that is committed, or to an
\* earlier one of the same transaction.
AllBuilt ==
    /\ \A r \in rows : BuiltOn(r, rows)
    /\ \A s \in Sessions : \A r \in Made(s) : BuiltOn(r, rows \cup Made(s))

BalanceInv == /\ FiniteLedger
              /\ StampsDiffer /\ OwnRows /\ LocksAreOnRows /\ WaitsForCommitted
              /\ AllBuilt

LEMMA BuiltOnMore ==
    ASSUME NEW r, NEW S, NEW T, BuiltOn(r, S), S \subseteq T
    PROVE  BuiltOn(r, T)
BY DEF BuiltOn

\* The row a session finds locked by another is a committed one.
LEMMA HeldRowIsCommitted ==
    ASSUME BalanceInv, NEW s \in Sessions, QueueForLatest(s)
    PROVE  \E r \in rows : /\ r.at = session'[s].target
                           /\ r.entry.customer = Post(s).customer
<1> DEFINE seen == Visible(s, Post(s).customer)
           found == Latest(seen)
<1>1. seen \subseteq AllRows /\ seen # {}
  BY DEF QueueForLatest, Visible, AllRows
<1>2. IsFiniteSet(seen) /\ seen \subseteq RowShape
  BY <1>1, FS_Subset, AllRowsType DEF BalanceInv, FiniteLedger
<1>3. found \in seen
  BY <1>1, <1>2, LatestIsThere
<1>4. PICK q \in Sessions : q # s /\ <<found.at, q>> \in lockedBy
  BY DEF QueueForLatest, Holders
<1>5. session'[s].target = found.at
  BY DEF QueueForLatest, BalanceInv, FiniteLedger, TypeOK
<1> HIDE DEF found
<1>6. PICK r \in rows \cup Made(q) : r.at = found.at
  BY <1>4 DEF LocksAreOnRows, BalanceInv
<1>7. /\ found \in rows \cup Made(s) /\ found \in AllRows
      /\ found.entry.customer = Post(s).customer
  BY <1>1, <1>3 DEF Visible
<1>8. r = found
  BY <1>4, <1>6, <1>7 DEF StampsDiffer, AllRows, BalanceInv
<1>9. found \in rows
  BY <1>4, <1>6, <1>7, <1>8 DEF OwnRows, BalanceInv
<1> QED BY <1>5, <1>7, <1>9

\* A step of another session leaves what a waiting session waits for.
LEMMA OthersWaitOn ==
    ASSUME WaitsForCommitted, NEW s \in Sessions, rows \subseteq rows',
           \A q \in Sessions \ {s} : session'[q] = session[q]
    PROVE  \A q \in Sessions \ {s} : At(q, "wait")' =>
              \E r \in rows' : /\ r.at = session'[q].target
                               /\ r.entry.customer = Post(q)'.customer
BY DEF WaitsForCommitted, At, Post

LEMMA MoveBalance ==
    ASSUME BalanceInv, NEW s \in Sessions, Moves(s)
    PROVE  (StampsDiffer /\ OwnRows /\ LocksAreOnRows /\ WaitsForCommitted /\ AllBuilt)'
<1> USE DEF BalanceInv, FiniteLedger
<1>1. /\ rows' = rows /\ lockedBy' = lockedBy
      /\ \A q \in Sessions : Made(q)' = Made(q)
      /\ \A q \in Sessions \ {s} : session'[q] = session[q]
  BY MoveEffect
<1>2. AllRows' = AllRows
  BY <1>1 DEF AllRows
<1>3. StampsDiffer' /\ OwnRows' /\ AllBuilt'
  BY <1>1, <1>2 DEF StampsDiffer, OwnRows, AllBuilt
<1>4. LocksAreOnRows'
  <2>1. \A l \in lockedBy : l[2] \in Sessions
    BY DEF TypeOK
  <2> QED BY <1>1, <2>1 DEF LocksAreOnRows
<1>5. At(s, "wait")' => \E r \in rows : /\ r.at = session'[s].target
                                        /\ r.entry.customer = Post(s)'.customer
  <2>1. CASE QueueForLatest(s)
    <3>1. Post(s)' = Post(s)
      BY <2>1 DEF QueueForLatest, Post, TypeOK
    <3> QED BY <2>1, <3>1, HeldRowIsCommitted
  <2>2. CASE ~QueueForLatest(s)
    <3>1. session'[s].step \in {"dedupe", "commit", "select"}
      BY <2>2 DEF Moves, Begin, Skip, NotADuplicate, NextStep, TypeOK
    <3> QED BY <3>1 DEF At
  <2> QED BY <2>1, <2>2
<1>6. WaitsForCommitted'
  <2>1. \A q \in Sessions \ {s} : At(q, "wait")' =>
          \E r \in rows' : /\ r.at = session'[q].target
                           /\ r.entry.customer = Post(q)'.customer
    BY <1>1, OthersWaitOn
  <2> QED BY <1>1, <1>5, <2>1 DEF WaitsForCommitted
<1> QED BY <1>3, <1>4, <1>6

\* What an insert adds to is a row in sight of the transaction, of its customer.
LEMMA BaseInSight ==
    ASSUME BalanceInv, NEW s \in Sessions, Inserts(s)
    PROVE  \/ lockedBy' = lockedBy /\ Insert(s, 0)
           \/ \E r \in rows \cup Made(s) :
                 /\ Insert(s, r.running) /\ r.running \in Int
                 /\ lockedBy' = lockedBy \cup {<<r.at, s>>}
                 /\ r.entry.customer = Post(s).customer
<1>1. CASE lockedBy' = lockedBy /\ Insert(s, 0)
  BY <1>1
<1>2. CASE \E r \in rows \cup Made(s) :
              /\ Insert(s, r.running) /\ r.running \in Int
              /\ lockedBy' = lockedBy \cup {<<r.at, s>>} /\ r.at \in Nat
              /\ \/ At(s, "select") /\ r.entry.customer = Post(s).customer
                 \/ At(s, "wait") /\ r.at = session[s].target /\ r \in rows
  <2>1. PICK r \in rows \cup Made(s) :
              /\ Insert(s, r.running) /\ r.running \in Int
              /\ lockedBy' = lockedBy \cup {<<r.at, s>>}
              /\ \/ At(s, "select") /\ r.entry.customer = Post(s).customer
                 \/ At(s, "wait") /\ r.at = session[s].target /\ r \in rows
    BY <1>2
  <2>2. CASE At(s, "wait") /\ r.at = session[s].target /\ r \in rows
    <3>1. PICK t \in rows : /\ t.at = session[s].target
                            /\ t.entry.customer = Post(s).customer
      BY <2>2 DEF BalanceInv, WaitsForCommitted
    <3>2. t = r
      BY <2>2, <3>1 DEF BalanceInv, StampsDiffer, AllRows
    <3> QED BY <2>1, <3>1, <3>2
  <2> QED BY <2>1, <2>2
<1> QED BY <1>1, <1>2, InsertBase DEF BalanceInv, FiniteLedger

LEMMA InsertBalance ==
    ASSUME BalanceInv, NEW s \in Sessions, Inserts(s)
    PROVE  (StampsDiffer /\ OwnRows /\ LocksAreOnRows /\ WaitsForCommitted /\ AllBuilt)'
<1> USE DEF BalanceInv, FiniteLedger
<1>1. rows' = rows /\ session[s].todo # <<>>
  BY InsertBase
<1>2. PICK base \in Int :
        /\ Insert(s, base)
        /\ \/ lockedBy' = lockedBy /\ base = 0
           \/ \E r \in rows \cup Made(s) :
                 /\ base = r.running
                 /\ lockedBy' = lockedBy \cup {<<r.at, s>>}
                 /\ r.entry.customer = Post(s).customer
  BY BaseInSight
<1> DEFINE new == NewRow(s, base)
<1>3. /\ new \in RowShape /\ new.entry = Post(s)
      /\ new.running - new.entry.delta = base
      /\ \A r \in AllRows : r.at < new.at
      /\ Made(s)' = Made(s) \cup {new}
      /\ \A q \in Sessions \ {s} : session'[q] = session[q]
      /\ session'[s].step \in {"commit", "dedupe"}
  BY <1>1, <1>2, InsertEffect
<1> HIDE DEF new
<1>4. \A q \in Sessions \ {s} : Made(q)' = Made(q)
  BY <1>3 DEF Made
<1>5. AllRows' = AllRows \cup {new}
  BY <1>1, <1>3, <1>4, AllRowsEffect
<1>6. new.at \in Nat /\ \A r \in AllRows : r.at \in Nat
  BY <1>3, AllRowsType DEF RowShape
<1>7. \A r \in AllRows : r.at # new.at
  BY <1>3, <1>6
<1>8. StampsDiffer'
  BY <1>5, <1>7 DEF StampsDiffer
<1>9. OwnRows'
  <2>1. \A q \in Sessions : new \notin Made(q)
    BY <1>7, AllRowsType
  <2> QED BY <1>3, <1>4, <2>1 DEF OwnRows
<1>10. LocksAreOnRows'
  <2>1. \A l \in lockedBy : l[2] \in Sessions /\ Made(l[2]) \subseteq Made(l[2])'
    BY <1>3, <1>4 DEF TypeOK
  <2>2. \A l \in lockedBy : \E r \in rows' \cup Made(l[2])' : r.at = l[1]
    BY <1>1, <2>1 DEF LocksAreOnRows
  <2>3. ASSUME NEW r \in rows \cup Made(s), lockedBy' = lockedBy \cup {<<r.at, s>>}
        PROVE  LocksAreOnRows'
    <3>1. r \in rows' \cup Made(s)'
      BY <1>1, <1>3
    <3> QED BY <2>2, <2>3, <3>1 DEF LocksAreOnRows
  <2>4. ASSUME lockedBy' = lockedBy PROVE LocksAreOnRows'
    BY <2>2, <2>4 DEF LocksAreOnRows
  <2> QED BY <1>2, <2>3, <2>4
<1>11. WaitsForCommitted'
  <2>1. ~At(s, "wait")'
    BY <1>3 DEF At
  <2>2. \A q \in Sessions \ {s} : At(q, "wait")' =>
          \E r \in rows' : /\ r.at = session'[q].target
                           /\ r.entry.customer = Post(q)'.customer
    BY <1>1, <1>3, OthersWaitOn
  <2> QED BY <2>1, <2>2 DEF WaitsForCommitted
<1>12. BuiltOn(new, rows \cup Made(s)')
  <2>1. CASE base = 0
    BY <1>3, <2>1 DEF BuiltOn
  <2>2. ASSUME NEW r \in rows \cup Made(s), base = r.running,
               r.entry.customer = Post(s).customer
        PROVE  BuiltOn(new, rows \cup Made(s)')
    <3>1. r \in AllRows
      BY DEF AllRows
    <3>2. r.at < new.at /\ r \in rows \cup Made(s)'
      BY <1>3, <3>1
    <3> QED BY <1>3, <2>2, <3>2 DEF BuiltOn
  <2> QED BY <1>2, <2>1, <2>2
<1>13. AllBuilt'
  <2>1. \A r \in Made(s) : BuiltOn(r, rows \cup Made(s)')
    <3>1. rows \cup Made(s) \subseteq rows \cup Made(s)'
      BY <1>3
    <3>2. \A r \in Made(s) : BuiltOn(r, rows \cup Made(s))
      BY DEF AllBuilt
    <3> QED BY <3>1, <3>2, BuiltOnMore
  <2>2. \A r \in Made(s)' : BuiltOn(r, rows' \cup Made(s)')
    BY <1>1, <1>3, <1>12, <2>1
  <2>3. \A q \in Sessions \ {s} : \A r \in Made(q)' : BuiltOn(r, rows' \cup Made(q)')
    BY <1>1, <1>4 DEF AllBuilt
  <2> QED BY <1>1, <2>2, <2>3 DEF AllBuilt
<1> QED BY <1>8, <1>9, <1>10, <1>11, <1>13

LEMMA EndBalance ==
    ASSUME BalanceInv, NEW s \in Sessions, Ends(s)
    PROVE  (StampsDiffer /\ OwnRows /\ LocksAreOnRows /\ WaitsForCommitted /\ AllBuilt)'
<1> USE DEF BalanceInv, FiniteLedger
<1>1. EndTransaction(s) /\ (rows' = rows \/ rows' = rows \cup Made(s))
  BY EndRows
<1>2. /\ session'[s] = Idle /\ Made(s)' = {}
      /\ \A q \in Sessions \ {s} : session'[q] = session[q] /\ Made(q)' = Made(q)
      /\ lockedBy' \subseteq lockedBy
      /\ \A l \in lockedBy' : l[2] # s
  BY <1>1, EndEffect
<1>3. AllRows' \subseteq AllRows /\ rows \subseteq rows'
  BY <1>1, <1>2 DEF AllRows
<1>4. StampsDiffer' /\ OwnRows'
  BY <1>2, <1>3 DEF StampsDiffer, OwnRows
<1>5. LocksAreOnRows'
  <2>1. \A l \in lockedBy' : l \in lockedBy /\ Made(l[2])' = Made(l[2])
    BY <1>2 DEF TypeOK
  <2> QED BY <1>3, <2>1 DEF LocksAreOnRows
<1>6. WaitsForCommitted'
  <2>1. ~At(s, "wait")'
    BY <1>2 DEF At, Idle
  <2>2. \A q \in Sessions \ {s} : At(q, "wait")' =>
          \E r \in rows' : /\ r.at = session'[q].target
                           /\ r.entry.customer = Post(q)'.customer
    BY <1>2, <1>3, OthersWaitOn
  <2> QED BY <2>1, <2>2 DEF WaitsForCommitted
<1>7. \A r \in rows' : BuiltOn(r, rows')
  <2>1. \A r \in rows : BuiltOn(r, rows')
    BY <1>3, BuiltOnMore DEF AllBuilt
  <2>2. ASSUME rows' = rows \cup Made(s)
        PROVE  \A r \in Made(s) : BuiltOn(r, rows')
    <3>1. \A r \in Made(s) : BuiltOn(r, rows \cup Made(s))
      BY DEF AllBuilt
    <3> QED BY <2>2, <3>1
  <2> QED BY <1>1, <2>1, <2>2
<1>8. \A q \in Sessions : \A r \in Made(q)' : BuiltOn(r, rows' \cup Made(q)')
  <2>1. \A q \in Sessions \ {s} : \A r \in Made(q) : BuiltOn(r, rows' \cup Made(q))
    <3>1. \A q \in Sessions : rows \cup Made(q) \subseteq rows' \cup Made(q)
      BY <1>3
    <3> QED BY <3>1, BuiltOnMore DEF AllBuilt
  <2> QED BY <1>2, <2>1
<1> QED BY <1>4, <1>5, <1>6, <1>7, <1>8 DEF AllBuilt

\* No balance on record stems from a transaction that was rolled back, however
\* long a session waits for its row and whoever commits or aborts meanwhile.
THEOREM BalancesComeFromCommits == Spec => []BuiltOnACommittedRow
<1>1. Init => BalanceInv
  <2> SUFFICES ASSUME Init PROVE BalanceInv
    OBVIOUS
  <2>1. \A s \in Sessions : session[s] = Idle /\ Made(s) = {}
    BY DEF Init, Made, Idle
  <2>2. AllRows = Opening /\ rows = Opening /\ lockedBy = {}
    BY <2>1 DEF Init, AllRows
  <2>3. StampsDiffer
    BY <2>2, JobsAssumption DEF StampsDiffer
  <2>4. OwnRows /\ LocksAreOnRows
    BY <2>1, <2>2 DEF OwnRows, LocksAreOnRows
  <2>5. WaitsForCommitted
    BY <2>1 DEF WaitsForCommitted, At, Idle
  <2>6. AllBuilt
    BY <2>1, <2>2, JobsAssumption DEF AllBuilt
  <2> QED BY <2>3, <2>4, <2>5, <2>6, InitFinite DEF BalanceInv
<1>2. BalanceInv /\ [Next]_vars => BalanceInv'
  <2> SUFFICES ASSUME BalanceInv, [Next]_vars PROVE BalanceInv'
    OBVIOUS
  <2>1. FiniteLedger'
    BY StepFinite DEF BalanceInv
  <2>2. CASE UNCHANGED vars
    <3>1. \A s \in Sessions : Made(s)' = Made(s) /\ Post(s)' = Post(s)
      BY <2>2 DEF vars, Made, Post
    <3>2. rows' = rows /\ lockedBy' = lockedBy /\ session' = session
      BY <2>2 DEF vars
    <3>3. AllRows' = AllRows
      BY <3>1, <3>2 DEF AllRows
    <3>4. StampsDiffer' /\ OwnRows' /\ AllBuilt'
      BY <3>1, <3>2, <3>3 DEF BalanceInv, StampsDiffer, OwnRows, AllBuilt
    <3>5. WaitsForCommitted'
      BY <3>1, <3>2 DEF BalanceInv, WaitsForCommitted, At
    <3>6. LocksAreOnRows'
      BY <3>2 DEF BalanceInv, LocksAreOnRows, Made
    <3> QED BY <2>1, <3>4, <3>5, <3>6 DEF BalanceInv
  <2>3. CASE Next
    <3>1. PICK s \in Sessions : Moves(s) \/ Inserts(s) \/ Ends(s)
      BY <2>3, StepKinds
    <3> QED BY <2>1, <3>1, MoveBalance, InsertBalance, EndBalance DEF BalanceInv
  <2> QED BY <2>2, <2>3
<1>3. BalanceInv => BuiltOnACommittedRow
  BY DEF BalanceInv, AllBuilt, BuiltOnACommittedRow
<1> QED BY <1>1, <1>2, <1>3, PTL DEF Spec
=============================================================================
