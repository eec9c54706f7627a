---------------------------- MODULE CustomerLedger ----------------------------
(***************************************************************************)
(* LedgerService.post as its callers run it: inside a READ COMMITTED       *)
(* transaction of theirs that posts one entry or several to the append-    *)
(* only ledger of a customer.                                              *)
(*                                                                         *)
(* Entries are ordered by occurredAt, the clock of the API process that    *)
(* made them, which need not be the order in which they were committed.    *)
(* Here all processes read one clock, which shows no time twice: the skew  *)
(* between them, and entries of the same millisecond, which the code puts  *)
(* in the order of their ids, are left out.                                *)
(* What a transaction inserts is its own until it commits.                 *)
(***************************************************************************)
EXTENDS Integers, FiniteSets, FiniteSetsExt, Sequences

CONSTANTS Customers,
          Jobs,        \* what callers post: the entries of one transaction
          Opening,     \* the rows on record at first
          Sessions,    \* database sessions
          NoRef,
          MaxTime      \* bound: the clock, which goes up by one for each entry

Entries == UNION {{job[i] : i \in 1..Len(job)} : job \in Jobs}
               \cup {r.entry : r \in Opening}
RowShape == [at: Nat \ {0}, entry: Entries, running: Int]

\* What a row adds to is nothing, for the first entries of a customer, or the
\* running balance an earlier row of S shows for the customer.
BuiltOn(r, S) ==
    LET base == r.running - r.entry.delta
    IN  base = 0 \/ \E q \in S : /\ q.entry.customer = r.entry.customer
                                 /\ q.at < r.at
                                 /\ q.running = base

ASSUME JobsAssumption ==
    /\ \A job \in Jobs : job \in Seq(Entries) /\ job # <<>>
    /\ \A e \in Entries : e.customer \in Customers /\ e.delta \in Int
    /\ Opening \subseteq RowShape /\ IsFiniteSet(Opening)
    /\ \A r \in Opening : BuiltOn(r, Opening)
    /\ \A r, q \in Opening : r = q \/ /\ r.at # q.at
                                      /\ r.entry.ref = NoRef \/ r.entry.ref # q.entry.ref
    /\ MaxTime \in Nat

VARIABLES rows,     \* customer_ledger_entries: the committed rows
          lockedBy, \* the FOR UPDATE locks: [at, session] pairs
          session   \* the transaction each session has open

vars == <<rows, lockedBy, session>>

Steps == {"idle", "dedupe", "select", "wait", "commit"}
Idle == [step |-> "idle", todo |-> <<>>, made |-> {}, target |-> 0]

Row(e, at, base) == [at |-> at, entry |-> e, running |-> base + e.delta]

Made(s) == session[s].made

\* The last time given out; the next entry is made one later.
Clock == LET stamps == {r.at : r \in rows \cup UNION {Made(s) : s \in Sessions}}
         IN  IF stamps = {} THEN 0 ELSE CHOOSE n \in stamps : \A m \in stamps : m <= n

\* Mutant of Visible: the balance is read outside the database, dirty.
DirtyVisible(s, c) ==
    {r \in rows \cup UNION {Made(q) : q \in Sessions} : r.entry.customer = c}

\* What a statement of s sees of a customer: committed rows and its own.
Visible(s, c) == {r \in rows \cup Made(s) : r.entry.customer = c}
Latest(S) == CHOOSE r \in S : \A q \in S : q.at <= r.at

Holders(at) == {s \in Sessions : <<at, s>> \in lockedBy}

Init == rows = Opening /\ lockedBy = {} /\ session = [s \in Sessions |-> Idle]

-----------------------------------------------------------------------------

At(s, step) == session[s].step = step
Post(s) == Head(session[s].todo)

EndTransaction(s) ==
    /\ session' = [session EXCEPT ![s] = Idle]
    /\ lockedBy' = {l \in lockedBy : l[2] # s}

NextStep(todo) == IF Tail(todo) = <<>> THEN "commit" ELSE "dedupe"

\* The entry is inserted: base is the running balance that was read.
Insert(s, base) ==
    session' = [session EXCEPT ![s] =
        [step |-> NextStep(session[s].todo),
         todo |-> Tail(session[s].todo),
         made |-> Made(s) \cup {Row(Post(s), Clock + 1, base)},
         target |-> 0]]

\* The entries the open transactions have still to post.
ToPost == MapThenSumSet(LAMBDA s : Len(session[s].todo), Sessions)

Begin(s, job) ==
    /\ At(s, "idle")
    /\ Clock + ToPost + Len(job) <= MaxTime
    /\ session' = [session EXCEPT ![s].step = "dedupe", ![s].todo = job]
    /\ UNCHANGED <<rows, lockedBy>>

Duplicate(s) ==
    /\ Post(s).ref # NoRef
    /\ \E r \in Visible(s, Post(s).customer) : r.entry.ref = Post(s).ref

\* Mutant of Skip: it goes on to the next post without a look at whether one is left.
SkipBlindly(s) ==
    /\ At(s, "dedupe")
    /\ Duplicate(s)
    /\ session' = [session EXCEPT ![s].todo = Tail(@)]
    /\ UNCHANGED <<rows, lockedBy>>

\* The external reference is on record: the post is skipped, the caller goes on.
Skip(s) ==
    /\ At(s, "dedupe")
    /\ Duplicate(s)
    /\ session' = [session EXCEPT ![s].step = NextStep(session[s].todo),
                                  ![s].todo = Tail(@)]
    /\ UNCHANGED <<rows, lockedBy>>

NotADuplicate(s) ==
    /\ At(s, "dedupe")
    /\ ~Duplicate(s)
    /\ session' = [session EXCEPT ![s].step = "select"]
    /\ UNCHANGED <<rows, lockedBy>>

\* The customer's first entry: there is no row to lock.
SelectNothing(s) ==
    /\ At(s, "select")
    /\ Visible(s, Post(s).customer) = {}
    /\ Insert(s, 0)
    /\ UNCHANGED <<rows, lockedBy>>

\* ORDER BY occurredAt DESC LIMIT 1 FOR UPDATE, when nobody holds the row.
SelectLatest(s) ==
    LET seen == Visible(s, Post(s).customer) IN
    /\ At(s, "select")
    /\ seen # {}
    /\ Holders(Latest(seen).at) \subseteq {s}
    /\ lockedBy' = lockedBy \cup {<<Latest(seen).at, s>>}
    /\ Insert(s, Latest(seen).running)
    /\ UNCHANGED rows

\* Somebody holds it: the statement has chosen its row, and waits for it.
QueueForLatest(s) ==
    LET seen == Visible(s, Post(s).customer) IN
    /\ At(s, "select")
    /\ seen # {}
    /\ ~(Holders(Latest(seen).at) \subseteq {s})
    /\ session' = [session EXCEPT ![s].step = "wait", ![s].target = Latest(seen).at]
    /\ UNCHANGED <<rows, lockedBy>>

\* Mutant of Granted: only if no newer row was committed in the meantime.
GrantedIfStillLatest(s) ==
    LET at == session[s].target IN
    /\ At(s, "wait")
    /\ Holders(at) = {}
    /\ Latest(Visible(s, Post(s).customer)).at = at
    /\ lockedBy' = lockedBy \cup {<<at, s>>}
    /\ \E r \in rows : r.at = at /\ Insert(s, r.running)
    /\ UNCHANGED rows

\* The lock is granted.  Entries are never updated, so the row is returned as it
\* was chosen, however many newer ones were committed meanwhile.
Granted(s) ==
    LET at == session[s].target IN
    /\ At(s, "wait")
    /\ Holders(at) = {}
    /\ lockedBy' = lockedBy \cup {<<at, s>>}
    /\ \E r \in rows : r.at = at /\ Insert(s, r.running)
    /\ UNCHANGED rows

Conflict(s) ==
    \E mine \in Made(s), r \in rows :
        /\ mine.entry.ref # NoRef
        /\ mine.entry.ref = r.entry.ref
        /\ mine.entry.customer = r.entry.customer

\* Mutant of Commit: (customerId, externalRef) is not unique.
CommitUnchecked(s) ==
    /\ At(s, "commit")
    /\ rows' = rows \cup Made(s)
    /\ EndTransaction(s)

Commit(s) ==
    /\ At(s, "commit")
    /\ ~Conflict(s)
    /\ rows' = rows \cup Made(s)
    /\ EndTransaction(s)

\* A concurrent transaction recorded the reference first: everything the caller
\* did in its transaction is rolled back.
UniqueViolation(s) ==
    /\ At(s, "commit")
    /\ Conflict(s)
    /\ EndTransaction(s)
    /\ UNCHANGED rows

\* The caller fails later in its transaction, or its connection is lost.
Abort(s) ==
    /\ ~At(s, "idle")
    /\ EndTransaction(s)
    /\ UNCHANGED rows

Advance(s) ==
    \/ Skip(s) \/ NotADuplicate(s) \/ SelectNothing(s) \/ SelectLatest(s)
    \/ QueueForLatest(s) \/ Granted(s) \/ Commit(s) \/ UniqueViolation(s)

Next == \E s \in Sessions : \/ \E job \in Jobs : Begin(s, job)
                            \/ Advance(s)
                            \/ Abort(s)

\* A session that can go on does; PostgreSQL queues the waiters of a row lock.
Fairness == \A s \in Sessions : SF_vars(Advance(s))

Spec == Init /\ [][Next]_vars
FairSpec == Spec /\ Fairness

-----------------------------------------------------------------------------
(* Properties *)

\* Every variable keeps its shape; a session at work has an entry to post.
TypeOK ==
    /\ rows \subseteq RowShape
    /\ lockedBy \subseteq Nat \X Sessions
    /\ session \in [Sessions -> [step: Steps, todo: Seq(Entries),
                                 made: SUBSET RowShape, target: Nat]]
    /\ \A s \in Sessions :
          At(s, "dedupe") \/ At(s, "select") \/ At(s, "wait") => session[s].todo # <<>>

\* "Every financial event writes one - and only one - row": two callers that
\* both miss the reference when they look it up still leave a single row of it.
OneRowPerEvent ==
    \A r, q \in rows :
        /\ r.entry.ref # NoRef
        /\ r.entry.ref = q.entry.ref
        /\ r.entry.customer = q.entry.customer
        => r = q

\* No balance comes from nowhere: what a row adds to is either nothing, for the
\* first entries, or the running balance an earlier row of the customer shows,
\* never one of a transaction that was rolled back.
BuiltOnACommittedRow == \A r \in rows : BuiltOn(r, rows)

\* Every transaction that posts ends: none waits for ever for a ledger row, also
\* when it holds others and its own entries stand between newer ones.
EveryTransactionEnds == \A s \in Sessions : ~At(s, "idle") ~> At(s, "idle")

\* A customer's entries posted one transaction after the other chain from zero.
\* The header wants it of concurrent ones: the row lock is there "so concurrent
\* writers can't pick the same prior balance".
RunningBalancesChain ==
    \A r \in rows :
        LET before == {q \in rows : /\ q.entry.customer = r.entry.customer
                                    /\ q.at < r.at}
        IN  r.running = r.entry.delta + (IF before = {} THEN 0 ELSE Latest(before).running)
=============================================================================
