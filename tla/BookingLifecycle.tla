--------------------------- MODULE BookingLifecycle ---------------------------
(***************************************************************************)
(* BookingsService: assignment, status changes, rescheduling, the arrival  *)
(* OTP and the commission a completed booking earns.                       *)
(*                                                                         *)
(* Every request reads its booking once, decides on what it has read and   *)
(* writes later, by primary key and whatever the row has become; only the  *)
(* columns it names are written.  A session is one request, and after a    *)
(* completion the listener its event started.  Requests the code refuses   *)
(* change nothing and are left out; so an expired OTP is one nobody uses.  *)
(***************************************************************************)
EXTENDS Integers, FiniteSets, Sequences

CONSTANTS Bookings, Technicians,
          Office,        \* back-office users (customers can do a part of it)
          Sessions,
          Hours,         \* times a visit can be scheduled at
          StartsAt,      \* StartsAt[b]: what a booking was created for
          Nobody,
          MaxAttempts,   \* OTP_MAX_ATTEMPTS
          MaxRows        \* bound, for each user: of a booking with that many activities
                         \* the user asks nothing

Users == Technicians \cup Office

ASSUME BookingAssumption ==
    /\ IsFiniteSet(Sessions)
    /\ Technicians \cap Office = {} /\ Nobody \notin Users
    /\ Hours \subseteq Nat /\ StartsAt \in [Bookings -> Hours]
    /\ MaxAttempts \in Nat \ {0}

VARIABLES bookings,    \* the rows
          timeline,    \* the activities that record a status, oldest first
          commissions, \* technician_commissions: who the rows of each booking pay
          session

vars == <<bookings, timeline, commissions, session>>

-----------------------------------------------------------------------------

Terminal == {"COMPLETED", "CANCELLED", "NO_SHOW"}
Busy == {"ASSIGNED", "TECHNICIAN_EN_ROUTE", "IN_PROGRESS", "WAITING_PARTS"}
Statuses == Terminal \cup Busy \cup {"PENDING", "CONFIRMED", "RESCHEDULED"}

\* Nothing puts a booking in DRAFT, so it is left out.
Transitions ==
    [PENDING             |-> {"CONFIRMED", "ASSIGNED", "CANCELLED"},
     CONFIRMED           |-> {"ASSIGNED", "CANCELLED", "RESCHEDULED"},
     ASSIGNED            |-> {"TECHNICIAN_EN_ROUTE", "RESCHEDULED", "CANCELLED", "NO_SHOW"},
     TECHNICIAN_EN_ROUTE |-> {"IN_PROGRESS", "NO_SHOW", "CANCELLED"},
     IN_PROGRESS         |-> {"WAITING_PARTS", "COMPLETED", "CANCELLED"},
     WAITING_PARTS       |-> {"IN_PROGRESS", "CANCELLED"},
     RESCHEDULED         |-> {"PENDING", "CONFIRMED", "CANCELLED"},
     COMPLETED           |-> {},
     CANCELLED           |-> {},
     NO_SHOW             |-> {}]

TechnicianSettable == {"TECHNICIAN_EN_ROUTE", "IN_PROGRESS", "WAITING_PARTS", "COMPLETED"}

Requests ==
    [op: {"assign"}, user: Office, booking: Bookings, technician: Technicians]
    \cup [op: {"autoPick"}, user: Office, booking: Bookings]
    \cup [op: {"sendOtp"}, user: Users, booking: Bookings]
    \cup [op: {"status"}, user: Users, booking: Bookings, to: Statuses]
    \cup [op: {"reschedule", "update"}, user: Office, booking: Bookings, at: Hours]
    \cup [op: {"verifyOtp"}, user: Users, booking: Bookings, right: BOOLEAN]

BookingRows == [status: Statuses, technician: Technicians \cup {Nobody}, at: Hours,
                otpSent: BOOLEAN, otpAttempts: Nat, otpVerified: BOOLEAN]
Activities == [kind: {"status", "assigned", "rescheduled", "otpVerified"},
               by: Users, from: Statuses, to: Statuses]

Idle == [step |-> "idle"]
Working == [step: {"check", "write", "completed", "accrue"},
            request: Requests, read: BookingRows]

Init ==
    /\ bookings = [b \in Bookings |->
            [status |-> "PENDING", technician |-> Nobody, at |-> StartsAt[b],
             otpSent |-> FALSE, otpAttempts |-> 0, otpVerified |-> FALSE]]
    /\ timeline = [b \in Bookings |-> <<>>]
    /\ commissions = [b \in Bookings |-> <<>>]
    /\ session = [s \in Sessions |-> Idle]

-----------------------------------------------------------------------------
(* What a request is checked against: the row as it was read. *)

\* A field technician gets a 404 for a booking that is somebody else's.
MaySee(user, row) == user \in Technicians => row.technician = user

\* Mutant of TechnicianRule: work is started with no look at the OTP.
SettableOnly(row, next) == next \in TechnicianSettable

TechnicianRule(row, next) ==
    /\ next \in TechnicianSettable
    /\ next = "IN_PROGRESS" => row.otpVerified

\* Mutant of OtpUsable: one attempt more.
OtpUsableOnceMore(row) ==
    row.otpSent /\ ~row.otpVerified /\ row.otpAttempts <= MaxAttempts

\* The status of the booking is not looked at.
OtpUsable(row) == row.otpSent /\ ~row.otpVerified /\ row.otpAttempts < MaxAttempts

Allowed(r, row) ==
    \/ r.op \in {"assign", "autoPick", "reschedule", "update"} /\ row.status \notin Terminal
    \/ /\ r.op = "status"
       /\ r.to \in Transitions[row.status]
       /\ r.user \in Technicians => TechnicianRule(row, r.to)
    \/ r.op = "sendOtp" /\ row.status = "TECHNICIAN_EN_ROUTE"
    \/ r.op = "verifyOtp" /\ OtpUsable(row)

\* hasTechnicianConflict: two hours back inclusive, two hours ahead exclusive.
HasConflict(tech, at, except) ==
    \E b \in Bookings \ {except} :
        /\ bookings[b].technician = tech
        /\ bookings[b].status \in Busy
        /\ at - 2 <= bookings[b].at /\ bookings[b].at < at + 2

-----------------------------------------------------------------------------

At(s, step) == session[s].step = step
Asked(s) == session[s].request
Read(s) == session[s].read
Target(s) == Asked(s).booking
Row(s) == bookings[Target(s)]

Checked(r, row) == r.op \in {"assign", "autoPick"}
                   \/ (r.op = "reschedule" /\ row.technician # Nobody)

Receive(s, r) ==
    LET row == bookings[r.booking] IN
    /\ At(s, "idle")
    /\ Len(timeline[r.booking]) < MaxRows[r.user]
    /\ MaySee(r.user, row)
    /\ Allowed(r, row)
    /\ session' = [session EXCEPT ![s] =
            [step |-> IF Checked(r, row) THEN "check" ELSE "write",
             request |-> r, read |-> row]]
    /\ UNCHANGED <<bookings, timeline, commissions>>

\* The other bookings of the technician are read before the transaction begins.
CheckConflict(s) ==
    /\ At(s, "check")
    /\ Asked(s).op \in {"assign", "reschedule"}
    /\ LET assigning == Asked(s).op = "assign"
           tech == IF assigning THEN Asked(s).technician ELSE Read(s).technician
           at == IF assigning THEN Read(s).at ELSE Asked(s).at
       IN  session' = [session EXCEPT ![s] =
               IF HasConflict(tech, at, Target(s)) THEN Idle
               ELSE [@ EXCEPT !.step = "write"]]
    /\ UNCHANGED <<bookings, timeline, commissions>>

\* Mutant of PickBest: where no candidate is left, nobody is picked and assigned.
PickNobody(s) ==
    /\ At(s, "check")
    /\ Asked(s).op = "autoPick"
    /\ session' = [session EXCEPT ![s].step = "write",
          ![s].request = [op |-> "assign", user |-> Asked(s).user,
                          booking |-> Target(s), technician |-> Nobody]]
    /\ UNCHANGED <<bookings, timeline, commissions>>

\* The best score wins; jobs at the same time cost points and exclude nobody.
PickBest(s) ==
    /\ At(s, "check")
    /\ Asked(s).op = "autoPick"
    /\ \E t \in Technicians :
          session' = [session EXCEPT ![s].step = "write",
                ![s].request = [op |-> "assign", user |-> Asked(s).user,
                                booking |-> Target(s), technician |-> t]]
    /\ UNCHANGED <<bookings, timeline, commissions>>

\* One transaction writes the row and its activity.
Write(s, row) == bookings' = [bookings EXCEPT ![Target(s)] = row]
Record(s, kind, to) ==
    timeline' = [timeline EXCEPT ![Target(s)] = Append(@,
        [kind |-> kind, by |-> Asked(s).user, from |-> Read(s).status, to |-> to])]
Done(s) == session' = [session EXCEPT ![s] = Idle]

Assign(s) ==
    /\ At(s, "write") /\ Asked(s).op = "assign"
    /\ Write(s, [Row(s) EXCEPT !.technician = Asked(s).technician, !.status = "ASSIGNED"])
    /\ Record(s, "assigned", "ASSIGNED")
    /\ Done(s)
    /\ UNCHANGED commissions

\* A completion also publishes the event its listener pays commission on.
ChangeStatus(s) ==
    /\ At(s, "write") /\ Asked(s).op = "status"
    /\ Write(s, [Row(s) EXCEPT !.status = Asked(s).to])
    /\ Record(s, "status", Asked(s).to)
    /\ session' = [session EXCEPT ![s] =
            IF Asked(s).to = "COMPLETED" THEN [@ EXCEPT !.step = "completed"] ELSE Idle]
    /\ UNCHANGED commissions

Reschedule(s) ==
    LET to == IF Read(s).status \in {"PENDING", "CONFIRMED"} THEN Read(s).status
              ELSE "RESCHEDULED"
    IN  /\ At(s, "write") /\ Asked(s).op = "reschedule"
        /\ Write(s, [Row(s) EXCEPT !.at = Asked(s).at, !.status = to])
        /\ Record(s, "rescheduled", to)
        /\ Done(s)
        /\ UNCHANGED commissions

\* An edit may move the visit too, and asks nobody whether there is a conflict.
Update(s) ==
    /\ At(s, "write") /\ Asked(s).op = "update"
    /\ Write(s, [Row(s) EXCEPT !.at = Asked(s).at])
    /\ Done(s)
    /\ UNCHANGED <<timeline, commissions>>

SendArrivalOtp(s) ==
    /\ At(s, "write") /\ Asked(s).op = "sendOtp"
    /\ Write(s, [Row(s) EXCEPT !.otpSent = TRUE, !.otpAttempts = 0, !.otpVerified = FALSE])
    /\ Done(s)
    /\ UNCHANGED <<timeline, commissions>>

\* A wrong code: the counter goes up, and then the caller is told.
WrongOtp(s) ==
    /\ At(s, "write") /\ Asked(s).op = "verifyOtp" /\ ~Asked(s).right
    /\ Write(s, [Row(s) EXCEPT !.otpAttempts = @ + 1])
    /\ Done(s)
    /\ UNCHANGED <<timeline, commissions>>

VerifyArrivalOtp(s) ==
    /\ At(s, "write") /\ Asked(s).op = "verifyOtp" /\ Asked(s).right
    /\ Write(s, [Row(s) EXCEPT !.otpVerified = TRUE, !.status = "IN_PROGRESS"])
    /\ Record(s, "otpVerified", "IN_PROGRESS")
    /\ Done(s)
    /\ UNCHANGED commissions

HasCommission(b) == commissions[b] # <<>>

\* The listener reads the booking as it is by now.
ReadForCommission(s) ==
    /\ At(s, "completed")
    /\ session' = [session EXCEPT ![s] =
            IF Row(s).status = "COMPLETED" /\ Row(s).technician # Nobody
               /\ ~HasCommission(Target(s))
            THEN [@ EXCEPT !.step = "accrue", !.read = Row(s)]
            ELSE Idle]
    /\ UNCHANGED <<bookings, timeline, commissions>>

\* Mutant of Accrue: bookingId is not unique.
AccrueUnchecked(s) ==
    /\ At(s, "accrue")
    /\ commissions' = [commissions EXCEPT ![Target(s)] = Append(@, Read(s).technician)]
    /\ Done(s)
    /\ UNCHANGED <<bookings, timeline>>

\* bookingId is unique; the listener swallows the error.
Accrue(s) ==
    /\ At(s, "accrue")
    /\ commissions' = IF HasCommission(Target(s)) THEN commissions
                      ELSE [commissions EXCEPT ![Target(s)] = <<Read(s).technician>>]
    /\ Done(s)
    /\ UNCHANGED <<bookings, timeline>>

\* The process dies: what was not committed is gone, and so is the event.
Crash(s) == ~At(s, "idle") /\ Done(s) /\ UNCHANGED <<bookings, timeline, commissions>>

Next == \E s \in Sessions :
    \/ \E r \in Requests : Receive(s, r)
    \/ CheckConflict(s) \/ PickBest(s)
    \/ Assign(s) \/ ChangeStatus(s) \/ Reschedule(s) \/ Update(s)
    \/ SendArrivalOtp(s) \/ WrongOtp(s) \/ VerifyArrivalOtp(s)
    \/ ReadForCommission(s) \/ Accrue(s)
    \/ Crash(s)

Spec == Init /\ [][Next]_vars

-----------------------------------------------------------------------------
(* Properties *)

\* Every variable keeps its shape, and a commission has somebody to go to.
TypeOK ==
    /\ bookings \in [Bookings -> BookingRows]
    /\ timeline \in [Bookings -> Seq(Activities)]
    /\ commissions \in [Bookings -> Seq(Technicians)]
    /\ session \in [Sessions -> {Idle} \cup Working]
    /\ \A s \in Sessions : At(s, "accrue") => Read(s).technician \in Technicians

\* The attempt limit is checked on the row as it was read and counted later, so
\* parallel guesses overshoot it; never by more than the other requests in flight.
AttemptsBounded ==
    \A b \in Bookings :
        bookings[b].otpAttempts <= MaxAttempts + Cardinality(Sessions) - 1

\* "The OTP step can't be skipped": before a technician starts or resumes work on a
\* booking, an arrival OTP was verified for it, and somebody had been on the way to
\* it before that, whoever reassigns or reschedules it or asks for a new code at the
\* same moment.  It is asked of the booking and not of the visit: a verification
\* outlives a reassignment, so the one found may be another technician's.
OtpBeforeFieldWork ==
    \A b \in Bookings : \A i \in 1..Len(timeline[b]) :
        LET row == timeline[b][i] IN
        row.by \in Technicians /\ row.kind = "status" /\ row.to = "IN_PROGRESS"
        => \E j \in 1..(i-1) :
              /\ timeline[b][j].kind = "otpVerified"
              /\ \E k \in 1..(j-1) : timeline[b][k].to = "TECHNICIAN_EN_ROUTE"

\* The timeline can be trusted: it ends at the status the booking has, however
\* requests that decided on older ones are interleaved, and nobody starts from
\* a status the booking never had.
TimelineAgrees ==
    \A b \in Bookings : LET log == timeline[b] IN
        /\ bookings[b].status = IF log = <<>> THEN "PENDING" ELSE log[Len(log)].to
        /\ \A i \in 1..Len(log) :
              log[i].from = "PENDING" \/ \E j \in 1..(i-1) : log[j].to = log[i].from

\* Completed twice at once, or again after a stale write reopened it, a booking earns
\* at most one commission, and none that was never completed earns any.
OneCommissionPerCompletion ==
    \A b \in Bookings : HasCommission(b) =>
        /\ Len(commissions[b]) = 1
        /\ \E i \in 1..Len(timeline[b]) : timeline[b][i].to = "COMPLETED"
=============================================================================
