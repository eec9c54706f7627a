------------------------ MODULE BookingLifecycleProofs ------------------------
(***************************************************************************)
(* What BookingLifecycle guarantees for every set of bookings, technicians *)
(* and sessions, any attempt limit and however long a timeline gets.       *)
(***************************************************************************)
EXTENDS BookingLifecycle, FiniteSetTheorems, TLAPS

-----------------------------------------------------------------------------
(* Lemmas about requests and sessions *)

\* Every request names a booking and a user, and what its kind needs.
LEMMA RequestType ==
    ASSUME NEW r \in Requests
    PROVE  /\ r.booking \in Bookings /\ r.user \in Users
           /\ r.op = "assign" => r.technician \in Technicians
           /\ r.op = "status" => r.to \in Statuses
           /\ r.op \in {"reschedule", "update"} => r.at \in Hours
BY DEF Requests, Users

\* A session at work has a request and a row it has read.
LEMMA WorkingSession ==
    ASSUME TypeOK, NEW s \in Sessions, ~At(s, "idle")
    PROVE  /\ session[s] \in Working
           /\ Asked(s) \in Requests /\ Read(s) \in BookingRows
           /\ Target(s) \in Bookings /\ Asked(s).user \in Users
           /\ Row(s) \in BookingRows
<1>1. session[s] \in Working
  BY DEF TypeOK, At, Idle
<1>2. Asked(s) \in Requests /\ Read(s) \in BookingRows
  BY <1>1 DEF Working, Asked, Read
<1>3. Target(s) \in Bookings /\ Asked(s).user \in Users
  BY <1>2, RequestType DEF Target
<1> QED BY <1>1, <1>2, <1>3 DEF TypeOK, Row

\* A step of one session leaves a typed session behind.
LEMMA SessionStep ==
    ASSUME TypeOK, NEW s \in Sessions, NEW x \in {Idle} \cup Working,
           x.step = "accrue" => x.read.technician \in Technicians,
           session' = [session EXCEPT ![s] = x]
    PROVE  /\ session' \in [Sessions -> {Idle} \cup Working]
           /\ \A q \in Sessions : At(q, "accrue")' => Read(q)'.technician \in Technicians
<1>1. session \in [Sessions -> {Idle} \cup Working]
  BY DEF TypeOK
<1>2. session'[s] = x /\ \A q \in Sessions \ {s} : session'[q] = session[q]
  BY <1>1
<1>3. \A q \in Sessions : At(q, "accrue") => Read(q).technician \in Technicians
  BY DEF TypeOK
<1> QED BY <1>1, <1>2, <1>3 DEF At, Read

\* A row whose columns were overwritten with typed values is still a row.
LEMMA WriteType ==
    ASSUME TypeOK, NEW s \in Sessions, ~At(s, "idle"), NEW row \in BookingRows,
           Write(s, row)
    PROVE  bookings' \in [Bookings -> BookingRows]
BY WorkingSession DEF TypeOK, Write

\* Recording appends one typed activity to the timeline of the booking.
LEMMA RecordType ==
    ASSUME TypeOK, NEW s \in Sessions, ~At(s, "idle"), NEW to \in Statuses,
           NEW kind \in {"status", "assigned", "rescheduled", "otpVerified"},
           Record(s, kind, to)
    PROVE  timeline' \in [Bookings -> Seq(Activities)]
<1>1. Target(s) \in Bookings /\ Asked(s).user \in Users /\ Read(s).status \in Statuses
  BY WorkingSession DEF BookingRows
<1> DEFINE act == [kind |-> kind, by |-> Asked(s).user, from |-> Read(s).status, to |-> to]
<1>2. act \in Activities
  BY <1>1 DEF Activities
<1>3. timeline \in [Bookings -> Seq(Activities)]
  BY DEF TypeOK
<1>4. timeline' = [timeline EXCEPT ![Target(s)] = Append(@, act)]
  BY DEF Record
<1> HIDE DEF act
<1> QED BY <1>1, <1>2, <1>3, <1>4

-----------------------------------------------------------------------------
(* Type correctness *)

\* The initial state has the declared shape.
LEMMA TypeInit == Init => TypeOK
BY BookingAssumption DEF Init, TypeOK, BookingRows, Statuses, Terminal, Busy, Idle, At

\* The requests that are answered without a write, and those that fail.
LEMMA DoneType ==
    ASSUME TypeOK, NEW s \in Sessions, Done(s)
    PROVE  /\ session' \in [Sessions -> {Idle} \cup Working]
           /\ \A q \in Sessions : At(q, "accrue")' => Read(q)'.technician \in Technicians
<1>1. Idle \in {Idle} \cup Working /\ Idle.step # "accrue"
  BY DEF Idle
<1> QED BY <1>1, SessionStep DEF Done

\* The session of s becomes another typed one.
MovesOn(s) ==
    \E x \in {Idle} \cup Working :
        /\ x.step = "accrue" => x.read.technician \in Technicians
        /\ session' = [session EXCEPT ![s] = x]

\* The steps that only move a session on: reading and checking.
LEMMA ReadingType ==
    ASSUME TypeOK, NEW s \in Sessions,
           \/ \E r \in Requests : Receive(s, r)
           \/ CheckConflict(s) \/ PickBest(s) \/ ReadForCommission(s) \/ Crash(s)
    PROVE  TypeOK'
<1>0. /\ bookings \in [Bookings -> BookingRows] /\ timeline \in [Bookings -> Seq(Activities)]
      /\ commissions \in [Bookings -> Seq(Technicians)]
      /\ session \in [Sessions -> {Idle} \cup Working]
  BY DEF TypeOK
<1>1. UNCHANGED <<bookings, timeline, commissions>>
  BY DEF Receive, CheckConflict, PickBest, ReadForCommission, Crash
<1>2. MovesOn(s)
  <2>1. ASSUME NEW r \in Requests, Receive(s, r)
        PROVE  MovesOn(s)
    <3> DEFINE x == [step |-> IF Checked(r, bookings[r.booking]) THEN "check" ELSE "write",
                     request |-> r, read |-> bookings[r.booking]]
    <3>1. bookings[r.booking] \in BookingRows
      BY <1>0, RequestType
    <3>2. x \in Working /\ x.step # "accrue"
      BY <3>1 DEF Working
    <3>3. session' = [session EXCEPT ![s] = x]
      BY <2>1 DEF Receive
    <3> QED BY <3>2, <3>3 DEF MovesOn
  <2>2. CASE CheckConflict(s)
    <3>1. session[s] \in Working
      BY <2>2, WorkingSession DEF CheckConflict, At
    <3>2. \/ session' = [session EXCEPT ![s] = Idle]
          \/ session' = [session EXCEPT ![s] = [session[s] EXCEPT !.step = "write"]]
      BY <2>2 DEF CheckConflict
    <3>3. [session[s] EXCEPT !.step = "write"] \in Working
      BY <3>1 DEF Working
    <3>4. [session[s] EXCEPT !.step = "write"].step # "accrue" /\ Idle.step # "accrue"
      BY <3>1 DEF Working, Idle
    <3> QED BY <3>2, <3>3, <3>4 DEF MovesOn
  <2>3. CASE PickBest(s)
    <3>1. session[s] \in Working /\ Asked(s).user \in Users /\ Target(s) \in Bookings
          /\ Asked(s) \in Requests
      BY <2>3, WorkingSession DEF PickBest, At
    <3>2. Asked(s).user \in Office
      BY <2>3, <3>1 DEF PickBest, Requests
    <3>3. PICK t \in Technicians :
              session' = [session EXCEPT ![s].step = "write",
                  ![s].request = [op |-> "assign", user |-> Asked(s).user,
                                  booking |-> Target(s), technician |-> t]]
      BY <2>3 DEF PickBest
    <3> DEFINE r == [op |-> "assign", user |-> Asked(s).user,
                     booking |-> Target(s), technician |-> t]
               x == [session[s] EXCEPT !.step = "write", !.request = r]
    <3>4. r \in Requests
      BY <3>1, <3>2 DEF Requests
    <3>5. x \in Working /\ x.step # "accrue"
      BY <3>1, <3>4 DEF Working
    <3>6. session' = [session EXCEPT ![s] = x]
      BY <1>0, <3>1, <3>3
    <3> QED BY <3>5, <3>6 DEF MovesOn
  <2>4. CASE ReadForCommission(s)
    <3>1. session[s] \in Working /\ Row(s) \in BookingRows
      BY <2>4, WorkingSession DEF ReadForCommission, At
    <3>2. \/ session' = [session EXCEPT ![s] = Idle]
          \/ /\ Row(s).technician # Nobody
             /\ session' = [session EXCEPT ![s] =
                                [session[s] EXCEPT !.step = "accrue", !.read = Row(s)]]
      BY <2>4 DEF ReadForCommission
    <3> DEFINE x == [session[s] EXCEPT !.step = "accrue", !.read = Row(s)]
    <3>3. x \in Working /\ x.read = Row(s)
      BY <3>1 DEF Working
    <3>4. Row(s).technician # Nobody => x.read.technician \in Technicians
      BY <3>1, <3>3 DEF BookingRows
    <3>5. Idle.step # "accrue"
      BY DEF Idle
    <3> QED BY <3>2, <3>3, <3>4, <3>5 DEF MovesOn
  <2>5. CASE Crash(s)
    BY <2>5 DEF Crash, Done, Idle, MovesOn
  <2> QED BY <2>1, <2>2, <2>3, <2>4, <2>5
<1>3. PICK x \in {Idle} \cup Working :
          /\ x.step = "accrue" => x.read.technician \in Technicians
          /\ session' = [session EXCEPT ![s] = x]
  BY <1>2 DEF MovesOn
<1>4. /\ session' \in [Sessions -> {Idle} \cup Working]
      /\ \A q \in Sessions : At(q, "accrue")' => Read(q)'.technician \in Technicians
  BY <1>3, SessionStep
<1> QED BY <1>0, <1>1, <1>4 DEF TypeOK

\* The steps that write a row, with or without an activity.
WriteStep(s) ==
    \/ Assign(s) \/ ChangeStatus(s) \/ Reschedule(s) \/ Update(s)
    \/ SendArrivalOtp(s) \/ WrongOtp(s) \/ VerifyArrivalOtp(s)

ReadStep(s) ==
    \/ \E r \in Requests : Receive(s, r)
    \/ CheckConflict(s) \/ PickBest(s) \/ ReadForCommission(s) \/ Crash(s)

\* What a write does to the row and the timeline of its booking: it leaves the
\* status, or it records the status it writes; only a verified code makes the row
\* verified, and only a request for a code makes one sent.
LEMMA WriteEffect ==
    ASSUME TypeOK, NEW s \in Sessions, WriteStep(s)
    PROVE  /\ At(s, "write") /\ UNCHANGED commissions
           /\ \E row \in BookingRows :
                 /\ Write(s, row)
                 /\ row.otpSent => Row(s).otpSent \/ Asked(s).op = "sendOtp"
                 /\ \/ /\ UNCHANGED timeline
                       /\ row.status = Row(s).status
                       /\ row.otpVerified => Row(s).otpVerified
                    \/ \E kind \in {"status", "assigned", "rescheduled", "otpVerified"},
                          to \in Statuses :
                          /\ Record(s, kind, to)
                          /\ row.status = to
                          /\ row.otpVerified => Row(s).otpVerified \/ kind = "otpVerified"
                          /\ kind = "status" => Asked(s).op = "status" /\ Asked(s).to = to
                          /\ kind = "otpVerified" => Asked(s).op = "verifyOtp"
<1>1. At(s, "write") /\ UNCHANGED commissions
  BY DEF WriteStep, Assign, ChangeStatus, Reschedule, Update, SendArrivalOtp, WrongOtp,
         VerifyArrivalOtp
<1>2. /\ Row(s) \in BookingRows /\ Asked(s) \in Requests /\ Read(s) \in BookingRows
  BY <1>1, WorkingSession DEF At
<1>3. CASE Assign(s)
  <2> DEFINE row == [Row(s) EXCEPT !.technician = Asked(s).technician, !.status = "ASSIGNED"]
  <2>1. Asked(s).technician \in Technicians /\ "ASSIGNED" \in Statuses
    BY <1>2, <1>3, RequestType DEF Assign, Statuses, Busy
  <2>2. row \in BookingRows /\ row.status = "ASSIGNED" /\ row.otpVerified = Row(s).otpVerified
        /\ row.otpSent = Row(s).otpSent
    BY <1>2, <2>1 DEF BookingRows
  <2>3. Write(s, row) /\ Record(s, "assigned", "ASSIGNED")
    BY <1>3 DEF Assign
  <2> HIDE DEF row
  <2> QED BY <1>1, <2>1, <2>2, <2>3
<1>4. CASE ChangeStatus(s)
  <2> DEFINE row == [Row(s) EXCEPT !.status = Asked(s).to]
  <2>1. Asked(s).to \in Statuses /\ Asked(s).op = "status"
    BY <1>2, <1>4, RequestType DEF ChangeStatus
  <2>2. row \in BookingRows /\ row.status = Asked(s).to /\ row.otpVerified = Row(s).otpVerified
        /\ row.otpSent = Row(s).otpSent
    BY <1>2, <2>1 DEF BookingRows
  <2>3. Write(s, row) /\ Record(s, "status", Asked(s).to)
    BY <1>4 DEF ChangeStatus
  <2> HIDE DEF row
  <2> QED BY <1>1, <2>1, <2>2, <2>3
<1>5. CASE Reschedule(s)
  <2> DEFINE to == IF Read(s).status \in {"PENDING", "CONFIRMED"} THEN Read(s).status
                   ELSE "RESCHEDULED"
             row == [Row(s) EXCEPT !.at = Asked(s).at, !.status = to]
  <2>1. Asked(s).at \in Hours /\ to \in Statuses
    BY <1>2, <1>5, RequestType DEF Reschedule, BookingRows, Statuses
  <2>2. Write(s, row) /\ Record(s, "rescheduled", to)
    BY <1>5 DEF Reschedule
  <2> HIDE DEF to
  <2>3. row \in BookingRows /\ row.status = to /\ row.otpVerified = Row(s).otpVerified
        /\ row.otpSent = Row(s).otpSent
    BY <1>2, <2>1 DEF BookingRows
  <2> HIDE DEF row
  <2> QED BY <1>1, <2>1, <2>2, <2>3
<1>6. CASE Update(s)
  <2> DEFINE row == [Row(s) EXCEPT !.at = Asked(s).at]
  <2>1. Asked(s).at \in Hours
    BY <1>2, <1>6, RequestType DEF Update
  <2>2. row \in BookingRows /\ row.status = Row(s).status /\ row.otpVerified = Row(s).otpVerified
        /\ row.otpSent = Row(s).otpSent
    BY <1>2, <2>1 DEF BookingRows
  <2>3. Write(s, row) /\ UNCHANGED timeline
    BY <1>6 DEF Update
  <2> HIDE DEF row
  <2> QED BY <1>1, <2>2, <2>3
<1>7. CASE SendArrivalOtp(s)
  <2> DEFINE row == [Row(s) EXCEPT !.otpSent = TRUE, !.otpAttempts = 0, !.otpVerified = FALSE]
  <2>1. row \in BookingRows /\ row.status = Row(s).status /\ ~row.otpVerified
    BY <1>2 DEF BookingRows
  <2>2. Write(s, row) /\ UNCHANGED timeline /\ Asked(s).op = "sendOtp"
    BY <1>7 DEF SendArrivalOtp
  <2> HIDE DEF row
  <2> QED BY <1>1, <2>1, <2>2
<1>8. CASE WrongOtp(s)
  <2> DEFINE row == [Row(s) EXCEPT !.otpAttempts = @ + 1]
  <2>1. row \in BookingRows /\ row.status = Row(s).status /\ row.otpVerified = Row(s).otpVerified
        /\ row.otpSent = Row(s).otpSent
    BY <1>2 DEF BookingRows
  <2>2. Write(s, row) /\ UNCHANGED timeline
    BY <1>8 DEF WrongOtp
  <2> HIDE DEF row
  <2> QED BY <1>1, <2>1, <2>2
<1>9. CASE VerifyArrivalOtp(s)
  <2> DEFINE row == [Row(s) EXCEPT !.otpVerified = TRUE, !.status = "IN_PROGRESS"]
  <2>1. "IN_PROGRESS" \in Statuses
    BY DEF Statuses, Busy
  <2>2. row \in BookingRows /\ row.status = "IN_PROGRESS" /\ row.otpSent = Row(s).otpSent
    BY <1>2, <2>1 DEF BookingRows
  <2>3. Write(s, row) /\ Record(s, "otpVerified", "IN_PROGRESS") /\ Asked(s).op = "verifyOtp"
    BY <1>9 DEF VerifyArrivalOtp
  <2> HIDE DEF row
  <2> QED BY <1>1, <2>1, <2>2, <2>3
<1> QED BY <1>3, <1>4, <1>5, <1>6, <1>7, <1>8, <1>9 DEF WriteStep

\* After a write the session is done, or the listener of a completion.
LEMMA WriterMovesOn ==
    ASSUME TypeOK, NEW s \in Sessions, WriteStep(s)
    PROVE  \/ Done(s)
           \/ /\ session' = [session EXCEPT ![s] = [session[s] EXCEPT !.step = "completed"]]
              /\ ChangeStatus(s) /\ Asked(s).to = "COMPLETED"
BY DEF WriteStep, Assign, ChangeStatus, Reschedule, Update, SendArrivalOtp, WrongOtp,
       VerifyArrivalOtp, Done

\* Every step of every session keeps the shape of the state.
LEMMA TypeStep == TypeOK /\ [Next]_vars => TypeOK'
<1> SUFFICES ASSUME TypeOK, [Next]_vars PROVE TypeOK'
  OBVIOUS
<1>1. CASE UNCHANGED vars
  BY <1>1 DEF TypeOK, vars, At, Read
<1>2. ASSUME NEW s \in Sessions, ReadStep(s)
      PROVE  TypeOK'
  BY <1>2, ReadingType DEF ReadStep
<1>3. ASSUME NEW s \in Sessions, WriteStep(s)
      PROVE  TypeOK'
  <2>1. At(s, "write") /\ ~At(s, "idle") /\ UNCHANGED commissions
    BY <1>3, WriteEffect DEF At
  <2>2. bookings' \in [Bookings -> BookingRows]
    BY <1>3, <2>1, WriteEffect, WriteType
  <2>3. timeline' \in [Bookings -> Seq(Activities)]
    BY <1>3, <2>1, WriteEffect, RecordType DEF TypeOK
  <2>4. CASE Done(s)
    BY <2>1, <2>2, <2>3, <2>4, DoneType DEF TypeOK
  <2>5. CASE session' = [session EXCEPT ![s] = [session[s] EXCEPT !.step = "completed"]]
    <3> DEFINE x == [session[s] EXCEPT !.step = "completed"]
    <3>1. x \in Working /\ x.step # "accrue"
      BY <2>1, WorkingSession DEF Working
    <3> HIDE DEF x
    <3>2. session' = [session EXCEPT ![s] = x]
      BY <2>5 DEF x
    <3> QED BY <2>1, <2>2, <2>3, <3>1, <3>2, SessionStep DEF TypeOK
  <2> QED BY <1>3, <2>4, <2>5, WriterMovesOn
<1>4. ASSUME NEW s \in Sessions, Accrue(s)
      PROVE  TypeOK'
  <2>1. ~At(s, "idle") /\ Target(s) \in Bookings /\ Read(s).technician \in Technicians
    BY <1>4, WorkingSession DEF Accrue, At, TypeOK
  <2>2. commissions' \in [Bookings -> Seq(Technicians)]
    BY <1>4, <2>1 DEF Accrue, TypeOK
  <2> QED BY <1>4, <2>2, DoneType DEF Accrue, TypeOK
<1> QED BY <1>1, <1>2, <1>3, <1>4 DEF Next, ReadStep, WriteStep

\* Rows, activities and commissions keep their shape, and whoever is paid is a technician.
THEOREM TypeCorrect == Spec => []TypeOK
BY TypeInit, TypeStep, PTL DEF Spec

-----------------------------------------------------------------------------
(* Timelines *)

\* An arrival OTP was verified after somebody had set out.
OtpSeen(b) ==
    \E j \in 1..Len(timeline[b]) :
        /\ timeline[b][j].kind = "otpVerified"
        /\ \E k \in 1..(j-1) : timeline[b][k].to = "TECHNICIAN_EN_ROUTE"

\* The booking has or had this status.
HasBeen(b, status) ==
    status = "PENDING" \/ \E j \in 1..Len(timeline[b]) : timeline[b][j].to = status

\* No step takes an activity back or changes one.
TimelinesGrow ==
    \A b \in Bookings :
        /\ Len(timeline[b]) <= Len(timeline'[b])
        /\ \A i \in 1..Len(timeline[b]) : timeline'[b][i] = timeline[b][i]

\* Recording leaves the old activities where they were.
LEMMA RecordGrows ==
    ASSUME TypeOK, NEW s \in Sessions, ~At(s, "idle"), NEW kind, NEW to, Record(s, kind, to)
    PROVE  /\ TimelinesGrow
           /\ \A b \in Bookings \ {Target(s)} : timeline'[b] = timeline[b]
           /\ LET log == timeline'[Target(s)] IN
              /\ Len(log) = Len(timeline[Target(s)]) + 1
              /\ log[Len(log)] = [kind |-> kind, by |-> Asked(s).user,
                                  from |-> Read(s).status, to |-> to]
<1> DEFINE act == [kind |-> kind, by |-> Asked(s).user, from |-> Read(s).status, to |-> to]
<1>1. Target(s) \in Bookings
  BY WorkingSession
<1>2. timeline \in [Bookings -> Seq(Activities)]
  BY DEF TypeOK
<1>3. timeline' = [timeline EXCEPT ![Target(s)] = Append(@, act)]
  BY DEF Record
<1> HIDE DEF act
<1>4. \A b \in Bookings \ {Target(s)} : timeline'[b] = timeline[b]
  BY <1>2, <1>3
<1>5. timeline'[Target(s)] = Append(timeline[Target(s)], act)
  BY <1>1, <1>2, <1>3
<1>6. /\ Len(timeline'[Target(s)]) = Len(timeline[Target(s)]) + 1
      /\ timeline'[Target(s)][Len(timeline'[Target(s)])] = act
      /\ \A i \in 1..Len(timeline[Target(s)]) :
            timeline'[Target(s)][i] = timeline[Target(s)][i]
  BY <1>1, <1>2, <1>5
<1>7. \A b \in Bookings : Len(timeline[b]) \in Nat
  BY <1>2
<1>8. TimelinesGrow
  BY <1>4, <1>6, <1>7 DEF TimelinesGrow
<1> QED BY <1>4, <1>6, <1>8 DEF act

\* Timelines only ever grow.
LEMMA GrowStep ==
    ASSUME TypeOK, [Next]_vars
    PROVE  TimelinesGrow
<1>1. CASE UNCHANGED timeline
  <2>1. \A b \in Bookings : Len(timeline[b]) \in Nat
    BY DEF TypeOK
  <2> QED BY <1>1, <2>1 DEF TimelinesGrow
<1>2. ASSUME NEW s \in Sessions, WriteStep(s)
      PROVE  TimelinesGrow
  BY <1>1, <1>2, WriteEffect, RecordGrows DEF At
<1> QED BY <1>1, <1>2 DEF Next, WriteStep, vars, Receive, CheckConflict, PickBest,
           ReadForCommission, Accrue, Crash

\* What a timeline has shown it goes on showing.
LEMMA StillSeen ==
    ASSUME TypeOK, [Next]_vars, NEW b \in Bookings
    PROVE  /\ OtpSeen(b) => OtpSeen(b)'
           /\ \A status : HasBeen(b, status) => HasBeen(b, status)'
<1>1. /\ Len(timeline[b]) <= Len(timeline'[b])
      /\ \A i \in 1..Len(timeline[b]) : timeline'[b][i] = timeline[b][i]
  BY GrowStep DEF TimelinesGrow
<1>2. Len(timeline[b]) \in Nat
  BY DEF TypeOK
<1>3. Len(timeline'[b]) \in Nat
  BY TypeStep DEF TypeOK
<1>4. \A i \in 1..Len(timeline[b]) : i \in 1..Len(timeline'[b])
  BY <1>1, <1>2, <1>3
<1>5. \A j \in 1..Len(timeline[b]) : \A k \in 1..(j-1) : k \in 1..Len(timeline[b])
  BY <1>2
<1>6. OtpSeen(b) => OtpSeen(b)'
  BY <1>1, <1>4, <1>5 DEF OtpSeen
<1>7. \A status : HasBeen(b, status) => HasBeen(b, status)'
  BY <1>1, <1>4 DEF HasBeen
<1> QED BY <1>6, <1>7

\* In a step one session moves, or nobody does.
LEMMA WhoMoves ==
    ASSUME TypeOK, [Next]_vars, NEW q \in Sessions
    PROVE  session'[q] = session[q] \/ ReadStep(q) \/ WriteStep(q) \/ Accrue(q)
<1>0. session \in [Sessions -> {Idle} \cup Working]
  BY DEF TypeOK
<1>1. ASSUME NEW s \in Sessions, s # q, ReadStep(s) \/ WriteStep(s) \/ Accrue(s)
      PROVE  session'[q] = session[q]
  <2>1. CASE WriteStep(s)
    BY <1>0, <1>1, <2>1, WriterMovesOn DEF Done
  <2> QED BY <1>0, <1>1, <2>1 DEF ReadStep, Receive, CheckConflict, PickBest,
             ReadForCommission, Crash, Accrue, Done
<1>2. CASE UNCHANGED vars
  BY <1>2 DEF vars
<1>3. \A s \in Sessions : ReadStep(s) \/ WriteStep(s) \/ Accrue(s)
                          => s = q \/ session'[q] = session[q]
  BY <1>1
<1> QED BY <1>2, <1>3 DEF Next, ReadStep, WriteStep

\* Where each move of a session at work leads.
LEMMA WhereTo ==
    ASSUME TypeOK, NEW q \in Sessions
    PROVE  /\ Done(q) => session'[q] = Idle
           /\ CheckConflict(q) =>
                 \/ session'[q] = Idle
                 \/ /\ session'[q].step = "write" /\ session'[q].read = session[q].read
                    /\ session'[q].request = session[q].request
                    /\ Asked(q).op \in {"assign", "reschedule"}
           /\ PickBest(q) =>
                 /\ session'[q].step = "write" /\ session'[q].read = session[q].read
                 /\ session'[q].request.op = "assign"
                 /\ session'[q].request.booking = Target(q)
           /\ ReadForCommission(q) =>
                 \/ session'[q] = Idle
                 \/ /\ session'[q].step = "accrue" /\ session'[q].read = Row(q)
                    /\ session'[q].request = session[q].request
           /\ WriteStep(q) =>
                 \/ session'[q] = Idle
                 \/ /\ session'[q].step = "completed" /\ session'[q].read = session[q].read
                    /\ session'[q].request = session[q].request
                    /\ ChangeStatus(q) /\ Asked(q).to = "COMPLETED"
<1>0. session \in [Sessions -> {Idle} \cup Working]
  BY DEF TypeOK
<1>1. ASSUME Done(q) PROVE session'[q] = Idle
  BY <1>0, <1>1 DEF Done
<1>2. ASSUME CheckConflict(q)
      PROVE  \/ session'[q] = Idle
             \/ /\ session'[q].step = "write" /\ session'[q].read = session[q].read
                /\ session'[q].request = session[q].request
                /\ Asked(q).op \in {"assign", "reschedule"}
  <2>1. session[q] \in Working
    BY <1>2, WorkingSession DEF CheckConflict, At
  <2>2. session'[q] = Idle \/ session'[q] = [session[q] EXCEPT !.step = "write"]
    BY <1>0, <1>2 DEF CheckConflict
  <2>3. Asked(q).op \in {"assign", "reschedule"}
    BY <1>2 DEF CheckConflict
  <2> QED BY <2>1, <2>2, <2>3 DEF Working
<1>3. ASSUME PickBest(q)
      PROVE  /\ session'[q].step = "write" /\ session'[q].read = session[q].read
             /\ session'[q].request.op = "assign"
             /\ session'[q].request.booking = Target(q)
  <2>1. session[q] \in Working
    BY <1>3, WorkingSession DEF PickBest, At
  <2> QED BY <1>0, <1>3, <2>1 DEF PickBest, Working
<1>4. ASSUME ReadForCommission(q)
      PROVE  \/ session'[q] = Idle
             \/ /\ session'[q].step = "accrue" /\ session'[q].read = Row(q)
                /\ session'[q].request = session[q].request
  <2>1. session[q] \in Working
    BY <1>4, WorkingSession DEF ReadForCommission, At
  <2>2. \/ session'[q] = Idle
        \/ session'[q] = [session[q] EXCEPT !.step = "accrue", !.read = Row(q)]
    BY <1>0, <1>4 DEF ReadForCommission
  <2> QED BY <2>1, <2>2 DEF Working
<1>5. ASSUME WriteStep(q)
      PROVE  \/ session'[q] = Idle
             \/ /\ session'[q].step = "completed" /\ session'[q].read = session[q].read
                /\ session'[q].request = session[q].request
                /\ ChangeStatus(q) /\ Asked(q).to = "COMPLETED"
  <2>1. session[q] \in Working
    BY <1>5, WriteEffect, WorkingSession DEF At
  <2>2. \/ session'[q] = Idle
        \/ /\ session'[q] = [session[q] EXCEPT !.step = "completed"]
           /\ ChangeStatus(q) /\ Asked(q).to = "COMPLETED"
    BY <1>0, <1>1, <1>5, WriterMovesOn
  <2> QED BY <2>1, <2>2 DEF Working
<1> QED BY <1>1, <1>2, <1>3, <1>4, <1>5

\* What a session that is at work after a step has read is the row as it was
\* just now, or what it had read before.
LEMMA WhatIsRead ==
    ASSUME TypeOK, [Next]_vars, NEW q \in Sessions, ~At(q, "idle")'
    PROVE  \/ Target(q)' \in Bookings /\ Read(q)' = bookings[Target(q)']
           \/ /\ ~At(q, "idle") /\ Target(q) \in Bookings
              /\ Target(q)' = Target(q) /\ Read(q)' = Read(q)
<1>0. session \in [Sessions -> {Idle} \cup Working] /\ Idle.step = "idle"
  BY DEF TypeOK, Idle
<1>1. session'[q] # Idle
  BY <1>0 DEF At
<1>2. CASE session'[q] = session[q]
  <2>1. ~At(q, "idle")
    BY <1>2 DEF At
  <2> QED BY <1>2, <2>1, WorkingSession DEF Target, Asked, Read
<1>3. CASE \E r \in Requests : Receive(q, r)
  <2>1. PICK r \in Requests : Receive(q, r)
    BY <1>3
  <2>2. session'[q].request = r /\ session'[q].read = bookings[r.booking]
    BY <1>0, <2>1 DEF Receive
  <2> QED BY <2>2, RequestType DEF Target, Asked, Read
<1>4. CASE CheckConflict(q) \/ PickBest(q) \/ ReadForCommission(q) \/ WriteStep(q)
  <2>1. ~At(q, "idle") /\ Target(q) \in Bookings
    BY <1>4, WriteEffect, WorkingSession DEF CheckConflict, PickBest, ReadForCommission, At
  <2>2. session'[q].request.booking = Target(q)
    BY <1>1, <1>4, WhereTo DEF Target, Asked
  <2>3. session'[q].read = session[q].read \/ session'[q].read = Row(q)
    BY <1>1, <1>4, WhereTo
  <2> QED BY <2>1, <2>2, <2>3 DEF Target, Asked, Read, Row
<1>5. ~(Crash(q) \/ Accrue(q))
  BY <1>1, WhereTo DEF Crash, Accrue
<1> QED BY <1>2, <1>3, <1>4, <1>5, WhoMoves DEF ReadStep

-----------------------------------------------------------------------------
(* The timeline tells the truth *)

\* What a session decides on is a status its booking has had: read by nobody
\* else's doing but a committed write, however long ago.
ReadsHaveBeen ==
    \A s \in Sessions : ~At(s, "idle") => HasBeen(Target(s), Read(s).status)

\* The status of a booking is on its timeline.
LEMMA StatusHasBeen ==
    ASSUME TypeOK, TimelineAgrees, NEW b \in Bookings
    PROVE  HasBeen(b, bookings[b].status)
<1>1. timeline[b] \in Seq(Activities)
  BY DEF TypeOK
<1>2. CASE timeline[b] = <<>>
  BY <1>2 DEF TimelineAgrees, HasBeen
<1>3. CASE timeline[b] # <<>>
  <2>1. Len(timeline[b]) \in 1..Len(timeline[b])
    BY <1>1, <1>3
  <2>2. bookings[b].status = timeline[b][Len(timeline[b])].to
    BY <1>3 DEF TimelineAgrees
  <2> QED BY <2>1, <2>2 DEF HasBeen
<1> QED BY <1>2, <1>3

\* What sessions have read stays true of the past.
LEMMA ReadsStep ==
    ASSUME TypeOK, TimelineAgrees, ReadsHaveBeen, [Next]_vars
    PROVE  ReadsHaveBeen'
<1> SUFFICES ASSUME NEW q \in Sessions, ~At(q, "idle")'
             PROVE  HasBeen(Target(q), Read(q).status)'
  BY DEF ReadsHaveBeen
<1>1. PICK b, status : b = Target(q)' /\ status = Read(q)'.status
  OBVIOUS
<1>2. b \in Bookings /\ HasBeen(b, status)
  <2>1. CASE Target(q)' \in Bookings /\ Read(q)' = bookings[Target(q)']
    BY <1>1, <2>1, StatusHasBeen
  <2>2. CASE /\ ~At(q, "idle") /\ Target(q) \in Bookings
             /\ Target(q)' = Target(q) /\ Read(q)' = Read(q)
    BY <1>1, <2>2 DEF ReadsHaveBeen
  <2> QED BY <2>1, <2>2, WhatIsRead
<1>3. HasBeen(b, status)'
  BY <1>2, StillSeen
<1> QED BY <1>1, <1>3 DEF HasBeen

\* One recorded activity keeps a timeline truthful.
LEMMA RecordAgrees ==
    ASSUME TypeOK, TypeOK', TimelineAgrees, ReadsHaveBeen, NEW s \in Sessions, ~At(s, "idle"),
           NEW kind, NEW to, NEW row \in BookingRows, row.status = to,
           Record(s, kind, to), Write(s, row)
    PROVE  TimelineAgrees'
<1> SUFFICES ASSUME NEW b \in Bookings
             PROVE  LET log == timeline'[b] IN
                    /\ bookings'[b].status = IF log = <<>> THEN "PENDING" ELSE log[Len(log)].to
                    /\ \A i \in 1..Len(log) :
                          log[i].from = "PENDING" \/ \E j \in 1..(i-1) : log[j].to = log[i].from
  BY DEF TimelineAgrees
<1>0. bookings \in [Bookings -> BookingRows] /\ Len(timeline[b]) \in Nat
      /\ timeline[b] \in Seq(Activities) /\ timeline'[b] \in Seq(Activities)
      /\ Target(s) \in Bookings
  BY WorkingSession DEF TypeOK
<1>1. CASE b # Target(s)
  <2>1. timeline'[b] = timeline[b] /\ bookings'[b] = bookings[b]
    BY <1>0, <1>1, RecordGrows DEF Write
  <2> QED BY <2>1 DEF TimelineAgrees
<1>2. CASE b = Target(s)
  <2> DEFINE n == Len(timeline[b])
             log == timeline'[b]
  <2>1. Len(log) = n + 1 /\ log[n + 1].to = to /\ log[n + 1].from = Read(s).status
    <3>1. /\ Len(timeline'[b]) = Len(timeline[b]) + 1
          /\ timeline'[b][Len(timeline'[b])] = [kind |-> kind, by |-> Asked(s).user,
                                               from |-> Read(s).status, to |-> to]
      BY <1>2, RecordGrows
    <3> QED BY <3>1
  <2>2. \A i \in 1..n : log[i] = timeline[b][i]
    BY RecordGrows DEF TimelinesGrow
  <2>3. bookings'[b].status = to
    BY <1>0, <1>2 DEF Write
  <2>4. HasBeen(b, Read(s).status)
    BY <1>2 DEF ReadsHaveBeen
  <2>5. ASSUME NEW i \in 1..n
        PROVE  log[i].from = "PENDING" \/ \E j \in 1..(i-1) : log[j].to = log[i].from
    <3>1. \/ timeline[b][i].from = "PENDING"
          \/ \E j \in 1..(i-1) : timeline[b][j].to = timeline[b][i].from
      BY DEF TimelineAgrees
    <3>2. \A j \in 1..(i-1) : j \in 1..n
      BY <1>0
    <3> QED BY <2>2, <3>1, <3>2
  <2>6. \/ log[n + 1].from = "PENDING"
        \/ \E j \in 1..n : log[j].to = log[n + 1].from
    BY <2>1, <2>2, <2>4 DEF HasBeen
  <2>7. log # <<>>
    BY <1>0, <2>1
  <2>8. ASSUME NEW i \in 1..Len(log)
        PROVE  log[i].from = "PENDING" \/ \E j \in 1..(i-1) : log[j].to = log[i].from
    <3>1. i \in 1..n \/ i = n + 1
      BY <1>0, <2>1
    <3>2. (n + 1) - 1 = n
      BY <1>0
    <3> HIDE DEF n, log
    <3> QED BY <2>5, <2>6, <3>1, <3>2
  <2>9. log[Len(log)].to = to
    BY <2>1
  <2> QED BY <2>3, <2>7, <2>8, <2>9
<1> QED BY <1>1, <1>2

\* Every step keeps timelines truthful.
LEMMA AgreesStep ==
    ASSUME TypeOK, TimelineAgrees, ReadsHaveBeen, [Next]_vars
    PROVE  TimelineAgrees'
<1>0. TypeOK' /\ bookings \in [Bookings -> BookingRows]
  BY TypeStep DEF TypeOK
<1>1. CASE UNCHANGED <<bookings, timeline>>
  BY <1>1 DEF TimelineAgrees
<1>2. ASSUME NEW s \in Sessions, WriteStep(s)
      PROVE  TimelineAgrees'
  <2>1. ~At(s, "idle") /\ Target(s) \in Bookings
    BY <1>2, WriteEffect, WorkingSession DEF At
  <2>2. ASSUME NEW row \in BookingRows, Write(s, row), UNCHANGED timeline,
               row.status = Row(s).status
        PROVE  TimelineAgrees'
    <3>1. \A b \in Bookings : bookings'[b].status = bookings[b].status
      BY <1>0, <2>1, <2>2 DEF Write, Row
    <3> QED BY <2>2, <3>1 DEF TimelineAgrees
  <2> QED BY <1>0, <1>2, <2>1, <2>2, WriteEffect, RecordAgrees
<1> QED BY <1>1, <1>2 DEF Next, WriteStep, vars, Receive, CheckConflict, PickBest,
           ReadForCommission, Accrue, Crash

\* A booking's timeline ends at the status it has, and every activity starts from a
\* status the booking had: decisions on stale reads reorder nothing into it.
THEOREM TimelinesAgree == Spec => []TimelineAgrees
<1>1. Init => TimelineAgrees /\ ReadsHaveBeen
  BY DEF Init, TimelineAgrees, ReadsHaveBeen, Idle, At
<1>2. TypeOK /\ TimelineAgrees /\ ReadsHaveBeen /\ [Next]_vars
      => TimelineAgrees' /\ ReadsHaveBeen'
  BY AgreesStep, ReadsStep
<1> QED BY <1>1, <1>2, TypeCorrect, PTL DEF Spec

-----------------------------------------------------------------------------
(* The arrival OTP *)

\* Whatever says an OTP was verified, the row or what somebody has read of it,
\* there is the activity that did it; and a technician about to start work has
\* read that it was.
OtpInv ==
    /\ \A b \in Bookings : bookings[b].otpVerified => OtpSeen(b)
    /\ \A s \in Sessions : ~At(s, "idle") /\ Read(s).otpVerified => OtpSeen(Target(s))
    /\ \A s \in Sessions :
          /\ At(s, "write") /\ Asked(s).op = "status"
          /\ Asked(s).user \in Technicians /\ Asked(s).to = "IN_PROGRESS"
          => Read(s).otpVerified

\* A code is only sent, and only tried, for a booking somebody has set out to.
SentInv ==
    /\ \A b \in Bookings : bookings[b].otpSent => HasBeen(b, "TECHNICIAN_EN_ROUTE")
    /\ \A s \in Sessions :
          At(s, "write") /\ Asked(s).op \in {"sendOtp", "verifyOtp"}
          => HasBeen(Target(s), "TECHNICIAN_EN_ROUTE")

\* Whoever asked for a code read somebody on the way; whoever tries one read it sent.
LEMMA SentStep ==
    ASSUME TypeOK, TimelineAgrees, SentInv, [Next]_vars
    PROVE  SentInv'
<1>0. bookings \in [Bookings -> BookingRows] /\ session \in [Sessions -> {Idle} \cup Working]
  BY DEF TypeOK
<1>1. ASSUME NEW b \in Bookings, bookings'[b].otpSent
      PROVE  HasBeen(b, "TECHNICIAN_EN_ROUTE")'
  <2>1. CASE bookings[b].otpSent
    BY <2>1, StillSeen DEF SentInv
  <2>2. CASE bookings'[b] # bookings[b] /\ ~bookings[b].otpSent
    <3>1. PICK s \in Sessions : WriteStep(s)
      BY <2>2 DEF Next, WriteStep, vars, Receive, CheckConflict, PickBest,
                  ReadForCommission, Accrue, Crash
    <3>2. At(s, "write") /\ Target(s) \in Bookings
      BY <3>1, WriteEffect, WorkingSession DEF At
    <3>3. b = Target(s)
      BY <1>0, <2>2, <3>1, <3>2, WriteEffect DEF Write
    <3>4. Asked(s).op = "sendOtp"
      BY <1>0, <1>1, <2>2, <3>1, <3>2, <3>3, WriteEffect DEF Write, Row
    <3>5. HasBeen(b, "TECHNICIAN_EN_ROUTE")
      BY <3>2, <3>3, <3>4 DEF SentInv
    <3> QED BY <3>5, StillSeen
  <2> QED BY <1>1, <2>1, <2>2
<1>2. ASSUME NEW q \in Sessions, At(q, "write")', Asked(q)'.op \in {"sendOtp", "verifyOtp"}
      PROVE  HasBeen(Target(q), "TECHNICIAN_EN_ROUTE")'
  <2>0. session'[q] # Idle
    BY <1>2 DEF At, Idle
  <2>1. PICK b : b = Target(q)'
    OBVIOUS
  <2>2. b \in Bookings /\ HasBeen(b, "TECHNICIAN_EN_ROUTE")
    <3>1. CASE session'[q] = session[q]
      <4>1. At(q, "write") /\ ~At(q, "idle") /\ b = Target(q)
            /\ Asked(q).op \in {"sendOtp", "verifyOtp"}
        BY <1>2, <2>1, <3>1 DEF At, Asked, Target
      <4> QED BY <4>1, WorkingSession DEF SentInv
    <3>2. ASSUME NEW r \in Requests, Receive(q, r)
          PROVE  b \in Bookings /\ HasBeen(b, "TECHNICIAN_EN_ROUTE")
      <4>1. session'[q].request = r
        BY <1>0, <3>2 DEF Receive
      <4>2. b = r.booking /\ b \in Bookings /\ r.op \in {"sendOtp", "verifyOtp"}
        BY <1>2, <2>1, <4>1, RequestType DEF Target, Asked
      <4>3. Allowed(r, bookings[b])
        BY <3>2, <4>2 DEF Receive
      <4>4. CASE r.op = "sendOtp"
        <5>1. bookings[b].status = "TECHNICIAN_EN_ROUTE"
          BY <4>3, <4>4 DEF Allowed
        <5> QED BY <4>2, <5>1, StatusHasBeen
      <4>5. CASE r.op = "verifyOtp"
        <5>1. bookings[b].otpSent
          BY <4>3, <4>5 DEF Allowed, OtpUsable
        <5> QED BY <4>2, <5>1 DEF SentInv
      <4> QED BY <4>2, <4>4, <4>5
    <3>3. ~CheckConflict(q) /\ ~PickBest(q) /\ ~ReadForCommission(q) /\ ~WriteStep(q)
      BY <1>2, <2>0, WhereTo DEF Asked, At
    <3>4. ~Crash(q) /\ ~Accrue(q)
      BY <2>0, WhereTo DEF Crash, Accrue
    <3> QED BY <3>1, <3>2, <3>3, <3>4, WhoMoves DEF ReadStep
  <2>3. HasBeen(b, "TECHNICIAN_EN_ROUTE")'
    BY <2>2, StillSeen
  <2> QED BY <2>1, <2>3 DEF HasBeen
<1> QED BY <1>1, <1>2 DEF SentInv

\* Verified rows and verified reads keep the activity they come from.
LEMMA VerifiedStep ==
    ASSUME TypeOK, OtpInv, SentInv, [Next]_vars
    PROVE  /\ \A b \in Bookings : (bookings[b].otpVerified => OtpSeen(b))'
           /\ \A s \in Sessions : (~At(s, "idle") /\ Read(s).otpVerified => OtpSeen(Target(s)))'
<1>0. bookings \in [Bookings -> BookingRows] /\ timeline' \in [Bookings -> Seq(Activities)]
  BY TypeStep DEF TypeOK
<1>1. ASSUME NEW b \in Bookings, bookings'[b].otpVerified
      PROVE  OtpSeen(b)'
  <2>1. CASE bookings[b].otpVerified
    BY <2>1, StillSeen DEF OtpInv
  <2>2. CASE bookings'[b] # bookings[b] /\ ~bookings[b].otpVerified
    <3>1. PICK s \in Sessions : WriteStep(s)
      BY <2>2 DEF Next, WriteStep, vars, Receive, CheckConflict, PickBest,
                  ReadForCommission, Accrue, Crash
    <3>2. ~At(s, "idle") /\ Target(s) \in Bookings
      BY <3>1, WriteEffect, WorkingSession DEF At
    <3>3. b = Target(s)
      BY <1>0, <2>2, <3>1, <3>2, WriteEffect DEF Write
    <3>4. PICK to : Record(s, "otpVerified", to) /\ At(s, "write") /\ Asked(s).op = "verifyOtp"
      BY <1>0, <1>1, <2>2, <3>1, <3>2, <3>3, WriteEffect DEF Write, Row
    <3> DEFINE log == timeline'[b]
    <3>5. log[Len(log)].kind = "otpVerified" /\ Len(log) = Len(timeline[b]) + 1
      <4>1. /\ Len(timeline'[Target(s)]) = Len(timeline[Target(s)]) + 1
            /\ timeline'[Target(s)][Len(timeline'[Target(s)])] =
                   [kind |-> "otpVerified", by |-> Asked(s).user,
                    from |-> Read(s).status, to |-> to]
        BY <3>2, <3>4, RecordGrows
      <4> QED BY <3>3, <4>1
    <3>6. Len(timeline[b]) \in Nat
      BY DEF TypeOK
    <3>7. Len(log) \in 1..Len(log)
      BY <3>5, <3>6
    <3>8. PICK k \in 1..Len(timeline[b]) : timeline[b][k].to = "TECHNICIAN_EN_ROUTE"
      BY <3>3, <3>4 DEF SentInv, HasBeen
    <3>9. log[k].to = "TECHNICIAN_EN_ROUTE"
      BY <3>2, <3>4, <3>8, RecordGrows DEF TimelinesGrow
    <3>10. k \in 1..(Len(log) - 1)
      BY <3>5, <3>6
    <3> QED BY <3>5, <3>7, <3>9, <3>10 DEF OtpSeen
  <2> QED BY <1>1, <2>1, <2>2
<1>2. ASSUME NEW q \in Sessions, ~At(q, "idle")', Read(q)'.otpVerified
      PROVE  OtpSeen(Target(q))'
  <2>1. PICK b : b = Target(q)'
    OBVIOUS
  <2>2. b \in Bookings /\ OtpSeen(b)
    <3>1. CASE Target(q)' \in Bookings /\ Read(q)' = bookings[Target(q)']
      BY <1>2, <2>1, <3>1 DEF OtpInv
    <3>2. CASE /\ ~At(q, "idle") /\ Target(q) \in Bookings
               /\ Target(q)' = Target(q) /\ Read(q)' = Read(q)
      BY <1>2, <2>1, <3>2 DEF OtpInv
    <3> QED BY <1>2, <3>1, <3>2, WhatIsRead
  <2>3. OtpSeen(b)'
    BY <2>2, StillSeen
  <2> QED BY <2>1, <2>3 DEF OtpSeen
<1> QED BY <1>1, <1>2

\* A technician's request to start work was checked against what it read.
LEMMA CheckedStep ==
    ASSUME TypeOK, OtpInv, [Next]_vars, NEW q \in Sessions,
           At(q, "write")', Asked(q)'.op = "status",
           Asked(q)'.user \in Technicians, Asked(q)'.to = "IN_PROGRESS"
    PROVE  Read(q)'.otpVerified
<1>0. session \in [Sessions -> {Idle} \cup Working] /\ session'[q] # Idle
  BY DEF TypeOK, At, Idle
<1>1. CASE session'[q] = session[q]
  BY <1>1 DEF OtpInv, At, Asked, Read
<1>2. ASSUME NEW r \in Requests, Receive(q, r)
      PROVE  Read(q)'.otpVerified
  <2>1. session'[q].request = r /\ session'[q].read = bookings[r.booking]
    BY <1>0, <1>2 DEF Receive
  <2>2. r.op = "status" /\ r.user \in Technicians /\ r.to = "IN_PROGRESS"
    BY <2>1 DEF Asked
  <2>3. TechnicianRule(bookings[r.booking], "IN_PROGRESS")
    BY <1>2, <2>2 DEF Receive, Allowed
  <2> QED BY <2>1, <2>3 DEF TechnicianRule, Read
<1>3. ~CheckConflict(q) /\ ~PickBest(q) /\ ~ReadForCommission(q) /\ ~WriteStep(q)
  BY <1>0, WhereTo DEF Asked, At
<1>4. ~Crash(q) /\ ~Accrue(q)
  BY <1>0, WhereTo DEF Crash, Accrue
<1> QED BY <1>1, <1>2, <1>3, <1>4, WhoMoves DEF ReadStep

\* An activity that starts field work comes after one that verified an OTP.
LEMMA FieldWorkStep ==
    ASSUME TypeOK, OtpInv, OtpBeforeFieldWork, [Next]_vars
    PROVE  OtpBeforeFieldWork'
<1>1. CASE UNCHANGED timeline
  BY <1>1 DEF OtpBeforeFieldWork
<1>2. ASSUME NEW s \in Sessions, ~At(s, "idle"), At(s, "write"), NEW kind, NEW to,
             Record(s, kind, to),
             kind = "status" => Asked(s).op = "status" /\ Asked(s).to = to
      PROVE  OtpBeforeFieldWork'
  <2> SUFFICES ASSUME NEW b \in Bookings, NEW i \in 1..Len(timeline'[b]),
                      timeline'[b][i].by \in Technicians, timeline'[b][i].kind = "status",
                      timeline'[b][i].to = "IN_PROGRESS"
               PROVE  \E j \in 1..(i-1) :
                          /\ timeline'[b][j].kind = "otpVerified"
                          /\ \E k \in 1..(j-1) : timeline'[b][k].to = "TECHNICIAN_EN_ROUTE"
    BY DEF OtpBeforeFieldWork
  <2>0. Len(timeline[b]) \in Nat /\ Len(timeline'[b]) \in Nat
    BY TypeStep DEF TypeOK
  <2>1. \A j \in 1..Len(timeline[b]) : timeline'[b][j] = timeline[b][j]
    BY <1>2, RecordGrows DEF TimelinesGrow
  <2>2. CASE i \in 1..Len(timeline[b])
    <3>1. PICK j \in 1..(i-1) :
              /\ timeline[b][j].kind = "otpVerified"
              /\ \E k \in 1..(j-1) : timeline[b][k].to = "TECHNICIAN_EN_ROUTE"
      BY <2>1, <2>2 DEF OtpBeforeFieldWork
    <3>2. j \in 1..Len(timeline[b]) /\ \A k \in 1..(j-1) : k \in 1..Len(timeline[b])
      BY <2>0, <2>2
    <3> QED BY <2>1, <3>1, <3>2
  <2>3. CASE i \notin 1..Len(timeline[b])
    <3>1. b = Target(s)
      BY <1>2, <2>3, RecordGrows
    <3>2. /\ Len(timeline'[b]) = Len(timeline[b]) + 1
          /\ timeline'[b][Len(timeline'[b])] = [kind |-> kind, by |-> Asked(s).user,
                                               from |-> Read(s).status, to |-> to]
      BY <1>2, <3>1, RecordGrows
    <3>3. i = Len(timeline'[b]) /\ i - 1 = Len(timeline[b])
      BY <2>0, <2>3, <3>2
    <3>4. Asked(s).user \in Technicians /\ kind = "status" /\ to = "IN_PROGRESS"
      BY <3>2, <3>3
    <3>5. OtpSeen(b)
      BY <1>2, <3>1, <3>4 DEF OtpInv
    <3>6. \A j \in 1..Len(timeline[b]) : \A k \in 1..(j-1) : k \in 1..Len(timeline[b])
      BY <2>0
    <3> QED BY <2>1, <3>3, <3>5, <3>6 DEF OtpSeen
  <2> QED BY <2>2, <2>3
<1>3. ASSUME NEW s \in Sessions, WriteStep(s)
      PROVE  OtpBeforeFieldWork'
  BY <1>1, <1>2, <1>3, WriteEffect DEF At
<1> QED BY <1>1, <1>3 DEF Next, WriteStep, vars, Receive, CheckConflict, PickBest,
           ReadForCommission, Accrue, Crash

\* No technician starts or resumes work on a booking for which no OTP was verified
\* since somebody set out to it.
THEOREM NoWorkWithoutOtp == Spec => []OtpBeforeFieldWork
<1>1. Init => OtpInv /\ SentInv /\ OtpBeforeFieldWork
  BY DEF Init, OtpInv, SentInv, OtpBeforeFieldWork, Idle, At
<1>2. TypeOK /\ TimelineAgrees /\ OtpInv /\ SentInv /\ [Next]_vars => OtpInv' /\ SentInv'
  BY VerifiedStep, CheckedStep, SentStep DEF OtpInv
<1>3. TypeOK /\ OtpInv /\ OtpBeforeFieldWork /\ [Next]_vars => OtpBeforeFieldWork'
  BY FieldWorkStep
<1> QED BY <1>1, <1>2, <1>3, TypeCorrect, TimelinesAgree, PTL DEF Spec

-----------------------------------------------------------------------------
(* Commissions *)

\* The listener of a completion runs for a booking that was completed.
CompletionsSeen ==
    \A s \in Sessions : At(s, "completed") \/ At(s, "accrue")
                        => HasBeen(Target(s), "COMPLETED")

\* A listener keeps the completion it was started by.
LEMMA CompletionsStep ==
    ASSUME TypeOK, CompletionsSeen, [Next]_vars
    PROVE  CompletionsSeen'
<1> SUFFICES ASSUME NEW q \in Sessions, At(q, "completed")' \/ At(q, "accrue")'
             PROVE  HasBeen(Target(q), "COMPLETED")'
  BY DEF CompletionsSeen
<1>0. session \in [Sessions -> {Idle} \cup Working] /\ session'[q] # Idle
  BY DEF TypeOK, At, Idle
<1>1. ASSUME At(q, "completed") \/ At(q, "accrue"), session'[q].request = session[q].request
      PROVE  HasBeen(Target(q), "COMPLETED")'
  <2>1. PICK b \in Bookings : b = Target(q) /\ b = Target(q)'
    BY <1>1, WorkingSession DEF At, Target, Asked
  <2>2. HasBeen(b, "COMPLETED")'
    BY <1>1, <2>1, StillSeen DEF CompletionsSeen
  <2> QED BY <2>1, <2>2 DEF HasBeen
<1>2. CASE session'[q] = session[q]
  BY <1>1, <1>2 DEF At
<1>3. CASE ReadForCommission(q)
  BY <1>0, <1>1, <1>3, WhereTo DEF ReadForCommission
<1>4. CASE WriteStep(q)
  <2>1. ChangeStatus(q) /\ Asked(q).to = "COMPLETED" /\ session'[q].request = session[q].request
    BY <1>0, <1>4, WhereTo
  <2>2. PICK b \in Bookings : b = Target(q) /\ b = Target(q)'
    BY <2>1, WorkingSession DEF ChangeStatus, At, Target, Asked
  <2>3. Len(timeline[b]) \in Nat
    BY DEF TypeOK
  <2>4. /\ Len(timeline'[b]) = Len(timeline[b]) + 1
        /\ timeline'[b][Len(timeline'[b])].to = "COMPLETED"
    <3>1. /\ Len(timeline'[Target(q)]) = Len(timeline[Target(q)]) + 1
          /\ timeline'[Target(q)][Len(timeline'[Target(q)])] =
                 [kind |-> "status", by |-> Asked(q).user, from |-> Read(q).status,
                  to |-> "COMPLETED"]
      BY <2>1, RecordGrows DEF ChangeStatus, At
    <3> QED BY <2>2, <3>1
  <2>5. Len(timeline'[b]) \in 1..Len(timeline'[b])
    BY <2>3, <2>4
  <2> QED BY <2>2, <2>4, <2>5 DEF HasBeen
<1>5. ASSUME NEW r \in Requests, Receive(q, r) PROVE FALSE
  BY <1>0, <1>5 DEF Receive, At
<1>6. ~CheckConflict(q) /\ ~PickBest(q) /\ ~Crash(q) /\ ~Accrue(q)
  BY <1>0, WhereTo DEF Crash, Accrue, At
<1> QED BY <1>2, <1>3, <1>4, <1>5, <1>6, WhoMoves DEF ReadStep

\* A commission is only added where there is none, for a completion on record.
LEMMA CommissionStep ==
    ASSUME TypeOK, CompletionsSeen, OneCommissionPerCompletion, [Next]_vars
    PROVE  OneCommissionPerCompletion'
<1> SUFFICES ASSUME NEW b \in Bookings, commissions'[b] # <<>>
             PROVE  /\ Len(commissions'[b]) = 1
                    /\ \E i \in 1..Len(timeline'[b]) : timeline'[b][i].to = "COMPLETED"
  BY DEF OneCommissionPerCompletion, HasCommission
<1>1. ASSUME HasBeen(b, "COMPLETED")
      PROVE  \E i \in 1..Len(timeline'[b]) : timeline'[b][i].to = "COMPLETED"
  <2>1. HasBeen(b, "COMPLETED")'
    BY <1>1, StillSeen
  <2> QED BY <2>1 DEF HasBeen
<1>2. CASE commissions'[b] = commissions[b]
  <2>1. Len(commissions[b]) = 1 /\ HasBeen(b, "COMPLETED")
    BY <1>2 DEF OneCommissionPerCompletion, HasCommission, HasBeen
  <2> QED BY <1>1, <1>2, <2>1
<1>3. ASSUME NEW s \in Sessions, Accrue(s), commissions'[b] # commissions[b]
      PROVE  Len(commissions'[b]) = 1 /\ HasBeen(b, "COMPLETED")
  <2>1. commissions \in [Bookings -> Seq(Technicians)]
    BY DEF TypeOK
  <2>2. b = Target(s) /\ commissions'[b] = <<Read(s).technician>>
    BY <1>3, <2>1 DEF Accrue
  <2>3. HasBeen(b, "COMPLETED")
    BY <1>3, <2>2 DEF CompletionsSeen, Accrue
  <2> QED BY <2>2, <2>3
<1>4. \/ commissions' = commissions
      \/ \E s \in Sessions : Accrue(s)
  BY WriteEffect DEF Next, WriteStep, vars, Receive, CheckConflict, PickBest,
     ReadForCommission, Crash
<1> QED BY <1>1, <1>2, <1>3, <1>4

\* A booking pays one commission at most, and only once it was completed, however
\* many completions, listeners and reopenings there were.
THEOREM CommissionsArePaidOnce == Spec => []OneCommissionPerCompletion
<1>1. Init => CompletionsSeen /\ OneCommissionPerCompletion
  BY DEF Init, CompletionsSeen, OneCommissionPerCompletion, HasCommission, Idle, At
<1>2. TypeOK /\ CompletionsSeen /\ OneCommissionPerCompletion /\ [Next]_vars
      => CompletionsSeen' /\ OneCommissionPerCompletion'
  BY CompletionsStep, CommissionStep
<1> QED BY <1>1, <1>2, TypeCorrect, PTL DEF Spec

-----------------------------------------------------------------------------
(* OTP attempts *)

\* The sessions that have a wrong code for the booking and have not counted it.
Guessing(b) ==
    {s \in Sessions : /\ At(s, "write") /\ Asked(s).op = "verifyOtp"
                      /\ ~Asked(s).right /\ Target(s) = b}

\* An attempt let in below the limit is either counted or still to be counted.
AttemptsInv ==
    \A b \in Bookings :
        bookings[b].otpAttempts + Cardinality(Guessing(b))
            <= MaxAttempts + Cardinality(Sessions) - 1

\* Whoever guesses after a step was guessing before, or was just let in.
LEMMA GuessersStep ==
    ASSUME TypeOK, [Next]_vars, NEW b \in Bookings, NEW q \in Guessing(b)'
    PROVE  \/ q \in Guessing(b) /\ session'[q] = session[q]
           \/ /\ bookings[b].otpAttempts < MaxAttempts
              /\ \E r \in Requests : Receive(q, r)
<1>0. /\ session \in [Sessions -> {Idle} \cup Working] /\ q \in Sessions /\ session'[q] # Idle
      /\ session'[q].step = "write" /\ session'[q].request.op = "verifyOtp"
      /\ session'[q].request.booking = b
  BY DEF TypeOK, At, Idle, Guessing, Asked, Target
<1>1. CASE session'[q] = session[q]
  BY <1>1 DEF Guessing, At, Asked, Target
<1>2. ASSUME NEW r \in Requests, Receive(q, r)
      PROVE  bookings[b].otpAttempts < MaxAttempts
  <2>1. session'[q].request = r
    BY <1>0, <1>2 DEF Receive
  <2>2. OtpUsable(bookings[b])
    BY <1>0, <1>2, <2>1 DEF Receive, Allowed
  <2> QED BY <2>2 DEF OtpUsable
<1>3. ~CheckConflict(q) /\ ~PickBest(q) /\ ~ReadForCommission(q) /\ ~WriteStep(q)
  BY <1>0, WhereTo DEF Asked
<1>4. ~Crash(q) /\ ~Accrue(q)
  BY <1>0, WhereTo DEF Crash, Accrue
<1> QED BY <1>0, <1>1, <1>2, <1>3, <1>4, WhoMoves DEF ReadStep

\* Only a new code resets the counter, only a wrong code raises it, by one.
LEMMA AttemptsEffect ==
    ASSUME TypeOK, [Next]_vars, NEW b \in Bookings
    PROVE  \/ bookings'[b].otpAttempts = bookings[b].otpAttempts
           \/ \E s \in Sessions : SendArrivalOtp(s) /\ bookings'[b].otpAttempts = 0
           \/ \E s \in Sessions : /\ WrongOtp(s) /\ s \in Guessing(b)
                                  /\ bookings'[b].otpAttempts = bookings[b].otpAttempts + 1
<1>0. bookings \in [Bookings -> BookingRows]
  BY DEF TypeOK
<1>1. CASE bookings' = bookings
  BY <1>1
<1>2. ASSUME NEW s \in Sessions, WriteStep(s), bookings'[b] # bookings[b]
      PROVE  b = Target(s) /\ Row(s) \in BookingRows
  <2>1. ~At(s, "idle")
    BY <1>2, WriteEffect DEF At
  <2> QED BY <1>0, <1>2, <2>1, WriteEffect, WorkingSession DEF Write
<1>3. ASSUME NEW s \in Sessions, WriteStep(s), ~SendArrivalOtp(s), ~WrongOtp(s),
             b = Target(s), Row(s) \in BookingRows
      PROVE  bookings'[b].otpAttempts = bookings[b].otpAttempts
  <2>0. \A t, u, h, v :
          /\ [Row(s) EXCEPT !.technician = t, !.status = u].otpAttempts = Row(s).otpAttempts
          /\ [Row(s) EXCEPT !.status = u].otpAttempts = Row(s).otpAttempts
          /\ [Row(s) EXCEPT !.at = h, !.status = u].otpAttempts = Row(s).otpAttempts
          /\ [Row(s) EXCEPT !.at = h].otpAttempts = Row(s).otpAttempts
          /\ [Row(s) EXCEPT !.otpVerified = v, !.status = u].otpAttempts = Row(s).otpAttempts
    BY <1>3 DEF BookingRows
  <2>1. Row(s) = bookings[b]
    BY <1>3 DEF Row
  <2>2. CASE Assign(s)
    <3>1. PICK t, u : bookings' = [bookings EXCEPT ![b] = [Row(s) EXCEPT !.technician = t, !.status = u]]
      BY <1>3, <2>2 DEF Assign, Write
    <3> QED BY <1>0, <2>0, <2>1, <3>1
  <2>3. CASE ChangeStatus(s)
    <3>1. PICK u : bookings' = [bookings EXCEPT ![b] = [Row(s) EXCEPT !.status = u]]
      BY <1>3, <2>3 DEF ChangeStatus, Write
    <3> QED BY <1>0, <2>0, <2>1, <3>1
  <2>4. CASE Reschedule(s)
    <3>1. PICK h, u : bookings' = [bookings EXCEPT ![b] = [Row(s) EXCEPT !.at = h, !.status = u]]
      BY <1>3, <2>4 DEF Reschedule, Write
    <3> QED BY <1>0, <2>0, <2>1, <3>1
  <2>5. CASE Update(s)
    <3>1. PICK h : bookings' = [bookings EXCEPT ![b] = [Row(s) EXCEPT !.at = h]]
      BY <1>3, <2>5 DEF Update, Write
    <3> QED BY <1>0, <2>0, <2>1, <3>1
  <2>6. CASE VerifyArrivalOtp(s)
    <3>1. PICK v, u : bookings' = [bookings EXCEPT ![b] = [Row(s) EXCEPT !.otpVerified = v, !.status = u]]
      BY <1>3, <2>6 DEF VerifyArrivalOtp, Write
    <3> QED BY <1>0, <2>0, <2>1, <3>1
  <2> QED BY <1>3, <2>2, <2>3, <2>4, <2>5, <2>6 DEF WriteStep
<1>4. ASSUME NEW s \in Sessions, SendArrivalOtp(s), b = Target(s), Row(s) \in BookingRows
      PROVE  bookings'[b].otpAttempts = 0
  BY <1>0, <1>4 DEF SendArrivalOtp, Write, BookingRows
<1>5. ASSUME NEW s \in Sessions, WrongOtp(s), b = Target(s), Row(s) \in BookingRows
      PROVE  s \in Guessing(b) /\ bookings'[b].otpAttempts = bookings[b].otpAttempts + 1
  BY <1>0, <1>5 DEF WrongOtp, Write, Row, BookingRows, Guessing
<1>6. bookings' = bookings \/ \E s \in Sessions : WriteStep(s)
  BY DEF Next, WriteStep, vars, Receive, CheckConflict, PickBest, ReadForCommission,
         Accrue, Crash
<1> QED BY <1>1, <1>2, <1>3, <1>4, <1>5, <1>6

\* Counted and uncounted attempts together stay within the bound.
LEMMA AttemptsStep ==
    ASSUME TypeOK, AttemptsInv, [Next]_vars
    PROVE  AttemptsInv'
<1> SUFFICES ASSUME NEW b \in Bookings
             PROVE  bookings'[b].otpAttempts + Cardinality(Guessing(b)')
                        <= MaxAttempts + Cardinality(Sessions) - 1
  BY DEF AttemptsInv
<1> DEFINE old == Guessing(b)
           new == Guessing(b)'
<1>1. /\ old \subseteq Sessions /\ new \subseteq Sessions
      /\ IsFiniteSet(Sessions) /\ MaxAttempts \in Nat \ {0}
  BY BookingAssumption DEF Guessing
<1>2. /\ IsFiniteSet(old) /\ IsFiniteSet(new)
      /\ Cardinality(old) \in Nat /\ Cardinality(new) \in Nat /\ Cardinality(Sessions) \in Nat
      /\ Cardinality(new) <= Cardinality(Sessions)
  <2> HIDE DEF old, new
  <2> QED BY <1>1, FS_Subset, FS_CardinalityType
<1>3. /\ bookings[b].otpAttempts \in Nat
      /\ bookings[b].otpAttempts + Cardinality(old) <= MaxAttempts + Cardinality(Sessions) - 1
  BY DEF TypeOK, BookingRows, AttemptsInv
<1>4. CASE \E q \in new : \E r \in Requests : Receive(q, r)
  <2>1. PICK q \in new : \E r \in Requests : Receive(q, r)
    BY <1>4
  <2>2. session'[q] # session[q] /\ UNCHANGED bookings
    <3>1. session \in [Sessions -> {Idle} \cup Working] /\ q \in Sessions
      BY <1>1 DEF TypeOK
    <3> QED BY <2>1, <3>1 DEF Receive, At
  <2>3. bookings[b].otpAttempts < MaxAttempts
    BY <2>1, <2>2, GuessersStep
  <2> QED BY <1>1, <1>2, <1>3, <2>2, <2>3
<1>5. CASE ~ \E q \in new : \E r \in Requests : Receive(q, r)
  <2>1. \A q \in new : q \in old /\ session'[q] = session[q]
    BY <1>5, GuessersStep
  <2>2. new \subseteq old
    BY <2>1
  <2>3. Cardinality(new) <= Cardinality(old)
    <3> HIDE DEF old, new
    <3> QED BY <1>2, <2>2, FS_Subset
  <2>4. CASE bookings'[b].otpAttempts = bookings[b].otpAttempts
    BY <1>1, <1>2, <1>3, <2>3, <2>4
  <2>5. ASSUME NEW s \in Sessions, SendArrivalOtp(s) \/ WrongOtp(s)
        PROVE  s \notin new
    <3>1. session'[s] = Idle /\ Idle.step = "idle"
      BY <2>5 DEF SendArrivalOtp, WrongOtp, Done, TypeOK, Idle
    <3> QED BY <3>1 DEF Guessing, At
  <2>6. ASSUME NEW s \in Sessions, SendArrivalOtp(s), bookings'[b].otpAttempts = 0
        PROVE  bookings'[b].otpAttempts + Cardinality(new)
                   <= MaxAttempts + Cardinality(Sessions) - 1
    <3>1. s \notin new
      BY <2>5, <2>6
    <3> HIDE DEF old, new
    <3>2. Cardinality(Sessions \ {s}) = Cardinality(Sessions) - 1 /\ IsFiniteSet(Sessions \ {s})
      BY <1>1, FS_RemoveElement
    <3>3. new \subseteq Sessions \ {s}
      BY <1>1, <3>1
    <3>4. Cardinality(new) <= Cardinality(Sessions) - 1
      BY <3>2, <3>3, FS_Subset
    <3> QED BY <1>1, <1>2, <2>6, <3>4
  <2>7. ASSUME NEW s \in old, WrongOtp(s),
               bookings'[b].otpAttempts = bookings[b].otpAttempts + 1
        PROVE  bookings'[b].otpAttempts + Cardinality(new)
                   <= MaxAttempts + Cardinality(Sessions) - 1
    <3>1. s \notin new
      BY <1>1, <2>5, <2>7
    <3> HIDE DEF old, new
    <3>2. Cardinality(old \ {s}) = Cardinality(old) - 1 /\ IsFiniteSet(old \ {s})
      BY <1>2, FS_RemoveElement
    <3>3. new \subseteq old \ {s}
      BY <2>2, <3>1
    <3>4. Cardinality(new) <= Cardinality(old) - 1
      BY <3>2, <3>3, FS_Subset
    <3> QED BY <1>1, <1>2, <1>3, <2>7, <3>4
  <2> QED BY <2>4, <2>6, <2>7, AttemptsEffect
<1> QED BY <1>4, <1>5

\* Parallel guesses overshoot the attempt limit, never by more than the other requests
\* that may be in flight at once.
THEOREM GuessesAreBounded == Spec => []AttemptsBounded
<1>1. Init => AttemptsInv
  <2> SUFFICES ASSUME Init, NEW b \in Bookings
               PROVE  bookings[b].otpAttempts + Cardinality(Guessing(b))
                          <= MaxAttempts + Cardinality(Sessions) - 1
    BY DEF AttemptsInv
  <2>1. Guessing(b) = {} /\ bookings[b].otpAttempts = 0
    BY DEF Init, Guessing, Idle, At
  <2>2. Cardinality(Guessing(b)) = 0
    BY <2>1, FS_EmptySet
  <2>3. Cardinality(Sessions) \in Nat /\ MaxAttempts \in Nat /\ MaxAttempts >= 1
    BY BookingAssumption, FS_CardinalityType
  <2> QED BY <2>1, <2>2, <2>3
<1>2. TypeOK /\ AttemptsInv /\ [Next]_vars => AttemptsInv'
  BY AttemptsStep
<1>3. TypeOK /\ AttemptsInv => AttemptsBounded
  <2> SUFFICES ASSUME TypeOK, AttemptsInv, NEW b \in Bookings
               PROVE  bookings[b].otpAttempts <= MaxAttempts + Cardinality(Sessions) - 1
    BY DEF AttemptsBounded
  <2>1. Guessing(b) \subseteq Sessions /\ IsFiniteSet(Sessions) /\ MaxAttempts \in Nat
    BY BookingAssumption DEF Guessing
  <2>2. Cardinality(Guessing(b)) \in Nat /\ Cardinality(Sessions) \in Nat
    BY <2>1, FS_Subset, FS_CardinalityType
  <2>3. bookings[b].otpAttempts \in Nat
    BY DEF TypeOK, BookingRows
  <2> QED BY <2>1, <2>2, <2>3 DEF AttemptsInv
<1> QED BY <1>1, <1>2, <1>3, TypeCorrect, PTL DEF Spec

=============================================================================
