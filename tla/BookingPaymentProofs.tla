------------------------ MODULE BookingPaymentProofs ------------------------
(***************************************************************************)
(* Bookings for every number of legs, sessions, requests, jobs and         *)
(* crashes.  What a leg reads as paid is backed by money, the driver       *)
(* collects only with a reason, and the handlers implement PaymentLedger;  *)
(* a booking is linked to its newest job, has at most one, and passes its  *)
(* cancellations and amendments on to it; a payment reaches both legs of a *)
(* trip and stays, and brings its invoice.                                 *)
(***************************************************************************)
EXTENDS BookingPayment, FiniteSetTheorems, TLAPS

-----------------------------------------------------------------------------
(***************************************************************************)
(* References and invoice numbers.                                         *)
(***************************************************************************)
\* The highest of finitely many numbers: what lies above one of them is a
\* smaller set than what lies above a lower one, and there is a smallest.
LEMMA HighestIsThere ==
  ASSUME NEW S \in SUBSET Nat, S # {}, IsFiniteSet(S)
  PROVE  Highest(S) \in S /\ \A m \in S : m <= Highest(S)
<1> DEFINE Above(n) == {m \in S : m > n}
           T == {Above(n) : n \in S}
<1>1. IsWellFoundedOn(StrictSubsetOrdering(S), FiniteSubsetsOf(S))
  BY FS_StrictSubsetOrderingWellFounded
<1>2. T \subseteq FiniteSubsetsOf(S) /\ T # {}
  <2>1. ASSUME NEW n \in S PROVE Above(n) \in SUBSET S /\ IsFiniteSet(Above(n))
    BY FS_Subset
  <2>2. QED
    BY <2>1 DEF FiniteSubsetsOf
<1>3. PICK U \in T : \A V \in T : ~ (<<V, U>> \in StrictSubsetOrdering(S))
  BY <1>1, <1>2, WFMin
<1>4. PICK n \in S : U = Above(n)
  BY <1>3
<1>5. ASSUME NEW k \in S, k > n PROVE FALSE
  <2>1. Above(k) \in T /\ Above(k) \in SUBSET S /\ Above(n) \in SUBSET S
    OBVIOUS
  <2>2. Above(k) \subseteq Above(n) /\ k \in Above(n) /\ k \notin Above(k)
    <3>1. k \in Nat /\ n \in Nat /\ k > n
      BY <1>5
    <3>2. \A m \in S : m > k => m > n
      BY <3>1
    <3>3. ~ (k > k)
      BY <3>1
    <3>4. Above(k) \subseteq Above(n)
      BY <3>2, Zenon
    <3>5. k \in Above(n) /\ k \notin Above(k)
      BY <1>5, <3>3, Zenon
    <3>6. QED
      BY <3>4, <3>5, Zenon
  <2>3. <<Above(k), U>> \in StrictSubsetOrdering(S)
    BY <1>4, <2>1, <2>2 DEF StrictSubsetOrdering
  <2>4. QED
    BY <1>3, <2>1, <2>3
<1>6. \A m \in S : m <= n
  BY <1>5
<1>7. QED
  BY <1>6 DEF Highest

LEMMA RefIsNumber ==
  ASSUME NEW S \in SUBSET Nat, IsFiniteSet(S)
  PROVE  OfficeRef(S) \in Nat /\ TextRef(S) \in Nat
<1>1. OfficeRef(S) \in Nat
  <2>1. CASE S = {}
    BY <2>1 DEF OfficeRef
  <2>2. CASE S # {}
    <3>1. Highest(S) \in Nat
      BY <2>2, HighestIsThere
    <3>2. QED
      BY <2>2, <3>1 DEF OfficeRef
  <2>3. QED
    BY <2>1, <2>2
<1>2. QED
  BY <1>1, Constants DEF TextRef

LEMMA CreatedIsFinite ==
  Created \in SUBSET Nat /\ IsFiniteSet(Created)
<1>1. IsFiniteSet(1..MaxJobs)
  BY Constants, FS_Interval
<1>2. QED
  BY <1>1, FS_Subset, Constants DEF Created

LEMMA NumbersAreFinite ==
  ASSUME TypeOK
  PROVE  NumbersUsed \in SUBSET Nat /\ IsFiniteSet(NumbersUsed)
<1> DEFINE D == {m \in Legs : invoice[m] # NoInvoice}
           f == [l \in D |-> invoice[l].no]
<1>1. IsFiniteSet(D)
  BY Constants, FS_Subset
<1>2. f \in Surjection(D, NumbersUsed)
  BY DEF Surjection, NumbersUsed
<1>3. IsFiniteSet(NumbersUsed)
  BY <1>1, <1>2, FS_Surjection
<1>4. QED
  BY <1>3 DEF TypeOK, InvoiceRow, NumbersUsed

-----------------------------------------------------------------------------
(***************************************************************************)
(* Types.                                                                  *)
(***************************************************************************)
\* Only Stripe sessions are answered.
Typed ==
  /\ TypeOK
  /\ \A r \in Requests : req[r].op = "stripe" => req[r].session \in StripeSessions

\* Request r has become q, and the others are as they were.
Becomes(r, q) ==
  /\ req' \in [Requests -> Request] /\ req'[r] = q
  /\ \A o \in Requests \ {r} : req'[o] = req[o]

Statements ==
  {"idle", "session", "transaction", "booking", "mirror", "flag", "invoice", "number",
   "insert", "create", "read", "ref", "job", "cancel", "stopJob", "amend", "moveJob"}

LEMMA IdleIsRequest == Idle \in Request
BY Constants DEF Idle, Request

LEMMA AdmitEffect ==
  ASSUME Typed, NEW r \in Requests, NEW q \in Request, Admit(r, q)
  PROVE  Becomes(r, q) /\ torn' \subseteq Legs /\ UNCHANGED <<grouped, crashes>>
<1>1. Becomes(r, q)
  BY DEF Typed, TypeOK, Admit, Becomes
<1>2. Touches(q) \subseteq Legs
  BY DEF Touches, Family, Request
<1>3. QED
  BY <1>1, <1>2 DEF Typed, TypeOK, Admit, Overlaps

LEMMA AtIsRequest ==
  ASSUME NEW q \in Request, NEW statement \in Statements
  PROVE  [q EXCEPT !.at = statement] \in Request
BY DEF Request, Statements

LEMMA GoesEffect ==
  ASSUME Typed, NEW r \in Requests, NEW statement \in Statements, Goes(r, statement)
  PROVE  /\ Becomes(r, [req[r] EXCEPT !.at = statement])
         /\ UNCHANGED <<grouped, acked, torn, crashes>>
<1>1. req' = [req EXCEPT ![r] = [req[r] EXCEPT !.at = statement]]
  BY DEF Goes
<1>2. [req[r] EXCEPT !.at = statement] \in Request
  BY AtIsRequest DEF Typed, TypeOK
<1>3. QED
  BY <1>1, <1>2 DEF Typed, TypeOK, Becomes, Goes

LEMMA EndsEffect ==
  ASSUME Typed, NEW r \in Requests, Ends(r)
  PROVE  /\ Becomes(r, Idle) /\ acked' \subseteq StripeSessions
         /\ UNCHANGED <<grouped, torn, crashes>>
BY IdleIsRequest DEF Typed, TypeOK, Becomes, Ends

-----------------------------------------------------------------------------
(***************************************************************************)
(* The inductive invariant.                                                *)
(***************************************************************************)
\* A session that has a transaction row is known to the gateway, and only
\* GetPayIn refuses.
Rows ==
  \A s \in Sessions :
    /\ money[s] = "none" <=> tx[s].leg = NoLeg
    /\ s \in StripeSessions => money[s] # "declined"

\* Money was captured for leg l.
Backed(l) == \E s \in Sessions : money[s] = "captured" /\ l \in Covers(s)

\* What request q knows is true: the session it is to open, the result it
\* brings and the job it saw, the payment its invoice will state.
Sound(q) ==
  /\ q.op = "stripe" => q.session \in StripeSessions
  /\ q.at \notin {"idle", "ref", "job"} => q.leg \in Legs
  /\ q.at = "session" => q.session \in Sessions /\ money[q.session] = "none"
  /\ q.at \in {"transaction", "booking", "mirror", "flag"} =>
       /\ q.session \in Sessions /\ tx[q.session].leg = q.leg
       /\ money[q.session] = IF q.paid THEN "captured" ELSE "declined"
       /\ q.job # 0 => jobs[q.job].exists /\ jobs[q.job].leg = q.leg
  /\ q.at = "mirror" => grouped
  /\ q.at = "flag" => ~q.paid /\ q.job # 0
  /\ q.at \in {"number", "insert"} /\ q.paid => Backed(q.leg)

\* No two requests have the same session to open.
Alone ==
  \A r, o \in Requests :
    req[r].at = "session" /\ r # o => req[o].session # req[r].session

\* A booking's job is one that was made for it.
Linked ==
  \A l \in Legs :
    booking[l].job # 0 => jobs[booking[l].job].exists /\ jobs[booking[l].job].leg = l

\* What is collected is collected for a booking.
Collected ==
  \A n \in Created : jobs[n].collect => jobs[n].leg \in Legs

IInv ==
  /\ Typed /\ Rows /\ Alone /\ Linked /\ Collected /\ PaidIsBacked /\ CashHasReason
  /\ \A r \in Requests : Sound(req[r])

\* Sessions keep their legs and results, jobs their bookings, bookings their
\* method: what a request knows stays true.
Grows ==
  /\ UNCHANGED grouped
  /\ \A s \in Sessions : tx[s].leg # NoLeg => tx'[s].leg = tx[s].leg
  /\ \A s \in Sessions : money[s] \in {"captured", "declined"} => money'[s] = money[s]
  /\ \A n \in 1..MaxJobs : jobs[n].exists => jobs'[n].exists /\ jobs'[n].leg = jobs[n].leg
  /\ \A l \in Legs : booking'[l].method = booking[l].method

LEMMA BackedStays ==
  ASSUME Typed, Rows, Grows, NEW l \in Legs, Backed(l)
  PROVE  Backed(l)'
<1>1. PICK s \in Sessions : money[s] = "captured" /\ l \in Covers(s)
  BY DEF Backed
<1>2. money'[s] = "captured" /\ tx'[s].leg = tx[s].leg
  BY <1>1 DEF Grows, Rows
<1>3. Covers(s)' = Covers(s)
  BY <1>2 DEF Covers, Family, Grows
<1>4. QED
  BY <1>1, <1>2, <1>3 DEF Backed

LEMMA SoundStays ==
  ASSUME Typed, Rows, Grows, NEW q \in Request, Sound(q),
         q.at = "session" => money'[q.session] = "none"
  PROVE  Sound(q)'
<1>1. q.job # 0 => q.job \in 1..MaxJobs
  BY Constants DEF Request
<1>2. q.at \in {"transaction", "booking", "mirror", "flag"} =>
        /\ q.session \in Sessions /\ q.leg \in Legs /\ tx'[q.session].leg = q.leg
        /\ money'[q.session] = IF q.paid THEN "captured" ELSE "declined"
        /\ q.job # 0 => jobs'[q.job].exists /\ jobs'[q.job].leg = q.leg
  BY <1>1, Constants DEF Sound, Grows
<1>3. q.at \in {"number", "insert"} /\ q.paid => q.leg \in Legs /\ Backed(q.leg)'
  BY BackedStays DEF Sound
<1>4. QED
  BY <1>2, <1>3 DEF Sound, Grows

\* The invariant from what request r has become.
LEMMA Assemble ==
  ASSUME IInv, Typed', Grows, Rows', Linked', Collected', PaidIsBacked',
         CashHasReason',
         NEW r \in Requests, NEW q \in Request, Becomes(r, q), Sound(q)',
         \A o \in Requests \ {r} : req[o].at = "session" =>
           money'[req[o].session] = "none" /\ req[o].session # q.session,
         q.at = "session" => \A o \in Requests \ {r} : req[o].session # q.session
  PROVE  IInv'
<1>1. ASSUME NEW o \in Requests PROVE Sound(req[o])'
  <2>1. CASE o = r
    BY <2>1 DEF Becomes
  <2>2. CASE o # r
    <3>1. req[o] \in Request /\ Sound(req[o]) /\ req'[o] = req[o]
      BY <2>2 DEF IInv, Typed, TypeOK, Becomes
    <3>2. PICK k \in Request : k = req[o]
      BY <3>1
    <3>3. Sound(k)'
      BY <2>2, <3>1, <3>2, SoundStays DEF IInv
    <3>4. QED
      BY <3>1, <3>2, <3>3
  <2>3. QED
    BY <2>1, <2>2
<1>2. Alone'
  BY DEF IInv, Alone, Becomes
<1>3. QED
  BY <1>1, <1>2 DEF IInv

\* What is paid, linked and collected stands.
Stands ==
  /\ UNCHANGED <<grouped, tx, money, invoice>>
  /\ \A l \in Legs :
       /\ booking'[l].payment = booking[l].payment
       /\ booking'[l].method = booking[l].method /\ booking'[l].job = booking[l].job
  /\ \A n \in 1..MaxJobs :
       /\ jobs'[n].exists = jobs[n].exists
       /\ jobs'[n].leg = jobs[n].leg /\ jobs'[n].collect = jobs[n].collect

LEMMA StandsEffect ==
  ASSUME IInv, Stands
  PROVE  Grows /\ Rows' /\ Linked' /\ Collected' /\ PaidIsBacked' /\ CashHasReason'
<1>1. Grows
  BY DEF Stands, Grows
<1>2. Rows'
  BY DEF IInv, Rows, Stands
<1>3. Linked'
  <2>1. \A l \in Legs : booking[l].job \in 0..MaxJobs
    BY DEF IInv, Typed, TypeOK, BookingRow
  <2>2. QED
    BY <2>1, Constants DEF IInv, Linked, Stands
<1>4. PaidIsBacked'
  BY DEF IInv, PaidIsBacked, Covers, Family, Stands
<1>5. CashHasReason'
  <2>1. ASSUME NEW n \in Created', jobs'[n].collect
        PROVE  \/ booking'[jobs'[n].leg].method = "PAY_ON_ARRIVAL"
               \/ \E s \in Sessions : money'[s] = "declined" /\ tx'[s].leg = jobs'[n].leg
    <3>1. n \in Created /\ jobs[n].collect /\ jobs'[n].leg = jobs[n].leg
      BY <2>1 DEF Created, Stands
    <3>2. jobs[n].leg \in Legs => booking'[jobs[n].leg].method = booking[jobs[n].leg].method
      BY DEF Stands
    <3>3. jobs[n].leg \in Legs
      BY <3>1 DEF Created, IInv, Collected
    <3>4. QED
      BY <3>1, <3>2, <3>3 DEF IInv, CashHasReason, Stands
  <2>2. QED
    BY <2>1 DEF CashHasReason
<1>6. Collected'
  BY DEF IInv, Collected, Created, Stands
<1>7. QED
  BY <1>1, <1>2, <1>3, <1>4, <1>5, <1>6

LEMMA PlainAssemble ==
  ASSUME IInv, Typed', Stands, NEW r \in Requests, NEW q \in Request,
         Becomes(r, q), Sound(q)', q.at # "session",
         \A o \in Requests \ {r} : req[o].at = "session" => req[o].session # q.session
  PROVE  IInv'
<1>1. \A o \in Requests \ {r} : req[o].at = "session" => money'[req[o].session] = "none"
  BY DEF IInv, Sound, Stands
<1>2. QED
  BY <1>1, StandsEffect, Assemble

-----------------------------------------------------------------------------
(***************************************************************************)
(* The steps that stand on what is paid, linked and collected.             *)
(***************************************************************************)
LEMMA IdleIsSound == Sound(Idle)'
BY DEF Sound, Idle

LEMMA EditedJob ==
  ASSUME NEW row \in JobRow, NEW d \in Schedules
  PROVE  /\ [row EXCEPT !.status = "CANCELLED"] \in JobRow
         /\ [row EXCEPT !.date = d] \in JobRow
         /\ [row EXCEPT !.collect = TRUE] \in JobRow
BY DEF JobRow

LEMMA PartnerJobKeeps ==
  ASSUME IInv, NEW r \in Requests, NEW l \in Legs, PartnerJob(r, l)
  PROVE  IInv'
<1>1. [Idle EXCEPT !.op = "partner", !.leg = l,
               !.at = IF booking[l].status = "ABSENT" THEN "create" ELSE "read"]
        \in Request
  BY Constants, IdleIsRequest DEF IInv, Typed, TypeOK, BookingRow, Idle, Request, AllOps
<1>2. PICK q \in Request :
        q = [Idle EXCEPT !.op = "partner", !.leg = l,
               !.at = IF booking[l].status = "ABSENT" THEN "create" ELSE "read"]
  BY <1>1
<1>3. Becomes(r, q) /\ torn' \subseteq Legs /\ UNCHANGED <<grouped, crashes>>
  BY <1>2, AdmitEffect DEF IInv, PartnerJob
<1>4. Typed'
  BY <1>2, <1>3 DEF IInv, Typed, TypeOK, Becomes, PartnerJob, gateway, Idle
<1>5. Stands
  BY <1>3 DEF Stands, PartnerJob, gateway
<1>6. Sound(q)' /\ q.at # "session" /\ q.session = NoSession
  BY <1>2 DEF Sound, Idle
<1>7. \A o \in Requests \ {r} : req[o].at = "session" => req[o].session # q.session
  BY <1>6, Constants DEF IInv, Sound
<1>8. QED
  BY <1>3, <1>4, <1>5, <1>6, <1>7, PlainAssemble

LEMMA ConvertToJobKeeps ==
  ASSUME IInv, NEW r \in Requests, NEW l \in Legs, ConvertToJob(r, l)
  PROVE  IInv'
<1>1. [Idle EXCEPT !.op = "convert", !.leg = l, !.at = "ref",
                            !.date = booking[l].date]
        \in Request
  <2>1. booking[l].date \in Schedules
    BY DEF IInv, Typed, TypeOK, BookingRow
  <2>2. QED
    BY <2>1, IdleIsRequest DEF Idle, Request, AllOps
<1>2. PICK q \in Request :
        q = [Idle EXCEPT !.op = "convert", !.leg = l, !.at = "ref",
                            !.date = booking[l].date]
  BY <1>1
<1>3. Becomes(r, q) /\ torn' \subseteq Legs /\ UNCHANGED <<grouped, crashes>>
  BY <1>2, AdmitEffect DEF IInv, ConvertToJob
<1>4. Typed'
  BY <1>2, <1>3 DEF IInv, Typed, TypeOK, Becomes, ConvertToJob, gateway, Idle
<1>5. Stands
  BY <1>3 DEF Stands, ConvertToJob, gateway
<1>6. Sound(q)' /\ q.at # "session" /\ q.session = NoSession
  BY <1>2 DEF Sound, Idle
<1>7. \A o \in Requests \ {r} : req[o].at = "session" => req[o].session # q.session
  BY <1>6, Constants DEF IInv, Sound
<1>8. QED
  BY <1>3, <1>4, <1>5, <1>6, <1>7, PlainAssemble

LEMMA OfficeJobKeeps ==
  ASSUME IInv, NEW r \in Requests, OfficeJob(r)
  PROVE  IInv'
<1>1. [Idle EXCEPT !.op = "office", !.at = "ref"]
        \in Request
  BY Constants, IdleIsRequest DEF IInv, Typed, TypeOK, BookingRow, Idle, Request, AllOps
<1>2. PICK q \in Request :
        q = [Idle EXCEPT !.op = "office", !.at = "ref"]
  BY <1>1
<1>3. Becomes(r, q) /\ torn' \subseteq Legs /\ UNCHANGED <<grouped, crashes>>
  BY <1>2, AdmitEffect DEF IInv, OfficeJob
<1>4. Typed'
  BY <1>2, <1>3 DEF IInv, Typed, TypeOK, Becomes, OfficeJob, gateway, Idle
<1>5. Stands
  BY <1>3 DEF Stands, OfficeJob, gateway
<1>6. Sound(q)' /\ q.at # "session" /\ q.session = NoSession
  BY <1>2 DEF Sound, Idle
<1>7. \A o \in Requests \ {r} : req[o].at = "session" => req[o].session # q.session
  BY <1>6, Constants DEF IInv, Sound
<1>8. QED
  BY <1>3, <1>4, <1>5, <1>6, <1>7, PlainAssemble

LEMMA AdminCancelKeeps ==
  ASSUME IInv, NEW r \in Requests, NEW l \in Legs, AdminCancel(r, l)
  PROVE  IInv'
<1>1. [Idle EXCEPT !.op = "adminCancel", !.leg = l, !.at = "cancel"]
        \in Request
  BY Constants, IdleIsRequest DEF IInv, Typed, TypeOK, BookingRow, Idle, Request, AllOps
<1>2. PICK q \in Request :
        q = [Idle EXCEPT !.op = "adminCancel", !.leg = l, !.at = "cancel"]
  BY <1>1
<1>3. Becomes(r, q) /\ torn' \subseteq Legs /\ UNCHANGED <<grouped, crashes>>
  BY <1>2, AdmitEffect DEF IInv, AdminCancel
<1>4. Typed'
  BY <1>2, <1>3 DEF IInv, Typed, TypeOK, Becomes, AdminCancel, gateway, Idle
<1>5. Stands
  BY <1>3 DEF Stands, AdminCancel, gateway
<1>6. Sound(q)' /\ q.at # "session" /\ q.session = NoSession
  BY <1>2 DEF Sound, Idle
<1>7. \A o \in Requests \ {r} : req[o].at = "session" => req[o].session # q.session
  BY <1>6, Constants DEF IInv, Sound
<1>8. QED
  BY <1>3, <1>4, <1>5, <1>6, <1>7, PlainAssemble

LEMMA GuestCancelKeeps ==
  ASSUME IInv, NEW r \in Requests, NEW l \in Legs, GuestCancel(r, l)
  PROVE  IInv'
<1>1. [Idle EXCEPT !.op = "guestCancel", !.leg = l, !.at = "cancel",
                            !.job = booking[l].job]
        \in Request
  <2>1. booking[l].job \in 0..MaxJobs
    BY DEF IInv, Typed, TypeOK, BookingRow
  <2>2. QED
    BY <2>1, IdleIsRequest DEF Idle, Request, AllOps
<1>2. PICK q \in Request :
        q = [Idle EXCEPT !.op = "guestCancel", !.leg = l, !.at = "cancel",
                            !.job = booking[l].job]
  BY <1>1
<1>3. Becomes(r, q) /\ torn' \subseteq Legs /\ UNCHANGED <<grouped, crashes>>
  BY <1>2, AdmitEffect DEF IInv, GuestCancel
<1>4. Typed'
  BY <1>2, <1>3 DEF IInv, Typed, TypeOK, Becomes, GuestCancel, gateway, Idle
<1>5. Stands
  BY <1>3 DEF Stands, GuestCancel, gateway
<1>6. Sound(q)' /\ q.at # "session" /\ q.session = NoSession
  BY <1>2 DEF Sound, Idle
<1>7. \A o \in Requests \ {r} : req[o].at = "session" => req[o].session # q.session
  BY <1>6, Constants DEF IInv, Sound
<1>8. QED
  BY <1>3, <1>4, <1>5, <1>6, <1>7, PlainAssemble

LEMMA AmendBookingKeeps ==
  ASSUME IInv, NEW r \in Requests, NEW l \in Legs, NEW d \in Schedules, AmendBooking(r, l, d)
  PROVE  IInv'
<1>1. [Idle EXCEPT !.op = "amend", !.leg = l, !.at = "amend",
                            !.date = d, !.job = booking[l].job]
        \in Request
  <2>1. booking[l].job \in 0..MaxJobs
    BY DEF IInv, Typed, TypeOK, BookingRow
  <2>2. QED
    BY <2>1, IdleIsRequest DEF Idle, Request, AllOps
<1>2. PICK q \in Request :
        q = [Idle EXCEPT !.op = "amend", !.leg = l, !.at = "amend",
                            !.date = d, !.job = booking[l].job]
  BY <1>1
<1>3. Becomes(r, q) /\ torn' \subseteq Legs /\ UNCHANGED <<grouped, crashes>>
  BY <1>2, AdmitEffect DEF IInv, AmendBooking
<1>4. Typed'
  BY <1>2, <1>3 DEF IInv, Typed, TypeOK, Becomes, AmendBooking, gateway, Idle
<1>5. Stands
  BY <1>3 DEF Stands, AmendBooking, gateway
<1>6. Sound(q)' /\ q.at # "session" /\ q.session = NoSession
  BY <1>2 DEF Sound, Idle
<1>7. \A o \in Requests \ {r} : req[o].at = "session" => req[o].session # q.session
  BY <1>6, Constants DEF IInv, Sound
<1>8. QED
  BY <1>3, <1>4, <1>5, <1>6, <1>7, PlainAssemble

LEMMA StopJobKeeps ==
  ASSUME IInv, NEW r \in Requests, StopJob(r)
  PROVE  IInv'
<1>1. Becomes(r, Idle) /\ acked' \subseteq StripeSessions /\ UNCHANGED <<grouped, torn, crashes>>
  BY EndsEffect DEF IInv, StopJob
<1>2. Typed'
  <2>1. \A n \in 1..MaxJobs :
          jobs[n] \in JobRow /\ [jobs[n] EXCEPT !.status = "CANCELLED"] \in JobRow
    <3>1. jobs \in [1..MaxJobs -> JobRow] /\ req[r].date \in Schedules
      BY DEF IInv, Typed, TypeOK, Request
    <3>2. QED
      BY <3>1, EditedJob
  <2>2. jobs' = [n \in 1..MaxJobs |-> IF n = req[r].job
                   THEN [jobs[n] EXCEPT !.status = "CANCELLED"] ELSE jobs[n]]
    BY DEF IInv, Typed, TypeOK, StopJob
  <2>3. jobs' \in [1..MaxJobs -> JobRow]
    BY <2>1, <2>2
  <2>4. QED
    BY <1>1, <2>3 DEF IInv, Typed, TypeOK, Becomes, StopJob, Idle
<1>3. Stands
  BY <1>1 DEF IInv, Typed, TypeOK, JobRow, Stands, StopJob
<1>4. \A o \in Requests \ {r} : req[o].at = "session" => req[o].session # Idle.session
  BY Constants DEF IInv, Sound, Idle
<1>5. QED
  BY <1>1, <1>2, <1>3, <1>4, IdleIsRequest, IdleIsSound, PlainAssemble DEF Idle

LEMMA MoveJobKeeps ==
  ASSUME IInv, NEW r \in Requests, MoveJob(r)
  PROVE  IInv'
<1>1. Becomes(r, Idle) /\ acked' \subseteq StripeSessions /\ UNCHANGED <<grouped, torn, crashes>>
  BY EndsEffect DEF IInv, MoveJob
<1>2. Typed'
  <2>1. \A n \in 1..MaxJobs :
          jobs[n] \in JobRow /\ [jobs[n] EXCEPT !.date = req[r].date] \in JobRow
    <3>1. jobs \in [1..MaxJobs -> JobRow] /\ req[r].date \in Schedules
      BY DEF IInv, Typed, TypeOK, Request
    <3>2. QED
      BY <3>1, EditedJob
  <2>2. jobs' = [n \in 1..MaxJobs |-> IF n = req[r].job
                   THEN [jobs[n] EXCEPT !.date = req[r].date] ELSE jobs[n]]
    BY DEF IInv, Typed, TypeOK, MoveJob
  <2>3. jobs' \in [1..MaxJobs -> JobRow]
    BY <2>1, <2>2
  <2>4. QED
    BY <1>1, <2>3 DEF IInv, Typed, TypeOK, Becomes, MoveJob, Idle
<1>3. Stands
  BY <1>1 DEF IInv, Typed, TypeOK, JobRow, Stands, MoveJob
<1>4. \A o \in Requests \ {r} : req[o].at = "session" => req[o].session # Idle.session
  BY Constants DEF IInv, Sound, Idle
<1>5. QED
  BY <1>1, <1>2, <1>3, <1>4, IdleIsRequest, IdleIsSound, PlainAssemble DEF Idle

LEMMA NextNumberKeeps ==
  ASSUME IInv, NEW r \in Requests, NextNumber(r)
  PROVE  IInv'
<1>1. PICK q \in Request :
        q = [req[r] EXCEPT !.at = "insert", !.no = TextRef(NumbersUsed)]
  <2>1. TextRef(NumbersUsed) \in Nat
    BY NumbersAreFinite, RefIsNumber DEF IInv, Typed
  <2>2. req[r] \in Request
    BY DEF IInv, Typed, TypeOK
  <2>3. QED
    BY <2>1, <2>2 DEF Request
<1>2. Becomes(r, q) /\ UNCHANGED <<grouped, acked, torn, crashes>>
  <2>1. req' = [req EXCEPT ![r] = q]
    BY <1>1 DEF IInv, Typed, TypeOK, Request, NextNumber
  <2>2. QED
    BY <2>1 DEF IInv, Typed, TypeOK, Becomes, NextNumber
<1>3. Typed'
  <2>1. q.op = req[r].op /\ q.session = req[r].session
    BY <1>1 DEF IInv, Typed, TypeOK, Request
  <2>2. QED
    BY <1>2, <2>1 DEF IInv, Typed, TypeOK, Becomes, NextNumber
<1>4. Stands
  BY <1>2 DEF Stands, NextNumber
<1>5. Sound(q)' /\ q.at # "session" /\ q.session = req[r].session
  BY <1>1, <1>4, StandsEffect, BackedStays DEF IInv, Typed, TypeOK, Request, Sound, NextNumber, At, Stands
<1>6. \A o \in Requests \ {r} : req[o].at = "session" => req[o].session # q.session
  BY <1>5 DEF IInv, Alone
<1>7. QED
  BY <1>2, <1>3, <1>4, <1>5, <1>6, PlainAssemble

LEMMA GenerateInternalRefKeeps ==
  ASSUME IInv, NEW r \in Requests, GenerateInternalRef(r)
  PROVE  IInv'
<1>1. PICK q \in Request :
        q = [req[r] EXCEPT !.at = "job", !.no = IF req[r].op = "office"
                             THEN OfficeRef(Created) ELSE TextRef(Created)]
  <2>1. OfficeRef(Created) \in Nat /\ TextRef(Created) \in Nat
    BY CreatedIsFinite, RefIsNumber
  <2>2. req[r] \in Request
    BY DEF IInv, Typed, TypeOK
  <2>3. QED
    BY <2>1, <2>2 DEF Request
<1>2. Becomes(r, q) /\ UNCHANGED <<grouped, acked, torn, crashes>>
  <2>1. req' = [req EXCEPT ![r] = q]
    BY <1>1 DEF IInv, Typed, TypeOK, Request, GenerateInternalRef
  <2>2. QED
    BY <2>1 DEF IInv, Typed, TypeOK, Becomes, GenerateInternalRef
<1>3. Typed'
  BY <1>1, <1>2 DEF IInv, Typed, TypeOK, Becomes, GenerateInternalRef
<1>4. Stands
  BY <1>2 DEF Stands, GenerateInternalRef
<1>5. Sound(q)' /\ q.at # "session" /\ q.session = req[r].session
  BY <1>1, <1>4, StandsEffect, BackedStays DEF IInv, Typed, TypeOK, Request, Sound, GenerateInternalRef, At, Stands
<1>6. \A o \in Requests \ {r} : req[o].at = "session" => req[o].session # q.session
  BY <1>5 DEF IInv, Alone
<1>7. QED
  BY <1>2, <1>3, <1>4, <1>5, <1>6, PlainAssemble

\* A statement after which nothing is owed to the request.
Free == {"idle", "invoice", "create", "read", "ref", "job", "cancel", "stopJob",
         "amend", "moveJob"}

LEMMA FreeIsSound ==
  ASSUME NEW q \in Request, q.at \in Free, q.leg \in Legs \/ q = Idle,
         q.op = "stripe" => q.session \in StripeSessions
  PROVE  Sound(q)'
BY DEF Sound, Free, Idle

\* What request r is after a statement that goes on, or ends.
Next_(r, q, statement) ==
  \/ q = Idle
  \/ /\ q.at = statement /\ q.op = req[r].op /\ q.leg = req[r].leg
     /\ q.session = req[r].session /\ q.paid = req[r].paid /\ q.job = req[r].job

LEMMA GoesOrEnds ==
  ASSUME IInv, NEW r \in Requests, NEW statement \in Statements,
         Goes(r, statement) \/ Ends(r)
  PROVE  /\ \E q \in Request : Becomes(r, q) /\ Next_(r, q, statement)
         /\ acked' \subseteq StripeSessions /\ UNCHANGED <<grouped, torn, crashes>>
<1>1. CASE Goes(r, statement)
  <2>1. PICK q \in Request : q = [req[r] EXCEPT !.at = statement]
    <3>1. req[r] \in Request
      BY DEF IInv, Typed, TypeOK
    <3>2. QED
      BY <3>1, AtIsRequest
  <2>2. req[r] \in Request
    BY DEF IInv, Typed, TypeOK
  <2>3. Next_(r, q, statement)
    BY <2>1, <2>2 DEF Next_, Request
  <2>4. QED
    BY <1>1, <2>1, <2>3, GoesEffect DEF IInv, Typed, TypeOK
<1>2. CASE Ends(r)
  BY <1>2, EndsEffect, IdleIsRequest DEF IInv, Next_
<1>3. QED
  BY <1>1, <1>2

\* A statement that stands, after which the request goes on to a free one.
LEMMA FreeAssemble ==
  ASSUME IInv, NEW r \in Requests, NEW statement \in Free,
         Goes(r, statement) \/ Ends(r), req[r].leg \in Legs, Stands,
         booking' \in [Legs -> BookingRow], jobs' \in [1..MaxJobs -> JobRow],
         notice' \in [Legs -> 0..2]
  PROVE  IInv'
<1>1. statement \in Statements /\ UNCHANGED <<tx, money, invoice>>
  BY DEF Free, Statements, Stands
<1>2. PICK q \in Request : Becomes(r, q) /\ Next_(r, q, statement)
  BY <1>1, GoesOrEnds
<1>3. /\ q.session \in {NoSession, req[r].session} /\ q.at \in Free
      /\ q.leg \in Legs \/ q = Idle
  BY <1>2 DEF Next_, Idle, Free
<1>4. q.op = "stripe" => q.session \in StripeSessions
  BY <1>2 DEF IInv, Typed, Next_, Idle
<1>5. acked' \subseteq StripeSessions /\ UNCHANGED <<grouped, torn, crashes>>
  BY <1>1, GoesOrEnds
<1>6. Typed'
  BY <1>1, <1>2, <1>4, <1>5 DEF IInv, Typed, TypeOK, Becomes
<1>7. \A o \in Requests \ {r} : req[o].at = "session" => req[o].session # q.session
  BY <1>3, Constants DEF IInv, Alone, Sound
<1>8. QED
  BY <1>2, <1>3, <1>4, <1>6, <1>7, FreeIsSound, PlainAssemble DEF Free

LEMMA CreateBookingKeeps ==
  ASSUME IInv, NEW r \in Requests, CreateBooking(r)
  PROVE  IInv'
<1>1. Goes(r, "read") \/ Ends(r)
  BY DEF CreateBooking
<1>2. booking' \in [Legs -> BookingRow]
  <2>1. booking \in [Legs -> BookingRow] /\ req[r].leg \in Legs
    BY DEF IInv, Typed, TypeOK, Sound, CreateBooking, At
  <2>2. [booking[req[r].leg] EXCEPT !.status = "CONFIRMED"] \in BookingRow
    BY <2>1 DEF BookingRow
  <2>3. QED
    BY <2>1, <2>2 DEF CreateBooking
<1>3. Stands
  <2>1. \A l \in Legs :
          /\ booking'[l].payment = booking[l].payment
          /\ booking'[l].method = booking[l].method /\ booking'[l].job = booking[l].job
    <3>1. booking \in [Legs -> BookingRow]
      BY DEF IInv, Typed, TypeOK
    <3>2. CASE booking' = [booking EXCEPT ![req[r].leg].status = "CONFIRMED"]
      BY <3>1, <3>2 DEF BookingRow
    <3>3. CASE UNCHANGED booking
      BY <3>3
    <3>4. QED
      BY <3>2, <3>3 DEF CreateBooking
  <2>2. UNCHANGED <<grouped, tx, money, invoice, jobs>>
    BY <1>1 DEF CreateBooking, Goes, Ends
  <2>3. QED
    BY <2>1, <2>2 DEF Stands
<1>4. QED
  BY <1>1, <1>2, <1>3, FreeAssemble DEF IInv, Typed, TypeOK, Sound, CreateBooking, At, Free

LEMMA CancelRowKeeps ==
  ASSUME IInv, NEW r \in Requests, CancelRow(r)
  PROVE  IInv'
<1>1. Goes(r, "stopJob") \/ Ends(r)
  BY DEF CancelRow
<1>2. booking' \in [Legs -> BookingRow]
  <2>1. booking \in [Legs -> BookingRow] /\ req[r].leg \in Legs
    BY DEF IInv, Typed, TypeOK, Sound, CancelRow, At
  <2>2. [booking[req[r].leg] EXCEPT !.status = "CANCELLED"] \in BookingRow
    BY <2>1 DEF BookingRow
  <2>3. QED
    BY <2>1, <2>2 DEF CancelRow
<1>3. Stands
  BY <1>1 DEF IInv, Typed, TypeOK, BookingRow, CancelRow, Stands, Goes, Ends
<1>4. QED
  BY <1>1, <1>2, <1>3, FreeAssemble DEF IInv, Typed, TypeOK, Sound, CancelRow, At, Free

LEMMA AmendRowKeeps ==
  ASSUME IInv, NEW r \in Requests, AmendRow(r)
  PROVE  IInv'
<1>1. Goes(r, "moveJob") \/ Ends(r)
  BY DEF AmendRow
<1>2. booking' \in [Legs -> BookingRow]
  <2>1. booking \in [Legs -> BookingRow] /\ req[r].leg \in Legs /\ req[r].date \in Schedules
    BY DEF IInv, Typed, TypeOK, Sound, AmendRow, At, Request
  <2>2. [booking[req[r].leg] EXCEPT !.date = req[r].date] \in BookingRow
    BY <2>1 DEF BookingRow
  <2>3. QED
    BY <2>1, <2>2 DEF AmendRow
<1>3. notice' \in [Legs -> 0..2]
  BY DEF IInv, Typed, TypeOK, AmendRow
<1>4. Stands
  BY <1>1 DEF IInv, Typed, TypeOK, BookingRow, AmendRow, Stands, Goes, Ends
<1>5. QED
  BY <1>1, <1>2, <1>3, <1>4, FreeAssemble DEF IInv, Typed, TypeOK, Sound, AmendRow, At, Free

LEMMA PartnerConvertsKeeps ==
  ASSUME IInv, NEW r \in Requests, PartnerConverts(r)
  PROVE  IInv'
<1>1. Stands
  BY DEF Stands, PartnerConverts, Ends
<1>2. CASE Ends(r)
  BY <1>1, <1>2, FreeAssemble DEF IInv, Typed, TypeOK, Sound, PartnerConverts, At, Free
<1>3. CASE /\ req' = [req EXCEPT ![r].at = "ref", ![r].date = booking[req[r].leg].date]
           /\ booking[req[r].leg].status = "CONFIRMED"
           /\ UNCHANGED <<grouped, acked, torn, crashes>>
  <2>1. PICK q \in Request :
          q = [req[r] EXCEPT !.at = "ref", !.date = booking[req[r].leg].date]
    <3>1. req[r] \in Request /\ req[r].leg \in Legs
      BY DEF IInv, Typed, TypeOK, Sound, PartnerConverts, At
    <3>2. booking[req[r].leg].date \in Schedules
      BY <3>1 DEF IInv, Typed, TypeOK, BookingRow
    <3>3. QED
      BY <3>1, <3>2 DEF Request
  <2>2. q.at = "ref" /\ q.op = req[r].op /\ q.session = req[r].session
    BY <2>1 DEF IInv, Typed, TypeOK, Request
  <2>3. Becomes(r, q)
    BY <1>3, <2>1 DEF IInv, Typed, TypeOK, Becomes
  <2>4. Typed'
    BY <1>3, <2>2, <2>3 DEF IInv, Typed, TypeOK, Becomes, PartnerConverts
  <2>5. Sound(q)'
    BY <2>2 DEF IInv, Typed, Sound
  <2>6. QED
    BY <1>1, <2>2, <2>3, <2>4, <2>5, PlainAssemble DEF IInv, Alone
<1>4. QED
  BY <1>2, <1>3 DEF PartnerConverts

\* An existing invoice ends the request; otherwise it has read what the
\* booking's payment has behind it.
LEMMA ReadForInvoiceKeeps ==
  ASSUME IInv, NEW r \in Requests, ReadForInvoice(r)
  PROVE  IInv'
<1>1. Stands /\ req[r].leg \in Legs
  BY DEF Stands, ReadForInvoice, Ends, At, IInv, Sound
<1>2. CASE Ends(r)
  BY <1>1, <1>2, FreeAssemble DEF IInv, Typed, TypeOK, ReadForInvoice, Free
<1>3. CASE /\ req' = [req EXCEPT ![r].at = "number",
                                 ![r].paid = (booking[req[r].leg].payment = "PAID")]
           /\ UNCHANGED <<grouped, acked, torn, crashes>>
  <2>1. PICK q \in Request :
          q = [req[r] EXCEPT !.at = "number",
                             !.paid = (booking[req[r].leg].payment = "PAID")]
    <3>1. req[r] \in Request
      BY DEF IInv, Typed, TypeOK
    <3>2. QED
      BY <3>1 DEF Request
  <2>2. /\ q.at = "number" /\ q.op = req[r].op /\ q.session = req[r].session
        /\ q.leg = req[r].leg /\ q.paid = (booking[req[r].leg].payment = "PAID")
    BY <2>1 DEF IInv, Typed, TypeOK, Request
  <2>3. Becomes(r, q)
    BY <1>3, <2>1 DEF IInv, Typed, TypeOK, Becomes
  <2>4. Typed'
    BY <1>3, <2>2, <2>3 DEF IInv, Typed, TypeOK, Becomes, ReadForInvoice
  <2>5. q.paid => Backed(q.leg)'
    <3>1. q.paid => Backed(q.leg)
      BY <1>1, <2>2 DEF IInv, PaidIsBacked, Backed
    <3>2. QED
      BY <1>1, <2>2, <3>1, StandsEffect, BackedStays DEF IInv
  <2>6. Sound(q)'
    BY <1>1, <2>2, <2>5 DEF IInv, Typed, Sound
  <2>7. QED
    BY <1>1, <2>2, <2>3, <2>4, <2>6, PlainAssemble DEF IInv, Alone
<1>4. QED
  BY <1>2, <1>3 DEF ReadForInvoice

\* A callback knows its session's leg and result.
LEMMA StripeWebhookKeeps ==
  ASSUME IInv, NEW r \in Requests, NEW s \in Sessions, StripeWebhook(r, s)
  PROVE  IInv'
<1>1. tx[s].leg \in Legs /\ money[s] = "captured" /\ s \in StripeSessions
  BY DEF IInv, Rows, Typed, TypeOK, TransactionRow, StripeWebhook
<1>2. PICK q \in Request :
        q = [Idle EXCEPT !.op = "stripe", !.at = "transaction", !.leg = tx[s].leg,
                         !.session = s, !.paid = TRUE]
  BY <1>1, IdleIsRequest DEF Idle, Request, AllOps
<1>3. /\ q.op = "stripe" /\ q.at = "transaction" /\ q.leg = tx[s].leg
      /\ q.session = s /\ q.paid /\ q.job = 0
  BY <1>2 DEF Idle
<1>4. Becomes(r, q) /\ torn' \subseteq Legs /\ UNCHANGED <<grouped, crashes>>
  BY <1>2, AdmitEffect DEF IInv, StripeWebhook
<1>5. Typed'
  BY <1>1, <1>3, <1>4 DEF IInv, Typed, TypeOK, Becomes, StripeWebhook, gateway
<1>6. Stands
  BY <1>4 DEF Stands, StripeWebhook, gateway
<1>7. Sound(q)'
  BY <1>1, <1>3, <1>6 DEF Sound, Stands
<1>8. \A o \in Requests \ {r} : req[o].at = "session" => req[o].session # q.session
  BY <1>1, <1>3 DEF IInv, Sound
<1>9. QED
  BY <1>3, <1>4, <1>5, <1>6, <1>7, <1>8, PlainAssemble

LEMMA GetPayInCallbackKeeps ==
  ASSUME IInv, NEW r \in Requests, NEW s \in Sessions, GetPayInCallback(r, s)
  PROVE  IInv'
<1>1. tx[s].leg \in Legs /\ money[s] \in {"captured", "declined"}
  BY DEF IInv, Rows, Typed, TypeOK, TransactionRow, GetPayInCallback
<1>2. booking[tx[s].leg].job \in 0..MaxJobs
  BY <1>1 DEF IInv, Typed, TypeOK, BookingRow
<1>3. PICK q \in Request :
        q = [Idle EXCEPT !.op = "getpayin", !.at = "transaction", !.leg = tx[s].leg,
                         !.session = s, !.paid = (money[s] = "captured"),
                         !.job = booking[tx[s].leg].job]
  BY <1>1, <1>2, IdleIsRequest DEF Idle, Request, AllOps
<1>4. /\ q.op = "getpayin" /\ q.at = "transaction" /\ q.leg = tx[s].leg
      /\ q.session = s /\ q.paid = (money[s] = "captured")
      /\ q.job = booking[tx[s].leg].job
  BY <1>3 DEF Idle
<1>5. Becomes(r, q) /\ torn' \subseteq Legs /\ UNCHANGED <<grouped, crashes>>
  BY <1>3, AdmitEffect DEF IInv, GetPayInCallback
<1>6. Typed'
  BY <1>1, <1>4, <1>5 DEF IInv, Typed, TypeOK, Becomes, GetPayInCallback, gateway
<1>7. Stands /\ UNCHANGED <<booking, jobs>>
  BY <1>5 DEF Stands, GetPayInCallback, gateway
<1>8. q.job # 0 => jobs[q.job].exists /\ jobs[q.job].leg = q.leg
  BY <1>1, <1>4 DEF IInv, Linked
<1>9. Sound(q)'
  BY <1>1, <1>4, <1>7, <1>8 DEF Sound, Stands
<1>10. \A o \in Requests \ {r} : req[o].at = "session" => req[o].session # q.session
  BY <1>1, <1>4 DEF IInv, Sound
<1>11. QED
  BY <1>4, <1>5, <1>6, <1>7, <1>9, <1>10, PlainAssemble

-----------------------------------------------------------------------------
(***************************************************************************)
(* The steps on sessions, payments, invoices and jobs.                     *)
(***************************************************************************)
\* Nobody else has the session.
LEMMA OpenSessionKeeps ==
  ASSUME IInv, NEW r \in Requests, NEW l \in Legs, NEW s \in Sessions, OpenSession(r, l, s)
  PROVE  IInv'
<1>1. PICK q \in Request :
        q = [Idle EXCEPT !.op = "open", !.at = "session", !.leg = l, !.session = s]
  BY IdleIsRequest DEF Idle, Request, AllOps
<1>2. q.op = "open" /\ q.at = "session" /\ q.leg = l /\ q.session = s
  BY <1>1 DEF Idle
<1>3. Becomes(r, q) /\ torn' \subseteq Legs /\ UNCHANGED <<grouped, crashes>>
  BY <1>1, AdmitEffect DEF IInv, OpenSession
<1>4. Typed'
  BY <1>2, <1>3 DEF IInv, Typed, TypeOK, Becomes, OpenSession, gateway
<1>5. Stands
  BY <1>3 DEF Stands, OpenSession, gateway
<1>6. Sound(q)'
  BY <1>2, <1>5 DEF IInv, Rows, Sound, OpenSession, Stands
<1>7. /\ \A o \in Requests : req[o].session # s
      /\ \A o \in Requests : req[o].at = "session" => money'[req[o].session] = "none"
  BY <1>5 DEF IInv, Sound, OpenSession, Stands
<1>8. QED
  BY <1>2, <1>3, <1>4, <1>5, <1>6, <1>7, StandsEffect, Assemble

LEMMA StoreSessionKeeps ==
  ASSUME IInv, NEW r \in Requests, StoreSession(r)
  PROVE  IInv'
<1> DEFINE s == req[r].session
           l == req[r].leg
<1>1. s \in Sessions /\ l \in Legs /\ money[s] = "none" /\ tx[s].leg = NoLeg
  BY DEF IInv, Sound, Rows, StoreSession, At
<1>2. Becomes(r, Idle) /\ acked' \subseteq StripeSessions /\ UNCHANGED <<grouped, torn, crashes>>
  BY EndsEffect DEF IInv, StoreSession
<1>3. /\ \A k \in Sessions \ {s} : tx'[k] = tx[k] /\ money'[k] = money[k]
      /\ tx'[s].leg = l /\ money'[s] = "open"
      /\ tx' \in [Sessions -> TransactionRow]
      /\ money' \in [Sessions -> {"none", "open", "captured", "declined"}]
  <2>1. tx[s] \in TransactionRow /\ tx \in [Sessions -> TransactionRow]
    BY <1>1 DEF IInv, Typed, TypeOK
  <2>2. [tx[s] EXCEPT !.leg = l] \in TransactionRow /\ [tx[s] EXCEPT !.leg = l].leg = l
    BY <1>1, <2>1 DEF TransactionRow
  <2>3. QED
    BY <1>1, <2>1, <2>2 DEF IInv, Typed, TypeOK, StoreSession
<1>4. Typed'
  BY <1>2, <1>3 DEF IInv, Typed, TypeOK, Becomes, StoreSession, Idle
<1>5. Grows
  BY <1>1, <1>2, <1>3 DEF Grows, StoreSession
<1>6. Rows'
  BY <1>1, <1>3, Constants DEF IInv, Rows
<1>7. Linked' /\ Collected'
  BY DEF IInv, Linked, Collected, Created, StoreSession
<1>8. PaidIsBacked'
  BY <1>5, BackedStays DEF IInv, PaidIsBacked, Backed, StoreSession
<1>9. CashHasReason'
  BY <1>1, <1>3 DEF IInv, CashHasReason, Created, StoreSession
<1>10. ASSUME NEW o \in Requests \ {r}, req[o].at = "session"
       PROVE  money'[req[o].session] = "none" /\ req[o].session # Idle.session
  <2>1. req[o].session # s /\ req[o].session \in Sessions
    BY <1>10 DEF IInv, Alone, Sound, StoreSession, At
  <2>2. QED
    BY <1>3, <1>10, <2>1, Constants DEF IInv, Sound, Idle
<1>11. QED
  BY <1>2, <1>4, <1>5, <1>6, <1>7, <1>8, <1>9, <1>10, IdleIsRequest, IdleIsSound,
     Assemble DEF Idle

\* The gateway's own steps.
LEMMA GatewayKeeps ==
  ASSUME IInv, NEW s \in Sessions, Capture(s) \/ Refuse(s)
  PROVE  IInv'
<1>1. money[s] = "open" /\ tx[s].leg # NoLeg
  BY DEF IInv, Rows, Capture, Refuse
<1>2. /\ \A k \in Sessions \ {s} : money'[k] = money[k]
      /\ money'[s] \in {"captured", "declined"} /\ (s \in StripeSessions => money'[s] = "captured")
      /\ money' \in [Sessions -> {"none", "open", "captured", "declined"}]
  BY Constants DEF IInv, Typed, TypeOK, Capture, Refuse
<1>3. UNCHANGED <<booking, grouped, tx, acked, invoice, jobs, notice, req, history>>
  BY DEF Capture, Refuse
<1>4. Typed'
  BY <1>2, <1>3 DEF IInv, Typed, TypeOK, history
<1>5. Grows
  BY <1>1, <1>2, <1>3 DEF Grows
<1>6. Rows' /\ Alone' /\ Linked' /\ Collected'
  BY <1>1, <1>2, <1>3 DEF IInv, Rows, Alone, Linked, Collected, Created
<1>7. PaidIsBacked'
  BY <1>3, <1>5, BackedStays DEF IInv, PaidIsBacked, Backed
<1>8. CashHasReason'
  BY <1>1, <1>2, <1>3 DEF IInv, CashHasReason, Created
<1>9. ASSUME NEW o \in Requests PROVE Sound(req[o])'
  <2>1. PICK q \in Request : q = req[o]
    BY DEF IInv, Typed, TypeOK
  <2>2. q.at = "session" => money'[q.session] = "none"
    BY <1>1, <1>2, <2>1 DEF IInv, Sound
  <2>3. Sound(q)'
    BY <1>5, <2>1, <2>2, SoundStays DEF IInv
  <2>4. QED
    BY <1>3, <2>1, <2>3
<1>10. QED
  BY <1>4, <1>6, <1>7, <1>8, <1>9 DEF IInv

\* A callback's own session has the result it brings.
LEMMA SettleTransactionKeeps ==
  ASSUME IInv, NEW r \in Requests, SettleTransaction(r)
  PROVE  IInv'
<1>1. PICK q \in Request : Becomes(r, q) /\ Next_(r, q, "booking")
  BY GoesOrEnds DEF SettleTransaction, Statements
<1>2. UNCHANGED <<grouped, torn, crashes, acked>>
  BY DEF SettleTransaction, Goes
<1>3. q.at = "booking" /\ q.op = req[r].op /\ q.leg = req[r].leg
      /\ q.session = req[r].session /\ q.paid = req[r].paid /\ q.job = req[r].job
  BY <1>1, GoesEffect DEF Next_, Becomes, SettleTransaction, Goes, IInv, Typed, TypeOK, Request, Idle
<1>4. /\ tx' \in [Sessions -> TransactionRow]
      /\ \A k \in Sessions : tx'[k].leg = tx[k].leg
  <2>1. tx \in [Sessions -> TransactionRow] /\ req[r].session \in Sessions
    BY DEF IInv, Typed, TypeOK, Sound, SettleTransaction, At
  <2>2. [tx[req[r].session] EXCEPT !.status = Outcome(req[r])] \in TransactionRow
    BY <2>1 DEF TransactionRow, PaymentStatus, Outcome
  <2>3. [tx[req[r].session] EXCEPT !.status = Outcome(req[r])].leg = tx[req[r].session].leg
    BY <2>1 DEF TransactionRow
  <2>4. QED
    BY <2>1, <2>2, <2>3 DEF SettleTransaction
<1>5. Typed'
  BY <1>1, <1>2, <1>3, <1>4 DEF IInv, Typed, TypeOK, Becomes, SettleTransaction
<1>6. Grows
  BY <1>2, <1>4 DEF Grows, SettleTransaction
<1>7. Rows' /\ Linked' /\ Collected'
  BY <1>4 DEF IInv, Rows, Linked, Collected, Created, SettleTransaction
<1>8. PaidIsBacked'
  BY <1>6, BackedStays DEF IInv, PaidIsBacked, Backed, SettleTransaction
<1>9. CashHasReason'
  BY <1>4 DEF IInv, CashHasReason, Created, SettleTransaction
<1>10. Sound(q)'
  BY <1>2, <1>3, <1>4 DEF IInv, Typed, Sound, SettleTransaction, At
<1>11. \A o \in Requests \ {r} : req[o].at = "session" =>
         money'[req[o].session] = "none" /\ req[o].session # q.session
  BY <1>3 DEF IInv, Sound, Alone, SettleTransaction
<1>12. QED
  BY <1>1, <1>3, <1>5, <1>6, <1>7, <1>8, <1>9, <1>10, <1>11, Assemble

\* What a callback writes into the bookings has its session behind it.
LEMMA PaidHasSession ==
  ASSUME IInv, NEW r \in Requests, req[r].at \in {"booking", "mirror"},
         NEW l \in Legs, l \in Family(req[r].leg), Outcome(req[r]) = "PAID"
  PROVE  Backed(l)
<1>1. req[r].paid
  BY DEF Outcome
<1>2. req[r].session \in Sessions /\ tx[req[r].session].leg = req[r].leg
      /\ money[req[r].session] = "captured" /\ req[r].leg \in Legs
  BY <1>1 DEF IInv, Sound
<1>3. QED
  BY <1>2, Constants DEF Backed, Covers

\* A callback that has settled booking rows, and goes on or ends.
LEMMA SettledAssemble ==
  ASSUME IInv, NEW r \in Requests, req[r].at \in {"booking", "mirror"},
         booking' \in [Legs -> BookingRow],
         \A l \in Legs :
           /\ booking'[l].payment # booking[l].payment =>
                l \in Family(req[r].leg) /\ booking'[l].payment = Outcome(req[r])
           /\ booking'[l].method = booking[l].method /\ booking'[l].job = booking[l].job,
         (grouped /\ req[r].at = "booking" /\ Goes(r, "mirror")) \/ AfterBooking(r),
         UNCHANGED <<tx, money, invoice, jobs, notice>>
  PROVE  IInv'
<1>1. PICK st \in {"mirror", "invoice", "flag"} :
        /\ Goes(r, st) \/ Ends(r)
        /\ st = "mirror" => grouped
        /\ st = "flag" => ~req[r].paid /\ req[r].job # 0
  BY DEF AfterBooking
<1>2. PICK q \in Request : Becomes(r, q) /\ Next_(r, q, st)
  BY <1>1, GoesOrEnds DEF Statements
<1>3. acked' \subseteq StripeSessions /\ UNCHANGED <<grouped, torn, crashes>>
  BY <1>1, GoesOrEnds DEF Statements
<1>4. Typed'
  BY <1>2, <1>3 DEF IInv, Typed, TypeOK, Becomes, Next_, Idle
<1>5. Grows
  BY <1>3 DEF Grows
<1>6. Rows' /\ Collected'
  BY DEF IInv, Rows, Collected, Created
<1>7. Linked'
  BY DEF IInv, Linked
<1>8. PaidIsBacked'
  <2>1. ASSUME NEW l \in Legs, booking'[l].payment = "PAID" PROVE Backed(l)
    <3>1. CASE booking[l].payment = "PAID"
      BY <3>1 DEF IInv, PaidIsBacked, Backed
    <3>2. CASE booking[l].payment # "PAID"
      BY <2>1, <3>2, PaidHasSession
    <3>3. QED
      BY <3>1, <3>2
  <2>2. ASSUME NEW l \in Legs, invoice'[l].status = "PAID" PROVE Backed(l)
    BY <2>2 DEF IInv, PaidIsBacked, Backed
  <2>3. QED
    BY <1>5, <2>1, <2>2, BackedStays DEF IInv, PaidIsBacked, Backed
<1>9. CashHasReason'
  BY DEF IInv, CashHasReason, Collected, Created
<1>10. Sound(q)'
  <2>1. CASE q = Idle
    BY <2>1, IdleIsSound
  <2>2. CASE q # Idle
    BY <1>1, <1>2, <1>3, <2>2 DEF IInv, Typed, Sound, Next_
  <2>3. QED
    BY <2>1, <2>2
<1>11. \A o \in Requests \ {r} : req[o].at = "session" =>
         money'[req[o].session] = "none" /\ req[o].session # q.session
  BY <1>2, Constants DEF IInv, Sound, Alone, Next_, Idle
<1>12. q.at # "session"
  BY <1>2 DEF Next_, Idle
<1>13. QED
  BY <1>2, <1>4, <1>5, <1>6, <1>7, <1>8, <1>9, <1>10, <1>11, <1>12, Assemble

LEMMA SettleBookingKeeps ==
  ASSUME IInv, NEW r \in Requests, SettleBooking(r)
  PROVE  IInv'
<1>1. booking \in [Legs -> BookingRow] /\ req[r].leg \in Legs /\ req[r].at = "booking"
  BY DEF IInv, Typed, TypeOK, Sound, SettleBooking, At
<1>2. [booking[req[r].leg] EXCEPT !.payment = Outcome(req[r])] \in BookingRow
  BY <1>1 DEF BookingRow, PaymentStatus, Outcome
<1>3. /\ [booking[req[r].leg] EXCEPT !.payment = Outcome(req[r])].payment = Outcome(req[r])
      /\ [booking[req[r].leg] EXCEPT !.payment = Outcome(req[r])].method
           = booking[req[r].leg].method
      /\ [booking[req[r].leg] EXCEPT !.payment = Outcome(req[r])].job
           = booking[req[r].leg].job
  BY <1>1 DEF BookingRow
<1>4. booking' = [booking EXCEPT ![req[r].leg] =
                    [booking[req[r].leg] EXCEPT !.payment = Outcome(req[r])]]
  BY DEF SettleBooking
<1>5. booking' \in [Legs -> BookingRow]
  BY <1>1, <1>2, <1>4
<1>6. req[r].leg \in Family(req[r].leg)
  BY <1>1 DEF Family
<1>7. \A l \in Legs :
        /\ booking'[l].payment # booking[l].payment =>
             l \in Family(req[r].leg) /\ booking'[l].payment = Outcome(req[r])
        /\ booking'[l].method = booking[l].method /\ booking'[l].job = booking[l].job
  BY <1>1, <1>3, <1>4, <1>6
<1>8. QED
  BY <1>1, <1>5, <1>7, SettledAssemble DEF SettleBooking

LEMMA MirrorLegsKeeps ==
  ASSUME IInv, NEW r \in Requests, MirrorLegs(r)
  PROVE  IInv'
<1>1. booking \in [Legs -> BookingRow] /\ req[r].at = "mirror" /\ grouped
  BY DEF IInv, Typed, TypeOK, Sound, MirrorLegs, At
<1>2. ASSUME NEW l \in Legs
      PROVE  /\ [booking[l] EXCEPT !.payment = Outcome(req[r])] \in BookingRow
             /\ [booking[l] EXCEPT !.payment = Outcome(req[r])].payment = Outcome(req[r])
             /\ [booking[l] EXCEPT !.payment = Outcome(req[r])].method = booking[l].method
             /\ [booking[l] EXCEPT !.payment = Outcome(req[r])].job = booking[l].job
  BY <1>1 DEF BookingRow, PaymentStatus, Outcome
<1>3. ASSUME NEW l \in Legs
      PROVE  booking'[l] \in {booking[l], [booking[l] EXCEPT !.payment = Outcome(req[r])]}
  BY DEF MirrorLegs
<1>4. booking' \in [Legs -> BookingRow]
  BY <1>1, <1>2, <1>3 DEF MirrorLegs
<1>5. Family(req[r].leg) = Legs
  BY <1>1 DEF Family
<1>6. \A l \in Legs :
        /\ booking'[l].payment # booking[l].payment =>
             l \in Family(req[r].leg) /\ booking'[l].payment = Outcome(req[r])
        /\ booking'[l].method = booking[l].method /\ booking'[l].job = booking[l].job
  BY <1>2, <1>3, <1>5
<1>7. QED
  BY <1>1, <1>4, <1>6, SettledAssemble DEF MirrorLegs

\* A statement that ends the request and leaves transactions alone.
LEMMA EndAssemble ==
  ASSUME IInv, NEW r \in Requests, Ends(r), UNCHANGED <<tx, money>>,
         booking' \in [Legs -> BookingRow], invoice' \in [Legs -> InvoiceRow],
         jobs' \in [1..MaxJobs -> JobRow], notice' = notice,
         Grows, Linked', Collected', PaidIsBacked', CashHasReason'
  PROVE  IInv'
<1>1. Becomes(r, Idle) /\ acked' \subseteq StripeSessions /\ UNCHANGED <<grouped, torn, crashes>>
  BY EndsEffect DEF IInv
<1>2. Typed'
  BY <1>1 DEF IInv, Typed, TypeOK, Becomes, Idle
<1>3. Rows'
  BY DEF IInv, Rows
<1>4. \A o \in Requests \ {r} : req[o].at = "session" =>
        money'[req[o].session] = "none" /\ req[o].session # Idle.session
  BY Constants DEF IInv, Sound, Idle
<1>5. Idle.at # "session"
  BY DEF Idle
<1>6. QED
  BY <1>1, <1>2, <1>3, <1>4, <1>5, IdleIsRequest, IdleIsSound, Assemble

\* The refused session is the reason to collect.
LEMMA FlagJobKeeps ==
  ASSUME IInv, NEW r \in Requests, FlagJob(r)
  PROVE  IInv'
<1>1. PICK q \in Request : q = req[r]
  BY DEF IInv, Typed, TypeOK
<1>2. /\ q.job \in 1..MaxJobs /\ jobs[q.job].exists /\ jobs[q.job].leg = q.leg
      /\ q.leg \in Legs /\ q.session \in Sessions /\ tx[q.session].leg = q.leg
      /\ money[q.session] = "declined"
  <2>1. Sound(q) /\ q.at = "flag"
    BY <1>1 DEF IInv, FlagJob, At
  <2>2. QED
    BY <2>1, Constants DEF Sound, Request
<1>3. jobs' = [jobs EXCEPT ![q.job] = [jobs[q.job] EXCEPT !.collect = TRUE]]
  BY <1>1 DEF FlagJob
<1>4. /\ jobs' \in [1..MaxJobs -> JobRow]
      /\ \A n \in 1..MaxJobs :
           /\ jobs'[n].exists = jobs[n].exists /\ jobs'[n].leg = jobs[n].leg
           /\ n # q.job => jobs'[n].collect = jobs[n].collect
  <2>1. jobs[q.job] \in JobRow /\ jobs \in [1..MaxJobs -> JobRow]
    BY <1>2 DEF IInv, Typed, TypeOK
  <2>2. /\ [jobs[q.job] EXCEPT !.collect = TRUE] \in JobRow
        /\ [jobs[q.job] EXCEPT !.collect = TRUE].exists = jobs[q.job].exists
        /\ [jobs[q.job] EXCEPT !.collect = TRUE].leg = jobs[q.job].leg
    BY <2>1 DEF JobRow
  <2>3. QED
    BY <1>2, <1>3, <2>1, <2>2
<1>5. Ends(r) /\ UNCHANGED <<booking, tx, money, invoice, notice, grouped>>
  BY DEF FlagJob, Ends
<1>6. Grows
  BY <1>4, <1>5 DEF Grows
<1>7. Linked'
  <2>1. \A l \in Legs : booking[l].job \in 0..MaxJobs
    BY DEF IInv, Typed, TypeOK, BookingRow
  <2>2. QED
    BY <1>4, <1>5, <2>1, Constants DEF IInv, Linked
<1>8. Created' = Created
  BY <1>4 DEF Created
<1>9. Collected'
  BY <1>2, <1>4, <1>8 DEF IInv, Collected, Created
<1>10. PaidIsBacked'
  BY <1>5, <1>6, BackedStays DEF IInv, PaidIsBacked, Backed
<1>11. CashHasReason'
  BY <1>2, <1>4, <1>5, <1>8 DEF IInv, CashHasReason, Created
<1>12. booking \in [Legs -> BookingRow] /\ invoice \in [Legs -> InvoiceRow]
  BY DEF IInv, Typed, TypeOK
<1>13. QED
  BY <1>4, <1>5, <1>6, <1>7, <1>9, <1>10, <1>11, <1>12, EndAssemble

\* An invoice reads PAID because the booking did when the request looked, and
\* then there was money.
LEMMA InsertInvoiceKeeps ==
  ASSUME IInv, NEW r \in Requests, InsertInvoice(r)
  PROVE  IInv'
<1>1. PICK q \in Request : q = req[r]
  BY DEF IInv, Typed, TypeOK
<1>2. q.leg \in Legs /\ (q.paid => Backed(q.leg)) /\ q.at = "insert"
  BY <1>1 DEF IInv, Sound, InsertInvoice, At
<1>3. UNCHANGED <<booking, tx, money, jobs, notice, grouped>>
  BY DEF InsertInvoice, Ends
<1>4. Grows
  BY <1>3 DEF Grows
<1>5. CASE Ends(r)
  <2>1. /\ invoice' \in [Legs -> InvoiceRow]
        /\ \A l \in Legs : invoice'[l].status = "PAID" =>
             invoice[l].status = "PAID" \/ (l = q.leg /\ q.paid)
    <3>1. CASE invoice' = invoice
      BY <3>1 DEF IInv, Typed, TypeOK
    <3>2. CASE invoice' = [invoice EXCEPT ![q.leg] =
                 [no |-> q.no, status |-> IF q.paid THEN "PAID" ELSE "ISSUED"]]
      <4>1. [no |-> q.no, status |-> IF q.paid THEN "PAID" ELSE "ISSUED"] \in InvoiceRow
        BY DEF Request, InvoiceRow
      <4>2. QED
        BY <1>2, <3>2, <4>1 DEF IInv, Typed, TypeOK
    <3>3. req' # [req EXCEPT ![r].at = "number", ![r].tries = q.tries + 1]
      BY <1>1, <1>5 DEF IInv, Typed, TypeOK, Request, Ends, Idle
    <3>4. QED
      BY <1>1, <3>1, <3>2, <3>3 DEF InsertInvoice
  <2>2. PaidIsBacked'
    <3>1. \A l \in Legs : booking'[l].payment = "PAID" \/ invoice'[l].status = "PAID"
            => Backed(l)
      BY <1>2, <1>3, <2>1 DEF IInv, PaidIsBacked, Backed
    <3>2. QED
      BY <1>4, <3>1, BackedStays DEF IInv, PaidIsBacked, Backed
  <2>3. Linked' /\ Collected' /\ CashHasReason'
    BY <1>3 DEF IInv, Linked, Collected, CashHasReason, Created
  <2>4. booking \in [Legs -> BookingRow] /\ jobs \in [1..MaxJobs -> JobRow]
    BY DEF IInv, Typed, TypeOK
  <2>5. QED
    BY <1>3, <1>4, <1>5, <2>1, <2>2, <2>3, <2>4, EndAssemble
<1>6. CASE /\ req' = [req EXCEPT ![r].at = "number", ![r].tries = q.tries + 1]
           /\ q.tries + 1 < Attempts /\ UNCHANGED <<grouped, acked, invoice, torn, crashes>>
  <2>1. PICK k \in Request : k = [q EXCEPT !.at = "number", !.tries = q.tries + 1]
    <3>1. q.tries \in 0..Attempts
      BY DEF Request
    <3>2. q.tries + 1 \in 0..Attempts
      BY <1>6, <3>1, Constants
    <3>3. [q EXCEPT !.at = "number", !.tries = q.tries + 1] \in Request
      BY <3>2 DEF Request
    <3>4. QED
      BY <3>3
  <2>2. /\ k.at = "number" /\ k.op = q.op /\ k.session = q.session
        /\ k.leg = q.leg /\ k.paid = q.paid
    BY <2>1 DEF Request
  <2>3. Becomes(r, k)
    BY <1>1, <1>6, <2>1 DEF IInv, Typed, TypeOK, Becomes
  <2>4. Stands
    BY <1>3, <1>6 DEF Stands
  <2>5. Typed'
    BY <1>1, <1>3, <1>6, <2>2, <2>3 DEF IInv, Typed, TypeOK, Becomes
  <2>6. k.paid => Backed(k.leg)'
    BY <1>2, <1>4, <2>2, BackedStays DEF IInv
  <2>7. Sound(k)'
    BY <1>1, <1>2, <2>2, <2>6 DEF IInv, Typed, Sound
  <2>8. \A o \in Requests \ {r} : req[o].at = "session" => req[o].session # k.session
    BY <1>1, <2>2 DEF IInv, Alone
  <2>9. QED
    BY <2>2, <2>3, <2>4, <2>5, <2>7, <2>8, PlainAssemble
<1>7. QED
  BY <1>1, <1>5, <1>6 DEF InsertInvoice

\* The new job is the booking's, and is collected for as the guest chose.
LEMMA CreateJobKeeps ==
  ASSUME IInv, NEW r \in Requests, CreateJob(r)
  PROVE  IInv'
<1>1. PICK q \in Request : q = req[r]
  BY DEF IInv, Typed, TypeOK
<1>2. Ends(r) /\ UNCHANGED <<tx, money, invoice, notice, grouped>>
  BY DEF CreateJob, Ends
<1>3. /\ booking \in [Legs -> BookingRow] /\ jobs \in [1..MaxJobs -> JobRow]
      /\ invoice \in [Legs -> InvoiceRow] /\ q.leg \in Legs \cup {NoLeg}
  BY DEF IInv, Typed, TypeOK, Request
<1>4. CASE UNCHANGED <<jobs, booking>>
  <2>1. Grows /\ Linked' /\ Collected' /\ CashHasReason'
    BY <1>2, <1>4 DEF IInv, Grows, Linked, Collected, CashHasReason, Created
  <2>2. PaidIsBacked'
    BY <1>2, <1>4, <2>1, BackedStays DEF IInv, PaidIsBacked, Backed
  <2>3. QED
    BY <1>2, <1>3, <1>4, <2>1, <2>2, EndAssemble
<1>5. CASE q.no \in 1..MaxJobs \ Created
  <2> DEFINE n == q.no
             row == [exists |-> TRUE, leg |-> q.leg, date |-> q.date, status |-> "PENDING",
                     collect |-> q.leg # NoLeg /\ booking[q.leg].method = "PAY_ON_ARRIVAL"]
             linked == [booking[q.leg] EXCEPT !.status = "CONVERTED", !.job = n]
  <2>1. /\ jobs' = [jobs EXCEPT ![n] = row]
        /\ booking' = IF q.leg = NoLeg THEN booking
                      ELSE [booking EXCEPT ![q.leg] = linked]
    BY <1>1, <1>5 DEF CreateJob, JobOf, Converted
  <2>2. row \in JobRow
    BY DEF Request, JobRow
  <2>3. n \in 1..MaxJobs /\ ~jobs[n].exists
    BY <1>3, <1>5 DEF Created, JobRow
  <2>4. jobs' \in [1..MaxJobs -> JobRow] /\ jobs'[n] = row
        /\ \A k \in 1..MaxJobs \ {n} : jobs'[k] = jobs[k]
    BY <1>3, <2>1, <2>2, <2>3
  <2>5. q.leg \in Legs => /\ linked \in BookingRow /\ linked.job = n
                          /\ linked.payment = booking[q.leg].payment
                          /\ linked.method = booking[q.leg].method
    <3>1. ASSUME NEW b \in BookingRow, NEW k \in 0..MaxJobs
          PROVE  LET c == [b EXCEPT !.status = "CONVERTED", !.job = k]
                 IN  c \in BookingRow /\ c.job = k /\ c.payment = b.payment
                     /\ c.method = b.method
      BY DEF BookingRow
    <3>2. n \in 0..MaxJobs
      BY <2>3, Constants
    <3>3. QED
      BY <1>3, <3>1, <3>2
  <2>6. /\ booking' \in [Legs -> BookingRow]
        /\ \A l \in Legs : /\ booking'[l].payment = booking[l].payment
                           /\ booking'[l].method = booking[l].method
                           /\ booking'[l].job = IF l = q.leg THEN n ELSE booking[l].job
    BY <1>3, <2>1, <2>5, Constants
  <2>7. Grows
    BY <1>2, <2>3, <2>4, <2>6 DEF Grows
  <2>8. Linked'
    <3>1. ASSUME NEW l \in Legs, booking'[l].job # 0
          PROVE  jobs'[booking'[l].job].exists /\ jobs'[booking'[l].job].leg = l
      <4>1. CASE l = q.leg
        BY <2>4, <2>6, <4>1
      <4>2. CASE l # q.leg
        <5>1. booking[l].job \in 1..MaxJobs /\ jobs[booking[l].job].exists
              /\ jobs[booking[l].job].leg = l
          BY <1>3, <2>6, <3>1, <4>2, Constants DEF IInv, Linked, BookingRow
        <5>2. QED
          BY <2>3, <2>4, <2>6, <4>2, <5>1
      <4>3. QED
        BY <4>1, <4>2
    <3>2. QED
      BY <3>1 DEF Linked
  <2>9. Created' = Created \cup {n}
    BY <2>3, <2>4 DEF Created
  <2>10. /\ jobs'[n].leg = q.leg
         /\ jobs'[n].collect => q.leg \in Legs /\ booking[q.leg].method = "PAY_ON_ARRIVAL"
    <3>1. /\ row.leg = q.leg
          /\ row.collect <=> q.leg # NoLeg /\ booking[q.leg].method = "PAY_ON_ARRIVAL"
      OBVIOUS
    <3>2. QED
      BY <1>3, <2>4, <3>1
  <2>11. Collected'
    <3>1. ASSUME NEW k \in Created', jobs'[k].collect PROVE jobs'[k].leg \in Legs
      <4>1. CASE k = n
        BY <2>10, <3>1, <4>1
      <4>2. CASE k # n
        BY <2>4, <2>9, <3>1, <4>2 DEF IInv, Collected, Created
      <4>3. QED
        BY <4>1, <4>2
    <3>2. QED
      BY <3>1 DEF Collected
  <2>12. PaidIsBacked'
    BY <1>2, <2>6, <2>7, BackedStays DEF IInv, PaidIsBacked, Backed
  <2>13. CashHasReason'
    <3>1. ASSUME NEW k \in Created', jobs'[k].collect
          PROVE  \/ booking'[jobs'[k].leg].method = "PAY_ON_ARRIVAL"
                 \/ \E s \in Sessions : money'[s] = "declined" /\ tx'[s].leg = jobs'[k].leg
      <4>1. CASE k = n
        <5>1. /\ q.leg \in Legs /\ booking[q.leg].method = "PAY_ON_ARRIVAL"
              /\ jobs'[k].leg = q.leg
          BY <2>10, <3>1, <4>1
        <5>2. QED
          BY <2>6, <5>1
      <4>2. CASE k # n
        <5>1. k \in Created /\ jobs'[k] = jobs[k] /\ jobs[k].leg \in Legs
          BY <2>4, <2>9, <3>1, <4>2 DEF IInv, Collected, Created
        <5>2. QED
          BY <1>2, <2>6, <3>1, <5>1 DEF IInv, CashHasReason
      <4>3. QED
        BY <4>1, <4>2
    <3>2. QED
      BY <3>1 DEF CashHasReason
  <2>14. QED
    BY <1>2, <1>3, <2>4, <2>6, <2>7, <2>8, <2>11, <2>12, <2>13, EndAssemble
<1>6. QED
  BY <1>1, <1>4, <1>5 DEF CreateJob

\* A step that leaves the requests and what they know.
LEMMA StandsStill ==
  ASSUME IInv, Typed', Stands, UNCHANGED req
  PROVE  IInv'
<1>1. ASSUME NEW o \in Requests PROVE Sound(req[o])'
  <2>1. PICK q \in Request : q = req[o]
    BY DEF IInv, Typed, TypeOK
  <2>2. Sound(q) /\ (q.at = "session" => money'[q.session] = "none")
    BY <2>1 DEF IInv, Sound, Stands
  <2>3. Sound(q)'
    BY <2>2, StandsEffect, SoundStays DEF IInv
  <2>4. QED
    BY <2>1, <2>3
<1>2. Alone'
  BY DEF IInv, Alone
<1>3. QED
  BY <1>1, <1>2, StandsEffect DEF IInv

\* Time passes.
LEMMA TickKeeps ==
  ASSUME IInv, NEW l \in Legs, Tick(l)
  PROVE  IInv'
<1>1. notice' \in [Legs -> 0..2]
  BY DEF IInv, Typed, TypeOK, Tick
<1>2. Typed'
  BY <1>1 DEF IInv, Typed, TypeOK, Tick, gateway, history
<1>3. Stands /\ UNCHANGED req
  BY DEF Stands, Tick, gateway
<1>4. QED
  BY <1>2, <1>3, StandsStill

\* What was in flight is forgotten.
LEMMA CrashKeeps ==
  ASSUME IInv, Crash
  PROVE  IInv'
<1>1. UNCHANGED <<booking, grouped, tx, money, acked, invoice, jobs, notice>>
  BY DEF Crash, gateway
<1>2. req' = [r \in Requests |-> Idle] /\ crashes' \in Nat
  BY DEF Crash, IInv, Typed, TypeOK
<1>3. torn' \subseteq Legs
  BY DEF Crash, IInv, Typed, TypeOK, Touches, Family, Request
<1>4. Typed'
  BY <1>1, <1>2, <1>3, IdleIsRequest DEF IInv, Typed, TypeOK, Idle
<1>5. Rows' /\ Linked' /\ Collected' /\ PaidIsBacked' /\ CashHasReason'
  BY <1>1 DEF IInv, Rows, Linked, Collected, PaidIsBacked, CashHasReason, Covers, Family,
     Created
<1>6. Alone' /\ \A r \in Requests : Sound(req[r])'
  BY <1>2 DEF Alone, Sound, Idle
<1>7. QED
  BY <1>4, <1>5, <1>6 DEF IInv

LEMMA StutterKeeps ==
  ASSUME IInv, UNCHANGED vars
  PROVE  IInv'
<1>1. Typed'
  BY DEF IInv, Typed, TypeOK, vars
<1>2. Stands /\ UNCHANGED req
  BY DEF Stands, vars
<1>3. QED
  BY <1>1, <1>2, StandsStill

-----------------------------------------------------------------------------
(***************************************************************************)
(* The theorems.                                                           *)
(***************************************************************************)
LEMMA InitIInv == Init => IInv
<1> SUFFICES ASSUME Init PROVE IInv
  OBVIOUS
<1>1. TypeOK
  <2>1. booking \in [Legs -> BookingRow]
    <3>1. ASSUME NEW b \in [status: Initial, payment: {"PENDING"}, method: Methods,
                            date: {0}, job: {0}]
          PROVE  b \in BookingRow
      <4>1. /\ b.status \in Initial /\ b.payment = "PENDING" /\ b.method \in Methods
            /\ b.date = 0 /\ b.job = 0
        OBVIOUS
      <4>2. b = [status |-> b.status, payment |-> b.payment, method |-> b.method,
                 date |-> b.date, job |-> b.job]
        OBVIOUS
      <4>3. /\ b.status \in {"ABSENT", "CONFIRMED", "CANCELLED", "CONVERTED"}
            /\ b.method \in {"ONLINE", "PAY_ON_ARRIVAL"} /\ b.payment \in PaymentStatus
        BY <4>1, Constants, Zenon DEF PaymentStatus
      <4>4. 0 \in Schedules /\ 0 \in 0..MaxJobs
        BY Constants
      <4>5. b.date \in Schedules /\ b.job \in 0..MaxJobs
        BY <4>1, <4>4, Zenon
      <4>6. QED
        BY <4>2, <4>3, <4>5, Zenon DEF BookingRow
    <3>2. QED
      BY <3>1 DEF Init
  <2>2. /\ [leg |-> NoLeg, status |-> "PENDING"] \in TransactionRow
        /\ NoInvoice \in InvoiceRow /\ NoJob \in JobRow
    BY Constants DEF TransactionRow, PaymentStatus, InvoiceRow, NoInvoice, JobRow, NoJob
  <2>3. grouped \in BOOLEAN
    BY Constants DEF Init
  <2>4. QED
    BY <2>1, <2>2, <2>3, IdleIsRequest DEF Init, TypeOK
<1>2. Typed /\ Rows /\ Alone
  BY <1>1 DEF Init, Typed, Rows, Alone, Idle
<1>3. Linked /\ Collected /\ PaidIsBacked /\ CashHasReason
  BY DEF Init, Linked, Collected, PaidIsBacked, CashHasReason, Created, NoJob, NoInvoice
<1>4. \A r \in Requests : Sound(req[r])
  BY DEF Init, Sound, Idle
<1>5. QED
  BY <1>2, <1>3, <1>4 DEF IInv

LEMMA NextIInv == IInv /\ [Next]_vars => IInv'
<1> SUFFICES ASSUME IInv, [Next]_vars PROVE IInv'
  OBVIOUS
<1>1. ASSUME NEW r \in Requests, Admission(r) PROVE IInv'
  BY <1>1, OfficeJobKeeps, StripeWebhookKeeps, GetPayInCallbackKeeps, OpenSessionKeeps,
     PartnerJobKeeps, ConvertToJobKeeps, AdminCancelKeeps, GuestCancelKeeps,
     AmendBookingKeeps DEF Admission
<1>2. ASSUME NEW r \in Requests, Proceed(r) PROVE IInv'
  BY <1>2, StoreSessionKeeps, SettleTransactionKeeps, SettleBookingKeeps, MirrorLegsKeeps,
     FlagJobKeeps, ReadForInvoiceKeeps, NextNumberKeeps, InsertInvoiceKeeps,
     CreateBookingKeeps, PartnerConvertsKeeps, GenerateInternalRefKeeps, CreateJobKeeps,
     CancelRowKeeps, StopJobKeeps, AmendRowKeeps, MoveJobKeeps DEF Proceed
<1>3. QED
  BY <1>1, <1>2, GatewayKeeps, TickKeeps, CrashKeeps, StutterKeeps DEF Next

\* What the bookings rest on: every request in flight knows only what is true.
THEOREM Inductive == Spec => []IInv
BY InitIInv, NextIInv, PTL DEF Spec

\* Every variable stays in its type, however many bookings, callbacks and
\* crashes there are.
THEOREM TypeCorrect == Spec => []TypeOK
<1>1. IInv => TypeOK
  BY DEF IInv, Typed
<1>2. QED
  BY <1>1, Inductive, PTL

\* A leg that reads PAID, and an invoice that does, have money behind them.
THEOREM PaidHasMoney == Spec => []PaidIsBacked
<1>1. IInv => PaidIsBacked
  BY DEF IInv
<1>2. QED
  BY <1>1, Inductive, PTL

\* The driver is told to collect only from a guest who chose to pay on
\* arrival, or whose card was refused.
THEOREM CollectsWithReason == Spec => []CashHasReason
<1>1. IInv => CashHasReason
  BY DEF IInv
<1>2. QED
  BY <1>1, Inductive, PTL

-----------------------------------------------------------------------------
(***************************************************************************)
(* The handlers implement PaymentLedger.                                   *)
(***************************************************************************)
\* A step the ledger does not see.
Unseen ==
  /\ UNCHANGED <<grouped, money>>
  /\ \A s \in Sessions : tx'[s].leg = tx[s].leg
  /\ \A l \in Legs : booking'[l].payment = booking[l].payment

LEMMA UnseenStutters ==
  ASSUME Unseen
  PROVE  UNCHANGED Ledger!ledger
<1>1. [s \in Sessions |-> Covers(s)]' = [s \in Sessions |-> Covers(s)]
  BY DEF Unseen, Covers, Family
<1>2. {l \in Legs : booking[l].payment = "PAID"}' = {l \in Legs : booking[l].payment = "PAID"}
  BY DEF Unseen
<1>3. QED
  BY <1>1, <1>2 DEF Unseen, Ledger!ledger

LEMMA AdmissionIsUnseen ==
  ASSUME NEW r \in Requests, Admission(r)
  PROVE  Unseen
BY DEF Unseen, Admission, Admit, gateway, OfficeJob, StripeWebhook, GetPayInCallback,
   OpenSession, PartnerJob, ConvertToJob, AdminCancel, GuestCancel, AmendBooking

\* The statements that settle no payment.
LEMMA PlainIsUnseen ==
  ASSUME IInv, NEW r \in Requests,
         \/ SettleTransaction(r) \/ FlagJob(r) \/ ReadForInvoice(r) \/ NextNumber(r)
         \/ InsertInvoice(r) \/ CreateBooking(r) \/ PartnerConverts(r)
         \/ GenerateInternalRef(r) \/ CreateJob(r) \/ CancelRow(r) \/ StopJob(r)
         \/ AmendRow(r) \/ MoveJob(r)
  PROVE  Unseen
<1>1. booking \in [Legs -> BookingRow] /\ tx \in [Sessions -> TransactionRow]
  BY DEF IInv, Typed, TypeOK
<1>2. CASE SettleTransaction(r)
  <2>1. \A k \in Sessions : tx'[k].leg = tx[k].leg
    BY <1>1, <1>2 DEF SettleTransaction, TransactionRow
  <2>2. QED
    BY <1>2, <2>1 DEF Unseen, SettleTransaction, Goes
<1>3. CASE CreateBooking(r) \/ CreateJob(r) \/ CancelRow(r) \/ AmendRow(r)
  <2>1. ASSUME NEW l \in Legs PROVE booking'[l].payment = booking[l].payment
    <3>1. CASE CreateBooking(r)
      BY <1>1, <3>1 DEF CreateBooking, BookingRow
    <3>2. CASE CreateJob(r)
      <4>1. \A b \in BookingRow, n \in Nat : Converted(b, n).payment = b.payment
        BY DEF Converted, BookingRow
      <4>2. \/ booking'[l] = booking[l]
            \/ booking'[l] = Converted(booking[l], req[r].no) /\ req[r].no \in Nat
        BY <1>1, <3>2, Constants DEF CreateJob
      <4>3. QED
        BY <1>1, <4>1, <4>2
    <3>3. CASE CancelRow(r)
      BY <1>1, <3>3 DEF CancelRow, BookingRow
    <3>4. CASE AmendRow(r)
      BY <1>1, <3>4 DEF AmendRow, BookingRow
    <3>5. QED
      BY <1>3, <3>1, <3>2, <3>3, <3>4
  <2>2. UNCHANGED <<grouped, money, tx>>
    BY <1>3 DEF CreateBooking, CreateJob, CancelRow, AmendRow, Goes, Ends
  <2>3. QED
    BY <2>1, <2>2 DEF Unseen
<1>4. CASE \/ FlagJob(r) \/ ReadForInvoice(r) \/ NextNumber(r) \/ InsertInvoice(r)
           \/ PartnerConverts(r) \/ GenerateInternalRef(r) \/ StopJob(r) \/ MoveJob(r)
  BY <1>4 DEF Unseen, FlagJob, ReadForInvoice, NextNumber, InsertInvoice, PartnerConverts,
     GenerateInternalRef, StopJob, MoveJob, Ends
<1>5. QED
  BY <1>2, <1>3, <1>4

\* Storing a session opens it in the ledger for the booking and, of a return
\* trip, for both.
LEMMA StoreSessionOpens ==
  ASSUME IInv, NEW r \in Requests, StoreSession(r)
  PROVE  \E s \in Sessions : \E L \in SUBSET Legs : Ledger!Open(s, L)
<1> DEFINE s == req[r].session
           l == req[r].leg
<1>1. s \in Sessions /\ l \in Legs /\ money[s] = "none" /\ tx[s].leg = NoLeg
  BY DEF IInv, Sound, Rows, StoreSession, At
<1>2. UNCHANGED grouped /\ UNCHANGED booking
  BY DEF StoreSession, Ends
<1>3. /\ \A k \in Sessions \ {s} : tx'[k] = tx[k] /\ money'[k] = money[k]
      /\ tx'[s].leg = l /\ money'[s] = "open"
  <2>1. tx \in [Sessions -> TransactionRow]
        /\ money \in [Sessions -> {"none", "open", "captured", "declined"}]
    BY DEF IInv, Typed, TypeOK
  <2>2. [tx[s] EXCEPT !.leg = l].leg = l
    BY <1>1, <2>1 DEF TransactionRow
  <2>3. QED
    BY <1>1, <2>1, <2>2 DEF StoreSession
<1>4. Covers(s) = {} /\ Family(l) # {} /\ Family(l) \in SUBSET Legs
  BY <1>1 DEF Covers, Family
<1>5. [k \in Sessions |-> Covers(k)]' = [[k \in Sessions |-> Covers(k)] EXCEPT ![s] = Family(l)]
  BY <1>1, <1>2, <1>3, Constants DEF Covers, Family
<1>6. /\ {k \in Sessions : money[k] = "captured"}' = {k \in Sessions : money[k] = "captured"}
      /\ {k \in Sessions : money[k] = "declined"}' = {k \in Sessions : money[k] = "declined"}
  BY <1>1, <1>3
<1>7. {m \in Legs : booking[m].payment = "PAID"}' = {m \in Legs : booking[m].payment = "PAID"}
  BY <1>2
<1>8. Ledger!Open(s, Family(l))
  BY <1>1, <1>4, <1>5, <1>6, <1>7 DEF Ledger!Open
<1>9. QED
  BY <1>1, <1>4, <1>8

LEMMA GatewaySteps ==
  ASSUME IInv, NEW s \in Sessions, Capture(s) \/ Refuse(s)
  PROVE  Ledger!Capture(s) \/ Ledger!Refuse(s)
<1>1. money[s] = "open" /\ tx[s].leg # NoLeg
  BY DEF IInv, Rows, Capture, Refuse
<1>2. Covers(s) # {}
  BY <1>1 DEF IInv, Typed, TypeOK, TransactionRow, Covers, Family
<1>3. UNCHANGED [k \in Sessions |-> Covers(k)]
  BY DEF Capture, Refuse, Covers, Family
<1>4. UNCHANGED {l \in Legs : booking[l].payment = "PAID"}
  BY DEF Capture, Refuse
<1>5. money \in [Sessions -> {"none", "open", "captured", "declined"}]
  BY DEF IInv, Typed, TypeOK
<1>6. CASE Capture(s)
  <2>1. /\ {k \in Sessions : money[k] = "captured"}'
             = {k \in Sessions : money[k] = "captured"} \cup {s}
        /\ UNCHANGED {k \in Sessions : money[k] = "declined"}
    BY <1>1, <1>5, <1>6 DEF Capture
  <2>2. QED
    BY <1>1, <1>2, <1>3, <1>4, <2>1 DEF Ledger!Capture
<1>7. CASE Refuse(s)
  <2>1. /\ {k \in Sessions : money[k] = "declined"}'
             = {k \in Sessions : money[k] = "declined"} \cup {s}
        /\ UNCHANGED {k \in Sessions : money[k] = "captured"}
    BY <1>1, <1>5, <1>7 DEF Refuse
  <2>2. s \notin StripeSessions
    BY <1>7, Constants DEF Refuse
  <2>3. QED
    BY <1>1, <1>2, <1>3, <1>4, <2>1, <2>2 DEF Ledger!Refuse
<1>8. QED
  BY <1>6, <1>7

\* Writing what a callback brings into rows of its session is a settlement, or
\* undoes one.
LEMMA WritesSettle ==
  ASSUME IInv, NEW r \in Requests, req[r].at \in {"booking", "mirror"},
         NEW L \in SUBSET Legs, L \subseteq Family(req[r].leg),
         \A l \in Legs : booking'[l].payment = IF l \in L THEN Outcome(req[r])
                                               ELSE booking[l].payment,
         UNCHANGED <<grouped, tx, money>>
  PROVE  \E s \in Sessions : Ledger!Settle(s, L) \/ Ledger!Undo(s, L)
<1>1. PICK q \in Request : q = req[r]
  BY DEF IInv, Typed, TypeOK
<1>2. /\ q.leg \in Legs /\ q.session \in Sessions /\ tx[q.session].leg = q.leg
      /\ money[q.session] = IF q.paid THEN "captured" ELSE "declined"
  BY <1>1 DEF IInv, Sound
<1>3. L \subseteq Covers(q.session)
  BY <1>1, <1>2, Constants DEF Covers
<1>4. UNCHANGED [s \in Sessions |-> Covers(s)]
  BY DEF Covers, Family
<1>5. /\ UNCHANGED {s \in Sessions : money[s] = "captured"}
      /\ UNCHANGED {s \in Sessions : money[s] = "declined"}
  OBVIOUS
<1>6. CASE q.paid
  <2>1. {l \in Legs : booking[l].payment = "PAID"}'
          = {l \in Legs : booking[l].payment = "PAID"} \cup L
    BY <1>1, <1>6 DEF Outcome
  <2>2. Ledger!Settle(q.session, L)
    BY <1>2, <1>3, <1>4, <1>5, <1>6, <2>1 DEF Ledger!Settle
  <2>3. QED
    BY <1>2, <2>2
<1>7. CASE ~q.paid
  <2>1. {l \in Legs : booking[l].payment = "PAID"}'
          = {l \in Legs : booking[l].payment = "PAID"} \ L
    BY <1>1, <1>7 DEF Outcome
  <2>2. Ledger!Undo(q.session, L)
    BY <1>2, <1>3, <1>4, <1>5, <1>7, <2>1 DEF Ledger!Undo
  <2>3. QED
    BY <1>2, <2>2
<1>8. QED
  BY <1>6, <1>7

LEMMA SettlingSettles ==
  ASSUME IInv, NEW r \in Requests, SettleBooking(r) \/ MirrorLegs(r)
  PROVE  \E s \in Sessions : \E L \in SUBSET Legs : Ledger!Settle(s, L) \/ Ledger!Undo(s, L)
<1>1. /\ booking \in [Legs -> BookingRow] /\ req[r].leg \in Legs
      /\ req[r].at \in {"booking", "mirror"} /\ (req[r].at = "mirror" => grouped)
  BY DEF IInv, Typed, TypeOK, Sound, SettleBooking, MirrorLegs, At
<1>2. UNCHANGED <<grouped, tx, money>>
  BY DEF SettleBooking, MirrorLegs, AfterBooking, Goes, Ends
<1>3. ASSUME NEW l \in Legs
      PROVE  [booking[l] EXCEPT !.payment = Outcome(req[r])].payment = Outcome(req[r])
  BY <1>1 DEF BookingRow
<1>4. CASE SettleBooking(r)
  <2>1. {req[r].leg} \subseteq Family(req[r].leg) /\ {req[r].leg} \in SUBSET Legs
    BY <1>1 DEF Family
  <2>2. \A l \in Legs : booking'[l].payment = IF l \in {req[r].leg} THEN Outcome(req[r])
                                              ELSE booking[l].payment
    BY <1>1, <1>3, <1>4 DEF SettleBooking
  <2>3. QED
    BY <1>1, <1>2, <2>1, <2>2, WritesSettle
<1>5. CASE MirrorLegs(r)
  <2>1. Legs \ {req[r].leg} \subseteq Family(req[r].leg)
    BY <1>1, <1>5 DEF Family, MirrorLegs, At
  <2>2. \A l \in Legs : booking'[l].payment = IF l \in Legs \ {req[r].leg}
                                              THEN Outcome(req[r]) ELSE booking[l].payment
    BY <1>3, <1>5 DEF MirrorLegs
  <2>3. QED
    BY <1>1, <1>2, <2>1, <2>2, WritesSettle
<1>6. QED
  BY <1>4, <1>5

LEMMA InitLedger == Init => Ledger!Init
BY DEF Init, Ledger!Init, Covers

LEMMA NextLedger == IInv /\ [Next]_vars => [Ledger!Next]_(Ledger!ledger)
<1> SUFFICES ASSUME IInv, [Next]_vars PROVE Ledger!Next \/ UNCHANGED Ledger!ledger
  OBVIOUS
<1>1. CASE UNCHANGED vars \/ Crash \/ \E l \in Legs : Tick(l)
  <2>1. Unseen
    BY <1>1 DEF Unseen, vars, Crash, Tick, gateway
  <2>2. QED
    BY <2>1, UnseenStutters
<1>2. CASE \E s \in Sessions : Capture(s) \/ Refuse(s)
  BY <1>2, GatewaySteps DEF Ledger!Next
<1>3. ASSUME NEW r \in Requests, Admission(r) PROVE UNCHANGED Ledger!ledger
  BY <1>3, AdmissionIsUnseen, UnseenStutters
<1>4. ASSUME NEW r \in Requests, Proceed(r) PROVE Ledger!Next \/ UNCHANGED Ledger!ledger
  <2>1. CASE StoreSession(r)
    BY <2>1, StoreSessionOpens DEF Ledger!Next
  <2>2. CASE SettleBooking(r) \/ MirrorLegs(r)
    BY <2>2, SettlingSettles DEF Ledger!Next
  <2>3. CASE ~(StoreSession(r) \/ SettleBooking(r) \/ MirrorLegs(r))
    BY <1>4, <2>3, PlainIsUnseen, UnseenStutters DEF Proceed
  <2>4. QED
    BY <2>1, <2>2, <2>3
<1>5. QED
  BY <1>1, <1>2, <1>3, <1>4 DEF Next

\* Refinement: whatever is repeated, refused, overlapped or cut short, the
\* handlers implement PaymentLedger.
THEOREM ImplementsLedger == Spec => LedgerSpec
BY InitLedger, NextLedger, Inductive, PTL DEF Spec, LedgerSpec, Ledger!Spec

-----------------------------------------------------------------------------
(***************************************************************************)
(* A booking knows its newest job.                                         *)
(***************************************************************************)
Own(l) == {n \in Created : jobs[n].leg = l}

\* References leave no gap, and whoever has drawn one has seen all lower ones.
InOrder ==
  /\ \A n \in Created : 1..n \subseteq Created
  /\ \A r \in Requests :
       req[r].at = "job" => req[r].no # 0 /\ 1..(req[r].no - 1) \subseteq Created

Numbered == InOrder /\ NewestLinked

LEMMA HighestIs ==
  ASSUME NEW S \in SUBSET Nat, NEW n \in S, \A m \in S : m <= n
  PROVE  Highest(S) = n
<1>1. \E k \in S : \A m \in S : m <= k
  OBVIOUS
<1>2. Highest(S) \in S /\ \A m \in S : m <= Highest(S)
  BY <1>1 DEF Highest
<1>3. PICK k \in S : k = Highest(S)
  BY <1>2
<1>4. n <= k /\ k <= n /\ n \in Nat /\ k \in Nat
  BY <1>2, <1>3
<1>5. QED
  BY <1>3, <1>4

\* A reference drawn now is the first that is not in use, or already taken.
LEMMA RefIsNext ==
  ASSUME InOrder, NEW n, n = OfficeRef(Created) \/ n = TextRef(Created)
  PROVE  n \in Nat \ {0} /\ 1..(n - 1) \subseteq Created
<1>1. Created \in SUBSET Nat /\ IsFiniteSet(Created)
  BY CreatedIsFinite
<1>2. n = OfficeRef(Created) => n \in Nat \ {0} /\ 1..(n - 1) \subseteq Created
  <2>1. CASE Created = {}
    BY <2>1 DEF OfficeRef
  <2>2. CASE Created # {}
    <3>1. Highest(Created) \in Created
      BY <1>1, <2>2, HighestIsThere
    <3>2. 1..Highest(Created) \subseteq Created
      BY <3>1 DEF InOrder
    <3>3. PICK h \in Nat : h = Highest(Created)
      BY <1>1, <3>1
    <3>4. OfficeRef(Created) = h + 1 /\ 1..h \subseteq Created /\ (h + 1) - 1 = h
      BY <2>2, <3>2, <3>3 DEF OfficeRef
    <3>5. QED
      BY <3>4
  <2>3. QED
    BY <2>1, <2>2
<1>3. CASE n = TextRef(Created) /\ Rollover - 1 \in Created
  <2>1. 1..(Rollover - 1) \subseteq Created /\ n = Rollover
    BY <1>3 DEF InOrder, TextRef
  <2>2. QED
    BY <2>1, Constants
<1>4. CASE n = TextRef(Created) /\ Rollover - 1 \notin Created
  BY <1>2, <1>4 DEF TextRef
<1>5. QED
  BY <1>2, <1>3, <1>4

\* No step but the conversion's transaction makes a job or a link.
JobsStand ==
  /\ \A n \in 1..MaxJobs : jobs'[n].exists = jobs[n].exists /\ jobs'[n].leg = jobs[n].leg
  /\ \A l \in Legs : booking'[l].job = booking[l].job

LEMMA AdmissionLeavesJobs ==
  ASSUME NEW r \in Requests, Admission(r)
  PROVE  UNCHANGED <<jobs, booking, tx, money, invoice, notice, grouped>>
BY DEF Admission, Admit, gateway, OfficeJob, StripeWebhook, GetPayInCallback,
   OpenSession, PartnerJob, ConvertToJob, AdminCancel, GuestCancel, AmendBooking

LEMMA ProceedLeavesJobs ==
  ASSUME IInv, NEW r \in Requests, Proceed(r), ~CreateJob(r)
  PROVE  JobsStand
<1>1. booking \in [Legs -> BookingRow] /\ jobs \in [1..MaxJobs -> JobRow]
  BY DEF IInv, Typed, TypeOK
<1>2. CASE SettleBooking(r) \/ CreateBooking(r) \/ CancelRow(r) \/ AmendRow(r)
  <2>1. UNCHANGED jobs
    BY <1>2 DEF SettleBooking, CreateBooking, CancelRow, AmendRow
  <2>2. \A l \in Legs : booking'[l].job = booking[l].job
    <3>1. CASE SettleBooking(r)
      BY <1>1, <3>1 DEF SettleBooking, BookingRow
    <3>2. CASE CreateBooking(r)
      BY <1>1, <3>2 DEF CreateBooking, BookingRow
    <3>3. CASE CancelRow(r)
      BY <1>1, <3>3 DEF CancelRow, BookingRow
    <3>4. CASE AmendRow(r)
      BY <1>1, <3>4 DEF AmendRow, BookingRow
    <3>5. QED
      BY <1>2, <3>1, <3>2, <3>3, <3>4
  <2>3. QED
    BY <2>1, <2>2 DEF JobsStand
<1>3. CASE MirrorLegs(r)
  BY <1>1, <1>3 DEF MirrorLegs, JobsStand, BookingRow
<1>4. CASE FlagJob(r) \/ StopJob(r) \/ MoveJob(r)
  <2>1. UNCHANGED booking
    BY <1>4 DEF FlagJob, StopJob, MoveJob
  <2>2. \A n \in 1..MaxJobs : jobs'[n].exists = jobs[n].exists /\ jobs'[n].leg = jobs[n].leg
    <3>1. CASE FlagJob(r)
      BY <1>1, <3>1 DEF FlagJob, JobRow
    <3>2. CASE StopJob(r)
      BY <1>1, <3>2 DEF StopJob, JobRow
    <3>3. CASE MoveJob(r)
      BY <1>1, <3>3 DEF MoveJob, JobRow
    <3>4. QED
      BY <1>4, <3>1, <3>2, <3>3
  <2>3. QED
    BY <2>1, <2>2 DEF JobsStand
<1>5. CASE \/ StoreSession(r) \/ SettleTransaction(r) \/ ReadForInvoice(r) \/ NextNumber(r)
           \/ InsertInvoice(r) \/ PartnerConverts(r) \/ GenerateInternalRef(r)
  BY <1>5 DEF JobsStand, StoreSession, SettleTransaction, ReadForInvoice, NextNumber,
     InsertInvoice, PartnerConverts, GenerateInternalRef
<1>6. QED
  BY <1>2, <1>3, <1>4, <1>5 DEF Proceed

LEMMA SameJobs ==
  ASSUME JobsStand
  PROVE  Created' = Created /\ \A l \in Legs : Own(l)' = Own(l)
BY DEF JobsStand, Created, Own

LEMMA NumberedByStanding ==
  ASSUME Numbered, JobsStand,
         \A r \in Requests : req'[r].at = "job" => req'[r] = req[r]
  PROVE  Numbered'
<1>1. Created' = Created /\ \A l \in Legs : Own(l)' = Own(l)
  BY SameJobs
<1>2. InOrder'
  BY <1>1 DEF Numbered, InOrder
<1>3. NewestLinked'
  BY <1>1 DEF Numbered, NewestLinked, Own, JobsStand
<1>4. QED
  BY <1>2, <1>3 DEF Numbered

-----------------------------------------------------------------------------
(***************************************************************************)
(* What a step makes of a request.                                         *)
(***************************************************************************)
\* What a request has read when it comes in.
Fresh(q) ==
  /\ q.leg \in Legs \cup {NoLeg}
  /\ q.at \in {"session", "transaction", "create", "read", "ref", "cancel", "amend"}
  /\ q.at = "transaction" =>
       q.op \in {"stripe", "getpayin"} /\ (q.paid \/ booking[q.leg].payment # "PAID")
  /\ q.at = "ref" /\ q.leg # NoLeg =>
       booking[q.leg].status = "CONFIRMED" /\ q.date = booking[q.leg].date
  /\ q.at = "cancel" =>
       /\ q.leg \in Legs /\ booking[q.leg].status \in {"CONFIRMED", "CONVERTED"}
       /\ \/ q.job = booking[q.leg].job
          \/ q.job = 0 /\ booking[q.leg].status = "CONFIRMED"
  /\ q.at = "amend" => q.leg \in Legs /\ q.job = booking[q.leg].job

LEMMA Entry ==
  ASSUME IInv, NEW r \in Requests, Admission(r)
  PROVE  /\ \A o \in Requests \ {r} : req'[o] = req[o]
         /\ torn' = torn \cup Overlaps(r, req'[r])
         /\ req[r] = Idle /\ Fresh(req'[r])
<1>1. req \in [Requests -> Request]
  BY DEF IInv, Typed, TypeOK
<1>2. ASSUME NEW q, Admit(r, q)
      PROVE  /\ \A o \in Requests \ {r} : req'[o] = req[o]
             /\ req'[r] = q /\ req[r] = Idle /\ torn' = torn \cup Overlaps(r, req'[r])
  BY <1>1, <1>2 DEF Admit
<1>3. CASE OfficeJob(r)
  <2>1. Fresh([Idle EXCEPT !.op = "office", !.at = "ref"])
    BY DEF Fresh, Idle
  <2>2. QED
    BY <1>2, <1>3, <2>1 DEF OfficeJob
<1>4. ASSUME NEW s \in Sessions, StripeWebhook(r, s) PROVE Fresh(req'[r])
  <2>1. tx[s].leg \in Legs \cup {NoLeg}
    BY DEF IInv, Typed, TypeOK, TransactionRow
  <2>2. Fresh([Idle EXCEPT !.op = "stripe", !.at = "transaction", !.leg = tx[s].leg,
                           !.session = s, !.paid = TRUE])
    BY <2>1 DEF Fresh, Idle
  <2>3. QED
    BY <1>2, <1>4, <2>2 DEF StripeWebhook
<1>5. ASSUME NEW s \in Sessions, GetPayInCallback(r, s) PROVE Fresh(req'[r])
  <2>1. tx[s].leg \in Legs \cup {NoLeg} /\ booking[tx[s].leg].payment # "PAID"
    BY <1>5 DEF IInv, Typed, TypeOK, TransactionRow, GetPayInCallback
  <2>2. Fresh([Idle EXCEPT !.op = "getpayin", !.at = "transaction", !.leg = tx[s].leg,
                           !.session = s, !.paid = (money[s] = "captured"),
                           !.job = booking[tx[s].leg].job])
    BY <2>1 DEF Fresh, Idle
  <2>3. QED
    BY <1>2, <1>5, <2>2 DEF GetPayInCallback
<1>6. ASSUME NEW l \in Legs, NEW s \in Sessions, OpenSession(r, l, s) PROVE Fresh(req'[r])
  <2>1. Fresh([Idle EXCEPT !.op = "open", !.at = "session", !.leg = l, !.session = s])
    BY DEF Fresh, Idle
  <2>2. QED
    BY <1>2, <1>6, <2>1 DEF OpenSession
<1>7. ASSUME NEW l \in Legs, PartnerJob(r, l) PROVE Fresh(req'[r])
  <2>1. Fresh([Idle EXCEPT !.op = "partner", !.leg = l,
                 !.at = IF booking[l].status = "ABSENT" THEN "create" ELSE "read"])
    BY DEF Fresh, Idle
  <2>2. QED
    BY <1>2, <1>7, <2>1 DEF PartnerJob
<1>8. ASSUME NEW l \in Legs, ConvertToJob(r, l) PROVE Fresh(req'[r])
  <2>1. Fresh([Idle EXCEPT !.op = "convert", !.leg = l, !.at = "ref",
                           !.date = booking[l].date])
    BY <1>8 DEF Fresh, Idle, ConvertToJob
  <2>2. QED
    BY <1>2, <1>8, <2>1 DEF ConvertToJob
<1>9. ASSUME NEW l \in Legs, AdminCancel(r, l) PROVE Fresh(req'[r])
  <2>1. Fresh([Idle EXCEPT !.op = "adminCancel", !.leg = l, !.at = "cancel"])
    BY <1>9 DEF Fresh, Idle, AdminCancel
  <2>2. QED
    BY <1>2, <1>9, <2>1 DEF AdminCancel
<1>10. ASSUME NEW l \in Legs, GuestCancel(r, l) PROVE Fresh(req'[r])
  <2>1. Fresh([Idle EXCEPT !.op = "guestCancel", !.leg = l, !.at = "cancel",
                           !.job = booking[l].job])
    BY <1>10 DEF Fresh, Idle, GuestCancel
  <2>2. QED
    BY <1>2, <1>10, <2>1 DEF GuestCancel
<1>11. ASSUME NEW l \in Legs, NEW d \in Schedules, AmendBooking(r, l, d)
       PROVE  Fresh(req'[r])
  <2>1. Fresh([Idle EXCEPT !.op = "amend", !.leg = l, !.at = "amend",
                           !.date = d, !.job = booking[l].job])
    BY DEF Fresh, Idle
  <2>2. QED
    BY <1>2, <1>11, <2>1 DEF AmendBooking
<1>12. Fresh(req'[r])
  BY <1>2, <1>3, <1>4, <1>5, <1>6, <1>7, <1>8, <1>9, <1>10, <1>11 DEF Admission, OfficeJob
<1>13. \E q : Admit(r, q)
  BY DEF Admission, OfficeJob, StripeWebhook, GetPayInCallback, OpenSession, PartnerJob,
     ConvertToJob, AdminCancel, GuestCancel, AmendBooking
<1>14. QED
  BY <1>2, <1>12, <1>13

\* Request p has become q by one statement of its handler.
Follows(p, q) ==
  /\ q.op = p.op /\ q.leg = p.leg /\ q.job = p.job
  /\ q.at \in {"booking", "mirror", "flag", "invoice", "number", "insert", "read", "ref",
               "job", "stopJob", "moveJob"}
  /\ q.at = "booking" => p.at = "transaction" /\ q.paid = p.paid
  /\ q.at = "mirror" => p.at = "booking" /\ q.paid = p.paid
  /\ q.at = "flag" => p.at \in {"booking", "mirror"}
  /\ q.at = "invoice" => p.at \in {"booking", "mirror"}
  /\ q.at = "number" => p.at \in {"invoice", "insert"}
  /\ q.at = "insert" => p.at = "number"
  /\ q.at = "read" => p.at = "create"
  /\ q.at = "ref" =>
       p.at = "read" /\ booking[p.leg].status = "CONFIRMED" /\ q.date = booking[p.leg].date
  /\ q.at = "job" =>
       /\ p.at = "ref" /\ q.date = p.date
       /\ q.no = OfficeRef(Created) \/ q.no = TextRef(Created)
  /\ q.at = "stopJob" => p.at = "cancel" /\ q.job # 0
  /\ q.at = "moveJob" => p.at = "amend" /\ q.job # 0 /\ q.date = p.date

Passes(r) ==
  /\ \A o \in Requests \ {r} : req'[o] = req[o]
  /\ UNCHANGED <<grouped, torn>>
  /\ req'[r] = Idle \/ Follows(req[r], req'[r])

LEMMA Passage ==
  ASSUME IInv, NEW r \in Requests, Proceed(r)
  PROVE  Passes(r)
<1>1. req \in [Requests -> Request]
  BY DEF IInv, Typed, TypeOK
<1>2. PICK p \in Request : p = req[r]
  BY <1>1
<1>3. ASSUME Ends(r) PROVE Passes(r)
  BY <1>1, <1>3 DEF Ends, Passes
<1>4. ASSUME NEW statement, Goes(r, statement), Follows(p, [p EXCEPT !.at = statement])
      PROVE  Passes(r)
  <2>1. req'[r] = [p EXCEPT !.at = statement]
    BY <1>1, <1>2, <1>4 DEF Goes
  <2>2. Follows(req[r], req'[r])
    BY <1>2, <1>4, <2>1
  <2>3. QED
    BY <1>1, <1>4, <2>2 DEF Goes, Passes
<1>5. ASSUME NEW q, req' = [req EXCEPT ![r] = q], UNCHANGED <<grouped, torn>>, Follows(p, q)
      PROVE  Passes(r)
  BY <1>1, <1>2, <1>5 DEF Passes
<1>6. CASE StoreSession(r) \/ FlagJob(r) \/ CreateJob(r) \/ StopJob(r) \/ MoveJob(r)
  BY <1>3, <1>6 DEF StoreSession, FlagJob, CreateJob, StopJob, MoveJob
<1>7. CASE SettleTransaction(r)
  <2>1. Follows(p, [p EXCEPT !.at = "booking"])
    BY <1>2, <1>7 DEF Follows, SettleTransaction, At, Request
  <2>2. QED
    BY <1>4, <1>7, <2>1 DEF SettleTransaction
<1>8. ASSUME AfterBooking(r), p.at \in {"booking", "mirror"} PROVE Passes(r)
  <2>1. Follows(p, [p EXCEPT !.at = "invoice"]) /\ Follows(p, [p EXCEPT !.at = "flag"])
    BY <1>8 DEF Follows, Request
  <2>2. QED
    BY <1>3, <1>4, <1>8, <2>1 DEF AfterBooking
<1>9. CASE SettleBooking(r)
  <2>1. p.at = "booking"
    BY <1>2, <1>9 DEF SettleBooking, At
  <2>2. Follows(p, [p EXCEPT !.at = "mirror"])
    BY <2>1 DEF Follows, Request
  <2>3. QED
    BY <1>4, <1>8, <1>9, <2>1, <2>2 DEF SettleBooking
<1>10. CASE MirrorLegs(r)
  BY <1>2, <1>8, <1>10 DEF MirrorLegs, At
<1>11. CASE ReadForInvoice(r)
  <2>1. CASE Ends(r)
    BY <1>3, <2>1
  <2>2. CASE ~Ends(r)
    <3>1. PICK b : b = (booking[p.leg].payment = "PAID")
      OBVIOUS
    <3>2. p.at = "invoice" /\ UNCHANGED <<grouped, torn>>
      BY <1>2, <1>11, <2>2 DEF ReadForInvoice, At
    <3>3. req' = [req EXCEPT ![r] = [p EXCEPT !.at = "number", !.paid = b]]
      BY <1>2, <1>11, <2>2, <3>1 DEF ReadForInvoice
    <3>4. Follows(p, [p EXCEPT !.at = "number", !.paid = b])
      BY <3>2 DEF Follows, Request
    <3>5. QED
      BY <1>5, <3>2, <3>3, <3>4
  <2>3. QED
    BY <2>1, <2>2
<1>12. CASE NextNumber(r)
  <2>1. p.at = "number" /\ UNCHANGED <<grouped, torn>>
    BY <1>2, <1>12 DEF NextNumber, At
  <2>2. req' = [req EXCEPT ![r] = [p EXCEPT !.at = "insert", !.no = TextRef(NumbersUsed)]]
    BY <1>2, <1>12 DEF NextNumber
  <2>3. Follows(p, [p EXCEPT !.at = "insert", !.no = TextRef(NumbersUsed)])
    BY <2>1 DEF Follows, Request
  <2>4. QED
    BY <1>5, <2>1, <2>2, <2>3
<1>13. CASE InsertInvoice(r)
  <2>1. CASE Ends(r)
    BY <1>3, <2>1
  <2>2. CASE ~Ends(r)
    <3>1. p.at = "insert" /\ UNCHANGED <<grouped, torn>>
      BY <1>2, <1>13, <2>2 DEF InsertInvoice, At
    <3>2. req' = [req EXCEPT ![r] = [p EXCEPT !.at = "number", !.tries = p.tries + 1]]
      BY <1>2, <1>13, <2>2 DEF InsertInvoice
    <3>3. Follows(p, [p EXCEPT !.at = "number", !.tries = p.tries + 1])
      BY <3>1 DEF Follows, Request
    <3>4. QED
      BY <1>5, <3>1, <3>2, <3>3
  <2>3. QED
    BY <2>1, <2>2
<1>14. CASE CreateBooking(r)
  <2>1. Follows(p, [p EXCEPT !.at = "read"])
    BY <1>2, <1>14 DEF Follows, CreateBooking, At, Request
  <2>2. QED
    BY <1>3, <1>4, <1>14, <2>1 DEF CreateBooking
<1>15. CASE PartnerConverts(r)
  <2>1. CASE Ends(r)
    BY <1>3, <2>1
  <2>2. CASE ~Ends(r)
    <3>1. /\ p.at = "read" /\ UNCHANGED <<grouped, torn>>
          /\ booking[p.leg].status = "CONFIRMED"
      BY <1>2, <1>15, <2>2 DEF PartnerConverts, At
    <3>2. req' = [req EXCEPT ![r] = [p EXCEPT !.at = "ref", !.date = booking[p.leg].date]]
      BY <1>2, <1>15, <2>2 DEF PartnerConverts
    <3>3. Follows(p, [p EXCEPT !.at = "ref", !.date = booking[p.leg].date])
      BY <3>1 DEF Follows, Request
    <3>4. QED
      BY <1>5, <3>1, <3>2, <3>3
  <2>3. QED
    BY <2>1, <2>2
<1>16. CASE GenerateInternalRef(r)
  <2>1. PICK n : n = IF p.op = "office" THEN OfficeRef(Created) ELSE TextRef(Created)
    OBVIOUS
  <2>2. p.at = "ref" /\ UNCHANGED <<grouped, torn>>
    BY <1>2, <1>16 DEF GenerateInternalRef, At
  <2>3. req' = [req EXCEPT ![r] = [p EXCEPT !.at = "job", !.no = n]]
    BY <1>2, <1>16, <2>1 DEF GenerateInternalRef
  <2>4. Follows(p, [p EXCEPT !.at = "job", !.no = n])
    BY <2>1, <2>2 DEF Follows, Request
  <2>5. QED
    BY <1>5, <2>2, <2>3, <2>4
<1>17. CASE CancelRow(r)
  <2>1. p.at = "cancel"
    BY <1>2, <1>17 DEF CancelRow, At
  <2>2. p.job # 0 => Follows(p, [p EXCEPT !.at = "stopJob"])
    BY <2>1 DEF Follows, Request
  <2>3. QED
    BY <1>2, <1>3, <1>4, <1>17, <2>2 DEF CancelRow
<1>18. CASE AmendRow(r)
  <2>1. p.at = "amend"
    BY <1>2, <1>18 DEF AmendRow, At
  <2>2. p.job # 0 => Follows(p, [p EXCEPT !.at = "moveJob"])
    BY <2>1 DEF Follows, Request
  <2>3. QED
    BY <1>2, <1>3, <1>4, <1>18, <2>2 DEF AmendRow
<1>19. QED
  BY <1>6, <1>7, <1>9, <1>10, <1>11, <1>12, <1>13, <1>14, <1>15, <1>16, <1>17, <1>18
     DEF Proceed

-----------------------------------------------------------------------------
(***************************************************************************)
(* The newest job.                                                         *)
(***************************************************************************)
\* What the conversion's transaction does when its reference is free.
MakesJob(r) ==
  LET q == req[r]  n == q.no IN
    /\ q.at = "job" /\ n \in (1..MaxJobs) \ Created
    /\ Created' = Created \cup {n}
    /\ \A m \in (1..MaxJobs) \ {n} : jobs'[m] = jobs[m]
    /\ jobs'[n].exists /\ jobs'[n].leg = q.leg
    /\ jobs'[n].status = "PENDING" /\ jobs'[n].date = q.date
    /\ \A l \in Legs \ {q.leg} : booking'[l] = booking[l]
    /\ q.leg \in Legs =>
         /\ booking'[q.leg].job = n /\ booking'[q.leg].status = "CONVERTED"
         /\ booking'[q.leg].date = booking[q.leg].date
         /\ booking'[q.leg].payment = booking[q.leg].payment

LEMMA CreateJobEffect ==
  ASSUME IInv, NEW r \in Requests, CreateJob(r)
  PROVE  MakesJob(r) \/ UNCHANGED <<jobs, booking>>
<1> DEFINE n == req[r].no
<1>1. /\ booking \in [Legs -> BookingRow] /\ jobs \in [1..MaxJobs -> JobRow]
      /\ req[r] \in Request /\ NoLeg \notin Legs
  BY Constants DEF IInv, Typed, TypeOK
<1>2. CASE n \notin (1..MaxJobs) \ Created
  BY <1>2 DEF CreateJob
<1>3. CASE n \in (1..MaxJobs) \ Created
  <2>1. /\ req[r].at = "job"
        /\ jobs' = [jobs EXCEPT ![n] = JobOf(req[r])]
        /\ booking' = IF req[r].leg = NoLeg THEN booking
                      ELSE [booking EXCEPT ![req[r].leg] = Converted(@, n)]
    BY <1>3 DEF CreateJob, At
  <2>2. /\ jobs'[n] = JobOf(req[r]) /\ \A m \in (1..MaxJobs) \ {n} : jobs'[m] = jobs[m]
    BY <1>1, <1>3, <2>1
  <2>3. /\ jobs'[n].exists /\ jobs'[n].leg = req[r].leg
        /\ jobs'[n].status = "PENDING" /\ jobs'[n].date = req[r].date
    BY <2>2 DEF JobOf
  <2>4. Created' = Created \cup {n}
    BY <1>3, <2>2, <2>3 DEF Created
  <2>5. \A l \in Legs \ {req[r].leg} : booking'[l] = booking[l]
    BY <1>1, <2>1
  <2>6. \A b \in BookingRow : /\ Converted(b, n).job = n
                              /\ Converted(b, n).status = "CONVERTED"
                              /\ Converted(b, n).date = b.date
                              /\ Converted(b, n).payment = b.payment
    BY DEF Converted, BookingRow
  <2>7. req[r].leg \in Legs =>
          booking'[req[r].leg] = Converted(booking[req[r].leg], n)
    BY <1>1, <2>1
  <2>8. QED
    BY <1>1, <1>3, <2>1, <2>2, <2>3, <2>4, <2>5, <2>6, <2>7 DEF MakesJob
<1>4. QED
  BY <1>2, <1>3

LEMMA MakingNumbers ==
  ASSUME IInv, Numbered, NEW r \in Requests, MakesJob(r),
         \A o \in Requests : req'[o].at = "job" => req'[o] = req[o]
  PROVE  Numbered'
<1> DEFINE q == req[r]
<1>1. PICK n \in Nat \ {0} : n = q.no
  BY Constants DEF MakesJob
<1>2. /\ n \in 1..MaxJobs /\ n \notin Created /\ Created' = Created \cup {n}
      /\ 1..(n - 1) \subseteq Created /\ Created \subseteq Nat
  BY <1>1, CreatedIsFinite DEF MakesJob, Numbered, InOrder
<1>3. \A m \in Created : m < n
  <2>1. ASSUME NEW m \in Created PROVE m < n
    <3>1. 1..m \subseteq Created /\ m \in Nat
      BY <1>2 DEF Numbered, InOrder
    <3>2. QED
      BY <1>2, <3>1
  <2>2. QED
    BY <2>1
<1>4. InOrder'
  <2>1. \A m \in Created' : 1..m \subseteq Created'
    <3>1. 1..n \subseteq Created'
      BY <1>2
    <3>2. QED
      BY <1>2, <3>1 DEF Numbered, InOrder
  <2>2. QED
    BY <1>2, <2>1 DEF Numbered, InOrder
<1>5. ASSUME NEW l \in Legs
      PROVE  booking'[l].job = IF Own(l)' = {} THEN 0 ELSE Highest(Own(l)')
  <2>1. Created \subseteq (1..MaxJobs) \ {n} /\ jobs'[n].leg = q.leg
    BY <1>1, <1>2 DEF MakesJob, Created
  <2>2. \A m \in Created : jobs'[m] = jobs[m]
    BY <1>1, <2>1 DEF MakesJob
  <2>3. CASE l = q.leg
    <3>1. Own(l)' = Own(l) \cup {n} /\ booking'[l].job = n
      <4>1. booking'[l].job = n
        BY <1>1, <2>3 DEF MakesJob
      <4>2. jobs'[n].leg = l
        BY <2>1, <2>3
      <4>3. Own(l)' = Own(l) \cup {n}
        BY <1>2, <2>2, <4>2 DEF Own
      <4>4. QED
        BY <4>1, <4>3
    <3>2. Own(l) \subseteq Created
      BY DEF Own
    <3>3. PICK S \in SUBSET Nat : S = Own(l)'
      BY <1>2, <3>1, <3>2
    <3>4. n \in S /\ \A m \in S : m <= n
      BY <1>2, <1>3, <3>1, <3>2, <3>3
    <3>5. Highest(S) = n
      BY <3>4, HighestIs
    <3>6. QED
      BY <3>1, <3>3, <3>4, <3>5
  <2>4. CASE l # q.leg
    <3>1. Own(l)' = Own(l) /\ booking'[l] = booking[l]
      BY <1>1, <1>2, <2>1, <2>2, <2>4 DEF Own, MakesJob
    <3>2. QED
      BY <3>1 DEF Numbered, NewestLinked, Own
  <2>5. QED
    BY <2>3, <2>4
<1>6. NewestLinked'
  BY <1>5 DEF NewestLinked, Own
<1>7. QED
  BY <1>4, <1>6 DEF Numbered

LEMMA NumberedStays == IInv /\ Numbered /\ [Next]_vars => Numbered'
<1> SUFFICES ASSUME IInv, Numbered, [Next]_vars PROVE Numbered'
  OBVIOUS
<1>1. ASSUME NEW r \in Requests, Admission(r) PROVE Numbered'
  <2>1. JobsStand
    BY <1>1, AdmissionLeavesJobs DEF JobsStand
  <2>2. \A o \in Requests : req'[o].at = "job" => req'[o] = req[o]
    BY <1>1, Entry DEF Fresh
  <2>3. QED
    BY <2>1, <2>2, NumberedByStanding
<1>2. ASSUME NEW r \in Requests, GenerateInternalRef(r) PROVE Numbered'
  <2>1. Proceed(r) /\ UNCHANGED <<jobs, booking>>
    BY <1>2 DEF Proceed, GenerateInternalRef
  <2>2. Passes(r)
    BY <2>1, Passage
  <2>3. Created' = Created
    BY <2>1 DEF Created
  <2>4. ASSUME NEW o \in Requests, req'[o].at = "job"
        PROVE  req'[o].no # 0 /\ 1..(req'[o].no - 1) \subseteq Created
    <3>1. CASE o # r
      BY <2>2, <2>4, <3>1 DEF Passes, Numbered, InOrder
    <3>2. CASE o = r
      <4>1. req'[r].no = OfficeRef(Created) \/ req'[r].no = TextRef(Created)
        BY <2>2, <2>4, <3>2 DEF Passes, Follows, Idle
      <4>2. QED
        BY <3>2, <4>1, RefIsNext DEF Numbered
    <3>3. QED
      BY <3>1, <3>2
  <2>5. InOrder'
    BY <2>3, <2>4 DEF Numbered, InOrder
  <2>6. NewestLinked'
    BY <2>1, <2>3 DEF Numbered, NewestLinked
  <2>7. QED
    BY <2>5, <2>6 DEF Numbered
<1>3. ASSUME NEW r \in Requests, Proceed(r), ~GenerateInternalRef(r) PROVE Numbered'
  <2>1. \A o \in Requests : req'[o].at = "job" => req'[o] = req[o]
    <3>1. Passes(r)
      BY <1>3, Passage
    <3>2. req'[r].at # "job"
      <4>1. CASE CreateJob(r)
        BY <4>1, EndsEffect DEF CreateJob, Becomes, Idle, IInv
      <4>2. CASE ~CreateJob(r)
        <5>1. req[r].at # "ref"
          BY <1>3, <4>2 DEF Proceed, At, StoreSession, SettleTransaction, SettleBooking,
             MirrorLegs, FlagJob, ReadForInvoice, NextNumber, InsertInvoice, CreateBooking,
             PartnerConverts, CancelRow, StopJob, AmendRow, MoveJob
        <5>2. QED
          BY <3>1, <5>1 DEF Passes, Follows, Idle
      <4>3. QED
        BY <4>1, <4>2
    <3>3. QED
      BY <3>1, <3>2 DEF Passes
  <2>2. CASE CreateJob(r)
    <3>1. CASE MakesJob(r)
      BY <2>1, <3>1, MakingNumbers
    <3>2. CASE UNCHANGED <<jobs, booking>>
      BY <2>1, <3>2, NumberedByStanding DEF JobsStand
    <3>3. QED
      BY <2>2, <3>1, <3>2, CreateJobEffect
  <2>3. CASE ~CreateJob(r)
    BY <1>3, <2>1, <2>3, ProceedLeavesJobs, NumberedByStanding
  <2>4. QED
    BY <2>2, <2>3
<1>4. CASE UNCHANGED vars \/ Crash \/ (\E l \in Legs : Tick(l))
           \/ \E s \in Sessions : Capture(s) \/ Refuse(s)
  <2>1. UNCHANGED <<jobs, booking>>
    BY <1>4 DEF vars, Crash, Tick, Capture, Refuse
  <2>2. \A o \in Requests : req'[o].at = "job" => req'[o] = req[o]
    BY <1>4 DEF vars, Crash, Tick, Capture, Refuse, Idle
  <2>3. QED
    BY <2>1, <2>2, NumberedByStanding DEF JobsStand
<1>5. QED
  BY <1>1, <1>2, <1>3, <1>4 DEF Next

\* A booking is linked to the last job made for it, also when two conversions
\* overlapped: the references a conversion finds taken roll it back, and the
\* ones it does not are the highest.
THEOREM LinksToNewest == Spec => []NewestLinked
<1>1. Init => Numbered
  <2> SUFFICES ASSUME Init PROVE Numbered
    OBVIOUS
  <2>1. Created = {}
    BY DEF Init, Created, NoJob
  <2>2. InOrder
    BY <2>1 DEF Init, InOrder, Idle
  <2>3. NewestLinked
    BY <2>1 DEF Init, NewestLinked
  <2>4. QED
    BY <2>2, <2>3 DEF Numbered
<1>2. Numbered => NewestLinked
  BY DEF Numbered
<1>3. QED
  BY <1>1, <1>2, NumberedStays, Inductive, PTL DEF Spec

-----------------------------------------------------------------------------
(***************************************************************************)
(* One request at a time: what it has read of a leg that is not torn       *)
(* stays true until it is done.                                            *)
(***************************************************************************)
\* Legs two requests touch at once are torn.
Solo ==
  \A r, o \in Requests : r # o => Touches(req[r]) \cap Touches(req[o]) \subseteq torn

\* What request q has read of its leg.
Told(q) ==
  q.leg \in Legs \ torn =>
    /\ q.at \in {"ref", "job"} =>
         booking[q.leg].status = "CONFIRMED" /\ q.date = booking[q.leg].date
    /\ q.at \in {"cancel", "stopJob", "amend", "moveJob"} => q.job = booking[q.leg].job
    /\ q.at \in {"stopJob", "moveJob"} => q.job # 0
    /\ q.at = "stopJob" => booking[q.leg].status = "CANCELLED"
    /\ q.at = "moveJob" => q.date = booking[q.leg].date

\* The job a request knows is its leg's, torn or not.
Owns(q) ==
  q.at \in {"cancel", "stopJob", "amend", "moveJob"} /\ q.job # 0 =>
    jobs[q.job].exists /\ jobs[q.job].leg = q.leg

Unconverted(l) ==
  booking[l].status \in {"ABSENT", "CONFIRMED"} => booking[l].job = 0

\* The leg and its only job agree, but for a request that is about to see to it.
OnlyJob(l) == \A n \in Created : jobs[n].leg = l => booking[l].job = n

BothCancelled(l) ==
  (booking[l].status = "CANCELLED") <=> (jobs[booking[l].job].status = "CANCELLED")

Expected(l, statement) ==
  \E r \in Requests : req[r].leg = l /\ req[r].at = statement

Synced(l) ==
  /\ OnlyJob(l)
  /\ booking[l].job # 0 =>
       /\ BothCancelled(l) \/ Expected(l, "stopJob")
       /\ jobs[booking[l].job].date = booking[l].date \/ Expected(l, "moveJob")

JobInv ==
  /\ Solo
  /\ \A r \in Requests : Told(req[r]) /\ Owns(req[r])
  /\ \A l \in Legs : Unconverted(l)
  /\ \A l \in Legs \ torn : Synced(l)

LEMMA LegIsTouched ==
  ASSUME NEW q, q.leg \in Legs
  PROVE  q.leg \in Touches(q)
BY Constants DEF Touches, Family

LEMMA SoloByPassage ==
  ASSUME Solo, NEW r \in Requests, Passes(r)
  PROVE  Solo'
<1>1. Touches(req[r])' \subseteq Touches(req[r])
  BY DEF Passes, Follows, Touches, Family, Idle
<1>2. \A o \in Requests \ {r} : Touches(req[o])' = Touches(req[o])
  BY DEF Passes, Touches, Family
<1>3. QED
  BY <1>1, <1>2 DEF Solo, Passes

LEMMA SoloByEntry ==
  ASSUME Solo, NEW r \in Requests, UNCHANGED grouped,
         \A o \in Requests \ {r} : req'[o] = req[o],
         torn' = torn \cup Overlaps(r, req'[r])
  PROVE  Solo'
<1>1. \A o \in Requests \ {r} : Touches(req[o])' = Touches(req[o])
  BY DEF Touches, Family
<1>2. Touches(req[r])' = Touches(req'[r])
  BY DEF Touches, Family
<1>3. ASSUME NEW o \in Requests \ {r}
      PROVE  Touches(req[r])' \cap Touches(req[o])' \subseteq torn'
  BY <1>1, <1>2 DEF Overlaps
<1>4. ASSUME NEW o \in Requests \ {r}, NEW p \in Requests \ {r}, o # p
      PROVE  Touches(req[o])' \cap Touches(req[p])' \subseteq torn'
  <2>1. Touches(req[o]) \cap Touches(req[p]) \subseteq torn
    BY <1>4 DEF Solo
  <2>2. torn \subseteq torn'
    OBVIOUS
  <2>3. QED
    BY <1>1, <2>1, <2>2
<1>5. QED
  BY <1>3, <1>4 DEF Solo

SameRow(l) ==
  /\ booking'[l].status = booking[l].status
  /\ booking'[l].job = booking[l].job /\ booking'[l].date = booking[l].date

\* A step of leg k's request leaves the other legs and their jobs alone.
Spares(k) ==
  /\ \A l \in Legs \ {k} : SameRow(l)
  /\ \A n \in 1..MaxJobs : jobs[n].exists => jobs'[n].exists /\ jobs'[n].leg = jobs[n].leg
  /\ \A n \in 1..MaxJobs : jobs'[n].exists /\ jobs'[n].leg # k =>
       /\ jobs[n].exists
       /\ jobs'[n].status = jobs[n].status /\ jobs'[n].date = jobs[n].date

LEMMA Remaining ==
  ASSUME IInv, JobInv, NEW r \in Requests, NEW k, k = req[r].leg, Passes(r),
         Spares(k), Told(req[r])', Owns(req[r])',
         k \in Legs => Unconverted(k)', k \in Legs \ torn => Synced(k)'
  PROVE  JobInv'
<1>1. Solo' /\ torn' = torn /\ \A o \in Requests \ {r} : req'[o] = req[o]
  BY SoloByPassage DEF JobInv, Passes
<1>2. /\ \A o \in Requests : req[o] \in Request
      /\ \A l \in Legs : booking[l].job \in 0..MaxJobs
  BY DEF IInv, Typed, TypeOK, BookingRow
<1>3. ASSUME NEW o \in Requests \ {r} PROVE Told(req[o])'
  <2>1. CASE req[o].leg \in Legs /\ req[o].leg # k
    BY <1>1, <2>1 DEF JobInv, Told, Spares, SameRow
  <2>2. CASE req[o].leg \in Legs /\ req[o].leg = k
    <3>1. k \in Touches(req[o]) \cap Touches(req[r])
      BY <2>2, LegIsTouched
    <3>2. k \in torn
      BY <3>1 DEF JobInv, Solo
    <3>3. QED
      BY <1>1, <2>2, <3>2 DEF Told
  <2>3. CASE req[o].leg \notin Legs
    BY <1>1, <2>3 DEF Told
  <2>4. QED
    BY <2>1, <2>2, <2>3
<1>4. ASSUME NEW o \in Requests \ {r} PROVE Owns(req[o])'
  <2>1. req[o].job # 0 => req[o].job \in 1..MaxJobs
    BY <1>2, Constants DEF Request
  <2>2. QED
    BY <1>1, <2>1 DEF JobInv, Owns, Spares
<1>5. ASSUME NEW l \in Legs PROVE Unconverted(l)'
  <2>1. CASE l = k
    BY <2>1
  <2>2. CASE l # k
    BY <2>2 DEF JobInv, Unconverted, Spares, SameRow
  <2>3. QED
    BY <2>1, <2>2
<1>6. ASSUME NEW l \in Legs \ torn, l # k PROVE Synced(l)'
  <2>1. OnlyJob(l)'
    <3>1. \A n \in Created' : jobs'[n].leg = l => n \in Created /\ jobs[n].leg = l
      BY <1>6 DEF Created, Spares
    <3>2. OnlyJob(l)
      BY DEF JobInv, Synced
    <3>3. QED
      BY <1>6, <3>1, <3>2 DEF OnlyJob, Spares, SameRow
  <2>2. ASSUME booking[l].job # 0
        PROVE  LET n == booking[l].job IN
                 /\ booking'[l].job = n /\ booking'[l].date = booking[l].date
                 /\ booking'[l].status = booking[l].status
                 /\ jobs'[n].status = jobs[n].status /\ jobs'[n].date = jobs[n].date
    <3>1. PICK n \in 1..MaxJobs : n = booking[l].job
      BY <1>2, <2>2, Constants
    <3>2. jobs[n].exists /\ jobs[n].leg = l
      BY <2>2, <3>1 DEF IInv, Linked
    <3>3. jobs'[n].exists /\ jobs'[n].leg # k
      BY <1>6, <3>1, <3>2 DEF Spares
    <3>4. QED
      BY <1>6, <3>1, <3>3 DEF Spares, SameRow
  <2>3. \A statement \in Statements : Expected(l, statement) => Expected(l, statement)'
    BY <1>1, <1>6 DEF Expected
  <2>4. booking'[l].job = booking[l].job /\ Synced(l)
    BY <1>6 DEF JobInv, Spares, SameRow
  <2>5. "stopJob" \in Statements /\ "moveJob" \in Statements
    BY DEF Statements
  <2>6. QED
    BY <2>1, <2>2, <2>3, <2>4, <2>5 DEF Synced, BothCancelled
<1>7. \A l \in Legs \ torn : Synced(l)'
  BY <1>6
<1>8. (\A l \in Legs \ torn : Synced(l))'
  BY <1>1, <1>7
<1>9. (\A o \in Requests : Told(req[o]) /\ Owns(req[o]))'
  BY <1>3, <1>4
<1>10. (\A l \in Legs : Unconverted(l))'
  BY <1>5
<1>11. QED
  BY <1>1, <1>8, <1>9, <1>10 DEF JobInv

\* The statements that leave status, date and link of every booking and job.
RowsStand ==
  /\ \A l \in Legs : SameRow(l)
  /\ \A n \in 1..MaxJobs :
       /\ jobs'[n].exists = jobs[n].exists /\ jobs'[n].leg = jobs[n].leg
       /\ jobs'[n].status = jobs[n].status /\ jobs'[n].date = jobs[n].date

Writing == {"create", "job", "cancel", "stopJob", "amend", "moveJob"}

LEMMA QuietRows ==
  ASSUME IInv, NEW r \in Requests, Proceed(r), req[r].at \notin Writing
  PROVE  RowsStand
<1>1. booking \in [Legs -> BookingRow] /\ jobs \in [1..MaxJobs -> JobRow]
  BY DEF IInv, Typed, TypeOK
<1>2. CASE SettleBooking(r)
  BY <1>1, <1>2 DEF SettleBooking, RowsStand, SameRow, BookingRow
<1>3. CASE MirrorLegs(r)
  BY <1>1, <1>3 DEF MirrorLegs, RowsStand, SameRow, BookingRow
<1>4. CASE FlagJob(r)
  BY <1>1, <1>4 DEF FlagJob, RowsStand, SameRow, JobRow
<1>5. CASE \/ StoreSession(r) \/ SettleTransaction(r) \/ ReadForInvoice(r) \/ NextNumber(r)
           \/ InsertInvoice(r) \/ PartnerConverts(r) \/ GenerateInternalRef(r)
  BY <1>5 DEF RowsStand, SameRow, StoreSession, SettleTransaction, ReadForInvoice,
     NextNumber, InsertInvoice, PartnerConverts, GenerateInternalRef
<1>6. QED
  BY <1>2, <1>3, <1>4, <1>5 DEF Proceed, Writing, CreateBooking, CreateJob, CancelRow,
     StopJob, AmendRow, MoveJob, At

\* The requests waiting for leg l's job wait on.
LEMMA StillExpected ==
  ASSUME NEW r \in Requests, \A o \in Requests \ {r} : req'[o] = req[o],
         NEW l, NEW statement, req[r].at # statement \/ req[r].leg # l, Expected(l, statement)
  PROVE  Expected(l, statement)'
BY DEF Expected

LEMMA SyncedStands ==
  ASSUME IInv, NEW r \in Requests, RowsStand, \A o \in Requests \ {r} : req'[o] = req[o],
         NEW l \in Legs, Synced(l),
         req[r].leg = l => req[r].at \notin {"stopJob", "moveJob"}
  PROVE  Synced(l)'
<1>1. OnlyJob(l)'
  BY DEF Synced, OnlyJob, RowsStand, SameRow, Created
<1>2. ASSUME booking[l].job # 0
      PROVE  LET n == booking[l].job IN
               jobs'[n].status = jobs[n].status /\ jobs'[n].date = jobs[n].date
  <2>1. booking[l].job \in 1..MaxJobs
    BY <1>2, Constants DEF IInv, Typed, TypeOK, BookingRow
  <2>2. QED
    BY <2>1 DEF RowsStand
<1>3. /\ Expected(l, "stopJob") => Expected(l, "stopJob")'
      /\ Expected(l, "moveJob") => Expected(l, "moveJob")'
  BY StillExpected
<1>4. /\ booking'[l].job = booking[l].job /\ booking'[l].date = booking[l].date
      /\ booking'[l].status = booking[l].status
  BY DEF RowsStand, SameRow
<1>5. QED
  BY <1>1, <1>2, <1>3, <1>4 DEF Synced, BothCancelled

LEMMA QuietSpares ==
  ASSUME IInv, RowsStand, NEW k
  PROVE  Spares(k)
BY DEF RowsStand, Spares

LEMMA QuietFollows ==
  ASSUME IInv, JobInv, NEW r \in Requests, Proceed(r), req[r].at \notin Writing
  PROVE  JobInv'
<1>1. Passes(r) /\ RowsStand
  BY Passage, QuietRows
<1>2. PICK k : k = req[r].leg
  OBVIOUS
<1>3. Told(req[r])'
  <2>1. CASE req'[r] = Idle
    BY <2>1, Constants DEF Told, Idle
  <2>2. CASE Follows(req[r], req'[r])
    <3>1. UNCHANGED torn /\ Told(req[r])
      BY <1>1 DEF Passes, JobInv
    <3>2. req[r].leg \in Legs => SameRow(req[r].leg)
      BY <1>1 DEF RowsStand
    <3>3. QED
      BY <2>2, <3>1, <3>2 DEF Told, Follows, Writing, SameRow
  <2>3. QED
    BY <1>1, <2>1, <2>2 DEF Passes
<1>4. Owns(req[r])'
  BY <1>1 DEF Passes, Follows, Owns, Idle, Writing
<1>5. k \in Legs => Unconverted(k)'
  BY <1>1 DEF JobInv, Unconverted, RowsStand, SameRow
<1>6. k \in Legs \ torn => Synced(k)'
  BY <1>1, <1>2, SyncedStands DEF JobInv, Passes, Writing
<1>7. QED
  BY <1>1, <1>2, <1>3, <1>4, <1>5, <1>6, QuietSpares, Remaining

LEMMA AdmissionTells ==
  ASSUME IInv, JobInv, NEW r \in Requests, Admission(r)
  PROVE  JobInv'
<1>1. /\ UNCHANGED <<jobs, booking, grouped>>
      /\ \A o \in Requests \ {r} : req'[o] = req[o]
      /\ torn' = torn \cup Overlaps(r, req'[r])
      /\ req[r] = Idle /\ Fresh(req'[r])
  BY Entry, AdmissionLeavesJobs
<1>2. Solo'
  BY <1>1, SoloByEntry DEF JobInv
<1>3. Told(req[r])'
  <2>1. PICK q : q = req'[r]
    OBVIOUS
  <2>2. q.leg \in Legs => (booking[q.leg].status = "CONFIRMED" => booking[q.leg].job = 0)
    BY DEF JobInv, Unconverted
  <2>3. q.leg \in Legs /\ q.leg # NoLeg =>
          /\ q.at = "ref" =>
               booking[q.leg].status = "CONFIRMED" /\ q.date = booking[q.leg].date
          /\ q.at \in {"cancel", "amend"} => q.job = booking[q.leg].job
          /\ q.at \notin {"job", "stopJob", "moveJob"}
    BY <1>1, <2>1, <2>2 DEF Fresh
  <2>4. QED
    BY <1>1, <2>1, <2>3, Constants DEF Told
<1>4. Owns(req[r])'
  <2>1. ASSUME req'[r].at \in {"cancel", "amend"}, req'[r].job # 0
        PROVE  req'[r].job = booking[req'[r].leg].job /\ req'[r].leg \in Legs
    BY <1>1, <2>1 DEF Fresh
  <2>2. QED
    BY <1>1, <2>1 DEF Owns, Fresh, IInv, Linked
<1>5. \A o \in Requests \ {r} : Told(req[o])' /\ Owns(req[o])'
  BY <1>1 DEF JobInv, Told, Owns
<1>6. ASSUME NEW l \in Legs PROVE Unconverted(l)'
  BY <1>1 DEF JobInv, Unconverted
<1>7. ASSUME NEW l \in Legs \ torn' PROVE Synced(l)'
  <2>1. Synced(l) /\ RowsStand
    BY <1>1, <1>7 DEF JobInv, RowsStand, SameRow
  <2>2. req[r].at \notin {"stopJob", "moveJob"}
    BY <1>1 DEF Idle
  <2>3. QED
    BY <1>1, <2>1, <2>2, SyncedStands
<1>8. QED
  BY <1>2, <1>3, <1>4, <1>5, <1>6, <1>7 DEF JobInv

LEMMA EndsPasses ==
  ASSUME IInv, NEW r \in Requests, Ends(r)
  PROVE  req'[r] = Idle /\ Passes(r) /\ Told(req[r])' /\ Owns(req[r])'
<1>1. Becomes(r, Idle) /\ UNCHANGED <<grouped, torn>>
  BY EndsEffect DEF IInv
<1>2. QED
  BY <1>1, Constants DEF Becomes, Passes, Told, Owns, Idle

LEMMA CreateBookingTells ==
  ASSUME IInv, JobInv, NEW r \in Requests, CreateBooking(r)
  PROVE  JobInv'
<1>1. PICK k \in Legs : k = req[r].leg
  BY DEF IInv, Sound, CreateBooking, At
<1>2. booking \in [Legs -> BookingRow] /\ UNCHANGED jobs /\ req[r].at = "create" /\ Passes(r)
  BY Passage DEF IInv, Typed, TypeOK, CreateBooking, At, Proceed
<1>3. /\ \A l \in Legs \ {k} : SameRow(l)
      /\ booking'[k].job = booking[k].job /\ booking'[k].date = booking[k].date
      /\ \/ booking[k].status = "ABSENT" /\ booking'[k].status = "CONFIRMED"
         \/ booking'[k].status = booking[k].status
  BY <1>1, <1>2 DEF CreateBooking, SameRow, BookingRow
<1>4. Spares(k)
  BY <1>2, <1>3 DEF Spares
<1>5. Told(req[r])' /\ Owns(req[r])'
  BY <1>2, Constants DEF Passes, Follows, Told, Owns, Idle
<1>6. Unconverted(k) /\ Unconverted(k)'
  BY <1>3 DEF JobInv, Unconverted
<1>7. k \in Legs \ torn => Synced(k)'
  <2>1. CASE booking'[k].status = booking[k].status
    <3>1. RowsStand
      BY <1>2, <1>3, <2>1 DEF RowsStand, SameRow
    <3>2. QED
      BY <1>2, <3>1, SyncedStands DEF JobInv, Passes
  <2>2. CASE booking[k].status = "ABSENT"
    <3>1. booking[k].job = 0 /\ booking'[k].job = 0
      BY <1>3, <1>6, <2>2 DEF Unconverted
    <3>2. OnlyJob(k) => OnlyJob(k)'
      BY <1>2, <3>1 DEF OnlyJob, Created
    <3>3. QED
      BY <3>1, <3>2 DEF JobInv, Synced
  <2>3. QED
    BY <1>3, <2>1, <2>2
<1>8. QED
  BY <1>1, <1>2, <1>4, <1>5, <1>6, <1>7, Remaining

LEMMA CancelRowTells ==
  ASSUME IInv, JobInv, NEW r \in Requests, CancelRow(r)
  PROVE  JobInv'
<1>1. PICK k \in Legs : k = req[r].leg
  BY DEF IInv, Sound, CancelRow, At
<1>2. /\ booking \in [Legs -> BookingRow] /\ req[r] \in Request /\ UNCHANGED jobs
      /\ req[r].at = "cancel" /\ Passes(r)
  BY Passage DEF IInv, Typed, TypeOK, CancelRow, At, Proceed
<1>3. /\ \A l \in Legs \ {k} : SameRow(l)
      /\ booking'[k].job = booking[k].job /\ booking'[k].date = booking[k].date
      /\ booking'[k].status = "CANCELLED"
  BY <1>1, <1>2 DEF CancelRow, SameRow, BookingRow
<1>4. /\ req[r].job = 0 => req'[r] = Idle
      /\ req[r].job # 0 => /\ req'[r].at = "stopJob" /\ req'[r].leg = k
                           /\ req'[r].job = req[r].job
  <2>1. CASE req[r].job = 0
    BY <2>1, EndsPasses DEF CancelRow
  <2>2. CASE req[r].job # 0
    <3>1. Becomes(r, [req[r] EXCEPT !.at = "stopJob"])
      BY <2>2, GoesEffect DEF CancelRow, Statements, IInv
    <3>2. QED
      BY <1>1, <1>2, <2>2, <3>1 DEF Becomes, Request
  <2>3. QED
    BY <2>1, <2>2
<1>5. Told(req[r])
  BY DEF JobInv
<1>6. Told(req[r])'
  <2>1. CASE req[r].job = 0
    BY <1>4, <2>1, Constants DEF Told, Idle
  <2>2. CASE req[r].job # 0
    BY <1>1, <1>2, <1>3, <1>4, <1>5, <2>2 DEF Told, Passes
  <2>3. QED
    BY <2>1, <2>2
<1>7. Owns(req[r])'
  <2>1. Owns(req[r])
    BY DEF JobInv
  <2>2. QED
    BY <1>1, <1>2, <1>4, <2>1 DEF Owns, Idle
<1>8. Spares(k) /\ Unconverted(k)'
  BY <1>2, <1>3 DEF Spares, Unconverted
<1>9. ASSUME k \notin torn PROVE Synced(k)'
  <2>1. Synced(k) /\ req[r].job = booking[k].job
    BY <1>1, <1>2, <1>5, <1>9 DEF JobInv, Told
  <2>2. OnlyJob(k)'
    BY <1>2, <1>3, <2>1 DEF Synced, OnlyJob, Created
  <2>3. booking[k].job # 0 => Expected(k, "stopJob")'
    BY <1>4, <2>1 DEF Expected
  <2>4. Expected(k, "moveJob") => Expected(k, "moveJob")'
    BY <1>2, StillExpected DEF Passes
  <2>5. QED
    BY <1>2, <1>3, <2>1, <2>2, <2>3, <2>4 DEF Synced
<1>10. QED
  BY <1>1, <1>2, <1>6, <1>7, <1>8, <1>9, Remaining

LEMMA AmendRowTells ==
  ASSUME IInv, JobInv, NEW r \in Requests, AmendRow(r)
  PROVE  JobInv'
<1>1. PICK k \in Legs : k = req[r].leg
  BY DEF IInv, Sound, AmendRow, At
<1>2. /\ booking \in [Legs -> BookingRow] /\ req[r] \in Request /\ UNCHANGED jobs
      /\ req[r].at = "amend" /\ Passes(r)
  BY Passage DEF IInv, Typed, TypeOK, AmendRow, At, Proceed
<1>3. /\ \A l \in Legs \ {k} : SameRow(l)
      /\ booking'[k].job = booking[k].job /\ booking'[k].date = req[r].date
      /\ booking'[k].status = booking[k].status
  BY <1>1, <1>2 DEF AmendRow, SameRow, BookingRow
<1>4. /\ req[r].job = 0 => req'[r] = Idle
      /\ req[r].job # 0 => /\ req'[r].at = "moveJob" /\ req'[r].leg = k
                           /\ req'[r].job = req[r].job /\ req'[r].date = req[r].date
  <2>1. CASE req[r].job = 0
    BY <2>1, EndsPasses DEF AmendRow
  <2>2. CASE req[r].job # 0
    <3>1. Becomes(r, [req[r] EXCEPT !.at = "moveJob"])
      BY <2>2, GoesEffect DEF AmendRow, Statements, IInv
    <3>2. QED
      BY <1>1, <1>2, <2>2, <3>1 DEF Becomes, Request
  <2>3. QED
    BY <2>1, <2>2
<1>5. Told(req[r])
  BY DEF JobInv
<1>6. Told(req[r])'
  <2>1. CASE req[r].job = 0
    BY <1>4, <2>1, Constants DEF Told, Idle
  <2>2. CASE req[r].job # 0
    BY <1>1, <1>2, <1>3, <1>4, <1>5, <2>2 DEF Told, Passes
  <2>3. QED
    BY <2>1, <2>2
<1>7. Owns(req[r])'
  <2>1. Owns(req[r])
    BY DEF JobInv
  <2>2. QED
    BY <1>1, <1>2, <1>4, <2>1 DEF Owns, Idle
<1>8. Spares(k) /\ Unconverted(k)'
  <2>1. Unconverted(k)
    BY DEF JobInv
  <2>2. QED
    BY <1>2, <1>3, <2>1 DEF Spares, Unconverted
<1>9. ASSUME k \notin torn PROVE Synced(k)'
  <2>1. Synced(k) /\ req[r].job = booking[k].job
    BY <1>1, <1>2, <1>5, <1>9 DEF JobInv, Told
  <2>2. OnlyJob(k)'
    BY <1>2, <1>3, <2>1 DEF Synced, OnlyJob, Created
  <2>3. booking[k].job # 0 => Expected(k, "moveJob")'
    BY <1>4, <2>1 DEF Expected
  <2>4. Expected(k, "stopJob") => Expected(k, "stopJob")'
    BY <1>2, StillExpected DEF Passes
  <2>5. BothCancelled(k)' <=> BothCancelled(k)
    BY <1>2, <1>3 DEF BothCancelled
  <2>6. QED
    BY <1>2, <1>3, <2>1, <2>2, <2>3, <2>4, <2>5 DEF Synced
<1>10. QED
  BY <1>1, <1>2, <1>6, <1>7, <1>8, <1>9, Remaining

\* A cancellation or an amendment that reaches a job reaches its leg's.
LEMMA ReachesOwnJob ==
  ASSUME IInv, JobInv, NEW r \in Requests, NEW k \in Legs, k = req[r].leg,
         StopJob(r) \/ MoveJob(r)
  PROVE  /\ UNCHANGED booking /\ Spares(k)
         /\ \A n \in 1..MaxJobs : jobs'[n].exists = jobs[n].exists /\ jobs'[n].leg = jobs[n].leg
<1>1. /\ jobs \in [1..MaxJobs -> JobRow] /\ req[r].job \in 0..MaxJobs
      /\ UNCHANGED booking
  BY DEF IInv, Typed, TypeOK, Request, StopJob, MoveJob
<1>2. req[r].job # 0 => jobs[req[r].job].exists /\ jobs[req[r].job].leg = k
  BY DEF JobInv, Owns, StopJob, MoveJob, At
<1>3. \A n \in 1..MaxJobs : jobs'[n].exists = jobs[n].exists /\ jobs'[n].leg = jobs[n].leg
  <2>1. CASE StopJob(r)
    BY <1>1, <2>1 DEF StopJob, JobRow
  <2>2. CASE MoveJob(r)
    BY <1>1, <2>2 DEF MoveJob, JobRow
  <2>3. QED
    BY <2>1, <2>2
<1>4. \A n \in (1..MaxJobs) \ {req[r].job} : jobs'[n] = jobs[n]
  BY <1>1 DEF StopJob, MoveJob
<1>5. Spares(k)
  BY <1>1, <1>2, <1>3, <1>4, Constants DEF Spares, SameRow
<1>6. QED
  BY <1>1, <1>3, <1>5

LEMMA StopJobTells ==
  ASSUME IInv, JobInv, NEW r \in Requests, StopJob(r)
  PROVE  JobInv'
<1>1. PICK k \in Legs : k = req[r].leg
  BY DEF IInv, Sound, StopJob, At
<1>2. /\ jobs \in [1..MaxJobs -> JobRow] /\ req[r].job \in 0..MaxJobs
      /\ req[r].at = "stopJob" /\ Ends(r)
  BY DEF IInv, Typed, TypeOK, Request, StopJob, At
<1>3. UNCHANGED booking /\ Spares(k)
      /\ \A n \in 1..MaxJobs : jobs'[n].exists = jobs[n].exists /\ jobs'[n].leg = jobs[n].leg
  BY <1>1, ReachesOwnJob
<1>4. Unconverted(k)'
  BY <1>3 DEF JobInv, Unconverted
<1>5. ASSUME k \notin torn PROVE Synced(k)'
  <2>1. /\ Synced(k) /\ req[r].job = booking[k].job /\ req[r].job # 0
        /\ booking[k].status = "CANCELLED"
    BY <1>1, <1>2, <1>5 DEF JobInv, Told
  <2>2. jobs'[req[r].job].status = "CANCELLED" /\ jobs'[req[r].job].date = jobs[req[r].job].date
    BY <1>2, <2>1, Constants DEF StopJob, JobRow
  <2>3. OnlyJob(k)'
    BY <1>3, <2>1 DEF Synced, OnlyJob, Created
  <2>4. Expected(k, "moveJob") => Expected(k, "moveJob")'
    BY <1>2, EndsPasses, StillExpected DEF Passes
  <2>5. QED
    BY <1>3, <2>1, <2>2, <2>3, <2>4 DEF Synced, BothCancelled
<1>6. QED
  BY <1>1, <1>2, <1>3, <1>4, <1>5, EndsPasses, Remaining

LEMMA MoveJobTells ==
  ASSUME IInv, JobInv, NEW r \in Requests, MoveJob(r)
  PROVE  JobInv'
<1>1. PICK k \in Legs : k = req[r].leg
  BY DEF IInv, Sound, MoveJob, At
<1>2. /\ jobs \in [1..MaxJobs -> JobRow] /\ req[r].job \in 0..MaxJobs
      /\ req[r].at = "moveJob" /\ Ends(r)
  BY DEF IInv, Typed, TypeOK, Request, MoveJob, At
<1>3. UNCHANGED booking /\ Spares(k)
      /\ \A n \in 1..MaxJobs : jobs'[n].exists = jobs[n].exists /\ jobs'[n].leg = jobs[n].leg
  BY <1>1, ReachesOwnJob
<1>4. Unconverted(k)'
  BY <1>3 DEF JobInv, Unconverted
<1>5. ASSUME k \notin torn PROVE Synced(k)'
  <2>1. /\ Synced(k) /\ req[r].job = booking[k].job /\ req[r].job # 0
        /\ req[r].date = booking[k].date
    BY <1>1, <1>2, <1>5 DEF JobInv, Told
  <2>2. /\ jobs'[req[r].job].status = jobs[req[r].job].status
        /\ jobs'[req[r].job].date = req[r].date
    BY <1>2, <2>1, Constants DEF MoveJob, JobRow
  <2>3. OnlyJob(k)'
    BY <1>3, <2>1 DEF Synced, OnlyJob, Created
  <2>4. Expected(k, "stopJob") => Expected(k, "stopJob")'
    BY <1>2, EndsPasses, StillExpected DEF Passes
  <2>5. QED
    BY <1>3, <2>1, <2>2, <2>3, <2>4 DEF Synced, BothCancelled
<1>6. QED
  BY <1>1, <1>2, <1>3, <1>4, <1>5, EndsPasses, Remaining

LEMMA CreateJobTells ==
  ASSUME IInv, JobInv, NEW r \in Requests, CreateJob(r)
  PROVE  JobInv'
<1>1. PICK k : k = req[r].leg
  OBVIOUS
<1>2. req[r].at = "job" /\ Ends(r)
  BY DEF CreateJob, At
<1>3. CASE UNCHANGED <<jobs, booking>>
  <2>1. RowsStand /\ \A o \in Requests \ {r} : req'[o] = req[o]
    BY <1>2, <1>3, EndsPasses DEF RowsStand, SameRow, Passes
  <2>2. k \in Legs => Unconverted(k)'
    BY <1>3 DEF JobInv, Unconverted
  <2>3. k \in Legs \ torn => Synced(k)'
    BY <1>2, <2>1, SyncedStands DEF JobInv
  <2>4. QED
    BY <1>1, <1>2, <2>1, <2>2, <2>3, EndsPasses, QuietSpares, Remaining
<1>4. CASE MakesJob(r)
  <2>1. PICK n \in 1..MaxJobs : n = req[r].no
    BY <1>4 DEF MakesJob
  <2>2. /\ n \notin Created /\ Created' = Created \cup {n}
        /\ \A m \in (1..MaxJobs) \ {n} : jobs'[m] = jobs[m]
        /\ jobs'[n].exists /\ jobs'[n].leg = k
        /\ jobs'[n].status = "PENDING" /\ jobs'[n].date = req[r].date
        /\ \A l \in Legs \ {k} : booking'[l] = booking[l]
        /\ k \in Legs =>
             /\ booking'[k].job = n /\ booking'[k].status = "CONVERTED"
             /\ booking'[k].date = booking[k].date
    BY <1>1, <1>4, <2>1 DEF MakesJob
  <2>3. Spares(k)
    BY <2>2 DEF Spares, SameRow, Created
  <2>4. k \in Legs => Unconverted(k)'
    BY <2>2 DEF Unconverted
  <2>5. ASSUME k \in Legs \ torn PROVE Synced(k)'
    <3>1. /\ booking[k].status = "CONFIRMED" /\ req[r].date = booking[k].date
          /\ booking[k].job = 0 /\ OnlyJob(k)
      BY <1>1, <1>2, <2>5 DEF JobInv, Told, Unconverted, Synced
    <3>2. \A m \in Created : jobs[m].leg # k
      BY <3>1, CreatedIsFinite, Constants DEF OnlyJob, Created
    <3>3. \A m \in Created : jobs'[m] = jobs[m]
      BY <2>2 DEF Created
    <3>4. OnlyJob(k)'
      BY <2>2, <2>5, <3>2, <3>3 DEF OnlyJob
    <3>5. QED
      BY <2>2, <2>5, <3>1, <3>4 DEF Synced, BothCancelled
  <2>6. QED
    BY <1>1, <1>2, <2>3, <2>4, <2>5, EndsPasses, Remaining
<1>5. QED
  BY <1>3, <1>4, CreateJobEffect

LEMMA CrashTells ==
  ASSUME IInv, JobInv, Crash
  PROVE  JobInv'
<1>1. /\ UNCHANGED <<booking, grouped, jobs>> /\ req' = [r \in Requests |-> Idle]
      /\ torn' = torn \cup UNION {Touches(req[r]) : r \in Requests}
  BY DEF Crash
<1>2. Solo'
  BY <1>1 DEF Solo, Touches, Idle
<1>3. \A r \in Requests : Told(req[r])' /\ Owns(req[r])'
  BY <1>1, Constants DEF Told, Owns, Idle
<1>4. \A l \in Legs : Unconverted(l)'
  BY <1>1 DEF JobInv, Unconverted
<1>5. ASSUME NEW l \in Legs \ torn' PROVE Synced(l)'
  <2>1. Synced(l)
    BY <1>1, <1>5 DEF JobInv
  <2>2. ASSUME NEW statement PROVE ~Expected(l, statement)
    <3>1. ASSUME NEW r \in Requests, req[r].leg = l PROVE FALSE
      <4>1. l \in Touches(req[r])
        BY <1>5, <3>1, LegIsTouched
      <4>2. QED
        BY <1>1, <1>5, <4>1
    <3>2. QED
      BY <3>1 DEF Expected
  <2>3. OnlyJob(l)'
    BY <1>1, <2>1 DEF Synced, OnlyJob, Created
  <2>4. BothCancelled(l)' <=> BothCancelled(l)
    BY <1>1 DEF BothCancelled
  <2>5. QED
    BY <1>1, <2>1, <2>2, <2>3, <2>4 DEF Synced
<1>6. QED
  BY <1>2, <1>3, <1>4, <1>5 DEF JobInv

LEMMA OthersTell ==
  ASSUME JobInv, UNCHANGED <<booking, grouped, jobs, req, torn>>
  PROVE  JobInv'
<1>1. Solo'
  BY DEF JobInv, Solo, Touches, Family
<1>2. \A r \in Requests : Told(req[r])' /\ Owns(req[r])'
  BY DEF JobInv, Told, Owns
<1>3. \A l \in Legs : Unconverted(l)'
  BY DEF JobInv, Unconverted
<1>4. \A l \in Legs \ torn : Synced(l)'
  <2>1. Created' = Created
    BY DEF Created
  <2>2. QED
    BY <2>1 DEF JobInv, Synced, OnlyJob, BothCancelled, Expected
<1>5. QED
  BY <1>1, <1>2, <1>3, <1>4 DEF JobInv

LEMMA JobInvStays == IInv /\ JobInv /\ [Next]_vars => JobInv'
<1> SUFFICES ASSUME IInv, JobInv, [Next]_vars PROVE JobInv'
  OBVIOUS
<1>1. ASSUME NEW r \in Requests, Proceed(r) PROVE JobInv'
  <2>1. CASE req[r].at \in Writing
    <3>1. \/ CreateBooking(r) \/ CreateJob(r) \/ CancelRow(r) \/ StopJob(r) \/ AmendRow(r)
          \/ MoveJob(r)
      BY <1>1, <2>1 DEF Proceed, Writing, At, StoreSession, SettleTransaction, SettleBooking,
         MirrorLegs, FlagJob, ReadForInvoice, NextNumber, InsertInvoice, PartnerConverts,
         GenerateInternalRef
    <3>2. QED
      BY <3>1, CreateBookingTells, CreateJobTells, CancelRowTells, StopJobTells,
         AmendRowTells, MoveJobTells
  <2>2. CASE req[r].at \notin Writing
    BY <1>1, <2>2, QuietFollows
  <2>3. QED
    BY <2>1, <2>2
<1>2. CASE UNCHANGED vars \/ (\E l \in Legs : Tick(l))
           \/ \E s \in Sessions : Capture(s) \/ Refuse(s)
  <2>1. UNCHANGED <<booking, grouped, jobs, req, torn>>
    BY <1>2 DEF vars, Tick, Capture, Refuse, history
  <2>2. QED
    BY <2>1, OthersTell
<1>3. QED
  BY <1>1, <1>2, AdmissionTells, CrashTells DEF Next

LEMMA InitJobInv == Init => JobInv
<1> SUFFICES ASSUME Init PROVE JobInv
  OBVIOUS
<1>1. Solo
  BY DEF Init, Solo, Touches, Idle
<1>2. \A r \in Requests : Told(req[r]) /\ Owns(req[r])
  BY Constants DEF Init, Told, Owns, Idle
<1>3. \A l \in Legs : booking[l].job = 0
  BY DEF Init
<1>4. Created = {}
  BY DEF Init, Created, NoJob
<1>5. QED
  BY <1>1, <1>2, <1>3, <1>4 DEF JobInv, Unconverted, Synced, OnlyJob

\* What requests read of a leg stays true while they are alone with it.
THEOREM Undisturbed == Spec => []JobInv
BY InitJobInv, JobInvStays, Inductive, PTL DEF Spec

\* Without overlap a booking has at most one job: a repeated conversion finds
\* the booking converted, a repeated partner call finds the job.
THEOREM HasOneJob == Spec => []OneJob
<1>1. JobInv => OneJob
  <2> SUFFICES ASSUME JobInv, NEW l \in Legs \ torn
               PROVE  Cardinality(Own(l)) <= 1
    BY DEF OneJob, Own
  <2>1. Own(l) \subseteq {booking[l].job}
    BY DEF JobInv, Synced, OnlyJob, Own
  <2>2. Own(l) = {} \/ Own(l) = {booking[l].job}
    BY <2>1
  <2>3. CASE Own(l) = {}
    <3>1. Cardinality(Own(l)) = 0
      BY <2>3, FS_EmptySet
    <3>2. QED
      BY <3>1
  <2>4. CASE Own(l) = {booking[l].job}
    <3>1. Cardinality(Own(l)) = 1
      BY <2>4, FS_Singleton
    <3>2. QED
      BY <3>1
  <2>5. QED
    BY <2>2, <2>3, <2>4
<1>2. QED
  BY <1>1, Undisturbed, PTL

LEMMA NobodyExpected ==
  ASSUME NEW l \in Legs, Calm(l), NEW statement
  PROVE  ~Expected(l, statement)
BY LegIsTouched DEF Calm, Expected

\* A guest's cancellation that nothing overlapped and no crash cut short has
\* cancelled the job, and no other request has.
THEOREM CancellationArrives == Spec => []CancelReachesJob
<1>1. JobInv => CancelReachesJob
  BY NobodyExpected DEF CancelReachesJob, JobInv, Synced, BothCancelled, Calm
<1>2. QED
  BY <1>1, Undisturbed, PTL

\* The driver goes when the guest last said, under the same conditions.
THEOREM AmendmentArrives == Spec => []AmendReachesJob
<1>1. JobInv => AmendReachesJob
  BY NobodyExpected DEF AmendReachesJob, JobInv, Synced, Calm
<1>2. QED
  BY <1>1, Undisturbed, PTL

-----------------------------------------------------------------------------
(***************************************************************************)
(* Payments of a trip whose payment requests came one at a time.           *)
(***************************************************************************)
Settling == {"transaction", "booking", "mirror"}

\* No two payment requests overlapped on the trip, nor did one die: each would
\* have torn every leg of it.
Whole(q) == ~(Family(q.leg) \subseteq torn)

\* A refusal that is still to be written found nothing paid, and between the
\* two statements that write a result the booking has it.
Pays(q) ==
  q.at \in Settling =>
    /\ q.op \in {"stripe", "getpayin"}
    /\ Whole(q) /\ ~q.paid => \A l \in Family(q.leg) : booking[l].payment # "PAID"
    /\ Whole(q) /\ q.at = "mirror" => booking[q.leg].payment = Outcome(q)

NoneMirrors == \A r \in Requests : req[r].at # "mirror"

Agree ==
  grouped /\ ~(Legs \subseteq torn) /\ NoneMirrors =>
    \A l, m \in Legs : booking[l].payment = booking[m].payment

PayInv == Agree /\ \A r \in Requests : Pays(req[r])

SamePayments == \A l \in Legs : booking'[l].payment = booking[l].payment

LEMMA PayingTouches ==
  ASSUME NEW q, q.leg \in Legs, q.op \in {"stripe", "getpayin"}
  PROVE  Touches(q) = Family(q.leg)
BY Constants DEF Touches

\* Two requests that settle payments of one trip have torn it.
LEMMA AloneSettles ==
  ASSUME IInv, JobInv, PayInv, NEW r \in Requests, NEW o \in Requests \ {r},
         req[r].at \in Settling, req[o].at \in Settling, Whole(req[o])
  PROVE  ~grouped /\ req[r].leg # req[o].leg
<1>1. /\ req[r].leg \in Legs /\ req[r].op \in {"stripe", "getpayin"}
      /\ req[o].leg \in Legs /\ req[o].op \in {"stripe", "getpayin"}
  BY DEF IInv, Sound, PayInv, Pays, Settling
<1>2. Family(req[r].leg) \cap Family(req[o].leg) \subseteq torn
  BY <1>1, PayingTouches DEF JobInv, Solo
<1>3. QED
  BY <1>1, <1>2 DEF Whole, Family

LEMMA PaysStands ==
  ASSUME UNCHANGED grouped, torn \subseteq torn', NEW q, q.leg \in Legs, Pays(q),
         \A l \in Family(q.leg) : booking'[l].payment = booking[l].payment
  PROVE  Pays(q)'
<1>1. Family(q.leg)' = Family(q.leg) /\ q.leg \in Family(q.leg)
  BY DEF Family
<1>2. Whole(q)' => Whole(q)
  BY <1>1 DEF Whole
<1>3. QED
  BY <1>1, <1>2 DEF Pays, Outcome

LEMMA AdmissionPays ==
  ASSUME IInv, IInv', JobInv, PayInv, NEW r \in Requests, Admission(r)
  PROVE  PayInv'
<1>1. /\ UNCHANGED <<booking, grouped>>
      /\ \A o \in Requests \ {r} : req'[o] = req[o]
      /\ torn' = torn \cup Overlaps(r, req'[r])
      /\ req[r] = Idle /\ Fresh(req'[r])
  BY Entry, AdmissionLeavesJobs
<1>2. PICK q : q = req'[r]
  OBVIOUS
<1>3. NoneMirrors' => NoneMirrors
  BY <1>1 DEF NoneMirrors, Idle
<1>4. Agree'
  BY <1>1, <1>3 DEF PayInv, Agree
<1>5. ASSUME NEW o \in Requests \ {r} PROVE Pays(req[o])'
  <2>1. CASE req[o].at \notin Settling
    BY <1>1, <2>1 DEF Pays
  <2>2. CASE req[o].at \in Settling
    <3>1. PICK p : p = req[o]
      OBVIOUS
    <3>2. p.leg \in Legs /\ Pays(p)
      BY <2>2, <3>1 DEF IInv, Sound, PayInv, Settling
    <3>3. Pays(p)'
      BY <1>1, <3>2, PaysStands DEF Family
    <3>4. QED
      BY <1>1, <3>1, <3>3
  <2>3. QED
    BY <2>1, <2>2
<1>6. Pays(q)'
  <2>1. CASE q.at # "transaction"
    BY <1>1, <1>2, <2>1 DEF Fresh, Pays, Settling
  <2>2. CASE q.at = "transaction"
    <3>1. /\ q.leg \in Legs /\ q.op \in {"stripe", "getpayin"}
          /\ q.paid \/ booking[q.leg].payment # "PAID"
      BY <1>1, <1>2, <2>2 DEF Fresh, IInv, Sound
    <3>2. ASSUME Whole(q)', ~q.paid, NEW l \in Family(q.leg)
          PROVE  booking[l].payment # "PAID"
      <4>1. CASE ~grouped
        BY <3>1, <3>2, <4>1 DEF Family
      <4>2. CASE grouped
        <5>1. Family(q.leg) = Legs /\ Family(q.leg)' = Legs
          BY <1>1, <4>2 DEF Family
        <5>2. ~(Legs \subseteq torn') /\ ~(Legs \subseteq torn)
          BY <1>1, <3>2, <5>1 DEF Whole
        <5>3. ASSUME NEW o \in Requests \ {r}, req[o].at = "mirror" PROVE FALSE
          <6>1. req[o].leg \in Legs /\ req[o].op \in {"stripe", "getpayin"}
            BY <5>3 DEF IInv, Sound, PayInv, Pays, Settling
          <6>2. Touches(req[o]) = Legs /\ Touches(q) = Legs
            BY <3>1, <4>2, <6>1, PayingTouches DEF Family
          <6>3. Overlaps(r, q) = Legs
            BY <6>2 DEF Overlaps
          <6>4. QED
            BY <1>1, <1>2, <5>2, <6>3
        <5>4. NoneMirrors
          BY <1>1, <5>3 DEF NoneMirrors, Idle
        <5>5. QED
          BY <3>1, <3>2, <4>2, <5>1, <5>2, <5>4 DEF PayInv, Agree
      <4>3. QED
        BY <4>1, <4>2
    <3>3. Family(q.leg)' = Family(q.leg)
      BY <1>1 DEF Family
    <3>4. QED
      BY <1>1, <2>2, <3>1, <3>2, <3>3 DEF Pays
  <2>3. QED
    BY <2>1, <2>2
<1>7. Pays(req[r])'
  BY <1>2, <1>6
<1>8. QED
  BY <1>4, <1>5, <1>7 DEF PayInv

LEMMA UnsettlingPays ==
  ASSUME IInv, JobInv, PayInv, NEW r \in Requests, Proceed(r),
         req[r].at \notin {"booking", "mirror"}
  PROVE  SamePayments /\ PayInv'
<1>1. Passes(r)
  BY Passage
<1>2. SamePayments
  <2>1. CASE StoreSession(r)
    BY <2>1 DEF StoreSession, SamePayments
  <2>2. CASE ~StoreSession(r)
    <3>1. ~SettleBooking(r) /\ ~MirrorLegs(r)
      BY DEF SettleBooking, MirrorLegs, At
    <3>2. Unseen
      BY <2>2, <3>1, PlainIsUnseen DEF Proceed
    <3>3. QED
      BY <3>2 DEF Unseen, SamePayments
  <2>3. QED
    BY <2>1, <2>2
<1>3. NoneMirrors' => NoneMirrors
  BY <1>1 DEF NoneMirrors, Passes
<1>4. Agree'
  BY <1>1, <1>2, <1>3 DEF PayInv, Agree, Passes, SamePayments
<1>5. ASSUME NEW o \in Requests, NEW p, p = req[o], p.at \in Settling PROVE Pays(p)'
  <2>1. p.leg \in Legs /\ Pays(p)
    BY <1>5 DEF IInv, Sound, PayInv, Settling
  <2>2. \A l \in Family(p.leg) : booking'[l].payment = booking[l].payment
    BY <1>2, <2>1 DEF SamePayments, Family
  <2>3. QED
    BY <1>1, <2>1, <2>2, PaysStands DEF Passes
<1>6. ASSUME NEW o \in Requests \ {r} PROVE Pays(req[o])'
  <2>1. req'[o] = req[o]
    BY <1>1 DEF Passes
  <2>2. PICK p : p = req[o]
    OBVIOUS
  <2>3. p.at \notin Settling => Pays(p)'
    BY DEF Pays
  <2>4. Pays(p)'
    BY <1>5, <2>2, <2>3
  <2>5. QED
    BY <2>1, <2>2, <2>4
<1>7. Pays(req[r])'
  <2>1. CASE req'[r].at \notin Settling
    BY <2>1 DEF Pays
  <2>2. CASE req'[r].at \in Settling
    <3>1. /\ req[r].at = "transaction" /\ req'[r].at = "booking"
          /\ req'[r].op = req[r].op /\ req'[r].leg = req[r].leg
          /\ req'[r].paid = req[r].paid
      BY <1>1, <2>2 DEF Passes, Follows, Idle, Settling
    <3>2. PICK p : p = req[r]
      OBVIOUS
    <3>3. Pays(p)'
      BY <1>5, <3>1, <3>2 DEF Settling
    <3>4. PICK q : q = req'[r]
      OBVIOUS
    <3>5. Whole(q)' <=> Whole(p)'
      BY <3>1, <3>2, <3>4 DEF Whole, Family
    <3>6. Family(q.leg)' = Family(p.leg)'
      BY <3>1, <3>2, <3>4
    <3>7. Pays(q)'
      BY <3>1, <3>2, <3>3, <3>4, <3>5, <3>6 DEF Pays, Settling
    <3>8. QED
      BY <3>4, <3>7
  <2>3. QED
    BY <2>1, <2>2
<1>8. QED
  BY <1>2, <1>4, <1>6, <1>7 DEF PayInv

\* The statements of another request leave what request o pays for alone.
LEMMA OtherPays ==
  ASSUME IInv, JobInv, PayInv, NEW r \in Requests, NEW o \in Requests \ {r},
         req[r].at \in {"booking", "mirror"}, UNCHANGED <<grouped, torn>>, req'[o] = req[o],
         ~grouped => \A l \in Legs \ {req[r].leg} : booking'[l].payment = booking[l].payment
  PROVE  Pays(req[o])'
<1>1. PICK p : p = req[o]
  OBVIOUS
<1>2. CASE p.at \notin Settling
  BY <1>1, <1>2 DEF Pays
<1>3. CASE p.at \in Settling /\ ~Whole(p)
  <2>1. ~Whole(p)' /\ Pays(p)
    BY <1>1, <1>3 DEF Whole, Family, PayInv
  <2>2. Pays(p)'
    BY <1>3, <2>1 DEF Pays
  <2>3. QED
    BY <1>1, <2>2
<1>4. CASE p.at \in Settling /\ Whole(p)
  <2>1. p.leg \in Legs /\ ~grouped /\ req[r].leg # p.leg /\ Pays(p)
    BY <1>1, <1>4, AloneSettles DEF IInv, Sound, PayInv, Settling
  <2>2. \A l \in Family(p.leg) : booking'[l].payment = booking[l].payment
    BY <2>1 DEF Family
  <2>3. Pays(p)'
    BY <2>1, <2>2, PaysStands
  <2>4. QED
    BY <1>1, <2>3
<1>5. QED
  BY <1>2, <1>3, <1>4

\* Where a refusal is written nothing was paid.
KeepsPaid ==
  \A l \in Legs \ torn : booking[l].payment = "PAID" => booking'[l].payment = "PAID"

LEMMA SettleBookingPays ==
  ASSUME IInv, JobInv, PayInv, NEW r \in Requests, SettleBooking(r)
  PROVE  KeepsPaid /\ PayInv'
<1>1. PICK q \in Request : q = req[r]
  BY DEF IInv, Typed, TypeOK
<1>2. /\ q.leg \in Legs /\ q.at = "booking" /\ Pays(q) /\ booking \in [Legs -> BookingRow]
  BY <1>1 DEF IInv, Typed, TypeOK, Sound, PayInv, SettleBooking, At
<1>3. Passes(r)
  BY Passage DEF Proceed
<1>4. /\ \A l \in Legs \ {q.leg} : booking'[l].payment = booking[l].payment
      /\ booking'[q.leg].payment = Outcome(q)
  BY <1>1, <1>2 DEF SettleBooking, BookingRow
<1>5. KeepsPaid
  <2>1. ASSUME q.leg \notin torn, booking[q.leg].payment = "PAID" PROVE q.paid
    BY <1>2, <2>1 DEF Pays, Settling, Whole, Family
  <2>2. QED
    BY <1>2, <1>4, <2>1 DEF KeepsPaid, Outcome
<1>6. \A o \in Requests \ {r} : Pays(req[o])'
  BY <1>1, <1>2, <1>3, <1>4, OtherPays DEF Passes
<1>7. CASE grouped
  <2>1. req'[r] = [q EXCEPT !.at = "mirror"]
    BY <1>1, <1>7, GoesEffect DEF IInv, SettleBooking, Becomes, Statements
  <2>2. PICK p : p = req'[r]
    OBVIOUS
  <2>3. /\ p.at = "mirror" /\ p.op = q.op /\ p.leg = q.leg /\ p.paid = q.paid
    BY <2>1, <2>2 DEF Request
  <2>4. Agree'
    BY <2>2, <2>3 DEF Agree, NoneMirrors
  <2>5. Family(p.leg)' = Family(q.leg) /\ (Whole(p)' => Whole(q)) /\ p.leg \in Family(q.leg)
        /\ Family(q.leg) \subseteq Legs
    BY <1>2, <1>3, <2>3 DEF Whole, Family, Passes
  <2>6. Pays(p)'
    BY <1>2, <1>4, <2>3, <2>5 DEF Pays, Settling, Outcome
  <2>7. QED
    BY <1>5, <1>6, <2>2, <2>4, <2>6 DEF PayInv
<1>8. CASE ~grouped
  <2>1. Agree'
    BY <1>3, <1>8 DEF Agree, Passes
  <2>2. req'[r].at \notin Settling
    <3>1. req'[r] = Idle \/ req'[r] = [q EXCEPT !.at = "invoice"]
          \/ req'[r] = [q EXCEPT !.at = "flag"]
      BY <1>1, <1>8, EndsEffect, GoesEffect
         DEF IInv, SettleBooking, AfterBooking, Becomes, Statements
    <3>2. QED
      BY <3>1 DEF Idle, Settling, Request
  <2>3. Pays(req[r])'
    BY <2>2 DEF Pays
  <2>4. QED
    BY <1>5, <1>6, <2>1, <2>3 DEF PayInv
<1>9. QED
  BY <1>7, <1>8

LEMMA MirrorLegsPays ==
  ASSUME IInv, JobInv, PayInv, NEW r \in Requests, MirrorLegs(r)
  PROVE  KeepsPaid /\ PayInv'
<1>1. PICK q \in Request : q = req[r]
  BY DEF IInv, Typed, TypeOK
<1>2. /\ q.leg \in Legs /\ q.at = "mirror" /\ grouped /\ Pays(q)
      /\ booking \in [Legs -> BookingRow]
  BY <1>1 DEF IInv, Typed, TypeOK, Sound, PayInv, MirrorLegs, At
<1>3. Passes(r)
  BY Passage DEF Proceed
<1>4. /\ \A l \in Legs \ {q.leg} : booking'[l].payment = Outcome(q)
      /\ booking'[q.leg] = booking[q.leg]
  BY <1>1, <1>2 DEF MirrorLegs, BookingRow
<1>5. Family(q.leg) = Legs
  BY <1>2 DEF Family
<1>6. KeepsPaid
  <2>1. ASSUME NEW l \in Legs \ torn, booking[l].payment = "PAID" PROVE q.paid
    BY <1>2, <1>5, <2>1 DEF Pays, Settling, Whole
  <2>2. QED
    BY <1>2, <1>4, <2>1 DEF KeepsPaid, Outcome
<1>7. \A o \in Requests \ {r} : Pays(req[o])'
  BY <1>1, <1>2, <1>3, OtherPays DEF Passes
<1>8. Agree'
  <2>1. ASSUME ~(Legs \subseteq torn') PROVE booking[q.leg].payment = Outcome(q)
    BY <1>2, <1>3, <1>5, <2>1 DEF Pays, Settling, Whole, Passes
  <2>2. QED
    BY <1>4, <2>1 DEF Agree
<1>9. Pays(req[r])'
  <2>1. req'[r] = Idle \/ req'[r] = [q EXCEPT !.at = "invoice"]
        \/ req'[r] = [q EXCEPT !.at = "flag"]
    BY <1>1, EndsEffect, GoesEffect DEF IInv, MirrorLegs, AfterBooking, Becomes, Statements
  <2>2. req'[r].at \notin Settling
    BY <2>1 DEF Idle, Settling, Request
  <2>3. QED
    BY <2>2 DEF Pays
<1>10. QED
  BY <1>6, <1>7, <1>8, <1>9 DEF PayInv

LEMMA CrashPays ==
  ASSUME IInv, PayInv, Crash
  PROVE  PayInv'
<1>1. /\ UNCHANGED <<booking, grouped>> /\ req' = [r \in Requests |-> Idle]
      /\ torn' = torn \cup UNION {Touches(req[r]) : r \in Requests}
  BY DEF Crash
<1>2. \A r \in Requests : Pays(req[r])'
  BY <1>1 DEF Pays, Idle, Settling
<1>3. ASSUME grouped, ~(Legs \subseteq torn'), NEW r \in Requests, req[r].at = "mirror"
      PROVE  FALSE
  <2>1. req[r].leg \in Legs /\ req[r].op \in {"stripe", "getpayin"}
    BY <1>3 DEF IInv, Sound, PayInv, Pays, Settling
  <2>2. Touches(req[r]) = Legs
    BY <1>3, <2>1, PayingTouches DEF Family
  <2>3. QED
    BY <1>1, <1>3, <2>2
<1>4. Agree'
  BY <1>1, <1>3 DEF PayInv, Agree, NoneMirrors
<1>5. QED
  BY <1>2, <1>4 DEF PayInv

LEMMA PayStep ==
  ASSUME IInv, IInv', JobInv, PayInv, [Next]_vars
  PROVE  KeepsPaid /\ PayInv'
<1>1. ASSUME NEW r \in Requests, Admission(r) PROVE KeepsPaid /\ PayInv'
  BY <1>1, AdmissionPays, AdmissionLeavesJobs DEF KeepsPaid
<1>2. ASSUME NEW r \in Requests, Proceed(r) PROVE KeepsPaid /\ PayInv'
  <2>1. CASE SettleBooking(r) \/ MirrorLegs(r)
    BY <2>1, SettleBookingPays, MirrorLegsPays
  <2>2. CASE req[r].at \notin {"booking", "mirror"}
    BY <1>2, <2>2, UnsettlingPays DEF SamePayments, KeepsPaid
  <2>3. req[r].at \in {"booking", "mirror"} => SettleBooking(r) \/ MirrorLegs(r)
    BY <1>2 DEF Proceed, At, StoreSession, SettleTransaction, FlagJob, ReadForInvoice,
       NextNumber, InsertInvoice, CreateBooking, PartnerConverts, GenerateInternalRef,
       CreateJob, CancelRow, StopJob, AmendRow, MoveJob
  <2>4. QED
    BY <2>1, <2>2, <2>3
<1>3. CASE Crash
  BY <1>3, CrashPays DEF Crash, KeepsPaid
<1>4. CASE UNCHANGED vars \/ (\E l \in Legs : Tick(l))
           \/ \E s \in Sessions : Capture(s) \/ Refuse(s)
  <2>1. UNCHANGED <<booking, grouped, req, torn>>
    BY <1>4 DEF vars, Tick, Capture, Refuse, history
  <2>2. \A r \in Requests : Pays(req[r])'
    BY <2>1 DEF PayInv, Pays, Whole, Family, Outcome
  <2>3. Agree'
    BY <2>1 DEF PayInv, Agree, NoneMirrors
  <2>4. QED
    BY <2>1, <2>2, <2>3 DEF PayInv, KeepsPaid
<1>5. QED
  BY <1>1, <1>2, <1>3, <1>4 DEF Next

LEMMA InitPayInv == Init => PayInv
<1> SUFFICES ASSUME Init PROVE PayInv
  OBVIOUS
<1>1. \A l \in Legs : booking[l].payment = "PENDING"
  BY DEF Init
<1>2. \A r \in Requests : req[r].at = "idle"
  BY DEF Init, Idle
<1>3. QED
  BY <1>1, <1>2 DEF PayInv, Agree, Pays, Settling

\* Refusals and mirrored results of one trip never cross, unless two payment
\* requests for it overlapped or one died.
THEOREM PaymentsInOrder == Spec => []PayInv
<1>1. IInv /\ IInv' /\ JobInv /\ PayInv /\ [Next]_vars => PayInv'
  BY PayStep
<1>2. QED
  BY <1>1, InitPayInv, Undisturbed, Inductive, PTL DEF Spec

\* A leg that reads PAID goes on reading PAID, whatever is refused, repeated or
\* reported late, unless requests overlapped on it or one died.
THEOREM PaymentsStay == Spec => PaidStays
<1>1. ASSUME IInv, IInv', JobInv, PayInv, [Next]_vars
      PROVE  \A l \in Legs : booking[l].payment = "PAID" /\ l \notin torn
                               => booking'[l].payment = "PAID"
  BY <1>1, PayStep DEF KeepsPaid
<1>2. IInv /\ IInv' /\ JobInv /\ PayInv /\ [Next]_vars
        => [\A l \in Legs : booking[l].payment = "PAID" /\ l \notin torn
                              => booking'[l].payment = "PAID"]_vars
  BY <1>1
<1>3. QED
  BY <1>2, PaymentsInOrder, Undisturbed, Inductive, PTL DEF Spec, PaidStays

\* The legs of a return trip agree on what was paid, whichever of them the
\* gateway reported on.
THEOREM TripsAgree == Spec => []LegsAgree
<1>1. IInv /\ PayInv => LegsAgree
  <2> SUFFICES ASSUME IInv, PayInv, grouped, NEW l \in Legs, NEW m \in Legs,
                      Calm(l), Calm(m)
               PROVE  booking[l].payment = booking[m].payment
    BY DEF LegsAgree
  <2>1. ASSUME NEW r \in Requests, req[r].at = "mirror" PROVE FALSE
    <3>1. req[r].leg \in Legs /\ req[r].op \in {"stripe", "getpayin"}
      BY <2>1 DEF IInv, Sound, PayInv, Pays, Settling
    <3>2. Touches(req[r]) = Legs
      BY <3>1, PayingTouches DEF Family
    <3>3. QED
      BY <3>2 DEF Calm
  <2>2. QED
    BY <2>1 DEF PayInv, Agree, NoneMirrors, Calm
<1>2. QED
  BY <1>1, PaymentsInOrder, Inductive, PTL
-----------------------------------------------------------------------------
(***************************************************************************)
(* Invoices.  Every other booking can take the number a request has found  *)
(* only once, so that five attempts suffice for five bookings; and the     *)
(* numbers stay below the one whose text breaks the order.                 *)
(***************************************************************************)
FewBookings == Cardinality(Legs) <= Attempts /\ Cardinality(Legs) < Rollover

Billed == {l \in Legs : invoice[l] # NoInvoice}

\* As often as a request has looked again, another booking has been billed; if
\* the number it holds is taken, once more than that.
Counted(q) ==
  /\ q.tries <= Cardinality(Billed)
  /\ q.at = "insert" =>
       /\ q.no \in 1..(Cardinality(Billed) + 1)
       /\ q.no \in NumbersUsed => q.tries + 1 <= Cardinality(Billed)

CountInv ==
  /\ NumbersUsed \subseteq 1..Cardinality(Billed)
  /\ \A r \in Requests : Counted(req[r])

LEMMA BilledAreFew ==
  /\ IsFiniteSet(Billed) /\ Cardinality(Billed) \in Nat /\ Cardinality(Legs) \in Nat
  /\ Cardinality(Billed) <= Cardinality(Legs)
<1>1. Billed \subseteq Legs
  BY DEF Billed
<1>2. QED
  BY <1>1, Constants, FS_Subset, FS_CardinalityType

LEMMA NumberIsNew ==
  ASSUME FewBookings, TypeOK, CountInv
  PROVE  TextRef(NumbersUsed) \in 1..(Cardinality(Billed) + 1) \ NumbersUsed
<1> DEFINE n == Cardinality(Billed)
<1>1. /\ n \in Nat /\ n < Rollover /\ Rollover \in Nat \ {0}
      /\ NumbersUsed \subseteq 1..n
  BY BilledAreFew, Constants DEF FewBookings, CountInv
<1>2. NumbersUsed \in SUBSET Nat /\ IsFiniteSet(NumbersUsed)
  BY NumbersAreFinite
<1> HIDE DEF n
<1>3. CASE Rollover - 1 \in NumbersUsed
  <2>1. Rollover <= n + 1 /\ Rollover \notin NumbersUsed
    BY <1>1, <1>3
  <2>2. QED
    BY <1>1, <1>3, <2>1 DEF TextRef, n
<1>4. CASE Rollover - 1 \notin NumbersUsed /\ NumbersUsed = {}
  BY <1>1, <1>4 DEF TextRef, OfficeRef, n
<1>5. CASE Rollover - 1 \notin NumbersUsed /\ NumbersUsed # {}
  <2>1. PICK h : h = Highest(NumbersUsed)
    OBVIOUS
  <2>2. h \in 1..n /\ \A m \in NumbersUsed : m <= h
    BY <1>1, <1>2, <1>5, <2>1, HighestIsThere
  <2>3. h + 1 \in 1..(n + 1) /\ h + 1 \notin NumbersUsed
    BY <1>1, <2>2
  <2>4. QED
    BY <1>5, <2>1, <2>3 DEF TextRef, OfficeRef, n
<1>6. QED
  BY <1>3, <1>4, <1>5

\* With fewer rivals than attempts no request gives up.
LEMMA NeverGivesUp ==
  ASSUME FewBookings, CountInv, NEW q, Counted(q), q.at = "insert", q.leg \in Legs,
         q.tries \in Nat, invoice[q.leg] = NoInvoice, q.no \in NumbersUsed,
         q.tries + 1 >= Attempts
  PROVE  FALSE
<1>1. Billed \subseteq Legs \ {q.leg}
  BY DEF Billed
<1>2. /\ IsFiniteSet(Legs \ {q.leg})
      /\ Cardinality(Legs \ {q.leg}) = Cardinality(Legs) - 1
  BY Constants, FS_RemoveElement
<1>3. Cardinality(Billed) <= Cardinality(Legs) - 1
  BY <1>1, <1>2, FS_Subset
<1>4. q.tries + 1 <= Cardinality(Billed)
  BY DEF Counted
<1>5. QED
  BY <1>3, <1>4, BilledAreFew, Constants DEF FewBookings

LEMMA CountStands ==
  ASSUME CountInv, UNCHANGED invoice, NEW r \in Requests,
         \A o \in Requests \ {r} : req'[o] = req[o], Counted(req'[r])
  PROVE  CountInv'
<1>1. Billed' = Billed /\ NumbersUsed' = NumbersUsed
  BY DEF Billed, NumbersUsed
<1>2. ASSUME NEW o \in Requests PROVE Counted(req[o])'
  BY <1>1, <1>2 DEF CountInv, Counted
<1>3. QED
  BY <1>1, <1>2 DEF CountInv

LEMMA IdleIsCounted == Counted(Idle) /\ Counted(Idle)'
<1>1. Cardinality(Billed) \in Nat /\ Cardinality(Billed)' \in Nat
  <2>1. Billed' \subseteq Legs
    BY DEF Billed
  <2>2. IsFiniteSet(Billed')
    BY <2>1, Constants, FS_Subset
  <2>3. QED
    BY <2>2, BilledAreFew, FS_CardinalityType
<1>2. QED
  BY <1>1 DEF Counted, Idle

\* Only the insertion counts.
LEMMA OthersKeepCount ==
  ASSUME IInv, NEW r \in Requests, Proceed(r), ~InsertInvoice(r)
  PROVE  /\ UNCHANGED invoice
         /\ req'[r] = Idle \/ req'[r].tries = req[r].tries
<1>1. req \in [Requests -> Request]
  BY DEF IInv, Typed, TypeOK
<1>2. PICK p \in Request : p = req[r]
  BY <1>1
<1>3. ASSUME Ends(r) PROVE req'[r] = Idle
  BY <1>1, <1>3 DEF Ends
<1>4. ASSUME NEW statement, Goes(r, statement) PROVE req'[r].tries = req[r].tries
  <2>1. req'[r] = [p EXCEPT !.at = statement]
    BY <1>1, <1>2, <1>4 DEF Goes
  <2>2. QED
    BY <1>2, <2>1 DEF Request
<1>5. CASE StoreSession(r) \/ FlagJob(r) \/ CreateJob(r) \/ StopJob(r) \/ MoveJob(r)
  BY <1>3, <1>5 DEF StoreSession, FlagJob, CreateJob, StopJob, MoveJob
<1>6. CASE SettleTransaction(r) \/ SettleBooking(r) \/ MirrorLegs(r) \/ CreateBooking(r)
           \/ CancelRow(r) \/ AmendRow(r)
  BY <1>3, <1>4, <1>6 DEF SettleTransaction, SettleBooking, MirrorLegs, CreateBooking,
     CancelRow, AmendRow, AfterBooking
<1>7. CASE ReadForInvoice(r)
  <2>1. \/ req'[r] = Idle
        \/ \E b \in BOOLEAN : req'[r] = [p EXCEPT !.at = "number", !.paid = b]
    BY <1>1, <1>2, <1>3, <1>7 DEF ReadForInvoice
  <2>2. QED
    BY <1>2, <1>7, <2>1 DEF Request, ReadForInvoice
<1>8. CASE NextNumber(r)
  <2>1. PICK n : req'[r] = [p EXCEPT !.at = "insert", !.no = n]
    BY <1>1, <1>2, <1>8 DEF NextNumber
  <2>2. req'[r].tries = p.tries
    BY <2>1 DEF Request
  <2>3. QED
    BY <1>2, <1>8, <2>2 DEF NextNumber
<1>9. CASE PartnerConverts(r)
  <2>1. \/ req'[r] = Idle
        \/ \E d : req'[r] = [p EXCEPT !.at = "ref", !.date = d]
    BY <1>1, <1>2, <1>3, <1>9 DEF PartnerConverts
  <2>2. QED
    BY <1>2, <1>9, <2>1 DEF Request, PartnerConverts
<1>10. CASE GenerateInternalRef(r)
  <2>1. PICK n : req'[r] = [p EXCEPT !.at = "job", !.no = n]
    BY <1>1, <1>2, <1>10 DEF GenerateInternalRef
  <2>2. req'[r].tries = p.tries
    BY <2>1 DEF Request
  <2>3. QED
    BY <1>2, <1>10, <2>2 DEF GenerateInternalRef
<1>11. QED
  BY <1>5, <1>6, <1>7, <1>8, <1>9, <1>10 DEF Proceed

LEMMA InsertionCounts ==
  ASSUME FewBookings, IInv, IInv', CountInv, NEW r \in Requests, InsertInvoice(r)
  PROVE  CountInv'
<1> DEFINE n == Cardinality(Billed)
<1>1. /\ req \in [Requests -> Request] /\ invoice \in [Legs -> InvoiceRow]
      /\ n \in Nat
  BY BilledAreFew DEF IInv, Typed, TypeOK
<1>2. PICK q \in Request : q = req[r]
  BY <1>1
<1>3. q.at = "insert" /\ q.leg \in Legs /\ Counted(q)
  BY <1>2 DEF InsertInvoice, At, IInv, Sound, CountInv
<1>4. ASSUME UNCHANGED invoice, Ends(r) PROVE CountInv'
  <2>1. \A o \in Requests \ {r} : req'[o] = req[o]
    BY <1>1, <1>4 DEF Ends
  <2>2. req'[r] = Idle
    BY <1>1, <1>4 DEF Ends
  <2>3. QED
    BY <1>4, <2>1, <2>2, IdleIsCounted, CountStands
<1>5. CASE /\ invoice[q.leg] = NoInvoice /\ q.no \in NumbersUsed /\ q.tries + 1 < Attempts
           /\ req' = [req EXCEPT ![r].at = "number", ![r].tries = q.tries + 1]
           /\ UNCHANGED invoice
  <2>1. req'[r] = [q EXCEPT !.at = "number", !.tries = q.tries + 1]
    BY <1>1, <1>2, <1>5
  <2>2. req'[r].at = "number" /\ req'[r].tries = q.tries + 1
    BY <2>1 DEF Request
  <2>3. Counted(req'[r])
    BY <1>3, <1>5, <2>2 DEF Counted
  <2>4. \A o \in Requests \ {r} : req'[o] = req[o]
    BY <1>1, <1>5
  <2>5. QED
    BY <1>5, <2>3, <2>4, CountStands
<1>6. CASE /\ invoice[q.leg] = NoInvoice /\ q.no \notin NumbersUsed /\ Ends(r)
           /\ invoice' = [invoice EXCEPT ![q.leg] =
                [no |-> q.no, status |-> IF q.paid THEN "PAID" ELSE "ISSUED"]]
  <2>1. /\ invoice'[q.leg].no = q.no /\ invoice'[q.leg] # NoInvoice
        /\ \A l \in Legs \ {q.leg} : invoice'[l] = invoice[l]
    BY <1>1, <1>3, <1>6 DEF NoInvoice
  <2>2. Billed' = Billed \cup {q.leg} /\ q.leg \notin Billed
    BY <1>3, <1>6, <2>1 DEF Billed
  <2>3. Cardinality(Billed') = n + 1
    BY <2>2, BilledAreFew, FS_AddElement
  <2>4. NumbersUsed' \subseteq NumbersUsed \cup {q.no}
    <3>1. ASSUME NEW l \in Legs, invoice'[l] # NoInvoice
          PROVE  invoice'[l].no \in NumbersUsed \cup {q.no}
      BY <2>1, <3>1 DEF NumbersUsed
    <3>2. QED
      BY <3>1 DEF NumbersUsed
  <2>5. NumbersUsed \subseteq 1..n /\ q.no \in 1..(n + 1)
    BY <1>3 DEF CountInv, Counted
  <2>6. ASSUME NEW p \in Request, Counted(p)
        PROVE  /\ p.tries <= n + 1
               /\ p.at = "insert" =>
                    p.no \in 1..(n + 2) /\ (p.no \in NumbersUsed' => p.tries + 1 <= n + 1)
    <3>1. p.tries \in Nat /\ p.tries <= n
      BY <2>6, Constants DEF Counted, Request
    <3>2. p.at = "insert" => p.no \in 1..(n + 1)
      BY <2>6 DEF Counted
    <3>3. QED
      BY <1>1, <3>1, <3>2
  <2>7. ASSUME NEW o \in Requests PROVE Counted(req[o])'
    <3>1. CASE o = r
      <4>1. req'[o] = Idle
        BY <1>1, <1>6, <3>1 DEF Ends
      <4>2. QED
        BY <4>1, IdleIsCounted
    <3>2. CASE o # r
      <4>1. PICK p \in Request : p = req[o]
        BY <1>1
      <4>2. req'[o] = p /\ Counted(p)
        BY <1>1, <1>6, <3>2, <4>1 DEF Ends, CountInv
      <4>3. (n + 1) + 1 = n + 2
        BY <1>1
      <4>4. Counted(p)'
        BY <2>3, <2>6, <4>2, <4>3 DEF Counted
      <4>5. QED
        BY <4>2, <4>4
    <3>3. QED
      BY <3>1, <3>2
  <2>8. NumbersUsed' \subseteq 1..(n + 1)
    BY <1>1, <2>4, <2>5
  <2>9. QED
    BY <2>3, <2>7, <2>8 DEF CountInv
<1>7. QED
  BY <1>2, <1>4, <1>5, <1>6 DEF InsertInvoice

LEMMA CountStep ==
  ASSUME FewBookings, IInv, IInv', CountInv, [Next]_vars
  PROVE  CountInv'
<1>1. ASSUME NEW r \in Requests, Admission(r) PROVE CountInv'
  <2>1. (\A o \in Requests \ {r} : req'[o] = req[o]) /\ UNCHANGED invoice
    BY <1>1, Entry, AdmissionLeavesJobs
  <2>2. req'[r].tries = 0 /\ req'[r].at # "insert"
    <3>1. req \in [Requests -> Request]
      BY DEF IInv, Typed, TypeOK
    <3>2. CASE OfficeJob(r)
      BY <3>1, <3>2 DEF Admit, OfficeJob, Idle
    <3>3. CASE \E s \in Sessions : StripeWebhook(r, s) \/ GetPayInCallback(r, s)
      <4>1. PICK s \in Sessions : StripeWebhook(r, s) \/ GetPayInCallback(r, s)
        BY <3>3
      <4>2. CASE StripeWebhook(r, s)
        BY <3>1, <4>2 DEF Admit, StripeWebhook, Idle
      <4>3. CASE GetPayInCallback(r, s)
        <5>1. PICK j, b : Admit(r, [Idle EXCEPT !.op = "getpayin", !.at = "transaction",
                  !.leg = tx[s].leg, !.session = s, !.paid = b, !.job = j])
          BY <4>3 DEF GetPayInCallback
        <5>2. QED
          BY <3>1, <5>1 DEF Admit, Idle
      <4>4. QED
        BY <4>1, <4>2, <4>3
    <3>4. CASE \E l \in Legs, s \in Sessions : OpenSession(r, l, s)
      BY <3>1, <3>4 DEF Admit, OpenSession, Idle
    <3>5. CASE \E l \in Legs : PartnerJob(r, l) \/ ConvertToJob(r, l) \/ AdminCancel(r, l)
                                \/ GuestCancel(r, l)
      <4>1. PICK l \in Legs : PartnerJob(r, l) \/ ConvertToJob(r, l) \/ AdminCancel(r, l)
                               \/ GuestCancel(r, l)
        BY <3>5
      <4>2. CASE PartnerJob(r, l)
        <5>1. PICK a \in {"create", "read"} :
               Admit(r, [Idle EXCEPT !.op = "partner", !.leg = l, !.at = a])
          BY <4>2 DEF PartnerJob
        <5>2. req'[r] = [Idle EXCEPT !.op = "partner", !.leg = l, !.at = a]
          BY <3>1, <5>1 DEF Admit
        <5>3. QED
          BY <5>2 DEF Idle
      <4>3. CASE ConvertToJob(r, l)
        BY <3>1, <4>3 DEF Admit, ConvertToJob, Idle
      <4>4. CASE AdminCancel(r, l) \/ GuestCancel(r, l)
        BY <3>1, <4>4 DEF Admit, AdminCancel, GuestCancel, Idle
      <4>5. QED
        BY <4>1, <4>2, <4>3, <4>4
    <3>6. CASE \E l \in Legs, d \in Schedules : AmendBooking(r, l, d)
      BY <3>1, <3>6 DEF Admit, AmendBooking, Idle
    <3>7. req'[r].tries = 0
      BY <1>1, <3>2, <3>3, <3>4, <3>5, <3>6 DEF Admission
    <3>8. QED
      BY <1>1, <3>7, Entry DEF Fresh
  <2>3. Counted(req'[r])
    BY <2>2, BilledAreFew DEF Counted
  <2>4. QED
    BY <2>1, <2>3, CountStands
<1>2. ASSUME NEW r \in Requests, Proceed(r), ~InsertInvoice(r) PROVE CountInv'
  <2>1. /\ \A o \in Requests \ {r} : req'[o] = req[o]
        /\ req'[r] = Idle \/ Follows(req[r], req'[r])
    BY <1>2, Passage DEF Passes
  <2>2. /\ UNCHANGED invoice
        /\ req'[r] = Idle \/ req'[r].tries = req[r].tries
    BY <1>2, OthersKeepCount
  <2>3. Counted(req'[r])
    <3>1. CASE req'[r] = Idle
      BY <3>1, IdleIsCounted
    <3>2. CASE req'[r] # Idle /\ ~NextNumber(r)
      <4>1. req'[r].at # "insert"
        <5>1. ASSUME req'[r].at = "insert" PROVE NextNumber(r)
          <6>1. req[r].at = "number"
            BY <2>1, <3>2, <5>1 DEF Follows
          <6>2. QED
            BY <1>2, <6>1 DEF Proceed, At, StoreSession, SettleTransaction, SettleBooking,
               MirrorLegs, FlagJob, ReadForInvoice, InsertInvoice, CreateBooking,
               PartnerConverts, GenerateInternalRef, CreateJob, CancelRow, StopJob,
               AmendRow, MoveJob
        <5>2. QED
          BY <3>2, <5>1
      <4>2. QED
        BY <2>2, <3>2, <4>1 DEF CountInv, Counted
    <3>3. CASE NextNumber(r) /\ req'[r] # Idle
      <4>1. req'[r].no = TextRef(NumbersUsed)
        BY <3>3 DEF NextNumber, IInv, Typed, TypeOK, Request
      <4>2. req'[r].no \in 1..(Cardinality(Billed) + 1) \ NumbersUsed
        BY <4>1, NumberIsNew DEF IInv, Typed
      <4>3. QED
        BY <2>2, <3>3, <4>2 DEF CountInv, Counted
    <3>4. QED
      BY <3>1, <3>2, <3>3
  <2>4. QED
    BY <2>1, <2>2, <2>3, CountStands
<1>3. ASSUME NEW r \in Requests, InsertInvoice(r) PROVE CountInv'
  BY <1>3, InsertionCounts
<1>4. CASE Crash \/ UNCHANGED vars \/ (\E l \in Legs : Tick(l))
           \/ \E s \in Sessions : Capture(s) \/ Refuse(s)
  <2>1. UNCHANGED invoice /\ \A o \in Requests : req'[o] = Idle \/ req'[o] = req[o]
    BY <1>4 DEF Crash, vars, Tick, Capture, Refuse
  <2>2. Billed' = Billed /\ NumbersUsed' = NumbersUsed
    BY <2>1 DEF Billed, NumbersUsed
  <2>3. ASSUME NEW o \in Requests PROVE Counted(req[o])'
    BY <2>1, <2>2, IdleIsCounted DEF CountInv, Counted
  <2>4. QED
    BY <2>2, <2>3 DEF CountInv
<1>5. QED
  BY <1>1, <1>2, <1>3, <1>4 DEF Next

-----------------------------------------------------------------------------
\* Request q still sees to the invoice of leg l.
Bills(q, l) ==
  /\ q.leg = l
  /\ \/ q.at \in {"booking", "mirror"} /\ q.paid
     \/ q.at \in {"invoice", "number", "insert"}

\* On its way to the invoice a request alone with its leg has seen it paid.
SawPaid(q) ==
  q.leg \in Legs \ torn =>
    /\ q.at = "invoice" => booking[q.leg].payment = "PAID"
    /\ q.at \in {"number", "insert"} => q.paid

\* A session settled as paid has a booking, whose invoice is or will be paid.
Receipt(s) ==
  tx[s].status = "PAID" =>
    /\ tx[s].leg \in Legs
    /\ tx[s].leg \in torn \/ invoice[tx[s].leg].status = "PAID"
       \/ \E r \in Requests : Bills(req[r], tx[s].leg)

BillInv ==
  /\ \A l \in Legs \ torn : invoice[l] = NoInvoice \/ invoice[l].status = "PAID"
  /\ \A s \in Sessions : Receipt(s)
  /\ \A r \in Requests : SawPaid(req[r])

\* The invariant from what the step of request r does to it.
LEMMA BillAssemble ==
  ASSUME IInv, BillInv, KeepsPaid, torn \subseteq torn', NEW r \in Requests,
         \A o \in Requests \ {r} : req'[o] = req[o],
         \A l \in Legs \ torn :
           invoice'[l] = invoice[l] \/ invoice'[l].status = "PAID",
         \A s \in Sessions : tx'[s].status = "PAID" =>
           \/ tx[s].status = "PAID" /\ tx'[s].leg = tx[s].leg
           \/ tx'[s].leg \in Legs /\ Bills(req'[r], tx'[s].leg),
         \A l \in Legs \ torn' :
           Bills(req[r], l) => invoice'[l].status = "PAID" \/ Bills(req'[r], l),
         SawPaid(req[r])'
  PROVE  BillInv'
<1>1. \A l \in Legs \ torn' : invoice'[l] = NoInvoice \/ invoice'[l].status = "PAID"
  BY DEF BillInv
<1>2. ASSUME NEW s \in Sessions PROVE Receipt(s)'
  <2>1. CASE tx'[s].status # "PAID"
    BY <2>1 DEF Receipt
  <2>2. CASE tx'[s].leg \in Legs /\ Bills(req'[r], tx'[s].leg)
    BY <2>2 DEF Receipt
  <2>3. CASE tx[s].status = "PAID" /\ tx'[s].leg = tx[s].leg
    <3>1. PICK l \in Legs : l = tx[s].leg
      BY <2>3 DEF BillInv, Receipt
    <3>2. CASE l \in torn'
      BY <2>3, <3>1, <3>2 DEF Receipt
    <3>3. CASE l \notin torn' /\ invoice[l].status = "PAID"
      <4>1. invoice'[l].status = "PAID"
        BY <3>3
      <4>2. QED
        BY <2>3, <3>1, <4>1 DEF Receipt
    <3>4. CASE l \notin torn' /\ \E o \in Requests : Bills(req[o], l)
      <4>1. PICK o \in Requests : Bills(req[o], l)
        BY <3>4
      <4>2. invoice'[l].status = "PAID" \/ Bills(req'[o], l)
        BY <3>4, <4>1
      <4>3. QED
        BY <2>3, <3>1, <4>2 DEF Receipt
    <3>5. QED
      BY <2>3, <3>1, <3>2, <3>3, <3>4 DEF BillInv, Receipt
  <2>4. QED
    BY <2>1, <2>2, <2>3
<1>3. ASSUME NEW o \in Requests \ {r} PROVE SawPaid(req[o])'
  BY <1>3 DEF BillInv, SawPaid, KeepsPaid
<1>4. QED
  BY <1>1, <1>2, <1>3 DEF BillInv

LEMMA AdmissionBills ==
  ASSUME IInv, BillInv, KeepsPaid, NEW r \in Requests, Admission(r)
  PROVE  BillInv'
<1>1. /\ \A o \in Requests \ {r} : req'[o] = req[o]
      /\ torn \subseteq torn' /\ req[r] = Idle /\ Fresh(req'[r])
  BY Entry
<1>2. UNCHANGED <<tx, invoice>>
  BY AdmissionLeavesJobs
<1>3. SawPaid(req[r])' /\ \A l \in Legs : ~Bills(req[r], l)
  BY <1>1 DEF SawPaid, Bills, Fresh, Idle
<1>4. QED
  BY <1>1, <1>2, <1>3, BillAssemble

LEMMA StoreSessionBills ==
  ASSUME IInv, BillInv, KeepsPaid, NEW r \in Requests, StoreSession(r)
  PROVE  BillInv'
<1>1. PICK q \in Request : q = req[r]
  BY DEF IInv, Typed, TypeOK
<1>2. /\ q.at = "session" /\ q.session \in Sessions /\ q.leg \in Legs
      /\ tx[q.session].leg = NoLeg
  BY <1>1 DEF IInv, Sound, Rows, StoreSession, At
<1>3. tx[q.session].status # "PAID"
  BY <1>2, Constants DEF BillInv, Receipt
<1>4. /\ Passes(r) /\ req'[r] = Idle /\ UNCHANGED invoice
  BY Passage, EndsEffect DEF Proceed, IInv, StoreSession, Becomes
<1>5. \A s \in Sessions : tx'[s].status = tx[s].status /\ (s # q.session => tx'[s] = tx[s])
  BY <1>1 DEF StoreSession, IInv, Typed, TypeOK, TransactionRow
<1>6. SawPaid(req[r])' /\ \A l \in Legs : ~Bills(req[r], l)
  BY <1>1, <1>2, <1>4 DEF SawPaid, Bills, Idle
<1>7. QED
  BY <1>3, <1>4, <1>5, <1>6, BillAssemble DEF Passes

LEMMA SettleTransactionBills ==
  ASSUME IInv, BillInv, KeepsPaid, NEW r \in Requests, SettleTransaction(r)
  PROVE  BillInv'
<1>1. PICK q \in Request : q = req[r]
  BY DEF IInv, Typed, TypeOK
<1>2. /\ q.at = "transaction" /\ q.session \in Sessions /\ q.leg \in Legs
      /\ tx[q.session].leg = q.leg
  BY <1>1 DEF IInv, Sound, SettleTransaction, At
<1>3. /\ Passes(r) /\ UNCHANGED invoice
      /\ req'[r] = [q EXCEPT !.at = "booking"]
  BY <1>1, Passage, GoesEffect DEF Proceed, IInv, SettleTransaction, Becomes, Statements
<1>4. req'[r].at = "booking" /\ req'[r].leg = q.leg /\ req'[r].paid = q.paid
  BY <1>3 DEF Request
<1>5. /\ \A s \in Sessions : tx'[s].leg = tx[s].leg /\ (s # q.session => tx'[s] = tx[s])
      /\ tx'[q.session].status = Outcome(q)
  BY <1>1, <1>2 DEF SettleTransaction, IInv, Typed, TypeOK, TransactionRow
<1>6. tx'[q.session].status = "PAID" => Bills(req'[r], tx'[q.session].leg)
  BY <1>2, <1>4, <1>5 DEF Bills, Outcome
<1>7. SawPaid(req[r])' /\ \A l \in Legs : ~Bills(req[r], l)
  BY <1>1, <1>2, <1>4 DEF SawPaid, Bills
<1>8. QED
  BY <1>2, <1>3, <1>5, <1>6, <1>7, BillAssemble DEF Passes

\* After the booking, or both of a trip, a payment goes for its invoice.
LEMMA AfterBookingBills ==
  ASSUME IInv, BillInv, KeepsPaid, NEW r \in Requests, Passes(r), AfterBooking(r),
         NEW q \in Request, q = req[r], q.at \in {"booking", "mirror"}, q.leg \in Legs,
         UNCHANGED <<tx, invoice>>,
         q.paid /\ q.leg \notin torn => booking'[q.leg].payment = "PAID"
  PROVE  BillInv'
<1>1. CASE q.paid
  <2>1. req'[r] = [q EXCEPT !.at = "invoice"]
    BY <1>1, GoesEffect DEF IInv, AfterBooking, Becomes, Statements
  <2>2. req'[r].at = "invoice" /\ req'[r].leg = q.leg
    BY <2>1 DEF Request
  <2>3. SawPaid(req[r])' /\ \A l \in Legs : Bills(req[r], l) => Bills(req'[r], l)
    BY <1>1, <2>2 DEF SawPaid, Bills, Passes
  <2>4. QED
    BY <2>3, BillAssemble DEF Passes
<1>2. CASE ~q.paid
  <2>1. req'[r] = Idle \/ req'[r] = [q EXCEPT !.at = "flag"]
    BY <1>2, GoesEffect, EndsEffect DEF IInv, AfterBooking, Becomes, Statements
  <2>2. req'[r].at \in {"idle", "flag"}
    BY <2>1 DEF Request, Idle
  <2>3. SawPaid(req[r])' /\ \A l \in Legs : ~Bills(req[r], l)
    BY <1>2, <2>2 DEF SawPaid, Bills
  <2>4. QED
    BY <2>3, BillAssemble DEF Passes
<1>3. QED
  BY <1>1, <1>2

LEMMA SettleBookingBills ==
  ASSUME IInv, BillInv, KeepsPaid, NEW r \in Requests, SettleBooking(r)
  PROVE  BillInv'
<1>1. PICK q \in Request : q = req[r]
  BY DEF IInv, Typed, TypeOK
<1>2. q.at = "booking" /\ q.leg \in Legs
  BY <1>1 DEF IInv, Sound, SettleBooking, At
<1>3. Passes(r) /\ UNCHANGED <<tx, invoice>>
  BY Passage DEF Proceed, SettleBooking
<1>4. q.paid => booking'[q.leg].payment = "PAID"
  BY <1>1, <1>2 DEF SettleBooking, Outcome, IInv, Typed, TypeOK, BookingRow
<1>5. CASE grouped
  <2>1. req'[r] = [q EXCEPT !.at = "mirror"]
    BY <1>1, <1>5, GoesEffect DEF IInv, SettleBooking, Becomes, Statements
  <2>2. req'[r].at = "mirror" /\ req'[r].leg = q.leg /\ req'[r].paid = q.paid
    BY <2>1 DEF Request
  <2>3. SawPaid(req[r])' /\ \A l \in Legs : Bills(req[r], l) => Bills(req'[r], l)
    BY <1>1, <1>2, <2>2 DEF SawPaid, Bills
  <2>4. QED
    BY <1>3, <2>3, BillAssemble DEF Passes
<1>6. CASE ~grouped
  <2>1. AfterBooking(r)
    BY <1>6 DEF SettleBooking
  <2>2. QED
    BY <1>1, <1>2, <1>3, <1>4, <2>1, AfterBookingBills
<1>7. QED
  BY <1>5, <1>6

LEMMA MirrorLegsBills ==
  ASSUME IInv, PayInv, BillInv, KeepsPaid, NEW r \in Requests, MirrorLegs(r)
  PROVE  BillInv'
<1>1. PICK q \in Request : q = req[r]
  BY DEF IInv, Typed, TypeOK
<1>2. q.at = "mirror" /\ q.leg \in Legs /\ Pays(q)
  BY <1>1 DEF IInv, Sound, PayInv, MirrorLegs, At
<1>3. Passes(r) /\ UNCHANGED <<tx, invoice>> /\ AfterBooking(r)
  BY Passage DEF Proceed, MirrorLegs
<1>4. booking'[q.leg] = booking[q.leg]
  BY <1>1, <1>2 DEF MirrorLegs
<1>5. q.paid /\ q.leg \notin torn => booking[q.leg].payment = "PAID"
  BY <1>2 DEF Pays, Settling, Whole, Family, Outcome
<1>6. QED
  BY <1>1, <1>2, <1>3, <1>4, <1>5, AfterBookingBills

LEMMA ReadForInvoiceBills ==
  ASSUME IInv, BillInv, KeepsPaid, NEW r \in Requests, ReadForInvoice(r)
  PROVE  BillInv'
<1>1. PICK q \in Request : q = req[r]
  BY DEF IInv, Typed, TypeOK
<1>2. q.at = "invoice" /\ q.leg \in Legs /\ SawPaid(q)
  BY <1>1 DEF IInv, Sound, BillInv, ReadForInvoice, At
<1>3. Passes(r) /\ UNCHANGED <<tx, invoice>>
  BY Passage DEF Proceed, ReadForInvoice
<1>4. CASE invoice[q.leg] # NoInvoice /\ Ends(r)
  <2>1. req'[r] = Idle
    BY <1>4, EndsEffect DEF IInv, Becomes
  <2>2. SawPaid(req[r])'
    BY <2>1 DEF SawPaid, Idle
  <2>3. \A l \in Legs \ torn : Bills(req[r], l) => invoice'[l].status = "PAID"
    BY <1>1, <1>2, <1>3, <1>4 DEF BillInv, Bills
  <2>4. QED
    BY <1>3, <2>2, <2>3, BillAssemble DEF Passes
<1>5. CASE req' = [req EXCEPT ![r].at = "number",
                              ![r].paid = (booking[q.leg].payment = "PAID")]
  <2>1. req'[r] = [q EXCEPT !.at = "number", !.paid = (booking[q.leg].payment = "PAID")]
    BY <1>1, <1>5 DEF IInv, Typed, TypeOK
  <2>2. /\ req'[r].at = "number" /\ req'[r].leg = q.leg
        /\ req'[r].paid = (booking[q.leg].payment = "PAID")
    BY <2>1 DEF Request
  <2>3. SawPaid(req[r])' /\ \A l \in Legs : Bills(req[r], l) => Bills(req'[r], l)
    BY <1>1, <1>2, <1>3, <2>2 DEF SawPaid, Bills, Passes
  <2>4. QED
    BY <1>3, <2>3, BillAssemble DEF Passes
<1>6. QED
  BY <1>1, <1>4, <1>5 DEF ReadForInvoice

LEMMA NextNumberBills ==
  ASSUME IInv, BillInv, KeepsPaid, NEW r \in Requests, NextNumber(r)
  PROVE  BillInv'
<1>1. PICK q \in Request : q = req[r]
  BY DEF IInv, Typed, TypeOK
<1>2. q.at = "number" /\ SawPaid(q)
  BY <1>1 DEF BillInv, NextNumber, At
<1>3. Passes(r) /\ UNCHANGED <<tx, invoice>>
  BY Passage DEF Proceed, NextNumber
<1>4. req'[r] = [q EXCEPT !.at = "insert", !.no = TextRef(NumbersUsed)]
  BY <1>1 DEF NextNumber, IInv, Typed, TypeOK
<1>5. req'[r].at = "insert" /\ req'[r].leg = q.leg /\ req'[r].paid = q.paid
  BY <1>4 DEF Request
<1>6. SawPaid(req[r])' /\ \A l \in Legs : Bills(req[r], l) => Bills(req'[r], l)
  BY <1>1, <1>2, <1>3, <1>5 DEF SawPaid, Bills, Passes
<1>7. QED
  BY <1>3, <1>6, BillAssemble DEF Passes

LEMMA InsertInvoiceBills ==
  ASSUME FewBookings, IInv, CountInv, BillInv, KeepsPaid, NEW r \in Requests,
         InsertInvoice(r)
  PROVE  BillInv'
<1>1. PICK q \in Request : q = req[r]
  BY DEF IInv, Typed, TypeOK
<1>2. /\ q.at = "insert" /\ q.leg \in Legs /\ SawPaid(q) /\ Counted(q) /\ q.tries \in Nat
      /\ invoice \in [Legs -> InvoiceRow]
  <2>1. q.at = "insert" /\ q.leg \in Legs
    BY <1>1 DEF IInv, Sound, InsertInvoice, At
  <2>2. q.tries \in Nat
    BY Constants DEF Request
  <2>3. SawPaid(q) /\ Counted(q)
    BY <1>1 DEF BillInv, CountInv
  <2>4. QED
    BY <2>1, <2>2, <2>3 DEF IInv, Typed, TypeOK
<1>3. Passes(r) /\ UNCHANGED tx
  BY Passage DEF Proceed, InsertInvoice
<1>4. SawPaid(Idle)'
  BY DEF SawPaid, Idle
<1>5. CASE /\ invoice[q.leg] = NoInvoice /\ Ends(r)
           /\ invoice' = [invoice EXCEPT ![q.leg] =
                [no |-> q.no, status |-> IF q.paid THEN "PAID" ELSE "ISSUED"]]
  <2>1. /\ \A l \in Legs \ {q.leg} : invoice'[l] = invoice[l]
        /\ q.leg \notin torn => invoice'[q.leg].status = "PAID"
    BY <1>2, <1>5 DEF SawPaid
  <2>2. req'[r] = Idle
    BY <1>5, EndsEffect DEF IInv, Becomes
  <2>3. \A l \in Legs \ torn : Bills(req[r], l) => invoice'[l].status = "PAID"
    BY <1>1, <2>1 DEF Bills
  <2>4. QED
    BY <1>3, <1>4, <2>1, <2>2, <2>3, BillAssemble DEF Passes
<1>6. CASE /\ req' = [req EXCEPT ![r].at = "number", ![r].tries = q.tries + 1]
           /\ UNCHANGED invoice
  <2>1. req'[r] = [q EXCEPT !.at = "number", !.tries = q.tries + 1]
    BY <1>1, <1>6 DEF IInv, Typed, TypeOK
  <2>2. req'[r].at = "number" /\ req'[r].leg = q.leg /\ req'[r].paid = q.paid
    BY <2>1 DEF Request
  <2>3. SawPaid(req[r])' /\ \A l \in Legs : Bills(req[r], l) => Bills(req'[r], l)
    BY <1>1, <1>2, <1>3, <2>2 DEF SawPaid, Bills, Passes
  <2>4. QED
    BY <1>3, <1>6, <2>3, BillAssemble DEF Passes
<1>7. CASE /\ invoice[q.leg] # NoInvoice \/ (q.no \in NumbersUsed /\ q.tries + 1 >= Attempts)
           /\ Ends(r) /\ UNCHANGED invoice
  <2>1. invoice[q.leg] # NoInvoice
    BY <1>2, <1>7, NeverGivesUp
  <2>2. req'[r] = Idle
    BY <1>7, EndsEffect DEF IInv, Becomes
  <2>3. \A l \in Legs \ torn : Bills(req[r], l) => invoice'[l].status = "PAID"
    BY <1>1, <1>7, <2>1 DEF BillInv, Bills
  <2>4. QED
    BY <1>3, <1>4, <1>7, <2>2, <2>3, BillAssemble DEF Passes
<1>8. QED
  BY <1>1, <1>5, <1>6, <1>7 DEF InsertInvoice

\* The statements that have to do with no invoice.
LEMMA OthersBill ==
  ASSUME IInv, BillInv, KeepsPaid, NEW r \in Requests,
         \/ FlagJob(r) \/ CreateBooking(r) \/ PartnerConverts(r) \/ GenerateInternalRef(r)
         \/ CreateJob(r) \/ CancelRow(r) \/ StopJob(r) \/ AmendRow(r) \/ MoveJob(r)
  PROVE  BillInv'
<1>1. Passes(r) /\ UNCHANGED <<tx, invoice>>
  BY Passage DEF Proceed, FlagJob, CreateBooking, PartnerConverts, GenerateInternalRef,
     CreateJob, CancelRow, StopJob, AmendRow, MoveJob
<1>2. req[r].at \in {"flag", "create", "read", "ref", "job", "cancel", "stopJob", "amend",
                     "moveJob"}
  BY DEF At, FlagJob, CreateBooking, PartnerConverts, GenerateInternalRef,
     CreateJob, CancelRow, StopJob, AmendRow, MoveJob
<1>3. req'[r].at \notin {"invoice", "number", "insert"}
  BY <1>1, <1>2 DEF Passes, Follows, Idle
<1>4. SawPaid(req[r])' /\ \A l \in Legs : ~Bills(req[r], l)
  BY <1>2, <1>3 DEF SawPaid, Bills
<1>5. QED
  BY <1>1, <1>4, BillAssemble DEF Passes

LEMMA CrashBills ==
  ASSUME IInv, BillInv, Crash
  PROVE  BillInv'
<1>1. /\ UNCHANGED <<tx, invoice, booking>> /\ req' = [r \in Requests |-> Idle]
      /\ torn' = torn \cup UNION {Touches(req[r]) : r \in Requests}
  BY DEF Crash
<1>2. \A r \in Requests : SawPaid(req[r])'
  BY <1>1 DEF SawPaid, Idle
<1>3. ASSUME NEW l \in Legs \ torn', NEW r \in Requests PROVE ~Bills(req[r], l)
  BY <1>1, <1>3, LegIsTouched DEF Bills
<1>4. ASSUME NEW s \in Sessions PROVE Receipt(s)'
  BY <1>1, <1>3 DEF BillInv, Receipt
<1>5. QED
  BY <1>1, <1>2, <1>4 DEF BillInv

LEMMA BillStep ==
  ASSUME FewBookings, IInv, IInv', JobInv, PayInv, CountInv, BillInv, [Next]_vars
  PROVE  BillInv'
<1>1. KeepsPaid
  BY PayStep
<1>2. ASSUME NEW r \in Requests, Admission(r) PROVE BillInv'
  BY <1>1, <1>2, AdmissionBills
<1>3. ASSUME NEW r \in Requests, Proceed(r) PROVE BillInv'
  BY <1>1, <1>3, StoreSessionBills, SettleTransactionBills, SettleBookingBills,
     MirrorLegsBills, ReadForInvoiceBills, NextNumberBills, InsertInvoiceBills, OthersBill
     DEF Proceed
<1>4. CASE Crash
  BY <1>4, CrashBills
<1>5. CASE UNCHANGED vars \/ (\E l \in Legs : Tick(l))
           \/ \E s \in Sessions : Capture(s) \/ Refuse(s)
  <2>1. UNCHANGED <<booking, tx, invoice, req, torn>>
    BY <1>5 DEF vars, Tick, Capture, Refuse, history
  <2>2. QED
    BY <2>1 DEF BillInv, Receipt, SawPaid, Bills
<1>6. QED
  BY <1>2, <1>3, <1>4, <1>5 DEF Next

LEMMA InitBills == Init => CountInv /\ BillInv
<1> SUFFICES ASSUME Init PROVE CountInv /\ BillInv
  OBVIOUS
<1>1. Billed = {} /\ NumbersUsed = {} /\ \A r \in Requests : req[r] = Idle
  BY DEF Init, Billed, NumbersUsed
<1>2. CountInv
  BY <1>1, IdleIsCounted DEF CountInv
<1>3. \A s \in Sessions : tx[s].status = "PENDING"
  BY DEF Init
<1>4. BillInv
  BY <1>1, <1>3 DEF Init, BillInv, Receipt, SawPaid, Idle
<1>5. QED
  BY <1>2, <1>4

\* A payment settled for a leg has its invoice, and the invoice reads PAID, unless
\* requests overlapped on the leg or one died: whoever is alone with it has seen
\* the booking paid, and runs out of attempts only with more rivals than those.
THEOREM ReceiptsArrive ==
  ASSUME FewBookings
  PROVE  Spec => []Invoiced
<1>1. IInv /\ IInv' /\ CountInv /\ [Next]_vars => CountInv'
  BY CountStep
<1>2. IInv /\ IInv' /\ JobInv /\ PayInv /\ CountInv /\ BillInv /\ [Next]_vars => BillInv'
  BY BillStep
<1>3. IInv /\ BillInv => Invoiced
  <2> SUFFICES ASSUME BillInv, NEW s \in Sessions, tx[s].status = "PAID", Calm(tx[s].leg)
               PROVE  invoice[tx[s].leg].status = "PAID"
    BY DEF Invoiced
  <2>1. tx[s].leg \in Legs
    BY DEF BillInv, Receipt
  <2>2. \A r \in Requests : ~Bills(req[r], tx[s].leg)
    BY <2>1, LegIsTouched DEF Bills, Calm
  <2>3. QED
    BY <2>1, <2>2 DEF BillInv, Receipt, Calm
<1>4. QED
  BY <1>1, <1>2, <1>3, InitBills, PaymentsInOrder, Undisturbed, Inductive, PTL DEF Spec
=============================================================================
