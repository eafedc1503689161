--------------------------- MODULE BookingPayment ---------------------------
(***************************************************************************)
(* Website bookings from the guest's checkout to the traffic job: payment  *)
(* sessions and the gateways' callbacks, the B2C invoice, conversion into  *)
(* a job by the office or by the partner API, cancellation and amendment.  *)
(*                                                                         *)
(* Only the conversion writes inside a transaction.  Every other handler   *)
(* awaits one statement after the other, so that two callbacks interleave  *)
(* between any two of them, and a process that dies leaves the rest out.   *)
(* A request is a slot of req that names its next statement in `at' and    *)
(* carries what the handler keeps in local variables.                      *)
(*                                                                         *)
(* The gateways are external: Stripe repeats a completed session until the *)
(* webhook is answered; GetPayIn reports a captured or refused session any *)
(* number of times, by webhook and by the guest's browser, in any order.   *)
(***************************************************************************)
EXTENDS Naturals, FiniteSets

CONSTANTS
  Legs,                             \* guest bookings
  StripeSessions, GetPayInSessions, \* checkout sessions, by gateway
  Requests,                         \* slots for requests in flight
  NoLeg, NoSession,
  Groupings,      \* may the legs be one return trip, sharing a groupRef
  Initial,        \* does the partner site still have to create the rows
  Methods,        \* payment methods bookings may have
  Schedules,      \* dates and pick-up times, as guests amend them
  Ops,            \* the operations called in this instance
  Rollover,       \* the first job reference with one more digit: 10000
  Attempts,       \* tries to find a free invoice number: 5
  MaxJobs,        \* bound: traffic jobs ever created
  MaxCrashes      \* bound: times the process dies

Sessions == StripeSessions \cup GetPayInSessions

AllOps == {"open", "stripe", "getpayin", "convert", "partner", "office",
           "adminCancel", "guestCancel", "amend", "clock", "crash"}

ASSUME Constants ==
  /\ StripeSessions \cap GetPayInSessions = {}
  /\ IsFiniteSet(Legs)
  /\ NoLeg \notin Legs /\ NoSession \notin Sessions
  /\ Groupings \subseteq BOOLEAN /\ Initial \subseteq {"ABSENT", "CONFIRMED"}
  /\ Methods \subseteq {"ONLINE", "PAY_ON_ARRIVAL"}
  /\ 0 \in Schedules /\ Ops \subseteq AllOps
  /\ Rollover \in Nat \ {0} /\ Attempts \in Nat \ {0}
  /\ MaxJobs \in Nat /\ MaxCrashes \in Nat

VARIABLES
  booking,   \* guest_bookings rows
  grouped,   \* do the legs share a groupRef
  tx,        \* payment_transactions rows: the leg and status of a session
  money,     \* the gateway's side of each session
  acked,     \* Stripe sessions whose webhook was answered 200
  invoice,   \* b2c_invoices rows, by booking: unique guest_booking_id
  jobs,      \* traffic_jobs rows, by the number in their internal_ref
  notice,    \* 2: at least 48 hours before the trip, 1: 24, 0: less
  req,       \* the request in each slot
  torn,      \* history: legs on which two requests overlapped or one died
  crashes    \* history: times the process died

vars == <<booking, grouped, tx, money, acked, invoice, jobs, notice, req,
          torn, crashes>>

gateway == <<money, acked>>
history == <<torn, crashes>>

-----------------------------------------------------------------------------
(***************************************************************************)
(* Rows.                                                                   *)
(***************************************************************************)
PaymentStatus == {"PENDING", "PAID", "FAILED"}

BookingRow ==
  [status: {"ABSENT", "CONFIRMED", "CANCELLED", "CONVERTED"},
   payment: PaymentStatus, method: {"ONLINE", "PAY_ON_ARRIVAL"},
   date: Schedules, job: 0..MaxJobs]

TransactionRow == [leg: Legs \cup {NoLeg}, status: PaymentStatus]

InvoiceRow == [no: Nat, status: {"NONE", "ISSUED", "PAID"}]

JobRow == [exists: BOOLEAN, leg: Legs \cup {NoLeg}, collect: BOOLEAN,
           date: Schedules, status: {"PENDING", "CANCELLED"}]

NoInvoice == [no |-> 0, status |-> "NONE"]

NoJob == [exists |-> FALSE, leg |-> NoLeg, collect |-> FALSE, date |-> 0,
          status |-> "PENDING"]

\* paid: the result a callback brings, or the status its invoice will carry;
\* job, date: what the handler read of the booking; no: the reference or
\* invoice number it will use; tries: how often it looked for one.
Request ==
  [op: AllOps \cup {"idle"}, leg: Legs \cup {NoLeg},
   at: {"idle", "session", "transaction", "booking", "mirror", "flag",
        "invoice", "number", "insert", "create", "read", "ref", "job",
        "cancel", "stopJob", "amend", "moveJob"},
   session: Sessions \cup {NoSession}, paid: BOOLEAN, job: 0..MaxJobs,
   date: Schedules, no: Nat, tries: 0..Attempts]

Idle == [op |-> "idle", leg |-> NoLeg, at |-> "idle", session |-> NoSession,
         paid |-> FALSE, job |-> 0, date |-> 0, no |-> 0, tries |-> 0]

TypeOK ==
  /\ booking \in [Legs -> BookingRow]
  /\ grouped \in BOOLEAN
  /\ tx \in [Sessions -> TransactionRow]
  /\ money \in [Sessions -> {"none", "open", "captured", "declined"}]
  /\ acked \subseteq StripeSessions
  /\ invoice \in [Legs -> InvoiceRow]
  /\ jobs \in [1..MaxJobs -> JobRow]
  /\ notice \in [Legs -> 0..2]
  /\ req \in [Requests -> Request]
  /\ torn \subseteq Legs
  /\ crashes \in Nat

\* The legs one payment pays for: bookings sharing a groupRef.
Family(l) == IF grouped THEN Legs ELSE {l}

\* The legs whose rows a request writes.
Touches(q) ==
  IF q.leg = NoLeg THEN {}
  ELSE IF q.op \in {"open", "stripe", "getpayin"} THEN Family(q.leg)
  ELSE {q.leg}

Created == {n \in 1..MaxJobs : jobs[n].exists}

Highest(S) == CHOOSE n \in S : \A m \in S : m <= n

\* traffic-jobs: the highest number in use, compared as a number.
OfficeRef(S) == IF S = {} THEN 1 ELSE Highest(S) + 1

\* guest-bookings and B2C invoices: the last reference in the order of texts.
\* Texts of equal length compare like numbers; the one of all nines, Rollover
\* - 1, comes after every longer text.
TextRef(S) == IF Rollover - 1 \in S THEN Rollover ELSE OfficeRef(S)

Init ==
  /\ grouped \in Groupings
  /\ booking \in [Legs -> [status: Initial, payment: {"PENDING"},
                           method: Methods, date: {0}, job: {0}]]
  /\ grouped => \A l \in Legs : booking[l].status = "CONFIRMED"
  /\ tx = [s \in Sessions |-> [leg |-> NoLeg, status |-> "PENDING"]]
  /\ money = [s \in Sessions |-> "none"]
  /\ acked = {}
  /\ invoice = [l \in Legs |-> NoInvoice]
  /\ jobs = [n \in 1..MaxJobs |-> NoJob]
  /\ notice = [l \in Legs |-> 2]
  /\ req = [r \in Requests |-> Idle]
  /\ torn = {} /\ crashes = 0

-----------------------------------------------------------------------------
(***************************************************************************)
(* How a request comes, goes on and ends.                                  *)
(***************************************************************************)
\* The legs request q shares with one already in flight.
Overlaps(r, q) ==
  {l \in Touches(q) : \E o \in Requests \ {r} : l \in Touches(req[o])}

Admit(r, q) ==
  /\ q.op \in Ops /\ req[r] = Idle
  /\ req' = [req EXCEPT ![r] = q]
  /\ torn' = torn \cup Overlaps(r, q)
  /\ UNCHANGED <<grouped, crashes>>

At(r, statement) == req[r].at = statement

Goes(r, statement) ==
  /\ req' = [req EXCEPT ![r].at = statement]
  /\ UNCHANGED <<grouped, acked, torn, crashes>>

\* The handler returns; Stripe's is answered 200.
Ends(r) ==
  /\ req' = [req EXCEPT ![r] = Idle]
  /\ acked' = IF req[r].op = "stripe" THEN acked \cup {req[r].session} ELSE acked
  /\ UNCHANGED <<grouped, torn, crashes>>

-----------------------------------------------------------------------------
(***************************************************************************)
(* Payment sessions and callbacks.                                         *)
(***************************************************************************)
\* createPaymentSession refuses a booking that reads PAID.  The gateway hands
\* out a session nobody had before.
OpenSession(r, l, s) ==
  /\ booking[l].status # "ABSENT" /\ booking[l].payment # "PAID"
  /\ tx[s].leg = NoLeg /\ \A o \in Requests : req[o].session # s
  /\ Admit(r, [Idle EXCEPT !.op = "open", !.at = "session", !.leg = l,
                           !.session = s])
  /\ UNCHANGED <<booking, tx, gateway, invoice, jobs, notice>>

\* The transaction row is stored before the guest learns the checkout URL.
StoreSession(r) ==
  /\ At(r, "session")
  /\ tx' = [tx EXCEPT ![req[r].session].leg = req[r].leg]
  /\ money' = [money EXCEPT ![req[r].session] = "open"]
  /\ Ends(r)
  /\ UNCHANGED <<booking, invoice, jobs, notice>>

\* The gateway takes the guest's money, or GetPayIn refuses the card for good.
Capture(s) ==
  /\ money[s] = "open"
  /\ money' = [money EXCEPT ![s] = "captured"]
  /\ UNCHANGED <<booking, grouped, tx, acked, invoice, jobs, notice, req, history>>

Refuse(s) ==
  /\ money[s] = "open" /\ s \in GetPayInSessions
  /\ money' = [money EXCEPT ![s] = "declined"]
  /\ UNCHANGED <<booking, grouped, tx, acked, invoice, jobs, notice, req, history>>

\* A slip: the webhook is answered before its work is done.
AnswerFirst(r, s) ==
  /\ s \in StripeSessions /\ money[s] = "captured"
  /\ Admit(r, [Idle EXCEPT !.op = "stripe", !.at = "transaction",
                           !.leg = tx[s].leg, !.session = s, !.paid = TRUE])
  /\ acked' = acked \cup {s}
  /\ UNCHANGED <<booking, tx, money, invoice, jobs, notice>>

\* handleStripeWebhook takes checkout.session.completed as often as it comes.
StripeWebhook(r, s) ==
  /\ s \in StripeSessions /\ money[s] = "captured"
  /\ Admit(r, [Idle EXCEPT !.op = "stripe", !.at = "transaction",
                           !.leg = tx[s].leg, !.session = s, !.paid = TRUE])
  /\ UNCHANGED <<booking, tx, gateway, invoice, jobs, notice>>

\* A slip: repeats are processed again.
RepeatedCallback(r, s) ==
  /\ s \in GetPayInSessions /\ money[s] \in {"captured", "declined"}
  /\ Admit(r, [Idle EXCEPT !.op = "getpayin", !.at = "transaction",
                           !.leg = tx[s].leg, !.session = s,
                           !.paid = (money[s] = "captured"),
                           !.job = booking[tx[s].leg].job])
  /\ UNCHANGED <<booking, tx, gateway, invoice, jobs, notice>>

\* processGetPayInCallback ignores a booking that already reads PAID.
GetPayInCallback(r, s) ==
  /\ s \in GetPayInSessions /\ money[s] \in {"captured", "declined"}
  /\ LET row == booking[tx[s].leg] IN
       /\ row.payment # "PAID"
       /\ Admit(r, [Idle EXCEPT !.op = "getpayin", !.at = "transaction",
                                !.leg = tx[s].leg, !.session = s,
                                !.paid = (money[s] = "captured"),
                                !.job = row.job])
  /\ UNCHANGED <<booking, tx, gateway, invoice, jobs, notice>>

\* A slip: whatever the gateway calls back about is paid.
AnyOutcome(q) == "PAID"

Outcome(q) == IF q.paid THEN "PAID" ELSE "FAILED"

SettleTransaction(r) ==
  /\ At(r, "transaction")
  /\ tx' = [tx EXCEPT ![req[r].session].status = Outcome(req[r])]
  /\ Goes(r, "booking")
  /\ UNCHANGED <<booking, money, invoice, jobs, notice>>

\* What follows the booking rows: a receipt with its invoice, or the cash
\* fall-back on the job the callback saw, or nothing.
AfterBooking(r) ==
  \/ req[r].paid /\ Goes(r, "invoice")
  \/ ~req[r].paid /\ req[r].job # 0 /\ Goes(r, "flag")
  \/ ~req[r].paid /\ req[r].job = 0 /\ Ends(r)

SettleBooking(r) ==
  /\ At(r, "booking")
  /\ booking' = [booking EXCEPT ![req[r].leg].payment = Outcome(req[r])]
  /\ IF grouped THEN Goes(r, "mirror") ELSE AfterBooking(r)
  /\ UNCHANGED <<tx, money, invoice, jobs, notice>>

\* A slip: only a payment is mirrored, not a refusal.
MirrorPaidOnly(r) ==
  /\ At(r, "mirror")
  /\ booking' = [l \in Legs |-> IF l = req[r].leg \/ ~req[r].paid THEN booking[l]
                                ELSE [booking[l] EXCEPT !.payment = "PAID"]]
  /\ AfterBooking(r)
  /\ UNCHANGED <<tx, money, invoice, jobs, notice>>

\* "Mirror the settled status to the return leg."
MirrorLegs(r) ==
  /\ At(r, "mirror")
  /\ booking' = [l \in Legs |-> IF l = req[r].leg THEN booking[l]
                                ELSE [booking[l] EXCEPT !.payment = Outcome(req[r])]]
  /\ AfterBooking(r)
  /\ UNCHANGED <<tx, money, invoice, jobs, notice>>

\* "Failed online payment: fall back to cash on arrival."
FlagJob(r) ==
  /\ At(r, "flag")
  /\ jobs' = [jobs EXCEPT ![req[r].job].collect = TRUE]
  /\ Ends(r)
  /\ UNCHANGED <<booking, tx, money, invoice, notice>>

\* ensureForBooking: an existing invoice is returned; otherwise the booking's
\* payment status decides the invoice's.
ReadForInvoice(r) ==
  /\ At(r, "invoice")
  /\ LET l == req[r].leg IN
       \/ invoice[l] # NoInvoice /\ Ends(r)
       \/ /\ invoice[l] = NoInvoice
          /\ req' = [req EXCEPT ![r].at = "number",
                                ![r].paid = (booking[l].payment = "PAID")]
          /\ UNCHANGED <<grouped, acked, torn, crashes>>
  /\ UNCHANGED <<booking, tx, money, invoice, jobs, notice>>

NumbersUsed == {invoice[l].no : l \in {m \in Legs : invoice[m] # NoInvoice}}

NextNumber(r) ==
  /\ At(r, "number")
  /\ req' = [req EXCEPT ![r].at = "insert", ![r].no = TextRef(NumbersUsed)]
  /\ UNCHANGED <<booking, grouped, tx, money, acked, invoice, jobs, notice, torn, crashes>>

\* A slip: a taken number is not looked for again.
InsertOnce(r) ==
  /\ At(r, "insert")
  /\ LET q == req[r] IN
       IF invoice[q.leg] = NoInvoice /\ q.no \notin NumbersUsed
       THEN invoice' = [invoice EXCEPT ![q.leg] =
              [no |-> q.no, status |-> IF q.paid THEN "PAID" ELSE "ISSUED"]]
       ELSE UNCHANGED invoice
  /\ Ends(r)
  /\ UNCHANGED <<booking, tx, money, jobs, notice>>

\* Both keys are unique: a booking that has its invoice by now is done, a
\* number that is taken is looked for again, five times in all.
InsertInvoice(r) ==
  /\ At(r, "insert")
  /\ LET q == req[r]  taken == q.no \in NumbersUsed IN
       \/ /\ invoice[q.leg] = NoInvoice /\ ~taken
          /\ invoice' = [invoice EXCEPT ![q.leg] =
                [no |-> q.no, status |-> IF q.paid THEN "PAID" ELSE "ISSUED"]]
          /\ Ends(r)
       \/ /\ invoice[q.leg] = NoInvoice /\ taken /\ q.tries + 1 < Attempts
          /\ req' = [req EXCEPT ![r].at = "number", ![r].tries = q.tries + 1]
          /\ UNCHANGED <<grouped, acked, invoice, torn, crashes>>
       \/ /\ invoice[q.leg] # NoInvoice \/ (taken /\ q.tries + 1 >= Attempts)
          /\ Ends(r) /\ UNCHANGED invoice
  /\ UNCHANGED <<booking, tx, money, jobs, notice>>

-----------------------------------------------------------------------------
(***************************************************************************)
(* Conversion into a traffic job.                                          *)
(***************************************************************************)
\* PartnerService.createJob: a booking with a job is answered at once; a retry
\* after a failed conversion reuses the row.
PartnerJob(r, l) ==
  /\ ~grouped /\ booking[l].job = 0
  /\ Admit(r, [Idle EXCEPT !.op = "partner", !.leg = l,
                 !.at = IF booking[l].status = "ABSENT" THEN "create" ELSE "read"])
  /\ UNCHANGED <<booking, tx, gateway, invoice, jobs, notice>>

\* bookingRef is unique: of two first calls one creates the row, one fails.
CreateBooking(r) ==
  /\ At(r, "create")
  /\ LET l == req[r].leg IN
       \/ /\ booking[l].status = "ABSENT"
          /\ booking' = [booking EXCEPT ![l].status = "CONFIRMED"]
          /\ Goes(r, "read")
       \/ booking[l].status # "ABSENT" /\ Ends(r) /\ UNCHANGED booking
  /\ UNCHANGED <<tx, money, invoice, jobs, notice>>

\* convertToJob reads the booking and turns down all but CONFIRMED ones.
ConvertToJob(r, l) ==
  /\ booking[l].status = "CONFIRMED"
  /\ Admit(r, [Idle EXCEPT !.op = "convert", !.leg = l, !.at = "ref",
                           !.date = booking[l].date])
  /\ UNCHANGED <<booking, tx, gateway, invoice, jobs, notice>>

PartnerConverts(r) ==
  /\ At(r, "read")
  /\ LET row == booking[req[r].leg] IN
       \/ /\ row.status = "CONFIRMED"
          /\ req' = [req EXCEPT ![r].at = "ref", ![r].date = row.date]
          /\ UNCHANGED <<grouped, acked, torn, crashes>>
       \/ row.status # "CONFIRMED" /\ Ends(r)
  /\ UNCHANGED <<booking, tx, money, invoice, jobs, notice>>

\* TrafficJobsService.create: the office's own jobs share the references.
OfficeJob(r) ==
  /\ Created # 1..MaxJobs
  /\ Admit(r, [Idle EXCEPT !.op = "office", !.at = "ref"])
  /\ UNCHANGED <<booking, tx, gateway, invoice, jobs, notice>>

GenerateInternalRef(r) ==
  /\ At(r, "ref")
  /\ req' = [req EXCEPT ![r].at = "job",
               ![r].no = IF req[r].op = "office" THEN OfficeRef(Created)
                                                 ELSE TextRef(Created)]
  /\ UNCHANGED <<booking, grouped, tx, money, acked, invoice, jobs, notice, torn, crashes>>

\* A slip: the driver collects whatever is unpaid at conversion.
CollectUnpaid(q) ==
  [exists |-> TRUE, leg |-> q.leg, date |-> q.date, status |-> "PENDING",
   collect |-> q.leg # NoLeg /\ booking[q.leg].payment # "PAID"]

\* The job with the date read before, and the money to collect on arrival.
JobOf(q) ==
  [exists |-> TRUE, leg |-> q.leg, date |-> q.date, status |-> "PENDING",
   collect |-> q.leg # NoLeg /\ booking[q.leg].method = "PAY_ON_ARRIVAL"]

\* Slips: a converted booking passes for paid; it is linked only while it is
\* still CONFIRMED; it stays CONFIRMED.
ConvertedIsPaid(row, n) ==
  [row EXCEPT !.status = "CONVERTED", !.job = n, !.payment = "PAID"]

LinkConfirmed(row, n) ==
  IF row.status = "CONFIRMED" THEN [row EXCEPT !.status = "CONVERTED", !.job = n] ELSE row

KeepConfirmed(row, n) == [row EXCEPT !.status = "CONFIRMED", !.job = n]

\* The booking's link to job n, without reading the booking again.
Converted(row, n) == [row EXCEPT !.status = "CONVERTED", !.job = n]

\* The transaction: the job and the link.  internal_ref is unique: a taken one,
\* or one past the bound, rolls it back.
CreateJob(r) ==
  /\ At(r, "job")
  /\ LET q == req[r]  n == q.no IN
       \/ /\ n \in 1..MaxJobs \ Created
          /\ jobs' = [jobs EXCEPT ![n] = JobOf(q)]
          /\ booking' = IF q.leg = NoLeg THEN booking
                        ELSE [booking EXCEPT ![q.leg] = Converted(@, n)]
       \/ /\ n \notin 1..MaxJobs \ Created
          /\ UNCHANGED <<jobs, booking>>
  /\ Ends(r)
  /\ UNCHANGED <<tx, money, invoice, notice>>

-----------------------------------------------------------------------------
(***************************************************************************)
(* Cancellation and amendment.                                             *)
(***************************************************************************)
\* GuestBookingsService.cancelBooking: the office, before conversion.
AdminCancel(r, l) ==
  /\ booking[l].status = "CONFIRMED"
  /\ Admit(r, [Idle EXCEPT !.op = "adminCancel", !.leg = l, !.at = "cancel"])
  /\ UNCHANGED <<booking, tx, gateway, invoice, jobs, notice>>

\* B2CService.cancelBooking: the guest, until 48 hours before the trip.
GuestCancel(r, l) ==
  /\ booking[l].status \in {"CONFIRMED", "CONVERTED"} /\ notice[l] = 2
  /\ Admit(r, [Idle EXCEPT !.op = "guestCancel", !.leg = l, !.at = "cancel",
                           !.job = booking[l].job])
  /\ UNCHANGED <<booking, tx, gateway, invoice, jobs, notice>>

\* A slip: the guest's cancellation forgets the job.
CancelRowOnly(r) ==
  /\ At(r, "cancel")
  /\ booking' = [booking EXCEPT ![req[r].leg].status = "CANCELLED"]
  /\ Ends(r)
  /\ UNCHANGED <<tx, money, invoice, jobs, notice>>

CancelRow(r) ==
  /\ At(r, "cancel")
  /\ booking' = [booking EXCEPT ![req[r].leg].status = "CANCELLED"]
  /\ IF req[r].job # 0 THEN Goes(r, "stopJob") ELSE Ends(r)
  /\ UNCHANGED <<tx, money, invoice, jobs, notice>>

StopJob(r) ==
  /\ At(r, "stopJob")
  /\ jobs' = [jobs EXCEPT ![req[r].job].status = "CANCELLED"]
  /\ Ends(r)
  /\ UNCHANGED <<booking, tx, money, invoice, notice>>

\* B2CService.amendBooking: until 24 hours before the trip.
AmendBooking(r, l, d) ==
  /\ booking[l].status \in {"CONFIRMED", "CONVERTED"} /\ notice[l] >= 1
  /\ Admit(r, [Idle EXCEPT !.op = "amend", !.leg = l, !.at = "amend",
                           !.date = d, !.job = booking[l].job])
  /\ UNCHANGED <<booking, tx, gateway, invoice, jobs, notice>>

\* A slip: the amendment forgets the job.
AmendRowOnly(r) ==
  /\ At(r, "amend")
  /\ LET q == req[r] IN
       /\ booking' = [booking EXCEPT ![q.leg].date = q.date]
       /\ \E n \in 0..2 : notice' = [notice EXCEPT ![q.leg] = n]
  /\ Ends(r)
  /\ UNCHANGED <<tx, money, invoice, jobs>>

\* The trip may come closer or move away.
AmendRow(r) ==
  /\ At(r, "amend")
  /\ LET q == req[r] IN
       /\ booking' = [booking EXCEPT ![q.leg].date = q.date]
       /\ \E n \in 0..2 : notice' = [notice EXCEPT ![q.leg] = n]
       /\ IF q.job # 0 THEN Goes(r, "moveJob") ELSE Ends(r)
  /\ UNCHANGED <<tx, money, invoice, jobs>>

MoveJob(r) ==
  /\ At(r, "moveJob")
  /\ jobs' = [jobs EXCEPT ![req[r].job].date = req[r].date]
  /\ Ends(r)
  /\ UNCHANGED <<booking, tx, money, invoice, notice>>

-----------------------------------------------------------------------------
(***************************************************************************)
(* Time and crashes, and the whole.                                        *)
(***************************************************************************)
Tick(l) ==
  /\ "clock" \in Ops /\ notice[l] > 0
  /\ notice' = [notice EXCEPT ![l] = @ - 1]
  /\ UNCHANGED <<booking, grouped, tx, gateway, invoice, jobs, req, history>>

\* The process dies with the requests in flight; nothing of them is undone.
\* A conversion that dies leaves nothing, being one transaction.
Crash ==
  /\ "crash" \in Ops /\ crashes < MaxCrashes
  /\ \E r \in Requests : req[r] # Idle
  /\ req' = [r \in Requests |-> Idle]
  /\ torn' = torn \cup UNION {Touches(req[r]) : r \in Requests}
  /\ crashes' = crashes + 1
  /\ UNCHANGED <<booking, grouped, tx, gateway, invoice, jobs, notice>>

Admission(r) ==
  \/ OfficeJob(r)
  \/ \E s \in Sessions : StripeWebhook(r, s) \/ GetPayInCallback(r, s)
  \/ \E l \in Legs :
       \/ \E s \in Sessions : OpenSession(r, l, s)
       \/ PartnerJob(r, l)
       \/ ConvertToJob(r, l)
       \/ AdminCancel(r, l)
       \/ GuestCancel(r, l)
       \/ \E d \in Schedules : AmendBooking(r, l, d)

Proceed(r) ==
  \/ StoreSession(r)
  \/ SettleTransaction(r)
  \/ SettleBooking(r)
  \/ MirrorLegs(r)
  \/ FlagJob(r)
  \/ ReadForInvoice(r)
  \/ NextNumber(r)
  \/ InsertInvoice(r)
  \/ CreateBooking(r)
  \/ PartnerConverts(r)
  \/ GenerateInternalRef(r)
  \/ CreateJob(r)
  \/ CancelRow(r)
  \/ StopJob(r)
  \/ AmendRow(r)
  \/ MoveJob(r)

Next ==
  \/ \E s \in Sessions : Capture(s) \/ Refuse(s)
  \/ \E l \in Legs : Tick(l)
  \/ \E r \in Requests : Admission(r) \/ Proceed(r)
  \/ Crash

Spec == Init /\ [][Next]_vars

\* The server carries on what it accepted, and Stripe repeats a completed
\* session until it is answered: its call gets through whenever slots are free
\* again and again.
FairSpec ==
  /\ Spec
  /\ \A r \in Requests : WF_vars(Proceed(r))
  /\ \A s \in StripeSessions :
       SF_vars(s \notin acked /\ \E r \in Requests : StripeWebhook(r, s))

-----------------------------------------------------------------------------
(***************************************************************************)
(* Properties.                                                             *)
(***************************************************************************)
Covers(s) == IF tx[s].leg = NoLeg THEN {} ELSE Family(tx[s].leg)

\* Refinement: the handlers, their repeats and their crashes implement
\* PaymentLedger.
Ledger == INSTANCE PaymentLedger WITH
  Reliable <- StripeSessions,
  covers   <- [s \in Sessions |-> Covers(s)],
  captured <- {s \in Sessions : money[s] = "captured"},
  refused  <- {s \in Sessions : money[s] = "declined"},
  paid     <- {l \in Legs : booking[l].payment = "PAID"}

LedgerSpec     == Ledger!Spec
CapturesSettle == Ledger!CapturesSettle

\* A leg that reads PAID, and an invoice that does, have money behind them,
\* whatever callbacks were repeated, refused or cut short.
PaidIsBacked ==
  \A l \in Legs :
    booking[l].payment = "PAID" \/ invoice[l].status = "PAID" =>
      \E s \in Sessions : money[s] = "captured" /\ l \in Covers(s)

\* A leg nobody is working on whose requests never overlapped nor died.
Calm(l) == l \notin torn /\ \A r \in Requests : l \notin Touches(req[r])

\* A late refusal undoes a payment only when it was already being processed as
\* the payment came in: afterwards every repeat is ignored.
PaidStays ==
  [][\A l \in Legs : booking[l].payment = "PAID" /\ l \notin torn
                       => booking'[l].payment = "PAID"]_vars

\* The legs of a return trip agree on what was paid.
LegsAgree ==
  grouped => \A l, m \in Legs :
    Calm(l) /\ Calm(m) => booking[l].payment = booking[m].payment

\* A settled payment has its invoice, and the invoice reads PAID, although
\* other bookings take their numbers from the same sequence at the same time.
Invoiced ==
  \A s \in Sessions :
    tx[s].status = "PAID" /\ Calm(tx[s].leg) =>
      invoice[tx[s].leg].status = "PAID"

\* The driver is told to collect only from a guest who chose to pay on
\* arrival, or one of whose online payments was refused.
CashHasReason ==
  \A n \in Created :
    jobs[n].collect =>
      \/ booking[jobs[n].leg].method = "PAY_ON_ARRIVAL"
      \/ \E s \in Sessions : money[s] = "declined" /\ tx[s].leg = jobs[n].leg

\* A booking is linked to the last job made for it, also when two conversions
\* overlapped.
NewestLinked ==
  \A l \in Legs :
    LET own == {n \in Created : jobs[n].leg = l}
    IN  booking[l].job = IF own = {} THEN 0 ELSE Highest(own)

\* Without overlap a booking has at most one job: a repeated partner call
\* finds it.
OneJob ==
  \A l \in Legs \ torn : Cardinality({n \in Created : jobs[n].leg = l}) <= 1

\* A cancelled booking sends no driver, and one that is not keeps its job.
CancelReachesJob ==
  \A l \in Legs : Calm(l) /\ booking[l].job # 0 =>
    (booking[l].status = "CANCELLED") = (jobs[booking[l].job].status = "CANCELLED")

\* The driver goes when the guest last said.
AmendReachesJob ==
  \A l \in Legs : Calm(l) /\ booking[l].job # 0 =>
    jobs[booking[l].job].date = booking[l].date

-----------------------------------------------------------------------------
(***************************************************************************)
(* What comments of the source say and the code does not keep.             *)
(***************************************************************************)
\* "using the same pattern as traffic-jobs service".
SamePattern == TextRef(Created) = OfficeRef(Created)
=============================================================================
