# A verification of the transport system iTourTT

This directory holds TLA+ modules that model the core of the repository: the
back end (`src/backend`, NestJS over PostgreSQL through Prisma) and the API
clients of website and mobile apps. TLC configurations model-check them on small
instances, and theorems about them have proofs checked by TLAPS. `PROJECT.json`
maps each definition to the lines it models and lists components, runs, hazards,
findings and theorems.

To reproduce, in this directory:

    tlc -workers 2 -config Portals.cfg JobLifecycleMC    # any of the runs
    tlapm JobSafetyProofs.tla                           # any of the proofs

## 1. The system

Transport jobs (an airport arrival, a departure, a city transfer) are booked by
agents, guests or staff, dispatched to a car, a driver and a rep, reported by
driver and rep from their portals, paid per job, and invoiced. Everything on the
server runs in one NestJS application deployed with several replicas over one
PostgreSQL database. Each HTTP request is one handler, and the handlers share
nothing but the database: interaction between components is by rows. The pattern
of almost every handler is the same and is the source of nearly every hazard:

1. read the rows, outside any transaction;
2. check role, ownership, status, time and location against what was read, with
   further queries in between;
3. write by primary key, seldom inside the same transaction as the reads and
   seldom with what was checked repeated in the `where` clause.

PostgreSQL runs at its default level, READ COMMITTED.

### Inventory

| Component (under `src/backend/src` unless said otherwise) | State | Operations | Talks to | Correct when |
|---|---|---|---|---|
| Job completion, `common/services/job-completion` | none of its own: `traffic_jobs.status`, the two legs, `driver_trip_fees`, `rep_fees` | `reconcileJobStatus`, inside its caller's transaction | called by both portals and force control | the job closes when its assigned legs are COMPLETED, pays once, and leaves CANCELLED and NO_SHOW jobs alone |
| Driver portal | `driver_status`, collection flag, evidence, logs | status PATCH, in progress, completed, no-show, collected | roll-up, job locks | a driver moves their own leg along the table of moves, in time, money first |
| Rep portal | `rep_status`, evidence, survey, rep fee, flight time | status PATCH, in place, completed, no-show, guest survey, flight delay | roll-up, job locks, fees | likewise for the rep; terminal legs are final |
| Supplier auto-complete cron | `cron_run_locks`, legs of supplier cars | midnight run | assignments | supplier legs of past jobs close, once, whatever pods die |
| Job locks | six `*_unlocked_at` columns | unlock, lock, list | read by portals and dispatch | a portal is shut 48 hours after the job date unless lifted |
| Dispatch | the assignment row, job status | assign, reassign, unassign | jobs, portals | legs start again with a new person; worked assignments stay; passengers have seats, reps are in one place, a car booked twice is warned about |
| Traffic jobs | the job row | create, update, bulk create, status, force control, remove, fee backfill, evidence upload | everything | transitions follow the table; a completed job is paid and kept |
| Guest and B2C bookings | `guest_bookings`, groups and return legs | create, amend, cancel, convert | jobs, payments | a booking becomes at most one job; cancellations and amendments reach it |
| Payments | `payment_transactions`, booking payment status | session, three kinds of callback, cash fall-back | bookings, jobs, invoices | PAID has money behind it and stays, on both legs alike |
| B2C invoices | invoice numbers | issue with retries | payments | a paid booking has its invoice |
| Partner API | none of its own | quote, create job, look up | bookings, jobs | a repeated call makes no second job |
| Finance | agent and customer invoices, lines, payments, collections | create, post, cancel, edit lines, pay, liquidate | jobs | payments never exceed an invoice; only drafts change |
| Invoice scheduler | agents' cycles | nightly, on each pod | finance | a job is billed once |
| Auth and sessions | refresh tokens, user sessions, two-factor challenges | login, verify, refresh, logout, reset, force logout | every request | one live device per user; an ended session stays out |
| API clients, `src/frontend/src/lib/api.ts`, `src/mobile/packages/shared/src/api` | stored tokens, `isRefreshing`, the queue of waiting calls | send, refresh, release the queue, sign in and out | auth | an expired token goes unnoticed; no call waits for ever |
| WhatsApp notifications | log of sent messages | triggers and a minute cron, on each pod | jobs | one message per job and trigger, logged as it was sent |
| Supplier portal | supplier status | accept, complete | assignments | only the supplier's own jobs |
| Reports | rep scores and fees | read-only, `upsertRepScore` | rep fees | one fee per rep and job |
| Permissions | a five-minute cache per pod | read, change | every request | a change takes effect |
| Prices, extras, tariffs | price tables | look-ups | bookings, fees | arithmetic |
| No-show disputes, notifications, push, e-mail, users, master data, import/export, AI parsing, Drive, settings, logs | single rows or none | CRUD or output | | no protocol |
| Web pages and mobile screens | form state | rendering, translation | API clients | the server checks everything again |

Everything in the table is a `components` entry of `PROJECT.json` with its
status.

### What is hard here

- *Interleaving*: driver and rep report the last legs at once; office, dispatch
  and cron write the same two rows by id; callbacks, amendments, cancellations
  and conversions of one booking overlap statement by statement.
- *Stale reads*: every admission check is made on a read the write does not
  repeat.
- *Opposite lock orders*: portals lock the assignment and then the job, the
  office the job and then the assignment.
- *Look, then insert*: both fee tables, WhatsApp sending, billing, references.
- *Partial failure*: unique evidence rows abort a transaction that has already
  rolled the job up; a payment callback updates five tables without one; a login
  writes the user's row and the session log separately.
- *Delivery*: payment callbacks arrive twice, late, in any order, and partner
  calls are repeated until answered.
- *Replicas*: crons run in each replica, only one of them with a run lock.
- *Waiting*: requests wait for row locks, API calls for a token refresh.

The hazards are listed one by one, with their lines, in `PROJECT.json`.

## 2. What is modelled

| Module | Models | Properties are checked by |
|---|---|---|
| `JobStatuses` | status enums, tables of moves, the pure rules of the roll-up | (used by `JobLifecycle`) |
| `JobLifecycle` | the life of one traffic job: every handler that writes its row, its assignment or its fees | `Portals`, `Office`, `Dispatch`, `Supplier` |
| `PaymentLedger` | abstract: sessions, captured money, paid legs | through `BookingPayment` |
| `BookingPayment` | bookings from checkout to job: payments, invoices, conversion, partner API, cancellation, amendment | `Payments`, `Bookings`, `RefOrder` |
| `Invoicing` | agent and customer invoices, the nightly cycle | `Invoicing` |
| `Sessions` | single-device sessions of reps and drivers | `Sessions` |
| `SupplierNight`, `WhatsappLog`, composed by `Replicas` | the timers of several pods | `Replicas` |
| `Dispatching` | the dispatch board over several jobs | `Board` |
| `ApiClient` | token refresh in website and apps | `Clients` |

`...MC` modules name the instances the runs need (groups of operations, sets of
times, symmetry); `...Proofs` modules hold the theorems. The modules meet in the
rows they share: a job created by `BookingPayment` is the PENDING job
`JobLifecycle` starts from; a leg `SupplierNight` closes is the cron's request that `JobLifecycle` mixes with
everybody else's; `Dispatching` keeps of that one job only whether it needs its people,
and looks at several; an ended session of `Sessions` is the `displaced` answer
of `ApiClient`. They are composed only where a property needs both: payments
with bookings and jobs, and the two timers with the pods that die under both.

### Requests as slots

All modules use one form. `req` maps slots to requests in flight; a request names
its next statement in `at` and carries the handler's local variables. A handler is
an **admission** (its first reads, its guards, early returns, and what it will
write) and one step per later statement, or per transaction that reads nothing
after its first write. Any number of other steps may come between. The process may
die between any two, which drops requests and keeps rows.

Where the code keeps its word only if requests do not overlap, a history variable
records the overlap and the property names it: `torn` in `BookingPayment` and
`Sessions`, `stale` in `Invoicing` (which write overtook which), `unsure` in
`Dispatching`, `doubtful` in `WhatsappLog`, `late` in `ApiClient`. No guard ever
reads a history variable, except where a bound is stated on it. A property of this
form says that the named overlap is the *only* way to break the rule, in every
interleaving of everything else.

An operator introduced by "A slip:" is a mutant: a definition as a plausible
mistake would have it. No specification uses it; `PROJECT.json` pairs each
property with the slip that it notices.

### JobLifecycle

| Variable | In the code |
|---|---|
| `job` | the `traffic_jobs` row: status, soft deletion, service type, whether its route is known (a trip fee can be priced) and its collection flags |
| `asg` | the `traffic_assignments` row (`job_id` is unique): people, car side, both legs, and `logged`: a `status_change_logs` row refers to it |
| `lastId` | primary keys handed out: a request that read an assignment which was since replaced addresses a row that is gone |
| `driverFees`, `repFees` | rows of the two fee tables, per person |
| `evidence` | kind and submitter of evidence rows (unique per job, kind and submitter) |
| `phase`, `day`, `unlocked` | the clock as the handlers compare it, and the lifted portal locks |
| `req` | per slot, the handler in flight: what it read and what it will write |
| `lock` | who holds the row lock of the job and of the assignment |

A transaction that reads nothing after its first write shows at once when it
commits, and is one step (`WriteLeg`, `WriteNoShow`, `WriteReassignment`, ...);
merging its lock requests into the commit loses only waiting. The three
transactions that read between their writes are split where they take a lock,
since what they read may be stale when they commit:

- callers of `reconcileJobStatus`: `Reconcile` (leg written, job and fees read,
  assignment locked), then `Settle` (everything else, job row included);
- the office's terminal status: `OfficeTakesJob` (job locked, assignment read),
  `OfficeTakesLegs` (assignment locked, fees read), then `Settle`;
- the guest survey: `SurveyLooks`, then `WriteSurvey`.

Uncommitted writes are invisible to others, so rows change in the last step
only. `Abort` is a database error (the row is gone, unique or foreign key
violated), or the victim of a deadlock; `Crash` is a process that dies: both
leave the rows as they were and free the locks. `SELECT`s take no lock; the
share locks that foreign keys take on the referenced rows do not conflict with
updates of other columns and are left out, except where a reference refuses the
delete of an assignment (`Refused`, `WriteUnassignment`).

Abstractions: people and slots are model values; a car is one of the sides the
dispatch handler distinguishes (own, supplier's, cleared, a bare supplier tag).
The clock is relative to the job: `phase` holds the four instants the handlers
compare with (10 minutes before, the job time, 15 and 80 minutes after), `day` the
Cairo midnight and the 48 hours; `Delays` bounds where a corrected flight time may
put the clock. A job is assumed to have its time; the code skips the window checks
of one that has none. Fee amounts are not modelled: the properties ask how many
fees. Geofence, uploads, permissions and the dispatcher's 48-hour lock only refuse
requests; accepting more is on the safe side for safety properties. One backfill
request stands for the iteration of `recalculateDriverFees` that concerns this
job, one cron request for the iteration of the nightly run.

### BookingPayment and PaymentLedger

| Variable | In the code |
|---|---|
| `booking`, `grouped` | `guest_bookings` rows: status, payment status, method, date, the linked job; whether the legs share a `groupRef` |
| `tx` | `payment_transactions` rows, by session |
| `money`, `acked` | outside: what the gateway has done with a session, and the Stripe sessions whose webhook was answered |
| `invoice` | `b2c_invoices` rows (number and booking both unique) |
| `jobs` | `traffic_jobs` rows, by the number in `internal_ref` |
| `notice` | whether the trip is 48 hours, 24 hours, or less away |

A callback is `SettleTransaction`, `SettleBooking`, `MirrorLegs` (return trips),
then either the invoice (`ReadForInvoice`, `NextNumber`, `InsertInvoice` with its
retries) or the cash fall-back `FlagJob`, or nothing; each is a statement of its
own, as in the code. Stripe's webhook comes again until it has been answered;
GetPayIn's result comes any number of times, by webhook and by the browser, and is
ignored once the booking reads PAID. Conversion is `ConvertToJob` or the partner's
`PartnerJob`, `CreateBooking`, `PartnerConverts`, then `GenerateInternalRef` and
the one transaction there is, `CreateJob`. The guest's cancellation and amendment
write the booking and then the job they had read before (`CancelRow`/`StopJob`,
`AmendRow`/`MoveJob`). `OfficeJob` draws from the same references. All references
are assumed to have the same prefix: guest bookings always say ITT,
the office the company's abbreviation.

`PaymentLedger` says what a guest may rely on without knowing of requests:
sessions are opened for legs, money is captured or refused once, a leg comes to
read PAID only through a capture that covers it, and ceases to only through a
refusal that covers it. `Ledger == INSTANCE PaymentLedger WITH ...` maps a
transaction row to the legs it `Covers` and the gateway's side to `captured` and
`refused`; `LedgerSpec` is a property of `Payments` and the theorem
`ImplementsLedger`. The ledger's liveness, `CapturesSettle`, holds for Stripe only:
nothing in the code asks GetPayIn again for a result that was lost.

### Invoicing

`invoice` holds `agent_invoices` rows with their lines and the sum of their
payments; every line costs one unit, so that totals count lines. Three billers
(`CreateInvoice` with the credit check, `CycleInvoice` on every replica,
`CustomerInvoices` with its tip invoice), the edit of a draft's lines
(`EditLines`, `DeleteLines`, `WriteLines`: at READ COMMITTED the delete sees the
lines committed when it starts), posting and cancelling (`ChangeStatus`,
`WriteStatus`) and payments (`Pay`, `WritePayment`). Each reads and checks in one
step and writes unconditionally in a later one; `since` collects what others wrote
in between, and a write that was overtaken leaves `<<invoice, its kind, the other
kind>>` in `stale`. Which pairs break which rule is what the properties say.

### Sessions

`user` is the user's row (session id, whether a refresh token is stored), `log`
the `user_sessions` rows, `holds` the session in each device's tokens. `Login`
(blocked while a session is active) and `VerifyTwoFactor` write the row, then the
log; `Refresh` reads the session id and writes it back in `Rotate`; `Logout`,
`ForceLogout` and clearing end the log entry and then the row, the admin's only
where the row still names that session (`Match`); `ResetPassword` is one
statement. `Use` is an authenticated request: it refreshes the log's time stamp,
`GoesIdle` is the idle window that passes. Passwords and codes are taken to be
right.

### SupplierNight, WhatsappLog, Replicas

`SupplierNight`: at midnight every pod tries to insert the claim row; the one that
gets it lists all open supplier legs of past jobs and closes one per transaction,
any of which may fail. `WhatsappLog`: a trigger or the minute timer looks for a
SENT entry, asks Twilio, and logs the outcome; the answer may be lost, and the
log write may fail. `Replicas` runs both in the same pods, which die with the work
of both and come back.

### Dispatching

`job` and `asg` hold several jobs with passengers, time, flight, and their car and
rep. `assignJob` and `reassignJob` compare seats with what they read, look for a
rep's other jobs before they write (`CheckRep`) and for a car's only afterwards, to
warn (`Warn`); `update` looks at the assigned car's seats (`CheckSeats`) and then
writes; `submitFlightDelay` moves a job; `ForceStatus` cancels and reopens. A
driver is looked up and warned about exactly as a car is, a supplier's car has its
seats counted and nothing else; neither is modelled a second time. `news` is what
others have committed that a request does not know, and `unsure` names the jobs a
rule was last followed for on outdated rows, or which have moved since.

### ApiClient

One page of the website or one app. Code between two `await`s is one step. `store`
is the stored pair of tokens by number; `expired` and `displaced` say up to which
number the server refuses tokens, and why. `Send`, `Serve`, `Queue`, `Refresh`,
`RefreshAnswer`, `Release` and `RefreshFails` are the interceptor's branches;
`Cleared` is the apps' `await` of their storage after a failed refresh. Sign-in
and sign-out, here or on another page, come at any time.

## 3. Runs

`CHECK_DEADLOCK FALSE` is set throughout because these systems really come to
rest: a deleted job, a settled invoice or an idle page accepts nothing more, nobody
has to send a request, and the bounds run out. That no *request* is left hanging
is checked as liveness where waiting exists (`RequestsEnd`, `CallsEnd`,
`CapturesSettle`, `PastLegsClose`).

| Run | Instance | Checks | Shows |
|---|---|---|---|
| `Portals` | all portal operations and the survey, the clock from 15 minutes after the job time to past the no-show window, day 1 to 2, flight corrections back to before it; ARR and DEP with money to collect; 2 slots | `LegsSettle`, `CompletedIsPaid`, `ParkedStays` | two portals reporting at once always close and pay the job; no-shows are final; lateness and the survey do not change that |
| `Office` | status endpoint, removal, unassign and re-assign, crashes, both portals; 2 slots, 2 assignments; `FairSpec` | `CompletedIsPaid`, `FeesOnce`, `RequestsEnd` | completion by office, legs, or both at once pays exactly once, deadlocks and crashes included, and every accepted request ends |
| `Dispatch` | reassignment between two reps, forced legs, cancellation, unassign, lifted locks; DEP; 2 slots | `LegsSettle`, `ParkedStays` | moving people under way strands no job, cancellations stay |
| `Supplier` | supplier cars and tags, releases, forced job status, fee backfill, midnight cron; 2 slots | `TypeOK`, `WorkPinsAssignment` | a worked assignment stays even with the operations that never reconcile |
| `Payments` | a return trip or two bookings, a Stripe and a GetPayIn session, conversion, one crash; 2 slots; `FairSpec` | `PaidIsBacked`, `LegsAgree`, `Invoiced`, `CashHasReason`, `PaidStays`, `LedgerSpec`, `CapturesSettle` | repeated, late, racing and cut-short callbacks leave PAID backed by money, on both legs, invoiced, for good; captured money is booked |
| `Bookings` | one booking, office and retried partner conversion, cancellation and amendment by guest and office, office jobs on the same references, one Stripe session, one crash; up to 3 jobs | `NewestLinked`, `OneJob`, `CancelReachesJob`, `AmendReachesJob` | a booking knows its newest job; calm changes reach the job |
| `Sessions` | two devices, two session ids, all operations, one crash; 2 slots | `RevokedStaysOut`, `LiveIsListed`, `OwnEndOnly` | an ended session stays out, the live one is listed, nobody ends another's |
| `Invoicing` | two jobs, two invoices of any kind, credit 2, one edit, crashes; 2 slots | `PaidIsCovered`, `SettledExactly`, `TotalIsLines`, `CycleBillsOnce`, `WithinCredit`, `Immutable` | which overlaps spoil an invoice, and that no others do |
| `Replicas` | two pods, two legs, one message, two faults | `ClosedOnce`, `SentOnce`, `SentIsTrue`, `PastLegsClose` | the night's work is done once, or by a later night; a message is sent once and logged truly |
| `Board` | two jobs, a one-seat van, one rep, three time/flight pairs; 2 slots, 4 calls | `SeatsEnough`, `RepNotTwice`, `DoubleBookingWarned` | seats, reps and warnings hold unless rows moved in between |
| `Clients` | website and app, two calls, up to three token pairs | `NobodyStranded`, `ExpiryUnnoticed`, `CallsEnd` | an expiry goes unnoticed and every call ends |
| `RefOrder` | references roll over at 3 instead of 10000 | `SamePattern` (violated) | the finding below |

### The properties

- `LegsSettle`: a job whose assigned legs are all COMPLETED is closed. Two legs
  reported at once are safe only because both callers update the same assignment
  row before the roll-up reads it, so that the second sees the first.
- `CompletedIsPaid`: a COMPLETED job has a fee for its driver (route known) and,
  on arrivals, its rep. `FeesOnce`: no second automatic fee for the same person
  and job (a fee that finance enters by hand is made on purpose).
- `ParkedStays`: CANCELLED and NO_SHOW never become COMPLETED. The roll-up reads
  the job status without a lock and writes it unconditionally; the portals' and
  the office's own closures are safe because they need the assignment lock the
  roll-up holds.
- `WorkPinsAssignment`: once worked, an assignment is not unassigned; the code has
  no check for it, the restricting foreign key of the log does the work.
- `PaidIsBacked`, `LegsAgree`, `Invoiced`, `CashHasReason`, `PaidStays`: PAID, the
  other leg, the invoice and the driver's cash flag agree with the gateway's money,
  `LegsAgree`, `Invoiced` and `PaidStays` unless requests overlapped on the leg
  or died (`torn`). `CapturesSettle` states that a Stripe payment whose processing
  died is booked by a repeat.
- `NewestLinked` holds with every overlap, `OneJob`, `CancelReachesJob` and
  `AmendReachesJob` only without: two conversions of one booking make two jobs.
- `RevokedStaysOut`, `LiveIsListed`, `OwnEndOnly`: except for a session whose own
  write was in flight as it was ended, or was cut short.
- `PaidIsCovered`, `SettledExactly`, `TotalIsLines`, `Immutable`,
  `CycleBillsOnce`, `WithinCredit`: each lists, by kind, the overtaken writes that
  break it.
- `ClosedOnce` needs no exception: the unique claim is enough. `SentOnce` excuses
  two pods that sent at the same moment, and an outcome that never reached the log.
- `SeatsEnough`, `RepNotTwice`, `DoubleBookingWarned`: unless the rule was last
  followed on outdated rows. For cars the warning is looked up *after* the write,
  so that of two dispatchers booking one car at once the second is warned.
- `NobodyStranded`, `CallsEnd`, `ExpiryUnnoticed`: a waiting call has a refresh to
  wait for; a call is refused only if a refresh failed, the session ended, or
  tokens expired twice.

### Bounds, and why they are enough

Two slots give every pair of handlers, and a handler's read and write can be
separated by any number of complete requests in the other slot, so every race of
two requests, at any point of a row's life, is explored. The code's locks are on
two rows, and a cycle of waiting needs two requests. One driver is enough where
nobody is replaced; `Dispatch` has two reps for replacement. Two assignments
(`Office`) are enough for a request that addresses the earlier of two rows; three
jobs (`Bookings`) for two of one booking and one of the office's. Operations are
divided among the runs because all of them at once is beyond a few minutes; what a
run leaves out on purpose is described below as breaking its property.

`Invoicing` allows one edit (`MaxEdits`), so two overlapping edits never happen in
the run; `TotalIsLines` names that overlap for the theorem, which has no such
bound. `MaxStale` stops a behaviour after one overtaken write: what a second would
do to an invoice the first has spoiled is no longer the question. `Board`'s four
calls (`MaxCalls`) suffice to assign two jobs and change two things under them;
the theorems are for any number. Two `Faults` (`Replicas`) let the pod that
claimed a night and its successor's die. Three token pairs (`Clients`) are two
refreshes, one more than a call may wait for. Where theorems exist they cover
every value of these bounds.

Slots are interchangeable and no property distinguishes them; symmetry is used in
the runs without liveness properties.

### Fairness

- `JobLifecycle.FairSpec`: strong fairness of `Proceed(r)`, the continuation of an
  accepted request. PostgreSQL grants row locks in the order they are asked for,
  so a request waiting for a row that becomes free again and again gets it; a
  deadlocked one is chosen as victim or released.
- `BookingPayment.FairSpec`: weak fairness of `Proceed(r)` (nothing waits for
  locks), and strong fairness of Stripe's call for a session not yet answered:
  Stripe keeps repeating, and gets through when slots are free again and again.
- `Replicas`: weak fairness of the timer and of each pod's own night work; faults
  are finitely many. Nothing is assumed of messages.
- `ApiClient`: weak fairness of `Proceed(r)`: an answer, or an error, arrives for
  what was sent, and callbacks run.

No fairness is assumed of users, of the clock, of admins or of crashes.

### Findings

`RefOrder`: `guest-bookings.service.ts:335` takes the last reference by sorting
text, although line 118 says "using the same pattern as traffic-jobs service",
whose own comment (`traffic-jobs.service.ts:832-834`) explains why it must not: past
9999 it returns the same number for ever. The unique key then refuses every further
conversion. Invoice numbers are drawn the same way and merely run out of retries.

The models also contain the following, each reachable but kept without a run of its
own because it says what the pattern of section 1 says. First, what a comment or an
error message promises and a stale check does not keep:

- "Job not found or not assigned to you": after a reassignment, the old driver's
  request, admitted before, moves the new driver's leg
  (`driver-portal.service.ts:252`).
- Own drivers and parked jobs "are never touched" by the cron: it completes by id
  a leg given to an own driver, or cancelled, after it was listed
  (`supplier-auto-complete.service.ts:6` and 26, the write at 82).
- A parked job "is never auto-flipped to COMPLETED"
  (`job-completion.service.ts:7`, the write at 92): force control cancels between the roll-up's
  read and its write; it updates only the job row.
- The roll-up is "idempotent by design" (`job-completion.service.ts:35`); yet guest
  survey and roll-up both miss the rep's fee, under different locks, and both
  create it.
- Jobs "stranded at ASSIGNED - with both legs COMPLETED" are what the roll-up was
  written to remove (`job-completion.service.ts:31-33`): releasing the driver after the rep has
  finished leaves exactly that (`dispatch.service.ts:618`).
- "Collection must be marked as collected before completing the job"
  (`driver-portal.service.ts:463`): the generic status PATCH (line 252) completes
  without that check.
- `createJob` of the partner API, "Idempotent on b2cBookingRef"
  (`partner.service.ts:111`), looks first and creates later.
- Permissions take "effect now" (`permissions.service.ts:167-168`) on the pod that
  made the change; others keep theirs for five minutes.
- A login is "blocked (409) while another device has an active session"
  (`auth.service.ts:50-51`); the second step of a two-factor login does not look.
- `detectAssignmentConflicts` warns of "another active job"; `assignJob` passes no
  row to leave out and is warned of the job it has just assigned, unless that has
  a flight.

Second, overlaps the properties excuse by name: an assignment overwrites a
cancellation, a rep's no-show the leg the rep has just completed, a removal a job
completed meanwhile; two backfills pay a driver twice; a refused payment sets the
driver to collect cash although another session is paid later
(`payments.service.ts:367`); two payments overpay an invoice, an edit changes one
just posted, two replicas bill one cycle twice or exceed the credit; two pods send
one message; in the apps, a call that queues while the storage of a failed refresh
is emptied (`client.ts:100`) waits for ever.

## 4. Proofs

The proof modules prove theorems of `Spec` for **every** value of the constants
that satisfies `Constants`: any number of people, rows, requests in flight and
crashes, any set of operations, and no bound of section 3.

| Theorem | States | Assumes | Inductive invariant |
|---|---|---|---|
| `TypeCorrect` (`JobLifecycleProofs`) | `[]TypeOK` | | `TypeInv` |
| `LocksDisciplined` (`JobSafetyProofs`) | `[]LockInv` | | `TypeInv`, `LockInv` |
| `WorkedStays` | `WorkPinsAssignment` | | the same two |
| `PaidOnce` | `[]FeesOnce` | `LooksUnderLock`: neither backfill nor survey | and `FeeInv` |
| `ParkedIsLeftAlone` | `ParkedStays` | `OnlyRollUpsComplete`: no forced job status, no office completion | and `ParkInv` |
| `JobsSettle` (`JobSafetyProofs`) | `[]LegsSettle` | `LegsOnlyRollUp`: no release, forced job status or cron, and an office that only closes jobs | and `SettleInv` |
| `EverybodyIsPaid` | `[]CompletedIsPaid` | `NobodyReplaced`: no reassignment, release or forced job status | and `CompleteInv` |
| `PaidHasMoney`, `CollectsWithReason` (`BookingPaymentProofs`) | `[]PaidIsBacked`, `[]CashHasReason` | | its `IInv` (`Inductive`) |
| `ImplementsLedger` | `LedgerSpec` | | the same |
| `LinksToNewest` | `[]NewestLinked` | | and `Numbered` |
| `HasOneJob`, `CancellationArrives`, `AmendmentArrives` | `[]OneJob`, `[]CancelReachesJob`, `[]AmendReachesJob` | | and `JobInv` (`Undisturbed`) |
| `PaymentsStay`, `TripsAgree` | `PaidStays`, `[]LegsAgree` | | and `PayInv` (`PaymentsInOrder`) |
| `ReceiptsArrive` | `[]Invoiced` | `FewBookings`: no more bookings than attempts to find an invoice number, and fewer than `Rollover` | and `CountInv`, `BillInv` |
| `NeverReturns`, `AlwaysListed`, `SignedOutByOwnEnd` (`SessionsProofs`) | `[]RevokedStaysOut`, `[]LiveIsListed`, `OwnEndOnly` | | its `IInv` |
| `PaidAreCovered`, `SettledWhenPaid`, `TotalsAgree`, `NightsBillOnce`, `PostedIsImmutable` (`InvoicingProofs`) | the properties of the same sense | | its `IInv` |
| `BilledWithinCredit` | `[]WithinCredit` | | and `CreditInv` |
| `ClosesOnce`, `SendsOnce`, `LogIsTrue` (`ReplicasProofs`) | `[]ClosedOnce`, `[]SentOnce`, `[]SentIsTrue` | | its `IInv` |
| `PassengersSit`, `RepsAreFree`, `SomebodyIsTold` (`DispatchingProofs`) | `[]SeatsEnough`, `[]RepNotTwice`, `[]DoubleBookingWarned` | | its `IInv` |
| `NobodyWaitsInVain`, `NobodyNotices` (`ApiClientProofs`) | `[]NobodyStranded`, `[]ExpiryUnnoticed` | | its `IInv` (`Inductive`) |

Why each invariant is needed:

- `TypeInv` strengthens `TypeOK` with what a slot holds for each kind of request
  (`Sane`): a fee is created for somebody, a leg request names an assignment,
  evidence has a submitter.
- `LockInv`: only requests that settle a job hold locks across steps, in their
  own order, and what they locked exists: the row a holder of the assignment's lock
  decided upon is still there when it commits.
- `FeeInv`: whoever has decided to pay holds the assignment's lock and found no
  fee, hence nobody else can be about to pay the same person. Backfill and survey
  decide under no such lock, and the assumption cannot be dropped.
- `ParkInv`: while a roll-up is about to write COMPLETED, the job is not parked:
  whoever parks it has to lock the assignment first, or parked it before the
  roll-up read it. Force control parks without the assignment's lock, and the
  office's own completion holds only the job.
- `SettleInv`: `LegsSettle` with what requests in flight may still assume:
  `SeenInv`, that a reassignment (which opens a leg only if the person differs from
  the one it *saw*) never turns an assigned leg into nobody's, and `DecidedInv`,
  that a roll-up holding its lock still describes the rows. An office status of
  IN_PROGRESS is left out because it can overwrite, after a stale read, the
  COMPLETED a roll-up has just written.
- `BookingPayment`: `Sound(q)`, what a request carries is true of the gateway and
  of the rows: a result it reports was given, the job it saw is the booking's, a
  paid invoice it will write has money behind it. All of it is stable (`Grows`),
  which is why these theorems need no exception for overlaps.
- `Numbered`: a conversion that is about to insert holds a reference one above the
  highest it saw; if another took it since, the unique index refuses the
  insert, and if not, what it inserts is the newest. No exception for overlaps
  either.
- `JobInv`: requests alone with a leg (`Solo`: any two on one leg have torn it)
  still know what they read of it (`Told`, `Owns`), and the leg and its only job
  agree but for the one statement the request has still to execute (`Synced`). A
  leg whose requests overlapped, or died half-way, keeps nothing but `Owns`.
- `PayInv`: a refusal still to be written was decided upon a trip that nothing has
  paid since, and a result half written to a trip is on the first leg already; the
  legs agree whenever nobody is between the two (`Agree`).
- `CountInv`, `BillInv`: a number a request holds can be taken only by the invoice of
  another booking, which then needs none any more; so a request has looked again at
  most as often as others were billed, and with no more bookings than attempts it
  never gives up (`NeverGivesUp`). With more, five rivals that each insert between
  its look and its insertion leave a payment without an invoice: `FewBookings` is
  what the five attempts of `ensureForBooking` amount to. `BillInv` says who still
  sees to the invoice of a settled payment.
- `CompleteInv`: a roll-up that holds its lock has seen the very people who are
  assigned, and once it is to write COMPLETED they are paid in its transaction.
  Replacing somebody waits for the lock but gives a completed job new people
  without paying them; that is the operation the assumption leaves out.
- `ApiClient`: one call at a time fetches tokens and `refreshing` says so
  (`OneRefresh`); a call that retried after a single expiry finds a good token
  stored (`Renewed`), and one that was never overtaken carries a good one
  (`Overtaken`). The proof needs at least one pair of tokens to start from, hence
  the `MaxTokens` in `Constants`.
- `Sessions`: `Fresh` (a new id is new), `Gone` (a revoked session has no writer
  left), `LeavesOwn` and `Listed` (a session in the row is open in the log, or
  somebody is about to make it so).
- `Invoicing`: `Known(q)`, what a request read is still so unless `since` says
  otherwise, per kind of request.
- `CreditInv`: a bill that was admitted and has not been told of another still fits,
  and what a request is about to post or pay is open and counted already. Between
  the office's look and its insert others may cancel, settle or edit, which only
  takes away; a bill of another request marks the first. The sums are
  `MapThenSumSet` of the library, a CHOOSE over functions: `SumAdds` and
  `SumIsMonotone` are proved from its definition, each induction as a smallest
  counterexample (`LeastNumber`), since the induction theorems cannot be instantiated.
- `Replicas`: one pod at work and only under the claim, its list only open legs;
  for messages, whose turn it is and that the log, or the pod about to write it,
  knows of what Twilio has taken.
- `Dispatching`: `Known(q)`: seats, time and the rep's freedom are as the request
  saw them unless `news` says otherwise; `Warned` adds to the property that the
  request about to warn looks at the present time.

Each preservation proof has one step per action; effects shared by actions are
lemmas (`ReconcileEffect`, `AdmitEffect`, `EndAssemble`, `StoresEffect`,
`RevokesEffect`, `PayStep`, ...).

Only model-checked: the liveness properties `RequestsEnd`, `CapturesSettle`,
`PastLegsClose` and `CallsEnd`; fairness and ENABLED are beyond the prover. Every
other property of a passing run is a theorem.

No module declares a RECURSIVE operator.

## 5. Not modelled

- *Web pages and mobile screens* (`src/frontend`, `src/website`, `src/mobile`) with
  their translations: more than half of the repository's lines. They render and
  collect forms; each decision is taken again by the handlers modelled here. Their
  one protocol, the token refresh, is `ApiClient`.
- *Reports, exports, imports, AI parsing, e-mail, push, Drive*: reading, conversion
  and output. `upsertRepScore`, the only writer among the reports, repeats the
  survey's pattern.
- *Master data, users, roles, settings, activity log, contact messages, no-show
  disputes*: single rows, written once by id.
- *Permission cache*: one map with a timer per pod; described under the findings.
- *Prices, tariffs, currency conversion, credit amounts*: arithmetic over stored
  tables with nothing concurrent to it.
- *Supplier portal*: its status column is read by nothing modelled.
- Of modelled components: bulk creation of jobs (create in a loop) and evidence
  upload by admins; creation and pricing of B2C bookings (the state
  `BookingPayment` starts from); `refundPayment`, which nothing calls;
  `liquidateCollection` and fees entered by hand; seats of a vehicle type edited
  under its assignments; the locks of tabs whose operations are not modelled.
  `PROJECT.json` says per component what is left out.

## 6. What is left

In this order:

1. An abstract `JobLedger` (open, closed, paid once) that `JobLifecycle` implements
   for the operations of `Portals`: `PaidOnce`, `ParkedIsLeftAlone` and
   `EverybodyIsPaid` are its parts.
2. `liquidateCollection` against the driver portal's collection flag.
