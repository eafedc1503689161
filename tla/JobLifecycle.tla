--------------------------- MODULE JobLifecycle ---------------------------
(***************************************************************************)
(* The life of one traffic job: its row, its assignment row, the fees and  *)
(* evidence that hang from it, and every request that writes them: the     *)
(* dispatch office, the driver portal, the rep portal and the midnight     *)
(* supplier cron.                                                          *)
(*                                                                         *)
(* A handler first reads the rows and checks its guards outside any        *)
(* transaction, and only later writes, by primary key and without          *)
(* re-checking what it read.  Each handler is therefore at least two       *)
(* steps: one that admits a request and stores in req what it will write,  *)
(* and one that commits it.  PostgreSQL runs at READ COMMITTED and an      *)
(* UPDATE holds its row's lock until the commit.  A transaction that       *)
(* writes once after its last read is a single commit; the three that read *)
(* between their writes are split at every lock they take:                 *)
(* JobCompletionService.reconcileJobStatus reads the job and the fees      *)
(* while its caller locks the assignment row, the office's status change   *)
(* reads the assignment while it locks the job row, and the guest survey   *)
(* reads the rep's fee while it locks the survey row.                      *)
(***************************************************************************)
EXTENDS Naturals, JobStatuses

CONSTANTS
  Drivers, Reps,      \* people with a portal account
  Keep,               \* "this field is not in the request body"
  Requests,           \* slots for requests in flight at the same time
  NoRequest,          \* nobody holds the row lock
  Services,           \* service types the job may have
  Routed,             \* may its route be known, so that a trip fee is due
  Collections,        \* may its driver have money to collect
  Ops,                \* the operations users call in this instance
  JobTargets,         \* job statuses the office asks for
  LegTargets,         \* leg statuses the admin forces
  Cars,               \* car choices of a (re)assignment
  InitialPhases, InitialDays,
  Delays,             \* bound: where a corrected flight time puts the clock
  MaxAssignments      \* bound: assignment rows ever created for the job

AllOps ==
  {"driverPatch", "driverStart", "driverComplete", "driverNoShow",
   "driverCollect", "repPatch", "repInPlace", "repComplete", "repNoShow",
   "repSurvey", "repDelay", "assign", "reassign", "release", "unassign",
   "officeStatus", "forceJob", "forceLegs", "remove", "recalculate", "cron",
   "unlock", "clock", "crash"}

Unset == "UNSET"    \* a status column the request leaves alone

AllCars == {"keep", "own", "supplier", "clear", "tag"}

ASSUME Constants ==
  /\ Ops \subseteq AllOps /\ Cars \subseteq AllCars
  /\ Services \subseteq {"ARR", "DEP", "CITY"}
  /\ Routed \subseteq BOOLEAN /\ Collections \subseteq BOOLEAN
  /\ JobTargets \subseteq JobStatus /\ LegTargets \subseteq PortalStatus
  /\ InitialPhases \subseteq 0..4 /\ InitialDays \subseteq 0..2
  /\ Delays \subseteq 0..4
  /\ NoOne \notin Drivers \cup Reps /\ Keep \notin Drivers \cup Reps
  /\ Keep # NoOne /\ Drivers \cap Reps = {} /\ NoRequest \notin Requests
  /\ MaxAssignments \in Nat

VARIABLES
  job,          \* the traffic_jobs row
  asg,          \* the traffic_assignments row; id = 0 when there is none
  lastId,       \* primary keys handed out so far
  driverFees,   \* driver_trip_fees rows of the job, per driver
  repFees,      \* rep_fees rows of the job, per rep
  evidence,     \* <<kind, submitter>> of the evidence rows
  phase,        \* the clock, relative to the job time: see The clock
  day,          \* the clock, relative to the job date: see The clock
  unlocked,     \* portals whose 48-hour lock an admin lifted
  req,          \* the request in each slot
  lock          \* which request's transaction locks each of the two rows

vars == <<job, asg, lastId, driverFees, repFees, evidence, phase, day,
          unlocked, req, lock>>

rows  == <<job, asg, lastId, driverFees, repFees, evidence>>
clock == <<phase, day, unlocked>>

-----------------------------------------------------------------------------
(***************************************************************************)
(* Rows and requests.                                                      *)
(***************************************************************************)
Staff == Drivers \cup Reps

JobRow == [service: Services, status: JobStatus, deleted: BOOLEAN,
           routed: BOOLEAN, required: BOOLEAN, collected: BOOLEAN]

AssignmentRow ==
  [id: Nat, driver: Drivers \cup {NoOne}, rep: Reps \cup {NoOne},
   own: BOOLEAN, supplier: BOOLEAN, driverStatus: PortalStatus,
   repStatus: PortalStatus, logged: BOOLEAN]

NoAssignment ==
  [id |-> 0, driver |-> NoOne, rep |-> NoOne, own |-> FALSE,
   supplier |-> FALSE, driverStatus |-> "PENDING", repStatus |-> "PENDING",
   logged |-> FALSE]

EvidenceKinds == {"inProgress", "inPlace", "completed", "noShow"}

\* What a handler carries from its reads to its writes.  `to', `driverTo' and
\* `repTo' are the statuses it will write; driver, rep and car the fields of
\* a (re)assignment, oldDriver and oldRep the people it saw; live, payDriver
\* and payRep what it decided under its row locks.
Request ==
  [op: AllOps \cup {"idle"}, who: Staff \cup {NoOne}, id: Nat,
   to: JobStatus \cup {Unset}, driverTo: PortalStatus \cup {Unset},
   repTo: PortalStatus \cup {Unset}, flag: BOOLEAN,
   driver: Drivers \cup {NoOne, Keep}, rep: Reps \cup {NoOne, Keep},
   car: AllCars, oldDriver: Drivers \cup {NoOne}, oldRep: Reps \cup {NoOne},
   live: BOOLEAN, payDriver: BOOLEAN, payRep: BOOLEAN]

Idle ==
  [op |-> "idle", who |-> NoOne, id |-> 0, to |-> Unset, driverTo |-> Unset,
   repTo |-> Unset, flag |-> FALSE, driver |-> Keep, rep |-> Keep,
   car |-> "keep", oldDriver |-> NoOne, oldRep |-> NoOne, live |-> FALSE,
   payDriver |-> FALSE, payRep |-> FALSE]

TypeOK ==
  /\ job \in JobRow
  /\ asg \in AssignmentRow
  /\ lastId \in Nat
  /\ driverFees \in [Drivers -> Nat]
  /\ repFees \in [Reps -> Nat]
  /\ evidence \subseteq EvidenceKinds \X Staff
  /\ phase \in 0..4
  /\ day \in 0..2
  /\ unlocked \subseteq {"driver", "rep"}
  /\ req \in [Requests -> Request]
  /\ lock \in [job: Requests \cup {NoRequest}, asg: Requests \cup {NoRequest}]

Init ==
  /\ job \in [service: Services, status: {"PENDING"}, deleted: {FALSE},
              routed: Routed, required: Collections, collected: {FALSE}]
  /\ asg = NoAssignment
  /\ lastId = 0
  /\ driverFees = [d \in Drivers |-> 0]
  /\ repFees = [p \in Reps |-> 0]
  /\ evidence = {}
  /\ phase \in InitialPhases
  /\ day \in InitialDays
  /\ unlocked = {}
  /\ req = [r \in Requests |-> Idle]
  /\ lock = [job |-> NoRequest, asg |-> NoRequest]

-----------------------------------------------------------------------------
(***************************************************************************)
(* The clock.  phase is relative to the job time (flight arrival for ARR,  *)
(* pick-up otherwise): 0 more than 10 minutes before, 1 before, 2 from the *)
(* job time, 3 from 15 minutes after it, 4 from 80 minutes after it.  day  *)
(* is relative to the job date: 0 up to Cairo midnight, 1 after it, 2 more *)
(* than 48 hours after the job date.  The two advance independently: a     *)
(* flight may land just before midnight, or be reported late.              *)
(***************************************************************************)
Tick ==
  /\ "clock" \in Ops
  /\ \/ phase < 4 /\ phase' = phase + 1 /\ UNCHANGED day
     \/ day < 2 /\ day' = day + 1 /\ UNCHANGED phase
  /\ UNCHANGED <<rows, unlocked, req, lock>>

\* A rep reports the flight's new arrival time, for any ARR job of theirs.
ReportDelay(p) ==
  /\ "repDelay" \in Ops
  /\ asg.id # 0 /\ asg.rep = p /\ job.service = "ARR"
  /\ phase' \in Delays
  /\ UNCHANGED <<rows, day, unlocked, req, lock>>

\* An admin lifts or restores the 48-hour lock of one portal.
UnlockPortal(portal) ==
  /\ "unlock" \in Ops /\ ~job.deleted
  /\ unlocked' = unlocked \cup {portal}
  /\ UNCHANGED <<rows, phase, day, req, lock>>

LockPortal(portal) ==
  /\ "unlock" \in Ops /\ ~job.deleted
  /\ unlocked' = unlocked \ {portal}
  /\ UNCHANGED <<rows, phase, day, req, lock>>

-----------------------------------------------------------------------------
(***************************************************************************)
(* Admission: what each handler reads and checks before it writes.         *)
(***************************************************************************)
Admit(r, q) ==
  /\ q.op \in Ops
  /\ req[r].op = "idle"
  /\ req' = [req EXCEPT ![r] = q]
  /\ UNCHANGED <<rows, clock, lock>>

\* A request about the legs of the assignment the handler just read.
LegRequest(op, who, driverTo, repTo) ==
  [Idle EXCEPT !.op = op, !.who = who, !.id = asg.id,
               !.driverTo = driverTo, !.repTo = repTo]

\* "Job not found or not assigned to you", then the portal's 48-hour lock.
DriverMay(d) ==
  /\ asg.id # 0 /\ asg.driver = d
  /\ day < 2 \/ "driver" \in unlocked

RepMay(p) ==
  /\ asg.id # 0 /\ asg.rep = p
  /\ day < 2 \/ "rep" \in unlocked

DriverPatch(r, d) ==
  \E s \in DriverTargets :
    /\ DriverMay(d)
    /\ <<asg.driverStatus, s>> \in DriverMoves
    /\ s = "IN_PROGRESS" => phase >= 2
    /\ Admit(r, LegRequest("driverPatch", d, s, Unset))

\* Repeated in-progress evidence keeps the status and writes no log line.
DriverStart(r, d) ==
  /\ DriverMay(d)
  /\ \/ asg.driverStatus = "PENDING" /\ phase >= 2
     \/ asg.driverStatus = "IN_PROGRESS"
  /\ Admit(r, LegRequest("driverStart", d,
                         IF asg.driverStatus = "PENDING"
                         THEN "IN_PROGRESS" ELSE Unset, Unset))

DriverComplete(r, d) ==
  /\ DriverMay(d)
  /\ asg.driverStatus = "IN_PROGRESS"
  /\ phase >= 3
  /\ job.required => job.collected
  /\ Admit(r, LegRequest("driverComplete", d, "COMPLETED", Unset))

DriverNoShow(r, d) ==
  /\ DriverMay(d)
  /\ asg.driverStatus \in {"PENDING", "IN_PROGRESS"}
  /\ phase = 4
  /\ Admit(r, LegRequest("driverNoShow", d, "NO_SHOW", Unset))

DriverCollect(r, d) ==
  \E b \in BOOLEAN :
    /\ DriverMay(d) /\ job.required
    /\ Admit(r, [Idle EXCEPT !.op = "driverCollect", !.who = d, !.flag = b])

RepPatch(r, p) ==
  \E s \in RepTargets :
    /\ RepMay(p)
    /\ <<asg.repStatus, s>> \in RepMoves
    /\ Admit(r, LegRequest("repPatch", p, Unset, s))

\* Arrivals only accept IN_PLACE from 10 minutes before to 80 minutes after
\* the landing, unless the rep lock is lifted.  A leg already IN_PLACE is
\* answered without a write.
RepInPlace(r, p) ==
  /\ RepMay(p)
  /\ (job.service = "ARR" /\ "rep" \notin unlocked) => phase \in 1..3
  /\ asg.repStatus = "PENDING"
  /\ Admit(r, LegRequest("repInPlace", p, Unset, "IN_PLACE"))

RepComplete(r, p) ==
  /\ RepMay(p)
  /\ <<asg.repStatus, "COMPLETED">> \in RepMoves
  /\ Admit(r, LegRequest("repComplete", p, Unset, "COMPLETED"))

RepNoShow(r, p) ==
  /\ RepMay(p)
  /\ asg.repStatus \in {"PENDING", "IN_PLACE"}
  /\ phase = 4
  /\ Admit(r, LegRequest("repNoShow", p, Unset, "NO_SHOW"))

\* The guest survey is open to the assigned rep of an ARR job at any time,
\* whatever became of the job.
RepSurvey(r, p) ==
  /\ asg.id # 0 /\ asg.rep = p
  /\ job.service = "ARR"
  /\ Admit(r, [Idle EXCEPT !.op = "repSurvey", !.who = p])

-----------------------------------------------------------------------------
\* The office.  Role and permission checks and the dispatcher's own 48-hour
\* lock do not bind an admin, so they are no guard here.
Assign(r) ==
  \E d \in Drivers \cup {NoOne}, p \in Reps \cup {NoOne},
     c \in Cars \ {"clear"} :
    /\ c \in {"own", "supplier"} \/ p # NoOne
    /\ ~job.deleted /\ job.status # "CANCELLED"
    /\ asg.id = 0
    /\ lastId < MaxAssignments
    /\ Admit(r, [Idle EXCEPT !.op = "assign", !.driver = d, !.rep = p,
                             !.car = c])

\* A reassignment that takes the driver or the rep off the job, by an
\* explicit null or by switching to a supplier's car.
TakesOff(d, p, c) ==
  \/ d = NoOne \/ p = NoOne
  \/ c = "supplier" /\ asg.driver # NoOne /\ d = Keep

StaffRequest(d, p, c) ==
  [Idle EXCEPT !.op = IF TakesOff(d, p, c) THEN "release" ELSE "reassign",
               !.id = asg.id, !.driver = d, !.rep = p, !.car = c,
               !.oldDriver = asg.driver, !.oldRep = asg.rep]

\* At least one field, not counting nulls; a remark counts, so that nulls alone
\* go through with one.
Reassign(r) ==
  \E d \in Drivers \cup {NoOne, Keep}, p \in Reps \cup {NoOne, Keep},
     c \in Cars :
    /\ d # Keep \/ p # Keep \/ c # "keep"
    /\ asg.id # 0
    /\ Admit(r, StaffRequest(d, p, c))

Unassign(r) ==
  /\ asg.id # 0
  /\ Admit(r, LegRequest("unassign", NoOne, Unset, Unset))

OfficeStatus(r) ==
  \E s \in JobTargets :
    /\ ~job.deleted
    /\ <<job.status, s>> \in OfficeMoves
    /\ Admit(r, [Idle EXCEPT !.op = "officeStatus", !.to = s])

ForceRequest(s, ds, rs) ==
  [Idle EXCEPT !.op = IF s = Unset THEN "forceLegs" ELSE "forceJob",
               !.id = IF ds = Unset /\ rs = Unset THEN 0 ELSE asg.id,
               !.to = s, !.driverTo = ds, !.repTo = rs]

ForceControl(r) ==
  \E s \in JobTargets \cup {Unset}, ds, rs \in LegTargets \cup {Unset} :
    /\ s # Unset \/ ds # Unset \/ rs # Unset
    /\ ~job.deleted
    /\ Admit(r, ForceRequest(s, ds, rs))

Remove(r) ==
  /\ ~job.deleted /\ job.status # "COMPLETED"
  /\ Admit(r, [Idle EXCEPT !.op = "remove"])

\* Backfill of missing trip fees over completed jobs.
Recalculate(r) ==
  /\ ~job.deleted /\ job.status = "COMPLETED" /\ job.routed
  /\ asg.id # 0 /\ asg.driver # NoOne
  /\ driverFees[asg.driver] = 0
  /\ Admit(r, [Idle EXCEPT !.op = "recalculate", !.driver = asg.driver])

\* The midnight cron lists the supplier-sourced legs of past jobs.
CronList(r) ==
  /\ asg.id # 0
  /\ asg.supplier /\ ~asg.own /\ asg.driver = NoOne
  /\ asg.driverStatus \notin Terminal
  /\ ~job.deleted /\ job.status \notin Parked
  /\ day >= 1
  /\ Admit(r, LegRequest("cron", NoOne, "COMPLETED", Unset))

-----------------------------------------------------------------------------
(***************************************************************************)
(* Writing.                                                                *)
(***************************************************************************)
Free == NoRequest

\* A slip: the connection goes back to the pool with its job lock.
DoneLeaking(r) ==
  /\ req' = [req EXCEPT ![r] = Idle]
  /\ lock' = [lock EXCEPT !.asg = IF @ = r THEN Free ELSE @]
  /\ UNCHANGED clock

\* COMMIT or ROLLBACK of r: the request is answered and its locks are gone.
Done(r) ==
  /\ req' = [req EXCEPT ![r] = Idle]
  /\ lock' = [job |-> IF lock.job = r THEN Free ELSE lock.job,
              asg |-> IF lock.asg = r THEN Free ELSE lock.asg]
  /\ UNCHANGED clock

\* Every portal or cron write of a leg comes with a status_change_logs row;
\* the office's writes do not.
Logs(q) ==
  /\ q.op \in {"driverPatch", "driverStart", "driverComplete", "driverNoShow",
               "repPatch", "repInPlace", "repComplete", "repNoShow", "cron"}
  /\ q.driverTo # Unset \/ q.repTo # Unset

\* The assignment row with the legs request q writes.
Patched(q) ==
  [asg EXCEPT !.driverStatus = IF q.driverTo = Unset THEN @ ELSE q.driverTo,
              !.repStatus = IF q.repTo = Unset THEN @ ELSE q.repTo,
              !.logged = @ \/ Logs(q)]

\* Evidence is unique per kind and submitter; the insert of a second one
\* aborts its transaction.
Evidence(q) ==
  CASE q.op = "driverStart" -> {<<"inProgress", q.who>>}
    [] q.op = "repInPlace" -> {<<"inPlace", q.who>>}
    [] q.op \in {"driverComplete", "repComplete"} -> {<<"completed", q.who>>}
    [] q.op \in {"driverNoShow", "repNoShow"} -> {<<"noShow", q.who>>}
    [] OTHER -> {}

FileEvidence(q) ==
  /\ Evidence(q) \cap evidence = {}
  /\ evidence' = evidence \cup Evidence(q)

-----------------------------------------------------------------------------
(***************************************************************************)
(* The roll-up.  The callers of reconcileJobStatus and the office's        *)
(* terminal status change, step by step.                                   *)
(***************************************************************************)
Reconciles(q) ==
  \/ q.op \in {"driverPatch", "driverComplete", "repPatch", "repComplete"}
  \/ q.op = "forceLegs" /\ q.id # 0

OfficeCloses(q) == q.op = "officeStatus" /\ q.to \in Terminal

\* A slip: only the deletion is looked at.
RollsUpIfParked(j) == ~j.deleted

\* A deleted or parked job is left alone.
RollsUp(j) == ~j.deleted /\ j.status \notin Parked

\* The row a settling transaction leaves behind, as it reads it back itself.
NextRow(q, live) ==
  IF live THEN CloseDepartureRep(job.service, Patched(q)) ELSE Patched(q)

\* A slip: the generic PATCH endpoints do not roll up.
FinishedUnlessPatched(q, live, row) ==
  live /\ LegsClear(row) /\ q.op \notin {"driverPatch", "repPatch"}

\* Whichever caller it is, the job is finished once both legs are clear.
Finished(q, live, row) == live /\ LegsClear(row)

\* A slip: the arrival rep's fee is forgotten.
FeeDueToDriverOnly(a) ==
  [driver |-> /\ a.driver # NoOne /\ job.routed
              /\ driverFees[a.driver] = 0,
   rep    |-> FALSE]

\* A slip: no look for a fee that is there already.
FeeDueAgain(a) ==
  [driver |-> a.driver # NoOne /\ job.routed,
   rep    |-> a.rep # NoOne /\ job.service = "ARR"]

\* Which fees the people of row a are still owed.
FeeDue(a) ==
  [driver |-> /\ a.driver # NoOne /\ job.routed
              /\ driverFees[a.driver] = 0,
   rep    |-> /\ a.rep # NoOne /\ job.service = "ARR"
              /\ repFees[a.rep] = 0]

\* The leg UPDATE takes the row lock; reconcileJobStatus then reads the job
\* and the fees and decides what the rest of the transaction writes.
Reconcile(r) ==
  LET q    == req[r]
      live == RollsUp(job)
      row  == NextRow(q, live)
      done == Finished(q, live, row)
      due  == FeeDue(row)
  IN  /\ Reconciles(q)
      /\ lock.asg = Free /\ asg.id = q.id
      /\ lock' = [lock EXCEPT !.asg = r]
      /\ req' = [req EXCEPT ![r] =
           [q EXCEPT !.live = live,
                     !.to = IF done /\ job.status # "COMPLETED"
                            THEN "COMPLETED" ELSE Unset,
                     !.oldDriver = row.driver, !.oldRep = row.rep,
                     !.payDriver = done /\ due.driver,
                     !.payRep = done /\ due.rep]]
      /\ UNCHANGED <<rows, clock>>

\* The office's UPDATE takes the job row's lock and reads the assignment back
\* with it, before the assignment itself is locked.
OfficeTakesJob(r) ==
  LET q == req[r]
  IN  /\ OfficeCloses(q)
      /\ lock.job = Free /\ asg.id # 0
      /\ lock' = [lock EXCEPT !.job = r]
      /\ req' = [req EXCEPT ![r] =
           [q EXCEPT !.id = asg.id, !.driverTo = q.to, !.repTo = q.to,
                     !.oldDriver = asg.driver, !.oldRep = asg.rep]]
      /\ UNCHANGED <<rows, clock>>

\* A slip: the office completes the job and leaves the rep unpaid.
OfficeTakesLegsUnpaid(r) ==
  LET q   == req[r]
      due == FeeDue([driver |-> q.oldDriver, rep |-> q.oldRep])
  IN  /\ lock.job = r
      /\ lock.asg = Free /\ asg.id = q.id
      /\ lock' = [lock EXCEPT !.asg = r]
      /\ req' = [req EXCEPT ![r] =
           [q EXCEPT !.payDriver = q.to = "COMPLETED" /\ due.driver]]
      /\ UNCHANGED <<rows, clock>>

\* It then closes both legs and looks for the fees of the people it read.
OfficeTakesLegs(r) ==
  LET q   == req[r]
      due == FeeDue([driver |-> q.oldDriver, rep |-> q.oldRep])
  IN  /\ lock.job = r
      /\ lock.asg = Free /\ asg.id = q.id
      /\ lock' = [lock EXCEPT !.asg = r]
      /\ req' = [req EXCEPT ![r] =
           [q EXCEPT !.payDriver = q.to = "COMPLETED" /\ due.driver,
                     !.payRep = q.to = "COMPLETED" /\ due.rep]]
      /\ UNCHANGED <<rows, clock>>

\* Both end the same way: the legs, the job status, the fees and the evidence
\* become visible at once.
Settle(r) ==
  LET q == req[r]
  IN  /\ lock.asg = r
      /\ q.to # Unset => lock.job \in {Free, r}
      /\ q.op = "forceLegs" => ~job.deleted
      /\ FileEvidence(q)
      /\ asg' = NextRow(q, q.live)
      /\ job' = IF q.to = Unset THEN job ELSE [job EXCEPT !.status = q.to]
      /\ driverFees' = IF q.payDriver
                       THEN [driverFees EXCEPT ![q.oldDriver] = @ + 1]
                       ELSE driverFees
      /\ repFees' = IF q.payRep THEN [repFees EXCEPT ![q.oldRep] = @ + 1]
                                ELSE repFees
      /\ Done(r)
      /\ UNCHANGED lastId

-----------------------------------------------------------------------------
(***************************************************************************)
(* The transactions that read nothing after their first write.             *)
(***************************************************************************)
\* Starting, going in place and the cron's tick write one leg by its id.
WriteLeg(r) ==
  LET q == req[r]
  IN  /\ q.op \in {"driverStart", "repInPlace", "cron"}
      /\ lock.asg = Free /\ asg.id = q.id
      /\ FileEvidence(q)
      /\ asg' = Patched(q)
      /\ Done(r)
      /\ UNCHANGED <<job, lastId, driverFees, repFees>>

\* A slip: the job is marked before the assignment row is waited for.
WriteNoShowFirst(r) ==
  LET q == req[r]
  IN  /\ q.op \in {"driverNoShow", "repNoShow"}
      /\ lock.job = Free /\ asg.id = q.id
      /\ FileEvidence(q)
      /\ asg' = Patched(q)
      /\ job' = [job EXCEPT !.status = "NO_SHOW"]
      /\ Done(r)
      /\ UNCHANGED <<lastId, driverFees, repFees>>

\* A no-show overwrites the job status whatever it has become.
WriteNoShow(r) ==
  LET q == req[r]
  IN  /\ q.op \in {"driverNoShow", "repNoShow"}
      /\ lock.asg = Free /\ lock.job = Free /\ asg.id = q.id
      /\ FileEvidence(q)
      /\ asg' = Patched(q)
      /\ job' = [job EXCEPT !.status = "NO_SHOW"]
      /\ Done(r)
      /\ UNCHANGED <<lastId, driverFees, repFees>>

WriteCollected(r) ==
  /\ req[r].op = "driverCollect"
  /\ lock.job = Free
  /\ job' = [job EXCEPT !.collected = req[r].flag]
  /\ Done(r)
  /\ UNCHANGED <<asg, lastId, driverFees, repFees, evidence>>

\* The survey's transaction upserts the survey row, which no other survey of
\* the job gets past, and then looks for the rep's fee; it locks neither the
\* job nor the assignment.
SurveyLooks(r) ==
  /\ req[r].op = "repSurvey"
  /\ \A s \in Requests : req[s].op = "repSurvey" => ~req[s].live
  /\ req' = [req EXCEPT ![r] =
       [@ EXCEPT !.live = TRUE, !.payRep = repFees[req[r].who] = 0]]
  /\ UNCHANGED <<rows, clock, lock>>

\* It creates the fee it did not find, or re-prices the one it did.
WriteSurvey(r) ==
  /\ req[r].op = "repSurvey" /\ req[r].live
  /\ repFees' = IF req[r].payRep THEN [repFees EXCEPT ![req[r].who] = @ + 1]
                                 ELSE repFees
  /\ Done(r)
  /\ UNCHANGED <<job, asg, lastId, driverFees, evidence>>

\* A new assignment row starts with both legs PENDING.  job_id is unique.
WriteAssignment(r) ==
  LET q == req[r]
  IN  /\ q.op = "assign"
      /\ lock.job = Free /\ asg.id = 0
      /\ lastId' = lastId + 1
      /\ asg' = [NoAssignment EXCEPT
                   !.id = lastId + 1, !.driver = q.driver, !.rep = q.rep,
                   !.own = q.car = "own",
                   !.supplier = q.car \in {"supplier", "tag"}]
      /\ job' = [job EXCEPT !.status = "ASSIGNED"]
      /\ Done(r)
      /\ UNCHANGED <<driverFees, repFees, evidence>>

\* The car columns of a reassignment.  A supplier's car takes the own driver
\* off, if the handler saw one.
SwitchCar(q, a) ==
  CASE q.car = "supplier" ->
         [a EXCEPT !.supplier = TRUE, !.own = FALSE,
                   !.driver = IF q.oldDriver = NoOne THEN @ ELSE NoOne,
                   !.driverStatus = IF q.oldDriver = NoOne THEN @
                                                           ELSE "PENDING"]
    [] q.car = "own"   -> [a EXCEPT !.supplier = FALSE, !.own = TRUE]
    [] q.car = "clear" -> [a EXCEPT !.supplier = FALSE, !.own = FALSE]
    [] q.car = "tag"   -> [a EXCEPT !.supplier = TRUE]
    [] OTHER           -> a

\* A leg starts again from PENDING when its person differs from the one the
\* handler saw.
SwitchDriverAlways(q, a) ==   \* a slip: an absent field is written too
  [a EXCEPT !.driver = q.driver,
            !.driverStatus = IF q.driver = q.oldDriver THEN @ ELSE "PENDING"]

SwitchDriver(q, a) ==
  IF q.driver = Keep THEN a
  ELSE [a EXCEPT !.driver = q.driver,
                 !.driverStatus = IF q.driver = q.oldDriver THEN @
                                                            ELSE "PENDING"]

SwitchRepAsIs(q, a) ==        \* a slip: the new rep inherits the leg
  IF q.rep = Keep THEN a ELSE [a EXCEPT !.rep = q.rep]

SwitchRep(q, a) ==
  IF q.rep = Keep THEN a
  ELSE [a EXCEPT !.rep = q.rep,
                 !.repStatus = IF q.rep = q.oldRep THEN @ ELSE "PENDING"]

WriteReassignment(r) ==
  LET q == req[r]
  IN  /\ q.op \in {"reassign", "release"}
      /\ lock.asg = Free /\ asg.id = q.id
      /\ asg' = SwitchRep(q, SwitchDriver(q, SwitchCar(q, asg)))
      /\ Done(r)
      /\ UNCHANGED <<job, lastId, driverFees, repFees, evidence>>

\* A slip: the logs go with the assignment (ON DELETE CASCADE).
WriteUnassignmentCascading(r) ==
  LET q == req[r]
  IN  /\ q.op = "unassign"
      /\ lock.asg = Free /\ lock.job = Free /\ asg.id = q.id
      /\ asg' = NoAssignment
      /\ job' = [job EXCEPT !.status = "PENDING"]
      /\ Done(r)
      /\ UNCHANGED <<lastId, driverFees, repFees, evidence>>

\* status_change_logs reference the assignment with ON DELETE RESTRICT.
WriteUnassignment(r) ==
  LET q == req[r]
  IN  /\ q.op = "unassign"
      /\ lock.asg = Free /\ lock.job = Free /\ asg.id = q.id
      /\ ~asg.logged
      /\ asg' = NoAssignment
      /\ job' = [job EXCEPT !.status = "PENDING"]
      /\ Done(r)
      /\ UNCHANGED <<lastId, driverFees, repFees, evidence>>

\* The office's status change when there is no leg to close with it.
WriteStatus(r) ==
  LET q == req[r]
  IN  /\ q.op = "officeStatus" /\ lock.job = Free
      /\ ~OfficeCloses(q) \/ asg.id = 0
      /\ job' = [job EXCEPT !.status = q.to]
      /\ Done(r)
      /\ UNCHANGED <<asg, lastId, driverFees, repFees, evidence>>

\* Force control with a job status, or with legs of a job that had none.
WriteForced(r) ==
  LET q == req[r]
  IN  /\ q.op \in {"forceJob", "forceLegs"} /\ ~Reconciles(q)
      /\ ~job.deleted
      /\ q.to # Unset => lock.job = Free
      /\ q.id # 0 => lock.asg = Free /\ asg.id = q.id
      /\ job' = IF q.to = Unset THEN job ELSE [job EXCEPT !.status = q.to]
      /\ asg' = IF q.id = 0 THEN asg ELSE Patched(q)
      /\ Done(r)
      /\ UNCHANGED <<lastId, driverFees, repFees, evidence>>

WriteRemoved(r) ==
  /\ req[r].op = "remove"
  /\ lock.job = Free
  /\ job' = [job EXCEPT !.deleted = TRUE]
  /\ Done(r)
  /\ UNCHANGED <<asg, lastId, driverFees, repFees, evidence>>

WriteBackfill(r) ==
  /\ req[r].op = "recalculate"
  /\ driverFees' = [driverFees EXCEPT ![req[r].driver] = @ + 1]
  /\ Done(r)
  /\ UNCHANGED <<job, asg, lastId, repFees, evidence>>

-----------------------------------------------------------------------------
(***************************************************************************)
(* Failing: the database refuses a write, picks a deadlock victim, or the  *)
(* process dies.  Either way the transaction leaves nothing behind.        *)
(***************************************************************************)
\* P2025 (no such row), P2002 (unique), P2003 (foreign key), or findOne after
\* the job was deleted.
Refused(r) ==
  LET q == req[r]
  IN  \/ q.id # 0 /\ asg.id # q.id
      \/ Evidence(q) \cap evidence # {}
      \/ q.op = "assign" /\ asg.id # 0
      \/ q.op = "unassign" /\ asg.logged
      \/ q.op \in {"forceJob", "forceLegs"} /\ job.deleted

\* One transaction holds the assignment and waits for the job, another holds
\* the job and waits for the assignment.  PostgreSQL rolls either back.
Deadlocked(r) ==
  /\ r \in {lock.asg, lock.job}
  /\ Free \notin {lock.asg, lock.job} /\ lock.asg # lock.job
  /\ req[lock.asg].to # Unset

Abort(r) ==
  /\ req[r].op # "idle"
  /\ Refused(r) \/ Deadlocked(r)
  /\ Done(r)
  /\ UNCHANGED rows

Crash(r) ==
  /\ "crash" \in Ops
  /\ req[r].op # "idle"
  /\ Done(r)
  /\ UNCHANGED rows

-----------------------------------------------------------------------------
Admission(r) ==
  \/ \E d \in Drivers : \/ DriverPatch(r, d)
                        \/ DriverStart(r, d)
                        \/ DriverComplete(r, d)
                        \/ DriverNoShow(r, d)
                        \/ DriverCollect(r, d)
  \/ \E p \in Reps : \/ RepPatch(r, p)
                     \/ RepInPlace(r, p)
                     \/ RepComplete(r, p)
                     \/ RepNoShow(r, p)
                     \/ RepSurvey(r, p)
  \/ Assign(r)
  \/ Reassign(r)
  \/ Unassign(r)
  \/ OfficeStatus(r)
  \/ ForceControl(r)
  \/ Remove(r)
  \/ Recalculate(r)
  \/ CronList(r)

\* The rest of a request once it is admitted.
Proceed(r) ==
  \/ Reconcile(r)
  \/ OfficeTakesJob(r)
  \/ OfficeTakesLegs(r)
  \/ Settle(r)
  \/ WriteLeg(r)
  \/ WriteNoShow(r)
  \/ WriteCollected(r)
  \/ SurveyLooks(r)
  \/ WriteSurvey(r)
  \/ WriteAssignment(r)
  \/ WriteReassignment(r)
  \/ WriteUnassignment(r)
  \/ WriteStatus(r)
  \/ WriteForced(r)
  \/ WriteRemoved(r)
  \/ WriteBackfill(r)
  \/ Abort(r)

Environment ==
  \/ Tick
  \/ \E p \in Reps : ReportDelay(p)
  \/ \E portal \in {"driver", "rep"} : UnlockPortal(portal) \/ LockPortal(portal)

Next ==
  \/ Environment
  \/ \E r \in Requests : Admission(r) \/ Proceed(r) \/ Crash(r)

Spec == Init /\ [][Next]_vars

\* A request the server has accepted is always carried on.  Row locks are
\* granted in the order they are asked for, so a request waiting for one that
\* is free again and again gets it: strong fairness.  Nobody is obliged to
\* send a request, and the clock may stand still.
FairSpec == Spec /\ \A r \in Requests : SF_vars(Proceed(r))

-----------------------------------------------------------------------------
(***************************************************************************)
(* Properties.                                                             *)
(***************************************************************************)
\* A job whose assigned legs are all COMPLETED is closed: no interleaving of
\* the callers of reconcileJobStatus strands it at ASSIGNED, the failure that
\* service was written against.
LegsSettle ==
  asg.id # 0 /\ LegsClear(asg) /\ ~job.deleted => job.status \in Terminal

\* A COMPLETED job has paid the people who did it: its driver when the route
\* is known, and on arrivals its rep.
CompletedIsPaid ==
  job.status = "COMPLETED" /\ asg.id # 0 =>
    /\ asg.driver # NoOne /\ job.routed => driverFees[asg.driver] > 0
    /\ asg.rep # NoOne /\ job.service = "ARR" => repFees[asg.rep] > 0

\* Nobody is paid twice for one job, although neither fee table has a unique
\* key and every automatic path looks first and inserts later.
FeesOnce ==
  /\ \A d \in Drivers : driverFees[d] <= 1
  /\ \A p \in Reps : repFees[p] <= 1

\* A cancelled or no-show job is never flipped to COMPLETED by the roll-up,
\* not even when the cancellation commits after the roll-up looked.
ParkedStays ==
  [][job.status \in Parked => job'.status # "COMPLETED"]_vars

\* Once somebody worked an assignment (a status_change_logs row refers to it)
\* it can no longer be unassigned, however the two requests interleave.
WorkPinsAssignment ==
  [][asg.logged => asg'.logged /\ asg'.id = asg.id]_vars

\* Every request the server accepts ends, with an answer or an error: neither
\* the locks nor a row that disappeared leave one hanging.
RequestsEnd ==
  \A r \in Requests : req[r].op # "idle" ~> req[r].op = "idle"

=============================================================================
