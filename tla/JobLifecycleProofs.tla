------------------------ MODULE JobLifecycleProofs ------------------------
(***************************************************************************)
(* Theorems about JobLifecycle, for every value of its constants.          *)
(***************************************************************************)
EXTENDS JobLifecycle, TLAPS

LegOps ==
  {"driverPatch", "driverStart", "driverComplete", "driverNoShow", "repPatch",
   "repInPlace", "repComplete", "repNoShow", "unassign", "cron"}

\* What is true of a request by itself, from its admission to its end.
Sane(q) ==
  /\ q \in Request
  /\ q.op \in Ops \cup {"idle"}
  /\ q.op = "assign" => q.driver # Keep /\ q.rep # Keep
  /\ q.op \in LegOps \ {"unassign", "cron"} => q.who \in Staff
  /\ q.op \in {"driverStart", "repInPlace"} =>
       q.driverTo # "COMPLETED" /\ q.repTo # "COMPLETED"
  /\ q.op \in LegOps \cup {"reassign", "release"} => q.id # 0
  /\ q.op = "officeStatus" => q.to \in JobTargets
  /\ q.op \notin {"officeStatus", "forceJob"} =>
       q.to = Unset \/ (q.to = "COMPLETED" /\ Reconciles(q))
  /\ q.op = "reassign" =>
       /\ q.driver # NoOne /\ q.rep # NoOne
       /\ q.car = "supplier" /\ q.oldDriver # NoOne => q.driver # Keep

\* No fee is decided yet.
Unpaid(q) == q.payDriver = FALSE /\ q.payRep = FALSE

\* What is true of a request the moment it is admitted: no fee is decided, it
\* names no row but the current one, and a reassignment has seen its people.
Fresh(q) ==
  /\ Unpaid(q)
  /\ q.id \in {0, asg.id}
  /\ q.op \in {"reassign", "release"} =>
       q.id = asg.id /\ q.oldDriver = asg.driver /\ q.oldRep = asg.rep

-----------------------------------------------------------------------------
(***************************************************************************)
(* Requests as they are admitted.                                          *)
(***************************************************************************)
\* An idle slot is a request that pays nobody.
LEMMA IdleTyped ==
  /\ Idle \in Request /\ Idle.op = "idle" /\ Idle.to = Unset /\ Idle.id = 0
  /\ Unpaid(Idle)
  BY DEF Idle, Request, Unset, AllCars, AllOps, Unpaid

\* An idle slot is a sane request.
LEMMA IdleSane == Sane(Idle)
  BY IdleTyped DEF Sane, LegOps

\* Aiming a request at the legs of a row keeps its type.
LEMMA LegTyped ==
  ASSUME NEW op \in AllOps, NEW who \in Staff \cup {NoOne}, NEW id \in Nat,
         NEW ds \in PortalStatus \cup {Unset},
         NEW rs \in PortalStatus \cup {Unset}
  PROVE  [Idle EXCEPT !.op = op, !.who = who, !.id = id,
                      !.driverTo = ds, !.repTo = rs] \in Request
<1> DEFINE p == [Idle EXCEPT !.op = op, !.who = who, !.id = id]
<1>1. p \in Request
  BY IdleTyped DEF Request
<1> HIDE DEF p
<1>2. [p EXCEPT !.driverTo = ds, !.repTo = rs] \in Request
  BY <1>1 DEF Request
<1>3. QED
  BY <1>2 DEF p

\* What LegRequest fills in, field by field.
LEMMA LegRequestFields ==
  ASSUME NEW op, NEW who, NEW ds, NEW rs
  PROVE  LET q == LegRequest(op, who, ds, rs)
         IN  /\ q.op = op /\ q.who = who /\ q.id = asg.id /\ q.to = Unset
             /\ q.driverTo = ds /\ q.repTo = rs /\ Unpaid(q)
  BY IdleTyped DEF LegRequest, Request, Unpaid

\* A leg request about an existing assignment is sane.
LEMMA LegRequestSane ==
  ASSUME asg.id \in Nat \ {0}, NEW op \in LegOps, op \in Ops,
         NEW who \in Staff \cup {NoOne},
         op \notin {"unassign", "cron"} => who \in Staff,
         NEW ds \in PortalStatus \cup {Unset},
         NEW rs \in PortalStatus \cup {Unset},
         op \in {"driverStart", "repInPlace"} =>
           ds # "COMPLETED" /\ rs # "COMPLETED"
  PROVE  Sane(LegRequest(op, who, ds, rs)) /\ Fresh(LegRequest(op, who, ds, rs))
<1> DEFINE q == LegRequest(op, who, ds, rs)
<1>1. op \in AllOps
  BY DEF LegOps, AllOps
<1>2. q \in Request
  BY <1>1, LegTyped DEF LegRequest
<1>3. /\ q.op = op /\ q.who = who /\ q.id = asg.id /\ q.to = Unset
      /\ q.driverTo = ds /\ q.repTo = rs /\ Unpaid(q)
  BY LegRequestFields
<1> HIDE DEF q
<1>4. Sane(q) /\ Fresh(q)
  BY <1>2, <1>3 DEF Sane, Fresh, LegOps
<1>5. QED
  BY <1>4 DEF q

\* Record updates keep the type of a request: operation, row and driver.
LEMMA WithPeople ==
  ASSUME NEW x \in Request, NEW op \in AllOps, NEW id \in Nat,
         NEW d \in Drivers \cup {NoOne, Keep}
  PROVE  [x EXCEPT !.op = op, !.id = id, !.driver = d] \in Request
  BY DEF Request

\* The same for the rep and the car.
LEMMA WithRepAndCar ==
  ASSUME NEW x \in Request, NEW p \in Reps \cup {NoOne, Keep},
         NEW c \in AllCars
  PROVE  [x EXCEPT !.rep = p, !.car = c] \in Request
  BY DEF Request

\* The same for the people the handler saw.
LEMMA WithSeen ==
  ASSUME NEW x \in Request, NEW od \in Drivers \cup {NoOne},
         NEW or \in Reps \cup {NoOne}
  PROVE  [x EXCEPT !.oldDriver = od, !.oldRep = or] \in Request
  BY DEF Request

\* A reassignment is a request.
LEMMA StaffRequestTyped ==
  ASSUME asg.id \in Nat, asg.driver \in Drivers \cup {NoOne},
         asg.rep \in Reps \cup {NoOne},
         NEW d \in Drivers \cup {NoOne, Keep},
         NEW p \in Reps \cup {NoOne, Keep}, NEW c \in AllCars
  PROVE  StaffRequest(d, p, c) \in Request
<1>1. PICK op \in AllOps :
        op = IF TakesOff(d, p, c) THEN "release" ELSE "reassign"
  BY DEF AllOps
<1> DEFINE p1 == [Idle EXCEPT !.op = op, !.id = asg.id, !.driver = d]
<1>2. p1 \in Request
  BY IdleTyped, WithPeople
<1> HIDE DEF p1
<1> DEFINE p2 == [p1 EXCEPT !.rep = p, !.car = c]
<1>3. p2 \in Request
  BY <1>2, WithRepAndCar
<1> HIDE DEF p2
<1>4. [p2 EXCEPT !.oldDriver = asg.driver, !.oldRep = asg.rep] \in Request
  BY <1>3, WithSeen
<1>5. QED
  BY <1>1, <1>4 DEF StaffRequest, p1, p2

\* What StaffRequest fills in, field by field.
LEMMA StaffRequestFields ==
  ASSUME NEW d, NEW p, NEW c
  PROVE  LET q == StaffRequest(d, p, c)
         IN  /\ q.op = IF TakesOff(d, p, c) THEN "release" ELSE "reassign"
             /\ q.id = asg.id /\ q.to = Unset
             /\ q.driver = d /\ q.rep = p /\ q.car = c
             /\ q.oldDriver = asg.driver /\ q.oldRep = asg.rep
             /\ Unpaid(q)
  BY IdleTyped DEF StaffRequest, Request, Unpaid

\* A reassignment of an existing assignment is sane.
LEMMA StaffRequestSane ==
  ASSUME asg.id \in Nat \ {0}, asg.driver \in Drivers \cup {NoOne},
         asg.rep \in Reps \cup {NoOne},
         NEW d \in Drivers \cup {NoOne, Keep},
         NEW p \in Reps \cup {NoOne, Keep}, NEW c \in Cars,
         StaffRequest(d, p, c).op \in Ops
  PROVE  Sane(StaffRequest(d, p, c)) /\ Fresh(StaffRequest(d, p, c))
<1> DEFINE q == StaffRequest(d, p, c)
<1>1. c \in AllCars
  BY Constants
<1>2. q \in Request
  BY <1>1, StaffRequestTyped
<1>3. /\ q.op = IF TakesOff(d, p, c) THEN "release" ELSE "reassign"
      /\ q.id = asg.id /\ q.to = Unset
      /\ q.driver = d /\ q.rep = p /\ q.car = c
      /\ q.oldDriver = asg.driver /\ q.oldRep = asg.rep
      /\ Unpaid(q)
  BY StaffRequestFields
<1>4. q.op \in Ops
  OBVIOUS
<1> HIDE DEF q
<1>5. Sane(q) /\ Fresh(q)
  BY <1>2, <1>3, <1>4 DEF Sane, Fresh, LegOps, TakesOff
<1>6. QED
  BY <1>5 DEF q

\* Force control is a request.
LEMMA ForceTyped ==
  ASSUME NEW op \in AllOps, NEW id \in Nat, NEW s \in JobStatus \cup {Unset},
         NEW ds \in PortalStatus \cup {Unset},
         NEW rs \in PortalStatus \cup {Unset}
  PROVE  [Idle EXCEPT !.op = op, !.id = id, !.to = s,
                      !.driverTo = ds, !.repTo = rs] \in Request
<1> DEFINE p == [Idle EXCEPT !.op = op, !.id = id, !.to = s]
<1>1. p \in Request
  BY IdleTyped DEF Request
<1> HIDE DEF p
<1>2. [p EXCEPT !.driverTo = ds, !.repTo = rs] \in Request
  BY <1>1 DEF Request
<1>3. QED
  BY <1>2 DEF p

\* Force control of any job is sane, with or without an assignment.
LEMMA ForceRequestSane ==
  ASSUME asg.id \in Nat,
         NEW s \in JobTargets \cup {Unset},
         NEW ds \in LegTargets \cup {Unset},
         NEW rs \in LegTargets \cup {Unset},
         ForceRequest(s, ds, rs).op \in Ops
  PROVE  Sane(ForceRequest(s, ds, rs)) /\ Fresh(ForceRequest(s, ds, rs))
<1> DEFINE q  == ForceRequest(s, ds, rs)
           op == IF s = Unset THEN "forceLegs" ELSE "forceJob"
           id == IF ds = Unset /\ rs = Unset THEN 0 ELSE asg.id
<1>1. /\ op \in AllOps /\ id \in Nat /\ s \in JobStatus \cup {Unset}
      /\ ds \in PortalStatus \cup {Unset} /\ rs \in PortalStatus \cup {Unset}
  BY Constants DEF AllOps
<1> HIDE DEF op, id
<1>2. q \in Request
  BY <1>1, ForceTyped DEF ForceRequest, op, id
<1>3. /\ q.op = (IF s = Unset THEN "forceLegs" ELSE "forceJob") /\ q.to = s
      /\ q.id \in {0, asg.id} /\ Unpaid(q)
  BY IdleTyped DEF ForceRequest, Request, Unpaid
<1>4. q.op \in Ops
  OBVIOUS
<1> HIDE DEF q
<1>5. Sane(q) /\ Fresh(q)
  BY <1>2, <1>3, <1>4 DEF Sane, Fresh, LegOps
<1>6. QED
  BY <1>5 DEF q

\* The requests that name neither the assignment row nor a job status.
PlainOps == {"driverCollect", "repSurvey", "remove", "recalculate"}

\* A request that names neither a row nor a status is sane.
LEMMA PlainSane ==
  ASSUME NEW q \in Request, q.op \in PlainOps, q.op \in Ops, q.to = Unset,
         q.id = 0, Unpaid(q)
  PROVE  Sane(q) /\ Fresh(q)
  BY DEF Sane, Fresh, PlainOps, LegOps

\* Record updates keep the type of a request: the operation.
LEMMA WithOp ==
  ASSUME NEW x \in Request, NEW op \in AllOps
  PROVE  [x EXCEPT !.op = op] \in Request
  BY DEF Request

\* The same for the caller.
LEMMA WithCaller ==
  ASSUME NEW x \in Request, NEW op \in AllOps, NEW who \in Staff
  PROVE  [x EXCEPT !.op = op, !.who = who] \in Request
  BY DEF Request

\* The same for the collected flag.
LEMMA WithFlag ==
  ASSUME NEW x \in Request, NEW op \in AllOps, NEW who \in Staff,
         NEW b \in BOOLEAN
  PROVE  [x EXCEPT !.op = op, !.who = who, !.flag = b] \in Request
  BY DEF Request

\* The same for the driver.
LEMMA WithDriver ==
  ASSUME NEW x \in Request, NEW op \in AllOps,
         NEW d \in Drivers \cup {NoOne, Keep}
  PROVE  [x EXCEPT !.op = op, !.driver = d] \in Request
  BY DEF Request

\* The same for the job status.
LEMMA WithStatus ==
  ASSUME NEW x \in Request, NEW op \in AllOps, NEW s \in JobStatus
  PROVE  [x EXCEPT !.op = op, !.to = s] \in Request
  BY DEF Request

\* Marking the collection is sane.
LEMMA CollectSane ==
  ASSUME NEW d \in Drivers, NEW b \in BOOLEAN, "driverCollect" \in Ops
  PROVE  LET q == [Idle EXCEPT !.op = "driverCollect", !.who = d, !.flag = b]
         IN  Sane(q) /\ Fresh(q)
<1> DEFINE q == [Idle EXCEPT !.op = "driverCollect", !.who = d, !.flag = b]
<1>1. q \in Request
  BY IdleTyped, WithFlag DEF AllOps, Staff
<1>2. q.op = "driverCollect" /\ q.to = Unset /\ q.id = 0 /\ Unpaid(q)
  BY IdleTyped DEF Request, Unpaid
<1> HIDE DEF q
<1>3. Sane(q) /\ Fresh(q)
  BY <1>1, <1>2, PlainSane DEF PlainOps
<1>4. QED
  BY <1>3 DEF q

\* Handing in the survey is sane.
LEMMA SurveySane ==
  ASSUME NEW p \in Reps, "repSurvey" \in Ops
  PROVE  LET q == [Idle EXCEPT !.op = "repSurvey", !.who = p]
         IN  Sane(q) /\ Fresh(q)
<1> DEFINE q == [Idle EXCEPT !.op = "repSurvey", !.who = p]
<1>1. q \in Request
  BY IdleTyped, WithCaller DEF AllOps, Staff
<1>2. q.op = "repSurvey" /\ q.to = Unset /\ q.id = 0 /\ Unpaid(q)
  BY IdleTyped DEF Request, Unpaid
<1> HIDE DEF q
<1>3. Sane(q) /\ Fresh(q)
  BY <1>1, <1>2, PlainSane DEF PlainOps
<1>4. QED
  BY <1>3 DEF q

\* Removing the job is sane.
LEMMA RemoveSane ==
  ASSUME "remove" \in Ops
  PROVE  LET q == [Idle EXCEPT !.op = "remove"]
         IN  Sane(q) /\ Fresh(q)
<1> DEFINE q == [Idle EXCEPT !.op = "remove"]
<1>1. q \in Request
  BY IdleTyped, WithOp DEF AllOps
<1>2. q.op = "remove" /\ q.to = Unset /\ q.id = 0 /\ Unpaid(q)
  BY IdleTyped DEF Request, Unpaid
<1> HIDE DEF q
<1>3. Sane(q) /\ Fresh(q)
  BY <1>1, <1>2, PlainSane DEF PlainOps
<1>4. QED
  BY <1>3 DEF q

\* Backfilling a fee is sane.
LEMMA RecalculateSane ==
  ASSUME NEW d \in Drivers, "recalculate" \in Ops
  PROVE  LET q == [Idle EXCEPT !.op = "recalculate", !.driver = d]
         IN  Sane(q) /\ Fresh(q)
<1> DEFINE q == [Idle EXCEPT !.op = "recalculate", !.driver = d]
<1>1. q \in Request
  BY IdleTyped, WithDriver DEF AllOps
<1>2. q.op = "recalculate" /\ q.to = Unset /\ q.id = 0 /\ Unpaid(q)
  BY IdleTyped DEF Request, Unpaid
<1> HIDE DEF q
<1>3. Sane(q) /\ Fresh(q)
  BY <1>1, <1>2, PlainSane DEF PlainOps
<1>4. QED
  BY <1>3 DEF q

\* Assigning people and a car is sane.
LEMMA AssignSane ==
  ASSUME NEW d \in Drivers \cup {NoOne}, NEW p \in Reps \cup {NoOne},
         NEW c \in Cars, "assign" \in Ops
  PROVE  LET q == [Idle EXCEPT !.op = "assign", !.driver = d, !.rep = p,
                               !.car = c]
         IN  Sane(q) /\ Fresh(q)
<1> DEFINE q1 == [Idle EXCEPT !.op = "assign", !.driver = d]
<1>1. q1 \in Request
  BY IdleTyped, WithDriver DEF AllOps
<1>2. q1.op = "assign" /\ q1.driver = d /\ q1.to = Unset /\ q1.id = 0 /\ Unpaid(q1)
  BY IdleTyped DEF Request, Unpaid
<1> HIDE DEF q1
<1> DEFINE q == [q1 EXCEPT !.rep = p, !.car = c]
<1>3. q \in Request
  BY <1>1, Constants, WithRepAndCar
<1>4. /\ q.op = "assign" /\ q.driver = d /\ q.rep = p /\ q.to = Unset
      /\ q.id = 0 /\ Unpaid(q)
  BY <1>1, <1>2 DEF Request, Unpaid
<1> HIDE DEF q
<1>5. d # Keep /\ p # Keep
  BY Constants
<1>6. Sane(q) /\ Fresh(q)
  BY <1>3, <1>4, <1>5 DEF Sane, Fresh, LegOps
<1>7. QED
  BY <1>6 DEF q, q1

\* The office's status change is sane.
LEMMA OfficeSane ==
  ASSUME NEW s \in JobTargets, "officeStatus" \in Ops
  PROVE  LET q == [Idle EXCEPT !.op = "officeStatus", !.to = s]
         IN  Sane(q) /\ Fresh(q)
<1> DEFINE q == [Idle EXCEPT !.op = "officeStatus", !.to = s]
<1>1. s \in JobStatus
  BY Constants
<1>2. q \in Request
  BY <1>1, IdleTyped, WithStatus DEF AllOps
<1>3. q.op = "officeStatus" /\ q.to = s /\ q.id = 0 /\ Unpaid(q)
  BY IdleTyped DEF Request, Unpaid
<1> HIDE DEF q
<1>4. Sane(q) /\ Fresh(q)
  BY <1>2, <1>3 DEF Sane, Fresh, LegOps
<1>5. QED
  BY <1>4 DEF q

\* Every admission stores a sane and fresh request in a free slot.
Admitted(r) ==
  \E q : q.op \in Ops /\ Sane(q) /\ Fresh(q) /\ Admit(r, q)

\* Every admission stores a sane request that has decided nothing yet.
LEMMA AdmissionSane ==
  ASSUME TypeOK, NEW r \in Requests, Admission(r)
  PROVE  Admitted(r)
<1>1. /\ asg.id \in Nat /\ asg.driver \in Drivers \cup {NoOne}
      /\ asg.rep \in Reps \cup {NoOne}
      /\ asg.driverStatus \in PortalStatus
  BY DEF TypeOK, AssignmentRow
<1>2. ASSUME NEW op \in LegOps, NEW who \in Staff \cup {NoOne},
             op \notin {"unassign", "cron"} => who \in Staff,
             NEW ds \in PortalStatus \cup {Unset},
             NEW rs \in PortalStatus \cup {Unset},
             op \in {"driverStart", "repInPlace"} =>
               ds # "COMPLETED" /\ rs # "COMPLETED",
             asg.id # 0, Admit(r, LegRequest(op, who, ds, rs))
      PROVE  Admitted(r)
  <2>1. op \in Ops
    BY <1>2, LegRequestFields DEF Admit
  <2>2. Sane(LegRequest(op, who, ds, rs)) /\ Fresh(LegRequest(op, who, ds, rs))
    BY <1>1, <1>2, <2>1, LegRequestSane
  <2>3. QED
    BY <1>2, <2>1, <2>2 DEF Admitted, Admit
<1>3. CASE \E d \in Drivers : DriverPatch(r, d)
  <2>1. PICK d \in Drivers, s \in DriverTargets :
          DriverMay(d) /\ Admit(r, LegRequest("driverPatch", d, s, Unset))
    BY <1>3 DEF DriverPatch
  <2>2. s \in PortalStatus /\ "driverPatch" \in LegOps
    BY DEF DriverTargets, PortalStatus, LegOps
  <2>3. QED
    BY <1>2, <2>1, <2>2 DEF DriverMay, Staff
<1>4. CASE \E d \in Drivers : DriverStart(r, d)
  <2>1. PICK d \in Drivers : DriverStart(r, d)
    BY <1>4
  <2>2. PICK s \in {"IN_PROGRESS", Unset} :
          DriverMay(d) /\ Admit(r, LegRequest("driverStart", d, s, Unset))
    BY <2>1 DEF DriverStart
  <2>3. /\ "driverStart" \in LegOps
        /\ s \in PortalStatus \cup {Unset} /\ s # "COMPLETED"
        /\ Unset # "COMPLETED"
    BY DEF LegOps, PortalStatus, Unset
  <2>4. QED
    BY <1>2, <2>2, <2>3 DEF DriverMay, Staff
<1>5. CASE \E d \in Drivers : DriverComplete(r, d) \/ DriverNoShow(r, d)
  <2>1. PICK d \in Drivers, op \in {"driverComplete", "driverNoShow"},
             s \in {"COMPLETED", "NO_SHOW"} :
          DriverMay(d) /\ Admit(r, LegRequest(op, d, s, Unset))
    BY <1>5 DEF DriverComplete, DriverNoShow
  <2>2. s \in PortalStatus /\ op \in LegOps
    BY DEF PortalStatus, LegOps
  <2>3. QED
    BY <1>2, <2>1, <2>2 DEF DriverMay, Staff
<1>6. CASE \E d \in Drivers : DriverCollect(r, d)
  <2>1. PICK d \in Drivers, b \in BOOLEAN :
          Admit(r, [Idle EXCEPT !.op = "driverCollect", !.who = d, !.flag = b])
    BY <1>6 DEF DriverCollect
  <2>2. [Idle EXCEPT !.op = "driverCollect", !.who = d, !.flag = b].op
          = "driverCollect"
    BY IdleTyped DEF Request
  <2>3. QED
    BY <2>1, <2>2, CollectSane DEF Admitted, Admit
<1>7. CASE \E p \in Reps : \/ RepPatch(r, p) \/ RepInPlace(r, p)
                           \/ RepComplete(r, p) \/ RepNoShow(r, p)
  <2>1. PICK p \in Reps, op \in {"repPatch", "repInPlace", "repComplete",
                                 "repNoShow"},
             s \in {"COMPLETED", "NO_SHOW", "IN_PLACE", "CANCELLED"} :
          /\ asg.id # 0 /\ Admit(r, LegRequest(op, p, Unset, s))
          /\ op = "repInPlace" => s # "COMPLETED"
    BY <1>7 DEF RepPatch, RepInPlace, RepComplete, RepNoShow, RepMay, RepTargets
  <2>2. s \in PortalStatus /\ op \in LegOps /\ Unset # "COMPLETED"
    BY DEF PortalStatus, LegOps, Unset
  <2>3. QED
    BY <1>2, <2>1, <2>2 DEF Staff
<1>8. CASE \E p \in Reps : RepSurvey(r, p)
  <2>1. PICK p \in Reps :
          Admit(r, [Idle EXCEPT !.op = "repSurvey", !.who = p])
    BY <1>8 DEF RepSurvey
  <2>2. [Idle EXCEPT !.op = "repSurvey", !.who = p].op = "repSurvey"
    BY IdleTyped DEF Request
  <2>3. QED
    BY <2>1, <2>2, SurveySane DEF Admitted, Admit
<1>9. CASE Assign(r)
  <2>1. PICK d \in Drivers \cup {NoOne}, p \in Reps \cup {NoOne}, c \in Cars :
          Admit(r, [Idle EXCEPT !.op = "assign", !.driver = d, !.rep = p,
                                !.car = c])
    BY <1>9 DEF Assign
  <2>2. [Idle EXCEPT !.op = "assign", !.driver = d, !.rep = p, !.car = c].op
          = "assign"
    BY IdleTyped DEF Request
  <2>3. QED
    BY <2>1, <2>2, AssignSane DEF Admitted, Admit
<1>10. CASE Reassign(r)
  <2>1. PICK d \in Drivers \cup {NoOne, Keep}, p \in Reps \cup {NoOne, Keep},
             c \in Cars :
          asg.id # 0 /\ Admit(r, StaffRequest(d, p, c))
    BY <1>10 DEF Reassign
  <2>2. QED
    BY <1>1, <2>1, StaffRequestSane DEF Admitted, Admit
<1>11. CASE Unassign(r)
  <2>1. "unassign" \in LegOps
    BY DEF LegOps
  <2>2. QED
    BY <1>2, <1>11, <2>1 DEF Unassign
<1>12. CASE OfficeStatus(r)
  <2>1. PICK s \in JobTargets :
          Admit(r, [Idle EXCEPT !.op = "officeStatus", !.to = s])
    BY <1>12 DEF OfficeStatus
  <2>2. [Idle EXCEPT !.op = "officeStatus", !.to = s].op = "officeStatus"
    BY IdleTyped DEF Request
  <2>3. QED
    BY <2>1, <2>2, OfficeSane DEF Admitted, Admit
<1>13. CASE ForceControl(r)
  <2>1. PICK s \in JobTargets \cup {Unset}, ds \in LegTargets \cup {Unset},
             rs \in LegTargets \cup {Unset} :
          Admit(r, ForceRequest(s, ds, rs))
    BY <1>13 DEF ForceControl
  <2>2. QED
    BY <1>1, <2>1, ForceRequestSane DEF Admitted, Admit
<1>14. CASE Remove(r)
  <2>1. [Idle EXCEPT !.op = "remove"].op = "remove"
    BY IdleTyped DEF Request
  <2>2. QED
    BY <1>14, <2>1, RemoveSane DEF Remove, Admitted, Admit
<1>15. CASE Recalculate(r)
  <2>1. asg.driver \in Drivers
    BY <1>1, <1>15 DEF Recalculate
  <2>2. [Idle EXCEPT !.op = "recalculate", !.driver = asg.driver].op
          = "recalculate"
    BY IdleTyped DEF Request
  <2>3. QED
    BY <1>15, <2>1, <2>2, RecalculateSane DEF Recalculate, Admitted, Admit
<1>16. CASE CronList(r)
  <2>1. "cron" \in LegOps /\ "COMPLETED" \in PortalStatus
    BY DEF LegOps, PortalStatus
  <2>2. QED
    BY <1>2, <1>16, <2>1 DEF CronList
<1>17. QED
  BY <1>3, <1>4, <1>5, <1>6, <1>7, <1>8, <1>9, <1>10, <1>11, <1>12, <1>13,
     <1>14, <1>15, <1>16 DEF Admission

-----------------------------------------------------------------------------
(***************************************************************************)
(* The assignment rows the operations write.                               *)
(***************************************************************************)
\* Writing legs changes nobody's identity and takes no log line away.
SameLegs(b, a) ==
  /\ b.id = a.id /\ b.driver = a.driver /\ b.rep = a.rep
  /\ b.own = a.own /\ b.supplier = a.supplier

\* Whether a write logs is a truth value.
LEMMA LogsTyped == ASSUME NEW q PROVE Logs(q) \in BOOLEAN
  BY DEF Logs

\* Writing a leg keeps the row's type and its people.
LEMMA PatchedTyped ==
  ASSUME asg \in AssignmentRow, NEW q \in Request
  PROVE  /\ Patched(q) \in AssignmentRow /\ SameLegs(Patched(q), asg)
         /\ Patched(q).logged = (asg.logged \/ Logs(q))
<1>1. q.driverTo # Unset => q.driverTo \in PortalStatus
  BY DEF Request
<1>2. q.repTo # Unset => q.repTo \in PortalStatus
  BY DEF Request
<1>3. QED
  BY <1>1, <1>2, LogsTyped DEF Patched, AssignmentRow, SameLegs

\* So does closing the rep leg of a departure.
LEMMA DepartureTyped ==
  ASSUME NEW a \in AssignmentRow, NEW service
  PROVE  /\ CloseDepartureRep(service, a) \in AssignmentRow
         /\ SameLegs(CloseDepartureRep(service, a), a)
         /\ CloseDepartureRep(service, a).logged = a.logged
  BY DEF CloseDepartureRep, AssignmentRow, SameLegs, PortalStatus

\* So does the whole of a settling transaction's row.
LEMMA NextRowTyped ==
  ASSUME asg \in AssignmentRow, NEW q \in Request, NEW live
  PROVE  /\ NextRow(q, live) \in AssignmentRow
         /\ SameLegs(NextRow(q, live), asg)
         /\ NextRow(q, live).logged = (asg.logged \/ Logs(q))
  BY PatchedTyped, DepartureTyped DEF NextRow, SameLegs

\* What a reassignment never touches.
SameRow(b, a) == b.id = a.id /\ b.logged = a.logged

\* A reassignment keeps the row's type and identity: the car,
LEMMA SwitchCarTyped ==
  ASSUME NEW a \in AssignmentRow, NEW q \in Request
  PROVE  SwitchCar(q, a) \in AssignmentRow /\ SameRow(SwitchCar(q, a), a)
<1>1. CASE q.car = "supplier" /\ q.oldDriver = NoOne
  BY <1>1 DEF SwitchCar, AssignmentRow, SameRow
<1>2. CASE q.car = "supplier" /\ q.oldDriver # NoOne
  BY <1>2 DEF SwitchCar, AssignmentRow, SameRow, PortalStatus
<1>3. CASE q.car = "own"
  BY <1>3 DEF SwitchCar, AssignmentRow, SameRow
<1>4. CASE q.car \notin {"supplier", "own"}
  BY <1>4 DEF SwitchCar, AssignmentRow, SameRow
<1>5. QED
  BY <1>1, <1>2, <1>3, <1>4

\* the driver,
LEMMA SwitchDriverTyped ==
  ASSUME NEW a \in AssignmentRow, NEW q \in Request
  PROVE  SwitchDriver(q, a) \in AssignmentRow /\ SameRow(SwitchDriver(q, a), a)
<1>1. q.driver # Keep => q.driver \in Drivers \cup {NoOne}
  BY DEF Request
<1>2. QED
  BY <1>1 DEF SwitchDriver, AssignmentRow, SameRow, PortalStatus

\* the rep,
LEMMA SwitchRepTyped ==
  ASSUME NEW a \in AssignmentRow, NEW q \in Request
  PROVE  SwitchRep(q, a) \in AssignmentRow /\ SameRow(SwitchRep(q, a), a)
<1>1. q.rep # Keep => q.rep \in Reps \cup {NoOne}
  BY DEF Request
<1>2. QED
  BY <1>1 DEF SwitchRep, AssignmentRow, SameRow, PortalStatus

\* and the three together.
LEMMA ReassignedTyped ==
  ASSUME asg \in AssignmentRow, NEW q \in Request
  PROVE  LET b == SwitchRep(q, SwitchDriver(q, SwitchCar(q, asg)))
         IN  b \in AssignmentRow /\ SameRow(b, asg)
  BY SwitchCarTyped, SwitchDriverTyped, SwitchRepTyped DEF SameRow

-----------------------------------------------------------------------------
(***************************************************************************)
(* Requests that take a row lock and carry on.                             *)
(***************************************************************************)
\* What a request was admitted for does not change while it runs.
SameAim(x, q) ==
  /\ x.op = q.op /\ x.who = q.who /\ x.driver = q.driver /\ x.rep = q.rep
  /\ x.car = q.car

\* ... and so are the legs it writes, once it locks the assignment.
SameTargets(x, q) == x.driverTo = q.driverTo /\ x.repTo = q.repTo

Payees(y, od, or) == y.oldDriver = od /\ y.oldRep = or
Pays(y, pd, pr)   == y.payDriver = pd /\ y.payRep = pr
Lives(y, live)    == y.live = live

\* The fees due to the people that request y saw are there, or it inserts them.
DuePaid(y) ==
  /\ y.oldDriver # NoOne /\ job.routed =>
       y.payDriver \/ driverFees[y.oldDriver] > 0
  /\ y.oldRep # NoOne /\ job.service = "ARR" =>
       y.payRep \/ repFees[y.oldRep] > 0

\* Record updates keep the type of a request: what Reconcile decides.
LEMMA WithDecision ==
  ASSUME NEW x \in Request, NEW live \in BOOLEAN,
         NEW to \in JobStatus \cup {Unset}
  PROVE  LET y == [x EXCEPT !.live = live, !.to = to]
         IN  /\ y \in Request /\ SameAim(y, x) /\ SameTargets(y, x)
             /\ y.id = x.id /\ y.to = to /\ Lives(y, live)
<1>1. [x EXCEPT !.live = live, !.to = to] \in Request
  BY DEF Request
<1>2. SameAim([x EXCEPT !.live = live, !.to = to], x)
  BY DEF Request, SameAim
<1>3. QED
  BY <1>1, <1>2 DEF Request, SameTargets, Lives

\* The same for the people to pay.
LEMMA WithPayees ==
  ASSUME NEW x \in Request, NEW od \in Drivers \cup {NoOne},
         NEW or \in Reps \cup {NoOne}
  PROVE  LET y == [x EXCEPT !.oldDriver = od, !.oldRep = or]
         IN  /\ y \in Request /\ SameAim(y, x) /\ SameTargets(y, x)
             /\ Lives(y, x.live)
             /\ y.id = x.id /\ y.to = x.to /\ Payees(y, od, or)
             /\ Pays(y, x.payDriver, x.payRep)
<1>1. [x EXCEPT !.oldDriver = od, !.oldRep = or] \in Request
  BY DEF Request
<1>2. SameAim([x EXCEPT !.oldDriver = od, !.oldRep = or], x)
  BY DEF Request, SameAim
<1>3. QED
  BY <1>1, <1>2 DEF Request, SameTargets, Lives, Payees, Pays


\* The same for the fees that are due.
LEMMA WithFees ==
  ASSUME NEW x \in Request, NEW pd \in BOOLEAN, NEW pr \in BOOLEAN
  PROVE  LET y == [x EXCEPT !.payDriver = pd, !.payRep = pr]
         IN  /\ y \in Request /\ SameAim(y, x) /\ SameTargets(y, x)
             /\ Lives(y, x.live)
             /\ y.id = x.id /\ y.to = x.to
             /\ Payees(y, x.oldDriver, x.oldRep) /\ Pays(y, pd, pr)
<1>1. [x EXCEPT !.payDriver = pd, !.payRep = pr] \in Request
  BY DEF Request
<1>2. SameAim([x EXCEPT !.payDriver = pd, !.payRep = pr], x)
  BY DEF Request, SameAim
<1>3. QED
  BY <1>1, <1>2 DEF Request, SameTargets, Lives, Payees, Pays


\* The same for the row it names.
LEMMA WithId ==
  ASSUME NEW x \in Request, NEW id \in Nat
  PROVE  LET y == [x EXCEPT !.id = id]
         IN  /\ y \in Request /\ SameAim(y, x)
             /\ y.id = id /\ y.to = x.to /\ Pays(y, x.payDriver, x.payRep)
<1>1. [x EXCEPT !.id = id] \in Request
  BY DEF Request
<1>2. SameAim([x EXCEPT !.id = id], x)
  BY DEF Request, SameAim
<1>3. QED
  BY <1>1, <1>2 DEF Request, Pays

\* The same for the leg statuses it aims at.
LEMMA WithLegs ==
  ASSUME NEW x \in Request, NEW ds \in PortalStatus
  PROVE  LET y == [x EXCEPT !.driverTo = ds, !.repTo = ds]
         IN  /\ y \in Request /\ SameAim(y, x)
             /\ y.id = x.id /\ y.to = x.to /\ Pays(y, x.payDriver, x.payRep)
<1>1. [x EXCEPT !.driverTo = ds, !.repTo = ds] \in Request
  BY DEF Request
<1>2. SameAim([x EXCEPT !.driverTo = ds, !.repTo = ds], x)
  BY DEF Request, SameAim
<1>3. QED
  BY <1>1, <1>2 DEF Request, Pays

\* The request of r after it took a row lock: y in its slot, the others as
\* they were.
Held(r, y) == /\ req' \in [Requests -> Request] /\ req'[r] = y
              /\ \A s \in Requests \ {r} : req'[s] = req[s]

\* A roll-up that is about to leave clear legs behind finishes the job, unless
\* the job is final or deleted.
Clearing(q) ==
  LegsClear(NextRow(q, q.live)) =>
    q.to = "COMPLETED" \/ job.status \in Terminal \/ job.deleted

\* What reconcileJobStatus leaves in its caller's request.
Reconciled(r, y) ==
  /\ Held(r, y)
  /\ y \in Request /\ SameAim(y, req[r]) /\ SameTargets(y, req[r])
  /\ y.id = req[r].id
  /\ Clearing(y)
  /\ Payees(y, asg.driver, asg.rep) /\ (y.to = "COMPLETED" => DuePaid(y))
  /\ \/ y.to = Unset
     \/ y.to = "COMPLETED" /\ RollsUp(job) /\ job.status # "COMPLETED"
  /\ y.payDriver => y.oldDriver \in Drivers /\ driverFees[y.oldDriver] = 0
  /\ y.payRep => y.oldRep \in Reps /\ repFees[y.oldRep] = 0

\* A settling transaction moves statuses, never people.
LEMMA NextRowSame ==
  ASSUME NEW x, NEW q, SameAim(x, q), SameTargets(x, q), NEW live
  PROVE  NextRow(x, live) = NextRow(q, live)
<1>1. Logs(x) = Logs(q)
  BY DEF SameAim, SameTargets, Logs
<1>2. Patched(x) = Patched(q)
  BY <1>1 DEF SameTargets, Patched
<1>3. QED
  BY <1>2 DEF NextRow

\* A fee is due to who is there to be paid and has not been.
LEMMA FeesDue ==
  ASSUME TypeOK, NEW a, a.driver \in Drivers \cup {NoOne}, a.rep \in Reps \cup {NoOne}
  PROVE  LET due == FeeDue(a)
         IN  /\ due.driver \in BOOLEAN /\ due.rep \in BOOLEAN
             /\ due.driver => a.driver \in Drivers /\ driverFees[a.driver] = 0
             /\ due.rep => a.rep \in Reps /\ repFees[a.rep] = 0
             /\ a.driver # NoOne /\ job.routed => due.driver \/ driverFees[a.driver] > 0
             /\ a.rep # NoOne /\ job.service = "ARR" => due.rep \/ repFees[a.rep] > 0
<1>1. /\ a.driver # NoOne => driverFees[a.driver] \in Nat
      /\ a.rep # NoOne => repFees[a.rep] \in Nat
  BY DEF TypeOK
<1>2. QED
  BY <1>1 DEF FeeDue

\* What the roll-up does to its slot, and to nothing else.
LEMMA ReconcileEffect ==
  ASSUME TypeOK, NEW r \in Requests, Reconcile(r)
  PROVE  \E y : Reconciled(r, y)
<1> DEFINE q    == req[r]
           live == RollsUp(job)
           row  == NextRow(q, live)
           done == Finished(q, live, row)
           due  == FeeDue(row)
           to   == IF done /\ job.status # "COMPLETED" THEN "COMPLETED"
                                                       ELSE Unset
<1>1. q \in Request
  BY DEF TypeOK
<1>2. live \in BOOLEAN /\ done \in BOOLEAN /\ to \in JobStatus \cup {Unset}
  BY DEF RollsUp, Finished, JobStatus
<1>3. row \in AssignmentRow /\ row.driver = asg.driver /\ row.rep = asg.rep
  BY <1>1, NextRowTyped DEF TypeOK, SameLegs
<1>4. /\ row.driver \in Drivers \cup {NoOne} /\ row.rep \in Reps \cup {NoOne}
      /\ (done /\ due.driver) \in BOOLEAN /\ (done /\ due.rep) \in BOOLEAN
      /\ due.driver => row.driver \in Drivers /\ driverFees[row.driver] = 0
      /\ due.rep => row.rep \in Reps /\ repFees[row.rep] = 0
      /\ row.driver # NoOne /\ job.routed => due.driver \/ driverFees[row.driver] > 0
      /\ row.rep # NoOne /\ job.service = "ARR" => due.rep \/ repFees[row.rep] > 0
  <2> HIDE DEF row, done
  <2>1. row.driver \in Drivers \cup {NoOne} /\ row.rep \in Reps \cup {NoOne}
    BY <1>3 DEF AssignmentRow
  <2>2. QED
    BY <1>2, <2>1, FeesDue
<1>5. done => RollsUp(job)
  BY DEF Finished
<1>6. req' = [req EXCEPT ![r] =
          [q EXCEPT !.live = live, !.to = to,
                    !.oldDriver = row.driver, !.oldRep = row.rep,
                    !.payDriver = done /\ due.driver,
                    !.payRep = done /\ due.rep]]
  BY DEF Reconcile
<1> HIDE DEF q, live, row, done, due
<1>7. PICK pd \in BOOLEAN, pr \in BOOLEAN :
        pd = (done /\ due.driver) /\ pr = (done /\ due.rep)
  BY <1>4
<1>8. PICK od \in Drivers \cup {NoOne}, or \in Reps \cup {NoOne} :
        od = row.driver /\ or = row.rep
  BY <1>4
<1>9. to = Unset \/ (to = "COMPLETED" /\ done /\ job.status # "COMPLETED")
  OBVIOUS
<1>10. LegsClear(row) =>
         to = "COMPLETED" \/ job.status \in Terminal \/ job.deleted
  BY DEF done, live, Finished, RollsUp, Parked, Terminal
<1> HIDE DEF to
<1> DEFINE y1 == [q EXCEPT !.live = live, !.to = to]
<1>11. /\ y1 \in Request /\ SameAim(y1, q) /\ SameTargets(y1, q)
       /\ y1.id = q.id /\ y1.to = to /\ Lives(y1, live)
  BY <1>1, <1>2, WithDecision
<1> HIDE DEF y1
<1> DEFINE y2 == [y1 EXCEPT !.oldDriver = od, !.oldRep = or]
<1>12. /\ y2 \in Request /\ SameAim(y2, y1) /\ SameTargets(y2, y1)
       /\ Lives(y2, y1.live)
       /\ y2.id = y1.id /\ y2.to = y1.to /\ Payees(y2, od, or)
  BY <1>11, WithPayees
<1> HIDE DEF y2
<1> DEFINE y == [y2 EXCEPT !.payDriver = pd, !.payRep = pr]
<1>13. /\ y \in Request /\ SameAim(y, y2) /\ SameTargets(y, y2)
       /\ Lives(y, y2.live)
       /\ y.id = y2.id /\ y.to = y2.to
       /\ Payees(y, y2.oldDriver, y2.oldRep) /\ Pays(y, pd, pr)
  BY <1>12, WithFees
<1>14. req' = [req EXCEPT ![r] = y]
  BY <1>6, <1>7, <1>8 DEF y1, y2
<1> HIDE DEF y
<1>15. Held(r, y)
  BY <1>13, <1>14 DEF TypeOK, Held
<1>16. SameAim(y, q) /\ SameTargets(y, q) /\ y.id = q.id /\ y.to = to
  BY <1>11, <1>12, <1>13 DEF SameAim, SameTargets
<1>17. Clearing(y)
  <2>1. y.live = live
    BY <1>11, <1>12, <1>13 DEF Lives
  <2>2. NextRow(y, y.live) = row
    BY <1>16, <2>1, NextRowSame DEF row
  <2>3. QED
    BY <1>10, <1>16, <2>2 DEF Clearing
<1>18. Payees(y, row.driver, row.rep) /\ Pays(y, done /\ due.driver, done /\ due.rep)
  BY <1>7, <1>8, <1>12, <1>13 DEF Payees, Pays
<1>19. Payees(y, asg.driver, asg.rep) /\ (y.to = "COMPLETED" => DuePaid(y))
  BY <1>3, <1>4, <1>9, <1>16, <1>18 DEF Payees, Pays, DuePaid, Unset
<1>20. Reconciled(r, y)
  BY <1>4, <1>5, <1>9, <1>13, <1>15, <1>16, <1>17, <1>18, <1>19
     DEF Reconciled, q, Payees, Pays
<1>21. QED
  BY <1>20

\* What the office's terminal status change knows once it locks the job.
TookJob(r, y) ==
  /\ Held(r, y)
  /\ y \in Request /\ SameAim(y, req[r]) /\ y.id = asg.id /\ y.to = req[r].to
  /\ Pays(y, req[r].payDriver, req[r].payRep)
  /\ Payees(y, asg.driver, asg.rep)

\* What the office's job lock does to its slot.
LEMMA OfficeTakesJobEffect ==
  ASSUME TypeOK, NEW r \in Requests, OfficeTakesJob(r)
  PROVE  \E y : TookJob(r, y)
<1> DEFINE q == req[r]
<1>1. q \in Request /\ asg.id \in Nat
  BY DEF TypeOK, AssignmentRow
<1>2. asg.driver \in Drivers \cup {NoOne} /\ asg.rep \in Reps \cup {NoOne}
  BY DEF TypeOK, AssignmentRow
<1>3. q.to \in PortalStatus
  BY DEF OfficeTakesJob, OfficeCloses, Terminal, PortalStatus
<1>4. req' = [req EXCEPT ![r] =
          [q EXCEPT !.id = asg.id, !.driverTo = q.to, !.repTo = q.to,
                    !.oldDriver = asg.driver, !.oldRep = asg.rep]]
  BY DEF OfficeTakesJob
<1>5. PICK od \in Drivers \cup {NoOne}, or \in Reps \cup {NoOne}, id \in Nat,
           to \in PortalStatus :
        od = asg.driver /\ or = asg.rep /\ id = asg.id /\ to = q.to
  BY <1>1, <1>2, <1>3
<1> HIDE DEF q
<1> DEFINE y1 == [q EXCEPT !.id = id]
<1>6. /\ y1 \in Request /\ SameAim(y1, q) /\ y1.id = id /\ y1.to = q.to
      /\ Pays(y1, q.payDriver, q.payRep)
  BY <1>1, WithId
<1> HIDE DEF y1
<1> DEFINE y2 == [y1 EXCEPT !.driverTo = to, !.repTo = to]
<1>7. /\ y2 \in Request /\ SameAim(y2, y1) /\ y2.id = y1.id /\ y2.to = y1.to
      /\ Pays(y2, y1.payDriver, y1.payRep)
  BY <1>6, WithLegs
<1> HIDE DEF y2
<1> DEFINE y == [y2 EXCEPT !.oldDriver = od, !.oldRep = or]
<1>8. /\ y \in Request /\ SameAim(y, y2) /\ y.id = y2.id /\ y.to = y2.to
      /\ Pays(y, y2.payDriver, y2.payRep) /\ Payees(y, od, or)
  BY <1>7, WithPayees
<1>9. req' = [req EXCEPT ![r] = y]
  BY <1>4, <1>5 DEF y1, y2
<1> HIDE DEF y
<1>10. Held(r, y)
  BY <1>8, <1>9 DEF TypeOK, Held
<1>11. TookJob(r, y)
  BY <1>5, <1>6, <1>7, <1>8, <1>10 DEF TookJob, SameAim, Pays, Payees, q
<1>12. QED
  BY <1>11

\* What a survey takes down with its own lock: nothing but the rep's fee.
Surveyed(r, y) ==
  /\ Held(r, y) /\ UNCHANGED <<rows, clock, lock>>
  /\ y \in Request /\ SameAim(y, req[r]) /\ SameTargets(y, req[r])
  /\ y.op = "repSurvey" /\ y.id = req[r].id /\ y.to = req[r].to

\* What looking for the fee does to the survey's slot.
LEMMA SurveyLooksEffect ==
  ASSUME TypeOK, NEW r \in Requests, SurveyLooks(r)
  PROVE  \E y : Surveyed(r, y)
<1> DEFINE q    == req[r]
           pays == repFees[q.who] = 0
           x    == [q EXCEPT !.live = TRUE]
           y    == [x EXCEPT !.payRep = pays]
<1>1. q \in Request /\ q.op = "repSurvey" /\ pays \in BOOLEAN
  BY DEF TypeOK, SurveyLooks
<1>2. req' = [req EXCEPT ![r] = y] /\ UNCHANGED <<rows, clock, lock>>
  BY DEF SurveyLooks
<1> HIDE DEF q, pays
<1>3. /\ x \in Request /\ SameAim(x, q) /\ SameTargets(x, q)
      /\ x.id = q.id /\ x.to = q.to
  BY <1>1 DEF Request, SameAim, SameTargets
<1> HIDE DEF x
<1>4. y \in Request
  BY <1>1, <1>3 DEF Request
<1>5. SameAim(y, x) /\ SameTargets(y, x) /\ y.id = x.id /\ y.to = x.to
  BY <1>3 DEF Request, SameAim, SameTargets
<1> HIDE DEF y
<1>6. Held(r, y)
  BY <1>2, <1>4 DEF TypeOK, Held
<1>7. y.op = "repSurvey"
  BY <1>1, <1>3, <1>5 DEF SameAim
<1>8. QED
  BY <1>2, <1>3, <1>4, <1>5, <1>6, <1>7 DEF Surveyed, SameAim, SameTargets, q

\* What it has decided once it locks the legs as well.
TookLegs(r, y) ==
  /\ Held(r, y)
  /\ y \in Request /\ SameAim(y, req[r]) /\ y.id = req[r].id
  /\ y.to = req[r].to /\ Payees(y, req[r].oldDriver, req[r].oldRep)
  /\ SameTargets(y, req[r]) /\ (y.to = "COMPLETED" => DuePaid(y))
  /\ y.payDriver => y.oldDriver \in Drivers /\ driverFees[y.oldDriver] = 0
  /\ y.payRep => y.oldRep \in Reps /\ repFees[y.oldRep] = 0

\* What the office's assignment lock does to its slot.
LEMMA OfficeTakesLegsEffect ==
  ASSUME TypeOK, NEW r \in Requests, OfficeTakesLegs(r)
  PROVE  \E y : TookLegs(r, y)
<1> DEFINE q   == req[r]
           due == FeeDue([driver |-> q.oldDriver, rep |-> q.oldRep])
<1>1. q \in Request
  BY DEF TypeOK
<1>2. q.oldDriver \in Drivers \cup {NoOne} /\ q.oldRep \in Reps \cup {NoOne}
  BY <1>1 DEF Request
<1>3. req' = [req EXCEPT ![r] =
          [q EXCEPT !.payDriver = q.to = "COMPLETED" /\ due.driver,
                    !.payRep = q.to = "COMPLETED" /\ due.rep]]
  BY DEF OfficeTakesLegs
<1> HIDE DEF q
<1>4. /\ due.driver \in BOOLEAN /\ due.rep \in BOOLEAN
      /\ due.driver => q.oldDriver \in Drivers /\ driverFees[q.oldDriver] = 0
      /\ due.rep => q.oldRep \in Reps /\ repFees[q.oldRep] = 0
      /\ q.oldDriver # NoOne /\ job.routed => due.driver \/ driverFees[q.oldDriver] > 0
      /\ q.oldRep # NoOne /\ job.service = "ARR" => due.rep \/ repFees[q.oldRep] > 0
  BY <1>2, FeesDue
<1> HIDE DEF due
<1>5. PICK pd \in BOOLEAN, pr \in BOOLEAN :
        /\ pd = (q.to = "COMPLETED" /\ due.driver)
        /\ pr = (q.to = "COMPLETED" /\ due.rep)
  BY <1>4
<1> DEFINE y == [q EXCEPT !.payDriver = pd, !.payRep = pr]
<1>6. /\ y \in Request /\ SameAim(y, q) /\ SameTargets(y, q)
      /\ y.id = q.id /\ y.to = q.to
      /\ Payees(y, q.oldDriver, q.oldRep) /\ Pays(y, pd, pr)
  BY <1>1, WithFees
<1>7. req' = [req EXCEPT ![r] = y]
  BY <1>3, <1>5
<1> HIDE DEF y
<1>8. Held(r, y)
  BY <1>6, <1>7 DEF TypeOK, Held
<1>9. y.to = "COMPLETED" => DuePaid(y)
  BY <1>4, <1>5, <1>6 DEF Payees, Pays, DuePaid
<1>10. TookLegs(r, y)
  BY <1>4, <1>5, <1>6, <1>8, <1>9 DEF TookLegs, SameAim, Payees, Pays, q
<1>11. QED
  BY <1>10

\* A commit or a rollback frees the slot and exactly its own locks.
LEMMA DoneEffect ==
  ASSUME TypeOK, NEW r \in Requests, Done(r)
  PROVE  /\ Held(r, Idle)
         /\ lock'.job = IF lock.job = r THEN NoRequest ELSE lock.job
         /\ lock'.asg = IF lock.asg = r THEN NoRequest ELSE lock.asg
         /\ lock' \in [job: Requests \cup {NoRequest},
                       asg: Requests \cup {NoRequest}]
         /\ UNCHANGED clock
  BY IdleTyped DEF TypeOK, Done, Held, Free

\* An admission fills one slot and takes no lock.
LEMMA AdmitEffect ==
  ASSUME TypeOK, NEW r \in Requests, NEW q \in Request, Admit(r, q)
  PROVE  Held(r, q) /\ req[r].op = "idle" /\ UNCHANGED <<rows, clock, lock>>
  BY DEF TypeOK, Admit, Held

-----------------------------------------------------------------------------
(***************************************************************************)
(* Type correctness.  TypeOK is not inductive by itself: a row gets its    *)
(* types from the request that writes it, and an assign request without    *)
(* people, or an evidence request without a submitter, would be typed as   *)
(* well.  TypeInv adds that every request is sane.                         *)
(***************************************************************************)
RowsOK ==
  /\ job \in JobRow /\ asg \in AssignmentRow /\ lastId \in Nat
  /\ driverFees \in [Drivers -> Nat] /\ repFees \in [Reps -> Nat]
  /\ evidence \subseteq EvidenceKinds \X Staff

ClockOK == phase \in 0..4 /\ day \in 0..2 /\ unlocked \subseteq {"driver", "rep"}

SlotsOK ==
  /\ req \in [Requests -> Request]
  /\ \A r \in Requests : Sane(req[r])
  /\ lock \in [job: Requests \cup {NoRequest}, asg: Requests \cup {NoRequest}]

TypeInv == RowsOK /\ ClockOK /\ SlotsOK

\* The inductive type invariant implies the checked one.
LEMMA TypeInvTyped == TypeInv => TypeOK
  BY DEF TypeInv, RowsOK, ClockOK, SlotsOK, TypeOK

\* Changing one slot to a sane request keeps every slot sane.
LEMMA SlotsKept ==
  ASSUME SlotsOK, NEW r \in Requests, NEW y, Held(r, y), Sane(y),
         lock' \in [job: Requests \cup {NoRequest},
                   asg: Requests \cup {NoRequest}]
  PROVE  SlotsOK'
<1>1. ASSUME NEW s \in Requests PROVE Sane(req'[s])
  <2>1. CASE s = r
    BY <2>1 DEF Held
  <2>2. CASE s # r
    <3>1. req'[s] = req[s]
      BY <2>2 DEF Held
    <3>2. Sane(req[s])
      BY DEF SlotsOK
    <3>3. QED
      BY <3>1, <3>2
  <2>3. QED
    BY <2>1, <2>2
<1>2. (\A s \in Requests : Sane(req[s]))'
  BY <1>1 DEF Sane
<1>3. QED
  BY <1>2 DEF SlotsOK, Held

\* So does freeing it.
LEMMA DoneSlots ==
  ASSUME TypeInv, NEW r \in Requests, Done(r)
  PROVE  SlotsOK' /\ ClockOK'
<1>1. Held(r, Idle) /\ UNCHANGED clock
      /\ lock' \in [job: Requests \cup {NoRequest},
                    asg: Requests \cup {NoRequest}]
  BY TypeInvTyped, DoneEffect
<1>2. SlotsOK'
  BY <1>1, IdleSane, SlotsKept DEF TypeInv
<1>3. QED
  BY <1>1, <1>2 DEF TypeInv, ClockOK, clock

\* A status change keeps the job row's type.
LEMMA StatusTyped ==
  ASSUME job \in JobRow, NEW s \in JobStatus
  PROVE  [job EXCEPT !.status = s] \in JobRow
  BY DEF JobRow

\* Filed evidence is of a known kind and of somebody on the staff.
LEMMA EvidenceTyped ==
  ASSUME evidence \subseteq EvidenceKinds \X Staff, NEW q, Sane(q),
         FileEvidence(q)
  PROVE  evidence' \subseteq EvidenceKinds \X Staff
<1>1. Evidence(q) \subseteq EvidenceKinds \X Staff
  <2>1. CASE q.op \in LegOps \ {"unassign", "cron"}
    <3>1. q.who \in Staff
      BY <2>1 DEF Sane
    <3>2. QED
      BY <3>1 DEF Evidence, EvidenceKinds
  <2>2. CASE q.op \notin LegOps \ {"unassign", "cron"}
    BY <2>2 DEF Evidence, LegOps
  <2>3. QED
    BY <2>1, <2>2
<1>2. QED
  BY <1>1 DEF FileEvidence

\* The type invariant holds at the start.
LEMMA InitTyped == Init => TypeInv
<1> SUFFICES ASSUME Init PROVE TypeInv
  OBVIOUS
<1>1. RowsOK
  <2>1. job \in JobRow
    BY Constants DEF Init, JobRow, JobStatus
  <2>2. asg \in AssignmentRow
    BY DEF Init, NoAssignment, AssignmentRow, PortalStatus
  <2>3. QED
    BY <2>1, <2>2 DEF Init, RowsOK
<1>2. ClockOK
  BY Constants DEF Init, ClockOK
<1>3. SlotsOK
  BY IdleTyped, IdleSane DEF Init, SlotsOK
<1>4. QED
  BY <1>1, <1>2, <1>3 DEF TypeInv

\* The clock and the portal locks preserve it.
LEMMA EnvironmentTyped ==
  ASSUME TypeInv, Environment
  PROVE  TypeInv'
<1>1. RowsOK' /\ SlotsOK'
  BY DEF TypeInv, RowsOK, SlotsOK, Sane, Environment, Tick, ReportDelay,
         UnlockPortal, LockPortal, rows
<1>2. ClockOK'
  <2>1. CASE Tick
    BY <2>1 DEF TypeInv, ClockOK, Tick
  <2>2. CASE \E p \in Reps : ReportDelay(p)
    BY <2>2, Constants DEF TypeInv, ClockOK, ReportDelay
  <2>3. CASE \E portal \in {"driver", "rep"} :
               UnlockPortal(portal) \/ LockPortal(portal)
    BY <2>3 DEF TypeInv, ClockOK, UnlockPortal, LockPortal
  <2>4. QED
    BY <2>1, <2>2, <2>3 DEF Environment
<1>3. QED
  BY <1>1, <1>2 DEF TypeInv

\* Every admission preserves it.
LEMMA AdmissionTyped ==
  ASSUME TypeInv, NEW r \in Requests, Admission(r)
  PROVE  TypeInv'
<1>1. PICK q : Sane(q) /\ Admit(r, q)
  BY TypeInvTyped, AdmissionSane DEF Admitted
<1>2. Held(r, q) /\ UNCHANGED <<rows, clock, lock>>
  BY <1>1, TypeInvTyped, AdmitEffect DEF Sane
<1>3. SlotsOK'
  BY <1>1, <1>2, SlotsKept DEF TypeInv, SlotsOK
<1>4. RowsOK' /\ ClockOK'
  BY <1>2 DEF TypeInv, RowsOK, ClockOK, rows, clock
<1>5. QED
  BY <1>3, <1>4 DEF TypeInv

\* A request stays sane while it takes its locks.
LEMMA HoldingTyped ==
  ASSUME TypeInv, NEW r \in Requests,
         \/ Reconcile(r) \/ OfficeTakesJob(r) \/ OfficeTakesLegs(r)
         \/ SurveyLooks(r)
  PROVE  TypeInv'
<1>1. Sane(req[r])
  BY DEF TypeInv, SlotsOK
<1>2. \E y : Held(r, y) /\ Sane(y)
  <2>1. CASE Reconcile(r)
    <3>1. PICK y : Reconciled(r, y)
      BY <2>1, TypeInvTyped, ReconcileEffect
    <3>2. req[r].op \notin {"officeStatus", "reassign", "assign"}
      BY <2>1 DEF Reconcile, Reconciles
    <3>3. Sane(y)
      BY <1>1, <2>1, <3>1, <3>2
         DEF Reconciled, SameAim, Sane, Reconcile, Reconciles
    <3>4. QED
      BY <3>1, <3>3 DEF Reconciled
  <2>2. CASE OfficeTakesJob(r)
    <3>1. PICK y : TookJob(r, y)
      BY <2>2, TypeInvTyped, OfficeTakesJobEffect
    <3>2. req[r].op = "officeStatus"
      BY <2>2 DEF OfficeTakesJob, OfficeCloses
    <3>3. Sane(y)
      BY <1>1, <3>1, <3>2 DEF TookJob, SameAim, Sane, LegOps
    <3>4. QED
      BY <3>1, <3>3 DEF TookJob
  <2>3. CASE OfficeTakesLegs(r)
    <3>1. PICK y : TookLegs(r, y)
      BY <2>3, TypeInvTyped, OfficeTakesLegsEffect
    <3>2. Sane(y)
      BY <1>1, <3>1 DEF TookLegs, SameAim, SameTargets, Payees, Sane, Reconciles
    <3>3. QED
      BY <3>1, <3>2 DEF TookLegs
  <2>4. CASE SurveyLooks(r)
    <3>1. PICK y : Surveyed(r, y)
      BY <2>4, TypeInvTyped, SurveyLooksEffect
    <3>2. Sane(y)
      BY <1>1, <3>1 DEF Surveyed, SameAim, SameTargets, Sane, LegOps, Reconciles
    <3>3. QED
      BY <3>1, <3>2 DEF Surveyed
  <2>5. QED
    BY <2>1, <2>2, <2>3, <2>4
<1>3. /\ UNCHANGED <<rows, clock>>
      /\ lock' \in [job: Requests \cup {NoRequest},
                    asg: Requests \cup {NoRequest}]
  BY DEF TypeInv, SlotsOK, Reconcile, OfficeTakesJob, OfficeTakesLegs,
         SurveyLooks
<1>4. SlotsOK'
  BY <1>2, <1>3, SlotsKept DEF TypeInv
<1>5. RowsOK' /\ ClockOK'
  BY <1>3 DEF TypeInv, RowsOK, ClockOK, rows, clock
<1>6. QED
  BY <1>4, <1>5 DEF TypeInv

\* The last step of a request.
Ending(r) ==
  \/ Settle(r) \/ WriteLeg(r) \/ WriteNoShow(r) \/ WriteCollected(r)
  \/ WriteSurvey(r) \/ WriteAssignment(r) \/ WriteReassignment(r)
  \/ WriteUnassignment(r) \/ WriteStatus(r) \/ WriteForced(r)
  \/ WriteRemoved(r) \/ WriteBackfill(r) \/ Abort(r) \/ Crash(r)

\* Every step that ends a request commits or rolls back.
LEMMA EndingIsDone == ASSUME NEW r, Ending(r) PROVE Done(r)
  BY DEF Ending, Settle, WriteLeg, WriteNoShow, WriteCollected, WriteSurvey,
         WriteAssignment, WriteReassignment, WriteUnassignment, WriteStatus,
         WriteForced, WriteRemoved, WriteBackfill, Abort, Crash

\* A job status that is not left alone is one of the enum.
LEMMA ToTyped ==
  ASSUME NEW q \in Request, q.to # Unset
  PROVE  q.to \in JobStatus
  BY DEF Request

\* Paying one person keeps the fees countable.
LEMMA FeeTyped ==
  ASSUME NEW S, NEW f \in [S -> Nat], NEW x
  PROVE  [f EXCEPT ![x] = @ + 1] \in [S -> Nat]
<1>1. CASE x \in S
  BY <1>1
<1>2. CASE x \notin S
  BY <1>2
<1>3. QED
  BY <1>1, <1>2

\* A fresh assignment row has the row's type.
LEMMA NewRowTyped ==
  ASSUME NEW id \in Nat, NEW d \in Drivers \cup {NoOne},
         NEW p \in Reps \cup {NoOne}, NEW own \in BOOLEAN,
         NEW supplier \in BOOLEAN
  PROVE  [NoAssignment EXCEPT !.id = id, !.driver = d, !.rep = p,
                              !.own = own, !.supplier = supplier]
           \in AssignmentRow
<1>1. NoAssignment \in AssignmentRow
  BY DEF NoAssignment, AssignmentRow, PortalStatus
<1> DEFINE a == [NoAssignment EXCEPT !.id = id, !.driver = d, !.rep = p]
<1>2. a \in AssignmentRow
  BY <1>1 DEF AssignmentRow
<1> HIDE DEF a
<1>3. [a EXCEPT !.own = own, !.supplier = supplier] \in AssignmentRow
  BY <1>2 DEF AssignmentRow
<1>4. QED
  BY <1>3 DEF a

\* Every last step of a request keeps the type of the rows.
LEMMA EndingRows ==
  ASSUME TypeInv, NEW r \in Requests, Ending(r)
  PROVE  RowsOK'
<1> DEFINE q == req[r]
<1> USE DEF RowsOK
<1>1. /\ job \in JobRow /\ asg \in AssignmentRow /\ lastId \in Nat
      /\ driverFees \in [Drivers -> Nat] /\ repFees \in [Reps -> Nat]
      /\ evidence \subseteq EvidenceKinds \X Staff
  BY DEF TypeInv
<1>2. q \in Request /\ Sane(q)
  BY DEF TypeInv, SlotsOK
<1>3. CASE Settle(r)
  <2>1. asg' \in AssignmentRow
    BY <1>1, <1>2, <1>3, NextRowTyped DEF Settle
  <2>2. job' \in JobRow
    BY <1>1, <1>2, <1>3, ToTyped, StatusTyped DEF Settle
  <2>3. driverFees' \in [Drivers -> Nat] /\ repFees' \in [Reps -> Nat]
    BY <1>1, <1>3, FeeTyped DEF Settle
  <2>4. evidence' \subseteq EvidenceKinds \X Staff
    BY <1>1, <1>2, <1>3, EvidenceTyped DEF Settle
  <2>5. QED
    BY <1>1, <1>3, <2>1, <2>2, <2>3, <2>4 DEF Settle
<1>4. CASE WriteLeg(r)
  <2>1. asg' \in AssignmentRow
    BY <1>1, <1>2, <1>4, PatchedTyped DEF WriteLeg
  <2>2. evidence' \subseteq EvidenceKinds \X Staff
    BY <1>1, <1>2, <1>4, EvidenceTyped DEF WriteLeg
  <2>3. QED
    BY <1>1, <1>4, <2>1, <2>2 DEF WriteLeg
<1>5. CASE WriteNoShow(r)
  <2>1. asg' \in AssignmentRow
    BY <1>1, <1>2, <1>5, PatchedTyped DEF WriteNoShow
  <2>2. evidence' \subseteq EvidenceKinds \X Staff
    BY <1>1, <1>2, <1>5, EvidenceTyped DEF WriteNoShow
  <2>3. job' \in JobRow
    BY <1>1, <1>5, StatusTyped DEF WriteNoShow, JobStatus
  <2>4. QED
    BY <1>1, <1>5, <2>1, <2>2, <2>3 DEF WriteNoShow
<1>6. CASE WriteCollected(r)
  <2>1. q.flag \in BOOLEAN
    BY <1>2 DEF Request
  <2>2. job' \in JobRow
    BY <1>1, <1>6, <2>1 DEF WriteCollected, JobRow
  <2>3. QED
    BY <1>1, <1>6, <2>2 DEF WriteCollected
<1>7. CASE WriteSurvey(r)
  BY <1>1, <1>7, FeeTyped DEF WriteSurvey
<1>8. CASE WriteAssignment(r)
  <2>1. q.driver \in Drivers \cup {NoOne} /\ q.rep \in Reps \cup {NoOne}
    BY <1>2, <1>8 DEF WriteAssignment, Sane, Request
  <2>2. asg' = [NoAssignment EXCEPT
                  !.id = lastId + 1, !.driver = q.driver, !.rep = q.rep,
                  !.own = q.car = "own",
                  !.supplier = q.car \in {"supplier", "tag"}]
    BY <1>8 DEF WriteAssignment
  <2>3. asg' \in AssignmentRow
    <3> HIDE DEF q
    <3>1. PICK own \in BOOLEAN, supplier \in BOOLEAN :
            /\ own = (q.car = "own")
            /\ supplier = (q.car \in {"supplier", "tag"})
      <4>1. /\ (q.car = "own") \in BOOLEAN
            /\ (q.car \in {"supplier", "tag"}) \in BOOLEAN
        OBVIOUS
      <4>2. QED
        BY <4>1, Zenon
    <3>2. PICK d \in Drivers \cup {NoOne}, p \in Reps \cup {NoOne}, id \in Nat :
            d = q.driver /\ p = q.rep /\ id = lastId + 1
      BY <1>1, <2>1
    <3>3. asg' = [NoAssignment EXCEPT !.id = id, !.driver = d, !.rep = p,
                                      !.own = own, !.supplier = supplier]
      BY <2>2, <3>1, <3>2
    <3>4. QED
      BY <3>3, NewRowTyped
  <2>4. job' \in JobRow
    BY <1>1, <1>8, StatusTyped DEF WriteAssignment, JobStatus
  <2>5. QED
    BY <1>1, <1>8, <2>3, <2>4 DEF WriteAssignment
<1>9. CASE WriteReassignment(r)
  <2>1. asg' \in AssignmentRow
    BY <1>1, <1>2, <1>9, ReassignedTyped DEF WriteReassignment
  <2>2. QED
    BY <1>1, <1>9, <2>1 DEF WriteReassignment
<1>10. CASE WriteUnassignment(r)
  <2>1. asg' \in AssignmentRow
    BY <1>10 DEF WriteUnassignment, NoAssignment, AssignmentRow, PortalStatus
  <2>2. job' \in JobRow
    BY <1>1, <1>10, StatusTyped DEF WriteUnassignment, JobStatus
  <2>3. QED
    BY <1>1, <1>10, <2>1, <2>2 DEF WriteUnassignment
<1>11. CASE WriteStatus(r)
  <2>1. q.to \in JobStatus
    BY <1>2, <1>11, Constants DEF WriteStatus, Sane
  <2>2. job' \in JobRow
    BY <1>1, <1>11, <2>1, StatusTyped DEF WriteStatus
  <2>3. QED
    BY <1>1, <1>11, <2>2 DEF WriteStatus
<1>12. CASE WriteForced(r)
  <2>1. job' \in JobRow
    BY <1>1, <1>2, <1>12, ToTyped, StatusTyped DEF WriteForced
  <2>2. asg' \in AssignmentRow
    BY <1>1, <1>2, <1>12, PatchedTyped DEF WriteForced
  <2>3. QED
    BY <1>1, <1>2, <1>12, <2>1, <2>2 DEF WriteForced
<1>13. CASE WriteRemoved(r)
  <2>1. job' \in JobRow
    BY <1>1, <1>13 DEF WriteRemoved, JobRow
  <2>2. QED
    BY <1>1, <1>13, <2>1 DEF WriteRemoved
<1>14. CASE WriteBackfill(r)
  BY <1>1, <1>14, FeeTyped DEF WriteBackfill
<1>15. CASE Abort(r) \/ Crash(r)
  BY <1>1, <1>15 DEF Abort, Crash, rows
<1>16. QED
  BY <1>3, <1>4, <1>5, <1>6, <1>7, <1>8, <1>9, <1>10, <1>11, <1>12, <1>13,
     <1>14, <1>15 DEF Ending

\* A step is the environment's, an admission, a lock, or a last step.
LEMMA NextCases ==
  ASSUME Next
  PROVE  \/ Environment
         \/ \E r \in Requests :
              \/ Admission(r) \/ Ending(r)
              \/ Reconcile(r) \/ OfficeTakesJob(r) \/ OfficeTakesLegs(r)
              \/ SurveyLooks(r)
  BY DEF Next, Proceed, Ending

\* Every step preserves the type invariant.
LEMMA NextTyped == TypeInv /\ [Next]_vars => TypeInv'
<1> SUFFICES ASSUME TypeInv, [Next]_vars PROVE TypeInv'
  OBVIOUS
<1>1. CASE Environment
  BY <1>1, EnvironmentTyped
<1>2. ASSUME NEW r \in Requests, Admission(r) PROVE TypeInv'
  BY <1>2, AdmissionTyped
<1>3. ASSUME NEW r \in Requests, Ending(r) PROVE TypeInv'
  BY <1>3, EndingIsDone, DoneSlots, EndingRows DEF TypeInv
<1>4. ASSUME NEW r \in Requests,
             \/ Reconcile(r) \/ OfficeTakesJob(r) \/ OfficeTakesLegs(r)
             \/ SurveyLooks(r)
      PROVE  TypeInv'
  BY <1>4, HoldingTyped
<1>5. CASE UNCHANGED vars
  BY <1>5 DEF vars, rows, TypeInv, RowsOK, ClockOK, SlotsOK, Sane
<1>6. QED
  BY <1>1, <1>2, <1>3, <1>4, <1>5, NextCases

\* The inductive type invariant: rows and requests keep their types, and every
\* request in flight names a row and people it may name.
THEOREM TypeInvariant == Spec => []TypeInv
  BY InitTyped, NextTyped, PTL DEF Spec

\* Whatever the staff, the number of requests in flight and the operations
\* allowed, every row and request keeps its type: no status outside the enum,
\* no evidence without a submitter, no fee for somebody who is not staff.
THEOREM TypeCorrect == Spec => []TypeOK
  BY TypeInvariant, TypeInvTyped, PTL
====
