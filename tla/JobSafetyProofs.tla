-------------------------- MODULE JobSafetyProofs --------------------------
(***************************************************************************)
(* What the two row locks of JobLifecycle guarantee, for every value of    *)
(* its constants: worked assignments stay, nobody is paid twice, a parked  *)
(* job is not rolled up, a job whose legs are completed is closed, and a   *)
(* completed job has paid its people.                                      *)
(***************************************************************************)
EXTENDS JobLifecycleProofs

(***************************************************************************)
(* The discipline of the locks.  Whoever locks the assignment row is a     *)
(* roll-up, or the office's status change that already locks the job row;  *)
(* and while the row is locked, or once it is logged, it exists.           *)
(***************************************************************************)
LockInv ==
  /\ asg.logged \/ lock.asg # NoRequest => asg.id # 0
  /\ \A r \in Requests :
       /\ lock.asg = r => Reconciles(req[r]) \/ lock.job = r
       /\ lock.job = r => OfficeCloses(req[r]) /\ req[r].id # 0

\* Nobody holds a lock at the start.
LEMMA InitLocks == Init => LockInv
  BY Constants DEF Init, LockInv, NoAssignment

\* How the last step of a request treats the assignment row: the same row
\* with no log line lost, a new row where there was none, or no row where
\* nobody holds one that was never logged.
RowStep ==
  \/ /\ asg'.id = asg.id
     /\ asg.logged => asg'.logged
     /\ asg'.logged => asg.logged \/ asg.id # 0
  \/ asg.id = 0 /\ asg'.id # 0
  \/ ~asg.logged /\ lock.asg = NoRequest /\ ~asg'.logged

\* How a last step may change the assignment row.
LEMMA EndingRow ==
  ASSUME TypeInv, LockInv, NEW r \in Requests, Ending(r)
  PROVE  RowStep
<1> DEFINE q == req[r]
<1>1. /\ asg \in AssignmentRow /\ q \in Request /\ Sane(q) /\ lastId \in Nat
      /\ asg.logged \in BOOLEAN
  BY DEF TypeInv, RowsOK, SlotsOK, AssignmentRow
<1>2. CASE Settle(r)
  <2>1. asg.id # 0
    BY <1>2, Constants DEF LockInv, Settle
  <2>2. asg' = NextRow(q, q.live)
    BY <1>2 DEF Settle
  <2> HIDE DEF q
  <2>3. asg'.id = asg.id /\ asg'.logged = (asg.logged \/ Logs(q))
    BY <1>1, <2>2, NextRowTyped DEF SameLegs
  <2>4. QED
    BY <1>1, <2>1, <2>3 DEF RowStep
<1>3. CASE WriteLeg(r) \/ WriteNoShow(r)
  <2>1. asg' = Patched(q) /\ asg.id = q.id /\ q.op \in LegOps
    BY <1>3 DEF WriteLeg, WriteNoShow, LegOps
  <2> HIDE DEF q
  <2>2. asg.id # 0
    BY <1>1, <2>1 DEF Sane
  <2>3. asg'.id = asg.id /\ asg'.logged = (asg.logged \/ Logs(q))
    BY <1>1, <2>1, PatchedTyped DEF SameLegs
  <2>4. QED
    BY <1>1, <2>2, <2>3 DEF RowStep
<1>4. CASE WriteForced(r)
  <2>1. asg' \in {asg, Patched(q)} /\ ~Logs(q)
    BY <1>4 DEF WriteForced, Logs
  <2> HIDE DEF q
  <2>2. asg'.id = asg.id /\ asg'.logged = asg.logged
    BY <1>1, <2>1, PatchedTyped DEF SameLegs
  <2>3. QED
    BY <1>1, <2>2 DEF RowStep
<1>5. CASE WriteReassignment(r)
  <2>1. asg' = SwitchRep(q, SwitchDriver(q, SwitchCar(q, asg)))
    BY <1>5 DEF WriteReassignment
  <2> HIDE DEF q
  <2>2. asg'.id = asg.id /\ asg'.logged = asg.logged
    BY <1>1, <2>1, ReassignedTyped DEF SameRow
  <2>3. QED
    BY <1>1, <2>2 DEF RowStep
<1>6. CASE WriteAssignment(r)
  <2>1. asg.id = 0
    BY <1>6 DEF WriteAssignment
  <2>2. asg'.id = lastId + 1
    BY <1>6 DEF WriteAssignment, NoAssignment
  <2>3. QED
    BY <1>1, <2>1, <2>2 DEF RowStep
<1>7. CASE WriteUnassignment(r)
  BY <1>7 DEF WriteUnassignment, RowStep, NoAssignment, Free
<1>8. CASE UNCHANGED asg
  BY <1>1, <1>8 DEF RowStep
<1>9. QED
  BY <1>2, <1>3, <1>4, <1>5, <1>6, <1>7, <1>8
     DEF Ending, WriteCollected, WriteSurvey, WriteStatus, WriteRemoved,
         WriteBackfill, Abort, Crash, rows

\* The clauses of LockInv about one request.
HoldsBy(r) ==
  /\ lock.asg = r => Reconciles(req[r]) \/ lock.job = r
  /\ lock.job = r => OfficeCloses(req[r]) /\ req[r].id # 0

\* The clause about the row.
RowExists == asg.logged \/ lock.asg # NoRequest => asg.id # 0

\* The invariant, split into the row's part and one part per request.
LEMMA LockParts == LockInv <=> RowExists /\ \A r \in Requests : HoldsBy(r)
  BY DEF LockInv, RowExists, HoldsBy

\* The two parts are enough for the next state.
LEMMA LockPartsNext ==
  RowExists' /\ (\A r \in Requests : HoldsBy(r)') => LockInv'
  BY DEF LockInv, RowExists, HoldsBy

\* Last steps keep the lock discipline.
LEMMA EndingLocks ==
  ASSUME TypeInv, LockInv, NEW r \in Requests, Ending(r)
  PROVE  LockInv'
<1>1. /\ Held(r, Idle)
      /\ lock'.job = IF lock.job = r THEN NoRequest ELSE lock.job
      /\ lock'.asg = IF lock.asg = r THEN NoRequest ELSE lock.asg
  BY EndingIsDone, TypeInvTyped, DoneEffect
<1>2. RowExists'
  BY <1>1, EndingRow DEF RowStep, LockInv, RowExists
<1>3. ASSUME NEW s \in Requests PROVE HoldsBy(s)'
  <2>1. s # NoRequest
    BY Constants
  <2>2. CASE s = r
    BY <1>1, <2>1, <2>2 DEF HoldsBy
  <2>3. CASE s # r
    <3>1. req'[s] = req[s]
      BY <1>1, <2>3 DEF Held
    <3>2. /\ lock'.asg = s => lock.asg = s
          /\ lock'.job = s <=> lock.job = s
      BY <1>1, <2>1, <2>3
    <3>3. HoldsBy(s)
      BY LockParts
    <3>4. QED
      BY <3>1, <3>2, <3>3 DEF HoldsBy, Reconciles, OfficeCloses
  <2>4. QED
    BY <2>2, <2>3
<1>4. QED
  BY <1>2, <1>3, LockPartsNext

\* Admissions take no lock.
LEMMA AdmissionLocks ==
  ASSUME TypeInv, LockInv, NEW r \in Requests, Admission(r)
  PROVE  LockInv'
<1>1. PICK q : Sane(q) /\ Admit(r, q)
  BY TypeInvTyped, AdmissionSane DEF Admitted
<1>2. Held(r, q) /\ req[r].op = "idle" /\ UNCHANGED <<rows, clock, lock>>
  BY <1>1, TypeInvTyped, AdmitEffect DEF Sane
<1>3. RowExists'
  BY <1>2 DEF LockInv, RowExists, rows
<1>4. ASSUME NEW s \in Requests PROVE HoldsBy(s)'
  <2>1. HoldsBy(s)
    BY LockParts
  <2>2. CASE s = r
    BY <1>2, <2>1, <2>2 DEF HoldsBy, Reconciles, OfficeCloses
  <2>3. CASE s # r
    BY <1>2, <2>1, <2>3 DEF HoldsBy, Held, Reconciles, OfficeCloses
  <2>4. QED
    BY <2>2, <2>3
<1>5. QED
  BY <1>3, <1>4, LockPartsNext

\* The roll-up takes the assignment's lock, and only with a row there.
LEMMA ReconcileLocks ==
  ASSUME TypeInv, LockInv, NEW r \in Requests, Reconcile(r)
  PROVE  LockInv'
<1>1. PICK y : Reconciled(r, y)
  BY TypeInvTyped, ReconcileEffect
<1>2. /\ Reconciles(req[r]) /\ asg.id = req[r].id /\ UNCHANGED <<rows, clock>>
      /\ lock.asg = NoRequest /\ lock' = [lock EXCEPT !.asg = r]
  BY DEF Reconcile, Free
<1>3. lock'.asg = r /\ lock'.job = lock.job
  BY <1>2 DEF TypeInv, SlotsOK
<1>4. asg.id # 0
  BY <1>2 DEF TypeInv, SlotsOK, Sane, Reconciles, LegOps
<1>5. RowExists'
  BY <1>2, <1>4 DEF RowExists, rows
<1>6. Held(r, y) /\ Reconciles(y)
  BY <1>1, <1>2 DEF Reconciled, SameAim, Reconciles
<1>7. ASSUME NEW s \in Requests PROVE HoldsBy(s)'
  <2>1. HoldsBy(s)
    BY LockParts
  <2>2. CASE s = r
    <3>1. lock.job # r
      BY <1>2, <2>1, <2>2 DEF HoldsBy, Reconciles, OfficeCloses
    <3>2. QED
      BY <1>3, <1>6, <2>2, <3>1 DEF HoldsBy, Held, Reconciles
  <2>3. CASE s # r
    BY <1>3, <1>6, <2>1, <2>3 DEF HoldsBy, Held, OfficeCloses
  <2>4. QED
    BY <2>2, <2>3
<1>8. QED
  BY <1>5, <1>7, LockPartsNext

\* The office's status change takes the job's lock first,
LEMMA OfficeTakesJobLocks ==
  ASSUME TypeInv, LockInv, NEW r \in Requests, OfficeTakesJob(r)
  PROVE  LockInv'
<1>1. PICK y : TookJob(r, y)
  BY TypeInvTyped, OfficeTakesJobEffect
<1>2. /\ OfficeCloses(req[r]) /\ asg.id # 0 /\ UNCHANGED <<rows, clock>>
      /\ lock.job = NoRequest /\ lock' = [lock EXCEPT !.job = r]
  BY DEF OfficeTakesJob, Free
<1>3. lock'.job = r /\ lock'.asg = lock.asg
  BY <1>2 DEF TypeInv, SlotsOK
<1>4. RowExists'
  BY <1>2, <1>3 DEF RowExists, rows
<1>5. Held(r, y) /\ OfficeCloses(y) /\ y.id # 0
  BY <1>1, <1>2 DEF TookJob, SameAim, OfficeCloses
<1>6. ASSUME NEW s \in Requests PROVE HoldsBy(s)'
  <2>1. HoldsBy(s) /\ s # NoRequest
    BY LockParts, Constants
  <2>2. CASE s = r
    BY <1>3, <1>5, <2>2 DEF HoldsBy, Held, OfficeCloses
  <2>3. CASE s # r
    BY <1>2, <1>3, <1>5, <2>1, <2>3 DEF HoldsBy, Held, Reconciles
  <2>4. QED
    BY <2>2, <2>3
<1>7. QED
  BY <1>4, <1>6, LockPartsNext

\* and the assignment's second.
LEMMA OfficeTakesLegsLocks ==
  ASSUME TypeInv, LockInv, NEW r \in Requests, OfficeTakesLegs(r)
  PROVE  LockInv'
<1>1. PICK y : TookLegs(r, y)
  BY TypeInvTyped, OfficeTakesLegsEffect
<1>2. /\ lock.job = r /\ asg.id = req[r].id /\ UNCHANGED <<rows, clock>>
      /\ lock.asg = NoRequest /\ lock' = [lock EXCEPT !.asg = r]
  BY DEF OfficeTakesLegs, Free
<1>3. lock'.asg = r /\ lock'.job = r
  BY <1>2 DEF TypeInv, SlotsOK
<1>4. OfficeCloses(req[r]) /\ asg.id # 0
  BY <1>2 DEF LockInv
<1>5. RowExists'
  BY <1>2, <1>4 DEF RowExists, rows
<1>6. Held(r, y) /\ OfficeCloses(y) /\ y.id # 0
  BY <1>1, <1>2, <1>4 DEF TookLegs, SameAim, OfficeCloses
<1>7. ASSUME NEW s \in Requests PROVE HoldsBy(s)'
  BY <1>3, <1>6 DEF HoldsBy, Held, OfficeCloses
<1>8. QED
  BY <1>5, <1>7, LockPartsNext

\* A survey takes neither lock.
LEMMA SurveyLocks ==
  ASSUME TypeInv, LockInv, NEW r \in Requests, SurveyLooks(r)
  PROVE  LockInv'
<1>1. PICK y : Surveyed(r, y)
  BY TypeInvTyped, SurveyLooksEffect
<1>2. req[r].op = "repSurvey" /\ lock' = lock /\ asg' = asg
  BY <1>1 DEF Surveyed, SameAim, rows
<1>3. lock.asg # r /\ lock.job # r
  BY <1>2 DEF LockInv, Reconciles, OfficeCloses
<1>4. ASSUME NEW s \in Requests PROVE HoldsBy(s)'
  BY <1>1, <1>2, <1>3
     DEF Surveyed, Held, LockInv, HoldsBy, Reconciles, OfficeCloses
<1>5. RowExists'
  BY <1>2 DEF LockInv, RowExists
<1>6. QED
  BY <1>4, <1>5, LockPartsNext

\* Every step keeps the lock discipline.
LEMMA NextLocks == TypeInv /\ LockInv /\ [Next]_vars => LockInv'
<1> SUFFICES ASSUME TypeInv, LockInv, [Next]_vars PROVE LockInv'
  OBVIOUS
<1>1. CASE Environment
  BY <1>1 DEF Environment, Tick, ReportDelay, UnlockPortal, LockPortal, rows,
              LockInv, Reconciles, OfficeCloses
<1>2. CASE UNCHANGED vars
  BY <1>2 DEF vars, rows, LockInv, Reconciles, OfficeCloses
<1>3. QED
  BY <1>1, <1>2, NextCases, AdmissionLocks, EndingLocks, ReconcileLocks,
     OfficeTakesJobLocks, OfficeTakesLegsLocks, SurveyLocks

\* Row locks are held only by requests that settle a job, in the order their
\* transaction takes them, and a locked or worked assignment row exists: what
\* every later argument about two interleaved transactions starts from.
THEOREM LocksDisciplined == Spec => []LockInv
<1>1. Init => LockInv
  BY InitLocks
<1>2. TypeInv /\ LockInv /\ [Next]_vars => LockInv'
  BY NextLocks
<1>3. QED
  BY <1>1, <1>2, TypeInvariant, PTL DEF Spec

-----------------------------------------------------------------------------
\* However many requests interleave, an assignment somebody worked is never
\* removed or replaced: the foreign key of status_change_logs and the lock on
\* the assignment row are enough.
THEOREM WorkedStays == Spec => WorkPinsAssignment
<1>1. ASSUME TypeInv, LockInv, [Next]_vars, asg.logged
      PROVE  asg'.logged /\ asg'.id = asg.id
  <2>1. CASE UNCHANGED asg
    BY <1>1, <2>1
  <2>2. ASSUME NEW r \in Requests, Ending(r)
        PROVE  asg'.logged /\ asg'.id = asg.id
    BY <1>1, <2>2, EndingRow DEF RowStep, LockInv
  <2>3. CASE Environment
    BY <2>1, <2>3 DEF Environment, Tick, ReportDelay, UnlockPortal, LockPortal,
                      rows
  <2>4. ASSUME NEW r \in Requests, Admission(r) PROVE UNCHANGED asg
    BY <1>1, <2>4, TypeInvTyped, AdmissionSane DEF Admitted, Admit, rows
  <2>5. ASSUME NEW r \in Requests,
               \/ Reconcile(r) \/ OfficeTakesJob(r) \/ OfficeTakesLegs(r)
               \/ SurveyLooks(r)
        PROVE  UNCHANGED asg
    BY <2>5 DEF Reconcile, OfficeTakesJob, OfficeTakesLegs, SurveyLooks, rows
  <2>6. QED
    BY <1>1, <2>1, <2>2, <2>3, <2>4, <2>5, NextCases DEF vars, rows
<1>2. TypeInv /\ LockInv /\ [Next]_vars
        => [asg.logged => asg'.logged /\ asg'.id = asg.id]_vars
  BY <1>1
<1>3. QED
  BY <1>2, TypeInvariant, LocksDisciplined, PTL DEF Spec, WorkPinsAssignment

-----------------------------------------------------------------------------
(***************************************************************************)
(* Paying once.  Every path looks for the fee before it inserts one, and   *)
(* neither fee table has a unique key.  It works where the look happens    *)
(* under the assignment's row lock: whoever decided to pay still holds it. *)
(* The backfill and the guest survey look without it, and are left out.    *)
(***************************************************************************)
LooksUnderLock == Ops \cap {"recalculate", "repSurvey"} = {}

PaysUnderLock(r) ==
  /\ req[r].payDriver =>
       /\ lock.asg = r
       /\ req[r].oldDriver \in Drivers /\ driverFees[req[r].oldDriver] = 0
  /\ req[r].payRep =>
       /\ lock.asg = r
       /\ req[r].oldRep \in Reps /\ repFees[req[r].oldRep] = 0

FeeInv == FeesOnce /\ \A r \in Requests : PaysUnderLock(r)

\* The parts of the fee invariant are enough for the next state.
LEMMA FeeInvNext ==
  FeesOnce' /\ (\A r \in Requests : PaysUnderLock(r)') => FeeInv'
  BY DEF FeeInv

\* Nobody is paid at the start.
LEMMA InitFees == Init => FeeInv
  BY IdleTyped DEF Init, FeeInv, FeesOnce, PaysUnderLock, Unpaid

\* Only the holder of the assignment's lock inserts a fee.
LEMMA EndingFees ==
  ASSUME LooksUnderLock, TypeInv, FeeInv, NEW r \in Requests, Ending(r)
  PROVE  /\ FeesOnce'
         /\ lock.asg # r => UNCHANGED <<driverFees, repFees>>
<1>1. /\ driverFees \in [Drivers -> Nat] /\ repFees \in [Reps -> Nat]
      /\ Sane(req[r])
  BY DEF TypeInv, RowsOK, SlotsOK
<1>2. CASE Settle(r)
  <2>1. FeesOnce /\ PaysUnderLock(r)
    BY DEF FeeInv
  <2>2. \A d \in Drivers : driverFees'[d] <= 1
    <3>1. CASE req[r].payDriver
      BY <1>1, <1>2, <2>1, <3>1 DEF Settle, PaysUnderLock, FeesOnce
    <3>2. CASE ~req[r].payDriver
      BY <1>2, <2>1, <3>2 DEF Settle, FeesOnce
    <3>3. QED
      BY <3>1, <3>2
  <2>3. \A p \in Reps : repFees'[p] <= 1
    <3>1. CASE req[r].payRep
      BY <1>1, <1>2, <2>1, <3>1 DEF Settle, PaysUnderLock, FeesOnce
    <3>2. CASE ~req[r].payRep
      BY <1>2, <2>1, <3>2 DEF Settle, FeesOnce
    <3>3. QED
      BY <3>1, <3>2
  <2>4. lock.asg = r
    BY <1>2 DEF Settle
  <2>5. QED
    BY <2>2, <2>3, <2>4 DEF FeesOnce
<1>3. CASE WriteSurvey(r) \/ WriteBackfill(r)
  <2>1. req[r].op \in {"recalculate", "repSurvey"} /\ req[r].op \in Ops
    BY <1>1, <1>3 DEF WriteSurvey, WriteBackfill, Sane
  <2>2. QED
    BY <2>1 DEF LooksUnderLock
<1>4. CASE UNCHANGED <<driverFees, repFees>>
  BY <1>4 DEF FeeInv, FeesOnce
<1>5. QED
  BY <1>2, <1>3, <1>4
     DEF Ending, WriteLeg, WriteNoShow, WriteCollected, WriteAssignment,
         WriteReassignment, WriteUnassignment, WriteStatus, WriteForced,
         WriteRemoved, Abort, Crash, rows

\* Last steps keep the fee invariant.
LEMMA EndingPays ==
  ASSUME LooksUnderLock, TypeInv, FeeInv, NEW r \in Requests, Ending(r)
  PROVE  FeeInv'
<1>1. /\ Held(r, Idle)
      /\ lock'.asg = IF lock.asg = r THEN NoRequest ELSE lock.asg
  BY EndingIsDone, TypeInvTyped, DoneEffect
<1>2. ASSUME NEW s \in Requests PROVE PaysUnderLock(s)'
  <2>1. CASE s = r
    BY <1>1, <2>1, IdleTyped DEF Held, PaysUnderLock, Unpaid
  <2>2. CASE s # r
    <3>1. req'[s] = req[s] /\ PaysUnderLock(s)
      BY <1>1, <2>2 DEF Held, FeeInv
    <3>2. CASE lock.asg = s
      BY <1>1, <2>2, <3>1, <3>2, EndingFees DEF PaysUnderLock
    <3>3. CASE lock.asg # s
      BY <3>1, <3>3 DEF PaysUnderLock
    <3>4. QED
      BY <3>2, <3>3
  <2>3. QED
    BY <2>1, <2>2
<1>3. QED
  BY <1>2, EndingFees, FeeInvNext

\* Admissions decide no payment.
LEMMA AdmissionPays ==
  ASSUME TypeInv, FeeInv, NEW r \in Requests, Admission(r)
  PROVE  FeeInv'
<1>1. PICK q : Sane(q) /\ Fresh(q) /\ Admit(r, q)
  BY TypeInvTyped, AdmissionSane DEF Admitted
<1>2. Held(r, q) /\ UNCHANGED <<rows, clock, lock>>
  BY <1>1, TypeInvTyped, AdmitEffect DEF Sane
<1>3. ASSUME NEW s \in Requests PROVE PaysUnderLock(s)'
  <2>1. CASE s = r
    BY <1>1, <1>2, <2>1 DEF Held, PaysUnderLock, Fresh, Unpaid
  <2>2. CASE s # r
    BY <1>2, <2>2 DEF Held, PaysUnderLock, FeeInv, rows
  <2>3. QED
    BY <2>1, <2>2
<1>4. QED
  BY <1>2, <1>3, FeeInvNext DEF FeeInv, FeesOnce, rows

\* Deciding to pay goes with taking the lock.
LEMMA DecidingPays ==
  ASSUME TypeInv, FeeInv, NEW r \in Requests, Reconcile(r) \/ OfficeTakesLegs(r)
  PROVE  FeeInv'
<1>1. /\ lock.asg = NoRequest /\ UNCHANGED rows
      /\ lock' = [lock EXCEPT !.asg = r]
  BY DEF Reconcile, OfficeTakesLegs, Free
<1>2. lock'.asg = r
  BY <1>1 DEF TypeInv, SlotsOK
<1>3. PICK y :
        /\ Held(r, y)
        /\ y.payDriver => y.oldDriver \in Drivers /\ driverFees[y.oldDriver] = 0
        /\ y.payRep => y.oldRep \in Reps /\ repFees[y.oldRep] = 0
  <2>1. CASE Reconcile(r)
    BY <2>1, TypeInvTyped, ReconcileEffect DEF Reconciled
  <2>2. CASE OfficeTakesLegs(r)
    BY <2>2, TypeInvTyped, OfficeTakesLegsEffect DEF TookLegs
  <2>3. QED
    BY <2>1, <2>2
<1>4. ASSUME NEW s \in Requests PROVE PaysUnderLock(s)'
  <2>1. CASE s = r
    BY <1>1, <1>2, <1>3, <2>1 DEF Held, PaysUnderLock, rows
  <2>2. CASE s # r
    <3>1. lock.asg # s
      BY <1>1, Constants
    <3>2. QED
      BY <1>3, <2>2, <3>1 DEF Held, PaysUnderLock, FeeInv
  <2>3. QED
    BY <2>1, <2>2
<1>5. QED
  BY <1>1, <1>4, FeeInvNext DEF FeeInv, FeesOnce, rows

\* The office's job lock decides no payment either.
LEMMA OfficeTakesJobPays ==
  ASSUME TypeInv, LockInv, FeeInv, NEW r \in Requests, OfficeTakesJob(r)
  PROVE  FeeInv'
<1>1. /\ OfficeCloses(req[r]) /\ UNCHANGED rows
      /\ lock.job = NoRequest /\ lock' = [lock EXCEPT !.job = r]
  BY DEF OfficeTakesJob, Free
<1>2. lock'.asg = lock.asg
  BY <1>1 DEF TypeInv, SlotsOK
<1>3. lock.asg # r
  BY <1>1, Constants DEF LockInv, Reconciles, OfficeCloses
<1>4. PICK y : Held(r, y) /\ Pays(y, req[r].payDriver, req[r].payRep)
  BY TypeInvTyped, OfficeTakesJobEffect DEF TookJob
<1>5. ~req[r].payDriver /\ ~req[r].payRep
  BY <1>3 DEF FeeInv, PaysUnderLock
<1>6. ASSUME NEW s \in Requests PROVE PaysUnderLock(s)'
  <2>1. CASE s = r
    BY <1>4, <1>5, <2>1 DEF Held, Pays, PaysUnderLock
  <2>2. CASE s # r
    BY <1>1, <1>2, <1>4, <2>2 DEF Held, PaysUnderLock, FeeInv, rows
  <2>3. QED
    BY <2>1, <2>2
<1>7. QED
  BY <1>1, <1>6, FeeInvNext DEF FeeInv, FeesOnce, rows

\* Without surveys none looks for a fee.
LEMMA NoSurveyLooks ==
  ASSUME LooksUnderLock, TypeInv, NEW r \in Requests
  PROVE  ~SurveyLooks(r)
<1>1. Sane(req[r])
  BY DEF TypeInv, SlotsOK
<1>2. QED
  BY <1>1 DEF SurveyLooks, Sane, LooksUnderLock

\* Every step keeps the fee invariant.
LEMMA NextFees ==
  ASSUME LooksUnderLock
  PROVE  TypeInv /\ LockInv /\ FeeInv /\ [Next]_vars => FeeInv'
<1> SUFFICES ASSUME TypeInv, LockInv, FeeInv, [Next]_vars PROVE FeeInv'
  OBVIOUS
<1>1. CASE Environment
  BY <1>1 DEF Environment, Tick, ReportDelay, UnlockPortal, LockPortal, rows,
              FeeInv, FeesOnce, PaysUnderLock
<1>2. CASE UNCHANGED vars
  BY <1>2 DEF vars, rows, FeeInv, FeesOnce, PaysUnderLock
<1>3. QED
  BY <1>1, <1>2, NextCases, AdmissionPays, EndingPays, DecidingPays,
     OfficeTakesJobPays, NoSurveyLooks

\* However many portal, office and admin requests finish the job at the same
\* time, its driver and its rep are paid at most once each: nobody can tell,
\* while a request holds the assignment's lock, that a fee it found missing
\* is there after all.
THEOREM PaidOnce ==
  ASSUME LooksUnderLock
  PROVE  Spec => []FeesOnce
<1>1. Init => FeeInv
  BY InitFees
<1>2. TypeInv /\ LockInv /\ FeeInv /\ [Next]_vars => FeeInv'
  BY NextFees
<1>3. FeeInv => FeesOnce
  BY DEF FeeInv
<1>4. QED
  BY <1>1, <1>2, <1>3, TypeInvariant, LocksDisciplined, PTL DEF Spec

-----------------------------------------------------------------------------
(***************************************************************************)
(* Parked jobs.  A roll-up looks at the job before it locks the job row,   *)
(* and a cancellation or a no-show may commit in between only if it does   *)
(* not need the assignment row.  Left out are the two requests that may    *)
(* complete a parked job on purpose or by racing each other: force         *)
(* control, and the office's own COMPLETED.                                *)
(***************************************************************************)
OnlyRollUpsComplete == "forceJob" \notin Ops /\ "COMPLETED" \notin JobTargets

SeesParked(r) ==
  lock.asg = r /\ Reconciles(req[r]) /\ req[r].to = "COMPLETED" =>
    job.status \notin Parked

ParkInv == \A r \in Requests : SeesParked(r)

\* The invariant is one part per request.
LEMMA ParkInvNext == (\A r \in Requests : SeesParked(r)') => ParkInv'
  BY DEF ParkInv

\* Nobody parks the job while another request locks its assignment.
LEMMA EndingParks ==
  ASSUME OnlyRollUpsComplete, TypeInv, LockInv, NEW r \in Requests, Ending(r),
         lock.asg # r, lock.asg # NoRequest
  PROVE  job'.status = job.status \/ job'.status \notin Parked
<1>1. job \in JobRow /\ Sane(req[r]) /\ asg.id # 0
  BY DEF TypeInv, RowsOK, SlotsOK, LockInv
<1>2. CASE WriteStatus(r)
  <2>1. req[r].op = "officeStatus" /\ req[r].to \notin Terminal
    BY <1>1, <1>2 DEF WriteStatus, OfficeCloses
  <2>2. job'.status = req[r].to
    BY <1>1, <1>2 DEF WriteStatus, JobRow
  <2>3. QED
    BY <2>1, <2>2 DEF Terminal, Parked
<1>3. CASE WriteForced(r)
  <2>1. req[r].op # "forceJob"
    BY <1>1 DEF Sane, OnlyRollUpsComplete
  <2>2. req[r].to = Unset
    BY <1>1, <1>3, <2>1 DEF WriteForced, Sane
  <2>3. QED
    BY <1>3, <2>2 DEF WriteForced
<1>4. CASE WriteAssignment(r) \/ WriteUnassignment(r)
  BY <1>1, <1>4 DEF WriteAssignment, WriteUnassignment, JobRow, Parked
<1>5. CASE WriteCollected(r) \/ WriteRemoved(r)
  BY <1>1, <1>5 DEF WriteCollected, WriteRemoved, JobRow
<1>6. CASE UNCHANGED job
  BY <1>6
<1>7. QED
  BY <1>2, <1>3, <1>4, <1>5, <1>6
     DEF Ending, Settle, WriteLeg, WriteNoShow, WriteSurvey,
         WriteReassignment, WriteBackfill, Abort, Crash, rows, Free

\* Every step keeps what the holder of the lock saw of the job.
LEMMA NextParks ==
  ASSUME OnlyRollUpsComplete
  PROVE  TypeInv /\ LockInv /\ ParkInv /\ [Next]_vars => ParkInv'
<1> SUFFICES ASSUME TypeInv, LockInv, ParkInv, [Next]_vars PROVE ParkInv'
  OBVIOUS
<1>1. CASE Environment
  BY <1>1 DEF Environment, Tick, ReportDelay, UnlockPortal, LockPortal, rows,
              ParkInv, SeesParked, Reconciles
<1>2. CASE UNCHANGED vars
  BY <1>2 DEF vars, rows, ParkInv, SeesParked, Reconciles
<1>3. ASSUME NEW r \in Requests, Admission(r) PROVE ParkInv'
  <2>1. PICK q : Sane(q) /\ Admit(r, q)
    BY <1>3, TypeInvTyped, AdmissionSane DEF Admitted
  <2>2. Held(r, q) /\ req[r].op = "idle" /\ UNCHANGED <<rows, clock, lock>>
    BY <2>1, TypeInvTyped, AdmitEffect DEF Sane
  <2>3. lock.asg # r
    BY <2>2 DEF LockInv, Reconciles, OfficeCloses
  <2>4. ASSUME NEW s \in Requests PROVE SeesParked(s)'
    BY <2>2, <2>3 DEF Held, ParkInv, SeesParked, Reconciles, rows
  <2>5. QED
    BY <2>4, ParkInvNext
<1>4. ASSUME NEW r \in Requests, Ending(r) PROVE ParkInv'
  <2>1. /\ Held(r, Idle)
        /\ lock'.asg = IF lock.asg = r THEN NoRequest ELSE lock.asg
    BY <1>4, EndingIsDone, TypeInvTyped, DoneEffect
  <2>2. ASSUME NEW s \in Requests PROVE SeesParked(s)'
    <3>1. s # NoRequest
      BY Constants
    <3>2. CASE lock.asg = s /\ s # r
      <4>1. req'[s] = req[s] /\ SeesParked(s)
        BY <2>1, <3>2 DEF Held, ParkInv
      <4>2. job'.status = job.status \/ job'.status \notin Parked
        BY <1>4, <3>1, <3>2, EndingParks
      <4>3. QED
        BY <3>2, <4>1, <4>2 DEF SeesParked, Reconciles
    <3>3. CASE lock.asg # s \/ s = r
      <4>1. lock'.asg # s
        BY <2>1, <3>1, <3>3
      <4>2. QED
        BY <4>1 DEF SeesParked
    <3>4. QED
      BY <3>2, <3>3
  <2>3. QED
    BY <2>2, ParkInvNext
<1>5. ASSUME NEW r \in Requests, Reconcile(r) PROVE ParkInv'
  <2>1. lock.asg = NoRequest /\ UNCHANGED rows /\ lock' = [lock EXCEPT !.asg = r]
    BY <1>5 DEF Reconcile, Free
  <2>2. lock'.asg = r
    BY <2>1 DEF TypeInv, SlotsOK
  <2>3. PICK y : Reconciled(r, y)
    BY <1>5, TypeInvTyped, ReconcileEffect
  <2>4. ASSUME NEW s \in Requests PROVE SeesParked(s)'
    BY <2>1, <2>2, <2>3
       DEF Reconciled, Held, SeesParked, RollsUp, Unset, rows
  <2>5. QED
    BY <2>4, ParkInvNext
<1>6. ASSUME NEW r \in Requests, OfficeTakesJob(r) PROVE ParkInv'
  <2>1. /\ OfficeCloses(req[r]) /\ UNCHANGED rows
        /\ lock' = [lock EXCEPT !.job = r]
    BY <1>6 DEF OfficeTakesJob
  <2>2. lock'.asg = lock.asg
    BY <2>1 DEF TypeInv, SlotsOK
  <2>3. PICK y : Held(r, y) /\ SameAim(y, req[r])
    BY <1>6, TypeInvTyped, OfficeTakesJobEffect DEF TookJob
  <2>4. ASSUME NEW s \in Requests PROVE SeesParked(s)'
    BY <2>1, <2>2, <2>3 DEF Held, SameAim, ParkInv, SeesParked, Reconciles,
                            OfficeCloses, rows
  <2>5. QED
    BY <2>4, ParkInvNext
<1>7. ASSUME NEW r \in Requests, OfficeTakesLegs(r) PROVE ParkInv'
  <2>1. lock.job = r /\ UNCHANGED rows /\ lock' = [lock EXCEPT !.asg = r]
    BY <1>7 DEF OfficeTakesLegs
  <2>2. lock'.asg = r /\ OfficeCloses(req[r])
    BY <2>1 DEF TypeInv, SlotsOK, LockInv
  <2>3. PICK y : Held(r, y) /\ SameAim(y, req[r])
    BY <1>7, TypeInvTyped, OfficeTakesLegsEffect DEF TookLegs
  <2>4. ASSUME NEW s \in Requests PROVE SeesParked(s)'
    BY <2>2, <2>3 DEF Held, SameAim, SeesParked, Reconciles, OfficeCloses
  <2>5. QED
    BY <2>4, ParkInvNext
<1>8. ASSUME NEW r \in Requests, SurveyLooks(r) PROVE ParkInv'
  <2>1. PICK y : Surveyed(r, y)
    BY <1>8, TypeInvTyped, SurveyLooksEffect
  <2>2. ASSUME NEW s \in Requests PROVE SeesParked(s)'
    BY <2>1 DEF Surveyed, Held, ParkInv, SeesParked, Reconciles, rows
  <2>3. QED
    BY <2>2, ParkInvNext
<1>9. QED
  BY <1>1, <1>2, <1>3, <1>4, <1>5, <1>6, <1>7, <1>8, NextCases

\* Whatever the other requests do, the roll-up never completes a job that a
\* cancellation or a no-show has parked, although it reads the job before it
\* locks it.
THEOREM ParkedIsLeftAlone ==
  ASSUME OnlyRollUpsComplete
  PROVE  Spec => ParkedStays
<1>1. Init => ParkInv
  BY Constants DEF Init, ParkInv, SeesParked
<1>2. TypeInv /\ LockInv /\ ParkInv /\ [Next]_vars => ParkInv'
  BY NextParks
<1>3. ASSUME TypeInv, LockInv, ParkInv, [Next]_vars, job.status \in Parked
      PROVE  job'.status # "COMPLETED"
  <2>1. CASE UNCHANGED job
    BY <1>3, <2>1 DEF Parked
  <2>2. ASSUME NEW r \in Requests, Ending(r)
        PROVE  job'.status # "COMPLETED"
    <3>1. job \in JobRow /\ Sane(req[r])
      BY <1>3 DEF TypeInv, RowsOK, SlotsOK
    <3>2. CASE Settle(r)
      <4>1. req[r].to # "COMPLETED"
        <5>1. lock.asg = r
          BY <3>2 DEF Settle
        <5>2. CASE Reconciles(req[r])
          BY <1>3, <5>1, <5>2 DEF ParkInv, SeesParked
        <5>3. CASE lock.job = r
          BY <1>3, <3>1, <5>3 DEF LockInv, OfficeCloses, Sane,
                                  OnlyRollUpsComplete
        <5>4. QED
          BY <1>3, <5>1, <5>2, <5>3 DEF LockInv
      <4>2. job' = job \/ job'.status = req[r].to
        BY <3>1, <3>2 DEF Settle, JobRow
      <4>3. QED
        BY <1>3, <4>1, <4>2 DEF Parked
    <3>3. CASE WriteStatus(r)
      BY <3>1, <3>3 DEF WriteStatus, Sane, OnlyRollUpsComplete, JobRow
    <3>4. CASE WriteForced(r)
      <4>1. req[r].op # "forceJob"
        BY <3>1 DEF Sane, OnlyRollUpsComplete
      <4>2. req[r].to = Unset
        BY <3>1, <3>4, <4>1 DEF WriteForced, Sane
      <4>3. QED
        BY <1>3, <3>4, <4>2 DEF WriteForced, Parked
    <3>5. CASE WriteAssignment(r) \/ WriteUnassignment(r) \/ WriteNoShow(r)
      BY <3>1, <3>5 DEF WriteAssignment, WriteUnassignment, WriteNoShow, JobRow
    <3>6. CASE WriteCollected(r) \/ WriteRemoved(r)
      BY <1>3, <3>1, <3>6 DEF WriteCollected, WriteRemoved, JobRow, Parked
    <3>7. QED
      BY <2>1, <2>2, <3>2, <3>3, <3>4, <3>5, <3>6
         DEF Ending, WriteLeg, WriteSurvey, WriteReassignment, WriteBackfill,
             Abort, Crash, rows
  <2>3. CASE Environment
    BY <2>1, <2>3 DEF Environment, Tick, ReportDelay, UnlockPortal, LockPortal,
                      rows
  <2>4. ASSUME NEW r \in Requests, Admission(r) PROVE UNCHANGED job
    BY <1>3, <2>4, TypeInvTyped, AdmissionSane DEF Admitted, Admit, rows
  <2>5. ASSUME NEW r \in Requests,
               \/ Reconcile(r) \/ OfficeTakesJob(r) \/ OfficeTakesLegs(r)
               \/ SurveyLooks(r)
        PROVE  UNCHANGED job
    BY <2>5 DEF Reconcile, OfficeTakesJob, OfficeTakesLegs, SurveyLooks, rows
  <2>6. QED
    BY <1>3, <2>1, <2>2, <2>3, <2>4, <2>5, NextCases DEF vars, rows
<1>4. TypeInv /\ LockInv /\ ParkInv /\ [Next]_vars
        => [job.status \in Parked => job'.status # "COMPLETED"]_vars
  BY <1>3
<1>5. QED
  BY <1>1, <1>2, <1>4, TypeInvariant, LocksDisciplined, PTL
     DEF Spec, ParkedStays
-----------------------------------------------------------------------------
(***************************************************************************)
(* Why no interleaving of the callers of reconcileJobStatus strands a job: *)
(* LegsSettle, for every value of the constants that leaves out the        *)
(* operations known to break it.                                           *)
(***************************************************************************)

\* The operations that change legs or the job status without a roll-up:
\* taking people off, forcing the job status, the nightly cron, and an office
\* that puts a job back under way.
LegsOnlyRollUp ==
  Ops \cap {"release", "forceJob", "cron"} = {} /\ JobTargets \subseteq Terminal

\* What a reassignment saw still holds of the row it will write: who was
\* assigned then may have changed, but not into nobody.
Seen(r) ==
  /\ req[r].id <= lastId
  /\ req[r].op = "reassign" /\ asg.id = req[r].id =>
       /\ req[r].oldDriver # NoOne => asg.driver # NoOne
       /\ req[r].oldRep # NoOne => asg.rep # NoOne

SeenInv == asg.id <= lastId /\ \A r \in Requests : Seen(r)

\* What a roll-up decided still fits the rows while it holds its lock.
Decided(r) == lock.asg = r /\ Reconciles(req[r]) => Clearing(req[r])

DecidedInv == \A r \in Requests : Decided(r)

SettleInv == SeenInv /\ DecidedInv /\ LegsSettle

-----------------------------------------------------------------------------
(***************************************************************************)
(* Legs, row by row.                                                       *)
(***************************************************************************)
\* No leg of b is finished, or nobody's, that was not so in a.
NoNewClear(b, a) ==
  /\ a.driver # NoOne => b.driver # NoOne
  /\ a.rep # NoOne => b.rep # NoOne
  /\ LegsClear(b) => LegsClear(a)

\* Without a release, the car columns take nobody off,
LEMMA SwitchCarLegs ==
  ASSUME NEW a \in AssignmentRow, NEW q \in Request
  PROVE  LET c == SwitchCar(q, a)
         IN  /\ c.rep = a.rep /\ c.repStatus = a.repStatus
             /\ IF q.car = "supplier" /\ q.oldDriver # NoOne
                THEN c.driverStatus = "PENDING"
                ELSE c.driver = a.driver /\ c.driverStatus = a.driverStatus
<1>1. CASE q.car = "supplier"
  BY <1>1 DEF SwitchCar, AssignmentRow
<1>2. CASE q.car # "supplier"
  BY <1>2 DEF SwitchCar, AssignmentRow
<1>3. QED
  BY <1>1, <1>2

\* the driver column opens the new driver's leg,
LEMMA SwitchDriverLegs ==
  ASSUME NEW a \in AssignmentRow, NEW q \in Request
  PROVE  LET e == SwitchDriver(q, a)
         IN  /\ e.rep = a.rep /\ e.repStatus = a.repStatus
             /\ IF q.driver = Keep
                THEN e.driver = a.driver /\ e.driverStatus = a.driverStatus
                ELSE /\ e.driver = q.driver
                     /\ e.driverStatus = IF q.driver = q.oldDriver
                                         THEN a.driverStatus ELSE "PENDING"
  BY DEF SwitchDriver, AssignmentRow

\* and the rep column the new rep's.
LEMMA SwitchRepLegs ==
  ASSUME NEW a \in AssignmentRow, NEW q \in Request
  PROVE  LET e == SwitchRep(q, a)
         IN  /\ e.driver = a.driver /\ e.driverStatus = a.driverStatus
             /\ IF q.rep = Keep
                THEN e.rep = a.rep /\ e.repStatus = a.repStatus
                ELSE /\ e.rep = q.rep
                     /\ e.repStatus = IF q.rep = q.oldRep
                                      THEN a.repStatus ELSE "PENDING"
  BY DEF SwitchRep, AssignmentRow

\* A reassignment that takes nobody off opens legs and closes none.
LEMMA ReassignedLegs ==
  ASSUME asg \in AssignmentRow, NEW q, Sane(q), q.op = "reassign",
         q.oldDriver # NoOne => asg.driver # NoOne,
         q.oldRep # NoOne => asg.rep # NoOne
  PROVE  NoNewClear(SwitchRep(q, SwitchDriver(q, SwitchCar(q, asg))), asg)
<1> DEFINE c == SwitchCar(q, asg)
           e == SwitchDriver(q, c)
           b == SwitchRep(q, e)
<1>1. q \in Request
  BY DEF Sane
<1>2. c \in AssignmentRow /\ e \in AssignmentRow
  BY <1>1, SwitchCarTyped, SwitchDriverTyped
<1>3. /\ c.rep = asg.rep /\ c.repStatus = asg.repStatus
      /\ IF q.car = "supplier" /\ q.oldDriver # NoOne
         THEN c.driverStatus = "PENDING"
         ELSE c.driver = asg.driver /\ c.driverStatus = asg.driverStatus
  BY <1>1, SwitchCarLegs
<1> HIDE DEF c
<1>4. /\ e.rep = c.rep /\ e.repStatus = c.repStatus
      /\ IF q.driver = Keep
         THEN e.driver = c.driver /\ e.driverStatus = c.driverStatus
         ELSE /\ e.driver = q.driver
              /\ e.driverStatus = IF q.driver = q.oldDriver
                                  THEN c.driverStatus ELSE "PENDING"
  BY <1>1, <1>2, SwitchDriverLegs
<1> HIDE DEF e
<1>5. /\ b.driver = e.driver /\ b.driverStatus = e.driverStatus
      /\ IF q.rep = Keep
         THEN b.rep = e.rep /\ b.repStatus = e.repStatus
         ELSE /\ b.rep = q.rep
              /\ b.repStatus = IF q.rep = q.oldRep
                               THEN e.repStatus ELSE "PENDING"
  BY <1>1, <1>2, SwitchRepLegs
<1> HIDE DEF b
<1>6. /\ q.driver # NoOne /\ q.rep # NoOne
      /\ q.car = "supplier" /\ q.oldDriver # NoOne => q.driver # Keep
  BY DEF Sane
<1>7. \/ b.driver # NoOne /\ b.driverStatus # "COMPLETED"
      \/ /\ b.driver # NoOne <=> asg.driver # NoOne
         /\ b.driverStatus = asg.driverStatus
  BY <1>3, <1>4, <1>5, <1>6
<1>8. \/ b.rep # NoOne /\ b.repStatus # "COMPLETED"
      \/ /\ b.rep # NoOne <=> asg.rep # NoOne
         /\ b.repStatus = asg.repStatus
  BY <1>3, <1>4, <1>5, <1>6
<1>9. NoNewClear(b, asg)
  BY <1>7, <1>8 DEF NoNewClear, LegsClear
<1>10. QED
  BY <1>9 DEF b, e, c

\* Neither does starting, or going in place.
LEMMA PatchedLegs ==
  ASSUME asg \in AssignmentRow, NEW q \in Request,
         q.driverTo # "COMPLETED", q.repTo # "COMPLETED"
  PROVE  NoNewClear(Patched(q), asg)
<1>1. /\ Patched(q).driver = asg.driver /\ Patched(q).rep = asg.rep
      /\ Patched(q).driverStatus = "COMPLETED" => asg.driverStatus = "COMPLETED"
      /\ Patched(q).repStatus = "COMPLETED" => asg.repStatus = "COMPLETED"
  BY DEF Patched, AssignmentRow
<1>2. QED
  BY <1>1 DEF NoNewClear, LegsClear

-----------------------------------------------------------------------------
(***************************************************************************)
(* What the last step of a request does, by what it leaves alone.          *)
(***************************************************************************)
\* While somebody holds the assignment's lock, the last step of any other
\* request leaves the row as it is and a final job final.
LEMMA EndingAround ==
  ASSUME LegsOnlyRollUp, TypeInv, LockInv, NEW r \in Requests, Ending(r),
         lock.asg # r, lock.asg # NoRequest
  PROVE  /\ asg' = asg
         /\ job.status \in Terminal => job'.status \in Terminal
<1>1. job \in JobRow /\ Sane(req[r]) /\ asg.id # 0
  BY DEF TypeInv, RowsOK, SlotsOK, LockInv
<1>2. CASE WriteStatus(r)
  <2>1. req[r].to \in Terminal
    BY <1>1, <1>2 DEF WriteStatus, Sane, LegsOnlyRollUp
  <2>2. QED
    BY <1>1, <1>2, <2>1 DEF WriteStatus, JobRow
<1>3. CASE WriteForced(r)
  <2>1. req[r].op = "forceLegs"
    BY <1>1, <1>3 DEF WriteForced, Sane, LegsOnlyRollUp
  <2>2. req[r].to = Unset /\ req[r].id = 0
    BY <1>1, <1>3, <2>1 DEF WriteForced, Sane, Reconciles
  <2>3. QED
    BY <1>3, <2>2 DEF WriteForced
<1>4. CASE WriteCollected(r) \/ WriteRemoved(r)
  BY <1>1, <1>4 DEF WriteCollected, WriteRemoved, JobRow
<1>5. CASE UNCHANGED <<job, asg>>
  BY <1>5
<1>6. QED
  BY <1>1, <1>2, <1>3, <1>4, <1>5
     DEF Ending, Settle, WriteLeg, WriteNoShow, WriteSurvey, WriteAssignment,
         WriteReassignment, WriteUnassignment, WriteBackfill, Abort, Crash,
         rows, Free

\* The service of a job and its route never change and a deleted job stays deleted.
LEMMA EndingJob ==
  ASSUME TypeInv, NEW r \in Requests, Ending(r)
  PROVE  /\ job'.service = job.service /\ job'.routed = job.routed
         /\ job.deleted => job'.deleted
<1>1. job \in JobRow
  BY DEF TypeInv, RowsOK
<1>2. CASE Settle(r)
  BY <1>1, <1>2 DEF Settle, JobRow
<1>3. CASE WriteForced(r)
  BY <1>1, <1>3 DEF WriteForced, JobRow
<1>4. CASE WriteNoShow(r) \/ WriteCollected(r) \/ WriteAssignment(r)
  BY <1>1, <1>4 DEF WriteNoShow, WriteCollected, WriteAssignment, JobRow
<1>5. CASE WriteUnassignment(r) \/ WriteStatus(r) \/ WriteRemoved(r)
  BY <1>1, <1>5 DEF WriteUnassignment, WriteStatus, WriteRemoved, JobRow
<1>6. CASE UNCHANGED job
  BY <1>6
<1>7. QED
  BY <1>2, <1>3, <1>4, <1>5, <1>6
     DEF Ending, WriteLeg, WriteSurvey, WriteReassignment, WriteBackfill,
         Abort, Crash, rows

\* A row keeps its people assigned as long as it lives, and keys are fresh.
LEMMA EndingSeen ==
  ASSUME LegsOnlyRollUp, TypeInv, LockInv, SeenInv, NEW r \in Requests, Ending(r)
  PROVE  SeenInv'
<1> DEFINE q == req[r]
<1>1. /\ asg \in AssignmentRow /\ lastId \in Nat /\ Sane(q) /\ q \in Request
      /\ Seen(r) /\ asg.id <= lastId /\ asg.id \in Nat
  BY DEF TypeInv, RowsOK, SlotsOK, SeenInv, AssignmentRow
<1>2. \/ /\ asg'.id = asg.id /\ lastId' = lastId
         /\ asg.driver # NoOne => asg'.driver # NoOne
         /\ asg.rep # NoOne => asg'.rep # NoOne
      \/ lastId' = lastId + 1 /\ asg'.id = lastId'
      \/ lastId' = lastId /\ asg'.id = 0
  <2>1. CASE Settle(r)
    <3>1. asg' = NextRow(q, q.live) /\ lastId' = lastId
      BY <2>1 DEF Settle
    <3> HIDE DEF q
    <3>2. QED
      BY <1>1, <3>1, NextRowTyped DEF SameLegs
  <2>2. CASE WriteLeg(r) \/ WriteNoShow(r) \/ WriteForced(r)
    <3>1. asg' \in {asg, Patched(q)} /\ lastId' = lastId
      BY <2>2 DEF WriteLeg, WriteNoShow, WriteForced
    <3> HIDE DEF q
    <3>2. QED
      BY <1>1, <3>1, PatchedTyped DEF SameLegs
  <2>3. CASE WriteReassignment(r)
    <3>1. /\ q.op = "reassign" /\ asg.id = q.id /\ lastId' = lastId
          /\ asg' = SwitchRep(q, SwitchDriver(q, SwitchCar(q, asg)))
      BY <1>1, <2>3 DEF WriteReassignment, Sane, LegsOnlyRollUp
    <3>2. /\ q.oldDriver # NoOne => asg.driver # NoOne
          /\ q.oldRep # NoOne => asg.rep # NoOne
      BY <1>1, <3>1 DEF Seen
    <3> HIDE DEF q
    <3>3. NoNewClear(asg', asg)
      BY <1>1, <3>1, <3>2, ReassignedLegs
    <3>4. asg'.id = asg.id
      BY <1>1, <3>1, ReassignedTyped DEF SameRow
    <3>5. QED
      BY <3>1, <3>3, <3>4 DEF NoNewClear
  <2>4. CASE WriteAssignment(r)
    BY <2>4 DEF WriteAssignment, NoAssignment
  <2>5. CASE WriteUnassignment(r)
    BY <2>5 DEF WriteUnassignment, NoAssignment
  <2>6. CASE UNCHANGED <<asg, lastId>>
    BY <2>6
  <2>7. QED
    BY <2>1, <2>2, <2>3, <2>4, <2>5, <2>6
       DEF Ending, WriteCollected, WriteSurvey, WriteStatus, WriteRemoved,
           WriteBackfill, Abort, Crash, rows
<1>3. Held(r, Idle)
  BY EndingIsDone, TypeInvTyped, DoneEffect
<1>4. ASSUME NEW s \in Requests PROVE Seen(s)'
  <2>1. Seen(s) /\ req[s].id \in Nat
    BY DEF SeenInv, TypeInv, SlotsOK, Request
  <2>2. CASE s = r
    <3>1. req'[s].id = 0 /\ req'[s].op = "idle"
      BY <1>3, <2>2, IdleTyped DEF Held
    <3>2. lastId' \in Nat
      BY <1>1, <1>2
    <3>3. QED
      BY <3>1, <3>2 DEF Seen
  <2>3. CASE s # r
    <3>1. req'[s] = req[s]
      BY <1>3, <2>3 DEF Held
    <3>2. CASE /\ asg'.id = asg.id /\ lastId' = lastId
               /\ asg.driver # NoOne => asg'.driver # NoOne
               /\ asg.rep # NoOne => asg'.rep # NoOne
      BY <2>1, <3>1, <3>2 DEF Seen
    <3>3. CASE lastId' = lastId + 1 /\ asg'.id = lastId'
      BY <1>1, <2>1, <3>1, <3>3 DEF Seen
    <3>4. CASE lastId' = lastId /\ asg'.id = 0
      <4>1. req[s].op = "reassign" => req[s].id # 0
        BY DEF TypeInv, SlotsOK, Sane
      <4>2. QED
        BY <2>1, <3>1, <3>4, <4>1 DEF Seen
    <3>5. QED
      BY <1>2, <3>2, <3>3, <3>4
  <2>4. QED
    BY <2>2, <2>3
<1>5. (asg.id <= lastId)'
  BY <1>1, <1>2
<1>6. QED
  BY <1>4, <1>5 DEF SeenInv, Seen

\* No last step leaves clear legs with an open job.
LEMMA EndingSettles ==
  ASSUME LegsOnlyRollUp, TypeInv, LockInv, SettleInv,
         NEW r \in Requests, Ending(r)
  PROVE  LegsSettle'
<1> DEFINE q == req[r]
<1>1. /\ job \in JobRow /\ asg \in AssignmentRow /\ Sane(q) /\ q \in Request
      /\ Seen(r) /\ Decided(r) /\ LegsSettle
  BY DEF TypeInv, RowsOK, SlotsOK, SettleInv, SeenInv, DecidedInv
<1>2. CASE Settle(r)
  <2>1. /\ lock.asg = r /\ asg' = NextRow(q, q.live)
        /\ job' = IF q.to = Unset THEN job ELSE [job EXCEPT !.status = q.to]
    BY <1>2 DEF Settle
  <2>2. CASE Reconciles(q)
    <3>1. Clearing(q)
      BY <1>1, <2>1, <2>2 DEF Decided
    <3>2. q.to \in {Unset, "COMPLETED"}
      BY <1>1, <2>2 DEF Sane, Reconciles
    <3> HIDE DEF q
    <3>3. LegsClear(asg') =>
            q.to = "COMPLETED" \/ job.status \in Terminal \/ job.deleted
      BY <2>1, <3>1 DEF Clearing
    <3>4. /\ q.to = Unset => job' = job
          /\ q.to = "COMPLETED" =>
               job'.status = "COMPLETED" /\ job'.deleted = job.deleted
      BY <1>1, <2>1 DEF JobRow, Unset
    <3>5. QED
      BY <3>2, <3>3, <3>4 DEF LegsSettle, Terminal
  <2>3. CASE lock.job = r
    <3>1. q.to \in Terminal
      BY <2>3 DEF LockInv, OfficeCloses
    <3>2. job'.status \in Terminal
      BY <1>1, <2>1, <3>1 DEF JobRow, Terminal, Unset
    <3>3. QED
      BY <3>2 DEF LegsSettle
  <2>4. QED
    BY <2>1, <2>2, <2>3 DEF LockInv
<1>3. CASE WriteLeg(r)
  <2>1. asg' = Patched(q) /\ job' = job /\ asg.id = q.id
    BY <1>3 DEF WriteLeg
  <2>2. q.op \in {"driverStart", "repInPlace"}
    BY <1>1, <1>3 DEF WriteLeg, Sane, LegsOnlyRollUp
  <2>3. q.driverTo # "COMPLETED" /\ q.repTo # "COMPLETED" /\ q.id # 0
    BY <1>1, <2>2 DEF Sane, LegOps
  <2> HIDE DEF q
  <2>4. NoNewClear(asg', asg)
    BY <1>1, <2>1, <2>3, PatchedLegs
  <2>5. QED
    BY <1>1, <2>1, <2>3, <2>4 DEF LegsSettle, NoNewClear
<1>4. CASE WriteNoShow(r)
  BY <1>1, <1>4 DEF WriteNoShow, JobRow, LegsSettle, Terminal
<1>5. CASE WriteCollected(r) \/ WriteRemoved(r)
  BY <1>1, <1>5 DEF WriteCollected, WriteRemoved, JobRow, LegsSettle
<1>6. CASE WriteAssignment(r)
  <2>1. asg'.driverStatus = "PENDING" /\ asg'.repStatus = "PENDING"
    BY <1>6 DEF WriteAssignment, NoAssignment
  <2>2. QED
    BY <2>1 DEF LegsSettle, LegsClear
<1>7. CASE WriteReassignment(r)
  <2>1. /\ q.op = "reassign" /\ asg.id = q.id /\ job' = job
        /\ asg' = SwitchRep(q, SwitchDriver(q, SwitchCar(q, asg)))
    BY <1>1, <1>7 DEF WriteReassignment, Sane, LegsOnlyRollUp
  <2>2. /\ q.oldDriver # NoOne => asg.driver # NoOne
        /\ q.oldRep # NoOne => asg.rep # NoOne
        /\ q.id # 0
    BY <1>1, <2>1 DEF Seen, Sane
  <2> HIDE DEF q
  <2>3. NoNewClear(asg', asg)
    BY <1>1, <2>1, <2>2, ReassignedLegs
  <2>4. QED
    BY <1>1, <2>1, <2>2, <2>3 DEF LegsSettle, NoNewClear
<1>8. CASE WriteUnassignment(r)
  BY <1>8 DEF WriteUnassignment, NoAssignment, LegsSettle
<1>9. CASE WriteStatus(r)
  <2>1. q.to \in Terminal
    BY <1>1, <1>9 DEF WriteStatus, Sane, LegsOnlyRollUp
  <2>2. job'.status \in Terminal
    BY <1>1, <1>9, <2>1 DEF WriteStatus, JobRow
  <2>3. QED
    BY <2>2 DEF LegsSettle
<1>10. CASE WriteForced(r)
  <2>1. q.op = "forceLegs"
    BY <1>1, <1>10 DEF WriteForced, Sane, LegsOnlyRollUp
  <2>2. q.to = Unset /\ q.id = 0
    BY <1>1, <1>10, <2>1 DEF WriteForced, Sane, Reconciles
  <2>3. QED
    BY <1>1, <1>10, <2>2 DEF WriteForced, LegsSettle
<1>11. CASE UNCHANGED <<job, asg>>
  BY <1>1, <1>11 DEF LegsSettle
<1>12. QED
  BY <1>2, <1>3, <1>4, <1>5, <1>6, <1>7, <1>8, <1>9, <1>10, <1>11
     DEF Ending, WriteSurvey, WriteBackfill, Abort, Crash, rows

\* What the holder decided survives everybody else's last step.
LEMMA EndingDecided ==
  ASSUME LegsOnlyRollUp, TypeInv, LockInv, SettleInv,
         NEW r \in Requests, Ending(r)
  PROVE  DecidedInv'
<1>1. /\ Held(r, Idle)
      /\ lock'.asg = IF lock.asg = r THEN NoRequest ELSE lock.asg
  BY EndingIsDone, TypeInvTyped, DoneEffect
<1>2. ASSUME NEW s \in Requests PROVE Decided(s)'
  <2>1. s # NoRequest
    BY Constants
  <2>2. CASE lock.asg = s /\ s # r
    <3>1. req'[s] = req[s] /\ Decided(s)
      BY <1>1, <2>2 DEF Held, SettleInv, DecidedInv
    <3>2. /\ asg' = asg /\ job'.service = job.service
          /\ job.status \in Terminal => job'.status \in Terminal
          /\ job.deleted => job'.deleted
      BY <2>1, <2>2, EndingAround, EndingJob
    <3>3. LegsClear(NextRow(req[s], req[s].live))'
            = LegsClear(NextRow(req[s], req[s].live))
      BY <3>1, <3>2 DEF NextRow, Patched, Logs, CloseDepartureRep, LegsClear
    <3>4. QED
      BY <2>2, <3>1, <3>2, <3>3 DEF Decided, Reconciles, Clearing
  <2>3. CASE lock.asg # s \/ s = r
    <3>1. lock'.asg # s
      BY <1>1, <2>1, <2>3
    <3>2. QED
      BY <3>1 DEF Decided
  <2>4. QED
    BY <2>2, <2>3
<1>3. QED
  BY <1>2 DEF DecidedInv, Decided

\* A step that leaves the rows alone and changes at most one request.
LEMMA QuietStep ==
  ASSUME SettleInv, UNCHANGED rows, NEW r \in Requests, NEW y, Held(r, y),
         y.id <= lastId,
         y.op = "reassign" /\ asg.id = y.id =>
           /\ y.oldDriver # NoOne => asg.driver # NoOne
           /\ y.oldRep # NoOne => asg.rep # NoOne,
         lock'.asg = r /\ Reconciles(y) => Clearing(y),
         \A s \in Requests \ {r} : lock'.asg = s => lock.asg = s
  PROVE  SettleInv'
<1>1. /\ job' = job /\ asg' = asg /\ lastId' = lastId
      /\ req'[r] = y /\ \A s \in Requests \ {r} : req'[s] = req[s]
  BY DEF rows, Held
<1>2. ASSUME NEW s \in Requests PROVE Seen(s)'
  <2>1. CASE s = r
    BY <1>1, <2>1 DEF Seen
  <2>2. CASE s # r
    BY <1>1, <2>2 DEF Seen, SeenInv, SettleInv
  <2>3. QED
    BY <2>1, <2>2
<1>3. ASSUME NEW s \in Requests PROVE Decided(s)'
  <2>1. CASE s = r
    BY <1>1, <2>1 DEF Decided, Reconciles, Clearing, NextRow, Patched, Logs
  <2>2. CASE s # r
    BY <1>1, <2>2 DEF SettleInv, DecidedInv, Decided, Reconciles, Clearing,
                      NextRow, Patched, Logs
  <2>3. QED
    BY <2>1, <2>2
<1>4. SeenInv' /\ DecidedInv'
  BY <1>1, <1>2, <1>3 DEF SettleInv, SeenInv, DecidedInv, Seen, Decided
<1>5. LegsSettle'
  BY <1>1 DEF SettleInv, LegsSettle
<1>6. QED
  BY <1>4, <1>5 DEF SettleInv

\* Admissions preserve the invariant.
LEMMA AdmissionSettles ==
  ASSUME TypeInv, LockInv, SettleInv, NEW r \in Requests, Admission(r)
  PROVE  SettleInv'
<1>1. PICK q : Sane(q) /\ Fresh(q) /\ Admit(r, q)
  BY TypeInvTyped, AdmissionSane DEF Admitted
<1>2. /\ Held(r, q) /\ req[r].op = "idle" /\ UNCHANGED rows /\ lock' = lock
  BY <1>1, TypeInvTyped, AdmitEffect DEF Sane
<1>3. lock.asg # r
  BY <1>2 DEF LockInv, Reconciles, OfficeCloses
<1>4. asg.id \in Nat /\ lastId \in Nat /\ asg.id <= lastId
  BY DEF TypeInv, RowsOK, AssignmentRow, SettleInv, SeenInv
<1>5. /\ q.id <= lastId
      /\ q.op = "reassign" => q.oldDriver = asg.driver /\ q.oldRep = asg.rep
  BY <1>1, <1>4 DEF Fresh
<1>6. QED
  BY <1>2, <1>3, <1>5, QuietStep

\* Taking a lock preserves it.
LEMMA HoldingSettles ==
  ASSUME TypeInv, LockInv, SettleInv, NEW r \in Requests,
         \/ Reconcile(r) \/ OfficeTakesJob(r) \/ OfficeTakesLegs(r)
         \/ SurveyLooks(r)
  PROVE  SettleInv'
<1>1. /\ UNCHANGED rows
      /\ \A s \in Requests \ {r} : lock'.asg = s => lock.asg = s
  BY DEF Reconcile, OfficeTakesJob, OfficeTakesLegs, SurveyLooks, TypeInv,
         SlotsOK
<1>2. Seen(r) /\ asg.id <= lastId
  BY DEF SettleInv, SeenInv
<1>3. CASE Reconcile(r)
  <2>1. PICK y : Reconciled(r, y)
    BY <1>3, TypeInvTyped, ReconcileEffect
  <2>2. Held(r, y) /\ Clearing(y) /\ y.id = req[r].id /\ y.op = req[r].op
    BY <2>1 DEF Reconciled, SameAim
  <2>3. y.op # "reassign"
    BY <1>3, <2>2 DEF Reconcile, Reconciles
  <2>4. QED
    BY <1>1, <1>2, <2>2, <2>3, QuietStep DEF Seen
<1>4. CASE OfficeTakesJob(r)
  <2>1. PICK y : Held(r, y) /\ SameAim(y, req[r]) /\ y.id = asg.id
    BY <1>4, TypeInvTyped, OfficeTakesJobEffect DEF TookJob
  <2>2. y.op = "officeStatus"
    BY <1>4, <2>1 DEF OfficeTakesJob, OfficeCloses, SameAim
  <2>3. QED
    BY <1>1, <1>2, <2>1, <2>2, QuietStep DEF Reconciles
<1>5. CASE OfficeTakesLegs(r)
  <2>1. PICK y : Held(r, y) /\ SameAim(y, req[r]) /\ y.id = req[r].id
    BY <1>5, TypeInvTyped, OfficeTakesLegsEffect DEF TookLegs
  <2>2. y.op = "officeStatus"
    BY <1>5, <2>1 DEF OfficeTakesLegs, LockInv, OfficeCloses, SameAim
  <2>3. QED
    BY <1>1, <1>2, <2>1, <2>2, QuietStep DEF Seen, Reconciles
<1>6. CASE SurveyLooks(r)
  <2>1. PICK y : Surveyed(r, y)
    BY <1>6, TypeInvTyped, SurveyLooksEffect
  <2>2. Held(r, y) /\ y.op = "repSurvey" /\ y.id = req[r].id
    BY <2>1 DEF Surveyed
  <2>3. QED
    BY <1>1, <1>2, <2>2, QuietStep DEF Seen, Reconciles
<1>7. QED
  BY <1>3, <1>4, <1>5, <1>6

\* It holds at the start.
LEMMA InitSettles == Init => SettleInv
  BY IdleTyped, Constants
     DEF Init, SettleInv, SeenInv, Seen, DecidedInv, Decided, LegsSettle,
         NoAssignment

\* Every step preserves it.
LEMMA NextSettles ==
  ASSUME LegsOnlyRollUp
  PROVE  TypeInv /\ LockInv /\ SettleInv /\ [Next]_vars => SettleInv'
<1> SUFFICES ASSUME TypeInv, LockInv, SettleInv, [Next]_vars
             PROVE  SettleInv'
  OBVIOUS
<1>1. CASE UNCHANGED <<rows, req, lock>>
  BY <1>1 DEF rows, SettleInv, SeenInv, Seen, DecidedInv, Decided, LegsSettle,
              Reconciles, Clearing, NextRow, Patched, Logs
<1>2. CASE Environment
  BY <1>1, <1>2 DEF Environment, Tick, ReportDelay, UnlockPortal, LockPortal
<1>3. ASSUME NEW r \in Requests, Ending(r) PROVE SettleInv'
  BY <1>3, EndingSettles, EndingDecided, EndingSeen DEF SettleInv
<1>4. QED
  BY <1>1, <1>2, <1>3, NextCases, AdmissionSettles, HoldingSettles DEF vars, rows

\* Whatever portal, office and dispatch requests interleave, and in however
\* many sessions, a job whose assigned legs are all COMPLETED is closed: the
\* roll-up of the last one to report sees the other leg, because both have to
\* lock the assignment row before they look.
THEOREM JobsSettle ==
  ASSUME LegsOnlyRollUp
  PROVE  Spec => []LegsSettle
<1>1. Init => SettleInv
  BY InitSettles
<1>2. TypeInv /\ LockInv /\ SettleInv /\ [Next]_vars => SettleInv'
  BY NextSettles
<1>3. SettleInv => LegsSettle
  BY DEF SettleInv
<1>4. QED
  BY <1>1, <1>2, <1>3, TypeInvariant, LocksDisciplined, PTL DEF Spec

-----------------------------------------------------------------------------
(***************************************************************************)
(* Everybody is paid.  Whoever completes the job inserts the fees that its *)
(* people are owed in the same transaction, and the people it read are the *)
(* people still assigned when it commits.  Left out are the requests that  *)
(* give a completed job other people, whom nobody pays, and force control  *)
(* of the job status, which pays nobody.                                   *)
(***************************************************************************)
NobodyReplaced == Ops \cap {"reassign", "release", "forceJob"} = {}

SawPeople(q) == Payees(q, asg.driver, asg.rep)

CompletesPaid(r) ==
  /\ lock.job = r => SawPeople(req[r])
  /\ lock.asg = r /\ req[r].to = "COMPLETED" => SawPeople(req[r]) /\ DuePaid(req[r])

CompleteInv == CompletedIsPaid /\ \A r \in Requests : CompletesPaid(r)

\* It holds at the start.
LEMMA InitCompletes == Init => CompleteInv
  BY Constants DEF Init, CompleteInv, CompletedIsPaid, CompletesPaid

\* The last step of a request leaves the people of the job where they are, or
\* assigns or takes off the job all of them while nobody holds a lock.
LEMMA EndingPeople ==
  ASSUME NobodyReplaced, TypeInv, LockInv, NEW r \in Requests, Ending(r)
  PROVE  \/ asg'.id = asg.id /\ asg'.driver = asg.driver /\ asg'.rep = asg.rep
         \/ /\ lock.job = NoRequest /\ lock.asg = NoRequest
            /\ job'.status # "COMPLETED"
<1> DEFINE q == req[r]
<1>1. /\ job \in JobRow /\ asg \in AssignmentRow /\ q \in Request /\ Sane(q)
  BY DEF TypeInv, RowsOK, SlotsOK
<1>2. CASE Settle(r)
  <2>1. asg' = NextRow(q, q.live)
    BY <1>2 DEF Settle
  <2> HIDE DEF q
  <2>2. QED
    BY <1>1, <2>1, NextRowTyped DEF SameLegs
<1>3. CASE WriteLeg(r) \/ WriteNoShow(r) \/ WriteForced(r)
  <2>1. asg' \in {asg, Patched(q)}
    BY <1>3 DEF WriteLeg, WriteNoShow, WriteForced
  <2> HIDE DEF q
  <2>2. QED
    BY <1>1, <2>1, PatchedTyped DEF SameLegs
<1>4. CASE WriteReassignment(r)
  BY <1>1, <1>4 DEF WriteReassignment, Sane, NobodyReplaced
<1>5. CASE WriteAssignment(r)
  BY <1>1, <1>5 DEF WriteAssignment, LockInv, JobRow, Free
<1>6. CASE WriteUnassignment(r)
  BY <1>1, <1>6 DEF WriteUnassignment, JobRow, Free
<1>7. CASE UNCHANGED asg
  BY <1>7
<1>8. QED
  BY <1>2, <1>3, <1>4, <1>5, <1>6, <1>7
     DEF Ending, WriteCollected, WriteSurvey, WriteStatus, WriteRemoved,
         WriteBackfill, Abort, Crash, rows

\* No fee is ever taken back.
LEMMA EndingKeepsFees ==
  ASSUME TypeInv, NEW r \in Requests, Ending(r)
  PROVE  /\ \A d \in Drivers : driverFees[d] > 0 => driverFees'[d] > 0
         /\ \A p \in Reps : repFees[p] > 0 => repFees'[p] > 0
<1>1. driverFees \in [Drivers -> Nat] /\ repFees \in [Reps -> Nat]
  BY DEF TypeInv, RowsOK
<1>2. CASE Settle(r)
  <2>1. driverFees' \in {driverFees, [driverFees EXCEPT ![req[r].oldDriver] = @ + 1]}
    BY <1>2 DEF Settle
  <2>2. repFees' \in {repFees, [repFees EXCEPT ![req[r].oldRep] = @ + 1]}
    BY <1>2 DEF Settle
  <2>3. QED
    BY <1>1, <2>1, <2>2
<1>3. CASE WriteSurvey(r)
  BY <1>1, <1>3 DEF WriteSurvey
<1>4. CASE WriteBackfill(r)
  BY <1>1, <1>4 DEF WriteBackfill
<1>5. CASE UNCHANGED <<driverFees, repFees>>
  BY <1>5
<1>6. QED
  BY <1>2, <1>3, <1>4, <1>5
     DEF Ending, WriteLeg, WriteNoShow, WriteCollected, WriteAssignment,
         WriteReassignment, WriteUnassignment, WriteStatus, WriteForced,
         WriteRemoved, Abort, Crash, rows

\* Only a settling transaction completes a job that has an assignment.
LEMMA EndingCompletes ==
  ASSUME NobodyReplaced, TypeInv, LockInv, NEW r \in Requests, Ending(r),
         job'.status = "COMPLETED", job.status # "COMPLETED", asg'.id # 0
  PROVE  Settle(r) /\ req[r].to = "COMPLETED"
<1> DEFINE q == req[r]
<1>1. /\ job \in JobRow /\ Sane(q) /\ q \in Request
  BY DEF TypeInv, RowsOK, SlotsOK
<1>2. CASE Settle(r)
  BY <1>1, <1>2 DEF Settle, JobRow
<1>3. CASE WriteStatus(r)
  <2>1. q.to = "COMPLETED" /\ asg'.id = asg.id
    BY <1>1, <1>3 DEF WriteStatus, JobRow
  <2>2. QED
    BY <1>3, <2>1 DEF WriteStatus, OfficeCloses, Terminal
<1>4. CASE WriteForced(r)
  <2>1. q.op = "forceLegs" /\ ~Reconciles(q)
    BY <1>1, <1>4 DEF WriteForced, Sane, NobodyReplaced
  <2>2. q.to = Unset
    BY <1>1, <2>1 DEF Sane
  <2>3. QED
    BY <1>4, <2>2 DEF WriteForced
<1>5. CASE WriteNoShow(r) \/ WriteCollected(r) \/ WriteAssignment(r)
  BY <1>1, <1>5 DEF WriteNoShow, WriteCollected, WriteAssignment, JobRow
<1>6. CASE WriteUnassignment(r) \/ WriteRemoved(r)
  BY <1>1, <1>6 DEF WriteUnassignment, WriteRemoved, JobRow
<1>7. CASE UNCHANGED job
  BY <1>7
<1>8. QED
  BY <1>2, <1>3, <1>4, <1>5, <1>6, <1>7
     DEF Ending, WriteLeg, WriteSurvey, WriteReassignment, WriteBackfill,
         Abort, Crash, rows

\* A completed job stays paid, and one that is completed is paid.
LEMMA EndingPaid ==
  ASSUME NobodyReplaced, TypeInv, LockInv, CompleteInv,
         NEW r \in Requests, Ending(r)
  PROVE  CompletedIsPaid'
<1> SUFFICES ASSUME job'.status = "COMPLETED", asg'.id # 0
             PROVE  /\ asg'.driver # NoOne /\ job'.routed => driverFees'[asg'.driver] > 0
                    /\ asg'.rep # NoOne /\ job'.service = "ARR" => repFees'[asg'.rep] > 0
  BY DEF CompletedIsPaid
<1>1. asg'.id = asg.id /\ asg'.driver = asg.driver /\ asg'.rep = asg.rep
  BY EndingPeople
<1>2. job'.service = job.service /\ job'.routed = job.routed
  BY EndingJob
<1>3. /\ asg.driver # NoOne => asg.driver \in Drivers
      /\ asg.rep # NoOne => asg.rep \in Reps
      /\ driverFees \in [Drivers -> Nat] /\ repFees \in [Reps -> Nat]
  BY DEF TypeInv, RowsOK, AssignmentRow
<1>4. CASE job.status = "COMPLETED"
  BY <1>1, <1>2, <1>3, <1>4, EndingKeepsFees DEF CompleteInv, CompletedIsPaid
<1>5. CASE job.status # "COMPLETED"
  <2>1. Settle(r) /\ req[r].to = "COMPLETED"
    BY <1>5, EndingCompletes
  <2>2. SawPeople(req[r]) /\ DuePaid(req[r])
    BY <2>1 DEF Settle, CompleteInv, CompletesPaid
  <2>3. asg.driver # NoOne /\ job.routed => driverFees'[asg.driver] > 0
    <3>1. CASE req[r].payDriver
      BY <1>3, <2>1, <2>2, <3>1 DEF Settle, SawPeople, Payees
    <3>2. CASE ~req[r].payDriver
      BY <2>1, <2>2, <3>2 DEF Settle, SawPeople, Payees, DuePaid
    <3>3. QED
      BY <3>1, <3>2
  <2>4. asg.rep # NoOne /\ job.service = "ARR" => repFees'[asg.rep] > 0
    <3>1. CASE req[r].payRep
      BY <1>3, <2>1, <2>2, <3>1 DEF Settle, SawPeople, Payees
    <3>2. CASE ~req[r].payRep
      BY <2>1, <2>2, <3>2 DEF Settle, SawPeople, Payees, DuePaid
    <3>3. QED
      BY <3>1, <3>2
  <2>5. QED
    BY <1>1, <1>2, <2>3, <2>4
<1>6. QED
  BY <1>4, <1>5

\* What the holder of a lock has decided stays right when others end.
LEMMA EndingCompleteInv ==
  ASSUME NobodyReplaced, TypeInv, LockInv, CompleteInv,
         NEW r \in Requests, Ending(r)
  PROVE  CompleteInv'
<1>1. /\ Held(r, Idle)
      /\ lock'.job = IF lock.job = r THEN NoRequest ELSE lock.job
      /\ lock'.asg = IF lock.asg = r THEN NoRequest ELSE lock.asg
  BY EndingIsDone, TypeInvTyped, DoneEffect
<1>2. ASSUME NEW s \in Requests PROVE CompletesPaid(s)'
  <2>1. s # NoRequest /\ CompletesPaid(s)
    BY Constants DEF CompleteInv
  <2>2. CASE lock'.job # s /\ lock'.asg # s
    BY <2>2 DEF CompletesPaid
  <2>3. CASE lock'.job = s \/ lock'.asg = s
    <3>1. s # r /\ (lock'.job = s => lock.job = s) /\ (lock'.asg = s => lock.asg = s)
      BY <1>1, <2>1, <2>3
    <3>2. req'[s] = req[s]
      BY <1>1, <3>1 DEF Held
    <3>3. asg'.driver = asg.driver /\ asg'.rep = asg.rep
      BY <2>1, <2>3, <3>1, EndingPeople
    <3>4. SawPeople(req[s]) => SawPeople(req[s])'
      BY <3>2, <3>3 DEF SawPeople, Payees
    <3>5. SawPeople(req[s]) /\ DuePaid(req[s]) => DuePaid(req[s])'
      <4>1. /\ asg.driver # NoOne => asg.driver \in Drivers
            /\ asg.rep # NoOne => asg.rep \in Reps
        BY DEF TypeInv, RowsOK, AssignmentRow
      <4>2. QED
        BY <3>2, <4>1, EndingKeepsFees, EndingJob DEF SawPeople, Payees, DuePaid
    <3>6. QED
      BY <2>1, <3>1, <3>2, <3>4, <3>5 DEF CompletesPaid
  <2>4. QED
    BY <2>2, <2>3
<1>3. QED
  BY <1>2, EndingPaid DEF CompleteInv, CompletesPaid

\* A step that leaves the rows alone and changes at most one request.
LEMMA HoldingPays ==
  ASSUME CompleteInv, UNCHANGED rows, NEW r \in Requests, NEW y, Held(r, y),
         lock'.job = r => SawPeople(y),
         lock'.asg = r /\ y.to = "COMPLETED" => SawPeople(y) /\ DuePaid(y),
         \A s \in Requests \ {r} :
           (lock'.job = s => lock.job = s) /\ (lock'.asg = s => lock.asg = s)
  PROVE  CompleteInv'
<1>1. CompletedIsPaid'
  BY DEF CompleteInv, CompletedIsPaid, rows
<1>2. ASSUME NEW s \in Requests PROVE CompletesPaid(s)'
  <2>1. CASE s = r
    BY <2>1 DEF CompletesPaid, Held, SawPeople, Payees, DuePaid, rows
  <2>2. CASE s # r
    BY <2>2 DEF CompleteInv, CompletesPaid, Held, SawPeople, Payees, DuePaid, rows
  <2>3. QED
    BY <2>1, <2>2
<1>3. QED
  BY <1>1, <1>2 DEF CompleteInv, CompletesPaid

\* Admissions and locks preserve the invariant.
LEMMA AdmissionCompletes ==
  ASSUME TypeInv, LockInv, CompleteInv, NEW r \in Requests, Admission(r)
  PROVE  CompleteInv'
<1>1. PICK q : Sane(q) /\ Fresh(q) /\ Admit(r, q)
  BY TypeInvTyped, AdmissionSane DEF Admitted
<1>2. /\ Held(r, q) /\ req[r].op = "idle" /\ UNCHANGED rows /\ lock' = lock
  BY <1>1, TypeInvTyped, AdmitEffect DEF Sane
<1>3. lock.asg # r /\ lock.job # r
  BY <1>2 DEF LockInv, Reconciles, OfficeCloses
<1>4. QED
  BY <1>2, <1>3, HoldingPays

LEMMA HoldingCompletes ==
  ASSUME TypeInv, LockInv, CompleteInv, NEW r \in Requests,
         \/ Reconcile(r) \/ OfficeTakesJob(r) \/ OfficeTakesLegs(r)
         \/ SurveyLooks(r)
  PROVE  CompleteInv'
<1>1. UNCHANGED rows
  BY DEF Reconcile, OfficeTakesJob, OfficeTakesLegs, SurveyLooks
<1>2. \A s \in Requests \ {r} :
        (lock'.job = s => lock.job = s) /\ (lock'.asg = s => lock.asg = s)
  BY DEF Reconcile, OfficeTakesJob, OfficeTakesLegs, SurveyLooks, TypeInv, SlotsOK
<1>3. CASE Reconcile(r)
  <2>1. PICK y : Reconciled(r, y)
    BY <1>3, TypeInvTyped, ReconcileEffect
  <2>2. lock'.job # r
    BY <1>3 DEF Reconcile, Reconciles, OfficeCloses, LockInv, TypeInv, SlotsOK
  <2>3. QED
    BY <1>1, <1>2, <2>1, <2>2, HoldingPays DEF Reconciled, SawPeople
<1>4. CASE OfficeTakesJob(r)
  <2>1. PICK y : Held(r, y) /\ Payees(y, asg.driver, asg.rep)
    BY <1>4, TypeInvTyped, OfficeTakesJobEffect DEF TookJob
  <2>2. lock'.asg # r
    BY <1>4, Constants
       DEF OfficeTakesJob, Reconciles, OfficeCloses, LockInv, TypeInv, SlotsOK, Free
  <2>3. QED
    BY <1>1, <1>2, <2>1, <2>2, HoldingPays DEF SawPeople
<1>5. CASE OfficeTakesLegs(r)
  <2>1. PICK y : TookLegs(r, y)
    BY <1>5, TypeInvTyped, OfficeTakesLegsEffect
  <2>2. SawPeople(req[r])
    BY <1>5 DEF OfficeTakesLegs, CompleteInv, CompletesPaid
  <2>3. Held(r, y) /\ SawPeople(y) /\ (y.to = "COMPLETED" => DuePaid(y))
    BY <2>1, <2>2 DEF TookLegs, SawPeople, Payees
  <2>4. QED
    BY <1>1, <1>2, <2>3, HoldingPays
<1>6. CASE SurveyLooks(r)
  <2>1. PICK y : Surveyed(r, y)
    BY <1>6, TypeInvTyped, SurveyLooksEffect
  <2>2. lock'.asg # r /\ lock'.job # r
    BY <1>6, <2>1 DEF SurveyLooks, Surveyed, Reconciles, OfficeCloses, LockInv
  <2>3. QED
    BY <1>1, <1>2, <2>1, <2>2, HoldingPays DEF Surveyed
<1>7. QED
  BY <1>3, <1>4, <1>5, <1>6

\* Every step preserves it.
LEMMA NextCompletes ==
  ASSUME NobodyReplaced
  PROVE  TypeInv /\ LockInv /\ CompleteInv /\ [Next]_vars => CompleteInv'
<1> SUFFICES ASSUME TypeInv, LockInv, CompleteInv, [Next]_vars
             PROVE  CompleteInv'
  OBVIOUS
<1>1. CASE UNCHANGED <<rows, req, lock>>
  BY <1>1 DEF rows, CompleteInv, CompletedIsPaid, CompletesPaid, SawPeople, Payees, DuePaid
<1>2. CASE Environment
  BY <1>1, <1>2 DEF Environment, Tick, ReportDelay, UnlockPortal, LockPortal
<1>3. QED
  BY <1>1, <1>2, NextCases, EndingCompleteInv, AdmissionCompletes, HoldingCompletes
     DEF vars, rows

\* Whatever reports, office changes, surveys and backfills interleave, crash and
\* are refused: as long as nobody on the job is replaced, a COMPLETED job has paid
\* its driver and its rep, because whoever completes it still holds, when it
\* commits, the lock under which it saw who they are and what they are owed.
THEOREM EverybodyIsPaid ==
  ASSUME NobodyReplaced
  PROVE  Spec => []CompletedIsPaid
<1>1. Init => CompleteInv
  BY InitCompletes
<1>2. TypeInv /\ LockInv /\ CompleteInv /\ [Next]_vars => CompleteInv'
  BY NextCompletes
<1>3. CompleteInv => CompletedIsPaid
  BY DEF CompleteInv
<1>4. QED
  BY <1>1, <1>2, <1>3, TypeInvariant, LocksDisciplined, PTL DEF Spec
=============================================================================
