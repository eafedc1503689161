-------------------------- MODULE JobLifecycleMC --------------------------
(***************************************************************************)
(* Small instances of JobLifecycle for TLC: the groups of operations each  *)
(* run lets users call, and the symmetry of the request slots.             *)
(***************************************************************************)
EXTENDS JobLifecycle, TLC

DriverPortal == {"driverPatch", "driverStart", "driverComplete",
                 "driverNoShow", "driverCollect"}
RepPortal    == {"repPatch", "repInPlace", "repComplete", "repNoShow"}

\* The portals' day: two legs of one job with money to collect, reported by both
\* portals at once, while the flight's time is corrected, the no-show window
\* opens, the portals lock after two days and the survey comes in.
PortalOps == {"assign", "clock", "repDelay", "repSurvey"}
             \cup DriverPortal \cup RepPortal

\* The office works the same job: every status its endpoint offers, removal,
\* unassignment, requests that die half-way, and reports that lock both rows in
\* the other order.
OfficeOps == {"assign", "unassign", "officeStatus", "remove", "crash",
              "driverPatch", "repPatch", "repNoShow"}

\* Dispatch moves people on a job under way and an admin forces its legs, and
\* lifts and restores the locks of the portals.
DispatchOps == {"assign", "reassign", "unassign", "officeStatus", "forceLegs",
                "driverPatch", "unlock"}

\* Supplier cars, the midnight cron, and the operations that never reconcile:
\* taking people off, forcing the job status and the fee backfill.
SupplierOps == {"assign", "reassign", "release", "unassign", "forceJob",
                "recalculate", "cron", "driverPatch"}

\* Slots are interchangeable.
Slots == Permutations(Requests)
=============================================================================
