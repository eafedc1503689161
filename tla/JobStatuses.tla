--------------------------- MODULE JobStatuses ---------------------------
(***************************************************************************)
(* The status vocabulary of a transport job and the pure rules over it:    *)
(* the enums of schema.prisma, the transition tables of the office, the    *)
(* driver portal and the rep portal, and the roll-up rule of               *)
(* JobCompletionService that decides from the two portal legs whether a    *)
(* job is finished.  No state here: JobLifecycle reads and writes rows.    *)
(***************************************************************************)

CONSTANT NoOne      \* the null of driver_id and rep_id

\* enum JobStatus and enum PortalJobStatus.
JobStatus == {"PENDING", "ASSIGNED", "IN_PROGRESS",
              "COMPLETED", "CANCELLED", "NO_SHOW"}

PortalStatus == {"PENDING", "IN_PLACE", "IN_PROGRESS",
                 "COMPLETED", "CANCELLED", "NO_SHOW"}

\* The statuses no table below leads out of.
Terminal == {"COMPLETED", "CANCELLED", "NO_SHOW"}

\* Overall statuses the roll-up and the nightly cron leave alone.
Parked == {"CANCELLED", "NO_SHOW"}

\* The moves the office's PATCH status endpoint accepts.
OfficeMoves ==
  {<<"PENDING", "ASSIGNED">>, <<"PENDING", "CANCELLED">>,
   <<"ASSIGNED", "IN_PROGRESS">>, <<"ASSIGNED", "CANCELLED">>,
   <<"ASSIGNED", "NO_SHOW">>, <<"IN_PROGRESS", "COMPLETED">>,
   <<"IN_PROGRESS", "CANCELLED">>, <<"IN_PROGRESS", "NO_SHOW">>}

\* The moves each portal accepts for its own leg.
DriverMoves ==
  {<<"PENDING", "IN_PROGRESS">>, <<"PENDING", "CANCELLED">>,
   <<"IN_PROGRESS", "COMPLETED">>, <<"IN_PROGRESS", "CANCELLED">>}

RepMoves ==
  {<<"PENDING", "IN_PLACE">>, <<"PENDING", "CANCELLED">>,
   <<"IN_PLACE", "COMPLETED">>, <<"IN_PLACE", "CANCELLED">>}

\* The targets each portal's generic PATCH endpoint offers.
DriverTargets == {"IN_PROGRESS", "COMPLETED", "CANCELLED"}
RepTargets    == {"COMPLETED", "CANCELLED"}

-----------------------------------------------------------------------------
\* Nobody is left to wait for: every assigned leg is COMPLETED and at least
\* one leg is assigned.  A supplier's car has no own driver, so its leg is
\* never a gate.
LegsClear(a) ==
  LET driverAssigned == a.driver # NoOne
      repAssigned    == a.rep # NoOne
      driverDone     == a.driverStatus = "COMPLETED"
      repDone        == a.repStatus = "COMPLETED"
  IN  /\ driverAssigned => driverDone
      /\ repAssigned => repDone
      /\ (driverAssigned /\ driverDone) \/ (repAssigned /\ repDone)

\* On a departure the rep has nothing left to do once the car has run: the
\* driver's COMPLETED closes an open rep leg.
CloseDepartureRep(service, a) ==
  IF /\ service = "DEP"
     /\ a.driver # NoOne /\ a.driverStatus = "COMPLETED"
     /\ a.rep # NoOne /\ a.repStatus \notin Terminal
  THEN [a EXCEPT !.repStatus = "COMPLETED"]
  ELSE a
=============================================================================
