--------------------------- MODULE SupplierNight ---------------------------
(***************************************************************************)
(* The midnight run that closes the driver's leg of supplier-sourced jobs, *)
(* as every pod of the backend fires it.  The pods race for the night's    *)
(* claim, a row of cron_run_locks; the one that gets it lists the open     *)
(* legs of past jobs and closes them one by one.  What the run does to a   *)
(* job that others are working on is in JobLifecycle.                      *)
(***************************************************************************)
EXTENDS Naturals

CONSTANTS
  Pods,
  Legs       \* driver's legs of supplier-sourced jobs

VARIABLES
  leg,       \* "future", "yesterday" and "earlier" tell an open leg's job date
  claimed,   \* cron_run_locks has the row of this night
  night,     \* the run of each pod
  closings   \* history: times the system has closed each leg

nightVars == <<leg, claimed, night, closings>>

NoRun == [at |-> "idle", todo |-> {}]

NightTypeOK ==
  /\ leg \in [Legs -> {"future", "yesterday", "earlier", "closed"}]
  /\ claimed \in BOOLEAN
  /\ night \in [Pods -> [at: {"idle", "claim", "list", "walk"}, todo: SUBSET Legs]]
  /\ closings \in [Legs -> Nat]

NightInit ==
  /\ leg = [l \in Legs |-> "future"] /\ claimed = FALSE
  /\ night = [p \in Pods |-> NoRun] /\ closings = [l \in Legs |-> 0]

-----------------------------------------------------------------------------
\* A new date: some jobs are of the past now, nobody has claimed the night, and
\* the timer fires on every pod.  A run never takes a whole day.
Midnight ==
  /\ \A p \in Pods : night[p] = NoRun
  /\ \E dated \in SUBSET {l \in Legs : leg[l] = "future"} :
       leg' = [l \in Legs |->
         CASE l \in dated           -> "yesterday"
           [] leg[l] = "yesterday"  -> "earlier"
           [] OTHER                 -> leg[l]]
  /\ claimed' = FALSE
  /\ night' = [p \in Pods |-> [NoRun EXCEPT !.at = "claim"]]
  /\ UNCHANGED closings

\* A slip: the row is not unique.
ClaimAnyway(p) ==
  /\ night[p].at = "claim"
  /\ claimed' = TRUE /\ night' = [night EXCEPT ![p].at = "list"]
  /\ UNCHANGED <<leg, closings>>

\* (job_name, run_date) is unique: the second insert fails and its pod is done.
Claim(p) ==
  /\ night[p].at = "claim"
  /\ claimed' = TRUE
  /\ night' = [night EXCEPT ![p].at = IF claimed THEN "idle" ELSE "list"]
  /\ UNCHANGED <<leg, closings>>

Walks(p, legs) ==
  night' = [night EXCEPT ![p] = IF legs = {} THEN NoRun ELSE [at |-> "walk", todo |-> legs]]

\* A slip: only the jobs of the day before.
ListYesterday(p) ==
  /\ night[p].at = "list"
  /\ Walks(p, {l \in Legs : leg[l] = "yesterday"})
  /\ UNCHANGED <<leg, claimed, closings>>

\* autoCompleteSupplierDrivers lists every open leg of a past job, so that a
\* night takes up what an earlier one has left.
List(p) ==
  /\ night[p].at = "list"
  /\ Walks(p, {l \in Legs : leg[l] \in {"yesterday", "earlier"}})
  /\ UNCHANGED <<leg, claimed, closings>>

\* One transaction per leg: its status and its log entry.
Close(p, l) ==
  /\ night[p].at = "walk" /\ l \in night[p].todo
  /\ leg' = [leg EXCEPT ![l] = "closed"]
  /\ closings' = [closings EXCEPT ![l] = @ + 1]
  /\ Walks(p, night[p].todo \ {l})
  /\ UNCHANGED claimed

\* A transaction that fails is logged and the walk goes on.
CloseFails(p, l) ==
  /\ night[p].at = "walk" /\ l \in night[p].todo
  /\ Walks(p, night[p].todo \ {l})
  /\ UNCHANGED <<leg, claimed, closings>>

NightDies(p) ==
  /\ night' = [night EXCEPT ![p] = NoRun]
  /\ UNCHANGED <<leg, claimed, closings>>

NightStep(p) ==
  \/ Claim(p)
  \/ List(p)
  \/ \E l \in Legs : Close(p, l)

-----------------------------------------------------------------------------
\* A leg is closed by the system once, whichever pods fire, die or come back.
ClosedOnce == \A l \in Legs : closings[l] <= 1

\* The leg of a past job is closed in the end: a night that was claimed and not
\* worked off is made up for by a later one.
PastLegsClose ==
  \A l \in Legs : leg[l] = "yesterday" ~> leg[l] = "closed"
=============================================================================
