----------------------------- MODULE Dispatching -----------------------------
(***************************************************************************)
(* The dispatch board: several jobs, each with its passengers, its time    *)
(* and its flight, compete for cars and reps.  Dispatchers assign and      *)
(* reassign while the office edits the jobs, cancels and reopens them.     *)
(* What happens to one job while it is worked on is in JobLifecycle.       *)
(*                                                                         *)
(* Three rules are kept in three ways.  Seats are compared with what the   *)
(* handler read first; a rep's other jobs are looked up before the write;  *)
(* a car's other jobs only after it, for a warning.  A driver is looked up *)
(* and warned about exactly as a car is, and a supplier's car has its      *)
(* seats counted and nothing else; neither is modelled a second time.      *)
(*                                                                         *)
(* A request is a slot of req that names its next statement in `at';       *)
(* `news' is what others have committed that it does not know of.          *)
(***************************************************************************)
EXTENDS Naturals, FiniteSets

CONSTANTS
  Jobs, Cars, Reps,
  Seats,              \* the seat capacity of each car
  Whens,              \* days and reference times with the flights met then
  NoTime,             \* no reference time: in conflict with nothing
  NoFlight,
  NoOne, Keep,        \* no car or rep; a field a request leaves alone
  MaxPax,
  Requests,           \* slots for requests in flight
  MaxCalls            \* calls in a behaviour

ASSUME Constants ==
  /\ IsFiniteSet(Jobs) /\ MaxCalls \in Nat /\ MaxPax \in Nat \ {0}
  /\ {NoOne, Keep} \cap (Cars \cup Reps \cup Jobs \cup Requests) = {} /\ NoOne # Keep
  /\ Keep \notin Whens /\ \A w \in Whens : DOMAIN w = {"time", "flight"}
  /\ Seats \in [Cars -> Nat]

VARIABLES
  job,      \* traffic_jobs rows with their flights
  asg,      \* traffic_assignments rows, unique per job
  req,      \* the request in each slot
  warned,   \* history: the pairs of jobs somebody was warned about
  unsure,   \* history: <<job, rule>>: nobody has looked, on the present rows
  calls     \* calls so far

vars == <<job, asg, req, warned, unsure, calls>>

\* "open" stands for the statuses in which a job needs its people: PENDING,
\* ASSIGNED, IN_PROGRESS and NO_SHOW.  A completed job leaves the board as a
\* cancelled one does, and is left out.
JobRow == [status: {"open", "CANCELLED"}, pax: 1..MaxPax, when: Whens]

AssignmentRow == [made: BOOLEAN, car: Cars \cup {NoOne}, rep: Reps \cup {NoOne}]

NoAssignment == [made |-> FALSE, car |-> NoOne, rep |-> NoOne]

Rules == {"seats", "rep", "car"}

Request ==
  [op: {"idle", "assign", "reassign", "unassign", "update"},
   at: {"idle", "rep", "seats", "write", "warn"}, job: Jobs \cup {NoOne},
   car: Cars \cup {NoOne, Keep}, rep: Reps \cup {NoOne, Keep},
   pax: 1..MaxPax, when: Whens \cup {Keep},
   news: SUBSET {"seats", "rep", "moved", "gone"}]

Idle == [op |-> "idle", at |-> "idle", job |-> NoOne, car |-> Keep, rep |-> Keep,
         pax |-> 1, when |-> Keep, news |-> {}]

TypeOK ==
  /\ job \in [Jobs -> JobRow]
  /\ asg \in [Jobs -> AssignmentRow]
  /\ req \in [Requests -> Request]
  /\ warned \subseteq SUBSET Jobs
  /\ unsure \subseteq Jobs \X Rules
  /\ calls \in 0..MaxCalls

Init ==
  /\ job \in [Jobs -> [status: {"open"}, pax: {1}, when: Whens]]
  /\ asg = [j \in Jobs |-> NoAssignment]
  /\ req = [r \in Requests |-> Idle]
  /\ warned = {} /\ unsure = {} /\ calls = 0

-----------------------------------------------------------------------------
Called == calls < MaxCalls /\ calls' = calls + 1

Admit(r, q) ==
  /\ req[r] = Idle /\ Called
  /\ req' = [req EXCEPT ![r] = q]
  /\ UNCHANGED <<job, asg, warned, unsure>>

At(r, statement) == req[r].at = statement

Ends(r) == req' = [req EXCEPT ![r] = Idle]

\* Request r goes on as q.  The others on job j get the news, and those that are
\* about to take rep are too late to see it taken.
Commits(r, q, j, news, rep) ==
  req' = [o \in Requests |->
    CASE o = r         -> q
      [] req[o] = Idle -> Idle
      [] OTHER         ->
           [req[o] EXCEPT !.news = @
              \cup (IF req[o].job = j THEN news ELSE {})
              \cup (IF At(o, "write") /\ rep \in Reps /\ req[o].rep = rep
                    THEN {"rep"} ELSE {})]]

\* Two jobs at the same time, unless they meet the same flight.
SameTime(w, v) ==
  /\ w.time # NoTime /\ w.time = v.time
  /\ ~(w.flight # NoFlight /\ w.flight = v.flight)

\* Open jobs that have resource x at the time of request q's job.  Only
\* reassignJob leaves out the job's own assignment.
Busy(q, field, x) ==
  {i \in Jobs :
     /\ q.op = "reassign" => i # q.job
     /\ asg[i].made /\ asg[i][field] = x /\ job[i].status = "open"
     /\ SameTime(q.when, job[i].when)}

-----------------------------------------------------------------------------
(***************************************************************************)
(* Assigning, reassigning, unassigning.                                    *)
(***************************************************************************)
Fits(pax, c) == c \in Cars => pax <= Seats[c]

\* The car is checked with the job that was read; a rep is looked up next.
Checked(op, j, c, p) ==
  [op |-> op, at |-> IF p \in Reps THEN "rep" ELSE "write", job |-> j, car |-> c,
   rep |-> p, pax |-> 1, when |-> job[j].when, news |-> {}]

\* DispatchService.assignJob: a car or a rep, for a job that is not cancelled
\* and has no assignment.
Assign(r, j) ==
  \E c \in Cars \cup {NoOne}, p \in Reps \cup {NoOne} :
    /\ c \in Cars \/ p \in Reps
    /\ job[j].status # "CANCELLED" /\ ~asg[j].made /\ Fits(job[j].pax, c)
    /\ Admit(r, Checked("assign", j, c, p))

\* reassignJob: also of a cancelled job.
Reassign(r, j) ==
  \E c \in Cars \cup {NoOne, Keep}, p \in Reps \cup {NoOne, Keep} :
    /\ <<c, p>> # <<Keep, Keep>>
    /\ asg[j].made /\ Fits(job[j].pax, c)
    /\ Admit(r, Checked("reassign", j, c, p))

\* A slip: the exception is for other flights instead of the same one.
CheckRepFlight(r) ==
  /\ At(r, "rep")
  /\ LET q == req[r] IN
       IF \A i \in Busy(q, "rep", q.rep) : job[i].when.flight # q.when.flight
       THEN req' = [req EXCEPT ![r].at = "write"]
       ELSE Ends(r)
  /\ UNCHANGED <<job, asg, warned, unsure, calls>>

\* validateRepAvailability: a rep who is taken is refused.
CheckRep(r) ==
  /\ At(r, "rep")
  /\ IF Busy(req[r], "rep", req[r].rep) = {}
     THEN req' = [req EXCEPT ![r].at = "write"]
     ELSE Ends(r)
  /\ UNCHANGED <<job, asg, warned, unsure, calls>>

\* The rules a request's car and rep fall under, and those among them it has
\* followed on rows that have changed since.
Falls(q) == (IF q.car # Keep THEN {"seats", "car"} ELSE {})
              \cup (IF q.rep # Keep THEN {"rep"} ELSE {})

Outdated(q) ==
  Falls(q) \cap ((q.news \cap {"seats", "rep"})
                   \cup IF "moved" \in q.news THEN {"rep", "car"} ELSE {})

\* What is known of the job once the request has written; a warning is left to
\* give if it has put a car on it.
Books(r) ==
  LET q == req[r] IN
  /\ warned' = {w \in warned : ~(q.job \in w /\ q.car # Keep)}
  /\ unsure' = (unsure \ ({q.job} \X Falls(q))) \cup ({q.job} \X Outdated(q))
  /\ Commits(r, IF q.car \in Cars
                THEN [q EXCEPT !.at = "warn", !.rep = Keep, !.news = @ \cap {"moved"}]
                ELSE Idle,
             q.job, IF q.car = Keep THEN {} ELSE {"seats"}, q.rep)

\* The transaction: the row, one per job, and ASSIGNED whatever the status.
WriteAssignment(r) ==
  /\ At(r, "write") /\ req[r].op = "assign"
  /\ LET q == req[r] IN
       \/ /\ ~asg[q.job].made
          /\ asg' = [asg EXCEPT ![q.job] = [made |-> TRUE, car |-> q.car, rep |-> q.rep]]
          /\ job' = [job EXCEPT ![q.job].status = "open"]
          /\ Books(r)
       \/ asg[q.job].made /\ Ends(r) /\ UNCHANGED <<job, asg, warned, unsure>>
  /\ UNCHANGED calls

Kept(new, old) == IF new = Keep THEN old ELSE new

\* By the assignment's id: an error if it is gone.
WriteReassignment(r) ==
  /\ At(r, "write") /\ req[r].op = "reassign"
  /\ LET q == req[r] IN
       \/ /\ "gone" \notin q.news
          /\ asg' = [asg EXCEPT ![q.job].car = Kept(q.car, @),
                                ![q.job].rep = Kept(q.rep, @)]
          /\ Books(r)
       \/ "gone" \in q.news /\ Ends(r) /\ UNCHANGED <<asg, warned, unsure>>
  /\ UNCHANGED <<job, calls>>

\* A slip: reassignments are not looked at.
WarnOnce(r) ==
  /\ At(r, "warn")
  /\ LET q == req[r] IN
       warned' = warned \cup {{q.job, i} : i \in
                             IF q.op = "assign" THEN Busy(q, "car", q.car) ELSE {}}
  /\ Ends(r)
  /\ UNCHANGED <<job, asg, unsure, calls>>

\* detectAssignmentConflicts, after the commit: "a heads-up" for each job the
\* car is booked for at the time the handler read.  assignJob finds the row it
\* has just made, and warns of the job itself, too, unless it has a flight.
Warn(r) ==
  /\ At(r, "warn")
  /\ LET q == req[r] IN
       warned' = warned \cup {{q.job, i} : i \in Busy(q, "car", q.car)}
  /\ Ends(r)
  /\ UNCHANGED <<job, asg, unsure, calls>>

\* unassignJob
Unassign(r, j) ==
  /\ asg[j].made
  /\ Admit(r, [Idle EXCEPT !.op = "unassign", !.at = "write", !.job = j])

\* PENDING, whatever the status was.
WriteUnassignment(r) ==
  /\ At(r, "write") /\ req[r].op = "unassign"
  /\ LET j == req[r].job IN
       \/ /\ "gone" \notin req[r].news
          /\ asg' = [asg EXCEPT ![j] = NoAssignment]
          /\ job' = [job EXCEPT ![j].status = "open"]
          /\ warned' = {w \in warned : j \notin w}
          /\ unsure' = unsure \ ({j} \X Rules)
          /\ Commits(r, Idle, j, {"gone", "seats"}, NoOne)
       \/ "gone" \in req[r].news /\ Ends(r) /\ UNCHANGED <<job, asg, warned, unsure>>
  /\ UNCHANGED calls

-----------------------------------------------------------------------------
(***************************************************************************)
(* Jobs change under their assignments.                                    *)
(***************************************************************************)
\* TrafficJobsService.update of the passengers, and of the time or the flight.
\* More passengers than it read have to find seats.
Update(r, j) ==
  \E n \in 1..MaxPax, w \in Whens \cup {Keep} :
    /\ n # job[j].pax \/ w # Keep
    /\ Admit(r, [Idle EXCEPT !.op = "update", !.job = j, !.pax = n, !.when = w,
                   !.at = IF n > job[j].pax THEN "seats" ELSE "write"])

\* A slip: the edit form is trusted.
CheckNoSeats(r) ==
  /\ At(r, "seats")
  /\ req' = [req EXCEPT ![r].at = "write"]
  /\ UNCHANGED <<job, asg, warned, unsure, calls>>

\* The look at the assignment, a statement of its own.
CheckSeats(r) ==
  /\ At(r, "seats")
  /\ IF Fits(req[r].pax, asg[req[r].job].car)
     THEN req' = [req EXCEPT ![r].at = "write"]
     ELSE Ends(r)
  /\ UNCHANGED <<job, asg, warned, unsure, calls>>

\* A job is at another time, or on the board again: whatever was looked up for
\* it, or about it, was looked up for another time.
Moves(j) == {j} \X {"rep", "car"}

\* The passengers are written in any case, time and flight if given.
WriteUpdate(r) ==
  /\ At(r, "write") /\ req[r].op = "update"
  /\ LET q == req[r]
         moves == Kept(q.when, job[q.job].when) # job[q.job].when IN
       /\ job' = [job EXCEPT ![q.job].pax = q.pax, ![q.job].when = Kept(q.when, @)]
       /\ unsure' = unsure \cup (IF moves THEN Moves(q.job) ELSE {})
            \cup {<<q.job, rule>> : rule \in q.news \cap {"seats"}}
       /\ Commits(r, Idle, q.job,
                  {"seats"} \cup (IF moves THEN {"moved"} ELSE {}), NoOne)
  /\ UNCHANGED <<asg, warned, calls>>

\* RepPortalService.submitFlightDelay: the rep moves the job.
ReportDelay(j, w) ==
  /\ Called
  /\ asg[j].rep \in Reps /\ job[j].when.flight # NoFlight
  /\ w.flight = job[j].when.flight /\ w.time \notin {NoTime, job[j].when.time}
  /\ job' = [job EXCEPT ![j].when = w]
  /\ unsure' = unsure \cup Moves(j)
  /\ Commits(NoOne, Idle, j, {"moved"}, NoOne)
  /\ UNCHANGED <<asg, warned>>

\* TrafficJobsService.forceControl: cancelled, and open again.
ForceStatus(j, s) ==
  /\ Called /\ job[j].status # s
  /\ job' = [job EXCEPT ![j].status = s]
  /\ unsure' = unsure \cup (IF s = "open" THEN Moves(j) ELSE {})
  /\ UNCHANGED <<asg, req, warned>>

\* A request dies between two statements; its dispatcher gets no warning.
Crash(r) ==
  /\ req[r] # Idle
  /\ unsure' = unsure \cup (IF At(r, "warn") THEN {<<req[r].job, "car">>} ELSE {})
  /\ Ends(r)
  /\ UNCHANGED <<job, asg, warned, calls>>

Admission(r) ==
  \E j \in Jobs :
    \/ Assign(r, j)
    \/ Reassign(r, j)
    \/ Unassign(r, j)
    \/ Update(r, j)

Proceed(r) ==
  \/ CheckRep(r)
  \/ WriteAssignment(r)
  \/ WriteReassignment(r)
  \/ Warn(r)
  \/ WriteUnassignment(r)
  \/ CheckSeats(r)
  \/ WriteUpdate(r)

Next ==
  \/ \E r \in Requests : Admission(r) \/ Proceed(r) \/ Crash(r)
  \/ \E j \in Jobs :
       \/ \E w \in Whens : ReportDelay(j, w)
       \/ \E s \in {"open", "CANCELLED"} : ForceStatus(j, s)

Spec == Init /\ [][Next]_vars

-----------------------------------------------------------------------------
(***************************************************************************)
(* Properties.                                                             *)
(***************************************************************************)
Stands(j, rule) == <<j, rule>> \notin unsure

\* Jobs i and j need the same car or rep at the same time.
Clash(i, j, field) ==
  /\ i # j /\ asg[i].made /\ asg[j].made /\ asg[i][field] = asg[j][field]
  /\ job[i].status = "open" /\ job[j].status = "open"
  /\ SameTime(job[i].when, job[j].when)

\* The passengers fit into the assigned car however often either has changed,
\* unless an edit and an assignment were under way at once (assignJob,
\* reassignJob and TrafficJobsService.update, each of which checks the other).
SeatsEnough ==
  \A j \in Jobs : Stands(j, "seats") => Fits(job[j].pax, asg[j].car)

\* A rep has one job at a time, or several for one flight, unless a job was
\* moved or reopened under the rep, or two requests took the rep at once
\* (validateRepAvailability).
RepNotTwice ==
  \A i, j \in Jobs :
    Clash(i, j, "rep") /\ asg[i].rep \in Reps => ~(Stands(i, "rep") /\ Stands(j, "rep"))

\* Somebody is told of every car that is booked twice, also when two
\* dispatchers book it at once, or is about to be, unless a job was moved or
\* reopened since (detectAssignmentConflicts, after the write).
DoubleBookingWarned ==
  \A i, j \in Jobs :
    /\ Clash(i, j, "car") /\ asg[i].car \in Cars
    /\ Stands(i, "car") /\ Stands(j, "car")
    => \/ {i, j} \in warned
       \/ \E r \in Requests :
            At(r, "warn") /\ req[r].job \in {i, j} /\ req[r].car = asg[i].car
=============================================================================
