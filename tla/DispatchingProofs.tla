-------------------------- MODULE DispatchingProofs --------------------------
(***************************************************************************)
(* Dispatching for every number of jobs, cars, reps, requests and calls:   *)
(* that the passengers have seats, that no rep is given away twice, and    *)
(* that somebody hears of every car booked twice.                          *)
(***************************************************************************)
EXTENDS Dispatching, TLAPS

-----------------------------------------------------------------------------
(***************************************************************************)
(* The inductive invariant.                                                *)
(***************************************************************************)
Staffs(q) == q.op \in {"assign", "reassign"}

\* A request has a job, and each statement belongs to its operation.
Shaped(q) ==
  /\ q.at = "idle" => q = Idle
  /\ q.at # "idle" => q.job \in Jobs
  /\ q.at = "rep" => Staffs(q) /\ q.rep \in Reps
  /\ q.at = "warn" => Staffs(q) /\ q.car \in Cars
  /\ q.at = "seats" => q.op = "update"
  /\ q.at = "write" => q.op # "idle"
  /\ Staffs(q) => q.at \in {"rep", "write", "warn"} /\ q.when \in Whens
  /\ q.op = "assign" /\ q.at # "warn" => q.car # Keep /\ q.rep # Keep

\* A request that was told of no change knows that its car has the seats, or
\* that the job's car has seats for its passengers.
SeatsKnown(q) ==
  "seats" \notin q.news =>
    /\ Staffs(q) /\ q.at \in {"rep", "write"} => Fits(job[q.job].pax, q.car)
    /\ q.op = "update" /\ q.at = "write" /\ Stands(q.job, "seats") =>
         Fits(q.pax, asg[q.job].car)

TimeKnown(q) ==
  Staffs(q) /\ "moved" \notin q.news => q.when = job[q.job].when

\* The rep it is about to take has nothing else to do at that time.
RepKnown(q) ==
  Staffs(q) /\ q.at = "write" /\ q.rep \in Reps /\ q.news \cap {"rep", "moved"} = {} =>
    \A i \in Jobs \ {q.job} :
      /\ asg[i].made /\ asg[i].rep = q.rep /\ job[i].status = "open"
      /\ SameTime(q.when, job[i].when)
      => ~ Stands(i, "rep")

Known(q) == Shaped(q) /\ SeatsKnown(q) /\ TimeKnown(q) /\ RepKnown(q)

\* A request about to warn of job i or j looks at the time they have now.
WillWarn(i, j) ==
  \E r \in Requests :
    /\ At(r, "warn") /\ req[r].job \in {i, j} /\ req[r].car = asg[i].car
    /\ "moved" \notin req[r].news

Warned ==
  \A i, j \in Jobs :
    /\ Clash(i, j, "car") /\ asg[i].car \in Cars
    /\ Stands(i, "car") /\ Stands(j, "car")
    => {i, j} \in warned \/ WillWarn(i, j)

IInv ==
  /\ TypeOK /\ SeatsEnough /\ RepNotTwice /\ Warned
  /\ \A r \in Requests : Known(req[r])

LEMMA InvImplies == IInv => DoubleBookingWarned
BY DEF IInv, Warned, WillWarn, DoubleBookingWarned

LEMMA SameTimeIsMutual ==
  ASSUME NEW w, NEW v PROVE SameTime(w, v) <=> SameTime(v, w)
BY DEF SameTime

LEMMA IdleIsKnown ==
  Idle \in Request /\ Known(Idle)
<1>1. Idle \in Request
  BY Constants DEF Idle, Request
<1>2. Shaped(Idle) /\ ~Staffs(Idle) /\ Idle.op # "update"
  BY DEF Idle, Shaped, Staffs
<1>3. QED
  BY <1>1, <1>2 DEF Known, SeatsKnown, TimeKnown, RepKnown

LEMMA InitEstablishes == Init => IInv
<1> SUFFICES ASSUME Init PROVE IInv
  OBVIOUS
<1>1. TypeOK
  <2>1. job \in [Jobs -> JobRow]
    BY Constants DEF Init, JobRow
  <2>2. asg \in [Jobs -> AssignmentRow]
    BY DEF Init, NoAssignment, AssignmentRow
  <2>3. req \in [Requests -> Request]
    BY IdleIsKnown DEF Init
  <2>4. QED
    BY <2>1, <2>2, <2>3, Constants DEF Init, TypeOK
<1>2. \A j \in Jobs : ~asg[j].made /\ asg[j].car \notin Cars
  BY Constants DEF Init, NoAssignment
<1>3. SeatsEnough /\ RepNotTwice /\ Warned
  BY <1>2 DEF SeatsEnough, Fits, RepNotTwice, Warned, Clash
<1>4. \A r \in Requests : Known(req[r])
  BY IdleIsKnown DEF Init
<1>5. QED
  BY <1>1, <1>3, <1>4 DEF IInv

-----------------------------------------------------------------------------
(***************************************************************************)
(* Statements that change no row.                                          *)
(***************************************************************************)
\* Request r has become q, and the others are as they were.
Becomes(r, q) ==
  /\ req' \in [Requests -> Request] /\ req'[r] = q
  /\ \A o \in Requests \ {r} : req'[o] = req[o]

LEMMA KnownStays ==
  ASSUME UNCHANGED <<job, asg, unsure>>, NEW q, Known(q)
  PROVE  Known(q)'
BY DEF Known, Shaped, SeatsKnown, TimeKnown, RepKnown, Stands, Fits, SameTime,
   Staffs, Idle

\* A request that takes a step of its own, and is not about to warn.
LEMMA LocalKeeps ==
  ASSUME IInv, NEW r \in Requests, NEW q \in Request, ~At(r, "warn"),
         Becomes(r, q), Known(q), UNCHANGED <<job, asg, warned, unsure>>,
         calls' \in 0..MaxCalls
  PROVE  IInv'
<1>1. TypeOK'
  BY DEF IInv, TypeOK, Becomes
<1>2. SeatsEnough' /\ RepNotTwice'
  BY DEF IInv, SeatsEnough, RepNotTwice, Clash, Stands, Fits, SameTime
<1>3. Warned'
  <2>1. ASSUME NEW i \in Jobs, NEW j \in Jobs, WillWarn(i, j) PROVE WillWarn(i, j)'
    BY <2>1 DEF WillWarn, Becomes, At
  <2>2. QED
    BY <2>1 DEF IInv, Warned, Clash, Stands, SameTime
<1>4. ASSUME NEW o \in Requests PROVE Known(req[o])'
  <2>1. CASE o = r
    BY <2>1, KnownStays DEF Becomes
  <2>2. CASE o # r
    BY <2>2, KnownStays DEF Becomes, IInv
  <2>3. QED
    BY <2>1, <2>2
<1>5. QED
  BY <1>1, <1>2, <1>3, <1>4 DEF IInv

LEMMA AdmitKeeps ==
  ASSUME IInv, NEW r \in Requests, NEW q \in Request, Known(q), Admit(r, q)
  PROVE  IInv'
<1>1. Becomes(r, q) /\ ~At(r, "warn")
  BY DEF IInv, TypeOK, Admit, Becomes, At, Idle
<1>2. calls' \in 0..MaxCalls
  BY Constants DEF IInv, TypeOK, Admit, Called
<1>3. QED
  BY <1>1, <1>2, LocalKeeps DEF Admit

LEMMA CheckedIsKnown ==
  ASSUME IInv, NEW j \in Jobs, NEW op \in {"assign", "reassign"},
         NEW c \in Cars \cup {NoOne, Keep}, NEW p \in Reps \cup {NoOne, Keep},
         op = "assign" => c # Keep /\ p # Keep, Fits(job[j].pax, c),
         p \in Reps => Checked(op, j, c, p).at = "rep"
  PROVE  Checked(op, j, c, p) \in Request /\ Known(Checked(op, j, c, p))
<1> DEFINE q == Checked(op, j, c, p)
<1>1. /\ q.op = op /\ q.job = j /\ q.car = c /\ q.rep = p /\ q.when = job[j].when
      /\ q.at = (IF p \in Reps THEN "rep" ELSE "write")
      /\ q.pax = 1 /\ q.news = {}
  BY DEF Checked
<1>2. job[j].when \in Whens
  BY DEF IInv, TypeOK, JobRow
<1>3. q \in Request
  <2>1. 1 \in 1..MaxPax
    BY Constants
  <2>2. QED
    BY <1>2, <2>1 DEF Checked, Request
<1>4. Shaped(q)
  BY <1>1, <1>2 DEF Shaped, Staffs
<1>5. SeatsKnown(q) /\ TimeKnown(q) /\ RepKnown(q)
  BY <1>1 DEF SeatsKnown, TimeKnown, RepKnown, Staffs
<1>6. QED
  BY <1>3, <1>4, <1>5 DEF Known

LEMMA AssignKeeps ==
  ASSUME IInv, NEW r \in Requests, NEW j \in Jobs, Assign(r, j)
  PROVE  IInv'
<1>1. PICK c \in Cars \cup {NoOne}, p \in Reps \cup {NoOne} :
        Fits(job[j].pax, c) /\ Admit(r, Checked("assign", j, c, p))
  BY DEF Assign
<1>2. c # Keep /\ p # Keep
  BY Constants
<1>3. p \in Reps => Checked("assign", j, c, p).at = "rep"
  BY DEF Checked
<1>4. Checked("assign", j, c, p) \in Request /\ Known(Checked("assign", j, c, p))
  BY <1>1, <1>2, <1>3, CheckedIsKnown
<1>5. QED
  BY <1>1, <1>4, AdmitKeeps

LEMMA ReassignKeeps ==
  ASSUME IInv, NEW r \in Requests, NEW j \in Jobs, Reassign(r, j)
  PROVE  IInv'
<1>1. PICK c \in Cars \cup {NoOne, Keep}, p \in Reps \cup {NoOne, Keep} :
        Fits(job[j].pax, c) /\ Admit(r, Checked("reassign", j, c, p))
  BY DEF Reassign
<1>2. p \in Reps => Checked("reassign", j, c, p).at = "rep"
  BY DEF Checked
<1>3. Checked("reassign", j, c, p) \in Request /\ Known(Checked("reassign", j, c, p))
  BY <1>1, <1>2, CheckedIsKnown
<1>4. QED
  BY <1>1, <1>3, AdmitKeeps

LEMMA UnassignKeeps ==
  ASSUME IInv, NEW r \in Requests, NEW j \in Jobs, Unassign(r, j)
  PROVE  IInv'
<1> DEFINE q == [Idle EXCEPT !.op = "unassign", !.at = "write", !.job = j]
<1>1. q \in Request
  BY IdleIsKnown DEF Request
<1>2. Known(q)
  BY DEF Known, Shaped, SeatsKnown, TimeKnown, RepKnown, Staffs, Idle
<1>3. QED
  BY <1>1, <1>2, AdmitKeeps DEF Unassign

\* No more passengers than there were fit where those did.
LEMMA UpdateKeeps ==
  ASSUME IInv, NEW r \in Requests, NEW j \in Jobs, Update(r, j)
  PROVE  IInv'
<1>1. PICK n \in 1..MaxPax, w \in Whens \cup {Keep} :
        Admit(r, [Idle EXCEPT !.op = "update", !.job = j, !.pax = n, !.when = w,
                    !.at = IF n > job[j].pax THEN "seats" ELSE "write"])
  BY DEF Update
<1> DEFINE q == [Idle EXCEPT !.op = "update", !.job = j, !.pax = n, !.when = w,
                    !.at = IF n > job[j].pax THEN "seats" ELSE "write"]
<1>2. q \in Request
  BY Constants DEF Idle, Request
<1>3. /\ q.op = "update" /\ q.job = j /\ q.pax = n
      /\ q.at = IF n > job[j].pax THEN "seats" ELSE "write"
  BY DEF Idle
<1>4. Shaped(q) /\ TimeKnown(q) /\ RepKnown(q)
  BY <1>3 DEF Shaped, TimeKnown, RepKnown, Staffs
<1>5. SeatsKnown(q)
  <2>1. SUFFICES ASSUME q.at = "write", Stands(j, "seats")
                 PROVE  Fits(n, asg[j].car)
    BY <1>3 DEF SeatsKnown, Staffs
  <2>2. Fits(job[j].pax, asg[j].car)
    BY <2>1 DEF IInv, SeatsEnough
  <2>3. n <= job[j].pax
    BY <1>3, <2>1, Constants DEF IInv, TypeOK, JobRow
  <2>4. QED
    BY <2>2, <2>3, Constants DEF Fits, IInv, TypeOK, JobRow
<1>6. QED
  BY <1>1, <1>2, <1>4, <1>5, AdmitKeeps DEF Known

LEMMA EndKeeps ==
  ASSUME IInv, NEW r \in Requests, ~At(r, "warn"), Ends(r),
         UNCHANGED <<job, asg, warned, unsure, calls>>
  PROVE  IInv'
<1>1. Becomes(r, Idle)
  BY IdleIsKnown DEF IInv, TypeOK, Ends, Becomes
<1>2. calls' \in 0..MaxCalls
  BY DEF IInv, TypeOK
<1>3. QED
  BY <1>1, <1>2, IdleIsKnown, LocalKeeps

LEMMA ToWriteKeeps ==
  ASSUME IInv, NEW r \in Requests, ~At(r, "warn"),
         req' = [req EXCEPT ![r].at = "write"],
         Known([req[r] EXCEPT !.at = "write"]),
         UNCHANGED <<job, asg, warned, unsure, calls>>
  PROVE  IInv'
<1> DEFINE q == [req[r] EXCEPT !.at = "write"]
<1>1. q \in Request
  BY DEF IInv, TypeOK, Request
<1>2. Becomes(r, q)
  BY <1>1 DEF IInv, TypeOK, Becomes
<1>3. calls' \in 0..MaxCalls
  BY DEF IInv, TypeOK
<1>4. QED
  BY <1>1, <1>2, <1>3, LocalKeeps

LEMMA CheckRepKeeps ==
  ASSUME IInv, NEW r \in Requests, CheckRep(r)
  PROVE  IInv'
<1>1. ~At(r, "warn")
  BY DEF CheckRep, At
<1>2. CASE Busy(req[r], "rep", req[r].rep) = {}
  <2> DEFINE q == [req[r] EXCEPT !.at = "write"]
  <2>1. /\ q.at = "write" /\ q.op = req[r].op /\ q.job = req[r].job
        /\ q.car = req[r].car /\ q.rep = req[r].rep /\ q.when = req[r].when
        /\ q.news = req[r].news
    BY DEF IInv, TypeOK, Request
  <2>2. Known(req[r]) /\ req[r].at = "rep"
    BY DEF IInv, CheckRep, At
  <2>3. Shaped(q) /\ SeatsKnown(q) /\ TimeKnown(q)
    BY <2>1, <2>2 DEF Known, Shaped, SeatsKnown, TimeKnown, Staffs
  <2>4. RepKnown(q)
    <3>1. \A i \in Jobs \ {q.job} :
            ~ (/\ asg[i].made /\ asg[i].rep = q.rep /\ job[i].status = "open"
               /\ SameTime(q.when, job[i].when))
      BY <1>2, <2>1 DEF Busy
    <3>2. QED
      BY <3>1 DEF RepKnown
  <2>5. QED
    BY <1>1, <1>2, <2>3, <2>4, ToWriteKeeps DEF CheckRep, Known
<1>3. CASE Busy(req[r], "rep", req[r].rep) # {}
  BY <1>1, <1>3, EndKeeps DEF CheckRep
<1>4. QED
  BY <1>2, <1>3

LEMMA CheckSeatsKeeps ==
  ASSUME IInv, NEW r \in Requests, CheckSeats(r)
  PROVE  IInv'
<1>1. ~At(r, "warn")
  BY DEF CheckSeats, At
<1>2. CASE Fits(req[r].pax, asg[req[r].job].car)
  <2> DEFINE q == [req[r] EXCEPT !.at = "write"]
  <2>1. /\ q.at = "write" /\ q.op = req[r].op /\ q.job = req[r].job
        /\ q.pax = req[r].pax /\ q.rep = req[r].rep /\ q.when = req[r].when
    BY DEF IInv, TypeOK, Request
  <2>2. Shaped(req[r]) /\ req[r].at = "seats"
    BY DEF IInv, Known, CheckSeats, At
  <2>3. Known(q)
    BY <1>2, <2>1, <2>2 DEF Known, Shaped, SeatsKnown, TimeKnown, RepKnown, Staffs
  <2>4. QED
    BY <1>1, <1>2, <2>3, ToWriteKeeps DEF CheckSeats
<1>3. CASE ~Fits(req[r].pax, asg[req[r].job].car)
  BY <1>1, <1>3, EndKeeps DEF CheckSeats
<1>4. QED
  BY <1>2, <1>3

\* The warning is about every job that needs the car at the time of the
\* request's job, if that is still its time.
LEMMA WarnKeeps ==
  ASSUME IInv, NEW r \in Requests, Warn(r)
  PROVE  IInv'
<1> DEFINE q == req[r]
<1>1. Becomes(r, Idle) /\ UNCHANGED <<job, asg, unsure>> /\ calls' \in 0..MaxCalls
  BY IdleIsKnown DEF IInv, TypeOK, Warn, Ends, Becomes
<1>2. Shaped(q) /\ TimeKnown(q) /\ q.at = "warn" /\ q.job \in Jobs
  BY DEF IInv, Known, Shaped, Warn, At
<1>3. warned' = warned \cup {{q.job, i} : i \in Busy(q, "car", q.car)}
  BY DEF Warn
<1>4. TypeOK'
  <2>1. warned' \subseteq SUBSET Jobs
    BY <1>2, <1>3 DEF IInv, TypeOK, Busy
  <2>2. QED
    BY <1>1, <2>1 DEF IInv, TypeOK, Becomes
<1>5. SeatsEnough' /\ RepNotTwice'
  BY <1>1 DEF IInv, SeatsEnough, RepNotTwice, Clash, Stands, Fits, SameTime
<1>6. Warned'
  <2>1. SUFFICES ASSUME NEW i \in Jobs, NEW j \in Jobs,
                        Clash(i, j, "car"), asg[i].car \in Cars,
                        Stands(i, "car"), Stands(j, "car")
                 PROVE  {i, j} \in warned' \/ WillWarn(i, j)'
    BY <1>1 DEF Warned, Clash, Stands, SameTime
  <2>2. CASE {i, j} \in warned
    BY <1>3, <2>2
  <2>3. CASE WillWarn(i, j)
    <3>1. PICK o \in Requests :
            /\ At(o, "warn") /\ req[o].job \in {i, j} /\ req[o].car = asg[i].car
            /\ "moved" \notin req[o].news
      BY <2>3 DEF WillWarn
    <3>2. CASE o = r
      <4>1. q.when = job[q.job].when /\ q.car = asg[i].car /\ q.job \in {i, j}
        BY <1>2, <3>1, <3>2 DEF TimeKnown, Shaped
      <4>2. PICK k \in {i, j} : k # q.job /\ {q.job, k} = {i, j}
        BY <2>1, <4>1 DEF Clash
      <4>3. SameTime(q.when, job[k].when)
        BY <2>1, <4>1, <4>2, SameTimeIsMutual DEF Clash
      <4>4. k \in Busy(q, "car", q.car)
        BY <2>1, <4>1, <4>2, <4>3 DEF Clash, Busy
      <4>5. QED
        BY <1>3, <4>2, <4>4
    <3>3. CASE o # r
      BY <1>1, <3>1, <3>3 DEF WillWarn, Becomes, At
    <3>4. QED
      BY <3>2, <3>3
  <2>4. QED
    BY <2>1, <2>2, <2>3 DEF IInv, Warned
<1>7. ASSUME NEW o \in Requests PROVE Known(req[o])'
  <2>1. CASE o = r
    BY <1>1, <2>1, IdleIsKnown, KnownStays DEF Becomes
  <2>2. CASE o # r
    BY <1>1, <2>2, KnownStays DEF Becomes, IInv
  <2>3. QED
    BY <2>1, <2>2
<1>8. QED
  BY <1>4, <1>5, <1>6, <1>7 DEF IInv

-----------------------------------------------------------------------------
(***************************************************************************)
(* Statements that write the rows of one job.                              *)
(***************************************************************************)
News == {"seats", "rep", "moved", "gone"}

\* Request p hears, and is then q.
Hears(p, q, j, news, rep) ==
  /\ q.op = p.op /\ q.at = p.at /\ q.job = p.job /\ q.car = p.car
  /\ q.rep = p.rep /\ q.pax = p.pax /\ q.when = p.when
  /\ p = Idle => q = Idle
  /\ p.news \subseteq q.news
  /\ p # Idle /\ p.job = j => news \subseteq q.news
  /\ p # Idle /\ p.at = "write" /\ rep \in Reps /\ p.rep = rep => "rep" \in q.news
  /\ "moved" \in q.news => "moved" \in p.news \/ ("moved" \in news /\ p.job = j)

LEMMA CommitsEffect ==
  ASSUME IInv, NEW r \in Requests \cup {NoOne}, NEW q \in Request, NEW j \in Jobs,
         r \in Requests => req[r] # Idle,
         NEW news \in SUBSET News, NEW rep, Commits(r, q, j, news, rep)
  PROVE  /\ req' \in [Requests -> Request]
         /\ r \in Requests => req'[r] = q
         /\ \A o \in Requests \ {r} : Hears(req[o], req'[o], j, news, rep)
<1>1. ASSUME NEW o \in Requests, o # r, req[o] = Idle
      PROVE  req'[o] \in Request /\ Hears(req[o], req'[o], j, news, rep)
  <2>1. req'[o] = Idle
    BY <1>1 DEF Commits
  <2>2. QED
    BY <1>1, <2>1, IdleIsKnown DEF Hears, Idle
<1>2. ASSUME NEW o \in Requests, o # r, req[o] # Idle
      PROVE  req'[o] \in Request /\ Hears(req[o], req'[o], j, news, rep)
  <2> DEFINE told == req[o].news
                \cup (IF req[o].job = j THEN news ELSE {})
                \cup (IF At(o, "write") /\ rep \in Reps /\ req[o].rep = rep
                      THEN {"rep"} ELSE {})
  <2>1. req'[o] = [req[o] EXCEPT !.news = told]
    BY <1>2 DEF Commits
  <2>2. req[o] \in Request
    BY DEF IInv, TypeOK
  <2>3. told \in SUBSET News
    BY <2>2 DEF Request, News
  <2>4. req'[o] \in Request
    BY <2>1, <2>2, <2>3 DEF Request, News
  <2>5. /\ req'[o].op = req[o].op /\ req'[o].at = req[o].at
        /\ req'[o].job = req[o].job /\ req'[o].car = req[o].car
        /\ req'[o].rep = req[o].rep /\ req'[o].pax = req[o].pax
        /\ req'[o].when = req[o].when /\ req'[o].news = told
    BY <2>1, <2>2 DEF Request
  <2>6. QED
    BY <1>2, <2>4, <2>5 DEF Hears, At
<1>3. r \in Requests => req'[r] = q
  BY DEF Commits
<1>4. req' = [o \in Requests |-> req'[o]]
  BY DEF Commits
<1>5. QED
  BY <1>1, <1>2, <1>3, <1>4

\* What is true of job j's rep, or car, is what was true before.
SameRep(j) ==
  asg'[j].made /\ job'[j].status = "open" /\ Stands(j, "rep")' =>
    /\ asg[j].made /\ asg'[j].rep = asg[j].rep
    /\ job[j].status = "open" /\ job'[j].when = job[j].when /\ Stands(j, "rep")

SameCar(j) ==
  asg'[j].made /\ job'[j].status = "open" /\ Stands(j, "car")' =>
    /\ asg[j].made /\ asg'[j].car = asg[j].car
    /\ job[j].status = "open" /\ job'[j].when = job[j].when /\ Stands(j, "car")

\* A write of job j, of which the other requests hear the news and the rep.
Writes(j, news, rep) ==
  /\ \A i \in Jobs \ {j} : job'[i] = job[i] /\ asg'[i] = asg[i]
  /\ \A i \in Jobs \ {j}, rule \in Rules : Stands(i, rule)' <=> Stands(i, rule)
  /\ "seats" \notin news =>
       /\ job'[j].pax = job[j].pax /\ asg'[j].car = asg[j].car
       /\ Stands(j, "seats")' => Stands(j, "seats")
  /\ "moved" \notin news => job'[j].when = job[j].when
  /\ SameRep(j) \/ asg'[j].rep = rep
  /\ Stands(j, "seats")' => Fits(job'[j].pax, asg'[j].car)

LEMMA HearersKnow ==
  ASSUME IInv, NEW j \in Jobs, NEW news \in SUBSET News, NEW rep,
         Writes(j, news, rep), NEW o \in Requests,
         Hears(req[o], req'[o], j, news, rep)
  PROVE  Known(req[o])'
<1> DEFINE p == req[o]
           q == req'[o]
<1>1. Known(p)
  BY DEF IInv
<1>2. CASE p = Idle
  <2>1. q = Idle
    BY <1>2 DEF Hears
  <2>2. Shaped(Idle) /\ ~Staffs(Idle) /\ Idle.op # "update"
    BY DEF Idle, Shaped, Staffs
  <2>3. QED
    BY <2>1, <2>2 DEF Known, Shaped, SeatsKnown, TimeKnown, RepKnown, Staffs, Idle
<1>3. CASE p # Idle
  <2>1. p.at # "idle" /\ p.job \in Jobs
    BY <1>1, <1>3 DEF Known, Shaped
  <2>2. Shaped(req[o])'
    BY <1>1, <2>1 DEF Known, Shaped, Hears, Staffs
  <2>3. SeatsKnown(req[o])'
    <3>1. CASE p.job = j
      BY <1>1, <1>3, <2>1, <3>1
         DEF Known, SeatsKnown, Hears, Writes, Staffs, Fits, Stands
    <3>2. CASE p.job # j
      <4>1. job'[p.job] = job[p.job] /\ asg'[p.job] = asg[p.job]
            /\ (Stands(p.job, "seats")' <=> Stands(p.job, "seats"))
        BY <2>1, <3>2 DEF Writes, Rules, Hears, Stands
      <4>2. QED
        BY <1>1, <3>2, <4>1 DEF Known, SeatsKnown, Hears, Staffs, Fits, Stands
    <3>3. QED
      BY <3>1, <3>2
  <2>4. TimeKnown(req[o])'
    <3>1. CASE p.job = j
      BY <1>1, <1>3, <3>1 DEF Known, TimeKnown, Hears, Writes, Staffs
    <3>2. CASE p.job # j
      BY <1>1, <2>1, <3>2 DEF Known, TimeKnown, Hears, Writes, Staffs
    <3>3. QED
      BY <3>1, <3>2
  <2>5. RepKnown(req[o])'
    <3>1. SUFFICES ASSUME Staffs(q), q.at = "write", q.rep \in Reps,
                          q.news \cap {"rep", "moved"} = {},
                          NEW i \in Jobs \ {q.job},
                          asg'[i].made, asg'[i].rep = q.rep, job'[i].status = "open",
                          SameTime(q.when, job'[i].when), Stands(i, "rep")'
                   PROVE  FALSE
      BY DEF RepKnown, Stands, SameTime, Staffs
    <3>2. /\ Staffs(p) /\ p.at = "write" /\ p.rep = q.rep /\ p.when = q.when
          /\ p.job = q.job /\ p.news \cap {"rep", "moved"} = {}
      BY <3>1 DEF Hears, Staffs
    <3>3. CASE i # j
      <4>1. /\ asg'[i] = asg[i] /\ job'[i] = job[i]
            /\ Stands(i, "rep")
        BY <3>1, <3>3 DEF Writes, Rules
      <4>2. QED
        BY <1>1, <3>1, <3>2, <4>1 DEF Known, RepKnown
    <3>4. CASE i = j
      <4>1. asg'[j].rep # rep
        BY <1>3, <3>1, <3>2, <3>4 DEF Hears
      <4>2. SameRep(j)
        BY <4>1 DEF Writes
      <4>3. /\ asg[i].made /\ asg'[i].rep = asg[i].rep /\ job[i].status = "open"
            /\ job'[i].when = job[i].when /\ Stands(i, "rep")
        BY <3>1, <3>4, <4>2 DEF SameRep
      <4>4. QED
        BY <1>1, <3>1, <3>2, <4>3 DEF Known, RepKnown
    <3>5. QED
      BY <3>3, <3>4
  <2>6. QED
    BY <2>2, <2>3, <2>4, <2>5 DEF Known
<1>4. QED
  BY <1>2, <1>3

LEMMA SeatsKept ==
  ASSUME IInv, NEW j \in Jobs, NEW news, NEW rep, Writes(j, news, rep)
  PROVE  SeatsEnough'
<1>1. SUFFICES ASSUME NEW i \in Jobs, Stands(i, "seats")'
               PROVE  Fits(job'[i].pax, asg'[i].car)
  BY DEF SeatsEnough, Fits, Stands
<1>2. CASE i = j
  BY <1>1, <1>2 DEF Writes
<1>3. CASE i # j
  BY <1>1, <1>3 DEF Writes, Rules, IInv, SeatsEnough
<1>4. QED
  BY <1>2, <1>3

\* Job j's rep is the one it had, or is free then.
LEMMA RepsKept ==
  ASSUME IInv, NEW j \in Jobs, NEW news, NEW rep, Writes(j, news, rep),
         SameRep(j) \/
           (asg'[j].rep \in Reps /\ Stands(j, "rep")' =>
              \A i \in Jobs \ {j} :
                /\ asg[i].made /\ asg[i].rep = asg'[j].rep /\ job[i].status = "open"
                /\ SameTime(job'[j].when, job[i].when)
                => ~ Stands(i, "rep"))
  PROVE  RepNotTwice'
<1>1. ASSUME NEW i \in Jobs \ {j}, Clash(i, j, "rep")', asg'[i].rep \in Reps,
             Stands(i, "rep")', Stands(j, "rep")'
      PROVE  FALSE
  <2>1. job'[i] = job[i] /\ asg'[i] = asg[i] /\ Stands(i, "rep")
    BY <1>1 DEF Writes, Rules
  <2>2. /\ i # j /\ asg[i].made /\ asg'[j].made /\ asg[i].rep = asg'[j].rep
        /\ job[i].status = "open" /\ job'[j].status = "open"
        /\ SameTime(job[i].when, job'[j].when)
    BY <1>1, <2>1 DEF Clash, SameTime
  <2>3. CASE SameRep(j)
    <3>1. /\ asg[j].made /\ asg'[j].rep = asg[j].rep /\ job[j].status = "open"
          /\ job'[j].when = job[j].when /\ Stands(j, "rep")
      BY <1>1, <2>2, <2>3 DEF SameRep
    <3>2. QED
      BY <1>1, <2>1, <2>2, <3>1 DEF IInv, RepNotTwice, Clash
  <2>4. CASE ~SameRep(j)
    BY <1>1, <2>1, <2>2, <2>4, SameTimeIsMutual
  <2>5. QED
    BY <2>3, <2>4
<1>2. SUFFICES ASSUME NEW i \in Jobs, NEW k \in Jobs, Clash(i, k, "rep")',
                      asg'[i].rep \in Reps, Stands(i, "rep")', Stands(k, "rep")'
               PROVE  FALSE
  BY DEF RepNotTwice, Clash, Stands, SameTime
<1>3. CASE k = j
  BY <1>1, <1>2, <1>3 DEF Clash
<1>4. CASE i = j
  <2>1. Clash(k, j, "rep")' /\ k # j /\ asg'[k].rep \in Reps
    BY <1>2, <1>4 DEF Clash, SameTime
  <2>2. QED
    BY <1>1, <1>2, <1>4, <2>1
<1>5. CASE i # j /\ k # j
  <2>1. /\ job'[i] = job[i] /\ asg'[i] = asg[i] /\ Stands(i, "rep")
        /\ job'[k] = job[k] /\ asg'[k] = asg[k] /\ Stands(k, "rep")
    BY <1>2, <1>5 DEF Writes, Rules
  <2>2. QED
    BY <1>2, <2>1 DEF IInv, RepNotTwice, Clash, SameTime
<1>6. QED
  BY <1>3, <1>4, <1>5

\* Job j's car is the one it had, or its request is about to warn of it.
CarNoticed(r, j) ==
  \/ SameCar(j) /\ (asg'[j].made => warned \subseteq warned')
  \/ asg'[j].car \in Cars /\ Stands(j, "car")' =>
       /\ r \in Requests /\ At(r, "warn")' /\ req'[r].job = j
       /\ req'[r].car = asg'[j].car /\ "moved" \notin req'[r].news

LEMMA CarsKept ==
  ASSUME IInv, NEW j \in Jobs, NEW news \in SUBSET News, NEW rep, Writes(j, news, rep),
         NEW r \in Requests \cup {NoOne}, r \in Requests => ~At(r, "warn"),
         \A o \in Requests \ {r} : Hears(req[o], req'[o], j, news, rep),
         "moved" \in news => ~ Stands(j, "car")',
         \A w \in warned : j \notin w => w \in warned',
         CarNoticed(r, j)
  PROVE  Warned'
<1>1. SUFFICES ASSUME NEW i \in Jobs, NEW k \in Jobs, Clash(i, k, "car")',
                      asg'[i].car \in Cars, Stands(i, "car")', Stands(k, "car")'
               PROVE  {i, k} \in warned' \/ WillWarn(i, k)'
  BY DEF Warned, Clash, Stands, SameTime
<1>2. CASE j \in {i, k} /\ ~ (SameCar(j) /\ (asg'[j].made => warned \subseteq warned'))
  <2>1. asg'[j].car = asg'[i].car
    BY <1>1, <1>2 DEF Clash
  <2>2. /\ r \in Requests /\ At(r, "warn")' /\ req'[r].job = j
        /\ req'[r].car = asg'[j].car /\ "moved" \notin req'[r].news
    BY <1>1, <1>2, <2>1 DEF CarNoticed
  <2>3. QED
    BY <1>2, <2>1, <2>2 DEF WillWarn, At
<1>3. CASE j \notin {i, k} \/ (SameCar(j) /\ (asg'[j].made => warned \subseteq warned'))
  <2>1. ASSUME NEW m \in {i, k}
        PROVE  /\ asg[m].made /\ asg'[m].car = asg[m].car /\ job[m].status = "open"
               /\ job'[m].when = job[m].when /\ Stands(m, "car")
    <3>1. CASE m = j
      BY <1>1, <1>3, <3>1 DEF SameCar, Clash
    <3>2. CASE m # j
      BY <1>1, <3>2 DEF Writes, Rules, Clash
    <3>3. QED
      BY <3>1, <3>2
  <2>2. i # k /\ asg'[i].car = asg'[k].car /\ SameTime(job'[i].when, job'[k].when)
    BY <1>1 DEF Clash, SameTime
  <2>3. Clash(i, k, "car") /\ asg[i].car \in Cars
    BY <1>1, <2>1, <2>2 DEF Clash
  <2>4. {i, k} \in warned \/ WillWarn(i, k)
    BY <2>1, <2>3 DEF IInv, Warned
  <2>5. CASE {i, k} \in warned
    BY <1>1, <1>3, <2>5 DEF Clash
  <2>6. CASE WillWarn(i, k)
    <3>1. PICK o \in Requests :
            /\ At(o, "warn") /\ req[o].job \in {i, k} /\ req[o].car = asg[i].car
            /\ "moved" \notin req[o].news
      BY <2>6 DEF WillWarn
    <3>2. Hears(req[o], req'[o], j, news, rep)
      BY <3>1
    <3>3. "moved" \notin req'[o].news
      BY <1>1, <3>1, <3>2 DEF Hears
    <3>4. At(o, "warn")' /\ req'[o].job \in {i, k} /\ req'[o].car = asg'[i].car
      BY <2>1, <3>1, <3>2 DEF Hears, At
    <3>5. QED
      BY <3>3, <3>4 DEF WillWarn
  <2>7. QED
    BY <2>4, <2>5, <2>6
<1>4. QED
  BY <1>2, <1>3

\* The invariant from a write of job j by request r, or by nobody's.
LEMMA WritesKeep ==
  ASSUME IInv, NEW j \in Jobs, NEW news \in SUBSET News, NEW rep, Writes(j, news, rep),
         NEW r \in Requests \cup {NoOne}, NEW q \in Request,
         r \in Requests => ~At(r, "warn") /\ req[r] # Idle,
         Commits(r, q, j, news, rep), r \in Requests => Known(q)',
         job' \in [Jobs -> JobRow], asg' \in [Jobs -> AssignmentRow],
         warned' \subseteq SUBSET Jobs, unsure' \subseteq Jobs \X Rules,
         calls' \in 0..MaxCalls,
         SameRep(j) \/
           (asg'[j].rep \in Reps /\ Stands(j, "rep")' =>
              \A i \in Jobs \ {j} :
                /\ asg[i].made /\ asg[i].rep = asg'[j].rep /\ job[i].status = "open"
                /\ SameTime(job'[j].when, job[i].when)
                => ~ Stands(i, "rep")),
         "moved" \in news => ~ Stands(j, "car")',
         \A w \in warned : j \notin w => w \in warned',
         CarNoticed(r, j)
  PROVE  IInv'
<1>1. /\ req' \in [Requests -> Request]
      /\ r \in Requests => req'[r] = q
      /\ \A o \in Requests \ {r} : Hears(req[o], req'[o], j, news, rep)
  BY CommitsEffect
<1>2. TypeOK'
  BY <1>1 DEF TypeOK
<1>3. SeatsEnough'
  BY SeatsKept
<1>4. RepNotTwice'
  BY RepsKept
<1>5. Warned'
  BY <1>1, CarsKept
<1>6. ASSUME NEW o \in Requests PROVE Known(req[o])'
  <2>1. CASE o = r
    BY <1>1, <2>1
  <2>2. CASE o # r
    BY <1>1, <2>2, HearersKnow
  <2>3. QED
    BY <2>1, <2>2
<1>7. QED
  BY <1>2, <1>3, <1>4, <1>5, <1>6 DEF IInv

-----------------------------------------------------------------------------
(***************************************************************************)
(* The writes.                                                             *)
(***************************************************************************)
\* The request that has booked, from here on.
Booked(q) ==
  IF q.car \in Cars
  THEN [q EXCEPT !.at = "warn", !.rep = Keep, !.news = @ \cap {"moved"}]
  ELSE Idle

LEMMA BooksEffect ==
  ASSUME IInv, NEW r \in Requests, At(r, "write"), Staffs(req[r]), Books(r),
         NEW j, j = req[r].job
  PROVE  /\ warned' \subseteq warned /\ \A w \in warned : j \notin w => w \in warned'
         /\ req[r].car = Keep => warned' = warned
         /\ unsure' \subseteq Jobs \X Rules
         /\ \A i \in Jobs \ {j}, rule \in Rules : Stands(i, rule)' <=> Stands(i, rule)
         /\ \A rule \in Rules :
              Stands(j, rule)' <=> IF rule \in Falls(req[r]) THEN rule \notin Outdated(req[r])
                                   ELSE Stands(j, rule)
         /\ Booked(req[r]) \in Request
<1> DEFINE q == req[r]
<1>1. /\ warned' = {w \in warned : ~(q.job \in w /\ q.car # Keep)}
      /\ unsure' = (unsure \ ({q.job} \X Falls(q))) \cup ({q.job} \X Outdated(q))
  BY DEF Books
<1>2. q \in Request /\ q.job \in Jobs /\ unsure \subseteq Jobs \X Rules
  BY DEF IInv, TypeOK, Known, Shaped, At
<1>3. Outdated(q) \subseteq Falls(q) /\ Falls(q) \subseteq Rules
  BY DEF Outdated, Falls, Rules
<1>4. unsure' \subseteq Jobs \X Rules
  BY <1>1, <1>2, <1>3
<1>5. \A i \in Jobs, rule \in Rules :
        <<i, rule>> \in unsure' <=>
          IF i = j /\ rule \in Falls(q) THEN rule \in Outdated(q) ELSE <<i, rule>> \in unsure
  BY <1>1, <1>3
<1>6. Booked(q) \in Request
  <2>1. CASE q.car \in Cars
    <3>1. Booked(q) = [q EXCEPT !.at = "warn", !.rep = Keep, !.news = @ \cap {"moved"}]
      BY <2>1 DEF Booked
    <3>2. q.news \cap {"moved"} \in SUBSET {"seats", "rep", "moved", "gone"}
      OBVIOUS
    <3>3. QED
      BY <1>2, <3>1, <3>2 DEF Request
  <2>2. CASE q.car \notin Cars
    BY <2>2, IdleIsKnown DEF Booked
  <2>3. QED
    BY <2>1, <2>2
<1>7. QED
  BY <1>1, <1>2, <1>4, <1>5, <1>6 DEF Stands

\* Either write of an assignment: the car and the rep of the request, each the
\* old one if it is left alone, and then by reassignJob.
LEMMA BookingKeeps ==
  ASSUME IInv, NEW r \in Requests, At(r, "write"), Staffs(req[r]), Books(r),
         UNCHANGED calls, NEW j, j = req[r].job,
         job' \in [Jobs -> JobRow], asg' \in [Jobs -> AssignmentRow],
         \A i \in Jobs \ {j} : job'[i] = job[i] /\ asg'[i] = asg[i],
         asg'[j].car = Kept(req[r].car, asg[j].car),
         asg'[j].rep = Kept(req[r].rep, asg[j].rep),
         job'[j].pax = job[j].pax, job'[j].when = job[j].when,
         req[r].op = "reassign" => asg'[j].made = asg[j].made /\ job'[j] = job[j]
  PROVE  IInv'
<1> DEFINE q == req[r]
           news == IF q.car = Keep THEN {} ELSE {"seats"}
<1>1. q \in Request /\ Known(q) /\ j \in Jobs /\ q.at = "write"
  BY DEF IInv, TypeOK, Known, Shaped, At
<1>2. q.car = Keep \/ q.rep = Keep => q.op = "reassign"
  BY <1>1 DEF Known, Shaped, Staffs
<1>3. /\ warned' \subseteq warned /\ \A w \in warned : j \notin w => w \in warned'
      /\ q.car = Keep => warned' = warned
      /\ unsure' \subseteq Jobs \X Rules
      /\ \A i \in Jobs \ {j}, rule \in Rules : Stands(i, rule)' <=> Stands(i, rule)
      /\ \A rule \in Rules :
           Stands(j, rule)' <=> IF rule \in Falls(q) THEN rule \notin Outdated(q)
                                ELSE Stands(j, rule)
      /\ Booked(q) \in Request
  BY BooksEffect
<1>4. /\ Stands(j, "seats")' <=> IF q.car # Keep THEN "seats" \notin q.news ELSE Stands(j, "seats")
      /\ Stands(j, "car")' <=> IF q.car # Keep THEN "moved" \notin q.news ELSE Stands(j, "car")
      /\ Stands(j, "rep")' <=> IF q.rep # Keep THEN q.news \cap {"rep", "moved"} = {}
                               ELSE Stands(j, "rep")
  BY <1>3 DEF Rules, Falls, Outdated
<1>5. q.rep = Keep => SameRep(j)
  BY <1>1, <1>2, <1>4 DEF SameRep, Kept
<1>6. q.car = Keep => SameCar(j)
  BY <1>1, <1>2, <1>4 DEF SameCar, Kept
<1>7. Stands(j, "seats")' => Fits(job'[j].pax, asg'[j].car)
  <2>1. CASE q.car = Keep
    BY <1>1, <1>4, <2>1 DEF IInv, SeatsEnough, Kept
  <2>2. CASE q.car # Keep
    BY <1>1, <1>4, <2>2 DEF Known, SeatsKnown, Kept
  <2>3. QED
    BY <2>1, <2>2
<1>8. Writes(j, news, q.rep)
  BY <1>3, <1>4, <1>5, <1>7 DEF Writes, Kept
<1>9. Commits(r, Booked(q), j, news, q.rep)
  BY DEF Books, Booked
<1>10. q.rep # Keep /\ asg'[j].rep \in Reps /\ Stands(j, "rep")' =>
         \A i \in Jobs \ {j} :
           /\ asg[i].made /\ asg[i].rep = asg'[j].rep /\ job[i].status = "open"
           /\ SameTime(job'[j].when, job[i].when)
           => ~ Stands(i, "rep")
  BY <1>1, <1>4 DEF Known, TimeKnown, RepKnown, Kept
<1>11. PICK b \in Request : b = Booked(q)
  BY <1>3
<1>12. Known(b)'
  <2>1. CASE q.car \in Cars
    <3>1. /\ b.at = "warn" /\ b.op = q.op /\ b.job = j /\ b.car = q.car
          /\ b.when = q.when /\ b.news = q.news \cap {"moved"}
      BY <1>1, <1>11, <2>1 DEF Request, Booked
    <3>2. Shaped(b) /\ TimeKnown(b)
      BY <1>1, <2>1, <3>1 DEF Known, Shaped, TimeKnown, Staffs
    <3>3. QED
      BY <3>1, <3>2 DEF Known, Shaped, SeatsKnown, TimeKnown, RepKnown, Staffs, Idle
  <2>2. CASE q.car \notin Cars
    <3>1. b = Idle /\ Shaped(Idle) /\ ~Staffs(Idle) /\ Idle.op # "update"
      BY <1>11, <2>2 DEF Booked, Idle, Shaped, Staffs
    <3>2. QED
      BY <3>1 DEF Known, Shaped, SeatsKnown, TimeKnown, RepKnown, Staffs, Idle
  <2>3. QED
    BY <2>1, <2>2
<1>13. CarNoticed(r, j)
  <2>1. CASE q.car = Keep
    BY <1>3, <1>6, <2>1 DEF CarNoticed
  <2>2. CASE q.car # Keep
    <3>1. SUFFICES ASSUME asg'[j].car \in Cars, Stands(j, "car")'
                   PROVE  /\ At(r, "warn")' /\ req'[r].job = j
                          /\ req'[r].car = asg'[j].car /\ "moved" \notin req'[r].news
      BY DEF CarNoticed
    <3>2. q.car \in Cars /\ q.car = asg'[j].car /\ "moved" \notin q.news
      BY <1>4, <2>2, <3>1 DEF Kept
    <3>3. req'[r] = b
      <4>1. req[r] # Idle
        BY <1>1 DEF Idle
      <4>2. QED
        BY <1>9, <1>11, <4>1 DEF Commits
    <3>4. b.at = "warn" /\ b.job = j /\ b.car = q.car /\ b.news = q.news \cap {"moved"}
      BY <1>1, <1>11, <3>2 DEF Request, Booked
    <3>5. QED
      BY <3>2, <3>3, <3>4 DEF At
  <2>3. QED
    BY <2>1, <2>2
<1>14. /\ req[r] # Idle /\ ~At(r, "warn") /\ warned' \subseteq SUBSET Jobs
       /\ calls' \in 0..MaxCalls /\ news \in SUBSET News
  BY <1>1, <1>3 DEF IInv, TypeOK, At, Idle, News
<1>15. Commits(r, b, j, news, q.rep)
  BY <1>9, <1>11
<1>16. PICK p \in Reps \cup {NoOne, Keep} : p = q.rep
  BY <1>1 DEF Request
<1>17. PICK n \in SUBSET News : n = news
  BY <1>14
<1>18. "moved" \notin n
  BY <1>17
<1>19. Writes(j, n, p) /\ Commits(r, b, j, n, p)
  BY <1>8, <1>15, <1>16, <1>17
<1>20. QED
  BY <1>1, <1>3, <1>5, <1>10, <1>12, <1>13, <1>14, <1>18, <1>19, WritesKeep

LEMMA WriteAssignmentKeeps ==
  ASSUME IInv, NEW r \in Requests, WriteAssignment(r)
  PROVE  IInv'
<1> DEFINE q == req[r]
<1>1. PICK j \in Jobs : j = q.job
  BY DEF IInv, Known, Shaped, WriteAssignment, At
<1>2. At(r, "write") /\ q.op = "assign" /\ Staffs(q) /\ UNCHANGED calls
  BY DEF WriteAssignment, Staffs
<1>3. q.car \in Cars \cup {NoOne} /\ q.rep \in Reps \cup {NoOne}
  BY <1>2 DEF IInv, TypeOK, Request, Known, Shaped, At
<1>4. CASE ~asg[j].made /\ Books(r)
           /\ asg' = [asg EXCEPT ![j] = [made |-> TRUE, car |-> q.car, rep |-> q.rep]]
           /\ job' = [job EXCEPT ![j].status = "open"]
  <2>1. asg' \in [Jobs -> AssignmentRow] /\ job' \in [Jobs -> JobRow]
    BY <1>1, <1>3, <1>4 DEF IInv, TypeOK, AssignmentRow, JobRow
  <2>2. \A i \in Jobs \ {j} : job'[i] = job[i] /\ asg'[i] = asg[i]
    BY <1>4 DEF IInv, TypeOK
  <2>3. /\ asg'[j].car = Kept(q.car, asg[j].car)
        /\ asg'[j].rep = Kept(q.rep, asg[j].rep)
    BY <1>1, <1>3, <1>4, Constants DEF IInv, TypeOK, Kept
  <2>4. job'[j].pax = job[j].pax /\ job'[j].when = job[j].when
    BY <1>1, <1>4 DEF IInv, TypeOK, JobRow
  <2>5. q.op # "reassign" /\ Books(r)
    BY <1>2, <1>4
  <2>6. QED
    BY <1>1, <1>2, <2>1, <2>2, <2>3, <2>4, <2>5, BookingKeeps
<1>5. CASE Ends(r) /\ UNCHANGED <<job, asg, warned, unsure>>
  BY <1>2, <1>5, EndKeeps DEF At
<1>6. QED
  BY <1>1, <1>4, <1>5 DEF WriteAssignment

LEMMA WriteReassignmentKeeps ==
  ASSUME IInv, NEW r \in Requests, WriteReassignment(r)
  PROVE  IInv'
<1> DEFINE q == req[r]
<1>1. PICK j \in Jobs : j = q.job
  BY DEF IInv, Known, Shaped, WriteReassignment, At
<1>2. At(r, "write") /\ q.op = "reassign" /\ Staffs(q) /\ UNCHANGED <<job, calls>>
  BY DEF WriteReassignment, Staffs
<1>3. q \in Request
  BY DEF IInv, TypeOK
<1>4. CASE Books(r) /\ asg' = [asg EXCEPT ![j].car = Kept(q.car, @),
                                        ![j].rep = Kept(q.rep, @)]
  <2>1. /\ Kept(q.car, asg[j].car) \in Cars \cup {NoOne}
        /\ Kept(q.rep, asg[j].rep) \in Reps \cup {NoOne}
    BY <1>1, <1>3 DEF IInv, TypeOK, Request, AssignmentRow, Kept
  <2>2. /\ asg' \in [Jobs -> AssignmentRow]
        /\ \A i \in Jobs \ {j} : asg'[i] = asg[i]
        /\ asg'[j].made = asg[j].made
        /\ asg'[j].car = Kept(q.car, asg[j].car)
        /\ asg'[j].rep = Kept(q.rep, asg[j].rep)
    BY <1>1, <1>4, <2>1 DEF IInv, TypeOK, AssignmentRow
  <2>3. job' \in [Jobs -> JobRow]
    BY <1>2 DEF IInv, TypeOK
  <2>4. Books(r) /\ job'[j] = job[j] /\ \A i \in Jobs \ {j} : job'[i] = job[i]
    BY <1>2, <1>4
  <2>5. job'[j].pax = job[j].pax /\ job'[j].when = job[j].when
    BY <2>4
  <2>6. QED
    BY <1>1, <1>2, <2>2, <2>3, <2>4, <2>5, BookingKeeps
<1>5. CASE Ends(r) /\ UNCHANGED <<asg, warned, unsure>>
  BY <1>2, <1>5, EndKeeps DEF At
<1>6. QED
  BY <1>1, <1>4, <1>5 DEF WriteReassignment

LEMMA WriteUnassignmentKeeps ==
  ASSUME IInv, NEW r \in Requests, WriteUnassignment(r)
  PROVE  IInv'
<1>1. PICK j \in Jobs : j = req[r].job
  BY DEF IInv, Known, Shaped, WriteUnassignment, At
<1>2. At(r, "write") /\ UNCHANGED calls /\ req[r] # Idle
  BY DEF WriteUnassignment, At, Idle
<1>3. CASE /\ asg' = [asg EXCEPT ![j] = NoAssignment]
           /\ job' = [job EXCEPT ![j].status = "open"]
           /\ warned' = {w \in warned : j \notin w}
           /\ unsure' = unsure \ ({j} \X Rules)
           /\ Commits(r, Idle, j, {"gone", "seats"}, NoOne)
  <2>1. /\ asg' \in [Jobs -> AssignmentRow] /\ job' \in [Jobs -> JobRow]
        /\ warned' \subseteq SUBSET Jobs /\ unsure' \subseteq Jobs \X Rules
        /\ calls' \in 0..MaxCalls
    BY <1>1, <1>2, <1>3 DEF IInv, TypeOK, AssignmentRow, JobRow, NoAssignment
  <2>2. \A i \in Jobs \ {j} : job'[i] = job[i] /\ asg'[i] = asg[i]
    BY <1>3 DEF IInv, TypeOK
  <2>3. asg'[j] = NoAssignment /\ job'[j].when = job[j].when
    BY <1>1, <1>3 DEF IInv, TypeOK, JobRow
  <2>4. \A i \in Jobs \ {j}, rule \in Rules : Stands(i, rule)' <=> Stands(i, rule)
    BY <1>3 DEF Stands
  <2>5. ~asg'[j].made /\ asg'[j].car = NoOne
    BY <2>3 DEF NoAssignment
  <2>6. SameRep(j) /\ CarNoticed(r, j) /\ Fits(job'[j].pax, asg'[j].car)
    BY <2>5, Constants DEF SameRep, CarNoticed, SameCar, Fits
  <2>7. Writes(j, {"gone", "seats"}, NoOne)
    BY <2>2, <2>3, <2>4, <2>6 DEF Writes
  <2>8. Known(Idle)'
    BY DEF Known, Shaped, SeatsKnown, TimeKnown, RepKnown, Staffs, Idle
  <2>9. \A w \in warned : j \notin w => w \in warned'
    BY <1>3
  <2>10. {"gone", "seats"} \in SUBSET News /\ "moved" \notin {"gone", "seats"}
    BY DEF News
  <2>11. ~At(r, "warn")
    BY <1>2 DEF At
  <2>12. QED
    BY <1>2, <1>3, <2>1, <2>6, <2>7, <2>8, <2>9, <2>10, <2>11, IdleIsKnown, WritesKeep
<1>4. CASE Ends(r) /\ UNCHANGED <<job, asg, warned, unsure>>
  BY <1>2, <1>4, EndKeeps DEF At
<1>5. QED
  BY <1>1, <1>3, <1>4 DEF WriteUnassignment

LEMMA WriteUpdateKeeps ==
  ASSUME IInv, NEW r \in Requests, WriteUpdate(r)
  PROVE  IInv'
<1> DEFINE q == req[r]
<1>1. PICK j \in Jobs : j = q.job
  BY DEF IInv, Known, Shaped, WriteUpdate, At
<1>2. /\ At(r, "write") /\ q.op = "update" /\ req[r] # Idle
      /\ UNCHANGED <<asg, warned, calls>>
  BY DEF WriteUpdate, At, Idle
<1>3. q \in Request /\ Known(q)
  BY DEF IInv, TypeOK
<1>4. PICK moves \in BOOLEAN : moves = (Kept(q.when, job[j].when) # job[j].when)
  OBVIOUS
<1> DEFINE news == {"seats"} \cup (IF moves THEN {"moved"} ELSE {})
<1>5. /\ job' = [job EXCEPT ![j].pax = q.pax, ![j].when = Kept(q.when, @)]
      /\ unsure' = unsure \cup (IF moves THEN Moves(j) ELSE {})
            \cup {<<j, rule>> : rule \in q.news \cap {"seats"}}
      /\ Commits(r, Idle, j, news, NoOne)
  BY <1>1, <1>4 DEF WriteUpdate
<1>6. Kept(q.when, job[j].when) \in Whens
  BY <1>3 DEF IInv, TypeOK, Request, JobRow, Kept
<1>7. /\ job' \in [Jobs -> JobRow] /\ job'[j].pax = q.pax /\ job'[j].status = job[j].status
      /\ job'[j].when = Kept(q.when, job[j].when)
      /\ \A i \in Jobs \ {j} : job'[i] = job[i]
  <2>1. job[j] \in JobRow /\ q.pax \in 1..MaxPax
    BY <1>3 DEF IInv, TypeOK, Request
  <2> DEFINE row == [job[j] EXCEPT !.pax = q.pax, !.when = Kept(q.when, job[j].when)]
  <2>2. /\ row \in JobRow /\ row.pax = q.pax /\ row.status = job[j].status
        /\ row.when = Kept(q.when, job[j].when)
    BY <1>6, <2>1 DEF JobRow
  <2>3. job' = [job EXCEPT ![j] = row]
    <3>1. [job EXCEPT ![j].pax = q.pax][j].when = job[j].when
      BY <2>1 DEF JobRow, IInv, TypeOK
    <3>2. QED
      BY <1>5, <3>1 DEF IInv, TypeOK, JobRow
  <2>4. QED
    BY <2>2, <2>3 DEF IInv, TypeOK
<1>8. unsure' \subseteq Jobs \X Rules /\ unsure \subseteq unsure'
  BY <1>5 DEF IInv, TypeOK, Moves, Rules
<1>9. \A i \in Jobs \ {j}, rule \in Rules : Stands(i, rule)' <=> Stands(i, rule)
  BY <1>5 DEF Stands, Moves
<1>10. moves => ~ Stands(j, "rep")' /\ ~ Stands(j, "car")'
  BY <1>5 DEF Stands, Moves
<1>11. SameRep(j) /\ SameCar(j)
  BY <1>2, <1>4, <1>7, <1>8, <1>10 DEF SameRep, SameCar, Stands
<1>12. Stands(j, "seats")' => Fits(job'[j].pax, asg'[j].car)
  <2>1. SUFFICES ASSUME Stands(j, "seats")' PROVE Fits(q.pax, asg[j].car)
    BY <1>2, <1>7 DEF Fits
  <2>2. "seats" \notin q.news /\ Stands(j, "seats")
    BY <1>5, <2>1 DEF Stands
  <2>3. QED
    BY <1>1, <1>2, <1>3, <2>2 DEF Known, SeatsKnown, At
<1>13. Writes(j, news, NoOne)
  BY <1>2, <1>4, <1>7, <1>9, <1>11, <1>12 DEF Writes
<1>14. CarNoticed(r, j) /\ warned' \subseteq SUBSET Jobs /\ calls' \in 0..MaxCalls
       /\ asg' \in [Jobs -> AssignmentRow]
  BY <1>2, <1>11 DEF CarNoticed, IInv, TypeOK
<1>15. Known(Idle)'
  BY DEF Known, Shaped, SeatsKnown, TimeKnown, RepKnown, Staffs, Idle
<1>16. news \in SUBSET News /\ ("moved" \in news => ~ Stands(j, "car")')
  BY <1>10 DEF News
<1>17. ~At(r, "warn") /\ \A w \in warned : j \notin w => w \in warned'
  BY <1>2 DEF At
<1>18. QED
  BY <1>2, <1>5, <1>7, <1>8, <1>11, <1>13, <1>14, <1>15, <1>16, <1>17, IdleIsKnown, WritesKeep

LEMMA ReportDelayKeeps ==
  ASSUME IInv, NEW j \in Jobs, NEW w \in Whens, ReportDelay(j, w)
  PROVE  IInv'
<1>1. /\ job' = [job EXCEPT ![j].when = w] /\ unsure' = unsure \cup Moves(j)
      /\ Commits(NoOne, Idle, j, {"moved"}, NoOne) /\ UNCHANGED <<asg, warned>>
  BY DEF ReportDelay
<1>2. calls' \in 0..MaxCalls
  BY Constants DEF ReportDelay, Called, IInv, TypeOK
<1>3. NoOne \notin Requests
  BY Constants
<1>4. /\ job' \in [Jobs -> JobRow] /\ job'[j].pax = job[j].pax
      /\ \A i \in Jobs \ {j} : job'[i] = job[i]
  BY <1>1 DEF IInv, TypeOK, JobRow
<1>5. unsure' \subseteq Jobs \X Rules
  BY <1>1 DEF IInv, TypeOK, Moves, Rules
<1>6. /\ \A i \in Jobs \ {j}, rule \in Rules : Stands(i, rule)' <=> Stands(i, rule)
      /\ ~ Stands(j, "rep")' /\ ~ Stands(j, "car")'
      /\ Stands(j, "seats")' <=> Stands(j, "seats")
  BY <1>1 DEF Stands, Moves
<1>7. SameRep(j) /\ SameCar(j)
  BY <1>6 DEF SameRep, SameCar
<1>8. Writes(j, {"moved"}, NoOne)
  BY <1>1, <1>4, <1>6, <1>7 DEF Writes, IInv, SeatsEnough, Fits
<1>9. CarNoticed(NoOne, j) /\ warned' \subseteq SUBSET Jobs
      /\ asg' \in [Jobs -> AssignmentRow]
  BY <1>1, <1>7 DEF CarNoticed, IInv, TypeOK
<1>10. {"moved"} \in SUBSET News
  BY DEF News
<1>11. QED
  BY <1>1, <1>2, <1>3, <1>4, <1>5, <1>6, <1>7, <1>8, <1>9, <1>10, IdleIsKnown, WritesKeep

\* No request hears of a status.
LEMMA ForceStatusKeeps ==
  ASSUME IInv, NEW j \in Jobs, NEW s \in {"open", "CANCELLED"}, ForceStatus(j, s)
  PROVE  IInv'
<1>1. /\ job' = [job EXCEPT ![j].status = s] /\ job[j].status # s
      /\ unsure' = unsure \cup (IF s = "open" THEN Moves(j) ELSE {})
      /\ UNCHANGED <<asg, req, warned>>
  BY DEF ForceStatus
<1>2. calls' \in 0..MaxCalls
  BY Constants DEF ForceStatus, Called, IInv, TypeOK
<1>3. /\ job' \in [Jobs -> JobRow] /\ job'[j].pax = job[j].pax /\ job'[j].status = s
      /\ \A i \in Jobs : job'[i].when = job[i].when /\ (i # j => job'[i] = job[i])
  BY <1>1 DEF IInv, TypeOK, JobRow
<1>4. /\ unsure' \subseteq Jobs \X Rules /\ unsure \subseteq unsure'
      /\ s = "open" => ~ Stands(j, "rep")' /\ ~ Stands(j, "car")'
      /\ \A i \in Jobs \ {j}, rule \in Rules : Stands(i, rule)' <=> Stands(i, rule)
      /\ Stands(j, "seats")' <=> Stands(j, "seats")
  BY <1>1 DEF IInv, TypeOK, Moves, Rules, Stands
<1>5. SameRep(j) /\ SameCar(j)
  BY <1>3, <1>4 DEF SameRep, SameCar
<1>6. Writes(j, {}, NoOne)
  BY <1>1, <1>3, <1>4, <1>5 DEF Writes, IInv, SeatsEnough, Fits
<1>7. CarNoticed(NoOne, j) /\ warned' \subseteq SUBSET Jobs
      /\ asg' \in [Jobs -> AssignmentRow]
  BY <1>1, <1>5 DEF CarNoticed, IInv, TypeOK
<1>8. \A o \in Requests : Hears(req[o], req'[o], j, {}, NoOne)
  BY <1>1, Constants DEF Hears
<1>9. {} \in SUBSET News /\ NoOne \notin Requests
  BY Constants
<1>10. TypeOK'
  BY <1>1, <1>2, <1>3, <1>4, <1>7 DEF IInv, TypeOK
<1>11. SeatsEnough'
  BY <1>6, SeatsKept
<1>12. RepNotTwice'
  BY <1>5, <1>6, RepsKept
<1>13. Warned'
  BY <1>1, <1>6, <1>7, <1>8, <1>9, CarsKept
<1>14. \A o \in Requests : Known(req[o])'
  BY <1>6, <1>8, <1>9, HearersKnow
<1>15. QED
  BY <1>10, <1>11, <1>12, <1>13, <1>14 DEF IInv

LEMMA CrashKeeps ==
  ASSUME IInv, NEW r \in Requests, Crash(r)
  PROVE  IInv'
<1>1. CASE ~At(r, "warn")
  BY <1>1, EndKeeps DEF Crash
<1>2. CASE At(r, "warn")
  <2>1. PICK j \in Jobs : j = req[r].job
    BY <1>2 DEF IInv, Known, Shaped, At
  <2>2. unsure' = unsure \cup {<<j, "car">>} /\ UNCHANGED <<job, asg, warned, calls>>
    BY <1>2, <2>1 DEF Crash
  <2>3. Becomes(r, Idle)
    BY IdleIsKnown DEF IInv, TypeOK, Crash, Ends, Becomes
  <2>4. TypeOK'
    BY <2>2, <2>3 DEF IInv, TypeOK, Becomes, Rules
  <2>5. SeatsEnough' /\ RepNotTwice'
    BY <2>2 DEF IInv, SeatsEnough, RepNotTwice, Clash, Stands, Fits, SameTime
  <2>6. Warned'
    <3>1. SUFFICES ASSUME NEW i \in Jobs, NEW k \in Jobs, Clash(i, k, "car"),
                          asg[i].car \in Cars, Stands(i, "car")', Stands(k, "car")'
                   PROVE  {i, k} \in warned' \/ WillWarn(i, k)'
      BY <2>2 DEF Warned, Clash, Stands, SameTime
    <3>2. Stands(i, "car") /\ Stands(k, "car") /\ j \notin {i, k}
      BY <2>2, <3>1 DEF Stands
    <3>3. {i, k} \in warned \/ WillWarn(i, k)
      BY <3>1, <3>2 DEF IInv, Warned
    <3>4. WillWarn(i, k) => WillWarn(i, k)'
      BY <2>1, <2>2, <2>3, <3>2 DEF WillWarn, At, Becomes
    <3>5. QED
      BY <2>2, <3>3, <3>4
  <2>7. ASSUME NEW q, Known(q) PROVE Known(q)'
    BY <2>2, <2>7 DEF Known, Shaped, SeatsKnown, TimeKnown, RepKnown, Stands, Fits,
       SameTime, Staffs, Idle
  <2>8. ASSUME NEW o \in Requests PROVE Known(req[o])'
    BY <2>3, <2>7, IdleIsKnown DEF Becomes, IInv
  <2>9. QED
    BY <2>4, <2>5, <2>6, <2>8 DEF IInv
<1>3. QED
  BY <1>1, <1>2

-----------------------------------------------------------------------------
(***************************************************************************)
(* The theorems.                                                           *)
(***************************************************************************)
LEMMA NextKeeps ==
  ASSUME IInv, [Next]_vars PROVE IInv'
<1>1. CASE UNCHANGED vars
  BY <1>1 DEF vars, IInv, TypeOK, SeatsEnough, RepNotTwice, Warned, WillWarn, At, Clash,
     Stands, Fits, SameTime, Known, Shaped, SeatsKnown, TimeKnown, RepKnown, Staffs, Idle
<1>2. CASE \E r \in Requests : Admission(r)
  BY <1>2, AssignKeeps, ReassignKeeps, UnassignKeeps, UpdateKeeps DEF Admission
<1>3. CASE \E r \in Requests : Proceed(r)
  BY <1>3, CheckRepKeeps, WriteAssignmentKeeps, WriteReassignmentKeeps, WarnKeeps,
     WriteUnassignmentKeeps, CheckSeatsKeeps, WriteUpdateKeeps DEF Proceed
<1>4. CASE \E r \in Requests : Crash(r)
  BY <1>4, CrashKeeps
<1>5. CASE \E j \in Jobs, w \in Whens : ReportDelay(j, w)
  BY <1>5, ReportDelayKeeps
<1>6. CASE \E j \in Jobs, s \in {"open", "CANCELLED"} : ForceStatus(j, s)
  BY <1>6, ForceStatusKeeps
<1>7. QED
  BY <1>1, <1>2, <1>3, <1>4, <1>5, <1>6 DEF Next

\* Every reachable state of the board satisfies the inductive invariant, with
\* what requests in flight know of the jobs, cars and reps.
THEOREM Inductive == Spec => []IInv
BY InitEstablishes, NextKeeps, PTL DEF Spec

\* Rows and requests keep their types.
THEOREM TypeCorrect == Spec => []TypeOK
<1>1. IInv => TypeOK
  BY DEF IInv
<1>2. QED
  BY <1>1, Inductive, PTL

\* However often the office changes a job's passengers and dispatch its car,
\* they have seats unless an edit and an assignment met
\* (TrafficJobsService.update, assignJob, reassignJob).
THEOREM PassengersSit == Spec => []SeatsEnough
<1>1. IInv => SeatsEnough
  BY DEF IInv
<1>2. QED
  BY <1>1, Inductive, PTL

\* No rep is given two jobs at once by validateRepAvailability, but for jobs
\* that moved or were reopened and requests that took the rep together.
THEOREM RepsAreFree == Spec => []RepNotTwice
<1>1. IInv => RepNotTwice
  BY DEF IInv
<1>2. QED
  BY <1>1, Inductive, PTL

\* Of two dispatchers who book one car at the same time, one is told, because
\* detectAssignmentConflicts looks after the write.
THEOREM SomebodyIsTold == Spec => []DoubleBookingWarned
BY InvImplies, Inductive, PTL
=============================================================================
