-------------------------- MODULE ApiClientProofs --------------------------
(***************************************************************************)
(* The API client for every number of calls and tokens: nobody waits for a *)
(* refresh that is over, and an expiry by itself refuses no call.          *)
(***************************************************************************)
EXTENDS ApiClient, TLAPS

\* The requests that fetch new tokens, until the queue is released or refused
\* and the storage emptied.
Fetching == {"refreshing", "refreshed", "failed", "clearing"}

\* One call at a time fetches tokens, and isRefreshing says so.
OneRefresh ==
  \A p \in Requests :
    req[p].at \in Fetching =>
      refreshing /\ \A q \in Requests : req[q].at \in Fetching => p = q

\* While the storage is being emptied the queue holds only latecomers.
OnlyLatecomers ==
  (\E o \in Requests : req[o].at = "clearing") => Waiting \subseteq late

\* Numbers come from the server.
Numbers ==
  /\ expired <= issued /\ store <= issued
  /\ \A r \in Requests : req[r].at = "refreshed" => req[r].token <= issued

\* A call that was answered 401, and one that is sent with an expired token, has
\* been overtaken by an expiry.
Overtaken(q) ==
  \/ q.at \in Resting \/ q.excused \/ q.expiries > 0
  \/ q.at = "sent" /\ ~q.retry /\ q.token > expired

\* A call that has made its one retry, and that one expiry has overtaken, has a
\* token that is good, and finds a good one stored when it is sent again.
Renewed(q) ==
  q.retry /\ ~q.excused /\ q.expiries < 2 =>
    /\ q.at \in Fetching \cup {"again", "sent"}
    /\ q.at \in {"refreshed", "again", "sent"} => q.token > expired
    /\ q.at = "again" =>
         /\ store = 0 \/ store > expired
         /\ \A x \in Requests : req[x].at = "refreshed" => req[x].token > expired

Sound(q) == Overtaken(q) /\ Renewed(q) /\ (q.at \in Fetching => q.retry)

IInv ==
  /\ TypeOK /\ OneRefresh /\ OnlyLatecomers /\ Numbers
  /\ NobodyStranded /\ ExpiryUnnoticed
  /\ \A r \in Requests : Sound(req[r])

-----------------------------------------------------------------------------
\* What TypeOK says of one call.
Call ==
  [at: Resting \cup {"sent", "unauthorized", "displaced", "waiting", "refreshing", "refreshed",
                     "failed", "clearing", "again"},
   token: Tokens, retry: BOOLEAN, expiries: 0..2, excused: BOOLEAN]

LEMMA CallTypes == TypeOK => \A r \in Requests : req[r] \in Call
BY DEF TypeOK, Call

LEMMA TypesOf ==
  ASSUME app' \in Apps, store' \in Tokens, issued' \in Tokens, expired' \in Tokens,
         displaced' \in Tokens, refreshing' \in BOOLEAN, late' \subseteq Requests,
         req' \in [Requests -> Call]
  PROVE  TypeOK'
BY DEF TypeOK, Call

\* What the steps of one call leave alone, or only add to.
Quiet ==
  /\ UNCHANGED <<app, store, expired, displaced>>
  /\ issued' \in Tokens /\ issued <= issued'
  /\ refreshing' \in BOOLEAN /\ (refreshing => refreshing')
  /\ late' \subseteq Requests /\ late \subseteq late'

LEMMA AllQuiet ==
  ASSUME IInv, UNCHANGED <<app, store, server, refreshing, late>>
  PROVE  Quiet
BY Constants DEF IInv, TypeOK, Tokens, Quiet, server

\* A step of one call, which is not about to be sent again after it, that leaves
\* the tokens, the flag and the other calls alone.
LEMMA OneSteps ==
  ASSUME IInv, NEW r \in Requests, NEW q \in Call,
         req' = [req EXCEPT ![r] = q],
         Quiet,
         q.at \in Fetching =>
           refreshing' /\ \A o \in Requests \ {r} : req[o].at \notin Fetching,
         q.at = "waiting" => refreshing',
         q.at = "waiting" /\ (\E o \in Requests : req[o].at = "clearing") => r \in late',
         q.at = "clearing" => req[r].at = "clearing",
         q.at = "refreshed" => q.token > expired /\ q.token <= issued',
         q.at = "again" => q = req[r],
         q.at = "refused" => q.excused \/ q.expiries = 2,
         Overtaken(q), Renewed(q), q.at \in Fetching => q.retry
  PROVE  IInv'
<1>1. /\ req'[r] = q
      /\ \A o \in Requests \ {r} : req'[o] = req[o]
  BY DEF IInv, TypeOK
<1>2. TypeOK'
  BY DEF IInv, TypeOK, Call, Tokens, Quiet
<1>3. OneRefresh'
  BY <1>1 DEF IInv, OneRefresh, Quiet
<1>4. OnlyLatecomers'
  BY <1>1 DEF IInv, OnlyLatecomers, Waiting, Fetching, Quiet
<1>5. Numbers'
  <2>1. expired' <= issued' /\ store' <= issued'
    BY Constants DEF IInv, Numbers, TypeOK, Tokens, Quiet
  <2>2. ASSUME NEW o \in Requests, req'[o].at = "refreshed" PROVE req'[o].token <= issued'
    <3>1. CASE o = r
      BY <1>1, <2>2, <3>1
    <3>2. CASE o # r
      <4>1. req[o].token <= issued /\ req[o] \in Call
        BY <1>1, <2>2, <3>2, CallTypes DEF IInv, Numbers
      <4>2. req[o].token \in Nat /\ issued \in Nat /\ issued' \in Nat /\ issued <= issued'
        BY <4>1 DEF Quiet, IInv, TypeOK, Tokens, Call
      <4>3. QED
        BY <1>1, <3>2, <4>1, <4>2
    <3>3. QED
      BY <3>1, <3>2
  <2>3. QED
    BY <2>1, <2>2 DEF Numbers
<1>6. NobodyStranded' /\ ExpiryUnnoticed'
  BY <1>1 DEF IInv, NobodyStranded, ExpiryUnnoticed, Quiet
<1>7. ASSUME NEW o \in Requests PROVE Sound(req[o])'
  <2>1. CASE o = r
    BY <1>1, <2>1 DEF IInv, Sound, Overtaken, Renewed, Quiet
  <2>2. CASE o # r
    BY <1>1, <2>2 DEF IInv, Sound, Overtaken, Renewed, Quiet
  <2>3. QED
    BY <2>1, <2>2
<1>8. QED
  BY <1>2, <1>3, <1>4, <1>5, <1>6, <1>7 DEF IInv

-----------------------------------------------------------------------------
\* The steps of one call.
LEMMA IdleType ==
  Idle \in Call /\ Idle.at = "idle" /\ ~Idle.retry /\ ~Idle.excused /\ Idle.expiries = 0
BY Constants DEF Idle, Call, Tokens, Resting

LEMMA SendKeeps ==
  ASSUME IInv, NEW r \in Requests, Send(r)
  PROVE  IInv'
<1> DEFINE q == [Idle EXCEPT !.at = "sent", !.token = store,
                             !.expiries = IF store <= expired THEN 1 ELSE 0]
<1>1. q \in Call /\ q.at = "sent" /\ ~q.retry
  <2>1. store \in Tokens /\ (IF store <= expired THEN 1 ELSE 0) \in 0..2
    BY DEF IInv, TypeOK
  <2>2. QED
    BY <2>1, IdleType DEF Call
<1>2. Overtaken(q) /\ Renewed(q)
  BY DEF IInv, TypeOK, Tokens, Overtaken, Renewed, Idle
<1>3. QED
  BY <1>1, <1>2, AllQuiet, OneSteps DEF Send, Fetching

LEMMA ResendKeeps ==
  ASSUME IInv, NEW r \in Requests, Resend(r)
  PROVE  IInv'
<1> DEFINE q == [req[r] EXCEPT !.at = "sent", !.token = IF store # 0 THEN store ELSE @]
<1>1. req[r] \in Call /\ Sound(req[r])
  BY CallTypes DEF IInv
<1>2. q \in Call /\ q.at = "sent" /\ req' = [req EXCEPT ![r] = q]
  BY <1>1 DEF IInv, TypeOK, Call, Resend
<1>3. Overtaken(q) /\ Renewed(q)
  BY <1>1 DEF Resend, Sound, Overtaken, Renewed, Call, Fetching, Resting
<1>4. QED
  BY <1>2, <1>3, AllQuiet, OneSteps DEF Resend, Fetching

LEMMA ServeKeeps ==
  ASSUME IInv, NEW r \in Requests, Serve(r)
  PROVE  IInv'
<1>1. req[r] \in Call /\ Sound(req[r]) /\ req[r].at = "sent"
  BY CallTypes DEF IInv, Serve
<1>2. Quiet
  BY AllQuiet DEF Serve
<1>3. CASE req' = [req EXCEPT ![r] = Idle]
  <2>1. Idle \in Call /\ Overtaken(Idle) /\ Renewed(Idle) /\ Idle.at = "idle"
    BY Constants DEF Idle, Call, Tokens, Overtaken, Renewed, Resting
  <2>2. QED
    BY <1>2, <1>3, <2>1, OneSteps DEF Fetching
<1>4. CASE req[r].token <= expired /\ Move(r, "unauthorized")
  <2> DEFINE q == [req[r] EXCEPT !.at = "unauthorized"]
  <2>1. q \in Call /\ q.at = "unauthorized" /\ req' = [req EXCEPT ![r] = q]
    BY <1>1, <1>4 DEF Call, Move
  <2>2. ~(req[r].token > expired)
    BY <1>1, <1>4 DEF IInv, TypeOK, Call, Tokens
  <2>3. Overtaken(q) /\ Renewed(q)
    BY <1>1, <2>2 DEF Sound, Overtaken, Renewed, Call, Fetching, Resting
  <2>4. QED
    BY <1>2, <2>1, <2>3, OneSteps DEF Fetching
<1>5. CASE req' = [req EXCEPT ![r].at = "displaced", ![r].excused = TRUE]
  <2> DEFINE q == [req[r] EXCEPT !.at = "displaced", !.excused = TRUE]
  <2>1. q \in Call /\ q.at = "displaced" /\ q.excused /\ req' = [req EXCEPT ![r] = q]
    BY <1>1, <1>5 DEF Call, IInv, TypeOK
  <2>2. Overtaken(q) /\ Renewed(q)
    BY <2>1 DEF Overtaken, Renewed
  <2>3. QED
    BY <1>2, <2>1, <2>2, OneSteps DEF Fetching
<1>6. QED
  BY <1>3, <1>4, <1>5 DEF Serve

LEMMA RefusedTypes ==
  ASSUME NEW p \in Call
  PROVE  /\ Refused(p) \in Call /\ Refused(p).at = "refused" /\ ~Refused(p).retry
         /\ Refused(p).excused = p.excused /\ Refused(p).expiries = p.expiries
<1>1. p.excused \in BOOLEAN /\ p.expiries \in 0..2
  BY DEF Call
<1>2. QED
  BY <1>1, IdleType DEF Refused, Call, Resting

LEMMA RejectKeeps ==
  ASSUME IInv, NEW r \in Requests, Reject(r)
  PROVE  IInv'
<1> DEFINE q == Refused(req[r])
<1>1. req[r] \in Call /\ Sound(req[r])
  BY CallTypes DEF IInv
<1>2. /\ q \in Call /\ q.at = "refused" /\ q.excused = req[r].excused
      /\ q.expiries = req[r].expiries /\ ~q.retry /\ req' = [req EXCEPT ![r] = q]
  BY <1>1, RefusedTypes DEF Reject
<1>3. req[r].excused \/ req[r].expiries = 2
  BY <1>1 DEF Reject, Unauthorized, Sound, Renewed, Overtaken, Resting, Fetching, Call
<1>4. Overtaken(q) /\ Renewed(q)
  BY <1>2 DEF Overtaken, Renewed, Resting
<1>5. QED
  BY <1>2, <1>3, <1>4, AllQuiet, OneSteps DEF Reject, Fetching

LEMMA QueueKeeps ==
  ASSUME IInv, NEW r \in Requests, Queue(r)
  PROVE  IInv'
<1> DEFINE q == [req[r] EXCEPT !.at = "waiting"]
<1>1. req[r] \in Call /\ Sound(req[r])
  BY CallTypes DEF IInv
<1>2. /\ q \in Call /\ q.at = "waiting" /\ ~q.retry /\ req' = [req EXCEPT ![r] = q]
      /\ refreshing
  BY <1>1 DEF Queue, Move, Call
<1>3. Overtaken(q) /\ Renewed(q)
  BY <1>1 DEF Queue, Unauthorized, Sound, Overtaken, Renewed, Call, Resting
<1>4. late \subseteq late' /\ late' \subseteq Requests
      /\ ((\E o \in Requests : req[o].at = "clearing") => r \in late')
  BY DEF Queue, IInv, TypeOK
<1>5. Quiet
  BY <1>4, Constants DEF Queue, Quiet, server, IInv, TypeOK, Tokens
<1>6. refreshing'
  BY <1>2, <1>5 DEF Quiet
<1>7. QED
  BY <1>2, <1>3, <1>4, <1>5, <1>6, OneSteps DEF Fetching

LEMMA RefreshKeeps ==
  ASSUME IInv, NEW r \in Requests, Refresh(r)
  PROVE  IInv'
<1> DEFINE q == [req[r] EXCEPT !.retry = TRUE,
                               !.at = IF store = 0 THEN "failed" ELSE "refreshing"]
<1>1. req[r] \in Call /\ Sound(req[r])
  BY CallTypes DEF IInv
<1>2. /\ q \in Call /\ q.at \in {"failed", "refreshing"} /\ q.retry
      /\ req' = [req EXCEPT ![r] = q]
  BY <1>1 DEF Refresh, Call, IInv, TypeOK
<1>3. Overtaken(q) /\ Renewed(q)
  BY <1>1, <1>2 DEF Refresh, Unauthorized, Sound, Overtaken, Renewed, Call, Resting, Fetching
<1>4. \A o \in Requests : req[o].at \notin Fetching
  BY DEF Refresh, IInv, OneRefresh
<1>5. Quiet /\ refreshing'
  BY Constants DEF Refresh, Quiet, server, IInv, TypeOK, Tokens
<1>6. QED
  BY <1>2, <1>3, <1>4, <1>5, OneSteps DEF Fetching

LEMMA RefreshAnswerKeeps ==
  ASSUME IInv, NEW r \in Requests, RefreshAnswer(r)
  PROVE  IInv'
<1>1. req[r] \in Call /\ Sound(req[r]) /\ req[r].at = "refreshing"
  BY CallTypes DEF IInv, RefreshAnswer
<1>2. Quiet /\ (refreshing => refreshing')
  BY Constants DEF RefreshAnswer, IInv, TypeOK, Tokens, Quiet
<1>3. refreshing /\ \A o \in Requests \ {r} : req[o].at \notin Fetching
  BY <1>1 DEF IInv, OneRefresh, Fetching
<1>4. CASE Move(r, "failed")
  <2> DEFINE q == [req[r] EXCEPT !.at = "failed"]
  <2>1. q \in Call /\ q.at = "failed" /\ q.retry /\ req' = [req EXCEPT ![r] = q]
    BY <1>1, <1>4 DEF Call, Move, Sound, Fetching
  <2>2. Overtaken(q) /\ Renewed(q)
    BY <1>1 DEF Sound, Overtaken, Renewed, Call, Resting, Fetching
  <2>3. QED
    BY <1>2, <1>3, <2>1, <2>2, OneSteps
<1>5. CASE issued < MaxTokens /\ issued' = issued + 1 /\ req' = [req EXCEPT ![r].at = "refreshed", ![r].token = issued + 1]
  <2> DEFINE q == [req[r] EXCEPT !.at = "refreshed", !.token = issued + 1]
  <2>1. q \in Call /\ q.at = "refreshed" /\ q.retry /\ req' = [req EXCEPT ![r] = q]
    <3>1. issued + 1 \in Tokens
      BY <1>5, Constants DEF IInv, TypeOK, Tokens
    <3>2. QED
      BY <1>1, <1>5, <3>1 DEF Call, Sound, Fetching, IInv, TypeOK
  <2>2. q.token > expired /\ q.token <= issued'
    BY <1>1, <1>5 DEF RefreshAnswer, Move, IInv, TypeOK, Tokens, Numbers, Call
  <2>3. Overtaken(q) /\ Renewed(q)
    BY <1>1, <2>2 DEF Sound, Overtaken, Renewed, Call, Resting, Fetching
  <2>4. QED
    BY <1>2, <1>3, <2>1, <2>2, <2>3, OneSteps
<1>6. QED
  BY <1>4, <1>5 DEF RefreshAnswer

-----------------------------------------------------------------------------
\* Where the user is signed out, every call in flight is excused.
LEMMA ExcusedCalls ==
  ASSUME TypeOK, NEW o \in Requests
  PROVE  /\ Excused[o] \in Call /\ Excused[o].at = req[o].at /\ Excused[o].retry = req[o].retry
         /\ Excused[o].token = req[o].token
         /\ req[o].at \in Resting => Excused[o] = req[o]
         /\ req[o].at \notin Resting => Excused[o].excused
<1>1. req[o] \in Call
  BY CallTypes
<1>2. Excused[o] = [req[o] EXCEPT !.excused = @ \/ o \in InFlight]
  BY DEF Excused
<1>3. CASE req[o].at \in Resting
  <2>1. o \notin InFlight
    BY <1>3 DEF InFlight
  <2>2. req[o].excused \/ o \in InFlight <=> req[o].excused
    BY <2>1
  <2>3. Excused[o] = req[o]
    BY <1>1, <1>2, <2>1 DEF Call
  <2>4. QED
    BY <1>1, <1>3, <2>3
<1>4. CASE req[o].at \notin Resting
  <2>1. o \in InFlight
    BY <1>4 DEF InFlight
  <2>2. Excused[o] = [req[o] EXCEPT !.excused = TRUE]
    BY <1>1, <1>2, <2>1 DEF Call
  <2>3. QED
    BY <1>1, <1>4, <2>2 DEF Call
<1>5. QED
  BY <1>3, <1>4

\* Hence nothing more is to be shown of any of them.
LEMMA ExcusesKeep ==
  ASSUME IInv,
         \A o \in Requests :
           \/ req'[o] = req[o] /\ req[o].at \in Resting
           \/ req'[o].excused /\ (req'[o].at \in Fetching => req'[o].retry)
  PROVE  (ExpiryUnnoticed /\ \A o \in Requests : Sound(req[o]))'
<1>1. ASSUME NEW o \in Requests, req'[o] = req[o], req[o].at \in Resting
      PROVE  Sound(req[o])'
  <2>1. req[o].at \notin Fetching \cup {"again", "sent"} /\ Sound(req[o])
    BY <1>1 DEF IInv, Fetching, Resting
  <2>2. QED
    BY <1>1, <2>1 DEF Sound, Overtaken, Renewed
<1>2. ASSUME NEW o \in Requests, req'[o].excused, req'[o].at \in Fetching => req'[o].retry
      PROVE  Sound(req[o])'
  BY <1>2 DEF Sound, Overtaken, Renewed
<1>3. ExpiryUnnoticed'
  BY DEF IInv, ExpiryUnnoticed
<1>4. QED
  BY <1>1, <1>2, <1>3

LEMMA DisplacedKeeps ==
  ASSUME IInv, NEW r \in Requests, Displaced(r)
  PROVE  IInv'
<1>1. TypeOK
  BY DEF IInv
<1>2. /\ req' = [Excused EXCEPT ![r] = Refused(@)] /\ req[r].at = "displaced" /\ store' = 0
      /\ UNCHANGED <<app, issued, expired, displaced, refreshing, late>>
  BY DEF Displaced, server
<1>3. /\ req'[r] = Refused(Excused[r])
      /\ \A o \in Requests \ {r} : req'[o] = Excused[o]
      /\ req' = [o \in Requests |-> IF o = r THEN Refused(Excused[r]) ELSE Excused[o]]
  BY <1>2 DEF Excused
<1>4. /\ \A o \in Requests : req'[o] \in Call
      /\ req'[r].at = "refused" /\ req'[r].excused /\ ~req'[r].retry
  BY <1>1, <1>2, <1>3, ExcusedCalls, RefusedTypes DEF Resting
<1>5. (ExpiryUnnoticed /\ \A o \in Requests : Sound(req[o]))'
  <2>1. ASSUME NEW o \in Requests \ {r}
        PROVE  \/ req'[o] = req[o] /\ req[o].at \in Resting
               \/ req'[o].excused /\ (req'[o].at \in Fetching => req'[o].retry)
    BY <1>1, <1>3, ExcusedCalls DEF IInv, Sound
  <2>2. QED
    BY <1>4, <2>1, ExcusesKeep DEF Fetching
<1>6. TypeOK'
  <2>1. req' \in [Requests -> Call]
    BY <1>2, <1>3, <1>4
  <2>2. /\ app' \in Apps /\ {store', issued', expired', displaced'} \subseteq Tokens
        /\ late' \subseteq Requests
    BY <1>1, <1>2, Constants DEF TypeOK, Tokens
  <2>3. refreshing' \in BOOLEAN
    BY <1>1, <1>2, Zenon DEF TypeOK
  <2>4. QED
    BY <2>1, <2>2, <2>3, TypesOf
<1>7. \A o \in Requests :
        o # r => req'[o].at = req[o].at /\ req'[o].token = req[o].token
  BY <1>1, <1>3, ExcusedCalls
<1>8. OneRefresh' /\ OnlyLatecomers' /\ NobodyStranded'
  BY <1>2, <1>4, <1>7 DEF IInv, OneRefresh, OnlyLatecomers, NobodyStranded, Waiting, Fetching
<1>9. Numbers'
  BY <1>1, <1>2, <1>4, <1>7 DEF IInv, Numbers, TypeOK, Tokens
<1>10. QED
  BY <1>5, <1>6, <1>8, <1>9 DEF IInv

LEMMA ClearedKeeps ==
  ASSUME IInv, NEW r \in Requests, Cleared(r)
  PROVE  IInv'
<1>1. TypeOK
  BY DEF IInv
<1>2. /\ req' = [Excused EXCEPT ![r] = Refused(@)] /\ req[r].at = "clearing"
      /\ store' = 0 /\ refreshing' = FALSE
      /\ UNCHANGED <<app, issued, expired, displaced, late>>
  BY DEF Cleared, server
<1>3. /\ req'[r] = Refused(Excused[r])
      /\ \A o \in Requests \ {r} : req'[o] = Excused[o]
      /\ req' = [o \in Requests |-> IF o = r THEN Refused(Excused[r]) ELSE Excused[o]]
  BY <1>2 DEF Excused
<1>4. /\ \A o \in Requests : req'[o] \in Call
      /\ req'[r].at = "refused" /\ req'[r].excused /\ ~req'[r].retry
  BY <1>1, <1>2, <1>3, ExcusedCalls, RefusedTypes DEF Resting
<1>5. (ExpiryUnnoticed /\ \A o \in Requests : Sound(req[o]))'
  <2>1. ASSUME NEW o \in Requests \ {r}
        PROVE  \/ req'[o] = req[o] /\ req[o].at \in Resting
               \/ req'[o].excused /\ (req'[o].at \in Fetching => req'[o].retry)
    BY <1>1, <1>3, ExcusedCalls DEF IInv, Sound
  <2>2. QED
    BY <1>4, <2>1, ExcusesKeep DEF Fetching
<1>6. TypeOK'
  <2>1. req' \in [Requests -> Call]
    BY <1>2, <1>3, <1>4
  <2>2. /\ app' \in Apps /\ {store', issued', expired', displaced'} \subseteq Tokens
        /\ late' \subseteq Requests
    BY <1>1, <1>2, Constants DEF TypeOK, Tokens
  <2>3. refreshing' \in BOOLEAN
    BY <1>1, <1>2, Zenon DEF TypeOK
  <2>4. QED
    BY <2>1, <2>2, <2>3, TypesOf
<1>7. \A o \in Requests : o # r => req'[o].at = req[o].at
  BY <1>1, <1>3, ExcusedCalls
<1>8. \A o \in Requests : req'[o].at \notin Fetching
  BY <1>2, <1>4, <1>7 DEF IInv, OneRefresh, Fetching
<1>9. OneRefresh' /\ OnlyLatecomers' /\ NobodyStranded'
  BY <1>2, <1>4, <1>7, <1>8
     DEF IInv, OneRefresh, OnlyLatecomers, NobodyStranded, Waiting, Fetching
<1>10. Numbers'
  BY <1>1, <1>2, <1>8 DEF Fetching, IInv, Numbers, TypeOK, Tokens
<1>11. QED
  BY <1>5, <1>6, <1>9, <1>10 DEF IInv

LEMMA RefreshFailsKeeps ==
  ASSUME IInv, NEW r \in Requests, RefreshFails(r)
  PROVE  IInv'
<1> DEFINE End(o) ==
             CASE o \in Waiting \/ (o = r /\ app = "web") -> Refused(Excused[o])
               [] o = r /\ app = "mobile" -> [Excused[o] EXCEPT !.at = "clearing"]
               [] OTHER -> Excused[o]
<1>1. TypeOK /\ app \in {"web", "mobile"}
  BY Constants DEF IInv, TypeOK
<1>2. /\ req[r].at = "failed" /\ req' = [o \in Requests |-> End(o)]
      /\ late' = late \ Waiting /\ UNCHANGED <<app, issued, expired, displaced>>
      /\ \/ app = "web" /\ store' = 0 /\ refreshing' = FALSE
         \/ app = "mobile" /\ UNCHANGED <<store, refreshing>>
  BY <1>1 DEF RefreshFails, server
<1>3. r \notin Waiting /\ refreshing /\ \A o \in Requests \ {r} : req[o].at \notin Fetching
  BY <1>2 DEF IInv, OneRefresh, Fetching, Waiting
<1>4. ASSUME NEW o \in Requests
      PROVE  /\ req'[o] \in Call
             /\ \/ req'[o] = req[o] /\ req[o].at \in Resting
                \/ req'[o].excused /\ (req'[o].at \in Fetching => req'[o].retry)
             /\ req'[o].at # "waiting"
             /\ o # r => req'[o].at \notin Fetching
             /\ req'[r].at \in {"refused", "clearing"}
             /\ app = "web" => req'[r].at = "refused"
  <2>1. /\ Excused[o] \in Call /\ Excused[o].at = req[o].at /\ Excused[o].retry = req[o].retry
        /\ req[o].at \in Resting => Excused[o] = req[o]
        /\ req[o].at \notin Resting => Excused[o].excused
    BY <1>1, ExcusedCalls
  <2>2. /\ Refused(Excused[o]) \in Call /\ Refused(Excused[o]).at = "refused"
        /\ Refused(Excused[o]).excused = Excused[o].excused
    BY <2>1, RefusedTypes
  <2>3. CASE o \in Waiting
    BY <1>2, <1>3, <2>1, <2>2, <2>3, RefusedTypes, ExcusedCalls, <1>1 DEF Waiting, Fetching, Resting
  <2>4. CASE o = r /\ app = "web"
    BY <1>2, <1>3, <2>1, <2>2, <2>4 DEF Fetching, Resting
  <2>5. CASE o = r /\ app = "mobile"
    <3>1. req'[r] = [Excused[r] EXCEPT !.at = "clearing"]
      BY <1>2, <1>3, <2>5
    <3>2. req[r].retry
      BY <1>2 DEF IInv, Sound, Fetching
    <3>3. QED
      <4>1. req[r].at \notin Resting
        BY <1>2 DEF Resting
      <4>2. req'[r].at = "clearing" /\ req'[r] \in Call /\ req'[r].excused /\ req'[r].retry
        BY <2>1, <2>5, <3>1, <3>2, <4>1 DEF Call
      <4>3. QED
        BY <1>1, <2>5, <4>2
  <2>6. CASE o \notin Waiting /\ o # r
    <3>1. req'[o] = Excused[o]
      BY <1>2, <2>6
    <3>2. req[o].at # "waiting"
      BY <2>6 DEF Waiting
    <3>3. req'[r].at \in {"refused", "clearing"} /\ (app = "web" => req'[r].at = "refused")
      <4>1. CASE app = "web"
        BY <1>1, <1>2, <4>1, ExcusedCalls, RefusedTypes
      <4>2. CASE app = "mobile"
        <5>1. req'[r] = [Excused[r] EXCEPT !.at = "clearing"] /\ Excused[r] \in Call
          BY <1>1, <1>2, <1>3, <4>2, ExcusedCalls
        <5>2. QED
          BY <4>2, <5>1 DEF Call
      <4>3. QED
        BY <1>1, <4>1, <4>2
    <3>4. QED
      BY <1>3, <2>1, <2>6, <3>1, <3>2, <3>3 DEF IInv, Sound
  <2>7. QED
    BY <1>1, <2>3, <2>4, <2>5, <2>6
<1>5. (ExpiryUnnoticed /\ \A o \in Requests : Sound(req[o]))'
  BY <1>4, ExcusesKeep
<1>6. TypeOK'
  <2>1. req' \in [Requests -> Call]
    BY <1>2, <1>4
  <2>2. /\ app' \in Apps /\ {store', issued', expired', displaced'} \subseteq Tokens
        /\ late' \subseteq Requests
    BY <1>1, <1>2, Constants DEF TypeOK, Tokens
  <2>3. refreshing' \in BOOLEAN
    BY <1>1, <1>2, Zenon DEF TypeOK
  <2>4. QED
    BY <2>1, <2>2, <2>3, TypesOf
<1>7. OnlyLatecomers' /\ NobodyStranded'
  BY <1>4 DEF OnlyLatecomers, NobodyStranded, Waiting
<1>8. OneRefresh'
  BY <1>1, <1>2, <1>3, <1>4 DEF OneRefresh, Fetching
<1>9. Numbers'
  <2>1. expired' <= issued' /\ store' <= issued'
    BY <1>1, <1>2 DEF IInv, Numbers, TypeOK, Tokens
  <2>2. \A o \in Requests : req'[o].at # "refreshed"
    BY <1>4 DEF Fetching
  <2>3. QED
    BY <2>1, <2>2 DEF Numbers
<1>10. QED
  BY <1>5, <1>6, <1>7, <1>8, <1>9 DEF IInv

-----------------------------------------------------------------------------
\* The refresh succeeds: the queue and the call that fetched the tokens are free.
LEMMA ReleaseKeeps ==
  ASSUME IInv, NEW r \in Requests, Release(r)
  PROVE  IInv'
<1> DEFINE t == req[r].token
<1>1. TypeOK /\ req[r] \in Call
  BY CallTypes DEF IInv
<1>2. /\ req[r].at = "refreshed" /\ req' = Released(r)
      /\ store' = t /\ refreshing' = FALSE /\ late' = late \ Waiting
      /\ UNCHANGED <<app, issued, expired, displaced>>
  BY DEF Release, server
<1>3. \A o \in Requests \ {r} : req[o].at \notin Fetching
  BY <1>2 DEF IInv, OneRefresh, Fetching
<1>4. ASSUME NEW o \in Waiting \cup {r}
      PROVE  /\ o \in Requests /\ req'[o] = [req[o] EXCEPT !.at = "again", !.token = t]
             /\ req'[o] \in Call /\ req'[o].at = "again" /\ req'[o].token = t
             /\ req'[o].retry = req[o].retry /\ req'[o].excused = req[o].excused
             /\ req'[o].expiries = req[o].expiries
  <2>1. o \in Requests /\ req[o] \in Call
    BY <1>1, CallTypes DEF Waiting
  <2>2. req'[o] = [req[o] EXCEPT !.at = "again", !.token = t]
    BY <1>2, <2>1 DEF Released
  <2>3. t \in Tokens
    BY <1>1 DEF Call
  <2>4. QED
    BY <2>1, <2>2, <2>3 DEF Call
<1>5. \A o \in Requests : o \notin Waiting \cup {r} => req'[o] = req[o]
  BY <1>2 DEF Released
<1>6. \A o \in Requests : req'[o].at # "waiting" /\ req'[o].at \notin Fetching
  <2>1. \A o \in Waiting \cup {r} : req'[o].at = "again"
    BY <1>4
  <2>2. QED
    BY <1>3, <1>5, <2>1 DEF Waiting, Fetching
<1>7. OneRefresh' /\ OnlyLatecomers' /\ NobodyStranded'
  BY <1>6 DEF OneRefresh, OnlyLatecomers, NobodyStranded, Waiting
<1>8. TypeOK'
  <2>1. req' \in [Requests -> Call]
    BY <1>1, <1>2, <1>4, <1>5, CallTypes DEF Released
  <2>2. store' \in Tokens /\ refreshing' \in BOOLEAN /\ late' \subseteq Requests
    BY <1>1, <1>2 DEF TypeOK, Call
  <2>3. QED
    BY <1>1, <1>2, <2>1, <2>2, TypesOf DEF TypeOK
<1>9. ASSUME NEW o \in Requests PROVE Sound(req[o])'
  <2>1. Sound(req[o]) /\ Sound(req[r])
    BY DEF IInv
  <2>2. CASE o \in Waiting
    <3>1. req[o].at = "waiting"
      BY <2>2 DEF Waiting
    <3>2. req[o].excused \/ req[o].expiries > 0
      BY <2>1, <3>1 DEF Sound, Overtaken, Resting
    <3>3. ~req[o].retry \/ req[o].excused \/ ~(req[o].expiries < 2)
      BY <2>1, <3>1 DEF Sound, Renewed, Fetching
    <3>4. QED
      BY <1>4, <2>2, <3>2, <3>3 DEF Sound, Overtaken, Renewed, Fetching
  <2>3. CASE o = r
    <3>1. req[r].excused \/ req[r].expiries > 0
      BY <1>2, <2>1 DEF Sound, Overtaken, Resting
    <3>2. req[r].excused \/ ~(req[r].expiries < 2) \/ t > expired
      BY <1>2, <2>1 DEF Sound, Renewed, Fetching
    <3>3. QED
      BY <1>2, <1>4, <1>6, <2>3, <3>1, <3>2 DEF Sound, Overtaken, Renewed, Fetching
  <2>4. CASE o \notin Waiting \cup {r}
    <3>1. req'[o] = req[o]
      BY <1>5, <2>4
    <3>2. req[o].at = "again" /\ req[o].retry /\ ~req[o].excused /\ req[o].expiries < 2
            => t > expired
      BY <1>2, <2>1 DEF Sound, Renewed
    <3>3. QED
      BY <1>2, <1>6, <2>1, <3>1, <3>2 DEF Sound, Overtaken, Renewed, Fetching
  <2>5. QED
    BY <2>2, <2>3, <2>4
<1>10. ExpiryUnnoticed'
  <2>1. \A o \in Waiting \cup {r} : req'[o].at = "again"
    BY <1>4
  <2>2. QED
    BY <1>5, <2>1 DEF IInv, ExpiryUnnoticed
<1>11. Numbers'
  <2>1. t <= issued
    BY <1>2 DEF IInv, Numbers
  <2>2. QED
    BY <1>2, <1>6, <2>1 DEF IInv, Numbers, Fetching
<1>12. QED
  BY <1>7, <1>8, <1>9, <1>10, <1>11 DEF IInv

-----------------------------------------------------------------------------
\* What happens around the client.
LEMMA ExpireKeeps ==
  ASSUME IInv, Expire
  PROVE  IInv'
<1>1. TypeOK /\ \A o \in Requests : req[o] \in Call
  BY CallTypes DEF IInv
<1>2. /\ UNCHANGED <<app, store, issued, displaced, refreshing, late>>
      /\ expired' = issued
      /\ req' = [o \in Requests |->
                   IF o \in InFlight /\ req[o].expiries < 2
                   THEN [req[o] EXCEPT !.expiries = @ + 1] ELSE req[o]]
  BY DEF Expire
<1>3. ASSUME NEW o \in Requests
      PROVE  /\ req'[o] \in Call
             /\ req'[o].at = req[o].at /\ req'[o].retry = req[o].retry
             /\ req'[o].excused = req[o].excused /\ req'[o].token = req[o].token
             /\ req[o].at \in Resting => req'[o] = req[o]
             /\ req[o].at \notin Resting => req'[o].expiries > 0
             /\ req[o].at \notin Resting /\ req[o].expiries > 0 => req'[o].expiries = 2
  <2>1. req[o].expiries \in 0..2
    BY <1>1 DEF Call
  <2>2. CASE o \in InFlight /\ req[o].expiries < 2
    <3>1. req'[o] = [req[o] EXCEPT !.expiries = @ + 1] /\ req[o].at \notin Resting
      BY <1>2, <2>2 DEF InFlight
    <3>2. req[o].expiries + 1 \in 0..2
      BY <2>1, <2>2
    <3>3. QED
      BY <1>1, <2>1, <2>2, <3>1, <3>2 DEF Call
  <2>3. CASE ~(o \in InFlight /\ req[o].expiries < 2)
    <3>1. req'[o] = req[o] /\ (req[o].at \in Resting \/ req[o].expiries = 2)
      BY <1>2, <2>1, <2>3 DEF InFlight
    <3>2. QED
      BY <1>1, <3>1
  <2>4. QED
    BY <2>2, <2>3
<1>4. TypeOK'
  <2>1. req' \in [Requests -> Call]
    BY <1>2, <1>3
  <2>2. QED
    BY <1>1, <1>2, <2>1, TypesOf DEF TypeOK
<1>5. OneRefresh' /\ OnlyLatecomers' /\ NobodyStranded'
  BY <1>2, <1>3 DEF IInv, OneRefresh, OnlyLatecomers, NobodyStranded, Waiting
<1>6. Numbers'
  BY <1>1, <1>2 DEF IInv, Numbers, TypeOK, Tokens
<1>7. ExpiryUnnoticed'
  BY <1>3 DEF IInv, ExpiryUnnoticed, Resting
<1>8. ASSUME NEW o \in Requests PROVE Sound(req[o])'
  <2>1. Sound(req[o])
    BY DEF IInv
  <2>2. CASE req[o].at \in Resting
    BY <1>3, <2>1, <2>2 DEF Sound, Overtaken, Renewed, Resting, Fetching
  <2>3. CASE req[o].at \notin Resting
    <3>1. Overtaken(req[o])'
      BY <1>3, <2>3 DEF Overtaken
    <3>2. req[o].retry => req'[o].excused \/ req'[o].expiries = 2
      BY <1>3, <2>1, <2>3 DEF Sound, Overtaken
    <3>3. QED
      BY <1>3, <2>1, <3>1, <3>2 DEF Sound, Renewed
  <2>4. QED
    BY <2>2, <2>3
<1>9. QED
  BY <1>4, <1>5, <1>6, <1>7, <1>8 DEF IInv

\* New tokens are stored, or the server alone changes.
LEMMA AroundKeeps ==
  ASSUME IInv, UNCHANGED <<app, expired, refreshing, req, late>>,
         \/ UNCHANGED <<store, issued>>
         \/ issued < MaxTokens /\ issued' = issued + 1 /\ store' = issued + 1,
         displaced' \in Tokens
  PROVE  IInv'
<1>1. TypeOK' /\ Numbers'
  <2>1. req' \in [Requests -> Call] /\ TypeOK
    BY DEF IInv, TypeOK, Call
  <2>2. store' \in Tokens /\ issued' \in Tokens /\ issued <= issued'
    BY Constants DEF IInv, TypeOK, Tokens
  <2>3. TypeOK'
    BY <2>1, <2>2, TypesOf DEF TypeOK
  <2>4. expired' <= issued' /\ store' <= issued'
    BY Constants DEF IInv, TypeOK, Numbers, Tokens
  <2>5. ASSUME NEW o \in Requests, req'[o].at = "refreshed" PROVE req'[o].token <= issued'
    <3>1. req[o].token \in Nat /\ req[o].token <= issued
      BY <2>1, <2>5, CallTypes DEF IInv, Numbers, Call, Tokens
    <3>2. issued \in Nat /\ issued' \in Nat
      BY <2>1, <2>2 DEF TypeOK, Tokens
    <3>3. QED
      BY <2>2, <3>1, <3>2
  <2>6. QED
    BY <2>3, <2>4, <2>5 DEF Numbers
<1>2. store' = store \/ store' > expired
  BY DEF IInv, TypeOK, Numbers, Tokens
<1>3. ASSUME NEW o \in Requests PROVE Sound(req[o])'
  BY <1>2, <1>3 DEF IInv, Sound, Overtaken, Renewed
<1>4. OneRefresh' /\ OnlyLatecomers' /\ NobodyStranded' /\ ExpiryUnnoticed'
  BY DEF IInv, OneRefresh, OnlyLatecomers, NobodyStranded, ExpiryUnnoticed, Waiting
<1>5. QED
  BY <1>1, <1>3, <1>4 DEF IInv

LEMMA SignOutKeeps ==
  ASSUME IInv, SignOut
  PROVE  IInv'
<1>1. TypeOK
  BY DEF IInv
<1>2. /\ store' = 0 /\ req' = Excused
      /\ UNCHANGED <<app, issued, expired, displaced, refreshing, late>>
  BY DEF SignOut, server
<1>3. \A o \in Requests :
        /\ req'[o] \in Call /\ req'[o].at = req[o].at /\ req'[o].retry = req[o].retry
        /\ req'[o].token = req[o].token
        /\ req[o].at \in Resting => req'[o] = req[o]
        /\ req[o].at \notin Resting => req'[o].excused
  BY <1>1, <1>2, ExcusedCalls
<1>4. TypeOK'
  <2>1. req' \in [Requests -> Call]
    BY <1>2, <1>3 DEF Excused
  <2>2. {store', issued', expired', displaced'} \subseteq Tokens
    BY <1>1, <1>2, Constants DEF TypeOK, Tokens
  <2>3. QED
    BY <1>1, <1>2, <2>1, <2>2, TypesOf DEF TypeOK
<1>5. (ExpiryUnnoticed /\ \A o \in Requests : Sound(req[o]))'
  <2>1. \A o \in Requests :
          \/ req'[o] = req[o] /\ req[o].at \in Resting
          \/ req'[o].excused /\ (req'[o].at \in Fetching => req'[o].retry)
    BY <1>3 DEF IInv, Sound
  <2>2. QED
    BY <2>1, ExcusesKeep
<1>6. OneRefresh' /\ OnlyLatecomers' /\ NobodyStranded'
  BY <1>2, <1>3 DEF IInv, OneRefresh, OnlyLatecomers, NobodyStranded, Waiting
<1>7. Numbers'
  BY <1>1, <1>2, <1>3 DEF IInv, Numbers, TypeOK, Tokens
<1>8. QED
  BY <1>4, <1>5, <1>6, <1>7 DEF IInv

-----------------------------------------------------------------------------
LEMMA InitIInv == Init => IInv
<1> SUFFICES ASSUME Init PROVE IInv
  OBVIOUS
<1>1. TypeOK
  <2>1. req \in [Requests -> Call]
    BY IdleType DEF Init
  <2>2. 0 \in Tokens /\ 1 \in Tokens
    BY Constants DEF Tokens
  <2>3. refreshing \in BOOLEAN
    BY DEF Init
  <2>4. QED
    BY <2>1, <2>2, <2>3 DEF Init, TypeOK, Call
<1>2. OneRefresh /\ OnlyLatecomers /\ Numbers /\ NobodyStranded /\ ExpiryUnnoticed
  BY IdleType DEF Init, OneRefresh, OnlyLatecomers, Numbers, NobodyStranded, ExpiryUnnoticed,
                  Fetching
<1>3. \A r \in Requests : Sound(req[r])
  BY IdleType DEF Init, Sound, Overtaken, Renewed, Resting, Fetching
<1>4. QED
  BY <1>1, <1>2, <1>3 DEF IInv

LEMMA NextIInv == IInv /\ [Next]_vars => IInv'
<1> SUFFICES ASSUME IInv, [Next]_vars PROVE IInv'
  OBVIOUS
<1>1. CASE Expire
  BY <1>1, ExpireKeeps
<1>2. CASE Displace
  <2>1. displaced' \in Tokens
    BY <1>2 DEF Displace, IInv, TypeOK
  <2>2. QED
    BY <1>2, <2>1, AroundKeeps DEF Displace
<1>3. CASE SignIn
  <2>1. displaced \in Tokens
    BY DEF IInv, TypeOK
  <2>2. QED
    BY <1>3, <2>1, AroundKeeps DEF SignIn
<1>4. CASE SignOut
  BY <1>4, SignOutKeeps
<1>5. ASSUME NEW r \in Requests, Send(r) PROVE IInv'
  BY <1>5, SendKeeps
<1>6. ASSUME NEW r \in Requests, Proceed(r) PROVE IInv'
  BY <1>6, ResendKeeps, ServeKeeps, DisplacedKeeps, RejectKeeps, QueueKeeps, RefreshKeeps,
     RefreshAnswerKeeps, ReleaseKeeps, RefreshFailsKeeps, ClearedKeeps
     DEF Proceed
<1>7. CASE UNCHANGED vars
  <2>1. displaced \in Tokens
    BY DEF IInv, TypeOK
  <2>2. QED
    BY <1>7, <2>1, AroundKeeps DEF vars
<1>8. QED
  BY <1>1, <1>2, <1>3, <1>4, <1>5, <1>6, <1>7 DEF Next, Around

\* Every reachable state of the client satisfies the inductive invariant: among
\* other things one call at a time fetches tokens.
THEOREM Inductive == Spec => []IInv
<1>1. Init => IInv
  BY InitIInv
<1>2. IInv /\ [Next]_vars => IInv'
  BY NextIInv
<1>3. QED
  BY <1>1, <1>2, PTL DEF Spec

\* However many calls are answered 401 at once: a call waits only while tokens are
\* being fetched, but for the apps' latecomers.
THEOREM NobodyWaitsInVain == Spec => []NobodyStranded
<1>1. IInv => NobodyStranded
  BY DEF IInv
<1>2. QED
  BY <1>1, Inductive, PTL

\* However many calls and tokens: an expiry by itself refuses no call.
THEOREM NobodyNotices == Spec => []ExpiryUnnoticed
<1>1. IInv => ExpiryUnnoticed
  BY DEF IInv
<1>2. QED
  BY <1>1, Inductive, PTL
=============================================================================
