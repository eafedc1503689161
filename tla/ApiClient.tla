----------------------------- MODULE ApiClient -----------------------------
(***************************************************************************)
(* The API client of one page of the website or of one mobile app.  Access *)
(* tokens expire under the requests in flight; the first request that is   *)
(* answered 401 fetches new tokens, those answered 401 meanwhile wait for  *)
(* it, and all are sent again.                                             *)
(*                                                                         *)
(* Both clients run one callback at a time and give way only where they    *)
(* await, so that a step below reaches from one await to the next.  The    *)
(* website keeps its tokens in localStorage, at once and shared with other *)
(* pages; the mobile apps await their storage.                             *)
(*                                                                         *)
(* Access and refresh token are stored together and have one number.       *)
(***************************************************************************)
EXTENDS Naturals

CONSTANTS
  Requests,     \* slots for API calls
  MaxTokens,    \* bound: pairs of tokens ever issued
  Apps          \* the clients of this instance: "web", "mobile"

ASSUME Constants == MaxTokens \in Nat \ {0} /\ Apps \subseteq {"web", "mobile"}

VARIABLES
  app,          \* which client it is
  store,        \* number of the stored tokens; 0: none
  issued,       \* the last number the server has issued
  expired,      \* access tokens up to this number have expired
  displaced,    \* tokens up to this number are of a session another device displaced
  refreshing,   \* isRefreshing
  req,          \* the call in each slot
  late          \* history: calls that queued after the queue was emptied

vars == <<app, store, issued, expired, displaced, refreshing, req, late>>

server == <<issued, expired, displaced>>

Tokens == 0..MaxTokens

Resting == {"idle", "refused"}

Idle == [at |-> "idle", token |-> 0, retry |-> FALSE, expiries |-> 0, excused |-> FALSE]

\* expiries counts how often its token has expired for the call, up to two;
\* excused says that a refresh failed or the session ended since it was made.
TypeOK ==
  /\ app \in Apps /\ {store, issued, expired, displaced} \subseteq Tokens
  /\ refreshing \in BOOLEAN
  /\ req \in [Requests ->
       [at: Resting \cup {"sent", "unauthorized", "displaced", "waiting", "refreshing", "refreshed",
                          "failed", "clearing", "again"},
        token: Tokens, retry: BOOLEAN, expiries: 0..2, excused: BOOLEAN]]
  /\ late \subseteq Requests

Init ==
  /\ app \in Apps
  /\ store = 1 /\ issued = 1 /\ expired = 0 /\ displaced = 0
  /\ refreshing = FALSE /\ late = {}
  /\ req = [r \in Requests |-> Idle]

-----------------------------------------------------------------------------
Move(r, at) == req' = [req EXCEPT ![r].at = at]

InFlight == {r \in Requests : req[r].at \notin Resting}

Waiting == {r \in Requests : req[r].at = "waiting"}

\* The user is signed out: whoever is in flight is excused for being refused.
Excused == [r \in Requests |-> [req[r] EXCEPT !.excused = @ \/ r \in InFlight]]

Refused(q) == [Idle EXCEPT !.at = "refused", !.expiries = q.expiries, !.excused = q.excused]

-----------------------------------------------------------------------------
(***************************************************************************)
(* A call and its answer.                                                  *)
(***************************************************************************)
\* The request interceptor attaches the stored access token.
Send(r) ==
  /\ req[r].at \in Resting
  /\ req' = [req EXCEPT ![r] = [Idle EXCEPT !.at = "sent", !.token = store,
                                       !.expiries = IF store <= expired THEN 1 ELSE 0]]
  /\ UNCHANGED <<app, store, server, refreshing, late>>

\* A call that is made again goes through it as well: a stored token replaces
\* the one the call was given.
Resend(r) ==
  /\ req[r].at = "again"
  /\ req' = [req EXCEPT ![r].at = "sent", ![r].token = IF store # 0 THEN store ELSE @]
  /\ UNCHANGED <<app, store, server, refreshing, late>>

\* The server accepts a token that has not expired and whose session, if it
\* guards one, has not been displaced; any answer but a 401 ends the call, and so
\* does a lost connection.
Serve(r) ==
  /\ req[r].at = "sent"
  /\ \/ req' = [req EXCEPT ![r] = Idle]
     \/ req[r].token <= expired /\ Move(r, "unauthorized")
     \/ /\ req[r].token \in (expired + 1)..displaced
        /\ req' = [req EXCEPT ![r].at = "displaced", ![r].excused = TRUE]
  /\ UNCHANGED <<app, store, server, refreshing, late>>

\* The website looks for SESSION_DISPLACED before anything else.
Displaced(r) ==
  /\ req[r].at = "displaced" /\ app = "web"
  /\ store' = 0
  /\ req' = [Excused EXCEPT ![r] = Refused(@)]
  /\ UNCHANGED <<app, server, refreshing, late>>

\* To the apps it is a 401 like others.
Unauthorized(r) ==
  req[r].at = "unauthorized" \/ (req[r].at = "displaced" /\ app = "mobile")

Reject(r) ==
  /\ Unauthorized(r) /\ req[r].retry
  /\ req' = [req EXCEPT ![r] = Refused(@)]
  /\ UNCHANGED <<app, store, server, refreshing, late>>

\* A slip: while tokens are being fetched, calls are refused.
RefuseMeanwhile(r) ==
  /\ Unauthorized(r) /\ ~req[r].retry /\ refreshing
  /\ req' = [req EXCEPT ![r] = Refused(@)]
  /\ UNCHANGED <<app, store, server, refreshing, late>>

Queue(r) ==
  /\ Unauthorized(r) /\ ~req[r].retry /\ refreshing
  /\ Move(r, "waiting")
  /\ late' = IF \E o \in Requests : req[o].at = "clearing" THEN late \cup {r} ELSE late
  /\ UNCHANGED <<app, store, server, refreshing>>

\* It is marked for one retry, and posts the stored refresh token if there is one.
Refresh(r) ==
  /\ Unauthorized(r) /\ ~req[r].retry /\ ~refreshing
  /\ refreshing' = TRUE
  /\ req' = [req EXCEPT ![r].retry = TRUE,
                        ![r].at = IF store = 0 THEN "failed" ELSE "refreshing"]
  /\ UNCHANGED <<app, store, server, late>>

-----------------------------------------------------------------------------
(***************************************************************************)
(* The refresh and its queue.                                              *)
(***************************************************************************)
\* The server issues new tokens, or refuses, or does not answer.
RefreshAnswer(r) ==
  /\ req[r].at = "refreshing"
  /\ \/ /\ issued < MaxTokens /\ issued' = issued + 1
        /\ \/ req' = [req EXCEPT ![r].at = "refreshed", ![r].token = issued + 1]
           \/ Move(r, "failed")
     \/ Move(r, "failed") /\ UNCHANGED issued
  /\ UNCHANGED <<app, store, expired, displaced, refreshing, late>>

\* processQueue(null, token): every waiting call and this one are made again.
Released(r) ==
  [o \in Requests |-> IF o \in Waiting \cup {r}
                      THEN [req[o] EXCEPT !.at = "again", !.token = req[r].token]
                      ELSE req[o]]

\* A slip: the new tokens release only the call that fetched them.
ReleaseOne(r) ==
  /\ req[r].at = "refreshed"
  /\ store' = req[r].token /\ refreshing' = FALSE
  /\ Move(r, "again")
  /\ UNCHANGED <<app, server, late>>

\* A slip: nothing says that the refresh is over.
KeepRefreshing(r) ==
  /\ req[r].at = "refreshed"
  /\ store' = req[r].token /\ req' = Released(r) /\ late' = late \ Waiting
  /\ UNCHANGED <<app, server, refreshing>>

\* Once the tokens are stored, the queue is released and the refresh over without
\* another await.
Release(r) ==
  /\ req[r].at = "refreshed"
  /\ store' = req[r].token /\ refreshing' = FALSE
  /\ req' = Released(r) /\ late' = late \ Waiting
  /\ UNCHANGED <<app, server>>

\* processQueue(error, null): every waiting call is refused, and so is this one,
\* on the website at once, in the apps when the storage is empty.
RefreshFails(r) ==
  /\ req[r].at = "failed"
  /\ req' = [o \in Requests |->
       CASE o \in Waiting \/ (o = r /\ app = "web") -> Refused(Excused[o])
         [] o = r /\ app = "mobile" -> [Excused[o] EXCEPT !.at = "clearing"]
         [] OTHER -> Excused[o]]
  /\ late' = late \ Waiting
  /\ IF app = "web" THEN store' = 0 /\ refreshing' = FALSE ELSE UNCHANGED <<store, refreshing>>
  /\ UNCHANGED <<app, server>>

Cleared(r) ==
  /\ req[r].at = "clearing"
  /\ store' = 0 /\ refreshing' = FALSE
  /\ req' = [Excused EXCEPT ![r] = Refused(@)]
  /\ UNCHANGED <<app, server, late>>

-----------------------------------------------------------------------------
(***************************************************************************)
(* Around the client.                                                      *)
(***************************************************************************)
\* The access tokens issued so far expire.
Expire ==
  /\ expired < issued /\ expired' = issued
  /\ req' = [r \in Requests |->
       IF r \in InFlight /\ req[r].expiries < 2 THEN [req[r] EXCEPT !.expiries = @ + 1] ELSE req[r]]
  /\ UNCHANGED <<app, store, issued, displaced, refreshing, late>>

\* Another device signs in and takes the session over.
Displace ==
  /\ displaced < issued /\ displaced' = issued
  /\ UNCHANGED <<app, store, issued, expired, refreshing, req, late>>

\* The user signs in, here or on another page, or that page has refreshed: new
\* tokens are stored ...
SignIn ==
  /\ issued < MaxTokens /\ issued' = issued + 1 /\ store' = issued + 1
  /\ UNCHANGED <<app, expired, displaced, refreshing, req, late>>

\* ... or signs out, or that page could not refresh: the storage is emptied.
SignOut ==
  /\ store # 0 /\ store' = 0 /\ req' = Excused
  /\ UNCHANGED <<app, server, refreshing, late>>

Proceed(r) ==
  \/ Resend(r)
  \/ Serve(r)
  \/ Displaced(r)
  \/ Reject(r)
  \/ Queue(r)
  \/ Refresh(r)
  \/ RefreshAnswer(r)
  \/ Release(r)
  \/ RefreshFails(r)
  \/ Cleared(r)

Around == Expire \/ Displace \/ SignIn \/ SignOut

Next == Around \/ \E r \in Requests : Send(r) \/ Proceed(r)

\* An answer or an error arrives for whatever was sent, and callbacks run; nothing
\* is assumed of users, of clocks, or of new calls.
Spec == Init /\ [][Next]_vars /\ \A r \in Requests : WF_vars(Proceed(r))

-----------------------------------------------------------------------------
(***************************************************************************)
(* Properties.                                                             *)
(***************************************************************************)
\* Nobody waits for a refresh that is over; in the apps, calls that queue while
\* the storage of a failed refresh is being emptied do.
NobodyStranded ==
  \A r \in Requests : req[r].at = "waiting" => refreshing \/ r \in late

\* Every call comes to an end, through refreshes and expiries, but for those.
CallsEnd ==
  \A r \in Requests : req[r].at \notin Resting ~> (req[r].at \in Resting \/ r \in late)

\* The user does not notice that an access token expires: a call is refused only
\* if a refresh failed, the session ended, or tokens expired again before the call
\* was repeated.
ExpiryUnnoticed ==
  \A r \in Requests :
    req[r].at = "refused" => req[r].excused \/ req[r].expiries = 2
=============================================================================
