--------------------------- MODULE SessionsProofs ---------------------------
(***************************************************************************)
(* Sessions for every number of devices, requests, logins and crashes:     *)
(* types, that a session put to an end stays out, that the live session is *)
(* listed, and that nobody is signed out by the end of another session.    *)
(***************************************************************************)
EXTENDS Sessions, TLAPS

\* A request names a session, and each statement belongs to its operation.
Shaped(r) ==
  /\ req[r].at # "idle" => req[r].sid # 0
  /\ req[r].op = "logout" => req[r].at \in {"end", "forget"}
  /\ req[r].at = "forget" => req[r].op = "logout"
  /\ req[r].at = "delete" => req[r].sid \in revoked

\* Session ids that are anywhere have been drawn, so that a new one is new.
Fresh ==
  /\ user.sid <= drawn
  /\ user.refresh => user.sid # 0
  /\ \A s \in Sids : log[s] # "none" \/ s \in revoked => s <= drawn
  /\ \A r \in Requests : req[r].sid <= drawn

\* A revoked session has no writer left, and is not in the user's row.
Gone ==
  \A s \in revoked \ torn :
    /\ user.sid # s
    /\ \A r \in Requests :
         req[r].sid = s => req[r].at \notin {"store", "start", "rotate"}

\* While somebody logs out, the row names the session they leave, none, or one
\* that was stored meanwhile.
LeavesOwn ==
  \A r \in Requests :
    req[r].op = "logout" => user.sid \in {0, req[r].sid} \cup torn

Open(s) == log[s] \in {"fresh", "idle"}

\* Somebody is about to open the log entry of s, or to take s out of the row.
Changing(s) ==
  \E r \in Requests : req[r].sid = s /\ req[r].at \in {"start", "match", "forget"}

\* Somebody is about to write s into the user's row again.
Returning(s) == \E r \in Requests : req[r].sid = s /\ req[r].at = "rotate"

\* A session in the row, or on its way back, is open in the log or changing.
Listed ==
  \A s \in Sids \ torn :
    user.sid = s \/ Returning(s) => Open(s) \/ Changing(s)

IInv ==
  /\ TypeOK /\ Fresh /\ Gone /\ LeavesOwn /\ Listed
  /\ \A r \in Requests : Shaped(r)

\* What the pieces of the statements do, for the steps below.
LEMMA StoresEffect ==
  ASSUME TypeOK, NEW s \in Sids, Stores(s)
  PROVE  /\ user' \in UserRow /\ user'.sid = s
         /\ torn \subseteq torn' /\ torn' \subseteq torn \cup {s} /\ torn' \subseteq Sids
         /\ \A o \in Requests : req[o].op = "logout" => s \in torn'
  BY Constants DEF TypeOK, Stores, UserRow, Sids

LEMMA RevokesEffect ==
  ASSUME TypeOK, NEW s \in 0..MaxSessions, Revokes(s)
  PROVE  /\ revoked \subseteq revoked' /\ revoked' \subseteq revoked \cup {s}
         /\ torn \subseteq torn' /\ torn' \subseteq torn \cup {s}
         /\ revoked' \subseteq Sids /\ torn' \subseteq Sids
         /\ s # 0 => s \in revoked'
         /\ s # 0 /\ s \notin torn' => \A o \in Requests :
              req[o].sid = s => req[o].at \notin {"store", "start", "rotate"}
  BY Constants DEF TypeOK, Revokes, Writers, Sids

\* How a statement leaves the slots: request r has moved on, or ended.
Moved(r, statement) ==
  /\ req' \in [Requests -> Request]
  /\ \A o \in Requests \ {r} : req'[o] = req[o]
  /\ req'[r].op = req[r].op /\ req'[r].sid = req[r].sid
  /\ req'[r].at = statement

LEMMA GoesEffect ==
  ASSUME TypeOK, NEW r \in Requests,
         NEW statement \in {"start", "forget", "match", "delete"},
         Goes(r, statement)
  PROVE  Moved(r, statement)
<1>1. req' = [req EXCEPT ![r] = [req[r] EXCEPT !.at = statement]]
  BY DEF Goes, TypeOK, Request
<1>2. [req[r] EXCEPT !.at = statement] \in Request
  BY DEF TypeOK, Request
<1>3. QED
  BY <1>1, <1>2 DEF TypeOK, Moved, Request

Ended(r) ==
  /\ req' \in [Requests -> Request]
  /\ \A o \in Requests \ {r} : req'[o] = req[o]
  /\ req'[r] = Idle

LEMMA EndsEffect ==
  ASSUME TypeOK, NEW r \in Requests, Ends(r)
  PROVE  Ended(r)
<1>1. Idle \in Request
  BY Constants DEF Idle, Request
<1>2. QED
  BY <1>1 DEF TypeOK, Ends, Ended

\* A login: a challenge, or a session id nobody has.
LEMMA LoginKeeps ==
  ASSUME IInv, NEW r \in Requests, NEW d \in Devices, Login(r, d)
  PROVE  IInv'
<1>1. CASE twoFactor
  <2>1. TypeOK'
    BY Constants, <1>1 DEF IInv, TypeOK, history, Login
  <2>2. Fresh'
    BY Constants, <1>1 DEF IInv, Fresh, history, Login
  <2>3. Gone'
    BY Constants, <1>1 DEF IInv, Gone, history, Login
  <2>4. LeavesOwn'
    BY Constants, <1>1 DEF IInv, LeavesOwn, history, Login
  <2>5. Listed'
    BY Constants, <1>1 DEF IInv, Listed, Open, Changing, Returning, history,
         Login
  <2>6. \A o \in Requests : Shaped(o)'
    BY Constants, <1>1 DEF IInv, Shaped, history, Login
  <2>7. QED
    BY <2>1, <2>2, <2>3, <2>4, <2>5, <2>6 DEF IInv
<1>2. CASE ~twoFactor
  <2>1. TypeOK'
    <3>1. drawn + 1 \in Sids
      BY <1>2, Constants DEF IInv, TypeOK, Login, Sids
    <3>2. [op |-> "login", device |-> d, sid |-> drawn + 1, at |-> "store"] \in Request
      BY <3>1 DEF Request, AllOps, Sids
    <3>3. QED
      BY <1>2, <3>1, <3>2 DEF IInv, TypeOK, Login, Admit, Sids, history
  <2>2. Fresh'
    BY Constants, <1>2 DEF IInv, TypeOK, Fresh, Request, Idle, UserRow,
         LogStatus, Sids, history, Login, Admit
  <2>3. Gone'
    BY Constants, <1>2 DEF IInv, TypeOK, Fresh, Gone, history, Login, Admit
  <2>4. LeavesOwn'
    <3>1. \A o \in Requests \ {r} : req'[o] = req[o]
      BY <1>2 DEF IInv, TypeOK, Login, Admit
    <3>2. req'[r].op = "login"
      BY <1>2 DEF IInv, TypeOK, Login, Admit
    <3>3. user' = user /\ torn' = torn
      BY DEF Login, history
    <3>4. QED
      BY <3>1, <3>2, <3>3 DEF IInv, LeavesOwn
  <2>5. Listed'
    <3>1. \A o \in Requests \ {r} : req'[o] = req[o]
      BY <1>2 DEF IInv, TypeOK, Login, Admit
    <3>2. \A s \in Sids : Returning(s)' => Returning(s)
      BY <1>2, <3>1 DEF IInv, TypeOK, Login, Admit, Returning
    <3>3. \A s \in Sids : Changing(s) => Changing(s)'
      BY <1>2, <3>1 DEF Login, Admit, Changing, Idle
    <3>4. QED
      BY <1>2, <3>2, <3>3 DEF IInv, Listed, Open, Login, history
  <2>6. \A o \in Requests : Shaped(o)'
    BY Constants, <1>2 DEF IInv, TypeOK, Shaped, history, Login, Admit
  <2>7. QED
    BY <2>1, <2>2, <2>3, <2>4, <2>5, <2>6 DEF IInv
<1>3. QED
  BY <1>1, <1>2

\* The second factor: a session id nobody has.
LEMMA VerifyTwoFactorKeeps ==
  ASSUME IInv, NEW r \in Requests, NEW d \in Devices, VerifyTwoFactor(r, d)
  PROVE  IInv'
<1>1. TypeOK'
  BY Constants DEF IInv, TypeOK, Request, history, VerifyTwoFactor, Admit
<1>2. Fresh'
  BY Constants DEF IInv, TypeOK, Fresh, Request, UserRow, Sids, history,
       VerifyTwoFactor, Admit
<1>3. Gone'
  BY Constants DEF IInv, TypeOK, Fresh, Gone, history, VerifyTwoFactor, Admit
<1>4. LeavesOwn'
  BY Constants DEF IInv, LeavesOwn, history, VerifyTwoFactor, Admit
<1>5. Listed'
  BY Constants DEF IInv, Listed, Open, Changing, Returning, Idle, history,
       VerifyTwoFactor, Admit
<1>6. \A o \in Requests : Shaped(o)'
  BY Constants DEF IInv, TypeOK, Shaped, history, VerifyTwoFactor, Admit
<1>7. QED
  BY <1>1, <1>2, <1>3, <1>4, <1>5, <1>6 DEF IInv

\* The user's row first: the log entry is still to come.
LEMMA StoreSessionKeeps ==
  ASSUME IInv, NEW r \in Requests, StoreSession(r)
  PROVE  IInv'
<1>1. Moved(r, "start")
  BY GoesEffect DEF IInv, StoreSession
<1>2. TypeOK'
  <2>1. req[r].sid \in Sids
    BY  DEF IInv, TypeOK, Shaped, StoreSession, At, Request, Sids
  <2>2. user' \in UserRow /\ torn' \subseteq Sids
    BY <2>1, StoresEffect DEF IInv, StoreSession
  <2>3. QED
    BY <1>1, <2>2 DEF IInv, TypeOK, StoreSession, Moved
<1>3. Fresh'
  BY Constants DEF IInv, Shaped, Fresh, StoreSession, At, Stores, Goes
<1>4. Gone'
  BY Constants DEF IInv, Gone, StoreSession, At, Stores, Goes
<1>5. LeavesOwn'
  BY Constants DEF LeavesOwn, StoreSession, Stores, Goes
<1>6. Listed'
  BY Constants DEF IInv, TypeOK, Listed, Open, Changing, Returning,
       StoreSession, Stores, Goes
<1>7. \A o \in Requests : Shaped(o)'
  BY Constants DEF IInv, Shaped, StoreSession, At, Goes
<1>8. QED
  BY <1>2, <1>3, <1>4, <1>5, <1>6, <1>7 DEF IInv

\* The log entry that was still to come.
LEMMA StartLogKeeps ==
  ASSUME IInv, NEW r \in Requests, StartLog(r)
  PROVE  IInv'
<1>1. Ended(r)
  BY EndsEffect DEF IInv, StartLog
<1>2. TypeOK'
  BY Constants, <1>1 DEF IInv, TypeOK, Request, LogStatus, history, StartLog,
       Ended
<1>3. Fresh'
  BY Constants DEF IInv, TypeOK, Fresh, Idle, history, StartLog, Ends
<1>4. Gone'
  BY Constants DEF IInv, Gone, Idle, history, StartLog, Ends
<1>5. LeavesOwn'
  BY Constants DEF IInv, LeavesOwn, Idle, history, StartLog, Ends
<1>6. Listed'
  BY Constants DEF IInv, TypeOK, Listed, Open, Changing, Returning, Idle,
       history, StartLog, Ends
<1>7. \A o \in Requests : Shaped(o)'
  BY Constants DEF IInv, Shaped, Idle, history, StartLog, Ends
<1>8. QED
  BY <1>2, <1>3, <1>4, <1>5, <1>6, <1>7 DEF IInv

\* A refresh reads the session it will write back.
LEMMA RefreshKeeps ==
  ASSUME IInv, NEW r \in Requests, NEW d \in Devices, Refresh(r, d)
  PROVE  IInv'
<1>1. TypeOK'
  BY Constants DEF IInv, TypeOK, Request, UserRow, history, Refresh, Admit
<1>2. Fresh'
  BY Constants DEF IInv, Fresh, history, Refresh, Admit
<1>3. Gone'
  BY Constants DEF IInv, Gone, history, Refresh, Admit
<1>4. LeavesOwn'
  BY Constants DEF IInv, LeavesOwn, history, Refresh, Admit
<1>5. Listed'
  BY Constants DEF IInv, Listed, Open, Changing, Returning, Idle, history,
       Refresh, Admit
<1>6. \A o \in Requests : Shaped(o)'
  BY Constants DEF IInv, Shaped, Fresh, history, Refresh, Admit
<1>7. QED
  BY <1>1, <1>2, <1>3, <1>4, <1>5, <1>6 DEF IInv

\* It writes it back: nobody has revoked it meanwhile without a mark.
LEMMA RotateKeeps ==
  ASSUME IInv, NEW r \in Requests, Rotate(r)
  PROVE  IInv'
<1>1. Ended(r)
  BY EndsEffect DEF IInv, Rotate
<1>2. TypeOK'
  <2>1. req[r].sid \in Sids
    BY  DEF IInv, TypeOK, Shaped, Rotate, At, Request, Sids
  <2>2. user' \in UserRow /\ torn' \subseteq Sids
    BY <2>1, StoresEffect DEF IInv, Rotate
  <2>3. holds' \in [Devices -> 0..MaxSessions]
    <3>1. req[r].sid \in 0..MaxSessions
      BY <2>1, Constants DEF Sids
    <3>2. QED
      BY <3>1 DEF IInv, TypeOK, Rotate
  <2>4. QED
    BY <1>1, <2>2, <2>3 DEF IInv, TypeOK, Rotate, Ended
<1>3. Fresh'
  BY Constants DEF IInv, TypeOK, Shaped, Fresh, Idle, Rotate, At, Stores, Ends
<1>4. Gone'
  BY Constants DEF IInv, Gone, Idle, Rotate, At, Stores, Ends
<1>5. LeavesOwn'
  BY Constants DEF LeavesOwn, Idle, Rotate, Stores, Ends
<1>6. Listed'
  BY Constants DEF IInv, Listed, Open, Changing, Returning, Idle, history,
       Rotate, At, Stores, Ends
<1>7. \A o \in Requests : Shaped(o)'
  BY Constants, <1>1 DEF IInv, Shaped, Idle, Rotate, At, Ended
<1>8. QED
  BY <1>2, <1>3, <1>4, <1>5, <1>6, <1>7 DEF IInv

\* A logout leaves the session of the row.
LEMMA LogoutKeeps ==
  ASSUME IInv, NEW r \in Requests, NEW d \in Devices, Logout(r, d)
  PROVE  IInv'
<1>1. TypeOK'
  BY Constants DEF IInv, TypeOK, Request, history, Logout, Admit
<1>2. Fresh'
  BY Constants DEF IInv, Fresh, history, Logout, Accepted, Admit
<1>3. Gone'
  BY Constants DEF IInv, Gone, history, Logout, Admit
<1>4. LeavesOwn'
  BY Constants DEF IInv, LeavesOwn, history, Logout, Accepted, Admit
<1>5. Listed'
  BY Constants DEF IInv, Listed, Open, Changing, Returning, Idle, history,
       Logout, Admit
<1>6. \A o \in Requests : Shaped(o)'
  BY Constants DEF IInv, Shaped, history, Logout, Accepted, Admit
<1>7. QED
  BY <1>1, <1>2, <1>3, <1>4, <1>5, <1>6 DEF IInv

\* An admin names any session of the log.
LEMMA ForceLogoutKeeps ==
  ASSUME IInv, NEW r \in Requests, NEW s \in Sids, ForceLogout(r, s)
  PROVE  IInv'
<1>1. TypeOK'
  BY Constants DEF IInv, TypeOK, Request, Sids, history, ForceLogout, Admit
<1>2. Fresh'
  BY Constants DEF IInv, Fresh, history, ForceLogout, Admit
<1>3. Gone'
  BY Constants DEF IInv, Gone, history, ForceLogout, Admit
<1>4. LeavesOwn'
  BY Constants DEF IInv, LeavesOwn, history, ForceLogout, Admit
<1>5. Listed'
  BY Constants DEF IInv, Listed, Open, Changing, Returning, Idle, history,
       ForceLogout, Admit
<1>6. \A o \in Requests : Shaped(o)'
  BY Constants DEF IInv, Shaped, Sids, history, ForceLogout, Admit
<1>7. QED
  BY <1>1, <1>2, <1>3, <1>4, <1>5, <1>6 DEF IInv

\* The log entry ends: the row is next.
LEMMA EndLogKeeps ==
  ASSUME IInv, NEW r \in Requests, EndLog(r)
  PROVE  IInv'
<1>1. CASE req[r].op = "logout"
  <2>1. Moved(r, "forget")
    BY <1>1, GoesEffect DEF IInv, EndLog
  <2>2. TypeOK'
    BY Constants, <1>1, <2>1 DEF IInv, TypeOK, LogStatus, history, EndLog,
         Moved
  <2>3. Fresh'
    BY Constants, <1>1, <2>1 DEF IInv, Fresh, history, EndLog, Moved
  <2>4. Gone'
    BY Constants, <1>1, <2>1 DEF IInv, Gone, history, EndLog, Moved
  <2>5. LeavesOwn'
    BY Constants, <1>1, <2>1 DEF IInv, LeavesOwn, history, EndLog, Moved
  <2>6. Listed'
    BY Constants, <1>1 DEF IInv, TypeOK, Listed, Open, Changing, Returning,
         history, EndLog, Goes
  <2>7. \A o \in Requests : Shaped(o)'
    BY Constants, <1>1 DEF IInv, Shaped, history, EndLog, Goes
  <2>8. QED
    BY <2>2, <2>3, <2>4, <2>5, <2>6, <2>7 DEF IInv
<1>2. CASE req[r].op # "logout"
  <2>1. Moved(r, "match")
    BY <1>2, GoesEffect DEF IInv, EndLog
  <2>2. TypeOK'
    BY Constants, <1>2, <2>1 DEF IInv, TypeOK, LogStatus, history, EndLog,
         Moved
  <2>3. Fresh'
    BY Constants, <1>2, <2>1 DEF IInv, Fresh, history, EndLog, Moved
  <2>4. Gone'
    BY Constants, <1>2 DEF IInv, Gone, history, EndLog, Goes
  <2>5. LeavesOwn'
    BY Constants, <1>2, <2>1 DEF IInv, LeavesOwn, history, EndLog, Moved
  <2>6. Listed'
    BY Constants, <1>2 DEF IInv, TypeOK, Listed, Open, Changing, Returning,
         history, EndLog, Goes
  <2>7. \A o \in Requests : Shaped(o)'
    BY Constants, <1>2 DEF IInv, Shaped, history, EndLog, At, Goes
  <2>8. QED
    BY <2>2, <2>3, <2>4, <2>5, <2>6, <2>7 DEF IInv
<1>3. QED
  BY <1>1, <1>2

\* A logout clears the row.
LEMMA ForgetKeeps ==
  ASSUME IInv, NEW r \in Requests, Forget(r)
  PROVE  IInv'
<1>1. Ended(r)
  BY EndsEffect DEF IInv, Forget
<1>2. TypeOK'
  <2>1. req[r].sid \in 0..MaxSessions
    BY DEF IInv, TypeOK, Request
  <2>2. revoked' \subseteq Sids /\ torn' \subseteq Sids
    BY <2>1, RevokesEffect DEF IInv, Forget
  <2>3. SignedOut \in UserRow
    BY Constants DEF SignedOut, UserRow
  <2>4. QED
    BY <1>1, <2>2, <2>3 DEF IInv, TypeOK, Forget, Ended
<1>3. Fresh'
  BY Constants DEF IInv, TypeOK, Fresh, Idle, Forget, SignedOut, Revokes, Ends
<1>4. Gone'
  BY Constants DEF IInv, TypeOK, Gone, Idle, Sids, Forget, SignedOut, Revokes,
       Writers, Ends
<1>5. LeavesOwn'
  BY Constants, <1>1 DEF LeavesOwn, Forget, SignedOut
<1>6. Listed'
  BY Constants DEF IInv, Listed, Open, Changing, Returning, Idle, Sids,
       Forget, SignedOut, Revokes, Writers, Ends
<1>7. \A o \in Requests : Shaped(o)'
  BY Constants DEF IInv, Shaped, Idle, Forget, Revokes, Ends
<1>8. QED
  BY <1>2, <1>3, <1>4, <1>5, <1>6, <1>7 DEF IInv

\* An admin clears it if it names the session.
LEMMA MatchKeeps ==
  ASSUME IInv, NEW r \in Requests, Match(r)
  PROVE  IInv'
<1>1. CASE req[r].op = "clear"
  <2>1. Moved(r, "delete")
    BY <1>1, GoesEffect DEF IInv, Match
  <2>2. TypeOK'
    <3>1. req[r].sid \in 0..MaxSessions
      BY DEF IInv, TypeOK, Request
    <3>2. revoked' \subseteq Sids /\ torn' \subseteq Sids
      BY <3>1, RevokesEffect DEF IInv, Match
    <3>3. SignedOut \in UserRow
      BY Constants DEF SignedOut, UserRow
    <3>4. QED
      BY <2>1, <3>2, <3>3 DEF IInv, TypeOK, Match, Moved
  <2>3. Fresh'
    BY Constants, <1>1 DEF IInv, TypeOK, Fresh, Request, LogStatus, history,
         Match, At, SignedOut, Revokes, Writers, Goes, Ends
  <2>4. Gone'
    <3>1. req[r].sid \in 0..MaxSessions /\ req[r].at = "match"
      BY DEF IInv, TypeOK, Request, Match, At
    <3>2. /\ torn \subseteq torn' /\ revoked' \subseteq revoked \cup {req[r].sid}
          /\ revoked' \subseteq Sids
          /\ req[r].sid # 0 /\ req[r].sid \notin torn' => \A o \in Requests :
               req[o].sid = req[r].sid => req[o].at \notin {"store", "start", "rotate"}
      BY <3>1, RevokesEffect DEF IInv, Match
    <3>3. ASSUME NEW s \in revoked' \ torn'
          PROVE  /\ user.sid = s => s = req[r].sid
                 /\ \A o \in Requests :
                      req[o].sid = s => req[o].at \notin {"store", "start", "rotate"}
      BY <3>2, <3>3 DEF IInv, TypeOK, Gone, Sids
    <3>4. \A s \in revoked' : user'.sid = s => user.sid = s /\ s # req[r].sid
      BY <3>2 DEF Match, SignedOut, Sids
    <3>5. \A o \in Requests : req'[o].sid # 0 => req'[o].sid = req[o].sid /\
            (o # r => req'[o].at = req[o].at)
      BY <2>1 DEF Moved, Idle
    <3>6. req'[r].at \notin {"store", "start", "rotate"}
      BY <2>1 DEF Moved, Idle
    <3>7. ASSUME NEW s \in revoked' \ torn'
          PROVE  /\ user'.sid # s
                 /\ \A o \in Requests :
                      req'[o].sid = s => req'[o].at \notin {"store", "start", "rotate"}
      <4>1. s # 0
        BY <3>2 DEF Sids
      <4>2. QED
        BY <4>1, <3>3, <3>4, <3>5, <3>6
    <3>8. QED
      BY <3>7 DEF Gone
  <2>5. LeavesOwn'
    BY Constants, <1>1, <2>1 DEF IInv, LeavesOwn, Match, SignedOut, Revokes,
         Moved
  <2>6. Listed'
    <3>1. req[r].sid \in 0..MaxSessions /\ req[r].at = "match"
      BY DEF IInv, TypeOK, Request, Match, At
    <3>2. /\ torn \subseteq torn'
          /\ req[r].sid # 0 /\ req[r].sid \notin torn' => \A o \in Requests :
               req[o].sid = req[r].sid => req[o].at \notin {"store", "start", "rotate"}
      BY <3>1, RevokesEffect DEF IInv, Match
    <3>3. ASSUME NEW s \in Sids \ torn', user'.sid = s \/ Returning(s)'
          PROVE  (user.sid = s \/ Returning(s)) /\ s # req[r].sid
      <4>1. CASE user'.sid = s
        BY <4>1 DEF Match, SignedOut, Sids
      <4>2. CASE Returning(s)'
        <5>1. PICK o \in Requests : req'[o].sid = s /\ req'[o].at = "rotate"
          BY <4>2 DEF Returning
        <5>2. o # r /\ req[o].sid = s /\ req[o].at = "rotate"
          BY <2>1, <5>1 DEF Moved, Idle
        <5>3. QED
          BY <3>2, <5>2 DEF Returning, Sids
      <4>3. QED
        BY <3>3, <4>1, <4>2
    <3>4. \A s \in Sids : s # req[r].sid /\ Changing(s) => Changing(s)'
      BY <2>1 DEF Changing, Moved
    <3>5. \A s \in Sids : Open(s) => Open(s)'
      BY DEF Match, Open
    <3>6. QED
      BY <3>2, <3>3, <3>4, <3>5 DEF IInv, Listed
  <2>7. \A o \in Requests : Shaped(o)'
    <3>1. req[r].sid \in revoked'
      BY  DEF IInv, Shaped, Match, At, Revokes
    <3>2. revoked \subseteq revoked'
      BY DEF Match, Revokes
    <3>3. ASSUME NEW o \in Requests PROVE Shaped(o)'
      <4>1. CASE o = r
        BY <2>1, <3>1, <4>1 DEF IInv, Shaped, Match, At, Moved
      <4>2. CASE o # r
        BY <2>1, <3>2, <4>2 DEF IInv, Shaped, Moved
      <4>3. QED
        BY <4>1, <4>2
    <3>4. QED
      BY <3>3
  <2>8. QED
    BY <2>2, <2>3, <2>4, <2>5, <2>6, <2>7 DEF IInv
<1>2. CASE req[r].op # "clear"
  <2>1. Ended(r)
    BY <1>2, EndsEffect DEF IInv, Match
  <2>2. TypeOK'
    <3>1. req[r].sid \in 0..MaxSessions
      BY DEF IInv, TypeOK, Request
    <3>2. revoked' \subseteq Sids /\ torn' \subseteq Sids
      BY <3>1, RevokesEffect DEF IInv, Match
    <3>3. SignedOut \in UserRow
      BY Constants DEF SignedOut, UserRow
    <3>4. QED
      BY <2>1, <3>2, <3>3 DEF IInv, TypeOK, Match, Ended
  <2>3. Fresh'
    BY Constants, <1>2, <2>1 DEF IInv, TypeOK, Fresh, Idle, LogStatus, Match,
         SignedOut, Revokes, Writers, Ended
  <2>4. Gone'
    <3>1. req[r].sid \in 0..MaxSessions /\ req[r].at = "match"
      BY DEF IInv, TypeOK, Request, Match, At
    <3>2. /\ torn \subseteq torn' /\ revoked' \subseteq revoked \cup {req[r].sid}
          /\ revoked' \subseteq Sids
          /\ req[r].sid # 0 /\ req[r].sid \notin torn' => \A o \in Requests :
               req[o].sid = req[r].sid => req[o].at \notin {"store", "start", "rotate"}
      BY <3>1, RevokesEffect DEF IInv, Match
    <3>3. ASSUME NEW s \in revoked' \ torn'
          PROVE  /\ user.sid = s => s = req[r].sid
                 /\ \A o \in Requests :
                      req[o].sid = s => req[o].at \notin {"store", "start", "rotate"}
      BY <3>2, <3>3 DEF IInv, TypeOK, Gone, Sids
    <3>4. \A s \in revoked' : user'.sid = s => user.sid = s /\ s # req[r].sid
      BY <3>2 DEF Match, SignedOut, Sids
    <3>5. \A o \in Requests : req'[o].sid # 0 => req'[o].sid = req[o].sid /\
            (o # r => req'[o].at = req[o].at)
      BY <2>1 DEF Ended, Idle
    <3>6. req'[r].at \notin {"store", "start", "rotate"}
      BY <2>1 DEF Ended, Idle
    <3>7. ASSUME NEW s \in revoked' \ torn'
          PROVE  /\ user'.sid # s
                 /\ \A o \in Requests :
                      req'[o].sid = s => req'[o].at \notin {"store", "start", "rotate"}
      <4>1. s # 0
        BY <3>2 DEF Sids
      <4>2. QED
        BY <4>1, <3>3, <3>4, <3>5, <3>6
    <3>8. QED
      BY <3>7 DEF Gone
  <2>5. LeavesOwn'
    BY Constants, <1>2 DEF IInv, TypeOK, LeavesOwn, Idle, Match, SignedOut,
         Revokes, Ends
  <2>6. Listed'
    <3>1. req[r].sid \in 0..MaxSessions /\ req[r].at = "match"
      BY DEF IInv, TypeOK, Request, Match, At
    <3>2. /\ torn \subseteq torn'
          /\ req[r].sid # 0 /\ req[r].sid \notin torn' => \A o \in Requests :
               req[o].sid = req[r].sid => req[o].at \notin {"store", "start", "rotate"}
      BY <3>1, RevokesEffect DEF IInv, Match
    <3>3. ASSUME NEW s \in Sids \ torn', user'.sid = s \/ Returning(s)'
          PROVE  (user.sid = s \/ Returning(s)) /\ s # req[r].sid
      <4>1. CASE user'.sid = s
        BY <4>1 DEF Match, SignedOut, Sids
      <4>2. CASE Returning(s)'
        <5>1. PICK o \in Requests : req'[o].sid = s /\ req'[o].at = "rotate"
          BY <4>2 DEF Returning
        <5>2. o # r /\ req[o].sid = s /\ req[o].at = "rotate"
          BY <2>1, <5>1 DEF Ended, Idle
        <5>3. QED
          BY <3>2, <5>2 DEF Returning, Sids
      <4>3. QED
        BY <3>3, <4>1, <4>2
    <3>4. \A s \in Sids : s # req[r].sid /\ Changing(s) => Changing(s)'
      BY <2>1 DEF Changing, Ended
    <3>5. \A s \in Sids : Open(s) => Open(s)'
      BY DEF Match, Open
    <3>6. QED
      BY <3>2, <3>3, <3>4, <3>5 DEF IInv, Listed
  <2>7. \A o \in Requests : Shaped(o)'
    BY Constants, <1>2, <2>1 DEF IInv, Shaped, Idle, Match, Revokes, Ended
  <2>8. QED
    BY <2>2, <2>3, <2>4, <2>5, <2>6, <2>7 DEF IInv
<1>3. QED
  BY <1>1, <1>2

\* The log entry of a revoked session goes.
LEMMA DeleteLogKeeps ==
  ASSUME IInv, NEW r \in Requests, DeleteLog(r)
  PROVE  IInv'
<1>1. Ended(r)
  BY EndsEffect DEF IInv, DeleteLog
<1>2. TypeOK'
  BY Constants, <1>1 DEF IInv, TypeOK, LogStatus, history, DeleteLog, Ended
<1>3. Fresh'
  BY Constants DEF IInv, TypeOK, Fresh, Idle, history, DeleteLog, Ends
<1>4. Gone'
  BY Constants DEF IInv, Gone, Idle, history, DeleteLog, Ends
<1>5. LeavesOwn'
  BY Constants DEF IInv, LeavesOwn, Idle, history, DeleteLog, Ends
<1>6. Listed'
  BY Constants DEF IInv, Shaped, Gone, Listed, Open, Changing, Returning,
       Idle, history, DeleteLog, At, Ends
<1>7. \A o \in Requests : Shaped(o)'
  BY Constants DEF IInv, Shaped, Idle, history, DeleteLog, Ends
<1>8. QED
  BY <1>2, <1>3, <1>4, <1>5, <1>6, <1>7 DEF IInv

\* A reset clears the row.
LEMMA ResetPasswordKeeps ==
  ASSUME IInv, ResetPassword
  PROVE  IInv'
<1>1. TypeOK'
  <2>1. revoked' \subseteq Sids /\ torn' \subseteq Sids
    BY RevokesEffect DEF IInv, TypeOK, UserRow, ResetPassword
  <2>2. SignedOut \in UserRow
    BY Constants DEF SignedOut, UserRow
  <2>3. QED
    BY <2>1, <2>2 DEF IInv, TypeOK, ResetPassword
<1>2. Fresh'
  BY Constants DEF IInv, TypeOK, Fresh, ResetPassword, SignedOut, Revokes
<1>3. Gone'
  BY Constants DEF IInv, TypeOK, Gone, Sids, ResetPassword, SignedOut,
       Revokes, Writers
<1>4. LeavesOwn'
  BY Constants DEF LeavesOwn, ResetPassword, SignedOut
<1>5. Listed'
  BY Constants DEF IInv, Listed, Open, Changing, Returning, Sids,
       ResetPassword, SignedOut, Revokes
<1>6. \A o \in Requests : Shaped(o)'
  BY Constants DEF IInv, Shaped, ResetPassword, Revokes
<1>7. QED
  BY <1>1, <1>2, <1>3, <1>4, <1>5, <1>6 DEF IInv

\* A crash marks what was in flight.
LEMMA CrashKeeps ==
  ASSUME IInv, Crash
  PROVE  IInv'
<1>1. TypeOK'
  <2>1. Idle \in Request
    BY Constants DEF Idle, Request
  <2>2. {req[r].sid : r \in {o \in Requests : req[o].sid # 0}} \subseteq Sids
    BY Constants DEF IInv, TypeOK, Request, Sids
  <2>3. QED
    BY <2>1, <2>2 DEF IInv, TypeOK, Crash
<1>2. Fresh'
  BY Constants DEF IInv, TypeOK, Fresh, Idle, history, Crash
<1>3. Gone'
  BY Constants DEF IInv, Gone, Idle, Crash
<1>4. LeavesOwn'
  BY Constants DEF LeavesOwn, Idle, Crash
<1>5. Listed'
  BY Constants DEF IInv, Shaped, Listed, Open, Changing, Returning, Idle,
       Crash
<1>6. \A o \in Requests : Shaped(o)'
  BY Constants DEF Shaped, Idle, Crash
<1>7. QED
  BY <1>1, <1>2, <1>3, <1>4, <1>5, <1>6 DEF IInv

\* A request of a device that is signed in, or was.
LEMMA UseKeeps ==
  ASSUME IInv, NEW d \in Devices, Use(d)
  PROVE  IInv'
<1>1. TypeOK'
  BY Constants DEF IInv, TypeOK, LogStatus, history, Use, Accepted
<1>2. Fresh'
  BY Constants DEF IInv, TypeOK, Fresh, history, Use
<1>3. Gone'
  BY Constants DEF IInv, Gone, history, Use
<1>4. LeavesOwn'
  BY Constants DEF IInv, LeavesOwn, history, Use
<1>5. Listed'
  BY Constants DEF IInv, TypeOK, Listed, Open, Changing, Returning, history,
       Use
<1>6. \A o \in Requests : Shaped(o)'
  BY Constants DEF IInv, Shaped, history, Use
<1>7. QED
  BY <1>1, <1>2, <1>3, <1>4, <1>5, <1>6 DEF IInv

\* The remaining steps touch no request and no revocation: tokens, challenges,
\* the second factor, and a session that goes idle.
LEMMA AsideKeeps ==
  ASSUME IInv, twoFactor' \in BOOLEAN, holds' \in [Devices -> 0..MaxSessions],
         challenged' \subseteq Devices,
         UNCHANGED <<user, log, drawn, req, history>>
  PROVE  IInv'
<1>1. TypeOK'
  BY DEF IInv, TypeOK, history
<1>2. Fresh' /\ Gone' /\ LeavesOwn'
  BY DEF IInv, Fresh, Gone, LeavesOwn, history
<1>3. Listed'
  BY  DEF IInv, Listed, Open, Changing, Returning, history
<1>4. \A o \in Requests : Shaped(o)'
  BY DEF IInv, Shaped, history
<1>5. QED
  BY <1>1, <1>2, <1>3, <1>4 DEF IInv

LEMMA GoesIdleKeeps ==
  ASSUME IInv, NEW s \in Sids, GoesIdle(s)
  PROVE  IInv'
<1>1. TypeOK'
  BY DEF IInv, TypeOK, GoesIdle, LogStatus, history
<1>2. Fresh'
  BY DEF IInv, TypeOK, Fresh, GoesIdle, history
<1>3. Gone' /\ LeavesOwn'
  BY DEF IInv, Gone, LeavesOwn, GoesIdle, history
<1>4. Listed'
  BY  DEF IInv, Listed, Open, Changing, Returning, GoesIdle, history
<1>5. \A o \in Requests : Shaped(o)'
  BY DEF IInv, Shaped, GoesIdle, history
<1>6. QED
  BY <1>1, <1>2, <1>3, <1>4, <1>5 DEF IInv

-----------------------------------------------------------------------------
LEMMA InitIInv == Init => IInv
<1> SUFFICES ASSUME Init PROVE IInv
  OBVIOUS
<1>1. TypeOK
  BY Constants DEF Init, TypeOK, SignedOut, UserRow, LogStatus, Idle, Request, Sids
<1>2. Fresh /\ Gone /\ LeavesOwn
  BY DEF Init, Fresh, Gone, LeavesOwn, SignedOut, Idle, Sids
<1>3. Listed
  BY DEF Init, Listed, Returning, SignedOut, Idle, Sids
<1>4. \A r \in Requests : Shaped(r)
  BY DEF Init, Shaped, Idle
<1>5. QED
  BY <1>1, <1>2, <1>3, <1>4 DEF IInv

LEMMA NextIInv == IInv /\ [Next]_vars => IInv'
<1> SUFFICES ASSUME IInv, [Next]_vars PROVE IInv'
  OBVIOUS
<1>1. ASSUME NEW r \in Requests, Admission(r) PROVE IInv'
  BY <1>1, LoginKeeps, VerifyTwoFactorKeeps, RefreshKeeps, LogoutKeeps,
     ForceLogoutKeeps DEF Admission
<1>2. ASSUME NEW r \in Requests, Proceed(r) PROVE IInv'
  BY <1>2, StoreSessionKeeps, StartLogKeeps, RotateKeeps, EndLogKeeps,
     ForgetKeeps, MatchKeeps, DeleteLogKeeps DEF Proceed
<1>3. ASSUME NEW d \in Devices, RefreshRefused(d) PROVE IInv'
  BY <1>3, AsideKeeps, Constants DEF RefreshRefused, IInv, TypeOK, history
<1>4. ASSUME NEW d \in Devices, ChallengeExpires(d) \/ ChangeTwoFactor(d)
      PROVE  IInv'
  BY <1>4, AsideKeeps DEF ChallengeExpires, ChangeTwoFactor, IInv, TypeOK, history
<1>5. CASE UNCHANGED vars
  BY <1>5, AsideKeeps DEF vars, IInv, TypeOK, history
<1>6. QED
  BY <1>1, <1>2, <1>3, <1>4, <1>5, UseKeeps, GoesIdleKeeps, ResetPasswordKeeps,
     CrashKeeps DEF Next

\* Every reachable state satisfies the inductive invariant.
THEOREM Inductive == Spec => []IInv
<1>1. Init => IInv
  BY InitIInv
<1>2. IInv /\ [Next]_vars => IInv'
  BY NextIInv
<1>3. QED
  BY <1>1, <1>2, PTL DEF Spec

\* Rows, log entries, tokens and requests keep their types.
THEOREM TypeCorrect == Spec => []TypeOK
<1>1. IInv => TypeOK
  BY DEF IInv
<1>2. QED
  BY <1>1, Inductive, PTL

\* However many devices log in, refresh and log out at once: a session that was
\* put to an end is not in the user's row again, unless a write of that very
\* session was under way.
THEOREM NeverReturns == Spec => []RevokedStaysOut
<1>1. IInv => RevokedStaysOut
  BY DEF IInv, Gone, RevokedStaysOut
<1>2. QED
  BY <1>1, Inductive, PTL

\* The session of the user's row is in the log as not ended, unless it is being
\* changed or was cut short.
THEOREM AlwaysListed == Spec => []LiveIsListed
<1>1. IInv => LiveIsListed
  BY DEF IInv, Listed, LiveIsListed, Open, Changing, Busy
<1>2. QED
  BY <1>1, Inductive, PTL

-----------------------------------------------------------------------------
OwnEnd ==
  \A s \in Sids :
    user.sid = s /\ user'.sid = 0 /\ s \notin torn => s \in revoked'

\* What signs somebody out: a logout of their own session, an admin who named
\* it, or a reset.
LEMMA ForgetOwnEnd ==
  ASSUME IInv, NEW r \in Requests, Forget(r)
  PROVE  OwnEnd
<1>1. SUFFICES ASSUME NEW s \in Sids, user.sid = s, s \notin torn
               PROVE  s \in revoked'
  BY DEF OwnEnd
<1>2. req[r].op = "logout"
  BY DEF IInv, Shaped, Forget, At
<1>3. s = req[r].sid
  BY <1>1, <1>2 DEF IInv, LeavesOwn, Sids
<1>4. QED
  BY <1>1, <1>3 DEF Forget, Revokes, Sids

LEMMA MatchOwnEnd ==
  ASSUME IInv, NEW r \in Requests, Match(r)
  PROVE  OwnEnd
BY DEF OwnEnd, Match, Revokes, Sids

LEMMA ResetOwnEnd ==
  ASSUME IInv, ResetPassword
  PROVE  OwnEnd
BY DEF OwnEnd, ResetPassword, Revokes, Sids

LEMMA StoredOwnEnd ==
  ASSUME IInv, NEW r \in Requests, StoreSession(r) \/ Rotate(r)
  PROVE  OwnEnd
<1>1. req[r].sid # 0
  BY DEF IInv, Shaped, StoreSession, Rotate, At
<1>2. user'.sid = req[r].sid
  BY DEF StoreSession, Rotate, Stores
<1>3. QED
  BY <1>1, <1>2 DEF OwnEnd

LEMMA SameUserOwnEnd ==
  ASSUME UNCHANGED user
  PROVE  OwnEnd
BY DEF OwnEnd, Sids

\* Nobody is signed out by the end of another session.
THEOREM SignedOutByOwnEnd == Spec => OwnEndOnly
<1>1. IInv /\ [Next]_vars => [OwnEnd]_vars
  <2> SUFFICES ASSUME IInv, Next PROVE OwnEnd
    OBVIOUS
  <2>1. ASSUME NEW r \in Requests, Admission(r) PROVE OwnEnd
    BY <2>1, SameUserOwnEnd DEF Admission, Login, VerifyTwoFactor, Refresh,
       Logout, ForceLogout
  <2>2. ASSUME NEW r \in Requests, Proceed(r) PROVE OwnEnd
    BY <2>2, StoredOwnEnd, ForgetOwnEnd, MatchOwnEnd, SameUserOwnEnd
       DEF Proceed, StartLog, EndLog, DeleteLog
  <2>3. ASSUME NEW d \in Devices,
               Use(d) \/ RefreshRefused(d) \/ ChallengeExpires(d) \/ ChangeTwoFactor(d)
        PROVE  OwnEnd
    BY <2>3, SameUserOwnEnd DEF Use, RefreshRefused, ChallengeExpires, ChangeTwoFactor
  <2>4. CASE Crash
    BY <2>4, SameUserOwnEnd DEF Crash
  <2>5. ASSUME NEW s \in Sids, GoesIdle(s) PROVE OwnEnd
    BY <2>5, SameUserOwnEnd DEF GoesIdle
  <2>6. QED
    BY <2>1, <2>2, <2>3, <2>4, <2>5, ResetOwnEnd DEF Next
<1>2. QED
  BY <1>1, Inductive, PTL DEF Spec, OwnEndOnly, OwnEnd
=============================================================================
