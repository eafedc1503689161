------------------------------ MODULE Sessions ------------------------------
(***************************************************************************)
(* The single-device session of one rep or driver: the live session in the *)
(* user's row, the log of device sessions that managers see and that locks *)
(* other devices out, two-factor login, refresh, logout, and what admins   *)
(* and password resets do to them.                                         *)
(*                                                                         *)
(* The user's row and the log are written one after the other without a    *)
(* transaction.  A request is a slot of req that names its next statement  *)
(* in `at'; statements of different requests interleave and a process that *)
(* dies leaves the rest out.  Passwords and codes are taken to be right:   *)
(* wrong ones are turned away before anything is read.                     *)
(***************************************************************************)
EXTENDS Naturals

CONSTANTS
  Devices,
  Requests,       \* slots for requests in flight
  NoDevice,
  Ops,            \* the operations called in this instance
  MaxSessions,    \* bound: session ids ever drawn
  MaxCrashes      \* bound: times the process dies

AllOps == {"login", "verify", "refresh", "logout", "forceLogout", "clear",
           "reset", "twoFactor", "crash"}

ASSUME Constants ==
  /\ NoDevice \notin Devices /\ Ops \subseteq AllOps
  /\ MaxSessions \in Nat /\ MaxCrashes \in Nat

VARIABLES
  user,        \* users row: sessionId (0: null) and whether refreshToken is set
  twoFactor,   \* users row: twoFactorEnabled
  log,         \* user_sessions rows, by sessionId
  drawn,       \* session ids drawn so far
  holds,       \* the session in each device's tokens; 0: signed out
  challenged,  \* devices that hold a two-factor challenge
  req,         \* the request in each slot
  revoked,     \* history: sessions a request or a reset has put an end to
  torn,        \* history: sessions whose end raced with a write of their own
  crashes      \* history: times the process died

vars == <<user, twoFactor, log, drawn, holds, challenged, req, revoked, torn,
          crashes>>

history == <<revoked, torn, crashes>>

Sids == 1..MaxSessions

UserRow == [sid: 0..MaxSessions, refresh: BOOLEAN]

SignedOut == [sid |-> 0, refresh |-> FALSE]

\* "none" also stands for a row an admin has cleared.
LogStatus == {"none", "fresh", "idle", "ended"}

Request ==
  [op: AllOps \cup {"idle"}, device: Devices \cup {NoDevice},
   sid: 0..MaxSessions,
   at: {"idle", "store", "start", "rotate", "end", "forget", "match", "delete"}]

Idle == [op |-> "idle", device |-> NoDevice, sid |-> 0, at |-> "idle"]

TypeOK ==
  /\ user \in UserRow
  /\ twoFactor \in BOOLEAN
  /\ log \in [Sids -> LogStatus]
  /\ drawn \in 0..MaxSessions
  /\ holds \in [Devices -> 0..MaxSessions]
  /\ challenged \subseteq Devices
  /\ req \in [Requests -> Request]
  /\ revoked \subseteq Sids /\ torn \subseteq Sids
  /\ crashes \in Nat

Init ==
  /\ user = SignedOut /\ twoFactor \in BOOLEAN
  /\ log = [s \in Sids |-> "none"] /\ drawn = 0
  /\ holds = [d \in Devices |-> 0] /\ challenged = {}
  /\ req = [r \in Requests |-> Idle]
  /\ revoked = {} /\ torn = {} /\ crashes = 0

-----------------------------------------------------------------------------
At(r, statement) == req[r].at = statement

Admit(r, q) ==
  /\ q.op \in Ops /\ req[r] = Idle
  /\ req' = [req EXCEPT ![r] = q]

Goes(r, statement) == req' = [req EXCEPT ![r].at = statement]

Ends(r) == req' = [req EXCEPT ![r] = Idle]

\* Requests that are still to write session s into the user's row or the log.
Writers(s) ==
  {o \in Requests : req[o].sid = s /\ req[o].at \in {"store", "start", "rotate"}}

\* The last statement that puts an end to session s.
Revokes(s) ==
  /\ revoked' = IF s = 0 THEN revoked ELSE revoked \cup {s}
  /\ torn' = IF s # 0 /\ Writers(s) # {} THEN torn \cup {s} ELSE torn

\* Session s is written into the user's row.  A logout in flight may still
\* erase it.
Stores(s) ==
  /\ user' = [sid |-> s, refresh |-> TRUE]
  /\ torn' = IF \E o \in Requests : req[o].op = "logout"
             THEN torn \cup {s} ELSE torn

\* SessionsService.findActive: not ended and seen within the idle window.
Active(s) == log[s] = "fresh"

\* JwtStrategy.validate, for reps and drivers: the token's sid is the live one.
Accepted(d) == holds[d] # 0 /\ holds[d] = user.sid

-----------------------------------------------------------------------------
(***************************************************************************)
(* Login.                                                                  *)
(***************************************************************************)
\* AuthService.login: blocked while a session is active; with two-factor login
\* on the device only gets a challenge.
Login(r, d) ==
  /\ holds[d] = 0 /\ \A s \in Sids : ~Active(s)
  /\ IF twoFactor
     THEN /\ "login" \in Ops /\ challenged' = challenged \cup {d}
          /\ UNCHANGED <<req, drawn>>
     ELSE /\ drawn < MaxSessions /\ drawn' = drawn + 1
          /\ Admit(r, [op |-> "login", device |-> d, sid |-> drawn + 1, at |-> "store"])
          /\ UNCHANGED challenged
  /\ UNCHANGED <<user, twoFactor, log, holds, history>>

\* AuthService.verifyTwoFactor exchanges the challenge for a session.
VerifyTwoFactor(r, d) ==
  /\ d \in challenged /\ twoFactor /\ holds[d] = 0
  /\ drawn < MaxSessions /\ drawn' = drawn + 1
  /\ Admit(r, [op |-> "verify", device |-> d, sid |-> drawn + 1, at |-> "store"])
  /\ challenged' = challenged \ {d}
  /\ UNCHANGED <<user, twoFactor, log, holds, history>>

\* The challenge lives five minutes, or the user gives up.
ChallengeExpires(d) ==
  /\ d \in challenged /\ challenged' = challenged \ {d}
  /\ UNCHANGED <<user, twoFactor, log, drawn, holds, req, history>>

\* issueSession: the user's row first, whatever session it named.
StoreSession(r) ==
  /\ At(r, "store")
  /\ Stores(req[r].sid)
  /\ Goes(r, "start")
  /\ UNCHANGED <<twoFactor, log, drawn, holds, challenged, revoked, crashes>>

\* SessionsService.start: then the log, and the device has its tokens.
StartLog(r) ==
  /\ At(r, "start")
  /\ log' = [log EXCEPT ![req[r].sid] = "fresh"]
  /\ holds' = [holds EXCEPT ![req[r].device] = req[r].sid]
  /\ Ends(r)
  /\ UNCHANGED <<user, twoFactor, drawn, challenged, history>>

-----------------------------------------------------------------------------
(***************************************************************************)
(* Use and refresh.                                                        *)
(***************************************************************************)
\* An accepted request keeps its session fresh unless it has ended.  A
\* displaced device drops its tokens.
Use(d) ==
  /\ holds[d] # 0
  /\ \/ /\ Accepted(d)
        /\ log' = [log EXCEPT ![holds[d]] = IF @ = "idle" THEN "fresh" ELSE @]
        /\ UNCHANGED holds
     \/ /\ ~Accepted(d)
        /\ holds' = [holds EXCEPT ![d] = 0] /\ UNCHANGED log
  /\ UNCHANGED <<user, twoFactor, drawn, challenged, req, history>>

\* No request for SESSION_IDLE_MINUTES.
GoesIdle(s) ==
  /\ log[s] = "fresh" /\ log' = [log EXCEPT ![s] = "idle"]
  /\ UNCHANGED <<user, twoFactor, drawn, holds, challenged, req, history>>

\* AuthService.refresh keeps the session the row names.  The stored hash is a
\* bcryptjs hash, made from a token's first 72 bytes: its header and part of
\* the user's id.  So any refresh token of this user matches while one is
\* stored, and none after it was set to null.
Refresh(r, d) ==
  /\ holds[d] # 0 /\ user.refresh
  /\ Admit(r, [op |-> "refresh", device |-> d, sid |-> user.sid, at |-> "rotate"])
  /\ UNCHANGED <<user, twoFactor, log, drawn, holds, challenged, history>>

\* A slip: a refresh draws a session id of its own.
RotateAnew(r) ==
  /\ At(r, "rotate")
  /\ drawn < MaxSessions /\ drawn' = drawn + 1
  /\ Stores(drawn + 1)
  /\ holds' = [holds EXCEPT ![req[r].device] = drawn + 1]
  /\ Ends(r)
  /\ UNCHANGED <<twoFactor, log, challenged, revoked, crashes>>

\* It writes back what it read, however long ago, and the device gets tokens.
Rotate(r) ==
  /\ At(r, "rotate")
  /\ Stores(req[r].sid)
  /\ holds' = [holds EXCEPT ![req[r].device] = req[r].sid]
  /\ Ends(r)
  /\ UNCHANGED <<twoFactor, log, drawn, challenged, revoked, crashes>>

\* Revoked: the client drops its tokens and asks for a login.
RefreshRefused(d) ==
  /\ "refresh" \in Ops /\ holds[d] # 0 /\ ~user.refresh
  /\ holds' = [holds EXCEPT ![d] = 0]
  /\ UNCHANGED <<user, twoFactor, log, drawn, challenged, req, history>>

\* setupTwoFactor stores a new secret and switches the second factor off until
\* enableTwoFactor has seen a code of it; disableTwoFactor switches it off.
ChangeTwoFactor(d) ==
  /\ "twoFactor" \in Ops /\ Accepted(d)
  /\ twoFactor' \in BOOLEAN
  /\ UNCHANGED <<user, log, drawn, holds, challenged, req, history>>

-----------------------------------------------------------------------------
(***************************************************************************)
(* The end of a session.                                                   *)
(***************************************************************************)
\* AuthService.logout, let through by the JWT guard; the client drops its
\* tokens without waiting.
Logout(r, d) ==
  /\ Accepted(d)
  /\ Admit(r, [op |-> "logout", device |-> d, sid |-> holds[d], at |-> "end"])
  /\ holds' = [holds EXCEPT ![d] = 0]
  /\ UNCHANGED <<user, twoFactor, log, drawn, challenged, history>>

\* SessionsService.forceLogout and clear, by an admin.
ForceLogout(r, s) ==
  /\ log[s] # "none"
  /\ \E op \in {"forceLogout", "clear"} :
       Admit(r, [op |-> op, device |-> NoDevice, sid |-> s, at |-> "end"])
  /\ UNCHANGED <<user, twoFactor, log, drawn, holds, challenged, history>>

EndLog(r) ==
  /\ At(r, "end")
  /\ log' = [log EXCEPT ![req[r].sid] = IF @ = "none" THEN "none" ELSE "ended"]
  /\ Goes(r, IF req[r].op = "logout" THEN "forget" ELSE "match")
  /\ UNCHANGED <<user, twoFactor, drawn, holds, challenged, history>>

\* A logout clears the user's row whatever session it names by now.
Forget(r) ==
  /\ At(r, "forget")
  /\ user' = SignedOut
  /\ Revokes(req[r].sid)
  /\ Ends(r)
  /\ UNCHANGED <<twoFactor, log, drawn, holds, challenged, crashes>>

\* A slip: the admin's logout clears the user's row unconditionally as well.
MatchAny(r) ==
  /\ At(r, "match")
  /\ user' = SignedOut
  /\ Revokes(req[r].sid)
  /\ IF req[r].op = "clear" THEN Goes(r, "delete") ELSE Ends(r)
  /\ UNCHANGED <<twoFactor, log, drawn, holds, challenged, crashes>>

\* A slip: the admin's logout ends the log entry and leaves the user's row.
MatchNone(r) ==
  /\ At(r, "match")
  /\ Revokes(req[r].sid)
  /\ IF req[r].op = "clear" THEN Goes(r, "delete") ELSE Ends(r)
  /\ UNCHANGED <<user, twoFactor, log, drawn, holds, challenged, crashes>>

\* An admin's only where it still names this one.
Match(r) ==
  /\ At(r, "match")
  /\ user' = IF user.sid = req[r].sid THEN SignedOut ELSE user
  /\ Revokes(req[r].sid)
  /\ IF req[r].op = "clear" THEN Goes(r, "delete") ELSE Ends(r)
  /\ UNCHANGED <<twoFactor, log, drawn, holds, challenged, crashes>>

DeleteLog(r) ==
  /\ At(r, "delete")
  /\ log' = [log EXCEPT ![req[r].sid] = "none"]
  /\ Ends(r)
  /\ UNCHANGED <<user, twoFactor, drawn, holds, challenged, history>>

\* resetPassword, or an admin's new password: one statement, "so the user must
\* log in fresh"; the log entry stays.
ResetPassword ==
  /\ "reset" \in Ops
  /\ user' = SignedOut /\ Revokes(user.sid)
  /\ UNCHANGED <<twoFactor, log, drawn, holds, challenged, req, crashes>>

\* The process dies with the requests in flight.
Crash ==
  /\ "crash" \in Ops /\ crashes < MaxCrashes
  /\ \E r \in Requests : req[r] # Idle
  /\ req' = [r \in Requests |-> Idle]
  /\ torn' = torn \cup {req[r].sid : r \in {o \in Requests : req[o].sid # 0}}
  /\ crashes' = crashes + 1
  /\ UNCHANGED <<user, twoFactor, log, drawn, holds, challenged, revoked>>

-----------------------------------------------------------------------------
Admission(r) ==
  \/ \E d \in Devices :
       \/ Login(r, d)
       \/ VerifyTwoFactor(r, d)
       \/ Refresh(r, d)
       \/ Logout(r, d)
  \/ \E s \in Sids : ForceLogout(r, s)

Proceed(r) ==
  \/ StoreSession(r)
  \/ StartLog(r)
  \/ Rotate(r)
  \/ EndLog(r)
  \/ Forget(r)
  \/ Match(r)
  \/ DeleteLog(r)

Next ==
  \/ \E r \in Requests : Admission(r) \/ Proceed(r)
  \/ \E d \in Devices :
       \/ Use(d)
       \/ RefreshRefused(d)
       \/ ChallengeExpires(d)
       \/ ChangeTwoFactor(d)
  \/ \E s \in Sids : GoesIdle(s)
  \/ ResetPassword
  \/ Crash

Spec == Init /\ [][Next]_vars

-----------------------------------------------------------------------------
(***************************************************************************)
(* Properties.                                                             *)
(***************************************************************************)
\* A session that was logged out, forced out, cleared or reset never comes
\* back, unless a refresh or login of that very session was under way.
RevokedStaysOut ==
  \A s \in revoked \ torn : user.sid # s

\* Requests that write session s, or the log entry of s.
Busy(s) == \E r \in Requests : req[r].sid = s

\* The session a device works with is in the log as not ended, so an admin
\* sees it and can end it, unless it is being changed or was cut short.
LiveIsListed ==
  \A s \in Sids :
    user.sid = s /\ ~Busy(s) /\ s \notin torn => log[s] \in {"fresh", "idle"}

\* Nobody is signed out by the end of another session: a live session goes by
\* its own end, by a reset or by a newer login, unless a logout was already
\* under way as it was stored.
OwnEndOnly ==
  [][\A s \in Sids :
       user.sid = s /\ user'.sid = 0 /\ s \notin torn => s \in revoked']_vars
=============================================================================
