--------------------------- MODULE PaymentLedger ---------------------------
(***************************************************************************)
(* What guests and finance may rely on when bookings are paid online,      *)
(* without requests, retries or crashes: a leg reads PAID only because     *)
(* money was captured for it, and stops reading PAID only because another  *)
(* session for it was refused.                                             *)
(***************************************************************************)
CONSTANTS
  Legs,        \* the bookings: the two legs of a return trip, or two guests'
  Sessions,    \* hosted checkout sessions
  Reliable     \* those of a gateway that repeats a result until answered

VARIABLES
  covers,      \* the legs each session pays for; none before it is opened
  captured,    \* sessions whose money the gateway has taken
  refused,     \* sessions the gateway has refused
  paid         \* legs that read PAID

ledger == <<covers, captured, refused, paid>>

Init ==
  /\ covers = [s \in Sessions |-> {}]
  /\ captured = {} /\ refused = {} /\ paid = {}

Open(s, L) ==
  /\ covers[s] = {} /\ L # {}
  /\ covers' = [covers EXCEPT ![s] = L]
  /\ UNCHANGED <<captured, refused, paid>>

Capture(s) ==
  /\ covers[s] # {} /\ s \notin captured \cup refused
  /\ captured' = captured \cup {s}
  /\ UNCHANGED <<covers, refused, paid>>

Refuse(s) ==
  /\ covers[s] # {} /\ s \notin captured \cup refused \cup Reliable
  /\ refused' = refused \cup {s}
  /\ UNCHANGED <<covers, captured, paid>>

\* A capture reaches some of the legs it pays for.
Settle(s, L) ==
  /\ s \in captured /\ L \subseteq covers[s]
  /\ paid' = paid \cup L
  /\ UNCHANGED <<covers, captured, refused>>

\* A refusal reaches legs that another session has paid.
Undo(s, L) ==
  /\ s \in refused /\ L \subseteq covers[s]
  /\ paid' = paid \ L
  /\ UNCHANGED <<covers, captured, refused>>

Next ==
  \E s \in Sessions :
    \/ Capture(s)
    \/ Refuse(s)
    \/ \E L \in SUBSET Legs : Open(s, L) \/ Settle(s, L) \/ Undo(s, L)

Spec == Init /\ [][Next]_ledger

\* Money a reliable gateway took shows on every leg it pays for, unless a
\* refused session pays for one of them too.
CapturesSettle ==
  \A s \in Reliable :
    s \in captured ~>
      \/ covers[s] \subseteq paid
      \/ \E f \in refused : covers[f] \cap covers[s] # {}
=============================================================================
