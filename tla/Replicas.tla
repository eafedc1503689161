------------------------------ MODULE Replicas ------------------------------
(***************************************************************************)
(* The pods of the backend with what their timers do: the midnight run and *)
(* the messages.  A pod that dies takes both with it.                      *)
(***************************************************************************)
EXTENDS SupplierNight

CONSTANTS
  Messages, NoMessage, MaxSent,
  MaxFaults   \* bound: times a pod dies or a leg's transaction fails

ASSUME Constants ==
  /\ NoMessage \notin Messages
  /\ {MaxSent, MaxFaults} \subseteq Nat

VARIABLES
  entry, sending, taken, doubtful,
  faults      \* history: times a pod died or a leg's transaction failed

INSTANCE WhatsappLog   \* with the pods of SupplierNight

messages == <<entry, sending, taken, doubtful>>

vars == <<nightVars, messages, faults>>

TypeOK == NightTypeOK /\ MessageTypeOK /\ faults \in Nat

Init == NightInit /\ MessageInit /\ faults = 0

Timer == Midnight /\ UNCHANGED <<messages, faults>>

NightWork(p) == NightStep(p) /\ UNCHANGED <<messages, faults>>

MessageWork(p) == MessageStep(p) /\ UNCHANGED <<nightVars, faults>>

Fault(p) ==
  /\ faults < MaxFaults /\ faults' = faults + 1
  /\ \/ NightDies(p) /\ MessageDies(p)
     \/ \E l \in Legs : CloseFails(p, l) /\ UNCHANGED messages

Next ==
  \/ Timer
  \/ \E p \in Pods : NightWork(p) \/ MessageWork(p) \/ Fault(p)

\* Midnights come, a pod that lives carries its run on, and faults are few;
\* nothing is assumed of the messages.
Spec ==
  /\ Init /\ [][Next]_vars
  /\ WF_vars(Timer)
  /\ \A p \in Pods : WF_vars(NightWork(p))
=============================================================================
