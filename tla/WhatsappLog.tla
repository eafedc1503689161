---------------------------- MODULE WhatsappLog ----------------------------
(***************************************************************************)
(* WhatsApp messages and their log.  A message is a job, its guest's phone *)
(* and a template; a new job, an assigned driver or the minute timer of    *)
(* any pod triggers it.  sendWhatsappForJob looks for a SENT entry, asks   *)
(* Twilio to send, and writes the entry afterwards.                        *)
(***************************************************************************)
EXTENDS Naturals

CONSTANTS
  Pods,
  Messages,
  NoMessage,
  MaxSent      \* bound: a message Twilio has taken as often is not triggered again

VARIABLES
  entry,       \* whatsapp_notification_logs, unique per message
  sending,     \* the message each pod is sending
  taken,       \* times Twilio has taken each message
  doubtful     \* history: messages sent by two pods at once, or whose outcome
               \* did not reach the log

NotSending == [message |-> NoMessage, at |-> "idle"]

MessageTypeOK ==
  /\ entry \in [Messages -> {"none", "SENT", "FAILED"}]
  /\ sending \in [Pods -> [message: Messages \cup {NoMessage},
                           at: {"idle", "send", "sent", "failed"}]]
  /\ taken \in [Messages -> Nat]
  /\ doubtful \subseteq Messages

MessageInit ==
  /\ entry = [m \in Messages |-> "none"] /\ sending = [p \in Pods |-> NotSending]
  /\ taken = [m \in Messages |-> 0] /\ doubtful = {}

-----------------------------------------------------------------------------
Goes(p, at) == sending' = [sending EXCEPT ![p].at = at]

\* A slip: no look at the log.
TriggerAlways(p, m) ==
  /\ sending[p] = NotSending /\ taken[m] < MaxSent
  /\ sending' = [sending EXCEPT ![p] = [message |-> m, at |-> "send"]]
  /\ doubtful' = IF \E o \in Pods : sending[o].message = m
                 THEN doubtful \cup {m} ELSE doubtful
  /\ UNCHANGED <<entry, taken>>

\* triggerJobCreated, triggerDriverAssigned or handleCron, for a message that
\* has no SENT entry.
Trigger(p, m) ==
  /\ sending[p] = NotSending /\ entry[m] # "SENT" /\ taken[m] < MaxSent
  /\ sending' = [sending EXCEPT ![p] = [message |-> m, at |-> "send"]]
  /\ doubtful' = IF \E o \in Pods : sending[o].message = m
                 THEN doubtful \cup {m} ELSE doubtful
  /\ UNCHANGED <<entry, taken>>

\* messages.create: Twilio takes the message, refuses it, or takes it and its
\* answer is lost.
Send(p) ==
  LET m == sending[p].message IN
  /\ sending[p].at = "send"
  /\ \/ /\ Goes(p, "sent") /\ taken' = [taken EXCEPT ![m] = @ + 1]
        /\ UNCHANGED doubtful
     \/ /\ Goes(p, "failed") /\ UNCHANGED <<taken, doubtful>>
     \/ /\ Goes(p, "failed") /\ taken' = [taken EXCEPT ![m] = @ + 1]
        /\ doubtful' = doubtful \cup {m}
  /\ UNCHANGED entry

\* The entry is created or overwritten; if that fails, the catch writes FAILED.
LogSent(p) ==
  LET m == sending[p].message IN
  /\ sending[p].at = "sent"
  /\ \/ /\ entry' = [entry EXCEPT ![m] = "SENT"]
        /\ sending' = [sending EXCEPT ![p] = NotSending] /\ UNCHANGED doubtful
     \/ /\ Goes(p, "failed") /\ doubtful' = doubtful \cup {m} /\ UNCHANGED entry
  /\ UNCHANGED taken

\* A slip: a failure is an entry like any other.
LogAnyway(p) ==
  /\ sending[p].at = "failed"
  /\ entry' = [entry EXCEPT ![sending[p].message] = "SENT"]
  /\ sending' = [sending EXCEPT ![p] = NotSending]
  /\ UNCHANGED <<taken, doubtful>>

\* FAILED overwrites as well; if it cannot be written nothing is.
LogFailed(p) ==
  /\ sending[p].at = "failed"
  /\ \/ entry' = [entry EXCEPT ![sending[p].message] = "FAILED"]
     \/ UNCHANGED entry
  /\ sending' = [sending EXCEPT ![p] = NotSending]
  /\ UNCHANGED <<taken, doubtful>>

MessageDies(p) ==
  /\ doubtful' = IF sending[p].at = "sent" THEN doubtful \cup {sending[p].message}
                 ELSE doubtful
  /\ sending' = [sending EXCEPT ![p] = NotSending]
  /\ UNCHANGED <<entry, taken>>

MessageStep(p) ==
  \/ \E m \in Messages : Trigger(p, m)
  \/ Send(p)
  \/ LogSent(p)
  \/ LogFailed(p)

-----------------------------------------------------------------------------
\* A guest gets a message once, unless two pods sent it at the same time or the
\* outcome of a sending was lost between Twilio and the log.
SentOnce == \A m \in Messages \ doubtful : taken[m] <= 1

\* However sendings overlap and fail, an entry says SENT only if the guest has
\* the message.
SentIsTrue == \A m \in Messages : entry[m] = "SENT" => taken[m] > 0
=============================================================================
