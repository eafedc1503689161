--------------------------- MODULE ReplicasProofs ---------------------------
(***************************************************************************)
(* The pods for every number of pods, legs, messages and faults: one       *)
(* closing of each leg, one sending of each message, and a true log.       *)
(***************************************************************************)
EXTENDS Replicas, TLAPS

\* A pod that has got the night's claim and is at work.
AtWork(p) == night[p].at \in {"list", "walk"}

\* One pod is at work, on legs that are open, and only under a claim.
OneAtWork ==
  /\ \A p \in Pods : AtWork(p) => claimed
  /\ \A p, q \in Pods : AtWork(p) /\ AtWork(q) => p = q

OpenTodo ==
  \A p \in Pods :
    /\ night[p].at # "walk" => night[p].todo = {}
    /\ \A l \in night[p].todo : leg[l] # "closed"

\* A leg that the system has closed is not open again.
Counted ==
  \A l \in Legs : closings[l] = 0 \/ (leg[l] = "closed" /\ closings[l] = 1)

NightInv == NightTypeOK /\ OneAtWork /\ OpenTodo /\ Counted

\* A pod that works on a message has one, and one that is to log SENT has sent it.
Carries ==
  \A p \in Pods :
    /\ sending[p].at # "idle" => sending[p].message \in Messages
    /\ sending[p].at = "sent" => taken[sending[p].message] > 0

\* What is known of a message that no doubt has fallen on: one pod works on it,
\* and if Twilio has taken it the log says so, or this pod is about to.
Known(m) ==
  /\ \A p, q \in Pods : sending[p].message = m /\ sending[q].message = m => p = q
  /\ \A p \in Pods :
       sending[p].message = m /\ sending[p].at \in {"send", "failed"} => taken[m] = 0
  /\ taken[m] = 0
     \/ /\ taken[m] = 1
        /\ \/ entry[m] = "SENT"
           \/ \E p \in Pods : sending[p].message = m /\ sending[p].at = "sent"

MessageInv ==
  /\ MessageTypeOK /\ Carries /\ SentIsTrue
  /\ \A m \in Messages \ doubtful : Known(m)

IInv == NightInv /\ MessageInv /\ faults \in Nat

-----------------------------------------------------------------------------
(***************************************************************************)
(* The night.                                                              *)
(***************************************************************************)
LEMMA MidnightKeeps ==
  ASSUME NightInv, Midnight
  PROVE  NightInv'
<1>1. \A p \in Pods : night'[p] = [at |-> "claim", todo |-> {}]
  BY DEF Midnight, NoRun
<1>2. \A l \in Legs : leg'[l] = "closed" <=> leg[l] = "closed"
  BY DEF NightInv, NightTypeOK, Midnight
<1>3. NightTypeOK'
  BY <1>1 DEF NightInv, NightTypeOK, Midnight, NoRun
<1>4. OneAtWork' /\ OpenTodo'
  BY <1>1 DEF OneAtWork, OpenTodo, AtWork
<1>5. Counted'
  BY <1>2 DEF NightInv, Counted, Midnight
<1>6. QED
  BY <1>3, <1>4, <1>5 DEF NightInv

\* A claim succeeds only while nobody is at work.
LEMMA ClaimKeeps ==
  ASSUME NightInv, NEW p \in Pods, Claim(p)
  PROVE  NightInv'
<1>1. NightTypeOK'
  BY DEF NightInv, NightTypeOK, Claim
<1>2. OneAtWork'
  BY DEF NightInv, NightTypeOK, Claim, OneAtWork, AtWork
<1>3. OpenTodo'
  BY DEF NightInv, NightTypeOK, Claim, OpenTodo
<1>4. Counted'
  BY DEF NightInv, Counted, Claim
<1>5. QED
  BY <1>1, <1>2, <1>3, <1>4 DEF NightInv

\* A pod that is at work goes on with legs that are open, or stops.
LEMMA WalksKeeps ==
  ASSUME NightInv, NEW p \in Pods, AtWork(p), NEW legs \in SUBSET Legs,
         Walks(p, legs), UNCHANGED claimed,
         leg' \in [Legs -> {"future", "yesterday", "earlier", "closed"}],
         \A l \in legs : leg'[l] # "closed"
  PROVE  (night' \in [Pods -> [at: {"idle", "claim", "list", "walk"}, todo: SUBSET Legs]])
         /\ OneAtWork' /\ OpenTodo'
<1>1. /\ \A q \in Pods \ {p} : night'[q] = night[q]
      /\ night'[p] = IF legs = {} THEN NoRun ELSE [at |-> "walk", todo |-> legs]
  BY DEF NightInv, NightTypeOK, Walks
<1>2. night' \in [Pods -> [at: {"idle", "claim", "list", "walk"}, todo: SUBSET Legs]]
  BY DEF NightInv, NightTypeOK, Walks, NoRun
<1>3. OneAtWork'
  BY <1>1 DEF NightInv, OneAtWork, AtWork, NoRun
<1>4. \A q \in Pods \ {p} : night[q].todo = {}
  BY DEF NightInv, OneAtWork, OpenTodo, AtWork
<1>5. OpenTodo'
  BY <1>1, <1>4 DEF NightInv, OpenTodo, NoRun
<1>6. QED
  BY <1>2, <1>3, <1>5

LEMMA ListKeeps ==
  ASSUME NightInv, NEW p \in Pods, List(p)
  PROVE  NightInv'
<1>1. AtWork(p)
  BY DEF List, AtWork
<1>2. NightTypeOK' /\ OneAtWork' /\ OpenTodo'
  BY <1>1, WalksKeeps DEF NightInv, NightTypeOK, List
<1>3. Counted'
  BY DEF NightInv, Counted, List
<1>4. QED
  BY <1>2, <1>3 DEF NightInv

\* The leg was open, so this is its first closing.
LEMMA CloseKeeps ==
  ASSUME NightInv, NEW p \in Pods, NEW l \in Legs, Close(p, l)
  PROVE  NightInv'
<1>1. AtWork(p) /\ leg[l] # "closed"
  BY DEF NightInv, OpenTodo, Close, AtWork
<1>2. leg' \in [Legs -> {"future", "yesterday", "earlier", "closed"}]
  BY DEF NightInv, NightTypeOK, Close
<1>3. night[p].todo \ {l} \in SUBSET Legs
  BY DEF NightInv, NightTypeOK
<1>4. \A k \in night[p].todo \ {l} : leg'[k] # "closed"
  BY <1>3 DEF NightInv, NightTypeOK, OpenTodo, Close
<1>5. (night' \in [Pods -> [at: {"idle", "claim", "list", "walk"}, todo: SUBSET Legs]])
      /\ OneAtWork' /\ OpenTodo'
  BY <1>1, <1>2, <1>3, <1>4, WalksKeeps DEF Close
<1>6. /\ closings[l] = 0 /\ \A k \in Legs : closings'[k] = IF k = l THEN 1 ELSE closings[k]
      /\ closings' \in [Legs -> Nat]
  <2>1. closings[l] = 0
    BY <1>1 DEF NightInv, Counted
  <2>2. closings' = [closings EXCEPT ![l] = closings[l] + 1]
    BY DEF Close
  <2>3. QED
    BY <2>1, <2>2 DEF NightInv, NightTypeOK
<1>7. Counted'
  BY <1>6 DEF NightInv, NightTypeOK, Counted, Close
<1>8. NightTypeOK'
  BY <1>2, <1>5, <1>6 DEF NightInv, NightTypeOK, Close
<1>9. QED
  BY <1>5, <1>7, <1>8 DEF NightInv

LEMMA CloseFailsKeeps ==
  ASSUME NightInv, NEW p \in Pods, NEW l \in Legs, CloseFails(p, l)
  PROVE  NightInv'
<1>1. AtWork(p)
  BY DEF CloseFails, AtWork
<1>2. night[p].todo \ {l} \in SUBSET Legs
  BY DEF NightInv, NightTypeOK
<1>3. NightTypeOK' /\ OneAtWork' /\ OpenTodo'
  BY <1>1, <1>2, WalksKeeps DEF NightInv, NightTypeOK, OpenTodo, CloseFails
<1>4. Counted'
  BY DEF NightInv, Counted, CloseFails
<1>5. QED
  BY <1>3, <1>4 DEF NightInv

LEMMA NightDiesKeeps ==
  ASSUME NightInv, NEW p \in Pods, NightDies(p)
  PROVE  NightInv'
<1>1. NightTypeOK'
  BY DEF NightInv, NightTypeOK, NightDies, NoRun
<1>2. OneAtWork'
  BY DEF NightInv, NightTypeOK, NightDies, OneAtWork, AtWork, NoRun
<1>3. OpenTodo'
  BY DEF NightInv, NightTypeOK, NightDies, OpenTodo, NoRun
<1>4. Counted'
  BY DEF NightInv, Counted, NightDies
<1>5. QED
  BY <1>1, <1>2, <1>3, <1>4 DEF NightInv

LEMMA NightRests ==
  ASSUME NightInv, UNCHANGED nightVars
  PROVE  NightInv'
BY DEF NightInv, NightTypeOK, OneAtWork, OpenTodo, Counted, AtWork, nightVars

-----------------------------------------------------------------------------
(***************************************************************************)
(* The messages.                                                           *)
(***************************************************************************)
\* A pod takes up a message: if nobody else works on it and no SENT entry is
\* there, Twilio has not taken it.
LEMMA TriggerKeeps ==
  ASSUME MessageInv, NEW p \in Pods, NEW m \in Messages, Trigger(p, m)
  PROVE  MessageInv'
<1>1. /\ \A q \in Pods \ {p} : sending'[q] = sending[q]
      /\ sending'[p] = [message |-> m, at |-> "send"]
  BY DEF MessageInv, MessageTypeOK, Trigger
<1>2. MessageTypeOK'
  BY DEF MessageInv, MessageTypeOK, Trigger
<1>3. Carries' /\ SentIsTrue'
  BY <1>1 DEF MessageInv, Carries, SentIsTrue, Trigger
<1>4. ASSUME NEW k \in Messages \ doubtful' PROVE Known(k)'
  <2>1. k \notin doubtful /\ Known(k) /\ UNCHANGED <<entry, taken>>
    BY <1>4 DEF MessageInv, Trigger
  <2>2. CASE k = m
    <3>1. \A q \in Pods : sending[q].message # m
      BY <1>4, <2>2 DEF Trigger
    <3>2. taken[m] = 0
      BY <2>1, <2>2, <3>1 DEF Known, Trigger
    <3>3. QED
      BY <1>1, <2>1, <2>2, <3>1, <3>2 DEF Known
  <2>3. CASE k # m
    BY <1>1, <2>1, <2>3, Constants DEF Known, Trigger, NotSending
  <2>4. QED
    BY <2>2, <2>3
<1>5. QED
  BY <1>2, <1>3, <1>4 DEF MessageInv

\* A pod sends its message, or fails to.
LEMMA SendKeeps ==
  ASSUME MessageInv, NEW p \in Pods, Send(p)
  PROVE  MessageInv'
<1> DEFINE m == sending[p].message
<1>1. m \in Messages
  BY DEF MessageInv, Carries, Send
<1>2. PICK at \in {"sent", "failed"} :
        /\ sending' = [sending EXCEPT ![p].at = at]
        /\ at = "sent" => taken' = [taken EXCEPT ![m] = @ + 1]
        /\ at = "sent" \/ UNCHANGED taken \/ m \in doubtful'
        /\ UNCHANGED taken \/ taken' = [taken EXCEPT ![m] = @ + 1]
  BY <1>1 DEF Send, Goes
<1>3. /\ \A q \in Pods \ {p} : sending'[q] = sending[q]
      /\ sending'[p] = [message |-> m, at |-> at]
      /\ sending' \in [Pods -> [message: Messages \cup {NoMessage},
                                at: {"idle", "send", "sent", "failed"}]]
  BY <1>2 DEF MessageInv, MessageTypeOK
<1>4. /\ taken' \in [Messages -> Nat] /\ \A k \in Messages \ {m} : taken'[k] = taken[k]
      /\ taken'[m] \in {taken[m], taken[m] + 1}
      /\ at = "sent" => taken'[m] = taken[m] + 1
  BY <1>1, <1>2 DEF MessageInv, MessageTypeOK
<1>5. UNCHANGED entry /\ doubtful \subseteq doubtful' /\ doubtful' \subseteq Messages
  BY <1>1 DEF MessageInv, MessageTypeOK, Send
<1>6. MessageTypeOK'
  BY <1>3, <1>4, <1>5 DEF MessageInv, MessageTypeOK
<1>7. \A k \in Messages : taken[k] \in Nat /\ taken'[k] \in Nat /\ taken'[k] >= taken[k]
  BY <1>4 DEF MessageInv, MessageTypeOK
<1>8. Carries' /\ SentIsTrue'
  BY <1>1, <1>3, <1>4, <1>5, <1>7 DEF MessageInv, Carries, SentIsTrue
<1>9. ASSUME NEW k \in Messages \ doubtful' PROVE Known(k)'
  <2>1. Known(k)
    BY <1>5, <1>9 DEF MessageInv
  <2>2. CASE k = m
    <3>1. taken[m] = 0 /\ \A q \in Pods : sending[q].message = m => q = p
      BY <2>1, <2>2 DEF Known, Send
    <3>2. at = "sent" \/ taken'[m] = 0
      BY <1>2, <1>9, <2>2, <3>1
    <3>3. QED
      BY <1>3, <1>4, <2>2, <3>1, <3>2 DEF Known
  <2>3. CASE k # m
    BY <1>3, <1>4, <1>5, <2>1, <2>3 DEF Known
  <2>4. QED
    BY <2>2, <2>3
<1>10. QED
  BY <1>6, <1>8, <1>9 DEF MessageInv

\* It logs what happened, or does not get that far.
LEMMA LogSentKeeps ==
  ASSUME MessageInv, NEW p \in Pods, LogSent(p)
  PROVE  MessageInv'
<1> DEFINE m == sending[p].message
<1>1. m \in Messages /\ taken[m] > 0
  BY DEF MessageInv, Carries, LogSent
<1>2. /\ \A q \in Pods \ {p} : sending'[q] = sending[q]
      /\ \/ sending'[p] = NotSending /\ UNCHANGED doubtful
            /\ entry' = [entry EXCEPT ![m] = "SENT"]
         \/ sending'[p] = [message |-> m, at |-> "failed"] /\ m \in doubtful'
            /\ UNCHANGED entry
      /\ MessageTypeOK'
  BY <1>1 DEF MessageInv, MessageTypeOK, LogSent, Goes, NotSending
<1>3. UNCHANGED taken /\ doubtful \subseteq doubtful'
  BY DEF LogSent
<1>4. Carries' /\ SentIsTrue'
  BY <1>1, <1>2, <1>3 DEF MessageInv, MessageTypeOK, Carries, SentIsTrue, NotSending
<1>5. ASSUME NEW k \in Messages \ doubtful' PROVE Known(k)'
  <2>1. Known(k)
    BY <1>3, <1>5 DEF MessageInv
  <2>2. CASE k = m
    <3>1. \A q \in Pods : sending[q].message = m => q = p
      BY <2>1, <2>2 DEF Known
    <3>2. sending'[p] = NotSending /\ entry'[m] = "SENT"
      BY <1>1, <1>2, <1>5, <2>2 DEF MessageInv, MessageTypeOK
    <3>3. taken[m] = 1
      BY <1>1, <2>1, <2>2 DEF Known
    <3>4. QED
      BY <1>1, <1>2, <1>3, <2>2, <3>1, <3>2, <3>3, Constants DEF Known, NotSending
  <2>3. CASE k # m
    BY <1>1, <1>2, <1>3, <1>5, <2>1, <2>3, Constants
       DEF MessageInv, MessageTypeOK, Known, NotSending
  <2>4. QED
    BY <2>2, <2>3
<1>6. QED
  BY <1>2, <1>4, <1>5 DEF MessageInv

LEMMA LogFailedKeeps ==
  ASSUME MessageInv, NEW p \in Pods, LogFailed(p)
  PROVE  MessageInv'
<1> DEFINE m == sending[p].message
<1>1. m \in Messages
  BY DEF MessageInv, Carries, LogFailed
<1>2. /\ \A q \in Pods \ {p} : sending'[q] = sending[q]
      /\ sending'[p] = NotSending
      /\ \A k \in Messages \ {m} : entry'[k] = entry[k]
      /\ entry'[m] \in {entry[m], "FAILED"}
      /\ MessageTypeOK'
  BY <1>1 DEF MessageInv, MessageTypeOK, LogFailed, NotSending
<1>3. UNCHANGED <<taken, doubtful>>
  BY DEF LogFailed
<1>4. Carries' /\ SentIsTrue'
  BY <1>1, <1>2, <1>3 DEF MessageInv, Carries, SentIsTrue, NotSending
<1>5. ASSUME NEW k \in Messages \ doubtful' PROVE Known(k)'
  <2>1. Known(k)
    BY <1>3, <1>5 DEF MessageInv
  <2>2. CASE k = m
    <3>1. taken[m] = 0
      BY <2>1, <2>2 DEF Known, LogFailed
    <3>2. QED
      BY <1>1, <1>2, <1>3, <2>1, <2>2, <3>1, Constants DEF Known, NotSending
  <2>3. CASE k # m
    BY <1>2, <1>3, <2>1, <2>3, Constants DEF Known, NotSending
  <2>4. QED
    BY <2>2, <2>3
<1>6. QED
  BY <1>2, <1>4, <1>5 DEF MessageInv

\* What dies between Twilio and the log leaves a doubt.
LEMMA MessageDiesKeeps ==
  ASSUME MessageInv, NEW p \in Pods, MessageDies(p)
  PROVE  MessageInv'
<1>1. /\ \A q \in Pods \ {p} : sending'[q] = sending[q]
      /\ sending'[p] = NotSending /\ UNCHANGED <<entry, taken>>
      /\ doubtful \subseteq doubtful'
      /\ sending[p].at = "sent" => sending[p].message \in doubtful'
  BY DEF MessageInv, MessageTypeOK, MessageDies
<1>2. MessageTypeOK'
  BY DEF MessageInv, MessageTypeOK, MessageDies, NotSending, Carries
<1>3. Carries' /\ SentIsTrue'
  BY <1>1 DEF MessageInv, Carries, SentIsTrue, NotSending
<1>4. ASSUME NEW k \in Messages \ doubtful' PROVE Known(k)'
  <2>1. Known(k)
    BY <1>1, <1>4 DEF MessageInv
  <2>2. QED
    BY <1>1, <1>4, <2>1, Constants DEF Known, NotSending
<1>5. QED
  BY <1>2, <1>3, <1>4 DEF MessageInv

LEMMA MessagesRest ==
  ASSUME MessageInv, UNCHANGED messages
  PROVE  MessageInv'
BY DEF MessageInv, MessageTypeOK, Carries, SentIsTrue, Known, messages

-----------------------------------------------------------------------------
LEMMA InitIInv == Init => IInv
<1> SUFFICES ASSUME Init PROVE IInv
  OBVIOUS
<1>1. NightInv
  BY DEF Init, NightInit, NightInv, NightTypeOK, OneAtWork, OpenTodo, Counted,
         AtWork, NoRun
<1>2. MessageInv
  BY Constants DEF Init, MessageInit, MessageInv, MessageTypeOK, Carries,
                   SentIsTrue, Known, NotSending
<1>3. QED
  BY <1>1, <1>2 DEF Init, IInv

LEMMA NextIInv == IInv /\ [Next]_vars => IInv'
<1> SUFFICES ASSUME IInv, [Next]_vars PROVE IInv'
  OBVIOUS
<1>1. CASE Timer
  BY <1>1, MidnightKeeps, MessagesRest DEF Timer, IInv
<1>2. ASSUME NEW p \in Pods, NightWork(p) PROVE IInv'
  BY <1>2, ClaimKeeps, ListKeeps, CloseKeeps, MessagesRest
     DEF NightWork, NightStep, IInv
<1>3. ASSUME NEW p \in Pods, MessageWork(p) PROVE IInv'
  BY <1>3, NightRests, TriggerKeeps, SendKeeps, LogSentKeeps, LogFailedKeeps
     DEF MessageWork, MessageStep, IInv
<1>4. ASSUME NEW p \in Pods, Fault(p) PROVE IInv'
  BY <1>4, NightDiesKeeps, MessageDiesKeeps, CloseFailsKeeps, MessagesRest
     DEF Fault, IInv
<1>5. CASE UNCHANGED vars
  BY <1>5, NightRests, MessagesRest DEF vars, IInv
<1>6. QED
  BY <1>1, <1>2, <1>3, <1>4, <1>5 DEF Next

\* Every reachable state satisfies the inductive invariant.
THEOREM Inductive == Spec => []IInv
<1>1. Init => IInv
  BY InitIInv
<1>2. IInv /\ [Next]_vars => IInv'
  BY NextIInv
<1>3. QED
  BY <1>1, <1>2, PTL DEF Spec

\* However many pods fire at midnight, fail and die: the system closes a leg at
\* most once.
THEOREM ClosesOnce == Spec => []ClosedOnce
<1>1. IInv => ClosedOnce
  BY DEF IInv, NightInv, Counted, ClosedOnce
<1>2. QED
  BY <1>1, Inductive, PTL

\* However many pods send: a guest has a message once, unless two pods sent it
\* at the same time or its outcome was lost.
THEOREM SendsOnce == Spec => []SentOnce
<1>1. IInv => SentOnce
  BY DEF IInv, MessageInv, Known, SentOnce
<1>2. QED
  BY <1>1, Inductive, PTL

\* The log never says SENT of a message that Twilio has not taken.
THEOREM LogIsTrue == Spec => []SentIsTrue
<1>1. IInv => SentIsTrue
  BY DEF IInv, MessageInv
<1>2. QED
  BY <1>1, Inductive, PTL
=============================================================================
