----------------------- MODULE AuditDispatcherProofs ------------------------
(***************************************************************************)
(* Proofs about AuditDispatcher for any number of requests, any queue size *)
(* and any number of sinks: types, the stop sequence, that a clean stop    *)
(* loses no event, that the counters agree, and that the dispatcher        *)
(* implements AuditTrail.                                                  *)
(***************************************************************************)
EXTENDS AuditDispatcher, SequenceTheorems, FiniteSetTheorems, TLAPS

(* Elements of the sequences the dispatcher builds. *)
LEMMA ElementsOfAppend ==
  ASSUME NEW S, NEW s \in Seq(S), NEW e \in S
  PROVE  /\ Append(s, e) \in Seq(S)
         /\ Len(Append(s, e)) = Len(s) + 1
         /\ Elements(Append(s, e)) = Elements(s) \cup {e}
<1>1. /\ Append(s, e) \in Seq(S)
      /\ Len(Append(s, e)) = Len(s) + 1
      /\ \A i \in 1 .. Len(s) : Append(s, e)[i] = s[i]
      /\ Append(s, e)[Len(s) + 1] = e
  OBVIOUS
<1>2. DOMAIN Append(s, e) = (DOMAIN s) \cup {Len(s) + 1}
  OBVIOUS
<1> QED
  BY <1>1, <1>2 DEF Elements

LEMMA ElementsOfTail ==
  ASSUME NEW S, NEW s \in Seq(S), s # <<>>
  PROVE  /\ Head(s) \in S
         /\ Tail(s) \in Seq(S)
         /\ Len(Tail(s)) = Len(s) - 1
         /\ Elements(s) = {Head(s)} \cup Elements(Tail(s))
<1>1. /\ Head(s) \in S /\ Head(s) = s[1]
      /\ Tail(s) \in Seq(S)
      /\ Len(Tail(s)) = Len(s) - 1
      /\ Len(s) \in Nat /\ Len(s) >= 1
      /\ \A i \in 1 .. (Len(s) - 1) : Tail(s)[i] = s[i + 1]
  OBVIOUS
<1>2. ASSUME NEW i \in DOMAIN s PROVE s[i] \in {Head(s)} \cup Elements(Tail(s))
  <2>1. CASE i = 1
    BY <1>1, <2>1
  <2>2. CASE i # 1
    <3>1. i - 1 \in 1 .. (Len(s) - 1) /\ (i - 1) + 1 = i
      BY <1>1, <2>2
    <3>2. i - 1 \in DOMAIN Tail(s) /\ Tail(s)[i - 1] = s[i]
      BY <1>1, <3>1
    <3> QED
      BY <3>2 DEF Elements
  <2> QED
    BY <2>1, <2>2
<1>3. ASSUME NEW i \in DOMAIN Tail(s) PROVE Tail(s)[i] \in Elements(s)
  <2>1. i + 1 \in DOMAIN s /\ Tail(s)[i] = s[i + 1]
    BY <1>1
  <2> QED
    BY <2>1 DEF Elements
<1>4. Head(s) \in Elements(s)
  BY <1>1 DEF Elements
<1> QED
  BY <1>1, <1>2, <1>3, <1>4 DEF Elements

LEMMA ElementsOfHand ==
  ASSUME TypeOK
  PROVE  /\ Hand \in Seq(Requests)
         /\ Len(Hand) <= 1 /\ Len(Hand) \in Nat
         /\ Elements(Hand) = IF event = NoEvent THEN {}
                                                       ELSE {event}
<1>1. event \in Requests \cup {NoEvent}
  BY DEF TypeOK
<1>2. Elements(<<>>) = {}
  BY DEF Elements
<1>3. \A e : Elements(<<e>>) = {e}
  BY DEF Elements
<1> QED
  BY <1>1, <1>2, <1>3 DEF Hand

-----------------------------------------------------------------------------
LEMMA TypeInit == Init => TypeOK
<1> SUFFICES ASSUME Init PROVE TypeOK
  OBVIOUS
<1>1. queue \in Seq(Requests) /\ Len(queue) <= QueueSize
  BY DispatcherAssumption DEF Init
<1>2. output \in [Sinks -> Seq(Requests)] /\ delivered \in Seq(Requests)
  BY DEF Init
<1>3. /\ handler \in [Requests -> {"idle", "active", "logging", "warning",
                                  "done"}]
      /\ metrics \in [Counters -> Nat]
      /\ event \in Requests \cup {NoEvent}
      /\ sink \in 1 .. (NumSinks + 1)
  BY DispatcherAssumption DEF Init
<1> QED
  BY <1>1, <1>2, <1>3 DEF Init, TypeOK

(* Every step keeps the types and the capacity of the queue. *)
LEMMA TypeStep == TypeOK /\ [Next]_vars => TypeOK'
<1> SUFFICES ASSUME TypeOK, [Next]_vars PROVE TypeOK'
  OBVIOUS
<1> USE DispatcherAssumption DEF TypeOK
<1>1. ASSUME NEW r \in Requests, Arrive(r) \/ FinishUnlogged(r) \/ Warn(r)
      PROVE  TypeOK'
  BY <1>1 DEF Arrive, FinishUnlogged, Warn, historyVars, mainVars, workerVars
<1>2. ASSUME NEW r \in Requests, NEW class \in {"blocked", "allowed"},
             LogCount(r, class)
      PROVE  TypeOK'
  BY <1>2 DEF LogCount, historyVars, mainVars, workerVars, Counters
<1>3. ASSUME NEW r \in Requests, LogSend(r) PROVE TypeOK'
  <2>1. queue' \in Seq(Requests) /\ Len(queue') <= QueueSize
    <3>1. CASE queue' = queue
      BY <3>1
    <3>2. CASE queue' = Append(queue, r) /\ Len(queue) < QueueSize
      <4>1. Len(queue) \in Nat
        OBVIOUS
      <4> QED
        BY <3>2, <4>1, ElementsOfAppend
    <3> QED
      BY <1>3, <3>1, <3>2 DEF LogSend
  <2>2. metrics' \in [Counters -> Nat]
    BY <1>3 DEF LogSend, Counters
  <2> QED
    BY <1>3, <2>1, <2>2 DEF LogSend, mainVars, workerVars
<1>4. CASE Receive
  <2>1. /\ queue' \in Seq(Requests)
        /\ Len(queue') <= QueueSize
        /\ Head(queue) \in Requests
    BY <1>4, ElementsOfTail DEF Receive
  <2>2. /\ event' \in Requests \cup {NoEvent}
        /\ sink' \in 1 .. (NumSinks + 1)
        /\ sent' \in BOOLEAN
    <3>1. event' \in Requests \cup {NoEvent}
      BY <1>4, <2>1 DEF Receive
    <3>2. sink' = 1
      BY <1>4, <2>1 DEF Receive
    <3>3. sent' = FALSE
      BY <1>4, <2>1, Zenon DEF Receive
    <3>4. sink' \in 1 .. (NumSinks + 1)
      BY <3>2
    <3>5. sent' \in BOOLEAN
      BY <3>3, Zenon
    <3> QED
      BY <3>1, <3>4, <3>5
  <2> QED
    BY <1>4, <2>1, <2>2 DEF Receive, historyVars, mainVars
<1>5. ASSUME NEW ok \in BOOLEAN, WriteSink(ok) PROVE TypeOK'
  <2>1. sink \in Sinks /\ event \in Requests
    BY <1>5 DEF WriteSink, Sinks
  <2>2. output' \in [Sinks -> Seq(Requests)]
    BY <1>5, <2>1, ElementsOfAppend DEF WriteSink
  <2>3. sink' \in 1 .. (NumSinks + 1) /\ sent' \in BOOLEAN
    BY <1>5, <2>1 DEF WriteSink, Sinks
  <2> QED
    BY <1>5, <2>2, <2>3 DEF WriteSink, historyVars, mainVars, workerVars
<1>6. CASE FinishWrite
  <2>1. event \in Requests
    BY <1>6 DEF FinishWrite
  <2>2. delivered' \in Seq(Requests)
    <3>1. Append(delivered, event) \in Seq(Requests)
      BY <2>1, ElementsOfAppend
    <3> QED
      BY <1>6, <3>1 DEF FinishWrite
  <2>3. undelivered' \subseteq Requests
    BY <1>6, <2>1 DEF FinishWrite
  <2>4. metrics' \in [Counters -> Nat]
    BY <1>6 DEF FinishWrite, Counters
  <2>5. /\ event' \in Requests \cup {NoEvent}
        /\ sink' \in 1 .. (NumSinks + 1)
        /\ sent' \in BOOLEAN
    <3>1. event' \in Requests \cup {NoEvent}
      BY <1>6 DEF FinishWrite
    <3>2. sink' = 1
      BY <1>6 DEF FinishWrite
    <3>3. sent' = FALSE
      BY <1>6, Zenon DEF FinishWrite
    <3>4. sink' \in 1 .. (NumSinks + 1)
      BY <3>2
    <3>5. sent' \in BOOLEAN
      BY <3>3, Zenon
    <3> QED
      BY <3>1, <3>4, <3>5
  <2> QED
    BY <1>6, <2>2, <2>3, <2>4, <2>5 DEF FinishWrite, mainVars
<1>7. CASE WorkerExit
  BY <1>7 DEF WorkerExit, historyVars, mainVars, workerVars
<1>8. CASE Signal \/ Expire \/ Stop \/ DrainTimeout \/ Report
  BY <1>8
  DEF Signal, Expire, Stop, DrainPoll, DrainAgain, DrainTimeout, CloseQueue,
      FlushDone, FlushTimeout, Report, MainOnly, workerVars, historyVars
<1>9. CASE UNCHANGED vars
  BY <1>9 DEF vars, historyVars, mainVars, workerVars
<1> QED
  BY <1>1, <1>2, <1>3, <1>4, <1>5, <1>6, <1>7, <1>8, <1>9
  DEF Next, Work, Terminated

(* The types of the dispatcher's state, and with them the capacity of the  *)
(* queue, hold in every reachable state.                                   *)
THEOREM TypeCorrect == Spec => []TypeOK
BY TypeInit, TypeStep, PTL DEF Spec

-----------------------------------------------------------------------------
(* The order of the stop sequence is kept by every step. *)
LEMMA StopStep == TypeOK /\ StopInv /\ [Next]_vars => StopInv'
<1> SUFFICES ASSUME TypeOK, StopInv, [Next]_vars PROVE StopInv'
  OBVIOUS
<1> USE DEF StopInv
<1>1. ASSUME NEW r \in Requests, Arrive(r) \/ FinishUnlogged(r) \/ Warn(r)
      PROVE  StopInv'
  BY <1>1 DEF Arrive, FinishUnlogged, Warn, mainVars, workerVars, TypeOK, Alive
<1>2. ASSUME NEW r \in Requests, NEW class \in {"blocked", "allowed"},
             LogCount(r, class)
      PROVE  StopInv'
  BY <1>2 DEF LogCount, mainVars, workerVars, TypeOK, Alive
<1>3. ASSUME NEW r \in Requests, LogSend(r) PROVE StopInv'
  BY <1>3 DEF LogSend, mainVars, workerVars, TypeOK, Alive
<1>4. CASE Work
  BY <1>4
  DEF Work, Receive, WriteSink, FinishWrite, WorkerExit, mainVars,
      workerVars, Alive, TypeOK
<1>5. CASE Signal \/ Expire \/ Stop \/ DrainTimeout \/ Report
  BY <1>5
  DEF Signal, Expire, Stop, DrainPoll, DrainAgain, DrainTimeout, CloseQueue,
      FlushDone, FlushTimeout, Report, MainOnly, workerVars, Active, Alive,
      TypeOK
<1>6. CASE UNCHANGED vars
  BY <1>6 DEF vars, mainVars, workerVars
<1> QED
  BY <1>1, <1>2, <1>3, <1>4, <1>5, <1>6 DEF Next, Terminated

(* What LogSend does to the queue, given that it never finds it closed. *)
LEMMA LogSendEffect ==
  ASSUME TypeOK, StopInv, NEW r \in Requests, LogSend(r)
  PROVE  /\ UNCHANGED <<event, delivered, undelivered, unlogged>>
         /\ handler[r] = "logging"
         /\ \/ handler' = [handler EXCEPT ![r] = "done"]
            \/ handler' = [handler EXCEPT ![r] = "warning"]
         /\ \/ /\ queue' = Append(queue, r)
               /\ Len(queue) < QueueSize
               /\ dropped' = dropped
            \/ /\ dropped' = dropped \cup {r}
               /\ Len(queue) >= QueueSize
               /\ queue' = queue
<1>1. ~ closed
  BY DEF LogSend, StopInv, Alive
<1> QED
  BY <1>1 DEF LogSend, workerVars

(* The steps that move no event. *)
LEMMA NothingMoves ==
  ASSUME UNCHANGED <<event, queue, delivered, undelivered, dropped>>
  PROVE  Placed' = Placed /\ Hand' = Hand
BY DEF Placed, Hand, Elements

(* Every step moves an event from one place to the next, never loses it.   *)
LEMMA PlaceStep ==
  TypeOK /\ TypeOK' /\ StopInv /\ PlaceInv /\ [Next]_vars => PlaceInv'
<1> SUFFICES ASSUME TypeOK, TypeOK', StopInv, PlaceInv, [Next]_vars
             PROVE  PlaceInv'
  OBVIOUS
<1>1. ASSUME NEW r \in Requests, Arrive(r) PROVE PlaceInv'
  <2>1. Placed' = Placed
    BY <1>1, NothingMoves DEF Arrive, workerVars, historyVars
  <2> QED
    BY <1>1, <2>1 DEF Arrive, PlaceInv, TypeOK, historyVars
<1>2. ASSUME NEW r \in Requests, FinishUnlogged(r) PROVE PlaceInv'
  <2>1. Placed' = Placed
    BY <1>2, NothingMoves DEF FinishUnlogged, workerVars
  <2> QED
    BY <1>2, <2>1 DEF FinishUnlogged, PlaceInv, TypeOK
<1>3. ASSUME NEW r \in Requests, NEW class \in {"blocked", "allowed"},
             LogCount(r, class)
      PROVE  PlaceInv'
  <2>1. Placed' = Placed
    BY <1>3, NothingMoves DEF LogCount, workerVars, historyVars
  <2> QED
    BY <1>3, <2>1 DEF LogCount, PlaceInv, TypeOK, historyVars
<1>4. ASSUME NEW r \in Requests, LogSend(r) PROVE PlaceInv'
  <2>1. Placed' = Placed \cup {r}
    <3>1. Elements(Hand)' = Elements(Hand)
      BY <1>4, LogSendEffect DEF Hand, Elements
    <3>2. Elements(delivered)' = Elements(delivered)
      BY <1>4, LogSendEffect DEF Elements
    <3>3. CASE queue' = Append(queue, r) /\ dropped' = dropped
      <4>1. Elements(queue') = Elements(queue) \cup {r}
        BY <3>3, ElementsOfAppend DEF TypeOK
      <4> QED
        BY <1>4, <3>1, <3>2, <3>3, <4>1, LogSendEffect DEF Placed
    <3>4. CASE queue' = queue /\ dropped' = dropped \cup {r}
      BY <1>4, <3>1, <3>2, <3>4, LogSendEffect DEF Placed
    <3> QED
      BY <1>4, <3>3, <3>4, LogSendEffect
  <2>2. /\ handler[r] = "logging" /\ unlogged' = unlogged
        /\ handler'[r] \in {"warning", "done"}
        /\ \A q \in Requests \ {r} : handler'[q] = handler[q]
    BY <1>4, LogSendEffect DEF TypeOK
  <2> QED
    BY <2>1, <2>2 DEF PlaceInv
<1>5. CASE Receive
  <2>1. Placed' = Placed
    <3>1. Elements(queue) = {Head(queue)} \cup Elements(queue')
      BY <1>5, ElementsOfTail DEF Receive, TypeOK
    <3>2. Elements(Hand) = {}
      BY <1>5, ElementsOfHand DEF Receive
    <3>3. Elements(Hand)' = {Head(queue)}
      <4>1. Head(queue) # NoEvent
        BY <1>5, ElementsOfTail, DispatcherAssumption DEF Receive, TypeOK
      <4>2. Hand' = <<Head(queue)>>
        BY <1>5, <4>1 DEF Receive, Hand
      <4> QED
        BY <4>2 DEF Elements
    <3>4. UNCHANGED <<delivered, undelivered, dropped>>
      BY <1>5 DEF Receive, historyVars
    <3> QED
      BY <3>1, <3>2, <3>3, <3>4 DEF Placed
  <2> QED
    BY <1>5, <2>1 DEF Receive, PlaceInv, historyVars
<1>6. ASSUME NEW ok \in BOOLEAN, WriteSink(ok) PROVE PlaceInv'
  <2>1. Placed' = Placed
    BY <1>6, NothingMoves DEF WriteSink, historyVars
  <2> QED
    BY <1>6, <2>1 DEF WriteSink, PlaceInv, historyVars
<1>7. CASE FinishWrite
  <2>1. Placed' = Placed
    <3>1. Elements(Hand) = {event}
      BY <1>7, ElementsOfHand DEF FinishWrite
    <3>2. Elements(Hand)' = {}
      BY <1>7 DEF FinishWrite, Hand, Elements
    <3>3. Elements(queue)' = Elements(queue) /\ dropped' = dropped
      BY <1>7 DEF FinishWrite, Elements
    <3>4. Elements(delivered') \cup undelivered' =
            Elements(delivered) \cup undelivered \cup {event}
      <4>1. event \in Requests
        BY <1>7 DEF FinishWrite, TypeOK
      <4>2. Elements(Append(delivered, event)) =
              Elements(delivered) \cup {event}
        BY <4>1, ElementsOfAppend DEF TypeOK
      <4> QED
        BY <1>7, <4>2 DEF FinishWrite
    <3> QED
      BY <3>1, <3>2, <3>3, <3>4 DEF Placed
  <2> QED
    BY <1>7, <2>1 DEF FinishWrite, PlaceInv
<1>8. CASE WorkerExit
  <2>1. Placed' = Placed
    BY <1>8, NothingMoves DEF WorkerExit, workerVars, historyVars
  <2> QED
    BY <1>8, <2>1 DEF WorkerExit, PlaceInv, historyVars
<1>9. CASE Signal \/ Expire \/ Stop \/ DrainTimeout \/ Report
  <2>1. MainOnly
    BY <1>9
    DEF Signal, Expire, Stop, DrainPoll, DrainAgain, DrainTimeout,
        CloseQueue, FlushDone, FlushTimeout, Report
  <2>2. Placed' = Placed
    BY <2>1, NothingMoves DEF MainOnly, workerVars, historyVars
  <2> QED
    BY <2>1, <2>2 DEF MainOnly, PlaceInv, historyVars
<1>10. CASE UNCHANGED vars
  <2>1. Placed' = Placed
    BY <1>10, NothingMoves DEF vars, workerVars, historyVars
  <2> QED
    BY <1>10, <2>1 DEF vars, PlaceInv, historyVars
<1>11. ASSUME NEW r \in Requests, Warn(r) PROVE PlaceInv'
  <2>1. Placed' = Placed
    BY <1>11, NothingMoves DEF Warn, workerVars, historyVars
  <2> QED
    BY <1>11, <2>1 DEF Warn, PlaceInv, TypeOK, historyVars
<1> QED
  BY <1>1, <1>2, <1>3, <1>4, <1>5, <1>6, <1>7, <1>8, <1>9, <1>10, <1>11
  DEF Next, Work, Terminated

LEMMA DispatcherInit == Init => DispatcherInv
<1> SUFFICES ASSUME Init PROVE DispatcherInv
  OBVIOUS
<1>1. StopInv
  BY DEF Init, StopInv
<1>2. Placed = {}
  BY DEF Init, Placed, Hand, Elements
<1>3. PlaceInv
  BY <1>2 DEF Init, PlaceInv
<1> QED
  BY <1>1, <1>3, TypeInit DEF DispatcherInv

LEMMA DispatcherStep == DispatcherInv /\ [Next]_vars => DispatcherInv'
BY TypeStep, StopStep, PlaceStep DEF DispatcherInv

(* The inductive invariant of the dispatcher and of the stop sequence. *)
THEOREM DispatcherCorrect == Spec => []DispatcherInv
BY DispatcherInit, DispatcherStep, PTL DEF Spec

(* Log never meets a closed channel. *)
THEOREM QueueClosedAfterLastSend == Spec => []NoSendOnClosedQueue
<1>1. DispatcherInv => NoSendOnClosedQueue
  BY DEF DispatcherInv, StopInv, NoSendOnClosedQueue
<1> QED
  BY <1>1, DispatcherCorrect, PTL

(* When main reports gateway_stopped, every event has been settled. *)
THEOREM CleanStop == Spec => []CleanStopLosesNothing
<1>1. DispatcherInv => CleanStopLosesNothing
  <2> SUFFICES ASSUME DispatcherInv, stage = "stopped",
                      NEW r \in Requests, handler[r] # "idle"
               PROVE  r \in Elements(delivered) \cup undelivered
                              \cup dropped \cup unlogged
    BY DEF CleanStopLosesNothing
  <2>1. handler[r] = "done" /\ queue = <<>> /\ event = NoEvent
    BY DEF DispatcherInv, StopInv
  <2>2. Elements(Hand) = {} /\ Elements(queue) = {}
    BY <2>1 DEF Hand, Elements
  <2> QED
    BY <2>1, <2>2 DEF DispatcherInv, PlaceInv, Placed
<1> QED
  BY <1>1, DispatcherCorrect, PTL

-----------------------------------------------------------------------------
(* The counters. *)

(* What the counters and the sinks are about. *)
accountVars == <<queue, event, sent, output, metrics, delivered, undelivered,
                 panicked>>

(* The steps that change none of it. *)
LEMMA QuietSteps ==
  ASSUME TypeOK, [Next]_vars
  PROVE  \/ UNCHANGED <<accountVars, Logging>>
         \/ \E r \in Requests, class \in {"blocked", "allowed"} :
              LogCount(r, class)
         \/ \E r \in Requests : LogSend(r)
         \/ Receive
         \/ \E ok \in BOOLEAN : WriteSink(ok)
         \/ FinishWrite
<1> USE DEF accountVars, workerVars, historyVars
<1>1. ASSUME UNCHANGED handler PROVE Logging' = Logging
  BY <1>1 DEF Logging
<1>2. ASSUME NEW r \in Requests, Arrive(r) \/ FinishUnlogged(r) \/ Warn(r)
      PROVE  UNCHANGED <<accountVars, Logging>>
  <2>1. Logging' = Logging
    BY <1>2 DEF Arrive, FinishUnlogged, Warn, Logging, TypeOK
  <2> QED
    BY <1>2, <2>1 DEF Arrive, FinishUnlogged, Warn
<1>3. ASSUME WorkerExit PROVE UNCHANGED <<accountVars, Logging>>
  BY <1>1, <1>3 DEF WorkerExit
<1>4. ASSUME Signal \/ Expire \/ Stop \/ DrainTimeout \/ Report
      PROVE  UNCHANGED <<accountVars, Logging>>
  <2>1. MainOnly
    BY <1>4
    DEF Signal, Expire, Stop, DrainPoll, DrainAgain, DrainTimeout,
        CloseQueue, FlushDone, FlushTimeout, Report
  <2> QED
    BY <1>1, <2>1 DEF MainOnly
<1>5. ASSUME UNCHANGED vars PROVE UNCHANGED <<accountVars, Logging>>
  BY <1>1, <1>5 DEF vars
<1> QED
  BY <1>2, <1>3, <1>4, <1>5 DEF Next, Work, Terminated

(* The event that Receive takes is new to every other place. *)
LEMMA ReceiveEffect ==
  ASSUME TypeOK, OnceInv, Receive
  PROVE  /\ event = NoEvent
         /\ event' \in Requests /\ event' # NoEvent
         /\ sent' = FALSE
         /\ queue' \in Seq(Requests) /\ Len(queue) = Len(queue') + 1
         /\ Elements(queue) = {event'} \cup Elements(queue')
         /\ event' \notin Elements(queue')
         /\ \A i, j \in DOMAIN queue' : queue'[i] = queue'[j] => i = j
         /\ UNCHANGED <<handler, metrics, output, delivered, undelivered,
                        panicked>>
<1>1. /\ queue \in Seq(Requests) /\ queue # <<>>
      /\ queue' = Tail(queue) /\ event' = Head(queue)
  BY DEF Receive, TypeOK
<1>2. /\ event' \in Requests /\ event' # NoEvent
      /\ queue' \in Seq(Requests) /\ Len(queue) = Len(queue') + 1
      /\ Elements(queue) = {event'} \cup Elements(queue')
  <2>1. /\ Head(queue) \in Requests
        /\ Tail(queue) \in Seq(Requests)
        /\ Len(Tail(queue)) = Len(queue) - 1
        /\ Elements(queue) = {Head(queue)} \cup Elements(Tail(queue))
    BY <1>1, ElementsOfTail
  <2>2. Len(queue) \in Nat
    BY <1>1
  <2> QED
    BY <1>1, <2>1, <2>2, DispatcherAssumption
<1>3. /\ Len(queue') \in Nat
      /\ DOMAIN queue' = 1 .. Len(queue')
      /\ DOMAIN queue = 1 .. (Len(queue') + 1)
      /\ Head(queue) = queue[1]
      /\ \A i \in DOMAIN queue' : queue'[i] = queue[i + 1]
  BY <1>1, <1>2
<1>4. \A i, j \in DOMAIN queue : queue[i] = queue[j] => i = j
  BY DEF OnceInv
<1>5. ASSUME NEW i \in DOMAIN queue' PROVE queue'[i] # event'
  <2>1. i + 1 \in DOMAIN queue /\ 1 \in DOMAIN queue /\ i + 1 # 1
    BY <1>3
  <2> QED
    BY <1>1, <1>3, <1>4, <2>1
<1>6. ASSUME NEW i \in DOMAIN queue', NEW j \in DOMAIN queue',
             queue'[i] = queue'[j]
      PROVE  i = j
  <2>1. i + 1 \in DOMAIN queue /\ j + 1 \in DOMAIN queue
    BY <1>3
  <2>2. i + 1 = j + 1
    BY <1>3, <1>4, <1>6, <2>1
  <2> QED
    BY <1>3, <2>2
<1>7. event' \notin Elements(queue')
  BY <1>5 DEF Elements
<1>8. /\ event = NoEvent
      /\ UNCHANGED <<handler, metrics, output, delivered, undelivered,
                     panicked>>
  BY DEF Receive, historyVars
<1>9. sent' = FALSE
  BY Zenon DEF Receive
<1> QED
  BY <1>2, <1>6, <1>7, <1>8, <1>9

(* What FinishWrite does with the event in hand. *)
LEMMA FinishWriteEffect ==
  ASSUME TypeOK, FinishWrite
  PROVE  /\ event \in Requests /\ event # NoEvent /\ event' = NoEvent
         /\ UNCHANGED <<handler, queue, output, panicked>>
         /\ \/ /\ sent
               /\ metrics' = [metrics EXCEPT !["sent"] = @ + 1]
               /\ Len(delivered') = Len(delivered) + 1
               /\ Elements(delivered') = Elements(delivered) \cup {event}
               /\ undelivered' = undelivered
            \/ /\ ~ sent
               /\ undelivered' = undelivered \cup {event}
               /\ metrics' = metrics /\ delivered' = delivered
<1>1. event \in Requests /\ event # NoEvent
  BY DEF FinishWrite, TypeOK
<1>2. /\ Len(Append(delivered, event)) = Len(delivered) + 1
      /\ Elements(Append(delivered, event)) = Elements(delivered) \cup {event}
  BY <1>1, ElementsOfAppend DEF TypeOK
<1> QED
  BY <1>1, <1>2 DEF FinishWrite

(* A request that is logging has its event nowhere yet. *)
LEMMA LoggingIsUnplaced ==
  ASSUME TypeOK, PlaceInv, NEW r \in Requests, handler[r] = "logging"
  PROVE  /\ r # event
         /\ r \notin Elements(queue)
         /\ r \notin Elements(delivered) \cup undelivered
<1>1. r \notin Placed
  BY DEF PlaceInv
<1>2. r # NoEvent
  BY DispatcherAssumption
<1>3. r \notin Elements(Hand)
  BY <1>1 DEF Placed
<1>4. r # event
  BY <1>2, <1>3, ElementsOfHand
<1> QED
  BY <1>1, <1>4 DEF Placed

LEMMA OnceStep ==
  TypeOK /\ StopInv /\ PlaceInv /\ OnceInv /\ [Next]_vars => OnceInv'
<1> SUFFICES ASSUME TypeOK, StopInv, PlaceInv, OnceInv, [Next]_vars
             PROVE  OnceInv'
  OBVIOUS
<1>1. ASSUME UNCHANGED <<event, queue, delivered, undelivered>> PROVE OnceInv'
  BY <1>1 DEF OnceInv, Elements
<1>2. ASSUME NEW r \in Requests, LogSend(r) PROVE OnceInv'
  <2>1. /\ UNCHANGED <<event, delivered, undelivered>>
        /\ handler[r] = "logging"
        /\ queue' = Append(queue, r) \/ queue' = queue
    BY <1>2, LogSendEffect
  <2>2. CASE queue' = queue
    BY <2>1, <2>2, <1>1
  <2>3. CASE queue' = Append(queue, r)
    <3>1. /\ r # event
          /\ r \notin Elements(queue)
          /\ r \notin Elements(delivered) \cup undelivered
      BY <2>1, LoggingIsUnplaced
    <3>2. queue \in Seq(Requests)
      BY DEF TypeOK
    <3>3. Elements(queue') = Elements(queue) \cup {r}
      BY <2>3, <3>2, ElementsOfAppend
    <3>4. ASSUME NEW i \in DOMAIN queue', NEW j \in DOMAIN queue',
                 queue'[i] = queue'[j]
          PROVE  i = j
      <4>1. /\ DOMAIN queue' = (DOMAIN queue) \cup {Len(queue) + 1}
            /\ queue'[Len(queue) + 1] = r
            /\ \A k \in DOMAIN queue : queue'[k] = queue[k]
        BY <2>3, <3>2
      <4>2. \A k \in DOMAIN queue : queue[k] # r
        BY <3>1 DEF Elements
      <4>3. \A k, l \in DOMAIN queue : queue[k] = queue[l] => k = l
        BY DEF OnceInv
      <4> QED
        BY <3>4, <4>1, <4>2, <4>3
    <3>5. /\ event \notin Elements(queue)
          /\ (Elements(queue) \cup {event})
               \cap (Elements(delivered) \cup undelivered) = {}
      BY DEF OnceInv
    <3>6. Elements(delivered') = Elements(delivered)
      BY <2>1
    <3> QED
      BY <2>1, <3>1, <3>3, <3>4, <3>5, <3>6 DEF OnceInv
  <2> QED
    BY <2>1, <2>2, <2>3
<1>3. CASE Receive
  <2>1. Elements(delivered') = Elements(delivered)
    BY <1>3, ReceiveEffect
  <2> QED
    BY <1>3, <2>1, ReceiveEffect DEF OnceInv
<1>4. CASE FinishWrite
  <2>1. /\ queue' = queue /\ event' = NoEvent
        /\ Elements(delivered') \cup undelivered' =
             Elements(delivered) \cup undelivered \cup {event}
        /\ event \in Requests
    BY <1>4, FinishWriteEffect
  <2>2. /\ Elements(queue) \subseteq Requests
        /\ Elements(delivered) \cup undelivered \subseteq Requests
    BY DEF TypeOK, Elements
  <2>3. /\ event \notin Elements(queue)
        /\ Elements(queue) \cap (Elements(delivered) \cup undelivered) = {}
        /\ \A i, j \in DOMAIN queue : queue[i] = queue[j] => i = j
    BY DEF OnceInv
  <2>4. Elements(queue') = Elements(queue)
    BY <2>1
  <2> QED
    BY <2>1, <2>2, <2>3, <2>4, DispatcherAssumption DEF OnceInv
<1>5. ASSUME NEW r \in Requests, NEW class \in {"blocked", "allowed"},
             LogCount(r, class)
      PROVE  OnceInv'
  BY <1>5, <1>1 DEF LogCount, workerVars, historyVars
<1>6. ASSUME NEW ok \in BOOLEAN, WriteSink(ok) PROVE OnceInv'
  BY <1>6, <1>1 DEF WriteSink, historyVars
<1>7. ASSUME UNCHANGED <<accountVars, Logging>> PROVE OnceInv'
  BY <1>7, <1>1 DEF accountVars
<1> QED
  BY <1>2, <1>3, <1>4, <1>5, <1>6, <1>7, QuietSteps

(* A write that succeeds adds the event in hand to what is written. *)
LEMMA WriteSinkEffect ==
  ASSUME TypeOK, NEW ok \in BOOLEAN, WriteSink(ok)
  PROVE  /\ event # NoEvent
         /\ Written' = IF ok THEN Written \cup {event} ELSE Written
         /\ sent' = (sent \/ ok)
         /\ UNCHANGED <<handler, queue, event, metrics, delivered,
                        undelivered, panicked>>
<1>1. /\ event \in Requests /\ sink \in Sinks /\ event # NoEvent
      /\ output \in [Sinks -> Seq(Requests)]
  BY DEF WriteSink, TypeOK, Sinks
<1>2. Written' = IF ok THEN Written \cup {event} ELSE Written
  <2>1. CASE ~ ok
    BY <2>1 DEF WriteSink, Written
  <2>2. CASE ok
    <3>1. output' = [output EXCEPT ![sink] = Append(output[sink], event)]
      BY <2>2 DEF WriteSink
    <3>2. Elements(output'[sink]) = Elements(output[sink]) \cup {event}
      BY <1>1, <3>1, ElementsOfAppend
    <3>3. \A s \in Sinks : s # sink => Elements(output'[s]) = Elements(output[s])
      BY <1>1, <3>1
    <3> QED
      BY <1>1, <2>2, <3>2, <3>3 DEF Written
  <2> QED
    BY <2>1, <2>2
<1>3. sent' = (sent \/ ok)
  BY DEF WriteSink
<1> QED
  BY <1>1, <1>2, <1>3 DEF WriteSink, historyVars

LEMMA SinkStep ==
  TypeOK /\ StopInv /\ OnceInv /\ SinkInv /\ [Next]_vars => SinkInv'
<1> SUFFICES ASSUME TypeOK, StopInv, OnceInv, SinkInv, [Next]_vars
             PROVE  SinkInv'
  OBVIOUS
<1> USE DEF SinkInv, SentMeansWritten
<1>1. ASSUME UNCHANGED <<event, sent, output, delivered, undelivered>>,
             metrics'["sent"] = metrics["sent"]
      PROVE  SinkInv'
  <2>1. Written' = Written /\ Elements(delivered') = Elements(delivered)
    BY <1>1 DEF Written
  <2> QED
    BY <1>1, <2>1
<1>2. ASSUME NEW r \in Requests, NEW class \in {"blocked", "allowed"},
             LogCount(r, class)
      PROVE  SinkInv'
  <2>1. metrics'["sent"] = metrics["sent"]
    BY <1>2 DEF LogCount, TypeOK, Counters
  <2> QED
    BY <1>1, <1>2, <2>1 DEF LogCount, workerVars, historyVars
<1>3. ASSUME NEW r \in Requests, LogSend(r) PROVE SinkInv'
  <2>1. metrics'["sent"] = metrics["sent"]
    BY <1>3 DEF LogSend, TypeOK, Counters
  <2> QED
    BY <1>1, <1>3, <2>1 DEF LogSend, workerVars
<1>4. CASE Receive
  <2>1. /\ event = NoEvent /\ sent' = FALSE
        /\ Elements(delivered') = Elements(delivered)
        /\ Written' = Written
        /\ UNCHANGED <<metrics, delivered, undelivered>>
        /\ event' \in Elements(queue)
        /\ event' # NoEvent
    BY <1>4, ReceiveEffect DEF Written
  <2>2. event' \notin Written
    BY <2>1 DEF OnceInv
  <2>3. NoEvent \notin Written
    BY DispatcherAssumption DEF Written, Elements, TypeOK
  <2> QED
    BY <2>1, <2>2, <2>3
<1>5. ASSUME NEW ok \in BOOLEAN, WriteSink(ok) PROVE SinkInv'
  <2>1. event \notin undelivered
    BY DEF OnceInv
  <2>2. Elements(delivered') = Elements(delivered)
    BY <1>5, WriteSinkEffect
  <2> QED
    BY <1>5, <2>1, <2>2, WriteSinkEffect
<1>6. CASE FinishWrite
  <2>1. Written' = Written
    BY <1>6, FinishWriteEffect DEF Written
  <2>2. CASE sent
    <3>1. metrics'["sent"] = Len(delivered')
      BY <1>6, <2>2, FinishWriteEffect DEF TypeOK, Counters
    <3>2. /\ Elements(delivered') = Elements(delivered) \cup {event}
          /\ undelivered' = undelivered
          /\ event' = NoEvent
      BY <1>6, <2>2, FinishWriteEffect
    <3>3. event \in Written
      BY <1>6, <2>2, FinishWriteEffect
    <3> QED
      BY <2>1, <3>1, <3>2, <3>3
  <2>3. CASE ~ sent
    BY <1>6, <2>1, <2>3, FinishWriteEffect
  <2> QED
    BY <2>2, <2>3
<1>7. ASSUME UNCHANGED <<accountVars, Logging>> PROVE SinkInv'
  BY <1>7, <1>1 DEF accountVars
<1> QED
  BY <1>2, <1>3, <1>4, <1>5, <1>6, <1>7, QuietSteps

(* Every counted request is dropped, queued, in hand, sent, undelivered or *)
(* still logging; a step moves one of them from one place to the next.     *)
Balanced(c, d, q, h, s, u, l) == c = d + q + h + s + u + l

LEMMA BalanceMoves ==
  ASSUME NEW c \in Nat, NEW d \in Nat, NEW q \in Nat, NEW h \in Nat,
         NEW s \in Nat, NEW u \in Nat, NEW l \in Nat,
         Balanced(c, d, q, h, s, u, l)
  PROVE  /\ Balanced(c + 1, d, q, h, s, u, l + 1)
         /\ Balanced(c, d + 1, q, h, s, u, l - 1)
         /\ Balanced(c, d, q + 1, h, s, u, l - 1)
         /\ Balanced(c, d, q - 1, h + 1, s, u, l)
         /\ Balanced(c, d, q, h - 1, s + 1, u, l)
         /\ Balanced(c, d, q, h - 1, s, u + 1, l)
BY DEF Balanced

LEMMA BalanceStep ==
  TypeOK /\ StopInv /\ PlaceInv /\ OnceInv /\ BalanceInv /\ [Next]_vars
    => BalanceInv'
<1> SUFFICES ASSUME TypeOK, StopInv, PlaceInv, OnceInv, BalanceInv,
                    [Next]_vars
             PROVE  BalanceInv'
  OBVIOUS
<1> DEFINE Now == Balanced(metrics["blocked"] + metrics["allowed"],
                           metrics["dropped"], Len(queue), Len(Hand),
                           metrics["sent"], Cardinality(undelivered),
                           Cardinality(Logging))
<1>1. /\ metrics["blocked"] \in Nat /\ metrics["allowed"] \in Nat
      /\ metrics["dropped"] \in Nat /\ metrics["sent"] \in Nat
      /\ Len(queue) \in Nat /\ Len(Hand) \in Nat
      /\ IsFiniteSet(undelivered) /\ Cardinality(undelivered) \in Nat
      /\ IsFiniteSet(Logging) /\ Cardinality(Logging) \in Nat
  <2>1. Len(Hand) \in Nat
    BY ElementsOfHand
  <2>2. /\ IsFiniteSet(undelivered) /\ Cardinality(undelivered) \in Nat
        /\ IsFiniteSet(Logging) /\ Cardinality(Logging) \in Nat
    BY FS_CardinalityType DEF BalanceInv
  <2> QED
    BY <2>1, <2>2 DEF TypeOK, Counters
<1>2. Now
  BY DEF BalanceInv, CountersBalance, StopInv, Balanced
<1>3. metrics["blocked"] + metrics["allowed"] \in Nat
  BY <1>1
<1>4. ASSUME IsFiniteSet(undelivered'), IsFiniteSet(Logging'), Now'
      PROVE  BalanceInv'
  BY <1>4 DEF BalanceInv, CountersBalance, Balanced
<1> DEFINE C == metrics["blocked"] + metrics["allowed"]
           D == metrics["dropped"]
           Q == Len(queue)
           H == Len(Hand)
           S == metrics["sent"]
           U == Cardinality(undelivered)
           L == Cardinality(Logging)
<1>5. /\ Balanced(C + 1, D, Q, H, S, U, L + 1)
      /\ Balanced(C, D + 1, Q, H, S, U, L - 1)
      /\ Balanced(C, D, Q + 1, H, S, U, L - 1)
      /\ Balanced(C, D, Q - 1, H + 1, S, U, L)
      /\ Balanced(C, D, Q, H - 1, S + 1, U, L)
      /\ Balanced(C, D, Q, H - 1, S, U + 1, L)
  <2> HIDE DEF C, D, Q, H, S, U, L
  <2>1. Balanced(C, D, Q, H, S, U, L)
    BY <1>2 DEF C, D, Q, H, S, U, L
  <2>2. /\ C \in Nat /\ D \in Nat /\ Q \in Nat /\ H \in Nat /\ S \in Nat
        /\ U \in Nat /\ L \in Nat
    BY <1>1, <1>3 DEF C, D, Q, H, S, U, L
  <2> QED
    BY <2>1, <2>2, BalanceMoves
<1>6. ASSUME UNCHANGED <<queue, event, metrics, undelivered, Logging>>
      PROVE  BalanceInv'
  <2>1. Hand' = Hand
    BY <1>6 DEF Hand
  <2>2. Now'
    BY <1>2, <1>6, <2>1
  <2> QED
    BY <1>1, <1>4, <1>6, <2>2
<1>7. ASSUME NEW r \in Requests, NEW class \in {"blocked", "allowed"},
             LogCount(r, class)
      PROVE  BalanceInv'
  <2>1. /\ Logging' = Logging \cup {r} /\ r \notin Logging
        /\ UNCHANGED <<queue, event, undelivered>>
    <3>1. Logging' = Logging \cup {r} /\ r \notin Logging
      BY <1>7 DEF LogCount, Logging, TypeOK
    <3> QED
      BY <1>7, <3>1 DEF LogCount, workerVars, historyVars
  <2>2. IsFiniteSet(Logging') /\ L' = L + 1
    BY <1>1, <2>1, FS_AddElement
  <2>3. C' = C + 1 /\ D' = D /\ S' = S
    BY <1>1, <1>7 DEF LogCount, TypeOK, Counters
  <2>4. Q' = Q /\ H' = H /\ U' = U
    BY <2>1 DEF Hand
  <2>5. Balanced(C', D', Q', H', S', U', L')
    BY <1>5, <2>2, <2>3, <2>4
  <2> QED
    BY <1>1, <1>4, <2>1, <2>2, <2>5
<1>8. ASSUME NEW r \in Requests, LogSend(r) PROVE BalanceInv'
  <2>1. /\ Logging' = Logging \ {r} /\ r \in Logging
        /\ UNCHANGED <<event, undelivered>>
    BY <1>8, LogSendEffect DEF Logging, TypeOK
  <2>2. IsFiniteSet(Logging') /\ L' = L - 1
    BY <1>1, <2>1, FS_RemoveElement
  <2>3. H' = H /\ U' = U
    BY <2>1 DEF Hand
  <2>4. ~ closed
    BY <1>8 DEF LogSend, StopInv, Alive
  <2>5. CASE queue' = Append(queue, r) /\ metrics' = metrics
    <3>1. Q' = Q + 1
      BY <2>5, ElementsOfAppend DEF TypeOK
    <3>2. C' = C /\ D' = D /\ S' = S
      BY <2>5
    <3>3. Balanced(C', D', Q', H', S', U', L')
      BY <1>5, <2>2, <2>3, <3>1, <3>2
    <3> QED
      BY <1>1, <1>4, <2>1, <2>2, <3>3
  <2>6. CASE /\ queue' = queue
             /\ metrics' = [metrics EXCEPT !["dropped"] = @ + 1]
    <3>1. C' = C /\ D' = D + 1 /\ S' = S
      BY <2>6 DEF TypeOK, Counters
    <3>2. Q' = Q
      BY <2>6
    <3>3. Balanced(C', D', Q', H', S', U', L')
      BY <1>5, <2>2, <2>3, <3>1, <3>2
    <3> QED
      BY <1>1, <1>4, <2>1, <2>2, <3>3
  <2> QED
    BY <1>8, <2>4, <2>5, <2>6 DEF LogSend
<1>9. CASE Receive
  <2>1. Q' = Q - 1
    BY <1>9, ReceiveEffect
  <2>2. H' = H + 1
    <3>1. Hand = <<>> /\ Hand' = <<event'>>
      BY <1>9, ReceiveEffect DEF Hand
    <3> QED
      BY <3>1
  <2>3. UNCHANGED <<metrics, undelivered, Logging>>
    BY <1>9, ReceiveEffect DEF Logging
  <2>4. C' = C /\ D' = D /\ S' = S /\ U' = U /\ L' = L
    BY <2>3
  <2>5. Balanced(C', D', Q', H', S', U', L')
    BY <1>5, <2>1, <2>2, <2>4
  <2> QED
    BY <1>1, <1>4, <2>3, <2>5
<1>10. ASSUME NEW ok \in BOOLEAN, WriteSink(ok) PROVE BalanceInv'
  <2>1. Logging' = Logging
    BY <1>10, WriteSinkEffect DEF Logging
  <2> QED
    BY <1>10, <1>6, <2>1, WriteSinkEffect
<1>11. CASE FinishWrite
  <2>1. H' = H - 1
    <3>1. Hand = <<event>> /\ Hand' = <<>>
      BY <1>11, FinishWriteEffect DEF Hand
    <3> QED
      BY <3>1
  <2>2. Logging' = Logging /\ queue' = queue
    BY <1>11, FinishWriteEffect DEF Logging
  <2>3. L' = L /\ Q' = Q
    BY <2>2
  <2>4. CASE /\ metrics' = [metrics EXCEPT !["sent"] = @ + 1]
             /\ undelivered' = undelivered
    <3>1. C' = C /\ D' = D /\ S' = S + 1
      BY <2>4 DEF TypeOK, Counters
    <3>2. U' = U
      BY <2>4
    <3>3. Balanced(C', D', Q', H', S', U', L')
      BY <1>5, <2>1, <2>3, <3>1, <3>2
    <3> QED
      BY <1>1, <1>4, <2>2, <2>4, <3>3
  <2>5. CASE metrics' = metrics /\ undelivered' = undelivered \cup {event}
    <3>1. event \notin undelivered
      BY DEF OnceInv
    <3>2. IsFiniteSet(undelivered') /\ U' = U + 1
      BY <1>1, <2>5, <3>1, FS_AddElement
    <3>3. C' = C /\ D' = D /\ S' = S
      BY <2>5
    <3>4. Balanced(C', D', Q', H', S', U', L')
      BY <1>5, <2>1, <2>3, <3>2, <3>3
    <3> QED
      BY <1>1, <1>4, <2>2, <3>2, <3>4
  <2> QED
    BY <1>11, <2>4, <2>5, FinishWriteEffect
<1>12. ASSUME UNCHANGED <<accountVars, Logging>> PROVE BalanceInv'
  BY <1>12, <1>6 DEF accountVars
<1> QED
  BY <1>7, <1>8, <1>9, <1>10, <1>11, <1>12, QuietSteps

LEMMA AccountInit == Init => AccountInv
<1> SUFFICES ASSUME Init PROVE AccountInv
  OBVIOUS
<1>1. Elements(queue) = {} /\ Elements(delivered) = {} /\ DOMAIN queue = {}
  BY DEF Init, Elements
<1>2. Written = {}
  BY DEF Init, Written, Elements
<1>3. OnceInv
  BY <1>1 DEF OnceInv, Init
<1>4. metrics["sent"] = 0 /\ Len(delivered) = 0
  BY DEF Init, Counters
<1>5. SinkInv
  BY <1>1, <1>2, <1>4 DEF Init, SinkInv, SentMeansWritten
<1>6. Logging = {} /\ undelivered = {}
  BY DEF Init, Logging
<1>7. IsFiniteSet({}) /\ Cardinality({}) = 0
  BY FS_EmptySet
<1>8. Len(queue) = 0 /\ Len(Hand) = 0
  BY DEF Init, Hand
<1>9. \A m \in Counters : metrics[m] = 0
  BY DEF Init
<1>10. BalanceInv
  BY <1>6, <1>7, <1>8, <1>9 DEF BalanceInv, CountersBalance, Counters
<1> QED
  BY <1>3, <1>5, <1>10, DispatcherInit DEF AccountInv

LEMMA AccountStep == AccountInv /\ [Next]_vars => AccountInv'
BY DispatcherStep, OnceStep, SinkStep, BalanceStep
DEF AccountInv, DispatcherInv

(* eventsSentTotal counts exactly what some sink has written, and the      *)
(* request counters balance with the queue, the worker, the drops and the  *)
(* failures, for any number of requests and sinks and any queue size.      *)
THEOREM CountersAlwaysAgree == Spec => []CountersAgree
<1>1. AccountInv => CountersAgree
  BY DEF AccountInv, SinkInv, BalanceInv, CountersAgree
<1> QED
  BY <1>1, AccountInit, AccountStep, PTL DEF Spec

-----------------------------------------------------------------------------
(* Refinement of AuditTrail: Hand \o queue is the trail's pending. *)

LEMMA TrailInitially == Init => Trail!TrailInit
<1> SUFFICES ASSUME Init PROVE Trail!TrailInit
  OBVIOUS
<1>1. Hand = <<>> /\ queue = <<>>
  BY DEF Init, Hand
<1>2. Hand \o queue = <<>>
  BY <1>1
<1> QED
  BY <1>2 DEF Init, Trail!TrailInit

(* The requests the trail knows are the ones that are placed. *)
LEMMA KnownIsPlaced ==
  ASSUME TypeOK
  PROVE  Trail!Known = Placed
<1>1. Hand \in Seq(Requests) /\ queue \in Seq(Requests)
  BY ElementsOfHand DEF TypeOK
<1>2. Elements(Hand \o queue) = Elements(Hand) \cup Elements(queue)
  <2>1. /\ Len(Hand) \in Nat /\ Len(queue) \in Nat
        /\ DOMAIN Hand = 1 .. Len(Hand)
        /\ DOMAIN queue = 1 .. Len(queue)
        /\ DOMAIN (Hand \o queue) = 1 .. (Len(Hand) + Len(queue))
        /\ \A i \in 1 .. (Len(Hand) + Len(queue)) :
             (Hand \o queue)[i] = IF i <= Len(Hand) THEN Hand[i]
                                  ELSE queue[i - Len(Hand)]
    BY <1>1
  <2>2. ASSUME NEW i \in DOMAIN (Hand \o queue)
        PROVE  (Hand \o queue)[i] \in Elements(Hand) \cup Elements(queue)
    <3>1. CASE i <= Len(Hand)
      BY <2>1, <3>1 DEF Elements
    <3>2. CASE ~ (i <= Len(Hand))
      <4>1. i - Len(Hand) \in DOMAIN queue
        BY <2>1, <3>2
      <4> QED
        BY <2>1, <3>2, <4>1 DEF Elements
    <3> QED
      BY <3>1, <3>2
  <2>3. ASSUME NEW i \in DOMAIN Hand PROVE Hand[i] \in Elements(Hand \o queue)
    <3>1. i \in DOMAIN (Hand \o queue) /\ (Hand \o queue)[i] = Hand[i]
      BY <2>1
    <3> QED
      BY <3>1 DEF Elements
  <2>4. ASSUME NEW i \in DOMAIN queue
        PROVE  queue[i] \in Elements(Hand \o queue)
    <3>1. /\ i + Len(Hand) \in DOMAIN (Hand \o queue)
          /\ (Hand \o queue)[i + Len(Hand)] = queue[i]
      BY <2>1
    <3> QED
      BY <3>1 DEF Elements
  <2> QED
    BY <2>2, <2>3, <2>4 DEF Elements
<1> QED
  BY <1>2 DEF Trail!Known, Placed, Elements

(* Every step of the dispatcher is a step of the trail or none. *)
LEMMA TrailStep ==
  DispatcherInv /\ [Next]_vars => [Trail!TrailNext]_(Trail!trail)
<1> SUFFICES ASSUME DispatcherInv, [Next]_vars
             PROVE  Trail!TrailNext \/ UNCHANGED Trail!trail
  BY DEF Trail!trail
<1> TypeOK /\ StopInv /\ PlaceInv
  BY DEF DispatcherInv
<1> /\ queue \in Seq(Requests)
    /\ Hand \in Seq(Requests)
    /\ Len(Hand) \in Nat /\ Len(Hand) <= 1
    /\ Len(queue) \in Nat
  BY ElementsOfHand DEF TypeOK
<1>1. ASSUME UNCHANGED <<event, queue, delivered, undelivered, dropped>>
      PROVE  UNCHANGED Trail!trail
  BY <1>1, NothingMoves DEF Trail!trail
<1>2. ASSUME NEW r \in Requests, LogSend(r) PROVE Trail!TrailNext
  <2>1. r \notin Trail!Known
    BY <1>2, LogSendEffect, KnownIsPlaced DEF PlaceInv
  <2>2. Hand' = Hand
    BY <1>2, LogSendEffect DEF Hand
  <2>3. Len(Hand \o queue) = Len(Hand) + Len(queue)
    OBVIOUS
  <2>4. CASE /\ queue' = Append(queue, r)
             /\ Len(queue) < QueueSize
             /\ dropped' = dropped
    <3>1. Hand \o Append(queue, r) = Append(Hand \o queue, r)
      OBVIOUS
    <3>2. Len(Hand \o queue) <= QueueSize
      BY <2>3, <2>4, DispatcherAssumption
    <3>3. Trail!Accept(r)
      BY <1>2, <2>1, <2>2, <2>4, <3>1, <3>2, LogSendEffect DEF Trail!Accept
    <3> QED
      BY <3>3 DEF Trail!TrailNext
  <2>5. CASE /\ dropped' = dropped \cup {r}
             /\ Len(queue) >= QueueSize
             /\ queue' = queue
    <3>1. Len(Hand \o queue) >= QueueSize
      BY <2>3, <2>5, DispatcherAssumption
    <3>2. Trail!Refuse(r)
      BY <1>2, <2>1, <2>2, <2>5, <3>1, LogSendEffect DEF Trail!Refuse
    <3> QED
      BY <3>2 DEF Trail!TrailNext
  <2> QED
    BY <1>2, <2>4, <2>5, LogSendEffect
<1>3. ASSUME Receive PROVE UNCHANGED Trail!trail
  <2>1. Hand = <<>> /\ queue # <<>> /\ queue' = Tail(queue)
    BY <1>3 DEF Receive, Hand
  <2>2. Head(queue) # NoEvent
    BY <2>1, ElementsOfTail, DispatcherAssumption
  <2>3. Hand' = <<Head(queue)>>
    BY <1>3, <2>2 DEF Receive, Hand
  <2>4. <<Head(queue)>> \o Tail(queue) = queue
    BY <2>1
  <2>5. Hand \o queue = queue
    BY <2>1
  <2> QED
    BY <1>3, <2>1, <2>3, <2>4, <2>5 DEF Receive, historyVars, Trail!trail
<1>4. ASSUME FinishWrite PROVE Trail!TrailNext
  <2>1. event # NoEvent /\ Hand = <<event>> /\ Hand' = <<>> /\ queue' = queue
    BY <1>4 DEF FinishWrite, Hand
  <2>2. /\ Hand \o queue # <<>>
        /\ Head(Hand \o queue) = event
        /\ Tail(Hand \o queue) = queue
    BY <2>1
  <2>3. Hand' \o queue' = queue
    BY <2>1
  <2>4. Trail!Settle
    BY <1>4, <2>2, <2>3 DEF FinishWrite, Trail!Settle
  <2> QED
    BY <2>4 DEF Trail!TrailNext
<1>5. ASSUME NEW r \in Requests, Arrive(r) \/ FinishUnlogged(r) \/ Warn(r)
      PROVE  UNCHANGED Trail!trail
  BY <1>5, <1>1 DEF Arrive, FinishUnlogged, Warn, workerVars, historyVars
<1>6. ASSUME NEW r \in Requests, NEW class \in {"blocked", "allowed"},
             LogCount(r, class)
      PROVE  UNCHANGED Trail!trail
  BY <1>6, <1>1 DEF LogCount, workerVars, historyVars
<1>7. ASSUME NEW ok \in BOOLEAN, WriteSink(ok) PROVE UNCHANGED Trail!trail
  BY <1>7, <1>1 DEF WriteSink, historyVars
<1>8. ASSUME WorkerExit PROVE UNCHANGED Trail!trail
  BY <1>8, <1>1 DEF WorkerExit, workerVars, historyVars
<1>9. ASSUME Signal \/ Expire \/ Stop \/ DrainTimeout \/ Report
      PROVE  UNCHANGED Trail!trail
  <2>1. MainOnly
    BY <1>9
    DEF Signal, Expire, Stop, DrainPoll, DrainAgain, DrainTimeout,
        CloseQueue, FlushDone, FlushTimeout, Report
  <2> QED
    BY <2>1, <1>1 DEF MainOnly, workerVars, historyVars
<1>10. ASSUME UNCHANGED vars PROVE UNCHANGED Trail!trail
  BY <1>10, <1>1 DEF vars, workerVars, historyVars
<1> QED
  BY <1>2, <1>3, <1>4, <1>5, <1>6, <1>7, <1>8, <1>9, <1>10
  DEF Next, Work, Terminated

(* The dispatcher implements the audit trail: no event is duplicated,      *)
(* reordered, or refused while there is room, across sink failures and     *)
(* shutdown.                                                               *)
THEOREM TrailImplemented == Spec => ImplementsTrail
BY DispatcherCorrect, TrailInitially, TrailStep, PTL
DEF Spec, ImplementsTrail, Trail!TrailSpec

=============================================================================
