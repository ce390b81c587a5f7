-------------------------- MODULE AuditDispatcher ---------------------------
(***************************************************************************)
(* The gateway's asynchronous audit log and its shutdown                   *)
(* (services/gateway/internal/audit/audit.go, Dispatcher; the deferred Log *)
(* of proxy/gateway.go; the stop sequence of cmd/gateway/main.go).         *)
(*                                                                         *)
(* Request handlers hand their event to a bounded channel without ever     *)
(* waiting; one worker goroutine takes events from it and writes each to   *)
(* every sink in turn; main drains the HTTP server, closes the channel and *)
(* waits for the worker, all within one ten-second deadline.  Log lines go *)
(* to standard output, the stream of the first sink, and a write there may *)
(* block for ever: the lines that the shutdown depends on, main's last one *)
(* and the warning about a dropped event, are steps of their own.  An      *)
(* event is identified with the request it is about.                       *)
(***************************************************************************)
EXTENDS Naturals, Sequences, FiniteSets

CONSTANTS Requests,  \* requests the server may receive
          NoEvent,   \* the worker holds no event
          QueueSize, \* capacity of Dispatcher.queue
          NumSinks   \* len(Dispatcher.sinks)

(* NewDispatcher refuses any other configuration. *)
ASSUME DispatcherAssumption ==
  /\ NoEvent \notin Requests
  /\ QueueSize \in Nat \ {0}
  /\ NumSinks \in Nat \ {0}

VARIABLES
  handler,     \* where each request's ServeHTTP is
  queue,       \* Dispatcher.queue, oldest first
  closed,      \* the channel has been closed
  event,       \* run/write: the event in hand
  sink,        \* ... the next sink to write it to
  sent,        \* ... and whether one has taken it
  done,        \* Dispatcher.done has been closed
  metrics,     \* Metrics: four counters
  output,      \* what each sink has written
  delivered,   \* history: events counted in eventsSentTotal, in order
  undelivered, \* history: events that every sink failed to write
  dropped,     \* history: events counted in eventsDroppedTotal
  unlogged,    \* history: requests that end without an audit event
  stage,       \* where main is
  expired,     \* shutdownCtx is past its deadline
  panicked     \* a handler has sent on the closed channel

historyVars == <<delivered, undelivered, dropped, unlogged>>
mainVars == <<stage, expired>>
workerVars == <<event, sink, sent>>
vars == <<handler, queue, closed, workerVars, done, metrics, output,
          historyVars, mainVars, panicked>>

Sinks == 1 .. NumSinks
Counters == {"sent", "dropped", "blocked", "allowed"}

Init ==
  /\ handler = [r \in Requests |-> "idle"]
  /\ queue = <<>>
  /\ closed = FALSE
  /\ event = NoEvent
  /\ sink = 1
  /\ sent = FALSE
  /\ done = FALSE
  /\ metrics = [m \in Counters |-> 0]
  /\ output = [s \in Sinks |-> <<>>]
  /\ delivered = <<>>
  /\ undelivered = {}
  /\ dropped = {}
  /\ unlogged = {}
  /\ stage = "serving"
  /\ expired = FALSE
  /\ panicked = FALSE

(* os.Exit, or main's return, ends every goroutine; until the line before  *)
(* it is written they go on.                                               *)
Alive == stage \notin {"stopped", "failed"}

-----------------------------------------------------------------------------
(* Request handlers. *)

(* The server accepts requests until Shutdown is called. *)
Arrive(r) ==
  /\ stage = "serving"
  /\ handler[r] = "idle"
  /\ handler' = [handler EXCEPT ![r] = "active"]
  /\ UNCHANGED <<queue, closed, workerVars, done, metrics, output, historyVars,
                 mainVars, panicked>>

(* /healthz, /metrics and an invalid Host return before the deferred Log   *)
(* is set up.                                                              *)
FinishUnlogged(r) ==
  /\ Alive
  /\ handler[r] = "active"
  /\ handler' = [handler EXCEPT ![r] = "done"]
  /\ unlogged' = unlogged \cup {r}
  /\ UNCHANGED <<queue, closed, workerVars, done, metrics, output, delivered,
                 undelivered, dropped, mainVars, panicked>>

(* Log counts the request by its action, block and rate_limit or any other *)
LogCount(r, class) ==
  /\ Alive
  /\ handler[r] = "active"
  /\ handler' = [handler EXCEPT ![r] = "logging"]
  /\ metrics' = [metrics EXCEPT ![class] = @ + 1]
  /\ UNCHANGED <<queue, closed, workerVars, done, output, historyVars,
                 mainVars, panicked>>

(* Mutant: the channel holds one event more than it was made for. *)
LogSendOverfull(r) ==
  /\ Alive
  /\ handler[r] = "logging"
  /\ panicked' = (panicked \/ closed)
  /\ \/ /\ closed \/ Len(queue) <= QueueSize
        /\ handler' = [handler EXCEPT ![r] = "done"]
        /\ queue' = IF closed THEN queue ELSE Append(queue, r)
        /\ UNCHANGED <<metrics, dropped>>
     \/ /\ ~ closed /\ Len(queue) > QueueSize
        /\ handler' = [handler EXCEPT ![r] = "warning"]
        /\ metrics' = [metrics EXCEPT !["dropped"] = @ + 1]
        /\ dropped' = dropped \cup {r}
        /\ UNCHANGED queue
  /\ UNCHANGED <<closed, workerVars, done, output, delivered, undelivered,
                 unlogged, mainVars>>

(* ... and sends without blocking: a full channel drops the event, a       *)
(* closed one panics (recovered by ServeHTTP, the event is lost).          *)
LogSend(r) ==
  /\ Alive
  /\ handler[r] = "logging"
  /\ panicked' = (panicked \/ closed)
  /\ \/ /\ closed \/ Len(queue) < QueueSize
        /\ handler' = [handler EXCEPT ![r] = "done"]
        /\ queue' = IF closed THEN queue ELSE Append(queue, r)
        /\ UNCHANGED <<metrics, dropped>>
     \/ /\ ~ closed /\ Len(queue) >= QueueSize
        /\ handler' = [handler EXCEPT ![r] = "warning"]
        /\ metrics' = [metrics EXCEPT !["dropped"] = @ + 1]
        /\ dropped' = dropped \cup {r}
        /\ UNCHANGED queue
  /\ UNCHANGED <<closed, workerVars, done, output, delivered, undelivered,
                 unlogged, mainVars>>

(* The line audit_event_dropped is written; the handler returns. *)
Warn(r) ==
  /\ Alive
  /\ handler[r] = "warning"
  /\ handler' = [handler EXCEPT ![r] = "done"]
  /\ UNCHANGED <<queue, closed, workerVars, done, metrics, output, historyVars,
                 mainVars, panicked>>

-----------------------------------------------------------------------------
(* The worker goroutine. *)

(* Mutant: the newest event is taken first. *)
ReceiveNewest ==
  /\ Alive
  /\ event = NoEvent
  /\ queue # <<>>
  /\ event' = queue[Len(queue)]
  /\ sink' = 1
  /\ sent' = FALSE
  /\ queue' = SubSeq(queue, 1, Len(queue) - 1)
  /\ UNCHANGED <<handler, closed, done, metrics, output, historyVars,
                 mainVars, panicked>>

Receive ==
  /\ Alive
  /\ event = NoEvent
  /\ queue # <<>>
  /\ event' = Head(queue)
  /\ sink' = 1
  /\ sent' = FALSE
  /\ queue' = Tail(queue)
  /\ UNCHANGED <<handler, closed, done, metrics, output, historyVars,
                 mainVars, panicked>>

(* Mutant: sent tells how the last sink fared. *)
WriteSinkLastDecides(ok) ==
  /\ Alive
  /\ event # NoEvent
  /\ sink <= NumSinks
  /\ sink' = sink + 1
  /\ sent' = ok
  /\ output' = IF ok
               THEN [output EXCEPT ![sink] = Append(@, event)]
               ELSE output
  /\ UNCHANGED <<handler, queue, event, closed, done, metrics, historyVars,
                 mainVars, panicked>>

(* One sink.Write: it writes the event, or returns an error (the sink is   *)
(* down, or the write's five-second context is over), a warning is logged  *)
(* and the next sink is tried all the same.                                *)
WriteSink(ok) ==
  /\ Alive
  /\ event # NoEvent
  /\ sink <= NumSinks
  /\ sink' = sink + 1
  /\ sent' = (sent \/ ok)
  /\ output' = IF ok
               THEN [output EXCEPT ![sink] = Append(@, event)]
               ELSE output
  /\ UNCHANGED <<handler, queue, event, closed, done, metrics, historyVars,
                 mainVars, panicked>>

(* Mutant: an event that every sink failed to write is tried again. *)
FinishWriteRetries ==
  /\ Alive
  /\ event # NoEvent
  /\ sink > NumSinks
  /\ IF sent
     THEN /\ event' = NoEvent
          /\ sink' = 1
          /\ sent' = FALSE
          /\ metrics' = [metrics EXCEPT !["sent"] = @ + 1]
          /\ delivered' = Append(delivered, event)
     ELSE /\ sink' = 1
          /\ UNCHANGED <<event, sent, metrics, delivered>>
  /\ UNCHANGED <<handler, queue, closed, done, output, undelivered, dropped,
                 unlogged, mainVars, panicked>>

(* The event is counted as sent when at least one sink took it. *)
FinishWrite ==
  /\ Alive
  /\ event # NoEvent
  /\ sink > NumSinks
  /\ event' = NoEvent
  /\ sink' = 1
  /\ sent' = FALSE
  /\ \/ /\ sent
        /\ metrics' = [metrics EXCEPT !["sent"] = @ + 1]
        /\ delivered' = Append(delivered, event)
        /\ UNCHANGED undelivered
     \/ /\ ~ sent
        /\ undelivered' = undelivered \cup {event}
        /\ UNCHANGED <<metrics, delivered>>
  /\ UNCHANGED <<handler, queue, closed, done, output, dropped, unlogged,
                 mainVars, panicked>>

(* Mutant: the worker ends at the first closed receive it may see, with    *)
(* events still buffered.                                                  *)
WorkerExitAtClose ==
  /\ Alive
  /\ closed
  /\ ~ done
  /\ event = NoEvent
  /\ done' = TRUE
  /\ UNCHANGED <<handler, queue, closed, workerVars, metrics, output,
                 historyVars, mainVars, panicked>>

(* range over a closed and empty channel ends; the deferred close(done). *)
WorkerExit ==
  /\ Alive
  /\ closed
  /\ ~ done
  /\ queue = <<>>
  /\ event = NoEvent
  /\ done' = TRUE
  /\ UNCHANGED <<handler, queue, closed, workerVars, metrics, output,
                 historyVars, mainVars, panicked>>

Work == Receive \/ (\E ok \in BOOLEAN : WriteSink(ok)) \/ FinishWrite
          \/ WorkerExit

-----------------------------------------------------------------------------
(* main. *)

MainOnly == UNCHANGED <<handler, queue, workerVars, done, metrics, output,
                        historyVars, panicked>>

(* SIGINT or SIGTERM: the deadline starts, server.Shutdown is called. *)
Signal ==
  /\ stage = "serving"
  /\ stage' = "draining"
  /\ UNCHANGED <<closed, expired>>
  /\ MainOnly

Expire ==
  /\ stage # "serving"
  /\ Alive
  /\ ~ expired
  /\ expired' = TRUE
  /\ UNCHANGED <<closed, stage>>
  /\ MainOnly

Active == {r \in Requests : handler[r] \in {"active", "logging", "warning"}}

(* Mutant: main does not wait for active requests. *)
DrainPollHasty ==
  /\ stage = "draining"
  /\ stage' = "closing"
  /\ UNCHANGED <<closed, expired>>
  /\ MainOnly

(* server.Shutdown polls for connections that are still active; it returns *)
(* nil when there are none.                                                *)
DrainPoll ==
  /\ stage = "draining"
  /\ stage' = IF Active = {} THEN "closing" ELSE "waiting"
  /\ UNCHANGED <<closed, expired>>
  /\ MainOnly

DrainAgain ==
  /\ stage = "waiting"
  /\ stage' = "draining"
  /\ UNCHANGED <<closed, expired>>
  /\ MainOnly

(* Mutant: the drain has no deadline. *)
DrainTimeoutNever ==
  /\ stage = "waiting"
  /\ expired
  /\ UNCHANGED vars

(* Its error makes main exit with a line about it, without closing the     *)
(* queue.                                                                  *)
DrainTimeout ==
  /\ stage = "waiting"
  /\ expired
  /\ stage' = "erring"
  /\ UNCHANGED <<closed, expired>>
  /\ MainOnly

(* Dispatcher.Shutdown: close the channel once, then wait for the worker. *)
CloseQueue ==
  /\ stage = "closing"
  /\ closed' = TRUE
  /\ stage' = "flushing"
  /\ UNCHANGED expired
  /\ MainOnly

(* Mutant: Shutdown returns as soon as the channel is closed. *)
FlushDoneAtOnce ==
  /\ stage = "flushing"
  /\ stage' = "reporting"
  /\ UNCHANGED <<closed, expired>>
  /\ MainOnly

FlushDone ==
  /\ stage = "flushing"
  /\ done
  /\ stage' = "reporting"
  /\ UNCHANGED <<closed, expired>>
  /\ MainOnly

FlushTimeout ==
  /\ stage = "flushing"
  /\ expired
  /\ stage' = "erring"
  /\ UNCHANGED <<closed, expired>>
  /\ MainOnly

(* Main's last line is written, gateway_stopped or an error, and the       *)
(* process ends.                                                           *)
Report ==
  /\ stage \in {"reporting", "erring"}
  /\ stage' = IF stage = "reporting" THEN "stopped" ELSE "failed"
  /\ UNCHANGED <<closed, expired>>
  /\ MainOnly

Stop == DrainPoll \/ DrainAgain \/ CloseQueue \/ FlushDone \/ FlushTimeout

(* The process has ended. *)
Terminated ==
  /\ ~ Alive
  /\ UNCHANGED vars

Next ==
  \/ \E r \in Requests :
       \/ Arrive(r)
       \/ FinishUnlogged(r)
       \/ \E class \in {"blocked", "allowed"} : LogCount(r, class)
       \/ LogSend(r)
       \/ Warn(r)
  \/ Work
  \/ Signal
  \/ Expire
  \/ Stop
  \/ DrainTimeout
  \/ Report
  \/ Terminated

Spec == Init /\ [][Next]_vars

(* A handler that has begun to log is scheduled; main is scheduled, its    *)
(* deadline passes, and the select in server.Shutdown, which picks among   *)
(* ready cases at random, does not ignore an expired context for ever.     *)
(* Nothing is assumed of origins, clients, sinks, the worker, or of        *)
(* whoever reads standard output: Warn and Report may never come.          *)
ProcessFairness ==
  /\ \A r \in Requests : WF_vars(LogSend(r))
  /\ WF_vars(Stop)
  /\ WF_vars(Expire)
  /\ SF_vars(DrainTimeout)

FairSpec == Spec /\ ProcessFairness

-----------------------------------------------------------------------------
(* Properties. *)

Elements(s) == {s[i] : i \in DOMAIN s}

Hand == IF event = NoEvent THEN <<>> ELSE <<event>>

Written == UNION {Elements(output[s]) : s \in Sinks}

Logging == {r \in Requests : handler[r] = "logging"}

(* Types of the dispatcher's, the handlers' and main's state. *)
TypeOK ==
  /\ handler \in [Requests -> {"idle", "active", "logging", "warning", "done"}]
  /\ queue \in Seq(Requests)
  /\ Len(queue) <= QueueSize
  /\ closed \in BOOLEAN
  /\ event \in Requests \cup {NoEvent}
  /\ sink \in 1 .. (NumSinks + 1)
  /\ sent \in BOOLEAN
  /\ done \in BOOLEAN
  /\ metrics \in [Counters -> Nat]
  /\ output \in [Sinks -> Seq(Requests)]
  /\ delivered \in Seq(Requests)
  /\ undelivered \subseteq Requests
  /\ dropped \subseteq Requests
  /\ unlogged \subseteq Requests
  /\ stage \in {"serving", "draining", "waiting", "closing", "flushing",
                "reporting", "erring", "stopped", "failed"}
  /\ expired \in BOOLEAN
  /\ panicked \in BOOLEAN

(* No handler ever sends on the closed queue (a panic in Go): main closes  *)
(* it only after the server has drained.                                   *)
NoSendOnClosedQueue == ~ panicked

(* "gateway_stopped" is true: when the process stops in good order, every  *)
(* request that was served has its event settled - offered to every sink,  *)
(* or counted as dropped - and none is left in the queue or in the worker. *)
CleanStopLosesNothing ==
  stage = "stopped" =>
    \A r \in Requests :
      handler[r] # "idle" =>
        r \in Elements(delivered) \cup undelivered \cup dropped \cup unlogged

(* eventsSentTotal counts exactly the events that some sink has written,   *)
(* whichever of the sinks failed.                                          *)
SentMeansWritten ==
  /\ metrics["sent"] = Len(delivered)
  /\ Elements(delivered) \subseteq Written
  /\ undelivered \cap Written = {}
  /\ Written \subseteq Elements(delivered) \cup {event}

(* The request counters balance: every request counted as blocked or       *)
(* allowed is dropped, waiting, in the worker, settled or about to send.   *)
CountersBalance ==
  ~ panicked =>
    metrics["blocked"] + metrics["allowed"] =
      metrics["dropped"] + Len(queue) + Len(Hand) + metrics["sent"]
        + Cardinality(undelivered)
        + Cardinality(Logging)

(* The counters an operator watches tell what became of the requests,      *)
(* whatever failed and however far the shutdown is (audit.go:291-345).     *)
CountersAgree == SentMeansWritten /\ CountersBalance

(* The dispatcher implements the audit trail: accepted once, refused only  *)
(* when full, settled once and in order, across shutdown and sink failure. *)
Trail == INSTANCE AuditTrail
  WITH Events <- Requests, Capacity <- QueueSize,
       pending <- Hand \o queue, refused <- dropped

ImplementsTrail == Trail!TrailSpec

(* After a signal main gets to its last line, although handlers, sinks and *)
(* standard output may hang, and the process ends if that line is taken;   *)
(* when nobody reads standard output any more it does not (main.go:121).   *)
ShutdownEnds ==
  /\ stage = "draining" ~> stage \in {"reporting", "erring"}
  /\ WF_vars(Report) => (stage = "draining" ~> ~ Alive)

(* Sinks that return (ClickHouse has a client timeout; standard output,    *)
(* and the warnings written to it, only if its reader keeps up) keep the   *)
(* worker going.                                                           *)
SinksReturn == WF_vars(Work)

(* If sinks return, every accepted event is settled unless the process     *)
(* ends first.                                                             *)
AcceptedIsSettled ==
  SinksReturn =>
    \A r \in Requests :
      r \in Elements(queue) ~>
        (r \in Elements(delivered) \cup undelivered \/ ~ Alive)

-----------------------------------------------------------------------------
(* The inductive invariant. *)

Placed == Elements(Hand) \cup Elements(queue) \cup Elements(delivered)
            \cup undelivered \cup dropped

(* The stop sequence: main closes the queue once no handler is active, and *)
(* none becomes active again; the worker leaves nothing behind.            *)
StopInv ==
  /\ closed => stage \in {"flushing", "reporting", "erring", "stopped", "failed"}
  /\ closed \/ stage \in {"closing", "flushing", "reporting", "stopped"} =>
       \A r \in Requests : handler[r] \in {"idle", "done"}
  /\ done => closed /\ queue = <<>> /\ event = NoEvent
  /\ stage \in {"reporting", "stopped"} => done
  /\ ~ panicked

(* Where the events are: exactly the requests whose Log has sent or        *)
(* dropped their event have one somewhere.                                 *)
PlaceInv ==
  \A r \in Requests :
    IF handler[r] \in {"warning", "done"} THEN r \in Placed \cup unlogged
                                          ELSE r \notin Placed

(* Types, stop sequence and placement of events: inductive, and it implies *)
(* NoSendOnClosedQueue, CleanStopLosesNothing and the refinement.          *)
DispatcherInv == TypeOK /\ StopInv /\ PlaceInv

(* No event is in two places, or twice in the queue: a settled event is    *)
(* never written or counted again.                                         *)
OnceInv ==
  /\ \A i, j \in DOMAIN queue : queue[i] = queue[j] => i = j
  /\ event \notin Elements(queue)
  /\ (Elements(queue) \cup {event})
       \cap (Elements(delivered) \cup undelivered) = {}

(* While the worker holds an event, sent tells whether a sink wrote it. *)
SinkInv ==
  /\ SentMeansWritten
  /\ event # NoEvent => (sent <=> event \in Written)

BalanceInv ==
  /\ IsFiniteSet(undelivered)
  /\ IsFiniteSet(Logging)
  /\ CountersBalance

(* Inductive; implies CountersAgree. *)
AccountInv == DispatcherInv /\ OnceInv /\ SinkInv /\ BalanceInv

=============================================================================
