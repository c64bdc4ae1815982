----------------------------- MODULE Aggregator -----------------------------
(***************************************************************************)
(* internal/calendar/aggregator.go with the callers around it: request     *)
(* handlers (api/calendarserver) send digests through a bounded channel to *)
(* one goroutine, which collects a batch and, at a tick, hashes it into    *)
(* one commitment, gives that to Service.Submit (calendar.go) and wakes    *)
(* the handlers; and main's shutdown, which stops the server and then      *)
(* closes the channel.                                                     *)
(***************************************************************************)
EXTENDS Integers, Sequences, FiniteSets, Functions

CONSTANTS
  Request,     \* the requests, one digest each
  QueueCap,    \* capacity of the channel (1024 in the code)
  FaultKinds,  \* which of "journal", "put" may happen
  MaxFaults    \* bound: faults in one behaviour

ASSUME AggregatorAssumption ==
  /\ QueueCap \in Nat \ {0}
  /\ MaxFaults \in Nat

VARIABLES
  handler,     \* where each request's handler is
  queue,       \* a.queue
  closed,      \* close(a.queue) has been called
  batch,       \* the goroutine's batch
  done,        \* requests whose done channel is closed
  loop,        \* where the goroutine is
  attested,    \* requests whose tree carries the pending attestation
  journaled,   \* requests under a commitment in the journal
  stored,      \* requests under a commitment in the store
  server,      \* "serving", "draining" (Shutdown), "closing" (Close), "stopped"
  timedOut,    \* Shutdown returned because its 10 seconds were over
  faults       \* faults so far

vars == <<handler, queue, closed, batch, done, loop, attested, journaled,
          stored, server, timedOut, faults>>

HandlerState == {"none", "sending", "waiting", "ok", "cancelled", "panicked", "killed"}

LoopState == {"select", "submit", "put", "reply", "exited"}

Finished == {"ok", "cancelled", "panicked", "killed"}

TypeOK ==
  /\ handler \in [Request -> HandlerState]
  /\ queue \in Seq(Request) /\ Len(queue) <= QueueCap
  /\ closed \in BOOLEAN
  /\ batch \in Seq(Request)
  /\ done \subseteq Request
  /\ loop \in LoopState
  /\ attested \subseteq Request
  /\ journaled \subseteq Request
  /\ stored \subseteq Request
  /\ server \in {"serving", "draining", "closing", "stopped"}
  /\ timedOut \in BOOLEAN
  /\ faults \in 0..MaxFaults

Init ==
  /\ handler = [r \in Request |-> "none"]
  /\ queue = <<>>
  /\ closed = FALSE
  /\ batch = <<>>
  /\ done = {}
  /\ loop = "select"
  /\ attested = {}
  /\ journaled = {}
  /\ stored = {}
  /\ server = "serving"
  /\ timedOut = FALSE
  /\ faults = 0

Fault(kind) ==
  /\ kind \in FaultKinds
  /\ faults < MaxFaults
  /\ faults' = faults + 1

NoFault == UNCHANGED faults

Move(r, from, to) ==
  /\ handler[r] = from
  /\ handler' = [handler EXCEPT ![r] = to]

goroutine == <<batch, loop, attested, journaled, stored>>

-----------------------------------------------------------------------------
(***************************************************************************)
(* Aggregator.Submit, run by a handler.  Where both cases of a select are  *)
(* ready Go picks either, so the cancelled outcomes are always possible.   *)
(***************************************************************************)
Arrive(r) ==
  /\ server = "serving"
  /\ Move(r, "none", "sending")
  /\ UNCHANGED <<queue, closed, done, goroutine, server, timedOut, faults>>

\* Mutant: the channel is not bounded.
SendUnbounded(r) ==
  /\ ~closed
  /\ Move(r, "sending", "waiting")
  /\ queue' = Append(queue, r)
  /\ UNCHANGED <<closed, done, goroutine, server, timedOut, faults>>

Send(r) ==
  /\ ~closed
  /\ Len(queue) < QueueCap
  /\ Move(r, "sending", "waiting")
  /\ queue' = Append(queue, r)
  /\ UNCHANGED <<closed, done, goroutine, server, timedOut, faults>>

\* A send on the closed channel panics; net/http drops the connection.
SendPanics(r) ==
  /\ closed
  /\ Move(r, "sending", "panicked")
  /\ UNCHANGED <<queue, closed, done, goroutine, server, timedOut, faults>>

Answer(r) ==
  /\ r \in done
  /\ Move(r, "waiting", "ok")
  /\ UNCHANGED <<queue, closed, done, goroutine, server, timedOut, faults>>

\* The client is gone: ctx.Done() in the first or the second select.
Cancel(r) ==
  /\ server # "stopped"
  /\ Move(r, "sending", "cancelled") \/ Move(r, "waiting", "cancelled")
  /\ UNCHANGED <<queue, closed, done, goroutine, server, timedOut, faults>>

-----------------------------------------------------------------------------
(***************************************************************************)
(* The goroutine: receive into the batch, or flush at a tick, or flush and *)
(* return once the channel is closed and drained.                          *)
(***************************************************************************)
handlers == <<handler, closed, server, timedOut>>

Receive ==
  /\ loop = "select"
  /\ queue # <<>>
  /\ batch' = Append(batch, Head(queue))
  /\ queue' = Tail(queue)
  /\ UNCHANGED <<handlers, done, loop, attested, journaled, stored, faults>>

Tick ==
  /\ loop = "select"
  /\ batch # <<>>
  /\ loop' = "submit"
  /\ UNCHANGED <<handlers, queue, batch, done, attested, journaled, stored, faults>>

OnceClosed(next) ==
  /\ loop = "select"
  /\ closed /\ queue = <<>>
  /\ loop' = next
  /\ UNCHANGED <<handlers, queue, batch, done, attested, journaled, stored, faults>>

\* Mutants: the goroutine returns without the last flush; it never returns.
ExitAtOnce == OnceClosed("exited")
NoReturn == OnceClosed(IF batch = <<>> THEN "select" ELSE "submit")

ChannelClosed == OnceClosed(IF batch = <<>> THEN "exited" ELSE "submit")

(***************************************************************************)
(* flush: MakeMerkleTree, then Service.Submit.  Submit hangs the pending   *)
(* attestation on the tree before it writes the journal and the store, and *)
(* flush ignores the error it returns.                                     *)
(***************************************************************************)
JournalStep(onError) ==
  /\ loop = "submit"
  /\ attested' = attested \cup Range(batch)
  /\ \/ /\ NoFault
        /\ journaled' = journaled \cup Range(batch)
        /\ loop' = "put"
     \/ /\ Fault("journal")
        /\ loop' = onError
        /\ UNCHANGED journaled
  /\ UNCHANGED <<handlers, queue, batch, done, stored>>

\* Mutant: Submit goes on to the store when the journal failed.
JournalErrorIgnored == JournalStep("put")

FlushJournal == JournalStep("reply")

FlushPut ==
  /\ loop = "put"
  /\ loop' = "reply"
  /\ \/ NoFault /\ stored' = stored \cup Range(batch)
     \/ Fault("put") /\ UNCHANGED stored
  /\ UNCHANGED <<handlers, queue, batch, done, attested, journaled>>

Wake(rs) ==
  /\ loop = "reply"
  /\ done' = done \cup rs
  /\ loop' = "select"
  /\ UNCHANGED <<handlers, queue, attested, journaled, stored, faults>>

\* Mutants: the batch is not emptied; nobody is woken when Submit failed.
FlushKeepsBatch == Wake(Range(batch)) /\ UNCHANGED batch
WakeIfRecorded == Wake(Range(batch) \cap stored) /\ batch' = <<>>

\* Every request of the batch is woken, whatever became of the commitment.
FlushReply == Wake(Range(batch)) /\ batch' = <<>>

-----------------------------------------------------------------------------
(***************************************************************************)
(* main on SIGTERM: Shutdown waits for the handlers, at most 10 seconds;   *)
(* Close closes the channel and waits for the goroutine; then the process  *)
(* ends, and with it the handlers that are left.                           *)
(***************************************************************************)
Signal ==
  /\ server = "serving"
  /\ server' = "draining"
  /\ UNCHANGED <<handler, queue, closed, done, goroutine, timedOut, faults>>

Drained == \A r \in Request : handler[r] \in Finished \cup {"none"}

CloseQueue ==
  /\ server' = "closing"
  /\ closed' = TRUE
  /\ UNCHANGED <<handler, queue, done, goroutine>>

\* Mutant: the aggregator is closed without waiting for the handlers.
CloseFirst ==
  /\ server = "draining"
  /\ NoFault
  /\ CloseQueue
  /\ UNCHANGED timedOut

Close ==
  /\ server = "draining"
  /\ \/ Drained /\ NoFault /\ UNCHANGED timedOut
     \/ ~Drained /\ NoFault /\ timedOut' = TRUE
  /\ CloseQueue

Exit ==
  /\ server = "closing"
  /\ loop = "exited"
  /\ server' = "stopped"
  /\ handler' = [r \in Request |-> IF handler[r] \in Finished \cup {"none"}
                                   THEN handler[r] ELSE "killed"]
  /\ UNCHANGED <<queue, closed, done, goroutine, timedOut, faults>>

HandlerStep(r) == Send(r) \/ SendPanics(r) \/ Answer(r)

LoopStep ==
  \/ Receive \/ Tick \/ ChannelClosed
  \/ FlushJournal \/ FlushPut \/ FlushReply

Next ==
  \/ \E r \in Request : Arrive(r) \/ HandlerStep(r) \/ Cancel(r)
  \/ LoopStep
  \/ Signal \/ Close \/ Exit

Spec == Init /\ [][Next]_vars

(***************************************************************************)
(* Fairness: the runtime schedules every handler and the goroutine, the    *)
(* ticker fires, and main goes on once it has been signalled.  Clients     *)
(* need not cancel and no signal need arrive.                              *)
(***************************************************************************)
Fairness ==
  /\ \A r \in Request : WF_vars(HandlerStep(r))
  /\ WF_vars(LoopStep)
  /\ WF_vars(Close) /\ WF_vars(Exit)

FairSpec == Spec /\ Fairness

-----------------------------------------------------------------------------
(***************************************************************************)
(* Every digest is in at most one commitment and its done channel is       *)
(* closed at most once (a second close would panic the goroutine and the   *)
(* process): queue and batch hold each request once, and none that was     *)
(* answered.                                                               *)
(***************************************************************************)
SubmittedOnce ==
  /\ \A i, j \in DOMAIN batch : batch[i] = batch[j] => i = j
  /\ \A i, j \in DOMAIN queue : queue[i] = queue[j] => i = j
  /\ Range(batch) \cap Range(queue) = {}
  /\ (Range(batch) \cup Range(queue)) \cap done = {}

(***************************************************************************)
(* calendar.go, WithJournal: Submit durably appends "every commitment to   *)
(* the journal before it reaches the store", also when one of them fails:  *)
(* a stored proof the stamper will never see would stay pending for ever.  *)
(***************************************************************************)
StoredIsJournaled == stored \subseteq journaled

(***************************************************************************)
(* A shutdown that does not run into its timeout loses no client: when the *)
(* process has ended, every request that had arrived was answered, or its  *)
(* client had gone (main's order: Shutdown, then Close, then exit).        *)
(***************************************************************************)
GracefulShutdown ==
  server = "stopped" /\ ~timedOut =>
    \A r \in Request : handler[r] \in {"none", "ok", "cancelled"}

(***************************************************************************)
(* docs/COMPLIANCE.md: "Every hash ever submitted remains recorded": a     *)
(* client that was answered has its digest under a journaled commitment.   *)
(***************************************************************************)
ReceiptRecorded == \A r \in Request : handler[r] = "ok" => r \in journaled

(***************************************************************************)
(* Every request that is sent is dealt with, also when the queue is full,  *)
(* when the journal or the store fails, and during a shutdown.             *)
(***************************************************************************)
EveryRequestEnds ==
  \A r \in Request : (handler[r] = "sending") ~> (handler[r] \in Finished)

(***************************************************************************)
(* Accepted digests are recorded even when their client has gone and even  *)
(* during a shutdown: what entered the queue reaches a journal append.     *)
(***************************************************************************)
QueuedIsAttempted ==
  \A r \in Request : (r \in Range(queue)) ~> (r \in attested)

(***************************************************************************)
(* main gets to the end: Close's wait for the goroutine never hangs.       *)
(***************************************************************************)
ShutdownEnds == (server = "draining") ~> (server = "stopped")
=============================================================================
