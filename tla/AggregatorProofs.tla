-------------------------- MODULE AggregatorProofs --------------------------
(***************************************************************************)
(* Theorems about Aggregator, for any set of requests, any capacity of the *)
(* channel and any number of failures of the journal and the store.        *)
(***************************************************************************)
EXTENDS Aggregator, SequenceTheorems, TLAPS

(***************************************************************************)
(* Sequences in which everything occurs once, at both ends of a channel:   *)
(* an Append of something new, and Head and Tail.                          *)
(***************************************************************************)
Once(s) == \A i, j \in DOMAIN s : s[i] = s[j] => i = j

LEMMA AppendOnce ==
  ASSUME NEW S, NEW s \in Seq(S), NEW e \in S
  PROVE  /\ Append(s, e) \in Seq(S)
         /\ Range(Append(s, e)) = Range(s) \cup {e}
         /\ Once(s) /\ e \notin Range(s) => Once(Append(s, e))
<1> DEFINE t == Append(s, e)
<1>1. /\ t \in Seq(S) /\ Len(t) = Len(s) + 1
      /\ \A i \in 1..Len(s) : t[i] = s[i]
      /\ t[Len(s) + 1] = e
  BY AppendProperties
<1>2. /\ Len(s) \in Nat /\ DOMAIN s = 1..Len(s) /\ DOMAIN t = 1..(Len(s) + 1)
  BY <1>1, LenProperties
<1> HIDE DEF t
<1>3. DOMAIN t = DOMAIN s \cup {Len(s) + 1}
  BY <1>2
<1>4. Range(t) = Range(s) \cup {e}
  BY <1>1, <1>2, <1>3 DEF Range
<1>5. ASSUME Once(s), e \notin Range(s) PROVE Once(t)
  BY <1>1, <1>2, <1>3, <1>5 DEF Once, Range
<1> QED BY <1>1, <1>4, <1>5 DEF t

LEMMA TailOnce ==
  ASSUME NEW S, NEW s \in Seq(S), s # <<>>
  PROVE  /\ Head(s) \in S /\ Tail(s) \in Seq(S) /\ Len(Tail(s)) = Len(s) - 1
         /\ Range(s) = {Head(s)} \cup Range(Tail(s))
         /\ Once(s) => Once(Tail(s)) /\ Head(s) \notin Range(Tail(s))
<1> DEFINE t == Tail(s)
<1>1. /\ Head(s) \in S /\ t \in Seq(S) /\ Len(t) = Len(s) - 1
      /\ \A i \in 1..Len(t) : t[i] = s[i + 1]
      /\ Len(s) \in Nat \ {0}
  BY HeadTailProperties, EmptySeq
<1>2. Head(s) = s[1]
  BY DEF Head
<1>3. DOMAIN s = 1..Len(s) /\ DOMAIN t = 1..(Len(s) - 1)
  BY <1>1, LenProperties
<1> HIDE DEF t
<1>4. Range(t) = {s[i] : i \in 2..Len(s)}
  <2>1. \A i \in 2..Len(s) : i - 1 \in DOMAIN t /\ t[i - 1] = s[i]
    BY <1>1, <1>3
  <2>2. \A i \in DOMAIN t : i + 1 \in 2..Len(s) /\ t[i] = s[i + 1]
    BY <1>1, <1>3
  <2> QED BY <2>1, <2>2 DEF Range
<1>5. DOMAIN s = {1} \cup 2..Len(s)
  BY <1>1, <1>3
<1>6. Range(s) = {s[1]} \cup Range(t)
  BY <1>4, <1>5 DEF Range
<1>7. ASSUME Once(s) PROVE Once(t) /\ s[1] \notin Range(t)
  <2>1. s[1] \notin Range(t)
    BY <1>1, <1>3, <1>4, <1>7 DEF Once
  <2>2. ASSUME NEW i \in DOMAIN t, NEW j \in DOMAIN t, t[i] = t[j] PROVE i = j
    <3>1. i + 1 \in DOMAIN s /\ j + 1 \in DOMAIN s /\ s[i + 1] = s[j + 1]
      BY <1>1, <1>3, <2>2
    <3>2. i + 1 = j + 1
      BY <1>7, <3>1 DEF Once
    <3> QED BY <1>3, <3>2
  <2> QED BY <2>1, <2>2 DEF Once
<1> QED BY <1>1, <1>2, <1>6, <1>7 DEF t

-----------------------------------------------------------------------------
(***************************************************************************)
(* Why each request is in one place only: whatever is queued, batched or   *)
(* answered has left its handler's first select, which it does once.       *)
(***************************************************************************)
Sent == Range(queue) \cup Range(batch) \cup done

PlaceInv ==
  /\ Once(queue) /\ Once(batch)
  /\ Range(batch) \cap Range(queue) = {}
  /\ (Range(batch) \cup Range(queue)) \cap done = {}
  /\ \A r \in Request : r \in Sent => handler[r] \notin {"none", "sending"}

\* The store gets what the journal got: flush is past a successful append.
RecordInv ==
  /\ StoredIsJournaled
  /\ loop = "put" => Range(batch) \subseteq journaled

(***************************************************************************)
(* The channel is closed once the server is closing.  Until then nobody    *)
(* has panicked, until the exit nobody was killed, and if Shutdown had all *)
(* its handlers back nobody is inside Submit from then on.                 *)
(***************************************************************************)
ShutdownInv ==
  /\ closed <=> server \in {"closing", "stopped"}
  /\ ~closed => \A r \in Request : handler[r] # "panicked"
  /\ server # "stopped" => \A r \in Request : handler[r] # "killed"
  /\ closed /\ ~timedOut => \A r \in Request : handler[r] \in {"none", "ok", "cancelled"}

AggregatorInv == TypeOK /\ PlaceInv /\ RecordInv /\ ShutdownInv

LEMMA AggregatorInit == Init => AggregatorInv
<1> SUFFICES ASSUME Init PROVE AggregatorInv
  OBVIOUS
<1>1. queue \in Seq(Request) /\ Len(queue) = 0 /\ batch \in Seq(Request)
  BY EmptySeq DEF Init
<1>2. /\ handler \in [Request -> HandlerState] /\ loop \in LoopState
      /\ faults \in 0..MaxFaults /\ Len(queue) <= QueueCap
  BY <1>1, AggregatorAssumption DEF Init, HandlerState, LoopState
<1>3. TypeOK
  BY <1>1, <1>2 DEF Init, TypeOK
<1>4. Range(queue) = {} /\ Range(batch) = {} /\ DOMAIN queue = {} /\ DOMAIN batch = {}
  BY DEF Init, Range
<1> QED BY <1>3, <1>4
        DEF Init, AggregatorInv, PlaceInv, Once, Sent, RecordInv, StoredIsJournaled,
            ShutdownInv

-----------------------------------------------------------------------------
(***************************************************************************)
(* Steps of the handlers and of main: queue, batch and done stay, and no   *)
(* handler goes back to its first select.                                  *)
(***************************************************************************)
LEMMA HandlersOnly ==
  ASSUME AggregatorInv, UNCHANGED <<queue, done, goroutine>>,
         \A r \in Request : handler'[r] \in {"none", "sending"} =>
                              handler[r] \in {"none", "sending"}
  PROVE  PlaceInv' /\ RecordInv'
<1>1. PlaceInv'
  BY DEF AggregatorInv, PlaceInv, Once, Sent, goroutine
<1>2. RecordInv'
  BY DEF AggregatorInv, RecordInv, StoredIsJournaled, goroutine
<1> QED BY <1>1, <1>2

LEMMA MoveStep ==
  ASSUME AggregatorInv, NEW r \in Request, NEW from, NEW to \in HandlerState,
         Move(r, from, to)
  PROVE  /\ handler' \in [Request -> HandlerState]
         /\ handler[r] = from /\ handler'[r] = to
         /\ \A x \in Request : x # r => handler'[x] = handler[x]
BY DEF Move, AggregatorInv, TypeOK

LEMMA ArriveStep ==
  ASSUME AggregatorInv, NEW r \in Request, Arrive(r)
  PROVE  AggregatorInv'
<1>1. /\ handler' \in [Request -> HandlerState]
      /\ handler[r] = "none" /\ handler'[r] = "sending"
      /\ \A x \in Request : x # r => handler'[x] = handler[x]
  BY MoveStep DEF Arrive, HandlerState
<1>2. UNCHANGED <<queue, closed, done, goroutine, server, timedOut, faults>>
  BY DEF Arrive
<1>3. TypeOK'
  BY <1>1, <1>2 DEF AggregatorInv, TypeOK, goroutine
<1>4. PlaceInv' /\ RecordInv'
  BY <1>1, <1>2, HandlersOnly
<1>5. ShutdownInv'
  BY <1>1, <1>2 DEF Arrive, AggregatorInv, ShutdownInv
<1> QED BY <1>3, <1>4, <1>5 DEF AggregatorInv

\* A handler returns: answered, cancelled or panicking.
LEMMA ReturnStep ==
  ASSUME AggregatorInv, NEW r \in Request, SendPanics(r) \/ Answer(r) \/ Cancel(r)
  PROVE  AggregatorInv'
<1>1. /\ handler' \in [Request -> HandlerState]
      /\ handler[r] \in {"sending", "waiting"}
      /\ handler'[r] \in {"ok", "cancelled"} \/ (handler'[r] = "panicked" /\ closed)
      /\ \A x \in Request : x # r => handler'[x] = handler[x]
  <2>1. CASE SendPanics(r)
    BY <2>1, MoveStep DEF SendPanics, HandlerState
  <2>2. CASE Answer(r)
    BY <2>2, MoveStep DEF Answer, HandlerState
  <2>3. CASE Cancel(r)
    BY <2>3, MoveStep DEF Cancel, HandlerState
  <2> QED BY <2>1, <2>2, <2>3
<1>2. UNCHANGED <<queue, closed, done, goroutine, server, timedOut, faults>>
  BY DEF SendPanics, Answer, Cancel
<1>3. TypeOK'
  BY <1>1, <1>2 DEF AggregatorInv, TypeOK, goroutine
<1>4. PlaceInv' /\ RecordInv'
  BY <1>1, <1>2, HandlersOnly
<1>5. ShutdownInv'
  BY <1>1, <1>2 DEF AggregatorInv, ShutdownInv
<1> QED BY <1>3, <1>4, <1>5 DEF AggregatorInv

LEMMA SendStep ==
  ASSUME AggregatorInv, NEW r \in Request, Send(r)
  PROVE  AggregatorInv'
<1>1. /\ handler' \in [Request -> HandlerState]
      /\ handler[r] = "sending" /\ handler'[r] = "waiting"
      /\ \A x \in Request : x # r => handler'[x] = handler[x]
  BY MoveStep DEF Send, HandlerState
<1>2. /\ UNCHANGED <<closed, done, goroutine, server, timedOut, faults>>
      /\ ~closed /\ Len(queue) < QueueCap /\ queue' = Append(queue, r)
  BY DEF Send
<1>3. /\ queue \in Seq(Request) /\ Len(queue) \in Nat
      /\ queue' \in Seq(Request) /\ Len(queue') = Len(queue) + 1
  BY <1>2, AppendProperties, LenProperties DEF AggregatorInv, TypeOK
<1>4. TypeOK'
  BY <1>1, <1>2, <1>3, AggregatorAssumption DEF AggregatorInv, TypeOK, goroutine
<1>5. r \notin Sent
  BY <1>1 DEF AggregatorInv, PlaceInv
<1>6. Range(queue') = Range(queue) \cup {r} /\ Once(queue')
  BY <1>2, <1>3, <1>5, AppendOnce DEF AggregatorInv, PlaceInv, Sent
<1>7. PlaceInv'
  <2>1. batch' = batch /\ done' = done
    BY <1>2 DEF goroutine
  <2> QED BY <1>1, <1>5, <1>6, <2>1 DEF AggregatorInv, PlaceInv, Sent
<1>8. RecordInv'
  BY <1>2 DEF AggregatorInv, RecordInv, StoredIsJournaled, goroutine
<1>9. ShutdownInv'
  BY <1>1, <1>2 DEF AggregatorInv, ShutdownInv
<1> QED BY <1>4, <1>7, <1>8, <1>9 DEF AggregatorInv

LEMMA MainStep ==
  ASSUME AggregatorInv, Signal \/ Close \/ Exit
  PROVE  AggregatorInv'
<1>1. UNCHANGED <<queue, done, goroutine, faults>>
  BY DEF Signal, Close, CloseQueue, NoFault, Exit
<1>2. CASE Signal
  BY <1>1, <1>2, HandlersOnly DEF Signal, AggregatorInv, TypeOK, ShutdownInv, goroutine
<1>3. CASE Close
  <2>1. /\ handler' = handler /\ server = "draining" /\ server' = "closing" /\ closed'
        /\ (Drained /\ timedOut' = timedOut) \/ timedOut'
        /\ timedOut' \in BOOLEAN
    BY <1>3 DEF Close, CloseQueue, AggregatorInv, TypeOK
  <2>2. closed' \in BOOLEAN
    BY <1>3 DEF Close, CloseQueue
  <2>3. TypeOK'
    BY <1>1, <2>1, <2>2 DEF AggregatorInv, TypeOK, goroutine
  <2>4. Drained => \A r \in Request : handler[r] \in {"none", "ok", "cancelled"}
    BY <2>1 DEF Drained, Finished, AggregatorInv, ShutdownInv
  <2>5. ShutdownInv'
    BY <2>1, <2>4 DEF AggregatorInv, ShutdownInv
  <2> QED BY <1>1, <2>1, <2>3, <2>5, HandlersOnly DEF AggregatorInv
<1>4. CASE Exit
  <2>1. /\ closed' = closed /\ timedOut' = timedOut /\ server = "closing"
        /\ server' = "stopped"
        /\ \A r \in Request : handler'[r] =
             IF handler[r] \in Finished \cup {"none"} THEN handler[r] ELSE "killed"
    BY <1>4 DEF Exit
  <2>2. handler' \in [Request -> HandlerState]
    BY <1>4 DEF Exit, AggregatorInv, TypeOK, HandlerState
  <2>3. TypeOK'
    BY <1>1, <2>1, <2>2 DEF AggregatorInv, TypeOK, goroutine
  <2>4. ShutdownInv'
    BY <2>1 DEF AggregatorInv, ShutdownInv, Finished
  <2>5. PlaceInv' /\ RecordInv'
    BY <1>1, <2>1, HandlersOnly
  <2> QED BY <2>3, <2>4, <2>5 DEF AggregatorInv
<1> QED BY <1>2, <1>3, <1>4

-----------------------------------------------------------------------------
(***************************************************************************)
(* Steps of the goroutine: the handlers and main are left alone.           *)
(***************************************************************************)
LEMMA LoopOnly ==
  ASSUME AggregatorInv, UNCHANGED handlers
  PROVE  ShutdownInv'
BY DEF AggregatorInv, ShutdownInv, handlers

LEMMA ReceiveStep ==
  ASSUME AggregatorInv, Receive
  PROVE  AggregatorInv'
<1>1. /\ loop = "select" /\ queue # <<>>
      /\ batch' = Append(batch, Head(queue)) /\ queue' = Tail(queue)
      /\ UNCHANGED <<handlers, done, loop, attested, journaled, stored, faults>>
  BY DEF Receive
<1>2. /\ queue \in Seq(Request) /\ batch \in Seq(Request)
      /\ Len(queue) \in Nat /\ Len(queue) <= QueueCap
  BY LenProperties DEF AggregatorInv, TypeOK
<1>3. /\ Head(queue) \in Request /\ queue' \in Seq(Request)
      /\ Len(queue') = Len(queue) - 1
      /\ Range(queue) = {Head(queue)} \cup Range(queue')
      /\ Once(queue) => Once(queue') /\ Head(queue) \notin Range(queue')
  BY <1>1, <1>2, TailOnce
<1>4. /\ batch' \in Seq(Request)
      /\ Range(batch') = Range(batch) \cup {Head(queue)}
      /\ Once(batch) /\ Head(queue) \notin Range(batch) => Once(batch')
  BY <1>1, <1>2, <1>3, AppendOnce
<1>5. TypeOK'
  BY <1>1, <1>2, <1>3, <1>4, AggregatorAssumption DEF AggregatorInv, TypeOK, handlers
<1>6. PlaceInv'
  BY <1>1, <1>3, <1>4 DEF AggregatorInv, PlaceInv, Sent, handlers
<1>7. RecordInv'
  BY <1>1 DEF AggregatorInv, RecordInv, StoredIsJournaled
<1> QED BY <1>1, <1>5, <1>6, <1>7, LoopOnly DEF AggregatorInv

\* A tick, and the end of the channel: only the goroutine's place changes.
LEMMA SelectStep ==
  ASSUME AggregatorInv, Tick \/ ChannelClosed
  PROVE  AggregatorInv'
<1>1. /\ loop' \in {"submit", "exited"}
      /\ UNCHANGED <<handlers, queue, batch, done, attested, journaled, stored, faults>>
  BY DEF Tick, ChannelClosed, OnceClosed
<1>2. TypeOK'
  BY <1>1 DEF AggregatorInv, TypeOK, handlers, LoopState
<1>3. PlaceInv'
  BY <1>1 DEF AggregatorInv, PlaceInv, Once, Sent, handlers
<1>4. RecordInv'
  BY <1>1 DEF AggregatorInv, RecordInv, StoredIsJournaled
<1> QED BY <1>1, <1>2, <1>3, <1>4, LoopOnly DEF AggregatorInv

LEMMA FaultsBounded ==
  ASSUME AggregatorInv, NEW kind, NoFault \/ Fault(kind)
  PROVE  faults' \in 0..MaxFaults
BY AggregatorAssumption DEF AggregatorInv, TypeOK, NoFault, Fault

LEMMA BatchRange ==
  ASSUME AggregatorInv
  PROVE  Range(batch) \subseteq Request
<1>1. batch \in Seq(Request)
  BY DEF AggregatorInv, TypeOK
<1>2. \A i \in DOMAIN batch : batch[i] \in Request
  BY <1>1, ElementOfSeq, LenProperties
<1> QED BY <1>2 DEF Range

\* Service.Submit: nothing is stored unless its journal append succeeded.
LEMMA JournalStepInv ==
  ASSUME AggregatorInv, FlushJournal
  PROVE  AggregatorInv'
<1>1. /\ attested' = attested \cup Range(batch)
      /\ \/ loop' = "put" /\ journaled' = journaled \cup Range(batch)
         \/ loop' = "reply" /\ journaled' = journaled
      /\ UNCHANGED <<handlers, queue, batch, done, stored>>
  BY DEF FlushJournal, JournalStep
<1>2. faults' \in 0..MaxFaults
  BY FaultsBounded DEF FlushJournal, JournalStep
<1>3. TypeOK'
  BY <1>1, <1>2, BatchRange DEF AggregatorInv, TypeOK, handlers, LoopState
<1>4. PlaceInv'
  BY <1>1 DEF AggregatorInv, PlaceInv, Once, Sent, handlers
<1>5. RecordInv'
  BY <1>1 DEF AggregatorInv, RecordInv, StoredIsJournaled
<1> QED BY <1>1, <1>3, <1>4, <1>5, LoopOnly DEF AggregatorInv

LEMMA PutStep ==
  ASSUME AggregatorInv, FlushPut
  PROVE  AggregatorInv'
<1>1. /\ loop = "put" /\ loop' = "reply"
      /\ stored' = stored \cup Range(batch) \/ stored' = stored
      /\ UNCHANGED <<handlers, queue, batch, done, attested, journaled>>
  BY DEF FlushPut
<1>2. faults' \in 0..MaxFaults
  BY FaultsBounded DEF FlushPut
<1>3. TypeOK'
  BY <1>1, <1>2, BatchRange DEF AggregatorInv, TypeOK, handlers, LoopState
<1>4. PlaceInv'
  BY <1>1 DEF AggregatorInv, PlaceInv, Once, Sent, handlers
<1>5. RecordInv'
  BY <1>1 DEF AggregatorInv, RecordInv, StoredIsJournaled
<1> QED BY <1>1, <1>3, <1>4, <1>5, LoopOnly DEF AggregatorInv

\* The batch moves to done as a whole and is emptied.
LEMMA ReplyStep ==
  ASSUME AggregatorInv, FlushReply
  PROVE  AggregatorInv'
<1>1. /\ loop' = "select" /\ batch' = <<>> /\ done' = done \cup Range(batch)
      /\ UNCHANGED <<handlers, queue, attested, journaled, stored, faults>>
  BY DEF FlushReply, Wake
<1>2. batch' \in Seq(Request) /\ Range(batch') = {} /\ Once(batch')
  BY <1>1, EmptySeq DEF Range, Once
<1>3. TypeOK'
  BY <1>1, <1>2, BatchRange DEF AggregatorInv, TypeOK, handlers, LoopState
<1>4. Once(queue')
  BY <1>1 DEF AggregatorInv, PlaceInv
<1>5. PlaceInv'
  BY <1>1, <1>2, <1>4 DEF AggregatorInv, PlaceInv, Sent, handlers
<1>6. RecordInv'
  BY <1>1 DEF AggregatorInv, RecordInv, StoredIsJournaled
<1> QED BY <1>1, <1>3, <1>5, <1>6, LoopOnly DEF AggregatorInv

-----------------------------------------------------------------------------
LEMMA AggregatorStep ==
  ASSUME AggregatorInv, [Next]_vars
  PROVE  AggregatorInv'
<1>1. ASSUME NEW r \in Request, Arrive(r) \/ HandlerStep(r) \/ Cancel(r)
      PROVE  AggregatorInv'
  BY <1>1, ArriveStep, SendStep, ReturnStep DEF HandlerStep
<1>2. CASE LoopStep
  BY <1>2, ReceiveStep, SelectStep, JournalStepInv, PutStep, ReplyStep DEF LoopStep
<1>3. CASE Signal \/ Close \/ Exit
  BY <1>3, MainStep
<1>4. CASE UNCHANGED vars
  BY <1>4 DEF vars, AggregatorInv, TypeOK, PlaceInv, Once, Sent, RecordInv,
              StoredIsJournaled, ShutdownInv
<1> QED BY <1>1, <1>2, <1>3, <1>4 DEF Next

(***************************************************************************)
(* The strengthening behind the theorems below is inductive: the types,    *)
(* where every request is, what the flush in progress has recorded, and    *)
(* what a closed channel means for the handlers.                           *)
(***************************************************************************)
THEOREM AggregatorInvariant == Spec => []AggregatorInv
<1>1. Init => AggregatorInv
  BY AggregatorInit
<1>2. AggregatorInv /\ [Next]_vars => AggregatorInv'
  BY AggregatorStep
<1> QED BY <1>1, <1>2, PTL DEF Spec

(***************************************************************************)
(* The variables keep their types; in particular Aggregator.Submit never   *)
(* puts more into the channel than its capacity.                           *)
(***************************************************************************)
THEOREM QueueBounded == Spec => []TypeOK
<1>1. AggregatorInv => TypeOK
  BY DEF AggregatorInv
<1> QED BY <1>1, AggregatorInvariant, PTL

(***************************************************************************)
(* Every digest is in at most one commitment, and flush closes every done  *)
(* channel at most once, for any number of handlers and any interleaving.  *)
(***************************************************************************)
THEOREM EachOnce == Spec => []SubmittedOnce
<1>1. AggregatorInv => SubmittedOnce
  BY DEF AggregatorInv, PlaceInv, Once, SubmittedOnce
<1> QED BY <1>1, AggregatorInvariant, PTL

(***************************************************************************)
(* Service.Submit stores nothing that is not in the journal, whichever of  *)
(* its two writes fails and although flush ignores that it did.            *)
(***************************************************************************)
THEOREM JournalFirst == Spec => []StoredIsJournaled
<1>1. AggregatorInv => StoredIsJournaled
  BY DEF AggregatorInv, RecordInv
<1> QED BY <1>1, AggregatorInvariant, PTL

(***************************************************************************)
(* main's order, Shutdown, Close, exit, loses no client unless Shutdown's  *)
(* ten seconds run out: nobody sends on the closed channel, and nobody is  *)
(* inside Submit when the process ends.                                    *)
(***************************************************************************)
THEOREM ShutdownLosesNobody == Spec => []GracefulShutdown
<1>1. AggregatorInv => GracefulShutdown
  BY DEF AggregatorInv, ShutdownInv, GracefulShutdown
<1> QED BY <1>1, AggregatorInvariant, PTL

-----------------------------------------------------------------------------
(***************************************************************************)
(* Without a failing journal a receipt is worth what docs/COMPLIANCE.md    *)
(* says: whoever is woken is journaled, and whoever was answered was woken *)
(* before.                                                                 *)
(***************************************************************************)
ReceiptInv ==
  /\ \A r \in Request : handler[r] = "ok" => r \in done
  /\ done \subseteq journaled
  /\ loop \in {"put", "reply"} => Range(batch) \subseteq journaled

LEMMA ReceiptStep ==
  ASSUME "journal" \notin FaultKinds, AggregatorInv, ReceiptInv, [Next]_vars
  PROVE  ReceiptInv'
<1>1. handler \in [Request -> HandlerState]
  BY DEF AggregatorInv, TypeOK
<1>2. ASSUME NEW r \in Request, Arrive(r) \/ HandlerStep(r) \/ Cancel(r)
      PROVE  ReceiptInv'
  <2>1. UNCHANGED <<done, goroutine>>
    BY <1>2 DEF Arrive, HandlerStep, Send, SendPanics, Answer, Cancel
  <2>2. \A x \in Request : handler'[x] = "ok" => handler[x] = "ok" \/ x \in done
    BY <1>1, <1>2
       DEF Arrive, HandlerStep, Send, SendPanics, Answer, Cancel, Move
  <2> QED BY <2>1, <2>2 DEF ReceiptInv, goroutine
<1>3. CASE Receive \/ Tick \/ ChannelClosed
  <2>1. UNCHANGED <<handler, done, journaled>> /\ loop' \in {"select", "submit", "exited"}
    BY <1>3 DEF Receive, Tick, ChannelClosed, OnceClosed, handlers
  <2> QED BY <2>1 DEF ReceiptInv
<1>4. CASE FlushJournal
  <2>1. /\ loop' = "put" /\ journaled' = journaled \cup Range(batch)
        /\ UNCHANGED <<handler, batch, done>>
    BY <1>4 DEF FlushJournal, JournalStep, Fault, handlers
  <2> QED BY <2>1 DEF ReceiptInv
<1>5. CASE FlushPut
  <2>1. loop = "put" /\ UNCHANGED <<handler, batch, done, journaled>>
    BY <1>5 DEF FlushPut, handlers
  <2> QED BY <2>1 DEF ReceiptInv
<1>6. CASE FlushReply
  <2>1. /\ loop = "reply" /\ loop' = "select" /\ done' = done \cup Range(batch)
        /\ UNCHANGED <<handler, journaled>>
    BY <1>6 DEF FlushReply, Wake, handlers
  <2> QED BY <2>1 DEF ReceiptInv
<1>7. CASE Signal \/ Close \/ Exit
  <2>1. UNCHANGED <<done, goroutine>>
    BY <1>7 DEF Signal, Close, CloseQueue, Exit
  <2>2. \A x \in Request : handler'[x] = "ok" => handler[x] = "ok"
    BY <1>7 DEF Signal, Close, CloseQueue, Exit
  <2> QED BY <2>1, <2>2 DEF ReceiptInv, goroutine
<1>8. CASE UNCHANGED vars
  BY <1>8 DEF vars, ReceiptInv
<1> QED BY <1>2, <1>3, <1>4, <1>5, <1>6, <1>7, <1>8 DEF Next, LoopStep

(***************************************************************************)
(* If the journal does not fail, every client that was answered has its    *)
(* digest under a journaled commitment, whatever the store does: a failed  *)
(* append, whose error flush drops, is the only way to an empty receipt.   *)
(***************************************************************************)
THEOREM ReceiptsRecorded ==
  ASSUME "journal" \notin FaultKinds
  PROVE  Spec => []ReceiptRecorded
<1>1. Init => ReceiptInv
  <2> SUFFICES ASSUME Init PROVE ReceiptInv
    OBVIOUS
  <2> QED BY DEF Init, ReceiptInv
<1>2. AggregatorInv /\ ReceiptInv /\ [Next]_vars => ReceiptInv'
  BY ReceiptStep
<1>3. AggregatorInv /\ ReceiptInv => ReceiptRecorded
  BY DEF ReceiptInv, ReceiptRecorded
<1> QED BY <1>1, <1>2, <1>3, AggregatorInvariant, PTL DEF Spec
=============================================================================
