----------------------------- MODULE SseStream -----------------------------
(***************************************************************************)
(* One response of /ask/stream (event_stream and cached_stream of          *)
(* src/api.py): a producer thread pulls tokens from the model's generator  *)
(* into a bounded queue, and the response generator, on the event loop,    *)
(* moves them to the client, watches for a disconnect and for the duration *)
(* ceiling, and keeps the finished exchange.                               *)
(*                                                                         *)
(* The response generator can be interleaved, and cancelled, exactly at    *)
(* its awaits and yields: each value of `pc' is one such point.  The       *)
(* producer is interleaved at its flag test, its put and the upstream read.*)
(***************************************************************************)
EXTENDS Integers, Sequences, FiniteSets

CONSTANTS
    MaxTokens,     \* bound on the tokens of an answer
    QueueSize,     \* maxsize of the event queue
    CacheEnabled   \* settings.cache_enabled

ASSUME BoundsAssumption == MaxTokens \in Nat /\ QueueSize \in Nat \ {0}
ASSUME CacheAssumption  == CacheEnabled \in BOOLEAN

VARIABLES
    \* what the upstream will do with this request
    length,        \* tokens of the whole answer
    complete,      \* TRUE if the answer ends, FALSE if it breaks off
    cached,        \* TRUE if the answer comes from the semantic cache
    \* the producer thread
    ppc,           \* where it is
    produced,      \* tokens pulled from the generator
    item,          \* the event it is about to put
    generator,     \* the token generator: open, finished or closed
    \* shared by the two threads
    events,        \* the queue
    stop,          \* the stop flag
    \* the response generator
    pc,            \* where it is suspended
    answer,        \* full_answer
    completed, finished, disconnected,
    \* the outside
    clientGone,    \* the client has disconnected
    overdue,       \* sse_max_duration_seconds have passed
    rows,          \* rows of this exchange kept: user, assistant, cache
    keptAnswer,    \* the answer written into the rows, <<>> if none
    active,        \* SSE_ACTIVE
    disconnects,   \* SSE_DISCONNECTS
    orphan,        \* a get whose response is gone still waits for an event
    extra          \* history: events taken after the ceiling had passed

script == <<length, complete, cached>>
producerVars == <<ppc, produced, item, generator>>
flags == <<completed, finished, disconnected>>
outside == <<clientGone, overdue>>
store == <<rows, keptAnswer>>
gauges == <<active, disconnects>>
rest == <<producerVars, events, stop, answer, store, gauges, orphan, extra>>
vars == <<script, producerVars, events, stop, pc, answer, flags, outside, store,
          gauges, orphan, extra>>

Token(i) == <<"token", i>>
DoneItem == <<"done">>
ErrorItem == <<"error">>
Items == {Token(i) : i \in 1..MaxTokens} \cup {DoneItem, ErrorItem}

\* The first n tokens of the answer.
FirstTokens(n) == [i \in 1..n |-> i]

Rows == IF CacheEnabled THEN 3 ELSE 2

Init ==
    /\ length \in 0..MaxTokens
    /\ complete \in BOOLEAN
    /\ cached \in BOOLEAN
    /\ cached => complete /\ length > 0 /\ CacheEnabled
    /\ ppc = "unstarted"
    /\ produced = 0
    /\ item = DoneItem
    /\ generator = "open"
    /\ events = <<>>
    /\ stop = FALSE
    /\ pc = "new"
    /\ answer = <<>>
    /\ completed = FALSE
    /\ finished = FALSE
    /\ disconnected = FALSE
    /\ clientGone = FALSE
    /\ overdue = FALSE
    /\ rows = 0
    /\ keptAnswer = <<>>
    /\ active = 0
    /\ disconnects = 0
    /\ orphan = FALSE
    /\ extra = 0

-----------------------------------------------------------------------------
(* The producer thread: produce and put_event.                             *)

Pull(it) ==
    /\ ppc = "pull"
    /\ item' = it
    /\ ppc' = "test"
    /\ UNCHANGED <<script, events, stop, pc, answer, flags, outside, store,
                   gauges, orphan, extra>>

\* The generator yields a token, returns or raises.
PullToken ==
    /\ produced < length
    /\ Pull(Token(produced + 1))
    /\ produced' = produced + 1
    /\ UNCHANGED generator

PullEnd ==
    /\ produced = length
    /\ Pull(IF complete THEN DoneItem ELSE ErrorItem)
    /\ generator' = "finished"
    /\ UNCHANGED produced

\* The stop flag is tested before every put.
TestStop ==
    /\ ppc = "test"
    /\ ppc' = IF stop THEN "dead" ELSE "put"
    /\ UNCHANGED <<script, produced, item, generator, events, stop, pc, answer,
                   flags, outside, store, gauges, orphan, extra>>

\* Mutated form: a full queue drops its oldest event instead of waiting.
PutDroppingOldest ==
    /\ ppc = "put"
    /\ events' = IF Len(events) < QueueSize THEN Append(events, item)
                                             ELSE Append(Tail(events), item)
    /\ ppc' = IF item \in {DoneItem, ErrorItem} THEN "dead" ELSE "pull"
    /\ UNCHANGED <<script, produced, item, generator, stop, pc, answer, flags,
                   outside, store, gauges, orphan, extra>>

\* Mutated form: the queue has no maxsize.
PutUnbounded ==
    /\ ppc = "put"
    /\ events' = Append(events, item)
    /\ ppc' = IF item \in {DoneItem, ErrorItem} THEN "dead" ELSE "pull"
    /\ UNCHANGED <<script, produced, item, generator, stop, pc, answer, flags,
                   outside, store, gauges, orphan, extra>>

Put ==
    /\ ppc = "put"
    /\ Len(events) < QueueSize
    /\ events' = Append(events, item)
    /\ ppc' = IF item \in {DoneItem, ErrorItem} THEN "dead" ELSE "pull"
    /\ UNCHANGED <<script, produced, item, generator, stop, pc, answer, flags,
                   outside, store, gauges, orphan, extra>>

\* Mutated form: a put that finds the queue full tries again without a look
\* at the stop flag.
PutWaits ==
    /\ ppc = "put"
    /\ Len(events) = QueueSize
    /\ UNCHANGED vars

\* queue.Full after half a second: back to the test.
PutTimesOut ==
    /\ ppc = "put"
    /\ Len(events) = QueueSize
    /\ ppc' = "test"
    /\ UNCHANGED <<script, produced, item, generator, events, stop, pc, answer,
                   flags, outside, store, gauges, orphan, extra>>

Producer == PullToken \/ PullEnd \/ TestStop \/ Put \/ PutTimesOut

-----------------------------------------------------------------------------
(* event_stream, from yield to yield.                                      *)

Quiet == UNCHANGED <<script, outside>>

\* The first step: gauge, producer thread, sources event.
Start ==
    /\ pc = "new" /\ ~cached
    /\ active' = active + 1
    /\ ppc' = "pull"
    /\ pc' = "loop"
    /\ UNCHANGED <<produced, item, generator, events, stop, answer, flags,
                   store, disconnects, orphan, extra>>
    /\ Quiet

\* Mutated form: the stop flag is left alone.
SeeDisconnectOnly ==
    /\ pc = "loop" /\ clientGone
    /\ disconnected' = TRUE
    /\ pc' = "loop"
    /\ UNCHANGED <<producerVars, events, stop, answer, completed, finished,
                   store, gauges, orphan, extra>>
    /\ Quiet

\* request.is_disconnected() is true.
SeeDisconnect ==
    /\ pc = "loop" /\ clientGone
    /\ disconnected' = TRUE
    /\ stop' = TRUE
    /\ pc' = "finally"
    /\ UNCHANGED <<producerVars, events, answer, completed, finished, store,
                   gauges, orphan, extra>>
    /\ Quiet

\* The ceiling: an error event, then the metrics.
SeeCeiling ==
    /\ pc = "loop" /\ ~clientGone /\ overdue
    /\ pc' = "cut"
    /\ UNCHANGED <<rest, flags>>
    /\ Quiet

\* Mutated form: the ceiling is not looked at.
WaitForever ==
    /\ pc = "loop" /\ ~clientGone
    /\ pc' = "get"
    /\ UNCHANGED <<rest, flags>>
    /\ Quiet

WaitForEvent ==
    /\ pc = "loop" /\ ~clientGone /\ ~overdue
    /\ pc' = "get"
    /\ UNCHANGED <<rest, flags>>
    /\ Quiet

Take ==
    /\ pc = "get"
    /\ events # <<>>
    /\ events' = Tail(events)
    /\ extra' = IF overdue THEN extra + 1 ELSE extra
    /\ UNCHANGED <<producerVars, stop, finished, disconnected, store, gauges,
                   orphan>>
    /\ Quiet

TakeToken ==
    /\ Take
    /\ Head(events) \notin {DoneItem, ErrorItem}
    /\ answer' = Append(answer, Head(events)[2])
    /\ pc' = "loop"
    /\ UNCHANGED completed

\* The loop ends and the metrics event goes out.
TakeDone ==
    /\ Take
    /\ Head(events) = DoneItem
    /\ completed' = TRUE
    /\ pc' = "measured"
    /\ UNCHANGED answer

\* Mutated form: an upstream error ends the loop as the done event does.
TakeErrorAsDone ==
    /\ Take
    /\ Head(events) = ErrorItem
    /\ completed' = TRUE
    /\ pc' = "cut"
    /\ UNCHANGED answer

TakeError ==
    /\ Take
    /\ Head(events) = ErrorItem
    /\ pc' = "cut"
    /\ UNCHANGED <<answer, completed>>

\* queue.Empty after the heartbeat interval: a keepalive comment.
Heartbeat ==
    /\ pc = "get"
    /\ events = <<>>
    /\ pc' = "loop"
    /\ UNCHANGED <<rest, flags>>
    /\ Quiet

\* After the error event: the metrics event.
Measure ==
    /\ pc = "cut"
    /\ pc' = "measured"
    /\ UNCHANGED <<rest, flags>>
    /\ Quiet

\* stream_finished is set and the done event goes out.
SendDone == finished' = TRUE /\ pc' = "sentDone"

\* Mutated form: the answer is kept whenever there is one.
KeepPartial ==
    /\ pc = "measured"
    /\ IF answer # <<>>
       THEN pc' = "keep" /\ UNCHANGED finished
       ELSE SendDone
    /\ UNCHANGED <<rest, completed, disconnected>>
    /\ Quiet

\* After the metrics event: is there anything to keep?
AfterMetrics ==
    /\ pc = "measured"
    /\ IF completed /\ answer # <<>> /\ ~disconnected
       THEN pc' = "keep" /\ UNCHANGED finished
       ELSE SendDone
    /\ UNCHANGED <<rest, completed, disconnected>>
    /\ Quiet

\* The user turn, the assistant turn and the cache entry, one await each.
WriteRow ==
    /\ rows' = rows + 1
    /\ keptAnswer' = answer

Keep ==
    /\ pc = "keep"
    /\ WriteRow
    /\ IF rows' < Rows THEN pc' = "keep" /\ UNCHANGED finished ELSE SendDone
    /\ UNCHANGED <<producerVars, events, stop, answer, completed, disconnected,
                   gauges, orphan, extra>>
    /\ Quiet

\* A failed write is logged, the rows after it are left out.
KeepFails ==
    /\ pc = "keep"
    /\ SendDone
    /\ UNCHANGED <<rest, completed, disconnected>>
    /\ Quiet

-----------------------------------------------------------------------------
(* cached_stream: sources, the whole answer as one token event, metrics,   *)
(* done.                                                                   *)

CachedStart ==
    /\ pc = "new" /\ cached
    /\ active' = active + 1
    /\ pc' = "cachedSources"
    /\ UNCHANGED <<producerVars, events, stop, answer, flags, store,
                   disconnects, orphan, extra>>
    /\ Quiet

CachedToken ==
    /\ pc = "cachedSources"
    /\ answer' = FirstTokens(length)
    /\ pc' = "cachedToken"
    /\ UNCHANGED <<producerVars, events, stop, flags, store, gauges, orphan,
                   extra>>
    /\ Quiet

CachedMetrics ==
    /\ pc = "cachedToken"
    /\ pc' = "cachedMetrics"
    /\ UNCHANGED <<rest, flags>>
    /\ Quiet

CachedDone ==
    /\ pc = "cachedMetrics"
    /\ SendDone
    /\ UNCHANGED <<rest, completed, disconnected>>
    /\ Quiet

-----------------------------------------------------------------------------
(* How a response ends.                                                    *)

\* Starlette drops the response of a client that has gone: the generator is
\* closed at its yield or cancelled in its await.  A write or a get handed to a
\* worker thread is not taken back: it may still happen.
Suspended == {"loop", "get", "cut", "measured", "keep", "cachedSources",
              "cachedToken", "cachedMetrics"}

Cancel ==
    /\ clientGone
    /\ pc \in Suspended
    /\ pc' = "finally"
    /\ \/ UNCHANGED store
       \/ pc = "keep" /\ WriteRow
    /\ orphan' = (pc = "get")
    /\ UNCHANGED <<producerVars, events, stop, answer, flags, gauges, extra>>
    /\ Quiet

\* The get of a cancelled response takes an event nobody sends, or times out.
OrphanedGet ==
    /\ orphan
    /\ orphan' = FALSE
    /\ events' = IF events = <<>> THEN events ELSE Tail(events)
    /\ UNCHANGED <<producerVars, stop, pc, answer, flags, store, gauges, extra>>
    /\ Quiet

\* A response that was never iterated runs none of its code.
NeverStarted ==
    /\ clientGone
    /\ pc = "new"
    /\ pc' = "closed"
    /\ UNCHANGED <<rest, flags>>
    /\ Quiet

\* Mutated form: only a disconnect that the loop has polled is counted.
FinallyCountsPolled ==
    /\ pc \in {"finally", "sentDone"}
    /\ stop' = TRUE
    /\ disconnects' = IF disconnected THEN disconnects + 1 ELSE disconnects
    /\ active' = active - 1
    /\ pc' = IF cached THEN "closed" ELSE "join"
    /\ UNCHANGED <<producerVars, events, answer, flags, store, orphan, extra>>
    /\ Quiet

\* The finally block up to the join; the cached stream has no producer.
Finally ==
    /\ pc \in {"finally", "sentDone"}
    /\ stop' = TRUE
    /\ disconnects' = IF finished THEN disconnects ELSE disconnects + 1
    /\ active' = active - 1
    /\ pc' = IF cached THEN "closed" ELSE "join"
    /\ UNCHANGED <<producerVars, events, answer, flags, store, orphan, extra>>
    /\ Quiet

\* join(timeout=1.0) returns, early or late; a dead producer's token generator
\* is closed.
Join ==
    /\ pc = "join"
    /\ generator' = IF ppc = "dead" /\ generator = "open" THEN "closed"
                                                          ELSE generator
    /\ pc' = "closed"
    /\ UNCHANGED <<ppc, produced, item, events, stop, answer, flags, store,
                   gauges, orphan, extra>>
    /\ Quiet

Response ==
    \/ Start \/ SeeDisconnect \/ SeeCeiling \/ WaitForEvent
    \/ TakeToken \/ TakeDone \/ TakeError \/ Heartbeat \/ Measure
    \/ AfterMetrics \/ Keep \/ KeepFails
    \/ CachedStart \/ CachedToken \/ CachedMetrics \/ CachedDone
    \/ Finally \/ Join

ClientLeaves ==
    /\ ~clientGone
    /\ clientGone' = TRUE
    /\ UNCHANGED <<script, producerVars, events, stop, pc, answer, flags,
                   overdue, store, gauges, orphan, extra>>

CeilingPasses ==
    /\ ~overdue
    /\ overdue' = TRUE
    /\ UNCHANGED <<script, producerVars, events, stop, pc, answer, flags,
                   clientGone, store, gauges, orphan, extra>>

\* The response is closed and its thread has ended.
Over ==
    /\ pc = "closed"
    /\ ppc \in {"unstarted", "dead"}
    /\ UNCHANGED vars

Next ==
    \/ Producer \/ Response \/ Cancel \/ OrphanedGet \/ NeverStarted
    \/ ClientLeaves \/ CeilingPasses \/ Over

Spec == Init /\ [][Next]_vars

\* The event loop and the thread are scheduled, upstream reads end because the
\* client library has a timeout, and the ceiling passes.  Nothing makes a
\* client leave or Starlette cancel.
Fairness ==
    /\ WF_vars(Producer)
    /\ WF_vars(Response)
    /\ WF_vars(CeilingPasses)

FairSpec == Spec /\ Fairness

-----------------------------------------------------------------------------
(* Properties.                                                             *)

TypeOK ==
    /\ length \in 0..MaxTokens
    /\ complete \in BOOLEAN
    /\ cached \in BOOLEAN
    /\ ppc \in {"unstarted", "pull", "test", "put", "dead"}
    /\ produced \in 0..length
    /\ item \in Items
    /\ generator \in {"open", "finished", "closed"}
    /\ events \in Seq(Items)
    /\ Len(events) <= QueueSize
    /\ stop \in BOOLEAN
    /\ pc \in Suspended \cup {"new", "finally", "sentDone", "join", "closed"}
    /\ answer \in Seq(1..MaxTokens)
    /\ flags \in BOOLEAN \X BOOLEAN \X BOOLEAN
    /\ outside \in BOOLEAN \X BOOLEAN
    /\ rows \in 0..Rows
    /\ keptAnswer \in Seq(1..MaxTokens)
    /\ active \in 0..1
    /\ disconnects \in 0..1
    /\ orphan \in BOOLEAN
    /\ extra \in Nat

\* "Completed-only persistence": whatever the interleaving of disconnects,
\* cancellations, ceiling and upstream errors, the rows of an exchange hold the
\* whole answer of an upstream that ended normally (api.py:643).
KeptAnswerIsWhole ==
    rows > 0 => complete /\ keptAnswer = FirstTokens(length)

\* While the response lasts, the bounded queue neither loses, repeats nor
\* reorders a token: what the client was sent, what is queued before the end
\* event and what the producer holds are together the tokens pulled so far, in
\* order, and the end event comes behind all of them (api.py:512-568).
TokensInOrder ==
    LET ends   == {DoneItem, ErrorItem}
        queued == IF events # <<>> /\ events[Len(events)] \in ends
                  THEN SubSeq(events, 1, Len(events) - 1) ELSE events
        held   == IF ppc \in {"test", "put"} /\ item \notin ends
                  THEN <<item>> ELSE <<>>
        pulled == [i \in 1..produced |-> Token(i)]
        told   == [i \in 1..Len(answer) |-> Token(answer[i])]
    IN  pc \notin {"finally", "join", "closed"} /\ ~cached =>
            told \o queued \o held = pulled

\* The ceiling is tested before the wait for an event, not after it: at most
\* one event is taken once the ceiling has passed (api.py:566).
AtMostOneEventAfterCeiling == extra <= 1

\* SSE_ACTIVE counts the response exactly while its generator is between its
\* first step and its finally block, and SSE_DISCONNECTS counts it once if it
\* closed before the done event, on every path (api.py:669).
GaugesBalanced ==
    /\ active = 1 <=> pc \notin {"new", "join", "closed"}
    /\ disconnects = 1 => pc \in {"join", "closed"} /\ ~finished
    /\ pc = "join" /\ ~finished => disconnects = 1

\* How far the response is, in the terms of the contract.
Phase ==
    IF pc = "new" THEN "new"
    ELSE IF pc \in {"loop", "get", "cachedSources", "cachedToken"} THEN "open"
    ELSE IF pc = "cut" THEN "failed"
    ELSE IF pc \in {"measured", "keep", "cachedMetrics"}
         THEN IF completed \/ cached THEN "whole" ELSE "partial"
    ELSE IF finished THEN "done" ELSE "dropped"

Contract == INSTANCE SseContract WITH
    phase <- Phase, told <- Len(answer), kept <- rows

\* The order of events and of kept rows is the one of the SSE contract: a
\* response delivers tokens only between sources and metrics, keeps rows only
\* after the metrics of a whole answer, and ends with done or is dropped.
ImplementsContract == Contract!Spec

\* The thread never outlives its response for good, also when the client went
\* while the queue was full.
ProducerStops == stop ~> ppc \in {"unstarted", "dead"}

\* Every response that starts is closed.
ResponseCloses == pc # "new" ~> pc = "closed"
=============================================================================
