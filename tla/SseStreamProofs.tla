-------------------------- MODULE SseStreamProofs --------------------------
(***************************************************************************)
(* Proofs about SseStream, for any length of the answer and any queue.     *)
(*                                                                         *)
(* Flow is the induction behind whole answers and tokens in order: until   *)
(* the response cleans up, the client has the first tokens, the queue the  *)
(* next ones and the producer possibly one more, and an end event comes    *)
(* only after all of them; whoever takes it has emptied the queue.  Whole  *)
(* carries the result for a finished loop on to the rows that are kept.    *)
(***************************************************************************)
EXTENDS SseStream, SequenceTheorems, TLAPS

Ends == {DoneItem, ErrorItem}

Places == Suspended \cup {"new", "finally", "sentDone", "join", "closed"}

Leaving == {"finally", "join", "closed"}

Types ==
    /\ length \in 0..MaxTokens /\ complete \in BOOLEAN /\ cached \in BOOLEAN
    /\ ppc \in {"unstarted", "pull", "test", "put", "dead"}
    /\ produced \in 0..length
    /\ item \in Items
    /\ generator \in {"open", "finished", "closed"}
    /\ events \in Seq(Items)
    /\ Len(events) <= QueueSize
    /\ stop \in BOOLEAN
    /\ pc \in Places
    /\ answer \in Seq(1..MaxTokens)
    /\ completed \in BOOLEAN /\ finished \in BOOLEAN /\ disconnected \in BOOLEAN
    /\ clientGone \in BOOLEAN /\ overdue \in BOOLEAN
    /\ rows \in 0..Rows
    /\ keptAnswer \in Seq(1..MaxTokens)
    /\ active \in 0..1 /\ disconnects \in 0..1
    /\ orphan \in BOOLEAN
    /\ extra \in Nat

\* Where the response can be on either path, and with which flags.
Paths ==
    /\ pc = "new" => ppc = "unstarted" /\ events = <<>> /\ answer = <<>> /\ produced = 0
    /\ pc = "cachedSources" => answer = <<>>
    /\ pc \in {"cachedToken", "cachedMetrics"} => answer = FirstTokens(length)
    /\ pc \in {"cachedSources", "cachedToken", "cachedMetrics"} => cached
    /\ pc \in {"loop", "get", "cut", "measured", "keep"} => ~cached
    /\ cached => complete /\ length > 0 /\ rows = 0
    /\ stop \/ orphan \/ disconnected => pc \in Leaving
    /\ finished => pc \in {"sentDone", "join", "closed"}
    /\ pc = "sentDone" => finished
    /\ pc = "keep" => completed /\ rows < Rows
    /\ pc \in Suspended \ {"keep"} => rows = 0
    /\ pc = "new" => rows = 0
    /\ completed => pc \notin {"new", "loop", "get", "cut"}

\* The ceiling is looked at before every wait.
Late ==
    /\ extra <= 1
    /\ extra > 0 => overdue
    /\ pc = "get" => extra = 0

Whole ==
    /\ completed => complete /\ answer = FirstTokens(length)
    /\ rows > 0 => complete /\ keptAnswer = FirstTokens(length)

\* What the producer holds, and what must therefore be in the queue.
Held == IF ppc \in {"test", "put"} /\ item \notin Ends THEN 1 ELSE 0
Queued == produced - Len(answer) - Held

\* The response has started and has not begun to clean up.
Lasting == {"loop", "get", "cut", "measured", "keep", "sentDone"}

Flow ==
    pc \in Lasting /\ ~cached =>
        /\ \A i \in 1..Len(answer) : answer[i] = i
        /\ Queued \in Nat
        /\ \A i \in 1..Queued : events[i] = Token(Len(answer) + i)
        /\ ppc \in {"pull", "test", "put", "dead"}
        /\ ppc # "dead" => Len(events) = Queued
        /\ ppc \in {"test", "put"} /\ item \notin Ends => item = Token(produced)
        /\ ppc \in {"test", "put"} /\ item \in Ends =>
              produced = length /\ (item = DoneItem => complete)
        /\ ppc = "dead" =>
              /\ produced = length
              /\ \/ /\ Len(events) = Queued + 1
                    /\ events[Queued + 1] \in Ends
                    /\ events[Queued + 1] = DoneItem => complete
                 \/ /\ pc \notin {"loop", "get"}
                    /\ Queued = 0
                    /\ events = <<>>

IInv == Types /\ Paths /\ Late /\ GaugesBalanced /\ Whole /\ Flow

-----------------------------------------------------------------------------
(* Items and sequences.                                                    *)

LEMMA ItemKinds ==
    /\ \A i \in Nat : Token(i) \notin Ends /\ Token(i)[2] = i
    /\ DoneItem # ErrorItem
    /\ \A i \in 1..MaxTokens : Token(i) \in Items
    /\ Ends \subseteq Items
    /\ \A x \in Items \ Ends : \E i \in 1..MaxTokens : x = Token(i)
<1>1. \A i \in Nat : Token(i) # DoneItem /\ Token(i) # ErrorItem
  <2> TAKE i \in Nat
  <2>1. Token(i)[1] = "token" /\ DoneItem[1] = "done" /\ ErrorItem[1] = "error"
    BY DEF Token, DoneItem, ErrorItem
  <2> QED
    BY <2>1
<1>2. DoneItem # ErrorItem
  BY DEF DoneItem, ErrorItem
<1>3. \A i \in Nat : Token(i)[2] = i
  BY DEF Token
<1> QED
  BY <1>1, <1>2, <1>3 DEF Ends, Items

LEMMA FirstTokensAre ==
    ASSUME NEW n \in 0..MaxTokens
    PROVE  /\ FirstTokens(n) \in Seq(1..MaxTokens)
           /\ Len(FirstTokens(n)) = n
           /\ \A i \in 1..n : FirstTokens(n)[i] = i
<1>1. n \in Nat /\ MaxTokens \in Nat
  BY BoundsAssumption
<1>2. FirstTokens(n) \in [1..n -> 1..MaxTokens]
  BY <1>1 DEF FirstTokens
<1>3. FirstTokens(n) \in Seq(1..MaxTokens)
  BY <1>1, <1>2, SeqDef
<1>4. DOMAIN FirstTokens(n) = 1..n
  BY DEF FirstTokens
<1>5. Len(FirstTokens(n)) = n
  BY <1>1, <1>3, <1>4, LenProperties
<1> QED
  BY <1>3, <1>5 DEF FirstTokens

LEMMA CountedTokens ==
    ASSUME NEW s \in Seq(1..MaxTokens), NEW n \in 0..MaxTokens, Len(s) = n,
           \A i \in 1..n : s[i] = i
    PROVE  s = FirstTokens(n)
  BY FirstTokensAre, SeqEqual

LEMMA Typed == Types => TypeOK
  BY DEF Types, TypeOK, Places, flags, outside

-----------------------------------------------------------------------------
LEMMA InitIInv == Init => IInv
<1> SUFFICES ASSUME Init PROVE IInv
  OBVIOUS
<1>1. Types
  <2>1. DoneItem \in Items
    BY DEF Items
  <2>2. Rows \in Nat
    BY DEF Rows
  <2>3. ppc \in {"unstarted", "pull", "test", "put", "dead"} /\ pc \in Places
    BY DEF Init, Places
  <2>4. events \in Seq(Items) /\ answer \in Seq(1..MaxTokens)
           /\ keptAnswer \in Seq(1..MaxTokens) /\ Len(events) <= QueueSize
    BY EmptySeq, BoundsAssumption DEF Init
  <2>5. produced \in 0..length /\ rows \in 0..Rows /\ extra \in Nat
           /\ active \in 0..1 /\ disconnects \in 0..1
    BY <2>2, BoundsAssumption DEF Init
  <2> QED
    BY <2>1, <2>3, <2>4, <2>5 DEF Init, Types
<1>2. Paths
  BY DEF Init, Paths, Suspended
<1>3. Late /\ GaugesBalanced /\ Whole /\ Flow
  BY DEF Init, Late, GaugesBalanced, Whole, Flow, Lasting
<1> QED
  BY <1>1, <1>2, <1>3 DEF IInv

-----------------------------------------------------------------------------
(* The producer.                                                           *)

ResponseSide == <<script, stop, pc, answer, flags, outside, store, gauges, orphan, extra>>

LEMMA ProducerTypes ==
    ASSUME IInv, Producer
    PROVE  Types' /\ UNCHANGED ResponseSide /\ ppc # "unstarted"
<1>1. UNCHANGED ResponseSide /\ ppc # "unstarted"
  BY DEF Producer, PullToken, PullEnd, Pull, TestStop, Put, PutTimesOut, ResponseSide
<1>2. ppc' \in {"pull", "test", "put", "dead"}
  BY DEF Producer, PullToken, PullEnd, Pull, TestStop, Put, PutTimesOut
<1>3. produced' \in 0..length /\ item' \in Items /\ generator' \in {"open", "finished", "closed"}
  <2>1. CASE PullToken
    <3>1. produced + 1 \in 1..length /\ produced + 1 \in 1..MaxTokens
      BY <2>1, BoundsAssumption DEF IInv, Types, PullToken
    <3> QED
      BY <2>1, <3>1, ItemKinds DEF IInv, Types, PullToken, Pull
  <2>2. CASE PullEnd
    BY <2>2, ItemKinds DEF IInv, Types, PullEnd, Pull, Ends
  <2>3. CASE TestStop \/ Put \/ PutTimesOut
    BY <2>3 DEF IInv, Types, TestStop, Put, PutTimesOut
  <2> QED
    BY <2>1, <2>2, <2>3 DEF Producer
<1>4. events' \in Seq(Items) /\ Len(events') <= QueueSize
  <2>1. CASE Put
    BY <2>1, BoundsAssumption DEF IInv, Types, Put
  <2>2. CASE UNCHANGED events
    BY <2>2 DEF IInv, Types
  <2> QED
    BY <2>1, <2>2 DEF Producer, PullToken, PullEnd, Pull, TestStop, PutTimesOut
<1>5. Rows' = Rows
  BY DEF Rows
<1> QED
  BY <1>1, <1>2, <1>3, <1>4, <1>5
  DEF IInv, Types, ResponseSide, script, flags, outside, store, gauges

LEMMA ProducerFlows ==
    ASSUME IInv, Producer
    PROVE  Flow'
<1> SUFFICES ASSUME pc' \in Lasting, ~cached' PROVE Flow'
  BY DEF Flow
<1> USE DEF Lasting
<1>0. /\ pc \in Lasting /\ ~cached /\ UNCHANGED <<answer, length, complete, pc>>
      /\ ~stop /\ Types /\ Flow /\ Types'
  BY ProducerTypes DEF IInv, Paths, Leaving, ResponseSide, script
<1>1. Len(answer) \in Nat /\ Len(events) \in Nat /\ length \in Nat /\ produced \in Nat
  BY <1>0, BoundsAssumption DEF Types
<1>2. CASE PullToken
  <2>1. produced + 1 \in Nat /\ item' = Token(produced + 1) /\ item' \notin Ends
    BY <1>1, <1>2, ItemKinds DEF PullToken, Pull
  <2>2. Held = 0 /\ Held' = 1 /\ Queued' = Queued
    BY <1>0, <1>1, <1>2, <2>1 DEF PullToken, Pull, Held, Queued
  <2> QED
    BY <1>0, <1>1, <1>2, <2>1, <2>2 DEF PullToken, Pull, Flow
<1>3. CASE PullEnd
  <2>1. item' \in Ends /\ (item' = DoneItem => complete)
    BY <1>3, ItemKinds DEF PullEnd, Pull, Ends
  <2>2. Held = 0 /\ Held' = 0 /\ Queued' = Queued
    BY <1>0, <1>1, <1>3, <2>1 DEF PullEnd, Pull, Held, Queued
  <2> QED
    BY <1>0, <1>1, <1>3, <2>1, <2>2 DEF PullEnd, Pull, Flow
<1>4. CASE TestStop \/ PutTimesOut
  <2>1. ppc \in {"test", "put"} /\ ppc' \in {"test", "put"} /\ UNCHANGED <<produced, item, events>>
    BY <1>0, <1>4 DEF TestStop, PutTimesOut
  <2>2. Held' = Held /\ Queued' = Queued
    BY <1>0, <2>1 DEF Held, Queued
  <2> QED
    BY <1>0, <2>1, <2>2 DEF Flow
<1>5. CASE Put
  <2>1. /\ ppc = "put" /\ events' = Append(events, item) /\ UNCHANGED <<produced, item>>
        /\ Held' = 0
    BY <1>5 DEF Put, Held, Ends
  <2>2. /\ Len(events') = Len(events) + 1
        /\ events'[Len(events) + 1] = item
        /\ \A i \in 1..Len(events) : events'[i] = events[i]
    BY <1>0, <1>1, <2>1 DEF Types
  <2>3. CASE item \in Ends
    <3>1. ppc' = "dead" /\ Held = 0 /\ Queued' = Queued
      BY <1>0, <1>5, <2>1, <2>3 DEF Put, Ends, Held, Queued
    <3> QED
      BY <1>0, <1>1, <2>1, <2>2, <2>3, <3>1 DEF Flow
  <2>4. CASE item \notin Ends
    <3>1. ppc' = "pull" /\ Held = 1 /\ Queued' = Queued + 1
      BY <1>0, <1>1, <1>5, <2>1, <2>4 DEF Put, Ends, Held, Queued
    <3>2. item = Token(produced) /\ Len(answer) + Len(events) + 1 = produced
      BY <1>0, <1>1, <2>1, <2>4, <3>1 DEF Flow, Queued
    <3>3. \A i \in 1..Queued' : events'[i] = Token(Len(answer) + i)
      <4> TAKE i \in 1..Queued'
      <4>1. Queued \in Nat /\ Len(events) = Queued
        BY <1>0, <2>1 DEF Flow
      <4>2. CASE i = Queued + 1
        BY <1>1, <2>2, <3>2, <4>1, <4>2
      <4>3. CASE i \in 1..Queued
        BY <1>0, <2>2, <4>1, <4>3 DEF Flow
      <4> QED
        BY <3>1, <4>1, <4>2, <4>3
    <3> QED
      BY <1>0, <1>1, <2>1, <2>2, <3>1, <3>3 DEF Flow
  <2> QED
    BY <2>3, <2>4
<1> QED
  BY <1>2, <1>3, <1>4, <1>5 DEF Producer

LEMMA ProducerKeeps ==
    ASSUME IInv, Producer
    PROVE  IInv'
<1>1. Types' /\ Flow'
  BY ProducerTypes, ProducerFlows
<1>2. UNCHANGED ResponseSide /\ ppc # "unstarted"
  BY ProducerTypes
<1>3. Paths' /\ Late' /\ GaugesBalanced' /\ Whole'
  BY <1>2 DEF IInv, Paths, Late, GaugesBalanced, Whole, Rows, ResponseSide, script, flags,
              outside, store, gauges
<1> QED
  BY <1>1, <1>3 DEF IInv

-----------------------------------------------------------------------------
(* Steps of the response that take nothing from the queue.                 *)

LEMMA MoveTypes ==
    ASSUME Types, pc' \in Places, {stop', disconnected', completed', finished'} \subseteq BOOLEAN,
           UNCHANGED <<script, producerVars, events, answer, outside, store, gauges, orphan, extra>>
    PROVE  Types'
  BY DEF Types, Rows, script, producerVars, outside, store, gauges

\* Whoever moves neither an event nor a token, and does not return to the
\* loop from behind it, keeps Flow.
LEMMA FlowCarried ==
    ASSUME Flow, UNCHANGED <<script, producerVars, events, answer>>,
           pc' \in Lasting => pc \in Lasting \/ cached,
           pc' \in {"loop", "get"} => pc \in {"loop", "get"}
    PROVE  Flow'
<1>1. UNCHANGED <<Queued, Held, cached, length, complete, ppc, produced, item>>
  BY DEF Queued, Held, script, producerVars
<1> QED
  BY <1>1 DEF Flow

LEMMA BeginKeeps ==
    ASSUME IInv, Start \/ CachedStart \/ NeverStarted
    PROVE  IInv'
<1>1. CASE Start
  <2>1. Types' /\ Late' /\ GaugesBalanced' /\ Whole'
    BY <1>1 DEF IInv, Types, Late, GaugesBalanced, Whole, Rows, Places, Suspended, Start, Quiet,
                script, flags, outside, store, gauges
  <2>2. Paths'
    BY <1>1 DEF IInv, Paths, Rows, Suspended, Leaving, Start, Quiet, script, flags, outside, store
  <2>3. Flow'
    <3>1. Len(answer') = 0 /\ Len(events') = 0 /\ produced' = 0 /\ Held' = 0 /\ ppc' = "pull"
      BY <1>1, EmptySeq DEF IInv, Paths, Start, Held
    <3>2. Queued' = 0
      BY <3>1 DEF Queued
    <3> QED
      BY <3>1, <3>2 DEF Flow
  <2> QED
    BY <2>1, <2>2, <2>3 DEF IInv
<1>2. CASE CachedStart
  <2>1. Types' /\ Late' /\ GaugesBalanced' /\ Whole' /\ Flow'
    BY <1>2 DEF IInv, Types, Late, GaugesBalanced, Whole, Flow, Lasting, Rows, Places, Suspended,
                CachedStart, Quiet, producerVars, script, flags, outside, store, gauges
  <2>2. Paths'
    BY <1>2 DEF IInv, Paths, Rows, Suspended, Leaving, CachedStart, Quiet, producerVars, script,
                flags, outside, store
  <2> QED
    BY <2>1, <2>2 DEF IInv
<1>3. CASE NeverStarted
  <2>1. Types' /\ Late' /\ GaugesBalanced' /\ Whole' /\ Flow'
    BY <1>3 DEF IInv, Types, Late, GaugesBalanced, Whole, Flow, Lasting, Rows, Places, Suspended,
                NeverStarted, rest, Quiet, producerVars, script, flags, outside, store, gauges
  <2>2. Paths'
    BY <1>3 DEF IInv, Paths, Rows, Suspended, Leaving, NeverStarted, rest, Quiet, producerVars,
                script, flags, outside, store
  <2> QED
    BY <2>1, <2>2 DEF IInv
<1> QED
  BY <1>1, <1>2, <1>3

\* The top of the loop, and its other way back there.
LEMMA LoopKeeps ==
    ASSUME IInv, SeeDisconnect \/ SeeCeiling \/ WaitForEvent \/ Heartbeat \/ Measure
    PROVE  IInv'
<1>1. Types'
  <2>1. UNCHANGED <<script, producerVars, events, answer, outside, store, gauges, orphan, extra>>
    BY DEF SeeDisconnect, SeeCeiling, WaitForEvent, Heartbeat, Measure, rest, Quiet
  <2>2. {stop', disconnected', completed', finished'} \subseteq BOOLEAN /\ pc' \in Places
    BY DEF IInv, Types, Places, Suspended, SeeDisconnect, SeeCeiling, WaitForEvent, Heartbeat,
           Measure, rest, flags
  <2> QED
    BY <2>1, <2>2, MoveTypes DEF IInv
<1>4. Late' /\ Whole'
  BY DEF IInv, Types, Late, Whole, SeeDisconnect,
         SeeCeiling, WaitForEvent, Heartbeat, Measure, rest, Quiet, producerVars, script, flags,
         outside, store, gauges
<1>5. GaugesBalanced'
  BY DEF IInv, GaugesBalanced, SeeDisconnect,
         SeeCeiling, WaitForEvent, Heartbeat, Measure, rest, Quiet, producerVars, script, flags,
         outside, store, gauges
<1>2. Paths'
  BY DEF IInv, Paths, Rows, Suspended, Leaving, SeeDisconnect, SeeCeiling, WaitForEvent,
         Heartbeat, Measure, rest, Quiet, producerVars, script, flags, outside, store, gauges
<1>3. Flow'
  <2>1. UNCHANGED <<script, producerVars, events, answer>>
    BY DEF SeeDisconnect, SeeCeiling, WaitForEvent, Heartbeat, Measure, rest, Quiet
  <2>2. /\ pc' \in Lasting => pc \in Lasting \/ cached
        /\ pc' \in {"loop", "get"} => pc \in {"loop", "get"}
    BY DEF SeeDisconnect, SeeCeiling, WaitForEvent, Heartbeat, Measure, Lasting
  <2> QED
    BY <2>1, <2>2, FlowCarried DEF IInv
<1> QED
  BY <1>1, <1>2, <1>3, <1>4, <1>5 DEF IInv

\* From the metrics event to the done event.
LEMMA FinishKeeps ==
    ASSUME IInv, AfterMetrics \/ Keep \/ KeepFails \/ CachedMetrics \/ CachedDone
    PROVE  IInv'
<1>0. Rows \in Nat \ {0} /\ Rows' = Rows
  BY DEF Rows
<1>1. CASE AfterMetrics \/ KeepFails \/ CachedMetrics \/ CachedDone
  <2>0. UNCHANGED <<rest, completed, disconnected, script, outside>>
    BY <1>1 DEF AfterMetrics, KeepFails, CachedMetrics, CachedDone, SendDone, flags, Quiet
  <2>1. Types'
    <3>1. UNCHANGED <<script, producerVars, events, answer, outside, store, gauges, orphan, extra>>
      BY <2>0 DEF rest
    <3>2. {stop', disconnected', completed', finished'} \subseteq BOOLEAN /\ pc' \in Places
      BY <1>1, <2>0 DEF IInv, Types, rest, Places, Suspended, AfterMetrics, KeepFails, CachedMetrics,
                        CachedDone, SendDone, flags
    <3> QED
      BY <3>1, <3>2, MoveTypes DEF IInv
  <2>2. Late' /\ Whole'
    BY <1>1, <2>0 DEF IInv, Late, Whole, AfterMetrics, KeepFails, CachedMetrics, CachedDone,
                      SendDone, rest, script, outside, store
  <2>5. Flow'
    <3>1. /\ pc' \in Lasting => pc \in Lasting \/ cached
          /\ pc' \notin {"loop", "get"}
      BY <1>1 DEF AfterMetrics, KeepFails, CachedMetrics, CachedDone, SendDone, Lasting, IInv, Paths
    <3> QED
      BY <2>0, <3>1, FlowCarried DEF IInv, rest
  <2>3. GaugesBalanced'
    BY <1>1, <2>0 DEF IInv, GaugesBalanced, AfterMetrics, KeepFails, CachedMetrics, CachedDone,
                      SendDone, rest, gauges
  <2>4. Paths'
    BY <1>0, <1>1, <2>0 DEF IInv, Paths, Suspended, Leaving, AfterMetrics, KeepFails, CachedMetrics,
                      CachedDone, SendDone, rest, flags, script, store, producerVars
  <2> QED
    BY <2>1, <2>2, <2>3, <2>4, <2>5 DEF IInv
<1>2. CASE Keep
  <2>0. /\ UNCHANGED <<producerVars, events, stop, answer, completed, disconnected, gauges, orphan,
                       extra, script, outside>>
        /\ pc = "keep" /\ rows' = rows + 1 /\ keptAnswer' = answer
        /\ \/ rows' < Rows /\ pc' = "keep" /\ UNCHANGED finished
           \/ finished' = TRUE /\ pc' = "sentDone"
    BY <1>2, <1>0 DEF Keep, WriteRow, SendDone, Quiet
  <2>1. Types'
    <3>1. finished' \in BOOLEAN /\ pc' \in Places
      BY <2>0 DEF IInv, Types, Places, Suspended
    <3>2. rows' \in 0..Rows /\ keptAnswer' \in Seq(1..MaxTokens)
      BY <1>0, <2>0 DEF IInv, Types, Paths
    <3> QED
      BY <1>0, <2>0, <3>1, <3>2 DEF IInv, Types, producerVars, script, outside, gauges
  <2>2. Late' /\ Whole' /\ GaugesBalanced'
    BY <2>0 DEF IInv, Paths, Late, Whole, GaugesBalanced, script, outside, gauges
  <2>3. Paths'
    BY <1>0, <2>0 DEF IInv, Types, Paths, Suspended, Leaving, script, producerVars
  <2>4. Flow'
    BY <2>0, FlowCarried DEF IInv, Lasting
  <2> QED
    BY <2>1, <2>2, <2>3, <2>4 DEF IInv
<1> QED
  BY <1>1, <1>2

LEMMA CachedTokenKeeps ==
    ASSUME IInv, CachedToken
    PROVE  IInv'
<1>0. /\ pc = "cachedSources" /\ pc' = "cachedToken" /\ answer' = FirstTokens(length)
      /\ UNCHANGED <<producerVars, events, stop, flags, store, gauges, orphan, extra, script, outside>>
  BY DEF CachedToken, Quiet
<1>1. Types'
  BY <1>0, FirstTokensAre DEF IInv, Types, Rows, Places, Suspended, producerVars, flags, store, gauges,
     script, outside
<1>2. Paths'
  BY <1>0 DEF IInv, Paths, Rows, Suspended, Leaving, flags, store, script
<1>3. Late' /\ Whole' /\ Flow' /\ GaugesBalanced'
  BY <1>0 DEF IInv, Late, Whole, Flow, Lasting, GaugesBalanced, flags, store, gauges, script, outside
<1> QED
  BY <1>1, <1>2, <1>3 DEF IInv

\* The response is dropped, leaves its finally block, or is closed.
LEMMA LeaveKeeps ==
    ASSUME IInv, Cancel \/ Finally \/ Join
    PROVE  IInv'
<1>0. Rows \in Nat \ {0} /\ Rows' = Rows
  BY DEF Rows
<1>1. CASE Cancel
  <2>0. /\ UNCHANGED <<producerVars, events, stop, answer, flags, gauges, extra, script, outside>>
        /\ pc \in Suspended /\ pc' = "finally" /\ orphan' = (pc = "get")
        /\ \/ UNCHANGED store
           \/ pc = "keep" /\ rows' = rows + 1 /\ keptAnswer' = answer
    BY <1>1 DEF Cancel, WriteRow, Quiet
  <2>1. Types'
    BY <1>0, <2>0 DEF IInv, Types, Paths, Places, producerVars, flags, store, gauges, script, outside
  <2>2. Late' /\ Whole' /\ Flow'
    BY <2>0 DEF IInv, Paths, Late, Whole, Flow, Lasting, flags, store, script, outside
  <2>3. GaugesBalanced'
    BY <2>0 DEF IInv, GaugesBalanced, Suspended, flags, gauges
  <2>4. Paths'
    BY <1>0, <2>0 DEF IInv, Types, Paths, Suspended, Leaving, flags, store, script
  <2> QED
    BY <2>1, <2>2, <2>3, <2>4 DEF IInv
<1>2. CASE Finally
  <2>0. /\ UNCHANGED <<producerVars, events, answer, flags, store, orphan, extra, script, outside>>
        /\ pc \in {"finally", "sentDone"} /\ pc' = IF cached THEN "closed" ELSE "join"
        /\ stop' = TRUE /\ active' = active - 1
        /\ disconnects' = IF finished THEN disconnects ELSE disconnects + 1
    BY <1>2 DEF Finally, Quiet
  <2>1. active = 1 /\ disconnects = 0
    BY <2>0 DEF IInv, Types, GaugesBalanced
  <2>2. Types'
    BY <1>0, <2>0, <2>1 DEF IInv, Types, Places, producerVars, flags, store, script, outside
  <2>3. Late' /\ Whole' /\ Flow'
    BY <2>0 DEF IInv, Late, Whole, Flow, Lasting, flags, store, script, outside
  <2>4. GaugesBalanced'
    BY <2>0, <2>1 DEF GaugesBalanced, flags
  <2>5. Paths'
    BY <1>0, <2>0 DEF IInv, Paths, Suspended, Leaving, flags, store, script
  <2> QED
    BY <2>2, <2>3, <2>4, <2>5 DEF IInv
<1>3. CASE Join
  <2>0. /\ UNCHANGED <<ppc, produced, item, events, stop, answer, flags, store, gauges, orphan, extra,
                       script, outside>>
        /\ pc = "join" /\ pc' = "closed"
        /\ generator' \in {generator, "closed"}
    BY <1>3 DEF Join, Quiet
  <2>1. Types'
    BY <1>0, <2>0 DEF IInv, Types, Places, flags, store, gauges, script, outside
  <2>2. Late' /\ Whole' /\ Flow' /\ GaugesBalanced'
    BY <2>0 DEF IInv, Late, Whole, Flow, Lasting, GaugesBalanced, flags, store, gauges, script, outside
  <2>3. Paths'
    BY <1>0, <2>0 DEF IInv, Paths, Suspended, Leaving, flags, store, script
  <2> QED
    BY <2>1, <2>2, <2>3 DEF IInv
<1> QED
  BY <1>1, <1>2, <1>3

-----------------------------------------------------------------------------
(* Steps that take an event from the queue.                                *)

LEMMA TailTypes ==
    ASSUME Types, events # <<>>
    PROVE  /\ Tail(events) \in Seq(Items)
           /\ Len(Tail(events)) = Len(events) - 1
           /\ Len(events) \in Nat \ {0}
           /\ Head(events) = events[1] /\ Head(events) \in Items
           /\ \A i \in 1..(Len(events) - 1) : Tail(events)[i] = events[i + 1]
<1>1. events \in Seq(Items)
  BY DEF Types
<1>2. Len(events) \in Nat \ {0}
  BY <1>1, EmptySeq
<1> QED
  BY <1>1, <1>2, HeadTailProperties

\* What is at the head of the queue while the response loops.
LEMMA HeadIsNext ==
    ASSUME IInv, pc = "get", events # <<>>
    PROVE  /\ Head(events) \notin Ends =>
                 /\ Queued \in Nat \ {0}
                 /\ Head(events) = Token(Len(answer) + 1)
                 /\ Len(answer) + 1 \in 1..length
           /\ Head(events) \in Ends =>
                 /\ Len(answer) = length /\ (Head(events) = DoneItem => complete)
                 /\ ppc = "dead" /\ produced = length /\ Len(events) = 1
<1>0. /\ Types /\ Flow /\ pc \in Lasting /\ ~cached /\ Len(answer) \in Nat /\ Len(events) \in Nat /\ length \in Nat
      /\ produced \in 0..length
  BY BoundsAssumption DEF IInv, Types, Paths, Lasting
<1>1. Len(events) \in Nat \ {0} /\ Head(events) = events[1]
  BY <1>0, TailTypes
<1>2. Queued \in Nat /\ Held \in {0, 1} /\ Queued = produced - Len(answer) - Held
  BY <1>0 DEF Flow, Held, Queued
<1>3. CASE Queued = 0
  <2>1. /\ ppc = "dead" /\ produced = length /\ events[1] \in Ends /\ (events[1] = DoneItem => complete)
        /\ Len(events) = 1
    BY <1>0, <1>1, <1>3 DEF Flow
  <2>2. Held = 0
    BY <2>1 DEF Held
  <2> QED
    BY <1>0, <1>1, <1>2, <1>3, <2>1, <2>2
<1>4. CASE Queued # 0
  <2>1. events[1] = Token(Len(answer) + 1)
    BY <1>0, <1>2, <1>4 DEF Flow
  <2>2. Len(answer) + 1 \in 1..length
    BY <1>0, <1>2, <1>4
  <2>3. Token(Len(answer) + 1) \notin Ends
    BY <1>0, ItemKinds
  <2> QED
    BY <1>1, <1>2, <1>4, <2>1, <2>2, <2>3
<1> QED
  BY <1>3, <1>4

LEMMA TakeKeeps ==
    ASSUME IInv, TakeToken \/ TakeDone \/ TakeError
    PROVE  IInv'
<1>0. /\ Take /\ pc = "get" /\ events # <<>> /\ events' = Tail(events)
      /\ extra' = IF overdue THEN extra + 1 ELSE extra
      /\ UNCHANGED <<producerVars, stop, finished, disconnected, store, gauges, orphan, script, outside>>
  BY DEF TakeToken, TakeDone, TakeError, Take, Quiet
<1>1. ~cached /\ ~stop /\ ~orphan /\ ~disconnected /\ ~finished /\ ~completed /\ rows = 0 /\ extra = 0
  BY <1>0 DEF IInv, Types, Paths, Late, Leaving, Suspended
<1>2. Rows' = Rows
  BY DEF Rows
<1>3. Late' /\ pc' \in {"loop", "measured", "cut"}
  BY <1>0, <1>1 DEF IInv, Types, Late, TakeToken, TakeDone, TakeError, outside
<1>4. GaugesBalanced'
  BY <1>0, <1>1, <1>3 DEF IInv, GaugesBalanced, gauges
<1>5. /\ events' \in Seq(Items) /\ Len(events') <= QueueSize /\ extra' \in Nat /\ pc' \in Places
  BY <1>0, <1>3, TailTypes, BoundsAssumption DEF IInv, Types, Places, Suspended
<1>6. CASE TakeToken
  <2>0. /\ Head(events) \notin Ends /\ answer' = Append(answer, Head(events)[2]) /\ pc' = "loop"
        /\ UNCHANGED completed
    BY <1>6 DEF TakeToken, Ends
  <2>1. Head(events) = Token(Len(answer) + 1) /\ Len(answer) + 1 \in 1..length /\ Queued \in Nat \ {0}
    BY <1>0, <2>0, HeadIsNext
  <2>2. /\ Len(answer) \in Nat /\ length \in 0..MaxTokens /\ MaxTokens \in Nat
        /\ answer \in Seq(1..MaxTokens)
    BY BoundsAssumption DEF IInv, Types
  <2>3. answer' = Append(answer, Len(answer) + 1)
    BY <2>0, <2>1, <2>2, ItemKinds
  <2>4. answer' \in Seq(1..MaxTokens) /\ Len(answer') = Len(answer) + 1
    BY <2>1, <2>2, <2>3
  <2>5. Types'
    BY <1>0, <1>2, <1>5, <2>0, <2>4 DEF IInv, Types, producerVars, store, gauges, script, outside
  <2>6. Paths'
    BY <1>0, <1>1, <1>2, <2>0 DEF Paths, Suspended, store, script
  <2>7. Whole'
    BY <1>0, <1>1, <2>0 DEF Whole, store
  <2>8. Flow'
    <3>0. /\ Flow /\ Types /\ UNCHANGED <<ppc, produced, item, length, complete>>
          /\ pc \in Lasting /\ ~cached
      BY <1>0, <1>1 DEF IInv, producerVars, script, Lasting
    <3>1. Held' = Held /\ Held \in {0, 1} /\ produced \in Nat
      BY <2>2, <3>0 DEF Held, Types
    <3>2. Queued' = Queued - 1 /\ Queued' \in Nat
      BY <2>1, <2>2, <2>4, <3>0, <3>1 DEF Queued
    <3>3. /\ Len(events') = Len(events) - 1 /\ Len(events) \in Nat \ {0}
          /\ \A i \in 1..(Len(events) - 1) : events'[i] = events[i + 1]
      BY <1>0, <3>0, TailTypes
    <3>4. \A i \in 1..Len(answer') : answer'[i] = i
      BY <1>0, <2>2, <2>3, <2>4, <3>0 DEF Flow
    <3>9. /\ ppc # "dead" => Len(events) = Queued
          /\ ppc = "dead" => Len(events) = Queued + 1
      BY <1>0, <3>0 DEF Flow
    <3>5. Queued <= Len(events)
      BY <3>9, <2>1
    <3>6. \A i \in 1..Queued' : events'[i] = Token(Len(answer') + i)
      <4> TAKE i \in 1..Queued'
      <4>1. i + 1 \in 1..Queued /\ i \in 1..(Len(events) - 1) /\ i \in Nat
        BY <2>1, <3>2, <3>3, <3>5
      <4>2. events[i + 1] = Token(Len(answer) + (i + 1))
        BY <1>0, <3>0, <4>1 DEF Flow
      <4>3. Len(answer) + (i + 1) = Len(answer') + i
        BY <2>2, <2>4, <4>1
      <4> QED
        BY <3>3, <4>1, <4>2, <4>3
    <3>7. ppc = "dead" => events'[Queued' + 1] = events[Queued + 1]
      <4>1. SUFFICES ASSUME ppc = "dead" PROVE events'[Queued' + 1] = events[Queued + 1]
        OBVIOUS
      <4>2. Len(events) = Queued + 1
        BY <1>0, <3>0, <4>1 DEF Flow
      <4> QED
        BY <2>1, <3>2, <3>3, <4>2
    <3>8. /\ ppc' # "dead" => Len(events') = Queued'
          /\ ppc' = "dead" => Len(events') = Queued' + 1
      BY <3>0, <2>1, <3>2, <3>3, <3>9
    <3> QED
      BY <1>0, <3>0, <3>2, <3>4, <3>6, <3>7, <3>8 DEF Flow
  <2> QED
    BY <1>3, <1>4, <2>5, <2>6, <2>7, <2>8 DEF IInv
<1>7. CASE TakeDone \/ TakeError
  <2>0. /\ Head(events) \in Ends /\ UNCHANGED answer /\ completed' \in BOOLEAN
        /\ pc' \in {"measured", "cut"}
        /\ completed' => pc' = "measured" /\ Head(events) = DoneItem
    <3>1. CASE TakeDone
      BY <3>1 DEF TakeDone, Ends
    <3>2. CASE TakeError
      <4>1. completed' = FALSE
        BY <1>1, <3>2 DEF IInv, Types, TakeError
      <4> QED
        BY <3>2, <4>1 DEF TakeError, Ends
    <3> QED
      BY <1>7, <3>1, <3>2
  <2>1. /\ Len(answer) = length /\ (completed' => complete)
        /\ ppc = "dead" /\ produced = length /\ Len(events) = 1
    BY <1>0, <2>0, HeadIsNext
  <2>2. Flow /\ pc \in Lasting /\ Len(answer) \in Nat
    BY <1>0 DEF IInv, Types, Lasting
  <2>3. \A i \in 1..Len(answer) : answer[i] = i
    BY <1>1, <2>2 DEF Flow
  <2>4. answer = FirstTokens(length)
    BY <2>1, <2>3, CountedTokens DEF IInv, Types
  <2>5. Types'
    BY <1>0, <1>2, <1>5, <2>0 DEF IInv, Types, producerVars, store, gauges, script, outside
  <2>6. Paths'
    BY <1>0, <1>1, <1>2, <2>0 DEF Paths, Suspended, store, script
  <2>7. Whole'
    BY <1>0, <1>1, <2>0, <2>1, <2>4 DEF Whole, store, script
  <2>8. Flow'
    <3>1. events' \in Seq(Items) /\ Len(events') = 0
      BY <1>0, <2>1, TailTypes DEF IInv
    <3>2. events' = <<>>
      BY <3>1, EmptySeq
    <3>3. UNCHANGED <<ppc, produced, item, length, complete, answer>>
      BY <1>0, <2>0 DEF producerVars, script
    <3>4. Held' = 0 /\ Queued' = 0
      BY <2>1, <2>2, <3>3 DEF Held, Queued
    <3> QED
      BY <2>0, <2>1, <2>3, <3>2, <3>3, <3>4 DEF Flow
  <2> QED
    BY <1>3, <1>4, <2>5, <2>6, <2>7, <2>8 DEF IInv
<1> QED
  BY <1>6, <1>7

LEMMA OrphanedGetKeeps ==
    ASSUME IInv, OrphanedGet
    PROVE  IInv'
<1>0. /\ UNCHANGED <<producerVars, stop, pc, answer, flags, store, gauges, extra, script, outside>>
      /\ orphan /\ orphan' = FALSE
      /\ events' = IF events = <<>> THEN events ELSE Tail(events)
  BY DEF OrphanedGet, Quiet
<1>1. pc \in Leaving
  BY <1>0 DEF IInv, Paths
<1>2. events' \in Seq(Items) /\ Len(events') <= QueueSize
  BY <1>0, TailTypes, BoundsAssumption DEF IInv, Types
<1>3. Types'
  <2>1. UNCHANGED <<ppc, produced, item, generator, stop, pc, answer, completed, finished,
                   disconnected, rows, keptAnswer, active, disconnects, extra, length, complete,
                   cached, clientGone, overdue>>
    BY <1>0 DEF producerVars, flags, store, gauges, script, outside
  <2>2. Rows' = Rows /\ orphan' \in BOOLEAN
    BY <1>0 DEF Rows
  <2> QED
    BY <1>2, <2>1, <2>2 DEF IInv, Types
<1>4. Paths'
  BY <1>0, <1>1 DEF IInv, Paths, Rows, Leaving, Suspended, flags, store, script
<1>5. Late' /\ GaugesBalanced' /\ Whole' /\ Flow'
  BY <1>0, <1>1 DEF IInv, Late, GaugesBalanced, Whole, Flow, Lasting, Leaving, flags, store, gauges, script, outside
<1> QED
  BY <1>3, <1>4, <1>5 DEF IInv

\* The client, the ceiling, and steps that change nothing.
LEMMA OutsideKeeps ==
    ASSUME IInv, ClientLeaves \/ CeilingPasses \/ UNCHANGED vars
    PROVE  IInv'
<1>0. /\ UNCHANGED <<script, producerVars, events, stop, pc, answer, flags, store, gauges, orphan, extra>>
      /\ clientGone' \in BOOLEAN /\ overdue' \in BOOLEAN /\ (overdue => overdue')
  BY DEF IInv, Types, ClientLeaves, CeilingPasses, vars, outside
<1>1. Types'
  BY <1>0 DEF IInv, Types, Rows, script, producerVars, flags, store, gauges
<1>2. Paths'
  BY <1>0 DEF IInv, Paths, Rows, script, producerVars, flags, store
<1>3. Late' /\ GaugesBalanced' /\ Whole'
  BY <1>0 DEF IInv, Late, GaugesBalanced, Whole, script, flags, store, gauges
<1>4. Flow'
  BY <1>0 DEF IInv, Flow, Queued, Held, script, producerVars
<1> QED
  BY <1>1, <1>2, <1>3, <1>4 DEF IInv

LEMMA NextKeeps ==
    ASSUME IInv, [Next]_vars
    PROVE  IInv'
<1>1. CASE Producer
  BY <1>1, ProducerKeeps
<1>2. CASE Response
  BY <1>2, BeginKeeps, LoopKeeps, TakeKeeps, FinishKeeps, CachedTokenKeeps, LeaveKeeps DEF Response
<1>3. CASE Cancel \/ OrphanedGet \/ NeverStarted
  BY <1>3, LeaveKeeps, OrphanedGetKeeps, BeginKeeps
<1>4. CASE ClientLeaves \/ CeilingPasses \/ Over \/ UNCHANGED vars
  BY <1>4, OutsideKeeps DEF Over
<1> QED
  BY <1>1, <1>2, <1>3, <1>4 DEF Next

LEMMA Inductive == Spec => []IInv
  BY InitIInv, NextKeeps, PTL DEF Spec

-----------------------------------------------------------------------------
(* Invariants.                                                             *)

\* The response, its producer and its queue keep their types and bounds.
THEOREM TypeCorrect == Spec => []TypeOK
<1>1. IInv => TypeOK
  BY Typed DEF IInv
<1> QED
  BY <1>1, Inductive, PTL

\* For any answer, any queue and any interleaving, what is kept of an exchange
\* is the whole answer of an upstream that ended in order (api.py:643).
THEOREM KeptAnswersAreWhole == Spec => []KeptAnswerIsWhole
<1>1. IInv => KeptAnswerIsWhole
  BY DEF IInv, Whole, KeptAnswerIsWhole, Types
<1> QED
  BY <1>1, Inductive, PTL

\* At most one event is delivered after the ceiling (api.py:566).
THEOREM CeilingHolds == Spec => []AtMostOneEventAfterCeiling
<1>1. IInv => AtMostOneEventAfterCeiling
  BY DEF IInv, Late, AtMostOneEventAfterCeiling
<1> QED
  BY <1>1, Inductive, PTL

\* SSE_ACTIVE and SSE_DISCONNECTS account for the response on every way out.
THEOREM GaugesAlwaysBalanced == Spec => []GaugesBalanced
<1>1. IInv => GaugesBalanced
  BY DEF IInv
<1> QED
  BY <1>1, Inductive, PTL

-----------------------------------------------------------------------------
(* Where the pulled tokens are.                                            *)

\* The first n tokens as the producer pulls them.
Pulled(n) == [i \in 1..n |-> Token(i)]

LEMMA Joined ==
    ASSUME NEW a \in Seq(Items), NEW b \in Seq(Items), NEW c \in Seq(Items),
           NEW n \in 0..MaxTokens, n = Len(a) + Len(b) + Len(c),
           \A i \in 1..Len(a) : a[i] = Token(i),
           \A i \in 1..Len(b) : b[i] = Token(Len(a) + i),
           \A i \in 1..Len(c) : c[i] = Token(Len(a) + Len(b) + i)
    PROVE  a \o b \o c = Pulled(n)
<1> DEFINE pulled == Pulled(n)
<1>0. Len(a) \in Nat /\ Len(b) \in Nat /\ Len(c) \in Nat /\ MaxTokens \in Nat
  BY LenProperties, BoundsAssumption
<1>1. /\ a \o b \in Seq(Items)
      /\ Len(a \o b) = Len(a) + Len(b)
      /\ \A i \in 1..Len(a) + Len(b) :
            (a \o b)[i] = IF i <= Len(a) THEN a[i] ELSE b[i - Len(a)]
  BY ConcatProperties
<1>2. \A i \in 1..Len(a) + Len(b) : (a \o b)[i] = Token(i)
  <2> TAKE i \in 1..Len(a) + Len(b)
  <2>1. CASE i <= Len(a)
    BY <1>0, <1>1, <2>1
  <2>2. CASE ~(i <= Len(a))
    <3>1. i - Len(a) \in 1..Len(b) /\ Len(a) + (i - Len(a)) = i
      BY <1>0, <2>2
    <3> QED
      BY <1>1, <2>2, <3>1
  <2> QED
    BY <2>1, <2>2
<1>3. /\ a \o b \o c \in Seq(Items)
      /\ Len(a \o b \o c) = n
      /\ \A i \in 1..n :
            (a \o b \o c)[i] = IF i <= Len(a) + Len(b) THEN (a \o b)[i]
                              ELSE c[i - (Len(a) + Len(b))]
  BY <1>1, ConcatProperties
<1>4. \A i \in 1..n : (a \o b \o c)[i] = Token(i)
  <2> TAKE i \in 1..n
  <2>1. CASE i <= Len(a) + Len(b)
    BY <1>0, <1>2, <1>3, <2>1
  <2>2. CASE ~(i <= Len(a) + Len(b))
    <3>1. i - (Len(a) + Len(b)) \in 1..Len(c) /\ Len(a) + Len(b) + (i - (Len(a) + Len(b))) = i
      BY <1>0, <2>2
    <3> QED
      BY <1>3, <2>2, <3>1
  <2> QED
    BY <2>1, <2>2
<1>5. pulled \in Seq(Items) /\ Len(pulled) = n
  <2>1. n \in Nat /\ \A i \in 1..n : Token(i) \in Items
    BY <1>0, ItemKinds
  <2>2. pulled \in [1..n -> Items]
    BY <2>1 DEF Pulled
  <2>3. pulled \in Seq(Items)
    BY <2>1, <2>2, SeqDef
  <2>4. DOMAIN pulled = 1..n
    BY DEF Pulled
  <2> HIDE DEF pulled
  <2>5. Len(pulled) = n
    BY <2>1, <2>3, <2>4, LenProperties
  <2> QED
    BY <2>3, <2>5
<1>6. \A i \in 1..n : pulled[i] = Token(i)
  BY DEF Pulled
<1> HIDE DEF pulled
<1>7. a \o b \o c = pulled
  BY <1>3, <1>4, <1>5, <1>6, SeqEqual
<1> QED
  BY <1>7 DEF pulled

\* The queue without its end event.
Ahead == IF events # <<>> /\ events[Len(events)] \in Ends
         THEN SubSeq(events, 1, Len(events) - 1) ELSE events

LEMMA AheadIs ==
    ASSUME IInv, pc \in Lasting, ~cached
    PROVE  /\ Ahead \in Seq(Items)
           /\ Len(Ahead) = Queued
           /\ \A i \in 1..Queued : Ahead[i] = Token(Len(answer) + i)
<1>0. Types /\ Flow /\ events \in Seq(Items) /\ Len(events) \in Nat /\ Len(answer) \in Nat
  BY DEF IInv, Types
<1>1. Queued \in Nat /\ \A i \in 1..Queued : events[i] = Token(Len(answer) + i)
  BY <1>0 DEF Flow
<1>2. CASE Len(events) = Queued
  <2>1. ASSUME events # <<>> PROVE events[Len(events)] \notin Ends
    <3>1. Len(events) \in 1..Queued
      BY <1>0, <1>2, <2>1, EmptySeq
    <3>2. events[Len(events)] = Token(Len(answer) + Len(events))
      BY <1>1, <3>1
    <3> QED
      BY <1>0, <3>2, ItemKinds
  <2>2. Ahead = events
    BY <2>1 DEF Ahead
  <2> QED
    BY <1>0, <1>1, <1>2, <2>2
<1>3. CASE Len(events) # Queued
  <2>1. Len(events) = Queued + 1 /\ events[Queued + 1] \in Ends
    BY <1>0, <1>3, EmptySeq DEF Flow
  <2>2. events # <<>>
    BY <1>0, <1>1, <2>1, EmptySeq
  <2>3. Ahead = SubSeq(events, 1, Queued)
    BY <1>1, <2>1, <2>2 DEF Ahead
  <2>4. \A i \in 1..Queued : events[i] \in Items
    BY <1>0, <1>1, <2>1, ElementOfSeq
  <2>5. /\ SubSeq(events, 1, Queued) \in Seq(Items)
        /\ Len(SubSeq(events, 1, Queued)) = Queued
        /\ \A i \in 1..Queued : SubSeq(events, 1, Queued)[i] = events[i]
    BY <1>1, <2>4, SubSeqProperties
  <2> QED
    BY <1>1, <2>3, <2>5
<1> QED
  BY <1>2, <1>3

\* Told, queued and held make up what was pulled.
LEMMA Accounted ==
    ASSUME IInv, pc \in Lasting, ~cached
    PROVE  TokensInOrder
<1> DEFINE told == [i \in 1..Len(answer) |-> Token(answer[i])]
           held == IF ppc \in {"test", "put"} /\ item \notin Ends THEN <<item>> ELSE <<>>
<1>0. /\ Types /\ Flow /\ answer \in Seq(1..MaxTokens) /\ Len(answer) \in Nat
      /\ produced \in 0..MaxTokens /\ Queued \in Nat
  BY BoundsAssumption DEF IInv, Types, Flow
<1>1. told \in Seq(Items) /\ Len(told) = Len(answer) /\ \A i \in 1..Len(told) : told[i] = Token(i)
  <2>1. \A i \in 1..Len(answer) : answer[i] = i /\ answer[i] \in 1..MaxTokens
    BY <1>0, ElementOfSeq DEF Flow
  <2>2. told \in [1..Len(answer) -> Items]
    BY <2>1, ItemKinds
  <2>3. told \in Seq(Items)
    BY <1>0, <2>2, SeqDef
  <2>4. DOMAIN told = 1..Len(answer) /\ \A i \in 1..Len(answer) : told[i] = Token(i)
    BY <2>1
  <2> HIDE DEF told
  <2>5. Len(told) = Len(answer)
    BY <1>0, <2>3, <2>4, LenProperties
  <2> QED
    BY <2>3, <2>4, <2>5
<1>2. held \in Seq(Items) /\ Len(held) = Held /\ \A i \in 1..Len(held) : held[i] = Token(produced)
  <2>1. CASE ppc \in {"test", "put"} /\ item \notin Ends
    <3>1. held = <<item>> /\ item = Token(produced) /\ item \in Items /\ Held = 1
      BY <1>0, <2>1 DEF Flow, Types, Held
    <3> QED
      BY <3>1
  <2>2. CASE ~(ppc \in {"test", "put"} /\ item \notin Ends)
    <3>1. held = <<>> /\ Held = 0
      BY <2>2 DEF Held
    <3> QED
      BY <3>1, EmptySeq
  <2> QED
    BY <2>1, <2>2
<1>3. /\ Ahead \in Seq(Items) /\ Len(Ahead) = Queued
      /\ \A i \in 1..Queued : Ahead[i] = Token(Len(answer) + i)
  BY AheadIs
<1>4. Held \in {0, 1} /\ Len(answer) + Queued + Held = produced
  BY <1>0 DEF Held, Queued
<1> HIDE DEF told, held
<1>5. \A i \in 1..Len(held) : held[i] = Token(Len(told) + Len(Ahead) + i)
  <2> TAKE i \in 1..Len(held)
  <2>1. Len(told) + Len(Ahead) + i = produced
    BY <1>0, <1>1, <1>2, <1>3, <1>4
  <2> QED
    BY <1>2, <2>1
<1>6. \A i \in 1..Len(Ahead) : Ahead[i] = Token(Len(told) + i)
  BY <1>1, <1>3
<1>7. produced = Len(told) + Len(Ahead) + Len(held)
  BY <1>1, <1>2, <1>3, <1>4
<1>8. told \o Ahead \o held = Pulled(produced)
  <2>1. told \in Seq(Items) /\ Ahead \in Seq(Items) /\ held \in Seq(Items) /\ produced \in 0..MaxTokens
    BY <1>0, <1>1, <1>2, <1>3
  <2>2. \A i \in 1..Len(told) : told[i] = Token(i)
    BY <1>1
  <2> QED
    BY <2>1, <2>2, <1>5, <1>6, <1>7, Joined
<1> QED
  BY <1>8 DEF TokensInOrder, told, held, Ahead, Ends, Pulled

\* Before the first step nothing is pulled, on the cached path nothing ever.
LEMMA NothingYet ==
    ASSUME IInv, pc = "new"
    PROVE  TokensInOrder
<1>1. events = <<>> /\ answer = <<>> /\ produced = 0 /\ ppc = "unstarted"
  BY DEF IInv, Paths
<1>2. Len(answer) = 0
  BY <1>1
<1>3. [i \in 1..Len(answer) |-> Token(answer[i])] = <<>> /\ [i \in 1..produced |-> Token(i)] = <<>>
  BY <1>1, <1>2
<1>4. <<>> \o <<>> \o <<>> = <<>>
  BY EmptySeq, ConcatEmptySeq
<1> QED
  BY <1>1, <1>3, <1>4 DEF TokensInOrder

\* Told, queued and held tokens are together those pulled so far, in order,
\* and end events come behind them, for any answer and any queue, until the
\* response cleans up.
THEOREM NoTokenLost == Spec => []TokensInOrder
<1>1. IInv => TokensInOrder
  <2> SUFFICES ASSUME IInv PROVE TokensInOrder
    OBVIOUS
  <2>1. CASE pc \in Lasting /\ ~cached
    BY <2>1, Accounted
  <2>2. CASE pc \in {"finally", "join", "closed"} \/ cached
    BY <2>2 DEF TokensInOrder
  <2> QED
    BY <2>1, <2>2, NothingYet DEF IInv, Types, Paths, Places, Suspended, Lasting
<1> QED
  BY <1>1, Inductive, PTL

-----------------------------------------------------------------------------
(* The refinement of SseContract.                                          *)

LEMMA PhaseIs ==
    /\ pc = "new" => Phase = "new"
    /\ pc \in {"loop", "get", "cachedSources", "cachedToken"} => Phase = "open"
    /\ pc = "cut" => Phase = "failed"
    /\ pc \in {"measured", "keep", "cachedMetrics"} /\ (completed \/ cached) => Phase = "whole"
    /\ pc \in {"measured", "keep"} /\ ~completed /\ ~cached => Phase = "partial"
    /\ pc \in {"sentDone", "finally", "join", "closed"} =>
          Phase = IF finished THEN "done" ELSE "dropped"
  BY DEF Phase

LEMMA NextPhaseIs ==
    /\ pc' = "new" => Phase' = "new"
    /\ pc' \in {"loop", "get", "cachedSources", "cachedToken"} => Phase' = "open"
    /\ pc' = "cut" => Phase' = "failed"
    /\ pc' \in {"measured", "keep", "cachedMetrics"} /\ (completed \/ cached)' => Phase' = "whole"
    /\ pc' \in {"measured", "keep"} /\ ~completed' /\ ~cached' => Phase' = "partial"
    /\ pc' \in {"sentDone", "finally", "join", "closed"} =>
          Phase' = IF finished' THEN "done" ELSE "dropped"
  BY DEF Phase

LEMMA InitRefines == Init => Contract!Init
<1> SUFFICES ASSUME Init PROVE Contract!Init
  OBVIOUS
<1>1. length \in Nat /\ Len(answer) = 0
  BY BoundsAssumption, EmptySeq DEF Init
<1> QED
  BY <1>1, PhaseIs DEF Init, Contract!Init

ContractView == <<length, complete, pc, completed, cached, finished, answer, rows>>

LEMMA SameView ==
    ASSUME UNCHANGED ContractView
    PROVE  UNCHANGED Contract!vars
  BY DEF ContractView, Phase, Contract!vars

LEMMA ProducerRefines ==
    ASSUME IInv, Producer
    PROVE  UNCHANGED Contract!vars
<1>1. UNCHANGED ContractView
  BY ProducerTypes DEF ContractView, ResponseSide, script, flags, store
<1> QED
  BY <1>1, SameView

LEMMA BeginRefines ==
    ASSUME IInv, Start \/ CachedStart
    PROVE  Contract!Open
<1>1. /\ pc = "new" /\ pc' \in {"loop", "cachedSources"}
      /\ UNCHANGED <<length, complete, answer, rows>>
  BY DEF Start, CachedStart, Quiet, script, store
<1> QED
  BY <1>1, PhaseIs, NextPhaseIs DEF Contract!Open, Contract!script

\* Steps between two phases, and steps of the outside.
LEMMA SilentRefines ==
    ASSUME IInv, WaitForEvent \/ Heartbeat \/ OrphanedGet \/ ClientLeaves
                 \/ CeilingPasses \/ Over \/ UNCHANGED vars
    PROVE  UNCHANGED Contract!vars
<1>1. CASE OrphanedGet \/ ClientLeaves \/ CeilingPasses \/ Over \/ UNCHANGED vars
  <2>1. UNCHANGED ContractView
    BY <1>1 DEF ContractView, OrphanedGet, ClientLeaves, CeilingPasses, Over, Quiet, vars, flags,
                store, script
  <2> QED
    BY <2>1, SameView
<1>2. CASE WaitForEvent \/ Heartbeat
  <2>1. /\ pc \in {"loop", "get"} /\ pc' \in {"loop", "get"}
        /\ UNCHANGED <<length, complete, answer, rows>>
    BY <1>2 DEF WaitForEvent, Heartbeat, Quiet, rest, store, script
  <2> QED
    BY <2>1, PhaseIs, NextPhaseIs DEF Contract!vars
<1> QED
  BY <1>1, <1>2

LEMMA EndingRefines ==
    ASSUME IInv, Finally \/ Join
    PROVE  UNCHANGED Contract!vars
<1>1. /\ {pc, pc'} \subseteq {"sentDone", "finally", "join", "closed"}
      /\ UNCHANGED <<length, complete, answer, rows, finished>>
  BY DEF Finally, Join, Quiet, flags, store, script
<1> QED
  BY <1>1, PhaseIs, NextPhaseIs DEF Contract!vars

\* A token, from the queue or from the cache.
LEMMA TokenRefines ==
    ASSUME IInv, TakeToken \/ CachedToken
    PROVE  Contract!Tell
<1>1. CASE TakeToken
  <2>1. /\ Take /\ pc = "get" /\ events # <<>> /\ pc' = "loop" /\ Head(events) \notin Ends
        /\ answer' = Append(answer, Head(events)[2]) /\ UNCHANGED <<length, complete, rows>>
    BY <1>1 DEF TakeToken, Take, Ends, Quiet, store, script
  <2>2. Len(answer) + 1 \in 1..length /\ Head(events) = Token(Len(answer) + 1)
    BY <2>1, HeadIsNext
  <2>3. length \in Nat /\ Len(answer) \in Nat /\ answer \in Seq(1..MaxTokens)
    BY BoundsAssumption DEF IInv, Types
  <2>4. Len(answer') = Len(answer) + 1
    <3>1. answer' = Append(answer, Len(answer) + 1) /\ Len(answer) + 1 \in 1..MaxTokens
      BY <2>1, <2>2, <2>3, ItemKinds, BoundsAssumption DEF IInv, Types
    <3> QED
      BY <2>3, <3>1
  <2> QED
    BY <2>1, <2>2, <2>3, <2>4, PhaseIs, NextPhaseIs DEF Contract!Tell, Contract!script
<1>2. CASE CachedToken
  <2>1. /\ pc = "cachedSources" /\ pc' = "cachedToken" /\ answer' = FirstTokens(length)
        /\ UNCHANGED <<length, complete, rows>>
    BY <1>2 DEF CachedToken, Quiet, store, script
  <2>2. length \in 0..MaxTokens /\ length > 0 /\ answer = <<>>
    BY <2>1 DEF IInv, Types, Paths
  <2>3. Len(answer) = 0 /\ Len(answer') = length /\ length \in Nat
    BY <2>1, <2>2, FirstTokensAre, EmptySeq, BoundsAssumption
  <2> QED
    BY <2>1, <2>2, <2>3, PhaseIs, NextPhaseIs DEF Contract!Tell, Contract!script
<1> QED
  BY <1>1, <1>2

\* The end of the tokens: the metrics of the whole answer, or an error event.
LEMMA EndRefines ==
    ASSUME IInv, TakeDone \/ TakeError \/ SeeCeiling \/ Measure \/ CachedMetrics
    PROVE  Contract!Measure \/ Contract!CutShort
<1>0. UNCHANGED <<length, complete, cached, answer, rows>>
  BY DEF TakeDone, TakeError, Take, SeeCeiling, Measure, CachedMetrics, Quiet, rest, store, script
<1>1. CASE TakeDone
  <2>1. Take /\ pc = "get" /\ events # <<>> /\ Head(events) = DoneItem /\ completed' /\ pc' = "measured"
    BY <1>1 DEF TakeDone, Take
  <2>2. Head(events) \in Ends
    BY <2>1 DEF Ends
  <2>3. Len(answer) = length /\ complete
    BY <2>1, <2>2, HeadIsNext
  <2> QED
    BY <1>0, <2>1, <2>3, PhaseIs, NextPhaseIs DEF Contract!Measure, Contract!script
<1>2. CASE TakeError \/ SeeCeiling
  <2>1. pc \in {"loop", "get"} /\ pc' = "cut"
    BY <1>2 DEF TakeError, Take, SeeCeiling
  <2> QED
    BY <1>0, <2>1, PhaseIs, NextPhaseIs DEF Contract!CutShort, Contract!script
<1>3. CASE Measure
  <2>1. /\ pc = "cut" /\ pc' = "measured" /\ ~completed' /\ ~cached'
    BY <1>0, <1>3 DEF IInv, Paths, Measure, flags
  <2> QED
    BY <1>0, <2>1, PhaseIs, NextPhaseIs DEF Contract!Measure, Contract!script
<1>4. CASE CachedMetrics
  <2>1. /\ pc = "cachedToken" /\ pc' = "cachedMetrics" /\ cached' /\ cached
        /\ complete /\ answer = FirstTokens(length)
    BY <1>0, <1>4 DEF IInv, Paths, CachedMetrics
  <2>2. Len(answer) = length
    BY <2>1, FirstTokensAre DEF IInv, Types
  <2> QED
    BY <1>0, <2>1, <2>2, PhaseIs, NextPhaseIs DEF Contract!Measure, Contract!script
<1> QED
  BY <1>1, <1>2, <1>3, <1>4

\* The rows and the done event.
LEMMA FinishRefines ==
    ASSUME IInv, AfterMetrics \/ Keep \/ KeepFails \/ CachedDone
    PROVE  UNCHANGED Contract!vars \/ Contract!Keep \/ Contract!Done
<1>0. /\ UNCHANGED <<length, complete, cached, answer, completed>>
      /\ rows \in Nat /\ rows <= Rows
      /\ pc \in {"measured", "keep", "cachedMetrics"}
      /\ Phase \in {"whole", "partial"}
  <2>1. pc \in {"measured", "keep", "cachedMetrics"}
    BY DEF AfterMetrics, Keep, KeepFails, CachedDone
  <2>2. Phase \in {"whole", "partial"}
    BY <2>1 DEF Phase
  <2>3. UNCHANGED <<length, complete, cached, answer, completed>>
    BY DEF AfterMetrics, Keep, KeepFails, CachedDone, Quiet, rest, script
  <2>4. Rows \in Nat
    BY DEF Rows
  <2> QED
    BY <2>1, <2>2, <2>3, <2>4 DEF IInv, Types
<1>1. CASE Keep
  <2>1. pc = "keep" /\ rows' = rows + 1 /\ rows < Rows /\ completed
    BY <1>1 DEF IInv, Paths, Keep, WriteRow
  <2>2. Phase = "whole" /\ rows' <= Rows
    BY <1>0, <2>1, PhaseIs DEF Rows
  <2>3. CASE pc' = "keep"
    BY <1>0, <2>1, <2>2, <2>3, NextPhaseIs DEF Contract!Keep, Contract!script
  <2>4. CASE pc' = "sentDone" /\ finished'
    BY <1>0, <2>1, <2>2, <2>4, NextPhaseIs DEF Contract!Done, Contract!Finish, Contract!script
  <2> QED
    BY <1>1, <2>3, <2>4 DEF Keep, SendDone
<1>2. CASE AfterMetrics /\ pc' = "keep"
  <2>1. pc = "measured" /\ completed /\ UNCHANGED rows
    BY <1>2 DEF AfterMetrics, SendDone, rest, store
  <2> QED
    BY <1>0, <1>2, <2>1, PhaseIs, NextPhaseIs DEF Contract!vars
<1>3. CASE (AfterMetrics /\ pc' # "keep") \/ KeepFails \/ CachedDone
  <2>1. UNCHANGED rows /\ pc' = "sentDone" /\ finished'
    BY <1>3 DEF AfterMetrics, KeepFails, CachedDone, SendDone, rest, store
  <2>2. Phase' = "done"
    BY <2>1, NextPhaseIs
  <2> QED
    BY <1>0, <2>1, <2>2 DEF Contract!Done, Contract!Finish, Contract!script
<1> QED
  BY <1>1, <1>2, <1>3

\* Every way the response is dropped, one of them with a row still written.
LEMMA DropRefines ==
    ASSUME IInv, SeeDisconnect \/ Cancel \/ NeverStarted
    PROVE  Contract!Drop
<1>1. /\ pc \in Suspended \cup {"new"} /\ pc' \in {"finally", "closed"}
      /\ UNCHANGED <<length, complete, answer, finished>>
      /\ \/ UNCHANGED rows
         \/ pc = "keep" /\ rows' = rows + 1
  BY DEF SeeDisconnect, Cancel, NeverStarted, WriteRow, Suspended, Quiet, rest, flags, store, script
<1>2. ~finished' /\ Phase' = "dropped"
  <2>1. ~finished
    BY <1>1 DEF IInv, Paths, Suspended
  <2> QED
    BY <1>1, <2>1, NextPhaseIs
<1>3. Phase # "dropped"
  BY <1>1 DEF Phase, Suspended
<1>4. CASE UNCHANGED rows
  BY <1>1, <1>2, <1>3, <1>4 DEF Contract!Drop, Contract!Finish, Contract!script
<1>5. CASE pc = "keep" /\ rows' = rows + 1
  <2>1. Phase = "whole" /\ rows' <= Rows
    BY <1>5, PhaseIs DEF IInv, Paths, Types, Rows
  <2> QED
    BY <1>1, <1>2, <1>3, <1>5, <2>1 DEF Contract!Drop, Contract!Finish, Contract!script
<1> QED
  BY <1>1, <1>4, <1>5

LEMMA StepRefines ==
    ASSUME IInv, [Next]_vars
    PROVE  [Contract!Next]_Contract!vars
<1>1. CASE Producer
  BY <1>1, ProducerRefines
<1>2. CASE Response
  BY <1>2, BeginRefines, SilentRefines, EndingRefines, TokenRefines, EndRefines, FinishRefines,
     DropRefines DEF Response, Contract!Next
<1>3. CASE Cancel \/ NeverStarted
  BY <1>3, DropRefines DEF Contract!Next
<1>4. CASE OrphanedGet \/ ClientLeaves \/ CeilingPasses \/ Over \/ UNCHANGED vars
  BY <1>4, SilentRefines
<1> QED
  BY <1>1, <1>2, <1>3, <1>4 DEF Next

\* For any answer, any queue and any interleaving of client, ceiling, producer
\* and cancellation, the response keeps the order of the SSE contract.
THEOREM ResponseImplementsContract == Spec => ImplementsContract
  BY Inductive, InitRefines, StepRefines, PTL DEF Spec, ImplementsContract, Contract!Spec
=============================================================================
