----------------------------- MODULE ChatClient -----------------------------
(***************************************************************************)
(* The chat page: useChat.ts with the request functions of lib/api.ts.     *)
(*                                                                         *)
(* JavaScript runs one task at a time, so each user event, timer and piece *)
(* of a response is one action, with everything that follows it without    *)
(* waiting for the network.  An abort rejects what the request waits for   *)
(* in the same task: the request is over when stop() is.                   *)
(*                                                                         *)
(* An event handler is the closure of the last rendering.  The one that    *)
(* regenerate() hands to setTimeout is not: it keeps the session and the   *)
(* idle status of the moment Retry was pressed.                            *)
(***************************************************************************)
EXTENDS Integers, Sequences

CONSTANTS
    MaxRequests,  \* bound on the requests sent
    MaxSessions,  \* bound on the chats created
    MaxStored,    \* chats that saveSessions keeps (50 in the code)
    MaxReloads    \* bound on reloads of the page

ASSUME ClientAssumption ==
    /\ MaxRequests \in Nat /\ MaxReloads \in Nat
    /\ MaxSessions \in Nat \ {0} /\ MaxStored \in Nat \ {0}

VARIABLES
    order,     \* the chats, newest first
    messages,  \* messages of every chat
    active,    \* activeId
    status,    \* "idle", "loading" or "streaming"
    abortRef,  \* the request stop() would abort, or None
    req,       \* phase and chat of every request
    timers,    \* chats of the sends that regenerate() deferred
    created,   \* chats created so far
    sent,      \* requests sent so far
    reloads,   \* reloads so far
    loaded,    \* history: requests that a reload cut off
    overtaken  \* history: a deferred send overtook a running request

chats == <<order, active, created>>
page == <<status, abortRef, timers, reloads, loaded>>
requests == <<req, sent>>
vars == <<order, messages, active, status, abortRef, req, timers, created, sent,
          reloads, loaded, overtaken>>

None == 0
Requests == 1..MaxRequests
Sessions == 1..MaxSessions

\* What an assistant message shows.
Texts == {"none", "partial", "answer", "notice", "unreachable"}

\* Phases of a request: waiting for the stream's head, for the body of a
\* refused stream, reading a stream with no token, with some, after an error
\* event without and with tokens; waiting for the JSON answer, for the body of
\* a refused one; ended by itself, by stop(), by a reload.
Silent == {"streaming", "failing"}
Speaking == {"answering", "cutShort"}
Running == {"opening", "streamRefused", "json", "jsonRefused"} \cup Silent \cup Speaking
Phases == Running \cup {"unused", "over", "stopped", "lost"}

InFlight == {r \in Requests : req[r].phase \in Running}
Stored == {order[i] : i \in DOMAIN order}

Init ==
    /\ order = <<1>>
    /\ messages = [s \in Sessions |-> <<>>]
    /\ active = 1
    /\ status = "idle"
    /\ abortRef = None
    /\ req = [r \in Requests |-> [phase |-> "unused", session |-> 1]]
    /\ timers = <<>>
    /\ created = 1
    /\ sent = 0
    /\ reloads = 0
    /\ loaded = {}
    /\ overtaken = FALSE

-----------------------------------------------------------------------------
(* Messages.                                                               *)

UserMessage(r) == [role |-> "user", req |-> r, text |-> "answer", pending |-> FALSE]
AssistantMessage(r) == [role |-> "assistant", req |-> r, text |-> "none", pending |-> TRUE]

\* A patch replaces the text or leaves it as it is, and may settle the message.
AsIs == "as it is"
Patched(m, text, settle) ==
    [role |-> m.role, req |-> m.req, text |-> IF text = AsIs THEN m.text ELSE text,
     pending |-> IF settle THEN FALSE ELSE m.pending]

\* patchMessage: change the answer of r, if its chat still has it.
Patch(r, text, settle) ==
    messages' = [messages EXCEPT ![req[r].session] =
        [i \in DOMAIN @ |-> IF @[i].role = "assistant" /\ @[i].req = r
                            THEN Patched(@[i], text, settle) ELSE @[i]]]

Settle(r) == Patch(r, AsIs, TRUE)
Show(r, text) == Patch(r, text, TRUE)

Fresh == created + 1
HasRoom == Fresh \in Sessions

-----------------------------------------------------------------------------
(* Sending.                                                                *)

CanSend == sent + Len(timers) < MaxRequests

\* The body of send(), once its guard has passed: two messages, a controller,
\* the busy status, the request.
Post(s, streamEnabled) ==
    LET r == sent + 1 IN
    /\ sent' = r
    /\ messages' = [messages EXCEPT ![s] =
           IF s \in Stored THEN @ \o <<UserMessage(r), AssistantMessage(r)>> ELSE @]
    /\ req' = [req EXCEPT ![r] =
           [phase |-> IF streamEnabled THEN "opening" ELSE "json", session |-> s]]
    /\ abortRef' = r
    /\ status' = IF streamEnabled THEN "streaming" ELSE "loading"

Send ==
    /\ status = "idle"
    /\ CanSend
    /\ \E streamEnabled \in BOOLEAN : Post(active, streamEnabled)
    /\ UNCHANGED <<chats, timers, reloads, loaded, overtaken>>

\* regenerate(): the Retry button stands under the last answer, once that has
\* settled with some text.
Retry ==
    LET said == messages[active]
        answers == {i \in DOMAIN said : said[i].role = "assistant"}
        last == CHOOSE i \in answers : \A j \in answers : j <= i
    IN  /\ status = "idle"
        /\ CanSend
        /\ answers # {}
        /\ ~said[last].pending /\ said[last].text # "none"
        /\ messages' = [messages EXCEPT ![active] =
               IF last = Len(said) THEN SubSeq(said, 1, last - 1) ELSE said]
        /\ timers' = Append(timers, active)
        /\ UNCHANGED <<chats, status, abortRef, requests, reloads, loaded, overtaken>>

\* The deferred send, 50 ms later: its guard sees the status of the closure.
Resend ==
    /\ timers # <<>>
    /\ timers' = Tail(timers)
    /\ \E streamEnabled \in BOOLEAN : Post(Head(timers), streamEnabled)
    /\ overtaken' = (overtaken \/ status # "idle")
    /\ UNCHANGED <<chats, reloads, loaded>>

-----------------------------------------------------------------------------
(* Stopping and the list of chats.                                         *)

\* Mutated form: an aborted request leaves its message as it is.
StopUnsettled ==
    /\ IF abortRef = None THEN UNCHANGED <<messages, req>>
       ELSE /\ req' = [req EXCEPT ![abortRef].phase = "stopped"]
            /\ UNCHANGED messages
    /\ abortRef' = None
    /\ status' = "idle"
    /\ UNCHANGED <<sent, overtaken>>

\* Mutated form: the controller is forgotten without being aborted.
StopWithoutAbort ==
    /\ abortRef' = None
    /\ status' = "idle"
    /\ UNCHANGED <<messages, requests, overtaken>>

\* stop(), with what the abort causes in the same task.  The body of a refused
\* JSON request is read under a catch that swallows the abort, so that request
\* fails as if the backend were unreachable.
StopRequest ==
    /\ IF abortRef = None THEN UNCHANGED <<messages, req>>
       ELSE /\ req' = [req EXCEPT ![abortRef].phase = "stopped"]
            /\ IF req[abortRef].phase = "jsonRefused"
               THEN Show(abortRef, "unreachable")
               ELSE Settle(abortRef)
    /\ abortRef' = None
    /\ status' = "idle"
    /\ UNCHANGED <<sent, overtaken>>

Stop ==
    /\ status # "idle"
    /\ StopRequest
    /\ UNCHANGED <<chats, timers, reloads, loaded>>

NewChat ==
    /\ HasRoom
    /\ StopRequest
    /\ order' = <<Fresh>> \o order
    /\ active' = Fresh
    /\ created' = Fresh
    /\ UNCHANGED <<timers, reloads, loaded>>

Select(s) ==
    /\ s \in Stored
    /\ IF status # "idle" THEN StopRequest
       ELSE UNCHANGED <<messages, requests, abortRef, status, overtaken>>
    /\ active' = s
    /\ UNCHANGED <<order, created, timers, reloads, loaded>>

\* The list without chat s: no two chats have the same id.
Without(s) ==
    LET i == CHOOSE i \in DOMAIN order : order[i] = s
    IN  SubSeq(order, 1, i - 1) \o SubSeq(order, i + 1, Len(order))

\* Mutated form: deleting the open chat leaves it open.
DeleteKeepingActive(s) ==
    LET kept == Without(s) IN
    /\ s \in Stored
    /\ messages' = [messages EXCEPT ![s] = <<>>]
    /\ kept # <<>>
    /\ order' = kept
    /\ UNCHANGED <<active, created, page, requests, overtaken>>

\* deleteChat(): a running request of the chat goes on.
Delete(s) ==
    LET kept == Without(s) IN
    /\ s \in Stored
    /\ messages' = [messages EXCEPT ![s] = <<>>]
    /\ \/ /\ kept # <<>>
          /\ order' = kept
          /\ active' = IF s = active THEN kept[1] ELSE active
          /\ UNCHANGED created
       \/ /\ kept = <<>>
          /\ HasRoom
          /\ order' = <<Fresh>>
          /\ active' = Fresh
          /\ created' = Fresh
    /\ UNCHANGED <<page, requests, overtaken>>

\* The page is closed and opened again: what localStorage has is what the last
\* rendering showed, cut to MaxStored chats.
Reload ==
    LET kept == SubSeq(order, 1, IF Len(order) < MaxStored THEN Len(order) ELSE MaxStored)
        keptSet == {kept[i] : i \in DOMAIN kept}
    IN  /\ reloads < MaxReloads
        /\ reloads' = reloads + 1
        /\ order' = kept
        /\ active' = IF active \in keptSet THEN active ELSE kept[1]
        /\ messages' = [s \in Sessions |-> IF s \in keptSet THEN messages[s] ELSE <<>>]
        /\ req' = [r \in Requests |->
               IF r \in InFlight THEN [req[r] EXCEPT !.phase = "lost"] ELSE req[r]]
        /\ loaded' = loaded \cup InFlight
        /\ status' = "idle"
        /\ abortRef' = None
        /\ timers' = <<>>
        /\ overtaken' = FALSE
        /\ UNCHANGED <<created, sent>>

-----------------------------------------------------------------------------
(* The answer arrives.                                                     *)

\* A piece of the response that does not end the request.
Move(r, phase) ==
    /\ req' = [req EXCEPT ![r].phase = phase]
    /\ UNCHANGED <<chats, page, sent, overtaken>>

\* The finally clause of send(), whichever request it belongs to.
End(r) ==
    /\ req' = [req EXCEPT ![r].phase = "over"]
    /\ abortRef' = None
    /\ status' = "idle"
    /\ overtaken' = (overtaken /\ InFlight # {r})
    /\ UNCHANGED <<chats, sent, timers, reloads, loaded>>

StreamRefused(r) ==
    /\ req[r].phase = "opening"
    /\ Move(r, "streamRefused")
    /\ UNCHANGED messages

StreamOpens(r) ==
    /\ req[r].phase = "opening"
    /\ Move(r, "streaming")
    /\ UNCHANGED messages

\* onToken
Token(r) ==
    /\ req[r].phase \in {"streaming", "answering"}
    /\ Patch(r, "partial", FALSE)
    /\ Move(r, "answering")

\* onError: the server's error event replaces the text.
ErrorEvent(r) ==
    /\ \/ req[r].phase = "streaming" /\ Move(r, "failing")
       \/ req[r].phase = "answering" /\ Move(r, "cutShort")
    /\ Show(r, "notice")

\* A stream that has brought tokens ends, in order or not; a refusal by the
\* model is replaced by an explanation.
SpokenStreamEnds(r) ==
    /\ req[r].phase \in Speaking
    /\ Settle(r) \/ Show(r, "answer")
    /\ End(r)

\* A stream that has brought no token ends in order.
SilentStreamCloses(r) ==
    /\ req[r].phase \in Silent
    /\ Settle(r)
    /\ End(r)

\* The stream was refused or broke before its first token: try /ask.
FallBack(r) ==
    /\ req[r].phase \in {"opening", "streamRefused"} \cup Silent
    /\ Move(r, "json")
    /\ UNCHANGED messages

JsonRefused(r) ==
    /\ req[r].phase = "json"
    /\ Move(r, "jsonRefused")
    /\ UNCHANGED messages

JsonAnswers(r) ==
    /\ req[r].phase = "json"
    /\ Show(r, "answer")
    /\ End(r)

\* Mutated form: the cleanup belongs to the success path only.
JsonFailsUnclean(r) ==
    /\ req[r].phase \in {"json", "jsonRefused"}
    /\ Show(r, "unreachable")
    /\ Move(r, "over")

\* No response, or one with an error status: both are told the same.
JsonFails(r) ==
    /\ req[r].phase \in {"json", "jsonRefused"}
    /\ Show(r, "unreachable")
    /\ End(r)

Response(r) ==
    \/ StreamRefused(r) \/ StreamOpens(r) \/ Token(r) \/ ErrorEvent(r)
    \/ SpokenStreamEnds(r) \/ SilentStreamCloses(r) \/ FallBack(r)
    \/ JsonRefused(r) \/ JsonAnswers(r) \/ JsonFails(r)

-----------------------------------------------------------------------------
User ==
    \/ Send \/ Retry \/ Stop \/ NewChat \/ Reload
    \/ \E s \in Sessions : Select(s) \/ Delete(s)

Next == User \/ Resend \/ \E r \in Requests : Response(r)

\* Timers fire, and every response ends (the server's does, see SseStream).
Fairness == WF_vars(Resend) /\ \A r \in Requests : WF_vars(Response(r))

Spec == Init /\ [][Next]_vars /\ Fairness

-----------------------------------------------------------------------------
MessageType ==
    [role : {"user", "assistant"}, req : Requests, text : Texts, pending : BOOLEAN]

\* The hook's state has its types, no chat is listed twice, and the open chat
\* is one of the list, whichever were deleted or left behind by a reload.
TypeOK ==
    /\ order \in Seq(Sessions)
    /\ \A i, j \in DOMAIN order : i # j => order[i] # order[j]
    /\ active \in Stored
    /\ messages \in [Sessions -> Seq(MessageType)]
    /\ status \in {"idle", "loading", "streaming"}
    /\ abortRef \in Requests \cup {None}
    /\ req \in [Requests -> [phase : Phases, session : Sessions]]
    /\ timers \in Seq(Sessions)
    /\ created \in Sessions
    /\ sent \in 0..MaxRequests
    /\ reloads \in 0..MaxReloads
    /\ loaded \subseteq Requests
    /\ overtaken \in BOOLEAN

\* A message that shows the caret of an unfinished answer has a request behind
\* it: on every way out of send(), whether the stream fails, falls back, is
\* stopped or is refused, the message is settled.  Only a reload leaves carets.
PendingHasRequest ==
    \A s \in Sessions : \A i \in DOMAIN messages[s] :
        messages[s][i].pending => messages[s][i].req \in InFlight \cup loaded

\* Unless a deferred send has overtaken another one, the page is busy exactly
\* while a request runs, and the Stop button reaches that request.
BusyMatchesRequest ==
    ~overtaken =>
        /\ InFlight = IF abortRef = None THEN {} ELSE {abortRef}
        /\ (status = "idle") = (abortRef = None)

\* The page never stays busy: neither a failure at any point of a response nor
\* a stop nor an overtaken request leaves the composer locked.
BecomesIdle == (status # "idle") ~> (status = "idle")
=============================================================================
