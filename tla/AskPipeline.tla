---------------------------- MODULE AskPipeline ----------------------------
(***************************************************************************)
(* /ask of src/api.py over the semantic cache and the chat history of      *)
(* src/db.py: concurrent requests look up, retrieve, generate, and keep    *)
(* what they answered.                                                     *)
(*                                                                         *)
(* Connections are in autocommit mode, so every SQL statement is an action *)
(* of its own, and any of them may fail, before it took effect or after:   *)
(* then the reply is lost and the handler takes the statement for failed.  *)
(* A row of semantic_cache carries the request that inserted it and, as    *)
(* `at', updated_at; no two statements have the same NOW().  An answer is  *)
(* known by what it was made from and by what the cache will think of it:  *)
(* good, a refusal ("not enough info"), or too short.                      *)
(***************************************************************************)
EXTENDS Integers, Sequences, FiniteSets, FiniteSetsExt

CONSTANTS
    Requests,   \* concurrent requests
    Earlier,    \* requests of the past whose rows the cache may hold
    Questions,  \* normalized questions
    Near,       \* pairs of questions within the distance of the cache
    Topics,     \* topics a question can be limited to
    Sessions,   \* chat sessions
    None,       \* no topic, no session, no history
    Cap         \* rows the cache keeps (20000 in the code)

ASSUME AskAssumption ==
    /\ Cap \in Nat \ {0}
    /\ Earlier \cap Requests = {}
    /\ None \notin Topics \cup Sessions
    /\ Near \subseteq Questions \X Questions
    /\ \A q \in Questions : <<q, q>> \in Near

VARIABLES
    ask,       \* question, topic and session of every request
    pc,        \* progress of every request
    answer,    \* the answer a request has, found or generated
    history,   \* the session whose turns the model was given, or None
    table,     \* semantic_cache
    chat,      \* chat_messages
    untrimmed  \* history: rows whose trim failed or never ran, since the last one that did

stored == <<table, chat, untrimmed>>
vars == <<ask, pc, answer, history, table, chat, untrimmed>>

Asked == [question : Questions, topic : Topics \cup {None}, session : Sessions \cup {None}]
Kinds == {"ok", "refusal", "short"}

\* An answer, with the question and topic it was made for and the
\* conversation it continues.
Answers == [question : Questions, topic : Topics \cup {None},
            context : Sessions \cup {None}, kind : Kinds]
NoAnswer == [kind |-> "none"]

\* What an earlier request may have left in the cache and in the chat.
EarlierRows ==
    [id : Earlier, answer : {a \in Answers : a.kind = "ok" /\ a.context = None},
     hits : {2}, at : {1}, live : {TRUE}]
EarlierTurns ==
    {[i \in 1..2 |-> [session |-> s, role |-> IF i = 1 THEN "user" ELSE "assistant", req |-> r]] :
        s \in Sessions, r \in Earlier}

Init ==
    /\ ask \in [Requests -> Asked]
    /\ pc = [r \in Requests |-> "lookup"]
    /\ answer = [r \in Requests |-> NoAnswer]
    /\ history = [r \in Requests |-> None]
    /\ table \in {{}} \cup {{row} : row \in EarlierRows}
    /\ chat \in {<<>>} \cup EarlierTurns
    /\ untrimmed = 0

Goto(r, step) == pc' = [pc EXCEPT ![r] = step]

-----------------------------------------------------------------------------
(* Looking up.                                                             *)

\* Mutated form: lookups do not ask for quality 'ok'.
ServableAnyQuality(r) ==
    {row \in table :
        /\ row.live
        /\ ask[r].topic \in {None, row.answer.topic}}

\* Rows a lookup may return: of quality 'ok', not expired, and of the topic,
\* if the question has one.
Servable(r) ==
    {row \in table :
        /\ row.answer.kind = "ok"
        /\ row.live
        /\ ask[r].topic \in {None, row.answer.topic}}

\* The statement of check_exact_cache: the row updated last.
ExactMatches(r) ==
    LET same == {row \in Servable(r) : row.answer.question = ask[r].question}
    IN  {row \in same : \A other \in same : other.at <= row.at}

\* The statement of check_semantic_cache: the nearest row, and the nearest of
\* all are those of the same question.
SemanticMatches(r) ==
    LET near == {row \in Servable(r) : <<ask[r].question, row.answer.question>> \in Near}
        same == {row \in near : row.answer.question = ask[r].question}
    IN  IF same # {} THEN same ELSE near

Find(r, matches, hit, miss) ==
    \/ \E row \in matches :
          /\ answer' = [answer EXCEPT ![r] = [id |-> row.id, answer |-> row.answer]]
          /\ Goto(r, hit)
    \/ matches = {} /\ Goto(r, miss) /\ UNCHANGED answer

LookUpExact(r) ==
    /\ pc[r] = "lookup"
    /\ \/ Find(r, ExactMatches(r), "exactHit", "semantic")
       \/ Goto(r, "semantic") /\ UNCHANGED answer  \* the exception is dropped
    /\ UNCHANGED <<ask, history, stored>>

LookUpSemantic(r) ==
    /\ pc[r] = "semantic"
    /\ \/ Find(r, SemanticMatches(r), "semanticHit", "retrieve")
       \/ Goto(r, "failed") /\ UNCHANGED answer
    /\ UNCHANGED <<ask, history, stored>>

\* NOW(): later than every row's updated_at.
Now == 1 + Max({0} \cup {row.at : row \in table})

Replace(row, new) == table' = (table \ {row}) \cup {new}

\* Mutated form: the hit is kept as a new row.
CountHitAnew(r) ==
    /\ pc[r] \in {"exactHit", "semanticHit"}
    /\ table' = table \cup {[id |-> answer[r].id, answer |-> answer[r].answer,
                             hits |-> 2, at |-> Now, live |-> TRUE]}
    /\ answer' = [answer EXCEPT ![r] = @.answer]
    /\ Goto(r, "served")
    /\ UNCHANGED <<ask, history, chat, untrimmed>>

\* The hit is counted by a second statement; the row may be gone by then.
\* When it fails, the hit is given up.
CountHit(r) ==
    LET found == {row \in table : row.id = answer[r].id}
        count == \E row \in found : Replace(row, [row EXCEPT !.hits = @ + 1, !.at = Now])
    IN
    /\ pc[r] \in {"exactHit", "semanticHit"}
    /\ \/ /\ count \/ (found = {} /\ UNCHANGED table)
          /\ Goto(r, "served")
          /\ answer' = [answer EXCEPT ![r] = @.answer]
       \/ /\ count \/ UNCHANGED table
          /\ Goto(r, IF pc[r] = "exactHit" THEN "semantic" ELSE "failed")
          /\ answer' = [answer EXCEPT ![r] = NoAnswer]
    /\ UNCHANGED <<ask, history, chat, untrimmed>>

-----------------------------------------------------------------------------
(* Making an answer.                                                       *)

\* retrieve_super and build_context: the search fails, finds nothing, or
\* finds something.
Retrieve(r) ==
    /\ pc[r] = "retrieve"
    /\ \/ Goto(r, "failed")
       \/ Goto(r, "empty")
       \/ Goto(r, IF ask[r].session = None THEN "generate" ELSE "history")
    /\ UNCHANGED <<ask, answer, history, stored>>

\* The last n of some turns.
Latest(n, turns) == {i \in turns : Cardinality({j \in turns : i < j}) < n}

\* get_chat_history: the last six turns of a session.
Said(s) == Latest(6, {i \in DOMAIN chat : chat[i].session = s})

\* prepare_messages gives the model the last four of them.
Given(s) == Latest(4, Said(s))

\* get_chat_history; without it the answer is made without it.
ReadHistory(r) ==
    /\ pc[r] = "history"
    /\ history' \in {history, [history EXCEPT ![r] =
           IF Given(ask[r].session) = {} THEN None ELSE ask[r].session]}
    /\ Goto(r, "generate")
    /\ UNCHANGED <<ask, answer, stored>>

\* generate_answer_from_context fails, or answers.
Generate(r) ==
    /\ pc[r] = "generate"
    /\ \/ Goto(r, "failed") /\ UNCHANGED answer
       \/ \E kind \in Kinds :
             /\ answer' = [answer EXCEPT ![r] =
                    [question |-> ask[r].question, topic |-> ask[r].topic,
                     context |-> history[r], kind |-> kind]]
             /\ Goto(r, IF ask[r].session = None THEN "insert" ELSE "saveQuestion")
    /\ UNCHANGED <<ask, history, stored>>

-----------------------------------------------------------------------------
(* Keeping it.                                                             *)

Say(r, role) ==
    chat' = Append(chat, [session |-> ask[r].session, role |-> role, req |-> r])

\* Mutated form: each insert has a handler of its own.
SaveQuestionApart(r) ==
    /\ pc[r] = "saveQuestion"
    /\ Say(r, "user") \/ UNCHANGED chat
    /\ Goto(r, "saveAnswer")
    /\ UNCHANGED <<ask, answer, history, table, untrimmed>>

\* Two inserts under one handler: when the first fails there is no second.
SaveQuestion(r) ==
    /\ pc[r] = "saveQuestion"
    /\ \/ Say(r, "user") /\ Goto(r, "saveAnswer")
       \/ (Say(r, "user") \/ UNCHANGED chat) /\ Goto(r, "insert")
    /\ UNCHANGED <<ask, answer, history, table, untrimmed>>

SaveAnswer(r) ==
    /\ pc[r] = "saveAnswer"
    /\ Say(r, "assistant") \/ UNCHANGED chat
    /\ Goto(r, "insert")
    /\ UNCHANGED <<ask, answer, history, table, untrimmed>>

\* save_semantic_cache: short answers are not kept, refusals with another
\* quality.  There is no trim after an insert that fails.
Insert(r) ==
    /\ pc[r] = "insert"
    /\ \/ /\ answer[r].kind # "short"
          /\ table' = table \cup {[id |-> r, answer |-> answer[r], hits |-> 1, at |-> Now,
                                   live |-> TRUE]}
          /\ \/ Goto(r, "trim") /\ UNCHANGED untrimmed
             \/ Goto(r, "answered") /\ untrimmed' = untrimmed + 1
       \/ Goto(r, "answered") /\ UNCHANGED <<table, untrimmed>>
    /\ UNCHANGED <<ask, answer, history, chat>>

Hotter(x, y) == x.hits > y.hits \/ (x.hits = y.hits /\ x.at > y.at)

\* The rows that fewer than Cap others precede.
Hottest == {row \in table : Cardinality({other \in table : Hotter(other, row)}) < Cap}

\* Mutated form: one row goes, and only when the table is exactly one over.
TrimOne(r) ==
    /\ pc[r] = "trim"
    /\ table' = IF Cardinality(table) = Cap + 1
                THEN {row \in table : \E other \in table : Hotter(row, other)} ELSE table
    /\ untrimmed' = 0
    /\ Goto(r, "answered")
    /\ UNCHANGED <<ask, answer, history, chat>>

\* "Cap table": all but the Cap hottest rows go, or the statement fails.
Trim(r) ==
    /\ pc[r] = "trim"
    /\ \/ table' = Hottest /\ untrimmed' = 0
       \/ untrimmed' = untrimmed + 1 /\ UNCHANGED table
    /\ Goto(r, "answered")
    /\ UNCHANGED <<ask, answer, history, chat>>

\* Time passes a row's expires_at; nothing removes it for that.
Expire ==
    /\ \E row \in table : row.live /\ Replace(row, [row EXCEPT !.live = FALSE])
    /\ UNCHANGED <<ask, pc, answer, history, chat, untrimmed>>

-----------------------------------------------------------------------------
Ask(r) ==
    \/ LookUpExact(r) \/ LookUpSemantic(r) \/ CountHit(r) \/ Retrieve(r)
    \/ ReadHistory(r) \/ Generate(r) \/ SaveQuestion(r) \/ SaveAnswer(r)
    \/ Insert(r) \/ Trim(r)

Next == Expire \/ \E r \in Requests : Ask(r)

Spec == Init /\ [][Next]_vars

-----------------------------------------------------------------------------
RowType == [id : Requests \cup Earlier, answer : Answers, hits : Nat \ {0}, at : Nat \ {0},
            live : BOOLEAN]
FoundType == [id : Requests \cup Earlier, answer : Answers]

\* Rows, turns and locals keep their types, and no two rows are of the same
\* request or were updated at the same time, whatever is counted, trimmed or
\* expires between the two statements of a hit.
TypeOK ==
    /\ ask \in [Requests -> Asked]
    /\ pc \in [Requests -> {"lookup", "exactHit", "semantic", "semanticHit", "served",
                            "retrieve", "empty", "failed", "history", "generate",
                            "saveQuestion", "saveAnswer", "insert", "trim", "answered"}]
    /\ \A r \in Requests : answer[r] \in Answers \cup FoundType \cup {NoAnswer}
    /\ history \in [Requests -> Sessions \cup {None}]
    /\ table \subseteq RowType
    /\ \A x, y \in table : x.id = y.id \/ x.at = y.at => x = y
    /\ chat \in Seq([session : Sessions, role : {"user", "assistant"},
                    req : Requests \cup Earlier])
    /\ untrimmed \in Nat

\* The cache grows past its cap only by rows whose trim is still to come, has
\* failed or was never reached, whatever the order of concurrent inserts, hits
\* and trims.
TableBounded ==
    Cardinality(table) <= Cap + Cardinality({r \in Requests : pc[r] = "trim"}) + untrimmed

\* An answer from the cache was good, was made for a near question, and for
\* the topic the asker is limited to.
ServedFits ==
    \A r \in Requests : pc[r] = "served" =>
        /\ answer[r].kind = "ok"
        /\ <<ask[r].question, answer[r].question>> \in Near
        /\ ask[r].topic \in {None, answer[r].topic}

\* The turns of a chat, from which the history of the model is cut, are only
\* those of requests that were answered, and an answer comes only after its
\* question: a request that failed at any step, or that was served from the
\* cache, has left no turn.  (The cut may part an answer from its question.)
TurnsAreOfAnswered ==
    \A i \in DOMAIN chat :
        LET r == chat[i].req IN
        /\ r \in Requests => pc[r] \in {"saveAnswer", "insert", "trim", "answered"}
        /\ chat[i].role = "assistant" =>
               \E j \in 1..(i - 1) : chat[j].req = r /\ chat[j].role = "user"

=============================================================================
