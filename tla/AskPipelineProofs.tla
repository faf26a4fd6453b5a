------------------------- MODULE AskPipelineProofs -------------------------
(***************************************************************************)
(* Proofs about AskPipeline, for any number of requests, questions and     *)
(* sessions, any relation Near and any cap.                                *)
(*                                                                         *)
(* What is served and what is kept in the chat are decided one step before *)
(* the properties speak of it, so IInv says what is known in between: a    *)
(* row that was found but not yet counted fits its asker (FoundFits), and  *)
(* a request about to save its answer has saved its question               *)
(* (QuestionSaved).                                                        *)
(***************************************************************************)
EXTENDS AskPipeline, SequenceTheorems, FiniteSetTheorems, TLAPS

Steps == {"lookup", "exactHit", "semantic", "semanticHit", "served", "retrieve", "empty",
          "failed", "history", "generate", "saveQuestion", "saveAnswer", "insert", "trim",
          "answered"}
Turns == [session : Sessions \cup {None}, role : {"user", "assistant"},
          req : Requests \cup Earlier]

\* The types the proofs need; those of the table are not among them.
Shape ==
    /\ ask \in [Requests -> Asked]
    /\ pc \in [Requests -> Steps]
    /\ DOMAIN answer = Requests
    /\ answer = [r \in Requests |-> answer[r]]
    /\ chat \in Seq(Turns)

Fits(r, a) ==
    /\ a.kind = "ok"
    /\ <<ask[r].question, a.question>> \in Near
    /\ ask[r].topic \in {None, a.topic}

FoundFits ==
    \A r \in Requests :
        pc[r] \in {"exactHit", "semanticHit"} => Fits(r, answer[r].answer)

HasAsked(r) == \E j \in DOMAIN chat : chat[j].req = r /\ chat[j].role = "user"

QuestionSaved == \A r \in Requests : pc[r] = "saveAnswer" => HasAsked(r)

Serving == Shape /\ FoundFits /\ ServedFits

Keeping == Shape /\ QuestionSaved /\ TurnsAreOfAnswered

-----------------------------------------------------------------------------
\* The lookups return rows that fit: by their own conditions, and because a
\* question is near itself.
LEMMA MatchesFit ==
    ASSUME Shape, NEW r \in Requests
    PROVE  /\ \A row \in ExactMatches(r) : Fits(r, row.answer)
           /\ \A row \in SemanticMatches(r) : Fits(r, row.answer)
<1>1. <<ask[r].question, ask[r].question>> \in Near
  BY AskAssumption DEF Shape, Asked
<1>2. ASSUME NEW row \in ExactMatches(r)
      PROVE  Fits(r, row.answer)
  BY <1>1, <1>2 DEF ExactMatches, Servable, Fits
<1>3. ASSUME NEW row \in SemanticMatches(r)
      PROVE  Fits(r, row.answer)
  BY <1>1, <1>3 DEF SemanticMatches, Servable, Fits
<1> QED
  BY <1>2, <1>3

\* A step of a request moves its own counter only, and no step changes ask.
LEMMA OnlyOwnStep ==
    ASSUME Shape, NEW r \in Requests, Ask(r)
    PROVE  /\ ask' = ask
           /\ pc' \in [Requests -> Steps]
           /\ \A s \in Requests \ {r} : pc'[s] = pc[s] /\ answer'[s] = answer[s]
           /\ DOMAIN answer' = Requests
           /\ answer' = [s \in Requests |-> answer'[s]]
<1> USE DEF Shape, Steps, Goto, stored
<1>1. CASE LookUpExact(r)
  BY <1>1 DEF LookUpExact, Find
<1>2. CASE LookUpSemantic(r)
  BY <1>2 DEF LookUpSemantic, Find
<1>3. CASE CountHit(r)
  BY <1>3 DEF CountHit
<1>4. CASE Retrieve(r)
  BY <1>4 DEF Retrieve
<1>5. CASE ReadHistory(r)
  BY <1>5 DEF ReadHistory
<1>6. CASE Generate(r)
  BY <1>6 DEF Generate
<1>7. CASE SaveQuestion(r)
  BY <1>7 DEF SaveQuestion
<1>8. CASE SaveAnswer(r)
  BY <1>8 DEF SaveAnswer
<1>9. CASE Insert(r)
  BY <1>9 DEF Insert
<1>10. CASE Trim(r)
  BY <1>10 DEF Trim
<1> QED
  BY <1>1, <1>2, <1>3, <1>4, <1>5, <1>6, <1>7, <1>8, <1>9, <1>10 DEF Ask

\* What a step of a request does to the chat.
LEMMA OnlySavesSpeak ==
    ASSUME Shape, NEW r \in Requests, Ask(r)
    PROVE  \/ chat' = chat
           \/ \E role \in {"user", "assistant"} :
                 /\ chat' = Append(chat, [session |-> ask[r].session, role |-> role, req |-> r])
                 /\ role = "user" => pc[r] = "saveQuestion" /\ pc'[r] \in {"saveAnswer", "insert"}
                 /\ role = "assistant" => pc[r] = "saveAnswer" /\ pc'[r] = "insert"
<1>1. CASE SaveQuestion(r)
  BY <1>1 DEF SaveQuestion, Say, Goto, Shape
<1>2. CASE SaveAnswer(r)
  BY <1>2 DEF SaveAnswer, Say, Goto, Shape
<1>3. CASE ~SaveQuestion(r) /\ ~SaveAnswer(r)
  BY <1>3 DEF Ask, LookUpExact, LookUpSemantic, CountHit, Retrieve, ReadHistory, Generate,
              Insert, Trim, stored
<1> QED
  BY <1>1, <1>2, <1>3

\* Shape is kept.
LEMMA ShapeKept ==
    ASSUME Shape, [Next]_vars
    PROVE  Shape'
<1>1. ASSUME NEW r \in Requests, Ask(r)
      PROVE  Shape'
  <2>1. chat' \in Seq(Turns)
    <3>1. ask[r].session \in Sessions \cup {None}
      BY DEF Shape, Asked
    <3>2. \A role \in {"user", "assistant"} :
              [session |-> ask[r].session, role |-> role, req |-> r] \in Turns
      BY <3>1 DEF Turns
    <3>3. \A turn \in Turns : Append(chat, turn) \in Seq(Turns)
      BY DEF Shape
    <3>4. \/ chat' = chat
          \/ \E role \in {"user", "assistant"} :
                chat' = Append(chat, [session |-> ask[r].session, role |-> role, req |-> r])
      BY <1>1, OnlySavesSpeak
    <3>5. CASE chat' = chat
      BY <3>5 DEF Shape
    <3> QED
      BY <3>2, <3>3, <3>4, <3>5
  <2> QED
    BY <1>1, <2>1, OnlyOwnStep DEF Shape
<1>2. CASE Expire \/ UNCHANGED vars
  BY <1>2 DEF Expire, vars, Shape
<1> QED
  BY <1>1, <1>2 DEF Next

-----------------------------------------------------------------------------
LEMMA ServingInit == ASSUME Init PROVE Serving
<1>1. pc \in [Requests -> Steps]
  BY DEF Init, Steps
<1>2. chat \in Seq(Turns)
  <2>1. CASE chat = <<>>
    BY <2>1
  <2>2. CASE chat \in EarlierTurns
    <3>1. PICK s \in Sessions, e \in Earlier :
              chat = [i \in 1..2 |-> [session |-> s, role |-> IF i = 1 THEN "user" ELSE "assistant",
                                      req |-> e]]
      BY <2>2 DEF EarlierTurns
    <3>2. chat \in [1..2 -> Turns]
      BY <3>1 DEF Turns
    <3>3. 2 \in Nat
      OBVIOUS
    <3> QED
      BY <3>2, <3>3, SeqDef
  <2> QED
    BY <2>1, <2>2 DEF Init
<1>3. Shape
  BY <1>1, <1>2 DEF Init, Shape
<1> QED
  BY <1>3 DEF Init, Serving, FoundFits, ServedFits

\* A row is found only if it fits, and served only after it was found.
LEMMA ServingStep == ASSUME Serving, [Next]_vars PROVE Serving'
<1>1. Shape /\ Shape'
  BY ShapeKept DEF Serving
<1>2. ASSUME NEW r \in Requests, Ask(r)
      PROVE  FoundFits' /\ ServedFits'
  <2>1. /\ ask' = ask
        /\ \A s \in Requests \ {r} : pc'[s] = pc[s] /\ answer'[s] = answer[s]
    BY <1>1, <1>2, OnlyOwnStep
  <2>2. pc'[r] \in {"exactHit", "semanticHit"} => Fits(r, answer'[r].answer)
    <3>1. CASE LookUpExact(r)
      BY <1>1, <3>1, MatchesFit DEF LookUpExact, Find, Goto, Shape
    <3>2. CASE LookUpSemantic(r)
      BY <1>1, <3>2, MatchesFit DEF LookUpSemantic, Find, Goto, Shape
    <3>3. CASE ~LookUpExact(r) /\ ~LookUpSemantic(r)
      BY <1>1, <1>2, <3>3 DEF Ask, CountHit, Retrieve, ReadHistory, Generate, SaveQuestion,
                              SaveAnswer, Insert, Trim, Goto, Shape
    <3> QED
      BY <3>1, <3>2, <3>3
  <2>3. pc'[r] = "served" => Fits(r, answer'[r])
    <3>1. CASE CountHit(r)
      BY <1>1, <3>1 DEF CountHit, Goto, Shape, Serving, FoundFits
    <3>2. CASE ~CountHit(r)
      BY <1>1, <1>2, <3>2 DEF Ask, LookUpExact, LookUpSemantic, Find, Retrieve, ReadHistory,
                              Generate, SaveQuestion, SaveAnswer, Insert, Trim, Goto, Shape
    <3> QED
      BY <3>1, <3>2
  <2> QED
    BY <2>1, <2>2, <2>3 DEF Serving, FoundFits, ServedFits, Fits
<1>3. CASE Expire \/ UNCHANGED vars
  BY <1>1, <1>3 DEF Expire, vars, Serving, FoundFits, ServedFits, Fits
<1> QED
  BY <1>1, <1>2, <1>3 DEF Next, Serving

\* Whatever is served from the cache is a good answer to a near question and
\* of the topic asked for.
THEOREM ServedAnswersFit == Spec => []ServedFits
<1>1. Serving => ServedFits
  BY DEF Serving
<1> QED
  BY ServingInit, ServingStep, <1>1, PTL DEF Spec

-----------------------------------------------------------------------------
LEMMA KeepingInit == ASSUME Init PROVE Keeping
<1>1. Shape
  BY ServingInit DEF Serving
<1>2. QuestionSaved
  BY DEF Init, QuestionSaved
<1>3. TurnsAreOfAnswered
  <2>1. CASE chat = <<>>
    BY <2>1 DEF TurnsAreOfAnswered
  <2>2. CASE chat \in EarlierTurns
    <3>1. PICK s \in Sessions, e \in Earlier :
              chat = [i \in 1..2 |-> [session |-> s, role |-> IF i = 1 THEN "user" ELSE "assistant",
                                      req |-> e]]
      BY <2>2 DEF EarlierTurns
    <3>2. e \notin Requests
      BY AskAssumption
    <3>3. DOMAIN chat = 1..2 /\ chat[1].role = "user" /\ \A i \in 1..2 : chat[i].req = e
      BY <3>1
    <3>4. ASSUME NEW i \in DOMAIN chat, chat[i].role = "assistant"
          PROVE  \E j \in 1..(i - 1) : chat[j].req = e /\ chat[j].role = "user"
      <4>1. i = 2
        BY <3>3, <3>4
      <4> QED
        BY <3>3, <4>1
    <3> QED
      BY <3>2, <3>3, <3>4 DEF TurnsAreOfAnswered
  <2> QED
    BY <2>1, <2>2 DEF Init
<1> QED
  BY <1>1, <1>2, <1>3 DEF Keeping

\* Where a request that has turns in the chat can be, and that it stays there.
After == {"saveAnswer", "insert", "trim", "answered"}

LEMMA StaysAfter ==
    ASSUME Shape, NEW r \in Requests, Ask(r), pc[r] \in After
    PROVE  pc'[r] \in After
BY DEF Ask, LookUpExact, LookUpSemantic, CountHit, Retrieve, ReadHistory, Generate,
       SaveQuestion, SaveAnswer, Insert, Trim, Goto, Shape, After

\* Only a saved question leads to saveAnswer.
LEMMA EntersByQuestion ==
    ASSUME Shape, NEW r \in Requests, Ask(r), pc'[r] = "saveAnswer"
    PROVE  chat' = Append(chat, [session |-> ask[r].session, role |-> "user", req |-> r])
BY DEF Ask, LookUpExact, LookUpSemantic, Find, CountHit, Retrieve, ReadHistory, Generate,
       SaveQuestion, SaveAnswer, Insert, Trim, Goto, Say, Shape

\* A turn is added by a request that has its answer, the answer's after the
\* question's; a request with turns never gets to a failure.
LEMMA KeepingStep == ASSUME Keeping, [Next]_vars PROVE Keeping'
<1>1. Shape /\ Shape'
  BY ShapeKept DEF Keeping
<1>2. ASSUME NEW r \in Requests, Ask(r)
      PROVE  QuestionSaved' /\ TurnsAreOfAnswered'
  <2>1. \A s \in Requests \ {r} : pc'[s] = pc[s]
    BY <1>1, <1>2, OnlyOwnStep
  <2>2. \A s \in Requests : pc[s] \in After => pc'[s] \in After
    BY <1>1, <1>2, <2>1, StaysAfter
  <2>3. chat \in Seq(Turns)
    BY <1>1 DEF Shape
  <2>4. /\ Len(chat) \in Nat
        /\ DOMAIN chat = 1..Len(chat)
    BY <2>3
  <2>5. CASE chat' = chat
    <3>1. pc'[r] # "saveAnswer"
      <4> SUFFICES ASSUME pc'[r] = "saveAnswer" PROVE FALSE
        OBVIOUS
      <4>1. chat' = Append(chat, [session |-> ask[r].session, role |-> "user", req |-> r])
        BY <1>1, <1>2, EntersByQuestion
      <4>2. Len(chat') = Len(chat) + 1
        BY <2>3, <4>1
      <4> QED
        BY <2>4, <2>5, <4>2
    <3>2. QuestionSaved'
      BY <2>1, <2>5, <3>1 DEF Keeping, QuestionSaved, HasAsked
    <3>3. TurnsAreOfAnswered'
      BY <2>2, <2>5 DEF Keeping, TurnsAreOfAnswered, After
    <3> QED
      BY <3>2, <3>3
  <2>6. ASSUME NEW role \in {"user", "assistant"},
               chat' = Append(chat, [session |-> ask[r].session, role |-> role, req |-> r]),
               role = "user" => pc[r] = "saveQuestion" /\ pc'[r] \in {"saveAnswer", "insert"},
               role = "assistant" => pc[r] = "saveAnswer" /\ pc'[r] = "insert"
        PROVE  QuestionSaved' /\ TurnsAreOfAnswered'
    <3> DEFINE n == Len(chat) + 1
    <3>1. /\ DOMAIN chat' = 1..n
          /\ \A i \in 1..Len(chat) : chat'[i] = chat[i]
          /\ chat'[n] = [session |-> ask[r].session, role |-> role, req |-> r]
      BY <2>3, <2>4, <2>6
    <3>2. \A s \in Requests : HasAsked(s) => HasAsked(s)'
      BY <2>4, <3>1 DEF HasAsked
    <3>3. role = "user" => HasAsked(r)'
      BY <2>4, <3>1 DEF HasAsked
    <3>4. QuestionSaved'
      BY <2>1, <2>6, <3>2, <3>3 DEF Keeping, QuestionSaved
    <3>5. ASSUME NEW i \in 1..Len(chat)
          PROVE  /\ chat'[i].req \in Requests => pc'[chat'[i].req] \in After
                 /\ chat'[i].role = "assistant" =>
                       \E j \in 1..(i - 1) : chat'[j].req = chat'[i].req /\ chat'[j].role = "user"
      <4>1. chat'[i] = chat[i] /\ \A j \in 1..(i - 1) : chat'[j] = chat[j]
        BY <2>4, <3>1
      <4>2. /\ chat[i].req \in Requests => pc[chat[i].req] \in After
            /\ chat[i].role = "assistant" =>
                  \E j \in 1..(i - 1) : chat[j].req = chat[i].req /\ chat[j].role = "user"
        BY <2>4 DEF Keeping, TurnsAreOfAnswered, After
      <4> QED
        BY <2>2, <4>1, <4>2
    <3>6. pc'[r] \in After
      BY <2>6 DEF After
    <3>7. role = "assistant" =>
              \E j \in 1..(n - 1) : chat'[j].req = r /\ chat'[j].role = "user"
      <4>1. role = "assistant" => HasAsked(r)
        BY <2>6 DEF Keeping, QuestionSaved
      <4>2. n - 1 = Len(chat)
        BY <2>4
      <4> QED
        BY <2>4, <3>1, <4>1, <4>2 DEF HasAsked
    <3>8. ASSUME NEW i \in DOMAIN chat'
          PROVE  /\ chat'[i].req \in Requests => pc'[chat'[i].req] \in After
                 /\ chat'[i].role = "assistant" =>
                       \E j \in 1..(i - 1) : chat'[j].req = chat'[i].req /\ chat'[j].role = "user"
      <4>1. CASE i \in 1..Len(chat)
        BY <3>5, <4>1
      <4>2. CASE i = n
        <5>1. chat'[i].req = r /\ chat'[i].role = role
          BY <3>1, <4>2
        <5> QED
          BY <3>6, <3>7, <4>2, <5>1
      <4> QED
        BY <2>4, <3>1, <4>1, <4>2
    <3>9. TurnsAreOfAnswered'
      BY <3>8 DEF TurnsAreOfAnswered, After
    <3> QED
      BY <3>4, <3>9
  <2> QED
    BY <1>1, <1>2, <2>5, <2>6, OnlySavesSpeak
<1>3. CASE Expire \/ UNCHANGED vars
  BY <1>1, <1>3 DEF Expire, vars, Keeping, QuestionSaved, HasAsked, TurnsAreOfAnswered
<1> QED
  BY <1>1, <1>2, <1>3 DEF Next, Keeping

\* The chat history holds only turns of answered requests, every answer after
\* its question, for any number of requests and failures.
THEOREM HistoryIsOfAnswered == Spec => []TurnsAreOfAnswered
<1>1. Keeping => TurnsAreOfAnswered
  BY DEF Keeping
<1> QED
  BY KeepingInit, KeepingStep, <1>1, PTL DEF Spec

-----------------------------------------------------------------------------
(* The table of the cache.                                                 *)

\* Rows are typed and told apart by request and by time; a row of a request
\* is one that it inserted.  That the times are bounded makes Now well defined.
TableOK ==
    /\ table \subseteq RowType
    /\ \A x, y \in table : x.id = y.id \/ x.at = y.at => x = y
    /\ IsFiniteSet(table)
    /\ \E n \in Nat : \A row \in table : row.at <= n

LEMMA NatMin ==
    ASSUME NEW T \in SUBSET Nat, T # {}
    PROVE  \E m \in T : \A k \in T : m <= k
<1>1. IsWellFoundedOn(OpToRel(<, Nat), Nat)
  BY NatLessThanWellFounded
<1>2. PICK m \in T : \A k \in T : ~(<<k, m>> \in OpToRel(<, Nat))
  BY <1>1, WFMin
<1>3. \A k \in T : ~(k < m)
  BY <1>2 DEF OpToRel
<1> QED
  BY <1>3

LEMMA MaxIs ==
    ASSUME NEW S \in SUBSET Nat, S # {}, NEW n \in Nat, \A x \in S : x <= n
    PROVE  Max(S) \in S /\ \A x \in S : x <= Max(S)
<1> DEFINE Bounds == {k \in Nat : \A x \in S : x <= k}
<1>1. PICK m \in Bounds : \A k \in Bounds : m <= k
  <2>1. Bounds \in SUBSET Nat /\ n \in Bounds
    OBVIOUS
  <2> HIDE DEF Bounds
  <2> QED
    BY <2>1, NatMin
<1>2. m \in S
  <2> SUFFICES ASSUME m \notin S PROVE FALSE
    OBVIOUS
  <2>1. m \in Nat /\ \A x \in S : x \in Nat /\ x < m
    OBVIOUS
  <2>2. m - 1 \in Nat /\ \A x \in S : x <= m - 1
    <3>1. PICK x \in S : x \in Nat /\ x < m
      BY <2>1
    <3> HIDE DEF Bounds
    <3>2. m - 1 \in Nat
      BY <2>1, <3>1
    <3> QED
      BY <2>1, <3>2
  <2>3. m - 1 \in Bounds
    BY <2>2
  <2> QED
    BY <1>1, <2>1, <2>3
<1>3. \E x \in S : \A y \in S : x >= y
  BY <1>1, <1>2
<1>4. Max(S) \in S /\ \A y \in S : Max(S) >= y
  BY <1>3 DEF Max
<1> QED
  BY <1>4

\* A statement's NOW() is later than every row's.
LEMMA NowIsLater ==
    ASSUME TableOK
    PROVE  Now \in Nat \ {0} /\ \A row \in table : row.at \in Nat /\ row.at < Now
<1> DEFINE S == {0} \cup {row.at : row \in table}
<1>1. \A row \in table : row.at \in Nat
  BY DEF TableOK, RowType
<1>2. S \in SUBSET Nat /\ S # {}
  BY <1>1
<1>3. PICK n \in Nat : \A x \in S : x <= n
  BY DEF TableOK
<1>4. Max(S) \in S /\ \A x \in S : x <= Max(S)
  <2> HIDE DEF S
  <2> QED
    BY <1>2, <1>3, MaxIs
<1>5. Now = 1 + Max(S)
  BY DEF Now
<1>6. Max(S) \in Nat /\ \A row \in table : row.at <= Max(S)
  <2>1. \A row \in table : row.at \in S
    OBVIOUS
  <2> HIDE DEF S
  <2> QED
    BY <1>2, <1>4, <2>1
<1> HIDE DEF S
<1> QED
  BY <1>1, <1>5, <1>6

\* A row may be put in the place of one of the same request.
LEMMA ReplaceKeeps ==
    ASSUME TableOK, NEW row \in table, NEW new \in RowType, new.id = row.id,
           new.at \in {row.at, Now}, Replace(row, new)
    PROVE  /\ TableOK'
           /\ \A x \in table' : \E y \in table : x.id = y.id
           /\ Cardinality(table') <= Cardinality(table)
<1>1. table' = (table \ {row}) \cup {new}
  BY DEF Replace
<1>2. Now \in Nat /\ \A x \in table : x.at \in Nat /\ x.at < Now
  BY NowIsLater
<1>3. table' \subseteq RowType
  BY <1>1 DEF TableOK
<1>4. \A x \in table \ {row} : x.id # new.id /\ x.at # new.at
  BY <1>2 DEF TableOK
<1>5. \A x, y \in table' : x.id = y.id \/ x.at = y.at => x = y
  BY <1>1, <1>4 DEF TableOK
<1>6. \A x \in table' : x.at <= Now
  BY <1>1, <1>2
<1>7. /\ IsFiniteSet(table \ {row}) /\ Cardinality(table \ {row}) = Cardinality(table) - 1
      /\ Cardinality(table) \in Nat
  BY FS_RemoveElement, FS_CardinalityType DEF TableOK
<1>8. IsFiniteSet(table') /\ Cardinality(table') <= Cardinality(table)
  <2> DEFINE rest == table \ {row}
  <2>1. IsFiniteSet(rest) /\ Cardinality(rest) = Cardinality(table) - 1
    BY <1>7
  <2>2. table' = rest \cup {new}
    BY <1>1
  <2> HIDE DEF rest
  <2>3. /\ IsFiniteSet(rest \cup {new})
        /\ Cardinality(rest \cup {new}) =
              IF new \in rest THEN Cardinality(rest) ELSE Cardinality(rest) + 1
    BY <2>1, FS_AddElement
  <2> QED
    BY <1>7, <2>1, <2>2, <2>3
<1> QED
  BY <1>1, <1>2, <1>3, <1>5, <1>6, <1>8 DEF TableOK

\* Any set of rows has one that no other is colder than.
LEMMA Coldest ==
    ASSUME TableOK, NEW K \in SUBSET table, K # {}
    PROVE  \E x \in K : \A y \in K \ {x} : Hotter(y, x)
<1>1. \A x \in table : x.hits \in Nat /\ x.at \in Nat
  BY DEF TableOK, RowType
<1>2. PICK x \in K : \A y \in K : x.hits <= y.hits
  <2> DEFINE H == {y.hits : y \in K}
  <2>1. H \in SUBSET Nat /\ H # {}
    BY <1>1
  <2>2. \E h \in H : \A k \in H : h <= k
    BY <2>1, NatMin
  <2> QED
    BY <2>2
<1> DEFINE L == {y \in K : y.hits = x.hits}
<1>3. PICK z \in L : \A y \in L : z.at <= y.at
  <2> DEFINE A == {y.at : y \in L}
  <2>1. A \in SUBSET Nat /\ A # {}
    BY <1>1
  <2>2. \E a \in A : \A k \in A : a <= k
    BY <2>1, NatMin
  <2> QED
    BY <2>2
<1>4. ASSUME NEW y \in K \ {z}
      PROVE  Hotter(y, z)
  <2>1. y.at # z.at
    BY DEF TableOK
  <2>2. CASE y.hits = x.hits
    BY <1>1, <1>3, <2>1, <2>2 DEF Hotter
  <2>3. CASE y.hits # x.hits
    BY <1>1, <1>2, <2>3 DEF Hotter
  <2> QED
    BY <2>2, <2>3
<1> QED
  BY <1>4

\* The cap holds after a trim: the coldest of the rows kept is preceded by the
\* others, so they are fewer than Cap.
LEMMA HottestBounded ==
    ASSUME TableOK
    PROVE  IsFiniteSet(Hottest) /\ Cardinality(Hottest) <= Cap
<1>1. IsFiniteSet(Hottest) /\ Cardinality(Hottest) \in Nat /\ Hottest \subseteq table
  BY FS_Subset, FS_CardinalityType DEF TableOK, Hottest
<1>2. CASE Hottest = {}
  BY <1>2, FS_EmptySet, AskAssumption
<1>3. CASE Hottest # {}
  <2>1. PICK x \in Hottest : \A y \in Hottest \ {x} : Hotter(y, x)
    BY <1>1, <1>3, Coldest
  <2> DEFINE before == {other \in table : Hotter(other, x)}
  <2>2. Cardinality(before) < Cap
    BY <2>1 DEF Hottest
  <2>3. IsFiniteSet(before) /\ Cardinality(before) \in Nat
    <3>1. before \in SUBSET table
      OBVIOUS
    <3> QED
      BY <3>1, FS_Subset, FS_CardinalityType DEF TableOK
  <2>4. Hottest \ {x} \in SUBSET before
    BY <1>1, <2>1
  <2>5. Cardinality(Hottest \ {x}) <= Cardinality(before)
    <3> HIDE DEF before
    <3> QED
      BY <2>3, <2>4, FS_Subset
  <2>6. Cardinality(Hottest \ {x}) = Cardinality(Hottest) - 1
    BY <1>1, <2>1, FS_RemoveElement
  <2> QED
    BY <1>1, <2>2, <2>3, <2>5, <2>6, AskAssumption
<1> QED
  BY <1>1, <1>2, <1>3

-----------------------------------------------------------------------------
(* The locals of the requests.                                             *)

\* What a request holds, by where it is.
Holds(r) ==
    /\ answer[r] \in Answers \cup FoundType \cup {NoAnswer}
    /\ pc[r] \in {"exactHit", "semanticHit"} => answer[r] \in FoundType
    /\ pc[r] \in {"served", "saveQuestion", "saveAnswer", "insert", "trim", "answered"} =>
           answer[r] \in Answers
    /\ pc[r] \in {"history", "saveQuestion", "saveAnswer"} => ask[r].session \in Sessions
    /\ history[r] \in Sessions \cup {None}

SaidTurns == [session : Sessions, role : {"user", "assistant"}, req : Requests \cup Earlier]

Locals ==
    /\ history \in [Requests -> Sessions \cup {None}]
    /\ \A r \in Requests : Holds(r)
    /\ chat \in Seq(SaidTurns)

LEMMA FoundAreTyped ==
    ASSUME TableOK, NEW r \in Requests
    PROVE  \A row \in ExactMatches(r) \cup SemanticMatches(r) :
              [id |-> row.id, answer |-> row.answer] \in FoundType
<1>1. \A row \in table : [id |-> row.id, answer |-> row.answer] \in FoundType
  BY DEF TableOK, RowType, FoundType
<1>2. ExactMatches(r) \cup SemanticMatches(r) \subseteq table
  BY DEF ExactMatches, SemanticMatches, Servable
<1> QED
  BY <1>1, <1>2

LEMMA LocalsKept ==
    ASSUME Shape, TableOK, Locals, NEW r \in Requests, Ask(r)
    PROVE  Locals'
<1>1. /\ ask' = ask
      /\ \A s \in Requests \ {r} : pc'[s] = pc[s] /\ answer'[s] = answer[s]
  BY OnlyOwnStep
<1>2. ask[r].session \in Sessions \cup {None} /\ ask[r] \in Asked
  BY DEF Shape, Asked
<1>3. \/ history' = history
      \/ /\ ReadHistory(r)
         /\ history' = [history EXCEPT ![r] =
                IF Given(ask[r].session) = {} THEN None ELSE ask[r].session]
  BY DEF Ask, LookUpExact, LookUpSemantic, CountHit, Retrieve, ReadHistory, Generate,
         SaveQuestion, SaveAnswer, Insert, Trim
<1>4. history' \in [Requests -> Sessions \cup {None}]
  BY <1>2, <1>3 DEF Locals
<1>5. Holds(r)'
  <2> USE DEF Holds, Goto
  <2>1. answer[r] \in Answers \cup FoundType \cup {NoAnswer} /\ Holds(r)
    BY DEF Locals
  <2>2. CASE LookUpExact(r) \/ LookUpSemantic(r)
    BY <1>1, <1>4, <2>1, <2>2, FoundAreTyped DEF LookUpExact, LookUpSemantic, Find, Shape
  <2>3. CASE CountHit(r)
    <3>1. answer[r].answer \in Answers
      BY <2>1, <2>3 DEF CountHit, FoundType
    <3> QED
      BY <1>1, <1>4, <2>1, <2>3, <3>1 DEF CountHit, Shape
  <2>4. CASE Generate(r)
    <3>1. \A kind \in Kinds :
              [question |-> ask[r].question, topic |-> ask[r].topic,
               context |-> history[r], kind |-> kind] \in Answers
      BY <1>2, <2>1 DEF Asked, Answers
    <3> QED
      BY <1>1, <1>2, <1>4, <2>1, <2>4, <3>1 DEF Generate, Shape
  <2>5. CASE Retrieve(r) \/ ReadHistory(r) \/ SaveQuestion(r) \/ SaveAnswer(r)
    BY <1>1, <1>2, <1>4, <2>1, <2>5 DEF Retrieve, ReadHistory, SaveQuestion, SaveAnswer, Shape
  <2>6. CASE Insert(r) \/ Trim(r)
    BY <1>1, <1>4, <2>1, <2>6 DEF Insert, Trim, Shape
  <2> QED
    BY <2>2, <2>3, <2>4, <2>5, <2>6 DEF Ask
<1>6. \A s \in Requests : Holds(s)'
  BY <1>1, <1>4, <1>5 DEF Locals, Holds
<1>7. chat' \in Seq(SaidTurns)
  <2>1. CASE chat' = chat
    BY <2>1 DEF Locals
  <2>2. ASSUME NEW role \in {"user", "assistant"}, pc[r] \in {"saveQuestion", "saveAnswer"},
               chat' = Append(chat, [session |-> ask[r].session, role |-> role, req |-> r])
        PROVE  chat' \in Seq(SaidTurns)
    <3>1. [session |-> ask[r].session, role |-> role, req |-> r] \in SaidTurns
      BY <2>2 DEF Locals, Holds, SaidTurns
    <3> QED
      BY <2>2, <3>1 DEF Locals
  <2> QED
    BY <2>1, <2>2, OnlySavesSpeak
<1> QED
  BY <1>4, <1>6, <1>7 DEF Locals

-----------------------------------------------------------------------------
(* The table stays within its bound.                                       *)

Trimming == {r \in Requests : pc[r] = "trim"}

\* A row of a request lies in the table only after the request's insert.
Inserted == \A row \in table : row.id \in Requests => pc[row.id] \in {"trim", "answered"}

Cached ==
    /\ Shape /\ Locals /\ TableOK /\ Inserted
    /\ untrimmed \in Nat
    /\ IsFiniteSet(Trimming)
    /\ TableBounded

\* A step that neither inserts nor trims, and leaves the table or rewrites a
\* row of it, keeps the bound.
LEMMA NoMoreRows ==
    ASSUME Cached, TableOK',
           \A x \in table' : \E y \in table : x.id = y.id,
           Cardinality(table') <= Cardinality(table),
           Trimming' = Trimming, untrimmed' = untrimmed,
           \A s \in Requests : pc[s] \in {"trim", "answered"} => pc'[s] \in {"trim", "answered"}
    PROVE  Inserted' /\ untrimmed' \in Nat /\ IsFiniteSet(Trimming)' /\ TableBounded'
<1>1. /\ Cardinality(table) \in Nat /\ Cardinality(table') \in Nat /\ Cardinality(Trimming) \in Nat
      /\ untrimmed \in Nat /\ Cap \in Nat
  BY FS_CardinalityType, AskAssumption DEF Cached, TableOK
<1>2. Cardinality(table) <= Cap + Cardinality(Trimming) + untrimmed
  BY DEF Cached, TableBounded, Trimming
<1>3. Cardinality(table') <= Cap + Cardinality(Trimming') + untrimmed'
  BY <1>1, <1>2
<1>4. TableBounded'
  BY <1>3 DEF TableBounded, Trimming
<1>5. Inserted'
  BY DEF Cached, Inserted
<1> QED
  BY <1>4, <1>5 DEF Cached

LEMMA CachedStep ==
    ASSUME Cached, NEW r \in Requests, Ask(r)
    PROVE  Cached'
<1>1. Shape /\ TableOK /\ Shape'
  BY ShapeKept DEF Cached, Next
<1>2. Locals'
  BY <1>1, LocalsKept DEF Cached
<1>3. \A s \in Requests \ {r} : pc'[s] = pc[s]
  BY <1>1, OnlyOwnStep
<1>4. /\ Cardinality(table) \in Nat /\ Cardinality(Trimming) \in Nat
      /\ IsFiniteSet(table) /\ IsFiniteSet(Trimming)
      /\ untrimmed \in Nat /\ Cap \in Nat
      /\ Cardinality(table) <= Cap + Cardinality(Trimming) + untrimmed
  BY FS_CardinalityType, AskAssumption DEF Cached, TableOK, TableBounded, Trimming
<1>5. CASE CountHit(r)
  <2>1. pc[r] \notin {"trim", "answered"} /\ pc'[r] # "trim" /\ untrimmed' = untrimmed
    BY <1>1, <1>5 DEF CountHit, Goto, Shape
  <2>2. Trimming' = Trimming
    BY <1>3, <2>1 DEF Trimming
  <2>3. CASE table' = table
    BY <1>2, <1>1, <1>3, <1>4, <2>1, <2>2, <2>3, NoMoreRows DEF Cached, TableOK
  <2>4. ASSUME NEW row \in table, Replace(row, [row EXCEPT !.hits = @ + 1, !.at = Now])
        PROVE  Cached'
    <3> DEFINE new == [row EXCEPT !.hits = @ + 1, !.at = Now]
    <3>1. row \in RowType /\ Now \in Nat \ {0}
      BY <1>1, NowIsLater DEF TableOK
    <3>2. new = [id |-> row.id, answer |-> row.answer, hits |-> row.hits + 1, at |-> Now,
                 live |-> row.live]
      <4> DEFINE hit == [row EXCEPT !.hits = @ + 1]
      <4>1. hit = [id |-> row.id, answer |-> row.answer, hits |-> row.hits + 1, at |-> row.at,
                   live |-> row.live]
        BY <3>1 DEF RowType
      <4>2. new = [hit EXCEPT !.at = Now]
        OBVIOUS
      <4> HIDE DEF hit, new
      <4> QED
        BY <4>1, <4>2
    <3>3. new \in RowType /\ new.id = row.id /\ new.at = Now
      BY <3>1, <3>2 DEF RowType
    <3> HIDE DEF new
    <3>4. /\ TableOK' /\ \A x \in table' : \E y \in table : x.id = y.id
          /\ Cardinality(table') <= Cardinality(table)
      BY <1>1, <2>4, <3>3, ReplaceKeeps DEF new
    <3> QED
      BY <1>1, <1>2, <1>3, <2>1, <2>2, <3>4, NoMoreRows DEF Cached
  <2> QED
    BY <1>5, <2>3, <2>4 DEF CountHit
<1>6. CASE Insert(r)
  <2>1. pc[r] = "insert"
    BY <1>6 DEF Insert
  <2>2. CASE table' = table /\ pc'[r] = "answered" /\ untrimmed' = untrimmed
    <3>1. Trimming' = Trimming
      BY <1>3, <2>1, <2>2 DEF Trimming
    <3> QED
      BY <1>1, <1>2, <1>3, <1>4, <2>1, <2>2, <3>1, NoMoreRows DEF Cached, TableOK
  <2>3. CASE /\ table' = table \cup {[id |-> r, answer |-> answer[r], hits |-> 1, at |-> Now,
                                     live |-> TRUE]}
             /\ \/ pc'[r] = "trim" /\ untrimmed' = untrimmed
                \/ pc'[r] = "answered" /\ untrimmed' = untrimmed + 1
    <3> DEFINE new == [id |-> r, answer |-> answer[r], hits |-> 1, at |-> Now, live |-> TRUE]
    <3>1. answer[r] \in Answers
      BY <2>1 DEF Cached, Locals, Holds
    <3>2. Now \in Nat \ {0} /\ \A row \in table : row.at \in Nat /\ row.at < Now
      BY <1>1, NowIsLater
    <3>3. new \in RowType /\ new.id = r /\ new.at = Now
      BY <3>1, <3>2 DEF RowType
    <3>4. \A row \in table : row.id # r
      BY <2>1 DEF Cached, Inserted
    <3> HIDE DEF new
    <3>5. table' = table \cup {new}
      BY <2>3 DEF new
    <3>6. TableOK'
      <4>1. table' \subseteq RowType
        BY <1>1, <3>3, <3>5 DEF TableOK
      <4>2. \A x, y \in table' : x.id = y.id \/ x.at = y.at => x = y
        BY <1>1, <3>2, <3>3, <3>4, <3>5 DEF TableOK
      <4>3. IsFiniteSet(table')
        BY <1>4, <3>5, FS_AddElement
      <4>4. \A x \in table' : x.at <= Now
        BY <3>2, <3>3, <3>5
      <4> QED
        BY <3>2, <4>1, <4>2, <4>3, <4>4 DEF TableOK
    <3>7. Inserted'
      BY <1>3, <2>3, <3>3, <3>5 DEF Cached, Inserted
    <3>8. Cardinality(table') <= Cardinality(table) + 1
      <4>1. Cardinality(table \cup {new}) =
                IF new \in table THEN Cardinality(table) ELSE Cardinality(table) + 1
        BY <1>4, FS_AddElement
      <4> QED
        BY <1>4, <3>5, <4>1
    <3>9. IsFiniteSet(table') /\ Cardinality(table') \in Nat
      BY <3>6, FS_CardinalityType DEF TableOK
    <3>10. /\ IsFiniteSet(Trimming') /\ untrimmed' \in Nat
           /\ Cardinality(table') <= Cap + Cardinality(Trimming') + untrimmed'
      <4>1. CASE pc'[r] = "trim" /\ untrimmed' = untrimmed
        <5>1. Trimming' = Trimming \cup {r} /\ r \notin Trimming
          BY <1>3, <2>1, <4>1 DEF Trimming
        <5>2. IsFiniteSet(Trimming') /\ Cardinality(Trimming') = Cardinality(Trimming) + 1
          BY <1>4, <5>1, FS_AddElement
        <5> QED
          BY <1>4, <3>8, <3>9, <4>1, <5>2
      <4>2. CASE pc'[r] = "answered" /\ untrimmed' = untrimmed + 1
        <5>1. Trimming' = Trimming
          BY <1>3, <2>1, <4>2 DEF Trimming
        <5> QED
          BY <1>4, <3>8, <3>9, <4>2, <5>1
      <4> QED
        BY <2>3, <4>1, <4>2
    <3> QED
      BY <1>1, <1>2, <3>6, <3>7, <3>10 DEF Cached, TableBounded, Trimming
  <2> QED
    BY <1>1, <1>6, <2>2, <2>3 DEF Insert, Goto, Shape
<1>7. CASE Trim(r)
  <2>1. pc[r] = "trim" /\ pc'[r] = "answered"
    BY <1>1, <1>7 DEF Trim, Goto, Shape
  <2>2. Trimming' = Trimming \ {r} /\ r \in Trimming
    BY <1>3, <2>1 DEF Trimming
  <2>3. IsFiniteSet(Trimming') /\ Cardinality(Trimming') = Cardinality(Trimming) - 1
        /\ Cardinality(Trimming') \in Nat
    BY <1>4, <2>2, FS_RemoveElement, FS_CardinalityType
  <2>4. table' \subseteq table
    BY <1>7 DEF Trim, Hottest
  <2>5. TableOK'
    <3>1. IsFiniteSet(table')
      BY <1>4, <2>4, FS_Subset
    <3> QED
      BY <1>1, <2>4, <3>1 DEF TableOK
  <2>6. Inserted'
    BY <1>3, <2>1, <2>4 DEF Cached, Inserted
  <2>7. untrimmed' \in Nat /\ Cardinality(table') <= Cap + Cardinality(Trimming') + untrimmed'
    <3>1. CASE table' = Hottest /\ untrimmed' = 0
      <4>1. Cardinality(table') <= Cap /\ Cardinality(table') \in Nat
        BY <1>1, <2>5, <3>1, HottestBounded, FS_CardinalityType DEF TableOK
      <4> QED
        BY <1>4, <2>3, <3>1, <4>1
    <3>2. CASE untrimmed' = untrimmed + 1 /\ table' = table
      BY <1>4, <2>3, <3>2
    <3> QED
      BY <1>7, <3>1, <3>2 DEF Trim
  <2> QED
    BY <1>1, <1>2, <2>3, <2>5, <2>6, <2>7 DEF Cached, TableBounded, Trimming
<1>8. CASE ~CountHit(r) /\ ~Insert(r) /\ ~Trim(r)
  <2>1. /\ pc[r] \notin {"trim", "answered"} /\ pc'[r] # "trim"
        /\ table' = table /\ untrimmed' = untrimmed
    BY <1>1, <1>8 DEF Ask, LookUpExact, LookUpSemantic, Find, Retrieve, ReadHistory, Generate,
                      SaveQuestion, SaveAnswer, Goto, Shape, stored
  <2>2. Trimming' = Trimming
    BY <1>3, <2>1 DEF Trimming
  <2> QED
    BY <1>1, <1>2, <1>3, <1>4, <2>1, <2>2, NoMoreRows DEF Cached, TableOK
<1> QED
  BY <1>5, <1>6, <1>7, <1>8

LEMMA CachedInit == ASSUME Init PROVE Cached
<1>1. Shape
  BY ServingInit DEF Serving
<1>2. Locals
  <2>1. chat \in Seq(SaidTurns)
    <3>1. CASE chat = <<>>
      BY <3>1
    <3>2. CASE chat \in EarlierTurns
      <4>1. PICK s \in Sessions, e \in Earlier :
                chat = [i \in 1..2 |->
                    [session |-> s, role |-> IF i = 1 THEN "user" ELSE "assistant", req |-> e]]
        BY <3>2 DEF EarlierTurns
      <4>2. chat \in [1..2 -> SaidTurns] /\ 2 \in Nat
        BY <4>1 DEF SaidTurns
      <4> QED
        BY <4>2, SeqDef
    <3> QED
      BY <3>1, <3>2 DEF Init
  <2> QED
    BY <2>1 DEF Init, Locals, Holds
<1>3. TableOK /\ Inserted /\ Cardinality(table) <= 1 /\ Cardinality(table) \in Nat
  <2>1. CASE table = {}
    BY <2>1, FS_EmptySet DEF TableOK, Inserted
  <2>2. CASE \E row \in EarlierRows : table = {row}
    <3>1. PICK row \in EarlierRows : table = {row}
      BY <2>2
    <3>2. row \in RowType /\ row.id \in Earlier /\ row.at = 1
      <4> DEFINE Good == {a \in Answers : a.kind = "ok" /\ a.context = None}
      <4>1. Good \subseteq Answers /\ {2} \subseteq Nat \ {0} /\ {1} \subseteq Nat \ {0}
        OBVIOUS
      <4>2. {TRUE} \subseteq BOOLEAN
        BY Zenon
      <4>3. row \in [id : Earlier, answer : Good, hits : {2}, at : {1}, live : {TRUE}]
        BY Zenon DEF EarlierRows
      <4> HIDE DEF Good
      <4>4. ASSUME NEW Dead, NEW Two, NEW One, Dead \subseteq BOOLEAN, Two \subseteq Nat \ {0},
                   One \subseteq {1},
                   row \in [id : Earlier, answer : Good, hits : Two, at : One, live : Dead]
            PROVE  row \in RowType /\ row.id \in Earlier /\ row.at = 1
        BY <4>1, <4>4 DEF RowType
      <4> QED
        BY <4>1, <4>2, <4>3, <4>4, Zenon
    <3>3. IsFiniteSet(table) /\ Cardinality(table) = 1
      BY <3>1, FS_Singleton
    <3>4. TableOK
      BY <3>1, <3>2, <3>3 DEF TableOK
    <3> QED
      BY <3>1, <3>2, <3>3, <3>4, AskAssumption DEF Inserted
  <2> QED
    BY <2>1, <2>2 DEF Init
<1>4. Trimming = {} /\ untrimmed = 0
  BY DEF Init, Trimming
<1>5. IsFiniteSet(Trimming) /\ Cardinality(Trimming) = 0
  BY <1>4, FS_EmptySet
<1>6. Cardinality(table) <= Cap + Cardinality(Trimming) + untrimmed
  BY <1>3, <1>4, <1>5, AskAssumption
<1> QED
  BY <1>1, <1>2, <1>3, <1>4, <1>5, <1>6 DEF Cached, TableBounded, Trimming

LEMMA CachedNext == ASSUME Cached, [Next]_vars PROVE Cached'
<1>1. CASE Expire
  <2>1. UNCHANGED <<ask, pc, answer, history, chat, untrimmed>>
    BY <1>1 DEF Expire
  <2>2. Shape' /\ Locals' /\ Trimming' = Trimming
    BY <2>1 DEF Cached, Shape, Locals, Holds, Trimming
  <2>3. PICK row \in table : Replace(row, [row EXCEPT !.live = FALSE])
    BY <1>1 DEF Expire
  <2> DEFINE new == [row EXCEPT !.live = FALSE]
  <2>4. new \in RowType /\ new.id = row.id /\ new.at = row.at
    <3>1. row \in RowType
      BY DEF Cached, TableOK
    <3>2. \A dead \in BOOLEAN : [row EXCEPT !.live = dead] =
              [id |-> row.id, answer |-> row.answer, hits |-> row.hits, at |-> row.at,
               live |-> dead]
      BY <3>1 DEF RowType
    <3>3. new = [id |-> row.id, answer |-> row.answer, hits |-> row.hits, at |-> row.at,
                 live |-> FALSE]
      BY <3>2, Zenon
    <3> HIDE DEF new
    <3> QED
      BY <3>1, <3>3 DEF RowType
  <2> HIDE DEF new
  <2>5. /\ TableOK' /\ \A x \in table' : \E y \in table : x.id = y.id
        /\ Cardinality(table') <= Cardinality(table)
    BY <2>3, <2>4, ReplaceKeeps DEF Cached, new
  <2> QED
    BY <2>1, <2>2, <2>5, NoMoreRows DEF Cached
<1>2. CASE UNCHANGED vars
  BY <1>2 DEF vars, Cached, Shape, Locals, Holds, TableOK, Inserted, Trimming, TableBounded
<1> QED
  BY <1>1, <1>2, CachedStep DEF Next

LEMMA CachedAlways == Spec => []Cached
  BY CachedInit, CachedNext, PTL DEF Spec

\* Requests, rows and turns keep their types, and a row is told apart from
\* every other by its request and by the time of its last update, however
\* lookups, hits, inserts, trims and expiry interleave and fail.
THEOREM TypeCorrect == Spec => []TypeOK
<1>1. Cached => TypeOK
  <2> SUFFICES ASSUME Cached PROVE TypeOK
    OBVIOUS
  <2>1. /\ ask \in [Requests -> Asked] /\ pc \in [Requests -> Steps]
        /\ \A r \in Requests : answer[r] \in Answers \cup FoundType \cup {NoAnswer}
        /\ history \in [Requests -> Sessions \cup {None}]
        /\ chat \in Seq(SaidTurns) /\ untrimmed \in Nat
    BY DEF Cached, Shape, Locals, Holds
  <2>2. table \subseteq RowType /\ \A x, y \in table : x.id = y.id \/ x.at = y.at => x = y
    BY DEF Cached, TableOK
  <2> QED
    BY <2>1, <2>2 DEF TypeOK, Steps, SaidTurns
<1> QED
  BY <1>1, CachedAlways, PTL

\* However many requests insert at once, the table exceeds its cap by no more
\* rows than there are trims still to come or failed.
THEOREM TableStaysBounded == Spec => []TableBounded
<1>1. Cached => TableBounded
  BY DEF Cached
<1> QED
  BY <1>1, CachedAlways, PTL
=============================================================================
