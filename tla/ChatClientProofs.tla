-------------------------- MODULE ChatClientProofs --------------------------
(***************************************************************************)
(* Proofs about ChatClient, for any number of requests, chats and reloads. *)
(*                                                                         *)
(* Backed is what PendingHasRequest needs: a message that waits is an      *)
(* answer, stands in the chat its request was posted to, and that request  *)
(* runs or was cut off by a reload; so the one patch that settles answers  *)
(* of that request in that chat leaves none behind.  Counted keeps a new   *)
(* request apart from all that messages speak of.                          *)
(***************************************************************************)
EXTENDS ChatClient, SequenceTheorems, TLAPS

\* Newest first, and the next chat is newer than all.
Sorted ==
    /\ \A i \in 1..Len(order) : order[i] <= created
    /\ \A i, j \in 1..Len(order) : i < j => order[j] < order[i]

ChatsOK ==
    /\ order \in Seq(Sessions)
    /\ active \in Stored
    /\ created \in Sessions
    /\ Sorted

Counted ==
    /\ sent + Len(timers) <= MaxRequests
    /\ \A r \in Requests : r > sent => req[r].phase = "unused"
    /\ abortRef <= sent
    /\ \A r \in loaded : r <= sent

PageOK ==
    /\ status \in {"idle", "loading", "streaming"}
    /\ abortRef \in Requests \cup {None}
    /\ req \in [Requests -> [phase : Phases, session : Sessions]]
    /\ timers \in Seq(Sessions)
    /\ sent \in 0..MaxRequests
    /\ loaded \subseteq Requests
    /\ Counted

Messages == [Sessions -> Seq(MessageType)]

Waits(m, s) ==
    /\ m.role = "assistant"
    /\ req[m.req].session = s
    /\ m.req \in InFlight \cup loaded

Backed ==
    \A s \in Sessions : \A i \in 1..Len(messages[s]) :
        messages[s][i].pending => Waits(messages[s][i], s)

History == reloads \in 0..MaxReloads /\ overtaken \in BOOLEAN

IInv ==
    /\ ChatsOK
    /\ PageOK
    /\ messages \in Messages
    /\ Backed
    /\ History
    /\ BusyMatchesRequest

LEMMA Typed == IInv => TypeOK
<1> SUFFICES ASSUME IInv PROVE TypeOK
  OBVIOUS
<1>1. order \in Seq(Sessions) /\ DOMAIN order = 1..Len(order) /\ Len(order) \in Nat
  BY LenProperties DEF IInv, ChatsOK
<1>2. \A i \in 1..Len(order) : order[i] \in Nat
  <2>1. \A i \in 1..Len(order) : order[i] \in Sessions
    BY <1>1, ElementOfSeq
  <2> QED
    BY <2>1 DEF Sessions
<1>3. ASSUME NEW i \in DOMAIN order, NEW j \in DOMAIN order, i # j
      PROVE  order[i] # order[j]
  <2>1. i < j \/ j < i
    BY <1>1, <1>3
  <2>2. order[j] < order[i] \/ order[i] < order[j]
    BY <1>1, <2>1 DEF IInv, ChatsOK, Sorted
  <2> QED
    BY <1>1, <1>2, <2>2
<1> QED
  BY <1>1, <1>3 DEF IInv, ChatsOK, PageOK, Messages, History, TypeOK

-----------------------------------------------------------------------------
(* The list of chats.                                                      *)

LEMMA OrderTyped ==
    ASSUME ChatsOK
    PROVE  /\ order \in Seq(Sessions) /\ Len(order) \in Nat /\ DOMAIN order = 1..Len(order)
           /\ \A i \in 1..Len(order) : order[i] \in Sessions
           /\ Stored = {order[i] : i \in 1..Len(order)}
           /\ Len(order) > 0
<1>1. /\ order \in Seq(Sessions) /\ Len(order) \in Nat /\ DOMAIN order = 1..Len(order)
      /\ \A i \in 1..Len(order) : order[i] \in Sessions
  BY LenProperties, ElementOfSeq DEF ChatsOK
<1>2. \E i \in 1..Len(order) : active = order[i]
  BY <1>1 DEF ChatsOK, Stored
<1> QED
  BY <1>1, <1>2 DEF Stored

LEMMA ChatsKept ==
    ASSUME ChatsOK, UNCHANGED chats
    PROVE  ChatsOK'
  BY DEF ChatsOK, chats, Stored, Sorted

LEMMA NewChatKeepsChats ==
    ASSUME ChatsOK, NewChat
    PROVE  ChatsOK'
<1>1. /\ order' = <<Fresh>> \o order /\ active' = Fresh /\ created' = Fresh
      /\ Fresh \in Sessions /\ Fresh = created + 1
  BY DEF NewChat, HasRoom, Fresh
<1>2. /\ Len(order) \in Nat /\ order \in Seq(Sessions)
      /\ \A i \in 1..Len(order) : order[i] \in Sessions
  BY OrderTyped
<1>3. /\ order' \in Seq(Sessions)
      /\ Len(order') = Len(order) + 1
      /\ \A i \in 1..Len(order) + 1 : order'[i] = IF i = 1 THEN Fresh ELSE order[i - 1]
  <2>1. <<Fresh>> \in Seq(Sessions) /\ Len(<<Fresh>>) = 1
    BY <1>1
  <2>2. /\ order' \in Seq(Sessions)
        /\ Len(order') = 1 + Len(order)
        /\ \A i \in 1..1 + Len(order) :
              order'[i] = IF i <= 1 THEN <<Fresh>>[i] ELSE order[i - 1]
    BY <1>1, <1>2, <2>1, ConcatProperties
  <2> QED
    BY <1>2, <2>2
<1>4. DOMAIN order' = 1..Len(order')
  BY <1>3, LenProperties
<1>5. active' \in Stored'
  BY <1>1, <1>2, <1>3, <1>4 DEF Stored
<1>6. created \in Nat
  BY DEF ChatsOK, Sessions
<1>7. \A i \in 1..Len(order') : order'[i] <= created'
  BY <1>1, <1>2, <1>3, <1>6 DEF ChatsOK, Sorted, Sessions
<1>8. \A i, j \in 1..Len(order') : i < j => order'[j] < order'[i]
  <2> SUFFICES ASSUME NEW i \in 1..Len(order'), NEW j \in 1..Len(order'), i < j
               PROVE  order'[j] < order'[i]
    OBVIOUS
  <2>1. j - 1 \in 1..Len(order) /\ order'[j] = order[j - 1]
    BY <1>2, <1>3
  <2>2. CASE i = 1
    BY <1>1, <1>2, <1>3, <1>6, <2>1, <2>2 DEF ChatsOK, Sorted, Sessions
  <2>3. CASE i # 1
    <3>1. i \in Int /\ j \in Int /\ i - 1 \in 1..Len(order) /\ i - 1 < j - 1
      BY <1>2, <1>3, <2>3
    <3>2. order'[i] = order[i - 1]
      BY <1>2, <1>3, <2>3
    <3> QED
      BY <2>1, <3>1, <3>2 DEF ChatsOK, Sorted
  <2> QED
    BY <2>2, <2>3
<1> QED
  BY <1>1, <1>3, <1>5, <1>7, <1>8 DEF ChatsOK, Sorted

\* What is left of the list when one chat is taken out.
LEMMA WithoutIs ==
    ASSUME ChatsOK, NEW s \in Stored
    PROVE  /\ Without(s) \in Seq(Sessions)
           /\ Len(Without(s)) = Len(order) - 1
           /\ \E p \in 1..Len(order) :
                 /\ order[p] = s
                 /\ \A i \in 1..(Len(order) - 1) :
                       Without(s)[i] = IF i < p THEN order[i] ELSE order[i + 1]
<1> DEFINE p == CHOOSE i \in DOMAIN order : order[i] = s
           front == SubSeq(order, 1, p - 1)
           back == SubSeq(order, p + 1, Len(order))
<1>1. /\ order \in Seq(Sessions) /\ Len(order) \in Nat /\ DOMAIN order = 1..Len(order)
      /\ \A i \in 1..Len(order) : order[i] \in Sessions
  BY OrderTyped
<1>2. p \in 1..Len(order) /\ order[p] = s
  BY <1>1 DEF Stored
<1>3. Without(s) = front \o back
  BY DEF Without
<1> HIDE DEF p
<1>4. /\ front \in Seq(Sessions) /\ Len(front) = p - 1
      /\ \A i \in 1..(p - 1) : front[i] = order[i]
  <2>1. \A i \in 1..(p - 1) : order[i] \in Sessions
    BY <1>1, <1>2
  <2>2. p - 1 \in Int /\ p - 1 >= 0
    BY <1>1, <1>2
  <2> QED
    BY <2>1, <2>2, SubSeqProperties
<1>5. /\ back \in Seq(Sessions) /\ Len(back) = Len(order) - p
      /\ \A i \in 1..(Len(order) - p) : back[i] = order[p + i]
  <2>1. \A i \in (p + 1)..Len(order) : order[i] \in Sessions
    BY <1>1, <1>2
  <2>2. p + 1 \in Int /\ Len(order) \in Int /\ Len(order) - (p + 1) + 1 = Len(order) - p
    BY <1>1, <1>2
  <2>3. /\ back \in Seq(Sessions)
        /\ Len(back) = IF p + 1 <= Len(order) THEN Len(order) - p ELSE 0
        /\ \A i \in 1..(Len(order) - p) : back[i] = order[(p + 1) + i - 1]
    BY <2>1, <2>2, SubSeqProperties
  <2> HIDE DEF back
  <2>4. ASSUME NEW i \in 1..(Len(order) - p)
        PROVE  back[i] = order[p + i]
    <3>1. (p + 1) + i - 1 = p + i
      BY <1>1, <1>2
    <3> QED
      BY <2>3, <3>1
  <2>5. Len(back) = Len(order) - p
    <3>1. CASE p + 1 <= Len(order)
      BY <2>3, <3>1
    <3>2. CASE ~(p + 1 <= Len(order))
      <4>1. p \in Int /\ Len(order) \in Int /\ p <= Len(order)
        BY <1>1, <1>2
      <4>2. Len(order) - p = 0
        BY <3>2, <4>1
      <4> QED
        BY <2>3, <3>2, <4>2
    <3> QED
      BY <3>1, <3>2
  <2> QED
    BY <2>3, <2>4, <2>5
<1> HIDE DEF front, back
<1>6. /\ Without(s) \in Seq(Sessions)
      /\ Len(Without(s)) = Len(front) + Len(back)
      /\ \A i \in 1..Len(front) + Len(back) :
            Without(s)[i] = IF i <= Len(front) THEN front[i] ELSE back[i - Len(front)]
  <2>1. front \in Seq(Sessions) /\ back \in Seq(Sessions)
    BY <1>4, <1>5
  <2> QED
    BY <1>3, <2>1, ConcatProperties
<1>7. Len(front) + Len(back) = Len(order) - 1
  BY <1>1, <1>2, <1>4, <1>5
<1>8. ASSUME NEW i \in 1..(Len(order) - 1)
      PROVE  Without(s)[i] = IF i < p THEN order[i] ELSE order[i + 1]
  <2>1. CASE i < p
    BY <1>1, <1>2, <1>4, <1>6, <1>7, <2>1
  <2>2. CASE ~(i < p)
    <3>1. i - (p - 1) \in 1..(Len(order) - p) /\ p + (i - (p - 1)) = i + 1 /\ ~(i <= p - 1)
      BY <1>1, <1>2, <2>2
    <3> QED
      BY <1>4, <1>5, <1>6, <1>7, <2>2, <3>1
  <2> QED
    BY <2>1, <2>2
<1> QED
  BY <1>2, <1>6, <1>7, <1>8

LEMMA DeleteKeepsChats ==
    ASSUME ChatsOK, NEW s \in Sessions, Delete(s)
    PROVE  ChatsOK'
<1> DEFINE kept == Without(s)
<1>1. s \in Stored /\ created \in Nat
  BY DEF Delete, ChatsOK, Sessions
<1>2. /\ Len(order) \in Nat /\ \A i \in 1..Len(order) : order[i] \in Sessions
      /\ Stored = {order[i] : i \in 1..Len(order)}
  BY OrderTyped
<1>3. kept \in Seq(Sessions) /\ Len(kept) = Len(order) - 1
  BY <1>1, WithoutIs
<1>4. PICK p \in 1..Len(order) :
          /\ order[p] = s
          /\ \A i \in 1..(Len(order) - 1) :
                kept[i] = IF i < p THEN order[i] ELSE order[i + 1]
  BY <1>1, WithoutIs
<1>5. CASE kept # <<>> /\ order' = kept
           /\ active' = (IF s = active THEN kept[1] ELSE active) /\ UNCHANGED created
  <2>1. Len(kept) \in Nat \ {0} /\ DOMAIN kept = 1..Len(kept)
    BY <1>3, <1>5, EmptySeq, LenProperties
  <2>2. Stored' = {kept[i] : i \in 1..Len(kept)}
    BY <1>5, <2>1 DEF Stored
  <2>3. active' \in Stored'
    <3>1. CASE s = active
      BY <1>5, <2>1, <2>2, <3>1
    <3>2. CASE s # active
      <4>1. PICK j \in 1..Len(order) : order[j] = active
        BY <1>2 DEF ChatsOK
      <4>2. CASE j < p
        <5>1. j \in 1..Len(kept) /\ kept[j] = active
          BY <1>2, <1>3, <1>4, <4>1, <4>2
        <5> QED
          BY <1>5, <2>2, <3>2, <5>1
      <4>3. CASE ~(j < p)
        <5>1. j - 1 \in 1..Len(kept) /\ ~(j - 1 < p) /\ (j - 1) + 1 = j
          BY <1>2, <1>3, <1>4, <3>2, <4>1, <4>3
        <5>2. kept[j - 1] = active
          BY <1>3, <1>4, <4>1, <5>1
        <5> QED
          BY <1>5, <2>2, <3>2, <5>1, <5>2
      <4> QED
        BY <4>2, <4>3
    <3> QED
      BY <3>1, <3>2
  <2>4. ASSUME NEW i \in 1..Len(kept)
        PROVE  \E k \in 1..Len(order) : kept[i] = order[k] /\ k >= i /\ (k = i \/ (k = i + 1 /\ i >= p)) /\ (k = i => i < p)
    <3>1. i \in 1..(Len(order) - 1) /\ i \in 1..Len(order) /\ i + 1 \in 1..Len(order)
      BY <1>2, <1>3
    <3>2. kept[i] = IF i < p THEN order[i] ELSE order[i + 1]
      BY <1>4, <3>1
    <3> QED
      BY <3>1, <3>2
  <2>5. \A i \in 1..Len(kept) : kept[i] <= created
    BY <2>4 DEF ChatsOK, Sorted
  <2>6. ASSUME NEW i \in 1..Len(kept), NEW j \in 1..Len(kept), i < j
        PROVE  kept[j] < kept[i]
    <3>1. PICK k \in 1..Len(order) : kept[i] = order[k] /\ (k = i \/ k = i + 1) /\ (k = i + 1 => i >= p)
      BY <2>4
    <3>2. PICK l \in 1..Len(order) : kept[j] = order[l] /\ (l = j \/ l = j + 1) /\ (l = j => j < p)
      BY <2>4
    <3>3. k < l
      BY <2>6, <3>1, <3>2
    <3> QED
      BY <3>1, <3>2, <3>3 DEF ChatsOK, Sorted
  <2> QED
    BY <1>3, <1>5, <2>3, <2>5, <2>6 DEF ChatsOK, Sorted
<1>6. CASE HasRoom /\ order' = <<Fresh>> /\ active' = Fresh /\ created' = Fresh
  <2>1. Fresh \in Sessions /\ Fresh = created + 1
    BY <1>6 DEF HasRoom, Fresh
  <2>2. order' \in Seq(Sessions) /\ Len(order') = 1 /\ order'[1] = Fresh /\ DOMAIN order' = 1..1
    BY <1>6, <2>1
  <2> QED
    BY <1>1, <1>6, <2>1, <2>2 DEF ChatsOK, Sorted, Stored
<1> QED
  BY <1>5, <1>6 DEF Delete

LEMMA ReloadKeepsChats ==
    ASSUME ChatsOK, Reload
    PROVE  ChatsOK'
<1> DEFINE n == IF Len(order) < MaxStored THEN Len(order) ELSE MaxStored
           kept == SubSeq(order, 1, n)
<1>1. /\ Len(order) \in Nat /\ \A i \in 1..Len(order) : order[i] \in Sessions
      /\ Len(order) > 0
  BY OrderTyped
<1>2. n \in 1..Len(order)
  BY <1>1, ClientAssumption
<1>3. order' = kept /\ (active' = active \/ active' = kept[1]) /\ created' = created
      /\ (active' = active => active \in {kept[i] : i \in DOMAIN kept} \/ active = kept[1])
  BY DEF Reload
<1> HIDE DEF n
<1>4. /\ kept \in Seq(Sessions) /\ Len(kept) = n
      /\ \A i \in 1..n : kept[i] = order[i]
  <2>1. n \in Int /\ 1 <= n /\ n - 1 + 1 = n /\ \A i \in 1..n : order[i] \in Sessions
    BY <1>1, <1>2
  <2>2. /\ kept \in Seq(Sessions)
        /\ Len(kept) = n - 1 + 1
        /\ \A i \in 1..n - 1 + 1 : kept[i] = order[1 + i - 1]
    BY <2>1, SubSeqProperties
  <2> HIDE DEF kept
  <2>3. ASSUME NEW i \in 1..n PROVE kept[i] = order[i]
    <3>1. 1 + i - 1 = i
      BY <2>1
    <3> QED
      BY <2>1, <2>2, <3>1
  <2> QED
    BY <2>1, <2>2, <2>3
<1> HIDE DEF kept
<1>5. DOMAIN kept = 1..n
  BY <1>4, LenProperties
<1>6. active' \in Stored'
  BY <1>2, <1>3, <1>5 DEF Stored
<1>7. \A i \in 1..Len(order') : order'[i] <= created'
  BY <1>1, <1>2, <1>3, <1>4 DEF ChatsOK, Sorted
<1>8. \A i, j \in 1..Len(order') : i < j => order'[j] < order'[i]
  BY <1>1, <1>2, <1>3, <1>4 DEF ChatsOK, Sorted
<1> QED
  BY <1>3, <1>4, <1>6, <1>7, <1>8 DEF ChatsOK, Sorted

-----------------------------------------------------------------------------
(* Messages and the requests behind them.                                  *)

LEMMA PatchedIs ==
    ASSUME NEW m \in MessageType, NEW text \in Texts \cup {AsIs}, NEW settle \in BOOLEAN
    PROVE  /\ Patched(m, text, settle) \in MessageType
           /\ Patched(m, text, settle).role = m.role
           /\ Patched(m, text, settle).req = m.req
           /\ Patched(m, text, settle).pending => m.pending /\ ~settle
<1>1. /\ m.role \in {"user", "assistant"} /\ m.req \in Requests
      /\ m.text \in Texts /\ m.pending \in BOOLEAN
  BY DEF MessageType
<1> DEFINE new == IF text = AsIs THEN m.text ELSE text
           left == IF settle THEN FALSE ELSE m.pending
<1>2. new \in Texts
  BY <1>1
<1>3. left \in BOOLEAN /\ (left => m.pending /\ ~settle)
  <2>1. CASE settle
    BY <2>1, Zenon
  <2>2. CASE ~settle
    BY <1>1, <2>2, Zenon
  <2> QED
    BY <2>1, <2>2
<1>4. Patched(m, text, settle) = [role |-> m.role, req |-> m.req, text |-> new, pending |-> left]
  BY Zenon DEF Patched
<1> HIDE DEF new, left
<1> QED
  BY <1>1, <1>2, <1>3, <1>4 DEF MessageType

\* A patch touches only answers of its request, in the chat of the request.
LEMMA PatchIs ==
    ASSUME PageOK, messages \in Messages, NEW r \in Requests,
           NEW text \in Texts \cup {AsIs}, NEW settle \in BOOLEAN, Patch(r, text, settle)
    PROVE  /\ messages' \in Messages
           /\ \A s \in Sessions : Len(messages'[s]) = Len(messages[s])
           /\ \A s \in Sessions : \A i \in 1..Len(messages[s]) :
                 LET m == messages[s][i] IN
                 messages'[s][i] =
                     IF s = req[r].session /\ m.role = "assistant" /\ m.req = r
                     THEN Patched(m, text, settle) ELSE m
<1> DEFINE c == req[r].session
           new == [i \in DOMAIN messages[c] |->
                      IF messages[c][i].role = "assistant" /\ messages[c][i].req = r
                      THEN Patched(messages[c][i], text, settle) ELSE messages[c][i]]
<1>1. c \in Sessions /\ messages[c] \in Seq(MessageType)
  BY DEF PageOK, Messages
<1>2. messages' = [messages EXCEPT ![c] = new]
  BY DEF Patch
<1>3. /\ DOMAIN messages[c] = 1..Len(messages[c]) /\ Len(messages[c]) \in Nat
      /\ \A i \in 1..Len(messages[c]) : messages[c][i] \in MessageType
  BY <1>1, LenProperties, ElementOfSeq
<1>4. \A i \in 1..Len(messages[c]) : new[i] \in MessageType
  BY <1>3, PatchedIs
<1>5. new \in [1..Len(messages[c]) -> MessageType]
  BY <1>3, <1>4
<1>6. new \in Seq(MessageType) /\ DOMAIN new = 1..Len(messages[c])
  BY <1>3, <1>5, SeqDef
<1>7. \A i \in 1..Len(messages[c]) :
          new[i] = IF messages[c][i].role = "assistant" /\ messages[c][i].req = r
                   THEN Patched(messages[c][i], text, settle) ELSE messages[c][i]
  BY <1>3
<1> HIDE DEF new
<1>8. Len(new) = Len(messages[c])
  BY <1>3, <1>6, LenProperties
<1>9. messages' \in Messages /\ messages'[c] = new
      /\ \A s \in Sessions : s # c => messages'[s] = messages[s]
  BY <1>1, <1>2, <1>6 DEF Messages
<1> HIDE DEF c
<1>10. ASSUME NEW s \in Sessions
       PROVE  /\ Len(messages'[s]) = Len(messages[s])
              /\ \A i \in 1..Len(messages[s]) :
                    messages'[s][i] =
                        IF s = c /\ messages[s][i].role = "assistant" /\ messages[s][i].req = r
                        THEN Patched(messages[s][i], text, settle) ELSE messages[s][i]
  BY <1>7, <1>8, <1>9
<1> QED
  BY <1>9, <1>10 DEF c

\* A request changes its phase.
LEMMA PhaseChanges ==
    ASSUME PageOK, NEW r \in Requests, NEW p \in Phases,
           req' = [req EXCEPT ![r].phase = p]
    PROVE  /\ req' \in [Requests -> [phase : Phases, session : Sessions]]
           /\ req'[r].phase = p
           /\ \A q \in Requests : req'[q].session = req[q].session
           /\ \A q \in Requests : q # r => req'[q] = req[q]
           /\ InFlight' \ {r} = InFlight \ {r}
           /\ r \in InFlight' <=> p \in Running
<1>1. /\ req' \in [Requests -> [phase : Phases, session : Sessions]]
      /\ req'[r].phase = p
      /\ \A q \in Requests : req'[q].session = req[q].session
      /\ \A q \in Requests : q # r => req'[q] = req[q]
  BY DEF PageOK
<1> QED
  BY <1>1 DEF InFlight

\* While r runs on, messages may be patched or left alone.
LEMMA RunningOn ==
    ASSUME IInv, NEW r \in Requests, NEW p \in Running, req' = [req EXCEPT ![r].phase = p],
           NEW text \in Texts \cup {AsIs}, NEW settle \in BOOLEAN,
           Patch(r, text, settle) \/ UNCHANGED messages,
           loaded' = loaded
    PROVE  messages' \in Messages /\ Backed'
<1>1. /\ \A q \in Requests : req'[q].session = req[q].session
      /\ InFlight \subseteq InFlight'
  <2>1. p \in Phases
    BY DEF Phases
  <2>2. /\ \A q \in Requests : req'[q].session = req[q].session
        /\ InFlight' \ {r} = InFlight \ {r}
        /\ r \in InFlight'
    BY <2>1, PhaseChanges DEF IInv
  <2> QED
    BY <2>2
<1>2. CASE UNCHANGED messages
  <2>1. ASSUME NEW s \in Sessions, NEW i \in 1..Len(messages[s]), messages[s][i].pending
        PROVE  Waits(messages[s][i], s)'
    <3>1. messages[s][i] \in MessageType
      BY ElementOfSeq DEF IInv, Messages
    <3>2. messages[s][i].req \in Requests
      BY <3>1 DEF MessageType
    <3> QED
      BY <1>1, <1>2, <2>1, <3>2 DEF IInv, Backed, Waits
  <2> QED
    BY <1>2, <2>1 DEF IInv, Messages, Backed
<1>3. CASE Patch(r, text, settle)
  <2>1. /\ messages' \in Messages
        /\ \A s \in Sessions : Len(messages'[s]) = Len(messages[s])
        /\ \A s \in Sessions : \A i \in 1..Len(messages[s]) :
              \/ messages'[s][i] = messages[s][i]
              \/ messages'[s][i] = Patched(messages[s][i], text, settle)
    BY <1>3, PatchIs DEF IInv
  <2>2. ASSUME NEW s \in Sessions, NEW i \in 1..Len(messages[s]), messages'[s][i].pending
        PROVE  Waits(messages[s][i], s)' /\ messages'[s][i].role = messages[s][i].role
                  /\ messages'[s][i].req = messages[s][i].req
    <3>1. messages[s][i] \in MessageType
      BY ElementOfSeq DEF IInv, Messages
    <3>2. messages[s][i].req \in Requests
      BY <3>1 DEF MessageType
    <3>3. \A m \in MessageType :
          /\ Patched(m, text, settle).role = m.role
          /\ Patched(m, text, settle).req = m.req
          /\ Patched(m, text, settle).pending => m.pending
      <4> TAKE m \in MessageType
      <4>1. Patched(m, text, settle).role = m.role
        BY PatchedIs
      <4>2. Patched(m, text, settle).req = m.req
        BY PatchedIs
      <4>3. Patched(m, text, settle).pending => m.pending /\ ~settle
        BY PatchedIs, Zenon
      <4> QED
        BY <4>1, <4>2, <4>3
    <3>4. messages[s][i].pending /\ messages'[s][i].role = messages[s][i].role
          /\ messages'[s][i].req = messages[s][i].req
      BY <2>1, <2>2, <3>1, <3>3
    <3> QED
      BY <1>1, <2>2, <3>2, <3>4 DEF IInv, Backed, Waits
  <2> QED
    BY <2>1, <2>2 DEF Backed, Waits
<1> QED
  BY <1>2, <1>3

\* A request whose answer is settled may end in whatever phase.
LEMMA Settling ==
    ASSUME IInv, NEW r \in Requests, NEW p \in Phases, req' = [req EXCEPT ![r].phase = p],
           NEW text \in Texts \cup {AsIs}, Patch(r, text, TRUE), loaded' = loaded
    PROVE  messages' \in Messages /\ Backed'
<1>1. /\ \A q \in Requests : req'[q].session = req[q].session
      /\ InFlight \ {r} \subseteq InFlight'
  BY PhaseChanges DEF IInv
<1>2. /\ messages' \in Messages
      /\ \A s \in Sessions : Len(messages'[s]) = Len(messages[s])
      /\ \A s \in Sessions : \A i \in 1..Len(messages[s]) :
            messages'[s][i] =
                IF s = req[r].session /\ messages[s][i].role = "assistant"
                     /\ messages[s][i].req = r
                THEN Patched(messages[s][i], text, TRUE) ELSE messages[s][i]
  BY PatchIs DEF IInv
<1>3. ASSUME NEW s \in Sessions, NEW i \in 1..Len(messages[s]), messages'[s][i].pending
      PROVE  messages'[s][i] = messages[s][i] /\ messages[s][i].req # r
             /\ Waits(messages[s][i], s) /\ messages[s][i].req \in Requests
  <2>1. messages[s][i] \in MessageType
    BY ElementOfSeq DEF IInv, Messages
  <2>2. messages'[s][i] # Patched(messages[s][i], text, TRUE)
    <3>1. \A settle \in BOOLEAN : ~(Patched(messages[s][i], text, settle).pending /\ settle)
      BY <2>1, PatchedIs, Zenon
    <3> QED
      BY <1>3, <3>1
  <2>3. messages'[s][i] = messages[s][i]
    BY <1>2, <2>2
  <2>4. Waits(messages[s][i], s)
    BY <1>3, <2>3 DEF IInv, Backed
  <2>5. messages[s][i].req # r
    BY <1>2, <2>2, <2>3, <2>4 DEF Waits
  <2> QED
    BY <2>1, <2>3, <2>4, <2>5 DEF MessageType
<1>4. ASSUME NEW s \in Sessions, NEW i \in 1..Len(messages[s]), messages'[s][i].pending
      PROVE  Waits(messages[s][i], s)'
  BY <1>1, <1>3, <1>4 DEF Waits
<1> QED
  BY <1>2, <1>3, <1>4 DEF Backed, Waits

\* A request that was sent changes its phase, and with it at most what the
\* page shows and what Stop would abort.
LEMMA PageMoves ==
    ASSUME PageOK, NEW r \in Requests, NEW p \in Phases, req' = [req EXCEPT ![r].phase = p],
           r <= sent, abortRef' = abortRef \/ abortRef' = None,
           status' = status \/ status' = "idle", UNCHANGED <<timers, sent, loaded>>
    PROVE  PageOK'
<1>1. /\ req' \in [Requests -> [phase : Phases, session : Sessions]]
      /\ \A q \in Requests : q # r => req'[q] = req[q]
  BY PhaseChanges
<1>2. sent \in Nat /\ r \in Nat /\ \A q \in Requests : q \in Nat
  BY DEF PageOK, Requests
<1>3. \A q \in Requests : q > sent => req'[q].phase = "unused"
  <2>1. \A q \in Requests : q > sent => q # r
    BY <1>2
  <2> QED
    BY <1>1, <2>1 DEF PageOK, Counted
<1>4. None <= sent
  BY <1>2 DEF None
<1> QED
  BY <1>1, <1>3, <1>4 DEF PageOK, Counted

\* The requests in flight and those a reload cut off were sent.
LEMMA RunningWereSent ==
    ASSUME PageOK
    PROVE  /\ sent \in Nat /\ InFlight \subseteq Requests /\ Requests \subseteq Nat
           /\ \A r \in InFlight \cup loaded : r \in Requests /\ r <= sent
<1>1. sent \in Nat /\ \A r \in Requests : r \in Nat
  BY DEF PageOK, Requests
<1>2. \A r \in InFlight : r <= sent
  <2> SUFFICES ASSUME NEW r \in InFlight, ~(r <= sent) PROVE FALSE
    OBVIOUS
  <2>1. r \in Requests /\ req[r].phase \in Running /\ r > sent
    BY <1>1 DEF InFlight
  <2>2. req[r].phase = "unused"
    BY <2>1 DEF PageOK, Counted
  <2> QED
    BY <2>1, <2>2 DEF Running, Silent, Speaking
<1> QED
  BY <1>1, <1>2 DEF PageOK, Counted, InFlight

\* The body of send() for a request of its own.
LEMMA Posting ==
    ASSUME IInv, NEW s \in Sessions, NEW e \in BOOLEAN, Post(s, e), sent < MaxRequests,
           loaded' = loaded
    PROVE  /\ messages' \in Messages /\ Backed'
           /\ sent' = sent + 1 /\ sent' \in Requests
           /\ req' \in [Requests -> [phase : Phases, session : Sessions]]
           /\ \A q \in Requests : q # sent' => req'[q] = req[q]
           /\ abortRef' = sent' /\ status' \in {"loading", "streaming"}
           /\ InFlight' = InFlight \cup {sent'}
<1> DEFINE r == sent + 1
           new == [phase |-> IF e THEN "opening" ELSE "json", session |-> s]
<1>1. PageOK /\ sent \in Nat /\ r \in Requests
  BY ClientAssumption DEF IInv, PageOK, Requests
<1>2. new \in [phase : Phases, session : Sessions] /\ new.phase \in Running /\ new.session = s
  BY DEF Phases, Running
<1>3. /\ sent' = r /\ req' = [req EXCEPT ![r] = new] /\ abortRef' = r
      /\ status' \in {"loading", "streaming"}
      /\ messages' = [messages EXCEPT ![s] =
             IF s \in Stored THEN messages[s] \o <<UserMessage(r), AssistantMessage(r)>>
             ELSE messages[s]]
  BY DEF Post
<1> HIDE DEF new, r
<1>4. /\ req' \in [Requests -> [phase : Phases, session : Sessions]]
      /\ \A q \in Requests : q # r => req'[q] = req[q]
      /\ req'[r] = new
  BY <1>1, <1>2, <1>3 DEF PageOK
<1>5. InFlight' = InFlight \cup {r}
  BY <1>1, <1>2, <1>4 DEF InFlight
<1>6. UserMessage(r) \in MessageType /\ AssistantMessage(r) \in MessageType
  BY <1>1 DEF UserMessage, AssistantMessage, MessageType, Texts
<1>7. messages \in Messages /\ messages[s] \in Seq(MessageType)
      /\ Len(messages[s]) \in Nat
  BY LenProperties DEF IInv, Messages
<1> DEFINE two == <<UserMessage(r), AssistantMessage(r)>>
           longer == messages[s] \o two
<1>8. two \in Seq(MessageType) /\ Len(two) = 2 /\ two[1] = UserMessage(r)
      /\ two[2] = AssistantMessage(r)
  BY <1>6
<1> HIDE DEF two
<1>9. /\ longer \in Seq(MessageType) /\ Len(longer) = Len(messages[s]) + 2
      /\ \A i \in 1..Len(messages[s]) + 2 :
             longer[i] = IF i <= Len(messages[s]) THEN messages[s][i]
                         ELSE two[i - Len(messages[s])]
  BY <1>7, <1>8, ConcatProperties
<1> HIDE DEF longer
<1>10. messages' = [messages EXCEPT ![s] = IF s \in Stored THEN longer ELSE messages[s]]
  BY <1>3 DEF longer, two
<1>11. /\ messages' \in Messages
       /\ \A q \in Sessions : q # s => messages'[q] = messages[q]
       /\ messages'[s] = longer \/ messages'[s] = messages[s]
  BY <1>7, <1>9, <1>10 DEF Messages
<1>12. ASSUME NEW q \in Sessions, NEW m, Waits(m, q)
       PROVE  /\ m.role = "assistant" /\ req'[m.req].session = q
              /\ m.req \in InFlight' \cup loaded'
  <2>1. m.req \in Requests /\ m.req # r
    BY <1>1, <1>12, RunningWereSent DEF Waits, r
  <2> QED
    BY <1>4, <1>5, <1>12, <2>1 DEF Waits
<1>13. ASSUME NEW q \in Sessions, NEW i \in 1..Len(messages'[q]), messages'[q][i].pending
       PROVE  /\ messages'[q][i].role = "assistant"
              /\ req'[messages'[q][i].req].session = q
              /\ messages'[q][i].req \in InFlight' \cup loaded'
  <2>1. ASSUME i \in 1..Len(messages[q]), messages'[q][i] = messages[q][i]
        PROVE  /\ messages'[q][i].role = "assistant"
               /\ req'[messages'[q][i].req].session = q
               /\ messages'[q][i].req \in InFlight' \cup loaded'
    <3>1. Waits(messages[q][i], q)
      BY <1>13, <2>1 DEF IInv, Backed
    <3> QED
      BY <1>12, <2>1, <3>1
  <2>2. CASE messages'[q] = messages[q]
    BY <2>1, <2>2
  <2>3. CASE q = s /\ messages'[s] = longer
    <3>1. CASE i <= Len(messages[s])
      <4>1. i \in 1..Len(messages[s]) /\ longer[i] = messages[s][i]
        BY <1>7, <1>9, <2>3, <3>1
      <4> QED
        BY <2>1, <2>3, <4>1
    <3>2. CASE ~(i <= Len(messages[s]))
      <4>1. i \in 1..Len(messages[s]) + 2 /\ i - Len(messages[s]) \in {1, 2}
        BY <1>7, <1>9, <2>3, <3>2
      <4>2. messages'[q][i] = two[i - Len(messages[s])]
        BY <1>9, <2>3, <3>2, <4>1
      <4>3. messages'[q][i] = AssistantMessage(r)
        BY <1>8, <1>13, <4>1, <4>2 DEF UserMessage
      <4>4. messages'[q][i].role = "assistant" /\ messages'[q][i].req = r
        BY <4>3 DEF AssistantMessage
      <4> QED
        BY <1>2, <1>4, <1>5, <2>3, <4>4
    <3> QED
      BY <3>1, <3>2
  <2> QED
    BY <1>11, <2>2, <2>3
<1>14. Backed'
  BY <1>13, Zenon DEF Backed, Waits
<1> QED
  BY <1>1, <1>3, <1>4, <1>5, <1>11, <1>14 DEF r

\* Messages that are only left out leave the others backed.
LEMMA FewerMessages ==
    ASSUME IInv,
           \A s \in Sessions : \A i \in 1..Len(messages'[s]) :
               \E j \in 1..Len(messages[s]) : messages'[s][i] = messages[s][j],
           \A q \in Requests : req'[q].session = req[q].session,
           InFlight \cup loaded \subseteq InFlight' \cup loaded'
    PROVE  Backed'
<1>1. ASSUME NEW s \in Sessions, NEW i \in 1..Len(messages'[s]), messages'[s][i].pending
      PROVE  /\ messages'[s][i].role = "assistant"
             /\ req'[messages'[s][i].req].session = s
             /\ messages'[s][i].req \in InFlight' \cup loaded'
  <2>1. PICK j \in 1..Len(messages[s]) : messages'[s][i] = messages[s][j]
    OBVIOUS
  <2>2. Waits(messages[s][j], s)
    BY <1>1, <2>1 DEF IInv, Backed
  <2>3. messages[s][j].req \in Requests
    BY <2>2, RunningWereSent DEF IInv, Waits
  <2> QED
    BY <2>1, <2>2, <2>3 DEF Waits
<1> QED
  BY <1>1, Zenon DEF Backed, Waits

-----------------------------------------------------------------------------
(* Sending.                                                                *)

LEMMA StoredChats ==
    ASSUME ChatsOK
    PROVE  Stored \subseteq Sessions /\ active \in Sessions
  BY OrderTyped DEF ChatsOK

\* After a post the page is typed and busy with the new request.
LEMMA PostKeepsPage ==
    ASSUME IInv, NEW s \in Sessions, NEW e \in BOOLEAN, Post(s, e), sent < MaxRequests,
           timers' \in Seq(Sessions), sent + 1 + Len(timers') <= MaxRequests,
           loaded' = loaded
    PROVE  PageOK'
<1>1. /\ sent' = sent + 1 /\ sent' \in Requests
      /\ req' \in [Requests -> [phase : Phases, session : Sessions]]
      /\ \A q \in Requests : q # sent' => req'[q] = req[q]
      /\ abortRef' = sent' /\ status' \in {"loading", "streaming"}
  BY Posting
<1>2. PageOK /\ sent \in Nat /\ \A q \in Requests : q \in Nat
  BY DEF IInv, PageOK, Requests
<1>3. ASSUME NEW q \in Requests, q > sent'
      PROVE  req'[q].phase = "unused"
  <2>1. q # sent' /\ q > sent
    BY <1>1, <1>2, <1>3
  <2> QED
    BY <1>1, <1>2, <2>1 DEF PageOK, Counted
<1>4. sent' \in 0..MaxRequests /\ abortRef' <= sent' /\ sent' + Len(timers') <= MaxRequests
  BY <1>1, <1>2 DEF Requests
<1>5. \A q \in loaded' : q <= sent'
  BY <1>1, <1>2 DEF PageOK, Counted
<1> QED
  BY <1>1, <1>2, <1>3, <1>4, <1>5 DEF PageOK, Counted

LEMMA SendKeeps ==
    ASSUME IInv, Send
    PROVE  IInv'
<1>1. PICK e \in BOOLEAN : Post(active, e)
  BY DEF Send
<1>2. /\ status = "idle" /\ sent + Len(timers) < MaxRequests
      /\ UNCHANGED <<order, active, created, timers, reloads, loaded, overtaken>>
  BY DEF Send, CanSend, chats
<1>3. active \in Sessions
  BY StoredChats DEF IInv
<1>4. /\ sent \in Nat /\ Len(timers) \in Nat /\ MaxRequests \in Nat
      /\ timers \in Seq(Sessions)
  BY LenProperties, ClientAssumption DEF IInv, PageOK
<1>5. sent < MaxRequests /\ sent + 1 + Len(timers) <= MaxRequests
  BY <1>2, <1>4
<1>6. PageOK'
  BY <1>1, <1>2, <1>3, <1>4, <1>5, PostKeepsPage
<1>7. /\ messages' \in Messages /\ Backed' /\ sent' \in Requests /\ abortRef' = sent'
      /\ status' \in {"loading", "streaming"} /\ InFlight' = InFlight \cup {sent'}
  BY <1>1, <1>2, <1>3, <1>5, Posting
<1>8. BusyMatchesRequest'
  <2> SUFFICES ASSUME ~overtaken'
               PROVE  /\ InFlight' = IF abortRef' = None THEN {} ELSE {abortRef'}
                      /\ (status' = "idle") = (abortRef' = None)
    BY DEF BusyMatchesRequest
  <2>1. abortRef = None /\ InFlight = {}
    BY <1>2 DEF IInv, BusyMatchesRequest
  <2>2. abortRef' # None /\ status' # "idle"
    BY <1>7 DEF None, Requests
  <2> QED
    BY <1>7, <2>1, <2>2
<1>9. ChatsOK'
  BY <1>2, ChatsKept DEF IInv, chats
<1> QED
  BY <1>2, <1>6, <1>7, <1>8, <1>9 DEF IInv, History

LEMMA ResendKeeps ==
    ASSUME IInv, Resend
    PROVE  IInv'
<1>1. PICK e \in BOOLEAN : Post(Head(timers), e)
  BY DEF Resend
<1>2. /\ timers # <<>> /\ timers' = Tail(timers) /\ overtaken' = (overtaken \/ status # "idle")
      /\ UNCHANGED <<order, active, created, reloads, loaded>>
  BY DEF Resend, chats
<1>3. timers \in Seq(Sessions) /\ sent \in Nat /\ MaxRequests \in Nat
      /\ sent + Len(timers) <= MaxRequests
  BY ClientAssumption DEF IInv, PageOK, Counted
<1>4. /\ Head(timers) \in Sessions /\ timers' \in Seq(Sessions)
      /\ Len(timers) \in Nat \ {0} /\ Len(timers') = Len(timers) - 1
  BY <1>2, <1>3, HeadTailProperties, EmptySeq
<1>5. sent < MaxRequests /\ sent + 1 + Len(timers') <= MaxRequests
  BY <1>3, <1>4
<1>6. PageOK'
  BY <1>1, <1>2, <1>4, <1>5, PostKeepsPage
<1>7. /\ messages' \in Messages /\ Backed' /\ sent' \in Requests /\ abortRef' = sent'
      /\ status' \in {"loading", "streaming"} /\ InFlight' = InFlight \cup {sent'}
  BY <1>1, <1>2, <1>4, <1>5, Posting
<1>8. BusyMatchesRequest'
  <2> SUFFICES ASSUME ~overtaken'
               PROVE  /\ InFlight' = IF abortRef' = None THEN {} ELSE {abortRef'}
                      /\ (status' = "idle") = (abortRef' = None)
    BY DEF BusyMatchesRequest
  <2>1. abortRef = None /\ InFlight = {}
    BY <1>2 DEF IInv, BusyMatchesRequest
  <2>2. abortRef' # None /\ status' # "idle"
    BY <1>7 DEF None, Requests
  <2> QED
    BY <1>7, <2>1, <2>2
<1>9. ChatsOK'
  BY <1>2, ChatsKept DEF IInv, chats
<1>10. overtaken' \in BOOLEAN
  <2>1. overtaken' = overtaken \/ overtaken' = TRUE
    BY <1>2, Zenon DEF IInv, History
  <2> QED
    BY <2>1 DEF IInv, History
<1> QED
  BY <1>2, <1>6, <1>7, <1>8, <1>9, <1>10 DEF IInv, History

LEMMA RetryKeeps ==
    ASSUME IInv, Retry
    PROVE  IInv'
<1> DEFINE said == messages[active]
           front == SubSeq(said, 1, Len(said) - 1)
<1>1. /\ timers' = Append(timers, active) /\ sent + Len(timers) < MaxRequests
      /\ UNCHANGED <<order, active, created, status, abortRef, req, sent, reloads, loaded,
                     overtaken>>
      /\ \/ messages' = [messages EXCEPT ![active] = front]
         \/ messages' = [messages EXCEPT ![active] = said]
  BY DEF Retry, CanSend, chats, requests
<1>2. active \in Sessions /\ messages \in Messages
  BY StoredChats DEF IInv
<1>3. said \in Seq(MessageType) /\ Len(said) \in Nat
      /\ \A i \in 1..Len(said) : said[i] \in MessageType
  BY <1>2, LenProperties, ElementOfSeq DEF Messages
<1>4. /\ front \in Seq(MessageType)
      /\ \A i \in 1..Len(front) : i \in 1..Len(said) /\ front[i] = said[i]
  <2> DEFINE n == Len(said) - 1
  <2>1. n \in Int /\ \A i \in 1..n : said[i] \in MessageType
    BY <1>3
  <2>2. /\ front \in Seq(MessageType)
        /\ Len(front) = IF 1 <= n THEN n - 1 + 1 ELSE 0
        /\ \A i \in 1..n - 1 + 1 : front[i] = said[1 + i - 1]
    BY <2>1, SubSeqProperties
  <2> HIDE DEF front
  <2>3. ASSUME NEW i \in 1..Len(front) PROVE i \in 1..Len(said) /\ front[i] = said[i]
    <3>1. i \in 1..n /\ n - 1 + 1 = n /\ 1 + i - 1 = i
      BY <2>1, <2>2
    <3>2. front[i] = said[i]
      BY <2>2, <3>1
    <3> QED
      BY <1>3, <3>1, <3>2
  <2> QED
    BY <2>2, <2>3
<1> HIDE DEF front
<1>5. messages' \in Messages
  BY <1>1, <1>2, <1>3, <1>4 DEF Messages
<1>6. ASSUME NEW s \in Sessions, NEW i \in 1..Len(messages'[s])
      PROVE  \E j \in 1..Len(messages[s]) : messages'[s][i] = messages[s][j]
  <2>1. CASE s # active
    BY <1>1, <1>2, <2>1 DEF Messages
  <2>2. CASE s = active
    <3>1. messages'[s] = front \/ messages'[s] = said
      BY <1>1, <1>2, <2>2 DEF Messages
    <3> QED
      BY <1>4, <2>2, <3>1
  <2> QED
    BY <2>1, <2>2
<1>7. InFlight' = InFlight
  BY <1>1 DEF InFlight
<1>8. Backed'
  BY <1>1, <1>6, <1>7, FewerMessages
<1>9. PageOK'
  <2>1. timers \in Seq(Sessions) /\ sent \in Nat /\ Len(timers) \in Nat /\ MaxRequests \in Nat
    BY LenProperties, ClientAssumption DEF IInv, PageOK
  <2>2. timers' \in Seq(Sessions) /\ Len(timers') = Len(timers) + 1
    BY <1>1, <1>2, <2>1, AppendProperties
  <2>3. sent' + Len(timers') <= MaxRequests
    BY <1>1, <2>1, <2>2
  <2> QED
    BY <1>1, <2>2, <2>3 DEF IInv, PageOK, Counted
<1>10. BusyMatchesRequest'
  BY <1>1, <1>7 DEF IInv, BusyMatchesRequest
<1>11. ChatsOK'
  BY <1>1, ChatsKept DEF IInv, chats
<1> QED
  BY <1>1, <1>5, <1>8, <1>9, <1>10, <1>11 DEF IInv, History

-----------------------------------------------------------------------------
(* Stopping and the list of chats.                                         *)

LEMMA StopRequestIs ==
    ASSUME IInv, StopRequest, UNCHANGED <<timers, reloads, loaded>>
    PROVE  PageOK' /\ messages' \in Messages /\ Backed' /\ History' /\ BusyMatchesRequest'
<1>1. /\ abortRef' = None /\ status' = "idle"
      /\ UNCHANGED <<sent, overtaken, timers, reloads, loaded>>
  BY DEF StopRequest
<1>2. CASE abortRef = None
  <2>1. messages' = messages /\ req' = req
    BY <1>2 DEF StopRequest
  <2>2. InFlight' = InFlight
    BY <2>1 DEF InFlight
  <2>3. Backed'
    <3>1. \A s \in Sessions : \A i \in 1..Len(messages'[s]) :
              \E j \in 1..Len(messages[s]) : messages'[s][i] = messages[s][j]
      BY <2>1
    <3> QED
      BY <1>1, <2>1, <2>2, <3>1, FewerMessages
  <2>4. PageOK'
    BY <1>1, <1>2, <2>1 DEF IInv, PageOK, Counted
  <2> QED
    BY <1>1, <1>2, <2>1, <2>2, <2>3, <2>4 DEF IInv, History, BusyMatchesRequest
<1>3. CASE abortRef # None
  <2> DEFINE r == abortRef
  <2>1. r \in Requests /\ r <= sent /\ "stopped" \in Phases
    BY <1>3 DEF IInv, PageOK, Counted, Phases
  <2>2. PICK text \in {"unreachable", AsIs} : Patch(r, text, TRUE)
    BY <1>3 DEF StopRequest, Show, Settle
  <2>3. req' = [req EXCEPT ![r].phase = "stopped"] /\ text \in Texts \cup {AsIs}
    BY <1>3, <2>2 DEF StopRequest, Texts
  <2>4. messages' \in Messages /\ Backed'
    BY <1>1, <2>1, <2>2, <2>3, Settling
  <2>5. PageOK'
    BY <1>1, <2>1, <2>3, PageMoves DEF IInv
  <2>6. InFlight' = InFlight \ {r}
    <3>1. /\ InFlight' \ {r} = InFlight \ {r}
          /\ r \in InFlight' <=> "stopped" \in Running
      BY <2>1, <2>3, PhaseChanges DEF IInv
    <3>2. "stopped" \notin Running
      BY DEF Running, Silent, Speaking
    <3> QED
      BY <3>1, <3>2
  <2>7. BusyMatchesRequest'
    BY <1>1, <2>6 DEF IInv, BusyMatchesRequest
  <2> QED
    BY <1>1, <2>4, <2>5, <2>7 DEF IInv, History
<1> QED
  BY <1>2, <1>3

LEMMA StopKeeps ==
    ASSUME IInv, Stop
    PROVE  IInv'
<1>1. StopRequest /\ UNCHANGED chats /\ UNCHANGED <<timers, reloads, loaded>>
  BY DEF Stop
<1> QED
  BY <1>1, ChatsKept, StopRequestIs DEF IInv

LEMMA NewChatKeeps ==
    ASSUME IInv, NewChat
    PROVE  IInv'
<1>1. StopRequest /\ UNCHANGED <<timers, reloads, loaded>>
  BY DEF NewChat
<1> QED
  BY <1>1, NewChatKeepsChats, StopRequestIs DEF IInv

LEMMA SelectKeeps ==
    ASSUME IInv, NEW s \in Sessions, Select(s)
    PROVE  IInv'
<1>1. /\ s \in Stored /\ active' = s
      /\ UNCHANGED <<order, created, timers, reloads, loaded>>
  BY DEF Select
<1>2. ChatsOK'
  BY <1>1 DEF IInv, ChatsOK, Stored, Sorted
<1>3. CASE StopRequest
  BY <1>1, <1>2, <1>3, StopRequestIs DEF IInv
<1>4. CASE UNCHANGED <<messages, requests, abortRef, status, overtaken>>
  <2>1. UNCHANGED <<messages, req, sent, abortRef, status, overtaken>>
    BY <1>4 DEF requests
  <2>2. InFlight' = InFlight
    BY <2>1 DEF InFlight
  <2>3. Backed'
    <3>1. \A q \in Sessions : \A i \in 1..Len(messages'[q]) :
              \E j \in 1..Len(messages[q]) : messages'[q][i] = messages[q][j]
      BY <2>1
    <3> QED
      BY <1>1, <2>1, <2>2, <3>1, FewerMessages
  <2> QED
    BY <1>1, <1>2, <2>1, <2>2, <2>3 DEF IInv, PageOK, Counted, History, BusyMatchesRequest
<1> QED
  BY <1>3, <1>4 DEF Select

LEMMA DeleteKeeps ==
    ASSUME IInv, NEW s \in Sessions, Delete(s)
    PROVE  IInv'
<1>1. /\ messages' = [messages EXCEPT ![s] = <<>>]
      /\ UNCHANGED <<status, abortRef, timers, reloads, loaded, req, sent, overtaken>>
  BY DEF Delete, page, requests
<1>2. messages' \in Messages
  BY <1>1 DEF IInv, Messages
<1>3. InFlight' = InFlight
  BY <1>1 DEF InFlight
<1>4. ASSUME NEW q \in Sessions, NEW i \in 1..Len(messages'[q])
      PROVE  \E j \in 1..Len(messages[q]) : messages'[q][i] = messages[q][j]
  <2>1. CASE q = s
    <3>1. messages'[q] = <<>>
      BY <1>1, <2>1 DEF IInv, Messages
    <3> QED
      BY <3>1
  <2>2. CASE q # s
    BY <1>1, <2>2 DEF IInv, Messages
  <2> QED
    BY <2>1, <2>2
<1>5. Backed'
  BY <1>1, <1>3, <1>4, FewerMessages
<1>6. ChatsOK'
  BY DeleteKeepsChats DEF IInv
<1> QED
  BY <1>1, <1>2, <1>3, <1>5, <1>6 DEF IInv, PageOK, Counted, History, BusyMatchesRequest

LEMMA ReloadKeeps ==
    ASSUME IInv, Reload
    PROVE  IInv'
<1> DEFINE lost == [r \in Requests |->
                       IF r \in InFlight THEN [req[r] EXCEPT !.phase = "lost"] ELSE req[r]]
<1>1. /\ reloads < MaxReloads /\ reloads' = reloads + 1 /\ req' = lost
      /\ loaded' = loaded \cup InFlight /\ status' = "idle" /\ abortRef' = None
      /\ timers' = <<>> /\ overtaken' = FALSE /\ sent' = sent
  BY DEF Reload
<1>2. PageOK /\ sent \in Nat /\ MaxReloads \in Nat /\ MaxRequests \in Nat
      /\ Requests \subseteq Nat /\ InFlight \subseteq Requests
      /\ \A r \in InFlight \cup loaded : r \in Requests /\ r <= sent
  BY RunningWereSent, ClientAssumption DEF IInv
<1>3. \A s \in Sessions : messages'[s] = messages[s] \/ messages'[s] = <<>>
  BY DEF Reload
<1>4. messages' \in Messages
  <2>1. messages' = [s \in Sessions |-> messages'[s]]
    BY DEF Reload
  <2>2. ASSUME NEW s \in Sessions PROVE messages'[s] \in Seq(MessageType)
    <3>1. messages[s] \in Seq(MessageType) /\ <<>> \in Seq(MessageType)
      BY DEF IInv, Messages
    <3> QED
      BY <1>3, <3>1
  <2> QED
    BY <2>1, <2>2 DEF Messages
<1>5. ASSUME NEW r \in Requests
      PROVE  /\ req'[r] \in [phase : Phases, session : Sessions]
             /\ req'[r].session = req[r].session
             /\ req'[r].phase \notin Running
             /\ r \notin InFlight => req'[r] = req[r]
  <2>1. req[r] \in [phase : Phases, session : Sessions]
    BY <1>2 DEF PageOK
  <2>2. CASE r \in InFlight
    <3>1. req'[r] = [req[r] EXCEPT !.phase = "lost"]
      BY <1>1, <2>2
    <3> QED
      BY <2>1, <2>2, <3>1 DEF Phases, Running, Silent, Speaking
  <2>3. CASE r \notin InFlight
    BY <1>1, <2>1, <2>3 DEF InFlight
  <2> QED
    BY <2>2, <2>3
<1>6. InFlight' = {}
  BY <1>5 DEF InFlight
<1>7. req' \in [Requests -> [phase : Phases, session : Sessions]]
  <2>1. req' = [r \in Requests |-> req'[r]]
    BY <1>1
  <2> QED
    BY <1>5, <2>1
<1>8. Backed'
  <2>1. \A s \in Sessions : \A i \in 1..Len(messages'[s]) :
            \E j \in 1..Len(messages[s]) : messages'[s][i] = messages[s][j]
    BY <1>3
  <2> QED
    BY <1>1, <1>5, <2>1, FewerMessages
<1>9. PageOK'
  <2>1. timers' \in Seq(Sessions) /\ Len(timers') = 0
    BY <1>1
  <2>2. \A r \in Requests : r > sent => req'[r].phase = "unused"
    <3>1. \A r \in Requests : r > sent => r \notin InFlight
      BY <1>2
    <3> QED
      BY <1>2, <1>5, <3>1 DEF PageOK, Counted
  <2>3. sent \in 0..MaxRequests /\ abortRef' <= sent /\ sent + 0 <= MaxRequests
    BY <1>1, <1>2 DEF PageOK, None
  <2> QED
    BY <1>1, <1>2, <1>7, <2>1, <2>2, <2>3 DEF PageOK, Counted
<1>10. ChatsOK'
  BY ReloadKeepsChats DEF IInv
<1>11. BusyMatchesRequest'
  BY <1>1, <1>6 DEF BusyMatchesRequest
<1>12. History'
  <2>1. reloads' \in 0..MaxReloads
    BY <1>1, <1>2 DEF IInv, History
  <2> QED
    BY <1>1, <2>1 DEF History
<1> QED
  BY <1>4, <1>8, <1>9, <1>10, <1>11, <1>12 DEF IInv

-----------------------------------------------------------------------------
(* The answer arrives.                                                     *)

LEMMA Moving ==
    ASSUME IInv, NEW r \in Requests, req[r].phase \in Running, NEW p \in Running, Move(r, p),
           NEW text \in Texts \cup {AsIs}, NEW settle \in BOOLEAN,
           Patch(r, text, settle) \/ UNCHANGED messages
    PROVE  IInv'
<1>1. /\ req' = [req EXCEPT ![r].phase = p]
      /\ UNCHANGED <<order, active, created, status, abortRef, timers, reloads, loaded, sent,
                     overtaken>>
  BY DEF Move, chats, page
<1>2. p \in Phases /\ r \in InFlight
  BY DEF Phases, InFlight
<1>3. InFlight' = InFlight
  <2>1. InFlight' \ {r} = InFlight \ {r} /\ r \in InFlight'
    BY <1>1, <1>2, PhaseChanges DEF IInv
  <2> QED
    BY <1>2, <2>1
<1>4. messages' \in Messages /\ Backed'
  BY <1>1, RunningOn
<1>5. PageOK'
  BY <1>1, <1>2, PageMoves, RunningWereSent DEF IInv
<1>6. ChatsOK'
  BY <1>1, ChatsKept DEF IInv, chats
<1> QED
  BY <1>1, <1>3, <1>4, <1>5, <1>6 DEF IInv, History, BusyMatchesRequest

LEMMA Ending ==
    ASSUME IInv, NEW r \in Requests, req[r].phase \in Running, End(r),
           NEW text \in Texts \cup {AsIs}, Patch(r, text, TRUE)
    PROVE  IInv'
<1>1. /\ req' = [req EXCEPT ![r].phase = "over"]
      /\ abortRef' = None /\ status' = "idle"
      /\ overtaken' = (overtaken /\ InFlight # {r})
      /\ UNCHANGED <<order, active, created, timers, reloads, loaded, sent>>
  BY DEF End, chats
<1>2. "over" \in Phases /\ r \in InFlight
  BY DEF Phases, InFlight
<1>3. InFlight' = InFlight \ {r}
  <2>1. InFlight' \ {r} = InFlight \ {r} /\ (r \in InFlight' <=> "over" \in Running)
    BY <1>1, <1>2, PhaseChanges DEF IInv
  <2>2. "over" \notin Running
    BY DEF Running, Silent, Speaking
  <2> QED
    BY <2>1, <2>2
<1>4. messages' \in Messages /\ Backed'
  BY <1>1, <1>2, Settling
<1>5. PageOK'
  BY <1>1, <1>2, PageMoves, RunningWereSent DEF IInv
<1>6. ChatsOK'
  BY <1>1, ChatsKept DEF IInv, chats
<1>7. overtaken' \in BOOLEAN
  BY <1>1, Zenon
<1>8. BusyMatchesRequest'
  <2> SUFFICES ASSUME ~overtaken' PROVE InFlight' = {}
    BY <1>1 DEF BusyMatchesRequest
  <2>1. CASE overtaken
    BY <1>1, <1>3, <2>1
  <2>2. CASE ~overtaken
    BY <1>2, <1>3, <2>2 DEF IInv, BusyMatchesRequest
  <2> QED
    BY <2>1, <2>2
<1> QED
  BY <1>1, <1>4, <1>5, <1>6, <1>7, <1>8 DEF IInv, History

LEMMA ResponseKeeps ==
    ASSUME IInv, NEW r \in Requests, Response(r)
    PROVE  IInv'
<1>1. /\ {"partial", "answer", "notice", "unreachable", AsIs} \subseteq Texts \cup {AsIs}
      /\ TRUE \in BOOLEAN /\ FALSE \in BOOLEAN
  BY DEF Texts
<1>2. CASE StreamRefused(r) \/ StreamOpens(r) \/ FallBack(r) \/ JsonRefused(r)
  <2>1. PICK p \in {"streamRefused", "streaming", "json", "jsonRefused"} : Move(r, p)
    BY <1>2 DEF StreamRefused, StreamOpens, FallBack, JsonRefused
  <2>2. req[r].phase \in Running /\ UNCHANGED messages
    BY <1>2 DEF StreamRefused, StreamOpens, FallBack, JsonRefused, Running, Silent
  <2>3. p \in Running
    BY DEF Running, Silent
  <2> QED
    BY <1>1, <2>1, <2>2, <2>3, Moving
<1>3. CASE Token(r)
  <2>1. Patch(r, "partial", FALSE) /\ Move(r, "answering") /\ req[r].phase \in Running
        /\ "answering" \in Running
    BY <1>3 DEF Token, Running, Silent, Speaking
  <2> QED
    BY <1>1, <2>1, Moving
<1>4. CASE ErrorEvent(r)
  <2>1. PICK p \in {"failing", "cutShort"} : Move(r, p)
    BY <1>4 DEF ErrorEvent
  <2>2. Patch(r, "notice", TRUE) /\ req[r].phase \in Running /\ p \in Running
    BY <1>4 DEF ErrorEvent, Show, Running, Silent, Speaking
  <2> QED
    BY <1>1, <2>1, <2>2, Moving
<1>5. CASE \/ SpokenStreamEnds(r) \/ SilentStreamCloses(r) \/ JsonAnswers(r) \/ JsonFails(r)
  <2>1. PICK text \in {"answer", "unreachable", AsIs} : Patch(r, text, TRUE)
    BY <1>5 DEF SpokenStreamEnds, SilentStreamCloses, JsonAnswers, JsonFails, Show, Settle
  <2>2. End(r) /\ req[r].phase \in Running
    BY <1>5 DEF SpokenStreamEnds, SilentStreamCloses, JsonAnswers, JsonFails, Running, Silent,
                Speaking
  <2> QED
    BY <1>1, <2>1, <2>2, Ending
<1> QED
  BY <1>2, <1>3, <1>4, <1>5 DEF Response

-----------------------------------------------------------------------------
LEMMA Starts == Init => IInv
<1> SUFFICES ASSUME Init PROVE IInv
  OBVIOUS
<1>1. /\ order = <<1>> /\ active = 1 /\ created = 1 /\ 1 \in Sessions
      /\ messages = [s \in Sessions |-> <<>>]
      /\ status = "idle" /\ abortRef = None /\ timers = <<>> /\ sent = 0
      /\ req = [r \in Requests |-> [phase |-> "unused", session |-> 1]]
      /\ reloads = 0 /\ loaded = {} /\ overtaken = FALSE
  BY ClientAssumption DEF Init, Sessions
<1>2. ChatsOK
  BY <1>1 DEF ChatsOK, Stored, Sorted
<1>3. PageOK
  BY <1>1, ClientAssumption DEF PageOK, Counted, None, Phases
<1>4. messages \in Messages /\ Backed
  <2>1. messages \in Messages
    BY <1>1 DEF Messages
  <2> QED
    BY <1>1, <2>1 DEF Backed
<1>5. InFlight = {}
  BY <1>1 DEF InFlight, Running, Silent, Speaking
<1>6. History
  <2>1. reloads \in 0..MaxReloads
    BY <1>1, ClientAssumption
  <2> QED
    BY <1>1, <2>1 DEF History
<1>7. BusyMatchesRequest
  BY <1>1, <1>5 DEF BusyMatchesRequest
<1> QED
  BY <1>2, <1>3, <1>4, <1>6, <1>7 DEF IInv

LEMMA Stutters == ASSUME IInv, UNCHANGED vars PROVE IInv'
<1>1. UNCHANGED <<order, messages, active, status, abortRef, req, timers, created, sent,
                  reloads, loaded, overtaken>>
  BY DEF vars
<1>2. InFlight' = InFlight
  BY <1>1 DEF InFlight
<1>3. Backed'
  BY <1>1, <1>2, FewerMessages
<1>4. ChatsOK'
  BY <1>1, ChatsKept DEF IInv, chats
<1> QED
  BY <1>1, <1>2, <1>3, <1>4 DEF IInv, PageOK, Counted, History, BusyMatchesRequest

LEMMA NextKeeps == ASSUME IInv, [Next]_vars PROVE IInv'
<1>1. CASE Send
  BY <1>1, SendKeeps
<1>2. CASE Retry
  BY <1>2, RetryKeeps
<1>3. CASE Stop
  BY <1>3, StopKeeps
<1>4. CASE NewChat
  BY <1>4, NewChatKeeps
<1>5. CASE Reload
  BY <1>5, ReloadKeeps
<1>6. CASE \E s \in Sessions : Select(s) \/ Delete(s)
  BY <1>6, SelectKeeps, DeleteKeeps
<1>7. CASE Resend
  BY <1>7, ResendKeeps
<1>8. CASE \E r \in Requests : Response(r)
  BY <1>8, ResponseKeeps
<1>9. CASE UNCHANGED vars
  BY <1>9, Stutters
<1> QED
  BY <1>1, <1>2, <1>3, <1>4, <1>5, <1>6, <1>7, <1>8, <1>9 DEF Next, User

LEMMA Inductive == Spec => []IInv
  BY Starts, NextKeeps, PTL DEF Spec

\* The page never holds a value the hook's types forbid, never lists a chat
\* twice and never shows a chat that is not listed, whatever the user deletes,
\* retries or reloads.
THEOREM TypeCorrect == Spec => []TypeOK
  BY Inductive, Typed, PTL

\* No path out of send() leaves an answer with its caret: what waits has a
\* request that runs, or one that a reload cut off.
THEOREM CaretsAreBacked == Spec => []PendingHasRequest
<1>1. IInv => PendingHasRequest
  <2> SUFFICES ASSUME IInv, NEW s \in Sessions, NEW i \in DOMAIN messages[s],
                      messages[s][i].pending
               PROVE  messages[s][i].req \in InFlight \cup loaded
    BY DEF PendingHasRequest
  <2>1. i \in 1..Len(messages[s])
    BY LenProperties DEF IInv, Messages
  <2> QED
    BY <2>1 DEF IInv, Backed, Waits
<1> QED
  BY <1>1, Inductive, PTL

\* Unless Retry's timer overtook a request, the composer is locked exactly
\* while a request runs and Stop aborts that one.
THEOREM BusyIsTrue == Spec => []BusyMatchesRequest
<1>1. IInv => BusyMatchesRequest
  BY DEF IInv
<1> QED
  BY <1>1, Inductive, PTL
=============================================================================
