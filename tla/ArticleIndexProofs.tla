------------------------- MODULE ArticleIndexProofs -------------------------
(***************************************************************************)
(* Proofs about ArticleIndex, for any number of articles, feeds, syncs,    *)
(* versions and faults.                                                    *)
(*                                                                         *)
(* Both properties are about the end of one article's transaction,         *)
(* which removes the rows its DELETE fixed earlier.  OwnRows says that     *)
(* those are rows of that article, whoever else is at work; with the lock  *)
(* (Alone) they are all of them (AllRows).                                 *)
(***************************************************************************)
EXTENDS ArticleIndex, FiniteSetTheorems, TLAPS

\* An open transaction has an article, and removes rows of that article.
OwnRows ==
    \A s \in Syncs : spc[s] = "insert" =>
        /\ current[s] \in Articles
        /\ \A r \in dropped[s] : r.article = current[s]

Alone ==
    Exclusive => \A s, t \in Syncs : spc[s] # "idle" /\ spc[t] # "idle" => s = t

AllRows ==
    Exclusive => \A s \in Syncs : spc[s] = "insert" => dropped[s] = RowsOf(current[s])

IInv == TypeOK /\ IsFiniteSet(chunks) /\ OwnRows /\ Alone /\ AllRows /\ OneGeneration

-----------------------------------------------------------------------------
LEMMA InitIInv == Init => IInv
<1> SUFFICES ASSUME Init PROVE IInv
  OBVIOUS
<1>1. TypeOK
  BY BoundsAssumption DEF Init, TypeOK, NoCounts, Versions, Positions, ChunkRows, NoEntry, NoArticle
<1>2. IsFiniteSet(chunks)
  BY FS_EmptySet DEF Init
<1>3. OwnRows /\ Alone /\ AllRows /\ OneGeneration
  BY DEF Init, OwnRows, Alone, AllRows, OneGeneration
<1> QED
  BY <1>1, <1>2, <1>3 DEF IInv

-----------------------------------------------------------------------------
(* What leaves chunks and syncs alone keeps all but the typing.            *)

LEMMA OthersKeep ==
    ASSUME IInv, UNCHANGED <<chunks, spc, dropped, current>>
    PROVE  IsFiniteSet(chunks)' /\ OwnRows' /\ Alone' /\ AllRows' /\ OneGeneration'
  BY DEF IInv, OwnRows, Alone, AllRows, RowsOf, OneGeneration

LEMMA PublishKeeps ==
    ASSUME IInv, NEW f \in Feeds, NEW a \in Articles, Publish(f, a)
    PROVE  IInv'
<1>1. TypeOK'
  <2>1. PICK v \in Versions : published' = [published EXCEPT ![f][a] = v]
    BY DEF Publish
  <2>2. published' \in [Feeds -> [Articles -> Versions]]
    BY <2>1 DEF IInv, TypeOK
  <2> QED
    BY <2>2 DEF IInv, TypeOK, Publish, tables, syncVars
<1>2. UNCHANGED <<chunks, spc, dropped, current>>
  BY DEF Publish, tables, syncVars
<1> QED
  BY <1>1, <1>2, OthersKeep DEF IInv

LEMMA WriteKeepsTypes ==
    ASSUME TypeOK, NEW f \in Feeds, entry[f] # NoEntry, Write(f)
    PROVE  TypeOK'
<1>1. entry[f].article \in Articles /\ entry[f].version \in Versions
  BY DEF TypeOK
<1> QED
  BY <1>1 DEF TypeOK, Write, syncVars

LEMMA FeedKeeps ==
    ASSUME IInv, NEW f \in Feeds, Feed(f)
    PROVE  IInv'
<1>1. TypeOK /\ TypeOK'
  <2>0. TypeOK
    BY DEF IInv
  <2>1. ASSUME NEW a \in Articles, Fetch(f, a) PROVE TypeOK'
    BY <2>0, <2>1 DEF TypeOK, Fetch, tables, syncVars
  <2>2. ASSUME Look(f) PROVE TypeOK'
    <3>1. entry[f] \in [article : Articles, version : Versions,
                        seen : {"unread", "absent", "present"}]
      BY <2>0, <2>2 DEF TypeOK, Look
    <3>2. entry'[f] \in {NoEntry} \cup [article : Articles, version : Versions,
                                       seen : {"unread", "absent", "present"}]
      BY <2>0, <2>2, <3>1 DEF TypeOK, Look
    <3>3. entry' \in [Feeds -> {NoEntry} \cup [article : Articles, version : Versions,
                                       seen : {"unread", "absent", "present"}]]
      BY <2>0, <2>2, <3>2 DEF TypeOK, Look
    <3> QED
      BY <2>0, <2>2, <3>3 DEF TypeOK, Look, tables, syncVars
  <2>3. CASE Update(f)
    BY <2>0, <2>3, WriteKeepsTypes DEF Update, Saving
  <2>4. CASE Insert(f)
    BY <2>0, <2>4, WriteKeepsTypes DEF Insert, Saving
  <2>5. ASSUME InsertConflicts(f) PROVE TypeOK'
    BY <2>0, <2>5 DEF TypeOK, InsertConflicts, tables, syncVars
  <2>6. ASSUME SaveFails(f) PROVE TypeOK'
    BY <2>0, <2>6 DEF TypeOK, SaveFails, tables, syncVars
  <2> QED
    BY <2>0, <2>1, <2>2, <2>3, <2>4, <2>5, <2>6 DEF Feed
<1>2. UNCHANGED <<chunks, spc, dropped, current>>
  BY DEF Feed, Fetch, Look, Update, Insert, InsertConflicts, SaveFails, Write,
         tables, syncVars
<1> QED
  BY <1>1, <1>2, OthersKeep DEF IInv

-----------------------------------------------------------------------------
(* Steps of a sync.                                                        *)

LEMMA CountKeeps ==
    ASSUME IInv, NEW s \in Syncs, Count(s)
    PROVE  IInv'
<1>1. \A a \in Articles : Cardinality(RowsOf(a)) \in Nat
  BY FS_Subset, FS_CardinalityType DEF IInv, RowsOf
<1>2. TypeOK'
  <2>1. counted' \in [Syncs -> [Articles -> [hash : Versions, n : Nat]]]
    BY <1>1 DEF IInv, TypeOK, Count
  <2> QED
    BY <2>1 DEF IInv, TypeOK, Count, tables, Positions
<1>3. Alone'
  BY DEF IInv, TypeOK, Alone, Count
<1>4. OwnRows' /\ AllRows' /\ OneGeneration' /\ IsFiniteSet(chunks)'
  BY DEF IInv, TypeOK, OwnRows, AllRows, RowsOf, OneGeneration, Count, tables
<1> QED
  BY <1>2, <1>3, <1>4 DEF IInv

LEMMA NoCountsFit == NoCounts \in [Articles -> [hash : Versions, n : Nat]]
  BY BoundsAssumption DEF NoCounts, Versions

LEMMA LoadKeeps ==
    ASSUME IInv, NEW s \in Syncs, Load(s) \/ LoadNothingToEmbed(s)
    PROVE  IInv'
<1>1. PICK label \in {"replace", "done"}, wanted \in SUBSET Articles :
          LoadArticles(s, label, wanted)
  BY DEF Load, LoadNothingToEmbed, Wanted
<1>2. TypeOK'
  <2>1. counted' \in [Syncs -> [Articles -> [hash : Versions, n : Nat]]]
    BY <1>1, NoCountsFit DEF IInv, TypeOK, LoadArticles
  <2>2. failed' \in [Syncs -> BOOLEAN]
    BY DEF IInv, TypeOK, Load, LoadNothingToEmbed
  <2> QED
    BY <1>1, <2>1, <2>2 DEF IInv, TypeOK, LoadArticles, tables, Positions
<1>3. Alone' /\ OwnRows' /\ AllRows' /\ OneGeneration' /\ IsFiniteSet(chunks)'
  BY <1>1 DEF IInv, TypeOK, Alone, OwnRows, AllRows, RowsOf, OneGeneration,
              LoadArticles, tables
<1> QED
  BY <1>2, <1>3 DEF IInv

LEMMA DeleteKeeps ==
    ASSUME IInv, NEW s \in Syncs, NEW a \in Articles, Delete(s, a)
    PROVE  IInv'
<1>1. TypeOK'
  BY DEF IInv, TypeOK, Delete, OpenTransaction, RowsOf, Positions
<1>2. IsFiniteSet(chunks)' /\ OneGeneration'
  BY DEF IInv, Delete, OneGeneration
<1>3. Alone'
  BY DEF IInv, TypeOK, Alone, Delete, OpenTransaction
<1>4. OwnRows' /\ AllRows'
  BY DEF IInv, TypeOK, OwnRows, AllRows, RowsOf, Delete, OpenTransaction
<1> QED
  BY <1>1, <1>2, <1>3, <1>4 DEF IInv

LEMMA EndTransactionKeeps ==
    ASSUME IInv, NEW s \in Syncs, EndTransaction(s),
           chunks' \subseteq ChunkRows, faults' \in Nat, failed' \in [Syncs -> BOOLEAN]
    PROVE  TypeOK' /\ OwnRows' /\ Alone'
<1>1. TypeOK'
  BY DEF IInv, TypeOK, EndTransaction, Positions
<1>2. OwnRows' /\ Alone'
  BY DEF IInv, TypeOK, OwnRows, Alone, EndTransaction
<1> QED
  BY <1>1, <1>2

\* A replacement leaves at most one row, of the open article.
LEMMA NewRowsFit ==
    ASSUME IInv, NEW s \in Syncs, spc[s] = "insert"
    PROVE  /\ NewRows(s) \subseteq ChunkRows
           /\ \A r \in NewRows(s) : r.article = current[s]
           /\ \A r, q \in NewRows(s) : r = q
           /\ IsFiniteSet(NewRows(s))
<1>1. current[s] \in Articles /\ loaded[s][current[s]] \in Versions
  BY DEF IInv, TypeOK, OwnRows
<1>2. DEFINE row == Row(current[s], loaded[s][current[s]], s)
<1>3. NewRows(s) = {} \/ NewRows(s) = {row}
  BY DEF NewRows
<1>4. row \in ChunkRows /\ row.article = current[s]
  BY <1>1 DEF Row, ChunkRows
<1>5. IsFiniteSet(NewRows(s))
  <2> HIDE DEF row
  <2> QED BY <1>3, FS_EmptySet, FS_Singleton
<1> QED
  BY <1>3, <1>4, <1>5

\* The heart of the matter: the rows of one article are exchanged for at most one
\* row, by a commit whose reply arrives or is lost.
LEMMA ReplacementKeeps ==
    ASSUME IInv, NEW s \in Syncs, EndTransaction(s),
           chunks' = (chunks \ dropped[s]) \cup NewRows(s),
           faults' \in Nat, failed' \in [Syncs -> BOOLEAN]
    PROVE  IInv'
<1>0. spc[s] = "insert"
  BY DEF EndTransaction
<1>2. /\ NewRows(s) \subseteq ChunkRows
      /\ \A r \in NewRows(s) : r.article = current[s]
      /\ \A r, q \in NewRows(s) : r = q
      /\ IsFiniteSet(NewRows(s))
  BY <1>0, NewRowsFit
<1>3. TypeOK' /\ OwnRows' /\ Alone'
  <2>1. chunks' \subseteq ChunkRows
    BY <1>2 DEF IInv, TypeOK
  <2> QED
    BY <2>1, EndTransactionKeeps
<1>4. IsFiniteSet(chunks)'
  <2>1. IsFiniteSet(chunks \ dropped[s])
    BY FS_Subset DEF IInv
  <2> QED
    BY <2>1, <1>2, FS_Union
<1>5. AllRows'
  <2> SUFFICES ASSUME Exclusive, NEW t \in Syncs, spc'[t] = "insert"
               PROVE  FALSE
    BY DEF AllRows
  <2>1. spc[t] = "insert" /\ t # s
    BY DEF IInv, TypeOK, EndTransaction
  <2> QED
    BY <2>1, <1>0 DEF IInv, Alone
<1>6. OneGeneration'
  <2> SUFFICES ASSUME Exclusive, NEW r \in chunks', NEW q \in chunks',
                      r.article = q.article
               PROVE  r = q
    BY DEF OneGeneration
  <2>1. dropped[s] = RowsOf(current[s])
    BY <1>0 DEF IInv, AllRows
  <2>2. \A x \in chunks' : x \in NewRows(s) \/ (x \in chunks /\ x.article # current[s])
    BY <2>1 DEF RowsOf
  <2> QED
    BY <2>2, <1>2 DEF IInv, OneGeneration
<1> QED
  BY <1>3, <1>4, <1>5, <1>6 DEF IInv

LEMMA CommitKeeps ==
    ASSUME IInv, NEW s \in Syncs, Commit(s)
    PROVE  IInv'
<1>1. faults' \in Nat /\ failed' \in [Syncs -> BOOLEAN]
  BY DEF IInv, TypeOK, Commit
<1> QED
  BY <1>1, ReplacementKeeps DEF Commit

LEMMA RollBackKeeps ==
    ASSUME IInv, NEW s \in Syncs, RollBack(s)
    PROVE  IInv'
<1>0. faults' \in Nat /\ failed' \in [Syncs -> BOOLEAN]
  BY DEF IInv, TypeOK, RollBack
<1>1. CASE UNCHANGED chunks
  <2>1. TypeOK' /\ OwnRows' /\ Alone'
    <3>1. chunks' \subseteq ChunkRows
      BY <1>1 DEF IInv, TypeOK
    <3> QED
      BY <1>0, <3>1, EndTransactionKeeps DEF RollBack
  <2>2. IsFiniteSet(chunks)' /\ OneGeneration'
    BY <1>1 DEF IInv, OneGeneration
  <2>3. AllRows'
    BY <1>1 DEF IInv, TypeOK, AllRows, RowsOf, RollBack, EndTransaction
  <2> QED
    BY <2>1, <2>2, <2>3 DEF IInv
<1>2. CASE chunks' = (chunks \ dropped[s]) \cup NewRows(s)
  BY <1>0, <1>2, ReplacementKeeps DEF RollBack
<1> QED
  BY <1>1, <1>2 DEF RollBack

LEMMA ResetKeeps ==
    ASSUME IInv, NEW s \in Syncs, NEW label \in {"idle", "done"}, spc[s] # "idle",
           Reset(s, label), faults' \in Nat, failed' \in [Syncs -> BOOLEAN],
           counted' \in [Syncs -> [Articles -> [hash : Versions, n : Nat]]],
           loaded' \in [Syncs -> [Articles -> Versions]]
    PROVE  IInv'
<1>1. TypeOK'
  BY DEF IInv, TypeOK, Reset, tables, Positions
<1>2. IsFiniteSet(chunks)' /\ OneGeneration'
  BY DEF IInv, Reset, tables, OneGeneration
<1>3. OwnRows' /\ AllRows' /\ Alone'
  BY DEF IInv, TypeOK, OwnRows, AllRows, RowsOf, Alone, Reset, tables
<1> QED
  BY <1>1, <1>2, <1>3 DEF IInv

LEMMA EndOfCallKeeps ==
    ASSUME IInv, NEW s \in Syncs, Complete(s) \/ Return(s) \/ Crash(s)
    PROVE  IInv'
<1>1. /\ counted' \in [Syncs -> [Articles -> [hash : Versions, n : Nat]]]
      /\ loaded' \in [Syncs -> [Articles -> Versions]]
      /\ failed' \in [Syncs -> BOOLEAN]
  <2>0. TypeOK
    BY DEF IInv
  <2>1. NoCounts \in [Articles -> [hash : Versions, n : Nat]]
    BY NoCountsFit
  <2>2. [a \in Articles |-> 0] \in [Articles -> Versions]
    BY BoundsAssumption DEF Versions
  <2>3. CASE ForgetLocals(s)
    BY <2>0, <2>1, <2>2, <2>3 DEF TypeOK, ForgetLocals
  <2>4. CASE Complete(s)
    BY <2>0, <2>4 DEF TypeOK, Complete
  <2> QED
    BY <2>3, <2>4 DEF Return, Crash
<1>2. faults' \in Nat
  BY DEF IInv, TypeOK, Complete, Return, Crash
<1>3. spc[s] # "idle"
  BY DEF Complete, Return, Crash
<1>4. CASE Reset(s, "idle")
  BY <1>1, <1>2, <1>3, <1>4, ResetKeeps
<1>5. CASE Reset(s, "done")
  BY <1>1, <1>2, <1>3, <1>5, ResetKeeps
<1> QED
  BY <1>4, <1>5 DEF Complete, Return, Crash

LEMMA NextKeeps ==
    ASSUME IInv, [Next]_vars
    PROVE  IInv'
<1>1. ASSUME NEW f \in Feeds, NEW a \in Articles, Publish(f, a) PROVE IInv'
  BY <1>1, PublishKeeps
<1>2. ASSUME NEW f \in Feeds, Feed(f) PROVE IInv'
  BY <1>2, FeedKeeps
<1>3. ASSUME NEW s \in Syncs, Sync(s) PROVE IInv'
  BY <1>3, CountKeeps, LoadKeeps, DeleteKeeps, CommitKeeps, RollBackKeeps,
     EndOfCallKeeps DEF Sync
<1>4. ASSUME NEW s \in Syncs, Crash(s) PROVE IInv'
  BY <1>4, EndOfCallKeeps
<1>5. ASSUME UNCHANGED vars PROVE IInv'
  <2>1. TypeOK'
    BY <1>5 DEF IInv, TypeOK, vars, tables, syncVars
  <2>2. UNCHANGED <<chunks, spc, dropped, current>>
    BY <1>5 DEF vars, tables, syncVars
  <2> QED
    BY <2>1, <2>2, OthersKeep DEF IInv
<1> QED
  BY <1>1, <1>2, <1>3, <1>4, <1>5 DEF Next

LEMMA Inductive == Spec => []IInv
  BY InitIInv, NextKeeps, PTL DEF Spec

-----------------------------------------------------------------------------
\* The tables and the locals of feeds and syncs keep their types.
THEOREM TypeCorrect == Spec => []TypeOK
<1>1. IInv => TypeOK
  BY DEF IInv
<1> QED
  BY <1>1, Inductive, PTL

\* Under the advisory lock no article ever has the chunks of two replacements,
\* whatever crashes, fails or is updated meanwhile (embed_index.py:74).
THEOREM OneGenerationAlways == Spec => []OneGeneration
<1>1. IInv => OneGeneration
  BY DEF IInv
<1> QED
  BY <1>1, Inductive, PTL

\* Only the end of a transaction that took effect changes the chunks.
LEMMA OnlyReplacementsWrite ==
    ASSUME [Next]_vars
    PROVE  \/ UNCHANGED chunks
           \/ \E s \in Syncs : /\ EndTransaction(s)
                               /\ chunks' = (chunks \ dropped[s]) \cup NewRows(s)
<1>1. ASSUME NEW s \in Syncs, Commit(s) \/ RollBack(s)
      PROVE  \/ UNCHANGED chunks
             \/ EndTransaction(s) /\ chunks' = (chunks \ dropped[s]) \cup NewRows(s)
  BY <1>1 DEF Commit, RollBack
<1>2. UNCHANGED chunks \/ \E s \in Syncs : Commit(s) \/ RollBack(s)
  BY DEF Next, Publish, Feed, Fetch, Look, Update, Insert, InsertConflicts,
         SaveFails, Write, Sync, Count, Load, LoadNothingToEmbed, LoadArticles,
         Delete, Complete, Return, Crash, Reset, vars, tables, syncVars
<1> QED
  BY <1>1, <1>2

\* With the lock or without it, an article's chunks go only when a transaction
\* that replaces them by those of a blank text ends: any other one adds a row of
\* its article, and rows of other articles are not among those it has dropped.
LEMMA OnlyBlankTextUnindexes ==
    ASSUME IInv, [Next]_vars, NEW a \in Articles, Indexed(a), ~Indexed(a)'
    PROVE  \E s \in Syncs : /\ spc[s] = "insert" /\ current[s] = a
                           /\ loaded[s][a] \in Blank
<1>1. PICK s \in Syncs : /\ EndTransaction(s)
                         /\ chunks' = (chunks \ dropped[s]) \cup NewRows(s)
  BY OnlyReplacementsWrite DEF Indexed, RowsOf
<1>2. spc[s] = "insert"
  BY <1>1 DEF EndTransaction
<1>3. PICK r \in chunks : r.article = a
  BY DEF Indexed, RowsOf
<1>4. r \in dropped[s]
  BY <1>1, <1>3 DEF Indexed, RowsOf
<1>5. current[s] = a
  BY <1>2, <1>3, <1>4 DEF IInv, OwnRows
<1>6. loaded[s][a] \in Blank
  <2> SUFFICES ASSUME loaded[s][a] \notin Blank
               PROVE  FALSE
    OBVIOUS
  <2>1. Row(a, loaded[s][a], s) \in NewRows(s)
    BY <1>5 DEF NewRows
  <2>2. Row(a, loaded[s][a], s).article = a
    BY DEF Row
  <2> QED
    BY <1>1, <2>1, <2>2 DEF Indexed, RowsOf
<1> QED
  BY <1>2, <1>5, <1>6

\* A crash or a failure in the middle of a sync leaves every article that could
\* be found findable, for any number of overlapping syncs: only a text without
\* chunks takes them away, in the transaction that replaces the old ones.
THEOREM IndexedForGood == Spec => NeverUnindexed
<1> DEFINE Kept == \A a \in Articles : Indexed(a) /\ ~Indexed(a)' =>
                      \E s \in Syncs : /\ spc[s] = "insert" /\ current[s] = a
                                      /\ loaded[s][a] \in Blank
<1>1. IInv /\ [Next]_vars => [Kept]_vars
  BY OnlyBlankTextUnindexes
<1> QED
  BY <1>1, Inductive, PTL DEF Spec, NeverUnindexed
=============================================================================
