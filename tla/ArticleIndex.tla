---------------------------- MODULE ArticleIndex ----------------------------
(***************************************************************************)
(* From feed entries to searchable chunks: upsert_article (src/db.py),     *)
(* called by the feed tasks that fetch_all_feeds_async runs concurrently   *)
(* (src/fetch_feeds.py), and sync_index (src/embed_index.py), called by    *)
(* the ingestion worker or by hand.                                        *)
(*                                                                         *)
(* An article is its URL; its title, summary and content are one version,  *)
(* which each feed that carries the URL chooses for itself.  The stored    *)
(* content_hash is the version it was computed from.  Every statement      *)
(* outside a transaction commits by itself.                                *)
(***************************************************************************)
EXTENDS Integers, FiniteSets

CONSTANTS
    Articles,      \* URLs
    Feeds,         \* feed tasks
    Syncs,         \* processes that call sync_index
    Exclusive,     \* TRUE if the callers hold the advisory lock
    MaxVersion,    \* bound on the versions of an article
    Blank,         \* versions whose text is white space: they yield no chunks
    MaxFaults      \* bound on crashes, failed transactions and failed entries

ASSUME BoundsAssumption    == MaxVersion \in Nat \ {0} /\ MaxFaults \in Nat
ASSUME BlankAssumption     == Blank \subseteq 1..MaxVersion
ASSUME ExclusiveAssumption == Exclusive \in BOOLEAN

VARIABLES
    published,  \* version of each article in each feed's document, 0 for none
    stored,     \* version in the articles table, 0 for no row
    hash,       \* content_hash in the articles table
    chunks,     \* article_chunks: one element per replacement that left rows
    entry,      \* the entry each feed task is saving
    spc,        \* where each sync is
    counted,    \* its first query: hash and number of chunks of each article
    loaded,     \* its second query: the versions of all articles
    targets,    \* articles it still has to replace
    current,    \* the article whose transaction is open
    dropped,    \* chunk rows that transaction has deleted
    failed,     \* some article of this sync failed
    faults

tables == <<stored, hash, chunks>>
syncVars == <<spc, counted, loaded, targets, current, dropped, failed>>
vars == <<published, tables, entry, syncVars, faults>>

NoEntry == [article |-> "none"]
NoArticle == "none"

Versions == 0..MaxVersion
HasText(v) == v \in 1..MaxVersion /\ v \notin Blank

\* One committed replacement of an article's chunks.
Row(a, v, s) == [article |-> a, version |-> v, by |-> s]
RowsOf(a) == {r \in chunks : r.article = a}
Indexed(a) == RowsOf(a) # {}

NoCounts == [a \in Articles |-> [hash |-> 0, n |-> 0]]

Init ==
    /\ published = [f \in Feeds |-> [a \in Articles |-> 0]]
    /\ stored = [a \in Articles |-> 0]
    /\ hash = [a \in Articles |-> 0]
    /\ chunks = {}
    /\ entry = [f \in Feeds |-> NoEntry]
    /\ spc = [s \in Syncs |-> "idle"]
    /\ counted = [s \in Syncs |-> NoCounts]
    /\ loaded = [s \in Syncs |-> [a \in Articles |-> 0]]
    /\ targets = [s \in Syncs |-> {}]
    /\ current = [s \in Syncs |-> NoArticle]
    /\ dropped = [s \in Syncs |-> {}]
    /\ failed = [s \in Syncs |-> FALSE]
    /\ faults = 0

\* The document of a feed takes an article up, words it otherwise, or drops it.
Publish(f, a) ==
    /\ \E v \in Versions \ {published[f][a]} :
          published' = [published EXCEPT ![f][a] = v]
    /\ UNCHANGED <<tables, entry, syncVars, faults>>

-----------------------------------------------------------------------------
(* upsert_article, called for one entry of a fetched feed document.        *)

\* The document is fetched and parsed; one of its entries is next.
Fetch(f, a) ==
    /\ entry[f] = NoEntry
    /\ published[f][a] # 0
    /\ entry' = [entry EXCEPT ![f] =
                    [article |-> a, version |-> published[f][a], seen |-> "unread"]]
    /\ UNCHANGED <<published, tables, syncVars, faults>>

\* The SELECT.  An entry whose hash is the stored one needs no write.
Look(f) ==
    /\ entry[f] # NoEntry
    /\ entry[f].seen = "unread"
    /\ LET a == entry[f].article
       IN  entry' = [entry EXCEPT ![f] =
                IF stored[a] = 0 THEN [@ EXCEPT !.seen = "absent"]
                ELSE IF hash[a] = @.version THEN NoEntry
                ELSE [@ EXCEPT !.seen = "present"]]
    /\ UNCHANGED <<published, tables, syncVars, faults>>

Saving(f, seen) == entry[f] # NoEntry /\ entry[f].seen = seen

Write(f) ==
    LET e == entry[f] IN
    /\ stored' = [stored EXCEPT ![e.article] = e.version]
    /\ hash' = [hash EXCEPT ![e.article] = e.version]
    /\ entry' = [entry EXCEPT ![f] = NoEntry]
    /\ UNCHANGED <<published, chunks, syncVars, faults>>

\* Mutated form: a known article is taken to be unchanged.
UpdateNothing(f) ==
    /\ Saving(f, "present")
    /\ entry' = [entry EXCEPT ![f] = NoEntry]
    /\ UNCHANGED <<published, tables, syncVars, faults>>

\* Mutated form: an update counts revisions instead of storing the entry's.
UpdateCounting(f) ==
    /\ Saving(f, "present")
    /\ stored' = [stored EXCEPT ![entry[f].article] = @ + 1]
    /\ hash' = [hash EXCEPT ![entry[f].article] = @ + 1]
    /\ entry' = [entry EXCEPT ![f] = NoEntry]
    /\ UNCHANGED <<published, chunks, syncVars, faults>>

Update(f) ==
    /\ Saving(f, "present")
    /\ Write(f)

Insert(f) ==
    /\ Saving(f, "absent")
    /\ stored[entry[f].article] = 0
    /\ Write(f)

\* Another feed inserted the URL since the SELECT: UNIQUE (url) raises and the
\* feed counts a failed entry.
InsertConflicts(f) ==
    /\ Saving(f, "absent")
    /\ stored[entry[f].article] # 0
    /\ entry' = [entry EXCEPT ![f] = NoEntry]
    /\ UNCHANGED <<published, tables, syncVars, faults>>

\* A statement fails and the feed counts a failed entry.  (One that takes effect
\* although its reply is lost is Update or Insert.)
SaveFails(f) ==
    /\ faults < MaxFaults
    /\ faults' = faults + 1
    /\ entry[f] # NoEntry
    /\ entry' = [entry EXCEPT ![f] = NoEntry]
    /\ UNCHANGED <<published, tables, syncVars>>

-----------------------------------------------------------------------------
(* sync_index without force_reindex, limit and prune_deleted, which no     *)
(* caller in the repository passes.                                        *)

Count(s) ==
    /\ spc[s] = "idle"
    /\ Exclusive => \A t \in Syncs : spc[t] = "idle"
    /\ spc' = [spc EXCEPT ![s] = "load"]
    /\ counted' = [counted EXCEPT ![s] =
            [a \in Articles |-> [hash |-> hash[a], n |-> Cardinality(RowsOf(a))]]]
    /\ UNCHANGED <<published, tables, entry, loaded, targets, current, dropped,
                   failed, faults>>

\* What is new and what has changed, from the two queries.
IsNew(s, a) == stored[a] # 0 /\ counted[s][a].n = 0
IsChanged(s, a) ==
    /\ stored[a] # 0
    /\ counted[s][a].n > 0
    /\ counted[s][a].hash # stored[a]

Wanted(s) == {a \in Articles : IsNew(s, a) \/ IsChanged(s, a)}

\* The second query; the articles to replace are worked out, after which the
\* first query's rows are not looked at again.
LoadArticles(s, label, wanted) ==
    /\ spc[s] = "load"
    /\ loaded' = [loaded EXCEPT ![s] = stored]
    /\ counted' = [counted EXCEPT ![s] = NoCounts]
    /\ targets' = [targets EXCEPT ![s] = wanted]
    /\ spc' = [spc EXCEPT ![s] = label]
    /\ UNCHANGED <<published, tables, entry, current, dropped, faults>>

\* Mutated form: new articles are left for a later sync.
LoadChangedOnly(s) ==
    /\ LoadArticles(s, "replace", {a \in Articles : IsChanged(s, a)})
    /\ UNCHANGED failed

Embeddable(s) == \E a \in Wanted(s) : HasText(stored[a])

Load(s) ==
    /\ Wanted(s) = {} \/ Embeddable(s)
    /\ LoadArticles(s, "replace", Wanted(s))
    /\ UNCHANGED failed

\* No target has any text: the call returns early, all its targets failed.
LoadNothingToEmbed(s) ==
    /\ Wanted(s) # {} /\ ~Embeddable(s)
    /\ LoadArticles(s, "done", {})
    /\ failed' = [failed EXCEPT ![s] = TRUE]

\* The transaction of one article: the DELETE fixes which rows it removes.
OpenTransaction(s, a) ==
    /\ spc[s] = "replace"
    /\ a \in targets[s]
    /\ spc' = [spc EXCEPT ![s] = "insert"]
    /\ current' = [current EXCEPT ![s] = a]
    /\ UNCHANGED <<published, stored, hash, entry, counted, loaded, targets,
                   failed, faults>>

\* Mutated form: the delete commits by itself.
DeleteAtOnce(s, a) ==
    /\ OpenTransaction(s, a)
    /\ chunks' = chunks \ RowsOf(a)
    /\ UNCHANGED dropped

Delete(s, a) ==
    /\ OpenTransaction(s, a)
    /\ dropped' = [dropped EXCEPT ![s] = RowsOf(a)]
    /\ UNCHANGED chunks

EndTransaction(s) ==
    /\ spc[s] = "insert"
    /\ spc' = [spc EXCEPT ![s] = "replace"]
    /\ targets' = [targets EXCEPT ![s] = @ \ {current[s]}]
    /\ current' = [current EXCEPT ![s] = NoArticle]
    /\ dropped' = [dropped EXCEPT ![s] = {}]
    /\ UNCHANGED <<published, stored, hash, entry, counted, loaded>>

\* The chunks of the open article: none if its text is blank.
NewRows(s) ==
    {Row(current[s], v, s) : v \in {loaded[s][current[s]]} \ Blank}

\* Mutated form: the old chunks stay beside the new ones.
CommitWithoutDelete(s) ==
    /\ EndTransaction(s)
    /\ chunks' = chunks \cup NewRows(s)
    /\ UNCHANGED <<failed, faults>>

\* The INSERTs, if there is anything to insert, and the commit: rows that another
\* transaction has inserted since the DELETE are not among the deleted ones.
Commit(s) ==
    /\ EndTransaction(s)
    /\ chunks' = (chunks \ dropped[s]) \cup NewRows(s)
    /\ UNCHANGED <<failed, faults>>

\* An exception rolls the article back; the sync goes on with the next one.  Or
\* the commit took effect and its reply was lost.
RollBack(s) ==
    /\ faults < MaxFaults
    /\ faults' = faults + 1
    /\ EndTransaction(s)
    /\ failed' = [failed EXCEPT ![s] = TRUE]
    /\ \/ UNCHANGED chunks
       \/ chunks' = (chunks \ dropped[s]) \cup NewRows(s)

Reset(s, label) ==
    /\ spc' = [spc EXCEPT ![s] = label]
    /\ targets' = [targets EXCEPT ![s] = {}]
    /\ current' = [current EXCEPT ![s] = NoArticle]
    /\ dropped' = [dropped EXCEPT ![s] = {}]
    /\ UNCHANGED <<published, tables, entry>>

\* All targets are done; the result is returned, and then the call is over.
Complete(s) ==
    /\ spc[s] = "replace"
    /\ targets[s] = {}
    /\ Reset(s, "done")
    /\ UNCHANGED <<counted, loaded, failed, faults>>

ForgetLocals(s) ==
    /\ counted' = [counted EXCEPT ![s] = NoCounts]
    /\ loaded' = [loaded EXCEPT ![s] = [a \in Articles |-> 0]]
    /\ failed' = [failed EXCEPT ![s] = FALSE]

Return(s) ==
    /\ spc[s] = "done"
    /\ Reset(s, "idle")
    /\ ForgetLocals(s)
    /\ UNCHANGED faults

Crash(s) ==
    /\ faults < MaxFaults
    /\ faults' = faults + 1
    /\ spc[s] # "idle"
    /\ Reset(s, "idle")
    /\ ForgetLocals(s)

Feed(f) ==
    \/ \E a \in Articles : Fetch(f, a)
    \/ Look(f) \/ Update(f) \/ Insert(f) \/ InsertConflicts(f) \/ SaveFails(f)

Sync(s) ==
    \/ Count(s) \/ Load(s) \/ LoadNothingToEmbed(s)
    \/ \E a \in Articles : Delete(s, a)
    \/ Commit(s) \/ RollBack(s)
    \/ Complete(s) \/ Return(s)

Next ==
    \/ \E f \in Feeds : Feed(f) \/ \E a \in Articles : Publish(f, a)
    \/ \E s \in Syncs : Sync(s) \/ Crash(s)

Spec == Init /\ [][Next]_vars

\* The refresh loop fetches and indexes again and again, and every fetch goes
\* through all entries its document has.  (Fetch is fair in the strong sense as
\* other entries come between; the properties rely on it only for an entry that
\* stays in its document.)
Fairness ==
    /\ \A f \in Feeds : WF_vars(Feed(f)) /\ \A a \in Articles : SF_vars(Fetch(f, a))
    /\ \A s \in Syncs : SF_vars(Sync(s))

FairSpec == Spec /\ Fairness

-----------------------------------------------------------------------------
(* Properties.                                                             *)

ChunkRows == [article : Articles, version : Versions, by : Syncs]

Positions == {"idle", "load", "replace", "insert", "done"}

TypeOK ==
    /\ published \in [Feeds -> [Articles -> Versions]]
    /\ stored \in [Articles -> Versions]
    /\ hash \in [Articles -> Versions]
    /\ chunks \subseteq ChunkRows
    /\ entry \in [Feeds -> {NoEntry} \cup [article : Articles, version : Versions,
                                         seen : {"unread", "absent", "present"}]]
    /\ spc \in [Syncs -> Positions]
    /\ counted \in [Syncs -> [Articles -> [hash : Versions, n : Nat]]]
    /\ loaded \in [Syncs -> [Articles -> Versions]]
    /\ targets \in [Syncs -> SUBSET Articles]
    /\ current \in [Syncs -> Articles \cup {NoArticle}]
    /\ dropped \in [Syncs -> SUBSET ChunkRows]
    /\ failed \in [Syncs -> BOOLEAN]
    /\ faults \in Nat

\* Each article's chunks come from one replacement: under the advisory lock,
\* crashes, failed articles and concurrent feed updates never leave two
\* generations of chunks side by side (embed_index.py:74).
OneGeneration ==
    Exclusive => \A r, q \in chunks : r.article = q.article => r = q

\* "A crash mid-run leaves the previous version of that article intact": an
\* article that search can find loses its chunks only when the transaction that
\* replaces them ends, and only to a text that has none; never to a crash, a
\* rollback or the time between two statements (embed_index.py:216-223).
NeverUnindexed ==
    [][\A a \in Articles : Indexed(a) /\ ~Indexed(a)' =>
          \E s \in Syncs : /\ spc[s] = "insert" /\ current[s] = a
                          /\ loaded[s][a] \in Blank]_vars

\* "Re-embeds changed by content hash" (docstring at embed_index.py:72): after
\* a sync without a failed article the chunks of an article that has not
\* changed since are those of its current version.
ChangedArticlesReembedded ==
    \A s \in Syncs : (spc[s] = "done" /\ ~failed[s]) =>
        \A a \in Articles : (HasText(stored[a]) /\ stored[a] = loaded[s][a]) =>
            \E r \in RowsOf(a) : r.version = stored[a]

\* Feed f carries the article in version v, and no other feed differs.
Agreed(f, a, v) ==
    /\ published[f][a] = v
    /\ \A g \in Feeds : published[g][a] \in {0, v}

\* However feeds that carry the same URL have raced, once they agree on its text
\* and one of them keeps it, the table ends up with that text: a lost insert, a
\* failed entry or an overwrite by an older entry is repaired by a later fetch.
\* (Feeds that go on disagreeing overwrite each other for ever.)
FeedsConverge ==
    \A f \in Feeds, a \in Articles, v \in 1..MaxVersion :
        <>[]Agreed(f, a, v) => <>[](stored[a] = v)

\* A stored article that keeps having a text becomes searchable for good, even if
\* it was blank before or shared its syncs with blank articles.
EveryArticleIndexed ==
    \A a \in Articles : <>[]HasText(stored[a]) => <>[]Indexed(a)
=============================================================================
