------------------------------ MODULE MemoryStore ------------------------------
(***************************************************************************)
(* The memory store (arona_memory) with everybody who uses it: four trees of  *)
(* a sled database, the reading and writing back that strengthens a memory,   *)
(* the search through all trees at once, the audit logs of guardian, trust     *)
(* and permissions, and the loss of power.                                   *)
(*                                                                         *)
(* Every method takes &self, so threads may call them at the same time.  One  *)
(* access to a tree is atomic, a method is not.                             *)
(***************************************************************************)
EXTENDS Integers, FiniteSets, SequencesExt

CONSTANTS
  Threads,
  Ids,               \* Uuids, as numbers in the order of the keys
  Categories,        \* MemoryCategory::all(), in that order
  Words,             \* what records may say: sets of words
  LogWords,          \* what every audit log says
  Triggers,          \* MemoirTrigger
  Queries,           \* sequences of words
  Importances,       \* what apply_importance may be given, in tenths
  Decay(_, _),       \* exp(-elapsed / stability) in thousandths
  limit,             \* of search_all
  DebugAssertions,   \* TRUE: the build has debug_assert!
  CountMax,          \* u32::MAX
  MaxDay, MaxMade, MaxWrites, MaxCalls, MaxSearches   \* bounds: the clock, records made,
                     \* changes of trees, calls and searches at the same time

VARIABLES
  up,       \* whether the store is open
  trees,    \* category -> the records of its tree by their ids
  disk,     \* the trees as flush or the last crash left them
  calls,    \* for each thread the call it is in
  today,    \* the clock behind Utc::now(), in days
  made,     \* history: the ids given out
  writes,   \* how often a tree was changed, for the bound
  kept      \* history: the memoirs that were there when flush returned

vars == <<up, trees, disk, calls, today, made, writes, kept>>

Kinds == Range(Categories)

\* The categories the audit logs and new_memoir write to; queries are sequences; numbers are
\* numbers, and 0 comes before every id.
ASSUME StoreAssumption ==
  /\ {"System", "Arona", "Memoir"} \subseteq Kinds /\ Categories \in Seq(Kinds)
  /\ Ids \subseteq Nat \ {0} /\ \A query \in Queries : query \in Seq(ToSet(query))
  /\ Importances \subseteq Int /\ {CountMax, MaxDay, limit} \subseteq Nat

\* exp(-t / S) does not rise with t nor fall with S.
ASSUME DecayAssumption ==
  \A e, f \in 0..MaxDay, s, v \in {(6 + 3 * n) * (1 + 2 * m) : n \in 0..CountMax, m \in 0..10} :
    Decay(e, s) \in Int /\ (e <= f /\ s <= v => Decay(f, s) <= Decay(e, v))

Empty == [c \in Kinds |-> << >>]

Idle == [op |-> "none"]

Init ==
  /\ up = FALSE /\ trees = Empty /\ disk = Empty
  /\ calls = [t \in Threads |-> Idle]
  /\ today = 0 /\ made = {} /\ writes = 0 /\ kept = {}

Free(t) ==
  /\ up /\ calls[t] = Idle
  /\ Cardinality({u \in Threads : calls[u] # Idle}) < MaxCalls

(***************************************************************************)
(* Relevance and score                                                     *)
(***************************************************************************)

\* RecallScore::stability in half days; importance in tenths.
stability(r) == (6 + 3 * r.recall_count) * (1 + 2 * r.importance)

elapsed(r) == IF today > r.last_recalled_at THEN today - r.last_recalled_at ELSE 0

current_score(r) == Decay(elapsed(r), stability(r))

\* Which part of the words of the query the record has, in thousandths.
relevance(query, r) ==
  IF query = <<>> THEN 0
  ELSE (1000 * Cardinality({n \in DOMAIN query : query[n] \in r.words})) \div Len(query)

Hit(query, r) ==
  [record |-> r, relevance |-> relevance(query, r), elapsed |-> elapsed(r),
   combined_score |-> 7 * relevance(query, r) + 3 * current_score(r)]

(***************************************************************************)
(* One access to a tree                                                    *)
(***************************************************************************)

Matching(query, ts) ==
  UNION {{i \in DOMAIN ts[c] : relevance(query, ts[c][i]) > 0} : c \in Kinds}

\* What other calls have to do with a change of record id (history): a copy read before
\* gets stale, a search keeps account of what it may and must find.
Noted(call, id, ts) ==
  CASE call.op \in {"recall", "update"} /\ call.copy.id = id -> [call EXCEPT !.stale = TRUE]
    [] call.op = "search" -> [call EXCEPT !.always = @ \intersect Matching(call.query, ts),
                                          !.ever = @ \union Matching(call.query, ts)]
    [] OTHER -> call

\* Thread t has changed record id and its call goes on as next.
Changed(t, id, ts, next) ==
  /\ writes < MaxWrites /\ writes' = writes + 1
  /\ trees' = ts
  /\ calls' = [u \in Threads |-> IF u = t THEN next ELSE Noted(calls[u], id, ts)]

\* put: in the tree of the record's category, over what was there.
Inserted(r) ==
  [trees EXCEPT ![r.category] =
     [i \in DOMAIN @ \union {r.id} |-> IF i = r.id THEN r ELSE @[i]]]

(***************************************************************************)
(* New records                                                             *)
(***************************************************************************)

\* Mutant: what is judged less important is made so.
ImportanceIsSet(r, importance) ==
  [r EXCEPT !.importance = IF importance > 10 THEN 10 ELSE importance]

apply_importance(r, importance) ==
  LET clamped == CASE importance < 0 -> 0 [] importance > 10 -> 10 [] OTHER -> importance
  IN  IF clamped > r.importance THEN [r EXCEPT !.importance = clamped] ELSE r

Record(id, category, words, trigger) ==
  [id |-> id, category |-> category, words |-> words, memoir_trigger |-> trigger,
   recall_count |-> 0, last_recalled_at |-> today, importance |-> 0]

\* A record is made with a new id and put.  If sled fails it is gone, and nothing happened.
PutNew(t, category, words, trigger, importance) ==
  /\ Free(t) /\ Cardinality(made) < MaxMade
  /\ \E id \in Ids \ made :
       /\ made' = made \union {id}
       /\ LET r == apply_importance(Record(id, category, words, trigger), importance)
          IN  Changed(t, id, Inserted(r), Idle)
  /\ UNCHANGED <<up, disk, today, kept>>

\* MemoryRecord::new refuses memoirs.
NewMemory(t) ==
  \E c \in Kinds \ {"Memoir"}, words \in Words : PutNew(t, c, words, "none", 0)

NewMemoir(t) ==
  \E words \in Words, trigger \in Triggers : PutNew(t, "Memoir", words, trigger, 0)

log_intervention(t) == PutNew(t, "Arona", LogWords, "none", 8)

log_approval(t) == PutNew(t, "Arona", LogWords, "none", 0)

log_explicit_declaration(t) == PutNew(t, "Arona", LogWords, "none", 6)

log_grant_event(t) == PutNew(t, "System", LogWords, "none", 0)

(***************************************************************************)
(* Read, change, write back                                                *)
(***************************************************************************)

\* touch, saturating.
Touched(r) ==
  [r EXCEPT !.recall_count = IF @ < CountMax THEN @ + 1 ELSE @, !.last_recalled_at = today]

\* recall: get, which may not find the record, and touch.
Recall(t) ==
  /\ Free(t)
  /\ \E c \in Kinds : \E id \in DOMAIN trees[c] :
       calls' = [calls EXCEPT ![t] = [op |-> "recall", copy |-> Touched(trees[c][id]), stale |-> FALSE]]
  /\ UNCHANGED <<up, trees, disk, today, made, writes, kept>>

\* The judgement of the language model: get, apply_importance (external caller).
Judge(t) ==
  /\ Free(t)
  /\ \E c \in Kinds, importance \in Importances : \E id \in DOMAIN trees[c] :
       calls' = [calls EXCEPT ![t] =
         [op |-> "update", copy |-> apply_importance(trees[c][id], importance), stale |-> FALSE]]
  /\ UNCHANGED <<up, trees, disk, today, made, writes, kept>>

\* Their put, or its failure.
WriteBack(t) ==
  /\ calls[t].op \in {"recall", "update"}
  /\ \/ Changed(t, calls[t].copy.id, Inserted(calls[t].copy), Idle)
     \/ calls' = [calls EXCEPT ![t] = Idle] /\ UNCHANGED <<trees, writes>>
  /\ UNCHANGED <<up, disk, today, made, kept>>

\* For a memoir a debug build panics before it has changed anything.
Delete(t) ==
  /\ Free(t)
  /\ \E c \in Kinds : \E id \in DOMAIN trees[c] :
       /\ DebugAssertions => c # "Memoir"
       /\ Changed(t, id, [trees EXCEPT ![c] = [i \in DOMAIN @ \ {id} |-> @[i]]], Idle)
  /\ UNCHANGED <<up, disk, today, made, kept>>

(***************************************************************************)
(* search_all                                                              *)
(***************************************************************************)

\* One thread for each category starts at the beginning of its tree.
Search(t) ==
  /\ Free(t) /\ Cardinality({u \in Threads : calls[u].op \in {"search", "found"}}) < MaxSearches
  /\ \E query \in Queries :
       calls' = [calls EXCEPT ![t] =
         [op |-> "search", query |-> query, next |-> [c \in Kinds |-> 0],
          list |-> [c \in Kinds |-> <<>>], hits |-> [c \in Kinds |-> <<>>],
          left |-> Kinds, always |-> Matching(query, trees), ever |-> Matching(query, trees)]]
  /\ UNCHANGED <<up, trees, disk, today, made, writes, kept>>

Ahead(call, c) == {i \in DOMAIN trees[c] : i > call.next[c]}

\* list: the iterator's next entry, as it is now.
ListEntry(t) ==
  /\ calls[t].op = "search"
  /\ \E c \in calls[t].left :
       /\ Ahead(calls[t], c) # {}
       /\ LET id == CHOOSE i \in Ahead(calls[t], c) : \A j \in Ahead(calls[t], c) : i <= j
          IN  calls' = [calls EXCEPT ![t].next[c] = id,
                                     ![t].list[c] = Append(@, trees[c][id])]
  /\ UNCHANGED <<up, trees, disk, today, made, writes, kept>>

\* search_category: the list is complete and its records are scored.
ListEnds(t) ==
  /\ calls[t].op = "search"
  /\ \E c \in calls[t].left :
       /\ Ahead(calls[t], c) = {}
       /\ calls' = [calls EXCEPT
            ![t].left = @ \ {c}, ![t].list[c] = <<>>,
            ![t].hits[c] = [n \in DOMAIN calls[t].list[c] |->
                              Hit(calls[t].query, calls[t].list[c][n])]]
  /\ UNCHANGED <<up, trees, disk, today, made, writes, kept>>

\* A hit goes before the first that scores less.
Placed(hits, h) ==
  LET n == SelectInSeq(hits, LAMBDA g : g.combined_score < h.combined_score)
  IN  IF n = 0 THEN Append(hits, h) ELSE InsertAt(hits, n, h)

\* retain and sort_by, which is stable.
Sorted(hits) ==
  LET sorted[k \in 0..Len(hits)] ==
        IF k = 0 THEN <<>>
        ELSE IF hits[k].relevance > 0 THEN Placed(sorted[k - 1], hits[k]) ELSE sorted[k - 1]
  IN  sorted[Len(hits)]

\* truncate.
Cut(hits) == SubSeq(hits, 1, IF Len(hits) < limit THEN Len(hits) ELSE limit)

\* Mutant: the list is cut before it is sorted.
CutFirst(hits) == Sorted(Cut(SelectSeq(hits, LAMBDA h : h.relevance > 0)))

Ranked(hits) == Cut(Sorted(hits))

\* Mutant: memoirs are not searched.
JoinedButLast(hits) == FlattenSeq([n \in 1..(Len(Categories) - 1) |-> hits[Categories[n]]])

\* The hits of the categories in their order.
Joined(hits) == FlattenSeq([n \in DOMAIN Categories |-> hits[Categories[n]]])

\* All categories are back.
SearchEnds(t) ==
  /\ calls[t].op = "search" /\ calls[t].left = {}
  /\ LET all == Joined(calls[t].hits)
     IN  calls' = [calls EXCEPT ![t] =
           [op |-> "found", query |-> calls[t].query, all |-> all, hits |-> Ranked(all),
            always |-> calls[t].always, ever |-> calls[t].ever]]
  /\ UNCHANGED <<up, trees, disk, today, made, writes, kept>>

\* The hits go to the caller; or an error does, and then all of the search is lost.
SearchReturns(t) ==
  /\ calls[t].op \in {"found", "search"}
  /\ calls' = [calls EXCEPT ![t] = Idle]
  /\ UNCHANGED <<up, trees, disk, today, made, writes, kept>>

(***************************************************************************)
(* Flush, crash, open                                                      *)
(***************************************************************************)

\* Mutant: flush does not wait for the disk.
FlushesLater(t) ==
  /\ Free(t)
  /\ kept' = kept \union {[id |-> i, trigger |-> trees["Memoir"][i].memoir_trigger]
                            : i \in DOMAIN trees["Memoir"]}
  /\ UNCHANGED <<up, trees, disk, calls, today, made, writes>>

Flush(t) ==
  /\ Free(t)
  /\ disk' = trees
  /\ kept' = kept \union {[id |-> i, trigger |-> trees["Memoir"][i].memoir_trigger]
                            : i \in DOMAIN trees["Memoir"]}
  /\ UNCHANGED <<up, trees, calls, today, made, writes>>

\* The process ends or the power fails, with every call (external).  sled writes in the
\* background, in the order of the changes: what is left is what a flush saw or any later
\* trees.  Those in between are left by a crash at their own time.
Crash ==
  /\ up /\ up' = FALSE
  /\ disk' \in {disk, trees}
  /\ trees' = Empty /\ calls' = [t \in Threads |-> Idle]
  /\ UNCHANGED <<today, made, writes, kept>>

Open ==
  /\ ~up /\ up' = TRUE
  /\ trees' = disk
  /\ UNCHANGED <<disk, calls, today, made, writes, kept>>

\* The clock (external); a bound: no call lasts into the next day.
DayPasses ==
  /\ today < MaxDay /\ \A t \in Threads : calls[t] = Idle
  /\ today' = today + 1
  /\ UNCHANGED <<up, trees, disk, calls, made, writes, kept>>

Next ==
  \/ \E t \in Threads :
       \/ NewMemory(t) \/ NewMemoir(t)
       \/ log_intervention(t) \/ log_approval(t) \/ log_explicit_declaration(t) \/ log_grant_event(t)
       \/ Recall(t) \/ Judge(t) \/ WriteBack(t) \/ Delete(t)
       \/ Search(t) \/ ListEntry(t) \/ ListEnds(t) \/ SearchEnds(t) \/ SearchReturns(t)
       \/ Flush(t)
  \/ Crash \/ Open \/ DayPasses

Spec == Init /\ [][Next]_vars

(***************************************************************************)
(* Properties                                                              *)
(***************************************************************************)

\* A record after a step, which was there before or did not exist.
UndoesNothing(c, id) ==
  id \in DOMAIN trees[c]' =>
    IF id \in DOMAIN trees[c]
    THEN /\ trees'[c][id].recall_count >= trees[c][id].recall_count
         /\ trees'[c][id].importance >= trees[c][id].importance
         /\ trees'[c][id].words = trees[c][id].words
         /\ trees'[c][id].memoir_trigger = trees[c][id].memoir_trigger
    ELSE id \notin made

\* The step writes back a copy of the record that is stale.
WritesStale(id) ==
  \E t \in Threads :
    /\ calls[t].op \in {"recall", "update"} /\ calls[t].copy.id = id
    /\ calls[t].stale /\ calls'[t] = Idle

\* A memory is never weakened, altered or brought back from deletion, unless by a writing
\* back of a copy that somebody else has changed or deleted since it was read: recall.rs:57-60
\* promises that importance only rises, store.rs:78 that every use strengthens.
OnlyStaleCopiesUndo ==
  [][up /\ up' => \A c \in Kinds, id \in Ids : UndoesNothing(c, id) \/ WritesStale(id)]_vars

\* A memoir that was there when a flush returned is there whenever the store is open, with
\* the reason it was made a memoir for: through deletions, writing back of older copies and
\* any number of crashes (store.rs:102, schema.rs:143-144: memoirs are not deleted or forged).
FlushedMemoirsStand ==
  up => \A m \in kept :
    /\ m.id \in DOMAIN trees["Memoir"]
    /\ trees["Memoir"][m.id].memoir_trigger = m.trigger

\* A search finds, up to its limit, whatever was there and matched from its beginning to its
\* end, and nothing that was not there in between, although its threads read the trees while
\* others change them.
SearchFinds ==
  \A t \in {u \in Threads : calls[u].op = "found"} :
    LET found == {h.record.id : h \in Range(calls[t].hits)}
    IN  /\ found \subseteq calls[t].ever
        /\ calls[t].always \subseteq found \/ Len(calls[t].hits) = limit

\* No hit comes before or instead of one that matches as well, was used more recently, at
\* least as often, and is at least as important (search.rs:76, recall.rs:32-34), unless exp
\* gives both the same value, as it does when all is forgotten.
UsedFirst ==
  \A t \in {u \in Threads : calls[u].op = "found"} :
    LET hits == calls[t].hits
        Better(h, g) == /\ h.relevance = g.relevance /\ h.elapsed < g.elapsed
                        /\ Decay(h.elapsed, stability(h.record)) # Decay(g.elapsed, stability(g.record))
                        /\ h.record.recall_count >= g.record.recall_count
                        /\ h.record.importance >= g.record.importance
    IN  \A n \in DOMAIN hits :
          \A h \in Range(calls[t].all) \ {hits[m] : m \in 1..n} : ~Better(h, hits[n])
================================================================================
