--------------------------- MODULE MemoryStoreProofs ---------------------------
(***************************************************************************)
(* Theorems about the memory store: any number of threads, records, calls     *)
(* and crashes.                                                            *)
(***************************************************************************)
EXTENDS MemoryStore, FiniteSetTheorems, SequenceTheorems, WellFoundedInduction, TLAPS

USE DEF Idle

(***************************************************************************)
(* The inductive invariant                                                 *)
(***************************************************************************)

Reasons == Triggers \union {"none"}

Records ==
  [id : Ids, category : Kinds, words : Words \union {LogWords}, memoir_trigger : Reasons,
   recall_count : 0..CountMax, last_recalled_at : Nat, importance : 0..10]

\* Records are in the tree of their category under their ids, which have been given out.
TreesOK(ts) ==
  /\ DOMAIN ts = Kinds
  /\ \A c \in Kinds : \A i \in DOMAIN ts[c] :
       /\ i \in made /\ ts[c][i] \in Records
       /\ ts[c][i].id = i /\ ts[c][i].category = c

Writing(call) == call.op \in {"recall", "update"}

CallOK(call) ==
  /\ "op" \in DOMAIN call
  /\ call.op \in {"none", "recall", "update", "search", "found"}
  /\ call.op = "none" => call = Idle
  /\ Writing(call) => call \in [op : {"recall", "update"}, copy : Records, stale : BOOLEAN]

CallsOK == DOMAIN calls = Threads /\ \A t \in Threads : CallOK(calls[t])

CopiesMade == \A t \in Threads : Writing(calls[t]) => calls[t].copy.id \in made

ClosedIsIdle == ~up => \A t \in Threads : calls[t] = Idle

\* The same record, not weaker.
Strengthens(after, before) ==
  /\ after.recall_count >= before.recall_count
  /\ after.importance >= before.importance
  /\ after.words = before.words
  /\ after.memoir_trigger = before.memoir_trigger

\* A copy nobody has noted as stale is of the record as it still is.
FreshCopies ==
  \A t \in Threads :
    Writing(calls[t]) /\ ~calls[t].stale =>
      LET r == calls[t].copy
      IN  r.id \in DOMAIN trees[r.category] /\ Strengthens(r, trees[r.category][r.id])

\* Somewhere a memoir i has the reason x: in the trees, on the disk, in a copy, in what was
\* flushed once.
Told(i, x) ==
  \/ i \in DOMAIN trees["Memoir"] /\ trees["Memoir"][i].memoir_trigger = x
  \/ i \in DOMAIN disk["Memoir"] /\ disk["Memoir"][i].memoir_trigger = x
  \/ \E t \in Threads : /\ Writing(calls[t]) /\ calls[t].copy.category = "Memoir"
                        /\ calls[t].copy.id = i /\ calls[t].copy.memoir_trigger = x
  \/ \E m \in kept : m.id = i /\ m.trigger = x

\* Wherever it is, a memoir has the same reason.
OneReason == \A i \in made : \A x, y \in Reasons : Told(i, x) /\ Told(i, y) => x = y

KeptOK ==
  \A m \in kept :
    /\ m.id \in made /\ m.trigger \in Reasons
    /\ m.id \in DOMAIN disk["Memoir"]
    /\ up => m.id \in DOMAIN trees["Memoir"]

IInv ==
  /\ up \in BOOLEAN /\ today \in Nat /\ made \subseteq Ids
  /\ TreesOK(trees) /\ TreesOK(disk)
  /\ CallsOK /\ CopiesMade /\ ClosedIsIdle /\ FreshCopies
  /\ OneReason /\ KeptOK

\* What a memoir was made for can be told from one place only.
LEMMA MemoirsStand == IInv => FlushedMemoirsStand
<1> SUFFICES ASSUME IInv, up, NEW m \in kept
             PROVE  /\ m.id \in DOMAIN trees["Memoir"]
                    /\ trees["Memoir"][m.id].memoir_trigger = m.trigger
  BY DEF FlushedMemoirsStand
<1>1. m.id \in DOMAIN trees["Memoir"] /\ m.id \in made /\ m.trigger \in Reasons
  BY DEF IInv, KeptOK
<1>2. trees["Memoir"][m.id].memoir_trigger \in Reasons
  BY <1>1, StoreAssumption DEF IInv, TreesOK, Records
<1>3. Told(m.id, m.trigger) /\ Told(m.id, trees["Memoir"][m.id].memoir_trigger)
  BY <1>1 DEF Told
<1> QED
  BY <1>1, <1>2, <1>3 DEF IInv, OneReason

\* The first state has the invariant.
LEMMA InitIInv == Init => IInv
<1> SUFFICES ASSUME Init PROVE IInv
  OBVIOUS
<1>1. TreesOK(trees) /\ TreesOK(disk)
  BY DEF Init, TreesOK, Empty
<1>2. CallsOK /\ CopiesMade /\ ClosedIsIdle /\ FreshCopies
  BY DEF Init, CallsOK, CallOK, CopiesMade, ClosedIsIdle, FreshCopies, Writing
<1>3. OneReason /\ KeptOK
  BY DEF Init, OneReason, KeptOK
<1> QED
  BY <1>1, <1>2, <1>3 DEF Init, IInv

(***************************************************************************)
(* Steps that change only the calls                                        *)
(***************************************************************************)

\* Thread t goes on with a call that has nothing to write.
LEMMA QuietCall ==
  ASSUME IInv, up, NEW t \in Threads,
         UNCHANGED <<up, trees, disk, today, made, kept>>,
         DOMAIN calls' = Threads, \A u \in Threads \ {t} : calls'[u] = calls[u],
         CallOK(calls'[t]), ~Writing(calls'[t])
  PROVE  IInv'
<1>1. (up \in BOOLEAN /\ today \in Nat /\ made \subseteq Ids /\ TreesOK(trees) /\ TreesOK(disk))'
  BY DEF IInv, TreesOK
<1>2. CallsOK'
  BY DEF IInv, CallsOK
<1>3. CopiesMade' /\ ClosedIsIdle' /\ FreshCopies'
  BY DEF IInv, CopiesMade, ClosedIsIdle, FreshCopies, Strengthens
<1>4. \A i, x : Told(i, x)' => Told(i, x)
  BY DEF Told
<1>5. OneReason' /\ KeptOK'
  BY <1>4 DEF IInv, OneReason, KeptOK
<1> QED
  BY <1>1, <1>2, <1>3, <1>5 DEF IInv

\* Only an open store is called.
LEMMA CallUp == ASSUME IInv, NEW t \in Threads, calls[t].op # "none" PROVE up
BY DEF IInv, ClosedIsIdle

\* A search, from its beginning to its return, keeps the invariant.
LEMMA SearchSteps ==
  ASSUME IInv, NEW t \in Threads,
         Search(t) \/ ListEntry(t) \/ ListEnds(t) \/ SearchEnds(t) \/ SearchReturns(t)
  PROVE  IInv'
<1> USE DEF Writing
<1>0. CallsOK
  BY DEF IInv
<1>1. CASE Search(t)
  <2>1. up /\ CallOK(calls'[t]) /\ ~Writing(calls'[t])
    BY <1>0, <1>1 DEF Search, Free, CallsOK, CallOK
  <2> QED
    BY <2>1, <1>0, <1>1, QuietCall DEF Search, CallsOK
<1>2. CASE ListEntry(t)
  <2>1. PICK c, id :
          calls' = [calls EXCEPT ![t].next[c] = id, ![t].list[c] = Append(@, trees[c][id])]
    BY <1>2, Zenon DEF ListEntry
  <2>2. /\ DOMAIN calls' = DOMAIN calls
        /\ calls'[t].op = calls[t].op /\ "op" \in DOMAIN calls'[t]
        /\ \A u \in DOMAIN calls \ {t} : calls'[u] = calls[u]
    BY <1>0, <2>1, Zenon DEF CallsOK, CallOK
  <2> QED
    BY <2>2, <1>0, <1>2, QuietCall, CallUp DEF ListEntry, CallsOK, CallOK
<1>3. CASE ListEnds(t)
  <2>1. PICK c, hits :
          calls' = [calls EXCEPT ![t].left = @ \ {c}, ![t].list[c] = <<>>, ![t].hits[c] = hits]
    BY <1>3, Zenon DEF ListEnds
  <2>2. /\ DOMAIN calls' = DOMAIN calls
        /\ calls'[t].op = calls[t].op /\ "op" \in DOMAIN calls'[t]
        /\ \A u \in DOMAIN calls \ {t} : calls'[u] = calls[u]
    BY <1>0, <2>1, Zenon DEF CallsOK, CallOK
  <2> QED
    BY <2>2, <1>0, <1>3, QuietCall, CallUp DEF ListEnds, CallsOK, CallOK
<1>4. CASE SearchEnds(t)
  <2>1. CallOK(calls'[t]) /\ ~Writing(calls'[t])
    BY <1>0, <1>4 DEF SearchEnds, CallsOK, CallOK
  <2> QED
    BY <2>1, <1>0, <1>4, QuietCall, CallUp DEF SearchEnds, CallsOK
<1>5. CASE SearchReturns(t)
  <2>1. CallOK(calls'[t]) /\ ~Writing(calls'[t])
    BY <1>0, <1>5 DEF SearchReturns, CallsOK, CallOK
  <2> QED
    BY <2>1, <1>0, <1>5, QuietCall, CallUp DEF SearchReturns, CallsOK
<1> QED
  BY <1>1, <1>2, <1>3, <1>4, <1>5

(***************************************************************************)
(* Reading a record to write it back                                       *)
(***************************************************************************)

\* So does taking a copy that is the record or a strengthened one.
LEMMA CopyTaken ==
  ASSUME IInv, up, NEW t \in Threads, NEW c \in Kinds, NEW id \in DOMAIN trees[c], NEW op,
         op \in {"recall", "update"}, NEW r \in Records,
         Strengthens(r, trees[c][id]), r.id = id, r.category = c,
         UNCHANGED <<up, trees, disk, today, made, kept>>,
         calls' = [calls EXCEPT ![t] = [op |-> op, copy |-> r, stale |-> FALSE]]
  PROVE  IInv'
<1>1. (up \in BOOLEAN /\ today \in Nat /\ made \subseteq Ids /\ TreesOK(trees) /\ TreesOK(disk))'
  BY DEF IInv, TreesOK
<1>2. CallsOK'
  BY DEF IInv, CallsOK, CallOK, Writing
<1>3. CopiesMade'
  BY DEF IInv, CallsOK, CopiesMade, TreesOK, Writing
<1>4. ClosedIsIdle' /\ KeptOK'
  BY DEF IInv, ClosedIsIdle, KeptOK
<1>5. FreshCopies'
  BY DEF IInv, CallsOK, FreshCopies, Strengthens, Writing
<1>6. \A i, x : Told(i, x)' => Told(i, x)
  <2> SUFFICES ASSUME NEW i, NEW x, Told(i, x)' PROVE Told(i, x)
    OBVIOUS
  <2>1. ASSUME NEW u \in Threads, Writing(calls'[u]), calls'[u].copy.category = "Memoir",
               calls'[u].copy.id = i, calls'[u].copy.memoir_trigger = x
        PROVE  Told(i, x)
    <3>1. CASE u = t
      BY <2>1, <3>1 DEF IInv, CallsOK, Strengthens, Told
    <3>2. CASE u # t
      BY <2>1, <3>2 DEF IInv, CallsOK, Told
    <3> QED
      BY <3>1, <3>2
  <2> QED
    BY <2>1 DEF Told
<1>7. OneReason'
  BY <1>6 DEF IInv, OneReason
<1> QED
  BY <1>1, <1>2, <1>3, <1>4, <1>5, <1>7 DEF IInv

\* touch counts a use more and changes nothing else that a copy must keep.
LEMMA TouchedStrengthens ==
  ASSUME NEW r \in Records, today \in Nat
  PROVE  /\ Touched(r) \in Records /\ Strengthens(Touched(r), r)
         /\ Touched(r).id = r.id /\ Touched(r).category = r.category
<1> DEFINE count == IF r.recall_count < CountMax THEN r.recall_count + 1 ELSE r.recall_count
<1>1. r.recall_count \in 0..CountMax
  BY DEF Records
<1>2. count \in 0..CountMax /\ count >= r.recall_count
  BY <1>1, StoreAssumption
<1>3. Touched(r) = [r EXCEPT !.recall_count = count, !.last_recalled_at = today]
  BY DEF Touched
<1> HIDE DEF count
<1> DEFINE s == [r EXCEPT !.recall_count = count]
<1>4. s \in Records /\ Strengthens(s, r) /\ s.id = r.id /\ s.category = r.category
  BY <1>2 DEF Records, Strengthens
<1>5. Touched(r) = [s EXCEPT !.last_recalled_at = today]
  BY <1>3 DEF Records
<1> HIDE DEF s
<1> QED
  BY <1>4, <1>5 DEF Records, Strengthens

\* apply_importance raises the importance or leaves it.
LEMMA ImportanceOnlyRises ==
  ASSUME NEW r \in Records, NEW importance \in Int
  PROVE  LET s == apply_importance(r, importance)
         IN  /\ s \in Records /\ Strengthens(s, r)
             /\ s.id = r.id /\ s.category = r.category
BY DEF apply_importance, Records, Strengthens

\* recall and the judgement take such copies.
LEMMA Reads == ASSUME IInv, NEW t \in Threads, Recall(t) \/ Judge(t) PROVE IInv'
<1>1. CASE Recall(t)
  <2>1. PICK c \in Kinds : \E id \in DOMAIN trees[c] :
          calls' = [calls EXCEPT ![t] =
                      [op |-> "recall", copy |-> Touched(trees[c][id]), stale |-> FALSE]]
    BY <1>1 DEF Recall
  <2> PICK id \in DOMAIN trees[c] :
         calls' = [calls EXCEPT ![t] =
                     [op |-> "recall", copy |-> Touched(trees[c][id]), stale |-> FALSE]]
    BY <2>1
  <2>2. trees[c][id] \in Records /\ trees[c][id].id = id /\ trees[c][id].category = c
    BY DEF IInv, TreesOK
  <2>3. /\ Touched(trees[c][id]) \in Records /\ Strengthens(Touched(trees[c][id]), trees[c][id])
        /\ Touched(trees[c][id]).id = id /\ Touched(trees[c][id]).category = c
    BY <2>2, TouchedStrengthens DEF IInv
  <2> QED
    BY <1>1, <2>1, <2>3, CopyTaken DEF Recall, Free
<1>2. CASE Judge(t)
  <2>1. PICK c \in Kinds, importance \in Importances : \E id \in DOMAIN trees[c] :
          calls' = [calls EXCEPT ![t] =
                      [op |-> "update", copy |-> apply_importance(trees[c][id], importance),
                       stale |-> FALSE]]
    BY <1>2 DEF Judge
  <2> PICK id \in DOMAIN trees[c] :
         calls' = [calls EXCEPT ![t] =
                     [op |-> "update", copy |-> apply_importance(trees[c][id], importance),
                      stale |-> FALSE]]
    BY <2>1
  <2>2. trees[c][id] \in Records /\ trees[c][id].id = id /\ trees[c][id].category = c
    BY DEF IInv, TreesOK
  <2> DEFINE r == apply_importance(trees[c][id], importance)
  <2>3. r \in Records /\ Strengthens(r, trees[c][id]) /\ r.id = id /\ r.category = c
    BY <2>2, StoreAssumption, ImportanceOnlyRises
  <2> HIDE DEF r
  <2> QED
    BY <1>2, <2>1, <2>3, CopyTaken DEF Judge, Free, r
<1> QED
  BY <1>1, <1>2

(***************************************************************************)
(* Changing a tree                                                         *)
(***************************************************************************)

\* What the other threads' calls keep when record id changes.
LEMMA OthersNote ==
  ASSUME CallsOK, NEW t \in Threads, NEW id, NEW ts, Changed(t, id, ts, Idle)
  PROVE  /\ trees' = ts /\ CallsOK' /\ calls'[t] = Idle
         /\ \A u \in Threads :
              Writing(calls'[u]) =>
                /\ u # t /\ Writing(calls[u]) /\ calls'[u].copy = calls[u].copy
                /\ ~calls'[u].stale => ~calls[u].stale /\ calls[u].copy.id # id
<1>1. trees' = ts /\ calls' = [u \in Threads |-> IF u = t THEN Idle ELSE Noted(calls[u], id, ts)]
  BY DEF Changed
<1>2. ASSUME NEW u \in Threads, u # t
      PROVE  /\ CallOK(calls'[u])
             /\ Writing(calls'[u]) =>
                  /\ Writing(calls[u]) /\ calls'[u].copy = calls[u].copy
                  /\ ~calls'[u].stale => ~calls[u].stale /\ calls[u].copy.id # id
  <2>1. calls'[u] = Noted(calls[u], id, ts) /\ CallOK(calls[u])
    BY <1>1, <1>2 DEF CallsOK
  <2>2. CASE calls[u].op = "search"
    <3>1. Noted(calls[u], id, ts) =
            [calls[u] EXCEPT !.always = @ \intersect Matching(calls[u].query, ts),
                             !.ever = @ \union Matching(calls[u].query, ts)]
      BY <2>2, Zenon DEF Noted
    <3>2. calls'[u].op = "search" /\ "op" \in DOMAIN calls'[u]
      BY <2>1, <2>2, <3>1, Zenon DEF CallOK
    <3> QED
      BY <3>2 DEF CallOK, Writing
  <2>3. CASE calls[u].op # "search"
    BY <2>1, <2>3 DEF Noted, CallOK, Writing
  <2> QED
    BY <2>2, <2>3
<1>3. CallOK(Idle) /\ ~Writing(Idle)
  BY DEF CallOK, Writing
<1> QED
  BY <1>1, <1>2, <1>3 DEF CallsOK

\* What a change of one record must keep for the invariant to stand.
LEMMA TreeChange ==
  ASSUME IInv, up, NEW t \in Threads, NEW id, Changed(t, id, trees', Idle),
         UNCHANGED <<up, disk, today, kept>>,
         made \subseteq made', made' \subseteq Ids, TreesOK(trees)',
         \A c \in Kinds : \A j \in DOMAIN trees[c] \ {id} :
           j \in DOMAIN trees'[c] /\ trees'[c][j] = trees[c][j],
         DOMAIN trees["Memoir"] \subseteq DOMAIN trees'["Memoir"],
         \A i \in DOMAIN trees'["Memoir"] :
           i \in made => Told(i, trees'["Memoir"][i].memoir_trigger)
  PROVE  IInv'
<1>1. /\ CallsOK' /\ calls'[t] = Idle
      /\ \A u \in Threads :
           Writing(calls'[u]) =>
             /\ u # t /\ Writing(calls[u]) /\ calls'[u].copy = calls[u].copy
             /\ ~calls'[u].stale => ~calls[u].stale /\ calls[u].copy.id # id
  BY OthersNote DEF IInv
<1>2. TreesOK(disk)'
  BY DEF IInv, TreesOK
<1>3. CopiesMade' /\ ClosedIsIdle' /\ KeptOK'
  BY <1>1 DEF IInv, CopiesMade, ClosedIsIdle, KeptOK
<1>4. FreshCopies'
  <2> SUFFICES ASSUME NEW u \in Threads, Writing(calls'[u]), ~calls'[u].stale
               PROVE  LET r == calls'[u].copy
                      IN  r.id \in DOMAIN trees'[r.category] /\ Strengthens(r, trees'[r.category][r.id])
    BY DEF FreshCopies, Strengthens
  <2> DEFINE r == calls[u].copy
  <2>1. /\ r = calls'[u].copy /\ r.id # id /\ r.category \in Kinds
        /\ r.id \in DOMAIN trees[r.category] /\ Strengthens(r, trees[r.category][r.id])
    BY <1>1 DEF IInv, CallsOK, CallOK, FreshCopies, Records
  <2>2. r.id \in DOMAIN trees'[r.category] /\ trees'[r.category][r.id] = trees[r.category][r.id]
    BY <2>1
  <2> QED
    BY <2>1, <2>2
<1>5. OneReason'
  <2> SUFFICES ASSUME NEW i \in made', NEW x \in Reasons, NEW y \in Reasons,
                      Told(i, x)', Told(i, y)'
               PROVE  x = y
    BY DEF OneReason
  <2>1. CASE i \in made
    <3>1. \A z : Told(i, z)' => Told(i, z)
      BY <1>1, <2>1 DEF Told
    <3> QED
      BY <2>1, <3>1 DEF IInv, OneReason
  <2>2. CASE i \notin made
    <3>1. /\ i \notin DOMAIN disk["Memoir"] /\ \A m \in kept : m.id # i
          /\ \A u \in Threads : Writing(calls[u]) => calls[u].copy.id # i
      BY <2>2, StoreAssumption DEF IInv, TreesOK, KeptOK, CopiesMade
    <3>2. \A z : Told(i, z)' => trees'["Memoir"][i].memoir_trigger = z
      BY <1>1, <3>1 DEF Told
    <3> QED
      BY <3>2
  <2> QED
    BY <2>1, <2>2
<1> QED
  BY <1>1, <1>2, <1>3, <1>4, <1>5 DEF IInv

\* The tree of a record's category with the record in it.
LEMMA InsertedTrees ==
  ASSUME TreesOK(trees), NEW r \in Records
  PROVE  LET ts == Inserted(r)
         IN  /\ DOMAIN ts = Kinds
             /\ \A c \in Kinds \ {r.category} : ts[c] = trees[c]
             /\ DOMAIN ts[r.category] = DOMAIN trees[r.category] \union {r.id}
             /\ ts[r.category][r.id] = r
             /\ \A j \in DOMAIN trees[r.category] \ {r.id} : ts[r.category][j] = trees[r.category][j]
<1>1. r.category \in DOMAIN trees
  BY DEF TreesOK, Records
<1> QED
  BY <1>1 DEF Inserted, TreesOK

\* A record with a new id disturbs nothing.
LEMMA Creates ==
  ASSUME IInv, NEW t \in Threads, NEW c \in Kinds, NEW words \in Words \union {LogWords},
         NEW trigger \in Reasons, NEW importance \in Int,
         PutNew(t, c, words, trigger, importance)
  PROVE  IInv'
<1>1. PICK id \in Ids \ made :
        /\ made' = made \union {id}
        /\ Changed(t, id, Inserted(apply_importance(Record(id, c, words, trigger), importance)), Idle)
  BY DEF PutNew
<1> DEFINE r == apply_importance(Record(id, c, words, trigger), importance)
<1>2. Record(id, c, words, trigger) \in Records
  BY StoreAssumption DEF IInv, Record, Records
<1>3. r \in Records /\ r.id = id /\ r.category = c
  BY <1>2, ImportanceOnlyRises DEF Record
<1> HIDE DEF r
<1>4. trees' = Inserted(r) /\ Changed(t, id, trees', Idle)
  BY <1>1 DEF Changed, r
<1>5. TreesOK(trees)'
  BY <1>1, <1>3, <1>4, InsertedTrees DEF IInv, TreesOK
<1>6. up /\ UNCHANGED <<up, disk, today, kept>> /\ made \subseteq made' /\ made' \subseteq Ids
  BY <1>1 DEF PutNew, Free, IInv
<1>7. \A k \in Kinds : \A j \in DOMAIN trees[k] \ {id} :
        j \in DOMAIN trees'[k] /\ trees'[k][j] = trees[k][j]
  BY <1>3, <1>4, InsertedTrees DEF IInv
<1>8. \A k \in Kinds : DOMAIN trees[k] \subseteq DOMAIN trees'[k]
  BY <1>3, <1>4, InsertedTrees DEF IInv
<1>9. \A i \in DOMAIN trees'["Memoir"] :
        i \in made => Told(i, trees'["Memoir"][i].memoir_trigger)
  BY <1>3, <1>4, InsertedTrees, StoreAssumption DEF IInv, Told
<1> QED
  BY <1>4, <1>5, <1>6, <1>7, <1>8, <1>9, TreeChange, StoreAssumption

\* All that make records: the two constructors and the audit logs.
LEMMA Writes ==
  ASSUME IInv, NEW t \in Threads,
         NewMemory(t) \/ NewMemoir(t) \/ log_intervention(t) \/ log_approval(t)
           \/ log_explicit_declaration(t) \/ log_grant_event(t)
  PROVE  IInv'
<1>1. CASE NewMemory(t)
  BY <1>1, Creates DEF NewMemory, Reasons
<1>2. CASE NewMemoir(t)
  BY <1>2, Creates, StoreAssumption DEF NewMemoir, Reasons
<1>3. CASE \/ log_intervention(t) \/ log_approval(t)
          \/ log_explicit_declaration(t) \/ log_grant_event(t)
  <2>1. {"Arona", "System"} \subseteq Kinds /\ "none" \in Reasons
    BY StoreAssumption DEF Reasons
  <2> QED
    BY <1>3, <2>1, Creates
       DEF log_intervention, log_approval, log_explicit_declaration, log_grant_event
<1> QED
  BY <1>1, <1>2, <1>3

\* A copy written back has the reason its memoir always had.
LEMMA WritesBack == ASSUME IInv, NEW t \in Threads, WriteBack(t) PROVE IInv'
<1> DEFINE r == calls[t].copy
<1>1. Writing(calls[t]) /\ up /\ r \in Records /\ r.id \in made
  BY CallUp DEF WriteBack, Writing, IInv, CallsOK, CallOK, CopiesMade
<1>2. CASE Changed(t, r.id, Inserted(r), Idle)
  <2> HIDE DEF r
  <2>1. trees' = Inserted(r) /\ Changed(t, r.id, trees', Idle)
    BY <1>2 DEF Changed
  <2>2. UNCHANGED <<up, disk, today, kept, made>>
    BY DEF WriteBack
  <2>3. TreesOK(trees)'
    BY <1>1, <2>1, <2>2, InsertedTrees DEF IInv, TreesOK
  <2>4. \A k \in Kinds : /\ DOMAIN trees[k] \subseteq DOMAIN trees'[k]
                         /\ \A j \in DOMAIN trees[k] \ {r.id} : trees'[k][j] = trees[k][j]
    BY <1>1, <2>1, InsertedTrees DEF IInv
  <2>5. ASSUME NEW i \in DOMAIN trees'["Memoir"]
        PROVE  Told(i, trees'["Memoir"][i].memoir_trigger)
    <3>1. CASE r.category = "Memoir" /\ i = r.id
      BY <1>1, <2>1, <3>1, InsertedTrees DEF IInv, Told, r
    <3>2. CASE ~(r.category = "Memoir" /\ i = r.id)
      BY <1>1, <2>1, <3>2, InsertedTrees, StoreAssumption DEF IInv, Told
    <3> QED
      BY <3>1, <3>2
  <2> QED
    BY <1>1, <2>1, <2>2, <2>3, <2>4, <2>5, TreeChange, StoreAssumption DEF IInv
<1>3. CASE calls' = [calls EXCEPT ![t] = Idle] /\ UNCHANGED <<trees, writes>>
  <2>1. CallOK(Idle) /\ ~Writing(Idle)
    BY DEF CallOK, Writing
  <2> QED
    BY <1>1, <1>3, <2>1, QuietCall DEF WriteBack, IInv, CallsOK
<1> QED
  BY <1>2, <1>3 DEF WriteBack

\* The delete of a debug build leaves the memoirs.
LEMMA Deletes == ASSUME IInv, DebugAssertions, NEW t \in Threads, Delete(t) PROVE IInv'
<1>1. PICK c \in Kinds : \E id \in DOMAIN trees[c] :
        /\ c # "Memoir"
        /\ Changed(t, id, [trees EXCEPT ![c] = [i \in DOMAIN @ \ {id} |-> @[i]]], Idle)
  BY DEF Delete
<1>2. PICK id \in DOMAIN trees[c] :
        Changed(t, id, [trees EXCEPT ![c] = [i \in DOMAIN @ \ {id} |-> @[i]]], Idle)
  BY <1>1
<1>3. /\ trees' = [trees EXCEPT ![c] = [i \in DOMAIN trees[c] \ {id} |-> trees[c][i]]]
      /\ Changed(t, id, trees', Idle)
  BY <1>2 DEF Changed
<1>4. up /\ UNCHANGED <<up, disk, today, kept, made>>
  BY DEF Delete, Free
<1>5. TreesOK(trees)'
  BY <1>3, <1>4 DEF IInv, TreesOK
<1>6. \A k \in Kinds : \A j \in DOMAIN trees[k] \ {id} :
        j \in DOMAIN trees'[k] /\ trees'[k][j] = trees[k][j]
  BY <1>3 DEF IInv, TreesOK
<1>7. trees'["Memoir"] = trees["Memoir"]
  BY <1>1, <1>3, StoreAssumption DEF IInv, TreesOK
<1>8. \A i \in DOMAIN trees'["Memoir"] : Told(i, trees'["Memoir"][i].memoir_trigger)
  BY <1>7 DEF Told
<1>9. /\ made \subseteq made' /\ made' \subseteq Ids
      /\ DOMAIN trees["Memoir"] \subseteq DOMAIN trees'["Memoir"]
  BY <1>4, <1>7 DEF IInv
<1> QED
  BY <1>3, <1>4, <1>5, <1>6, <1>8, <1>9, TreeChange

(***************************************************************************)
(* Flush, crash, open, the clock                                           *)
(***************************************************************************)

\* What flush writes to the disk it finds in the trees.
LEMMA Flushes == ASSUME IInv, NEW t \in Threads, Flush(t) PROVE IInv'
<1>1. up /\ disk' = trees /\ UNCHANGED <<up, trees, calls, today, made>>
  BY DEF Flush, Free
<1>2. TreesOK(trees)' /\ TreesOK(disk)' /\ CallsOK' /\ CopiesMade' /\ ClosedIsIdle' /\ FreshCopies'
  <2>1. TreesOK(trees) /\ CallsOK /\ CopiesMade /\ ClosedIsIdle /\ FreshCopies
    BY DEF IInv
  <2>2. TreesOK(trees)' /\ TreesOK(disk)'
    BY <1>1, <2>1 DEF TreesOK
  <2>3. CallsOK' /\ CopiesMade'
    BY <1>1, <2>1 DEF CallsOK, CopiesMade
  <2>4. ClosedIsIdle' /\ FreshCopies'
    BY <1>1, <2>1 DEF ClosedIsIdle, FreshCopies
  <2> QED
    BY <2>2, <2>3, <2>4
<1>3. \A m \in kept' : \/ m \in kept
                      \/ /\ m.id \in DOMAIN trees["Memoir"]
                         /\ m.trigger = trees["Memoir"][m.id].memoir_trigger
  BY DEF Flush
<1>4. KeptOK'
  BY <1>1, <1>3, StoreAssumption DEF IInv, KeptOK, TreesOK, Records
<1>5. \A i, x : Told(i, x)' => Told(i, x)
  BY <1>1, <1>3 DEF Told
<1>6. OneReason'
  BY <1>1, <1>5 DEF IInv, OneReason
<1> QED
  BY <1>1, <1>2, <1>4, <1>6 DEF IInv

\* A crash leaves one of two trees that both agree with what was flushed.
LEMMA Crashes == ASSUME IInv, Crash PROVE IInv'
<1>1. /\ ~up' /\ (disk' = disk \/ disk' = trees) /\ trees' = Empty
      /\ calls' = [t \in Threads |-> Idle] /\ UNCHANGED <<today, made, kept>>
  BY DEF Crash
<1>2. TreesOK(trees)' /\ TreesOK(disk)'
  BY <1>1 DEF IInv, TreesOK, Empty
<1>3. CallsOK' /\ CopiesMade' /\ ClosedIsIdle' /\ FreshCopies'
  BY <1>1 DEF CallsOK, CallOK, CopiesMade, ClosedIsIdle, FreshCopies, Writing
<1>4. KeptOK'
  BY <1>1 DEF IInv, KeptOK, Crash
<1>5. \A i, x : Told(i, x)' => Told(i, x)
  BY <1>1, StoreAssumption DEF Told, Empty, Writing
<1>6. OneReason'
  BY <1>1, <1>5 DEF IInv, OneReason
<1> QED
  BY <1>1, <1>2, <1>3, <1>4, <1>6 DEF IInv, Crash

\* open takes the trees from the disk.
LEMMA Opens == ASSUME IInv, Open PROVE IInv'
<1>1. ~up /\ up' /\ trees' = disk /\ UNCHANGED <<disk, calls, today, made, kept>>
  BY DEF Open
<1>2. \A t \in Threads : calls[t] = Idle
  BY <1>1 DEF IInv, ClosedIsIdle
<1>3. TreesOK(trees)' /\ TreesOK(disk)' /\ CallsOK' /\ KeptOK'
  BY <1>1 DEF IInv, TreesOK, CallsOK, KeptOK
<1>4. CopiesMade' /\ ClosedIsIdle' /\ FreshCopies'
  BY <1>1, <1>2 DEF CopiesMade, ClosedIsIdle, FreshCopies, Writing
<1>5. \A i, x : Told(i, x)' => Told(i, x)
  BY <1>1 DEF Told
<1>6. OneReason'
  BY <1>1, <1>5 DEF IInv, OneReason
<1> QED
  BY <1>1, <1>3, <1>4, <1>6 DEF IInv, Open

\* A step that changes none of this, but perhaps the clock.
LEMMA Unchanging ==
  ASSUME IInv, UNCHANGED <<up, trees, disk, calls, made, kept>>, today' \in Nat
  PROVE  IInv'
<1>1. TreesOK(trees)' /\ TreesOK(disk)' /\ CallsOK' /\ KeptOK'
  BY DEF IInv, TreesOK, CallsOK, KeptOK
<1>2. CopiesMade' /\ ClosedIsIdle' /\ FreshCopies'
  BY DEF IInv, CopiesMade, ClosedIsIdle, FreshCopies, Strengthens
<1>3. \A i, x : Told(i, x)' => Told(i, x)
  BY DEF Told
<1>4. OneReason'
  BY <1>3 DEF IInv, OneReason
<1> QED
  BY <1>1, <1>2, <1>4 DEF IInv

\* Every step of a debug build keeps the invariant.
LEMMA StepIInv == ASSUME DebugAssertions, IInv, [Next]_vars PROVE IInv'
<1>1. CASE \E t \in Threads :
             \/ NewMemory(t) \/ NewMemoir(t) \/ log_intervention(t) \/ log_approval(t)
             \/ log_explicit_declaration(t) \/ log_grant_event(t)
  BY <1>1, Writes
<1>2. CASE \E t \in Threads : Recall(t) \/ Judge(t) \/ WriteBack(t) \/ Delete(t) \/ Flush(t)
  BY <1>2, Reads, WritesBack, Deletes, Flushes
<1>3. CASE \E t \in Threads :
             Search(t) \/ ListEntry(t) \/ ListEnds(t) \/ SearchEnds(t) \/ SearchReturns(t)
  BY <1>3, SearchSteps
<1>4. CASE Crash \/ Open
  BY <1>4, Crashes, Opens
<1>5. CASE DayPasses
  BY <1>5, Unchanging DEF DayPasses, IInv
<1>6. CASE UNCHANGED vars
  BY <1>6, Unchanging DEF vars, IInv
<1> QED
  BY <1>1, <1>2, <1>3, <1>4, <1>5, <1>6 DEF Next

(***************************************************************************)
(* What a step undoes                                                      *)
(***************************************************************************)

\* Nothing is undone where a record stays as it is or goes.
LEMMA SameUndoesNothing ==
  ASSUME TreesOK(trees), NEW c \in Kinds, NEW id,
         id \in DOMAIN trees'[c] => id \in DOMAIN trees[c] /\ trees'[c][id] = trees[c][id]
  PROVE  UndoesNothing(c, id)
BY DEF TreesOK, Records, UndoesNothing

\* Nothing is undone by a new record.
LEMMA CreatesUndoNothing ==
  ASSUME IInv, NEW t \in Threads, NEW k \in Kinds, NEW words \in Words \union {LogWords},
         NEW trigger \in Reasons, NEW importance \in Int,
         PutNew(t, k, words, trigger, importance)
  PROVE  \A c \in Kinds, i \in Ids : UndoesNothing(c, i)
<1>1. PICK id \in Ids \ made :
        Changed(t, id, Inserted(apply_importance(Record(id, k, words, trigger), importance)), Idle)
  BY DEF PutNew
<1> DEFINE r == apply_importance(Record(id, k, words, trigger), importance)
<1>2. Record(id, k, words, trigger) \in Records
  BY StoreAssumption DEF IInv, Record, Records
<1>3. r \in Records /\ r.id = id /\ r.category = k
  BY <1>2, ImportanceOnlyRises DEF Record
<1> HIDE DEF r
<1>4. trees' = Inserted(r) /\ TreesOK(trees)
  BY <1>1 DEF Changed, r, IInv
<1> SUFFICES ASSUME NEW c \in Kinds, NEW i \in Ids PROVE UndoesNothing(c, i)
  OBVIOUS
<1>5. CASE i = id
  BY <1>3, <1>4, <1>5 DEF TreesOK, UndoesNothing
<1>6. CASE i # id
  <2>1. i \in DOMAIN trees'[c] => i \in DOMAIN trees[c] /\ trees'[c][i] = trees[c][i]
    BY <1>3, <1>4, <1>6, InsertedTrees
  <2> QED
    BY <1>4, <2>1, SameUndoesNothing
<1> QED
  BY <1>5, <1>6

\* Nothing is undone by writing back a copy that is not stale.
LEMMA WriteBackUndoes ==
  ASSUME IInv, NEW t \in Threads, WriteBack(t), NEW c \in Kinds, NEW i \in Ids
  PROVE  UndoesNothing(c, i) \/ WritesStale(i)
<1> DEFINE r == calls[t].copy
<1>1. Writing(calls[t]) /\ r \in Records /\ CallOK(calls[t]) /\ TreesOK(trees)
  BY DEF WriteBack, Writing, IInv, CallsOK, CallOK
<1>2. CASE Changed(t, r.id, Inserted(r), Idle)
  <2>1. trees' = Inserted(r) /\ calls'[t] = Idle
    BY <1>2 DEF Changed
  <2>2. CASE c = r.category /\ i = r.id /\ ~calls[t].stale
    <3>1. i \in DOMAIN trees[c] /\ Strengthens(r, trees[c][i])
      BY <1>1, <2>2 DEF IInv, FreshCopies
    <3>2. trees'[c][i] = r
      BY <1>1, <2>1, <2>2, InsertedTrees
    <3> QED
      BY <3>1, <3>2 DEF Strengthens, UndoesNothing
  <2>3. CASE i = r.id /\ calls[t].stale
    BY <1>1, <2>1, <2>3 DEF WritesStale, Writing
  <2>4. CASE ~(c = r.category /\ i = r.id)
    <3>1. i \in DOMAIN trees'[c] => i \in DOMAIN trees[c] /\ trees'[c][i] = trees[c][i]
      BY <1>1, <2>1, <2>4, InsertedTrees
    <3> QED
      BY <1>1, <3>1, SameUndoesNothing
  <2> QED
    BY <1>1, <2>2, <2>3, <2>4 DEF CallOK
<1>3. CASE UNCHANGED trees
  BY <1>1, <1>3, SameUndoesNothing
<1> QED
  BY <1>2, <1>3 DEF WriteBack

\* Nothing is undone by any step but the writing back of a stale copy.
LEMMA StepUndoes ==
  ASSUME IInv, [Next]_vars, up, up', NEW c \in Kinds, NEW i \in Ids
  PROVE  UndoesNothing(c, i) \/ WritesStale(i)
<1>0. TreesOK(trees)
  BY DEF IInv
<1>1. CASE UNCHANGED trees
  BY <1>0, <1>1, SameUndoesNothing
<1>2. ASSUME NEW t \in Threads, NewMemory(t)
      PROVE  UndoesNothing(c, i)
  BY <1>2, CreatesUndoNothing DEF NewMemory, Reasons
<1>3. ASSUME NEW t \in Threads, NewMemoir(t)
      PROVE  UndoesNothing(c, i)
  BY <1>3, CreatesUndoNothing, StoreAssumption DEF NewMemoir, Reasons
<1>4. ASSUME NEW t \in Threads,
             \/ log_intervention(t) \/ log_approval(t)
             \/ log_explicit_declaration(t) \/ log_grant_event(t)
      PROVE  UndoesNothing(c, i)
  <2>1. {"Arona", "System"} \subseteq Kinds /\ "none" \in Reasons
    BY StoreAssumption DEF Reasons
  <2> QED
    BY <1>4, <2>1, CreatesUndoNothing
       DEF log_intervention, log_approval, log_explicit_declaration, log_grant_event
<1>5. ASSUME NEW t \in Threads, Delete(t)
      PROVE  UndoesNothing(c, i)
  <2>1. PICK k \in Kinds : \E id \in DOMAIN trees[k] :
          trees' = [trees EXCEPT ![k] = [j \in DOMAIN trees[k] \ {id} |-> trees[k][j]]]
    BY <1>5 DEF Delete, Changed
  <2>2. i \in DOMAIN trees'[c] => i \in DOMAIN trees[c] /\ trees'[c][i] = trees[c][i]
    BY <1>0, <2>1 DEF TreesOK
  <2> QED
    BY <1>0, <2>2, SameUndoesNothing
<1>6. \A t \in Threads : Recall(t) \/ Judge(t) \/ Flush(t) => UNCHANGED trees
  BY DEF Recall, Judge, Flush
<1>7. \A t \in Threads :
        Search(t) \/ ListEntry(t) \/ ListEnds(t) \/ SearchEnds(t) \/ SearchReturns(t)
          => UNCHANGED trees
  BY DEF Search, ListEntry, ListEnds, SearchEnds, SearchReturns
<1>8. ~Crash /\ ~Open /\ (DayPasses \/ UNCHANGED vars => UNCHANGED trees)
  BY DEF Crash, Open, DayPasses, vars
<1> QED
  BY <1>1, <1>2, <1>3, <1>4, <1>5, <1>6, <1>7, <1>8, WriteBackUndoes DEF Next

(***************************************************************************)
(* Sequences: the least of some numbers, induction, recursion              *)
(***************************************************************************)

\* A set of numbers has a least one.
LEMMA LeastNumber ==
  ASSUME NEW S \in SUBSET Nat, S # {}
  PROVE  Min(S) \in S /\ \A n \in S : Min(S) <= n
<1> DEFINE Below == OpToRel(<, Nat)
<1>1. Below = {ss \in Nat \X Nat : ss[1] < ss[2]}
  BY Zenon DEF OpToRel
<1>2. \E m \in S : \A n \in S : <<n, m>> \notin Below
  BY NatLessThanWellFounded, WFMin
<1> HIDE DEF Below
<1>3. \A m, n \in Nat : <<n, m>> \notin Below => m <= n
  BY <1>1
<1>4. \E m \in S : \A n \in S : m <= n
  BY <1>2, <1>3
<1> QED
  BY <1>4 DEF Min

\* Induction over the numbers from 0 to n.
LEMMA UpTo ==
  ASSUME NEW n \in Nat, NEW S, 0 \in S, \A u \in 0 .. n - 1 : u \in S => u + 1 \in S
  PROVE  \A u \in 0 .. n : u \in S
<1> SUFFICES ASSUME \E u \in 0 .. n : u \notin S PROVE FALSE
  OBVIOUS
<1> DEFINE B == {u \in 0 .. n : u \notin S}
<1>1. PICK m \in B : \A u \in B : m <= u
  <2>1. B \subseteq Nat /\ B # {}
    OBVIOUS
  <2> HIDE DEF B
  <2> QED BY <2>1, LeastNumber
<1>2. m # 0 /\ m - 1 \in 0 .. n - 1 /\ (m - 1) + 1 = m /\ m - 1 \notin B
  BY <1>1
<1> QED BY <1>1, <1>2

\* f is given by its first value and a step; there is such an f.
Given(f, n, V, base, step) ==
  f \in [0 .. n -> V] /\ f[0] = base /\ \A k \in 1 .. n : f[k] = step[<<f[k - 1], k>>]

\* There is a function with a given first value and a given step to the next.
LEMMA Recursion ==
  ASSUME NEW n \in Nat, NEW V, NEW base \in V, NEW step \in [V \X (1 .. n) -> V]
  PROVE  \E f : Given(f, n, V, base, step)
<1> DEFINE S == {m \in 0 .. n : \E f : Given(f, m, V, base, step)}
<1>1. 0 \in S
  <2>1. Given([k \in 0 .. 0 |-> base], 0, V, base, step)
    BY DEF Given
  <2> QED BY <2>1
<1>2. ASSUME NEW m \in 0 .. n - 1, m \in S
      PROVE  m + 1 \in S
  <2>1. PICK f : Given(f, m, V, base, step)
    BY <1>2
  <2>2. m \in Nat /\ m + 1 \in 1 .. n /\ m \in 0 .. m /\ f \in [0 .. m -> V] /\ f[m] \in V
    BY <2>1 DEF Given
  <2> DEFINE next == step[<<f[m], m + 1>>]
             g == [k \in 0 .. m + 1 |-> IF k <= m THEN f[k] ELSE next]
  <2>3. next \in V
    BY <2>2
  <2> HIDE DEF next
  <2>4. g \in [0 .. m + 1 -> V]
    <3>1. \A k \in 0 .. m + 1 : k <= m => f[k] \in V
      BY <2>2
    <3> QED BY <2>3, <3>1
  <2>5. \A k \in 0 .. m : g[k] = f[k]
    BY <2>2
  <2>6. g[m + 1] = next
    BY <2>2
  <2> HIDE DEF g
  <2>7. \A k \in 1 .. m + 1 : g[k] = step[<<g[k - 1], k>>]
    <3> TAKE k \in 1 .. m + 1
    <3>1. CASE k = m + 1
      <4>1. k - 1 = m /\ g[k - 1] = f[m]
        BY <3>1, <2>2, <2>5
      <4> QED BY <3>1, <4>1, <2>6 DEF next
    <3>2. CASE k # m + 1
      <4>1. k \in 1 .. m /\ k \in 0 .. m /\ k - 1 \in 0 .. m
        BY <3>2, <2>2
      <4> QED BY <4>1, <2>1, <2>5 DEF Given
    <3> QED BY <3>1, <3>2
  <2>8. g[0] = base
    BY <2>1, <2>2, <2>5 DEF Given
  <2>9. Given(g, m + 1, V, base, step)
    BY <2>4, <2>7, <2>8 DEF Given
  <2> QED BY <2>2, <2>9
<1> HIDE DEF S
<1>3. n \in S
  BY <1>1, <1>2, UpTo
<1> QED BY <1>3 DEF S

(***************************************************************************)
(* Sorting                                                                 *)
(***************************************************************************)

\* Hits as search_category makes them.
Hits ==
  {h \in [record : Records, relevance : Nat, elapsed : 0..MaxDay, combined_score : Int] :
     h.combined_score = 7 * h.relevance + 3 * Decay(h.elapsed, stability(h.record))}

Descending(hits) ==
  \A m, n \in DOMAIN hits : m < n => hits[m].combined_score >= hits[n].combined_score

\* InsertAt: h is the nth, what was there and later goes one place on.
LEMMA InsertAtIs ==
  ASSUME NEW V, NEW s \in Seq(V), NEW h \in V, NEW n \in 1..Len(s)
  PROVE  LET t == InsertAt(s, n, h)
         IN  /\ t \in Seq(V) /\ Len(t) = Len(s) + 1
             /\ \A k \in 1..(Len(s) + 1) :
                  t[k] = IF k < n THEN s[k] ELSE IF k = n THEN h ELSE s[k - 1]
<1> DEFINE a == SubSeq(s, 1, n - 1)
           b == SubSeq(s, n, Len(s))
<1>1. Len(s) \in Nat /\ n \in Nat /\ n <= Len(s) /\ \A k \in 1..Len(s) : s[k] \in V
  OBVIOUS
<1>2. a \in Seq(V) /\ Len(a) = n - 1 /\ \A k \in 1..(n - 1) : a[k] = s[k]
  OBVIOUS
<1>3. b \in Seq(V) /\ Len(b) = Len(s) - n + 1 /\ \A k \in 1..(Len(s) - n + 1) : b[k] = s[n + k - 1]
  OBVIOUS
<1>4. InsertAt(s, n, h) = a \o <<h>> \o b
  BY DEF InsertAt
<1> HIDE DEF a, b
<1> DEFINE c == a \o <<h>>
<1>5. /\ c \in Seq(V) /\ Len(c) = n
      /\ \A k \in 1..n : c[k] = IF k < n THEN s[k] ELSE h
  BY <1>1, <1>2
<1> HIDE DEF c
<1>6. /\ c \o b \in Seq(V) /\ Len(c \o b) = Len(s) + 1
      /\ \A k \in 1..(Len(s) + 1) : (c \o b)[k] = IF k <= n THEN c[k] ELSE b[k - n]
  <2>1. Len(c) + Len(b) = Len(s) + 1
    BY <1>1, <1>3, <1>5
  <2>2. c \in Seq(V) /\ b \in Seq(V) /\ Len(c) = n
    BY <1>3, <1>5
  <2>3. /\ c \o b \in Seq(V) /\ Len(c \o b) = Len(c) + Len(b)
        /\ \A k \in 1..(Len(c) + Len(b)) : (c \o b)[k] = IF k <= Len(c) THEN c[k] ELSE b[k - Len(c)]
    BY <2>2, ConcatProperties, Zenon
  <2> HIDE DEF c
  <2> QED BY <2>1, <2>2, <2>3
<1>7. \A k \in 1..(Len(s) + 1) :
        (c \o b)[k] = IF k < n THEN s[k] ELSE IF k = n THEN h ELSE s[k - 1]
  <2> TAKE k \in 1..(Len(s) + 1)
  <2>1. CASE k <= n
    <3>1. k \in 1..n /\ (c \o b)[k] = c[k] /\ c[k] = IF k < n THEN s[k] ELSE h
      BY <1>1, <1>5, <1>6, <2>1
    <3> QED BY <1>1, <2>1, <3>1
  <2>2. CASE k > n
    <3>1. k - n \in 1..(Len(s) - n + 1) /\ n + (k - n) - 1 = k - 1
      BY <1>1, <2>2
    <3>2. (c \o b)[k] = b[k - n] /\ b[k - n] = s[k - 1]
      BY <1>1, <1>3, <1>6, <2>2, <3>1
    <3> QED BY <1>1, <2>2, <3>2
  <2>3. k <= n \/ k > n
    BY <1>1
  <2> QED BY <2>1, <2>2, <2>3, Zenon
<1> QED BY <1>4, <1>6, <1>7 DEF c

\* A hit is put in its place, and only it.
LEMMA PlacedIs ==
  ASSUME NEW s \in Seq(Hits), NEW h \in Hits
  PROVE  LET t == Placed(s, h)
         IN  /\ t \in Seq(Hits) /\ Range(t) = Range(s) \union {h}
             /\ Descending(s) => Descending(t)
<1> DEFINE I == {k \in 1..Len(s) : s[k].combined_score < h.combined_score}
           n == IF I # {} THEN Min(I) ELSE 0
<1>1. Placed(s, h) = IF n = 0 THEN Append(s, h) ELSE InsertAt(s, n, h)
  BY Zenon DEF Placed, SelectInSeq
<1>2. I # {} => Min(I) \in I /\ \A k \in I : Min(I) <= k
  <2>1. I \in SUBSET Nat
    OBVIOUS
  <2> HIDE DEF I
  <2> QED BY <2>1, LeastNumber
<1>3. h.combined_score \in Int /\ \A k \in 1..Len(s) : s[k] \in Hits /\ s[k].combined_score \in Int
  BY DEF Hits
<1>4. CASE I = {}
  <2>1. Placed(s, h) = Append(s, h)
    BY <1>1, <1>4, Zenon
  <2>2. \A k \in 1..Len(s) : s[k].combined_score >= h.combined_score
    BY <1>3, <1>4
  <2> DEFINE t == Append(s, h)
  <2>3. /\ t \in Seq(Hits) /\ Len(t) = Len(s) + 1 /\ DOMAIN t = 1..(Len(s) + 1) /\ Len(s) \in Nat
        /\ \A k \in 1..Len(s) : t[k] = s[k]
        /\ t[Len(s) + 1] = h /\ DOMAIN s = 1..Len(s)
    OBVIOUS
  <2> HIDE DEF t
  <2>4. Range(t) = Range(s) \union {h}
    <3>1. \A k \in DOMAIN t : t[k] \in Range(s) \union {h}
      BY <2>3 DEF Range
    <3>2. \A k \in DOMAIN s : s[k] \in Range(t)
      BY <2>3 DEF Range
    <3>3. h \in Range(t)
      BY <2>3 DEF Range
    <3> QED BY <3>1, <3>2, <3>3 DEF Range
  <2>5. Descending(s) => Descending(t)
    <3> SUFFICES ASSUME Descending(s), NEW k \in DOMAIN t, NEW l \in DOMAIN t, k < l
                 PROVE  t[k].combined_score >= t[l].combined_score
      BY DEF Descending
    <3>1. CASE l = Len(s) + 1
      BY <2>2, <2>3, <3>1
    <3>2. CASE l # Len(s) + 1
      BY <2>3, <3>2 DEF Descending
    <3> QED BY <3>1, <3>2
  <2> QED BY <2>1, <2>3, <2>4, <2>5 DEF t
<1>5. CASE I # {}
  <2>1. n \in I /\ (\A k \in I : n <= k) /\ n # 0
    BY <1>2, <1>5
  <2>2. Placed(s, h) = InsertAt(s, n, h)
    BY <1>1, <2>1, Zenon
  <2>3. /\ n \in 1..Len(s) /\ s[n].combined_score < h.combined_score
        /\ \A k \in 1..Len(s) : k < n => s[k].combined_score >= h.combined_score
    <3>1. \A k \in 1..Len(s) : k < n => k \notin I
      BY <2>1
    <3> HIDE DEF n
    <3> QED BY <1>3, <2>1, <3>1
  <2> HIDE DEF n, I
  <2> DEFINE t == InsertAt(s, n, h)
  <2>4. /\ t \in Seq(Hits) /\ Len(t) = Len(s) + 1 /\ Len(s) \in Nat
        /\ \A k \in 1..(Len(s) + 1) : t[k] = IF k < n THEN s[k] ELSE IF k = n THEN h ELSE s[k - 1]
    BY <2>3, InsertAtIs
  <2> HIDE DEF t
  <2>5. DOMAIN t = 1..(Len(s) + 1) /\ DOMAIN s = 1..Len(s)
    BY <2>4
  <2>6. Range(t) = Range(s) \union {h}
    <3>1. \A k \in DOMAIN t : t[k] \in Range(s) \union {h}
      <4> TAKE k \in DOMAIN t
      <4>1. CASE k < n
        <5>1. t[k] = s[k] /\ k \in DOMAIN s
          BY <2>3, <2>4, <2>5, <4>1
        <5> QED BY <5>1 DEF Range
      <4>2. CASE k = n
        BY <2>4, <2>5, <4>2
      <4>3. CASE k > n
        <5>1. t[k] = s[k - 1] /\ k - 1 \in DOMAIN s
          BY <2>3, <2>4, <2>5, <4>3
        <5> QED BY <5>1 DEF Range
      <4> QED BY <2>3, <2>5, <4>1, <4>2, <4>3
    <3>2. \A k \in DOMAIN s : s[k] \in Range(t)
      <4> TAKE k \in DOMAIN s
      <4>1. CASE k < n
        <5>1. t[k] = s[k] /\ k \in DOMAIN t
          BY <2>3, <2>4, <2>5, <4>1
        <5> QED BY <5>1 DEF Range
      <4>2. CASE k >= n
        <5>1. t[k + 1] = s[k] /\ k + 1 \in DOMAIN t
          BY <2>3, <2>4, <2>5, <4>2
        <5> QED BY <5>1 DEF Range
      <4> QED BY <2>3, <2>5, <4>1, <4>2
    <3>3. h \in Range(t)
      <4>1. t[n] = h /\ n \in DOMAIN t
        BY <2>3, <2>4, <2>5
      <4> QED BY <4>1 DEF Range
    <3> QED BY <3>1, <3>2, <3>3 DEF Range
  <2>7. Descending(s) => Descending(t)
    <3> SUFFICES ASSUME Descending(s), NEW k \in DOMAIN t, NEW l \in DOMAIN t, k < l
                 PROVE  t[k].combined_score >= t[l].combined_score
      BY DEF Descending
    <3>0. \A x, y \in 1..Len(s) : x < y => s[x].combined_score >= s[y].combined_score
      BY <2>5 DEF Descending
    <3>1. \A x \in 1..Len(s) : x >= n => s[x].combined_score < h.combined_score
      <4> TAKE x \in 1..Len(s)
      <4>1. x = n \/ x > n => s[x].combined_score <= s[n].combined_score
        BY <1>3, <2>3, <3>0
      <4> QED BY <1>3, <2>3, <4>1
    <3>2. CASE l < n
      BY <2>3, <2>4, <2>5, <3>0, <3>2
    <3>3. CASE l = n
      BY <2>3, <2>4, <2>5, <3>3
    <3>4. CASE l > n
      <4>1. t[l] = s[l - 1] /\ l - 1 \in 1..Len(s) /\ l - 1 >= n
        BY <2>3, <2>4, <2>5, <3>4
      <4>2. CASE k < n
        <5>1. t[k] = s[k] /\ k \in 1..Len(s) /\ k < l - 1
          BY <2>3, <2>4, <2>5, <3>4, <4>2
        <5> QED BY <3>0, <4>1, <5>1
      <4>3. CASE k = n
        <5>1. t[k] = h
          BY <2>4, <2>5, <4>3
        <5> QED BY <1>3, <3>1, <4>1, <5>1
      <4>4. CASE k > n
        <5>1. t[k] = s[k - 1] /\ k - 1 \in 1..Len(s) /\ k - 1 < l - 1
          BY <2>3, <2>4, <2>5, <3>4, <4>4
        <5> QED BY <3>0, <4>1, <5>1
      <4> QED BY <2>3, <2>5, <4>2, <4>3, <4>4
    <3> QED BY <2>3, <2>5, <3>2, <3>3, <3>4
  <2> QED BY <2>2, <2>4, <2>6, <2>7 DEF t
<1> QED BY <1>4, <1>5

\* retain and sort_by keep the relevant hits, best first.
Relevant(hits) == {hits[k] : k \in {m \in DOMAIN hits : hits[m].relevance > 0}}

OneMore(sorted, h) == IF h.relevance > 0 THEN Placed(sorted, h) ELSE sorted

\* The sorted list has the relevant hits and no others, in descending order.
LEMMA SortedIs ==
  ASSUME NEW hits \in Seq(Hits)
  PROVE  /\ Sorted(hits) \in Seq(Hits) /\ Descending(Sorted(hits))
         /\ Range(Sorted(hits)) = Relevant(hits)
<1> DEFINE n == Len(hits)
           F(f) == [k \in 0 .. n |-> IF k = 0 THEN <<>>
                      ELSE IF hits[k].relevance > 0 THEN Placed(f[k - 1], hits[k]) ELSE f[k - 1]]
<1>0. n \in Nat /\ DOMAIN hits = 1 .. n /\ \A k \in 1 .. n : hits[k] \in Hits
  OBVIOUS
<1> HIDE DEF n
<1>1. \A s \in Seq(Hits), h \in Hits : OneMore(s, h) \in Seq(Hits)
  BY PlacedIs DEF OneMore
<1>2. PICK step \in [Seq(Hits) \X (1 .. n) -> Seq(Hits)] :
             \A s \in Seq(Hits) : \A k \in 1 .. n : step[<<s, k>>] = OneMore(s, hits[k])
  <2> DEFINE st == [p \in Seq(Hits) \X (1 .. n) |-> OneMore(p[1], hits[p[2]])]
  <2>1. st \in [Seq(Hits) \X (1 .. n) -> Seq(Hits)]
    BY <1>0, <1>1
  <2>2. \A s \in Seq(Hits) : \A k \in 1 .. n : st[<<s, k>>] = OneMore(s, hits[k])
    OBVIOUS
  <2> HIDE DEF st
  <2> QED BY <2>1, <2>2
<1>3. <<>> \in Seq(Hits)
  OBVIOUS
<1>4. PICK f \in [0 .. n -> Seq(Hits)] : f[0] = <<>> /\ \A k \in 1 .. n : f[k] = step[<<f[k - 1], k>>]
  <2>1. PICK f : Given(f, n, Seq(Hits), <<>>, step)
    BY <1>0, <1>3, Recursion
  <2> QED BY <2>1 DEF Given
<1>5. f = F(f)
  <2>1. \A k \in 0 .. n : f[k] = F(f)[k]
    <3> TAKE k \in 0 .. n
    <3>1. CASE k = 0
      BY <3>1, <1>4
    <3>2. CASE k # 0
      <4>1. k \in 1 .. n /\ k - 1 \in 0 .. n /\ f[k - 1] \in Seq(Hits)
        BY <3>2, <1>0, <1>4
      <4>2. f[k] = OneMore(f[k - 1], hits[k])
        BY <4>1, <1>2, <1>4
      <4>3. F(f)[k] = OneMore(f[k - 1], hits[k])
        BY <3>2 DEF OneMore
      <4> QED BY <4>2, <4>3
    <3> QED BY <3>1, <3>2
  <2> HIDE DEF F
  <2>2. F(f) = [k \in 0 .. n |-> F(f)[k]]
    BY DEF F
  <2>3. f = [k \in 0 .. n |-> f[k]]
    BY <1>4
  <2> QED BY <2>1, <2>2, <2>3
<1> DEFINE sorted == CHOOSE f_1 : f_1 = F(f_1)
<1>6. sorted = F(sorted)
  <2> HIDE DEF F
  <2> QED BY <1>5
<1>7. Sorted(hits) = sorted[n]
  BY DEF Sorted, n
<1> HIDE DEF sorted
<1>8. /\ sorted[0] = <<>>
      /\ \A k \in 1 .. n : sorted[k] = OneMore(sorted[k - 1], hits[k])
  <2>1. sorted[0] = <<>>
    BY <1>0, <1>6
  <2>2. ASSUME NEW k \in 1 .. n PROVE sorted[k] = OneMore(sorted[k - 1], hits[k])
    <3>1. k \in 0 .. n /\ k # 0
      BY <1>0
    <3>2. F(sorted)[k] = OneMore(sorted[k - 1], hits[k])
      BY <3>1 DEF OneMore
    <3>3. F(sorted)[k] = sorted[k]
      <4> HIDE DEF F
      <4> QED BY <1>6
    <3> QED BY <3>2, <3>3
  <2> QED BY <2>1, <2>2
<1> HIDE DEF F
<1> DEFINE Kept(k) == {hits[m] : m \in {l \in 1 .. k : hits[l].relevance > 0}}
           S == {k \in 0 .. n : /\ sorted[k] \in Seq(Hits) /\ Descending(sorted[k])
                                /\ Range(sorted[k]) = Kept(k)}
<1>9. 0 \in S
  <2>1. <<>> \in Seq(Hits) /\ Descending(<<>>) /\ Range(<<>>) = {} /\ Kept(0) = {}
    BY DEF Descending, Range
  <2>2. 0 \in 0 .. n
    BY <1>0
  <2> HIDE DEF Kept
  <2> QED BY <1>8, <2>1, <2>2
<1>10. ASSUME NEW k \in 0 .. n - 1, k \in S PROVE k + 1 \in S
  <2>1. k + 1 \in 1 .. n /\ (k + 1) - 1 = k /\ k + 1 \in 0 .. n
    BY <1>0
  <2>2. /\ sorted[k + 1] = OneMore(sorted[k], hits[k + 1]) /\ hits[k + 1] \in Hits
        /\ sorted[k] \in Seq(Hits) /\ Descending(sorted[k]) /\ Range(sorted[k]) = Kept(k)
    BY <1>0, <1>8, <1>10, <2>1
  <2>3. Kept(k + 1) = IF hits[k + 1].relevance > 0 THEN Kept(k) \union {hits[k + 1]} ELSE Kept(k)
    <3>1. \A l : l \in 1 .. k + 1 <=> l \in 1 .. k \/ l = k + 1
      BY <2>1
    <3> QED BY <3>1
  <2>4. sorted[k + 1] \in Seq(Hits) /\ Descending(sorted[k + 1]) /\ Range(sorted[k + 1]) = Kept(k + 1)
    <3> HIDE DEF Kept
    <3>1. CASE hits[k + 1].relevance > 0
      <4> DEFINE h == hits[k + 1]
                 s == sorted[k]
      <4>1. s \in Seq(Hits) /\ h \in Hits /\ Descending(s) /\ Range(s) = Kept(k)
        BY <2>2
      <4>2. sorted[k + 1] = Placed(s, h) /\ Kept(k + 1) = Kept(k) \union {h}
        BY <2>2, <2>3, <3>1 DEF OneMore
      <4> HIDE DEF s, h
      <4>3. Placed(s, h) \in Seq(Hits) /\ Range(Placed(s, h)) = Range(s) \union {h} /\ Descending(Placed(s, h))
        BY <4>1, PlacedIs
      <4> QED BY <4>1, <4>2, <4>3
    <3>2. CASE ~(hits[k + 1].relevance > 0)
      BY <2>2, <2>3, <3>2 DEF OneMore
    <3> QED BY <3>1, <3>2
  <2> HIDE DEF Kept
  <2> QED BY <2>1, <2>4
<1> HIDE DEF S
<1>11. \A k \in 0 .. n : k \in S
  BY <1>0, <1>9, <1>10, UpTo
<1>12. n \in S
  BY <1>0, <1>11
<1>13. Kept(n) = Relevant(hits)
  BY <1>0 DEF Relevant
<1> HIDE DEF Kept
<1> QED BY <1>7, <1>12, <1>13 DEF S

\* The hits of all categories and nothing else.
LEMMA JoinedIs ==
  ASSUME NEW hits \in [Kinds -> Seq(Hits)]
  PROVE  /\ Joined(hits) \in Seq(Hits)
         /\ \A h : h \in Range(Joined(hits)) <=> \E c \in Kinds : h \in Range(hits[c])
<1> DEFINE seqs == [m \in DOMAIN Categories |-> hits[Categories[m]]]
           n == Len(Categories)
           F(f) == [k \in 1 .. n |-> IF k = 1 THEN seqs[k] ELSE f[k - 1] \o seqs[k]]
<1>0. /\ n \in Nat \ {0} /\ DOMAIN Categories = 1 .. n /\ Kinds = {Categories[m] : m \in 1 .. n}
      /\ \A m \in 1 .. n : Categories[m] \in Kinds
  <2>1. Categories \in Seq(Kinds) /\ Kinds # {} /\ Kinds = {Categories[m] : m \in DOMAIN Categories}
    BY StoreAssumption DEF Kinds, Range
  <2>2. n \in Nat /\ DOMAIN Categories = 1 .. n
    BY <2>1
  <2>3. n # 0
    <3>1. n = 0 => 1 .. n = {}
      OBVIOUS
    <3> HIDE DEF n
    <3> QED BY <2>1, <2>2, <3>1
  <2> HIDE DEF n
  <2> QED BY <2>1, <2>2, <2>3
<1> HIDE DEF n
<1>1. seqs \in [1 .. n -> Seq(Hits)] /\ \A m \in 1 .. n : seqs[m] = hits[Categories[m]]
  BY <1>0
<1>2. FlattenSeq(seqs) = LET flatten == CHOOSE f_1 : f_1 = F(f_1) IN flatten[n]
  <2>1. Len(seqs) = n
    <3> HIDE DEF seqs
    <3> QED BY <1>0, <1>1
  <2> HIDE DEF seqs
  <2> QED BY <1>0, <2>1 DEF FlattenSeq
<1>3. Joined(hits) = FlattenSeq(seqs)
  BY DEF Joined
<1> HIDE DEF seqs
<1>4. PICK step \in [Seq(Hits) \X (1 .. n - 1) -> Seq(Hits)] :
             \A s \in Seq(Hits) : \A k \in 1 .. n - 1 : step[<<s, k>>] = s \o seqs[k + 1]
  <2> DEFINE st == [p \in Seq(Hits) \X (1 .. n - 1) |-> p[1] \o seqs[p[2] + 1]]
  <2>1. \A k \in 1 .. n - 1 : k + 1 \in 1 .. n
    BY <1>0
  <2>2. st \in [Seq(Hits) \X (1 .. n - 1) -> Seq(Hits)]
    BY <1>1, <2>1
  <2>3. \A s \in Seq(Hits) : \A k \in 1 .. n - 1 : st[<<s, k>>] = s \o seqs[k + 1]
    OBVIOUS
  <2> HIDE DEF st
  <2> QED BY <2>2, <2>3
<1>5. n - 1 \in Nat /\ 1 \in 1 .. n /\ seqs[1] \in Seq(Hits)
  BY <1>0, <1>1
<1>6. PICK g : Given(g, n - 1, Seq(Hits), seqs[1], step)
  BY <1>5, Recursion
<1> DEFINE f == [k \in 1 .. n |-> g[k - 1]]
<1>7. f = F(f)
  <2>1. \A k \in 1 .. n : f[k] = F(f)[k]
    <3> TAKE k \in 1 .. n
    <3>1. CASE k = 1
      <4>1. f[k] = g[0] /\ g[0] = seqs[1]
        BY <3>1, <1>6 DEF Given
      <4> QED BY <3>1, <4>1
    <3>2. CASE k # 1
      <4>1. k - 1 \in 1 .. n - 1 /\ (k - 1) + 1 = k /\ k - 1 \in 1 .. n /\ (k - 1) - 1 \in 0 .. n - 1
        BY <3>2, <1>0
      <4>2. g[k - 1] = step[<<g[(k - 1) - 1], k - 1>>] /\ g[(k - 1) - 1] \in Seq(Hits)
        BY <4>1, <1>6 DEF Given
      <4>3. g[k - 1] = g[(k - 1) - 1] \o seqs[k]
        BY <4>1, <4>2, <1>4
      <4>4. f[k] = g[k - 1] /\ f[k - 1] = g[(k - 1) - 1]
        BY <4>1
      <4> HIDE DEF f
      <4>5. F(f)[k] = f[k - 1] \o seqs[k]
        BY <3>2
      <4> HIDE DEF F
      <4> QED BY <4>3, <4>4, <4>5
    <3> QED BY <3>1, <3>2
  <2>2. f = [k \in 1 .. n |-> f[k]]
    OBVIOUS
  <2> HIDE DEF F, f
  <2>3. F(f) = [k \in 1 .. n |-> F(f)[k]]
    BY DEF F
  <2> QED BY <2>1, <2>2, <2>3
<1> HIDE DEF f
<1> DEFINE flatten == CHOOSE f_1 : f_1 = F(f_1)
<1>8. flatten = F(flatten)
  <2> HIDE DEF F
  <2> QED BY <1>7
<1>9. Joined(hits) = flatten[n]
  BY <1>2, <1>3
<1> HIDE DEF flatten
<1>10. /\ flatten[1] = seqs[1]
       /\ \A k \in 1 .. n : k # 1 => flatten[k] = flatten[k - 1] \o seqs[k]
  <2>1. ASSUME NEW k \in 1 .. n
        PROVE  flatten[k] = IF k = 1 THEN seqs[k] ELSE flatten[k - 1] \o seqs[k]
    <3>1. F(flatten)[k] = IF k = 1 THEN seqs[k] ELSE flatten[k - 1] \o seqs[k]
      OBVIOUS
    <3> HIDE DEF F
    <3> QED BY <1>8, <3>1
  <2> QED BY <2>1, <1>5
<1> HIDE DEF F
<1> DEFINE Within(k) == \A h : h \in Range(flatten[k]) <=> \E m \in 1 .. k : h \in Range(seqs[m])
           S == {k \in 0 .. n - 1 : flatten[k + 1] \in Seq(Hits) /\ Within(k + 1)}
<1>11. 0 \in S
  <2>1. \A m : m \in 1 .. 1 <=> m = 1
    OBVIOUS
  <2>2. Within(1)
    BY <1>10, <2>1
  <2> HIDE DEF Within
  <2>3. 0 \in 0 .. n - 1 /\ 0 + 1 = 1
    BY <1>5
  <2> QED BY <1>5, <1>10, <2>2, <2>3
<1>12. ASSUME NEW k \in 0 .. (n - 1) - 1, k \in S PROVE k + 1 \in S
  <2>1. k + 1 \in 0 .. n - 1 /\ k + 1 \in Nat /\ k + 2 \in 1 .. n /\ k + 2 # 1 /\ (k + 2) - 1 = k + 1 /\ (k + 1) + 1 = k + 2
    BY <1>0
  <2>2. flatten[k + 2] = flatten[k + 1] \o seqs[k + 2]
    BY <2>1, <1>10
  <2>3. flatten[k + 1] \in Seq(Hits) /\ seqs[k + 2] \in Seq(Hits) /\ Within(k + 1)
    BY <1>1, <1>12, <2>1
  <2>4. flatten[k + 2] \in Seq(Hits)
    BY <2>2, <2>3
  <2>5. Range(flatten[k + 2]) = Range(flatten[k + 1]) \union Range(seqs[k + 2])
    <3> HIDE DEF Within
    <3> DEFINE a == flatten[k + 1]
               b == seqs[k + 2]
    <3>1. a \in Seq(Hits) /\ b \in Seq(Hits) /\ flatten[k + 2] = a \o b
      BY <2>2, <2>3
    <3> HIDE DEF a, b
    <3>2. Range(a \o b) = Range(a) \union Range(b)
      BY <3>1, RangeConcatenation
    <3> QED BY <3>1, <3>2 DEF a, b
  <2>6. \A m : m \in 1 .. k + 2 <=> m \in 1 .. k + 1 \/ m = k + 2
    BY <2>1
  <2>7. Within(k + 2)
    BY <2>3, <2>5, <2>6
  <2> HIDE DEF Within
  <2> QED BY <2>1, <2>4, <2>7
<1> HIDE DEF S
<1>13. \A k \in 0 .. n - 1 : k \in S
  BY <1>5, <1>11, <1>12, UpTo
<1>14. flatten[n] \in Seq(Hits) /\ Within(n)
  <2>1. n - 1 \in 0 .. n - 1 /\ (n - 1) + 1 = n
    BY <1>0
  <2>2. n - 1 \in S
    BY <1>13, <2>1
  <2> HIDE DEF Within
  <2> QED BY <2>1, <2>2 DEF S
<1> QED BY <1>0, <1>1, <1>9, <1>14

(***************************************************************************)
(* What a search makes of the records                                      *)
(***************************************************************************)

\* A relevance is a number and not negative.
LEMMA RelevanceIs ==
  ASSUME NEW query \in Queries, NEW r
  PROVE  relevance(query, r) \in Nat
<1> DEFINE S == {n \in DOMAIN query : query[n] \in r.words}
<1>1. query \in Seq(ToSet(query)) /\ Len(query) \in Nat /\ DOMAIN query = 1..Len(query)
      /\ (query # <<>> => Len(query) # 0)
  BY StoreAssumption
<1>2. Cardinality(S) \in Nat
  <2>1. IsFiniteSet(1..Len(query)) /\ S \subseteq 1..Len(query)
    BY <1>1, FS_Interval
  <2> HIDE DEF S
  <2> QED BY <2>1, FS_Subset, FS_CardinalityType
<1>3. relevance(query, r) = IF query = <<>> THEN 0 ELSE (1000 * Cardinality(S)) \div Len(query)
  BY DEF relevance
<1> HIDE DEF S
<1>4. CASE query = <<>>
  BY <1>3, <1>4
<1>5. CASE query # <<>>
  <2>1. \A a, b \in Nat : b # 0 => (1000 * a) \div b \in Nat
    OBVIOUS
  <2> QED BY <1>1, <1>2, <1>3, <1>5, <2>1
<1> QED BY <1>4, <1>5

\* The stability of a record is one of those that exp is asked for.
Stabilities == {(6 + 3 * n) * (1 + 2 * m) : n \in 0..CountMax, m \in 0..10}

\* The stability of a record is one that exp is asked for.
LEMMA StabilityIs ==
  ASSUME NEW r \in Records
  PROVE  stability(r) \in Stabilities
BY DEF stability, Records, Stabilities

\* DecayAssumption, for one elapsed time and stability.
LEMMA DecayIs ==
  ASSUME NEW e \in 0..MaxDay, NEW s \in Stabilities
  PROVE  /\ Decay(e, s) \in Int
         /\ \A f \in 0..MaxDay, v \in Stabilities : e <= f /\ v <= s => Decay(f, v) <= Decay(e, s)
BY DecayAssumption DEF Stabilities

\* Hit makes a hit of a record.
LEMMA HitIs ==
  ASSUME today \in 0..MaxDay, NEW query \in Queries, NEW r \in Records
  PROVE  /\ Hit(query, r) \in Hits
         /\ Hit(query, r).record = r /\ Hit(query, r).relevance = relevance(query, r)
<1>1. relevance(query, r) \in Nat
  BY RelevanceIs
<1>2. elapsed(r) \in 0..MaxDay
  <2>1. r.last_recalled_at \in Nat /\ MaxDay \in Nat /\ today \in Nat /\ today <= MaxDay
    BY StoreAssumption DEF Records
  <2> QED BY <2>1 DEF elapsed
<1>3. Decay(elapsed(r), stability(r)) \in Int
  BY <1>2, StabilityIs, DecayIs
<1>4. 7 * relevance(query, r) + 3 * Decay(elapsed(r), stability(r)) \in Int
  BY <1>1, <1>3
<1> QED BY <1>1, <1>2, <1>4 DEF Hit, Hits, current_score

\* More uses and more importance make a record no less stable.
LEMMA MoreIsMoreStable ==
  ASSUME NEW r \in Records, NEW s \in Records,
         r.recall_count >= s.recall_count, r.importance >= s.importance
  PROVE  stability(r) >= stability(s)
<1> DEFINE a == 6 + 3 * r.recall_count
           b == 1 + 2 * r.importance
           c == 6 + 3 * s.recall_count
           d == 1 + 2 * s.importance
<1>1. a \in Nat /\ b \in Nat /\ c \in Nat /\ d \in Nat /\ a >= c /\ b >= d
  BY DEF Records
<1>2. stability(r) = a * b /\ stability(s) = c * d
  BY DEF stability
<1> HIDE DEF a, b, c, d
<1>3. a * b >= c * b /\ c * b >= c * d
  <2>1. \A x, y, z \in Nat : x >= y => x * z >= y * z /\ z * x >= z * y
    OBVIOUS
  <2> QED BY <1>1, <2>1
<1>4. a * b \in Int /\ c * b \in Int /\ c * d \in Int
  BY <1>1
<1> QED BY <1>2, <1>3, <1>4

(***************************************************************************)
(* The end of a search                                                     *)
(***************************************************************************)

\* What SearchFinds and UsedFirst say of one search.
Found(call) ==
  LET found == {h.record.id : h \in Range(call.hits)}
  IN  /\ found \subseteq call.ever
      /\ call.always \subseteq found \/ Len(call.hits) = limit

Better(h, g) ==
  /\ h.relevance = g.relevance /\ h.elapsed < g.elapsed
  /\ Decay(h.elapsed, stability(h.record)) # Decay(g.elapsed, stability(g.record))
  /\ h.record.recall_count >= g.record.recall_count
  /\ h.record.importance >= g.record.importance

BestFirst(call) ==
  \A n \in DOMAIN call.hits :
    \A h \in Range(call.all) \ {call.hits[m] : m \in 1..n} : ~Better(h, call.hits[n])

\* Whatever is better scores more.
LEMMA BetterScoresMore ==
  ASSUME NEW h \in Hits, NEW g \in Hits, Better(h, g)
  PROVE  h.combined_score > g.combined_score
<1>1. /\ h.record \in Records /\ g.record \in Records /\ h.elapsed \in 0..MaxDay /\ g.elapsed \in 0..MaxDay
      /\ h.combined_score = 7 * h.relevance + 3 * Decay(h.elapsed, stability(h.record))
      /\ g.combined_score = 7 * g.relevance + 3 * Decay(g.elapsed, stability(g.record))
      /\ h.relevance \in Nat /\ g.relevance = h.relevance
  BY DEF Hits, Better
<1>2. stability(h.record) >= stability(g.record) /\ h.elapsed <= g.elapsed
  BY <1>1, MoreIsMoreStable DEF Better
<1> DEFINE x == Decay(h.elapsed, stability(h.record))
           y == Decay(g.elapsed, stability(g.record))
<1>3. stability(h.record) \in Stabilities /\ stability(g.record) \in Stabilities
  BY <1>1, StabilityIs
<1>4. x \in Int /\ y \in Int /\ y <= x
  BY <1>1, <1>2, <1>3, DecayIs
<1>5. x # y
  BY DEF Better
<1> HIDE DEF x, y
<1>6. h.combined_score = 7 * h.relevance + 3 * x /\ g.combined_score = 7 * h.relevance + 3 * y
  BY <1>1 DEF x, y
<1> QED BY <1>1, <1>4, <1>5, <1>6

\* truncate.
LEMMA CutIs ==
  ASSUME NEW V, NEW s \in Seq(V)
  PROVE  /\ Cut(s) \in Seq(V) /\ Len(Cut(s)) <= Len(s)
         /\ \A k \in DOMAIN Cut(s) : k \in DOMAIN s /\ Cut(s)[k] = s[k]
         /\ Cut(s) = s \/ Len(Cut(s)) = limit
<1> DEFINE n == IF Len(s) < limit THEN Len(s) ELSE limit
<1>1. n \in Nat /\ n <= Len(s) /\ Len(s) \in Nat
  BY StoreAssumption
<1>2. Cut(s) = SubSeq(s, 1, n)
  BY DEF Cut
<1>3. n = Len(s) \/ n = limit
  OBVIOUS
<1> HIDE DEF n
<1>4. /\ SubSeq(s, 1, n) \in Seq(V) /\ Len(SubSeq(s, 1, n)) = n /\ DOMAIN SubSeq(s, 1, n) = 1..n
      /\ \A k \in 1..n : SubSeq(s, 1, n)[k] = s[k]
  BY <1>1
<1>5. n = Len(s) => SubSeq(s, 1, n) = s
  BY <1>1
<1>6. \A k \in 1..n : k \in DOMAIN s
  BY <1>1
<1> QED BY <1>1, <1>2, <1>3, <1>4, <1>5, <1>6

\* A ranking holds only relevant hits, all of them unless the limit is reached, and the
\* better one first.
LEMMA RankedIs ==
  ASSUME NEW all \in Seq(Hits)
  PROVE  /\ Range(Ranked(all)) \subseteq Relevant(all)
         /\ Relevant(all) \subseteq Range(Ranked(all)) \/ Len(Ranked(all)) = limit
         /\ \A n \in DOMAIN Ranked(all) :
              \A h \in Range(all) \ {Ranked(all)[m] : m \in 1..n} : ~Better(h, Ranked(all)[n])
<1> DEFINE s == Sorted(all)
           c == Cut(s)
<1>1. s \in Seq(Hits) /\ Descending(s) /\ Range(s) = Relevant(all) /\ DOMAIN s = 1..Len(s) /\ Len(s) \in Nat
  BY SortedIs
<1>2. Ranked(all) = c
  BY DEF Ranked
<1> HIDE DEF s
<1>3. /\ c \in Seq(Hits) /\ Len(c) <= Len(s)
      /\ \A k \in DOMAIN c : k \in DOMAIN s /\ c[k] = s[k]
      /\ c = s \/ Len(c) = limit
  BY <1>1, CutIs
<1> HIDE DEF c
<1>4. Range(c) \subseteq Relevant(all)
  BY <1>1, <1>3 DEF Range
<1>5. Relevant(all) \subseteq Range(c) \/ Len(c) = limit
  BY <1>1, <1>3
<1>6. ASSUME NEW n \in DOMAIN c, NEW h \in Range(all) \ {c[m] : m \in 1..n}, Better(h, c[n])
      PROVE  FALSE
  <2>1. c[n] \in Relevant(all) /\ n \in DOMAIN s /\ c[n] = s[n]
    BY <1>3, <1>4 DEF Range
  <2>2. h \in Relevant(all) /\ h \in Hits
    <3>1. \A k \in DOMAIN all : all[k] \in Hits
      OBVIOUS
    <3>2. c[n].relevance > 0 /\ h.relevance = c[n].relevance
      BY <1>6, <2>1 DEF Relevant, Better
    <3> QED BY <3>1, <3>2 DEF Relevant, Range
  <2>3. PICK m \in DOMAIN s : h = s[m]
    BY <1>1, <2>2 DEF Range
  <2>4. m > n
    <3>1. m \notin 1..n
      <4>1. m \in 1..n => c[m] = s[m]
        <5>1. DOMAIN c = 1..Len(c) /\ Len(c) \in Nat
          BY <1>3
        <5> QED BY <1>3, <5>1
      <4> QED BY <2>3, <4>1
    <3> QED BY <1>1, <2>1, <2>3, <3>1
  <2>5. s[n].combined_score >= h.combined_score
    BY <1>1, <2>1, <2>3, <2>4 DEF Descending
  <2>6. s[n] \in Hits /\ h.combined_score > s[n].combined_score
    <3>1. s[n] \in Hits
      BY <1>1, <2>1
    <3> QED BY <1>6, <2>1, <2>2, <3>1, BetterScoresMore
  <2>7. h.combined_score \in Int /\ s[n].combined_score \in Int
    BY <2>2, <2>6 DEF Hits
  <2> QED BY <2>5, <2>6, <2>7
<1> QED BY <1>2, <1>4, <1>5, <1>6

(***************************************************************************)
(* The inductive invariant of the searches, in any build                   *)
(***************************************************************************)

Base ==
  /\ up \in BOOLEAN /\ today \in 0..MaxDay /\ made \subseteq Ids
  /\ TreesOK(trees) /\ TreesOK(disk)
  /\ CallsOK /\ CopiesMade /\ ClosedIsIdle

\* A record i is, or is to be written, in the tree of category c.
Filed(i, c) ==
  \/ i \in DOMAIN trees[c] \/ i \in DOMAIN disk[c]
  \/ \E t \in Threads : Writing(calls[t]) /\ calls[t].copy.id = i /\ calls[t].copy.category = c

\* No record is in two trees: a search could miss it.
OneKind == \A i \in made : \A c, d \in Kinds : Filed(i, c) /\ Filed(i, d) => c = d

Searches ==
  [op : {"search"}, query : Queries, next : [Kinds -> Nat], list : [Kinds -> Seq(Records)],
   hits : [Kinds -> Seq(Hits)], left : SUBSET Kinds, always : SUBSET Ids, ever : SUBSET Ids]

\* The search has record id of category c, or has not got to it.
Sees(call, c, id) ==
  IF c \in call.left
  THEN \/ id > call.next[c]
       \/ \E n \in DOMAIN call.list[c] :
            call.list[c][n].id = id /\ relevance(call.query, call.list[c][n]) > 0
  ELSE \E n \in DOMAIN call.hits[c] :
         call.hits[c][n].record.id = id /\ call.hits[c][n].relevance > 0

SearchOK(call, ts) ==
  /\ call \in Searches
  /\ call.always \subseteq Matching(call.query, ts) /\ Matching(call.query, ts) \subseteq call.ever
  /\ \A c \in Kinds : \A n \in DOMAIN call.list[c] :
       relevance(call.query, call.list[c][n]) > 0 => call.list[c][n].id \in call.ever
  /\ \A c \in Kinds : \A n \in DOMAIN call.hits[c] :
       call.hits[c][n].relevance > 0 => call.hits[c][n].record.id \in call.ever
  /\ \A c \in Kinds : \A id \in call.always \intersect DOMAIN ts[c] : Sees(call, c, id)

FoundOK(call) == Found(call) /\ BestFirst(call)

SearchesOK ==
  \A t \in Threads :
    /\ calls[t].op = "search" => SearchOK(calls[t], trees)
    /\ calls[t].op = "found" => FoundOK(calls[t])

SInv == Base /\ OneKind /\ SearchesOK

\* What it is to match a query.
LEMMA MatchingIs ==
  ASSUME NEW query, NEW ts, NEW i
  PROVE  i \in Matching(query, ts) <=>
           \E c \in Kinds : i \in DOMAIN ts[c] /\ relevance(query, ts[c][i]) > 0
BY DEF Matching

\* The first state has the invariant of the searches.
LEMMA InitSInv == Init => SInv
<1> SUFFICES ASSUME Init PROVE SInv
  OBVIOUS
<1>1. TreesOK(trees) /\ TreesOK(disk)
  BY DEF Init, TreesOK, Empty
<1>0. /\ DOMAIN calls = Threads /\ made = {}
      /\ \A t \in Threads : calls[t] = Idle /\ calls[t].op = "none"
  <2>1. calls = [t \in Threads |-> Idle] /\ made = {}
    BY DEF Init
  <2> QED BY <2>1
<1>2. CallsOK /\ CopiesMade /\ ClosedIsIdle
  <2>1. CallOK(Idle) /\ ~Writing(Idle)
    BY DEF CallOK, Writing
  <2>2. \A t \in Threads : CallOK(calls[t]) /\ ~Writing(calls[t])
    BY <1>0, <2>1
  <2> QED BY <1>0, <2>2 DEF CallsOK, CopiesMade, ClosedIsIdle
<1>3. OneKind /\ SearchesOK
  BY <1>0 DEF OneKind, SearchesOK
<1>4. today \in 0..MaxDay
  BY StoreAssumption DEF Init
<1> QED BY <1>1, <1>2, <1>3, <1>4 DEF Init, SInv, Base

\* A record stays in one tree if no old one gets into another and new ones are in one.
LEMMA OneKindKept ==
  ASSUME OneKind,
         \A i \in made, c \in Kinds : Filed(i, c)' => Filed(i, c),
         \A i \in made' \ made : \A c, d \in Kinds : Filed(i, c)' /\ Filed(i, d)' => c = d
  PROVE  OneKind'
BY DEF OneKind

\* Thread t goes on, and no record changes.
LEMMA GoesOn ==
  ASSUME SInv, up, NEW t \in Threads,
         UNCHANGED <<up, trees, disk, today, made>>,
         DOMAIN calls' = Threads, \A u \in Threads \ {t} : calls'[u] = calls[u],
         CallOK(calls'[t]),
         Writing(calls'[t]) =>
           calls'[t].copy.id \in made /\ Filed(calls'[t].copy.id, calls'[t].copy.category),
         calls'[t].op = "search" => SearchOK(calls'[t], trees),
         calls'[t].op = "found" => FoundOK(calls'[t])
  PROVE  SInv'
<1>1. Base'
  BY DEF SInv, Base, TreesOK, CallsOK, CopiesMade, ClosedIsIdle
<1>2. \A i, c : Filed(i, c)' => Filed(i, c)
  BY DEF Filed
<1>3. OneKind'
  BY <1>2, OneKindKept DEF SInv
<1>4. SearchesOK'
  BY DEF SInv, SearchesOK
<1> QED BY <1>1, <1>3, <1>4 DEF SInv

(***************************************************************************)
(* The steps of a search                                                   *)
(***************************************************************************)

\* A search begins with all before it: all ids come after 0.
LEMMA SearchBegins == ASSUME SInv, NEW t \in Threads, Search(t) PROVE SInv'
<1>1. PICK query \in Queries :
        calls' = [calls EXCEPT ![t] =
          [op |-> "search", query |-> query, next |-> [c \in Kinds |-> 0],
           list |-> [c \in Kinds |-> <<>>], hits |-> [c \in Kinds |-> <<>>],
           left |-> Kinds, always |-> Matching(query, trees), ever |-> Matching(query, trees)]]
  BY DEF Search
<1> DEFINE call == calls'[t]
<1>2. /\ DOMAIN calls' = Threads /\ \A u \in Threads \ {t} : calls'[u] = calls[u]
      /\ call = [op |-> "search", query |-> query, next |-> [c \in Kinds |-> 0],
                 list |-> [c \in Kinds |-> <<>>], hits |-> [c \in Kinds |-> <<>>],
                 left |-> Kinds, always |-> Matching(query, trees), ever |-> Matching(query, trees)]
  BY <1>1 DEF SInv, Base, CallsOK
<1>3. Matching(query, trees) \subseteq Ids
  BY MatchingIs DEF SInv, Base, TreesOK
<1>4. call \in Searches
  <2>1. <<>> \in Seq(Records) /\ <<>> \in Seq(Hits)
    OBVIOUS
  <2>2. [c \in Kinds |-> <<>>] \in [Kinds -> Seq(Records)] /\ [c \in Kinds |-> <<>>] \in [Kinds -> Seq(Hits)]
    BY <2>1
  <2> QED BY <1>2, <1>3, <2>2 DEF Searches
<1>5. \A c \in Kinds : \A id \in DOMAIN trees[c] : id > 0
  <2>1. \A id \in Ids : id > 0
    BY StoreAssumption
  <2>2. \A c \in Kinds : DOMAIN trees[c] \subseteq Ids
    BY DEF SInv, Base, TreesOK
  <2> QED BY <2>1, <2>2
<1>6. SearchOK(call, trees)
  <2>1. \A c \in Kinds : call.list[c] = <<>> /\ call.hits[c] = <<>> /\ call.next[c] = 0 /\ c \in call.left
    BY <1>2
  <2>2. call.always = Matching(call.query, trees) /\ call.ever = Matching(call.query, trees)
    BY <1>2
  <2> HIDE DEF call
  <2>3. \A c \in Kinds : \A id \in call.always \intersect DOMAIN trees[c] : Sees(call, c, id)
    BY <1>5, <2>1 DEF Sees
  <2> QED BY <1>4, <2>1, <2>2, <2>3 DEF SearchOK
<1>7. CallOK(call) /\ ~Writing(call) /\ call.op = "search"
  BY <1>2 DEF CallOK, Writing
<1> HIDE DEF call
<1> QED BY <1>2, <1>6, <1>7, GoesOn DEF Search, Free, call

\* The id of a record is met in one tree only.
LEMMA MetOnce ==
  ASSUME Base, OneKind, NEW query, NEW id \in Matching(query, trees), NEW c \in Kinds, Filed(id, c)
  PROVE  id \in made /\ id \in DOMAIN trees[c] /\ relevance(query, trees[c][id]) > 0
<1>1. PICK d \in Kinds : id \in DOMAIN trees[d] /\ relevance(query, trees[d][id]) > 0
  BY MatchingIs
<1>2. id \in made /\ Filed(id, d)
  BY <1>1 DEF Base, TreesOK, Filed
<1> QED BY <1>1, <1>2 DEF OneKind

\* The next entry of an iterator is the least ahead.
LEMMA LeastAhead ==
  ASSUME NEW S \in SUBSET Nat, S # {}
  PROVE  LET id == CHOOSE i \in S : \A j \in S : i <= j IN id \in S /\ \A j \in S : id <= j
<1>1. Min(S) \in S /\ \A j \in S : Min(S) <= j
  BY LeastNumber
<1> QED BY <1>1

\* The next entry is listed, or was not there when the search began; none is skipped.
LEMMA EntryListed == ASSUME SInv, NEW t \in Threads, ListEntry(t) PROVE SInv'
<1>1. PICK c \in calls[t].left :
        /\ Ahead(calls[t], c) # {}
        /\ LET id == CHOOSE i \in Ahead(calls[t], c) : \A j \in Ahead(calls[t], c) : i <= j
           IN  calls' = [calls EXCEPT ![t].next[c] = id, ![t].list[c] = Append(@, trees[c][id])]
  BY DEF ListEntry
<1> DEFINE old == calls[t]
           call == calls'[t]
           id == CHOOSE i \in Ahead(old, c) : \A j \in Ahead(old, c) : i <= j
<1>2. /\ old.op = "search" /\ old \in Searches /\ SearchOK(old, trees) /\ c \in Kinds /\ up
      /\ DOMAIN calls = Threads
  <2>1. old.op = "search"
    BY DEF ListEntry
  <2>2. SearchOK(old, trees)
    BY <2>1 DEF SInv, SearchesOK
  <2> QED BY <1>1, <2>1, <2>2 DEF SInv, SearchOK, Searches, Base, ClosedIsIdle, CallsOK
<1>3. /\ Ahead(old, c) \in SUBSET Nat /\ Ahead(old, c) # {}
      /\ \A i \in Ahead(old, c) : i \in DOMAIN trees[c] /\ i > old.next[c]
      /\ \A i \in DOMAIN trees[c] : i > old.next[c] => i \in Ahead(old, c)
  <2>1. DOMAIN trees[c] \subseteq Nat
    BY <1>2, StoreAssumption DEF SInv, Base, TreesOK
  <2> QED BY <1>1, <2>1 DEF Ahead
<1>4. id \in Ahead(old, c) /\ \A j \in Ahead(old, c) : id <= j
  BY <1>3, LeastAhead
<1>5. calls' = [calls EXCEPT ![t].next[c] = id, ![t].list[c] = Append(@, trees[c][id])]
  BY <1>1
<1> HIDE DEF id
<1>6. /\ DOMAIN calls' = Threads /\ \A u \in Threads \ {t} : calls'[u] = calls[u]
      /\ call = [old EXCEPT !.next = [old.next EXCEPT ![c] = id],
                            !.list = [old.list EXCEPT ![c] = Append(old.list[c], trees[c][id])]]
  BY <1>2, <1>5 DEF Searches
<1> HIDE DEF old, call
<1>7. /\ id \in DOMAIN trees[c] /\ id \in Nat /\ trees[c][id] \in Records /\ trees[c][id].id = id
      /\ id \in made /\ Filed(id, c)
  BY <1>2, <1>3, <1>4 DEF SInv, Base, TreesOK, Filed
<1> DEFINE r == trees[c][id]
           longer == Append(old.list[c], r)
<1>8. /\ old.list[c] \in Seq(Records) /\ longer \in Seq(Records) /\ DOMAIN longer = 1..(Len(old.list[c]) + 1)
      /\ DOMAIN old.list[c] = 1..Len(old.list[c]) /\ Len(old.list[c]) \in Nat
      /\ \A n \in DOMAIN old.list[c] : n \in DOMAIN longer /\ longer[n] = old.list[c][n]
      /\ longer[Len(old.list[c]) + 1] = r
      /\ \A n \in DOMAIN longer : n \in DOMAIN old.list[c] \/ n = Len(old.list[c]) + 1
  <2>1. old.list[c] \in Seq(Records) /\ r \in Records
    BY <1>2, <1>7 DEF Searches
  <2> HIDE DEF r
  <2> QED BY <2>1
<1> HIDE DEF longer
<1>9. /\ call \in Searches /\ call.query = old.query /\ call.hits = old.hits /\ call.left = old.left
      /\ call.always = old.always /\ call.ever = old.ever /\ call.op = "search"
      /\ call.next[c] = id /\ call.list[c] = longer
      /\ \A d \in Kinds \ {c} : call.next[d] = old.next[d] /\ call.list[d] = old.list[d]
  <2>1. [old.next EXCEPT ![c] = id] \in [Kinds -> Nat] /\ [old.list EXCEPT ![c] = longer] \in [Kinds -> Seq(Records)]
    BY <1>2, <1>7, <1>8 DEF Searches
  <2>2. call = [old EXCEPT !.next = [old.next EXCEPT ![c] = id], !.list = [old.list EXCEPT ![c] = longer]]
    BY <1>6 DEF longer
  <2> QED BY <1>2, <2>1, <2>2 DEF Searches
<1>10. relevance(old.query, r) > 0 => id \in old.ever
  BY <1>2, <1>7, MatchingIs DEF SearchOK
<1>11. \A d \in Kinds : \A i \in old.always \intersect DOMAIN trees[d] : Sees(call, d, i)
  <2> SUFFICES ASSUME NEW d \in Kinds, NEW i \in old.always, i \in DOMAIN trees[d]
               PROVE  Sees(call, d, i)
    OBVIOUS
  <2>1. Sees(old, d, i)
    BY <1>2 DEF SearchOK
  <2>2. CASE d # c
    BY <1>9, <2>1, <2>2 DEF Sees
  <2>3. CASE d = c
    <3>1. CASE i = id
      <4>1. relevance(old.query, r) > 0
        <5>1. id \in Matching(old.query, trees)
          BY <1>2, <3>1 DEF SearchOK
        <5> QED BY <1>2, <1>7, <5>1, MetOnce DEF SInv
      <4>2. Len(old.list[c]) + 1 \in DOMAIN longer
        BY <1>8
      <4> QED BY <1>1, <1>7, <1>8, <1>9, <2>3, <3>1, <4>1, <4>2 DEF Sees, old
    <3>2. CASE i # id
      <4>1. CASE i > old.next[c]
        <5>1. id <= i /\ i \in Nat
          BY <1>3, <1>4, <2>3, <4>1
        <5>2. i > id
          BY <1>7, <3>2, <5>1
        <5> QED BY <1>1, <1>9, <2>3, <5>2 DEF Sees, old
      <4>2. CASE ~(i > old.next[c])
        BY <1>1, <1>8, <1>9, <2>1, <2>3, <4>2 DEF Sees, old
      <4> QED BY <4>1, <4>2
    <3> QED BY <3>1, <3>2
  <2> QED BY <2>2, <2>3
<1>12. \A d \in Kinds : \A n \in DOMAIN call.list[d] :
         relevance(call.query, call.list[d][n]) > 0 => call.list[d][n].id \in call.ever
  <2> SUFFICES ASSUME NEW d \in Kinds, NEW n \in DOMAIN call.list[d],
                      relevance(call.query, call.list[d][n]) > 0
               PROVE  call.list[d][n].id \in call.ever
    OBVIOUS
  <2>1. CASE d = c /\ n = Len(old.list[c]) + 1
    BY <1>7, <1>8, <1>9, <1>10, <2>1
  <2>2. CASE ~(d = c /\ n = Len(old.list[c]) + 1)
    <3>1. n \in DOMAIN old.list[d] /\ call.list[d][n] = old.list[d][n]
      BY <1>8, <1>9, <2>2
    <3> QED BY <1>2, <1>9, <3>1 DEF SearchOK
  <2> QED BY <2>1, <2>2
<1>13. SearchOK(call, trees)
  BY <1>2, <1>9, <1>11, <1>12 DEF SearchOK
<1>14. CallOK(call) /\ ~Writing(call)
  BY <1>9 DEF CallOK, Writing, Searches
<1> QED BY <1>2, <1>6, <1>9, <1>13, <1>14, GoesOn DEF ListEntry, call

\* What was listed is scored, and the hits stand for the list.
LEMMA ListScored == ASSUME SInv, NEW t \in Threads, ListEnds(t) PROVE SInv'
<1>1. PICK c \in calls[t].left :
        /\ Ahead(calls[t], c) = {}
        /\ calls' = [calls EXCEPT
             ![t].left = @ \ {c}, ![t].list[c] = <<>>,
             ![t].hits[c] = [n \in DOMAIN calls[t].list[c] |-> Hit(calls[t].query, calls[t].list[c][n])]]
  BY DEF ListEnds
<1> DEFINE old == calls[t]
           call == calls'[t]
           scored == [n \in DOMAIN old.list[c] |-> Hit(old.query, old.list[c][n])]
<1>2. /\ old.op = "search" /\ old \in Searches /\ SearchOK(old, trees) /\ c \in Kinds /\ up
      /\ DOMAIN calls = Threads /\ today \in 0..MaxDay
  <2>1. old.op = "search"
    BY DEF ListEnds
  <2>2. SearchOK(old, trees)
    BY <2>1 DEF SInv, SearchesOK
  <2>3. old \in Searches /\ c \in Kinds
    BY <1>1, <2>2 DEF SearchOK, Searches
  <2>4. today \in 0..MaxDay
    BY DEF SInv, Base
  <2>5. up /\ DOMAIN calls = Threads
    <3>1. ClosedIsIdle /\ CallsOK /\ up \in BOOLEAN
      BY DEF SInv, Base
    <3>2. calls[t].op # "none"
      BY <2>1
    <3> HIDE DEF old
    <3> QED BY <3>1, <3>2 DEF ClosedIsIdle, CallsOK
  <2> QED BY <2>1, <2>2, <2>3, <2>4, <2>5
<1>3. calls' = [calls EXCEPT ![t].left = @ \ {c}, ![t].list[c] = <<>>, ![t].hits[c] = scored]
  BY <1>1
<1>4. /\ old.list[c] \in Seq(Records) /\ old.query \in Queries
      /\ \A n \in DOMAIN old.list[c] : old.list[c][n] \in Records
  BY <1>2 DEF Searches
<1>5. /\ scored \in Seq(Hits) /\ DOMAIN scored = DOMAIN old.list[c]
      /\ \A n \in DOMAIN scored : /\ scored[n].record = old.list[c][n]
                                  /\ scored[n].relevance = relevance(old.query, old.list[c][n])
  <2>1. \A n \in DOMAIN old.list[c] :
          /\ scored[n] \in Hits /\ scored[n].record = old.list[c][n]
          /\ scored[n].relevance = relevance(old.query, old.list[c][n])
    BY <1>2, <1>4, HitIs
  <2>2. DOMAIN scored = DOMAIN old.list[c] /\ DOMAIN old.list[c] = 1..Len(old.list[c]) /\ Len(old.list[c]) \in Nat
    BY <1>4
  <2>3. scored \in [1..Len(old.list[c]) -> Hits]
    BY <2>1, <2>2
  <2> HIDE DEF scored, old
  <2> QED BY <2>1, <2>2, <2>3
<1> HIDE DEF scored
<1>6. /\ DOMAIN calls' = Threads /\ \A u \in Threads \ {t} : calls'[u] = calls[u]
      /\ call = [old EXCEPT !.left = old.left \ {c}, !.list = [old.list EXCEPT ![c] = <<>>],
                            !.hits = [old.hits EXCEPT ![c] = scored]]
  BY <1>2, <1>3 DEF Searches
<1> HIDE DEF old, call
<1>7. /\ call \in Searches /\ call.query = old.query /\ call.left = old.left \ {c} /\ call.next = old.next
      /\ call.always = old.always /\ call.ever = old.ever /\ call.op = "search"
      /\ call.list[c] = <<>> /\ call.hits[c] = scored
      /\ \A d \in Kinds \ {c} : call.hits[d] = old.hits[d] /\ call.list[d] = old.list[d]
  <2>1. /\ [old.list EXCEPT ![c] = <<>>] \in [Kinds -> Seq(Records)]
        /\ [old.hits EXCEPT ![c] = scored] \in [Kinds -> Seq(Hits)]
    BY <1>2, <1>5 DEF Searches
  <2> QED BY <1>2, <1>6, <2>1 DEF Searches
<1>8. \A d \in Kinds : \A i \in old.always \intersect DOMAIN trees[d] : Sees(call, d, i)
  <2> SUFFICES ASSUME NEW d \in Kinds, NEW i \in old.always, i \in DOMAIN trees[d]
               PROVE  Sees(call, d, i)
    OBVIOUS
  <2>1. Sees(old, d, i)
    BY <1>2 DEF SearchOK
  <2>2. CASE d # c
    BY <1>7, <2>1, <2>2 DEF Sees
  <2>3. CASE d = c
    <3>1. ~(i > old.next[c])
      BY <1>1, <2>3 DEF Ahead, old
    <3>2. PICK n \in DOMAIN old.list[c] : old.list[c][n].id = i /\ relevance(old.query, old.list[c][n]) > 0
      BY <1>1, <2>1, <2>3, <3>1 DEF Sees, old
    <3>3. n \in DOMAIN call.hits[c] /\ call.hits[c][n].record.id = i /\ call.hits[c][n].relevance > 0
      BY <1>5, <1>7, <3>2
    <3>4. c \notin call.left
      BY <1>7
    <3> QED BY <2>3, <3>3, <3>4 DEF Sees
  <2> QED BY <2>2, <2>3
<1>9. \A d \in Kinds : \A n \in DOMAIN call.list[d] :
        relevance(call.query, call.list[d][n]) > 0 => call.list[d][n].id \in call.ever
  BY <1>2, <1>7 DEF SearchOK
<1>10. \A d \in Kinds : \A n \in DOMAIN call.hits[d] :
         call.hits[d][n].relevance > 0 => call.hits[d][n].record.id \in call.ever
  <2> SUFFICES ASSUME NEW d \in Kinds, NEW n \in DOMAIN call.hits[d], call.hits[d][n].relevance > 0
               PROVE  call.hits[d][n].record.id \in call.ever
    OBVIOUS
  <2>1. CASE d = c
    <3>1. /\ n \in DOMAIN old.list[c] /\ call.hits[d][n].record = old.list[c][n]
          /\ call.hits[d][n].relevance = relevance(old.query, old.list[c][n])
      BY <1>5, <1>7, <2>1
    <3> QED BY <1>2, <1>7, <3>1 DEF SearchOK
  <2>2. CASE d # c
    BY <1>2, <1>7, <2>2 DEF SearchOK
  <2> QED BY <2>1, <2>2
<1>11. SearchOK(call, trees)
  BY <1>2, <1>7, <1>8, <1>9, <1>10 DEF SearchOK
<1>12. CallOK(call) /\ ~Writing(call)
  BY <1>7 DEF CallOK, Writing, Searches
<1> QED BY <1>2, <1>6, <1>7, <1>11, <1>12, GoesOn DEF ListEnds, call

\* When no category is left, the hits are all that was seen.
LEMMA SearchDone == ASSUME SInv, NEW t \in Threads, SearchEnds(t) PROVE SInv'
<1> DEFINE old == calls[t]
           all == Joined(old.hits)
           call == calls'[t]
<1>1. SearchOK(old, trees) /\ old \in Searches /\ old.left = {} /\ old.op = "search"
  <2>1. old.op = "search" /\ old.left = {}
    BY DEF SearchEnds
  <2>2. SearchOK(old, trees)
    BY <2>1 DEF SInv, SearchesOK
  <2> QED BY <2>1, <2>2 DEF SearchOK
<1>2. up /\ DOMAIN calls = Threads
  <2>1. ClosedIsIdle /\ CallsOK /\ up \in BOOLEAN
    BY DEF SInv, Base
  <2>2. calls[t].op # "none"
    BY <1>1
  <2> HIDE DEF old
  <2> QED BY <2>1, <2>2 DEF ClosedIsIdle, CallsOK
<1>3. /\ DOMAIN calls' = Threads /\ \A u \in Threads \ {t} : calls'[u] = calls[u]
      /\ call = [op |-> "found", query |-> old.query, all |-> all, hits |-> Ranked(all),
                 always |-> old.always, ever |-> old.ever]
  <2>1. calls' = [calls EXCEPT ![t] =
           [op |-> "found", query |-> old.query, all |-> all, hits |-> Ranked(all),
            always |-> old.always, ever |-> old.ever]]
    BY DEF SearchEnds
  <2> HIDE DEF old, all
  <2> QED BY <1>2, <2>1
<1> HIDE DEF old, call
<1>4. all \in Seq(Hits) /\ \A h : h \in Range(all) <=> \E c \in Kinds : h \in Range(old.hits[c])
  <2>1. old.hits \in [Kinds -> Seq(Hits)]
    BY <1>1 DEF Searches
  <2> QED BY <2>1, JoinedIs
<1> HIDE DEF all
<1>5. /\ Range(Ranked(all)) \subseteq Relevant(all)
      /\ Relevant(all) \subseteq Range(Ranked(all)) \/ Len(Ranked(all)) = limit
      /\ \A n \in DOMAIN Ranked(all) :
           \A h \in Range(all) \ {Ranked(all)[m] : m \in 1..n} : ~Better(h, Ranked(all)[n])
  BY <1>4, RankedIs
<1>6. ASSUME NEW h \in Relevant(all) PROVE h.record.id \in old.ever
  <2>1. h \in Range(all) /\ h.relevance > 0
    BY DEF Relevant, Range
  <2>2. PICK c \in Kinds : h \in Range(old.hits[c])
    BY <1>4, <2>1
  <2>3. PICK n \in DOMAIN old.hits[c] : h = old.hits[c][n]
    BY <2>2 DEF Range
  <2> QED BY <1>1, <2>1, <2>3 DEF SearchOK
<1>7. ASSUME NEW id \in old.always PROVE \E h \in Relevant(all) : h.record.id = id
  <2>1. PICK c \in Kinds : id \in DOMAIN trees[c]
    BY <1>1, MatchingIs DEF SearchOK
  <2>2. Sees(old, c, id)
    BY <1>1, <2>1 DEF SearchOK
  <2>3. PICK n \in DOMAIN old.hits[c] : old.hits[c][n].record.id = id /\ old.hits[c][n].relevance > 0
    BY <1>1, <2>2 DEF Sees
  <2>4. old.hits[c][n] \in Range(all)
    <3>1. old.hits[c][n] \in Range(old.hits[c])
      BY <2>3 DEF Range
    <3> QED BY <1>4, <3>1
  <2>5. old.hits[c][n] \in Relevant(all)
    BY <2>3, <2>4 DEF Relevant, Range
  <2> QED BY <2>3, <2>5
<1>8. Found(call)
  <2> DEFINE found == {h.record.id : h \in Range(Ranked(all))}
  <2>1. found \subseteq old.ever
    BY <1>5, <1>6
  <2>2. Relevant(all) \subseteq Range(Ranked(all)) => old.always \subseteq found
    BY <1>7
  <2>3. found = {h.record.id : h \in Range(call.hits)} /\ call.ever = old.ever
        /\ call.always = old.always /\ call.hits = Ranked(all)
    BY <1>3
  <2> HIDE DEF found
  <2> QED BY <1>5, <2>1, <2>2, <2>3 DEF Found
<1>9. BestFirst(call)
  <2>1. call.hits = Ranked(all) /\ call.all = all
    BY <1>3
  <2> QED BY <1>5, <2>1 DEF BestFirst
<1>10. CallOK(call) /\ ~Writing(call) /\ call.op = "found"
  BY <1>3 DEF CallOK, Writing
<1> QED BY <1>2, <1>3, <1>8, <1>9, <1>10, GoesOn DEF SearchEnds, FoundOK, call

\* The thread is done, and no record has changed.
LEMMA CallOver ==
  ASSUME SInv, NEW t \in Threads, calls[t].op # "none",
         UNCHANGED <<up, trees, disk, today, made>>, calls' = [calls EXCEPT ![t] = Idle]
  PROVE  SInv'
<1>1. ClosedIsIdle /\ CallsOK /\ up \in BOOLEAN
  BY DEF SInv, Base
<1>2. up /\ DOMAIN calls = Threads
  BY <1>1 DEF ClosedIsIdle, CallsOK
<1>3. DOMAIN calls' = Threads /\ calls'[t] = Idle /\ \A u \in Threads \ {t} : calls'[u] = calls[u]
  BY <1>2
<1>4. CallOK(Idle) /\ ~Writing(Idle)
  BY DEF CallOK, Writing
<1>5. calls'[t].op = "none" /\ CallOK(calls'[t]) /\ ~Writing(calls'[t])
  BY <1>3, <1>4
<1> QED BY <1>2, <1>3, <1>5, GoesOn

\* A search that returns or fails has found nothing wrong.
LEMMA SearchReturned == ASSUME SInv, NEW t \in Threads, SearchReturns(t) PROVE SInv'
<1>1. calls[t].op # "none"
  BY DEF SearchReturns
<1> QED BY <1>1, CallOver DEF SearchReturns

(***************************************************************************)
(* A copy is taken                                                         *)
(***************************************************************************)

\* A copy to be written back is of a record in the same category.
LEMMA CopyInHand ==
  ASSUME SInv, up, NEW t \in Threads, NEW c \in Kinds, NEW id \in DOMAIN trees[c],
         NEW op \in {"recall", "update"}, NEW r \in Records, r.id = id, r.category = c,
         UNCHANGED <<up, trees, disk, today, made>>,
         calls' = [calls EXCEPT ![t] = [op |-> op, copy |-> r, stale |-> FALSE]]
  PROVE  SInv'
<1>1. DOMAIN calls = Threads /\ id \in made /\ Filed(id, c)
  BY DEF SInv, Base, CallsOK, TreesOK, Filed
<1> DEFINE call == [op |-> op, copy |-> r, stale |-> FALSE]
<1>2. call.op \in {"recall", "update"} /\ call.copy = r /\ CallOK(call)
  BY DEF CallOK, Writing
<1> HIDE DEF call
<1>3. DOMAIN calls' = Threads /\ calls'[t] = call /\ \A u \in Threads \ {t} : calls'[u] = calls[u]
  BY <1>1 DEF call
<1> QED BY <1>1, <1>2, <1>3, GoesOn

\* recall and the judgement take such copies.
LEMMA CopiesTaken == ASSUME SInv, NEW t \in Threads, Recall(t) \/ Judge(t) PROVE SInv'
<1>0. today \in Nat /\ TreesOK(trees)
  BY StoreAssumption DEF SInv, Base
<1>1. CASE Recall(t)
  <2>1. PICK c \in Kinds : \E id \in DOMAIN trees[c] :
          calls' = [calls EXCEPT ![t] =
                      [op |-> "recall", copy |-> Touched(trees[c][id]), stale |-> FALSE]]
    BY <1>1 DEF Recall
  <2> PICK id \in DOMAIN trees[c] :
         calls' = [calls EXCEPT ![t] =
                     [op |-> "recall", copy |-> Touched(trees[c][id]), stale |-> FALSE]]
    BY <2>1
  <2>2. trees[c][id] \in Records /\ trees[c][id].id = id /\ trees[c][id].category = c
    BY <1>0 DEF TreesOK
  <2>3. /\ Touched(trees[c][id]) \in Records
        /\ Touched(trees[c][id]).id = id /\ Touched(trees[c][id]).category = c
    BY <1>0, <2>2, TouchedStrengthens
  <2> QED BY <1>1, <2>3, CopyInHand DEF Recall, Free
<1>2. CASE Judge(t)
  <2>1. PICK c \in Kinds, importance \in Importances : \E id \in DOMAIN trees[c] :
          calls' = [calls EXCEPT ![t] =
                      [op |-> "update", copy |-> apply_importance(trees[c][id], importance),
                       stale |-> FALSE]]
    BY <1>2 DEF Judge
  <2> PICK id \in DOMAIN trees[c] :
         calls' = [calls EXCEPT ![t] =
                     [op |-> "update", copy |-> apply_importance(trees[c][id], importance),
                      stale |-> FALSE]]
    BY <2>1
  <2>2. trees[c][id] \in Records /\ trees[c][id].id = id /\ trees[c][id].category = c
    BY <1>0 DEF TreesOK
  <2> DEFINE r == apply_importance(trees[c][id], importance)
  <2>3. r \in Records /\ r.id = id /\ r.category = c
    BY <2>2, StoreAssumption, ImportanceOnlyRises
  <2>4. calls' = [calls EXCEPT ![t] = [op |-> "update", copy |-> r, stale |-> FALSE]]
    OBVIOUS
  <2> HIDE DEF r
  <2>5. up /\ UNCHANGED <<up, trees, disk, today, made>>
    BY <1>2 DEF Judge, Free
  <2> QED BY <2>3, <2>4, <2>5, CopyInHand
<1> QED BY <1>1, <1>2

(***************************************************************************)
(* A record changes while others search                                    *)
(***************************************************************************)

\* What a change does to a search: it notes what matches now.
LEMMA SearchNotes ==
  ASSUME NEW call, SearchOK(call, trees), TreesOK(trees), TreesOK(trees)', made' \subseteq Ids, OneKind,
         \A c \in Kinds : \A j \in DOMAIN trees'[c] : Filed(j, c) \/ j \notin made
  PROVE  SearchOK([call EXCEPT !.always = @ \intersect Matching(call.query, trees'),
                               !.ever = @ \union Matching(call.query, trees')], trees')
<1> DEFINE now == Matching(call.query, trees')
           new == [call EXCEPT !.always = call.always \intersect now, !.ever = call.ever \union now]
<1>1. now \subseteq Ids
  <2>1. \A c \in Kinds : DOMAIN trees'[c] \subseteq Ids
    BY DEF TreesOK
  <2> QED BY <2>1 DEF Matching
<1> HIDE DEF now
<1>2. /\ new \in Searches /\ new.query = call.query /\ new.next = call.next /\ new.list = call.list
      /\ new.hits = call.hits /\ new.left = call.left
      /\ new.always = call.always \intersect now /\ new.ever = call.ever \union now
  BY <1>1 DEF SearchOK, Searches
<1> HIDE DEF new
<1>3. new.always \subseteq now /\ now \subseteq new.ever
  BY <1>2
<1>4. ASSUME NEW c \in Kinds, NEW id \in new.always, id \in DOMAIN trees'[c]
      PROVE  Sees(new, c, id)
  <2>1. id \in call.always /\ id \in Matching(call.query, trees)
    BY <1>2, <1>4 DEF SearchOK
  <2>2. PICK d \in Kinds : id \in DOMAIN trees[d]
    BY <2>1, MatchingIs
  <2>3. id \in made /\ Filed(id, d)
    BY <2>2 DEF TreesOK, Filed
  <2>4. Filed(id, c)
    BY <1>4, <2>3
  <2>5. c = d
    BY <2>3, <2>4 DEF OneKind
  <2>6. Sees(call, c, id)
    BY <2>1, <2>2, <2>5 DEF SearchOK
  <2> QED BY <1>2, <2>6 DEF Sees
<1>5. \A c \in Kinds : \A n \in DOMAIN new.list[c] :
        relevance(new.query, new.list[c][n]) > 0 => new.list[c][n].id \in new.ever
  BY <1>2 DEF SearchOK
<1>6. \A c \in Kinds : \A n \in DOMAIN new.hits[c] :
        new.hits[c][n].relevance > 0 => new.hits[c][n].record.id \in new.ever
  BY <1>2 DEF SearchOK
<1>7. now = Matching(new.query, trees')
  BY <1>2 DEF now
<1>8. SearchOK(new, trees')
  BY <1>2, <1>3, <1>4, <1>5, <1>6, <1>7 DEF SearchOK
<1> QED BY <1>8 DEF new, now

\* Thread t changes record id, which stays in its tree, leaves it, or is new.
Alters(t, id) ==
  /\ up /\ Changed(t, id, trees', Idle) /\ UNCHANGED <<up, disk, today>>
  /\ made \subseteq made' /\ made' \subseteq Ids /\ TreesOK(trees)'
  /\ \A c \in Kinds : \A j \in DOMAIN trees'[c] : Filed(j, c) \/ j \notin made
  /\ \A j \in made' \ made : \A c, d \in Kinds : j \in DOMAIN trees'[c] \intersect DOMAIN trees'[d] => c = d

\* Every such change keeps the invariant, for the searches it happens under too.
LEMMA AltersKeeps == ASSUME SInv, NEW t \in Threads, NEW id, Alters(t, id) PROVE SInv'
<1>0. /\ CallsOK /\ TreesOK(trees) /\ TreesOK(disk) /\ CopiesMade /\ OneKind /\ SearchesOK
      /\ today \in 0..MaxDay
  BY DEF SInv, Base
<1>1. /\ CallsOK' /\ calls'[t] = Idle
      /\ \A u \in Threads :
           Writing(calls'[u]) => Writing(calls[u]) /\ calls'[u].copy = calls[u].copy
  BY <1>0, OthersNote DEF Alters
<1>2. TreesOK(disk)'
  BY <1>0 DEF Alters, TreesOK
<1>3. CopiesMade' /\ ClosedIsIdle'
  BY <1>0, <1>1 DEF Alters, CopiesMade, ClosedIsIdle
<1>4. Base'
  BY <1>0, <1>1, <1>2, <1>3 DEF Alters, Base
<1>5. \A i \in made, c \in Kinds : Filed(i, c)' => Filed(i, c)
  <2> SUFFICES ASSUME NEW i \in made, NEW c \in Kinds, Filed(i, c)' PROVE Filed(i, c)
    OBVIOUS
  <2>1. CASE i \in DOMAIN trees'[c]
    BY <2>1 DEF Alters
  <2>2. CASE i \in DOMAIN disk'[c]
    BY <2>2 DEF Alters, Filed
  <2>3. CASE \E u \in Threads : Writing(calls'[u]) /\ calls'[u].copy.id = i /\ calls'[u].copy.category = c
    BY <1>1, <2>3 DEF Filed
  <2> QED BY <2>1, <2>2, <2>3 DEF Filed
<1>6. \A i \in made' \ made : \A c \in Kinds : Filed(i, c)' => i \in DOMAIN trees'[c]
  <2> SUFFICES ASSUME NEW i \in made' \ made, NEW c \in Kinds, Filed(i, c)', i \notin DOMAIN trees'[c]
               PROVE  FALSE
    OBVIOUS
  <2>1. i \notin DOMAIN disk'[c]
    BY <1>0 DEF Alters, TreesOK
  <2>2. \A u \in Threads : Writing(calls'[u]) => calls'[u].copy.id # i
    BY <1>0, <1>1 DEF CopiesMade
  <2> QED BY <2>1, <2>2 DEF Filed
<1>7. OneKind'
  <2>1. \A i \in made' \ made : \A c, d \in Kinds : Filed(i, c)' /\ Filed(i, d)' => c = d
    BY <1>6 DEF Alters
  <2> QED BY <1>0, <1>5, <2>1, OneKindKept
<1>8. ASSUME NEW u \in Threads, u # t
      PROVE  /\ calls'[u].op = "search" => SearchOK(calls'[u], trees')
             /\ calls'[u].op = "found" => FoundOK(calls'[u])
  <2>1. calls'[u] = Noted(calls[u], id, trees') /\ CallOK(calls[u])
    BY <1>0, <1>8 DEF Alters, Changed, CallsOK
  <2>2. CASE calls[u].op = "search"
    <3>1. SearchOK(calls[u], trees)
      BY <1>0, <2>2 DEF SearchesOK
    <3>2. Noted(calls[u], id, trees') =
            [calls[u] EXCEPT !.always = @ \intersect Matching(calls[u].query, trees'),
                             !.ever = @ \union Matching(calls[u].query, trees')]
      BY <2>2, Zenon DEF Noted
    <3>3. SearchOK(calls'[u], trees')
      <4>1. /\ TreesOK(trees)' /\ made' \subseteq Ids
            /\ \A c \in Kinds : \A j \in DOMAIN trees'[c] : Filed(j, c) \/ j \notin made
        BY DEF Alters
      <4> DEFINE call == calls[u]
      <4> HIDE DEF call
      <4>2. SearchOK(call, trees)
        BY <3>1 DEF call
      <4>3. SearchOK([call EXCEPT !.always = @ \intersect Matching(call.query, trees'),
                                  !.ever = @ \union Matching(call.query, trees')], trees')
        BY <1>0, <4>1, <4>2, SearchNotes, Zenon
      <4> QED BY <2>1, <3>2, <4>3, Zenon DEF call
    <3>4. calls'[u].op = "search"
      BY <3>3 DEF SearchOK, Searches
    <3> QED BY <3>3, <3>4
  <2>3. CASE calls[u].op = "found"
    <3>1. FoundOK(calls[u])
      BY <1>0, <2>3 DEF SearchesOK
    <3>2. Noted(calls[u], id, trees') = calls[u]
      BY <2>3 DEF Noted
    <3> QED BY <2>1, <2>3, <3>1, <3>2
  <2>4. CASE calls[u].op \notin {"search", "found"}
    <3>1. calls'[u].op \notin {"search", "found"}
      BY <2>1, <2>4 DEF Noted, CallOK, Writing
    <3> QED BY <3>1
  <2> QED BY <2>2, <2>3, <2>4
<1>9. SearchesOK'
  <2>1. \A u \in Threads : /\ calls'[u].op = "search" => SearchOK(calls'[u], trees')
                           /\ calls'[u].op = "found" => FoundOK(calls'[u])
    BY <1>1, <1>8
  <2>2. \A call : SearchOK(call, trees)' <=> SearchOK(call, trees')
    OBVIOUS
  <2> QED BY <2>1 DEF SearchesOK, SearchOK, FoundOK, Found, BestFirst
<1> QED BY <1>4, <1>7, <1>9 DEF SInv

\* A new record is such a change.
LEMMA PutAlters ==
  ASSUME SInv, NEW t \in Threads, NEW c \in Kinds, NEW words \in Words \union {LogWords},
         NEW trigger \in Reasons, NEW importance \in Int, PutNew(t, c, words, trigger, importance)
  PROVE  \E id : Alters(t, id)
<1>0. TreesOK(trees) /\ today \in Nat /\ made \subseteq Ids
  BY StoreAssumption DEF SInv, Base
<1>1. PICK id \in Ids \ made :
        /\ made' = made \union {id}
        /\ Changed(t, id, Inserted(apply_importance(Record(id, c, words, trigger), importance)), Idle)
  BY DEF PutNew
<1> DEFINE r == apply_importance(Record(id, c, words, trigger), importance)
<1>2. Record(id, c, words, trigger) \in Records
  BY <1>0, StoreAssumption DEF Record, Records
<1>3. r \in Records /\ r.id = id /\ r.category = c
  BY <1>2, ImportanceOnlyRises DEF Record
<1> HIDE DEF r
<1>4. trees' = Inserted(r) /\ Changed(t, id, trees', Idle)
  BY <1>1 DEF Changed, r
<1>5. TreesOK(trees)'
  BY <1>0, <1>1, <1>3, <1>4, InsertedTrees DEF TreesOK
<1>6. up /\ UNCHANGED <<up, disk, today>> /\ made \subseteq made' /\ made' \subseteq Ids
  BY <1>0, <1>1 DEF PutNew, Free
<1>7. \A k \in Kinds : \A j \in DOMAIN trees'[k] : j \in DOMAIN trees[k] \/ (j = id /\ k = c)
  BY <1>0, <1>3, <1>4, InsertedTrees
<1>8. \A k \in Kinds : id \notin DOMAIN trees[k]
  BY <1>0, <1>1 DEF TreesOK
<1>9. Alters(t, id)
  BY <1>1, <1>4, <1>5, <1>6, <1>7, <1>8 DEF Alters, Filed
<1> QED BY <1>9

\* So is what the constructors and the audit logs do.
LEMMA NewRecords ==
  ASSUME SInv, NEW t \in Threads,
         NewMemory(t) \/ NewMemoir(t) \/ log_intervention(t) \/ log_approval(t)
           \/ log_explicit_declaration(t) \/ log_grant_event(t)
  PROVE  SInv'
<1>1. CASE NewMemory(t)
  BY <1>1, PutAlters, AltersKeeps DEF NewMemory, Reasons
<1>2. CASE NewMemoir(t)
  BY <1>2, PutAlters, AltersKeeps, StoreAssumption DEF NewMemoir, Reasons
<1>3. CASE \/ log_intervention(t) \/ log_approval(t)
          \/ log_explicit_declaration(t) \/ log_grant_event(t)
  <2>1. {"Arona", "System"} \subseteq Kinds /\ "none" \in Reasons
    BY StoreAssumption DEF Reasons
  <2> QED
    BY <1>3, <2>1, PutAlters, AltersKeeps
       DEF log_intervention, log_approval, log_explicit_declaration, log_grant_event
<1> QED
  BY <1>1, <1>2, <1>3

\* So is writing back: the copy goes to the tree it came from, if it is gone too.
LEMMA CopyWritten == ASSUME SInv, NEW t \in Threads, WriteBack(t) PROVE SInv'
<1> DEFINE r == calls[t].copy
<1>0. TreesOK(trees) /\ CallsOK /\ CopiesMade /\ ClosedIsIdle /\ made \subseteq Ids /\ up \in BOOLEAN
  BY DEF SInv, Base
<1>1. Writing(calls[t]) /\ calls[t].op # "none"
  BY DEF WriteBack, Writing
<1>2. up /\ r \in Records /\ r.id \in made
  BY <1>0, <1>1 DEF CallsOK, CallOK, CopiesMade, ClosedIsIdle
<1>3. CASE Changed(t, r.id, Inserted(r), Idle)
  <2>1. Filed(r.id, r.category)
    BY <1>1 DEF Filed
  <2> HIDE DEF r
  <2>2. trees' = Inserted(r) /\ Changed(t, r.id, trees', Idle)
    BY <1>3 DEF Changed
  <2>3. UNCHANGED <<up, disk, today, made>>
    BY DEF WriteBack
  <2>4. TreesOK(trees)'
    BY <1>0, <1>2, <2>2, <2>3, InsertedTrees DEF TreesOK
  <2>5. \A k \in Kinds : \A j \in DOMAIN trees'[k] :
          j \in DOMAIN trees[k] \/ (j = r.id /\ k = r.category)
    BY <1>0, <1>2, <2>2, InsertedTrees
  <2>6. Alters(t, r.id)
    BY <1>0, <1>2, <2>1, <2>2, <2>3, <2>4, <2>5 DEF Alters, Filed
  <2> QED BY <2>6, AltersKeeps
<1>4. CASE calls' = [calls EXCEPT ![t] = Idle] /\ UNCHANGED <<trees, writes>>
  BY <1>1, <1>4, CallOver DEF WriteBack
<1> QED BY <1>3, <1>4 DEF WriteBack

\* So is a deletion, in any build.
LEMMA Deleted == ASSUME SInv, NEW t \in Threads, Delete(t) PROVE SInv'
<1>0. TreesOK(trees) /\ made \subseteq Ids
  BY DEF SInv, Base
<1>1. PICK c \in Kinds : \E id \in DOMAIN trees[c] :
        Changed(t, id, [trees EXCEPT ![c] = [i \in DOMAIN @ \ {id} |-> @[i]]], Idle)
  BY DEF Delete
<1>2. PICK id \in DOMAIN trees[c] :
        Changed(t, id, [trees EXCEPT ![c] = [i \in DOMAIN @ \ {id} |-> @[i]]], Idle)
  BY <1>1
<1>3. /\ trees' = [trees EXCEPT ![c] = [i \in DOMAIN trees[c] \ {id} |-> trees[c][i]]]
      /\ Changed(t, id, trees', Idle)
  BY <1>2 DEF Changed
<1>4. up /\ UNCHANGED <<up, disk, today, made>>
  BY DEF Delete, Free
<1>5. TreesOK(trees)'
  BY <1>0, <1>3, <1>4 DEF TreesOK
<1>6. \A k \in Kinds : DOMAIN trees'[k] \subseteq DOMAIN trees[k]
  BY <1>0, <1>3 DEF TreesOK
<1>7. Alters(t, id)
  BY <1>0, <1>3, <1>4, <1>5, <1>6 DEF Alters, Filed
<1> QED BY <1>7, AltersKeeps

(***************************************************************************)
(* Flush, crash, open, the clock                                           *)
(***************************************************************************)

\* A flush files no record anywhere else.
LEMMA Flushed == ASSUME SInv, NEW t \in Threads, Flush(t) PROVE SInv'
<1>1. disk' = trees /\ UNCHANGED <<up, trees, calls, today, made>>
  BY DEF Flush
<1>2. Base'
  BY <1>1 DEF SInv, Base, TreesOK, CallsOK, CopiesMade, ClosedIsIdle
<1>3. \A i, c : Filed(i, c)' => Filed(i, c)
  BY <1>1 DEF Filed
<1>4. OneKind'
  BY <1>1, <1>3, OneKindKept DEF SInv
<1>5. SearchesOK'
  BY <1>1 DEF SInv, SearchesOK
<1> QED BY <1>2, <1>4, <1>5 DEF SInv

\* No thread is in a call after the step.
LEMMA AllIdle ==
  ASSUME SInv, UNCHANGED made, up' \in BOOLEAN, today' \in 0..MaxDay,
         DOMAIN calls' = Threads, \A t \in Threads : calls'[t] = Idle,
         TreesOK(trees)', TreesOK(disk)',
         \A c \in Kinds : DOMAIN trees'[c] \union DOMAIN disk'[c] \subseteq DOMAIN trees[c] \union DOMAIN disk[c]
  PROVE  SInv'
<1>1. DOMAIN calls' = Threads /\ \A t \in Threads : calls'[t] = Idle /\ calls'[t].op = "none"
  OBVIOUS
<1>2. CallOK(Idle) /\ ~Writing(Idle)
  BY DEF CallOK, Writing
<1>3. \A t \in Threads : CallOK(calls'[t]) /\ ~Writing(calls'[t])
  BY <1>1, <1>2
<1>4. CallsOK' /\ CopiesMade' /\ ClosedIsIdle' /\ SearchesOK'
  BY <1>1, <1>3 DEF CallsOK, CopiesMade, ClosedIsIdle, SearchesOK
<1>5. Base'
  BY <1>4 DEF SInv, Base
<1>6. \A i, c : c \in Kinds /\ Filed(i, c)' => Filed(i, c)
  BY <1>3 DEF Filed
<1>7. OneKind'
  BY <1>6, OneKindKept DEF SInv
<1> QED BY <1>4, <1>5, <1>7 DEF SInv

\* A crash ends all searches, and open and the clock find none.
LEMMA Restarts == ASSUME SInv, Crash \/ Open \/ DayPasses PROVE SInv'
<1>0. /\ TreesOK(trees) /\ TreesOK(disk) /\ CallsOK /\ ClosedIsIdle /\ today \in 0..MaxDay /\ up \in BOOLEAN
  BY DEF SInv, Base
<1>1. CASE Crash
  <2>1. /\ up' = FALSE /\ (disk' = disk \/ disk' = trees) /\ trees' = Empty
        /\ calls' = [t \in Threads |-> Idle] /\ UNCHANGED <<today, made>>
    BY <1>1 DEF Crash
  <2>2. TreesOK(trees)' /\ TreesOK(disk)' /\ \A c \in Kinds : DOMAIN trees'[c] = {}
    BY <1>0, <2>1 DEF TreesOK, Empty
  <2> QED BY <1>0, <2>1, <2>2, AllIdle
<1>2. CASE Open
  <2>1. /\ ~up /\ up' = TRUE /\ trees' = disk /\ UNCHANGED <<disk, calls, today, made>>
    BY <1>2 DEF Open
  <2>2. \A t \in Threads : calls[t] = Idle
    BY <1>0, <2>1 DEF ClosedIsIdle
  <2>3. DOMAIN calls' = Threads /\ \A t \in Threads : calls'[t] = Idle
    BY <1>0, <2>1, <2>2 DEF CallsOK
  <2>4. TreesOK(trees)' /\ TreesOK(disk)'
    BY <1>0, <2>1 DEF TreesOK
  <2> QED BY <1>0, <2>1, <2>3, <2>4, AllIdle
<1>3. CASE DayPasses
  <2>1. /\ today < MaxDay /\ today' = today + 1 /\ \A t \in Threads : calls[t] = Idle
        /\ UNCHANGED <<up, trees, disk, calls, made>>
    BY <1>3 DEF DayPasses
  <2>2. DOMAIN calls' = Threads /\ \A t \in Threads : calls'[t] = Idle
    BY <1>0, <2>1 DEF CallsOK
  <2>3. TreesOK(trees)' /\ TreesOK(disk)'
    BY <1>0, <2>1 DEF TreesOK
  <2>4. today' \in 0..MaxDay
    BY <1>0, <2>1, StoreAssumption
  <2> QED BY <1>0, <2>1, <2>2, <2>3, <2>4, AllIdle
<1> QED BY <1>1, <1>2, <1>3

\* A step that changes nothing.
LEMMA SameSInv == ASSUME SInv, UNCHANGED vars PROVE SInv'
<1>1. UNCHANGED <<up, trees, disk, calls, today, made>>
  BY DEF vars
<1>2. Base'
  BY <1>1 DEF SInv, Base, TreesOK, CallsOK, CopiesMade, ClosedIsIdle
<1>3. \A i, c : Filed(i, c)' => Filed(i, c)
  BY <1>1 DEF Filed
<1>4. OneKind'
  BY <1>1, <1>3, OneKindKept DEF SInv
<1>5. SearchesOK'
  BY <1>1 DEF SInv, SearchesOK
<1> QED BY <1>2, <1>4, <1>5 DEF SInv

\* Every step keeps the invariant of the searches.
LEMMA StepSInv == ASSUME SInv, [Next]_vars PROVE SInv'
<1>1. CASE \E t \in Threads :
             \/ NewMemory(t) \/ NewMemoir(t) \/ log_intervention(t) \/ log_approval(t)
             \/ log_explicit_declaration(t) \/ log_grant_event(t)
  BY <1>1, NewRecords
<1>2. CASE \E t \in Threads : Recall(t) \/ Judge(t) \/ WriteBack(t) \/ Delete(t) \/ Flush(t)
  BY <1>2, CopiesTaken, CopyWritten, Deleted, Flushed
<1>3. CASE \E t \in Threads :
             Search(t) \/ ListEntry(t) \/ ListEnds(t) \/ SearchEnds(t) \/ SearchReturns(t)
  BY <1>3, SearchBegins, EntryListed, ListScored, SearchDone, SearchReturned
<1>4. CASE Crash \/ Open \/ DayPasses
  BY <1>4, Restarts
<1>5. CASE UNCHANGED vars
  BY <1>5, SameSInv
<1> QED
  BY <1>1, <1>2, <1>3, <1>4, <1>5 DEF Next

\* Where the invariant holds, what was found is what SearchFinds and UsedFirst ask for.
LEMMA SearchesAreRight == SInv => SearchFinds /\ UsedFirst
<1> SUFFICES ASSUME SInv, NEW t \in Threads, calls[t].op = "found"
             PROVE  /\ Found(calls[t]) /\ BestFirst(calls[t])
  BY DEF SearchFinds, UsedFirst, Found, BestFirst, Better
<1> QED BY DEF SInv, SearchesOK, FoundOK

(***************************************************************************)
(* Theorems                                                                *)
(***************************************************************************)

\* The inductive invariant holds in every state of a debug build.
THEOREM Invariance == ASSUME DebugAssertions PROVE Spec => []IInv
BY InitIInv, StepIInv, PTL DEF Spec

\* A memoir that was there when a flush returned is there whenever the store is open, with its
\* reason (FlushedMemoirsStand), for any number of threads, records, stale copies and crashes.
\* The assumption is the debug build's: its delete refuses memoirs.
THEOREM MemoirsAreForEver == ASSUME DebugAssertions PROVE Spec => []FlushedMemoirsStand
BY Invariance, MemoirsStand, PTL

\* Uses and judgements of a memory only add to it, and what is deleted stays deleted, except
\* where a copy is written back that has become stale (OnlyStaleCopiesUndo).
THEOREM OnlyStaleCopiesAreToBlame == ASSUME DebugAssertions PROVE Spec => OnlyStaleCopiesUndo
<1>1. IInv /\ [Next]_vars =>
        (up /\ up' => \A c \in Kinds, id \in Ids : UndoesNothing(c, id) \/ WritesStale(id))
  BY StepUndoes
<1> QED
  BY <1>1, Invariance, PTL DEF Spec, OnlyStaleCopiesUndo

\* The invariant of the searches holds in every state, of a debug build or another.
THEOREM SearchInvariance == Spec => []SInv
BY InitSInv, StepSInv, PTL DEF Spec

\* A search over all trees finds what matched from its beginning to its end, up to its limit,
\* and nothing that was not there in between (SearchFinds), while any number of threads add,
\* strengthen and delete records between two entries its iterators read.
THEOREM SearchesFindWhatIsThere == Spec => []SearchFinds
BY SearchInvariance, SearchesAreRight, PTL

\* Neither the order nor the limit of the hits prefers a memory to one that matches as well,
\* was used more recently and as often, and is as important (UsedFirst).
THEOREM BetterMemoriesComeFirst == Spec => []UsedFirst
BY SearchInvariance, SearchesAreRight, PTL
================================================================================
