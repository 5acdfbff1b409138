--------------------------- MODULE ConversationProofs ---------------------------
(***************************************************************************)
(* Theorems about Conversation for any memories, requests and limits.       *)
(***************************************************************************)
EXTENDS Conversation, FiniteSetTheorems, TLAPS

\* Where the position is, by how far the request has come.
PositionOK ==
  /\ at \in Before => position = start /\ generated = 0
  /\ at \in {"sample", "decode"} => position = start + prompt + generated
  /\ at = "feed" => position + 1 = start + prompt + generated
  /\ at = "sample" => generated < req.max_new_tokens
  /\ at \in {"feed", "decode"} => generated <= req.max_new_tokens
  /\ at = "feed" => generated >= 1
  /\ at # "idle" => reply = NoReply

\* A search finds a memory once.
RankedOnce ==
  /\ \A i, j \in 1 .. Len(ranked) : ranked[i] = ranked[j] => i = j
  /\ at = "search" => adopted = 0

IInv ==
  /\ TypeOK
  /\ PositionOK
  /\ RankedOnce
  /\ OnlyAdoptedStrengthened
  /\ BudgetKept
  /\ AnswersAccounted
  /\ FailuresAccounted

\* A ranking names no memory twice.
LEMMA RankingsOnce ==
  ASSUME NEW S \in SUBSET Memories, NEW r \in Rankings(S)
  PROVE  /\ r \in Seq(Memories)
         /\ \A i, j \in 1 .. Len(r) : r[i] = r[j] => i = j
<1> DEFINE n == Cardinality(S)
           k == IF n < HitLimit THEN n ELSE HitLimit
<1>1. n \in Nat
  BY ConversationAssumption, FS_Subset, FS_CardinalityType
<1>2. k \in Nat /\ k <= n
  BY <1>1, ConversationAssumption
<1>3. PICK f \in [1 .. n -> S] :
        /\ \A i, j \in 1 .. n : f[i] = f[j] => i = j
        /\ r = [i \in 1 .. k |-> f[i]]
  BY DEF Rankings
<1> HIDE DEF n, k
<1>4. \A i \in 1 .. k : i \in 1 .. n
  BY <1>1, <1>2
<1>5. \A i \in 1 .. k : f[i] \in Memories
  BY <1>3, <1>4
<1>6. r \in [1 .. k -> Memories]
  BY <1>3, <1>5
<1>7. r \in Seq(Memories) /\ Len(r) = k
  BY <1>2, <1>6
<1> QED
  BY <1>3, <1>4, <1>7

\* The strengthened invariant holds at the start and is kept by every step.
LEMMA Initially == Init => IInv
<1> SUFFICES ASSUME Init PROVE IInv
  OBVIOUS
<1>1. TypeOK
  BY DEF Init, TypeOK, Labels, Kinds, NoReply
<1>2. PositionOK /\ RankedOnce
  BY DEF Init, PositionOK, RankedOnce, Before, NoReply
<1>3. OnlyAdoptedStrengthened /\ BudgetKept /\ AnswersAccounted /\ FailuresAccounted
  BY DEF Init, OnlyAdoptedStrengthened, BudgetKept, AnswersAccounted, FailuresAccounted,
     NoReply, NoRequest
<1> QED
  BY <1>1, <1>2, <1>3 DEF IInv

\* What the types of a request are.
LEMMA RequestTyped ==
  ASSUME NEW r \in Requests \cup {NoRequest}
  PROVE  /\ r.context_length \in Nat /\ r.max_new_tokens \in Nat
         /\ r.budget \in Nat /\ r.own \in Nat /\ r.remembers \in BOOLEAN
<1>1. CASE r \in Requests
  <2>1. r \in [context_length : Nat, max_new_tokens : Nat,
               remembers : BOOLEAN, budget : Nat, own : Nat]
    BY <1>1, ConversationAssumption
  <2> QED BY <2>1
<1>2. CASE r = NoRequest
  BY <1>2 DEF NoRequest
<1> QED
  BY <1>1, <1>2

LEMMA Inductive == IInv /\ [Next]_vars => IInv'
<1> SUFFICES ASSUME IInv, [Next]_vars PROVE IInv'
  OBVIOUS
<1> USE DEF IInv, TypeOK
<1>r. /\ req.max_new_tokens \in Nat /\ req.budget \in Nat
  BY RequestTyped
<1>1. ASSUME NEW m \in Memories, put(m) \/ delete(m) PROVE IInv'
  <2>1. /\ at = "idle"
        /\ UNCHANGED <<position, at, req, ranked, adopted, used, prompt, generated,
                       reply, requests, start, before>>
        /\ \/ stored' = stored \cup {m} /\ recalled' = [recalled EXCEPT ![m] = 0]
           \/ stored' = stored \ {m} /\ recalled' = recalled
    BY <1>1 DEF put, delete, context, history
  <2>2. recalled' \in [Memories -> Nat]
    <3>1. recalled \in [Memories -> Nat]
      OBVIOUS
    <3> QED
      BY <2>1, <3>1
  <2>3. TypeOK'
    BY <2>1, <2>2
  <2> QED
    BY <2>1, <2>3 DEF PositionOK, RankedOnce, Before,
       OnlyAdoptedStrengthened, BudgetKept, AnswersAccounted, FailuresAccounted
<1>2. CASE Begin
  <2>1. PICK r \in Requests :
          /\ req' = r /\ prompt' = r.own
          /\ at' = IF r.remembers THEN "search" ELSE "generate"
    BY <1>2 DEF Begin
  <2>2. r.own \in Nat /\ r.budget \in Nat
    BY RequestTyped
  <2>3. TypeOK'
    BY <1>2, <2>1, <2>2 DEF Begin, store, Labels, Kinds, NoReply
  <2>4. (PositionOK /\ RankedOnce)'
    BY <1>2, <2>1 DEF Begin, store, PositionOK, RankedOnce, Before
  <2>5. (OnlyAdoptedStrengthened /\ BudgetKept)'
    BY <1>2, <2>1, <2>2 DEF Begin, store, OnlyAdoptedStrengthened, BudgetKept
  <2>6. (AnswersAccounted /\ FailuresAccounted)'
    BY <1>2 DEF Begin, NoReply, AnswersAccounted, FailuresAccounted
  <2> QED BY <2>3, <2>4, <2>5, <2>6
<1>3. CASE Search
  <2>1. PICK S \in SUBSET stored : ranked' \in Rankings(S)
    BY <1>3 DEF Search
  <2>2. /\ ranked' \in Seq(Memories)
        /\ \A i, j \in 1 .. Len(ranked') : ranked'[i] = ranked'[j] => i = j
    BY <2>1, RankingsOnce
  <2>3. adopted = 0 /\ adopted' = 0 /\ Len(ranked') \in Nat
    BY <1>3, <2>2 DEF Search, RankedOnce
  <2>4. TypeOK'
    BY <1>3, <2>2, <2>3 DEF Search, store, history, Labels
  <2>5. (PositionOK /\ RankedOnce)'
    BY <1>3, <2>2 DEF Search, history, PositionOK, RankedOnce, Before
  <2>6. (OnlyAdoptedStrengthened /\ BudgetKept /\ AnswersAccounted /\ FailuresAccounted)'
    BY <1>3, <2>3 DEF Search, store, history, OnlyAdoptedStrengthened, BudgetKept,
       AnswersAccounted, FailuresAccounted, PositionOK, NoReply
  <2> QED BY <2>4, <2>5, <2>6
<1>4. CASE Adopt
  <2> DEFINE m == ranked[adopted + 1]
  <2>1. /\ Len(ranked) \in Nat /\ adopted \in Nat
        /\ adopted + 1 \in 1 .. Len(ranked) /\ m \in Memories
    <3> HIDE DEF IInv, TypeOK
    <3>1. adopted < Len(ranked)
      BY <1>4 DEF Adopt
    <3>2. ranked \in Seq(Memories) /\ adopted \in 0 .. Len(ranked)
      BY DEF IInv, TypeOK
    <3>3. Len(ranked) \in Nat /\ adopted \in Nat
      BY <3>2
    <3>4. adopted + 1 \in 1 .. Len(ranked)
      BY <3>1, <3>3
    <3> QED
      BY <3>2, <3>3, <3>4
  <2>2. /\ used + Estimate[m] <= req.budget /\ adopted' = adopted + 1
        /\ used' = used + Estimate[m] /\ prompt' = prompt + Size[m]
        /\ \/ recalled' = [recalled EXCEPT ![m] = @ + 1]
           \/ recalled' = recalled
        /\ at = "adopt" /\ UNCHANGED <<stored, position, at, req, ranked, generated, reply,
                                      requests, start, before>>
    BY <1>4 DEF Adopt, Fits, recall, history
  <2>3. Estimate[m] \in Nat /\ Size[m] \in Nat
    BY <2>1, ConversationAssumption
  <2> HIDE DEF m
  <2>4. TypeOK'
    <3>1. recalled' \in [Memories -> Nat]
      <4>1. recalled \in [Memories -> Nat] /\ recalled[m] + 1 \in Nat
        BY <2>1
      <4> QED
        BY <2>2, <4>1
    <3>2. adopted' \in 0 .. Len(ranked')
      <4>1. adopted + 1 \in 0 .. Len(ranked)
        BY <2>1
      <4> QED
        BY <2>2, <4>1
    <3>3. used' \in Nat /\ prompt' \in Nat
      <4> HIDE DEF IInv, TypeOK
      <4>1. used \in Nat /\ prompt \in Nat
        BY DEF IInv, TypeOK
      <4>2. used' = used + Estimate[m] /\ prompt' = prompt + Size[m]
        BY <2>2
      <4> QED
        BY <2>3, <4>1, <4>2
    <3>4. adopted' \in Nat /\ stored' \subseteq Memories /\ ranked' \in Seq(Memories)
      BY <2>1, <2>2
    <3> QED
      BY <2>2, <3>1, <3>2, <3>3, <3>4
  <2>5. (PositionOK /\ RankedOnce)'
    BY <2>2 DEF PositionOK, RankedOnce, Before
  <2>6. recalled[m] = before[m]
    <3>1. \A i \in 1 .. adopted : ranked[i] # m
      BY <2>1 DEF RankedOnce, m
    <3> QED
      BY <2>1, <2>2, <3>1 DEF OnlyAdoptedStrengthened
  <2>7. ASSUME NEW k \in Memories
        PROVE  \/ recalled'[k] = before'[k]
               \/ /\ recalled'[k] = before'[k] + 1
                  /\ \E i \in 1 .. adopted' : ranked'[i] = k
    <3>1. CASE k = m /\ recalled' = [recalled EXCEPT ![m] = @ + 1]
      BY <2>1, <2>2, <2>6, <3>1 DEF m
    <3>2. CASE recalled'[k] = recalled[k]
      <4>1. \A i \in 1 .. adopted : i \in 1 .. adopted'
        BY <2>1, <2>2
      <4> QED
        BY <2>2, <3>2, <4>1 DEF OnlyAdoptedStrengthened
    <3> QED
      BY <2>2, <3>1, <3>2
  <2>8. (OnlyAdoptedStrengthened /\ BudgetKept)'
    BY <2>2, <2>7 DEF OnlyAdoptedStrengthened, BudgetKept
  <2>9. (AnswersAccounted /\ FailuresAccounted)'
    BY <2>2 DEF AnswersAccounted, FailuresAccounted, PositionOK, NoReply
  <2> QED BY <2>4, <2>5, <2>8, <2>9
<1>5. CASE BlockDone
  BY <1>5 DEF BlockDone, store, context, history, Labels, PositionOK, RankedOnce, Before,
     OnlyAdoptedStrengthened, BudgetKept, AnswersAccounted, FailuresAccounted, NoReply
<1>6. CASE SearchFails \/ Refuse \/ EncodeFails \/ ForwardPromptFails
  <2>1. /\ at \in Before /\ at' = "idle" /\ reply'.kind \in Kinds \ {"none", "Ok"}
        /\ reply' \in [kind : Kinds, tokens : Nat]
        /\ UNCHANGED <<store, position, req, context, generated, requests, history>>
    BY <1>6 DEF SearchFails, Refuse, EncodeFails, ForwardPromptFails, Return, Before, Kinds
  <2> QED
    BY <2>1 DEF store, context, history, Labels, PositionOK, RankedOnce, Before,
       OnlyAdoptedStrengthened, BudgetKept, AnswersAccounted, FailuresAccounted
<1>7. CASE ForwardPrompt
  <2>1. at = "generate" /\ position' = position + prompt /\ at' = Loop(0)
        /\ UNCHANGED <<store, req, context, generated, reply, requests, history>>
    BY <1>7 DEF ForwardPrompt
  <2> QED
    BY <1>r, <2>1 DEF store, context, history, Labels, Loop, PositionOK, RankedOnce, Before,
       OnlyAdoptedStrengthened, BudgetKept, AnswersAccounted, FailuresAccounted, NoReply
<1>8. CASE Sample
  <2>1. /\ at = "sample"
        /\ \/ at' = "decode" /\ generated' = generated
           \/ at' = "feed" /\ generated' = generated + 1
        /\ UNCHANGED <<stored, recalled, position, req, ranked, adopted, used, prompt,
                       reply, requests, start, before>>
    BY <1>8 DEF Sample, store, context, history
  <2>2. TypeOK' /\ RankedOnce'
    BY <2>1 DEF Labels, RankedOnce
  <2>3. PositionOK'
    <3>1. CASE at' = "decode" /\ generated' = generated
      BY <1>r, <2>1, <3>1 DEF PositionOK, Before
    <3>2. CASE at' = "feed" /\ generated' = generated + 1
      <4>1. position' + 1 = start' + prompt' + generated'
        BY <2>1, <3>2 DEF PositionOK
      <4>2. generated' <= req'.max_new_tokens /\ generated' >= 1
        BY <1>r, <2>1, <3>2 DEF PositionOK
      <4> QED
        BY <2>1, <3>2, <4>1, <4>2 DEF PositionOK, Before
    <3> QED BY <2>1, <3>1, <3>2
  <2>4. (OnlyAdoptedStrengthened /\ BudgetKept)'
    BY <2>1 DEF OnlyAdoptedStrengthened, BudgetKept
  <2>5. (AnswersAccounted /\ FailuresAccounted)'
    BY <2>1 DEF AnswersAccounted, FailuresAccounted, PositionOK, NoReply
  <2> QED BY <2>2, <2>3, <2>4, <2>5
<1>9. CASE Feed
  BY <1>r, <1>9 DEF Feed, store, context, history, Labels, Loop, PositionOK, RankedOnce, Before,
     OnlyAdoptedStrengthened, BudgetKept, AnswersAccounted, FailuresAccounted, NoReply
<1>10. CASE LoopFails
  <2>1. /\ at \in {"sample", "feed"} /\ at' = "idle"
        /\ reply' = [kind |-> "InferenceError", tokens |-> 0]
        /\ UNCHANGED <<store, position, req, context, generated, requests, history>>
    BY <1>10 DEF LoopFails, Return
  <2>2. position - start \in prompt .. prompt + req.max_new_tokens
    BY <1>r, <2>1 DEF PositionOK
  <2> QED
    BY <2>1, <2>2 DEF store, context, history, Labels, Kinds, PositionOK, RankedOnce, Before,
       OnlyAdoptedStrengthened, BudgetKept, AnswersAccounted, FailuresAccounted
<1>11. CASE Decode
  <2>1. /\ at = "decode" /\ at' = "idle"
        /\ \/ reply' = [kind |-> "Ok", tokens |-> generated]
           \/ reply' = [kind |-> "TokenizerError", tokens |-> 0]
        /\ UNCHANGED <<store, position, req, context, generated, requests, history>>
    BY <1>11 DEF Decode, Return
  <2>2. /\ position = start + prompt + generated /\ generated <= req.max_new_tokens
        /\ position - start \in prompt .. prompt + req.max_new_tokens
    BY <1>r, <2>1 DEF PositionOK
  <2> QED
    BY <2>1, <2>2 DEF store, context, history, Labels, Kinds, PositionOK, RankedOnce, Before,
       OnlyAdoptedStrengthened, BudgetKept, AnswersAccounted, FailuresAccounted
<1>12. CASE UNCHANGED vars
  BY <1>12 DEF vars, store, context, history, PositionOK, RankedOnce, Before,
     OnlyAdoptedStrengthened, BudgetKept, AnswersAccounted, FailuresAccounted
<1> QED
  BY <1>1, <1>2, <1>3, <1>4, <1>5, <1>6, <1>7, <1>8, <1>9, <1>10, <1>11, <1>12
  DEF Next, RequestStep

\* In every reachable state of the cognition, the position in the context is where the prompt and
\* the tokens so far put it, and the prompt is within what build_context may return (IInv).
THEOREM Invariance == Spec => []IInv
<1>1. Init => IInv
  BY Initially
<1>2. IInv /\ [Next]_vars => IInv'
  BY Inductive
<1> QED
  BY <1>1, <1>2, PTL DEF Spec

\* The variables keep their types. (all of Conversation)
THEOREM TypeCorrect == Spec => []TypeOK
<1>1. IInv => TypeOK
  BY DEF IInv
<1> QED
  BY <1>1, Invariance, PTL

\* For any prompt, answer and limit, and after any requests that failed, the
\* position advances by what an answered request fed to the model. (generate)
THEOREM AnswersAreAccountedFor == Spec => []AnswersAccounted
<1>1. IInv => AnswersAccounted
  BY DEF IInv
<1> QED
  BY <1>1, Invariance, PTL

\* A request that fails leaves the position where the model stands. (generate)
THEOREM FailuresAreAccountedFor == Spec => []FailuresAccounted
<1>1. IInv => FailuresAccounted
  BY DEF IInv
<1> QED
  BY <1>1, Invariance, PTL

\* No memory is strengthened that is not in the prompt, and none twice.
\* (build_context_block)
THEOREM StrengthenedByUse == Spec => []OnlyAdoptedStrengthened
<1>1. IInv => OnlyAdoptedStrengthened
  BY DEF IInv
<1> QED
  BY <1>1, Invariance, PTL

\* The block of memories keeps its budget. (build_context_block)
THEOREM BudgetIsKept == Spec => []BudgetKept
<1>1. IInv => BudgetKept
  BY DEF IInv
<1> QED
  BY <1>1, Invariance, PTL
================================================================================
