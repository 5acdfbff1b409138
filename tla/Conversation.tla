----------------------------- MODULE Conversation -----------------------------
(***************************************************************************)
(* Requests to the language model, one after the other: the memories that   *)
(* go into the prompt (build_context_block and search_all over the memory   *)
(* store), and generate of CandleGgufBackend, which feeds the prompt and     *)
(* then its own tokens to the model at a position that goes on from one      *)
(* request to the next.                                                     *)
(*                                                                         *)
(* A request holds the backend exclusively and nothing else uses the store   *)
(* while it runs; the four threads of a search only read.  Tokens are        *)
(* counted, never looked at, except for the stop tokens.                    *)
(***************************************************************************)
EXTENDS Naturals, Sequences, FiniteSets

CONSTANTS
  Memories,     \* records that may be stored
  Estimate,     \* memory -> rough_token_estimate of its line in the prompt
  Size,         \* memory -> tokens that line really has
  HitLimit,     \* hits a search returns at most (20)
  MaxContext,   \* max_context: what the model supports
  Requests,     \* what callers ask for: context_length, max_new_tokens, whether
                \* memories go in and their budget, tokens of the rest (own)
  MaxRequests   \* bound: requests made

ASSUME ConversationAssumption ==
  /\ IsFiniteSet(Memories)
  /\ Estimate \in [Memories -> Nat] /\ Size \in [Memories -> Nat]
  /\ HitLimit \in Nat /\ MaxContext \in Nat /\ MaxRequests \in Nat
  /\ Requests \subseteq [context_length : Nat, max_new_tokens : Nat,
                         remembers : BOOLEAN, budget : Nat, own : Nat]

VARIABLES
  stored,      \* the memories in the store
  recalled,    \* memory -> its recall_count
  position,    \* position of the backend: tokens processed so far
  at,          \* where the request under way is, or "idle"
  req,         \* its arguments
  ranked,      \* what the search found, best first
  adopted,     \* how many of these are in the prompt
  used,        \* used_tokens: their estimate
  prompt,      \* tokens in the prompt
  generated,   \* Len(generated_tokens)
  reply,       \* what the last request returned
  requests,    \* counter for the bound
  start, before  \* history: position and recalled when the request began

store   == <<stored, recalled>>
context == <<ranked, adopted, used, prompt>>
history == <<start, before>>
vars == <<store, position, at, req, context, generated, reply, requests, history>>

NoReply == [kind |-> "none", tokens |-> 0]
NoRequest == [context_length |-> 0, max_new_tokens |-> 0, remembers |-> FALSE,
              budget |-> 0, own |-> 0]

Init ==
  /\ stored = {} /\ recalled = [m \in Memories |-> 0]
  /\ position = 0
  /\ at = "idle" /\ req = NoRequest
  /\ ranked = << >> /\ adopted = 0 /\ used = 0 /\ prompt = 0 /\ generated = 0
  /\ reply = NoReply /\ requests = 0
  /\ start = 0 /\ before = recalled

-------------------------------------------------------------------------------
(* The store between requests.                                                *)

\* MemoryRecord::new and put.
put(m) ==
  /\ at = "idle"
  /\ m \notin stored
  /\ stored' = stored \cup {m}
  /\ recalled' = [recalled EXCEPT ![m] = 0]
  /\ UNCHANGED <<position, at, req, context, generated, reply, requests, history>>

delete(m) ==
  /\ at = "idle"
  /\ m \in stored
  /\ stored' = stored \ {m}
  /\ UNCHANGED <<recalled, position, at, req, context, generated, reply, requests, history>>

-------------------------------------------------------------------------------
(* The memories of the prompt.                                                *)

Begin ==
  /\ at = "idle"
  /\ requests < MaxRequests
  /\ requests' = requests + 1
  /\ \E r \in Requests :
       /\ req' = r
       /\ at' = IF r.remembers THEN "search" ELSE "generate"
       /\ prompt' = r.own
  /\ ranked' = << >> /\ adopted' = 0 /\ used' = 0 /\ generated' = 0
  /\ reply' = NoReply
  /\ start' = position /\ before' = recalled
  /\ UNCHANGED <<store, position>>

Return(kind, n) ==
  /\ at' = "idle"
  /\ reply' = [kind |-> kind, tokens |-> n]

\* The orders in which the members of S may come out of the ranking, cut off
\* after HitLimit.
Rankings(S) ==
  {[i \in 1 .. (IF n < HitLimit THEN n ELSE HitLimit) |-> f[i]] :
     n \in {Cardinality(S)},
     f \in {g \in [1 .. Cardinality(S) -> S] :
              \A i, j \in 1 .. Cardinality(S) : g[i] = g[j] => i = j}}

\* search_all: some of the memories are relevant; how they are scored is left
\* open.
Search ==
  /\ at = "search"
  /\ \E S \in SUBSET stored : ranked' \in Rankings(S)
  /\ at' = "adopt"
  /\ UNCHANGED <<store, position, req, adopted, used, prompt, generated, reply, requests, history>>

\* One record that cannot be read fails the search of every category.
SearchFails ==
  /\ at = "search"
  /\ Return("MemoryError", 0)
  /\ UNCHANGED <<store, position, req, context, generated, requests, history>>

Fits(m) == used + Estimate[m] <= req.budget

\* recall counts the use and saves the record; it may fail, which is ignored.
recall(m) == recalled' = [recalled EXCEPT ![m] = @ + 1] \/ UNCHANGED recalled

\* Mutant: a memory is recalled before it is known to fit.
AdoptAfterRecall ==
  /\ at = "adopt" /\ adopted < Len(ranked)
  /\ LET m == ranked[adopted + 1]
     IN /\ IF Fits(m)
           THEN /\ adopted' = adopted + 1 /\ used' = used + Estimate[m]
                /\ prompt' = prompt + Size[m] /\ UNCHANGED at
           ELSE at' = "generate" /\ UNCHANGED <<adopted, used, prompt>>
        /\ recall(m)
  /\ UNCHANGED <<stored, position, req, ranked, generated, reply, requests, history>>

Adopt ==
  /\ at = "adopt" /\ adopted < Len(ranked)
  /\ LET m == ranked[adopted + 1]
     IN /\ Fits(m)
        /\ adopted' = adopted + 1
        /\ used' = used + Estimate[m]
        /\ prompt' = prompt + Size[m]
        /\ recall(m)
  /\ UNCHANGED <<stored, position, at, req, ranked, generated, reply, requests, history>>

\* The first memory that does not fit ends the block.
BlockDone ==
  /\ at = "adopt"
  /\ adopted < Len(ranked) => ~Fits(ranked[adopted + 1])
  /\ at' = "generate"
  /\ UNCHANGED <<store, position, req, context, generated, reply, requests, history>>

-------------------------------------------------------------------------------
(* generate.                                                                  *)

Refuse ==
  /\ at = "generate"
  /\ req.context_length > MaxContext
  /\ Return("Refused", 0)
  /\ UNCHANGED <<store, position, req, context, generated, requests, history>>

EncodeFails ==
  /\ at = "generate"
  /\ req.context_length <= MaxContext
  /\ Return("TokenizerError", 0)
  /\ UNCHANGED <<store, position, req, context, generated, requests, history>>

\* After a pass of the model: another token, or the end of the loop.
Loop(n) == IF n < req.max_new_tokens THEN "sample" ELSE "decode"

ForwardPrompt ==
  /\ at = "generate"
  /\ req.context_length <= MaxContext
  /\ position' = position + prompt
  /\ at' = Loop(0)
  /\ UNCHANGED <<store, req, context, generated, reply, requests, history>>

ForwardPromptFails ==
  /\ at = "generate"
  /\ req.context_length <= MaxContext
  /\ Return("InferenceError", 0)
  /\ UNCHANGED <<store, position, req, context, generated, requests, history>>

\* Mutant: the stop token is taken for a part of the answer.
SampleKeepsStop ==
  /\ at = "sample"
  /\ generated' = generated + 1
  /\ at' = "decode" \/ at' = "feed"
  /\ UNCHANGED <<store, position, req, context, reply, requests, history>>

\* A token is sampled: a stop token ends the answer and is not part of it.
Sample ==
  /\ at = "sample"
  /\ \/ at' = "decode" /\ UNCHANGED generated
     \/ at' = "feed" /\ generated' = generated + 1
  /\ UNCHANGED <<store, position, req, context, reply, requests, history>>

\* Mutant: the position is advanced by the whole answer each time.
FeedCountsAll ==
  /\ at = "feed"
  /\ position' = position + generated
  /\ at' = Loop(generated)
  /\ UNCHANGED <<store, req, context, generated, reply, requests, history>>

\* The token is fed back to the model, the last one too.
Feed ==
  /\ at = "feed"
  /\ position' = position + 1
  /\ at' = Loop(generated)
  /\ UNCHANGED <<store, req, context, generated, reply, requests, history>>

\* Sampling, or the pass over one token, fails: the answer so far is dropped.
LoopFails ==
  /\ at \in {"sample", "feed"}
  /\ Return("InferenceError", 0)
  /\ UNCHANGED <<store, position, req, context, generated, requests, history>>

\* Mutant: an answer that cannot be decoded is generated anew.
DecodeRetries ==
  /\ at = "decode"
  /\ \/ Return("Ok", generated) /\ UNCHANGED <<position, generated>>
     \/ at' = "generate" /\ position' = start /\ generated' = 0 /\ UNCHANGED reply
  /\ UNCHANGED <<store, req, context, requests, history>>

Decode ==
  /\ at = "decode"
  /\ Return("Ok", generated) \/ Return("TokenizerError", 0)
  /\ UNCHANGED <<store, position, req, context, generated, requests, history>>

RequestStep ==
  \/ Search \/ SearchFails \/ Adopt \/ BlockDone
  \/ Refuse \/ EncodeFails \/ ForwardPrompt \/ ForwardPromptFails
  \/ Sample \/ Feed \/ LoopFails \/ Decode

Next ==
  \/ Begin
  \/ RequestStep
  \/ \E m \in Memories : put(m) \/ delete(m)

Spec == Init /\ [][Next]_vars

\* A request runs to its end: every call it makes returns.
FairSpec == Spec /\ WF_vars(RequestStep)

-------------------------------------------------------------------------------
(* Properties.                                                                *)

Labels == {"idle", "search", "adopt", "generate", "sample", "feed", "decode"}
Before == {"search", "adopt", "generate"}   \* the model has not run yet
Kinds  == {"none", "Ok", "MemoryError", "Refused", "TokenizerError", "InferenceError"}

\* The types of the code's variables.
TypeOK ==
  /\ stored \subseteq Memories
  /\ recalled \in [Memories -> Nat] /\ before \in [Memories -> Nat]
  /\ position \in Nat /\ start \in Nat
  /\ at \in Labels
  /\ req \in Requests \cup {NoRequest}
  /\ ranked \in Seq(Memories) /\ adopted \in 0 .. Len(ranked)
  /\ used \in Nat /\ prompt \in Nat /\ generated \in Nat
  /\ reply \in [kind : Kinds, tokens : Nat]
  /\ requests \in Nat

\* When an answer comes back, the model has seen the prompt and every token of
\* the answer, in one place each, and nothing else: the next request goes on
\* right behind it.  The stop token is in neither. (generate of candle_backend.rs)
AnswersAccounted ==
  reply.kind = "Ok" =>
    /\ position = start + prompt + reply.tokens
    /\ reply.tokens <= req.max_new_tokens

\* A request that is refused, or whose memories cannot be read, leaves the
\* model's position alone; one that fails otherwise does so too, or leaves it
\* behind the prompt by at most max_new_tokens.
FailuresAccounted ==
  reply.kind \notin {"none", "Ok"} =>
    /\ reply.kind \in {"MemoryError", "Refused"} => position = start
    /\ \/ position = start
       \/ position - start \in prompt .. prompt + req.max_new_tokens

\* A memory in use is strengthened at most once in a request, and only if its
\* line is in the prompt; memories that were merely found are not. (context.rs)
OnlyAdoptedStrengthened ==
  at # "idle" =>
    \A m \in Memories :
      \/ recalled[m] = before[m]
      \/ /\ recalled[m] = before[m] + 1
         /\ \E i \in 1 .. adopted : ranked[i] = m

\* The lines of the prompt stay within the budget the caller set, by their
\* estimates. (context.rs)
BudgetKept == used <= req.budget

\* Every request comes back to its caller.
RequestsEnd == at # "idle" ~> at = "idle"

\* backend.rs:30: a request uses context_length tokens at most.  The code
\* compares the number with the model's limit and never with the tokens.
RequestStaysInContext == position - start <= req.context_length
===============================================================================
