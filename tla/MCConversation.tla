---------------------------- MODULE MCConversation ----------------------------
(***************************************************************************)
(* Conversation for TLC: three memories of which two fit the budget and one *)
(* is longer than its estimate, a search that is cut off after two, and      *)
(* three requests: a turn with memories, a question without (the bridges),   *)
(* and one for more context than the model has.                             *)
(***************************************************************************)
EXTENDS Conversation

MCEstimate == [m \in Memories |-> IF m = "b" THEN 2 ELSE 1]
MCSize     == [m \in Memories |-> IF m = "b" THEN 3 ELSE 1]

Turn     == [context_length |-> 5, max_new_tokens |-> 2, remembers |-> TRUE, budget |-> 2, own |-> 1]
Question == [context_length |-> 4, max_new_tokens |-> 2, remembers |-> FALSE, budget |-> 0, own |-> 2]
TooLong  == [context_length |-> 6, max_new_tokens |-> 1, remembers |-> TRUE, budget |-> 3, own |-> 1]
MCRequests == {Turn, Question, TooLong}
===============================================================================
