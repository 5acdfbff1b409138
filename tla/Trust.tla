--------------------------------- MODULE Trust ---------------------------------
(***************************************************************************)
(* The trust model (arona_adaptive): a score for each category of actions, *)
(* earned by the user's approvals, above which the user is not asked any    *)
(* more.  Scores are counted in halves: an approval given at once weighs 2,  *)
(* one given after hesitation 1.  A category without an entry in the map    *)
(* behaves like one with the score 0.                                       *)
(***************************************************************************)
EXTENDS Naturals

CONSTANTS
  Categories,       \* names of categories of actions
  SkipThreshold,    \* CONFIRMATION_SKIP_THRESHOLD in halves (10)
  MaxScore          \* bound: halves a category's score may reach

VARIABLE scores     \* TrustModel.scores

Manners == {"Immediate", "Hesitant"}

weight(manner) == IF manner = "Immediate" THEN 2 ELSE 1

TrustInit == scores = [c \in Categories |-> [count |-> 0, declared |-> FALSE]]

record_approval(c, manner) ==
  /\ scores[c].count + weight(manner) <= MaxScore
  /\ scores' = [scores EXCEPT ![c].count = @ + weight(manner)]

declare_no_confirmation_needed(c) == scores' = [scores EXCEPT ![c].declared = TRUE]

\* Mutant: trust leaps from one category to another.
SkipsForAny(c) == \E k \in Categories : scores[k].declared \/ scores[k].count >= SkipThreshold

should_skip_confirmation(c) == scores[c].declared \/ scores[c].count >= SkipThreshold
================================================================================
