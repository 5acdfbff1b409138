--------------------------- MODULE AronaTurnRefines ----------------------------
(***************************************************************************)
(* The turn with the guardian implements the turn without it: to its          *)
(* callers, a request the guardian blocks is one that failed before anything  *)
(* was decided.                                                             *)
(***************************************************************************)
EXTENDS AronaTurn

Least(a, b) == IF a < b THEN a ELSE b

Counted(r) == [method |-> r.method, protected |-> r.protected, on |-> r.active,
               alarms |-> Least(AutoRelaxAfter, r.false_positive_count)]

Watched == [i \in DOMAIN rules |-> Counted(rules[i])]

Score(s) == IF s.declared THEN SkipThreshold ELSE Least(SkipThreshold, s.count)

Unused(g) == [template |-> g.template, capabilities |-> g.granted, status |-> g.status,
              unused |-> Least(DormantAfter + 1, today - g.last_used)]

\* Where the older turn is; while a block is explained it has returned.
OldPlace ==
  CASE at \in {"memory", "guardian"} -> "context"
    [] at = "trust" -> "decide"
    [] at = "respond" -> "answer"
    [] OTHER -> "returned"

OldResult ==
  CASE at = "explain" -> "error"
    [] at = "idle" -> "none"
    [] outcome \in Errors \cup {"GuardianBlocked"} -> "error"
    [] OTHER -> outcome

OldTurn ==
  IF at = "idle" THEN [at |-> "returned", result |-> "none"]
  ELSE [at |-> OldPlace, purpose |-> req.purpose, template |-> req.template,
        capability |-> req.capability, category |-> req.category, result |-> OldResult]

Old == INSTANCE WorkspaceTurn WITH
  RelaxAfter <- AutoRelaxAfter, EnoughTrust <- SkipThreshold, DaysUntilDormant <- DormantAfter,
  FirstRules <- [i \in DOMAIN FirstRules |-> Counted(FirstRules[i])],
  watch <- Watched, trust <- [k \in Categories |-> Score(scores[k])],
  held <- [p \in DOMAIN grants |-> Unused(grants[p])], turn <- OldTurn

\* The turn of arona_agy, which asks the guardian first (turn.rs:83-110), does to rules, trust,
\* grants and callers nothing that the turn of arona_workspace, which does not, could not do:
\* no request comes out of the guardian with more than it would have come out with before.
OldSpec == Old!Spec
================================================================================
