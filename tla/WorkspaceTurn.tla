----------------------------- MODULE WorkspaceTurn -----------------------------
(***************************************************************************)
(* The first version of the system (arona_workspace): the same guardian,     *)
(* grants and trust model, and a turn that never asks the guardian.          *)
(*                                                                         *)
(* It serves as the abstract specification of AronaTurn: what the version     *)
(* with the guardian must not do worse.  So the state keeps only what the     *)
(* code can ever tell apart.  A grant's clock counts the days since its last  *)
(* use and stops once they are too many; a category's score and a rule's      *)
(* false alarms stop at their thresholds; an error is an error.              *)
(***************************************************************************)
EXTENDS Naturals, Sequences

CONSTANTS
  Purposes, Templates, Categories, Methods,
  StartsInTemplate,     \* TRUE: the callers keep to a grant's own template
  RelaxAfter,           \* FALSE_POSITIVE_AUTO_RELAX_THRESHOLD (5)
  EnoughTrust,          \* CONFIRMATION_SKIP_THRESHOLD in halves (10)
  DaysUntilDormant,     \* DORMANCY_THRESHOLD_DAYS (30)
  FirstRules            \* the guardian's first rules, as members of watch

VARIABLES
  watch,      \* the guardian's rules: [method, protected, on, alarms]
  trust,      \* category -> score in halves, at most EnoughTrust
  held,       \* purpose -> its grant: [template, capabilities, status, unused]
  turn        \* the turn: [at, purpose, template, capability, category, result]

vars == <<watch, trust, held, turn>>

AtMost(limit, n) == IF n > limit THEN limit ELSE n

NoTurn == [at |-> "returned", result |-> "none"]

Init ==
  /\ watch = FirstRules /\ trust = [k \in Categories |-> 0]
  /\ held = << >> /\ turn = NoTurn

Running == turn.at # "returned"

(***************************************************************************)
(* The guardian, which nothing consults                                    *)
(***************************************************************************)

\* A rule that is off stays off, whatever is counted against it.
Off(rule) == [rule EXCEPT !.on = FALSE]

\* Proposed by the language model or not, a rule is in force at once.
AddRule(method, protected) ==
  watch' = Append(watch, [method |-> method, protected |-> protected, on |-> TRUE, alarms |-> 0])

RelaxRule(i) == ~watch[i].protected /\ watch' = [watch EXCEPT ![i] = Off(@)]

RecordFalsePositive(i) ==
  LET counted == [watch[i] EXCEPT !.alarms = AtMost(RelaxAfter, @ + 1)]
  IN  watch' = [watch EXCEPT ![i] =
                  IF ~counted.protected /\ counted.alarms = RelaxAfter
                  THEN Off(counted) ELSE counted]

(***************************************************************************)
(* Trust                                                                   *)
(***************************************************************************)

Weights == {1, 2}   \* Hesitant and Immediate

Approve(k, weight) == trust' = [trust EXCEPT ![k] = AtMost(EnoughTrust, @ + weight)]

Declare(k) == trust' = [trust EXCEPT ![k] = EnoughTrust]

SkipsConfirmation(k) == trust[k] = EnoughTrust

(***************************************************************************)
(* Grants                                                                  *)
(***************************************************************************)

Limit(t) == Templates[t]

Capabilities == UNION {Limit(t) : t \in DOMAIN Templates}

Create(p, t, capabilities) ==
  /\ StartsInTemplate => capabilities \subseteq Limit(t)
  /\ held' = [q \in DOMAIN held \cup {p} |->
                IF q # p THEN held[q]
                ELSE [template |-> t, capabilities |-> capabilities,
                      status |-> "Active", unused |-> 0]]

Awake(grant) == IF grant.status = "Dormant" THEN "Active" ELSE grant.status

Used(grant) == [grant EXCEPT !.unused = 0, !.status = Awake(grant)]

Extended(grant, c) == [Used(grant) EXCEPT !.capabilities = @ \cup {c}]

Use(p) == held' = [held EXCEPT ![p] = Used(@)]

CheckDormancy(p) ==
  /\ held[p].status = "Active" /\ held[p].unused > DaysUntilDormant
  /\ held' = [held EXCEPT ![p].status = "Dormant"]

Revoke(p) == held' = [held EXCEPT ![p].status = "Revoked"]

\* A day later every grant has gone unused for one day more (external).
DayPasses ==
  held' = [p \in DOMAIN held |->
             [held[p] EXCEPT !.unused = AtMost(DaysUntilDormant + 1, @ + 1)]]

(***************************************************************************)
(* The turn                                                                *)
(***************************************************************************)

Begin(p, t, c, k) ==
  /\ StartsInTemplate => t = held[p].template
  /\ turn' = [at |-> "context", purpose |-> p, template |-> t, capability |-> c,
              category |-> k, result |-> "none"]

Returns(result) == turn' = [turn EXCEPT !.at = "returned", !.result = result]

Goes(place, result) == turn' = [turn EXCEPT !.at = place, !.result = result]

\* build_context_block fails, or the turn goes on to the trust model.
BuildContext ==
  /\ turn.at = "context"
  /\ Returns("error") \/ Goes("decide", "none")
  /\ UNCHANGED held

\* expand_with_trust_check.
Decide ==
  /\ turn.at = "decide"
  /\ \/ /\ ~SkipsConfirmation(turn.category)
        /\ Goes("answer", "AwaitingUserConfirmation") /\ UNCHANGED held
     \/ /\ SkipsConfirmation(turn.category)
        /\ turn.capability \notin Limit(turn.template)
        /\ Returns("error") /\ UNCHANGED held
     \/ /\ SkipsConfirmation(turn.category)
        /\ turn.capability \in Limit(turn.template)
        /\ Goes("answer", "Expanded")
        /\ held' = [held EXCEPT ![turn.purpose] = Extended(@, turn.capability)]

\* generate: the error hides what has been decided.
Answer ==
  /\ turn.at = "answer"
  /\ Returns(turn.result) \/ Returns("error")
  /\ UNCHANGED held

(***************************************************************************)
(* All together; a turn borrows its grant and the trust model              *)
(***************************************************************************)

Free(p) == p \in DOMAIN held /\ (Running => turn.purpose # p)

RulesStep ==
  /\ UNCHANGED <<trust, held, turn>>
  /\ \/ \E method \in Methods, protected \in BOOLEAN : AddRule(method, protected)
     \/ \E i \in DOMAIN watch : RelaxRule(i) \/ RecordFalsePositive(i)

TrustStep ==
  /\ UNCHANGED <<watch, held, turn>>
  /\ ~Running
  /\ \E k \in Categories : Declare(k) \/ \E w \in Weights : Approve(k, w)

GrantsStep ==
  /\ UNCHANGED <<watch, trust, turn>>
  /\ \/ DayPasses
     \/ \E p \in Purposes : Free(p) /\ (Use(p) \/ CheckDormancy(p) \/ Revoke(p))
     \/ \E p \in Purposes \ DOMAIN held, t \in DOMAIN Templates :
          \E initial \in SUBSET Capabilities : Create(p, t, initial)

TurnStep ==
  /\ UNCHANGED <<watch, trust>>
  /\ \/ /\ ~Running /\ UNCHANGED held
        /\ \E p \in DOMAIN held, t \in DOMAIN Templates, k \in Categories :
             \E c \in Capabilities : Begin(p, t, c, k)
     \/ BuildContext \/ Decide \/ Answer

Next == RulesStep \/ TrustStep \/ GrantsStep \/ TurnStep

Spec == Init /\ [][Next]_vars
================================================================================
