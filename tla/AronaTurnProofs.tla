---------------------------- MODULE AronaTurnProofs ----------------------------
(***************************************************************************)
(* Theorems about AronaTurn for every set of rules, templates, categories   *)
(* and purposes, and every threshold; that it implements WorkspaceTurn is   *)
(* the last of them.                                                        *)
(***************************************************************************)
EXTENDS AronaTurnRefines, SequenceTheorems, TLAPS

(***************************************************************************)
(* The inductive invariant                                                 *)
(***************************************************************************)

\* Protected rules are on; the first rules keep their place, their method and
\* their protection.
RulesOK ==
  /\ \A i \in DOMAIN rules : rules[i].protected => rules[i].active
  /\ DOMAIN FirstRules \subseteq DOMAIN rules
  /\ \A i \in DOMAIN FirstRules :
       rules[i].method = FirstRules[i].method /\ rules[i].protected = FirstRules[i].protected
  /\ ManyAlarmsRelax

GrantsOK ==
  /\ DormantMeansUnused
  /\ StartsInTemplate => WithinTemplate

\* What the turn has done so far to its grant, and what it knows.
Untouched == grants[req.purpose].granted = req.before

TurnOK ==
  /\ at \in {"memory", "guardian", "explain", "trust"} => Untouched
  /\ at = "respond" => outcome \in {"Expanded", "AwaitingUserConfirmation"}
  /\ at \in {"respond", "done"} /\ outcome \notin {"Expanded", "CognitionError"} => Untouched
  /\ at # "idle" /\ StartsInTemplate => req.template = grants[req.purpose].template
  /\ at = "trust" /\ IsJudged(req.capability) =>
       evaluate(derive_event_for_capability(req.capability)) = {}

IInv == TypeOK /\ RulesOK /\ GrantsOK /\ TurnOK

(***************************************************************************)
(* Steps that change the rules                                             *)
(***************************************************************************)

LEMMA NewRuleTyped == ASSUME NEW r \in NewRules PROVE New(r[1], r[2]) \in Rule
BY TurnAssumption DEF New, Rule, Methods

\* A rule replaced in the list leaves the list as long.
LEMMA RuleReplaced ==
  ASSUME TypeOK, NEW i \in DOMAIN rules, NEW r \in Rule
  PROVE  /\ [rules EXCEPT ![i] = r] \in Seq(Rule)
         /\ DOMAIN [rules EXCEPT ![i] = r] = DOMAIN rules
<1>1. rules \in Seq(Rule) /\ i \in 1 .. Len(rules)
  BY DEF TypeOK
<1> QED
  BY <1>1, ExceptSeq

\* What the guardian does to the rules keeps them as RulesOK says.
LEMMA RuleStep ==
  ASSUME TypeOK, RulesOK, GuardianNext
  PROVE  rules' \in Seq(Rule) /\ RulesOK'
<1>1. CASE add_rule
  <2>1. PICK r \in NewRules : rules' = Append(rules, New(r[1], r[2]))
    BY <1>1 DEF add_rule
  <2>2. New(r[1], r[2]) \in Rule
    BY NewRuleTyped
  <2>3. /\ rules' \in Seq(Rule)
        /\ DOMAIN rules' = 1 .. Len(rules) + 1
        /\ \A i \in DOMAIN rules : rules'[i] = rules[i]
        /\ rules'[Len(rules) + 1] = New(r[1], r[2])
    BY <2>1, <2>2 DEF TypeOK
  <2>4. DOMAIN rules = 1 .. Len(rules) /\ Len(rules) \in Nat
    BY DEF TypeOK
  <2>5. New(r[1], r[2]).active /\ New(r[1], r[2]).false_positive_count = 0
    BY DEF New
  <2>6. (\A i \in DOMAIN rules : rules[i].protected => rules[i].active)'
    BY <2>3, <2>4, <2>5 DEF RulesOK
  <2>7. ManyAlarmsRelax'
    BY <2>3, <2>4, <2>5, TurnAssumption DEF RulesOK, ManyAlarmsRelax
  <2> QED
    BY <2>3, <2>4, <2>6, <2>7 DEF RulesOK, TypeOK
<1>2. CASE relax_rule
  <2>1. PICK i \in DOMAIN rules :
          ~rules[i].protected /\ rules' = [rules EXCEPT ![i] = [@ EXCEPT !.active = FALSE]]
    BY <1>2 DEF relax_rule
  <2> DEFINE off == [rules[i] EXCEPT !.active = FALSE]
  <2>a. rules[i] \in Rule
    BY DEF TypeOK
  <2>b. off \in Rule
    BY <2>a DEF Rule
  <2>c. rules' = [rules EXCEPT ![i] = off]
    BY <2>1
  <2>2. rules' \in Seq(Rule) /\ DOMAIN rules' = DOMAIN rules
    BY <2>b, <2>c, RuleReplaced
  <2>3. \A j \in DOMAIN rules :
          /\ rules'[j].method = rules[j].method
          /\ rules'[j].protected = rules[j].protected
          /\ rules'[j].false_positive_count = rules[j].false_positive_count
          /\ rules'[j].active => rules[j].active
          /\ j # i => rules'[j] = rules[j]
    BY <2>a, <2>c DEF TypeOK, Rule
  <2> QED
    BY <2>1, <2>2, <2>3 DEF RulesOK, ManyAlarmsRelax, TypeOK
<1>3. CASE record_false_positive
  <2>1. PICK i \in DOMAIN rules : rules' = [rules EXCEPT ![i] = Alarmed(rules[i])]
    BY <1>3 DEF record_false_positive
  <2>a. rules[i] \in Rule
    BY DEF TypeOK
  <2>b. /\ Alarmed(rules[i]) \in Rule
        /\ Alarmed(rules[i]).method = rules[i].method
        /\ Alarmed(rules[i]).protected = rules[i].protected
        /\ Alarmed(rules[i]).false_positive_count = rules[i].false_positive_count + 1
    <3> DEFINE counted == [rules[i] EXCEPT !.false_positive_count = @ + 1]
    <3>1. /\ counted \in Rule
          /\ counted.method = rules[i].method /\ counted.protected = rules[i].protected
          /\ counted.false_positive_count = rules[i].false_positive_count + 1
      BY <2>a DEF Rule
    <3>2. Alarmed(rules[i]) = IF Relaxes(rules[i]) THEN [counted EXCEPT !.active = FALSE] ELSE counted
      BY DEF Alarmed
    <3> HIDE DEF counted
    <3>3. /\ [counted EXCEPT !.active = FALSE] \in Rule
          /\ [counted EXCEPT !.active = FALSE].method = counted.method
          /\ [counted EXCEPT !.active = FALSE].protected = counted.protected
          /\ [counted EXCEPT !.active = FALSE].false_positive_count = counted.false_positive_count
      BY <3>1 DEF Rule
    <3> QED
      BY <3>1, <3>2, <3>3
  <2>c. Relaxes(rules[i]) => ~Alarmed(rules[i]).active
    BY <2>a DEF Rule, Alarmed
  <2>d. ~Relaxes(rules[i]) => Alarmed(rules[i]).active = rules[i].active
    BY <2>a DEF Rule, Alarmed
  <2>3. rules' \in Seq(Rule) /\ DOMAIN rules' = DOMAIN rules
    BY <2>1, <2>b, RuleReplaced
  <2>4. \A j \in DOMAIN rules : j # i => rules'[j] = rules[j]
    BY <2>1 DEF TypeOK
  <2>5. rules'[i] = Alarmed(rules[i])
    BY <2>1 DEF TypeOK
  <2>7. (\A j \in DOMAIN rules : rules[j].protected => rules[j].active)'
    BY <2>3, <2>4, <2>5, <2>b, <2>d DEF RulesOK, Relaxes
  <2>8. ManyAlarmsRelax'
    <3>1. SUFFICES ASSUME NEW j \in DOMAIN rules,
                          ~rules'[j].protected, rules'[j].false_positive_count >= AutoRelaxAfter
                   PROVE  ~rules'[j].active
      BY <2>3 DEF ManyAlarmsRelax
    <3>2. CASE j = i
      BY <2>5, <2>b, <2>c, <3>1, <3>2 DEF Relaxes
    <3>3. CASE j # i
      BY <2>4, <3>1, <3>3 DEF RulesOK, ManyAlarmsRelax
    <3> QED
      BY <3>2, <3>3
  <2>9. \A j \in DOMAIN FirstRules :
          rules'[j].method = FirstRules[j].method /\ rules'[j].protected = FirstRules[j].protected
    BY <2>4, <2>5, <2>b DEF RulesOK
  <2> QED
    BY <2>3, <2>7, <2>8, <2>9 DEF RulesOK
<1> QED
  BY <1>1, <1>2, <1>3 DEF GuardianNext

(***************************************************************************)
(* Steps that change the grants                                            *)
(***************************************************************************)

GrantsTyped ==
  /\ DOMAIN grants \subseteq Purposes
  /\ grants \in [DOMAIN grants -> Grant]
  /\ today \in Nat
  /\ asked \subseteq DOMAIN grants

\* What such a step keeps of every grant.
OldGrantsKept ==
  /\ DOMAIN grants \subseteq DOMAIN grants'
  /\ \A p \in DOMAIN grants : grants'[p].template = grants[p].template

\* A use wakes a dormant grant and never a revoked one.
LEMMA TouchedGrant ==
  ASSUME NEW g \in Grant, today \in Nat
  PROVE  /\ Touched(g) \in Grant
         /\ Touched(g).template = g.template
         /\ Touched(g).granted = g.granted
         /\ Touched(g).status # "Dormant"
         /\ g.status = "Revoked" => Touched(g).status = "Revoked"
BY DEF Touched, Grant, Statuses

\* Looking after grants gives no capability and takes no revocation back.
LEMMA LookAfterStep ==
  ASSUME TypeOK, GrantsOK, LookAfterGrants
  PROVE  /\ GrantsTyped' /\ GrantsOK' /\ OldGrantsKept
         /\ \A p \in DOMAIN grants : Gained(p) = {} /\ grants'[p].granted = grants[p].granted
         /\ \A p \in DOMAIN grants : grants[p].status = "Revoked" => grants'[p].status = "Revoked"
<1> USE DEF GrantsTyped, GrantsOK, OldGrantsKept, Gained, WithinTemplate
<1>0. GrantsTyped
  BY DEF TypeOK
<1>t. DormantAfter \in Nat
  BY TurnAssumption
<1>1. CASE DayPasses
  BY <1>0, <1>1, <1>t DEF DayPasses, DormantMeansUnused, Grant
<1>2. CASE \E R \in SUBSET Purposes : AskToEnd(R)
  BY <1>0, <1>2 DEF AskToEnd, DormantMeansUnused
<1>3. ASSUME NEW p \in Purposes, NewGrant(p)
      PROVE  /\ GrantsTyped' /\ GrantsOK' /\ OldGrantsKept
             /\ \A q \in DOMAIN grants : grants'[q] = grants[q]
  <2>0. PICK t \in TemplateIds :
          \E initial \in SUBSET (IF StartsInTemplate THEN Templates[t] ELSE Capabilities) :
            grants' = [q \in DOMAIN grants \cup {p} |->
                         IF q = p THEN [template |-> t, granted |-> initial,
                                        status |-> "Active", last_used |-> today]
                         ELSE grants[q]]
    BY <1>3 DEF NewGrant
  <2>1. PICK initial \in SUBSET (IF StartsInTemplate THEN Templates[t] ELSE Capabilities) :
          grants' = [q \in DOMAIN grants \cup {p} |->
                       IF q = p THEN [template |-> t, granted |-> initial,
                                      status |-> "Active", last_used |-> today]
                       ELSE grants[q]]
    BY <2>0
  <2>2. initial \in SUBSET Capabilities
    BY DEF Capabilities
  <2>3. p \notin DOMAIN grants /\ today' = today /\ asked' = asked
    BY <1>3 DEF NewGrant
  <2>4. [template |-> t, granted |-> initial, status |-> "Active", last_used |-> today] \in Grant
    BY <1>0, <2>2 DEF Grant, Statuses
  <2>5. GrantsTyped'
    BY <1>0, <2>1, <2>3, <2>4
  <2>6. DormantMeansUnused'
    BY <1>0, <2>1, <2>3 DEF DormantMeansUnused
  <2>7. (StartsInTemplate => WithinTemplate)'
    BY <1>0, <2>1, <2>3
  <2> QED
    BY <2>1, <2>3, <2>5, <2>6, <2>7
<1>4. ASSUME NEW p \in Purposes, p \in DOMAIN grants, NEW g \in Grant,
             grants' = [grants EXCEPT ![p] = g], today' = today, asked' \subseteq asked,
             g.template = grants[p].template, g.granted = grants[p].granted,
             g.status = "Dormant" => today - g.last_used > DormantAfter,
             grants[p].status = "Revoked" => g.status = "Revoked"
      PROVE  /\ GrantsTyped' /\ GrantsOK' /\ OldGrantsKept
             /\ \A q \in DOMAIN grants : Gained(q) = {} /\ grants'[q].granted = grants[q].granted
             /\ \A q \in DOMAIN grants :
                  grants[q].status = "Revoked" => grants'[q].status = "Revoked"
  BY <1>0, <1>4 DEF DormantMeansUnused
<1>5. ASSUME NEW p \in Purposes, touch(p) PROVE Touched(grants[p]) \in Grant
  BY <1>0, <1>5, TouchedGrant DEF touch
<1>6. ASSUME NEW p \in Purposes, check_dormancy(p)
      PROVE  /\ [grants[p] EXCEPT !.status = "Dormant"] \in Grant
             /\ [grants[p] EXCEPT !.status = "Dormant"].last_used = grants[p].last_used
             /\ grants[p].status = "Active" /\ today - grants[p].last_used > DormantAfter
  BY <1>0, <1>6 DEF check_dormancy, is_dormant_by_elapsed_time, Grant, Statuses
<1>7. ASSUME NEW p \in Purposes, revoke_with_user_approval(p)
      PROVE  [grants[p] EXCEPT !.status = "Revoked"] \in Grant
  BY <1>0, <1>7 DEF revoke_with_user_approval, Grant, Statuses
<1>8. ASSUME NEW p \in Purposes, touch(p)
      PROVE  /\ p \in DOMAIN grants /\ grants' = [grants EXCEPT ![p] = Touched(grants[p])]
             /\ today' = today /\ asked' = asked
  BY <1>8 DEF touch
<1>9. CASE \E p \in Purposes : touch(p)
  <2>1. PICK p \in Purposes : touch(p)
    BY <1>9
  <2>2. /\ p \in DOMAIN grants /\ grants' = [grants EXCEPT ![p] = Touched(grants[p])]
        /\ today' = today /\ asked' = asked
    BY <2>1, <1>8
  <2>3. grants[p] \in Grant
    BY <1>0, <2>2
  <2>4. /\ Touched(grants[p]) \in Grant
        /\ Touched(grants[p]).template = grants[p].template
        /\ Touched(grants[p]).granted = grants[p].granted
        /\ Touched(grants[p]).status # "Dormant"
        /\ grants[p].status = "Revoked" => Touched(grants[p]).status = "Revoked"
    BY <1>0, <2>3, TouchedGrant
  <2> QED
    BY <2>2, <2>4, <1>4
<1>10. CASE \E p \in Purposes : check_dormancy(p)
  <2>1. PICK p \in Purposes : check_dormancy(p)
    BY <1>10
  <2>2. /\ p \in DOMAIN grants
        /\ grants' = [grants EXCEPT ![p] = [grants[p] EXCEPT !.status = "Dormant"]]
        /\ today' = today /\ asked' = asked
    BY <2>1 DEF check_dormancy
  <2>3. /\ [grants[p] EXCEPT !.status = "Dormant"].template = grants[p].template
        /\ [grants[p] EXCEPT !.status = "Dormant"].granted = grants[p].granted
    BY <1>0, <2>2 DEF Grant
  <2> QED
    BY <1>4, <1>6, <2>1, <2>2, <2>3
<1>11. CASE \E p \in Purposes : revoke_with_user_approval(p)
  <2>1. PICK p \in Purposes : revoke_with_user_approval(p)
    BY <1>11
  <2>2. /\ p \in DOMAIN grants
        /\ grants' = [grants EXCEPT ![p] = [grants[p] EXCEPT !.status = "Revoked"]]
        /\ today' = today /\ asked' \subseteq asked
    BY <1>0, <2>1 DEF revoke_with_user_approval
  <2>3. /\ [grants[p] EXCEPT !.status = "Revoked"].template = grants[p].template
        /\ [grants[p] EXCEPT !.status = "Revoked"].granted = grants[p].granted
        /\ [grants[p] EXCEPT !.status = "Revoked"].status = "Revoked"
    BY <1>0, <2>2 DEF Grant
  <2> QED
    BY <1>4, <1>7, <2>1, <2>2, <2>3
<1> QED
  BY <1>1, <1>2, <1>3, <1>9, <1>10, <1>11 DEF LookAfterGrants

(***************************************************************************)
(* The turn extends a grant                                                *)
(***************************************************************************)

\* An extension adds one capability to those granted and never wakes a revoked grant.
LEMMA ExtendedGrant ==
  ASSUME NEW g \in Grant, NEW c \in Capabilities, today \in Nat
  PROVE  /\ Expanded(g, c) \in Grant
         /\ Expanded(g, c).template = g.template
         /\ Expanded(g, c).granted = g.granted \cup {c}
         /\ Expanded(g, c).status # "Dormant"
         /\ g.status = "Revoked" => Expanded(g, c).status = "Revoked"
<1> DEFINE h == [g EXCEPT !.granted = @ \cup {c}]
<1>1. h \in Grant /\ h.template = g.template /\ h.granted = g.granted \cup {c} /\ h.status = g.status
  BY DEF Grant
<1>2. Expanded(g, c) = Touched(h)
  BY DEF Expanded
<1> HIDE DEF h
<1> QED
  BY <1>1, <1>2, TouchedGrant

\* The one step of a turn that changes a grant.
Extends ==
  /\ at = "trust"
  /\ ExpandSucceeds
  /\ UNCHANGED <<rules, scores, today, asked, req>>

\* An extension reaches the grant and the capability of the request under way and no other.
LEMMA ExtendStep ==
  ASSUME IInv, Extends
  PROVE  /\ GrantsTyped' /\ GrantsOK' /\ OldGrantsKept /\ DOMAIN grants' = DOMAIN grants
         /\ \A p \in DOMAIN grants : \A c \in Gained(p) : p = req.purpose /\ c = req.capability
         /\ \A p \in DOMAIN grants : grants[p].status = "Revoked" => grants'[p].status = "Revoked"
<1> DEFINE p == req.purpose
           c == req.capability
<1>1. /\ p \in DOMAIN grants /\ c \in Capabilities /\ grants[p] \in Grant /\ today \in Nat
      /\ GrantsTyped
  BY DEF IInv, TypeOK, Extends, Request, GrantsTyped
<1>2. /\ Expanded(grants[p], c) \in Grant
      /\ Expanded(grants[p], c).template = grants[p].template
      /\ Expanded(grants[p], c).granted = grants[p].granted \cup {c}
      /\ Expanded(grants[p], c).status # "Dormant"
      /\ grants[p].status = "Revoked" => Expanded(grants[p], c).status = "Revoked"
  BY <1>1, ExtendedGrant
<1>3. grants' = [grants EXCEPT ![p] = Expanded(grants[p], c)] /\ today' = today /\ asked' = asked
  BY DEF Extends, ExpandSucceeds
<1>4. StartsInTemplate => c \in Templates[grants[p].template]
  BY DEF Extends, ExpandSucceeds, IInv, TurnOK, InTemplate
<1> HIDE DEF p, c
<1>5. GrantsTyped'
  BY <1>1, <1>2, <1>3 DEF GrantsTyped
<1>6. DormantMeansUnused'
  BY <1>1, <1>2, <1>3 DEF GrantsTyped, IInv, GrantsOK, DormantMeansUnused
<1>7. (StartsInTemplate => WithinTemplate)'
  BY <1>1, <1>2, <1>3, <1>4 DEF GrantsTyped, IInv, GrantsOK, WithinTemplate
<1>8. OldGrantsKept /\ DOMAIN grants' = DOMAIN grants
  BY <1>1, <1>2, <1>3 DEF GrantsTyped, OldGrantsKept
<1>9. \A q \in DOMAIN grants : \A d \in Gained(q) : q = p /\ d = c
  BY <1>1, <1>2, <1>3 DEF GrantsTyped, Gained
<1>10. \A q \in DOMAIN grants : grants[q].status = "Revoked" => grants'[q].status = "Revoked"
  BY <1>1, <1>2, <1>3 DEF GrantsTyped
<1> QED
  BY <1>5, <1>6, <1>7, <1>8, <1>9, <1>10 DEF GrantsOK, p, c

(***************************************************************************)
(* Every step                                                              *)
(***************************************************************************)

\* What the steps do to the parts of the state, in one line each.
TurnMoves ==
  \/ BeginTurn \/ FetchMemories \/ GuardianJudges \/ ExplainBlock \/ Respond
  \/ expand_with_trust_check /\ UNCHANGED grants

\* The six kinds of step, by what they may change.
LEMMA StepKinds ==
  ASSUME Next
  PROVE  TurnMoves \/ Extends \/ ChangeRules \/ UserApproves \/ UserDeclares
           \/ LookAfterGrants
BY DEF Next, TurnStep, TurnMoves, Extends, expand_with_trust_check, AsksUser, ExpandFails

\* The strengthened invariant holds at the start and is kept by every step.
LEMMA Initially == Init => IInv
<1>1. ASSUME Init PROVE TypeOK
  BY <1>1, TurnAssumption
     DEF Init, GuardianInit, TrustInit, GrantsInit, TypeOK
<1>2. ASSUME Init PROVE RulesOK
  BY <1>2, TurnAssumption
     DEF Init, GuardianInit, RulesOK, ManyAlarmsRelax
<1>3. ASSUME Init PROVE GrantsOK /\ TurnOK
  BY <1>3 DEF Init, GrantsInit, GrantsOK, TurnOK, DormantMeansUnused, WithinTemplate
<1> QED
  BY <1>1, <1>2, <1>3 DEF IInv

\* The rest of a turn changes neither the grants nor the rules.
LEMMA TurnMoveStep ==
  ASSUME IInv, TurnMoves
  PROVE  IInv' /\ grants' = grants /\ rules' = rules
<1> USE DEF IInv
<1>1. /\ rules' = rules /\ scores' = scores
      /\ grants' = grants /\ today' = today /\ asked' = asked
  BY DEF TurnMoves, BeginTurn, FetchMemories, GuardianJudges, ExplainBlock, Respond,
         expand_with_trust_check, grantVars
<1>2. RulesOK' /\ GrantsOK'
  BY <1>1 DEF RulesOK, ManyAlarmsRelax, GrantsOK, DormantMeansUnused, WithinTemplate
<1>3. ASSUME at' \in {"memory", "guardian", "explain", "trust", "respond", "done"},
             req' \in Request, req'.purpose \in DOMAIN grants, outcome' \in Outcomes \cup {"none"},
             at' = "done" => outcome' \in Outcomes
      PROVE  TypeOK'
  BY <1>1, <1>3 DEF TypeOK
<1>4. CASE BeginTurn
  <2>1. PICK p \in DOMAIN grants, t \in TemplateIds, c \in Capabilities, k \in Categories :
          /\ StartsInTemplate => t = grants[p].template
          /\ req' = [purpose |-> p, template |-> t, capability |-> c, category |-> k,
                     before |-> grants[p].granted]
    BY <1>4 DEF BeginTurn
  <2>2. at' = "memory" /\ outcome' = "none"
    BY <1>4 DEF BeginTurn
  <2>3. req' \in Request /\ req'.purpose \in DOMAIN grants
    BY <2>1 DEF TypeOK, Request, Grant
  <2>4. TurnOK'
    BY <1>1, <2>1, <2>2 DEF TurnOK, Untouched
  <2> QED
    BY <1>1, <1>2, <1>3, <2>2, <2>3, <2>4 DEF Outcomes
<1>5. ASSUME at \in {"memory", "guardian", "explain", "trust", "respond"}, req' = req,
             at' \in {"guardian", "explain", "trust", "respond", "done"},
             outcome' \in Outcomes \cup {"none"},
             at' = "done" => outcome' \in Outcomes
      PROVE  TypeOK'
  BY <1>3, <1>5 DEF TypeOK
<1>6. CASE FetchMemories
  <2>1. TypeOK'
    BY <1>5, <1>6 DEF FetchMemories, Finish, TypeOK, Outcomes, Errors
  <2>2. TurnOK'
    BY <1>1, <1>6 DEF FetchMemories, Finish, TurnOK, Untouched
  <2> QED
    BY <1>1, <1>2, <2>1, <2>2
<1>7. CASE GuardianJudges
  <2>1. TypeOK'
    BY <1>5, <1>7 DEF GuardianJudges, TypeOK
  <2>2. at' = "trust" /\ IsJudged(req.capability) =>
          evaluate(derive_event_for_capability(req.capability)) = {}
    BY <1>7 DEF GuardianJudges
  <2>3. TurnOK'
    BY <1>1, <1>7, <2>2 DEF GuardianJudges, TurnOK, Untouched, evaluate
  <2> QED
    BY <1>1, <1>2, <2>1, <2>3
<1>8. CASE ExplainBlock
  <2>1. TypeOK'
    BY <1>5, <1>8 DEF ExplainBlock, Finish, TypeOK, Outcomes, Errors
  <2>2. TurnOK'
    BY <1>1, <1>8 DEF ExplainBlock, Finish, TurnOK, Untouched
  <2> QED
    BY <1>1, <1>2, <2>1, <2>2
<1>9. CASE Respond
  <2>1. TypeOK'
    BY <1>5, <1>9 DEF Respond, Finish, TypeOK, TurnOK, Outcomes, Errors
  <2>2. TurnOK'
    BY <1>1, <1>9 DEF Respond, Finish, TurnOK, Untouched
  <2> QED
    BY <1>1, <1>2, <2>1, <2>2
<1>10. CASE expand_with_trust_check /\ UNCHANGED grants
  <2>1. /\ at = "trust" /\ req' = req
        /\ \/ at' = "respond" /\ outcome' = "AwaitingUserConfirmation"
           \/ at' = "done" /\ outcome' = "ExpandError"
           \/ at' = "respond" /\ outcome' = "Expanded"
    BY <1>10 DEF expand_with_trust_check, AsksUser, ExpandFails, ExpandSucceeds, Finish
  <2>2. TypeOK'
    BY <1>5, <2>1 DEF Outcomes, Errors
  <2>3. TurnOK'
    BY <1>1, <2>1 DEF TurnOK, Untouched
  <2> QED
    BY <1>1, <1>2, <2>2, <2>3
<1> QED
  BY <1>4, <1>6, <1>7, <1>8, <1>9, <1>10 DEF TurnMoves

LEMMA Inductive == IInv /\ [Next]_vars => IInv'
<1> SUFFICES ASSUME IInv, [Next]_vars PROVE IInv'
  OBVIOUS
<1> USE DEF IInv
<1>1. CASE TurnMoves
  BY <1>1, TurnMoveStep
<1>2. CASE Extends
  <2>1. GrantsTyped' /\ GrantsOK' /\ OldGrantsKept /\ DOMAIN grants' = DOMAIN grants
    BY <1>2, ExtendStep
  <2>2. TypeOK'
    BY <1>2, <2>1 DEF Extends, ExpandSucceeds, TypeOK, GrantsTyped, Outcomes
  <2>3. RulesOK'
    BY <1>2 DEF Extends, RulesOK, ManyAlarmsRelax
  <2>4. TurnOK'
    BY <1>2, <2>1 DEF Extends, ExpandSucceeds, TurnOK, OldGrantsKept, TypeOK
  <2> QED
    BY <2>1, <2>2, <2>3, <2>4
<1>3. CASE ChangeRules
  <2>1. rules' \in Seq(Rule) /\ RulesOK'
    BY <1>3, RuleStep DEF ChangeRules
  <2>2. /\ at \in {"idle", "done"} /\ at' = at /\ req' = req /\ outcome' = outcome
        /\ grants' = grants /\ today' = today /\ asked' = asked
        /\ scores' = scores
    BY <1>3 DEF ChangeRules, InTurn, TypeOK, turnVars, grantVars
  <2>3. TypeOK'
    BY <2>1, <2>2 DEF TypeOK
  <2>4. GrantsOK' /\ TurnOK'
    BY <2>2 DEF GrantsOK, DormantMeansUnused, WithinTemplate, TurnOK, Untouched
  <2> QED
    BY <2>1, <2>3, <2>4
<1>4. ASSUME scores' \in [Categories -> [count : Nat, declared : BOOLEAN]],
             UNCHANGED <<rules, grantVars, turnVars>>
      PROVE  IInv'
  <2>1. TypeOK'
    BY <1>4 DEF TypeOK, grantVars, turnVars
  <2>2. RulesOK' /\ GrantsOK' /\ TurnOK'
    BY <1>4 DEF grantVars, turnVars, RulesOK, ManyAlarmsRelax, GrantsOK,
                DormantMeansUnused, WithinTemplate, TurnOK, Untouched, evaluate
  <2> QED
    BY <2>1, <2>2
<1>5. CASE UserApproves
  <2>1. PICK k \in Categories, manner \in Manners : record_approval(k, manner)
    BY <1>5 DEF UserApproves
  <2>2. weight(manner) \in Nat
    BY DEF weight
  <2>3. scores[k].count \in Nat /\ scores[k].declared \in BOOLEAN
    BY DEF TypeOK
  <2>4. scores' = [scores EXCEPT ![k] = [@ EXCEPT !.count = scores[k].count + weight(manner)]]
    BY <2>1 DEF record_approval
  <2> DEFINE s == [scores[k] EXCEPT !.count = scores[k].count + weight(manner)]
  <2>a. s \in [count : Nat, declared : BOOLEAN]
    BY <2>2, <2>3 DEF TypeOK
  <2>b. scores' = [scores EXCEPT ![k] = s]
    BY <2>4
  <2> HIDE DEF s
  <2>5. scores' \in [Categories -> [count : Nat, declared : BOOLEAN]]
    BY <2>a, <2>b DEF TypeOK
  <2> QED
    BY <1>4, <1>5, <2>5 DEF UserApproves
<1>6. CASE UserDeclares
  BY <1>4, <1>6 DEF UserDeclares, declare_no_confirmation_needed, TypeOK
<1>8. CASE LookAfterGrants
  <2>1. /\ GrantsTyped' /\ GrantsOK' /\ OldGrantsKept
        /\ \A p \in DOMAIN grants : grants'[p].granted = grants[p].granted
    BY <1>8, LookAfterStep
  <2>2. UNCHANGED <<rules, scores, turnVars>>
    BY <1>8 DEF LookAfterGrants
  <2>3. TypeOK'
    BY <2>1, <2>2 DEF TypeOK, GrantsTyped, OldGrantsKept, turnVars
  <2>4. RulesOK'
    BY <2>2 DEF RulesOK, ManyAlarmsRelax
  <2>5. TurnOK'
    BY <2>1, <2>2 DEF TurnOK, OldGrantsKept, TypeOK, turnVars, Untouched, evaluate
  <2> QED
    BY <2>1, <2>3, <2>4, <2>5
<1>9. CASE UNCHANGED vars
  BY <1>9, <1>4 DEF vars, TypeOK
<1> QED
  BY <1>1, <1>2, <1>3, <1>5, <1>6, <1>8, <1>9, StepKinds

\* Types, rules, grants and what the turn remembers of its grant and its verdict (IInv) hold in
\* every reachable state of orchestrator, guardian, permissions and trust model.
THEOREM Invariance == Spec => []IInv
<1>1. Init => IInv
  BY Initially
<1>2. IInv /\ [Next]_vars => IInv'
  BY Inductive
<1> QED
  BY <1>1, <1>2, PTL DEF Spec

(***************************************************************************)
(* The properties                                                          *)
(***************************************************************************)

\* The state has the shape the Rust types give it. (turn.rs, and the types)
THEOREM TypeCorrect == Spec => []TypeOK
<1>1. IInv => TypeOK
  BY DEF IInv
<1> QED
  BY <1>1, Invariance, PTL

\* The first rules that are protected intervene for ever. (engine.rs)
THEOREM TheSanctuaryStands == Spec => []SanctuaryStands
<1>1. IInv => SanctuaryStands
  BY DEF IInv, RulesOK, SanctuaryStands, evaluate
<1> QED
  BY <1>1, Invariance, PTL

\* A turn that was refused, or that waits, changed nothing. (turn.rs)
THEOREM RefusedTurnsChangeNothing == Spec => []OnlyExpandedTurnsGrant
<1>1. IInv => OnlyExpandedTurnsGrant
  BY DEF IInv, TurnOK, OnlyExpandedTurnsGrant, Untouched
<1> QED
  BY <1>1, Invariance, PTL

\* Enough false alarms switch an unprotected rule off for good. (engine.rs)
THEOREM AlarmsRelax == Spec => []ManyAlarmsRelax
<1>1. IInv => ManyAlarmsRelax
  BY DEF IInv, RulesOK
<1> QED
  BY <1>1, Invariance, PTL

\* What the user is told about a dormant grant is true. (grant.rs, audit.rs)
THEOREM DormancyIsTrue == Spec => []DormantMeansUnused
<1>1. IInv => DormantMeansUnused
  BY DEF IInv, GrantsOK
<1> QED
  BY <1>1, Invariance, PTL

\* Callers that start inside a template and keep it stay inside. (grant.rs)
THEOREM CarefulCallersStayWithin ==
  ASSUME StartsInTemplate
  PROVE  Spec => []WithinTemplate
<1>1. IInv => WithinTemplate
  BY DEF IInv, GrantsOK
<1> QED
  BY <1>1, Invariance, PTL

\* Which step extends a grant, and by what.
LEMMA OnlyExtendsGains ==
  ASSUME IInv, [Next]_vars, NEW p \in DOMAIN grants, NEW c \in Gained(p)
  PROVE  Extends /\ p = req.purpose /\ c = req.capability
<1>1. CASE TurnMoves
  BY <1>1, TurnMoveStep DEF Gained
<1>2. CASE Extends
  BY <1>2, ExtendStep
<1>3. CASE ChangeRules \/ UserApproves \/ UserDeclares \/ UNCHANGED vars
  BY <1>3 DEF ChangeRules, UserApproves, UserDeclares, vars, grantVars, Gained
<1>4. CASE LookAfterGrants
  BY <1>4, LookAfterStep DEF IInv
<1> QED
  BY <1>1, <1>2, <1>3, <1>4, StepKinds

\* The verdict of the guardian still holds when the grant is extended, and no
\* protected rule is ever overruled. (turn.rs, engine.rs)
THEOREM GuardianIsRespected == Spec => GrowthRespectsGuardian
<1> DEFINE Respected ==
      \A p \in DOMAIN grants : \A c \in Gained(p) : IsJudged(c) =>
        \A i \in DOMAIN rules :
          Matches(rules[i].method, derive_event_for_capability(c)) =>
            ~rules[i].active /\ ~rules[i].protected
<1>1. IInv /\ [Next]_vars => Respected
  <2> SUFFICES ASSUME IInv, [Next]_vars,
                      NEW p \in DOMAIN grants, NEW c \in Gained(p), IsJudged(c),
                      NEW i \in DOMAIN rules,
                      Matches(rules[i].method, derive_event_for_capability(c))
               PROVE  ~rules[i].active /\ ~rules[i].protected
    OBVIOUS
  <2>1. Extends /\ c = req.capability
    BY OnlyExtendsGains
  <2>2. evaluate(derive_event_for_capability(c)) = {}
    BY <2>1 DEF Extends, ExpandSucceeds, IInv, TurnOK
  <2>3. ~rules[i].active
    BY <2>2 DEF evaluate
  <2> QED
    BY <2>3 DEF IInv, RulesOK
<1> HIDE DEF Respected
<1>2. IInv /\ [Next]_vars => [Respected]_vars
  BY <1>1
<1>3. Spec => [][Respected]_vars
  BY <1>2, Invariance, PTL DEF Spec
<1> QED
  BY <1>3 DEF Respected, GrowthRespectsGuardian

\* A grant grows only by what its turn asks for, in a category the user has
\* come to trust. (confirmation.rs, engine.rs of arona_adaptive)
THEOREM TrustIsRequired == Spec => GrowthNeedsTrust
<1> DEFINE Trusted ==
      \A p \in DOMAIN grants : \A c \in Gained(p) :
        /\ InTurn /\ req.purpose = p /\ req.capability = c
        /\ scores[req.category].declared \/ scores[req.category].count >= SkipThreshold
<1>1. IInv /\ [Next]_vars => Trusted
  BY OnlyExtendsGains DEF Extends, ExpandSucceeds, InTurn, should_skip_confirmation
<1> HIDE DEF Trusted
<1>2. IInv /\ [Next]_vars => [Trusted]_vars
  BY <1>1
<1>3. Spec => [][Trusted]_vars
  BY <1>2, Invariance, PTL DEF Spec
<1> QED
  BY <1>3 DEF Trusted, GrowthNeedsTrust

\* A grant the user has ended stays ended. (grant.rs)
THEOREM RevocationIsFinal == Spec => RevokedStaysRevoked
<1> DEFINE Final ==
      \A p \in DOMAIN grants :
        grants[p].status = "Revoked" => grants'[p].status = "Revoked"
<1>1. IInv /\ [Next]_vars => Final
  <2> SUFFICES ASSUME IInv, [Next]_vars PROVE Final
    OBVIOUS
  <2>1. CASE TurnMoves
    BY <2>1, TurnMoveStep
  <2>2. CASE Extends
    BY <2>2, ExtendStep
  <2>3. CASE ChangeRules \/ UserApproves \/ UserDeclares \/ UNCHANGED vars
    BY <2>3 DEF ChangeRules, UserApproves, UserDeclares, vars, grantVars
  <2>4. CASE LookAfterGrants
    BY <2>4, LookAfterStep DEF IInv
  <2> QED
    BY <2>1, <2>2, <2>3, <2>4, StepKinds
<1> HIDE DEF Final
<1>2. IInv /\ [Next]_vars => [Final]_vars
  BY <1>1
<1>3. Spec => [][Final]_vars
  BY <1>2, Invariance, PTL DEF Spec
<1> QED
  BY <1>3 DEF Final, RevokedStaysRevoked

(***************************************************************************)
(* The refinement: the turn with the guardian implements the turn without   *)
(* it.  Each step of AronaTurn is a step of WorkspaceTurn or changes       *)
(* nothing of it.                                                          *)
(***************************************************************************)

Trusts == [k \in Categories |-> Score(scores[k])]

Held == [p \in DOMAIN grants |-> Unused(grants[p])]

\* What the proof needs beside IInv: nothing is returned before the trust model has been asked.
NothingReturned == at \in {"memory", "guardian", "explain", "trust"} => outcome = "none"

RInv == IInv /\ NothingReturned

\* A turn has returned nothing before the trust model is asked.
LEMMA NothingReturnedYet == Spec => []RInv
<1>1. Init => RInv
  BY Initially DEF Init, RInv, NothingReturned
<1>2. RInv /\ [Next]_vars => RInv'
  <2> SUFFICES ASSUME RInv, [Next]_vars PROVE NothingReturned'
    BY Inductive DEF RInv
  <2>1. CASE TurnStep
    BY <2>1 DEF TurnStep, FetchMemories, GuardianJudges, ExplainBlock, expand_with_trust_check,
       AsksUser, ExpandFails, ExpandSucceeds, Respond, Finish, RInv, NothingReturned
  <2>2. CASE BeginTurn
    BY <2>2 DEF BeginTurn, NothingReturned
  <2>3. CASE ChangeRules \/ UserApproves \/ UserDeclares \/ LookAfterGrants \/ UNCHANGED vars
    BY <2>3 DEF ChangeRules, UserApproves, UserDeclares, LookAfterGrants, vars, turnVars, RInv,
       NothingReturned
  <2> QED
    BY <2>1, <2>2, <2>3 DEF Next
<1> QED
  BY <1>1, <1>2, PTL DEF Spec

(***************************************************************************)
(* The rules                                                               *)
(***************************************************************************)

OldRule == [method : Methods, protected : BOOLEAN, on : BOOLEAN, alarms : Nat]

\* Two rules of the older guardian with the same fields are the same rule.
LEMMA SameRule ==
  ASSUME NEW a \in OldRule, NEW b \in OldRule,
         a.method = b.method, a.protected <=> b.protected, a.on <=> b.on, a.alarms = b.alarms
  PROVE  a = b
BY DEF OldRule

\* A rule in the older system's terms, where alarms are counted up to the relaxation only.
LEMMA CountedRule ==
  ASSUME NEW r \in Rule
  PROVE  /\ Counted(r) \in OldRule
         /\ Counted(r).method = r.method /\ (Counted(r).protected <=> r.protected)
         /\ Counted(r).on <=> r.active
         /\ Counted(r).alarms = Least(AutoRelaxAfter, r.false_positive_count)
BY TurnAssumption DEF Counted, Rule, OldRule, Least

\* A rule switched off, in the older system's terms.
LEMMA RuleOff ==
  ASSUME NEW r \in OldRule
  PROVE  /\ Old!Off(r) \in OldRule
         /\ Old!Off(r).method = r.method /\ (Old!Off(r).protected <=> r.protected)
         /\ ~Old!Off(r).on /\ Old!Off(r).alarms = r.alarms
BY DEF Old!Off, OldRule

\* A rule that is relaxed.
LEMMA RelaxedCounts ==
  ASSUME NEW r \in Rule
  PROVE  Counted([r EXCEPT !.active = FALSE]) = Old!Off(Counted(r))
<1> DEFINE relaxed == [r EXCEPT !.active = FALSE]
<1>1. /\ relaxed \in Rule /\ relaxed.method = r.method /\ (relaxed.protected <=> r.protected)
      /\ ~relaxed.active /\ relaxed.false_positive_count = r.false_positive_count
  BY DEF Rule
<1> HIDE DEF relaxed
<1>2. Counted(relaxed) = Old!Off(Counted(r))
  BY <1>1, CountedRule, RuleOff, SameRule
<1> QED
  BY <1>2 DEF relaxed

\* A rule after a false alarm.
LEMMA AlarmedCounts ==
  ASSUME NEW r \in Rule
  PROVE  LET counted == [Counted(r) EXCEPT !.alarms = Old!AtMost(AutoRelaxAfter, @ + 1)]
         IN  Counted(Alarmed(r)) =
               IF ~counted.protected /\ counted.alarms = AutoRelaxAfter
               THEN Old!Off(counted) ELSE counted
<1> DEFINE n == r.false_positive_count
           k == Least(AutoRelaxAfter, n + 1)
           counted == [Counted(r) EXCEPT !.alarms = Old!AtMost(AutoRelaxAfter, @ + 1)]
<1>1. /\ k = Old!AtMost(AutoRelaxAfter, Least(AutoRelaxAfter, n) + 1) /\ k \in Nat
      /\ n + 1 >= AutoRelaxAfter <=> k = AutoRelaxAfter
  BY TurnAssumption DEF Rule, Least, Old!AtMost
<1>2. /\ Alarmed(r) \in Rule /\ Alarmed(r).method = r.method
      /\ Alarmed(r).protected <=> r.protected
      /\ Alarmed(r).active <=> r.active /\ ~Relaxes(r)
      /\ Alarmed(r).false_positive_count = n + 1
  <2>1. CASE Relaxes(r)
    <3> DEFINE once == [r EXCEPT !.false_positive_count = @ + 1]
    <3>1. /\ once \in Rule /\ once.method = r.method /\ (once.protected <=> r.protected)
          /\ once.false_positive_count = n + 1
      BY DEF Rule
    <3>2. Alarmed(r) = [once EXCEPT !.active = FALSE]
      BY <2>1 DEF Alarmed
    <3> HIDE DEF once
    <3> QED
      BY <2>1, <3>1, <3>2 DEF Rule
  <2>2. CASE ~Relaxes(r)
    <3>1. Alarmed(r) = [r EXCEPT !.false_positive_count = @ + 1]
      BY <2>2 DEF Alarmed
    <3> QED
      BY <2>2, <3>1 DEF Rule
  <2> QED
    BY <2>1, <2>2
<1>3. /\ counted \in OldRule /\ counted.method = r.method /\ (counted.protected <=> r.protected)
      /\ counted.on <=> r.active
      /\ counted.alarms = k
  <2>1. Counted(r) \in OldRule /\ Counted(r).alarms = Least(AutoRelaxAfter, n)
    BY CountedRule
  <2>2. counted = [Counted(r) EXCEPT !.alarms = k]
    BY <1>1, <2>1
  <2> HIDE DEF counted, k
  <2>3. /\ counted \in OldRule /\ counted.method = Counted(r).method
        /\ counted.protected <=> Counted(r).protected
        /\ counted.on <=> Counted(r).on
        /\ counted.alarms = k
    BY <1>1, <2>1, <2>2 DEF OldRule
  <2> QED
    BY <2>3, CountedRule
<1> HIDE DEF counted
<1>4. CASE Relaxes(r)
  <2>1. ~counted.protected /\ counted.alarms = AutoRelaxAfter
    BY <1>1, <1>3, <1>4 DEF Relaxes
  <2>2. Counted(Alarmed(r)) = Old!Off(counted)
    BY <1>2, <1>3, <1>4, CountedRule, RuleOff, SameRule
  <2> QED
    BY <2>1, <2>2 DEF counted
<1>5. CASE ~Relaxes(r)
  <2>1. ~(~counted.protected /\ counted.alarms = AutoRelaxAfter)
    BY <1>1, <1>3, <1>5 DEF Relaxes
  <2>2. Counted(Alarmed(r)) = counted
    BY <1>2, <1>3, <1>5, CountedRule, SameRule
  <2> QED
    BY <2>1, <2>2 DEF counted
<1> QED
  BY <1>4, <1>5

\* A change of the rules is one of the older system.
LEMMA ChangeRulesRefines ==
  ASSUME TypeOK, ChangeRules
  PROVE  Old!RulesStep
<1>1. rules \in Seq(Rule) /\ GuardianNext
  BY DEF TypeOK, ChangeRules
<1>2. UNCHANGED <<Trusts, Held, OldTurn>>
  BY DEF ChangeRules, grantVars, turnVars, Trusts, Held, OldTurn, OldPlace, OldResult, Score, Unused
<1>3. CASE add_rule
  <2>1. PICK r \in NewRules : rules' = Append(rules, New(r[1], r[2]))
    BY <1>3 DEF add_rule
  <2>2. New(r[1], r[2]) \in Rule /\ r[1] \in Methods /\ r[2] \in BOOLEAN
    BY NewRuleTyped, TurnAssumption DEF Methods
  <2>3. Watched' = Append(Watched, Counted(New(r[1], r[2])))
    BY <1>1, <2>1, <2>2 DEF Watched
  <2>4. Counted(New(r[1], r[2])) =
          [method |-> r[1], protected |-> r[2], on |-> TRUE, alarms |-> 0]
    <3> DEFINE added == [method |-> r[1], protected |-> r[2], on |-> TRUE, alarms |-> 0]
    <3>1. /\ added \in OldRule /\ added.method = r[1] /\ (added.protected <=> r[2])
          /\ added.on /\ added.alarms = 0
      BY <2>2 DEF OldRule
    <3>2. LET new == New(r[1], r[2])
          IN  /\ new.method = r[1] /\ (new.protected <=> r[2]) /\ new.active
              /\ new.false_positive_count = 0
      BY <2>2 DEF New
    <3>3. Least(AutoRelaxAfter, 0) = 0
      BY TurnAssumption DEF Least
    <3> HIDE DEF added
    <3>4. Counted(New(r[1], r[2])) = added
      BY <2>2, <3>1, <3>2, <3>3, CountedRule, SameRule
    <3> QED
      BY <3>4 DEF added
  <2> QED
    BY <1>2, <2>2, <2>3, <2>4 DEF Old!RulesStep, Old!AddRule, Trusts, Held
<1>4. CASE relax_rule
  <2>1. PICK i \in DOMAIN rules :
          ~rules[i].protected /\ rules' = [rules EXCEPT ![i] = [rules[i] EXCEPT !.active = FALSE]]
    BY <1>4 DEF relax_rule
  <2>2. Watched' = [Watched EXCEPT ![i] = Counted([rules[i] EXCEPT !.active = FALSE])]
    BY <1>1, <2>1 DEF Watched
  <2>3. Watched' = [Watched EXCEPT ![i] = Old!Off(Watched[i])] /\ ~Watched[i].protected
    <3>1. rules[i] \in Rule /\ Watched[i] = Counted(rules[i])
      BY <1>1 DEF Watched
    <3>2. Counted([rules[i] EXCEPT !.active = FALSE]) = Old!Off(Watched[i])
      BY <3>1, RelaxedCounts
    <3>3. ~Watched[i].protected
      BY <2>1, <3>1, CountedRule
    <3> QED
      BY <2>2, <3>2, <3>3
  <2>4. i \in DOMAIN Watched
    BY DEF Watched
  <2> QED
    BY <1>2, <2>3, <2>4 DEF Old!RulesStep, Old!RelaxRule, Trusts, Held
<1>5. CASE record_false_positive
  <2>1. PICK i \in DOMAIN rules : rules' = [rules EXCEPT ![i] = Alarmed(rules[i])]
    BY <1>5 DEF record_false_positive
  <2>2. Watched' = [Watched EXCEPT ![i] = Counted(Alarmed(rules[i]))]
    BY <1>1, <2>1 DEF Watched
  <2>3. Old!RecordFalsePositive(i)
    <3>1. rules[i] \in Rule /\ Watched[i] = Counted(rules[i])
      BY <1>1 DEF Watched
    <3>2. LET counted == [Watched[i] EXCEPT !.alarms = Old!AtMost(AutoRelaxAfter, @ + 1)]
          IN  Counted(Alarmed(rules[i])) =
                IF ~counted.protected /\ counted.alarms = AutoRelaxAfter
                THEN Old!Off(counted) ELSE counted
      BY <3>1, AlarmedCounts
    <3> QED
      BY <2>2, <3>2 DEF Old!RecordFalsePositive
  <2>4. i \in DOMAIN Watched
    BY DEF Watched
  <2> QED
    BY <1>2, <2>3, <2>4 DEF Old!RulesStep, Trusts, Held
<1> QED
  BY <1>1, <1>3, <1>4, <1>5 DEF GuardianNext

(***************************************************************************)
(* Trust                                                                   *)
(***************************************************************************)

\* Between two turns the older system runs none.
LEMMA NotRunning ==
  ASSUME ~InTurn
  PROVE  ~Old!Running
BY DEF InTurn, Old!Running, OldTurn, OldPlace

\* The scores in the older system's terms, and that confirmation is skipped at the same point.
LEMMA TrustsTyped ==
  ASSUME TypeOK
  PROVE  /\ scores \in [Categories -> [count : Nat, declared : BOOLEAN]]
         /\ \A k \in Categories : Trusts[k] = Score(scores[k]) /\ Trusts[k] \in Nat
         /\ \A k \in Categories : should_skip_confirmation(k) <=> Trusts[k] = SkipThreshold
BY TurnAssumption DEF TypeOK, Trusts, Score, Least, should_skip_confirmation

\* An approval and a declaration of the user are steps of the older trust model.
LEMMA ApprovalRefines ==
  ASSUME TypeOK, UserApproves
  PROVE  Old!TrustStep
<1>1. PICK k \in Categories, manner \in Manners : record_approval(k, manner)
  BY DEF UserApproves
<1>2. UNCHANGED <<Watched, Held, OldTurn>> /\ ~Old!Running
  BY NotRunning DEF UserApproves, grantVars, turnVars, Watched, Held, OldTurn, OldPlace, OldResult,
     Counted, Unused
<1> DEFINE w == weight(manner)
<1>3. w \in Old!Weights
  BY DEF weight, Old!Weights
<1>4. scores' = [scores EXCEPT ![k] = [scores[k] EXCEPT !.count = @ + w]]
  BY <1>1, TrustsTyped DEF record_approval
<1>5. scores[k] \in [count : Nat, declared : BOOLEAN]
  BY TrustsTyped
<1>6. Score([scores[k] EXCEPT !.count = @ + w]) = Old!AtMost(SkipThreshold, Score(scores[k]) + w)
  BY <1>3, <1>5, TurnAssumption DEF Score, Least, Old!AtMost, Old!Weights
<1>7. Trusts' = [Trusts EXCEPT ![k] = Old!AtMost(SkipThreshold, Trusts[k] + w)]
  BY <1>4, <1>6, TrustsTyped DEF Trusts
<1> HIDE DEF w
<1> QED
  BY <1>2, <1>3, <1>7 DEF Old!TrustStep, Old!Approve, Trusts, Held

LEMMA DeclarationRefines ==
  ASSUME TypeOK, UserDeclares
  PROVE  Old!TrustStep
<1>1. PICK k \in Categories : declare_no_confirmation_needed(k)
  BY DEF UserDeclares
<1>2. UNCHANGED <<Watched, Held, OldTurn>> /\ ~Old!Running
  BY NotRunning DEF UserDeclares, grantVars, turnVars, Watched, Held, OldTurn, OldPlace, OldResult,
     Counted, Unused
<1>3. scores' = [scores EXCEPT ![k] = [scores[k] EXCEPT !.declared = TRUE]]
  BY <1>1 DEF declare_no_confirmation_needed
<1>4. [scores[k] EXCEPT !.declared = TRUE].declared
  BY TrustsTyped
<1>5. Score([scores[k] EXCEPT !.declared = TRUE]) = SkipThreshold
  BY <1>4 DEF Score
<1>6. Trusts' = [Trusts EXCEPT ![k] = SkipThreshold]
  BY <1>3, <1>5, TrustsTyped DEF Trusts
<1> QED
  BY <1>2, <1>6 DEF Old!TrustStep, Old!Declare, Trusts, Held

(***************************************************************************)
(* Grants                                                                  *)
(***************************************************************************)

OldGrant == [template : TemplateIds, capabilities : SUBSET Capabilities, status : Statuses, unused : Int]

\* Two grants of the older system with the same fields are the same grant.
LEMMA SameGrant ==
  ASSUME NEW a \in OldGrant, NEW b \in OldGrant, a.template = b.template,
         a.capabilities = b.capabilities, a.status = b.status, a.unused = b.unused
  PROVE  a = b
BY DEF OldGrant

\* A grant in the older system's terms, where the days without a use are counted.
LEMMA UnusedGrant ==
  ASSUME NEW g \in Grant, today \in Nat
  PROVE  /\ Unused(g) \in OldGrant
         /\ Unused(g).template = g.template /\ Unused(g).capabilities = g.granted
         /\ Unused(g).status = g.status
         /\ Unused(g).unused = Least(DormantAfter + 1, today - g.last_used)
BY TurnAssumption DEF Unused, Grant, OldGrant, Least

\* What a use makes of a grant of the older system.
LEMMA UsedGrant ==
  ASSUME NEW g \in OldGrant
  PROVE  /\ Old!Used(g) \in OldGrant /\ Old!Used(g).template = g.template
         /\ Old!Used(g).capabilities = g.capabilities /\ Old!Used(g).unused = 0
         /\ Old!Used(g).status = IF g.status = "Dormant" THEN "Active" ELSE g.status
<1> DEFINE reset == [g EXCEPT !.unused = 0]
           status == IF g.status = "Dormant" THEN "Active" ELSE g.status
<1>1. /\ reset \in OldGrant /\ reset.template = g.template
      /\ reset.capabilities = g.capabilities /\ reset.unused = 0
  BY DEF OldGrant
<1>2. Old!Used(g) = [reset EXCEPT !.status = status]
  BY DEF Old!Used, Old!Awake, OldGrant
<1>3. status \in Statuses
  BY DEF OldGrant, Statuses
<1> HIDE DEF reset, status
<1>4. /\ Old!Used(g) \in OldGrant /\ Old!Used(g).template = g.template
      /\ Old!Used(g).capabilities = g.capabilities /\ Old!Used(g).unused = 0
      /\ Old!Used(g).status = status
  BY <1>1, <1>2, <1>3 DEF OldGrant
<1> QED
  BY <1>4 DEF status

\* A grant that is used.
LEMMA TouchedRefines ==
  ASSUME NEW g \in Grant, today \in Nat
  PROVE  Unused(Touched(g)) = Old!Used(Unused(g))
<1>1. /\ Touched(g) \in Grant /\ Touched(g).template = g.template
      /\ Touched(g).granted = g.granted /\ Touched(g).last_used = today
      /\ Touched(g).status = IF g.status = "Dormant" THEN "Active" ELSE g.status
  BY DEF Touched, Grant, Statuses
<1>2. Unused(g) \in OldGrant /\ Unused(g).status = g.status
  BY UnusedGrant
<1> DEFINE old == Unused(g)
<1>3. /\ Old!Used(old) \in OldGrant /\ Old!Used(old).template = old.template
      /\ Old!Used(old).capabilities = old.capabilities /\ Old!Used(old).unused = 0
      /\ Old!Used(old).status = IF g.status = "Dormant" THEN "Active" ELSE g.status
  <2> HIDE DEF old
  <2>1. old \in OldGrant /\ old.status = g.status
    BY <1>2 DEF old
  <2> QED
    BY <2>1, UsedGrant
<1>4. Least(DormantAfter + 1, today - today) = 0
  BY TurnAssumption DEF Least
<1>5. /\ Unused(Touched(g)) \in OldGrant /\ Unused(Touched(g)).template = g.template
      /\ Unused(Touched(g)).capabilities = g.granted /\ Unused(Touched(g)).unused = 0
      /\ Unused(Touched(g)).status = IF g.status = "Dormant" THEN "Active" ELSE g.status
  BY <1>1, <1>4, UnusedGrant
<1>6. old.template = g.template /\ old.capabilities = g.granted
  BY UnusedGrant
<1> HIDE DEF old
<1>7. Unused(Touched(g)) = Old!Used(old)
  BY <1>3, <1>5, <1>6, SameGrant
<1> QED
  BY <1>7 DEF old

\* A grant that is extended.
LEMMA ExpandedRefines ==
  ASSUME NEW g \in Grant, NEW c \in Capabilities, today \in Nat
  PROVE  Unused(Expanded(g, c)) = [Old!Used(Unused(g)) EXCEPT !.capabilities = @ \cup {c}]
<1> DEFINE more == [g EXCEPT !.granted = @ \cup {c}]
<1>1. more \in Grant /\ more.template = g.template /\ more.granted = g.granted \cup {c}
      /\ more.status = g.status /\ more.last_used = g.last_used
  BY DEF Grant
<1> HIDE DEF more
<1> DEFINE old == Unused(g)
           new == Unused(more)
<1>2. /\ old \in OldGrant /\ new \in OldGrant /\ new.template = old.template
      /\ new.capabilities = old.capabilities \cup {c}
      /\ new.status = old.status /\ new.unused = old.unused
  BY <1>1, UnusedGrant
<1>3. Unused(Touched(more)) = Old!Used(new)
  BY <1>1, TouchedRefines
<1> HIDE DEF old, new
<1> DEFINE used == Old!Used(old)
           usedNew == Old!Used(new)
           status == IF old.status = "Dormant" THEN "Active" ELSE old.status
<1>4. /\ used \in OldGrant /\ used.capabilities = old.capabilities /\ used.template = old.template
      /\ used.unused = 0 /\ used.status = status
  BY <1>2, UsedGrant
<1>5. /\ usedNew \in OldGrant /\ usedNew.capabilities = old.capabilities \cup {c}
      /\ usedNew.template = old.template /\ usedNew.unused = 0 /\ usedNew.status = status
  BY <1>2, UsedGrant
<1> HIDE DEF used, usedNew, status
<1> DEFINE grown == [used EXCEPT !.capabilities = @ \cup {c}]
<1>6. /\ grown \in OldGrant /\ grown.capabilities = old.capabilities \cup {c}
      /\ grown.template = old.template /\ grown.unused = 0 /\ grown.status = status
  BY <1>4 DEF OldGrant
<1> HIDE DEF grown
<1>7. usedNew = grown
  BY <1>5, <1>6, SameGrant
<1> QED
  BY <1>3, <1>7 DEF Expanded, more, grown, used, usedNew, old, new

\* A grant that no turn borrows is one the older system's other steps may change.
LEMMA FreeToOthers ==
  ASSUME NEW p \in DOMAIN grants, ~Borrowed(p)
  PROVE  Old!Free(p)
<1>1. Old!Running => InTurn /\ OldTurn.purpose = req.purpose
  BY DEF Old!Running, InTurn, OldTurn, OldPlace
<1> QED
  BY <1>1 DEF Old!Free, Borrowed

LEMMA GrantsTypes ==
  ASSUME TypeOK
  PROVE  /\ \A p \in DOMAIN grants : grants[p] \in Grant /\ p \in Purposes
         /\ today \in Nat /\ asked \subseteq DOMAIN grants
         /\ DOMAIN Held = DOMAIN grants
         /\ \A p \in DOMAIN grants : Held[p] = Unused(grants[p]) /\ Held[p] \in OldGrant
BY UnusedGrant DEF TypeOK, Held

\* One grant is replaced, on the same day.
LEMMA GrantReplaced ==
  ASSUME TypeOK, NEW p \in DOMAIN grants, NEW g, grants' = [grants EXCEPT ![p] = g], today' = today
  PROVE  Held' = [Held EXCEPT ![p] = Unused(g)]
BY DEF Held, Unused

\* A day that passes ages every grant by one day, up to where it makes no difference.
LEMMA DayRefines ==
  ASSUME TypeOK, DayPasses
  PROVE  Held' = [p \in DOMAIN Held |->
                    [Held[p] EXCEPT !.unused = Old!AtMost(DormantAfter + 1, @ + 1)]]
<1>1. grants' = grants /\ today' = today + 1 /\ today \in Nat
  BY DEF DayPasses, TypeOK
<1>2. ASSUME NEW p \in DOMAIN grants
      PROVE  Unused(grants[p])' = [Held[p] EXCEPT !.unused = Old!AtMost(DormantAfter + 1, @ + 1)]
  <2> DEFINE g == grants[p]
             old == Held[p]
             k == Old!AtMost(DormantAfter + 1, old.unused + 1)
             aged == [template |-> g.template, capabilities |-> g.granted, status |-> g.status,
                      unused |-> Least(DormantAfter + 1, today + 1 - g.last_used)]
             older == [old EXCEPT !.unused = k]
  <2>1. g \in Grant /\ old \in OldGrant /\ old = Unused(g)
    BY GrantsTypes
  <2>2. /\ old.template = g.template /\ old.capabilities = g.granted
        /\ old.status = g.status /\ old.unused = Least(DormantAfter + 1, today - g.last_used)
    BY <1>1, <2>1, UnusedGrant
  <2>3. k = Least(DormantAfter + 1, today + 1 - g.last_used) /\ k \in Int
    BY <1>1, <2>1, <2>2, TurnAssumption DEF Least, Old!AtMost, Grant
  <2>4. aged = Unused(grants[p])'
    <3>1. g.last_used \in Nat
      BY <2>1 DEF Grant
    <3> QED
      BY <1>1, <3>1 DEF Unused
  <2> HIDE DEF old, k, g
  <2>5. /\ older \in OldGrant /\ older.template = g.template /\ older.capabilities = g.granted
        /\ older.status = g.status /\ older.unused = k
    BY <2>1, <2>2, <2>3 DEF OldGrant
  <2>6. /\ aged \in OldGrant /\ aged.template = g.template /\ aged.capabilities = g.granted
        /\ aged.status = g.status /\ aged.unused = k
    BY <2>1, <2>3 DEF OldGrant, Grant
  <2> HIDE DEF aged, older
  <2>7. aged = older
    BY <2>5, <2>6, SameGrant
  <2> QED
    BY <2>4, <2>7 DEF older, k, old
<1>3. DOMAIN Held = DOMAIN grants
  BY DEF Held
<1> QED
  BY <1>1, <1>2, <1>3 DEF Held

\* Looking after grants is a step of the older system's permissions.
LEMMA LookAfterRefines ==
  ASSUME TypeOK, LookAfterGrants
  PROVE  Old!GrantsStep \/ UNCHANGED <<Watched, Trusts, Held, OldTurn>>
<1>1. UNCHANGED <<Watched, Trusts, OldTurn>>
  BY DEF LookAfterGrants, turnVars, Watched, Trusts, OldTurn, OldPlace, OldResult, Counted, Score
<1>2. CASE DayPasses
  <2>1. Old!DayPasses
    BY <1>2, DayRefines DEF Old!DayPasses, Held
  <2> QED
    BY <1>1, <2>1 DEF Old!GrantsStep, Trusts
<1>3. CASE AskToEnd({p \in Purposes : ~Borrowed(p)})
  BY <1>1, <1>3 DEF AskToEnd, Held, Unused
<1>4. ASSUME NEW p \in Purposes, ~Borrowed(p),
             touch(p) \/ check_dormancy(p) \/ revoke_with_user_approval(p)
      PROVE  Old!Use(p) \/ Old!CheckDormancy(p) \/ Old!Revoke(p)
  <2>1. /\ p \in DOMAIN grants /\ grants[p] \in Grant /\ Held[p] = Unused(grants[p])
        /\ Held[p] \in OldGrant /\ today \in Nat /\ today' = today
    BY <1>4, GrantsTypes DEF touch, check_dormancy, revoke_with_user_approval
  <2>2. CASE touch(p)
    <3>1. Held' = [Held EXCEPT ![p] = Unused(Touched(grants[p]))]
      BY <2>1, <2>2, GrantReplaced DEF touch
    <3>2. Held' = [Held EXCEPT ![p] = Old!Used(Held[p])]
      BY <2>1, <3>1, TouchedRefines
    <3> QED
      BY <3>2 DEF Old!Use, Held
  <2>3. ASSUME NEW s \in Statuses, grants' = [grants EXCEPT ![p].status = s]
        PROVE  Held' = [Held EXCEPT ![p] = [Held[p] EXCEPT !.status = s]]
    <3> DEFINE g == [grants[p] EXCEPT !.status = s]
               h == Held[p]
               old == [h EXCEPT !.status = s]
    <3>1. Held' = [Held EXCEPT ![p] = Unused(g)]
      BY <2>1, <2>3, GrantReplaced
    <3>2. /\ g \in Grant /\ g.template = grants[p].template /\ g.granted = grants[p].granted
          /\ g.status = s /\ g.last_used = grants[p].last_used
      BY <2>1, <2>3 DEF Grant
    <3> HIDE DEF g
    <3>3. /\ h \in OldGrant /\ h.template = g.template /\ h.capabilities = g.granted
          /\ h.unused = Unused(g).unused /\ Unused(g) \in OldGrant
          /\ Unused(g).template = g.template /\ Unused(g).capabilities = g.granted
          /\ Unused(g).status = s
      BY <2>1, <3>2, UnusedGrant
    <3> HIDE DEF h
    <3>4. /\ old \in OldGrant /\ old.template = h.template /\ old.capabilities = h.capabilities
          /\ old.unused = h.unused /\ old.status = s
      BY <2>3, <3>3 DEF OldGrant
    <3> HIDE DEF old
    <3>5. Unused(g) = old
      BY <3>3, <3>4, SameGrant
    <3> QED
      BY <3>1, <3>5 DEF old, h
  <2>4. CASE check_dormancy(p)
    <3>1. grants' = [grants EXCEPT ![p].status = "Dormant"]
      BY <2>4 DEF check_dormancy
    <3>2. Held' = [Held EXCEPT ![p] = [Held[p] EXCEPT !.status = "Dormant"]]
      BY <2>3, <3>1 DEF Statuses
    <3>3. grants[p].status = "Active" /\ today - grants[p].last_used > DormantAfter
      BY <2>4 DEF check_dormancy, is_dormant_by_elapsed_time
    <3>4. Held[p].status = "Active" /\ Held[p].unused > DormantAfter
      BY <2>1, <3>3, UnusedGrant, TurnAssumption DEF Least, Grant
    <3> QED
      BY <3>2, <3>4 DEF Old!CheckDormancy, Held
  <2>5. CASE revoke_with_user_approval(p)
    <3>1. grants' = [grants EXCEPT ![p].status = "Revoked"]
      BY <2>5 DEF revoke_with_user_approval
    <3>2. Held' = [Held EXCEPT ![p] = [Held[p] EXCEPT !.status = "Revoked"]]
      BY <2>3, <3>1 DEF Statuses
    <3> QED
      BY <3>2 DEF Old!Revoke, Held
  <2> QED
    BY <1>4, <2>2, <2>4, <2>5
<1>5. ASSUME NEW p \in Purposes, ~Borrowed(p),
             touch(p) \/ check_dormancy(p) \/ revoke_with_user_approval(p)
      PROVE  Old!GrantsStep
  <2>1. p \in DOMAIN grants
    BY <1>5, GrantsTypes DEF touch, check_dormancy, revoke_with_user_approval
  <2>2. Old!Free(p)
    BY <1>5, <2>1, FreeToOthers
  <2> QED
    BY <1>1, <1>4, <1>5, <2>2 DEF Old!GrantsStep, Trusts
<1>6. ASSUME NEW p \in Purposes, NewGrant(p)
      PROVE  Old!GrantsStep
  <2>1. PICK t \in TemplateIds :
          \E initial \in SUBSET (IF StartsInTemplate THEN Templates[t] ELSE Capabilities) :
            grants' = [q \in DOMAIN grants \cup {p} |->
                        IF q = p THEN [template |-> t, granted |-> initial,
                                       status |-> "Active", last_used |-> today]
                        ELSE grants[q]]
    BY <1>6 DEF NewGrant
  <2>2. PICK initial \in SUBSET (IF StartsInTemplate THEN Templates[t] ELSE Capabilities) :
            grants' = [q \in DOMAIN grants \cup {p} |->
                        IF q = p THEN [template |-> t, granted |-> initial,
                                       status |-> "Active", last_used |-> today]
                        ELSE grants[q]]
    BY <2>1
  <2>3. /\ initial \in SUBSET Old!Capabilities /\ t \in DOMAIN Templates
        /\ StartsInTemplate => initial \subseteq Old!Limit(t)
    BY DEF Old!Capabilities, Old!Limit, Capabilities, TemplateIds
  <2>4. p \in Purposes \ DOMAIN grants /\ today' = today /\ today \in Nat
    BY <1>6 DEF NewGrant, TypeOK
  <2>5. DOMAIN grants' = DOMAIN grants \cup {p}
    BY <2>2
  <2>6. \A q \in DOMAIN grants : grants'[q] = grants[q]
    BY <2>2, <2>4
  <2>7. Unused(grants[p])' = [template |-> t, capabilities |-> initial,
                              status |-> "Active", unused |-> 0]
    <3>1. grants'[p] = [template |-> t, granted |-> initial,
                        status |-> "Active", last_used |-> today]
      BY <2>2
    <3>2. Least(DormantAfter + 1, today - today) = 0
      BY <2>4, TurnAssumption DEF Least
    <3> QED
      BY <2>4, <3>1, <3>2 DEF Unused, Least
  <2>8. Held' = [q \in DOMAIN Held \cup {p} |->
                   IF q # p THEN Held[q]
                   ELSE [template |-> t, capabilities |-> initial,
                         status |-> "Active", unused |-> 0]]
    <3>1. \A q \in DOMAIN grants : q # p /\ Unused(grants[q])' = Held[q]
      BY <2>4, <2>6 DEF Unused, Held
    <3> QED
      BY <2>4, <2>5, <2>7, <3>1 DEF Held
  <2>9. Old!Create(p, t, initial)
    BY <2>3, <2>8 DEF Old!Create, Held
  <2> QED
    BY <1>1, <2>3, <2>4, <2>9 DEF Old!GrantsStep, Trusts
<1> QED
  BY <1>2, <1>3, <1>5, <1>6 DEF LookAfterGrants

(***************************************************************************)
(* The turn                                                                *)
(***************************************************************************)

\* A turn of the older system.
Turn(r, a, x) == [at |-> a, purpose |-> r.purpose, template |-> r.template,
                  capability |-> r.capability, category |-> r.category, result |-> x]

LEMMA TurnFields ==
  ASSUME NEW r, NEW a, NEW x
  PROVE  /\ Turn(r, a, x).at = a /\ Turn(r, a, x).result = x
         /\ Turn(r, a, x).purpose = r.purpose /\ Turn(r, a, x).template = r.template
         /\ Turn(r, a, x).capability = r.capability /\ Turn(r, a, x).category = r.category
BY DEF Turn

\* Where it is, for each place of the newer one.
PlacesAgree ==
  /\ at \in {"memory", "guardian"} => OldTurn = Turn(req, "context", "none")
  /\ at = "trust" => OldTurn = Turn(req, "decide", "none")
  /\ at = "respond" => OldTurn = Turn(req, "answer", outcome)
  /\ at = "explain" => OldTurn = Turn(req, "returned", "error")
  /\ at = "done" =>
       OldTurn = Turn(req, "returned",
                      IF outcome \in Errors \cup {"GuardianBlocked"} THEN "error" ELSE outcome)

\* Where the older turn is at each place of the newer, in this state and in the next.
LEMMA Places == RInv /\ at # "idle" => PlacesAgree
<1> SUFFICES ASSUME RInv, at # "idle" PROVE PlacesAgree
  OBVIOUS
<1>1. at \in {"memory", "guardian"} => OldPlace = "context" /\ OldResult = "none"
  BY DEF RInv, NothingReturned, OldPlace, OldResult, Errors
<1>2. at = "trust" => OldPlace = "decide" /\ OldResult = "none"
  BY DEF RInv, NothingReturned, OldPlace, OldResult, Errors
<1>3. at = "respond" => OldPlace = "answer" /\ OldResult = outcome
  BY DEF RInv, IInv, TurnOK, OldPlace, OldResult, Errors
<1>4. at = "explain" => OldPlace = "returned" /\ OldResult = "error"
  BY DEF OldPlace, OldResult
<1>5. at = "done" =>
        /\ OldPlace = "returned"
        /\ OldResult = IF outcome \in Errors \cup {"GuardianBlocked"} THEN "error" ELSE outcome
  BY DEF OldPlace, OldResult
<1>6. OldTurn = Turn(req, OldPlace, OldResult)
  BY Zenon DEF OldTurn, Turn
<1> QED
  BY <1>1, <1>2, <1>3, <1>4, <1>5, <1>6 DEF PlacesAgree

LEMMA PlacesNext == (RInv /\ at # "idle" => PlacesAgree)'
BY Places, PTL

\* A turn that begins, begins in the older system too.
LEMMA BeginRefines ==
  ASSUME RInv, RInv', BeginTurn
  PROVE  Old!TurnStep
<1>1. UNCHANGED <<Watched, Trusts, Held>> /\ ~Old!Running
  BY NotRunning DEF BeginTurn, grantVars, Watched, Trusts, Held, Counted, Score, Unused
<1>2. PICK p \in DOMAIN grants, t \in TemplateIds, c \in Capabilities, k \in Categories :
        /\ StartsInTemplate => t = grants[p].template
        /\ req' = [purpose |-> p, template |-> t, capability |-> c, category |-> k,
                   before |-> grants[p].granted]
  BY DEF BeginTurn
<1>3. at' = "memory"
  BY DEF BeginTurn
<1>4. OldTurn' = Turn(req, "context", "none")'
  BY <1>3, PlacesNext DEF PlacesAgree
<1>5. Turn(req, "context", "none")' =
        [at |-> "context", purpose |-> p, template |-> t, capability |-> c,
         category |-> k, result |-> "none"]
  BY <1>2 DEF Turn
<1>6. Old!Begin(p, t, c, k)
  <2>1. Held[p].template = grants[p].template
    BY DEF Held, Unused
  <2> QED
    BY <1>2, <1>4, <1>5, <2>1 DEF Old!Begin, Held
<1>7. p \in DOMAIN Held /\ t \in DOMAIN Templates /\ k \in Categories /\ c \in Old!Capabilities
  BY DEF Held, TemplateIds, Capabilities, Old!Capabilities, Old!Limit
<1> QED
  BY <1>1, <1>6, <1>7 DEF Old!TurnStep, Trusts, Held

\* Each step of the turn is one of the older turn or none.
LEMMA StepRefines ==
  ASSUME RInv, RInv', TurnStep
  PROVE  Old!TurnStep \/ UNCHANGED <<Watched, Trusts, Held, OldTurn>>
<1>0. /\ UNCHANGED <<Watched, Trusts>> /\ req' = req /\ today' = today
      /\ at # "idle" /\ at' # "idle"
  BY DEF TurnStep, FetchMemories, GuardianJudges, ExplainBlock, expand_with_trust_check, Respond,
     AsksUser, ExpandFails, ExpandSucceeds, Finish, grantVars, Watched, Trusts, Counted, Score
<1>1. PlacesAgree /\ PlacesAgree'
  BY <1>0, Places, PlacesNext DEF RInv
<1>2. ASSUME NEW a, NEW x, \E b, y : OldTurn = Turn(req, b, y), OldTurn' = Turn(req', a, x)
      PROVE  Old!Goes(a, x) /\ (a = "returned" => Old!Returns(x))
  <2>1. PICK b, y : OldTurn = Turn(req, b, y)
    BY <1>2
  <2>2. OldTurn' = [OldTurn EXCEPT !.at = a, !.result = x]
    <3>1. OldTurn' = Turn(req, a, x)
      BY <1>0, <1>2
    <3>2. [Turn(req, b, y) EXCEPT !.at = a, !.result = x] = Turn(req, a, x)
      <4>1. [Turn(req, b, y) EXCEPT !.at = a] = Turn(req, a, y)
        BY DEF Turn
      <4>2. [Turn(req, a, y) EXCEPT !.result = x] = Turn(req, a, x)
        BY DEF Turn
      <4> QED
        BY <4>1, <4>2
    <3> QED
      BY <2>1, <3>1, <3>2
  <2> QED
    BY <2>2 DEF Old!Goes, Old!Returns
<1>3. grants' = grants => Held' = Held
  BY <1>0 DEF Held, Unused
<1>4. CASE FetchMemories
  <2>1. Held' = Held /\ at = "memory" /\ OldTurn = Turn(req, "context", "none")
    BY <1>1, <1>3, <1>4 DEF FetchMemories, grantVars, PlacesAgree
  <2>2. CASE at' = "guardian"
    <3>1. OldTurn' = OldTurn
      BY <1>0, <1>1, <2>1, <2>2 DEF PlacesAgree, Turn
    <3> QED
      BY <1>0, <2>1, <3>1
  <2>3. CASE Finish("MemoryError")
    <3>1. OldTurn' = Turn(req', "returned", "error")
      BY <1>1, <2>3 DEF Finish, Errors, PlacesAgree, Turn
    <3>2. Old!Returns("error")
      BY <1>2, <2>1, <3>1
    <3>3. OldTurn.at = "context"
      BY <2>1, TurnFields
    <3> QED
      BY <1>0, <2>1, <3>2, <3>3 DEF Old!TurnStep, Old!BuildContext, Held, Trusts
  <2> QED
    BY <1>4, <2>2, <2>3 DEF FetchMemories
<1>5. CASE GuardianJudges
  <2>1. Held' = Held /\ at = "guardian" /\ OldTurn = Turn(req, "context", "none")
    BY <1>1, <1>3, <1>5 DEF GuardianJudges, grantVars, PlacesAgree
  <2>2. OldTurn.at = "context"
    BY <2>1, TurnFields
  <2>3. CASE at' = "trust"
    <3>1. OldTurn' = Turn(req', "decide", "none")
      BY <1>1, <2>3 DEF PlacesAgree, Turn
    <3>2. Old!Goes("decide", "none")
      BY <1>2, <2>1, <3>1
    <3> QED
      BY <1>0, <2>1, <2>2, <3>2 DEF Old!TurnStep, Old!BuildContext, Held, Trusts
  <2>4. CASE at' = "explain"
    <3>1. OldTurn' = Turn(req', "returned", "error")
      BY <1>1, <2>4 DEF PlacesAgree, Turn
    <3>2. Old!Returns("error")
      BY <1>2, <2>1, <3>1
    <3> QED
      BY <1>0, <2>1, <2>2, <3>2 DEF Old!TurnStep, Old!BuildContext, Held, Trusts
  <2> QED
    BY <1>5, <2>3, <2>4 DEF GuardianJudges
<1>6. CASE ExplainBlock
  <2>1. Held' = Held /\ at = "explain" /\ OldTurn = Turn(req, "returned", "error")
    BY <1>1, <1>3, <1>6 DEF ExplainBlock, grantVars, PlacesAgree
  <2>2. at' = "done" /\ outcome' \in {"GuardianBlocked", "CognitionError"}
    BY <1>6 DEF ExplainBlock, Finish
  <2>3. OldTurn' = OldTurn
    BY <1>0, <1>1, <2>1, <2>2 DEF PlacesAgree, Errors, Turn
  <2> QED
    BY <1>0, <2>1, <2>3
<1>7. CASE expand_with_trust_check
  <2>1. at = "trust" /\ OldTurn = Turn(req, "decide", "none")
    BY <1>1, <1>7 DEF expand_with_trust_check, PlacesAgree
  <2>2. /\ OldTurn.at = "decide" /\ OldTurn.category = req.category
        /\ OldTurn.template = req.template /\ OldTurn.capability = req.capability
        /\ OldTurn.purpose = req.purpose
    BY <2>1, TurnFields
  <2>3. /\ req.purpose \in DOMAIN grants /\ req.category \in Categories
        /\ req.capability \in Capabilities /\ TypeOK
    BY <1>0 DEF RInv, IInv, TypeOK, Request
  <2>4. should_skip_confirmation(req.category) <=> Old!SkipsConfirmation(OldTurn.category)
    BY <2>2, <2>3, TrustsTyped DEF Old!SkipsConfirmation, Trusts
  <2>5. InTemplate(req.template, req.capability) <=> OldTurn.capability \in Old!Limit(OldTurn.template)
    BY <2>2 DEF InTemplate, Old!Limit
  <2>6. CASE AsksUser
    <3>1. OldTurn' = Turn(req', "answer", "AwaitingUserConfirmation")
      BY <1>1, <2>6 DEF AsksUser, PlacesAgree, Turn
    <3>2. Old!Goes("answer", "AwaitingUserConfirmation")
      BY <1>2, <2>1, <3>1
    <3>3. Held' = Held
      BY <1>3, <2>6 DEF AsksUser
    <3> QED
      BY <1>0, <2>2, <2>4, <2>6, <3>2, <3>3 DEF AsksUser, Old!TurnStep, Old!Decide, Held, Trusts
  <2>7. CASE ExpandFails
    <3>1. OldTurn' = Turn(req', "returned", "error")
      BY <1>1, <2>7 DEF ExpandFails, Finish, Errors, PlacesAgree, Turn
    <3>2. Old!Returns("error")
      BY <1>2, <2>1, <3>1
    <3>3. Held' = Held
      BY <1>3, <2>7 DEF ExpandFails
    <3> QED
      BY <1>0, <2>2, <2>4, <2>5, <2>7, <3>2, <3>3
         DEF ExpandFails, Old!TurnStep, Old!Decide, Held, Trusts
  <2>8. CASE ExpandSucceeds
    <3>1. OldTurn' = Turn(req', "answer", "Expanded")
      BY <1>1, <2>8 DEF ExpandSucceeds, PlacesAgree, Turn
    <3>2. Old!Goes("answer", "Expanded")
      BY <1>2, <2>1, <3>1
    <3> DEFINE p == req.purpose
    <3>3. Held' = [Held EXCEPT ![p] = Unused(Expanded(grants[p], req.capability))]
      BY <1>0, <2>3, <2>8, GrantReplaced DEF ExpandSucceeds
    <3>4. Held' = [Held EXCEPT ![p] =
                     [Old!Used(Held[p]) EXCEPT !.capabilities = @ \cup {req.capability}]]
      <4>1. grants[p] \in Grant /\ Held[p] = Unused(grants[p]) /\ today \in Nat
        BY <2>3, GrantsTypes
      <4>2. Unused(Expanded(grants[p], req.capability)) =
              [Old!Used(Held[p]) EXCEPT !.capabilities = @ \cup {req.capability}]
        BY <2>3, <4>1, ExpandedRefines
      <4> QED
        BY <3>3, <4>2
    <3>5. Held' = [Held EXCEPT ![OldTurn.purpose] =
                     Old!Extended(Held[OldTurn.purpose], OldTurn.capability)]
      BY <2>2, <3>4 DEF Old!Extended
    <3>6. /\ Old!SkipsConfirmation(OldTurn.category)
          /\ OldTurn.capability \in Old!Limit(OldTurn.template)
      BY <2>4, <2>5, <2>8 DEF ExpandSucceeds
    <3>7. Old!Decide
      BY <2>2, <3>2, <3>5, <3>6 DEF Old!Decide, Held
    <3> QED
      BY <1>0, <3>7 DEF Old!TurnStep, Trusts
  <2> QED
    BY <1>7, <2>6, <2>7, <2>8 DEF expand_with_trust_check
<1>8. CASE Respond
  <2>1. Held' = Held /\ at = "respond" /\ OldTurn = Turn(req, "answer", outcome)
    BY <1>1, <1>3, <1>8 DEF Respond, grantVars, PlacesAgree
  <2>2. OldTurn.at = "answer" /\ OldTurn.result = outcome
    BY <2>1, TurnFields
  <2>3. CASE Finish(outcome)
    <3>1. outcome \in {"Expanded", "AwaitingUserConfirmation"}
      BY <2>1 DEF RInv, IInv, TurnOK
    <3>2. OldTurn' = Turn(req', "returned", outcome)
      BY <1>1, <2>3, <3>1 DEF Finish, Errors, PlacesAgree, Turn
    <3>3. Old!Returns(outcome)
      BY <1>2, <2>1, <3>2
    <3> QED
      BY <1>0, <2>1, <2>2, <3>3 DEF Old!TurnStep, Old!Answer, Held, Trusts
  <2>4. CASE Finish("CognitionError")
    <3>1. OldTurn' = Turn(req', "returned", "error")
      BY <1>1, <2>4 DEF Finish, Errors, PlacesAgree, Turn
    <3>2. Old!Returns("error")
      BY <1>2, <2>1, <3>1
    <3> QED
      BY <1>0, <2>1, <2>2, <3>2 DEF Old!TurnStep, Old!Answer, Held, Trusts
  <2> QED
    BY <1>8, <2>3, <2>4 DEF Respond
<1> QED
  BY <1>4, <1>5, <1>6, <1>7, <1>8 DEF TurnStep

(***************************************************************************)
(* The refinement                                                          *)
(***************************************************************************)

\* Initial states map to initial states, and every step to a step or a stutter.
LEMMA InitRefines == Init => Old!Init
<1> SUFFICES ASSUME Init PROVE Old!Init
  OBVIOUS
<1>1. Watched = [i \in DOMAIN FirstRules |-> Counted(FirstRules[i])]
  BY DEF Init, GuardianInit, Watched
<1>2. Trusts = [k \in Categories |-> 0]
  BY TurnAssumption DEF Init, TrustInit, Trusts, Score, Least
<1>3. Held = << >> /\ OldTurn = Old!NoTurn
  BY DEF Init, GrantsInit, Held, OldTurn, Old!NoTurn
<1> QED
  BY <1>1, <1>2, <1>3 DEF Old!Init, Trusts, Held

LEMMA NextRefines == RInv /\ RInv' /\ [Next]_vars => [Old!Next]_(Old!vars)
<1> SUFFICES ASSUME RInv, RInv', [Next]_vars PROVE [Old!Next]_(Old!vars)
  OBVIOUS
<1>0. TypeOK
  BY DEF RInv, IInv
<1>1. Old!Next \/ UNCHANGED <<Watched, Trusts, Held, OldTurn>>
  <2>1. CASE BeginTurn
    BY <2>1, BeginRefines DEF Old!Next
  <2>2. CASE TurnStep
    BY <2>2, StepRefines DEF Old!Next
  <2>3. CASE ChangeRules
    BY <1>0, <2>3, ChangeRulesRefines DEF Old!Next
  <2>4. CASE UserApproves
    BY <1>0, <2>4, ApprovalRefines DEF Old!Next
  <2>5. CASE UserDeclares
    BY <1>0, <2>5, DeclarationRefines DEF Old!Next
  <2>6. CASE LookAfterGrants
    BY <1>0, <2>6, LookAfterRefines DEF Old!Next
  <2>7. CASE UNCHANGED vars
    BY <2>7 DEF vars, grantVars, turnVars, Watched, Trusts, Held, OldTurn, OldPlace, OldResult,
       Counted, Score, Unused
  <2> QED
    BY <2>1, <2>2, <2>3, <2>4, <2>5, <2>6, <2>7 DEF Next
<1> QED
  BY <1>1 DEF Old!vars, Trusts, Held

\* The turn that asks the guardian implements the one that does not: whatever it does to rules,
\* trust, grants and callers, the turn without the guardian could have done (turn.rs).
THEOREM TheGuardianOnlyRefuses == Spec => OldSpec
<1>1. Init => Old!Init
  BY InitRefines
<1>2. RInv /\ RInv' /\ [Next]_vars => [Old!Next]_(Old!vars)
  BY NextRefines
<1> QED
  BY <1>1, <1>2, NothingReturnedYet, PTL DEF Spec, OldSpec, Old!Spec
==============================================================================
