------------------------------- MODULE AronaTurn -------------------------------
(***************************************************************************)
(* One turn of conversation that asks for a permission, as                  *)
(* handle_permission_request of arona_orchestrator runs it: memories are    *)
(* fetched, the guardian looks at the request, the trust model decides       *)
(* whether the user must be asked, the grant is extended, and the language  *)
(* model words the answer.  Around it the callers change the guardian's     *)
(* rules, record the user's answers, and look after the grants.             *)
(*                                                                         *)
(* There is one turn at a time, since it holds the language model           *)
(* exclusively.  It also borrows the guardian, the trust model and the      *)
(* grant it is about, which nothing else can change until it returns; the   *)
(* clock and the other grants go on.                                        *)
(***************************************************************************)
EXTENDS Guardian, Trust, Grants

CONSTANT Events   \* events the guardian may be shown

\* What a rule is made of.
Methods == {r[1] : r \in NewRules} \cup {FirstRules[i].method : i \in DOMAIN FirstRules}
Rule == [method : Methods, protected : BOOLEAN, active : BOOLEAN,
         false_positive_count : Nat]

ASSUME TurnAssumption ==
  /\ AutoRelaxAfter \in Nat \ {0} /\ SkipThreshold \in Nat \ {0} /\ DormantAfter \in Nat
  /\ MaxRules \in Nat /\ MaxAlarms \in Nat /\ MaxScore \in Nat /\ MaxDay \in Nat
  /\ StartsInTemplate \in BOOLEAN
  /\ FirstRules \in Seq(Rule)
  /\ \A i \in DOMAIN FirstRules : FirstRules[i].active /\ FirstRules[i].false_positive_count = 0
  /\ \A r \in NewRules : r[2] \in BOOLEAN

VARIABLES
  at,        \* how far the turn is; "idle" before the first, "done" after one
  req,       \* the arguments of the turn, and what its grant held at the start
  outcome    \* what the turn returned: Ok of a TurnOutcome, or a TurnError

turnVars == <<at, req, outcome>>
vars == <<rules, scores, grantVars, turnVars>>

Errors   == {"MemoryError", "ExpandError", "CognitionError"}
Outcomes == {"GuardianBlocked", "Expanded", "AwaitingUserConfirmation"} \cup Errors
InTurn   == at \notin {"idle", "done"}

\* derive_event_for_capability: only file access is shown to the guardian,
\* and always as if nothing had been written lately.
IsJudged(c) == c.kind = "FileSystemAccess"
derive_event_for_capability(c) ==
  [kind |-> "FileOperation", path |-> c.path, writes |-> 0]

Init ==
  /\ GuardianInit /\ TrustInit /\ GrantsInit
  /\ at = "idle" /\ req = << >> /\ outcome = "none"

Finish(o) == at' = "done" /\ outcome' = o

(***************************************************************************)
(* The turn                                                                *)
(***************************************************************************)

BeginTurn ==
  /\ ~InTurn
  /\ \E p \in DOMAIN grants, t \in TemplateIds, c \in Capabilities, k \in Categories :
       /\ StartsInTemplate => t = grants[p].template
       /\ req' = [purpose |-> p, template |-> t, capability |-> c, category |-> k,
                  before |-> grants[p].granted]
  /\ at' = "memory"
  /\ outcome' = "none"
  /\ UNCHANGED <<rules, scores, grantVars>>

\* build_context_block; a failed recall is ignored, a failed search is not.
FetchMemories ==
  /\ at = "memory"
  /\ \/ at' = "guardian" /\ UNCHANGED outcome
     \/ Finish("MemoryError")
  /\ UNCHANGED <<rules, scores, grantVars, req>>

\* Mutant: a trusted category gets past the guardian.
TrustBeatsGuardian ==
  /\ at = "guardian"
  /\ at' = IF /\ IsJudged(req.capability) /\ ~should_skip_confirmation(req.category)
              /\ evaluate(derive_event_for_capability(req.capability)) # {}
           THEN "explain" ELSE "trust"
  /\ UNCHANGED <<rules, scores, grantVars, req, outcome>>

GuardianJudges ==
  /\ at = "guardian"
  /\ at' = IF /\ IsJudged(req.capability)
              /\ evaluate(derive_event_for_capability(req.capability)) # {}
           THEN "explain" ELSE "trust"
  /\ UNCHANGED <<rules, scores, grantVars, req, outcome>>

ExplainBlock ==
  /\ at = "explain"
  /\ Finish("GuardianBlocked") \/ Finish("CognitionError")
  /\ UNCHANGED <<rules, scores, grantVars, req>>

AsksUser ==
  /\ ~should_skip_confirmation(req.category)
  /\ at' = "respond" /\ outcome' = "AwaitingUserConfirmation"
  /\ UNCHANGED grants

\* Mutant: a refused extension starts the turn again.
ExpandsAgain ==
  /\ should_skip_confirmation(req.category)
  /\ ~InTemplate(req.template, req.capability)
  /\ at' = "memory" /\ UNCHANGED <<outcome, grants>>

ExpandFails ==
  /\ should_skip_confirmation(req.category)
  /\ ~InTemplate(req.template, req.capability)
  /\ Finish("ExpandError")
  /\ UNCHANGED grants

\* Mutant: the answer is the one for a request that waits for the user.
ExpandsUntold ==
  /\ should_skip_confirmation(req.category)
  /\ InTemplate(req.template, req.capability)
  /\ grants' = [grants EXCEPT ![req.purpose] = Expanded(@, req.capability)]
  /\ at' = "respond" /\ outcome' = "AwaitingUserConfirmation"

ExpandSucceeds ==
  /\ should_skip_confirmation(req.category)
  /\ InTemplate(req.template, req.capability)
  /\ grants' = [grants EXCEPT ![req.purpose] = Expanded(@, req.capability)]
  /\ at' = "respond" /\ outcome' = "Expanded"

expand_with_trust_check ==
  /\ at = "trust"
  /\ AsksUser \/ ExpandFails \/ ExpandSucceeds
  /\ UNCHANGED <<rules, scores, today, asked, req>>

\* The model may fail after the grant has been extended.
Respond ==
  /\ at = "respond"
  /\ Finish(outcome) \/ Finish("CognitionError")
  /\ UNCHANGED <<rules, scores, grantVars, req>>

TurnStep ==
  FetchMemories \/ GuardianJudges \/ ExplainBlock \/ expand_with_trust_check \/ Respond

(***************************************************************************)
(* The callers, between turns or on what a turn does not borrow            *)
(***************************************************************************)

ChangeRules ==
  /\ ~InTurn
  /\ GuardianNext
  /\ UNCHANGED <<scores, grantVars, turnVars>>

\* record_user_response and record_explicit_declaration of the gate.
UserApproves ==
  /\ ~InTurn
  /\ \E k \in Categories, manner \in Manners : record_approval(k, manner)
  /\ UNCHANGED <<rules, grantVars, turnVars>>

UserDeclares ==
  /\ ~InTurn
  /\ \E k \in Categories : declare_no_confirmation_needed(k)
  /\ UNCHANGED <<rules, grantVars, turnVars>>

Borrowed(p) == InTurn /\ req.purpose = p

LookAfterGrants ==
  /\ \/ DayPasses
     \/ AskToEnd({p \in Purposes : ~Borrowed(p)})
     \/ \E p \in Purposes :
          /\ ~Borrowed(p)
          /\ \/ NewGrant(p)
             \/ touch(p)
             \/ check_dormancy(p)
             \/ revoke_with_user_approval(p)
  /\ UNCHANGED <<rules, scores, turnVars>>

Next ==
  BeginTurn \/ TurnStep
    \/ ChangeRules \/ UserApproves \/ UserDeclares \/ LookAfterGrants

Spec == Init /\ [][Next]_vars

\* Every call the turn makes returns: the search is over finite data and the
\* model writes at most max_new_tokens tokens.
FairSpec == Spec /\ WF_vars(TurnStep)

(***************************************************************************)
(* Properties                                                              *)
(***************************************************************************)

Request == [purpose : Purposes, template : TemplateIds, capability : Capabilities,
            category : Categories, before : SUBSET Capabilities]

Grant == [template : TemplateIds, granted : SUBSET Capabilities,
          status : Statuses, last_used : Nat]

\* The state has the shape the Rust types give it, and a turn is always about
\* a grant that exists.
TypeOK ==
  /\ rules \in Seq(Rule)
  /\ scores \in [Categories -> [count : Nat, declared : BOOLEAN]]
  /\ DOMAIN grants \subseteq Purposes
  /\ grants \in [DOMAIN grants -> Grant]
  /\ today \in Nat
  /\ asked \subseteq DOMAIN grants
  /\ at \in {"idle", "memory", "guardian", "explain", "trust", "respond", "done"}
  /\ at # "idle" => req \in Request /\ req.purpose \in DOMAIN grants
  /\ outcome \in Outcomes \cup {"none"}
  /\ at = "done" => outcome \in Outcomes

Gained(p) == grants'[p].granted \ grants[p].granted

\* A grant never gains access to a file that a rule in force forbids, nor one
\* that a protected rule forbids, whatever has happened to that rule: the
\* verdict the turn holds when it extends the grant is still the rules'.
\* (turn.rs: the guardian is asked before the trust model.)
GrowthRespectsGuardian ==
  [][\A p \in DOMAIN grants : \A c \in Gained(p) : IsJudged(c) =>
       \A i \in DOMAIN rules :
         Matches(rules[i].method, derive_event_for_capability(c)) =>
           ~rules[i].active /\ ~rules[i].protected]_vars

\* A grant grows only by the capability its turn is about, when the turn's own
\* category is trusted: no other turn, category or call extends it.
\* (confirmation.rs: expand_with_trust_check; schema.rs of arona_adaptive:
\* trust does not leap from one category to another.)
GrowthNeedsTrust ==
  [][\A p \in DOMAIN grants : \A c \in Gained(p) :
       /\ InTurn /\ req.purpose = p /\ req.capability = c
       /\ scores[req.category].declared \/ scores[req.category].count >= SkipThreshold]_vars

\* A turn that was blocked, that waits for the user, or that failed before or
\* in the extension left its grant as it found it. (turn.rs)
OnlyExpandedTurnsGrant ==
  at = "done" /\ outcome \notin {"Expanded", "CognitionError"} =>
    grants[req.purpose].granted = req.before

\* A protected rule of the engine's first rules intervenes for ever against
\* whatever it matched at the start, after any number of false alarms and
\* requests to relax it. (engine.rs: the "sanctuary".)
SanctuaryStands ==
  \A i \in DOMAIN FirstRules : FirstRules[i].protected =>
    \A e \in Events : Matches(FirstRules[i].method, e) => i \in evaluate(e)

\* A rule that is not protected is off once it has been wrong often enough,
\* and nothing turns it on again. (engine.rs: record_false_positive)
ManyAlarmsRelax ==
  \A i \in DOMAIN rules :
    ~rules[i].protected /\ rules[i].false_positive_count >= AutoRelaxAfter =>
      ~rules[i].active

\* A grant never holds more than its template allows, provided the callers
\* start inside the template and stay with it. (grant.rs: granted_capabilities)
WithinTemplate ==
  \A p \in DOMAIN grants : grants[p].granted \subseteq Templates[grants[p].template]

\* A dormant grant really has not been used for longer than the threshold, so
\* what the user is told when asked to end it is true. (grant.rs, audit.rs)
DormantMeansUnused ==
  \A p \in DOMAIN grants :
    grants[p].status = "Dormant" => today - grants[p].last_used > DormantAfter

\* A grant the user has ended does not come back, by use or by a turn.
\* (grant.rs: touch, check_dormancy)
RevokedStaysRevoked ==
  [][\A p \in DOMAIN grants :
       grants[p].status = "Revoked" => grants'[p].status = "Revoked"]_vars

\* Every turn returns.
TurnsEnd == InTurn ~> at = "done"

(***************************************************************************)
(* What the repository says and the code does not do                       *)
(***************************************************************************)

\* grant.rs:24: a revoked grant has lost its force, so it gains nothing.
RevokedNeverGrows ==
  [][\A p \in DOMAIN grants : grants[p].status = "Revoked" => Gained(p) = {}]_vars

\* turn.rs:151-153: when a permission is granted without asking, the answer
\* tells the user so.
GrantedIsTold ==
  at = "done" /\ grants[req.purpose].granted # req.before => outcome = "Expanded"
================================================================================
