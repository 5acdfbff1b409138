------------------------------ MODULE KernelPolicy ------------------------------
(***************************************************************************)
(* The kernel's own guardian, grants and trust model (arona_kernel:          *)
(* guardian.rs, permissions.rs, adaptive.rs), ported without the standard     *)
(* library: rules have random numbers for names, the clock is a count of       *)
(* timer ticks that each caller passes, scores are in a map without entries    *)
(* at first.  Each of the three files says that its design is the one of the   *)
(* original; that is what is checked here.                                   *)
(*                                                                         *)
(* kernel_main runs the operations one after another; here in any order.      *)
(***************************************************************************)
EXTENDS Naturals, Sequences, SequencesExt

CONSTANTS
  HasRdrand,                   \* rdrand_supported()
  RandomValues,                \* what RDRAND may return, twice the same included
  Categories, Purposes,
  Templates,                   \* template -> its full_capabilities
  NewRules,                    \* rules that may be added: <<method, protected>>
  RelaxThreshold,              \* FALSE_POSITIVE_AUTO_RELAX_THRESHOLD (5)
  SkipThreshold,               \* CONFIRMATION_SKIP_THRESHOLD in halves (10)
  DormancyTicks,               \* DORMANCY_THRESHOLD_TICKS (90)
  MaxRules, MaxAlarms, MaxScore, MaxTick,   \* bounds
  Events                       \* events the guardian may be shown

\* Detection methods are those of DetectionMethod; who has no approvals is asked.
ASSUME PolicyAssumption ==
  /\ \A new \in NewRules :
       /\ new[1].by \in {"Signature", "BehavioralAnomaly", "SensorThreshold",
                        "ChecksumVerification", "EventLog", "AbnormalProcessEvent", "Heartbeat"}
       /\ new[2] \in BOOLEAN
  /\ RelaxThreshold \in Nat /\ SkipThreshold \in Nat \ {0}

VARIABLES
  rules,    \* GuardianEngine.rules
  tsc,      \* the time stamp counter, in calls of random_u64
  scores,   \* TrustModel.scores: entries only for categories that were approved
  grants,   \* purpose -> its PurposeGrant
  tick      \* the tick the callers pass as current_tick

policyVars == <<rules, tsc, scores, grants, tick>>

(***************************************************************************)
(* random_u64                                                              *)
(***************************************************************************)

\* RDRAND may fail ten times in a row; the counter is never one of its values here, as
\* kernels count clocks in billions.
Random(value) ==
  /\ value \in (IF HasRdrand THEN RandomValues ELSE {}) \union {<<"tsc", tsc>>}
  /\ tsc' = tsc + 1

(***************************************************************************)
(* guardian.rs                                                             *)
(***************************************************************************)

\* Which events each detection method is about, and when it intervenes.
match_event(m, e) ==
  CASE m.by = "Signature" -> e.kind = "FileOperation" /\ m.pattern \in e.path
    [] m.by = "BehavioralAnomaly" -> e.kind = "FileOperation" /\ e.writes > 100
    [] m.by = "SensorThreshold" ->
         e.kind = "SensorReading" /\ e.sensor = m.sensor /\ e.value > m.limit
    [] m.by = "ChecksumVerification" -> e.kind = "ChecksumCheck" /\ ~e.matched
    [] m.by = "EventLog" -> e.kind = "WriteFailure" /\ e.reason = m.event_type
    [] m.by = "AbnormalProcessEvent" ->
         e.kind = "ProcessAbnormal" /\ e.event_type = m.event_type
    [] m.by = "Heartbeat" -> e.kind = "HeartbeatMissed" /\ e.missed >= m.max_missed_beats

\* The rules that intervene.
evaluate(e) == {i \in DOMAIN rules : rules[i].active /\ match_event(rules[i].method, e)}

Named(id, method, protected) ==
  [id |-> id, method |-> method, protected |-> protected, active |-> TRUE, false_positive_count |-> 0]

\* The numbers of the first rules are drawn before anything else and taken as different.
default_rule_set ==
  << Named(<<"boot", 1>>, [by |-> "Signature", pattern |-> ".locked"], TRUE),
     Named(<<"boot", 2>>, [by |-> "BehavioralAnomaly"], TRUE),
     Named(<<"boot", 3>>, [by |-> "SensorThreshold", sensor |-> "cpu_temp_celsius", limit |-> 95], FALSE),
     Named(<<"boot", 4>>, [by |-> "ChecksumVerification"], TRUE),
     Named(<<"boot", 5>>, [by |-> "Heartbeat", max_missed_beats |-> 3], FALSE) >>

AddRule ==
  /\ Len(rules) < MaxRules
  /\ \E new \in NewRules, id \in RandomValues \union {<<"tsc", tsc>>} :
       Random(id) /\ rules' = Append(rules, Named(id, new[1], new[2]))
  /\ UNCHANGED <<scores, grants, tick>>

Ids == {rules[i].id : i \in DOMAIN rules}

\* find: a name that occurs twice means the first.
First(id) == SelectInSeq(rules, LAMBDA rule : rule.id = id)

\* Mutant: nobody asks whether the rule is protected.
SwitchOffAny(id) ==
  rules' = [rules EXCEPT ![First(id)].active = FALSE]

\* The rule found is switched off, unless it is protected.
SwitchOff(id) ==
  /\ ~rules[First(id)].protected
  /\ rules' = [rules EXCEPT ![First(id)].active = FALSE]

RelaxRule ==
  /\ \E id \in Ids : SwitchOff(id)
  /\ UNCHANGED <<tsc, scores, grants, tick>>

\* A rule without its name, which only finds it.
Nameless(rule) ==
  [method |-> rule.method, protected |-> rule.protected,
   active |-> rule.active, false_positive_count |-> rule.false_positive_count]

Unnamed == [i \in DOMAIN rules |-> Nameless(rules[i])]

G == INSTANCE Guardian WITH
  rules <- Unnamed, FirstRules <- << >>, AutoRelaxAfter <- RelaxThreshold

Alarms == G!AlarmCount

\* A rule after one more false alarm.
Alarmed(rule) ==
  LET count == rule.false_positive_count + 1
  IN  [rule EXCEPT !.false_positive_count = count,
                   !.active = @ /\ (rule.protected \/ count < RelaxThreshold)]

RecordFalsePositive ==
  /\ Alarms < MaxAlarms
  /\ \E id \in Ids : rules' = [rules EXCEPT ![First(id)] = Alarmed(@)]
  /\ UNCHANGED <<tsc, scores, grants, tick>>

(***************************************************************************)
(* adaptive.rs                                                             *)
(***************************************************************************)

weight(manner) == IF manner = "Immediate" THEN 2 ELSE 1

Score(c) == IF c \in DOMAIN scores THEN scores[c] ELSE 0

\* The entry is made by the first approval.
RecordApproval ==
  /\ \E c \in Categories, manner \in {"Immediate", "Hesitant"} :
       /\ Score(c) + weight(manner) <= MaxScore
       /\ scores' = [k \in DOMAIN scores \union {c} |->
                       IF k = c THEN Score(c) + weight(manner) ELSE scores[k]]
  /\ UNCHANGED <<rules, tsc, grants, tick>>

\* There is no declaration in the kernel: explicitly_confirmed stays false.
ShouldSkipConfirmation(c) == c \in DOMAIN scores /\ scores[c] >= SkipThreshold

(***************************************************************************)
(* permissions.rs                                                          *)
(***************************************************************************)

Touched(grant) ==
  [grant EXCEPT !.last_used_tick = tick,
                !.status = IF @ = "Dormant" THEN "Active" ELSE @]

New ==
  /\ \E p \in Purposes \ DOMAIN grants, t \in DOMAIN Templates :
       \E initial \in SUBSET Templates[t] :
         grants' = [q \in DOMAIN grants \union {p} |->
                      IF q = p THEN [template |-> t, granted_capabilities |-> initial,
                                     status |-> "Active", last_used_tick |-> tick]
                      ELSE grants[q]]
  /\ UNCHANGED <<rules, tsc, scores, tick>>

Widened(grant, c) == [grant EXCEPT !.granted_capabilities = @ \union {c}]

\* The capability has to be in the template that is passed.
Expand ==
  /\ \E p \in DOMAIN grants, t \in DOMAIN Templates : \E c \in Templates[t] :
       grants' = [grants EXCEPT ![p] = Touched(Widened(@, c))]
  /\ UNCHANGED <<rules, tsc, scores, tick>>

Touch ==
  /\ \E p \in DOMAIN grants : grants' = [grants EXCEPT ![p] = Touched(@)]
  /\ UNCHANGED <<rules, tsc, scores, tick>>

Unused(grant) == IF tick >= grant.last_used_tick THEN tick - grant.last_used_tick ELSE 0

\* Mutant: dormant whether it has been so before or not.
OnlyByTheClock(grant) == Unused(grant) > DormancyTicks

GoesDormant(grant) == grant.status = "Active" /\ Unused(grant) > DormancyTicks

CheckDormancy ==
  /\ \E p \in DOMAIN grants :
       GoesDormant(grants[p]) /\ grants' = [grants EXCEPT ![p].status = "Dormant"]
  /\ UNCHANGED <<rules, tsc, scores, tick>>

\* The timer interrupt (external).
TickPasses == tick < MaxTick /\ tick' = tick + 1 /\ UNCHANGED <<rules, tsc, scores, grants>>

PolicyInit ==
  /\ rules = default_rule_set /\ tsc = 0
  /\ scores = << >> /\ grants = << >> /\ tick = 0

PolicyNext ==
  AddRule \/ RelaxRule \/ RecordFalsePositive \/ RecordApproval
    \/ New \/ Expand \/ Touch \/ CheckDormancy \/ TickPasses

PolicySpec == PolicyInit /\ [][PolicyNext]_policyVars

(***************************************************************************)
(* Properties                                                              *)
(***************************************************************************)

T == INSTANCE Trust WITH
  scores <- [c \in Categories |-> [count |-> Score(c), declared |-> FALSE]]

Granted(grant) == [template |-> grant.template, granted |-> grant.granted_capabilities,
                   status |-> grant.status, last_used |-> grant.last_used_tick]

R == INSTANCE Grants WITH
  grants <- [p \in DOMAIN grants |-> Granted(grants[p])], today <- tick, asked <- {},
  StartsInTemplate <- TRUE, DormantAfter <- DormancyTicks, MaxDay <- MaxTick

\* What AronaTurn does with a grant it extends.
DesignExpands ==
  \E p \in DOMAIN grants, t \in R!TemplateIds : \E c \in R!Capabilities :
    R!InTemplate(t, c) /\ Granted(grants'[p]) = R!Expanded(Granted(grants[p]), c)
      /\ \A q \in DOMAIN grants \ {p} : grants'[q] = grants[q]

DesignOfTrust == \E c \in Categories, m \in T!Manners : T!record_approval(c, m)

DesignOfGrants ==
  \/ R!DayPasses \/ DesignExpands
  \/ \E p \in Purposes : R!NewGrant(p) \/ R!touch(p) \/ R!check_dormancy(p)

\* Each of the three engines starts as the original does and takes only steps the original
\* takes too, whatever numbers the rules get for names, two rules the same name included.
\* (guardian.rs:3, permissions.rs:3, adaptive.rs:3 of the kernel: the design is identical.)
SameDesign ==
  /\ Unnamed = G!default_rule_set /\ [][G!GuardianNext]_Unnamed
  /\ T!TrustInit /\ [][DesignOfTrust]_scores
  /\ R!GrantsInit /\ [][DesignOfGrants]_<<grants, tick>>

\* In every state the three engines answer as the original would: the same rules intervene
\* against an event, the same categories need no confirmation, the same grants are dormant.
SameAnswers ==
  /\ \A e \in Events : evaluate(e) = G!evaluate(e)
  /\ \A c \in Categories : ShouldSkipConfirmation(c) = T!should_skip_confirmation(c)
  /\ \A p \in DOMAIN grants :
       GoesDormant(grants[p]) = R!is_dormant_by_elapsed_time(Granted(grants[p]))
================================================================================
