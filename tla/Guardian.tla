------------------------------- MODULE Guardian -------------------------------
(***************************************************************************)
(* The guardian's rule engine (arona_guardian): a list of rules that only   *)
(* grows, whose members can be switched off on request or after too many    *)
(* false alarms, unless they are protected, and the evaluation of an event  *)
(* against the rules still on.                                              *)
(*                                                                         *)
(* A rule is known by its place in the list, which its Uuid stands for:     *)
(* rules are never moved or removed.  A path is the set of patterns it      *)
(* contains, a sensor, a file or a process a name.                          *)
(***************************************************************************)
EXTENDS Naturals, Sequences, Functions

CONSTANTS
  FirstRules,       \* the rules the engine starts with
  NewRules,         \* rules that may be added: <<method, protected>>
  AutoRelaxAfter,   \* FALSE_POSITIVE_AUTO_RELAX_THRESHOLD (5)
  MaxRules,         \* bound: rules in the list
  MaxAlarms         \* bound: false alarms recorded in all

VARIABLE rules      \* GuardianEngine.rules

New(method, protected) ==
  [method |-> method, protected |-> protected,
   active |-> TRUE, false_positive_count |-> 0]

\* The rules of with_default_rules().
default_rule_set ==
  << New([by |-> "Signature", pattern |-> ".locked"], TRUE),
     New([by |-> "BehavioralAnomaly"], TRUE),
     New([by |-> "SensorThreshold", sensor |-> "cpu_temp_celsius", limit |-> 95], FALSE),
     New([by |-> "ChecksumVerification"], TRUE),
     New([by |-> "Heartbeat", max_missed_beats |-> 3], FALSE) >>

(***************************************************************************)
(* Evaluation                                                              *)
(***************************************************************************)

\* match_event: a detection method looks at one kind of event only.
Matches(method, event) ==
  \/ method.by = "Signature" /\ event.kind = "FileOperation" /\ method.pattern \in event.path
  \/ method.by = "BehavioralAnomaly" /\ event.kind = "FileOperation" /\ event.writes > 100
  \/ /\ method.by = "SensorThreshold" /\ event.kind = "SensorReading"
     /\ event.sensor = method.sensor /\ event.value > method.limit
  \/ method.by = "ChecksumVerification" /\ event.kind = "ChecksumCheck" /\ ~event.matched
  \/ method.by = "EventLog" /\ event.kind = "WriteFailure" /\ event.reason = method.event_type
  \/ /\ method.by = "AbnormalProcessEvent" /\ event.kind = "ProcessAbnormal"
     /\ event.event_type = method.event_type
  \/ /\ method.by = "Heartbeat" /\ event.kind = "HeartbeatMissed"
     /\ event.missed >= method.max_missed_beats

\* The rules that intervene; one is enough to block.
evaluate(event) == {i \in DOMAIN rules : rules[i].active /\ Matches(rules[i].method, event)}

(***************************************************************************)
(* Operations on the rules                                                 *)
(***************************************************************************)

GuardianInit == rules = FirstRules

\* A rule proposed by the model is in force at once.
add_rule ==
  /\ Len(rules) < MaxRules
  /\ \E r \in NewRules : rules' = Append(rules, New(r[1], r[2]))

\* A protected rule is refused, and the call returns an error.
relax_rule ==
  /\ \E i \in DOMAIN rules :
       /\ ~rules[i].protected
       /\ rules' = [rules EXCEPT ![i] = [@ EXCEPT !.active = FALSE]]

AlarmCount == FoldFunction(LAMBDA r, n : r.false_positive_count + n, 0, rules)

\* Mutant: protected rules are relaxed too.
RelaxesProtected(r) == r.false_positive_count + 1 >= AutoRelaxAfter

\* A rule after one more false alarm; the threshold is reached, not passed.
Relaxes(r) == ~r.protected /\ r.false_positive_count + 1 >= AutoRelaxAfter

Alarmed(r) ==
  LET counted == [r EXCEPT !.false_positive_count = @ + 1]
  IN  IF Relaxes(r) THEN [counted EXCEPT !.active = FALSE] ELSE counted

record_false_positive ==
  /\ AlarmCount < MaxAlarms
  /\ \E i \in DOMAIN rules :
       rules' = [rules EXCEPT ![i] = Alarmed(@)]

GuardianNext == add_rule \/ relax_rule \/ record_false_positive
================================================================================
