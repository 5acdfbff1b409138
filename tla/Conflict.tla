------------------------------- MODULE Conflict -------------------------------
(***************************************************************************)
(* Two purposes want the same resource (conflict.rs, conflict_bridge.rs,    *)
(* arbitration_bridge.rs): a port is replaced by another that is free, and   *)
(* if there is none, or the resource is no port, the language model decides   *)
(* who gets it.                                                             *)
(*                                                                         *)
(* The functions of the repository decide and change nothing.  What is       *)
(* around them is their callers', modelled as the examples and tests use      *)
(* them: a purpose that asks for what is held gets a list of the ports in     *)
(* use, calls resolve_conflict, and does what comes out of it.               *)
(***************************************************************************)
EXTENDS KeyValueLines

CONSTANTS
  Purposes,
  Wanted,               \* the resources asked for: <<"net", protocol, port>> or others
  FirstPort, LastPort,  \* PORT_SEARCH_RANGE (49152..=65535)
  Busy,                 \* ports other programs use
  Answers,              \* what the model may answer: sequences of lines
  MaxHeld, MaxCalls,    \* bounds: what is held when more is taken, conflicts at once
  Nothing

VARIABLES
  holdings,   \* who holds what: <<purpose, resource>>
  request,    \* for each purpose the conflict it is in, or Nothing
  raced       \* history: what is held and was taken while another was about to take it

vars == <<holdings, request, raced>>

HoldersOf(r) == {p \in Purposes : <<p, r>> \in holdings}

IsPort(r) == r[1] = "net"

\* Ports are numbers, no port is the value that stands for none, and answers are sequences.
ASSUME ConflictAssumption ==
  /\ FirstPort \in Nat /\ LastPort \in Nat
  /\ \A answer \in Answers : answer \in Seq(ToSet(answer))
  /\ Nothing \notin {<<"net", r[2], n>> : r \in {x \in Wanted : IsPort(x)}, n \in FirstPort..LastPort}

Init == holdings = {} /\ request = [p \in Purposes |-> Nothing] /\ raced = {}

Pending(p) == request[p] # Nothing

\* What p takes now, q knew as free or as somebody else's when it looked.
Unaware(q, r) == request[q].wants = r \/ (IsPort(r) /\ r \notin request[q].used)

Racing(p, r) == raced \union {x \in {r} : \E q \in Purposes \ {p} : Pending(q) /\ Unaware(q, x)}

(***************************************************************************)
(* The callers (external)                                                  *)
(***************************************************************************)

\* What nobody holds is taken.
Take(p, r) ==
  /\ ~Pending(p) /\ HoldersOf(r) = {} /\ Cardinality(holdings) < MaxHeld
  /\ holdings' = holdings \union {<<p, r>>}
  /\ raced' = Racing(p, r)
  /\ UNCHANGED request

\* What somebody holds is a Conflict, for which a StaticPortChecker is made.
Ask(p, r) ==
  /\ ~Pending(p) /\ <<p, r>> \notin holdings
  /\ Cardinality({q \in Purposes : Pending(q)}) < MaxCalls
  /\ \E h \in HoldersOf(r) :
       request' = [request EXCEPT ![p] =
                     [stage |-> "resolve", wants |-> r, holder |-> h, answer |-> <<>>,
                      used |-> Busy \union {hr[2] : hr \in {x \in holdings : IsPort(x[2])}},
                      gets |-> r]]
  /\ UNCHANGED <<holdings, raced>>

Release(p, r) ==
  /\ ~Pending(p) /\ <<p, r>> \in holdings
  /\ holdings' = holdings \ {<<p, r>>}
  /\ raced' = raced \ {x \in {r} : HoldersOf(x) = {p}}
  /\ UNCHANGED request

(***************************************************************************)
(* resolve                                                                 *)
(***************************************************************************)

is_port_available(used, port, protocol) == <<"net", protocol, port>> \notin used

\* Mutant: the last port of the range is not tried.
WithoutTheLast == [n \in 1..(LastPort - FirstPort) |-> FirstPort + n - 1]

\* The ports in the order in which they are tried.
PORT_SEARCH_RANGE == [n \in 1..(LastPort - FirstPort + 1) |-> FirstPort + n - 1]

\* The loop over the range; Nothing asks for arbitration.
FreePort(used, protocol) ==
  LET k == SelectInSeq(PORT_SEARCH_RANGE, LAMBDA port : is_port_available(used, port, protocol))
  IN  IF k = 0 THEN Nothing ELSE <<"net", protocol, PORT_SEARCH_RANGE[k]>>

\* Only a port has an alternative.
resolve(r, used) == IF IsPort(r) THEN FreePort(used, r[2]) ELSE Nothing

\* resolve_conflict, its first stage; the second is arbitrate.
ResolveConflict(p) ==
  /\ Pending(p) /\ request[p].stage = "resolve"
  /\ LET alternative == resolve(request[p].wants, request[p].used)
     IN  request' = [request EXCEPT ![p] =
                       IF alternative # Nothing
                       THEN [@ EXCEPT !.stage = "isolated", !.gets = alternative]
                       ELSE [@ EXCEPT !.stage = "arbitrate"]]
  /\ UNCHANGED <<holdings, raced>>

(***************************************************************************)
(* arbitrate                                                               *)
(***************************************************************************)

\* Mutant: whoever is not named loses.
LoserUnnamed(answer) ==
  LET fields == parse_key_value_lines(answer)
  IN  IF <<"WINNER">> \notin DOMAIN fields THEN Nothing
      ELSE IF fields[<<"WINNER">>] = <<"holder">> THEN "Holder" ELSE "Requester"

\* parse_response of arbitration_bridge.rs: without a WINNER an error, and in doubt the holder.
Winner(answer) ==
  LET fields == parse_key_value_lines(answer)
  IN  IF <<"WINNER">> \notin DOMAIN fields THEN Nothing
      ELSE IF fields[<<"WINNER">>] = <<"requester">> THEN "Requester" ELSE "Holder"

Arbitrate(p) ==
  /\ Pending(p) /\ request[p].stage = "arbitrate"
  /\ \E answer \in Answers :
       request' = [request EXCEPT ![p] =
         CASE Winner(answer) = Nothing -> Nothing
           [] OTHER -> [@ EXCEPT !.stage = Winner(answer), !.answer = answer]]
  /\ UNCHANGED <<holdings, raced>>

\* The model fails; the error goes to the caller.
ArbitrateFails(p) ==
  /\ Pending(p) /\ request[p].stage = "arbitrate"
  /\ request' = [request EXCEPT ![p] = Nothing]
  /\ UNCHANGED <<holdings, raced>>

\* Mutant: when the one who asked wins, nobody is told to yield.
OnlyRequesterYields(p) == IF request[p].stage = "Holder" THEN {p} ELSE {}

\* loser_should_yield: nobody, the holder or the one who asked.
loser_should_yield(p) ==
  CASE request[p].stage = "isolated" -> {}
    [] request[p].stage = "Requester" -> {request[p].holder}
    [] request[p].stage = "Holder" -> {p}

\* The caller does what was decided (external).
Settle(p) ==
  /\ Pending(p) /\ request[p].stage \in {"isolated", "Requester", "Holder"}
  /\ LET r == request[p].gets
         leaving == {<<h, request[p].wants>> : h \in loser_should_yield(p)}
     IN  IF p \in loser_should_yield(p)
         THEN UNCHANGED <<holdings, raced>>
         ELSE /\ holdings' = (holdings \ leaving) \union {<<p, r>>}
              /\ raced' = Racing(p, r)
  /\ request' = [request EXCEPT ![p] = Nothing]

Next ==
  \E p \in Purposes :
    \/ \E r \in Wanted : Take(p, r) \/ Ask(p, r)
    \/ \E pr \in holdings : Release(p, pr[2])
    \/ ResolveConflict(p) \/ Arbitrate(p) \/ ArbitrateFails(p) \/ Settle(p)

Spec == Init /\ [][Next]_vars

(***************************************************************************)
(* Properties                                                              *)
(***************************************************************************)

\* Two purposes come to hold the same resource only by a race: one of them took it after the
\* other had looked who holds it.  Whoever lets one conflict be settled before the next call
\* never sees it; the functions themselves reserve nothing.
SharedOnlyByRace ==
  \A r \in {pr[2] : pr \in holdings} \ raced :
    \A p, q \in HoldersOf(r) : p = q

\* Nobody loses what it holds but by giving it up or by an answer about this very resource
\* and this holder, whose last word on the WINNER is exactly requester.
LosesByVerdict ==
  [][\A hr \in holdings \ holdings' :
       \/ request' = request
       \/ \E p \in Purposes :
            /\ Pending(p) /\ ~Pending(p)'
            /\ <<request[p].holder, request[p].wants>> = hr
            /\ Says(request[p].answer, <<"WINNER">>, <<"requester">>)
            /\ <<p, hr[2]>> \in holdings']_vars

\* The model decides about a port only when all ports of the range were in use, the first and
\* the last of u16 among them; an alternative is a port of the range, of the same protocol,
\* that was not in use, and all before it were.
IsolatedFirst ==
  \A p \in {q \in Purposes : IF Pending(q) THEN IsPort(request[q].wants) ELSE FALSE} :
    LET c == request[p]
        free == {n \in FirstPort..LastPort : <<"net", c.wants[2], n>> \notin c.used}
    IN  /\ c.stage \in {"arbitrate", "Holder", "Requester"} => free = {}
        /\ c.stage = "isolated" =>
             free # {} /\ c.gets = <<"net", c.wants[2], Min(free)>>
================================================================================
