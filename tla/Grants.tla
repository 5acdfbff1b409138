-------------------------------- MODULE Grants --------------------------------
(***************************************************************************)
(* Permissions granted for a purpose (arona_permissions): a grant is made   *)
(* from a template, grows one capability at a time, goes dormant when it    *)
(* has not been used for long and is revoked when the user agrees.          *)
(*                                                                         *)
(* Time is a count of days; the callers' clock never goes back.             *)
(***************************************************************************)
EXTENDS Naturals

CONSTANTS
  Purposes,          \* the user's purposes: one grant each at most
  Templates,         \* template -> its full_capabilities
  StartsInTemplate,  \* TRUE: the callers create a grant inside its template
                     \* and go on using that template, as the examples do
  DormantAfter,      \* DORMANCY_THRESHOLD_DAYS (30)
  MaxDay             \* bound: days that pass

VARIABLES
  grants,    \* purpose -> its PurposeGrant, for the purposes that have one
  today,     \* Utc::now(), in days
  asked      \* purposes the user has been asked to end and has not answered for

grantVars == <<grants, today, asked>>

TemplateIds  == DOMAIN Templates
Capabilities == UNION {Templates[t] : t \in TemplateIds}
Statuses     == {"Active", "Dormant", "Revoked"}

GrantsInit == grants = << >> /\ today = 0 /\ asked = {}

DayPasses == today < MaxDay /\ today' = today + 1 /\ UNCHANGED <<grants, asked>>

\* PurposeGrant::new takes the initial capabilities as the caller gives them.
NewGrant(p) ==
  /\ p \notin DOMAIN grants
  /\ \E t \in TemplateIds :
       \E initial \in SUBSET (IF StartsInTemplate THEN Templates[t] ELSE Capabilities) :
         grants' = [q \in DOMAIN grants \cup {p} |->
                      IF q = p THEN [template |-> t, granted |-> initial,
                                     status |-> "Active", last_used |-> today]
                      ELSE grants[q]]
  /\ UNCHANGED <<today, asked>>

Touched(g) ==
  [g EXCEPT !.last_used = today,
            !.status = IF @ = "Dormant" THEN "Active" ELSE @]

touch(p) ==
  /\ p \in DOMAIN grants
  /\ grants' = [grants EXCEPT ![p] = Touched(@)]
  /\ UNCHANGED <<today, asked>>

\* What expand leaves behind; whether it succeeds does not depend on the grant.
Expanded(g, c) == Touched([g EXCEPT !.granted = @ \cup {c}])

InTemplate(t, c) == c \in Templates[t]

is_dormant_by_elapsed_time(g) ==
  g.status = "Active" /\ today - g.last_used > DormantAfter

check_dormancy(p) ==
  /\ p \in DOMAIN grants
  /\ is_dormant_by_elapsed_time(grants[p])
  /\ grants' = [grants EXCEPT ![p].status = "Dormant"]
  /\ UNCHANGED <<today, asked>>

\* The notice about dormant grants reaches the user, who answers later.
AskToEnd(Reachable) ==
  /\ asked' = {p \in Reachable \cap DOMAIN grants : grants[p].status = "Dormant"}
  /\ asked' # {}
  /\ UNCHANGED <<grants, today>>

\* The user agrees to end a purpose; the code asks nothing more of the grant.
revoke_with_user_approval(p) ==
  /\ p \in asked
  /\ asked' = asked \ {p}
  /\ grants' = [grants EXCEPT ![p].status = "Revoked"]
  /\ UNCHANGED today
================================================================================
