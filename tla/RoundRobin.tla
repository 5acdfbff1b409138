------------------------------ MODULE RoundRobin ------------------------------
(***************************************************************************)
(* What the scheduler of arona_kernel promises to the flows it multiplexes *)
(* on the one CPU, with none of its mechanism: the flows that have been    *)
(* registered take the CPU in the order of their registration, one after   *)
(* the other, and a flow that has pinned the CPU (it runs a disk call with *)
(* interrupts masked) keeps it until it unpins it.  KernelTasks implements *)
(* this specification.                                                     *)
(***************************************************************************)
EXTENDS Integers

CONSTANT Capacity   \* flows that are ever registered, kernel_main included

VARIABLES
  running,     \* the flow that has the CPU, by order of registration from 0
  registered,  \* how many flows are registered
  pinned       \* the running flow must not lose the CPU

rrVars == <<running, registered, pinned>>

RRInit ==
  /\ running = 0
  /\ registered = 0
  /\ pinned = FALSE

\* A flow joins the rotation, behind all the others.
Register ==
  /\ registered < Capacity
  /\ registered' = registered + 1
  /\ UNCHANGED <<running, pinned>>

\* The CPU goes to the next registered flow.
Rotate ==
  /\ registered >= 2
  /\ ~pinned
  /\ running' = (running + 1) % registered
  /\ UNCHANGED <<registered, pinned>>

\* Only the first flow (kernel_main) pins the CPU, and only while it has it.
Pin ==
  /\ running = 0
  /\ pinned' = ~pinned
  /\ UNCHANGED <<running, registered>>

RRNext == Register \/ Rotate \/ Pin

RRSpec == RRInit /\ [][RRNext]_rrVars
===============================================================================
