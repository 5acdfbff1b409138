---------------------------- MODULE MCKernelTasks ----------------------------
(***************************************************************************)
(* KernelTasks for TLC.  The safety run uses the values of the code itself: *)
(* two tasks, a print on every 18th tick.  The others print on every second *)
(* tick, which brings the rare tick that prints to every flow.              *)
(***************************************************************************)
EXTENDS KernelTasks

TwoTasks == 2
CodePrintEvery == 18
OftenPrintEvery == 2
==============================================================================
