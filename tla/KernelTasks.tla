----------------------------- MODULE KernelTasks -----------------------------
(***************************************************************************)
(* The preemptive core of arona_kernel on its single CPU: kernel_main      *)
(* (main.rs) as flow 0, the spawned tasks (task.rs) as flows 1..NTasks,    *)
(* the timer interrupt handler (interrupts.rs) that preempts them, the     *)
(* round-robin scheduler and switch_to (scheduler.rs, context.rs), the     *)
(* four spin locks these share (TICKS, SERIAL1, PICS, SCHEDULER), the      *)
(* interrupt flag and the interrupt controller.                            *)
(*                                                                         *)
(* A step is what runs between two points where another flow or the        *)
(* handler can tell the difference: taking a lock, the work under it,      *)
(* releasing it, changing the interrupt flag, switching stacks.  A spin    *)
(* lock is taken by a step that is only enabled when it is free; a flow    *)
(* that spins simply has no step.                                          *)
(***************************************************************************)
EXTENDS Integers

CONSTANTS
  NTasks,      \* tasks spawned by kernel_main (2 in main.rs)
  PrintEvery   \* the handler prints on every PrintEvery-th tick (18 in the code)

ASSUME KernelAssumption ==
  /\ NTasks \in Nat \ {0}
  /\ PrintEvery \in Nat \ {0}

Main  == 0
Tasks == 1 .. NTasks
Flows == 0 .. NTasks

Locks   == {"TICKS", "SERIAL1", "PICS", "SCHEDULER"}
NoLock  == "none"
Free    == -1            \* owner of a lock nobody holds
NoStack == -1            \* the rsp = 0 of TaskContext::empty()

LastCall == 4            \* kernel_main makes four disk calls: format,
                         \* write_file, read_file, read_file of a missing name

VARIABLES
  cpu,       \* the flow whose stack the CPU is on
  ifl,       \* the CPU's interrupt flag IF
  pc,        \* flow -> where its own code is
  printing,  \* flow -> its own code is in _print, between lock and unlock
  hpc,       \* flow -> where its frame of timer_interrupt_handler is, or "none"
  holder,    \* lock -> the flow that holds it, or Free
  ticks,     \* *TICKS modulo PrintEvery
  irq,       \* the interrupt controller has a timer interrupt pending
  isr,       \* ... and one in service: delivered, end-of-interrupt not yet sent
  nctx,      \* SCHEDULER: contexts.len(), 0 while it is None
  contexts,  \* SCHEDULER: slot -> the flow whose stack its saved rsp points into
  current,   \* SCHEDULER: current
  args,      \* current_ptr and next_ptr of the schedule() call under way
  call       \* disk calls kernel_main has begun

lockVars  == <<holder>>
schedVars == <<nctx, contexts, current>>
vars == <<cpu, ifl, pc, printing, hpc, holder, ticks, irq, isr,
          nctx, contexts, current, args, call>>

\* Where kernel_main and the tasks call serial_println!.
LogLabels == {"boot", "log", "demo", "format_begin", "format_end", "report", "loop"}

\* Inside without_interrupts.
DiskLabels == {"format_begin", "disk", "format_end", "restore"}

\* Where a flow's own code runs with interrupts masked: before interrupts::init
\* sets the flag, at the first instruction of a task, and in the disk calls.
MaskedLabels == {"boot", "pic_init", "sti", "entry"} \cup DiskLabels

\* kernel_main holds SCHEDULER in scheduler::init and in scheduler::spawn.
SchedulerLabels == {"init_store", "init_unlock", "spawn_push", "spawn_unlock"}

MainLabels == {"boot", "pic_init", "sti", "log", "init_lock", "spawn_lock",
               "demo", "cli", "report", "idle"} \cup SchedulerLabels \cup DiskLabels
TaskLabels == {"entry", "loop"}

HandlerLabels == {"none", "tick_lock", "tick_count", "print_lock", "print_unlock",
                  "tick_unlock", "eoi_lock", "eoi", "eoi_unlock", "sched_lock",
                  "sched_pick", "sched_unlock", "sched_return", "switch", "iret"}
BeforeEoi == {"tick_lock", "tick_count", "print_lock", "print_unlock",
              "tick_unlock", "eoi_lock", "eoi"}
Picked == {"sched_unlock", "switch"}

NoArgs == [from |-> NoStack, to |-> NoStack]

Init ==
  /\ cpu = Main
  /\ ifl = FALSE
  /\ pc = [f \in Flows |-> IF f = Main THEN "boot" ELSE "entry"]
  /\ printing = [f \in Flows |-> FALSE]
  /\ hpc = [f \in Flows |-> "none"]
  /\ holder = [l \in Locks |-> Free]
  /\ ticks = 0
  /\ irq = FALSE
  /\ isr = FALSE
  /\ nctx = 0
  /\ contexts = [f \in Flows |-> NoStack]
  /\ current = 0
  /\ args = NoArgs
  /\ call = 0

-------------------------------------------------------------------------------
(* Helpers.                                                                  *)

\* The CPU runs the own code of flow f, and it is at label l.
Thread(f, l) == cpu = f /\ hpc[f] = "none" /\ pc[f] = l /\ ~printing[f]

\* The CPU runs the interrupt handler on the stack of flow f, at label l.
Handler(f, l) == cpu = f /\ hpc[f] = l

Acquire(l, f) == holder[l] = Free /\ holder' = [holder EXCEPT ![l] = f]
Release(l) == holder' = [holder EXCEPT ![l] = Free]

GoTo(f, l) == pc' = [pc EXCEPT ![f] = l]
HandlerGoTo(f, l) == hpc' = [hpc EXCEPT ![f] = l]

-------------------------------------------------------------------------------
(* serial_println! in the flows' own code: _print holds SERIAL1 while it      *)
(* formats and writes, with interrupts as the caller left them.  A run of     *)
(* prints with nothing but local computation between them is one label.       *)

AfterPrint(l) ==
  CASE l = "boot"         -> {"pic_init"}
    [] l = "log"          -> {"init_lock"}
    [] l = "demo"         -> {"demo", "cli"}
    [] l = "format_begin" -> {"disk"}
    [] l = "format_end"   -> {"restore"}
    [] l = "report"       -> IF call = LastCall THEN {"idle"} ELSE {"cli"}
    [] OTHER              -> {"loop"}

PrintLock(f) ==
  /\ \E l \in LogLabels : Thread(f, l)
  /\ Acquire("SERIAL1", f)
  /\ printing' = [printing EXCEPT ![f] = TRUE]
  /\ UNCHANGED <<cpu, ifl, pc, hpc, ticks, irq, isr, schedVars, args, call>>

PrintUnlock(f) ==
  /\ cpu = f /\ hpc[f] = "none" /\ printing[f]
  /\ Release("SERIAL1")
  /\ printing' = [printing EXCEPT ![f] = FALSE]
  /\ \E l \in AfterPrint(pc[f]) : GoTo(f, l)
  /\ UNCHANGED <<cpu, ifl, hpc, ticks, irq, isr, schedVars, args, call>>

-------------------------------------------------------------------------------
(* kernel_main.                                                               *)

\* PICS.lock().initialize() of interrupts::init: alone, with interrupts masked.
PicInit ==
  /\ Thread(Main, "pic_init")
  /\ holder["PICS"] = Free
  /\ isr' = FALSE
  /\ GoTo(Main, "sti")
  /\ UNCHANGED <<cpu, ifl, printing, hpc, lockVars, ticks, irq, schedVars, args, call>>

\* interrupts::enable() at the end of interrupts::init, before the scheduler
\* exists.
EnableInterrupts ==
  /\ Thread(Main, "sti")
  /\ ifl' = TRUE
  /\ GoTo(Main, "log")
  /\ UNCHANGED <<cpu, printing, hpc, lockVars, ticks, irq, isr, schedVars, args, call>>

SchedulerInitLock ==
  /\ Thread(Main, "init_lock")
  /\ Acquire("SCHEDULER", Main)
  /\ GoTo(Main, "init_store")
  /\ UNCHANGED <<cpu, ifl, printing, hpc, ticks, irq, isr, schedVars, args, call>>

\* *SCHEDULER.lock() = Some(scheduler), with the empty context of task 0.
SchedulerInitStore ==
  /\ Thread(Main, "init_store")
  /\ nctx' = 1
  /\ contexts' = [contexts EXCEPT ![Main] = NoStack]
  /\ current' = 0
  /\ GoTo(Main, "init_unlock")
  /\ UNCHANGED <<cpu, ifl, printing, hpc, lockVars, ticks, irq, isr, args, call>>

SchedulerInitUnlock ==
  /\ Thread(Main, "init_unlock")
  /\ Release("SCHEDULER")
  /\ GoTo(Main, "spawn_lock")
  /\ UNCHANGED <<cpu, ifl, printing, hpc, ticks, irq, isr, schedVars, args, call>>

SpawnLock ==
  /\ Thread(Main, "spawn_lock")
  /\ Acquire("SCHEDULER", Main)
  /\ GoTo(Main, "spawn_push")
  /\ UNCHANGED <<cpu, ifl, printing, hpc, ticks, irq, isr, schedVars, args, call>>

\* The new context is the one init_task_stack built: its rsp points into the
\* task's own stack, as if the task had been switched out before its entry.
SpawnPush ==
  /\ Thread(Main, "spawn_push")
  /\ contexts' = [contexts EXCEPT ![nctx] = nctx]
  /\ nctx' = nctx + 1
  /\ GoTo(Main, "spawn_unlock")
  /\ UNCHANGED <<cpu, ifl, printing, hpc, lockVars, ticks, irq, isr, current, args, call>>

SpawnUnlock ==
  /\ Thread(Main, "spawn_unlock")
  /\ Release("SCHEDULER")
  /\ GoTo(Main, IF nctx <= NTasks THEN "spawn_lock" ELSE "demo")
  /\ UNCHANGED <<cpu, ifl, printing, hpc, ticks, irq, isr, schedVars, args, call>>

\* The disk calls of kernel_main, in order; read_file is only tried when
\* write_file succeeded.
NextCalls == IF call = 2 THEN {3, 4} ELSE {call + 1}

\* Mutant: the disk call without without_interrupts.
BeginDiskCallUnmasked ==
  /\ Thread(Main, "cli")
  /\ \E c \in NextCalls :
       /\ call' = c
       /\ GoTo(Main, IF c = 1 THEN "format_begin" ELSE "disk")
  /\ UNCHANGED <<cpu, ifl, printing, hpc, lockVars, ticks, irq, isr, schedVars, args>>

\* without_interrupts masks interrupts.  The flag it saves is TRUE: every flow
\* reaches "cli" with interrupts on (IfMatchesCode below).
BeginDiskCall ==
  /\ Thread(Main, "cli")
  /\ ifl' = FALSE
  /\ \E c \in NextCalls :
       /\ call' = c
       /\ GoTo(Main, IF c = 1 THEN "format_begin" ELSE "disk")
  /\ UNCHANGED <<cpu, printing, hpc, lockVars, ticks, irq, isr, schedVars, args>>

\* The sector transfers.  format() reports a second time when it succeeded.
DiskTransfer ==
  /\ Thread(Main, "disk")
  /\ \E l \in (IF call = 1 THEN {"format_end", "restore"} ELSE {"restore"}) : GoTo(Main, l)
  /\ UNCHANGED <<cpu, ifl, printing, hpc, lockVars, ticks, irq, isr, schedVars, args, call>>

\* without_interrupts restores the flag.
EndDiskCall ==
  /\ Thread(Main, "restore")
  /\ ifl' = TRUE
  /\ GoTo(Main, "report")
  /\ UNCHANGED <<cpu, printing, hpc, lockVars, ticks, irq, isr, schedVars, args, call>>

MainStep ==
  \/ PicInit \/ EnableInterrupts
  \/ SchedulerInitLock \/ SchedulerInitStore \/ SchedulerInitUnlock
  \/ SpawnLock \/ SpawnPush \/ SpawnUnlock
  \/ BeginDiskCall \/ DiskTransfer \/ EndDiskCall

-------------------------------------------------------------------------------
(* The demo tasks: switch_to enters them with interrupts masked, they unmask  *)
(* them and then loop, printing now and then (PrintLock and PrintUnlock).     *)

\* Mutant: a task that does not enable interrupts at its entry.
TaskEnableForgotten(f) ==
  /\ f \in Tasks
  /\ Thread(f, "entry")
  /\ GoTo(f, "loop")
  /\ UNCHANGED <<cpu, ifl, printing, hpc, lockVars, ticks, irq, isr, schedVars, args, call>>

TaskEnable(f) ==
  /\ f \in Tasks
  /\ Thread(f, "entry")
  /\ ifl' = TRUE
  /\ GoTo(f, "loop")
  /\ UNCHANGED <<cpu, printing, hpc, lockVars, ticks, irq, isr, schedVars, args, call>>

-------------------------------------------------------------------------------
(* The timer and timer_interrupt_handler.  The handler runs on the stack of   *)
(* the interrupted flow with interrupts masked.                               *)

\* The timer raises its line; ticks that are not delivered in time merge.
TimerFires ==
  /\ ~irq
  /\ irq' = TRUE
  /\ UNCHANGED <<cpu, ifl, pc, printing, hpc, lockVars, ticks, isr, schedVars, args, call>>

\* The CPU takes the interrupt between two instructions of the running flow.
Interrupt ==
  /\ ifl /\ irq /\ ~isr
  /\ ifl' = FALSE
  /\ irq' = FALSE
  /\ isr' = TRUE
  /\ HandlerGoTo(cpu, "tick_lock")
  /\ UNCHANGED <<cpu, pc, printing, lockVars, ticks, schedVars, args, call>>

TickLock(f) ==
  /\ Handler(f, "tick_lock")
  /\ Acquire("TICKS", f)
  /\ HandlerGoTo(f, "tick_count")
  /\ UNCHANGED <<cpu, ifl, pc, printing, ticks, irq, isr, schedVars, args, call>>

TickCount(f) ==
  /\ Handler(f, "tick_count")
  /\ ticks' = (ticks + 1) % PrintEvery
  /\ HandlerGoTo(f, IF ticks' = 0 THEN "print_lock" ELSE "tick_unlock")
  /\ UNCHANGED <<cpu, ifl, pc, printing, lockVars, irq, isr, schedVars, args, call>>

TickPrintLock(f) ==
  /\ Handler(f, "print_lock")
  /\ Acquire("SERIAL1", f)
  /\ HandlerGoTo(f, "print_unlock")
  /\ UNCHANGED <<cpu, ifl, pc, printing, ticks, irq, isr, schedVars, args, call>>

TickPrintUnlock(f) ==
  /\ Handler(f, "print_unlock")
  /\ Release("SERIAL1")
  /\ HandlerGoTo(f, "tick_unlock")
  /\ UNCHANGED <<cpu, ifl, pc, printing, ticks, irq, isr, schedVars, args, call>>

\* Mutant: the TICKS guard lives to the end of the handler, across the switch.
TickUnlockNever(f) ==
  /\ Handler(f, "tick_unlock")
  /\ HandlerGoTo(f, "eoi_lock")
  /\ UNCHANGED <<cpu, ifl, pc, printing, lockVars, ticks, irq, isr, schedVars, args, call>>

TickUnlock(f) ==
  /\ Handler(f, "tick_unlock")
  /\ Release("TICKS")
  /\ HandlerGoTo(f, "eoi_lock")
  /\ UNCHANGED <<cpu, ifl, pc, printing, ticks, irq, isr, schedVars, args, call>>

EoiLock(f) ==
  /\ Handler(f, "eoi_lock")
  /\ Acquire("PICS", f)
  /\ HandlerGoTo(f, "eoi")
  /\ UNCHANGED <<cpu, ifl, pc, printing, ticks, irq, isr, schedVars, args, call>>

\* Mutant: the end-of-interrupt is left out.
EoiForgotten(f) ==
  /\ Handler(f, "eoi")
  /\ HandlerGoTo(f, "eoi_unlock")
  /\ UNCHANGED <<cpu, ifl, pc, printing, lockVars, ticks, irq, isr, schedVars, args, call>>

\* notify_end_of_interrupt: the controller delivers the next tick from now on.
Eoi(f) ==
  /\ Handler(f, "eoi")
  /\ isr' = FALSE
  /\ HandlerGoTo(f, "eoi_unlock")
  /\ UNCHANGED <<cpu, ifl, pc, printing, lockVars, ticks, irq, schedVars, args, call>>

EoiUnlock(f) ==
  /\ Handler(f, "eoi_unlock")
  /\ Release("PICS")
  /\ HandlerGoTo(f, "sched_lock")
  /\ UNCHANGED <<cpu, ifl, pc, printing, ticks, irq, isr, schedVars, args, call>>

-------------------------------------------------------------------------------
(* scheduler::schedule and switch_to.                                         *)

SchedLock(f) ==
  /\ Handler(f, "sched_lock")
  /\ Acquire("SCHEDULER", f)
  /\ HandlerGoTo(f, "sched_pick")
  /\ UNCHANGED <<cpu, ifl, pc, printing, ticks, irq, isr, schedVars, args, call>>

\* The early returns: no scheduler yet (nctx = 0), or nothing to switch to.
SchedNothing(f) ==
  /\ Handler(f, "sched_pick")
  /\ nctx < 2
  /\ HandlerGoTo(f, "sched_return")
  /\ UNCHANGED <<cpu, ifl, pc, printing, lockVars, ticks, irq, isr, schedVars, args, call>>

\* Mutant: current is not advanced.
SchedPickForgetsCurrent(f) ==
  /\ Handler(f, "sched_pick")
  /\ nctx >= 2
  /\ args' = [from |-> current, to |-> (current + 1) % nctx]
  /\ HandlerGoTo(f, "sched_unlock")
  /\ UNCHANGED <<cpu, ifl, pc, printing, lockVars, ticks, irq, isr, schedVars, call>>

SchedPick(f) ==
  /\ Handler(f, "sched_pick")
  /\ nctx >= 2
  /\ args' = [from |-> current, to |-> (current + 1) % nctx]
  /\ current' = (current + 1) % nctx
  /\ HandlerGoTo(f, "sched_unlock")
  /\ UNCHANGED <<cpu, ifl, pc, printing, lockVars, ticks, irq, isr, nctx, contexts, call>>

\* Mutant: the guard lives until after switch_to.
SchedUnlockLate(f) ==
  /\ Handler(f, "sched_unlock") \/ Handler(f, "sched_return")
  /\ IF hpc[f] = "sched_return" THEN Release("SCHEDULER") ELSE UNCHANGED holder
  /\ HandlerGoTo(f, IF hpc[f] = "sched_return" THEN "iret" ELSE "switch")
  /\ UNCHANGED <<cpu, ifl, pc, printing, ticks, irq, isr, schedVars, args, call>>

\* The guard goes out of scope, on the early returns and before switch_to.
SchedUnlock(f) ==
  /\ Handler(f, "sched_unlock") \/ Handler(f, "sched_return")
  /\ Release("SCHEDULER")
  /\ HandlerGoTo(f, IF hpc[f] = "sched_return" THEN "iret" ELSE "switch")
  /\ UNCHANGED <<cpu, ifl, pc, printing, ticks, irq, isr, schedVars, args, call>>

\* switch_to stores rsp in *current_ptr and loads it from *next_ptr.  The flow
\* left behind will come back in its handler frame, at the return of switch_to;
\* the flow switched to continues from there, or at its entry with interrupts
\* still masked when it has never run.
Switch(f) ==
  /\ Handler(f, "switch")
  /\ contexts' = [contexts EXCEPT ![args.from] = f]
  /\ cpu' = contexts'[args.to]
  /\ args' = NoArgs
  /\ HandlerGoTo(f, "iret")
  /\ UNCHANGED <<ifl, pc, printing, lockVars, ticks, irq, isr, nctx, current, call>>

\* iretq restores the flags of the interrupted code, which had interrupts on.
Iret(f) ==
  /\ Handler(f, "iret")
  /\ ifl' = TRUE
  /\ HandlerGoTo(f, "none")
  /\ UNCHANGED <<cpu, pc, printing, lockVars, ticks, irq, isr, schedVars, args, call>>

HandlerStep(f) ==
  \/ TickLock(f) \/ TickCount(f) \/ TickPrintLock(f) \/ TickPrintUnlock(f)
  \/ TickUnlock(f) \/ EoiLock(f) \/ Eoi(f) \/ EoiUnlock(f)
  \/ SchedLock(f) \/ SchedNothing(f) \/ SchedPick(f) \/ SchedUnlock(f)
  \/ Switch(f) \/ Iret(f)

Next ==
  \/ MainStep
  \/ TimerFires
  \/ Interrupt
  \/ \E f \in Flows :
       \/ PrintLock(f)
       \/ PrintUnlock(f)
       \/ TaskEnable(f)
       \/ HandlerStep(f)

Spec == Init /\ [][Next]_vars

(***************************************************************************)
(* Fairness.  The CPU executes: the handler's steps and a task's first     *)
(* instruction happen once they can (nothing can take the CPU from them).  *)
(* The timer keeps firing and a pending tick is taken.  The own code of a  *)
(* flow is interrupted again and again, so weak fairness says nothing of   *)
(* it; a tick lasts millions of instructions, so a step that is possible   *)
(* in infinitely many of the flow's turns is taken: strong fairness.       *)
(* Nothing says that a task ever prints.                                   *)
(***************************************************************************)
Fairness ==
  /\ WF_vars(TimerFires)
  /\ WF_vars(Interrupt)
  /\ SF_vars(MainStep)
  /\ SF_vars(PrintLock(Main))
  /\ \A f \in Flows : /\ WF_vars(HandlerStep(f))
                      /\ WF_vars(TaskEnable(f))
                      /\ SF_vars(PrintUnlock(f))

FairSpec == Spec /\ Fairness

-------------------------------------------------------------------------------
(* Properties.                                                                *)

\* Every variable has its type; in particular the CPU never loads the empty
\* context and current stays an index of contexts.
TypeOK ==
  /\ cpu \in Flows
  /\ ifl \in BOOLEAN
  /\ pc \in [Flows -> MainLabels \cup TaskLabels]
  /\ printing \in [Flows -> BOOLEAN]
  /\ hpc \in [Flows -> HandlerLabels]
  /\ holder \in [Locks -> Flows \cup {Free}]
  /\ ticks \in 0 .. PrintEvery - 1
  /\ irq \in BOOLEAN
  /\ isr \in BOOLEAN
  /\ nctx \in 0 .. NTasks + 1
  /\ contexts \in [Flows -> Flows \cup {NoStack}]
  /\ current \in Flows
  /\ args \in [from : Flows \cup {NoStack}, to : Flows \cup {NoStack}]
  /\ call \in 0 .. LastCall

\* The warning of schedule(): when switch_to runs, none of the locks the
\* handler takes on every tick is held by anyone, so that the flow switched to
\* can be preempted in its turn.
SwitchHoldsNoLock ==
  hpc[cpu] = "switch" =>
    \A l \in {"TICKS", "PICS", "SCHEDULER"} : holder[l] = Free

\* The saved contexts and the CPU agree: the slot of every registered flow that
\* is not on the CPU holds that flow's own stack, and outside the window
\* between choosing the next flow and switching to it, current is the flow that
\* runs.  A slot that is wrong shows only at the next turn of that flow.
SavedStacksMatch ==
  /\ \A f \in Flows : (f < nctx /\ f # cpu) => contexts[f] = f
  /\ hpc[cpu] \notin Picked => current = cpu
  /\ hpc[cpu] \in Picked => args.from = cpu /\ args.to = current

\* The end-of-interrupt is sent before the CPU leaves the handler in any way,
\* by iretq or by switch_to: a tick stays in service only while the handler is
\* before its EOI on the stack the CPU is on.
InServiceOnlyBeforeEoi == isr => hpc[cpu] \in BeforeEoi

\* The interrupt flag is what the code at the top of the stack expects: on in
\* every flow's own code except where it is masked on purpose, off in the
\* handler, through any number of preemptions.
IfMatchesCode == ifl <=> (hpc[cpu] = "none" /\ pc[cpu] \notin MaskedLabels)

\* The lock the CPU is about to take.
WantedLock ==
  CASE hpc[cpu] = "tick_lock"  -> "TICKS"
    [] hpc[cpu] = "print_lock" -> "SERIAL1"
    [] hpc[cpu] = "eoi_lock"   -> "PICS"
    [] hpc[cpu] = "sched_lock" -> "SCHEDULER"
    [] hpc[cpu] = "none" /\ pc[cpu] \in {"init_lock", "spawn_lock"} -> "SCHEDULER"
    [] hpc[cpu] = "none" /\ pc[cpu] \in LogLabels /\ ~printing[cpu] -> "SERIAL1"
    [] OTHER -> NoLock

\* The CPU spins with interrupts masked on a lock that somebody holds: the
\* holder will not run again, the kernel is locked up for good.
LockedUp ==
  /\ ~ifl
  /\ WantedLock # NoLock
  /\ holder[WantedLock] # Free

\* The three ways in which this kernel can lock up, and no fourth: the handler
\* prints while a flow is inside _print; a tick interrupts kernel_main while it
\* holds SCHEDULER in init or spawn; format() prints while a preempted task is
\* inside _print.  TICKS and PICS never lock it up.
LocksUpOnlyIn3Ways ==
  LockedUp =>
    \/ /\ hpc[cpu] = "print_lock"
       /\ \E f \in Flows : printing[f] /\ holder["SERIAL1"] = f
    \/ /\ hpc[cpu] = "sched_lock" /\ cpu = Main
       /\ pc[Main] \in SchedulerLabels /\ holder["SCHEDULER"] = Main
    \/ /\ hpc[cpu] = "none" /\ cpu = Main /\ pc[Main] = "format_begin"
       /\ \E f \in Tasks : printing[f] /\ holder["SERIAL1"] = f

\* Round-robin with disk calls that pin the CPU, as RoundRobin states it: every
\* change of the CPU goes to the next flow in spawn order, no change happens
\* inside without_interrupts.
RR == INSTANCE RoundRobin WITH
        Capacity   <- NTasks + 1,
        running    <- cpu,
        registered <- nctx,
        pinned     <- pc[Main] \in DiskLabels

RoundRobinSpec == RR!RRSpec

\* "The simplest fair scheduling": unless the kernel locks up, every flow gets
\* the CPU again and again.
EveryFlowRuns == <>[]LockedUp \/ \A f \in Flows : []<>(cpu = f)

\* What a comment says and the code does not do.

\* interrupts.rs, before schedule(): ticks keep occurring normally while the
\* task switched to runs.  A handler that spins on SERIAL1 takes no more ticks.
TicksKeepOccurring == ~(hpc[cpu] = "print_lock" /\ holder["SERIAL1"] # Free)
===============================================================================
