--------------------------- MODULE KernelProofs ---------------------------
(***************************************************************************)
(* Theorems about the kernel.  First about KernelTasks, for every number   *)
(* of tasks and every print interval: IInv is the inductive invariant they *)
(* all rest on.  Then about KernelPolicy, for all rules, categories and    *)
(* templates: its three ports answer as Guardian, Trust and Grants do, and *)
(* take only their steps.                                                  *)
(***************************************************************************)
EXTENDS KernelTasks, KernelPolicy, TLAPS, WellFoundedInduction

\* Where the handler holds a lock.
TicksHeld == {"tick_count", "print_lock", "print_unlock", "tick_unlock"}
PicsHeld  == {"eoi", "eoi_unlock"}
SchedHeld == {"sched_pick", "sched_return", "sched_unlock"}

\* kernel_main and the tasks each run their own program.
ProgramsOK ==
  /\ pc[Main] \in MainLabels
  /\ \A f \in Tasks : pc[f] \in TaskLabels
  /\ \A f \in Flows : printing[f] => pc[f] \in LogLabels

\* The owner of a lock is where the code holds it, at one of its two levels.
LocksMatch ==
  \A f \in Flows :
    /\ holder["TICKS"] = f <=> hpc[f] \in TicksHeld
    /\ holder["PICS"] = f <=> hpc[f] \in PicsHeld
    /\ holder["SERIAL1"] = f <=> (printing[f] \/ hpc[f] = "print_unlock")
    /\ holder["SCHEDULER"] = f <=>
         ((f = Main /\ pc[Main] \in SchedulerLabels) \/ hpc[f] \in SchedHeld)
    /\ ~(printing[f] /\ hpc[f] = "print_unlock")
    /\ ~(f = Main /\ pc[Main] \in SchedulerLabels /\ hpc[f] \in SchedHeld)

\* A flow the CPU is not on waits at the return of switch_to, with its slot
\* registered, or is a task that has not run yet.
SuspendedOK ==
  \A f \in Flows : f # cpu =>
    \/ hpc[f] = "iret" /\ f < nctx
    \/ hpc[f] = "none" /\ pc[f] = "entry"

\* Only code with interrupts on is ever interrupted.
InterruptedOK == \A f \in Flows : hpc[f] # "none" => pc[f] \notin MaskedLabels

\* The running flow is registered once there is a second one; the flow chosen
\* is a registered one other than the running flow.
RotationOK ==
  /\ cpu < nctx \/ (cpu = Main /\ nctx = 0)
  /\ hpc[cpu] \in Picked => current < nctx /\ current # cpu

\* The flow chosen is the next one after the running flow.
NextInTurn == hpc[cpu] \in Picked => current = (cpu + 1) % nctx

\* How far kernel_main is: the flows it has registered, the disk calls it has
\* begun.
ProgressOK ==
  /\ pc[Main] \in {"boot", "pic_init", "sti", "log", "init_lock", "init_store"} => nctx = 0
  /\ pc[Main] = "init_unlock" => nctx = 1
  /\ pc[Main] \in {"spawn_lock", "spawn_push"} => nctx \in 1 .. NTasks
  /\ pc[Main] = "spawn_unlock" => nctx \in 2 .. NTasks + 1
  /\ pc[Main] \notin {"cli", "report", "idle"} \cup DiskLabels => call = 0
  /\ pc[Main] = "cli" => call < LastCall

\* kernel_main is never switched out while it holds SCHEDULER.
SpawnAlone == (cpu # Main \/ hpc[Main] = "switch") => pc[Main] \notin SchedulerLabels

\* Once format() has printed, no task is inside _print until it is over.
FormatQuiet ==
  (pc[Main] = "format_end" \/ (pc[Main] = "disk" /\ call = 1)) =>
    \A f \in Tasks : ~printing[f]

IInv ==
  /\ TypeOK
  /\ ProgramsOK
  /\ LocksMatch
  /\ SuspendedOK
  /\ InterruptedOK
  /\ IfMatchesCode
  /\ RotationOK
  /\ SavedStacksMatch
  /\ ProgressOK
  /\ NextInTurn
  /\ SpawnAlone
  /\ FormatQuiet
  /\ InServiceOnlyBeforeEoi

\* Round robin over two flows or more always picks another one.
LEMMA NextIndex ==
  ASSUME NEW c \in Nat, NEW n \in Nat, c < n, 2 <= n
  PROVE  /\ (c + 1) % n \in 0 .. n - 1
         /\ (c + 1) % n # c
<1>1. CASE c + 1 < n
  <2>1. (c + 1) % n = c + 1
    BY <1>1
  <2> QED BY <1>1, <2>1
<1>2. CASE c + 1 = n
  <2>1. (c + 1) % n = 0
    BY <1>2
  <2> QED BY <1>2, <2>1
<1> QED BY <1>1, <1>2

USE KernelAssumption DEF Flows, Tasks, Main, Free, NoStack, Locks, LogLabels, DiskLabels,
  MaskedLabels, SchedulerLabels, MainLabels, TaskLabels, HandlerLabels, BeforeEoi, Picked,
  TicksHeld, PicsHeld, SchedHeld, LastCall

\* One lemma for each action of the kernel: it keeps the invariant.
LEMMA PicInitInv == ASSUME IInv, PicInit PROVE IInv'
<1>1. TypeOK'
  BY DEF PicInit, Thread, GoTo, schedVars, lockVars, IInv, TypeOK
<1>2. LocksMatch'
  BY DEF PicInit, Thread, GoTo, schedVars, lockVars, IInv, TypeOK, LocksMatch
<1>3. /\ ProgramsOK' /\ SuspendedOK' /\ InterruptedOK' /\ IfMatchesCode'
      /\ RotationOK' /\ SavedStacksMatch' /\ ProgressOK' /\ NextInTurn'
      /\ SpawnAlone' /\ FormatQuiet' /\ InServiceOnlyBeforeEoi'
  BY DEF PicInit, Thread, GoTo, schedVars, lockVars, IInv, TypeOK, ProgramsOK,
         SuspendedOK, InterruptedOK, IfMatchesCode, RotationOK, SavedStacksMatch,
         ProgressOK, NextInTurn, SpawnAlone, FormatQuiet, InServiceOnlyBeforeEoi
<1> QED BY <1>1, <1>2, <1>3 DEF IInv

LEMMA EnableInterruptsInv == ASSUME IInv, EnableInterrupts PROVE IInv'
<1>1. TypeOK'
  BY DEF EnableInterrupts, Thread, GoTo, schedVars, lockVars, IInv, TypeOK
<1>2. LocksMatch'
  BY DEF EnableInterrupts, Thread, GoTo, schedVars, lockVars, IInv, TypeOK, LocksMatch
<1>3. /\ ProgramsOK' /\ SuspendedOK' /\ InterruptedOK' /\ IfMatchesCode'
      /\ RotationOK' /\ SavedStacksMatch' /\ ProgressOK' /\ NextInTurn'
      /\ SpawnAlone' /\ FormatQuiet' /\ InServiceOnlyBeforeEoi'
  BY DEF EnableInterrupts, Thread, GoTo, schedVars, lockVars, IInv, TypeOK, ProgramsOK,
         SuspendedOK, InterruptedOK, IfMatchesCode, RotationOK, SavedStacksMatch,
         ProgressOK, NextInTurn, SpawnAlone, FormatQuiet, InServiceOnlyBeforeEoi
<1> QED BY <1>1, <1>2, <1>3 DEF IInv

LEMMA SchedulerInitLockInv == ASSUME IInv, SchedulerInitLock PROVE IInv'
<1>1. TypeOK'
  BY DEF SchedulerInitLock, Thread, Acquire, GoTo, schedVars, IInv, TypeOK
<1>2. LocksMatch'
  BY DEF SchedulerInitLock, Thread, Acquire, GoTo, schedVars, IInv, TypeOK, LocksMatch
<1>3. /\ ProgramsOK' /\ SuspendedOK' /\ InterruptedOK' /\ IfMatchesCode'
      /\ RotationOK' /\ SavedStacksMatch' /\ ProgressOK' /\ NextInTurn'
      /\ SpawnAlone' /\ FormatQuiet' /\ InServiceOnlyBeforeEoi'
  BY DEF SchedulerInitLock, Thread, Acquire, GoTo, schedVars, IInv, TypeOK, ProgramsOK,
         SuspendedOK, InterruptedOK, IfMatchesCode, RotationOK, SavedStacksMatch,
         ProgressOK, NextInTurn, SpawnAlone, FormatQuiet, InServiceOnlyBeforeEoi
<1> QED BY <1>1, <1>2, <1>3 DEF IInv

LEMMA SchedulerInitStoreInv == ASSUME IInv, SchedulerInitStore PROVE IInv'
<1>1. TypeOK'
  BY DEF SchedulerInitStore, Thread, GoTo, lockVars, IInv, TypeOK
<1>2. LocksMatch'
  BY DEF SchedulerInitStore, Thread, GoTo, lockVars, IInv, TypeOK, LocksMatch
<1>3. SuspendedOK'
  BY DEF SchedulerInitStore, Thread, GoTo, lockVars, IInv, TypeOK, SuspendedOK,
         ProgressOK
<1>4. /\ ProgramsOK' /\ InterruptedOK' /\ IfMatchesCode' /\ RotationOK'
      /\ SavedStacksMatch' /\ ProgressOK' /\ NextInTurn' /\ SpawnAlone'
      /\ FormatQuiet' /\ InServiceOnlyBeforeEoi'
  BY DEF SchedulerInitStore, Thread, GoTo, lockVars, IInv, TypeOK, ProgramsOK,
         InterruptedOK, IfMatchesCode, RotationOK, SavedStacksMatch, ProgressOK,
         NextInTurn, SpawnAlone, FormatQuiet, InServiceOnlyBeforeEoi
<1> QED BY <1>1, <1>2, <1>3, <1>4 DEF IInv

LEMMA SchedulerInitUnlockInv == ASSUME IInv, SchedulerInitUnlock PROVE IInv'
<1>1. TypeOK'
  BY DEF SchedulerInitUnlock, Thread, Release, GoTo, schedVars, IInv, TypeOK
<1>2. LocksMatch'
  BY DEF SchedulerInitUnlock, Thread, Release, GoTo, schedVars, IInv, TypeOK, LocksMatch
<1>3. /\ ProgramsOK' /\ SuspendedOK' /\ InterruptedOK' /\ IfMatchesCode'
      /\ RotationOK' /\ SavedStacksMatch' /\ ProgressOK' /\ NextInTurn'
      /\ SpawnAlone' /\ FormatQuiet' /\ InServiceOnlyBeforeEoi'
  BY DEF SchedulerInitUnlock, Thread, Release, GoTo, schedVars, IInv, TypeOK,
         ProgramsOK, SuspendedOK, InterruptedOK, IfMatchesCode, RotationOK,
         SavedStacksMatch, ProgressOK, NextInTurn, SpawnAlone, FormatQuiet,
         InServiceOnlyBeforeEoi
<1> QED BY <1>1, <1>2, <1>3 DEF IInv

LEMMA SpawnLockInv == ASSUME IInv, SpawnLock PROVE IInv'
<1>1. TypeOK'
  BY DEF SpawnLock, Thread, Acquire, GoTo, schedVars, IInv, TypeOK
<1>2. LocksMatch'
  BY DEF SpawnLock, Thread, Acquire, GoTo, schedVars, IInv, TypeOK, LocksMatch
<1>3. /\ ProgramsOK' /\ SuspendedOK' /\ InterruptedOK' /\ IfMatchesCode'
      /\ RotationOK' /\ SavedStacksMatch' /\ ProgressOK' /\ NextInTurn'
      /\ SpawnAlone' /\ FormatQuiet' /\ InServiceOnlyBeforeEoi'
  BY DEF SpawnLock, Thread, Acquire, GoTo, schedVars, IInv, TypeOK, ProgramsOK,
         SuspendedOK, InterruptedOK, IfMatchesCode, RotationOK, SavedStacksMatch,
         ProgressOK, NextInTurn, SpawnAlone, FormatQuiet, InServiceOnlyBeforeEoi
<1> QED BY <1>1, <1>2, <1>3 DEF IInv

LEMMA SpawnPushInv == ASSUME IInv, SpawnPush PROVE IInv'
<1>1. TypeOK'
  BY DEF SpawnPush, Thread, GoTo, lockVars, IInv, TypeOK, ProgressOK
<1>2. LocksMatch'
  BY DEF SpawnPush, Thread, GoTo, lockVars, IInv, TypeOK, LocksMatch
<1>3. /\ ProgramsOK' /\ SuspendedOK' /\ InterruptedOK' /\ IfMatchesCode'
      /\ RotationOK' /\ SavedStacksMatch' /\ ProgressOK' /\ NextInTurn'
      /\ SpawnAlone' /\ FormatQuiet' /\ InServiceOnlyBeforeEoi'
  BY DEF SpawnPush, Thread, GoTo, lockVars, IInv, TypeOK, ProgramsOK, SuspendedOK,
         InterruptedOK, IfMatchesCode, RotationOK, SavedStacksMatch, ProgressOK,
         NextInTurn, SpawnAlone, FormatQuiet, InServiceOnlyBeforeEoi
<1> QED BY <1>1, <1>2, <1>3 DEF IInv

LEMMA SpawnUnlockInv == ASSUME IInv, SpawnUnlock PROVE IInv'
<1>1. TypeOK'
  BY DEF SpawnUnlock, Thread, Release, GoTo, schedVars, IInv, TypeOK
<1>2. LocksMatch'
  BY DEF SpawnUnlock, Thread, Release, GoTo, schedVars, IInv, TypeOK, LocksMatch
<1>3. /\ ProgramsOK' /\ SuspendedOK' /\ InterruptedOK' /\ IfMatchesCode'
      /\ RotationOK' /\ SavedStacksMatch' /\ ProgressOK' /\ NextInTurn'
      /\ SpawnAlone' /\ FormatQuiet' /\ InServiceOnlyBeforeEoi'
  BY DEF SpawnUnlock, Thread, Release, GoTo, schedVars, IInv, TypeOK, ProgramsOK,
         SuspendedOK, InterruptedOK, IfMatchesCode, RotationOK, SavedStacksMatch,
         ProgressOK, NextInTurn, SpawnAlone, FormatQuiet, InServiceOnlyBeforeEoi
<1> QED BY <1>1, <1>2, <1>3 DEF IInv

LEMMA BeginDiskCallInv == ASSUME IInv, BeginDiskCall PROVE IInv'
<1>1. TypeOK'
  <2>1. call' \in 0 .. LastCall
    BY DEF BeginDiskCall, Thread, NextCalls, IInv, TypeOK, ProgressOK
  <2>2. pc' \in [Flows -> MainLabels \cup TaskLabels]
    BY DEF BeginDiskCall, GoTo, IInv, TypeOK
  <2> QED
    BY <2>1, <2>2 DEF BeginDiskCall, lockVars, schedVars, IInv, TypeOK
<1>2. LocksMatch'
  BY DEF BeginDiskCall, Thread, GoTo, NextCalls, schedVars, lockVars, IInv, TypeOK,
         LocksMatch
<1>3. /\ ProgramsOK' /\ SuspendedOK' /\ InterruptedOK' /\ IfMatchesCode'
      /\ RotationOK' /\ SavedStacksMatch' /\ ProgressOK' /\ NextInTurn'
      /\ SpawnAlone' /\ FormatQuiet' /\ InServiceOnlyBeforeEoi'
  BY DEF BeginDiskCall, Thread, GoTo, NextCalls, schedVars, lockVars, IInv, TypeOK,
         ProgramsOK, SuspendedOK, InterruptedOK, IfMatchesCode, RotationOK,
         SavedStacksMatch, ProgressOK, NextInTurn, SpawnAlone, FormatQuiet,
         InServiceOnlyBeforeEoi
<1> QED BY <1>1, <1>2, <1>3 DEF IInv

LEMMA DiskTransferInv == ASSUME IInv, DiskTransfer PROVE IInv'
<1>1. TypeOK'
  BY DEF DiskTransfer, Thread, GoTo, schedVars, lockVars, IInv, TypeOK
<1>2. LocksMatch'
  BY DEF DiskTransfer, Thread, GoTo, schedVars, lockVars, IInv, TypeOK, LocksMatch
<1>3. /\ ProgramsOK' /\ SuspendedOK' /\ InterruptedOK' /\ IfMatchesCode'
      /\ RotationOK' /\ SavedStacksMatch' /\ ProgressOK' /\ NextInTurn'
      /\ SpawnAlone' /\ FormatQuiet' /\ InServiceOnlyBeforeEoi'
  BY DEF DiskTransfer, Thread, GoTo, schedVars, lockVars, IInv, TypeOK, ProgramsOK,
         SuspendedOK, InterruptedOK, IfMatchesCode, RotationOK, SavedStacksMatch,
         ProgressOK, NextInTurn, SpawnAlone, FormatQuiet, InServiceOnlyBeforeEoi
<1> QED BY <1>1, <1>2, <1>3 DEF IInv

LEMMA EndDiskCallInv == ASSUME IInv, EndDiskCall PROVE IInv'
<1>1. TypeOK'
  BY DEF EndDiskCall, Thread, GoTo, schedVars, lockVars, IInv, TypeOK
<1>2. LocksMatch'
  BY DEF EndDiskCall, Thread, GoTo, schedVars, lockVars, IInv, TypeOK, LocksMatch
<1>3. /\ ProgramsOK' /\ SuspendedOK' /\ InterruptedOK' /\ IfMatchesCode'
      /\ RotationOK' /\ SavedStacksMatch' /\ ProgressOK' /\ NextInTurn'
      /\ SpawnAlone' /\ FormatQuiet' /\ InServiceOnlyBeforeEoi'
  BY DEF EndDiskCall, Thread, GoTo, schedVars, lockVars, IInv, TypeOK, ProgramsOK,
         SuspendedOK, InterruptedOK, IfMatchesCode, RotationOK, SavedStacksMatch,
         ProgressOK, NextInTurn, SpawnAlone, FormatQuiet, InServiceOnlyBeforeEoi
<1> QED BY <1>1, <1>2, <1>3 DEF IInv

LEMMA TimerFiresInv == ASSUME IInv, TimerFires PROVE IInv'
<1>1. TypeOK'
  BY DEF TimerFires, schedVars, lockVars, IInv, TypeOK
<1>2. LocksMatch'
  BY DEF TimerFires, schedVars, lockVars, IInv, TypeOK, LocksMatch
<1>3. /\ ProgramsOK' /\ SuspendedOK' /\ InterruptedOK' /\ IfMatchesCode'
      /\ RotationOK' /\ SavedStacksMatch' /\ ProgressOK' /\ NextInTurn'
      /\ SpawnAlone' /\ FormatQuiet' /\ InServiceOnlyBeforeEoi'
  BY DEF TimerFires, schedVars, lockVars, IInv, TypeOK, ProgramsOK, SuspendedOK,
         InterruptedOK, IfMatchesCode, RotationOK, SavedStacksMatch, ProgressOK,
         NextInTurn, SpawnAlone, FormatQuiet, InServiceOnlyBeforeEoi
<1> QED BY <1>1, <1>2, <1>3 DEF IInv

LEMMA InterruptInv == ASSUME IInv, Interrupt PROVE IInv'
<1>1. TypeOK'
  BY DEF Interrupt, HandlerGoTo, schedVars, lockVars, IInv, TypeOK
<1>2. LocksMatch'
  BY DEF Interrupt, HandlerGoTo, schedVars, lockVars, IInv, TypeOK, LocksMatch,
         IfMatchesCode
<1>3. InterruptedOK'
  BY DEF Interrupt, HandlerGoTo, schedVars, lockVars, IInv, TypeOK, InterruptedOK,
         IfMatchesCode
<1>4. SavedStacksMatch'
  BY DEF Interrupt, HandlerGoTo, schedVars, lockVars, IInv, TypeOK, SavedStacksMatch,
         IfMatchesCode
<1>5. /\ ProgramsOK' /\ SuspendedOK' /\ IfMatchesCode' /\ RotationOK'
      /\ ProgressOK' /\ NextInTurn' /\ SpawnAlone' /\ FormatQuiet'
      /\ InServiceOnlyBeforeEoi'
  BY DEF Interrupt, HandlerGoTo, schedVars, lockVars, IInv, TypeOK, ProgramsOK,
         SuspendedOK, IfMatchesCode, RotationOK, ProgressOK, NextInTurn, SpawnAlone,
         FormatQuiet, InServiceOnlyBeforeEoi
<1> QED BY <1>1, <1>2, <1>3, <1>4, <1>5 DEF IInv

LEMMA PrintLockInv == ASSUME IInv, NEW f \in Flows, PrintLock(f) PROVE IInv'
<1>1. TypeOK'
  BY DEF PrintLock, Thread, Acquire, schedVars, IInv, TypeOK
<1>2. LocksMatch'
  BY DEF PrintLock, Thread, Acquire, schedVars, IInv, TypeOK, LocksMatch
<1>3. FormatQuiet'
  BY DEF PrintLock, Thread, Acquire, schedVars, IInv, TypeOK, FormatQuiet,
         InterruptedOK, SuspendedOK
<1>4. /\ ProgramsOK' /\ SuspendedOK' /\ InterruptedOK' /\ IfMatchesCode'
      /\ RotationOK' /\ SavedStacksMatch' /\ ProgressOK' /\ NextInTurn'
      /\ SpawnAlone' /\ InServiceOnlyBeforeEoi'
  BY DEF PrintLock, Thread, Acquire, schedVars, IInv, TypeOK, ProgramsOK, SuspendedOK,
         InterruptedOK, IfMatchesCode, RotationOK, SavedStacksMatch, ProgressOK,
         NextInTurn, SpawnAlone, InServiceOnlyBeforeEoi
<1> QED BY <1>1, <1>2, <1>3, <1>4 DEF IInv

LEMMA PrintUnlockInv == ASSUME IInv, NEW f \in Flows, PrintUnlock(f) PROVE IInv'
<1>1. TypeOK'
  BY DEF PrintUnlock, Release, GoTo, AfterPrint, schedVars, IInv, TypeOK
<1>2. LocksMatch'
  BY DEF PrintUnlock, Release, GoTo, AfterPrint, schedVars, IInv, TypeOK, LocksMatch,
         ProgramsOK
<1>3. IfMatchesCode'
  BY DEF PrintUnlock, Release, GoTo, AfterPrint, schedVars, IInv, TypeOK,
         IfMatchesCode, ProgramsOK
<1>4. ProgressOK'
  BY DEF PrintUnlock, Release, GoTo, AfterPrint, schedVars, IInv, TypeOK, ProgressOK,
         ProgramsOK
<1>5. FormatQuiet'
  BY DEF PrintUnlock, Release, GoTo, AfterPrint, schedVars, IInv, TypeOK, FormatQuiet,
         LocksMatch
<1>6. /\ ProgramsOK' /\ SuspendedOK' /\ InterruptedOK' /\ RotationOK'
      /\ SavedStacksMatch' /\ NextInTurn' /\ SpawnAlone' /\ InServiceOnlyBeforeEoi'
  BY DEF PrintUnlock, Release, GoTo, AfterPrint, schedVars, IInv, TypeOK, ProgramsOK,
         SuspendedOK, InterruptedOK, RotationOK, SavedStacksMatch, NextInTurn,
         SpawnAlone, InServiceOnlyBeforeEoi
<1> QED BY <1>1, <1>2, <1>3, <1>4, <1>5, <1>6 DEF IInv

LEMMA TaskEnableInv == ASSUME IInv, NEW f \in Flows, TaskEnable(f) PROVE IInv'
<1>1. TypeOK'
  BY DEF TaskEnable, Thread, GoTo, schedVars, lockVars, IInv, TypeOK
<1>2. LocksMatch'
  BY DEF TaskEnable, Thread, GoTo, schedVars, lockVars, IInv, TypeOK, LocksMatch
<1>3. /\ ProgramsOK' /\ SuspendedOK' /\ InterruptedOK' /\ IfMatchesCode'
      /\ RotationOK' /\ SavedStacksMatch' /\ ProgressOK' /\ NextInTurn'
      /\ SpawnAlone' /\ FormatQuiet' /\ InServiceOnlyBeforeEoi'
  BY DEF TaskEnable, Thread, GoTo, schedVars, lockVars, IInv, TypeOK, ProgramsOK,
         SuspendedOK, InterruptedOK, IfMatchesCode, RotationOK, SavedStacksMatch,
         ProgressOK, NextInTurn, SpawnAlone, FormatQuiet, InServiceOnlyBeforeEoi
<1> QED BY <1>1, <1>2, <1>3 DEF IInv

LEMMA TickLockInv == ASSUME IInv, NEW f \in Flows, TickLock(f) PROVE IInv'
<1>1. TypeOK'
  BY DEF TickLock, Handler, Acquire, HandlerGoTo, schedVars, IInv, TypeOK
<1>2. LocksMatch'
  BY DEF TickLock, Handler, Acquire, HandlerGoTo, schedVars, IInv, TypeOK, LocksMatch
<1>3. /\ ProgramsOK' /\ SuspendedOK' /\ InterruptedOK' /\ IfMatchesCode'
      /\ RotationOK' /\ SavedStacksMatch' /\ ProgressOK' /\ NextInTurn'
      /\ SpawnAlone' /\ FormatQuiet' /\ InServiceOnlyBeforeEoi'
  BY DEF TickLock, Handler, Acquire, HandlerGoTo, schedVars, IInv, TypeOK, ProgramsOK,
         SuspendedOK, InterruptedOK, IfMatchesCode, RotationOK, SavedStacksMatch,
         ProgressOK, NextInTurn, SpawnAlone, FormatQuiet, InServiceOnlyBeforeEoi
<1> QED BY <1>1, <1>2, <1>3 DEF IInv

LEMMA TickCountInv == ASSUME IInv, NEW f \in Flows, TickCount(f) PROVE IInv'
<1>1. TypeOK'
  BY DEF TickCount, Handler, HandlerGoTo, schedVars, lockVars, IInv, TypeOK
<1>2. LocksMatch'
  BY DEF TickCount, Handler, HandlerGoTo, schedVars, lockVars, IInv, TypeOK, LocksMatch
<1>3. /\ ProgramsOK' /\ SuspendedOK' /\ InterruptedOK' /\ IfMatchesCode'
      /\ RotationOK' /\ SavedStacksMatch' /\ ProgressOK' /\ NextInTurn'
      /\ SpawnAlone' /\ FormatQuiet' /\ InServiceOnlyBeforeEoi'
  BY DEF TickCount, Handler, HandlerGoTo, schedVars, lockVars, IInv, TypeOK,
         ProgramsOK, SuspendedOK, InterruptedOK, IfMatchesCode, RotationOK,
         SavedStacksMatch, ProgressOK, NextInTurn, SpawnAlone, FormatQuiet,
         InServiceOnlyBeforeEoi
<1> QED BY <1>1, <1>2, <1>3 DEF IInv

LEMMA TickPrintLockInv == ASSUME IInv, NEW f \in Flows, TickPrintLock(f) PROVE IInv'
<1>1. TypeOK'
  BY DEF TickPrintLock, Handler, Acquire, HandlerGoTo, schedVars, IInv, TypeOK
<1>2. LocksMatch'
  BY DEF TickPrintLock, Handler, Acquire, HandlerGoTo, schedVars, IInv, TypeOK,
         LocksMatch
<1>3. /\ ProgramsOK' /\ SuspendedOK' /\ InterruptedOK' /\ IfMatchesCode'
      /\ RotationOK' /\ SavedStacksMatch' /\ ProgressOK' /\ NextInTurn'
      /\ SpawnAlone' /\ FormatQuiet' /\ InServiceOnlyBeforeEoi'
  BY DEF TickPrintLock, Handler, Acquire, HandlerGoTo, schedVars, IInv, TypeOK,
         ProgramsOK, SuspendedOK, InterruptedOK, IfMatchesCode, RotationOK,
         SavedStacksMatch, ProgressOK, NextInTurn, SpawnAlone, FormatQuiet,
         InServiceOnlyBeforeEoi
<1> QED BY <1>1, <1>2, <1>3 DEF IInv

LEMMA TickPrintUnlockInv == ASSUME IInv, NEW f \in Flows, TickPrintUnlock(f) PROVE IInv'
<1>1. TypeOK'
  BY DEF TickPrintUnlock, Handler, Release, HandlerGoTo, schedVars, IInv, TypeOK
<1>2. LocksMatch'
  BY DEF TickPrintUnlock, Handler, Release, HandlerGoTo, schedVars, IInv, TypeOK,
         LocksMatch
<1>3. /\ ProgramsOK' /\ SuspendedOK' /\ InterruptedOK' /\ IfMatchesCode'
      /\ RotationOK' /\ SavedStacksMatch' /\ ProgressOK' /\ NextInTurn'
      /\ SpawnAlone' /\ FormatQuiet' /\ InServiceOnlyBeforeEoi'
  BY DEF TickPrintUnlock, Handler, Release, HandlerGoTo, schedVars, IInv, TypeOK,
         ProgramsOK, SuspendedOK, InterruptedOK, IfMatchesCode, RotationOK,
         SavedStacksMatch, ProgressOK, NextInTurn, SpawnAlone, FormatQuiet,
         InServiceOnlyBeforeEoi
<1> QED BY <1>1, <1>2, <1>3 DEF IInv

LEMMA TickUnlockInv == ASSUME IInv, NEW f \in Flows, TickUnlock(f) PROVE IInv'
<1>1. TypeOK'
  BY DEF TickUnlock, Handler, Release, HandlerGoTo, schedVars, IInv, TypeOK
<1>2. LocksMatch'
  BY DEF TickUnlock, Handler, Release, HandlerGoTo, schedVars, IInv, TypeOK, LocksMatch
<1>3. /\ ProgramsOK' /\ SuspendedOK' /\ InterruptedOK' /\ IfMatchesCode'
      /\ RotationOK' /\ SavedStacksMatch' /\ ProgressOK' /\ NextInTurn'
      /\ SpawnAlone' /\ FormatQuiet' /\ InServiceOnlyBeforeEoi'
  BY DEF TickUnlock, Handler, Release, HandlerGoTo, schedVars, IInv, TypeOK,
         ProgramsOK, SuspendedOK, InterruptedOK, IfMatchesCode, RotationOK,
         SavedStacksMatch, ProgressOK, NextInTurn, SpawnAlone, FormatQuiet,
         InServiceOnlyBeforeEoi
<1> QED BY <1>1, <1>2, <1>3 DEF IInv

LEMMA EoiLockInv == ASSUME IInv, NEW f \in Flows, EoiLock(f) PROVE IInv'
<1>1. TypeOK'
  BY DEF EoiLock, Handler, Acquire, HandlerGoTo, schedVars, IInv, TypeOK
<1>2. LocksMatch'
  BY DEF EoiLock, Handler, Acquire, HandlerGoTo, schedVars, IInv, TypeOK, LocksMatch
<1>3. /\ ProgramsOK' /\ SuspendedOK' /\ InterruptedOK' /\ IfMatchesCode'
      /\ RotationOK' /\ SavedStacksMatch' /\ ProgressOK' /\ NextInTurn'
      /\ SpawnAlone' /\ FormatQuiet' /\ InServiceOnlyBeforeEoi'
  BY DEF EoiLock, Handler, Acquire, HandlerGoTo, schedVars, IInv, TypeOK, ProgramsOK,
         SuspendedOK, InterruptedOK, IfMatchesCode, RotationOK, SavedStacksMatch,
         ProgressOK, NextInTurn, SpawnAlone, FormatQuiet, InServiceOnlyBeforeEoi
<1> QED BY <1>1, <1>2, <1>3 DEF IInv

LEMMA EoiInv == ASSUME IInv, NEW f \in Flows, Eoi(f) PROVE IInv'
<1>1. TypeOK'
  BY DEF Eoi, Handler, HandlerGoTo, schedVars, lockVars, IInv, TypeOK
<1>2. LocksMatch'
  BY DEF Eoi, Handler, HandlerGoTo, schedVars, lockVars, IInv, TypeOK, LocksMatch
<1>3. /\ ProgramsOK' /\ SuspendedOK' /\ InterruptedOK' /\ IfMatchesCode'
      /\ RotationOK' /\ SavedStacksMatch' /\ ProgressOK' /\ NextInTurn'
      /\ SpawnAlone' /\ FormatQuiet' /\ InServiceOnlyBeforeEoi'
  BY DEF Eoi, Handler, HandlerGoTo, schedVars, lockVars, IInv, TypeOK, ProgramsOK,
         SuspendedOK, InterruptedOK, IfMatchesCode, RotationOK, SavedStacksMatch,
         ProgressOK, NextInTurn, SpawnAlone, FormatQuiet, InServiceOnlyBeforeEoi
<1> QED BY <1>1, <1>2, <1>3 DEF IInv

LEMMA EoiUnlockInv == ASSUME IInv, NEW f \in Flows, EoiUnlock(f) PROVE IInv'
<1>1. TypeOK'
  BY DEF EoiUnlock, Handler, Release, HandlerGoTo, schedVars, IInv, TypeOK
<1>2. LocksMatch'
  BY DEF EoiUnlock, Handler, Release, HandlerGoTo, schedVars, IInv, TypeOK, LocksMatch
<1>3. /\ ProgramsOK' /\ SuspendedOK' /\ InterruptedOK' /\ IfMatchesCode'
      /\ RotationOK' /\ SavedStacksMatch' /\ ProgressOK' /\ NextInTurn'
      /\ SpawnAlone' /\ FormatQuiet' /\ InServiceOnlyBeforeEoi'
  BY DEF EoiUnlock, Handler, Release, HandlerGoTo, schedVars, IInv, TypeOK, ProgramsOK,
         SuspendedOK, InterruptedOK, IfMatchesCode, RotationOK, SavedStacksMatch,
         ProgressOK, NextInTurn, SpawnAlone, FormatQuiet, InServiceOnlyBeforeEoi
<1> QED BY <1>1, <1>2, <1>3 DEF IInv

LEMMA SchedLockInv == ASSUME IInv, NEW f \in Flows, SchedLock(f) PROVE IInv'
<1>1. TypeOK'
  BY DEF SchedLock, Handler, Acquire, HandlerGoTo, schedVars, IInv, TypeOK
<1>2. LocksMatch'
  BY DEF SchedLock, Handler, Acquire, HandlerGoTo, schedVars, IInv, TypeOK, LocksMatch
<1>3. /\ ProgramsOK' /\ SuspendedOK' /\ InterruptedOK' /\ IfMatchesCode'
      /\ RotationOK' /\ SavedStacksMatch' /\ ProgressOK' /\ NextInTurn'
      /\ SpawnAlone' /\ FormatQuiet' /\ InServiceOnlyBeforeEoi'
  BY DEF SchedLock, Handler, Acquire, HandlerGoTo, schedVars, IInv, TypeOK, ProgramsOK,
         SuspendedOK, InterruptedOK, IfMatchesCode, RotationOK, SavedStacksMatch,
         ProgressOK, NextInTurn, SpawnAlone, FormatQuiet, InServiceOnlyBeforeEoi
<1> QED BY <1>1, <1>2, <1>3 DEF IInv

LEMMA SchedNothingInv == ASSUME IInv, NEW f \in Flows, SchedNothing(f) PROVE IInv'
<1>1. TypeOK'
  BY DEF SchedNothing, Handler, HandlerGoTo, schedVars, lockVars, IInv, TypeOK
<1>2. LocksMatch'
  BY DEF SchedNothing, Handler, HandlerGoTo, schedVars, lockVars, IInv, TypeOK,
         LocksMatch
<1>3. /\ ProgramsOK' /\ SuspendedOK' /\ InterruptedOK' /\ IfMatchesCode'
      /\ RotationOK' /\ SavedStacksMatch' /\ ProgressOK' /\ NextInTurn'
      /\ SpawnAlone' /\ FormatQuiet' /\ InServiceOnlyBeforeEoi'
  BY DEF SchedNothing, Handler, HandlerGoTo, schedVars, lockVars, IInv, TypeOK,
         ProgramsOK, SuspendedOK, InterruptedOK, IfMatchesCode, RotationOK,
         SavedStacksMatch, ProgressOK, NextInTurn, SpawnAlone, FormatQuiet,
         InServiceOnlyBeforeEoi
<1> QED BY <1>1, <1>2, <1>3 DEF IInv

LEMMA SchedPickInv == ASSUME IInv, NEW f \in Flows, SchedPick(f) PROVE IInv'
<1>1. TypeOK'
  BY DEF SchedPick, Handler, HandlerGoTo, lockVars, IInv, TypeOK
<1>2. LocksMatch'
  BY DEF SchedPick, Handler, HandlerGoTo, lockVars, IInv, TypeOK, LocksMatch
<1>3. RotationOK'
  <2>1. cpu = f /\ current = f /\ f < nctx /\ f \in Nat /\ nctx \in Nat /\ 2 <= nctx
    BY DEF SchedPick, Handler, IInv, TypeOK, RotationOK, SavedStacksMatch
  <2>2. (f + 1) % nctx \in 0 .. nctx - 1 /\ (f + 1) % nctx # f
    BY <2>1, NextIndex
  <2>3. cpu' = f /\ nctx' = nctx /\ current' = (f + 1) % nctx
    BY <2>1 DEF SchedPick
  <2> QED
    BY <2>1, <2>2, <2>3 DEF RotationOK
<1>4. NextInTurn'
  BY DEF SchedPick, Handler, HandlerGoTo, lockVars, IInv, TypeOK, NextInTurn,
         SavedStacksMatch
<1>5. /\ ProgramsOK' /\ SuspendedOK' /\ InterruptedOK' /\ IfMatchesCode'
      /\ SavedStacksMatch' /\ ProgressOK' /\ SpawnAlone' /\ FormatQuiet'
      /\ InServiceOnlyBeforeEoi'
  BY DEF SchedPick, Handler, HandlerGoTo, lockVars, IInv, TypeOK, ProgramsOK,
         SuspendedOK, InterruptedOK, IfMatchesCode, SavedStacksMatch, ProgressOK,
         SpawnAlone, FormatQuiet, InServiceOnlyBeforeEoi
<1> QED BY <1>1, <1>2, <1>3, <1>4, <1>5 DEF IInv

LEMMA SchedUnlockInv == ASSUME IInv, NEW f \in Flows, SchedUnlock(f) PROVE IInv'
<1>1. TypeOK'
  BY DEF SchedUnlock, Handler, Release, HandlerGoTo, schedVars, IInv, TypeOK
<1>2. LocksMatch'
  BY DEF SchedUnlock, Handler, Release, HandlerGoTo, schedVars, IInv, TypeOK, LocksMatch
<1>3. SpawnAlone'
  BY DEF SchedUnlock, Handler, Release, HandlerGoTo, schedVars, IInv, TypeOK,
         SpawnAlone, LocksMatch
<1>4. /\ ProgramsOK' /\ SuspendedOK' /\ InterruptedOK' /\ IfMatchesCode'
      /\ RotationOK' /\ SavedStacksMatch' /\ ProgressOK' /\ NextInTurn'
      /\ FormatQuiet' /\ InServiceOnlyBeforeEoi'
  BY DEF SchedUnlock, Handler, Release, HandlerGoTo, schedVars, IInv, TypeOK,
         ProgramsOK, SuspendedOK, InterruptedOK, IfMatchesCode, RotationOK,
         SavedStacksMatch, ProgressOK, NextInTurn, FormatQuiet, InServiceOnlyBeforeEoi
<1> QED BY <1>1, <1>2, <1>3, <1>4 DEF IInv

LEMMA SwitchInv == ASSUME IInv, NEW f \in Flows, Switch(f) PROVE IInv'
<1> DEFINE g == current
<1>1. /\ cpu = f /\ hpc[f] = "switch" /\ args.from = f /\ args.to = g
      /\ g \in Flows /\ g # f /\ g < nctx /\ f < nctx
  BY DEF Switch, Handler, IInv, TypeOK, RotationOK, SavedStacksMatch
<1>2. /\ cpu' = g
      /\ contexts' = [contexts EXCEPT ![f] = f]
      /\ hpc' = [hpc EXCEPT ![f] = "iret"]
      /\ args' = NoArgs
      /\ UNCHANGED <<ifl, pc, printing, holder, ticks, irq, isr, nctx, current, call>>
  BY <1>1 DEF Switch, HandlerGoTo, lockVars, IInv, TypeOK, SavedStacksMatch
<1>3. (hpc[g] = "iret" /\ hpc'[g] = "iret") \/ (hpc[g] = "none" /\ hpc'[g] = "none" /\ pc[g] = "entry")
  BY <1>1, <1>2 DEF IInv, TypeOK, SuspendedOK
<1> HIDE DEF g
<1>4. TypeOK'
  BY <1>1, <1>2 DEF IInv, TypeOK, NoArgs
<1>5. ProgramsOK' /\ ProgressOK' /\ FormatQuiet'
  BY <1>2 DEF IInv, ProgramsOK, ProgressOK, FormatQuiet
<1>6. LocksMatch'
  <2>1. /\ hpc[f] = "switch" /\ hpc' = [hpc EXCEPT ![f] = "iret"]
        /\ holder' = holder /\ printing' = printing /\ pc' = pc
    BY <1>1, <1>2
  <2> QED BY <2>1 DEF IInv, TypeOK, LocksMatch
<1>7. SuspendedOK' /\ InterruptedOK'
  BY <1>1, <1>2, <1>3 DEF IInv, TypeOK, SuspendedOK, InterruptedOK
<1>8. IfMatchesCode'
  BY <1>1, <1>2, <1>3 DEF IInv, IfMatchesCode
<1>9. SavedStacksMatch' /\ RotationOK' /\ NextInTurn'
  <2>1. hpc'[cpu'] \notin Picked
    BY <1>2, <1>3
  <2>2. current' = cpu'
    BY <1>2 DEF g
  <2>3. \A h \in Flows : (h < nctx /\ h # g) => contexts'[h] = h
    BY <1>1, <1>2 DEF IInv, TypeOK, SavedStacksMatch
  <2> QED BY <1>1, <1>2, <2>1, <2>2, <2>3 DEF SavedStacksMatch, RotationOK, NextInTurn
<1>10. SpawnAlone' /\ InServiceOnlyBeforeEoi'
  BY <1>1, <1>2, <1>3 DEF IInv, TypeOK, SpawnAlone, InServiceOnlyBeforeEoi
<1> QED
  BY <1>4, <1>5, <1>6, <1>7, <1>8, <1>9, <1>10 DEF IInv

LEMMA IretInv == ASSUME IInv, NEW f \in Flows, Iret(f) PROVE IInv'
<1>1. TypeOK'
  BY DEF Iret, Handler, HandlerGoTo, schedVars, lockVars, IInv, TypeOK
<1>2. LocksMatch'
  BY DEF Iret, Handler, HandlerGoTo, schedVars, lockVars, IInv, TypeOK, LocksMatch
<1>3. IfMatchesCode'
  BY DEF Iret, Handler, HandlerGoTo, schedVars, lockVars, IInv, TypeOK, IfMatchesCode,
         InterruptedOK
<1>4. /\ ProgramsOK' /\ SuspendedOK' /\ InterruptedOK' /\ RotationOK'
      /\ SavedStacksMatch' /\ ProgressOK' /\ NextInTurn' /\ SpawnAlone'
      /\ FormatQuiet' /\ InServiceOnlyBeforeEoi'
  BY DEF Iret, Handler, HandlerGoTo, schedVars, lockVars, IInv, TypeOK, ProgramsOK,
         SuspendedOK, InterruptedOK, RotationOK, SavedStacksMatch, ProgressOK,
         NextInTurn, SpawnAlone, FormatQuiet, InServiceOnlyBeforeEoi
<1> QED BY <1>1, <1>2, <1>3, <1>4 DEF IInv

LEMMA HandlerStepInv == ASSUME IInv, NEW f \in Flows, HandlerStep(f) PROVE IInv'
BY TickLockInv, TickCountInv, TickPrintLockInv, TickPrintUnlockInv, TickUnlockInv, EoiLockInv,
   EoiInv, EoiUnlockInv, SchedLockInv, SchedNothingInv, SchedPickInv, SchedUnlockInv, SwitchInv,
   IretInv
   DEF HandlerStep

LEMMA StutterInv == ASSUME IInv, UNCHANGED vars PROVE IInv'
<1>1. TypeOK' /\ ProgramsOK'
  BY DEF vars, IInv, TypeOK, ProgramsOK
<1>2. LocksMatch' /\ SuspendedOK' /\ InterruptedOK' /\ IfMatchesCode'
  BY DEF vars, IInv, LocksMatch, SuspendedOK, InterruptedOK, IfMatchesCode
<1>3. RotationOK' /\ SavedStacksMatch' /\ ProgressOK'
  BY DEF vars, IInv, RotationOK, SavedStacksMatch, ProgressOK
<1>4. NextInTurn' /\ SpawnAlone' /\ FormatQuiet' /\ InServiceOnlyBeforeEoi'
  BY DEF vars, IInv, NextInTurn, SpawnAlone, FormatQuiet, InServiceOnlyBeforeEoi
<1> QED BY <1>1, <1>2, <1>3, <1>4 DEF IInv

\* Every step of the kernel keeps the inductive invariant.
LEMMA NextInv == ASSUME IInv, [Next]_vars PROVE IInv'
<1>1. CASE MainStep
  BY <1>1, PicInitInv, EnableInterruptsInv, SchedulerInitLockInv, SchedulerInitStoreInv,
     SchedulerInitUnlockInv, SpawnLockInv, SpawnPushInv, SpawnUnlockInv, BeginDiskCallInv,
     DiskTransferInv, EndDiskCallInv
     DEF MainStep
<1>2. CASE TimerFires
  BY <1>2, TimerFiresInv
<1>3. CASE Interrupt
  BY <1>3, InterruptInv
<1>4. ASSUME NEW f \in Flows, PrintLock(f) \/ PrintUnlock(f) \/ TaskEnable(f) \/ HandlerStep(f)
      PROVE  IInv'
  BY <1>4, PrintLockInv, PrintUnlockInv, TaskEnableInv, HandlerStepInv
<1>5. CASE UNCHANGED vars
  BY <1>5, StutterInv
<1> QED
  BY <1>1, <1>2, <1>3, <1>4, <1>5 DEF Next

LEMMA InitInv == ASSUME Init PROVE IInv
<1>1. /\ pc[Main] = "boot"
      /\ \A f \in Tasks : pc[f] = "entry"
  <2>1. \A f \in Flows : pc[f] = IF f = Main THEN "boot" ELSE "entry"
    BY DEF Init
  <2> QED BY <2>1
<1>2. /\ \A f \in Flows : printing[f] = FALSE /\ hpc[f] = "none"
      /\ \A l \in Locks : holder[l] = Free
  BY DEF Init
<1>3. cpu = Main /\ ifl = FALSE /\ isr = FALSE /\ nctx = 0 /\ current = 0 /\ call = 0
  BY DEF Init
<1>4. TypeOK
  <2>1. pc \in [Flows -> MainLabels \cup TaskLabels]
    BY DEF Init
  <2>2. hpc \in [Flows -> HandlerLabels] /\ printing \in [Flows -> BOOLEAN]
    BY DEF Init
  <2>3. holder \in [Locks -> Flows \cup {Free}] /\ contexts \in [Flows -> Flows \cup {NoStack}]
    BY DEF Init
  <2>4. args \in [from : Flows \cup {NoStack}, to : Flows \cup {NoStack}]
    BY DEF Init, NoArgs
  <2>5. ticks \in 0 .. PrintEvery - 1
    BY DEF Init
  <2>6. ifl \in BOOLEAN /\ irq \in BOOLEAN /\ isr \in BOOLEAN
    BY DEF Init
  <2>7. cpu \in Flows
    BY <1>3
  <2>8. nctx \in 0 .. NTasks + 1 /\ current \in Flows /\ call \in 0 .. LastCall
    BY <1>3
  <2> QED BY <2>1, <2>2, <2>3, <2>4, <2>5, <2>6, <2>7, <2>8 DEF TypeOK
<1>5. ProgramsOK /\ ProgressOK /\ FormatQuiet
  BY <1>1, <1>2, <1>3 DEF ProgramsOK, ProgressOK, FormatQuiet
<1>6. LocksMatch /\ SpawnAlone /\ NextInTurn
  BY <1>1, <1>2, <1>3 DEF LocksMatch, SpawnAlone, NextInTurn
<1>7. SuspendedOK /\ InterruptedOK
  BY <1>1, <1>2, <1>3 DEF SuspendedOK, InterruptedOK
<1>8. IfMatchesCode /\ RotationOK /\ SavedStacksMatch /\ InServiceOnlyBeforeEoi
  BY <1>1, <1>2, <1>3 DEF IfMatchesCode, RotationOK, SavedStacksMatch, InServiceOnlyBeforeEoi
<1> QED BY <1>4, <1>5, <1>6, <1>7, <1>8 DEF IInv

\* The inductive invariant holds in every state the kernel reaches.
THEOREM Invariance == Spec => []IInv
BY InitInv, NextInv, PTL DEF Spec

-------------------------------------------------------------------------------
(* The safety properties of the runs, for every number of tasks.              *)

\* Every variable keeps its type: the CPU never loads the empty context and
\* current stays an index of contexts, however many tasks are spawned.
THEOREM TypeCorrect == Spec => []TypeOK
<1>1. IInv => TypeOK
  BY DEF IInv
<1> QED BY <1>1, Invariance, PTL

\* No lock the handler takes is held by anyone when switch_to runs.
THEOREM LockFreeSwitch == Spec => []SwitchHoldsNoLock
<1>1. IInv => SwitchHoldsNoLock
  <2> SUFFICES ASSUME IInv, hpc[cpu] = "switch",
                      NEW l \in {"TICKS", "PICS", "SCHEDULER"}
               PROVE  holder[l] = Free
    BY DEF SwitchHoldsNoLock
  <2>1. holder[l] \in Flows \cup {Free}
    BY DEF IInv, TypeOK
  <2>2. ASSUME NEW f \in Flows, holder[l] = f PROVE FALSE
    <3>1. f # cpu => hpc[f] \in {"iret", "none"}
      BY DEF IInv, SuspendedOK
    <3>2. f = Main => pc[f] \notin SchedulerLabels
      BY DEF IInv, SpawnAlone
    <3> QED BY <2>2, <3>1, <3>2 DEF IInv, LocksMatch
  <2> QED BY <2>1, <2>2
<1> QED BY <1>1, Invariance, PTL

\* The saved contexts and the CPU agree through any number of switches.
THEOREM SavedStacks == Spec => []SavedStacksMatch
<1>1. IInv => SavedStacksMatch
  BY DEF IInv
<1> QED BY <1>1, Invariance, PTL

\* A flow is never left without ticks because an end-of-interrupt is owed.
THEOREM EoiBeforeLeaving == Spec => []InServiceOnlyBeforeEoi
<1>1. IInv => InServiceOnlyBeforeEoi
  BY DEF IInv
<1> QED BY <1>1, Invariance, PTL

\* The interrupt flag is what the running code expects.
THEOREM InterruptFlag == Spec => []IfMatchesCode
<1>1. IInv => IfMatchesCode
  BY DEF IInv
<1> QED BY <1>1, Invariance, PTL

\* The three ways in which the kernel can lock up are all there are: in
\* particular it never spins for good on TICKS or PICS, and no spawned task can
\* block the scheduler.
THEOREM LockUps == Spec => []LocksUpOnlyIn3Ways
<1>1. ASSUME IInv, LockedUp PROVE LocksUpOnlyIn3Ways
  <2>1. PICK h \in Flows : holder[WantedLock] = h
    <3>1. WantedLock \in Locks \cup {NoLock}
      BY DEF WantedLock
    <3> QED BY <3>1, <1>1 DEF LockedUp, IInv, TypeOK, NoLock
  <2>2. h # cpu => /\ hpc[h] \in {"iret", "none"}
                   /\ hpc[h] = "none" => pc[h] = "entry"
                   /\ h = Main => pc[h] \notin SchedulerLabels
    BY <1>1 DEF IInv, SuspendedOK, SpawnAlone
  <2>3. hpc[cpu] = "none" => pc[cpu] \in MaskedLabels
    BY <1>1 DEF LockedUp, IInv, IfMatchesCode
  <2>4. CASE hpc[cpu] = "tick_lock"
    <3>1. holder["TICKS"] = h
      BY <2>1, <2>4 DEF WantedLock
    <3> QED BY <3>1, <2>2, <2>4, <1>1 DEF IInv, LocksMatch
  <2>5. CASE hpc[cpu] = "print_lock"
    <3>1. holder["SERIAL1"] = h
      BY <2>1, <2>5 DEF WantedLock
    <3>2. printing[h]
      BY <3>1, <2>2, <2>5, <1>1 DEF IInv, LocksMatch
    <3> QED BY <3>1, <3>2, <2>5 DEF LocksUpOnlyIn3Ways
  <2>6. CASE hpc[cpu] = "eoi_lock"
    <3>1. holder["PICS"] = h
      BY <2>1, <2>6 DEF WantedLock
    <3> QED BY <3>1, <2>2, <2>6, <1>1 DEF IInv, LocksMatch
  <2>7. CASE hpc[cpu] = "sched_lock"
    <3>1. holder["SCHEDULER"] = h
      BY <2>1, <2>7 DEF WantedLock
    <3>2. h = Main /\ pc[Main] \in SchedulerLabels
      BY <3>1, <2>2, <2>7, <1>1 DEF IInv, LocksMatch
    <3> QED BY <3>1, <3>2, <2>2, <2>7 DEF LocksUpOnlyIn3Ways
  <2>8. CASE hpc[cpu] = "none"
    <3>1. pc[cpu] \in {"boot", "format_begin", "format_end"} /\ ~printing[cpu]
      BY <2>3, <2>8, <1>1 DEF LockedUp, WantedLock, NoLock
    <3>2. holder["SERIAL1"] = h
      BY <2>1, <2>8, <3>1 DEF WantedLock
    <3>3. h # cpu
      BY <3>1, <3>2, <2>8, <1>1 DEF IInv, LocksMatch
    <3>4. cpu = Main /\ h \in Tasks
      BY <3>1, <3>3, <1>1 DEF IInv, TypeOK, ProgramsOK
    <3>5. printing[h]
      BY <3>2, <3>3, <2>2, <1>1 DEF IInv, LocksMatch
    <3>6. pc[h] # "entry"
      BY <3>5, <1>1 DEF IInv, ProgramsOK
    <3>7. pc[Main] # "boot"
      BY <3>4, <3>3, <3>6, <1>1 DEF IInv, TypeOK, SuspendedOK, ProgressOK
    <3>8. pc[Main] # "format_end"
      BY <3>4, <3>5, <1>1 DEF IInv, FormatQuiet
    <3> QED BY <3>1, <3>2, <3>4, <3>5, <3>7, <3>8, <2>8 DEF LocksUpOnlyIn3Ways
  <2> QED
    BY <2>4, <2>5, <2>6, <2>7, <2>8, <1>1 DEF LockedUp, WantedLock
<1>2. IInv => LocksUpOnlyIn3Ways
  BY <1>1 DEF LocksUpOnlyIn3Ways
<1> QED BY <1>2, Invariance, PTL

\* A locked-up kernel stays locked up: whoever holds the lock never runs again.
\* LockedUp is what the runs and EveryFlowRuns take a hang to be.
THEOREM LockUpIsForEver == Spec => [][LockedUp => LockedUp']_vars
<1>1. ASSUME IInv, LockedUp, [Next]_vars PROVE LockedUp'
  <2>1. /\ ~ifl
        /\ hpc[cpu] \in {"tick_lock", "print_lock", "eoi_lock", "sched_lock", "none"}
        /\ hpc[cpu] = "none" => pc[cpu] \in {"boot", "format_begin", "format_end"} /\ ~printing[cpu]
    BY <1>1 DEF LockedUp, WantedLock, NoLock, IInv, IfMatchesCode
  <2>2. /\ hpc[cpu] = "tick_lock" => holder["TICKS"] # Free
        /\ hpc[cpu] = "print_lock" => holder["SERIAL1"] # Free
        /\ hpc[cpu] = "eoi_lock" => holder["PICS"] # Free
        /\ hpc[cpu] = "sched_lock" => holder["SCHEDULER"] # Free
        /\ hpc[cpu] = "none" => holder["SERIAL1"] # Free
    BY <1>1, <2>1 DEF LockedUp, WantedLock
  <2>3. ~MainStep
    BY <2>1 DEF MainStep, PicInit, EnableInterrupts, SchedulerInitLock, SchedulerInitStore,
                SchedulerInitUnlock, SpawnLock, SpawnPush, SpawnUnlock, BeginDiskCall,
                DiskTransfer, EndDiskCall, Thread
  <2>4. ~Interrupt
    BY <2>1 DEF Interrupt
  <2>5. ASSUME NEW f \in Flows PROVE ~PrintLock(f) /\ ~PrintUnlock(f) /\ ~TaskEnable(f)
    BY <2>1, <2>2 DEF PrintLock, PrintUnlock, TaskEnable, Thread, Acquire
  <2>6. ASSUME NEW f \in Flows PROVE ~HandlerStep(f)
    BY <2>1, <2>2
       DEF HandlerStep, TickLock, TickCount, TickPrintLock, TickPrintUnlock, TickUnlock, EoiLock,
           Eoi, EoiUnlock, SchedLock, SchedNothing, SchedPick, SchedUnlock, Switch, Iret,
           Handler, Acquire
  <2>7. TimerFires \/ UNCHANGED vars
    BY <1>1, <2>3, <2>4, <2>5, <2>6 DEF Next
  <2>8. UNCHANGED <<cpu, ifl, pc, printing, hpc, holder>>
    BY <2>7 DEF TimerFires, vars, lockVars
  <2> QED BY <1>1, <2>8 DEF LockedUp, WantedLock
<1>2. IInv /\ [Next]_vars => [LockedUp => LockedUp']_vars
  BY <1>1
<1> QED BY <1>2, Invariance, PTL DEF Spec

-------------------------------------------------------------------------------
(* The kernel implements RoundRobin.                                          *)

\* Every step of the kernel is a step of RoundRobin or changes nothing it sees:
\* a switch goes to the next registered flow and never happens during a disk
\* call, a registration is scheduler::init or a spawn, a pin the flag of
\* without_interrupts.
THEOREM ImplementsRoundRobin == Spec => RoundRobinSpec
<1>1. Init => RR!RRInit
  BY DEF Init, RR!RRInit
<1>2. ASSUME IInv, [Next]_vars PROVE [RR!RRNext]_(RR!rrVars)
  <2> USE DEF RR!RRNext, RR!rrVars
  <2>1. ASSUME UNCHANGED <<cpu, nctx>>, pc'[Main] \in DiskLabels <=> pc[Main] \in DiskLabels
        PROVE  [RR!RRNext]_(RR!rrVars)
    BY <2>1
  <2>2. ASSUME NEW f \in Flows, Switch(f) PROVE RR!Rotate
    <3>1. cpu = f /\ f \in Nat /\ nctx \in Nat /\ current # cpu /\ current < nctx /\ cpu < nctx
      BY <1>2, <2>2 DEF Switch, Handler, IInv, TypeOK, RotationOK
    <3>2. args.from = f /\ args.to = current
      BY <1>2, <2>2 DEF Switch, Handler, IInv, SavedStacksMatch
    <3>3. current = (cpu + 1) % nctx
      BY <1>2, <2>2 DEF Switch, Handler, IInv, NextInTurn
    <3>4. cpu' = current
      BY <1>2, <2>2, <3>1, <3>2 DEF Switch, IInv, TypeOK, SavedStacksMatch
    <3>5. pc[Main] \notin DiskLabels
      BY <1>2, <2>2 DEF Switch, Handler, IInv, TypeOK, SuspendedOK, InterruptedOK
    <3> QED
      BY <2>2, <3>1, <3>3, <3>4, <3>5 DEF RR!Rotate, Switch
  <2>3. ASSUME NEW f \in Flows, HandlerStep(f), ~Switch(f)
        PROVE  UNCHANGED <<cpu, nctx, pc>>
    BY <2>3
       DEF HandlerStep, TickLock, TickCount, TickPrintLock, TickPrintUnlock, TickUnlock, EoiLock,
           Eoi, EoiUnlock, SchedLock, SchedNothing, SchedPick, SchedUnlock, Iret, schedVars
  <2>4. CASE SchedulerInitStore
    BY <1>2, <2>4 DEF SchedulerInitStore, Thread, GoTo, IInv, TypeOK, ProgressOK, RR!Register
  <2>5. CASE SpawnPush
    BY <1>2, <2>5 DEF SpawnPush, Thread, GoTo, IInv, TypeOK, ProgressOK, RR!Register
  <2>6. CASE BeginDiskCall
    <3>1. pc[Main] \notin DiskLabels /\ pc'[Main] \in DiskLabels /\ cpu = Main
      BY <1>2, <2>6 DEF BeginDiskCall, Thread, GoTo, IInv, TypeOK
    <3> QED BY <3>1, <2>6 DEF BeginDiskCall, schedVars, RR!Pin
  <2>7. CASE EndDiskCall
    <3>1. pc[Main] \in DiskLabels /\ pc'[Main] \notin DiskLabels /\ cpu = Main
      BY <1>2, <2>7 DEF EndDiskCall, Thread, GoTo, IInv, TypeOK
    <3> QED BY <3>1, <2>7 DEF EndDiskCall, schedVars, RR!Pin
  <2>8. CASE PicInit \/ EnableInterrupts \/ SchedulerInitLock \/ SchedulerInitUnlock
             \/ SpawnLock \/ SpawnUnlock \/ DiskTransfer
    <3>1. UNCHANGED <<cpu, nctx>>
      BY <2>8 DEF PicInit, EnableInterrupts, SchedulerInitLock, SchedulerInitUnlock, SpawnLock,
                  SpawnUnlock, DiskTransfer, schedVars
    <3>2. pc'[Main] \in DiskLabels <=> pc[Main] \in DiskLabels
      BY <1>2, <2>8 DEF PicInit, EnableInterrupts, SchedulerInitLock, SchedulerInitUnlock,
                        SpawnLock, SpawnUnlock, DiskTransfer, Thread, GoTo, IInv, TypeOK
    <3> QED BY <3>1, <3>2, <2>1
  <2>9. ASSUME NEW f \in Flows, PrintLock(f) \/ PrintUnlock(f) \/ TaskEnable(f)
        PROVE  [RR!RRNext]_(RR!rrVars)
    <3>1. UNCHANGED <<cpu, nctx>>
      BY <2>9 DEF PrintLock, PrintUnlock, TaskEnable, schedVars
    <3>2. pc'[Main] \in DiskLabels <=> pc[Main] \in DiskLabels
      <4>1. CASE PrintLock(f)
        BY <4>1 DEF PrintLock
      <4>2. CASE PrintUnlock(f)
        BY <4>2, <1>2 DEF PrintUnlock, AfterPrint, GoTo, IInv, TypeOK, ProgramsOK
      <4>3. CASE TaskEnable(f)
        BY <4>3, <1>2 DEF TaskEnable, GoTo, IInv, TypeOK
      <4> QED BY <2>9, <4>1, <4>2, <4>3
    <3> QED BY <3>1, <3>2, <2>1
  <2>10. CASE TimerFires \/ Interrupt \/ UNCHANGED vars
    BY <2>10, <2>1 DEF TimerFires, Interrupt, vars, schedVars
  <2> QED
    BY <1>2, <2>1, <2>2, <2>3, <2>4, <2>5, <2>6, <2>7, <2>8, <2>9, <2>10 DEF Next, MainStep
<1> QED
  BY <1>1, <1>2, Invariance, PTL DEF Spec, RoundRobinSpec, RR!RRSpec

(***************************************************************************)
(* The ports: what their state looks like                                  *)
(***************************************************************************)

Methods ==
  {default_rule_set[i].method : i \in DOMAIN default_rule_set} \union {new[1] : new \in NewRules}

Names == RandomValues \union ({"tsc", "boot"} \X Nat)

Rules ==
  [id : Names, method : Methods, protected : BOOLEAN, active : BOOLEAN,
   false_positive_count : Nat]

PurposeGrants ==
  [template : DOMAIN Templates, granted_capabilities : SUBSET UNION {Templates[t] : t \in DOMAIN Templates},
   status : {"Active", "Dormant"}, last_used_tick : Nat]

RulesTyped == rules \in Seq(Rules) /\ tsc \in Nat
ScoresTyped == DOMAIN scores \subseteq Categories /\ scores \in [DOMAIN scores -> Nat]

\* No grant was used in the future.
GrantsTyped ==
  /\ tick \in Nat /\ DOMAIN grants \subseteq Purposes /\ grants \in [DOMAIN grants -> PurposeGrants]
  /\ \A p \in DOMAIN grants : grants[p].last_used_tick <= tick

PolicyIInv == RulesTyped /\ ScoresTyped /\ GrantsTyped

MethodNames ==
  {"Signature", "BehavioralAnomaly", "SensorThreshold", "ChecksumVerification", "EventLog",
   "AbnormalProcessEvent", "Heartbeat"}

\* Five members of a set are a sequence over it.
LEMMA FiveInSequence ==
  ASSUME NEW S, NEW a \in S, NEW b \in S, NEW c \in S, NEW d \in S, NEW e \in S
  PROVE  <<a, b, c, d, e>> \in Seq(S)
OBVIOUS

\* The first rules are rules, and every method is one of the seven.
LEMMA DefaultRules ==
  /\ default_rule_set \in Seq(Rules)
  /\ \A m \in Methods : m.by \in MethodNames
<1> DEFINE d == default_rule_set
<1>1. d = <<d[1], d[2], d[3], d[4], d[5]>>
  BY DEF default_rule_set
<1>2. /\ d[1] = Named(<<"boot", 1>>, [by |-> "Signature", pattern |-> ".locked"], TRUE)
      /\ d[2] = Named(<<"boot", 2>>, [by |-> "BehavioralAnomaly"], TRUE)
      /\ d[3] = Named(<<"boot", 3>>,
                      [by |-> "SensorThreshold", sensor |-> "cpu_temp_celsius", limit |-> 95], FALSE)
      /\ d[4] = Named(<<"boot", 4>>, [by |-> "ChecksumVerification"], TRUE)
      /\ d[5] = Named(<<"boot", 5>>, [by |-> "Heartbeat", max_missed_beats |-> 3], FALSE)
  BY DEF default_rule_set
<1> HIDE DEF d
<1>3. DOMAIN d = 1 .. 5 /\ \A i \in DOMAIN d : i \in {1, 2, 3, 4, 5}
  BY <1>1
<1>4. ASSUME NEW k \in 1 .. 5, NEW by, NEW protected \in BOOLEAN,
             d[k] = Named(<<"boot", k>>, by, protected)
      PROVE  d[k] \in Rules /\ d[k].method = by
  <2>1. <<"boot", k>> \in Names
    BY DEF Names
  <2>2. d[k] = [id |-> <<"boot", k>>, method |-> by, protected |-> protected,
                active |-> TRUE, false_positive_count |-> 0]
    BY <1>4 DEF Named
  <2>3. d[k].method = by
    BY <2>2
  <2>4. d[k].method \in Methods
    BY <1>3 DEF Methods, d
  <2> QED BY <2>1, <2>2, <2>3, <2>4 DEF Rules
<1>5. /\ d[1] \in Rules /\ d[2] \in Rules /\ d[3] \in Rules /\ d[4] \in Rules /\ d[5] \in Rules
      /\ d[1].method.by \in MethodNames /\ d[2].method.by \in MethodNames
      /\ d[3].method.by \in MethodNames /\ d[4].method.by \in MethodNames
      /\ d[5].method.by \in MethodNames
  <2>0. /\ 1 \in 1 .. 5 /\ 2 \in 1 .. 5 /\ 3 \in 1 .. 5 /\ 4 \in 1 .. 5 /\ 5 \in 1 .. 5
        /\ TRUE \in BOOLEAN /\ FALSE \in BOOLEAN
    OBVIOUS
  <2>1. d[1] \in Rules /\ d[1].method = [by |-> "Signature", pattern |-> ".locked"]
    BY <1>2, <1>4, <2>0, Zenon
  <2>2. d[2] \in Rules /\ d[2].method = [by |-> "BehavioralAnomaly"]
    BY <1>2, <1>4, <2>0, Zenon
  <2> DEFINE hot == [by |-> "SensorThreshold", sensor |-> "cpu_temp_celsius", limit |-> 95]
  <2>3. d[3] \in Rules /\ d[3].method = hot
    <3>1. d[3] = Named(<<"boot", 3>>, hot, FALSE)
      BY <1>2
    <3> HIDE DEF hot
    <3> QED BY <3>1, <1>4, <2>0, Zenon
  <2>4. d[4] \in Rules /\ d[4].method = [by |-> "ChecksumVerification"]
    BY <1>2, <1>4, <2>0, Zenon
  <2> DEFINE beat == [by |-> "Heartbeat", max_missed_beats |-> 3]
  <2>5. d[5] \in Rules /\ d[5].method = beat
    <3>1. d[5] = Named(<<"boot", 5>>, beat, FALSE)
      BY <1>2
    <3> HIDE DEF beat
    <3> QED BY <3>1, <1>4, <2>0, Zenon
  <2> QED BY <2>1, <2>2, <2>3, <2>4, <2>5 DEF MethodNames
<1>6. d \in Seq(Rules)
  <2>1. <<d[1], d[2], d[3], d[4], d[5]>> \in Seq(Rules)
    BY <1>5, FiveInSequence
  <2> QED BY <2>1, <1>1, Zenon
<1>7. ASSUME NEW m \in Methods PROVE m.by \in MethodNames
  <2>1. CASE \E i \in DOMAIN d : m = d[i].method
    BY <1>3, <1>5, <2>1
  <2>2. CASE \E new \in NewRules : m = new[1]
    BY <2>2, PolicyAssumption DEF MethodNames
  <2> QED BY <2>1, <2>2 DEF Methods, d
<1> QED BY <1>6, <1>7 DEF d

\* A set of numbers has a least one.
LEMMA LeastNumber ==
  ASSUME NEW S \in SUBSET Nat, S # {}
  PROVE  Min(S) \in S /\ \A n \in S : Min(S) <= n
<1> DEFINE Below == OpToRel(<, Nat)
<1>1. Below = {ss \in Nat \X Nat : ss[1] < ss[2]}
  BY Zenon DEF OpToRel
<1>2. \E m \in S : \A n \in S : <<n, m>> \notin Below
  BY NatLessThanWellFounded, WFMin
<1> HIDE DEF Below
<1>3. \A m, n \in Nat : <<n, m>> \notin Below => m <= n
  BY <1>1
<1>4. \E m \in S : \A n \in S : m <= n
  BY <1>2, <1>3
<1> QED
  BY <1>4 DEF Min

\* A rule that is asked for by a name some rule has is found.
LEMMA FirstIs ==
  ASSUME RulesTyped, NEW id \in Ids
  PROVE  First(id) \in DOMAIN rules
<1> DEFINE found == {i \in 1 .. Len(rules) : rules[i].id = id}
<1>1. First(id) = IF found # {} THEN Min(found) ELSE 0
  BY DEF First, SelectInSeq
<1>2. Len(rules) \in Nat /\ DOMAIN rules = 1 .. Len(rules)
  BY DEF RulesTyped
<1>3. found # {} /\ found \in SUBSET Nat /\ found \subseteq 1 .. Len(rules)
  BY <1>2 DEF Ids
<1> HIDE DEF found
<1> QED BY <1>1, <1>2, <1>3, LeastNumber

(***************************************************************************)
(* The inductive invariant                                                 *)
(***************************************************************************)

\* A rule after a false alarm is one.
LEMMA AlarmedIs ==
  ASSUME NEW rule \in Rules
  PROVE  Alarmed(rule) \in Rules
<1> DEFINE count == rule.false_positive_count + 1
           on == rule.active /\ (rule.protected \/ count < RelaxThreshold)
<1>1. Alarmed(rule) = [rule EXCEPT !.false_positive_count = count, !.active = on]
  BY Zenon DEF Alarmed
<1>2. count \in Nat /\ on \in BOOLEAN
  BY DEF Rules
<1> HIDE DEF count, on
<1> QED BY <1>1, <1>2 DEF Rules

\* Whatever the ports do, their rules, scores and grants keep their types.
LEMMA RulesStay ==
  ASSUME RulesTyped, PolicyNext
  PROVE  RulesTyped'
<1>1. Len(rules) \in Nat /\ DOMAIN rules = 1 .. Len(rules) /\ \A i \in DOMAIN rules : rules[i] \in Rules
  BY DEF RulesTyped
<1>2. CASE AddRule
  <2> USE <1>2
  <2>1. PICK new \in NewRules, id \in RandomValues \union {<<"tsc", tsc>>} :
          Random(id) /\ rules' = Append(rules, Named(id, new[1], new[2]))
    BY DEF AddRule
  <2>2. id \in Names /\ tsc' \in Nat
    BY <2>1 DEF Random, RulesTyped, Names
  <2>3. new[1] \in Methods /\ new[2] \in BOOLEAN
    BY PolicyAssumption DEF Methods
  <2>4. Named(id, new[1], new[2]) \in Rules
    BY <2>2, <2>3 DEF Named, Rules
  <2> QED BY <2>1, <2>2, <2>4 DEF RulesTyped
<1>3. CASE RelaxRule
  <2> USE <1>3
  <2>1. PICK id \in Ids : SwitchOff(id)
    BY DEF RelaxRule
  <2>2. First(id) \in DOMAIN rules
    BY FirstIs
  <2> DEFINE new == [rules[First(id)] EXCEPT !.active = FALSE]
  <2>3. new \in Rules
    BY <2>2, <1>1 DEF Rules
  <2>4. rules' = [rules EXCEPT ![First(id)] = new]
    BY <2>1 DEF SwitchOff
  <2> HIDE DEF new
  <2>5. tsc' = tsc
    BY DEF RelaxRule
  <2> QED BY <2>2, <2>3, <2>4, <2>5, <1>1 DEF RulesTyped
<1>4. CASE RecordFalsePositive
  <2> USE <1>4
  <2>1. PICK id \in Ids : rules' = [rules EXCEPT ![First(id)] = Alarmed(@)]
    BY DEF RecordFalsePositive
  <2>2. First(id) \in DOMAIN rules
    BY FirstIs
  <2>3. rules' = [rules EXCEPT ![First(id)] = Alarmed(rules[First(id)])]
    BY <2>1
  <2>4. Alarmed(rules[First(id)]) \in Rules
    BY <2>2, <1>1, AlarmedIs
  <2>5. tsc' = tsc
    BY DEF RecordFalsePositive
  <2> QED BY <2>2, <2>3, <2>4, <2>5, <1>1 DEF RulesTyped
<1>5. CASE UNCHANGED <<rules, tsc>>
  BY <1>5 DEF RulesTyped
<1>6. RecordApproval \/ New \/ Expand \/ Touch \/ CheckDormancy \/ TickPasses => UNCHANGED <<rules, tsc>>
  BY DEF RecordApproval, New, Expand, Touch, CheckDormancy, TickPasses
<1> QED BY <1>2, <1>3, <1>4, <1>5, <1>6 DEF PolicyNext

LEMMA ScoresStay ==
  ASSUME ScoresTyped, PolicyNext
  PROVE  ScoresTyped'
<1>1. CASE RecordApproval
  <2> USE <1>1
  <2>1. PICK c \in Categories, manner \in {"Immediate", "Hesitant"} :
          scores' = [k \in DOMAIN scores \union {c} |->
                       IF k = c THEN Score(c) + weight(manner) ELSE scores[k]]
    BY DEF RecordApproval
  <2>2. Score(c) \in Nat /\ weight(manner) \in Nat
    BY DEF Score, weight, ScoresTyped
  <2>3. Score(c) + weight(manner) \in Nat
    BY <2>2
  <2>4. \A k \in DOMAIN scores : scores[k] \in Nat
    BY DEF ScoresTyped
  <2> QED BY <2>1, <2>3, <2>4 DEF ScoresTyped
<1>2. CASE UNCHANGED scores
  BY <1>2 DEF ScoresTyped
<1>3. AddRule \/ RelaxRule \/ RecordFalsePositive \/ New \/ Expand \/ Touch \/ CheckDormancy
        \/ TickPasses => UNCHANGED scores
  BY DEF AddRule, RelaxRule, RecordFalsePositive, New, Expand, Touch, CheckDormancy, TickPasses
<1> QED BY <1>1, <1>2, <1>3 DEF PolicyNext

\* A grant that is used now is one.
LEMMA TouchedIs ==
  ASSUME GrantsTyped, NEW grant \in PurposeGrants
  PROVE  /\ Touched(grant) \in PurposeGrants
         /\ Touched(grant).last_used_tick = tick
<1>1. tick \in Nat
  BY DEF GrantsTyped
<1> QED BY <1>1 DEF Touched, PurposeGrants

\* A grant that replaces one, as new or newer than the clock allows, keeps the types.
LEMMA GrantReplaced ==
  ASSUME GrantsTyped, NEW p \in DOMAIN grants, NEW grant \in PurposeGrants,
         grant.last_used_tick <= tick, tick' = tick, grants' = [grants EXCEPT ![p] = grant]
  PROVE  GrantsTyped'
BY DEF GrantsTyped

LEMMA GrantsStay ==
  ASSUME GrantsTyped, PolicyNext
  PROVE  GrantsTyped'
<1>1. /\ tick \in Nat
      /\ \A p \in DOMAIN grants : grants[p] \in PurposeGrants /\ grants[p].last_used_tick <= tick
  BY DEF GrantsTyped
<1>2. CASE New
  <2> USE <1>2
  <2>1. PICK p \in Purposes \ DOMAIN grants, t \in DOMAIN Templates :
          \E initial \in SUBSET Templates[t] :
            grants' = [q \in DOMAIN grants \union {p} |->
                         IF q = p THEN [template |-> t, granted_capabilities |-> initial,
                                        status |-> "Active", last_used_tick |-> tick]
                         ELSE grants[q]]
    BY DEF New
  <2>2. PICK initial \in SUBSET Templates[t] :
          grants' = [q \in DOMAIN grants \union {p} |->
                       IF q = p THEN [template |-> t, granted_capabilities |-> initial,
                                      status |-> "Active", last_used_tick |-> tick]
                       ELSE grants[q]]
    BY <2>1
  <2> DEFINE grant == [template |-> t, granted_capabilities |-> initial,
                       status |-> "Active", last_used_tick |-> tick]
  <2>3. initial \in SUBSET UNION {Templates[u] : u \in DOMAIN Templates}
    OBVIOUS
  <2>4. grant \in PurposeGrants /\ grant.last_used_tick = tick
    BY <2>3, <1>1 DEF PurposeGrants
  <2>5. tick' = tick
    BY DEF New
  <2>6. grants' = [q \in DOMAIN grants \union {p} |-> IF q = p THEN grant ELSE grants[q]]
    BY <2>2
  <2> HIDE DEF grant
  <2>7. tick <= tick
    BY <1>1
  <2>8. grants' \in [DOMAIN grants' -> PurposeGrants]
    BY <2>4, <2>6, <1>1
  <2>9. \A q \in DOMAIN grants' : grants'[q].last_used_tick <= tick
    BY <2>4, <2>6, <2>7, <1>1
  <2>10. DOMAIN grants' \subseteq Purposes
    BY <2>6 DEF GrantsTyped
  <2> QED BY <2>5, <2>8, <2>9, <2>10, <1>1 DEF GrantsTyped
<1>3. CASE Expand
  <2> USE <1>3
  <2>1. PICK p \in DOMAIN grants, t \in DOMAIN Templates :
          \E c \in Templates[t] : grants' = [grants EXCEPT ![p] = Touched(Widened(@, c))]
    BY DEF Expand
  <2>2. PICK c \in Templates[t] : grants' = [grants EXCEPT ![p] = Touched(Widened(@, c))]
    BY <2>1
  <2>3. c \in UNION {Templates[u] : u \in DOMAIN Templates}
    OBVIOUS
  <2>4. Widened(grants[p], c) \in PurposeGrants
    BY <2>3, <1>1 DEF PurposeGrants, Widened
  <2>5. grants' = [grants EXCEPT ![p] = Touched(Widened(grants[p], c))]
    BY <2>2
  <2>6. /\ Touched(Widened(grants[p], c)) \in PurposeGrants
        /\ Touched(Widened(grants[p], c)).last_used_tick <= tick
    BY <2>4, TouchedIs, <1>1
  <2>7. tick' = tick
    BY DEF Expand
  <2> QED BY <2>5, <2>6, <2>7, GrantReplaced
<1>4. CASE Touch
  <2> USE <1>4
  <2>1. PICK p \in DOMAIN grants : grants' = [grants EXCEPT ![p] = Touched(@)]
    BY DEF Touch
  <2>2. grants' = [grants EXCEPT ![p] = Touched(grants[p])]
    BY <2>1
  <2>3. Touched(grants[p]) \in PurposeGrants /\ Touched(grants[p]).last_used_tick <= tick
    BY TouchedIs, <1>1
  <2>4. tick' = tick
    BY DEF Touch
  <2> QED BY <2>2, <2>3, <2>4, GrantReplaced
<1>5. CASE CheckDormancy
  <2> USE <1>5
  <2>1. PICK p \in DOMAIN grants : grants' = [grants EXCEPT ![p].status = "Dormant"]
    BY DEF CheckDormancy
  <2> DEFINE asleep == [grants[p] EXCEPT !.status = "Dormant"]
  <2>2. grants' = [grants EXCEPT ![p] = asleep]
    BY <2>1
  <2>3. asleep \in PurposeGrants /\ asleep.last_used_tick <= tick
    BY <1>1 DEF PurposeGrants
  <2>4. tick' = tick
    BY DEF CheckDormancy
  <2> HIDE DEF asleep
  <2> QED BY <2>2, <2>3, <2>4, GrantReplaced
<1>6. CASE TickPasses
  <2>1. grants' = grants /\ tick' = tick + 1 /\ tick' \in Nat
    BY <1>6, <1>1 DEF TickPasses
  <2>2. \A p \in DOMAIN grants : grants[p].last_used_tick \in Nat
    BY <1>1 DEF PurposeGrants
  <2> QED BY <2>1, <2>2, <1>1 DEF GrantsTyped
<1>7. CASE UNCHANGED <<grants, tick>>
  BY <1>7 DEF GrantsTyped
<1>8. AddRule \/ RelaxRule \/ RecordFalsePositive \/ RecordApproval => UNCHANGED <<grants, tick>>
  BY DEF AddRule, RelaxRule, RecordFalsePositive, RecordApproval
<1> QED BY <1>2, <1>3, <1>4, <1>5, <1>6, <1>7, <1>8 DEF PolicyNext

LEMMA PolicyStarts ==
  ASSUME PolicyInit
  PROVE  PolicyIInv
<1>1. RulesTyped
  BY DefaultRules DEF PolicyInit, RulesTyped
<1>2. ScoresTyped
  BY DEF PolicyInit, ScoresTyped
<1>3. GrantsTyped
  BY DEF PolicyInit, GrantsTyped
<1> QED BY <1>1, <1>2, <1>3 DEF PolicyIInv

\* Rules keep their methods, protection and counts, and no grant is used in the future.
THEOREM PolicyTypes == PolicySpec => []PolicyIInv
<1>1. PolicyIInv /\ PolicyNext => PolicyIInv'
  BY RulesStay, ScoresStay, GrantsStay DEF PolicyIInv
<1>2. PolicyIInv /\ UNCHANGED policyVars => PolicyIInv'
  BY DEF PolicyIInv, RulesTyped, ScoresTyped, GrantsTyped, policyVars
<1> QED BY <1>1, <1>2, PolicyStarts, PTL DEF PolicySpec

(***************************************************************************)
(* The same answers                                                        *)
(***************************************************************************)

\* The arms of the port's match are the alternatives of the original's.
LEMMA MethodsMatch ==
  ASSUME NEW m, m.by \in MethodNames, NEW e
  PROVE  match_event(m, e) <=> G!Matches(m, e)
<1>1. CASE m.by = "Signature"
  BY <1>1, Zenon DEF match_event, G!Matches
<1>2. CASE m.by = "BehavioralAnomaly"
  BY <1>2, Zenon DEF match_event, G!Matches
<1>3. CASE m.by = "SensorThreshold"
  BY <1>3, Zenon DEF match_event, G!Matches
<1>4. CASE m.by = "ChecksumVerification"
  BY <1>4, Zenon DEF match_event, G!Matches
<1>5. CASE m.by = "EventLog"
  BY <1>5, Zenon DEF match_event, G!Matches
<1>6. CASE m.by = "AbnormalProcessEvent"
  BY <1>6, Zenon DEF match_event, G!Matches
<1>7. CASE m.by = "Heartbeat"
  BY <1>7, Zenon DEF match_event, G!Matches
<1> QED
  BY <1>1, <1>2, <1>3, <1>4, <1>5, <1>6, <1>7 DEF MethodNames

\* On the same state, port and original give the same answer: guardian, trust model, grants.
LEMMA RulesAnswerAlike ==
  ASSUME RulesTyped, NEW e
  PROVE  evaluate(e) = G!evaluate(e)
<1>1. DOMAIN Unnamed = DOMAIN rules
  BY DEF Unnamed
<1>2. ASSUME NEW i \in DOMAIN rules
      PROVE  /\ Unnamed[i].active = rules[i].active
             /\ Unnamed[i].method = rules[i].method
  BY DEF Unnamed, Nameless
<1>3. ASSUME NEW i \in DOMAIN rules
      PROVE  match_event(rules[i].method, e) <=> G!Matches(rules[i].method, e)
  <2>1. rules[i] \in Rules
    BY DEF RulesTyped
  <2>2. rules[i].method.by \in MethodNames
    BY <2>1, DefaultRules DEF Rules
  <2> QED BY <2>2, MethodsMatch
<1> QED
  BY <1>1, <1>2, <1>3, Zenon DEF evaluate, G!evaluate

LEMMA TrustAnswersAlike ==
  ASSUME ScoresTyped, NEW c \in Categories
  PROVE  ShouldSkipConfirmation(c) = T!should_skip_confirmation(c)
<1>1. T!should_skip_confirmation(c) = (Score(c) >= SkipThreshold)
  BY DEF T!should_skip_confirmation
<1>2. ~(0 >= SkipThreshold)
  BY PolicyAssumption
<1> QED BY <1>1, <1>2 DEF ShouldSkipConfirmation, Score

LEMMA GrantsAnswerAlike ==
  ASSUME GrantsTyped, NEW p \in DOMAIN grants
  PROVE  GoesDormant(grants[p]) = R!is_dormant_by_elapsed_time(Granted(grants[p]))
<1>1. /\ tick \in Nat /\ grants[p].last_used_tick \in Nat /\ grants[p].last_used_tick <= tick
  BY DEF GrantsTyped, PurposeGrants
<1> QED BY <1>1 DEF GoesDormant, Unused, Granted, R!is_dormant_by_elapsed_time

\* Whatever rules, scores and grants there are, the ports' answers are the original's
\* (guardian.rs, adaptive.rs and permissions.rs of the kernel): match_event looks at the same
\* fields of an event, no entry counts as a score that is too low, and the subtraction that
\* stops at zero never stops there.
THEOREM PortsAnswerAlike == PolicySpec => []SameAnswers
<1>1. PolicyIInv => SameAnswers
  BY RulesAnswerAlike, TrustAnswersAlike, GrantsAnswerAlike DEF PolicyIInv, SameAnswers
<1> QED BY <1>1, PolicyTypes, PTL

(***************************************************************************)
(* The same design                                                         *)
(***************************************************************************)

NamelessRules ==
  [method : Methods, protected : BOOLEAN, active : BOOLEAN, false_positive_count : Nat]

\* A rule without its name keeps all its other fields.
LEMMA NamelessIs ==
  ASSUME NEW rule \in Rules
  PROVE  /\ Nameless(rule) \in NamelessRules
         /\ Nameless(rule).method = rule.method /\ Nameless(rule).protected = rule.protected
         /\ Nameless(rule).active = rule.active
         /\ Nameless(rule).false_positive_count = rule.false_positive_count
BY DEF Nameless, Rules, NamelessRules

\* The list of rules without their names, place by place.
LEMMA UnnamedIs ==
  ASSUME RulesTyped
  PROVE  /\ Unnamed \in Seq(NamelessRules) /\ Len(Unnamed) = Len(rules)
         /\ DOMAIN Unnamed = DOMAIN rules
         /\ \A i \in DOMAIN rules : Unnamed[i] = Nameless(rules[i])
<1>1. Len(rules) \in Nat /\ DOMAIN rules = 1 .. Len(rules) /\ \A i \in DOMAIN rules : rules[i] \in Rules
  BY DEF RulesTyped
<1>2. DOMAIN Unnamed = DOMAIN rules /\ \A i \in DOMAIN rules : Unnamed[i] = Nameless(rules[i])
  BY DEF Unnamed
<1>3. Unnamed \in [1 .. Len(rules) -> NamelessRules]
  BY <1>1, <1>2, NamelessIs DEF Unnamed
<1>4. Unnamed \in Seq(NamelessRules) /\ Len(Unnamed) = Len(rules)
  BY <1>1, <1>3
<1> QED BY <1>2, <1>4

\* A rule replaced in the list is replaced in the list without names.
LEMMA UnnamedReplaced ==
  ASSUME RulesTyped, NEW i \in DOMAIN rules, NEW new, rules' = [rules EXCEPT ![i] = new]
  PROVE  Unnamed' = [Unnamed EXCEPT ![i] = Nameless(new)]
<1>1. /\ Unnamed = [k \in DOMAIN rules |-> Nameless(rules[k])]
      /\ Unnamed' = [k \in DOMAIN rules' |-> Nameless(rules'[k])]
  BY DEF Unnamed
<1>2. DOMAIN rules' = DOMAIN rules /\ \A k \in DOMAIN rules : rules'[k] = IF k = i THEN new ELSE rules[k]
  BY DEF RulesTyped
<1>3. /\ DOMAIN Unnamed' = DOMAIN rules /\ DOMAIN Unnamed = DOMAIN rules
      /\ \A k \in DOMAIN rules : Unnamed'[k] = IF k = i THEN Nameless(new) ELSE Unnamed[k]
  BY <1>1, <1>2
<1> QED BY <1>1, <1>2, <1>3, Zenon

\* A rule that is added has the name it is given and nothing else the original's has not.
LEMMA AddRuleIsAdd ==
  ASSUME RulesTyped, RulesTyped', AddRule
  PROVE  G!add_rule
<1>1. PICK new \in NewRules, id \in RandomValues \union {<<"tsc", tsc>>} :
        Random(id) /\ rules' = Append(rules, Named(id, new[1], new[2]))
  BY DEF AddRule
<1> DEFINE r == Named(id, new[1], new[2])
<1>2. Nameless(r) = G!New(new[1], new[2])
  BY DEF Nameless, Named, G!New
<1>3. rules' = Append(rules, r)
  BY <1>1
<1> HIDE DEF r
<1>4. Len(rules) \in Nat /\ DOMAIN rules = 1 .. Len(rules)
  BY DEF RulesTyped
<1>5. /\ DOMAIN rules' = 1 .. Len(rules) + 1 /\ rules'[Len(rules) + 1] = r
      /\ \A i \in DOMAIN rules : rules'[i] = rules[i]
  BY <1>3, <1>4 DEF RulesTyped
<1>6. /\ DOMAIN Unnamed' = DOMAIN rules' /\ \A i \in DOMAIN rules' : Unnamed'[i] = Nameless(rules'[i])
  BY DEF Unnamed
<1>9. Nameless(r) \in NamelessRules
  <2>1. r \in Rules
    BY <1>4, <1>5 DEF RulesTyped
  <2> QED BY <2>1, NamelessIs
<1>7. Unnamed' = Append(Unnamed, Nameless(r))
  <2> DEFINE long == Append(Unnamed, Nameless(r))
  <2>1. /\ DOMAIN long = 1 .. Len(rules) + 1 /\ long[Len(rules) + 1] = Nameless(r)
        /\ \A i \in DOMAIN rules : long[i] = Unnamed[i]
        /\ long = [i \in DOMAIN long |-> long[i]]
    <3>1. Unnamed \in Seq(NamelessRules) /\ Len(Unnamed) = Len(rules)
      BY UnnamedIs
    <3>2. long \in Seq(NamelessRules) /\ Len(long) = Len(rules) + 1
      BY <3>1, <1>9, <1>4
    <3>3. long[Len(rules) + 1] = Nameless(r)
      BY <3>1, <1>9, <1>4
    <3>4. \A i \in DOMAIN rules : long[i] = Unnamed[i]
      BY <3>1, <1>9, <1>4
    <3> HIDE DEF long
    <3>5. long = [i \in DOMAIN long |-> long[i]] /\ DOMAIN long = 1 .. Len(rules) + 1
      BY <3>2
    <3> QED BY <3>3, <3>4, <3>5
  <2>2. Unnamed' = [i \in DOMAIN rules' |-> Nameless(rules'[i])]
    BY DEF Unnamed
  <2> HIDE DEF long
  <2>3. ASSUME NEW i \in DOMAIN rules' PROVE Unnamed'[i] = long[i]
    <3>1. CASE i = Len(rules) + 1
      BY <3>1, <2>1, <1>5, <1>6
    <3>2. CASE i \in DOMAIN rules
      BY <3>2, <2>1, <1>5, <1>6, UnnamedIs
    <3> QED BY <3>1, <3>2, <1>4, <1>5
  <2>4. DOMAIN long = DOMAIN Unnamed'
    BY <2>1, <1>5, <1>6
  <2>5. long = Unnamed'
    BY <2>1, <2>2, <2>3, <2>4, <1>6
  <2> QED BY <2>5 DEF long
<1>8. Len(Unnamed) < MaxRules
  BY UnnamedIs DEF AddRule
<1> QED BY <1>1, <1>2, <1>7, <1>8 DEF G!add_rule

LEMMA ActiveReplaced ==
  ASSUME NEW r, NEW m, NEW p, NEW a, NEW n, NEW v,
         r = [method |-> m, protected |-> p, active |-> a, false_positive_count |-> n]
  PROVE  [r EXCEPT !.active = v]
           = [method |-> m, protected |-> p, active |-> v, false_positive_count |-> n]
OBVIOUS

LEMMA OffIsOff ==
  ASSUME NEW rule \in Rules
  PROVE  Nameless([rule EXCEPT !.active = FALSE]) = [Nameless(rule) EXCEPT !.active = FALSE]
<1> DEFINE bare == Nameless(rule)
           goal == [method |-> rule.method, protected |-> rule.protected, active |-> FALSE,
                    false_positive_count |-> rule.false_positive_count]
<1>1. Nameless([rule EXCEPT !.active = FALSE]) = goal
  BY DEF Nameless, Rules
<1>2. bare = [method |-> rule.method, protected |-> rule.protected, active |-> rule.active,
              false_positive_count |-> rule.false_positive_count]
  BY DEF Nameless
<1> HIDE DEF bare
<1> DEFINE off == [bare EXCEPT !.active = FALSE]
<1>3. off = [bare EXCEPT !.active = FALSE]
  OBVIOUS
<1> HIDE DEF off
<1>4. off = goal
  BY <1>2, <1>3, ActiveReplaced
<1> QED BY <1>1, <1>3, <1>4 DEF bare

\* Relaxing a rule by its name is relaxing one rule of the original, which the name picks.
LEMMA RelaxRuleIsRelax ==
  ASSUME RulesTyped, RelaxRule
  PROVE  G!relax_rule
<1>1. PICK id \in Ids : SwitchOff(id)
  BY DEF RelaxRule
<1> DEFINE i == First(id)
           off == [rules[i] EXCEPT !.active = FALSE]
<1>2. i \in DOMAIN rules
  BY FirstIs
<1>3. rules' = [rules EXCEPT ![i] = off] /\ ~rules[i].protected
  BY <1>1, Zenon DEF SwitchOff
<1> HIDE DEF i
<1>4. rules[i] \in Rules
  BY <1>2 DEF RulesTyped
<1>5. Nameless(off) = [Nameless(rules[i]) EXCEPT !.active = FALSE]
  BY <1>4, OffIsOff
<1> HIDE DEF off
<1>6. Unnamed' = [Unnamed EXCEPT ![i] = Nameless(off)]
  BY <1>2, <1>3, UnnamedReplaced
<1>7. i \in DOMAIN Unnamed /\ Unnamed[i] = Nameless(rules[i])
  BY <1>2, UnnamedIs
<1>8. ~Unnamed[i].protected
  BY <1>3, <1>4, <1>7, NamelessIs
<1>9. Unnamed' = [Unnamed EXCEPT ![i] = [@ EXCEPT !.active = FALSE]]
  BY <1>5, <1>6, <1>7, Zenon
<1> QED BY <1>7, <1>8, <1>9, Zenon DEF G!relax_rule

\* The condition under which a rule stays on is the negation of the original's for relaxing.
LEMMA AlarmIsAlarm ==
  ASSUME NEW rule \in Rules
  PROVE  Nameless(Alarmed(rule)) = G!Alarmed(Nameless(rule))
<1> DEFINE bare == Nameless(rule)
           count == rule.false_positive_count + 1
           on == rule.active /\ (rule.protected \/ count < RelaxThreshold)
           counted == [bare EXCEPT !.false_positive_count = count]
           off == [counted EXCEPT !.active = FALSE]
           goal == [method |-> rule.method, protected |-> rule.protected, active |-> on,
                    false_positive_count |-> count]
<1>1. /\ bare = [method |-> rule.method, protected |-> rule.protected,
                 active |-> rule.active, false_positive_count |-> rule.false_positive_count]
      /\ bare.false_positive_count = rule.false_positive_count
      /\ bare.protected = rule.protected
  BY DEF Nameless
<1>2. Alarmed(rule) = [rule EXCEPT !.false_positive_count = count, !.active = on]
  BY Zenon DEF Alarmed
<1>3. count \in Nat /\ on \in BOOLEAN /\ rule.active \in BOOLEAN /\ rule.protected \in BOOLEAN
  BY DEF Rules
<1>4. G!Relaxes(bare) <=> ~rule.protected /\ count >= RelaxThreshold
  BY <1>1 DEF G!Relaxes
<1>5. G!Alarmed(bare) = IF G!Relaxes(bare) THEN off ELSE counted
  BY <1>1 DEF G!Alarmed
<1>6. counted = [method |-> rule.method, protected |-> rule.protected,
                 active |-> rule.active, false_positive_count |-> count]
  BY <1>1
<1>7. off = [method |-> rule.method, protected |-> rule.protected,
             active |-> FALSE, false_positive_count |-> count]
  <2> HIDE DEF counted
  <2>1. off = [counted EXCEPT !.active = FALSE]
    OBVIOUS
  <2> HIDE DEF off
  <2> QED BY <1>6, <2>1, ActiveReplaced
<1>8. ~rule.protected /\ count >= RelaxThreshold => on = FALSE
  BY <1>3, PolicyAssumption
<1>9. ~(~rule.protected /\ count >= RelaxThreshold) => on = rule.active
  BY <1>3, PolicyAssumption
<1> HIDE DEF on, count
<1>10. Nameless(Alarmed(rule)) = goal
  BY <1>2, <1>3 DEF Nameless, Rules
<1> HIDE DEF counted, off, bare
<1>11. G!Alarmed(bare) = goal
  BY <1>4, <1>5, <1>6, <1>7, <1>8, <1>9, Zenon
<1> QED BY <1>10, <1>11 DEF bare

\* Recording a false alarm by a rule's name is recording it for one rule of the original.
LEMMA AlarmedIsRecorded ==
  ASSUME RulesTyped, RecordFalsePositive
  PROVE  G!record_false_positive
<1>1. PICK id \in Ids : rules' = [rules EXCEPT ![First(id)] = Alarmed(@)]
  BY DEF RecordFalsePositive
<1> DEFINE i == First(id)
<1>2. i \in DOMAIN rules
  BY FirstIs
<1>3. rules' = [rules EXCEPT ![i] = Alarmed(rules[i])]
  BY <1>1
<1> HIDE DEF i
<1>4. rules[i] \in Rules
  BY <1>2 DEF RulesTyped
<1>5. Unnamed' = [Unnamed EXCEPT ![i] = Nameless(Alarmed(rules[i]))]
  BY <1>2, <1>3, UnnamedReplaced
<1>6. i \in DOMAIN Unnamed /\ Unnamed[i] = Nameless(rules[i])
  BY <1>2, UnnamedIs
<1>7. Unnamed' = [Unnamed EXCEPT ![i] = G!Alarmed(@)]
  BY <1>4, <1>5, <1>6, AlarmIsAlarm
<1>8. G!AlarmCount < MaxAlarms
  BY Zenon DEF RecordFalsePositive, Alarms
<1> QED BY <1>6, <1>7, <1>8, Zenon DEF G!record_false_positive

\* Every step of the ports is one of the original's, or leaves its state alone: guardian,
\* trust model and grants in turn.
LEMMA GuardianStep ==
  ASSUME RulesTyped, RulesTyped', PolicyNext
  PROVE  G!GuardianNext \/ UNCHANGED Unnamed
<1>1. AddRule => G!GuardianNext
  BY AddRuleIsAdd DEF G!GuardianNext
<1>2. RelaxRule => G!GuardianNext
  BY RelaxRuleIsRelax DEF G!GuardianNext
<1>3. RecordFalsePositive => G!GuardianNext
  BY AlarmedIsRecorded DEF G!GuardianNext
<1>4. RecordApproval \/ New \/ Expand \/ Touch \/ CheckDormancy \/ TickPasses => UNCHANGED rules
  BY DEF RecordApproval, New, Expand, Touch, CheckDormancy, TickPasses
<1>5. UNCHANGED rules => UNCHANGED Unnamed
  BY DEF Unnamed
<1> QED BY <1>1, <1>2, <1>3, <1>4, <1>5 DEF PolicyNext

LEMMA TrustStep ==
  ASSUME ScoresTyped, PolicyNext
  PROVE  DesignOfTrust \/ UNCHANGED scores
<1> DEFINE model == [c \in Categories |-> [count |-> Score(c), declared |-> FALSE]]
<1>1. ASSUME RecordApproval PROVE DesignOfTrust
  <2>1. PICK c \in Categories, manner \in {"Immediate", "Hesitant"} :
          /\ Score(c) + weight(manner) <= MaxScore
          /\ scores' = [k \in DOMAIN scores \union {c} |->
                          IF k = c THEN Score(c) + weight(manner) ELSE scores[k]]
    BY <1>1 DEF RecordApproval
  <2>2. T!weight(manner) = weight(manner) /\ manner \in T!Manners
    BY DEF T!weight, weight, T!Manners
  <2> DEFINE more == Score(c) + weight(manner)
  <2>3. Score(c)' = more
    BY <2>1 DEF Score
  <2>4. ASSUME NEW k \in Categories, k # c PROVE Score(k)' = Score(k)
    BY <2>1, <2>4 DEF Score
  <2>5. model[c].count = Score(c)
    OBVIOUS
  <2>6. model' = [k \in Categories |-> [count |-> Score(k)', declared |-> FALSE]]
    BY DEF Score
  <2>7. ASSUME NEW k \in Categories
        PROVE  [count |-> Score(k)', declared |-> FALSE]
                 = IF k = c THEN [model[c] EXCEPT !.count = more] ELSE model[k]
    <3>1. CASE k = c
      BY <2>3, <3>1
    <3>2. CASE k # c
      BY <2>4, <3>2
    <3> QED BY <3>1, <3>2
  <2>8. [model EXCEPT ![c].count = @ + T!weight(manner)]
          = [k \in Categories |-> IF k = c THEN [model[c] EXCEPT !.count = more] ELSE model[k]]
    BY <2>2, <2>5
  <2>9. model' = [model EXCEPT ![c].count = @ + T!weight(manner)]
    <3> HIDE DEF model, more
    <3> QED BY <2>6, <2>7, <2>8
  <2>10. model[c].count + T!weight(manner) <= MaxScore
    BY <2>1, <2>2, <2>5
  <2>11. T!record_approval(c, manner)
    BY <2>9, <2>10 DEF T!record_approval
  <2> QED BY <2>2, <2>11, Zenon DEF DesignOfTrust
<1>2. AddRule \/ RelaxRule \/ RecordFalsePositive \/ New \/ Expand \/ Touch \/ CheckDormancy
        \/ TickPasses => UNCHANGED scores
  BY DEF AddRule, RelaxRule, RecordFalsePositive, New, Expand, Touch, CheckDormancy, TickPasses
<1> QED BY <1>1, <1>2 DEF PolicyNext

\* The grants as the original keeps them.
LEMMA GrantedReplaced ==
  ASSUME NEW p \in DOMAIN grants, NEW grant, grants' = [grants EXCEPT ![p] = grant],
         grants = [q \in DOMAIN grants |-> grants[q]]
  PROVE  [q \in DOMAIN grants |-> Granted(grants[q])]'
           = [[q \in DOMAIN grants |-> Granted(grants[q])] EXCEPT ![p] = Granted(grant)]
<1> DEFINE old == [q \in DOMAIN grants |-> Granted(grants[q])]
           new == [q \in DOMAIN grants' |-> Granted(grants'[q])]
<1>1. DOMAIN grants' = DOMAIN grants /\ \A q \in DOMAIN grants : grants'[q] = IF q = p THEN grant ELSE grants[q]
  OBVIOUS
<1>2. DOMAIN new = DOMAIN old /\ DOMAIN old = DOMAIN grants
  BY <1>1
<1>3. \A q \in DOMAIN grants : new[q] = IF q = p THEN Granted(grant) ELSE old[q]
  BY <1>1
<1>4. new = [old EXCEPT ![p] = Granted(grant)]
  BY <1>1, <1>2, <1>3, Zenon
<1>5. old' = new
  BY DEF Granted
<1> QED BY <1>4, <1>5

LEMMA UsedReplaced ==
  ASSUME NEW r, NEW t, NEW g, NEW s, NEW d, NEW on, NEW now,
         r = [template |-> t, granted |-> g, status |-> s, last_used |-> d]
  PROVE  [r EXCEPT !.last_used = now, !.status = on]
           = [template |-> t, granted |-> g, status |-> on, last_used |-> now]
<1> DEFINE used == [r EXCEPT !.last_used = now]
<1>1. [r EXCEPT !.last_used = now, !.status = on] = [used EXCEPT !.status = on]
  OBVIOUS
<1>2. used = [template |-> t, granted |-> g, status |-> s, last_used |-> now]
  OBVIOUS
<1> HIDE DEF used
<1>3. [used EXCEPT !.status = on] = [template |-> t, granted |-> g, status |-> on, last_used |-> now]
  BY <1>2
<1> QED BY <1>1, <1>3, Zenon

\* A use, an extension and a dormancy do to a grant what they do in the original.
LEMMA TouchedAlike ==
  ASSUME NEW grant \in PurposeGrants
  PROVE  Granted(Touched(grant)) = R!Touched(Granted(grant))
<1> DEFINE on == IF grant.status = "Dormant" THEN "Active" ELSE grant.status
           used == Touched(grant)
           seen == Granted(grant)
           goal == [template |-> grant.template, granted |-> grant.granted_capabilities,
                    status |-> on, last_used |-> tick]
<1>1. used = [grant EXCEPT !.last_used_tick = tick, !.status = on]
  BY Zenon DEF Touched
<1>2. seen = [template |-> grant.template, granted |-> grant.granted_capabilities,
              status |-> grant.status, last_used |-> grant.last_used_tick]
  BY DEF Granted
<1>3. R!Touched(seen) = [seen EXCEPT !.last_used = tick, !.status = on]
  <2>1. seen.status = grant.status
    BY <1>2
  <2> HIDE DEF seen
  <2> QED BY <2>1, Zenon DEF R!Touched
<1> HIDE DEF used, on
<1>4. Granted(used) = goal
  BY <1>1 DEF Granted, PurposeGrants
<1> DEFINE after == [seen EXCEPT !.last_used = tick, !.status = on]
<1> HIDE DEF seen
<1>6. after = [seen EXCEPT !.last_used = tick, !.status = on]
  OBVIOUS
<1> HIDE DEF after
<1>5. after = goal
  BY <1>2, <1>6, UsedReplaced
<1> QED BY <1>3, <1>4, <1>5, <1>6 DEF used, seen

LEMMA WidenedAlike ==
  ASSUME NEW grant \in PurposeGrants, NEW c \in R!Capabilities
  PROVE  Granted(Touched(Widened(grant, c))) = R!Expanded(Granted(grant), c)
<1> DEFINE wide == Widened(grant, c)
           seen == Granted(grant)
<1>1. wide = [grant EXCEPT !.granted_capabilities = @ \union {c}]
  BY DEF Widened
<1>2. c \in UNION {Templates[t] : t \in DOMAIN Templates}
  BY DEF R!Capabilities, R!TemplateIds
<1>3. wide \in PurposeGrants
  BY <1>1, <1>2 DEF PurposeGrants
<1>4. Granted(wide) = [seen EXCEPT !.granted = @ \union {c}]
  <2> DEFINE more == grant.granted_capabilities \union {c}
             bare == [template |-> grant.template, granted |-> more,
                      status |-> grant.status, last_used |-> grant.last_used_tick]
  <2>1. /\ wide.template = grant.template /\ wide.granted_capabilities = more
        /\ wide.status = grant.status /\ wide.last_used_tick = grant.last_used_tick
    BY <1>1 DEF PurposeGrants
  <2>2. Granted(wide) = bare
    <3> HIDE DEF wide, more
    <3> QED BY <2>1 DEF Granted
  <2>3. /\ seen.granted \union {c} = more
        /\ seen = [template |-> grant.template, granted |-> grant.granted_capabilities,
                   status |-> grant.status, last_used |-> grant.last_used_tick]
    BY DEF Granted
  <2> HIDE DEF seen, more
  <2>4. [seen EXCEPT !.granted = more] = bare
    BY <2>3
  <2> QED BY <2>2, <2>3, <2>4
<1>5. R!Expanded(seen, c) = R!Touched([seen EXCEPT !.granted = @ \union {c}])
  BY Zenon DEF R!Expanded
<1> HIDE DEF wide, seen
<1>6. Granted(Touched(wide)) = R!Touched(Granted(wide))
  BY <1>3, TouchedAlike
<1> QED BY <1>4, <1>5, <1>6, Zenon DEF wide, seen

LEMMA AsleepAlike ==
  ASSUME NEW grant \in PurposeGrants
  PROVE  Granted([grant EXCEPT !.status = "Dormant"]) = [Granted(grant) EXCEPT !.status = "Dormant"]
BY DEF Granted, PurposeGrants

LEMMA GrantsStep ==
  ASSUME GrantsTyped, PolicyNext
  PROVE  DesignOfGrants \/ UNCHANGED <<grants, tick>>
<1> DEFINE seen == [p \in DOMAIN grants |-> Granted(grants[p])]
<1>1. /\ grants = [p \in DOMAIN grants |-> grants[p]] /\ DOMAIN grants \subseteq Purposes
      /\ \A p \in DOMAIN grants : grants[p] \in PurposeGrants
  BY DEF GrantsTyped
<1>2. ASSUME New PROVE \E p \in Purposes : R!NewGrant(p)
  <2>1. PICK p \in Purposes \ DOMAIN grants, t \in DOMAIN Templates :
          \E initial \in SUBSET Templates[t] :
            grants' = [q \in DOMAIN grants \union {p} |->
                         IF q = p THEN [template |-> t, granted_capabilities |-> initial,
                                        status |-> "Active", last_used_tick |-> tick]
                         ELSE grants[q]]
    BY <1>2 DEF New
  <2>2. PICK initial \in SUBSET Templates[t] :
          grants' = [q \in DOMAIN grants \union {p} |->
                       IF q = p THEN [template |-> t, granted_capabilities |-> initial,
                                      status |-> "Active", last_used_tick |-> tick]
                       ELSE grants[q]]
    BY <2>1
  <2> DEFINE grant == [template |-> t, granted_capabilities |-> initial,
                       status |-> "Active", last_used_tick |-> tick]
             bare == [template |-> t, granted |-> initial, status |-> "Active", last_used |-> tick]
  <2>3. Granted(grant) = bare
    BY DEF Granted
  <2>4. grants' = [q \in DOMAIN grants \union {p} |-> IF q = p THEN grant ELSE grants[q]]
    BY <2>2
  <2>5. seen' = [q \in DOMAIN grants' |-> Granted(grants'[q])]
    BY DEF Granted
  <2>6. DOMAIN seen = DOMAIN grants /\ \A q \in DOMAIN grants : seen[q] = Granted(grants[q])
    OBVIOUS
  <2> HIDE DEF grant, bare, seen
  <2>7. seen' = [q \in DOMAIN seen \cup {p} |-> IF q = p THEN bare ELSE seen[q]]
    BY <2>3, <2>4, <2>5, <2>6
  <2>8. tick' = tick
    BY <1>2 DEF New
  <2>9. p \notin DOMAIN seen /\ t \in R!TemplateIds
    BY <2>6 DEF R!TemplateIds
  <2>10. R!NewGrant(p)
    BY <2>7, <2>8, <2>9, Zenon DEF R!NewGrant, seen, bare
  <2> QED BY <2>10
<1>3. ASSUME Expand PROVE DesignExpands
  <2>1. PICK p \in DOMAIN grants, t \in DOMAIN Templates :
          \E c \in Templates[t] : grants' = [grants EXCEPT ![p] = Touched(Widened(@, c))]
    BY <1>3 DEF Expand
  <2>2. PICK c \in Templates[t] : grants' = [grants EXCEPT ![p] = Touched(Widened(@, c))]
    BY <2>1
  <2>3. t \in R!TemplateIds /\ c \in R!Capabilities /\ R!InTemplate(t, c)
    BY DEF R!TemplateIds, R!Capabilities, R!InTemplate
  <2>4. grants'[p] = Touched(Widened(grants[p], c)) /\ \A q \in DOMAIN grants \ {p} : grants'[q] = grants[q]
    BY <2>2
  <2>5. Granted(grants'[p]) = R!Expanded(Granted(grants[p]), c)
    BY <2>3, <2>4, <1>1, WidenedAlike
  <2> QED BY <2>3, <2>4, <2>5, Zenon DEF DesignExpands
<1>4. ASSUME Touch PROVE \E p \in Purposes : R!touch(p)
  <2>1. PICK p \in DOMAIN grants : grants' = [grants EXCEPT ![p] = Touched(@)]
    BY <1>4 DEF Touch
  <2>2. grants' = [grants EXCEPT ![p] = Touched(grants[p])]
    BY <2>1
  <2>3. seen' = [seen EXCEPT ![p] = Granted(Touched(grants[p]))]
    BY <1>1, <2>2, GrantedReplaced, Zenon
  <2>4. Granted(Touched(grants[p])) = R!Touched(Granted(grants[p])) /\ p \in DOMAIN seen
        /\ seen[p] = Granted(grants[p])
    BY <1>1, TouchedAlike
  <2>5. tick' = tick
    BY <1>4 DEF Touch
  <2> HIDE DEF seen
  <2>6. seen' = [seen EXCEPT ![p] = R!Touched(@)]
    BY <2>3, <2>4
  <2>7. R!touch(p)
    BY <2>4, <2>5, <2>6, Zenon DEF R!touch, seen
  <2> QED BY <1>1, <2>7
<1>5. ASSUME CheckDormancy PROVE \E p \in Purposes : R!check_dormancy(p)
  <2>1. PICK p \in DOMAIN grants :
          GoesDormant(grants[p]) /\ grants' = [grants EXCEPT ![p].status = "Dormant"]
    BY <1>5 DEF CheckDormancy
  <2> DEFINE asleep == [grants[p] EXCEPT !.status = "Dormant"]
  <2>2. grants' = [grants EXCEPT ![p] = asleep]
    BY <2>1
  <2>3. Granted(asleep) = [Granted(grants[p]) EXCEPT !.status = "Dormant"]
    BY <1>1, AsleepAlike
  <2> HIDE DEF asleep
  <2>4. seen' = [seen EXCEPT ![p] = Granted(asleep)]
    BY <1>1, <2>2, GrantedReplaced, Zenon
  <2>5. p \in DOMAIN seen /\ seen[p] = Granted(grants[p])
    OBVIOUS
  <2>6. R!is_dormant_by_elapsed_time(seen[p])
    BY <2>1, <2>5, GrantsAnswerAlike
  <2>7. tick' = tick
    BY <1>5 DEF CheckDormancy
  <2> HIDE DEF seen
  <2>8. seen' = [seen EXCEPT ![p].status = "Dormant"]
    BY <2>3, <2>4, <2>5
  <2>9. R!check_dormancy(p)
    BY <2>5, <2>6, <2>7, <2>8, Zenon DEF R!check_dormancy, seen
  <2> QED BY <1>1, <2>9
<1>6. ASSUME TickPasses PROVE R!DayPasses
  <2>1. tick < MaxTick /\ tick' = tick + 1 /\ grants' = grants
    BY <1>6 DEF TickPasses
  <2>2. seen' = seen
    BY <2>1 DEF Granted
  <2> QED BY <2>1, <2>2 DEF R!DayPasses
<1>7. AddRule \/ RelaxRule \/ RecordFalsePositive \/ RecordApproval => UNCHANGED <<grants, tick>>
  BY DEF AddRule, RelaxRule, RecordFalsePositive, RecordApproval
<1> QED BY <1>2, <1>3, <1>4, <1>5, <1>6, <1>7, Zenon DEF PolicyNext, DesignOfGrants

LEMMA DesignStarts ==
  ASSUME PolicyInit
  PROVE  Unnamed = G!default_rule_set /\ T!TrustInit /\ R!GrantsInit
<1>1. Unnamed = G!default_rule_set
  <2>1. rules = default_rule_set /\ RulesTyped
    BY DefaultRules DEF PolicyInit, RulesTyped
  <2>2. DOMAIN Unnamed = 1 .. 5 /\ DOMAIN G!default_rule_set = 1 .. 5
    BY <2>1 DEF default_rule_set, Unnamed, G!default_rule_set
  <2>3. ASSUME NEW id, NEW by, NEW protected
        PROVE  Nameless(Named(id, by, protected)) = G!New(by, protected)
    BY DEF Nameless, Named, G!New
  <2>4. \A k \in 1 .. 5 : Unnamed[k] = G!default_rule_set[k]
    <3>1. /\ Unnamed[1] = Nameless(default_rule_set[1]) /\ Unnamed[2] = Nameless(default_rule_set[2])
          /\ Unnamed[3] = Nameless(default_rule_set[3]) /\ Unnamed[4] = Nameless(default_rule_set[4])
          /\ Unnamed[5] = Nameless(default_rule_set[5])
      BY <2>1, <2>2, UnnamedIs
    <3>2. /\ Nameless(default_rule_set[1]) = G!New([by |-> "Signature", pattern |-> ".locked"], TRUE)
          /\ Nameless(default_rule_set[2]) = G!New([by |-> "BehavioralAnomaly"], TRUE)
          /\ Nameless(default_rule_set[3])
               = G!New([by |-> "SensorThreshold", sensor |-> "cpu_temp_celsius", limit |-> 95], FALSE)
          /\ Nameless(default_rule_set[4]) = G!New([by |-> "ChecksumVerification"], TRUE)
          /\ Nameless(default_rule_set[5])
               = G!New([by |-> "Heartbeat", max_missed_beats |-> 3], FALSE)
      BY <2>3 DEF default_rule_set
    <3>4. /\ G!default_rule_set[1] = G!New([by |-> "Signature", pattern |-> ".locked"], TRUE)
          /\ G!default_rule_set[2] = G!New([by |-> "BehavioralAnomaly"], TRUE)
          /\ G!default_rule_set[3]
               = G!New([by |-> "SensorThreshold", sensor |-> "cpu_temp_celsius", limit |-> 95], FALSE)
          /\ G!default_rule_set[4] = G!New([by |-> "ChecksumVerification"], TRUE)
          /\ G!default_rule_set[5] = G!New([by |-> "Heartbeat", max_missed_beats |-> 3], FALSE)
      BY DEF G!default_rule_set
    <3>5. Unnamed[1] = G!default_rule_set[1]
      BY <3>1, <3>2, <3>4, Zenon
    <3>6. Unnamed[2] = G!default_rule_set[2]
      BY <3>1, <3>2, <3>4, Zenon
    <3>7. Unnamed[3] = G!default_rule_set[3]
      BY <3>1, <3>2, <3>4, Zenon
    <3>8. Unnamed[4] = G!default_rule_set[4]
      BY <3>1, <3>2, <3>4, Zenon
    <3>9. Unnamed[5] = G!default_rule_set[5]
      BY <3>1, <3>2, <3>4, Zenon
    <3>10. \A k \in 1 .. 5 : k \in {1, 2, 3, 4, 5}
      OBVIOUS
    <3> QED BY <3>5, <3>6, <3>7, <3>8, <3>9, <3>10
  <2>5. /\ Unnamed = [k \in DOMAIN Unnamed |-> Unnamed[k]]
        /\ G!default_rule_set = [k \in DOMAIN G!default_rule_set |-> G!default_rule_set[k]]
    BY DEF Unnamed, G!default_rule_set
  <2> QED BY <2>2, <2>4, <2>5
<1>2. T!TrustInit
  <2>1. \A c \in Categories : Score(c) = 0
    BY DEF PolicyInit, Score
  <2> QED BY <2>1 DEF T!TrustInit
<1>3. R!GrantsInit
  BY DEF PolicyInit, R!GrantsInit
<1> QED BY <1>1, <1>2, <1>3

\* Each port starts as the original does, and takes only the original's steps, whatever names
\* the rules get: a name that occurs twice means one rule, as the place in the list does, and
\* the ticks are days (guardian.rs:3, permissions.rs:3, adaptive.rs:3 of the kernel).
THEOREM PortsHaveTheDesign == PolicySpec => SameDesign
<1>1. PolicyInit => Unnamed = G!default_rule_set /\ T!TrustInit /\ R!GrantsInit
  BY DesignStarts
<1>2. PolicyIInv /\ PolicyIInv' /\ [PolicyNext]_policyVars => [G!GuardianNext]_Unnamed
  <2>1. PolicyIInv /\ PolicyIInv' /\ PolicyNext => [G!GuardianNext]_Unnamed
    BY GuardianStep DEF PolicyIInv
  <2>2. UNCHANGED policyVars => UNCHANGED Unnamed
    BY DEF policyVars, Unnamed
  <2> QED BY <2>1, <2>2
<1>3. PolicyIInv /\ [PolicyNext]_policyVars => [DesignOfTrust]_scores
  BY TrustStep DEF PolicyIInv, policyVars
<1>4. PolicyIInv /\ [PolicyNext]_policyVars => [DesignOfGrants]_<<grants, tick>>
  BY GrantsStep DEF PolicyIInv, policyVars
<1> QED BY <1>1, <1>2, <1>3, <1>4, PolicyTypes, PTL DEF PolicySpec, SameDesign
================================================================================
