# TLA+ models of AronaOS

AronaOS is a desktop-assistant operating system in two halves. `arona_kernel` is a
bare-metal x86-64 kernel: boot, a timer-driven round-robin scheduler, an ATA disk and a
FAT32 driver. `arona_agy` is the user-space half: a guardian that blocks dangerous events,
purpose-bound permissions, a trust model that decides when the user need not be asked, a
memory store, a local language model, and an orchestrator that joins them in one "turn" of
conversation. `arona_workspace` is an older version of the same crates, whose turn has no
guardian, and the kernel has ports of three of the engines. `llm/` is the script that
measures language models.

This directory holds TLA+ models of that code, the TLC runs that check them on small
instances, and TLAPS proofs of their main theorems for every value of the constants.
`PROJECT.json` lists components, runs, mutants, the source lines of every definition,
findings, hazards and theorems; this file says what they mean.

## 1. The system

| Component | State | Operations | What is hard | Correct when |
|---|---|---|---|---|
| Preemption core (`main.rs`, `interrupts.rs`, `scheduler.rs`, `context.rs`, `task.rs`, `serial.rs`) | the CPU's stack and interrupt flag, `SCHEDULER` (contexts, current), `TICKS`, the interrupt controller, four spin locks | `kernel_main`, two tasks, `timer_interrupt_handler`, `schedule`, `switch_to`, `_print` | the handler may interrupt any flow anywhere, including inside a lock; a switch leaves the handler half-way | no lock is held over a switch, saved stacks are the right ones, the tick goes on, nobody is starved |
| FAT32 driver (`fat32/*.rs`) | the disk | `format`, `write_file`, `read_file` | every transfer can fail, the power can go, several sectors make one change | chains are whole and private, a call that failed changed no file, what is written is read back |
| ATA driver (`ata.rs`) | the drive's registers | `read_sector`, `write_sector` | waits without a limit, errors after the data | a transfer that returns Ok happened |
| Heap, paging, RTC (`allocator.rs`, `memory.rs`, `rtc.rs`, `random.rs`) | page tables, CMOS | set up once, or read ports | – | – |
| Guardian (`arona_guardian`, `kernel/guardian.rs`) | the rules | `add_rule`, `relax_rule`, `record_false_positive`, `evaluate` | rules go away by themselves after false alarms, except the protected ones | a protected rule blocks for ever |
| Permissions (`arona_permissions`, `kernel/permissions.rs`) | grants and templates | `new`, `expand`, `touch`, `check_dormancy`, `revoke_with_user_approval`, `resolve` (port conflicts) | a grant lives through dormancy and revocation while turns go on; a port found free is not reserved | no grant outgrows its template, a revoked grant stays so, two holders share a port only by a race |
| Trust (`arona_adaptive`, `kernel/adaptive.rs`) | score per category | `record_approval`, `declare_no_confirmation_needed`, `should_skip_confirmation` | trust that flows from one category to another | only approvals of a category unlock it |
| Memory (`arona_memory`, and the audit logs of the other crates) | records by category in `sled` | `put`, `get`, `recall`, `list`, `delete`, `flush`, search, the logs | every method takes `&self`, so threads share the store; a search reads all of it in four threads; a recall reads, changes and writes back; what was not flushed may be lost | memoirs stay, a search misses nothing, only memories that were used are strengthened |
| Cognition (`arona_cognition`) | the model and the position in its cache | `generate`, `build_context_block` | the position persists across calls and failures | the position counts exactly what the model was given |
| Orchestrator (`arona_orchestrator`) | the turn | `handle_permission_request`, `expand_with_trust_check`, the bridges that parse model output | four components in an order, each of which may fail | blocked means nothing changed, granted means said so |
| Kernel ports (`kernel/guardian.rs`, `permissions.rs`, `adaptive.rs`, `random.rs`) | rules with random names, grants with ticks, scores | as the originals, but for revocation and declarations | two copies of one design drift apart | every step is one of the original's |
| The older turn (`arona_workspace`) | as the newer one | as the newer one, without a guardian | the guardian was put in front of a turn that existed | the newer turn does nothing the older one could not |
| Benchmark (`llm/benchmark/run.ps1`) | the results in memory, raw files, a child process and its two pipes | the whole script | two pipes read one after the other; a step that fails in the middle of an experiment; a command line quoted by hand | it ends, counts right, and keeps the text of what it reports |

In the kernel everything shares one CPU: the handler runs on the stack of the flow it
interrupts and talks to the flows through the locks; the FAT32 driver runs inside
`without_interrupts` sections of `kernel_main`, one call at a time. In user space the
orchestrator calls the other crates through plain function calls; the memory store is the
only part whose methods all take `&self` and which threads can therefore share: the four of
a search always, those of the callers if they like.

The hazards that follow from this, each at its line and with the properties that cover it,
are the list `hazards` of `PROJECT.json`.

## 2. Modules

| Module | What it is | Built on |
|---|---|---|
| `RoundRobin` | abstract: flows take the CPU in the order of registration, one may pin it | – |
| `KernelTasks` | the preemption core, one step between any two points where the handler or another flow can tell the difference | refines `RoundRobin` |
| `KernelProofs` | theorems about the preemption core and about the ports | `KernelTasks`, `KernelPolicy`, `TLAPS` |
| `Fat32Layout` | where sectors, clusters and FAT entries are on the disk | – |
| `FileStore` | abstract: a name keeps the content of its first successful write | – |
| `Fat32` | `format`, `write_file`, `read_file`, sector by sector | extends `Fat32Layout`, refines `FileStore` |
| `Fat32Proofs` | theorems about the arithmetic and the driver, and the proof that it implements `FileStore` | `Fat32`, `TLAPS` |
| `Guardian` | the rule engine | – |
| `Trust` | the trust model | – |
| `Grants` | permissions for purposes, and the clock | – |
| `AronaTurn` | a turn of the orchestrator over the three, and the callers around it | extends `Guardian`, `Trust`, `Grants` |
| `Conversation` | requests to the language model: the memories of the prompt, and `generate` | – |
| `ConversationProofs` | its theorems | `Conversation`, `TLAPS` |
| `MemoryStoreProofs`, `ConflictProofs`, `ProposalsProofs` | theorems about the store, about conflicts and about what is made of the model's answers | `MemoryStore`, `Conflict`, `Proposals`, `TLAPS` |
| `WorkspaceTurn` | abstract: the older turn, and the guardian nothing consults | – |
| `AronaTurnRefines` | the mapping from the newer turn to the older one | extends `AronaTurn`, refines `WorkspaceTurn` |
| `AronaTurnProofs` | theorems about the turn, and the proof of that refinement | `AronaTurnRefines`, `TLAPS` |
| `KernelPolicy` | the kernel's ports of the three engines | refines `Guardian`, `Trust` and `Grants`, one instance each |
| `KeyValueLines` | `parse_key_value_lines`, which all bridges share | – |
| `Conflict` | two purposes want one resource | extends `KeyValueLines` |
| `Proposals` | rules and templates the language model proposes, and the catalogue | extends `KeyValueLines` |
| `MemoryStore` | the store with all who use it at the same time, and crashes | – |
| `CommandLine` | how `run.ps1` quotes arguments, and how a program reads them back | – |
| `Benchmark` | `run.ps1` and the process it starts | extends `CommandLine` |
| `BenchmarkProofs` | theorems about the script and about its command line | `Benchmark`, `TLAPS` |
| `MC…` | constants for TLC | the module they are named after (`MCAronaTurn`: `AronaTurnRefines`) |

Definitions keep the names of the source where there is one (`schedule` is split, so its
parts have names of their own). A definition with a comment that begins "Mutant" is a
variant of the one below it with a plausible bug in it; nothing uses it, and
`PROJECT.json` says which property finds the bug when the variant takes its place.

### 2.1 KernelTasks

Flow 0 is `kernel_main`, flows 1..`NTasks` are the tasks. `pc` says where a flow's own code
is, `hpc` where the frame of `timer_interrupt_handler` on that flow's stack is; `cpu` is
the flow whose stack the CPU is on. A preempted flow keeps its handler frame at `"iret"`
until it is switched back to, which is what `switch_to` leaves on the stack.

| Code | Actions |
|---|---|
| `interrupts::init` | `PicInit`, `EnableInterrupts` |
| `scheduler::init`, `scheduler::spawn` | `SchedulerInitLock/Store/Unlock`, `SpawnLock/Push/Unlock` |
| `_print` behind `serial_println!` | `PrintLock`, `PrintUnlock` for flows; `TickPrintLock`, `TickPrintUnlock` in the handler |
| `without_interrupts(|| …)` around the disk calls | `BeginDiskCall`, `DiskTransfer`, `EndDiskCall` |
| `demo_task_a/b` | `TaskEnable`, then printing |
| the timer and the PIC | `TimerFires`, `Interrupt`, `irq`, `isr` |
| `timer_interrupt_handler` | `TickLock` … `EoiUnlock`, then `schedule` |
| `schedule` | `SchedLock`, `SchedNothing`, `SchedPick`, `SchedUnlock` |
| `switch_to` | `Switch`, and `Iret` for the end of the handler |

A spin lock is a step that is enabled only when the lock is free; a flow that spins has no
step. When it spins with interrupts masked nothing is enabled but the timer: the kernel is
`LockedUp`. What `kernel_main` does in memory between prints (the demonstrations of the
guardian and of grants, the heap test) is one label, `"demo"`.

### 2.2 Fat32

A sector is zero, boot data, FAT entries, directory entries, or one chunk of file data, and
a file's content is its sequence of chunks, so a file size is a number of sectors. Every
sector *write* is a step of its own (`AtaTest`, `FormatStep`, `FatWrite`, `DataWrite`,
`DirWrite`); reads are part of the step that uses what was read, because a call has the
disk to itself: `without_interrupts` keeps the tasks out, and the only thing between two
transfers is an error (`FormatFails`, `TransferFails`) or the end of the power (`Restart`,
which keeps the disk and loses everything else). `FormatPlan` is `format` as the list of
its writes. `write_file` runs `find`, `fat`, `data`/`next`, `dir`; `read_file` runs
`lookup`, `read`/`next`; `"astray"` is a chain that has left the data area.

The caller passes what is declared (`CallerAssumption`): a content is a sequence of chunks,
and no short name is `Nothing`, the name in an unused entry, whose first byte is 0x00.

`clean` and `written` are history variables: the first says that no `write_file` has failed
since the format, the second what each name was last given.

### 2.3 Guardian, Trust, Grants, AronaTurn

`rules`, `scores`, `grants` are the fields of `GuardianEngine`, `TrustModel` and the
callers' grants. `today` is the clock, `asked` the purposes whose dormancy notice has gone
out and not been answered. A turn (`handle_permission_request`) is `BeginTurn`, then
`FetchMemories`, `GuardianJudges`, `ExplainBlock` or `expand_with_trust_check`, `Respond`;
each call that can fail has its error, and `outcome` is the `TurnOutcome` or the
`TurnError`. Between turns the callers do `ChangeRules`, `UserApproves`, `UserDeclares` and
`LookAfterGrants`.

There is one turn at a time because the turn holds `&mut dyn CognitionBackend`; it also
holds `&GuardianEngine`, `&mut TrustModel` and `&mut PurposeGrant` from its first line to
its last. So rules, scores and the grant of the turn stand still during it, by the borrow
checker, while the clock and the other grants go on. The guards `~InTurn` and
`~Borrowed(p)` say that and no more.

Abstractions. A path is the set of patterns it contains, because the signature rule only
asks whether it contains one. Trust is counted in halves (an immediate approval 2, a
hesitant one 1), which `f64` represents exactly. Time is whole days and does not go back.
What a prompt says is left out,
except what `outcome` stands for: which prompt was used.

### 2.4 Conversation

What `AronaTurn` takes for two calls, `build_context_block` and `generate`, is opened up
here; `position` of `CandleGgufBackend` is the state that goes on from one request to the
next, whoever makes it.

| Code | Actions |
|---|---|
| callers: `handle_permission_request`, the bridges | `Begin`, with the `GenerationConfig` and, if memories go in, their budget |
| `put`, `delete` between requests | `put`, `delete` |
| `search_all` | `Search`, `SearchFails` |
| the loop of `build_context_block` with `recall` | `Adopt`, `BlockDone` |
| `generate` up to the first pass of the model | `Refuse`, `EncodeFails`, `ForwardPrompt`, `ForwardPromptFails` |
| its loop | `Sample`, `Feed`, `LoopFails` |
| its end | `Decode` |

Tokens are counted, not looked at: any token may be a stop token. A memory has two lengths,
`Estimate` (`rough_token_estimate`, 0.7 per character) and `Size` (what the tokenizer makes
of it), and nothing is assumed about how they relate. Which memories a search finds, and in
which order, is left open, so the order of equal scores and the decay of scores with time
are inside the model. A search is one step because its threads only read and nothing else
uses the store meanwhile. The positions are what the code counts; what the library's cache
does with them is not modelled. `start` and `before` are history variables: the position and
the recall counts when the request began.

### 2.5 WorkspaceTurn, AronaTurnRefines

The older version serves as the specification of the newer one. `WorkspaceTurn` keeps only
what that code can tell apart: a grant's clock counts the days since its last use and stops
when there are too many, a score and the false alarms of a rule stop at their thresholds,
and every error is an error. `AronaTurnRefines` maps the newer turn on it: while memories
are fetched and the guardian judges, the older turn is still building its context; a turn
that is blocked is one that failed before anything was decided, and explaining the block
happens after it has returned. So a request can only come out of the guardian with less.

### 2.6 KernelPolicy

`add_rule` draws a random name (`Random`: the values of RDRAND, which may repeat, or the
time stamp counter if the instruction is missing or fails); `find` takes the first rule of a
name. The clock is a tick each caller passes. `SameDesign` and `SameAnswers` compare with
instances of `Guardian`, `Trust` and `Grants`, the modules of the originals, with the names
left out and `today <- tick`. Dormancy compares with 90 ticks; there is no revocation and
no declaration in the kernel. The one permission template of the kernel is not modelled,
any map of templates is: it has two capabilities where the original's has four, against the
comment at `permissions.rs:67`.

### 2.7 Conflict

`resolve`, `arbitrate` and `loser_should_yield` decide and change nothing. Around them are
callers, as the examples and tests have them: `Take`, `Ask` (which makes the list of ports in
use, the `StaticPortChecker`), `Release`, and `Settle`, which does what came out. Several
conflicts may be under way, and between asking and settling others take and release.
`raced` is a history variable: resources taken while another purpose, which had looked
before, was about to take the same.

### 2.8 KeyValueLines, Proposals

A line is a sequence of words and of the characters the parsers look at (colon, blank, `=` and
the decoration `*`, `#`, `-`, `_`). `Write` is the model, which adds any line to its answer,
and `RuleProposed`, `TemplateProposed` are the parsers. `extract_ascii_keywords` is the loop
of the code over the characters (`Scan` is what it does with one); the property compares it
with maximal runs of letters. The code keeps the keywords in a vector but asks only which
there are, so they are a set here. The loops are functions defined along the text, the words
or the lines, and can be proved about.
The two sides of a sensor's `=` (`Sides`) are texts of any number of words with the white space
at their ends gone, as `split_once` and `trim` leave them; `Number` stands for `parse`, and
`Attribute` for what `parse_capability` makes of one word.

### 2.9 MemoryStore

| Code | Actions |
|---|---|
| `MemoryRecord::new`, `new_memoir`, then `put` | `NewMemory`, `NewMemoir` |
| the audit logs of guardian, trust and permissions | `log_intervention`, `log_approval`, `log_explicit_declaration`, `log_grant_event` |
| `recall`: `get` and `touch`, then `put` | `Recall`, `WriteBack` |
| the judgement of importance: `get`, `apply_importance`, `put` | `Judge`, `WriteBack` |
| `delete` | `Delete` |
| `search_all`: four threads, each `list` and score, then the ranking | `Search`, `ListEntry`, `ListEnds`, `SearchEnds`, `SearchReturns` |
| `flush`, `open` | `Flush`, `Open`; `Crash` |

One access to a tree is atomic (`sled`, external), a method is not. The iterator of `list` is
not a snapshot: it reads each entry as it is when it gets there. A crash leaves what the last
flush saw or what is there now; the states in between are left by a crash at their own time.
A `put` of a new record that fails changes nothing and is no step. `Decay` stands for the
exponential of the score, of which the model assumes only that it is monotone
(`DecayAssumption`); `Sorted` is the stable sort as an insertion, one hit after another; `Triggers` for the reasons a memoir is made for. `Judge` is the
orchestrator's caller. The history in `calls`: `stale` says that the record was changed or
deleted since it was read, `always` and `ever` what matched during the whole of a search, or
at some moment of it. `DebugAssertions` is `TRUE`: deleting a memoir panics
(`store.rs:102-108`); a release build deletes it.

### 2.10 CommandLine, Benchmark

The script is one thread, its steps are the places where an error ends it, counts or is
swallowed; the child is a process of its own that may print to either pipe in any order,
blocks when that pipe is full, and ends when it likes. `i = 0` is the question for the
version, before the first experiment. In `BuildCommand` the paths of models are texts:
blanks, quotes and backslashes are what the quoting is about. Ids, the names of models and the
names of their files are sequences of characters, made safe and joined with `_` as
`Get-RunFilePrefix` does (`FilePrefix`), so that two runs can have one file name
though neither id nor model is the same. A model without a name, and one that is given as a
path, is called after its file (`FileStem`). All names are in one letter case, and the wildcards
`[` and `]`, which `Set-Content -Path` would expand, are not in them. The five probes of the machine are one step, as none can fail outwards.
What is in a measurement other than the two token counts is left out.

## 3. Runs

| Run | Asks | Bounds, and why they are enough | States |
|---|---|---|---|
| `kernel_safety` | are locks, saved stacks, interrupt flag and end-of-interrupt right through every interleaving of ticks; in which ways can the kernel lock up; is it `RoundRobin`; is everyone served | none but the code's own numbers: two tasks, a print on every 18th tick, four disk calls | 74,560 |
| `fat32_safety` | are chains whole and private and the regions intact after any calls with any failures; is it `FileStore` | four clusters of two sectors: a chain of two, a second file, and a disk that is full; two FAT sectors per copy, so that a chain crosses between them; two directory entries, so that the directory fills up; three calls, two failing transfers, one start | 180,964 |
| `fat32_restart` | does a second start on whatever the first left behind format it into a clean store; does every call end | two starts, two calls, one failing transfer: the second start meets every disk the first can leave | 322,856 |
| `turn_safety` | does a grant grow only past the guardian, in a trusted category, and in a turn that says so, while rules come, fail and go | two rules (the protected one and one proposed), two false alarms with a threshold of 2, two categories that reach a threshold of 2, one purpose whose callers may use any template | 499,812 |
| `turn_life` | does every turn end; does it implement the older one, through use, dormancy, notice and revocation | the five default rules, two purposes, two days with a threshold of one: used, due, overdue | 253,648 |
| `conversation` | does the position count what the model was given, after answers and failures; which memories are strengthened; does every request come back | three memories, of which two fit the budget and one is longer than its estimate; a search cut off after two; requests with memories, without, and for too much context, of at most two new tokens; two requests, so that the second begins where the first left off | 157,720 |
| `conflict` | can two purposes end up with one resource, who loses what and why, is a free port preferred | three purposes, so that a third can take what two argue about; a range of two ports, one of them used by another program for the other protocol; a wanted port outside the range and a resource that is no port; two conflicts at once; what is held stops being taken at two, but conflicts may add a third; answers with one winner, with two, with none, and one nobody can read | 1,169,503 |
| `proposals` | does a proposed rule or template say what the model's answer says; is a known purpose found | answers of up to five lines out of eleven (three out of eight for templates), which include a repeated key, a decorated key, details that fit and do not; one template added to the catalogue; every description of a purpose of up to four characters, and longer ones with two runs of letters | 1,069,065 |
| `kernel_policy` | does each of the kernel's three engines take only steps of the original, and answer alike | a sixth rule that may bear the name of a protected rule, of an unprotected one, or a new one; thresholds of 2, 2 and 1; three ticks; one purpose with two templates; an event for every detection method, and one just short of it | 233,280 |
| `memory_store` | what do concurrent calls, crashes and deletions do to memories, and what does a search miss | two threads, so that one call can come between the steps of another; two records, of which a search returns one (the theorem about `SearchFinds` is for every limit); three changes of trees, two of them to make the records; three of the four categories (the fourth is used like System); one search at a time; a day, which no call lasts through | 1,849,550 |
| `benchmark` | does the script end, count right, keep the text its rows come from, and pass its arguments | two experiments out of eight kinds (found by id, name, path, as a file, or not; models with a name of their own and without; with two numbers of layers, one, none, and `[0]`); ids that differ only in a character file names may not have, and an id and a model that, joined, are another id and another model; pipes that hold one chunk of at most three; a model's path of up to three characters of four kinds | 81,816 |

Thresholds are smaller than in the code (5 alarms, a trust of 5.0 which is 10 halves, 30
days): no action compares them with anything but the counter, and the theorems of section
5 hold for all of them. `CategorySymmetry` is sound: categories are only compared with each
other, and that run has no liveness property.

Deadlock. `kernel_safety` says `CHECK_DEADLOCK FALSE` because the kernel does lock up; the
ways in which it does are a property. The FAT32 runs say it because the calls are bounded.
`benchmark` says it because
the script ends. All other runs check for deadlock.

`Sym` of `conflict` (purposes) and of `memory_store` (threads) is sound: purposes and threads
are only compared, and the runs have no liveness property; in `conflict` the properties
quantify over all of them.

`TypeOK` of every module, `IfMatchesCode`, `ManyAlarmsRelax`, `WithinTemplate`,
`DormantMeansUnused`, `RevokedStaysRevoked` and `BudgetKept` were model-checked, are proved
(section 5) and have given their place in the runs to what is not.

### 3.1 Properties

* `SwitchHoldsNoLock`, `SavedStacksMatch`, `InServiceOnlyBeforeEoi`: the
  warnings in the comments of `schedule`, `switch_to` and `timer_interrupt_handler`, each of
  which a change of two lines breaks and which shows only at a later tick, in another flow.
* `LocksUpOnlyIn3Ways`: the complete list of the states in which the kernel is stuck.
* `RoundRobinSpec`, `EveryFlowRuns`: the order of service; nobody starves while the kernel
  lives.
* `ChainsSound`, `NoCrossLink`, `NoLeak`, `CopiesAgree`, `RegionsKept`: the disk. All
  but `NoLeak` hold whatever has failed; `NoLeak` holds until a write fails, and not after (an
  error after `allocate_cluster_chain` leaves clusters that nobody owns). `CopiesAgree` says
  that the copies of the FAT agree about the clusters of every file at any time, and about all
  clusters between two calls as long as nothing has failed. An error between the two writes of
  `write_fat_entry` leaves them different for good, but only about a cluster that is lost with it:
  it is not free any more, so it never comes to belong to a file.
* `StoreSpec`: what is left of it for the callers. It says what the code does, so the first
  write of a name wins; see `fat32_readback`.
* `CallsEnd`: every call returns, on damaged disks too, unless it is led astray.
* `GrowthRespectsGuardian`, `GrowthNeedsTrust`, `OnlyExpandedTurnsGrant`: action properties
  about the step that extends a grant, which comes several steps after the verdict it
  relies on.
* `SanctuaryStands`: whatever is counted against it, a protected rule stays on.
* `TurnsEnd`, and `OldSpec`: to its callers a turn with the guardian is a turn without it, in
  which some requests fail early. It contains what dormancy, revocation, trust and the limit
  of the template have to do with each other, since the older turn's rules are the same.
* `AnswersAccounted`, `FailuresAccounted`: the position after a request. It is moved in two
  places, skipped by the early returns, and wrong by one token for ever after if the stop
  token or the last token is counted differently from how it was fed. A request that is refused,
  or that fails before the model has been given anything, leaves the position where it was.
* `OnlyAdoptedStrengthened`: a memory gains by being used, not by being found, although it is
  strengthened before the request is known to succeed.
* `RequestsEnd`: every request comes back, as the fairness of the turn assumes.
* `SharedOnlyByRace`: nothing reserves the port that `resolve` has found (`conflict.rs:61`), so
  two purposes can be sent to the same one; that, and the like of it, is the *only* way.
* `IsolatedFirst`, `LosesByVerdict`: the model is asked only when no port is left, up to the
  last one of the range, and nobody loses anything by an answer that does not clearly name
  the other one. A doubled key is decided by its last line.
* `RulesSayWhatWasAnswered`, `TemplatesPermitWhatWasListed`: what is made of the model's text,
  against what each line of it says, in particular for `PROTECTED` and for capabilities that
  cannot be read.
* `FoundByKeywords`: the loop over the characters against maximal runs of letters, and the
  first template found against all of them.
* `SameDesign`, `SameAnswers`: "the design is identical" of the three comments in the kernel,
  as a step-by-step comparison with the originals.
* `OnlyStaleCopiesUndo`: a recall or a judgement writes back what it read earlier, and may
  weaken a memory or bring it back after `delete`; nothing else may.
* `FlushedMemoirsStand`: the first-day memories survive deletions, stale copies and crashes.
* `SearchFinds`, `UsedFirst`: a search in four threads over trees that change.
* `EndsUnlessJammed`: the script waits for ever exactly when the child has filled standard
  error before it closed standard output (`run.ps1:138`).
* `CountsAgree`: what the counts of the summary count. A run that does not start is counted
  as a failed experiment, and its experiment is counted again at its end, so the two numbers
  add up to the total only if every run started.
* `RowsHaveRawText`: the text a row comes from is on the disk, unless a later run with as many
  layers has written over it; and that run has the same safe id and the same safe model name, or
  the id of one of the two runs and the model name of the other have a `_`. The last is a row that lost its text to a run of
  something else.
* `ArgumentsArrive`: quoting by regular expressions, against how a program splits its
  command line.

### 3.2 Fairness

* Kernel: the CPU executes, so the handler's steps and the first instruction of a task are
  weakly fair: with interrupts masked nothing takes the CPU from them. The timer goes on
  and a pending tick is taken (weak). A flow's own code is interrupted for ever, so weak
  fairness would say nothing of it; a tick is millions of instructions long, so a step that
  is possible in infinitely many of the flow's turns is taken (strong), for what
  `kernel_main` has to do and for leaving `_print`. That a task prints is not assumed.
* FAT32: weak fairness of `Step`. The call has the CPU and the drive answers; the waits of
  `ata.rs` have no limit, and a drive that never answers is outside the model.
* Turn: weak fairness of `TurnStep`. Its calls return: that is `RequestsEnd` of
  `Conversation`, for the two that take time.
* Benchmark: weak fairness of `Script` and of `Child`: the script goes on when it can, and a
  process that has neither ended nor is blocked prints on or ends; it prints finitely much.
* Conversation: weak fairness of `RequestStep`. A step is one search over finite data, one
  line of the prompt, or one call of the tokenizer or of the model; that these library calls
  return is assumed.

## 4. What the code does and its comments deny

One of these has a run of its own, in which TLC finds the property violated:
`fat32_readback`, in 28 steps. A second `write_file` of a name reports success, and `read_file`
of that name gives the content of the first: `ReadsBackWhatWasWritten`, which asks only about
names that were written. The two names of this run have different 8.3 forms, so that the
truncation `dir.rs:34-36` documents has no part in it.

Five more have a property in their module that TLC violates when it is named in a cfg like
that of the run next to it:

| Property | Beside | Steps | What happens |
|---|---|---|---|
| `TicksKeepOccurring` | `kernel_safety` | 21 | a tick interrupts a flow inside `_print`; the handler's own `serial_println!` spins on `SERIAL1` with interrupts masked |
| `RootStaysReserved` | `fat32_safety` | 4 | `format` fails early, `kernel_main` only logs it, and `write_file` is given the root directory's cluster |
| `RevokedNeverGrows` | `turn_life` | 11 | a turn extends a grant the user has revoked |
| `GrantedIsTold` | `turn_safety` | 7 | the model fails after the grant was extended: the caller gets an error, the user is not told, the extension stays |
| `RequestStaysInContext` | `conversation` | 11 | a request whose caller kept to the budget gives the model more tokens than its `context_length`, because the budget is kept by estimates and the sum is never counted |

Seen while modelling, without a property:

* a tick during `scheduler::init` or `spawn` finds `SCHEDULER` held and spins for ever; it is
  the second of the three ways of `LocksUpOnlyIn3Ways`;
* `format` begins with `serial_println!` (`format.rs:146`) although its caller has masked
  interrupts: if a task was preempted inside `_print` the kernel spins for ever. It is the
  third of those ways, against the comment at `main.rs:188-189`;
* a grant used again after its dormancy notice went out is active, and is revoked all the
  same by the late answer to the notice (`grant.rs:117`);
* over several requests `position` passes `max_context` as well: nothing compares the two and
  nothing resets it (`candle_backend.rs:151`, `200`);
* after a failed transfer the copies of the FAT differ (`dir.rs:73`, `dir.rs:99`), though never
  about a cluster of a file; only copy 0 is ever read;
* runs of different experiments write the same raw file: id `x` with model `y_z` and id `x_y`
  with model `z` both give `x_y_z_ngl20` (`run.ps1:783-787`), and the later text replaces the
  earlier one, whose row stays in the table;
* `new` and `expand` do not compare the template they are given with the grant's own
  (`grant.rs:61`, against the comment at lines 39-40);
* `record_false_positive` answers `Ok(true)` ("relaxed now") again for every alarm after the
  rule has been relaxed (`arona_guardian/src/engine.rs:103`, `113`);
* approvals need not be "in a row": nothing resets a score
  (`arona_adaptive/src/engine.rs:4`, `42`);
* a turn that is blocked does not hand the `Intervention` to its caller, so the caller has
  nothing to give to `log_intervention`;
* a rule the model proposes with `PROTECTED: true` can never be relaxed again, and one whose
  `DETAIL` is nothing but decoration is a signature of the empty text, which every path
  contains; unless it says `PROTECTED: false` it is protected, too (`guardian_bridge.rs:75`).
  `Heartbeat` accepts 0;
* a `CAPABILITY` line with decoration is left out in silence, although keys are read without
  it everywhere else (`permissions_bridge.rs:69`, against the comment at
  `guardian_bridge.rs:125-130`);
* a purpose without three ASCII letters or digits in a row matches nothing, not even the
  template that was proposed for it: the model is asked again each time
  (`catalog_bridge.rs:39`);
* two purposes in conflict are sent to the same free port, although `conflict.rs:4-5` says
  that conflicts are solved by isolation;
* a recall undoes a judgement of importance made after it has read the record, and brings a
  record back that was deleted meanwhile (`store.rs:79-84`);
* `gpu_layers` of `[0]` or 0, a run on the CPU, is false to PowerShell and becomes 99
  (`run.ps1:634-658`);
* the results of all experiments are only in memory until the end: an error outside a `try`,
  such as a full disk under `Set-Content`, loses them; a run that fails in the middle of its
  measurements leaves those before it in the table though it is not counted as a success.

## 5. Theorems

All of them hold for every value of the constants that the named assumption allows, and are
checked by TLAPS without any unproved step.

**KernelProofs**. The preemption core first (any number of tasks, any `PrintEvery`;
`KernelAssumption`). None of
the properties is inductive: that a slot of the scheduler holds the right stack depends on
who is suspended where. `IInv` adds

* `ProgramsOK`: flows are at labels of their own program;
* `LocksMatch`: a lock is held exactly by the flow whose code or handler frame is inside it;
* `SuspendedOK`, `InterruptedOK`: a flow that is not on the CPU is at `"iret"` or has never
  run, and is interrupted only where interrupts were on;
* `RotationOK`, `NextInTurn`, `ProgressOK`: the registered flows are `0..nctx-1` with `nctx`
  following the progress of `kernel_main`, and the flow picked is the successor;
* `SpawnAlone`, `FormatQuiet`: while `kernel_main` holds `SCHEDULER` nobody else has the CPU,
  and once `format` has printed its first line no task is inside `_print`, so that its
  second line cannot spin.

There is one lemma per action. From `Invariance` follow `TypeCorrect`, `LockFreeSwitch`,
`SavedStacks`, `EoiBeforeLeaving`, `InterruptFlag`, `LockUps`, the refinement
`ImplementsRoundRobin`, and `LockUpIsForEver`: a locked-up kernel stays so, which is what
makes `LockedUp` deserve its name.

Then the ports of guardian, grants and trust model (any rules, events, categories, purposes and
templates; `PolicyAssumption`: the methods of rules that are added are among the seven of
`DetectionMethod`, and thresholds are numbers, the one of trust not zero). `PortsAnswerAlike`
compares answers: the arms of `match_event` with the alternatives of the original
(`MethodsMatch`), no entry with a score of zero, and the subtraction that stops at zero with
one that does not. `PortsHaveTheDesign` is the refinement, one lemma for each operation: what
`find` finds by a name is a place in the list (`FirstIs`), so a name that two rules bear still
means one, which the original may choose as well; what is left of a rule without its name after an
alarm is what the original makes of it (`AlarmIsAlarm`), and so for grants. Both need
`PolicyIInv`, the types with one thing more: that no grant was used in the future.

**Fat32Proofs** (any geometry, names, contents and bounds; `LayoutAssumption`,
`CallerAssumption`). First the arithmetic, which the small disk of TLC exercises at one
geometry only: `ClusterSectorsOnDisk` and `ClusterSectorsDistinct` (the sectors of different
clusters are different and inside the data area), `FatSectorsInTheirCopy` and
`FatEntriesDistinct` (different clusters have different entries, within their copy).

The regions and the copies. `RegionsKept` speaks of a formatted disk and `CopiesAgree` of the
files and of an idle one; `IInv` says what leads there:

* `DiskKept`: what holds of the regions whether `format` succeeded or not;
* `FormatProgress`: what `format` has written after so many sectors (`FatPart`, `RootPart`),
  from the lemma `Plan` on its list of writes;
* `WritesPaired`: the entry writes still to do come in pairs, copy 0 and then copy 1;
* `CopiesPaired`: while nothing has failed the copies differ at most in the entry whose second
  write is due; and whatever has failed, a cluster that copy 0 calls free is free in copy 1 too;
* `RootReserved`: on a formatted disk the root's entry is not free and nothing links to it,
  without which data could be written into the directory;
* `Control`: which locals are set where.

`FatEntryWritten` shows that one round of `write_fat_entry` changes one entry of one copy,
by the arithmetic above. From `IInv` follow `TheRegionsAreKept` and `OnlyAFailedFormatGivesTheRootAway`: `RootStaysReserved` (section 4) is violated only
because `kernel_main` goes on after a `format` that failed.

The chains: `TheChainsAreSound`, `FilesShareNoCluster`, `WritesLeakNothing`. `ChainInv` adds to
`IInv`

* `DirectoryKept`: the root holds directory sectors and nothing else;
* `FilesChained`: every entry has its chain (`HasChain`), and no two share a cluster. This is
  what the three properties say together, but no step keeps it alone;
* `OwnChain`: the clusters that `write_file` has allocated are in a row (`Owned`): each is
  linked to the next in copy 0 of the FAT or will be by an entry write that is still due, none
  is a file's, and as long as nothing has failed they, the root and the files are all that is
  not free (`Accounted`). It holds through the two writes of a link, between which the
  two copies and the chain in memory are all different. Each of them is in both copies alike,
  or will be by a write that is still due (`Mirrored`);
* `CopiesKept`: the copies are the same on the clusters of every file. It takes `Mirrored` over
  when the directory entry makes a chain a file's, and gives `TheCopiesAgree`;
* `FollowsChain`: `read_file` is at a cluster of the chain of the file it found, in the part
  of it where the place in the file is, so it cannot be led astray;
* `CallControl`: what the locals hold at each place.

`Chain` is a recursive function, and what it computes needs induction along the chain. It is
done where it can be done: a chain is characterised without recursion by its neighbours
(`ChainIs`), and what is true of its first element and passes from each to the next is true
of all by a least number (`UpTo`). That every cluster of a chain that is written over was free
before gives the rest: a step changes at most one entry of copy 0, and that entry is no
file's.

The store, in the same module: `TheDiskIsAStore`: the driver, sector by sector,
with failing transfers and restarts, implements `FileStore` (`StoreSpec`). The refinement
mapping takes the first entry of a name and reads its chain, so two more things must be
invariant beside `ChainInv`: that entries are used from the first on without a gap
(`UsedFirst`, else a new entry could come before an old one of the same name), and that each
entry's content is whole (`FilesWhole`). The others say how far a call is: what of the data is
already in the call's own chain (`DataDone`), which directory sectors it has found full
(`DirScan`), in which the name is not (`LookScan`), and that what has been read is the
beginning of what the store holds (`ReadSoFar`). Of the actions, one per operation is a step
of the store: the directory entry's write, the last chunk's read, the end of `format`, a
failure, a restart. Every other action is shown to change nothing that the mapping sees.

The types, in the same module: `TypeCorrect`. Only a formatted disk keeps FAT entries in the
FAT, so after a `format` that failed the driver may read any sector as anything. `TypeInv`
therefore says what any sector may hold anywhere (`SectorContents`), and `SectorRead` what the
driver makes of it, whichever it takes it for; that the clusters it writes are clusters rests on
`IInv`, and that what it writes is of the call's contents on `ChainInv`.

**AronaTurnProofs** (any rules, categories, templates, thresholds; `TurnAssumption`). `IInv`
is `TypeOK`, `RulesOK` (the first rules keep their method and protection, protected rules
are on, counters and switches agree), `GrantsOK` (dormant grants are old enough) and
`TurnOK` (what the turn remembers of its grant and its verdict is still so, by what the
turn borrows). From it: `TypeCorrect`, `GuardianIsRespected`, `TrustIsRequired`,
`TheSanctuaryStands`, `RefusedTurnsChangeNothing`, `AlarmsRelax`, `DormancyIsTrue`,
`RevocationIsFinal`, and `CarefulCallersStayWithin` under the assumption `StartsInTemplate`.

In the same module `TheGuardianOnlyRefuses` (`TurnAssumption`): the turn with the guardian implements the turn without it (`OldSpec`). The proof follows the mapping: what a
relaxed rule, one more false alarm, an approval, a day, a use or an extension is in the older
system's terms is a lemma each, about one rule or one grant; then one lemma for every action.
Two things are needed beside `IInv`: that a turn returns nothing before
the trust model is asked (`NothingReturned`), and where the older turn is at each place of the
newer one (`PlacesAgree`).

**ConversationProofs** (any memories, estimates, sizes, limits, requests;
`ConversationAssumption`). `IInv` is the five properties with `PositionOK` (at every label,
where the position stands relative to the prompt and the tokens so far: the answer's count
runs one ahead while a token is being fed back) and `RankedOnce` (a search names no memory
twice, without which a memory could be strengthened twice). From it: `TypeCorrect`,
`AnswersAreAccountedFor`, `FailuresAreAccountedFor`, `StrengthenedByUse`, `BudgetIsKept`.

**MemoryStoreProofs** (any threads, records, words, forgetting curve and queries;
`StoreAssumption`). First the memoirs, in debug builds only, since a release build lets
`delete` remove them. `IInv` says what a thread holds between its read and its write back: a record that was made
(`CopiesMade`), and no weaker than the one in the tree unless it is noted as stale
(`FreshCopies`); that a memoir has one reason wherever it is kept, in trees, disk, copies and
history (`OneReason`); and that what was flushed is on the disk and, while the store is open,
in its tree (`KeptOK`). From it `MemoirsAreForEver` and `OnlyStaleCopiesAreToBlame`.

Then the searches, in any build. `SInv` adds to the types

* `OneKind`: a record is, or is to be written back, in one tree only. Without it a search
  could meet a record in a tree it has left already, and miss it;
* `SearchOK`: what has matched since the search began is *seen* (`Sees`) in the tree it is in:
  it is still ahead of the iterator, or listed, or scored; and whatever is listed or scored and
  relevant has matched at some time. A thread that changes a record under the search changes
  what has matched all the time, and leaves the rest to `OneKind` (`AltersKeeps`);
* `FoundOK`: what the two properties say, of a search that is done.

For the last step the ranking is proved right (`RankedIs`): the hits of the categories are all
joined (`JoinedIs`), the stable insertion keeps the relevant ones in descending order
(`SortedIs`), and a better hit scores more (`BetterScoresMore`), for any `Decay` that does not
rise with the elapsed time nor fall with the stability (`DecayAssumption`). From it
`SearchesFindWhatIsThere` and `BetterMemoriesComeFirst`.

Both orders are of the scores as the program computes them. Two memories with the same
relevance whose `exp` rounds to the same value have the same score and keep the order of the
categories, whichever was used last: `UsedFirst` speaks of those that differ.

**ConflictProofs** (any purposes, resources, ports and answers, any number of conflicts at
once; `ConflictAssumption`). What makes sharing impossible without a race is what a conflict
under way knows: a port that it takes for free and somebody holds was raced
(`KnowsThePorts`), and so was a resource that somebody holds whom it does not take for the
holder (`KnowsTheHolder`); what it gets is the one or the other (`GetsWhatItKnows`). That the
search over the range finds the *first* free port needs a least number, by the
well-foundedness of the naturals. From it `SharingTakesARace` and `TheFirstFreePortIsTaken`.

Who loses is what the model's answer says, so the parser is proved first, for any list of
lines: a key has a value in the map exactly if the last line of the key says so (`FieldsSay`).
The parser is a function defined along the answer, and so is the proof (`UpTo`, `Recursion`,
and `LineAdded` for one line more). The invariant is `Verdicts`: a conflict decided for the one
who asked has kept an answer that says so. From it, and from what `Settle` takes away
(`StepLoses`), `LosersWereJudged`. `ConflictAssumption` says for this that the model's answers
are sequences.

**ProposalsProofs** (any lines, words, characters, purposes and numbers of lines;
`ProposalsAssumption`: lines, purposes and the characters of words are sequences). The
invariant is no more than the three properties and the types: what a call has made is kept
with what it was made of, and an answer is of the lines of its own call. The work is in the
parsers, which are shown to be right for every input:

* `FieldsSay`, as above, and from it `RuleSays`: a method has the name the answer gives it
  (`MethodIs`), and so on for each field;
* `TemplateLists`: the texts are those of the CAPABILITY lines (`TextsOf`), and a line lists
  (`Lists`, which knows nothing of trimming) what the parser reads in it (`ListsIs`): blanks
  at either end of a text change none of its words (`WordsOfPart`, `TextAfter`);
* `KeywordsAreRuns`: after any number of characters the loop has the run of letters that is
  going on and those of three that have ended (`ScanOK`). A text that ends while a run is
  going on is a text whose next character is no letter (`Closing`).

`FirstIs` puts the last together with the search in the catalogue, whose templates are words
of the answers they came of (`TemplateText`). From it `TypeCorrect`, `RulesAreFaithful`,
`TemplatesAreFaithful`, `PurposesAreFound`. What `parse_capability` makes of the words of a
text stays a definition: the property needs only that it looks at the words.

**BenchmarkProofs** (any models, experiments, layers, outputs, pipes, paths and names;
`BenchmarkAssumption`: layers, outputs and paths are sequences, and no path is empty;
`NamesAssumption`: names are sequences of characters).
The counts are right between two experiments only, so `IInv` says what they are on the way:

* `Counted`: while an experiment is under way it is in neither count, so `completed` is the
  number of the *other* experiments of which a run was taken in, `failed` makes up the
  rest together with the runs that did not start, and `succeeded` says whether this one is
  to be counted;
* `FilesNamed`: a raw file bears the name of the run that wrote it last, and only runs up to the
  one under way have written (`Saved`), so whatever has replaced the text of a row is the
  text of a later run whose file has the same name;
* `Place`, `Piped`, `RowsTyped`: where the script is in the configuration, and types.

From it `TypeCorrect`, `TheCountsAgree` and `RawTextIsKept`. For the last, `JoinedAlike`: if two
pairs of texts come out the same when joined with `_`, either they are the same pairs, or the
longer first text and the other pair's second text have a `_` in them.

The command line needs no invariant but that it is the one of the arguments (`Argued`); it
needs `TheQuotingIsUndone`, for any list of texts, none of them empty, over any characters:
what a Windows program reads back are the arguments. Quoting and reading are functions defined
along a text, so the proof is by induction along it, which is done with a set of numbers
and a least number (`UpTo`), and once for the existence of such functions (`Recursion`).
`ReadOneMore` is the step: if the reader of what has been written so far is at (word `w`,
`s` backslashes not decided) and what has been written ends in `s` backslashes (`Ends`), then after one
character more, however it is written, the same holds of one character more. It is
this agreement of the two numbers of backslashes that makes the doubling in front of a quote,
the text's own or the closing one, come out even (`ReadQuote`, `ReadArgument`). Arguments that are not
put in quotes are read by `ReadPlain`, the blank between two by `WordDoneIs`. An empty argument would be
lost (`run.ps1:92` does not quote it), which is why the theorem leaves it out; the
script has none.

Only model-checked: liveness (`EveryFlowRuns`, `CallsEnd`, `TurnsEnd`, `RequestsEnd`,
`EndsUnlessJammed`), which with `ENABLED` is beyond the prover. `ReadsBackWhatWasWritten` is
refuted. Every other property of a run is proved.

No module with a theorem uses a recursive operator.

## 6. Not modelled

* CPU exceptions and the panic handler: no modelled flow raises one.
* Heap, paging, RTC: set up once before anything runs concurrently, or port reads
  whose values are only printed.
* ATA errors that the drive reports *after* the data went out: `write_sector` does not look
  at them (`ata.rs:93`), so a transfer can be lost in silence. The model's transfers fail
  before they move anything.
* `to_short_name` on names outside ASCII, which the comment at `dir.rs:36` excludes. Names
  are model values and `ShortName` a map in which two of them meet (in `fat32_readback` none do).
* The bytes of the boot sector, FSInfo, dates and attributes.
* The wording of prompts, embeddings and their scores, the language model itself.
* `arona_workspace` beyond its turn: memory, cognition and bridges are the same text but for
  the splitting of queries into words (`arona_memory/src/search.rs`), the decoration of keys
  (`guardian_bridge.rs`) and the choice of a device (`candle_backend.rs`).
* The waits of the ATA driver: `wait_not_busy` and `wait_drq` have no limit, and an absent
  drive, which reads as 0xFF, keeps them waiting for ever with interrupts masked.
* `load` of the language model and of embeddings: once, before anything else.
* Stored memories under `data/`: files of `sled`.

## 7. Plan

Done, in the order of what breaks the system first: the preemption core, the FAT32 driver,
the turn with guardian, trust and grants, the conversation with the language model; then the
conflicts over resources, the parsers of the model's answers, the store under concurrent
calls and crashes, the kernel's ports and the older turn as specifications of each other, and
the benchmark script. Left:

1. **ATA**: transfers that are lost in silence, as a second fault of `Fat32`, and the
   handshake of the drive's registers as a module of its own.
2. The frame allocator of `memory.rs`: a frame is handed out once.
