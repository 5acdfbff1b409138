---------------------------- MODULE BenchmarkProofs ----------------------------
(***************************************************************************)
(* Theorems about the benchmark script: any models and experiments, whatever *)
(* their programs print.                                                   *)
(***************************************************************************)
EXTENDS Benchmark, FiniteSetTheorems, SequenceTheorems, WellFoundedInduction, TLAPS

(***************************************************************************)
(* The inductive invariant                                                 *)
(***************************************************************************)

\* An experiment has begun and not ended.
InExperiment == i > 0 /\ pc \notin {"next", "done", "stopped"}

\* Where the script is.
Place ==
  /\ pc \in {"config", "probes", "start", "readout", "readerr", "wait", "next", "layer", "save",
             "code", "parse", "done", "stopped"}
  /\ config \in [1..NExperiments -> Experiments]
  /\ i \in 0..NExperiments /\ j \in Nat
  /\ pc \in {"config", "probes"} => i = 0
  /\ pc \in {"layer", "save", "code", "parse"} => i > 0
  /\ layers \in Seq(Nat) /\ j <= Len(layers) + 1
  /\ InExperiment =>
       /\ model = ResolveBenchmarkModel(config[i].model) /\ layers = GpuLayers(config[i])
       /\ 1 <= j /\ (pc # "layer" => j <= Len(layers))

\* The experiments of which a run was taken in.
Tried == {run[1] : run \in parsed}

\* What is counted before, and during, an experiment: it is not yet counted then.
Counted ==
  /\ succeeded \in BOOLEAN /\ completed \in Nat /\ failed \in Nat
  /\ IsFiniteSet(parsed) /\ IsFiniteSet(notStarted)
  /\ parsed \subseteq (1..i) \X Nat /\ notStarted \subseteq (1..i) \X Nat
  /\ \A run \in parsed \union notStarted : run[1] = i => run[2] < j
  /\ ~InExperiment /\ pc # "stopped" =>
       completed = Cardinality(Tried) /\ completed + failed = i + Cardinality(notStarted)
  /\ InExperiment =>
       /\ completed = Cardinality(Tried \ {i})
       /\ completed + failed = (i - 1) + Cardinality(notStarted)
       /\ succeeded <=> i \in Tried

Labels == {"pp+tg", "pp", "tg", "unknown"}

\* A run whose raw text may have been saved.
Saved(run) ==
  run[1] < i \/ (run[1] = i /\ (run[2] < j \/ (run[2] = j /\ pc \in {"code", "parse"})))

\* A file bears the name of the run that wrote it.
FilesNamed ==
  /\ \A k \in DOMAIN files : files[k] \in Nat \X Nat /\ Saved(files[k]) /\ FileOf(files[k]) = k
  /\ pc \in {"code", "parse"} =>
       FileOf(<<i, j>>) \in DOMAIN files /\ files[FileOf(<<i, j>>)] = <<i, j>>

RowsTyped == rows \in Seq([exp : Nat, layer : Nat, test : Labels])

Piped ==
  /\ child \in [alive : BOOLEAN, wants : {"none", "out", "err"}, chunks : 0..MaxChunks]
  /\ pipes \in [{"out", "err"} -> 0..PipeSize]

\* For every row the file of its run is there, written by it or by a later one.
RowsKept ==
  \A r \in ToSet(rows) :
    LET run == <<r.exp, r.layer>>
    IN  /\ FileOf(run) \in DOMAIN files
        /\ LET last == files[FileOf(run)]
           IN  /\ FileOf(last) = FileOf(run)
               /\ last[1] > run[1] \/ (last[1] = run[1] /\ last[2] >= run[2])

IInv == Place /\ Piped /\ Counted /\ FilesNamed /\ RowsTyped /\ RowsKept

LEMMA InitIInv == Init => IInv
<1> SUFFICES ASSUME Init PROVE IInv
  OBVIOUS
<1> USE BenchmarkAssumption DEF Init
<1>1. Place
  BY DEF Place, InExperiment
<1>2. Piped
  BY DEF Piped, NoProcess, EmptyPipes
<1>3. Counted
  <2>1. Tried = {}
    BY DEF Tried
  <2>2. IsFiniteSet({}) /\ Cardinality({}) = 0
    BY FS_EmptySet
  <2>3. Cardinality(Tried) = 0 /\ Cardinality(notStarted) = 0 /\ IsFiniteSet(parsed)
        /\ IsFiniteSet(notStarted)
    BY <2>1, <2>2
  <2>4. parsed = {} /\ notStarted = {} /\ completed = 0 /\ failed = 0 /\ i = 0 /\ succeeded = FALSE
    OBVIOUS
  <2>5. parsed \subseteq (1..i) \X Nat /\ notStarted \subseteq (1..i) \X Nat
        /\ \A run \in parsed \union notStarted : run[1] = i => run[2] < j
    BY <2>4
  <2>6. ~InExperiment
    BY DEF InExperiment
  <2>7. completed + failed = i + Cardinality(notStarted)
    BY <2>3, <2>4
  <2> HIDE DEF Init
  <2> QED BY <2>3, <2>4, <2>5, <2>6, <2>7 DEF Counted
<1>4. FilesNamed /\ RowsTyped /\ RowsKept
  BY DEF FilesNamed, RowsTyped, RowsKept, ToSet
<1> QED BY <1>1, <1>2, <1>3, <1>4 DEF IInv

(***************************************************************************)
(* The steps                                                               *)
(***************************************************************************)

CountsUnchanged == UNCHANGED <<succeeded, completed, failed, parsed, notStarted>>

\* A step that counts nothing and stays in its experiment, or outside one.
LEMMA SameCounts ==
  ASSUME Counted, CountsUnchanged, i' = i, j' >= j, j \in Nat, j' \in Nat, parsed \subseteq (1..i) \X Nat,
         pc' # "stopped" => InExperiment' = InExperiment /\ pc # "stopped",
         pc' = "stopped" => ~InExperiment'
  PROVE  Counted'
<1>1. Tried' = Tried
  BY DEF Tried, CountsUnchanged
<1>2. \A run \in parsed \union notStarted : run[2] \in Nat
  BY DEF Counted
<1> QED BY <1>1, <1>2 DEF Counted, CountsUnchanged

\* A step that does not touch the files.
LEMMA SameFiles ==
  ASSUME Place, FilesNamed, RowsTyped, RowsKept, UNCHANGED <<config, files, rows>>,
         i' \in Nat, j' \in Nat,
         \/ i' = i + 1
         \/ i' = i /\ (j' = j + 1 \/ (j' = j /\ (pc \in {"code", "parse"} => pc' \in {"code", "parse"}))),
         pc' \in {"code", "parse"} => pc \in {"code", "parse"} /\ i' = i /\ j' = j
  PROVE  FilesNamed' /\ RowsTyped' /\ RowsKept'
<1>1. \A run : FileOf(run)' = FileOf(run)
  BY DEF FileOf, ExperimentOf, ModelOf, LayersOf
<1>2. RowsKept' /\ RowsTyped'
  BY <1>1 DEF RowsKept, RowsTyped
<1>3. \A run \in Nat \X Nat : Saved(run) => Saved(run)'
  BY DEF Saved, Place
<1>4. FilesNamed'
  BY <1>1, <1>3 DEF FilesNamed
<1> QED BY <1>2, <1>4

\* Where the script goes.
LEMMA PlaceKept ==
  ASSUME IInv, Script
  PROVE  Place'
<1> USE BenchmarkAssumption DEF IInv, Place, InExperiment
<1>1. CASE Configure \/ Probe
  BY <1>1 DEF Configure, Probe
<1>2. CASE Prepare
  <2> DEFINE e == config[i + 1]
  <2>1. i + 1 \in 1..NExperiments /\ e \in Experiments /\ i' = i + 1 /\ j' = 1 /\ config' = config
        /\ pc' \in {"layer", "stopped"} /\ model' = ResolveBenchmarkModel(e.model)
        /\ layers' = GpuLayers(e)
    BY <1>2 DEF Prepare
  <2>2. GpuLayers(e) \in Seq(Nat)
    BY <2>1 DEF GpuLayers
  <2> QED BY <2>1, <2>2
<1>3. CASE BuildCommand \/ Start \/ ReadEnds
  BY <1>3 DEF BuildCommand, Start, ReadEnds
<1>4. CASE ReadChunk \/ WaitForExit
  BY <1>4 DEF ReadChunk, scriptVars, WaitForExit
<1>5. CASE CheckExitCode
  BY <1>5 DEF CheckExitCode, NextRun
<1>6. CASE Skip \/ EndExperiment \/ Report
  BY <1>6 DEF Skip, EndExperiment, Report
<1>7. CASE StartFails
  BY <1>7 DEF StartFails, NextRun
<1>8. CASE SaveRaw
  BY <1>8 DEF SaveRaw
<1>9. CASE ParseJson
  BY <1>9 DEF ParseJson, NextRun
<1> QED BY <1>1, <1>2, <1>3, <1>4, <1>5, <1>6, <1>7, <1>8, <1>9 DEF Script

\* What the process and its pipes hold.
LEMMA PipedKept ==
  ASSUME IInv, Next
  PROVE  Piped'
<1> USE BenchmarkAssumption DEF IInv, Piped
<1>1. CASE Start
  BY <1>1 DEF Start, Process, EmptyPipes
<1>2. CASE ReadChunk
  <2> HIDE DEF IInv, Piped
  <2>1. PICK stream \in {"out", "err"} :
          pipes[stream] > 0 /\ pipes' = [pipes EXCEPT ![stream] = @ - 1] /\ child' = child
    BY <1>2 DEF ReadChunk
  <2>2. pipes \in [{"out", "err"} -> 0..PipeSize] /\ pipes[stream] - 1 \in 0..PipeSize
    BY <2>1 DEF IInv, Piped
  <2> QED
    BY <2>1, <2>2 DEF IInv, Piped
<1>3. CASE Configure \/ Probe \/ Skip \/ Prepare \/ BuildCommand \/ EndExperiment \/ StartFails
           \/ ReadEnds \/ WaitForExit \/ SaveRaw \/ CheckExitCode \/ ParseJson \/ Report
  <2>1. UNCHANGED <<child, pipes>>
    BY <1>3, Zenon DEF Configure, Probe, Skip, Prepare, BuildCommand, EndExperiment, StartFails, ReadEnds,
      WaitForExit, SaveRaw, CheckExitCode, ParseJson, Report
  <2> QED BY <2>1
<1>4. ASSUME NEW pipe \in {"out", "err"}, ChildPrints(pipe)
      PROVE  Piped'
  <2>1. child.chunks \in 1..MaxChunks /\ child.chunks - 1 \in 0..MaxChunks
    BY <1>4 DEF ChildPrints
  <2>2. child' = [child EXCEPT !.wants = pipe, !.chunks = child.chunks - 1] /\ pipes' = pipes
    BY <1>4, Zenon DEF ChildPrints
  <2>3. child' \in [alive : BOOLEAN, wants : {"none", "out", "err"}, chunks : 0..MaxChunks]
    <3> DEFINE less == child.chunks - 1
    <3>1. less \in 0..MaxChunks
      BY <2>1
    <3> HIDE DEF less
    <3>2. child' = [child EXCEPT !.wants = pipe, !.chunks = less]
      BY <2>2, Zenon DEF less
    <3> QED BY <3>1, <3>2
  <2> QED BY <2>2, <2>3
<1>5. CASE ChildWrites
  BY <1>5 DEF ChildWrites
<1>6. CASE ChildExits
  BY <1>6 DEF ChildExits, NoProcess
<1> QED BY <1>1, <1>2, <1>3, <1>4, <1>5, <1>6 DEF Next, Script, Child

\* The counts: they change where an experiment is left out, begins or ends, where a run
\* does not start, and where one is taken in.
LEMMA CountedKept ==
  ASSUME IInv, Script
  PROVE  Counted'
<1> USE DEF IInv, Place
<1>0. Place'
  BY PlaceKept
<1>1. parsed \subseteq (1..i) \X Nat /\ i \in Nat /\ j \in Nat /\ i' \in Nat /\ j' \in Nat
  BY <1>0 DEF Counted
<1>2. CASE Configure \/ Probe \/ BuildCommand \/ Start \/ ReadChunk \/ ReadEnds \/ WaitForExit
           \/ SaveRaw \/ CheckExitCode \/ Report
  <2>1. CountsUnchanged /\ i' = i
    BY <1>2, Zenon DEF Configure, Probe, BuildCommand, Start, ReadChunk, ReadEnds, WaitForExit, SaveRaw,
      CheckExitCode, Report, CountsUnchanged, scriptVars
  <2>2. j' >= j
    BY <1>1, <1>2 DEF Configure, Probe, BuildCommand, Start, ReadChunk, ReadEnds, WaitForExit, SaveRaw,
      CheckExitCode, Report, NextRun, scriptVars
  <2>3. pc # "stopped"
    BY <1>2 DEF Configure, Probe, BuildCommand, Start, ReadChunk, ReadEnds, WaitForExit, SaveRaw,
      CheckExitCode, Report
  <2>4. pc' # "stopped" => InExperiment' = InExperiment
    BY <1>2, <1>1 DEF Configure, Probe, BuildCommand, Start, ReadChunk, ReadEnds, WaitForExit, SaveRaw,
      CheckExitCode, Report, NextRun, InExperiment, scriptVars
  <2>5. pc' = "stopped" => ~InExperiment'
    BY DEF InExperiment
  <2> QED BY <1>1, <2>1, <2>2, <2>3, <2>4, <2>5, SameCounts
<1>3. \A run \in parsed : run[1] \in 1..i
  BY <1>1
<1>4. IsFiniteSet(Tried) /\ Tried \subseteq 1..i
  <2>1. Tried \subseteq 1..i
    BY <1>3 DEF Tried
  <2>2. IsFiniteSet(1..i)
    BY <1>1, FS_Interval
  <2> QED BY <2>1, <2>2, FS_Subset
<1>5. CASE Skip
  <2>1. i' = i + 1 /\ failed' = failed + 1 /\ UNCHANGED <<pc, j, succeeded, completed, parsed, notStarted>>
        /\ pc = "next"
    BY <1>5 DEF Skip
  <2>2. ~InExperiment /\ ~InExperiment' /\ Tried' = Tried
    BY <2>1 DEF InExperiment, Tried
  <2>3. \A run \in parsed \union notStarted : run[1] # i + 1
    BY <1>1 DEF Counted
  <2>4. /\ succeeded \in BOOLEAN /\ completed \in Nat /\ failed \in Nat
        /\ IsFiniteSet(parsed) /\ IsFiniteSet(notStarted)
        /\ completed = Cardinality(Tried) /\ completed + failed = i + Cardinality(notStarted)
    BY <2>1, <2>2, Zenon DEF Counted
  <2>5. Cardinality(notStarted) \in Nat
    BY <2>4, FS_CardinalityType
  <2>6. completed' = Cardinality(Tried') /\ completed' + failed' = i' + Cardinality(notStarted') /\ failed' \in Nat
    <3> HIDE DEF IInv, Place
    <3> QED BY <1>1, <2>1, <2>2, <2>4, <2>5
  <2>7. parsed' \subseteq (1..i') \X Nat /\ notStarted' \subseteq (1..i') \X Nat
    <3>1. parsed \subseteq (1..i) \X Nat /\ notStarted \subseteq (1..i) \X Nat
      BY DEF Counted
    <3>2. 1..i \subseteq 1..i'
      BY <1>1, <2>1
    <3> QED BY <2>1, <3>1, <3>2
  <2>8. \A run \in parsed' \union notStarted' : run[1] = i' => run[2] < j'
    BY <2>1, <2>3
  <2>9. succeeded' \in BOOLEAN /\ completed' \in Nat /\ IsFiniteSet(parsed') /\ IsFiniteSet(notStarted')
    BY <2>1, <2>4, Zenon
  <2> QED BY <2>2, <2>6, <2>7, <2>8, <2>9, Zenon DEF Counted
<1>6. CASE Prepare
  <2>1. i' = i + 1 /\ succeeded' = FALSE /\ UNCHANGED <<completed, failed, parsed, notStarted>>
        /\ pc = "next" /\ pc' \in {"layer", "stopped"}
    BY <1>6, Zenon DEF Prepare
  <2>2. ~InExperiment /\ Tried' = Tried /\ i + 1 \notin Tried /\ Tried \ {i + 1} = Tried
    BY <1>1, <1>4, <2>1 DEF InExperiment, Tried
  <2>3. \A run \in parsed \union notStarted : run[1] # i + 1
    BY <1>1 DEF Counted
  <2>4. completed = Cardinality(Tried) /\ completed + failed = i + Cardinality(notStarted)
    BY <2>1, <2>2, Zenon DEF Counted
  <2>5. i' - 1 = i /\ i' \notin Tried' /\ Tried' \ {i'} = Tried
    BY <1>1, <2>1, <2>2
  <2>6. InExperiment' =>
          /\ completed' = Cardinality(Tried' \ {i'})
          /\ completed' + failed' = (i' - 1) + Cardinality(notStarted')
          /\ succeeded' <=> i' \in Tried'
    BY <2>1, <2>4, <2>5
  <2>7. ~InExperiment' => pc' = "stopped"
    BY <1>1, <2>1 DEF InExperiment
  <2>8. /\ succeeded' \in BOOLEAN /\ completed' \in Nat /\ failed' \in Nat
        /\ IsFiniteSet(parsed') /\ IsFiniteSet(notStarted')
        /\ parsed' \subseteq (1..i') \X Nat /\ notStarted' \subseteq (1..i') \X Nat
    <3>1. succeeded' \in BOOLEAN /\ completed' \in Nat /\ failed' \in Nat
      BY <2>1, Zenon DEF Counted
    <3>2. IsFiniteSet(parsed') /\ IsFiniteSet(notStarted')
      BY <2>1, Zenon DEF Counted
    <3>3. parsed \subseteq (1..i) \X Nat /\ notStarted \subseteq (1..i) \X Nat
      BY DEF Counted
    <3>4. 1..i \subseteq 1..i'
      BY <1>1, <2>1
    <3> QED BY <2>1, <3>1, <3>2, <3>3, <3>4
  <2>9. \A run \in parsed' \union notStarted' : run[1] = i' => run[2] < j'
    BY <2>1, <2>3
  <2> QED BY <2>6, <2>7, <2>8, <2>9, Zenon DEF Counted
<1>7. CASE EndExperiment
  <2>1. /\ pc = "layer" /\ pc' = "next" /\ UNCHANGED <<i, j, succeeded, parsed, notStarted>>
        /\ IF succeeded THEN completed' = completed + 1 /\ UNCHANGED failed
                        ELSE failed' = failed + 1 /\ UNCHANGED completed
    BY <1>7, Zenon DEF EndExperiment
  <2>2. InExperiment /\ ~InExperiment' /\ Tried' = Tried
    BY <2>1 DEF InExperiment, Tried
  <2>3. /\ completed = Cardinality(Tried \ {i}) /\ completed + failed = (i - 1) + Cardinality(notStarted)
        /\ succeeded <=> i \in Tried
    BY <2>2, Zenon DEF Counted
  <2>4. Cardinality(Tried) = IF i \in Tried THEN Cardinality(Tried \ {i}) + 1 ELSE Cardinality(Tried \ {i})
    <3>1. Cardinality(Tried) \in Nat /\ Cardinality(Tried \ {i}) = IF i \in Tried THEN Cardinality(Tried) - 1
                                                                   ELSE Cardinality(Tried)
      BY <1>4, FS_RemoveElement, FS_CardinalityType
    <3> QED BY <3>1
  <2>5. Cardinality(notStarted) \in Nat /\ completed \in Nat /\ failed \in Nat /\ succeeded \in BOOLEAN
    BY FS_CardinalityType DEF Counted
  <2>6. completed' = Cardinality(Tried') /\ completed' + failed' = i' + Cardinality(notStarted')
    BY <1>1, <2>1, <2>2, <2>3, <2>4, <2>5
  <2>7. completed' \in Nat /\ failed' \in Nat
    BY <2>1, <2>5
  <2> QED BY <2>1, <2>2, <2>6, <2>7 DEF Counted
<1>8. CASE StartFails
  <2>1. CASE i = 0
    <3>1. CountsUnchanged /\ i' = i /\ j' = j /\ pc = "start" /\ pc' = "next"
      BY <2>1, <1>8 DEF StartFails, CountsUnchanged
    <3> QED BY <1>1, <2>1, <3>1, SameCounts DEF InExperiment
  <2>2. CASE i # 0
    <3>1. /\ pc = "start" /\ pc' = "layer" /\ j' = j + 1 /\ failed' = failed + 1
          /\ notStarted' = notStarted \union {<<i, j>>} /\ UNCHANGED <<i, succeeded, completed, parsed>>
      BY <2>2, <1>8 DEF StartFails, NextRun
    <3>2. InExperiment /\ InExperiment' /\ Tried' = Tried
      BY <1>1, <2>2, <3>1 DEF InExperiment, Tried
    <3>3. <<i, j>> \notin notStarted
      BY <1>1 DEF Counted
    <3>4. IsFiniteSet(notStarted) /\ Cardinality(notStarted) \in Nat
      BY FS_CardinalityType DEF Counted
    <3>5. IsFiniteSet(notStarted') /\ Cardinality(notStarted') = Cardinality(notStarted) + 1
      BY <3>1, <3>3, <3>4, FS_AddElement
    <3>6. /\ completed = Cardinality(Tried \ {i})
          /\ completed + failed = (i - 1) + Cardinality(notStarted)
          /\ succeeded <=> i \in Tried
      BY <3>2, Zenon DEF Counted
    <3>7. completed \in Nat /\ failed \in Nat /\ completed' + failed' = (i' - 1) + Cardinality(notStarted')
      <4>1. completed \in Nat /\ failed \in Nat
        BY Zenon DEF Counted
      <4> HIDE DEF IInv, Place
      <4> QED BY <4>1, <1>1, <3>1, <3>4, <3>5, <3>6
    <3>8. notStarted' \subseteq (1..i') \X Nat
      BY <1>1, <2>2, <3>1 DEF Counted
    <3>9. \A run \in parsed' \union notStarted' : run[1] = i' => run[2] < j'
      <4>1. \A run \in parsed \union notStarted : run[1] = i => run[2] < j /\ run[2] \in Nat
        BY <1>1 DEF Counted
      <4> QED BY <4>1, <1>1, <3>1
    <3> QED BY <1>1, <3>1, <3>2, <3>5, <3>6, <3>7, <3>8, <3>9 DEF Counted
  <2> QED BY <2>1, <2>2
<1>9. CASE ParseJson
  <2>1. /\ pc = "parse" /\ pc' = "layer" /\ j' = j + 1 /\ UNCHANGED <<i, completed, failed, notStarted>>
        /\ \/ UNCHANGED <<succeeded, parsed>>
           \/ succeeded' = TRUE /\ parsed' = parsed \union {<<i, j>>}
    BY <1>9 DEF ParseJson, NextRun
  <2>2. InExperiment /\ InExperiment'
    BY <1>1, <2>1 DEF InExperiment
  <2>3. CASE UNCHANGED <<succeeded, parsed>>
    <3>1. CountsUnchanged
      BY <2>1, <2>3 DEF CountsUnchanged
    <3> QED BY <1>1, <2>1, <2>2, <3>1, SameCounts
  <2>4. CASE succeeded' = TRUE /\ parsed' = parsed \union {<<i, j>>}
    <3>1. Tried' = Tried \union {i}
      <4>1. \A r : r \in {run[1] : run \in parsed \union {<<i, j>>}} <=> r \in Tried \/ r = i
        <5> DEFINE now == <<i, j>>
        <5>1. now[1] = i
          OBVIOUS
        <5> HIDE DEF now
        <5>2. \A r : r \in {run[1] : run \in parsed \union {now}} <=> r \in Tried \/ r = i
          BY <5>1, Zenon DEF Tried
        <5> QED BY <5>2 DEF now
      <4>2. Tried' = {run[1] : run \in parsed \union {<<i, j>>}}
        BY <2>4 DEF Tried
      <4> QED BY <4>1, <4>2
    <3>2. Tried' \ {i} = Tried \ {i} /\ i \in Tried'
      BY <3>1
    <3>3. IsFiniteSet(parsed')
      BY <2>4, FS_AddElement DEF Counted
    <3>4. parsed' \subseteq (1..i) \X Nat
      BY <1>1, <2>1, <2>4, <2>2 DEF InExperiment
    <3>5. \A run \in parsed' \union notStarted' : run[1] = i' => run[2] < j'
      <4>1. \A run \in parsed \union notStarted : run[1] = i => run[2] < j /\ run[2] \in Nat
        BY <1>1 DEF Counted
      <4> QED BY <4>1, <1>1, <2>1, <2>4
    <3>6. completed = Cardinality(Tried \ {i}) /\ completed + failed = (i - 1) + Cardinality(notStarted)
      BY <2>2, Zenon DEF Counted
    <3> QED BY <2>1, <2>2, <2>4, <3>2, <3>3, <3>4, <3>5, <3>6 DEF Counted
  <2> QED BY <2>1, <2>3, <2>4
<1> QED BY <1>2, <1>5, <1>6, <1>7, <1>8, <1>9 DEF Script

\* A set of numbers has a least one.
LEMMA LeastNumber ==
  ASSUME NEW S \in SUBSET Nat, S # {}
  PROVE  Min(S) \in S /\ \A n \in S : Min(S) <= n
<1> DEFINE Below == OpToRel(<, Nat)
<1>1. Below = {ss \in Nat \X Nat : ss[1] < ss[2]}
  BY Zenon DEF OpToRel
<1>2. \E m \in S : \A n \in S : <<n, m>> \notin Below
  BY NatLessThanWellFounded, WFMin
<1> HIDE DEF Below
<1>3. \A m, n \in Nat : <<n, m>> \notin Below => m <= n
  BY <1>1
<1>4. \E m \in S : \A n \in S : m <= n
  BY <1>2, <1>3
<1> QED
  BY <1>4 DEF Min

\* What is converted of an output is a sequence, the first part of it.
LEMMA ConvertedIs ==
  ASSUME NEW output \in Outputs \ {NotJson}
  PROVE  \E n \in Nat : DOMAIN Converted(output) = 1..n
<1> DEFINE I == {k \in 1..Len(output) : Garbled \in {output[k].prompt, output[k].gen}}
           bad == IF I # {} THEN Min(I) ELSE 0
<1>1. output \in Seq(ToSet(output)) /\ Len(output) \in Nat /\ DOMAIN output = 1..Len(output)
  BY BenchmarkAssumption
<1>2. Converted(output) = IF bad = 0 THEN output ELSE SubSeq(output, 1, bad - 1)
  BY Zenon DEF Converted, SelectInSeq
<1>3. I # {} => Min(I) \in 1..Len(output)
  <2>1. I \subseteq 1..Len(output) /\ I \in SUBSET Nat
    BY <1>1
  <2> HIDE DEF I
  <2> QED BY <2>1, LeastNumber
<1> HIDE DEF I
<1>4. CASE bad = 0
  BY <1>1, <1>2, <1>4, Zenon
<1>5. CASE bad # 0
  <2>1. bad \in 1..Len(output) /\ bad - 1 \in Nat
    BY <1>1, <1>3, <1>5
  <2>2. SubSeq(output, 1, bad - 1) = [k \in 1..(bad - 1) |-> output[k]]
    <3> HIDE DEF bad
    <3> QED BY <1>1, <2>1
  <2>3. DOMAIN Converted(output) = 1..(bad - 1)
    BY <1>2, <1>5, <2>2
  <2> HIDE DEF bad
  <2> QED BY <2>1, <2>3, Zenon
<1> QED BY <1>4, <1>5, Zenon

LEMMA LabelIs == \A m : TestLabel(m) \in Labels
BY Zenon DEF TestLabel, Labels

\* ParseJson adds rows of the run it reads.
LEMMA NewRows ==
  ASSUME ParseJson, RowsTyped
  PROVE  \A r \in ToSet(rows)' : r \in ToSet(rows) \/ (r.exp = i /\ r.layer = j)
<1>1. PICK output \in Outputs :
        IF output = NotJson THEN rows' = rows
        ELSE rows' = rows \o [k \in DOMAIN Converted(output) |-> Row(output[k])]
  BY DEF ParseJson
<1>2. CASE output = NotJson
  BY <1>1, <1>2 DEF ToSet
<1>3. CASE output # NotJson
  <2> DEFINE new == [k \in DOMAIN Converted(output) |-> Row(output[k])]
             MyRows == [exp : {i}, layer : {j}, test : Labels]
             AllRows == [exp : Nat, layer : Nat, test : Labels]
  <2>1. PICK n \in Nat : DOMAIN Converted(output) = 1..n
    BY <1>3, ConvertedIs
  <2>2. \A m : Row(m) \in MyRows
    BY LabelIs DEF Row
  <2>3. new \in [1..n -> MyRows]
    BY <2>1, <2>2
  <2> HIDE DEF new, MyRows, AllRows
  <2>4. new \in Seq(MyRows \union AllRows) /\ Len(new) = n /\ \A k \in 1..n : new[k] \in MyRows
    BY <2>3
  <2>5. rows \in Seq(MyRows \union AllRows)
    <3>1. rows \in Seq(AllRows)
      BY Zenon DEF RowsTyped, AllRows
    <3> QED BY <3>1
  <2>6. rows' = rows \o new
    BY <1>1, <1>3 DEF new
  <2>7. \A k \in DOMAIN rows' : rows'[k] \in ToSet(rows) \/ rows'[k] \in MyRows
    <3> SUFFICES ASSUME NEW k \in DOMAIN rows' PROVE rows'[k] \in ToSet(rows) \/ rows'[k] \in MyRows
      OBVIOUS
    <3>1. k \in 1..(Len(rows) + Len(new)) /\ Len(rows) \in Nat
      BY <2>4, <2>5, <2>6
    <3>2. CASE k <= Len(rows)
      <4>1. rows'[k] = rows[k] /\ k \in DOMAIN rows
        BY <3>1, <3>2, <2>4, <2>5, <2>6
      <4> QED BY <4>1 DEF ToSet
    <3>3. CASE k > Len(rows)
      <4>1. rows'[k] = new[k - Len(rows)] /\ k - Len(rows) \in 1..n
        BY <3>1, <3>3, <2>4, <2>5, <2>6
      <4> QED BY <4>1, <2>4
    <3> QED BY <3>1, <3>2, <3>3
  <2>8. \A r \in MyRows : r.exp = i /\ r.layer = j
    BY DEF MyRows
  <2> QED BY <2>7, <2>8 DEF ToSet
<1> QED BY <1>2, <1>3

\* The files and the rows: only SaveRaw writes a file and only ParseJson adds rows.
LEMMA FilesKept ==
  ASSUME IInv, Script
  PROVE  FilesNamed' /\ RowsTyped' /\ RowsKept'
<1> USE DEF IInv, Place
<1>0. Place'
  BY PlaceKept
<1>1. i \in Nat /\ j \in Nat /\ i' \in Nat /\ j' \in Nat /\ config' = config
  BY <1>0 DEF Script, Configure, Probe, Skip, Prepare, BuildCommand, EndExperiment, Start, StartFails,
    ReadChunk, ReadEnds, WaitForExit, SaveRaw, CheckExitCode, ParseJson, Report, scriptVars
<1>2. CASE Configure \/ Probe \/ Skip \/ Prepare \/ BuildCommand \/ EndExperiment \/ Start \/ StartFails
           \/ ReadChunk \/ ReadEnds \/ WaitForExit \/ CheckExitCode \/ Report
  <2>1. UNCHANGED <<config, files, rows>>
    BY <1>2, Zenon DEF Configure, Probe, Skip, Prepare, BuildCommand, EndExperiment, Start, StartFails,
      ReadChunk, ReadEnds, WaitForExit, CheckExitCode, Report, scriptVars
  <2>2. \/ i' = i + 1
        \/ i' = i /\ (j' = j + 1 \/ (j' = j /\ (pc \in {"code", "parse"} => pc' \in {"code", "parse"})))
    BY <1>2, <1>1 DEF Configure, Probe, Skip, Prepare, BuildCommand, EndExperiment, Start, StartFails,
      ReadChunk, ReadEnds, WaitForExit, CheckExitCode, Report, scriptVars, NextRun
  <2>3. pc' \in {"code", "parse"} => pc \in {"code", "parse"} /\ i' = i /\ j' = j
    BY <1>2, <1>1 DEF Configure, Probe, Skip, Prepare, BuildCommand, EndExperiment, Start, StartFails,
      ReadChunk, ReadEnds, WaitForExit, CheckExitCode, Report, scriptVars, NextRun
  <2> QED BY <1>1, <2>1, <2>2, <2>3, SameFiles
<1>3. CASE SaveRaw
  <2> DEFINE key == FileOf(<<i, j>>)
  <2>1. pc = "save" /\ InExperiment /\ UNCHANGED <<config, i, j, rows>>
    BY <1>1, <1>3 DEF SaveRaw, InExperiment
  <2>2. key = FilePrefix(config[i], model, layers[j])
    BY <2>1 DEF FileOf, ExperimentOf, ModelOf, LayersOf
  <2>3. CASE pc' = "stopped" /\ UNCHANGED files
    <3>1. UNCHANGED <<config, files, rows>> /\ pc' \notin {"code", "parse"} /\ pc \notin {"code", "parse"}
      BY <2>1, <2>3
    <3> QED BY <1>1, <2>1, <3>1, SameFiles
  <2>4. CASE /\ files' = [f \in DOMAIN files \union {key} |-> IF f = key THEN <<i, j>> ELSE files[f]]
             /\ pc' = "code"
    <3>1. \A run : FileOf(run)' = FileOf(run)
      BY <1>1 DEF FileOf, ExperimentOf, ModelOf, LayersOf
    <3> HIDE DEF key
    <3>2. \A run \in Nat \X Nat : Saved(run) => Saved(run)'
      BY <1>1, <2>1, <2>4 DEF Saved
    <3>3. key \in DOMAIN files' /\ files'[key] = <<i, j>>
      BY <2>4
    <3>4. \A f \in DOMAIN files : f # key => f \in DOMAIN files' /\ files'[f] = files[f]
      BY <2>4
    <3>5. DOMAIN files' = DOMAIN files \union {key}
      BY <2>4
    <3>6. \A run : run = <<i, j>> => run \in Nat \X Nat /\ Saved(run)' /\ FileOf(run)' = key
      <4> SUFFICES ASSUME NEW run, run = <<i, j>>
                   PROVE  run \in Nat \X Nat /\ Saved(run)' /\ FileOf(run)' = key
        OBVIOUS
      <4>1. FileOf(run) = key
        BY DEF key
      <4> QED BY <1>1, <2>1, <2>4, <3>1, <4>1 DEF Saved
    <3>7. (FileOf(<<i, j>>))' = key
      BY <1>1, <2>1 DEF key, FileOf, ExperimentOf, ModelOf, LayersOf
    <3>8. \A f \in DOMAIN files' : \A run :
            run = files'[f] => run \in Nat \X Nat /\ Saved(run)' /\ FileOf(run)' = f
      <4> TAKE f \in DOMAIN files'
      <4>1. CASE f = key
        BY <4>1, <3>3, <3>6
      <4>2. CASE f # key
        <5>1. f \in DOMAIN files /\ files'[f] = files[f]
          BY <4>2, <3>4, <3>5
        <5>2. files[f] \in Nat \X Nat /\ Saved(files[f]) /\ FileOf(files[f]) = f
          BY <5>1, Zenon DEF FilesNamed
        <5> QED BY <5>1, <5>2, <3>1, <3>2
      <4> QED BY <4>1, <4>2
    <3>9. FilesNamed'
      <4>1. (\A k \in DOMAIN files : files[k] \in Nat \X Nat /\ Saved(files[k]) /\ FileOf(files[k]) = k)'
        <5>1. \A run : FileOf(run)' = FileOf(run)'
          OBVIOUS
        <5> QED BY <3>8 DEF Saved, FileOf, ExperimentOf, ModelOf, LayersOf
      <4>2. (FileOf(<<i, j>>) \in DOMAIN files /\ files[FileOf(<<i, j>>)] = <<i, j>>)'
        BY <3>3, <3>7, <2>1
      <4> QED BY <4>1, <4>2 DEF FilesNamed
    <3>10. RowsKept'
      <4> SUFFICES ASSUME NEW r \in ToSet(rows)
                   PROVE  /\ FileOf(<<r.exp, r.layer>>) \in DOMAIN files'
                          /\ FileOf(files'[FileOf(<<r.exp, r.layer>>)]) = FileOf(<<r.exp, r.layer>>)
                          /\ LET last == files'[FileOf(<<r.exp, r.layer>>)]
                             IN  last[1] > r.exp \/ (last[1] = r.exp /\ last[2] >= r.layer)
        BY <2>1, <3>1 DEF RowsKept, ToSet
      <4> DEFINE its == FileOf(<<r.exp, r.layer>>)
      <4>1. /\ its \in DOMAIN files
            /\ FileOf(files[its]) = its
            /\ files[its][1] > r.exp \/ (files[its][1] = r.exp /\ files[its][2] >= r.layer)
        BY Zenon DEF RowsKept
      <4>2. r.exp \in Nat /\ r.layer \in Nat
        <5>1. rows \in Seq([exp : Nat, layer : Nat, test : Labels])
          BY DEF RowsTyped
        <5>2. PICK k \in DOMAIN rows : r = rows[k]
          BY DEF ToSet
        <5>3. r \in [exp : Nat, layer : Nat, test : Labels]
          <6> DEFINE AllRows == [exp : Nat, layer : Nat, test : Labels]
          <6> HIDE DEF its, IInv, Place, AllRows
          <6>1. rows \in Seq(AllRows)
            BY <5>1 DEF AllRows
          <6>2. r \in AllRows
            BY <5>2, <6>1
          <6> QED BY <6>2 DEF AllRows
        <5> QED BY <5>3
      <4> HIDE DEF its
      <4>3. CASE its = key
        <5>1. files[its] \in Nat \X Nat /\ Saved(files[its])
          BY <4>1 DEF FilesNamed
        <5>2. i > r.exp \/ (i = r.exp /\ j >= r.layer)
          BY <1>1, <2>1, <4>1, <4>2, <5>1 DEF Saved
        <5>3. files'[its] = <<i, j>> /\ its \in DOMAIN files'
          BY <4>3, <3>3
        <5> QED BY <4>3, <5>2, <5>3, <3>6, <3>1 DEF its
      <4>4. CASE its # key
        <5>1. its \in DOMAIN files' /\ files'[its] = files[its]
          BY <4>1, <4>4, <3>4
        <5> QED BY <5>1, <4>1 DEF its
      <4> QED BY <4>3, <4>4
    <3> QED BY <2>1, <3>9, <3>10 DEF RowsTyped
  <2> QED BY <2>2, <2>3, <2>4, <1>3 DEF SaveRaw
<1>4. CASE ParseJson
  <2>1. pc = "parse" /\ InExperiment /\ i' = i /\ j' = j + 1 /\ UNCHANGED <<config, files>> /\ pc' = "layer"
    BY <1>1, <1>4 DEF ParseJson, NextRun, InExperiment
  <2>2. \A run : FileOf(run)' = FileOf(run)
    BY <1>1 DEF FileOf, ExperimentOf, ModelOf, LayersOf
  <2>3. \A run \in Nat \X Nat : Saved(run) => Saved(run)'
    BY <1>1, <2>1 DEF Saved
  <2>4. FilesNamed'
    BY <2>1, <2>2, <2>3 DEF FilesNamed
  <2>5. PICK output \in Outputs :
          IF output = NotJson THEN rows' = rows
          ELSE rows' = rows \o [k \in DOMAIN Converted(output) |-> Row(output[k])]
    BY <1>4 DEF ParseJson
  <2>6. CASE output = NotJson
    <3>1. rows' = rows
      BY <2>5, <2>6
    <3> QED BY <2>1, <2>2, <2>4, <3>1 DEF RowsTyped, RowsKept
  <2>7. CASE output # NotJson
    <3> DEFINE new == [k \in DOMAIN Converted(output) |-> Row(output[k])]
               MyRows == [exp : {i}, layer : {j}, test : Labels]
               AllRows == [exp : Nat, layer : Nat, test : Labels]
    <3>1. PICK n \in Nat : DOMAIN Converted(output) = 1..n
      BY <2>7, ConvertedIs
    <3>2. \A m : Row(m) \in MyRows
      BY LabelIs DEF Row
    <3>3. new \in Seq(MyRows)
      <4>1. \A k \in 1..n : Row(output[k]) \in MyRows
        BY <3>2
      <4>2. new \in [1..n -> MyRows]
        BY <4>1, <3>1
      <4> HIDE DEF new, MyRows
      <4> QED BY <4>2, <3>1
    <3>4. MyRows \subseteq AllRows
      BY <1>1
    <3>5. rows' = rows \o new
      BY <2>5, <2>7
    <3>6. rows \in Seq(AllRows) /\ new \in Seq(AllRows)
      <4> HIDE DEF new, MyRows, AllRows
      <4>1. new \in Seq(AllRows)
        BY <3>3, <3>4
      <4>2. rows \in Seq(AllRows)
        BY Zenon DEF RowsTyped, AllRows
      <4> QED BY <4>1, <4>2
    <3>7. RowsTyped'
      <4> HIDE DEF new, MyRows, AllRows
      <4>1. rows' \in Seq(AllRows)
        BY <3>5, <3>6
      <4> QED BY <4>1, Zenon DEF RowsTyped, AllRows
    <3>8. \A r \in ToSet(rows)' : r \in ToSet(rows) \/ r \in MyRows
      <4> HIDE DEF new, MyRows, AllRows
      <4>1. \A k \in DOMAIN rows' : rows'[k] \in ToSet(rows) \/ rows'[k] \in MyRows
        <5> SUFFICES ASSUME NEW k \in DOMAIN rows' PROVE rows'[k] \in ToSet(rows) \/ rows'[k] \in MyRows
          OBVIOUS
        <5>1. k \in 1..(Len(rows) + Len(new)) /\ Len(rows) \in Nat /\ Len(new) \in Nat
          BY <3>5, <3>6
        <5>2. CASE k <= Len(rows)
          <6>1. rows'[k] = rows[k] /\ k \in DOMAIN rows
            BY <5>1, <5>2, <3>5, <3>6
          <6> QED BY <6>1 DEF ToSet
        <5>3. CASE k > Len(rows)
          <6>1. rows'[k] = new[k - Len(rows)] /\ k - Len(rows) \in 1..Len(new)
            BY <5>1, <5>3, <3>5, <3>6
          <6> QED BY <6>1, <3>3
        <5> QED BY <5>1, <5>2, <5>3
      <4> QED BY <4>1 DEF ToSet
    <3>9. /\ FileOf(<<i, j>>) \in DOMAIN files /\ files[FileOf(<<i, j>>)] = <<i, j>>
      BY <2>1, Zenon DEF FilesNamed
    <3>10. RowsKept'
      <4> SUFFICES ASSUME NEW r \in ToSet(rows)'
                   PROVE  /\ FileOf(<<r.exp, r.layer>>) \in DOMAIN files
                          /\ FileOf(files[FileOf(<<r.exp, r.layer>>)]) = FileOf(<<r.exp, r.layer>>)
                          /\ LET last == files[FileOf(<<r.exp, r.layer>>)]
                             IN  last[1] > r.exp \/ (last[1] = r.exp /\ last[2] >= r.layer)
        BY <2>1, <2>2 DEF RowsKept
      <4>1. CASE r \in ToSet(rows)
        BY <4>1, Zenon DEF RowsKept
      <4>2. CASE r \in MyRows
        <5>1. r.exp = i /\ r.layer = j
          BY <4>2
        <5> QED BY <5>1, <3>9, <1>1
      <4> QED BY <4>1, <4>2, <3>8
    <3> QED BY <2>4, <3>7, <3>10
  <2> QED BY <2>6, <2>7
<1> QED BY <1>2, <1>3, <1>4 DEF Script

\* The process changes nothing of the script.
LEMMA ChildSpares ==
  ASSUME IInv, UNCHANGED scriptVars
  PROVE  Place' /\ Counted' /\ FilesNamed' /\ RowsTyped' /\ RowsKept'
<1> USE DEF IInv, scriptVars
<1>1. Place'
  BY DEF Place, InExperiment
<1>2. Counted'
  BY DEF Counted, Tried, InExperiment
<1>3. \A run : FileOf(run)' = FileOf(run) /\ (Saved(run)' <=> Saved(run))
  BY DEF Saved, FileOf, ExperimentOf, ModelOf, LayersOf
<1>4. FilesNamed' /\ RowsTyped' /\ RowsKept'
  BY <1>3 DEF FilesNamed, RowsTyped, RowsKept
<1> QED BY <1>1, <1>2, <1>4

LEMMA Invariance == Spec => []IInv
<1>1. IInv /\ [Next]_vars => IInv'
  <2> SUFFICES ASSUME IInv, [Next]_vars PROVE IInv'
    OBVIOUS
  <2>1. CASE Script
    <3>1. Place'
      BY <2>1, PlaceKept
    <3>2. Piped'
      BY <2>1, PipedKept DEF Next
    <3>3. Counted'
      BY <2>1, CountedKept
    <3> QED BY <2>1, <3>1, <3>2, <3>3, FilesKept DEF IInv
  <2>2. CASE Child
    <3>1. UNCHANGED scriptVars
      BY <2>2, Zenon DEF Child, ChildPrints, ChildWrites, ChildExits
    <3>2. Piped'
      BY <2>2, PipedKept DEF Next
    <3> QED BY <3>1, <3>2, ChildSpares DEF IInv
  <2>3. CASE UNCHANGED vars
    <3>1. UNCHANGED scriptVars /\ UNCHANGED <<child, pipes>>
      BY <2>3, Zenon DEF vars
    <3>2. Piped'
      BY <3>1 DEF IInv, Piped
    <3> QED BY <3>1, <3>2, ChildSpares DEF IInv
  <2> QED BY <2>1, <2>2, <2>3 DEF Next
<1> QED BY <1>1, InitIInv, PTL DEF Spec

(***************************************************************************)
(* The command line: induction over the characters of a text               *)
(***************************************************************************)

\* Induction over the numbers from 0 to n.
LEMMA UpTo ==
  ASSUME NEW n \in Nat, NEW S, 0 \in S, \A u \in 0 .. n - 1 : u \in S => u + 1 \in S
  PROVE  \A u \in 0 .. n : u \in S
<1> SUFFICES ASSUME \E u \in 0 .. n : u \notin S PROVE FALSE
  OBVIOUS
<1> DEFINE B == {u \in 0 .. n : u \notin S}
<1>1. PICK m \in B : \A u \in B : m <= u
  <2>1. B \subseteq Nat /\ B # {}
    OBVIOUS
  <2> HIDE DEF B
  <2> QED BY <2>1, LeastNumber
<1>2. m # 0 /\ m - 1 \in 0 .. n - 1 /\ (m - 1) + 1 = m /\ m - 1 \notin B
  BY <1>1
<1> QED BY <1>1, <1>2

\* f is given by its first value and a step; there is such an f.
Given(f, n, V, base, step) ==
  f \in [0 .. n -> V] /\ f[0] = base /\ \A k \in 1 .. n : f[k] = step[<<f[k - 1], k>>]

\* A function defined on 0 .. n by a base and a step exists.
LEMMA Recursion ==
  ASSUME NEW n \in Nat, NEW V, NEW base \in V, NEW step \in [V \X (1 .. n) -> V]
  PROVE  \E f : Given(f, n, V, base, step)
<1> DEFINE S == {m \in 0 .. n : \E f : Given(f, m, V, base, step)}
<1>1. 0 \in S
  <2>1. Given([k \in 0 .. 0 |-> base], 0, V, base, step)
    BY DEF Given
  <2> QED BY <2>1
<1>2. ASSUME NEW m \in 0 .. n - 1, m \in S
      PROVE  m + 1 \in S
  <2>1. PICK f : Given(f, m, V, base, step)
    BY <1>2
  <2>2. m \in Nat /\ m + 1 \in 1 .. n /\ m \in 0 .. m /\ f \in [0 .. m -> V] /\ f[m] \in V
    BY <2>1 DEF Given
  <2> DEFINE next == step[<<f[m], m + 1>>]
             g == [k \in 0 .. m + 1 |-> IF k <= m THEN f[k] ELSE next]
  <2>3. next \in V
    BY <2>2
  <2> HIDE DEF next
  <2>4. g \in [0 .. m + 1 -> V]
    <3>1. \A k \in 0 .. m + 1 : k <= m => f[k] \in V
      BY <2>2
    <3> QED BY <2>3, <3>1
  <2>5. \A k \in 0 .. m : g[k] = f[k]
    BY <2>2
  <2>6. g[m + 1] = next
    BY <2>2
  <2> HIDE DEF g
  <2>7. \A k \in 1 .. m + 1 : g[k] = step[<<g[k - 1], k>>]
    <3> TAKE k \in 1 .. m + 1
    <3>1. CASE k = m + 1
      <4>1. k - 1 = m /\ g[k - 1] = f[m]
        BY <3>1, <2>2, <2>5
      <4> QED BY <3>1, <4>1, <2>6 DEF next
    <3>2. CASE k # m + 1
      <4>1. k \in 1 .. m /\ k \in 0 .. m /\ k - 1 \in 0 .. m
        BY <3>2, <2>2
      <4> QED BY <4>1, <2>1, <2>5 DEF Given
    <3> QED BY <3>1, <3>2
  <2>8. g[0] = base
    BY <2>1, <2>2, <2>5 DEF Given
  <2>9. Given(g, m + 1, V, base, step)
    BY <2>4, <2>7, <2>8 DEF Given
  <2> QED BY <2>2, <2>9
<1> HIDE DEF S
<1>3. n \in S
  BY <1>1, <1>2, UpTo
<1> QED BY <1>3 DEF S

(***************************************************************************)
(* Texts and the backslashes they end in                                   *)
(***************************************************************************)

\* The text ends in t backslashes and no more.
Ends(text, t) ==
  /\ t \in 0 .. Len(text)
  /\ \A u \in (Len(text) - t + 1) .. Len(text) : text[u] = Backslash
  /\ t = Len(text) \/ text[Len(text) - t] # Backslash

\* The run of backslashes that ends a text has their number.
LEMMA EndRunIs ==
  ASSUME NEW C, NEW text \in Seq(C), NEW t, Ends(text, t)
  PROVE  EndRun(text) = Slashes(t)
<1> DEFINE R == {k \in 0 .. Len(text) :
                   \A u \in (Len(text) - k + 1) .. Len(text) : text[u] = Backslash}
<1>0. Len(text) \in Nat /\ t \in 0 .. Len(text)
  BY DEF Ends
<1>1. t \in R
  BY DEF Ends
<1>2. \A k \in R : t >= k
  <2> SUFFICES ASSUME NEW k \in R, t < k PROVE FALSE
    BY <1>0
  <2>1. Len(text) - t \in (Len(text) - k + 1) .. Len(text)
    BY <1>0
  <2>2. k \in 0 .. Len(text) /\ text[Len(text) - t] = Backslash
    BY <2>1
  <2> QED BY <1>0, <2>2 DEF Ends
<1>3. R \subseteq Nat
  BY <1>0
<1> HIDE DEF R
<1>4. Max(R) \in R /\ \A k \in R : Max(R) >= k
  BY <1>1, <1>2 DEF Max
<1>5. Max(R) = t
  <2>1. Max(R) >= t /\ t >= Max(R) /\ Max(R) \in Nat /\ t \in Nat
    BY <1>1, <1>2, <1>3, <1>4
  <2> HIDE DEF R
  <2> QED BY <2>1
<1>6. EndRun(text) = SubSeq(text, Len(text) - t + 1, Len(text))
  BY <1>5, Zenon DEF EndRun, R
<1>7. SubSeq(text, Len(text) - t + 1, Len(text)) = [u \in 1 .. t |-> text[(Len(text) - t + 1) + u - 1]]
  BY <1>0
<1>8. \A u \in 1 .. t : text[(Len(text) - t + 1) + u - 1] = Backslash
  BY <1>0 DEF Ends
<1> QED BY <1>6, <1>7, <1>8 DEF Slashes

\* Every text ends in some number of backslashes.
LEMMA EndsExists ==
  ASSUME NEW C, NEW text \in Seq(C)
  PROVE  \E t \in Nat : Ends(text, t)
<1> DEFINE R == {t \in 0 .. Len(text) : t = Len(text) \/ text[Len(text) - t] # Backslash}
<1>0. Len(text) \in Nat
  OBVIOUS
<1>1. R \in SUBSET Nat /\ Len(text) \in R
  BY <1>0
<1> HIDE DEF R
<1>2. PICK t \in R : \A k \in R : t <= k
  BY <1>1, LeastNumber
<1>3. t \in 0 .. Len(text) /\ (t = Len(text) \/ text[Len(text) - t] # Backslash)
  BY <1>2 DEF R
<1>4. \A u \in (Len(text) - t + 1) .. Len(text) : text[u] = Backslash
  <2> SUFFICES ASSUME NEW u \in (Len(text) - t + 1) .. Len(text), text[u] # Backslash PROVE FALSE
    OBVIOUS
  <2>1. Len(text) - u \in 0 .. Len(text) /\ Len(text) - (Len(text) - u) = u /\ Len(text) - u < t
    BY <1>0, <1>3
  <2>2. Len(text) - u \in R
    BY <2>1 DEF R
  <2> QED BY <1>2, <1>3, <2>1, <2>2
<1> QED BY <1>3, <1>4 DEF Ends

LEMMA SlashesAre ==
  ASSUME NEW n \in Nat
  PROVE  /\ Slashes(n) \in Seq({Backslash}) /\ Len(Slashes(n)) = n
         /\ \A u \in 1 .. n : Slashes(n)[u] = Backslash
         /\ Slashes(n + 1) = Slashes(n) \o <<Backslash>>
<1>1. Slashes(n) \in Seq({Backslash}) /\ Len(Slashes(n)) = n /\ \A u \in 1 .. n : Slashes(n)[u] = Backslash
  BY DEF Slashes
<1>2. Slashes(n + 1) \in Seq({Backslash}) /\ Len(Slashes(n + 1)) = n + 1
      /\ \A u \in 1 .. n + 1 : Slashes(n + 1)[u] = Backslash
  BY DEF Slashes
<1>3. Slashes(n) \o <<Backslash>> \in Seq({Backslash}) /\ Len(Slashes(n) \o <<Backslash>>) = n + 1
      /\ \A u \in 1 .. n + 1 : (Slashes(n) \o <<Backslash>>)[u] = Backslash
  BY <1>1
<1>4. Slashes(n + 1) = Slashes(n) \o <<Backslash>>
  <2> DEFINE a == Slashes(n + 1)
             b == Slashes(n) \o <<Backslash>>
  <2>1. a \in Seq({Backslash}) /\ b \in Seq({Backslash}) /\ Len(a) = Len(b) /\ \A u \in 1 .. Len(a) : a[u] = b[u]
    BY <1>2, <1>3
  <2> HIDE DEF a, b
  <2>2. a = b
    BY <2>1, SeqEqual
  <2> QED BY <2>2 DEF a, b
<1> QED BY <1>1, <1>4

\* How the number of backslashes at the end goes on.
LEMMA EndsGoesOn ==
  ASSUME NEW C, NEW text \in Seq(C), NEW t, Ends(text, t), NEW c \in C
  PROVE  /\ c = Backslash => Ends(Append(text, c), t + 1)
         /\ c # Backslash => Ends(Append(text, c), 0)
<1> DEFINE next == Append(text, c)
<1>1. /\ Len(text) \in Nat /\ Len(next) = Len(text) + 1 /\ next[Len(text) + 1] = c
      /\ \A u \in 1 .. Len(text) : next[u] = text[u]
  OBVIOUS
<1>2. t \in 0 .. Len(text)
  BY DEF Ends
<1> HIDE DEF next
<1>3. ASSUME c = Backslash
      PROVE  Ends(next, t + 1)
  <2>1. \A u \in (Len(text) - t + 1) .. Len(text) + 1 : next[u] = Backslash
    BY <1>1, <1>2, <1>3 DEF Ends
  <2>2. t + 1 = Len(next) \/ next[Len(next) - (t + 1)] # Backslash
    BY <1>1, <1>2 DEF Ends
  <2> QED BY <1>1, <1>2, <2>1, <2>2 DEF Ends
<1>4. ASSUME c # Backslash
      PROVE  Ends(next, 0)
  BY <1>1, <1>2, <1>4 DEF Ends
<1> QED BY <1>3, <1>4 DEF next

(***************************************************************************)
(* What EscapeQuotes computes                                              *)
(***************************************************************************)

OneMore(done, c) ==
  IF c = Quote THEN done \o EndRun(done) \o <<Backslash, Quote>> ELSE Append(done, c)

\* done is what EscapeQuotes makes of the first characters of the text.
Escaping(C, text, done) ==
  /\ done \in [0 .. Len(text) -> Seq(C)]
  /\ done[0] = <<>> /\ \A k \in 1 .. Len(text) : done[k] = OneMore(done[k - 1], text[k])

LEMMA OneMoreType ==
  ASSUME NEW C, {Quote, Backslash} \subseteq C, NEW done \in Seq(C), NEW c \in C
  PROVE  OneMore(done, c) \in Seq(C)
<1>1. PICK t \in Nat : Ends(done, t)
  BY EndsExists
<1>2. EndRun(done) \in Seq(C)
  <2>1. EndRun(done) = Slashes(t)
    BY <1>1, EndRunIs
  <2>2. Slashes(t) \in Seq({Backslash})
    BY SlashesAre
  <2> QED BY <2>1, <2>2
<1>3. <<Backslash, Quote>> \in Seq(C)
  OBVIOUS
<1> QED BY <1>2, <1>3 DEF OneMore

\* Escaping a text character by character is a function of the characters done.
LEMMA EscapeQuotesIs ==
  ASSUME NEW C, {Quote, Backslash} \subseteq C, NEW text \in Seq(C)
  PROVE  \E done : Escaping(C, text, done) /\ EscapeQuotes(text) = done[Len(text)]
<1> DEFINE n == Len(text)
           F(f) == [k \in 0 .. n |-> IF k = 0 THEN <<>>
                      ELSE IF text[k] = Quote THEN f[k - 1] \o EndRun(f[k - 1]) \o <<Backslash, Quote>>
                      ELSE Append(f[k - 1], text[k])]
<1>0. n \in Nat /\ \A k \in 1 .. n : text[k] \in C
  OBVIOUS
<1> HIDE DEF n
<1>1. PICK step \in [Seq(C) \X (1 .. n) -> Seq(C)] :
             \A d \in Seq(C) : \A k \in 1 .. n : step[<<d, k>>] = OneMore(d, text[k])
  <2> DEFINE st == [p \in Seq(C) \X (1 .. n) |-> OneMore(p[1], text[p[2]])]
  <2>1. st \in [Seq(C) \X (1 .. n) -> Seq(C)]
    BY <1>0, OneMoreType
  <2>2. \A d \in Seq(C) : \A k \in 1 .. n : st[<<d, k>>] = OneMore(d, text[k])
    OBVIOUS
  <2> HIDE DEF st
  <2> QED BY <2>1, <2>2
<1>2. <<>> \in Seq(C)
  OBVIOUS
<1>3. PICK f \in [0 .. n -> Seq(C)] : f[0] = <<>> /\ \A k \in 1 .. n : f[k] = step[<<f[k - 1], k>>]
  <2>1. PICK f : Given(f, n, Seq(C), <<>>, step)
    BY <1>0, <1>2, Recursion
  <2> QED BY <2>1 DEF Given
<1>4. f = F(f)
  <2>1. \A k \in 0 .. n : f[k] = F(f)[k]
    <3> TAKE k \in 0 .. n
    <3>1. CASE k = 0
      BY <3>1, <1>3
    <3>2. CASE k # 0
      <4>1. k \in 1 .. n /\ k - 1 \in 0 .. n /\ f[k - 1] \in Seq(C)
        BY <3>2, <1>0, <1>3
      <4>2. f[k] = OneMore(f[k - 1], text[k])
        BY <4>1, <1>1, <1>3
      <4>3. F(f)[k] = OneMore(f[k - 1], text[k])
        BY <3>2 DEF OneMore
      <4> QED BY <4>2, <4>3
    <3> QED BY <3>1, <3>2
  <2> HIDE DEF F
  <2>2. F(f) = [k \in 0 .. n |-> F(f)[k]]
    BY DEF F
  <2>3. f = [k \in 0 .. n |-> f[k]]
    BY <1>3
  <2> QED BY <2>1, <2>2, <2>3
<1> DEFINE done == CHOOSE f_1 : f_1 = F(f_1)
<1>5. done = F(done)
  <2> HIDE DEF F
  <2> QED BY <1>4
<1>6. EscapeQuotes(text) = done[n]
  BY DEF EscapeQuotes, n
<1> HIDE DEF done
<1>7. /\ DOMAIN done = 0 .. n /\ done = [k \in 0 .. n |-> done[k]]
      /\ done[0] = <<>>
  BY <1>0, <1>5
<1>8. \A k \in 1 .. n : done[k] = OneMore(done[k - 1], text[k])
  <2> TAKE k \in 1 .. n
  <2>1. k \in 0 .. n /\ k # 0
    BY <1>0
  <2>2. F(done)[k] = OneMore(done[k - 1], text[k])
    BY <2>1 DEF OneMore
  <2>3. F(done)[k] = done[k]
    <3> HIDE DEF F
    <3> QED BY <1>5
  <2> QED BY <2>2, <2>3
<1>9. \A k \in 0 .. n : done[k] \in Seq(C)
  <2> DEFINE S == {k \in 0 .. n : done[k] \in Seq(C)}
  <2>1. 0 \in S
    <3>1. <<>> \in Seq(C) /\ 0 \in 0 .. n
      BY <1>0
    <3> QED BY <1>7, <3>1
  <2>2. \A k \in 0 .. n - 1 : k \in S => k + 1 \in S
    <3> SUFFICES ASSUME NEW k \in 0 .. n - 1, k \in S PROVE k + 1 \in S
      OBVIOUS
    <3>1. k + 1 \in 1 .. n /\ k + 1 \in 0 .. n /\ (k + 1) - 1 = k
      BY <1>0
    <3>2. done[k + 1] = OneMore(done[k], text[k + 1]) /\ text[k + 1] \in C
      BY <3>1, <1>0, <1>8
    <3>3. done[k + 1] \in Seq(C)
      BY <3>2, OneMoreType
    <3> QED BY <3>1, <3>3
  <2> HIDE DEF S
  <2>3. \A k \in 0 .. n : k \in S
    BY <1>0, <2>1, <2>2, UpTo
  <2> QED BY <2>3 DEF S
<1>10. done \in [0 .. n -> Seq(C)]
  BY <1>7, <1>9
<1> QED BY <1>6, <1>7, <1>8, <1>10 DEF Escaping, n

(***************************************************************************)
(* The program that reads the line                                         *)
(***************************************************************************)

\* The program between two arguments, and in a word, inside or outside quotes, with the
\* arguments found so far, the word so far and the backslashes that are not decided yet.
Between(f) == [found |-> f, word |-> <<>>, open |-> FALSE, quoted |-> FALSE, slashes |-> 0]
Inside(f, w, s) == [found |-> f, word |-> w, open |-> TRUE, quoted |-> TRUE, slashes |-> s]
Outside(f, w, s) == [found |-> f, word |-> w, open |-> TRUE, quoted |-> FALSE, slashes |-> s]

LEMMA Kinds == Blank # Quote /\ Blank # Backslash /\ Quote # Backslash
BY DEF Blank, Quote, Backslash

\* A state is what its five fields say.
Fields == {"found", "word", "open", "quoted", "slashes"}

LEMMA StateIs ==
  ASSUME NEW z, z = [k \in Fields |-> z[k]]
  PROVE  /\ ~z.open /\ z.open \in BOOLEAN /\ ~z.quoted /\ z.quoted \in BOOLEAN /\ z.word = <<>> /\ z.slashes = 0
              => z = Between(z.found)
         /\ z.open /\ z.open \in BOOLEAN /\ z.quoted /\ z.quoted \in BOOLEAN => z = Inside(z.found, z.word, z.slashes)
         /\ z.open /\ z.open \in BOOLEAN /\ ~z.quoted /\ z.quoted \in BOOLEAN => z = Outside(z.found, z.word, z.slashes)
<1>1. ASSUME NEW y, y = [k \in Fields |-> y[k]], \A k \in Fields : y[k] = z[k]
      PROVE  z = y
  BY <1>1
<1>2. /\ Between(z.found) = [k \in Fields |-> Between(z.found)[k]]
      /\ Inside(z.found, z.word, z.slashes) = [k \in Fields |-> Inside(z.found, z.word, z.slashes)[k]]
      /\ Outside(z.found, z.word, z.slashes) = [k \in Fields |-> Outside(z.found, z.word, z.slashes)[k]]
  BY DEF Between, Inside, Outside, Fields
<1>3. ASSUME ~z.open, z.open \in BOOLEAN, ~z.quoted, z.quoted \in BOOLEAN, z.word = <<>>, z.slashes = 0
      PROVE  z = Between(z.found)
  <2>1. \A k \in Fields : Between(z.found)[k] = z[k]
    BY <1>3 DEF Between, Fields
  <2> QED BY <1>1, <1>2, <2>1
<1>4. ASSUME z.open, z.open \in BOOLEAN, z.quoted, z.quoted \in BOOLEAN
      PROVE  z = Inside(z.found, z.word, z.slashes)
  <2>1. \A k \in Fields : Inside(z.found, z.word, z.slashes)[k] = z[k]
    BY <1>4 DEF Inside, Fields
  <2> QED BY <1>1, <1>2, <2>1
<1>5. ASSUME z.open, z.open \in BOOLEAN, ~z.quoted, z.quoted \in BOOLEAN
      PROVE  z = Outside(z.found, z.word, z.slashes)
  <2>1. \A k \in Fields : Outside(z.found, z.word, z.slashes)[k] = z[k]
    BY <1>5 DEF Outside, Fields
  <2> QED BY <1>1, <1>2, <2>1
<1> QED BY <1>3, <1>4, <1>5

\* The fields of the three kinds of state.
LEMMA FieldsAre ==
  ASSUME NEW f, NEW w, NEW s
  PROVE  /\ /\ Between(f) = [k \in Fields |-> Between(f)[k]]
            /\ Between(f).found = f /\ Between(f).word = <<>> /\ ~Between(f).open
            /\ ~Between(f).quoted /\ Between(f).slashes = 0
         /\ /\ Inside(f, w, s) = [k \in Fields |-> Inside(f, w, s)[k]]
            /\ Inside(f, w, s).found = f /\ Inside(f, w, s).word = w /\ Inside(f, w, s).open
            /\ Inside(f, w, s).quoted /\ Inside(f, w, s).slashes = s
         /\ /\ Outside(f, w, s) = [k \in Fields |-> Outside(f, w, s)[k]]
            /\ Outside(f, w, s).found = f /\ Outside(f, w, s).word = w /\ Outside(f, w, s).open
            /\ ~Outside(f, w, s).quoted /\ Outside(f, w, s).slashes = s
<1>1. /\ Between(f) = [k \in Fields |-> Between(f)[k]]
      /\ Between(f).found = f /\ Between(f).word = <<>> /\ ~Between(f).open
      /\ ~Between(f).quoted /\ Between(f).slashes = 0
  BY DEF Between, Fields
<1>2. /\ Inside(f, w, s) = [k \in Fields |-> Inside(f, w, s)[k]]
      /\ Inside(f, w, s).found = f /\ Inside(f, w, s).word = w /\ Inside(f, w, s).open
      /\ Inside(f, w, s).quoted /\ Inside(f, w, s).slashes = s
  BY DEF Inside, Fields
<1>3. /\ Outside(f, w, s) = [k \in Fields |-> Outside(f, w, s)[k]]
      /\ Outside(f, w, s).found = f /\ Outside(f, w, s).word = w /\ Outside(f, w, s).open
      /\ ~Outside(f, w, s).quoted /\ Outside(f, w, s).slashes = s
  BY DEF Outside, Fields
<1> QED BY <1>1, <1>2, <1>3

\* One backslash read, inside or outside the quotes, is counted and nothing else.
LEMMA ReadBackslash ==
  ASSUME NEW f, NEW w, NEW s, NEW n, n = s + 1
  PROVE  /\ ReadCharacter(Inside(f, w, s), Backslash) = Inside(f, w, n)
         /\ ReadCharacter(Outside(f, w, s), Backslash) = Outside(f, w, n)
<1>1. ASSUME NEW r, r.slashes = s
      PROVE  ReadCharacter(r, Backslash) = [r EXCEPT !.slashes = n, !.open = TRUE]
  BY <1>1, Kinds, Zenon DEF ReadCharacter
<1>2. [Inside(f, w, s) EXCEPT !.slashes = n, !.open = TRUE] = Inside(f, w, n)
  <2> DEFINE z == [Inside(f, w, s) EXCEPT !.slashes = n, !.open = TRUE]
  <2>1. z = [k \in Fields |-> z[k]]
    BY DEF Inside, Fields
  <2>2. z.found = f /\ z.word = w /\ z.open = TRUE /\ z.quoted = TRUE /\ z.slashes = n
    BY DEF Inside
  <2> HIDE DEF z
  <2> QED BY <2>1, <2>2, StateIs DEF z
<1>3. [Outside(f, w, s) EXCEPT !.slashes = n, !.open = TRUE] = Outside(f, w, n)
  <2> DEFINE z == [Outside(f, w, s) EXCEPT !.slashes = n, !.open = TRUE]
  <2>1. z = [k \in Fields |-> z[k]]
    BY DEF Outside, Fields
  <2>2. z.found = f /\ z.word = w /\ z.open = TRUE /\ z.quoted = FALSE /\ z.slashes = n
    BY DEF Outside
  <2> HIDE DEF z
  <2> QED BY <2>1, <2>2, StateIs DEF z
<1>4. Inside(f, w, s).slashes = s /\ Outside(f, w, s).slashes = s
  BY FieldsAre
<1> QED BY <1>1, <1>2, <1>3, <1>4

\* A word that starts with a backslash is not quoted.
LEMMA StartBackslash ==
  ASSUME NEW f
  PROVE  ReadCharacter(Between(f), Backslash) = Outside(f, <<>>, 1)
<1>1. PICK n : n = 0 + 1
  OBVIOUS
<1>2. ASSUME NEW r, r.slashes = 0
      PROVE  ReadCharacter(r, Backslash) = [r EXCEPT !.slashes = n, !.open = TRUE]
  BY <1>1, <1>2, Kinds, Zenon DEF ReadCharacter
<1>3. [Between(f) EXCEPT !.slashes = n, !.open = TRUE] = Outside(f, <<>>, n)
  <2> DEFINE z == [Between(f) EXCEPT !.slashes = n, !.open = TRUE]
  <2>1. z = [k \in Fields |-> z[k]]
    BY DEF Between, Fields
  <2>2. z.found = f /\ z.word = <<>> /\ z.open = TRUE /\ z.quoted = FALSE /\ z.slashes = n
    BY DEF Between
  <2> HIDE DEF z
  <2> QED BY <2>1, <2>2, StateIs DEF z
<1>4. n = 1 /\ Between(f).slashes = 0
  BY <1>1, FieldsAre
<1>5. ReadCharacter(Between(f), Backslash) = Outside(f, <<>>, n)
  BY <1>2, <1>3, <1>4
<1> QED BY <1>4, <1>5

\* A quote: half of the backslashes, and the quote is the text's or closes.
LEMMA ReadQuote ==
  ASSUME NEW f, NEW w, NEW s
  PROVE  /\ s % 2 = 1 =>
              ReadCharacter(Inside(f, w, s), Quote) = Inside(f, Append(w \o Slashes(s \div 2), Quote), 0)
         /\ s % 2 # 1 =>
              ReadCharacter(Inside(f, w, s), Quote) = Outside(f, w \o Slashes(s \div 2), 0)
<1> DEFINE r == Inside(f, w, s)
<1>1. r.slashes = s /\ r.word = w
  BY FieldsAre
<1> HIDE DEF r
<1>2. PICK x : x = w \o Slashes(s \div 2)
  OBVIOUS
<1>3. PICK half : half = [r EXCEPT !.word = x, !.slashes = 0, !.open = TRUE]
  OBVIOUS
<1>4. ReadCharacter(r, Quote) = IF s % 2 = 1 THEN [half EXCEPT !.word = Append(half.word, Quote)]
                                            ELSE [half EXCEPT !.quoted = ~half.quoted]
  BY <1>1, <1>2, <1>3, Kinds, Zenon DEF ReadCharacter
<1>5. [Inside(f, w, s) EXCEPT !.word = x, !.slashes = 0, !.open = TRUE] = Inside(f, x, 0)
  <2> DEFINE z == [Inside(f, w, s) EXCEPT !.word = x, !.slashes = 0, !.open = TRUE]
  <2>1. z = [k \in Fields |-> z[k]]
    BY DEF Inside, Fields
  <2>2. z.found = f /\ z.word = x /\ z.open = TRUE /\ z.quoted = TRUE /\ z.slashes = 0
    BY DEF Inside
  <2> HIDE DEF z
  <2> QED BY <2>1, <2>2, StateIs DEF z
<1>6. half = Inside(f, x, 0)
  BY <1>3, <1>5, Zenon DEF r
<1>7. half.word = x
  BY <1>6, FieldsAre
<1>8. PICK y : y = Append(x, Quote)
  OBVIOUS
<1>9. [Inside(f, x, 0) EXCEPT !.word = y] = Inside(f, y, 0)
  <2> DEFINE z == [Inside(f, x, 0) EXCEPT !.word = y]
  <2>1. z = [k \in Fields |-> z[k]]
    BY DEF Inside, Fields
  <2>2. z.found = f /\ z.word = y /\ z.open = TRUE /\ z.quoted = TRUE /\ z.slashes = 0
    BY DEF Inside
  <2> HIDE DEF z
  <2> QED BY <2>1, <2>2, StateIs DEF z
<1>10. [half EXCEPT !.quoted = ~half.quoted] = Outside(f, x, 0)
  <2> DEFINE z == [Inside(f, x, 0) EXCEPT !.quoted = ~Inside(f, x, 0).quoted]
  <2>1. z = [k \in Fields |-> z[k]]
    BY DEF Inside, Fields
  <2>2. z.found = f /\ z.word = x /\ z.open = TRUE /\ z.quoted = FALSE /\ z.slashes = 0
    BY DEF Inside
  <2> HIDE DEF z
  <2>3. z = Outside(f, x, 0)
    BY <2>1, <2>2, StateIs
  <2> QED BY <2>3, <1>6 DEF z
<1>11. s % 2 = 1 => ReadCharacter(r, Quote) = Inside(f, y, 0)
  BY <1>4, <1>6, <1>7, <1>8, <1>9, Zenon
<1>12. s % 2 # 1 => ReadCharacter(r, Quote) = Outside(f, x, 0)
  BY <1>4, <1>10, Zenon
<1> QED BY <1>2, <1>8, <1>11, <1>12, Zenon DEF r

\* A quote between two arguments opens a quoted word.
LEMMA StartQuote ==
  ASSUME NEW f
  PROVE  ReadCharacter(Between(f), Quote) = Inside(f, <<>>, 0)
<1> DEFINE r == Between(f)
<1>1. r.slashes = 0 /\ r.word = <<>>
  BY FieldsAre
<1> HIDE DEF r
<1>2. PICK x : x = <<>> \o Slashes(0 \div 2)
  OBVIOUS
<1>3. PICK half : half = [r EXCEPT !.word = x, !.slashes = 0, !.open = TRUE]
  OBVIOUS
<1>4. PICK d : d = (0 % 2)
  OBVIOUS
<1>5. ReadCharacter(r, Quote) = IF d = 1 THEN [half EXCEPT !.word = Append(half.word, Quote)]
                                         ELSE [half EXCEPT !.quoted = ~half.quoted]
  BY <1>1, <1>2, <1>3, <1>4, Kinds, Zenon DEF ReadCharacter
<1>6. d # 1
  BY <1>4
<1>7. x = <<>>
  <2>1. 0 \div 2 = 0
    OBVIOUS
  <2>2. Slashes(0) = <<>>
    BY DEF Slashes
  <2>3. <<>> \o <<>> = <<>>
    OBVIOUS
  <2> QED BY <1>2, <2>1, <2>2, <2>3
<1>8. [half EXCEPT !.quoted = ~half.quoted] = Inside(f, <<>>, 0)
  <2> DEFINE h == [Between(f) EXCEPT !.word = x, !.slashes = 0, !.open = TRUE]
             z == [h EXCEPT !.quoted = ~h.quoted]
  <2>1. h = [k \in Fields |-> h[k]]
    BY DEF Between, Fields
  <2>2. h.found = f /\ h.word = x /\ h.open = TRUE /\ h.quoted = FALSE /\ h.slashes = 0
    BY DEF Between
  <2>3. half = h
    BY <1>3, Zenon DEF r
  <2> HIDE DEF h
  <2>4. z = [k \in Fields |-> z[k]]
    BY <2>1
  <2>5. z.found = f /\ z.word = x /\ z.open = TRUE /\ z.quoted = TRUE /\ z.slashes = 0
    BY <2>1, <2>2 DEF Fields
  <2> HIDE DEF z
  <2>6. z = Inside(f, x, 0)
    BY <2>4, <2>5, StateIs
  <2> QED BY <2>3, <2>6, <1>7 DEF z
<1> QED BY <1>5, <1>6, <1>8, Zenon DEF r

\* A flushed state has its backslashes in the word.
LEMMA FlushedIs ==
  ASSUME NEW f, NEW w, NEW s
  PROVE  /\ Flushed(Between(f)) = Between(f)
         /\ Flushed(Inside(f, w, s)) = Inside(f, w \o Slashes(s), 0)
         /\ Flushed(Outside(f, w, s)) = Outside(f, w \o Slashes(s), 0)
<1>1. ASSUME NEW r, NEW v, NEW n, r.word = v, r.slashes = n, NEW x, x = v \o Slashes(n)
      PROVE  Flushed(r) = [r EXCEPT !.word = x, !.slashes = 0]
  BY <1>1, Zenon DEF Flushed
<1>2. PICK x : x = w \o Slashes(s)
  OBVIOUS
<1>3. [Inside(f, w, s) EXCEPT !.word = x, !.slashes = 0] = Inside(f, x, 0)
  <2> DEFINE z == [Inside(f, w, s) EXCEPT !.word = x, !.slashes = 0]
  <2>1. z = [k \in Fields |-> z[k]]
    BY DEF Inside, Fields
  <2>2. z.found = f /\ z.word = x /\ z.open = TRUE /\ z.quoted = TRUE /\ z.slashes = 0
    BY DEF Inside
  <2> HIDE DEF z
  <2> QED BY <2>1, <2>2, StateIs DEF z
<1>4. [Outside(f, w, s) EXCEPT !.word = x, !.slashes = 0] = Outside(f, x, 0)
  <2> DEFINE z == [Outside(f, w, s) EXCEPT !.word = x, !.slashes = 0]
  <2>1. z = [k \in Fields |-> z[k]]
    BY DEF Outside, Fields
  <2>2. z.found = f /\ z.word = x /\ z.open = TRUE /\ z.quoted = FALSE /\ z.slashes = 0
    BY DEF Outside
  <2> HIDE DEF z
  <2> QED BY <2>1, <2>2, StateIs DEF z
<1>5. PICK e : e = <<>>
  OBVIOUS
<1>6. e = <<>> \o Slashes(0)
  BY <1>5 DEF Slashes
<1>7. [Between(f) EXCEPT !.word = e, !.slashes = 0] = Between(f)
  <2> DEFINE z == [Between(f) EXCEPT !.word = e, !.slashes = 0]
  <2>1. z = [k \in Fields |-> z[k]]
    BY DEF Between, Fields
  <2>2. z.found = f /\ z.word = e /\ z.open = FALSE /\ z.quoted = FALSE /\ z.slashes = 0
    BY DEF Between
  <2> HIDE DEF z
  <2> QED BY <2>1, <2>2, <1>5, StateIs DEF z
<1>8. Flushed(Between(f)) = Between(f)
  <2>1. Between(f).word = <<>> /\ Between(f).slashes = 0
    BY FieldsAre
  <2>2. Flushed(Between(f)) = [Between(f) EXCEPT !.word = e, !.slashes = 0]
    <3>1. PICK r : r = Between(f)
      OBVIOUS
    <3>2. PICK n : n = 0
      OBVIOUS
    <3>3. r.word = <<>> /\ r.slashes = n /\ e = <<>> \o Slashes(n)
      BY <3>1, <3>2, <2>1, <1>6
    <3>4. Flushed(r) = [r EXCEPT !.word = e, !.slashes = 0]
      BY <3>3, Zenon DEF Flushed
    <3> QED BY <3>1, <3>4, Zenon
  <2> QED BY <2>2, <1>7, Zenon
<1>9. Flushed(Inside(f, w, s)) = Inside(f, x, 0)
  <2>1. Inside(f, w, s).word = w /\ Inside(f, w, s).slashes = s
    BY FieldsAre
  <2>2. Flushed(Inside(f, w, s)) = [Inside(f, w, s) EXCEPT !.word = x, !.slashes = 0]
    BY <2>1, <1>1, <1>2
  <2> QED BY <2>2, <1>3, Zenon
<1>10. Flushed(Outside(f, w, s)) = Outside(f, x, 0)
  <2>1. Outside(f, w, s).word = w /\ Outside(f, w, s).slashes = s
    BY FieldsAre
  <2>2. Flushed(Outside(f, w, s)) = [Outside(f, w, s) EXCEPT !.word = x, !.slashes = 0]
    BY <2>1, <1>1, <1>2
  <2> QED BY <2>2, <1>4, Zenon
<1> QED BY <1>2, <1>8, <1>9, <1>10

\* Any other character goes into the word, after the backslashes.
Longer(w, s, c) == Append(w \o Slashes(s), c)

\* Any other character makes the pending backslashes literal and is added to the word.
LEMMA ReadOther ==
  ASSUME NEW f, NEW w, NEW s, NEW c, c # Quote, c # Backslash
  PROVE  /\ ReadCharacter(Inside(f, w, s), c) = Inside(f, Longer(w, s, c), 0)
         /\ c # Blank => ReadCharacter(Outside(f, w, s), c) = Outside(f, Longer(w, s, c), 0)
<1>2. PICK x : x = w \o Slashes(s)
  OBVIOUS
<1>3. PICK y : y = Append(x, c)
  OBVIOUS
<1>4. [Inside(f, x, 0) EXCEPT !.word = y, !.open = TRUE] = Inside(f, y, 0)
  <2> DEFINE z == [Inside(f, x, 0) EXCEPT !.word = y, !.open = TRUE]
  <2>1. z = [k \in Fields |-> z[k]]
    BY DEF Inside, Fields
  <2>2. z.found = f /\ z.word = y /\ z.open = TRUE /\ z.quoted = TRUE /\ z.slashes = 0
    BY DEF Inside
  <2> HIDE DEF z
  <2> QED BY <2>1, <2>2, StateIs DEF z
<1>5. [Outside(f, x, 0) EXCEPT !.word = y, !.open = TRUE] = Outside(f, y, 0)
  <2> DEFINE z == [Outside(f, x, 0) EXCEPT !.word = y, !.open = TRUE]
  <2>1. z = [k \in Fields |-> z[k]]
    BY DEF Outside, Fields
  <2>2. z.found = f /\ z.word = y /\ z.open = TRUE /\ z.quoted = FALSE /\ z.slashes = 0
    BY DEF Outside
  <2> HIDE DEF z
  <2> QED BY <2>1, <2>2, StateIs DEF z
<1>8. ReadCharacter(Inside(f, w, s), c) = Inside(f, y, 0)
  <2>1. Flushed(Inside(f, w, s)) = Inside(f, x, 0)
    BY <1>2, FlushedIs
  <2>2. Inside(f, x, 0).word = x
    BY FieldsAre
  <2>3. Inside(f, w, s).quoted
    BY FieldsAre
  <2>4. ReadCharacter(Inside(f, w, s), c) = [Inside(f, x, 0) EXCEPT !.word = y, !.open = TRUE]
    <3>1. PICK r, b : r = Inside(f, w, s) /\ b = Inside(f, x, 0)
      OBVIOUS
    <3>2. r.quoted /\ b = Flushed(r) /\ b.word = x
      BY <3>1, <2>1, <2>2, <2>3
    <3>3. ReadCharacter(r, c) = [b EXCEPT !.word = y, !.open = TRUE]
      BY <3>2, <1>3, Zenon DEF ReadCharacter
    <3> QED BY <3>1, <3>3, Zenon
  <2> QED BY <2>4, <1>4, Zenon
<1>9. c # Blank => ReadCharacter(Outside(f, w, s), c) = Outside(f, y, 0)
  <2> SUFFICES ASSUME c # Blank PROVE ReadCharacter(Outside(f, w, s), c) = Outside(f, y, 0)
    OBVIOUS
  <2>1. Flushed(Outside(f, w, s)) = Outside(f, x, 0)
    BY <1>2, FlushedIs
  <2>2. Outside(f, x, 0).word = x
    BY FieldsAre
  <2>4. ReadCharacter(Outside(f, w, s), c) = [Outside(f, x, 0) EXCEPT !.word = y, !.open = TRUE]
    <3>1. PICK r, b : r = Outside(f, w, s) /\ b = Outside(f, x, 0)
      OBVIOUS
    <3>2. b = Flushed(r) /\ b.word = x
      BY <3>1, <2>1, <2>2
    <3>3. ReadCharacter(r, c) = [b EXCEPT !.word = y, !.open = TRUE]
      BY <3>2, <1>3, Zenon DEF ReadCharacter
    <3> QED BY <3>1, <3>3, Zenon
  <2> QED BY <2>4, <1>5, Zenon
<1> QED BY <1>2, <1>3, <1>8, <1>9, Zenon DEF Longer

\* Such a character between two arguments, not a blank, starts a word.
LEMMA StartOther ==
  ASSUME NEW f, NEW c, c # Quote, c # Backslash, c # Blank
  PROVE  ReadCharacter(Between(f), c) = Outside(f, <<c>>, 0)
<1>1. PICK e : e = Append(<<>>, c)
  OBVIOUS
<1>2. [Between(f) EXCEPT !.word = e, !.open = TRUE] = Outside(f, e, 0)
  <2> DEFINE z == [Between(f) EXCEPT !.word = e, !.open = TRUE]
  <2>1. z = [k \in Fields |-> z[k]]
    BY DEF Between, Fields
  <2>2. z.found = f /\ z.word = e /\ z.open = TRUE /\ z.quoted = FALSE /\ z.slashes = 0
    BY DEF Between
  <2> HIDE DEF z
  <2> QED BY <2>1, <2>2, StateIs DEF z
<1>3. ReadCharacter(Between(f), c) = Outside(f, e, 0)
  <2>1. Flushed(Between(f)) = Between(f)
    BY FlushedIs
  <2>2. Between(f).word = <<>>
    BY FieldsAre
  <2>4. ReadCharacter(Between(f), c) = [Between(f) EXCEPT !.word = e, !.open = TRUE]
    <3>1. PICK b : b = Between(f)
      OBVIOUS
    <3>2. b = Flushed(b) /\ b.word = <<>>
      BY <3>1, <2>1, <2>2
    <3>3. ReadCharacter(b, c) = [b EXCEPT !.word = e, !.open = TRUE]
      BY <3>2, <1>1, Zenon DEF ReadCharacter
    <3> QED BY <3>1, <3>3, Zenon
  <2> QED BY <2>4, <1>2, Zenon
<1>4. e = <<c>>
  BY <1>1
<1> QED BY <1>3, <1>4

\* The end of a word, at the end of the line or at a blank outside quotes.
LEMMA WordDoneIs ==
  ASSUME NEW f, NEW w, NEW s
  PROVE  /\ WordDone(Flushed(Outside(f, w, s))) = Between(Append(f, w \o Slashes(s)))
         /\ ReadCharacter(Outside(f, w, s), Blank) = Between(Append(f, w \o Slashes(s)))
<1>1. PICK x : x = w \o Slashes(s)
  OBVIOUS
<1>2. PICK b : b = Flushed(Outside(f, w, s))
  OBVIOUS
<1>3. b = Outside(f, x, 0)
  BY <1>1, <1>2, FlushedIs
<1>4. b.open /\ b.found = f /\ b.word = x
  BY <1>3, FieldsAre
<1>5. PICK y : y = Append(f, x)
  OBVIOUS
<1>6. WordDone(b) = [Reading EXCEPT !.found = y]
  BY <1>4, <1>5, Zenon DEF WordDone
<1>7. Reading = Between(<<>>)
  BY DEF Reading, Between
<1>8. [Between(<<>>) EXCEPT !.found = y] = Between(y)
  <2> DEFINE z == [Between(<<>>) EXCEPT !.found = y]
  <2>1. z = [k \in Fields |-> z[k]]
    BY DEF Between, Fields
  <2>2. z.found = y /\ z.word = <<>> /\ z.open = FALSE /\ z.quoted = FALSE /\ z.slashes = 0
    BY DEF Between
  <2> HIDE DEF z
  <2> QED BY <2>1, <2>2, StateIs DEF z
<1>9. WordDone(b) = Between(y)
  BY <1>6, <1>7, <1>8, Zenon
<1>10. ReadCharacter(Outside(f, w, s), Blank) = WordDone(b)
  <2>1. ~Outside(f, w, s).quoted
    BY FieldsAre
  <2> QED BY <2>1, <1>2, Kinds, Zenon DEF ReadCharacter
<1> QED BY <1>1, <1>2, <1>5, <1>9, <1>10, Zenon

\* r is the program's state after each number of characters of the line.
Reads(line, r) == r[0] = Reading /\ \A k \in 1 .. Len(line) : r[k] = ReadCharacter(r[k - 1], line[k])

\* The line goes on with the text after m characters.
At(line, m, text) ==
  /\ m \in Nat /\ m + Len(text) <= Len(line)
  /\ \A u \in 1 .. Len(text) : line[m + u] = text[u]

\* Where two texts stand one after the other, each stands in its place.
LEMMA AtConcat ==
  ASSUME NEW C, NEW line \in Seq(C), NEW m, NEW a \in Seq(C), NEW b \in Seq(C), At(line, m, a \o b)
  PROVE  At(line, m, a) /\ At(line, m + Len(a), b)
<1>1. Len(a \o b) = Len(a) + Len(b) /\ Len(a) \in Nat /\ Len(b) \in Nat /\ Len(line) \in Nat
      /\ m \in Nat
  BY DEF At
<1>2. \A u \in 1 .. Len(a) : u \in 1 .. Len(a \o b) /\ (a \o b)[u] = a[u]
  BY <1>1
<1>3. \A u \in 1 .. Len(b) : Len(a) + u \in 1 .. Len(a \o b) /\ (a \o b)[Len(a) + u] = b[u]
  BY <1>1
<1>4. At(line, m, a)
  BY <1>1, <1>2 DEF At
<1>5. \A u \in 1 .. Len(b) : line[(m + Len(a)) + u] = b[u]
  <2> TAKE u \in 1 .. Len(b)
  <2>1. line[m + (Len(a) + u)] = b[u]
    BY <1>3 DEF At
  <2>2. m + (Len(a) + u) = (m + Len(a)) + u
    BY <1>1
  <2> QED BY <2>1, <2>2
<1>6. m + Len(a) \in Nat /\ (m + Len(a)) + Len(b) <= Len(line)
  BY <1>1 DEF At
<1> QED BY <1>4, <1>5, <1>6 DEF At

\* The reader's state after one more character.
LEMMA ReadNext ==
  ASSUME NEW C, NEW line \in Seq(C), NEW r, Reads(line, r), NEW m, NEW c, At(line, m, <<c>>)
  PROVE  r[m + 1] = ReadCharacter(r[m], c)
<1>1. m \in Nat /\ m + 1 <= Len(line) /\ Len(line) \in Nat /\ line[m + 1] = c
  BY DEF At
<1>2. m + 1 \in 1 .. Len(line) /\ (m + 1) - 1 = m
  BY <1>1
<1> QED BY <1>1, <1>2 DEF Reads

\* A run of backslashes inside the quotes is counted.
LEMMA ReadSlashesInside ==
  ASSUME NEW C, NEW line \in Seq(C), NEW r, Reads(line, r), NEW m,
         NEW n \in Nat, At(line, m, Slashes(n)),
         NEW f, NEW w, NEW s \in Nat, r[m] = Inside(f, w, s)
  PROVE  r[m + n] = Inside(f, w, s + n)
<1> DEFINE S == {k \in 0 .. n : r[m + k] = Inside(f, w, s + k)}
<1>0. /\ m \in Nat /\ Len(line) \in Nat /\ m + n <= Len(line)
      /\ \A u \in 1 .. n : line[m + u] = Backslash
  <2>1. Len(Slashes(n)) = n /\ \A u \in 1 .. n : Slashes(n)[u] = Backslash
    BY SlashesAre
  <2>2. m \in Nat /\ m + n <= Len(line) /\ \A u \in 1 .. n : line[m + u] = Slashes(n)[u]
    BY <2>1 DEF At
  <2>3. Len(line) \in Nat
    OBVIOUS
  <2>4. \A u \in 1 .. n : line[m + u] = Backslash
    BY <2>1, <2>2, Zenon
  <2> QED BY <2>2, <2>3, <2>4, Zenon
<1>1. 0 \in S
  <2>1. m + 0 = m /\ s + 0 = s /\ 0 \in 0 .. n
    BY <1>0
  <2> QED BY <2>1, Zenon
<1>2. \A k \in 0 .. n - 1 : k \in S => k + 1 \in S
  <2> SUFFICES ASSUME NEW k \in 0 .. n - 1, r[m + k] = Inside(f, w, s + k)
               PROVE  r[m + (k + 1)] = Inside(f, w, s + (k + 1))
    <3>1. \A k \in 0 .. n - 1 : k + 1 \in 0 .. n
      OBVIOUS
    <3> QED BY <3>1, Zenon
  <2>1. /\ m + (k + 1) \in 1 .. Len(line) /\ (m + (k + 1)) - 1 = m + k
        /\ line[m + (k + 1)] = Backslash /\ s + (k + 1) = (s + k) + 1
    <3>1. k + 1 \in 1 .. n
      OBVIOUS
    <3>2. line[m + (k + 1)] = Backslash
      BY <3>1, <1>0, Zenon
    <3>3. m \in Nat /\ Len(line) \in Nat /\ m + n <= Len(line) /\ k \in Nat /\ k + 1 <= n
      BY <1>0
    <3>4. m + (k + 1) \in 1 .. Len(line) /\ (m + (k + 1)) - 1 = m + k /\ s + (k + 1) = (s + k) + 1
      BY <3>3
    <3> QED BY <3>2, <3>4
  <2>2. r[m + (k + 1)] = ReadCharacter(Inside(f, w, s + k), Backslash)
    BY <2>1 DEF Reads
  <2>3. PICK o, u : o = s + k /\ u = o + 1
    OBVIOUS
  <2>4. ReadCharacter(Inside(f, w, o), Backslash) = Inside(f, w, u)
    BY <2>3, ReadBackslash
  <2> QED BY <2>1, <2>2, <2>3, <2>4, Zenon
<1> HIDE DEF S
<1>3. \A k \in 0 .. n : k \in S
  BY <1>1, <1>2, UpTo, Zenon
<1>4. n \in 0 .. n
  OBVIOUS
<1> QED BY <1>3, <1>4, Zenon DEF S

\* The same outside the quotes.
LEMMA ReadSlashesOutside ==
  ASSUME NEW C, NEW line \in Seq(C), NEW r, Reads(line, r), NEW m,
         NEW n \in Nat, At(line, m, Slashes(n)),
         NEW f, NEW w, NEW s \in Nat, r[m] = Outside(f, w, s)
  PROVE  r[m + n] = Outside(f, w, s + n)
<1> DEFINE S == {k \in 0 .. n : r[m + k] = Outside(f, w, s + k)}
<1>0. /\ m \in Nat /\ Len(line) \in Nat /\ m + n <= Len(line)
      /\ \A u \in 1 .. n : line[m + u] = Backslash
  <2>1. Len(Slashes(n)) = n /\ \A u \in 1 .. n : Slashes(n)[u] = Backslash
    BY SlashesAre
  <2>2. m \in Nat /\ m + n <= Len(line) /\ \A u \in 1 .. n : line[m + u] = Slashes(n)[u]
    BY <2>1 DEF At
  <2>3. Len(line) \in Nat
    OBVIOUS
  <2>4. \A u \in 1 .. n : line[m + u] = Backslash
    BY <2>1, <2>2, Zenon
  <2> QED BY <2>2, <2>3, <2>4, Zenon
<1>1. 0 \in S
  <2>1. m + 0 = m /\ s + 0 = s /\ 0 \in 0 .. n
    BY <1>0
  <2> QED BY <2>1, Zenon
<1>2. \A k \in 0 .. n - 1 : k \in S => k + 1 \in S
  <2> SUFFICES ASSUME NEW k \in 0 .. n - 1, r[m + k] = Outside(f, w, s + k)
               PROVE  r[m + (k + 1)] = Outside(f, w, s + (k + 1))
    <3>1. \A k \in 0 .. n - 1 : k + 1 \in 0 .. n
      OBVIOUS
    <3> QED BY <3>1, Zenon
  <2>1. /\ m + (k + 1) \in 1 .. Len(line) /\ (m + (k + 1)) - 1 = m + k
        /\ line[m + (k + 1)] = Backslash /\ s + (k + 1) = (s + k) + 1
    <3>1. k + 1 \in 1 .. n
      OBVIOUS
    <3>2. line[m + (k + 1)] = Backslash
      BY <3>1, <1>0, Zenon
    <3>3. m \in Nat /\ Len(line) \in Nat /\ m + n <= Len(line) /\ k \in Nat /\ k + 1 <= n
      BY <1>0
    <3>4. m + (k + 1) \in 1 .. Len(line) /\ (m + (k + 1)) - 1 = m + k /\ s + (k + 1) = (s + k) + 1
      BY <3>3
    <3> QED BY <3>2, <3>4
  <2>2. r[m + (k + 1)] = ReadCharacter(Outside(f, w, s + k), Backslash)
    BY <2>1 DEF Reads
  <2>3. PICK o, u : o = s + k /\ u = o + 1
    OBVIOUS
  <2>4. ReadCharacter(Outside(f, w, o), Backslash) = Outside(f, w, u)
    BY <2>3, ReadBackslash
  <2> QED BY <2>1, <2>2, <2>3, <2>4, Zenon
<1> HIDE DEF S
<1>3. \A k \in 0 .. n : k \in S
  BY <1>1, <1>2, UpTo, Zenon
<1>4. n \in 0 .. n
  OBVIOUS
<1> QED BY <1>3, <1>4, Zenon DEF S

\* The inside of a quoted argument: what it says, up to the backslashes it ends in.
Said(C, d, text, f, state, w, s) ==
  w \in Seq(C) /\ s \in Nat /\ Ends(d, s) /\ w \o Slashes(s) = text /\ state = Inside(f, w, s)

\* One character of a quoted text and how it is written.
LEMMA ReadOneMore ==
  ASSUME NEW C, {Quote, Backslash} \subseteq C, NEW d \in Seq(C), NEW c \in C,
         NEW line \in Seq(C), NEW r, Reads(line, r), NEW m, At(line, m, OneMore(d, c)),
         NEW f, NEW w \in Seq(C), NEW s \in Nat, Ends(d, s), r[m + Len(d)] = Inside(f, w, s)
  PROVE  \E v, t : Said(C, OneMore(d, c), Longer(w, s, c), f, r[m + Len(OneMore(d, c))], v, t)
<1> DEFINE D == OneMore(d, c)
           L == Longer(w, s, c)
           z == r[m + Len(OneMore(d, c))]
<1>0. m \in Nat /\ Len(d) \in Nat /\ m + Len(d) \in Nat
  BY DEF At
<1>1. Slashes(s) \in Seq(C) /\ Len(Slashes(s)) = s
  <2>1. Slashes(s) \in Seq({Backslash}) /\ Len(Slashes(s)) = s
    BY SlashesAre
  <2> QED BY <2>1
<1>2. Slashes(0) = <<>>
  BY DEF Slashes
<1>3. PICK x : x = w \o Slashes(s)
  OBVIOUS
<1>3a. x \in Seq(C)
  BY <1>1, <1>3
<1>4. CASE c = Quote
  <2>1. PICK a : a = d \o Slashes(s)
    OBVIOUS
  <2>1a. a \in Seq(C)
    BY <1>1, <2>1
  <2>2. PICK b : b = a \o <<Backslash>>
    OBVIOUS
  <2>2a. b \in Seq(C)
    BY <2>1a, <2>2
  <2>3. OneMore(d, c) = b \o <<Quote>>
    <3>1. EndRun(d) = Slashes(s)
      BY EndRunIs
    <3>2. OneMore(d, c) = a \o <<Backslash, Quote>>
      BY <1>4, <2>1, <3>1 DEF OneMore
    <3>3. a \o <<Backslash, Quote>> = (a \o <<Backslash>>) \o <<Quote>>
      <4>1. <<Backslash>> \in Seq(C) /\ <<Quote>> \in Seq(C)
            /\ <<Backslash>> \o <<Quote>> = <<Backslash, Quote>>
        <5>1. <<Backslash>> \in Seq(C) /\ <<Quote>> \in Seq(C) /\ Quote \in C
          OBVIOUS
        <5>2. /\ <<Backslash>> \o <<Quote>> \in Seq(C) /\ <<Backslash, Quote>> \in Seq(C)
              /\ Len(<<Backslash>> \o <<Quote>>) = 2 /\ Len(<<Backslash, Quote>>) = 2
          BY <5>1, ConcatProperties
        <5>3. \A u \in 1 .. 2 : (<<Backslash>> \o <<Quote>>)[u] = <<Backslash, Quote>>[u]
          <6>1. \A u \in 1 .. 2 : u = 1 \/ u = 2
            OBVIOUS
          <6>2. (<<Backslash>> \o <<Quote>>)[1] = Backslash /\ (<<Backslash>> \o <<Quote>>)[2] = Quote
            BY <5>1, ConcatProperties
          <6> QED BY <6>1, <6>2
        <5> QED BY <5>1, <5>2, <5>3, SeqEqual
      <4>2. a \o (<<Backslash>> \o <<Quote>>) = (a \o <<Backslash>>) \o <<Quote>>
        BY <2>1a, <4>1, ConcatAssociative
      <4> QED BY <4>1, <4>2
    <3> QED BY <2>2, <3>2, <3>3
  <2>4. At(line, m, b) /\ At(line, m + Len(b), <<Quote>>)
    <3>1. <<Quote>> \in Seq(C)
      OBVIOUS
    <3> QED BY <2>2a, <2>3, <3>1, AtConcat
  <2>5. At(line, m, a) /\ At(line, m + Len(a), <<Backslash>>)
    <3>1. <<Backslash>> \in Seq(C)
      OBVIOUS
    <3> QED BY <2>1a, <2>2, <2>4, <3>1, AtConcat
  <2>6. At(line, m + Len(d), Slashes(s))
    BY <1>1, <2>1, <2>5, AtConcat
  <2>7. Len(a) = Len(d) + s /\ Len(b) = Len(d) + s + 1 /\ Len(b \o <<Quote>>) = Len(d) + s + 2
    <3>1. Len(a) = Len(d) + s
      BY <1>1, <2>1, ConcatProperties
    <3>2. <<Backslash>> \in Seq(C) /\ <<Quote>> \in Seq(C) /\ Len(<<Backslash>>) = 1 /\ Len(<<Quote>>) = 1
      OBVIOUS
    <3>3. Len(b) = Len(a) + 1
      BY <2>1a, <2>2, <3>2, ConcatProperties
    <3>4. Len(b \o <<Quote>>) = Len(b) + 1
      BY <2>2a, <3>2, ConcatProperties
    <3>5. Len(d) \in Nat /\ s \in Nat
      OBVIOUS
    <3> QED BY <3>1, <3>3, <3>4, <3>5
  <2>8. r[(m + Len(d)) + s] = Inside(f, w, s + s)
    BY <2>6, ReadSlashesInside
  <2>9. r[m + Len(a)] = Inside(f, w, s + s)
    <3>1. m + Len(a) = (m + Len(d)) + s
      BY <1>0, <2>7
    <3> QED BY <2>8, <3>1, Zenon
  <2>10. PICK n : n = (s + s) + 1
    OBVIOUS
  <2>11. r[m + Len(b)] = Inside(f, w, n)
    <3>1. r[(m + Len(a)) + 1] = ReadCharacter(r[m + Len(a)], Backslash)
      BY <2>5, ReadNext
    <3>2. PICK o : o = s + s
      OBVIOUS
    <3>3. ReadCharacter(Inside(f, w, o), Backslash) = Inside(f, w, n)
      BY <2>10, <3>2, ReadBackslash
    <3>4. (m + Len(a)) + 1 = m + Len(b)
      BY <1>0, <2>7
    <3> QED BY <2>9, <3>1, <3>2, <3>3, <3>4, Zenon
  <2>12. r[m + Len(OneMore(d, c))] = Inside(f, Append(x, c), 0)
    <3>1. r[(m + Len(b)) + 1] = ReadCharacter(r[m + Len(b)], Quote)
      BY <2>4, ReadNext
    <3>2. n % 2 = 1 /\ n \div 2 = s
      BY <2>10
    <3>3. ReadCharacter(Inside(f, w, n), Quote) = Inside(f, Append(w \o Slashes(n \div 2), Quote), 0)
      BY <3>2, ReadQuote
    <3>4. ReadCharacter(Inside(f, w, n), Quote) = Inside(f, Append(x, c), 0)
      BY <3>2, <3>3, <1>3, <1>4, Zenon
    <3>5. (m + Len(b)) + 1 = m + Len(OneMore(d, c))
      <4>1. Len(OneMore(d, c)) = Len(d) + s + 2
        BY <2>3, <2>7
      <4> QED BY <4>1, <1>0, <2>7
    <3> QED BY <2>11, <3>1, <3>4, <3>5, Zenon
  <2>13. Ends(OneMore(d, c), 0)
    <3>1. PICK e \in Nat : Ends(b, e)
      BY <2>2a, EndsExists
    <3>2. OneMore(d, c) = Append(b, Quote)
      BY <2>2a, <2>3
    <3>3. Quote # Backslash /\ Quote \in C
      BY Kinds
    <3>4. Ends(Append(b, Quote), 0)
      BY <2>2a, <3>1, <3>3, EndsGoesOn
    <3> QED BY <3>2, <3>4
  <2>14. Append(x, c) \in Seq(C) /\ Append(x, c) \o Slashes(0) = Append(x, c)
    BY <1>2, <1>3a
  <2>15. L = Append(x, c) \o Slashes(0)
    BY <1>3, <2>14 DEF Longer
  <2> HIDE DEF D, L, z
  <2>16. Said(C, D, L, f, z, Append(x, c), 0)
    BY <2>12, <2>13, <2>14, <2>15 DEF Said, D, z
  <2> QED BY <2>16, Zenon DEF D, L, z
<1>5. CASE c # Quote
  <2>1. OneMore(d, c) = Append(d, c) /\ OneMore(d, c) = d \o <<c>> /\ Len(OneMore(d, c)) = Len(d) + 1
    <3>1. OneMore(d, c) = Append(d, c)
      BY <1>5 DEF OneMore
    <3>2. Append(d, c) = d \o <<c>>
      BY AppendIsConcat
    <3>3. Len(Append(d, c)) = Len(d) + 1
      BY AppendProperties
    <3> QED BY <3>1, <3>2, <3>3
  <2>2. At(line, m + Len(d), <<c>>)
    <3>1. <<c>> \in Seq(C)
      OBVIOUS
    <3> QED BY <2>1, <3>1, AtConcat
  <2>3. r[m + Len(OneMore(d, c))] = ReadCharacter(Inside(f, w, s), c)
    <3>1. r[(m + Len(d)) + 1] = ReadCharacter(r[m + Len(d)], c)
      BY <2>2, ReadNext
    <3>2. (m + Len(d)) + 1 = m + Len(OneMore(d, c))
      BY <1>0, <2>1
    <3> QED BY <3>1, <3>2, Zenon
  <2>4. CASE c = Backslash
    <3>1. PICK n \in Nat : n = s + 1
      OBVIOUS
    <3>2. r[m + Len(OneMore(d, c))] = Inside(f, w, n)
      BY <2>3, <2>4, <3>1, ReadBackslash
    <3>3. Ends(OneMore(d, c), n)
      BY <2>1, <2>4, <3>1, EndsGoesOn
    <3>4. w \o Slashes(n) = Append(w \o Slashes(s), c)
      <4>1. Slashes(n) = Slashes(s) \o <<Backslash>>
        BY <3>1, SlashesAre
      <4>2. w \o (Slashes(s) \o <<Backslash>>) = Append(w \o Slashes(s), Backslash)
        BY <1>1
      <4> QED BY <4>1, <4>2, <2>4
    <3>5. Said(C, D, L, f, z, w, n)
      BY <3>1, <3>2, <3>3, <3>4 DEF Said, Longer
    <3> QED BY <3>5, Zenon
  <2>5. CASE c # Backslash
    <3>1. r[m + Len(OneMore(d, c))] = Inside(f, Append(x, c), 0)
      <4>1. ReadCharacter(Inside(f, w, s), c) = Inside(f, Append(w \o Slashes(s), c), 0)
        <5>1. ReadCharacter(Inside(f, w, s), c) = Inside(f, Longer(w, s, c), 0)
          BY <1>5, <2>5, ReadOther
        <5> QED BY <5>1, Zenon DEF Longer
      <4> QED BY <4>1, <1>3, <2>3, Zenon
    <3>2. Ends(OneMore(d, c), 0)
      BY <2>1, <2>5, EndsGoesOn
    <3>3. Append(x, c) \in Seq(C) /\ Append(x, c) \o Slashes(0) = Append(x, c)
      BY <1>2, <1>3a
    <3>4. Said(C, D, L, f, z, Append(x, c), 0)
      BY <1>3, <3>1, <3>2, <3>3 DEF Said, Longer
    <3> QED BY <3>4, Zenon
  <2> QED BY <2>4, <2>5
<1> QED BY <1>4, <1>5

\* Each text is its beginnings, one character longer at a time.
LEMMA Beginnings ==
  ASSUME NEW C, NEW text \in Seq(C)
  PROVE  /\ SubSeq(text, 1, 0) = <<>> /\ SubSeq(text, 1, Len(text)) = text
         /\ \A k \in 0 .. Len(text) : SubSeq(text, 1, k) \in Seq(C)
         /\ \A k \in 1 .. Len(text) : SubSeq(text, 1, k) = Append(SubSeq(text, 1, k - 1), text[k])
<1>0. Len(text) \in Nat /\ \A k \in 1 .. Len(text) : text[k] \in C
  OBVIOUS
<1>1. \A k \in 0 .. Len(text) : /\ SubSeq(text, 1, k) \in Seq(C) /\ Len(SubSeq(text, 1, k)) = k
                                /\ \A u \in 1 .. k : SubSeq(text, 1, k)[u] = text[u]
  BY <1>0
<1>2. SubSeq(text, 1, 0) = <<>>
  BY <1>0
<1>3. SubSeq(text, 1, Len(text)) = text
  <2>1. Len(text) \in 0 .. Len(text)
    BY <1>0
  <2> QED BY <1>1, <2>1, SeqEqual
<1>4. ASSUME NEW k \in 1 .. Len(text)
      PROVE  SubSeq(text, 1, k) = Append(SubSeq(text, 1, k - 1), text[k])
  <2>1. PICK a, b : a = SubSeq(text, 1, k - 1) /\ b = SubSeq(text, 1, k)
    OBVIOUS
  <2>2. k - 1 \in 0 .. Len(text) /\ k \in 0 .. Len(text) /\ text[k] \in C
    BY <1>0
  <2>3. a \in Seq(C) /\ Len(a) = k - 1 /\ \A u \in 1 .. k - 1 : a[u] = text[u]
    BY <1>1, <2>1, <2>2
  <2>4. b \in Seq(C) /\ Len(b) = k /\ \A u \in 1 .. k : b[u] = text[u]
    BY <1>1, <2>1, <2>2
  <2>5. /\ Append(a, text[k]) \in Seq(C) /\ Len(Append(a, text[k])) = k
        /\ \A u \in 1 .. k : Append(a, text[k])[u] = text[u]
    <3>1. /\ Append(a, text[k]) \in Seq(C) /\ Len(Append(a, text[k])) = Len(a) + 1
          /\ \A u \in 1 .. Len(a) : Append(a, text[k])[u] = a[u]
          /\ Append(a, text[k])[Len(a) + 1] = text[k]
      BY <2>2, <2>3, AppendProperties
    <3>2. k \in Nat /\ Len(a) + 1 = k /\ \A u \in 1 .. k : u \in 1 .. Len(a) \/ u = k
      BY <2>3
    <3> QED BY <2>3, <3>1, <3>2
  <2>6. b = Append(a, text[k])
    BY <2>4, <2>5, SeqEqual
  <2> QED BY <2>1, <2>6
<1> QED BY <1>1, <1>2, <1>3, <1>4

\* What is written stays written.
LEMMA OneMoreGoesOn ==
  ASSUME NEW C, {Quote, Backslash} \subseteq C, NEW d \in Seq(C), NEW c \in C
  PROVE  \E b \in Seq(C) : OneMore(d, c) = d \o b
<1>1. PICK t \in Nat : Ends(d, t)
  BY EndsExists
<1>2. PICK g, h : g = EndRun(d) /\ h = <<Backslash, Quote>>
  OBVIOUS
<1>3. g \in Seq(C)
  <2>1. g = Slashes(t) /\ Slashes(t) \in Seq({Backslash})
    BY <1>1, <1>2, EndRunIs, SlashesAre
  <2> QED BY <2>1
<1>4. h \in Seq(C)
  BY <1>2
<1>5. CASE c = Quote
  <2>1. OneMore(d, c) = (d \o g) \o h
    BY <1>2, <1>5 DEF OneMore
  <2>2. (d \o g) \o h = d \o (g \o h) /\ g \o h \in Seq(C)
    BY <1>3, <1>4, ConcatAssociative, ConcatProperties
  <2> QED BY <2>1, <2>2
<1>6. CASE c # Quote
  <2>1. OneMore(d, c) = d \o <<c>> /\ <<c>> \in Seq(C)
    BY <1>6, AppendIsConcat DEF OneMore
  <2> QED BY <2>1
<1> QED BY <1>5, <1>6

\* What has been escaped of a text is read back inside the quotes as that text.
LEMMA ReadEscaped ==
  ASSUME NEW C, {Quote, Backslash} \subseteq C, NEW text \in Seq(C), NEW done, Escaping(C, text, done),
         NEW line \in Seq(C), NEW r, Reads(line, r), NEW m, At(line, m, done[Len(text)]),
         NEW f, r[m] = Inside(f, <<>>, 0)
  PROVE  \E w, s : Said(C, done[Len(text)], text, f, r[m + Len(done[Len(text)])], w, s)
<1> DEFINE n == Len(text)
           Goal(k) == \E w, s : Said(C, done[k], SubSeq(text, 1, k), f, r[m + Len(done[k])], w, s)
           S == {k \in 0 .. n : At(line, m, done[k]) => Goal(k)}
<1>0. /\ n \in Nat /\ m \in Nat /\ \A k \in 1 .. n : text[k] \in C
      /\ \A k \in 0 .. n : done[k] \in Seq(C)
  <2>1. \A k \in 0 .. n : done[k] \in Seq(C)
    BY DEF Escaping
  <2> QED BY <2>1 DEF At
<1> HIDE DEF n
<1>1. 0 \in S
  <2>1. done[0] = <<>> /\ 0 \in 0 .. n
    BY <1>0 DEF Escaping
  <2>2. Ends(<<>>, 0) /\ Len(<<>>) = 0 /\ m + 0 = m
    BY <1>0 DEF Ends
  <2>3. <<>> \in Seq(C) /\ <<>> \o Slashes(0) = <<>>
    BY DEF Slashes
  <2>4. SubSeq(text, 1, 0) = <<>>
    BY Beginnings
  <2>5. r[m + Len(done[0])] = Inside(f, <<>>, 0)
    BY <2>1, <2>2
  <2>6. Said(C, done[0], SubSeq(text, 1, 0), f, r[m + Len(done[0])], <<>>, 0)
    BY <2>1, <2>2, <2>3, <2>4, <2>5 DEF Said
  <2> QED BY <2>1, <2>6
<1>2. \A k \in 0 .. n - 1 : k \in S => k + 1 \in S
  <2> SUFFICES ASSUME NEW k \in 0 .. n - 1, k \in S, At(line, m, done[k + 1])
               PROVE  Goal(k + 1)
    <3>1. \A k \in 0 .. n - 1 : k + 1 \in 0 .. n
      BY <1>0
    <3> QED BY <3>1
  <2>1. k + 1 \in 1 .. n /\ (k + 1) - 1 = k /\ k \in 0 .. n /\ k + 1 \in 0 .. n
    BY <1>0
  <2>2. PICK d, e, c : d = done[k] /\ e = done[k + 1] /\ c = text[k + 1]
    OBVIOUS
  <2>3. d \in Seq(C) /\ e \in Seq(C) /\ c \in C
    BY <1>0, <2>1, <2>2
  <2>4. e = OneMore(d, c)
    BY <2>1, <2>2 DEF Escaping, n
  <2>5. At(line, m, d)
    <3>1. PICK b \in Seq(C) : OneMore(d, c) = d \o b
      BY <2>3, OneMoreGoesOn
    <3> QED BY <2>2, <2>3, <2>4, <3>1, AtConcat
  <2>6. PICK w, s : Said(C, d, SubSeq(text, 1, k), f, r[m + Len(d)], w, s)
    BY <2>2, <2>5
  <2>7. w \in Seq(C) /\ s \in Nat /\ Ends(d, s) /\ r[m + Len(d)] = Inside(f, w, s)
    BY <2>6 DEF Said
  <2>8. PICK v, t : Said(C, OneMore(d, c), Longer(w, s, c), f, r[m + Len(OneMore(d, c))], v, t)
    <3>1. At(line, m, OneMore(d, c))
      BY <2>2, <2>4
    <3> QED BY <2>3, <2>7, <3>1, ReadOneMore
  <2>9. Longer(w, s, c) = SubSeq(text, 1, k + 1)
    <3>1. w \o Slashes(s) = SubSeq(text, 1, k)
      BY <2>6 DEF Said
    <3>2. SubSeq(text, 1, k + 1) = Append(SubSeq(text, 1, (k + 1) - 1), text[k + 1])
      BY <2>1, Beginnings DEF n
    <3> QED BY <2>1, <2>2, <3>1, <3>2 DEF Longer
  <2>10. Said(C, e, SubSeq(text, 1, k + 1), f, r[m + Len(e)], v, t)
    BY <2>4, <2>8, <2>9
  <2> QED BY <2>2, <2>10
<1> HIDE DEF S
<1>3. \A k \in 0 .. n : k \in S
  BY <1>0, <1>1, <1>2, UpTo
<1>4. n \in S
  BY <1>0, <1>3
<1>5. Goal(n)
  BY <1>4 DEF S, n
<1>6. SubSeq(text, 1, n) = text
  BY Beginnings DEF n
<1> QED BY <1>5, <1>6 DEF n

\* An argument has been read when the word and its undecided backslashes are the text.
Held(C, text, f, state, w, s) ==
  w \in Seq(C) /\ s \in Nat /\ w \o Slashes(s) = text /\ state = Outside(f, w, s)

\* A text without blank and quote is written as it is.
LEMMA ReadPlain ==
  ASSUME NEW C, NEW text \in Seq(C), text # <<>>,
         ~ \E u \in DOMAIN text : text[u] \in {Blank, Quote},
         NEW line \in Seq(C), NEW r, Reads(line, r), NEW m, At(line, m, text),
         NEW f, r[m] = Between(f)
  PROVE  \E w, s : Held(C, text, f, r[m + Len(text)], w, s)
<1> DEFINE n == Len(text)
           Read(k, w, s) == /\ w \in Seq(C) /\ s \in Nat /\ w \o Slashes(s) = SubSeq(text, 1, k)
                            /\ r[m + k] = Outside(f, w, s)
           S == {k \in 0 .. n : k = 0 \/ \E w, s : Read(k, w, s)}
<1>0. /\ n \in Nat /\ n # 0 /\ m \in Nat /\ \A k \in 1 .. n : text[k] \in C
      /\ \A k \in 1 .. n : text[k] # Blank /\ text[k] # Quote
  BY DEF At
<1>1. \A k \in 1 .. n : r[m + k] = ReadCharacter(r[m + (k - 1)], text[k])
  <2> TAKE k \in 1 .. n
  <2>1. /\ m + k \in 1 .. Len(line) /\ (m + k) - 1 = m + (k - 1) /\ line[m + k] = text[k]
    BY <1>0 DEF At
  <2> QED BY <2>1 DEF Reads
<1>2. Slashes(0) = <<>>
  BY DEF Slashes
<1>3. /\ \A k \in 1 .. n : SubSeq(text, 1, k) = Append(SubSeq(text, 1, k - 1), text[k])
      /\ SubSeq(text, 1, 0) = <<>>
      /\ SubSeq(text, 1, n) = text
  BY Beginnings
<1> HIDE DEF n
<1>4. ASSUME NEW k \in 1 .. n, k - 1 \in S
      PROVE  \E w, s : Read(k, w, s)
  <2>1. PICK c : c = text[k]
    OBVIOUS
  <2>2. c \in C /\ c # Blank /\ c # Quote
    BY <1>0, <2>1
  <2>3. CASE k = 1
    <3>1. r[m + 1] = ReadCharacter(Between(f), c)
      <4>1. m + (1 - 1) = m
        BY <1>0
      <4> QED BY <1>1, <2>1, <2>3, <4>1
    <3>2. SubSeq(text, 1, 1) = <<c>>
      <4>1. SubSeq(text, 1, 1) = Append(SubSeq(text, 1, 1 - 1), c)
        BY <1>3, <2>1, <2>3
      <4>2. 1 - 1 = 0
        OBVIOUS
      <4>3. SubSeq(text, 1, 1) = Append(<<>>, c)
        BY <4>1, <4>2, <1>3
      <4> QED BY <4>3
    <3>3. CASE c = Backslash
      <4>1. r[m + 1] = Outside(f, <<>>, 1)
        BY <3>1, <3>3, StartBackslash
      <4>2. <<>> \o Slashes(1) = <<c>>
        BY <3>3 DEF Slashes
      <4>3. Read(k, <<>>, 1)
        <5>1. <<>> \in Seq(C) /\ 1 \in Nat
          OBVIOUS
        <5> QED BY <5>1, <4>1, <4>2, <3>2, <2>3
      <4> QED BY <4>3
    <3>4. CASE c # Backslash
      <4>1. r[m + 1] = Outside(f, <<c>>, 0)
        BY <3>1, <3>4, <2>2, StartOther
      <4>2. <<c>> \in Seq(C) /\ <<c>> \o Slashes(0) = <<c>>
        <5>1. <<c>> \in Seq(C)
          BY <2>2
        <5> QED BY <5>1, <1>2, ConcatEmptySeq
      <4>3. Read(k, <<c>>, 0)
        BY <4>1, <4>2, <3>2, <2>3
      <4> QED BY <4>3
    <3> QED BY <3>3, <3>4
  <2>4. CASE k # 1
    <3>1. k - 1 # 0
      BY <1>0, <2>4
    <3>2. PICK w, s : Read(k - 1, w, s)
      BY <1>4, <3>1
    <3>3. w \in Seq(C) /\ s \in Nat /\ w \o Slashes(s) = SubSeq(text, 1, k - 1)
      BY <3>2
    <3>4. r[m + k] = ReadCharacter(Outside(f, w, s), c)
      BY <3>2, <1>1, <2>1
    <3>5. SubSeq(text, 1, k) = Longer(w, s, c)
      BY <1>3, <2>1, <3>3 DEF Longer
    <3>6. Slashes(s) \in Seq({Backslash})
      BY <3>3, SlashesAre
    <3>7. CASE c = Backslash
      <4>1. PICK o \in Nat : o = s + 1
        BY <3>3
      <4>2. r[m + k] = Outside(f, w, o)
        BY <3>4, <3>7, <4>1, ReadBackslash
      <4>3. w \o Slashes(o) = SubSeq(text, 1, k)
        <5>1. Slashes(o) = Slashes(s) \o <<Backslash>>
          BY <3>3, <4>1, SlashesAre
        <5>2. Slashes(s) \in Seq(C)
          BY <3>6, <3>7, <2>2
        <5>3. w \o (Slashes(s) \o <<Backslash>>) = Append(w \o Slashes(s), Backslash)
          BY <3>3, <5>2, <3>7, <2>2
        <5> QED BY <5>1, <5>3, <3>5, <3>7 DEF Longer
      <4>4. Read(k, w, o)
        BY <3>3, <4>1, <4>2, <4>3
      <4> QED BY <4>4
    <3>8. CASE c # Backslash
      <4>1. r[m + k] = Outside(f, Longer(w, s, c), 0)
        BY <3>4, <3>8, <2>2, ReadOther
      <4>2. Longer(w, s, c) \in Seq(C)
        <5>1. SubSeq(text, 1, k) \in Seq(C)
          BY <1>0, Beginnings DEF n
        <5> QED BY <5>1, <3>5
      <4>3. Longer(w, s, c) \o Slashes(0) = Longer(w, s, c)
        BY <1>2, <4>2
      <4>4. Read(k, Longer(w, s, c), 0)
        BY <3>5, <4>1, <4>2, <4>3
      <4> QED BY <4>4
    <3> QED BY <3>7, <3>8
  <2> QED BY <2>3, <2>4
<1>5. 0 \in S
  BY <1>0
<1>6. \A k \in 0 .. n - 1 : k \in S => k + 1 \in S
  <2> SUFFICES ASSUME NEW k \in 0 .. n - 1, k \in S PROVE k + 1 \in S
    OBVIOUS
  <2>1. k + 1 \in 1 .. n /\ k + 1 \in 0 .. n /\ (k + 1) - 1 = k
    BY <1>0
  <2> HIDE DEF S
  <2>2. \E w, s : Read(k + 1, w, s)
    BY <2>1, <1>4
  <2> QED BY <2>1, <2>2 DEF S
<1> HIDE DEF S
<1>7. \A k \in 0 .. n : k \in S
  BY <1>0, <1>5, <1>6, UpTo
<1>8. n \in S
  BY <1>0, <1>7
<1>9. PICK w, s : Read(n, w, s)
  BY <1>0, <1>8 DEF S
<1>10. Held(C, text, f, r[m + Len(text)], w, s)
  BY <1>9, <1>3 DEF n, Held
<1> QED BY <1>10, Zenon

\* The parts of an argument that is written in quotes.
LEMMA EscapedIs ==
  ASSUME NEW C, {Quote, Backslash} \subseteq C, NEW text \in Seq(C)
  PROVE  /\ Escaped(text) \in Seq(C)
         /\ \/ Escaped(text) = text /\ ~ \E u \in DOMAIN text : text[u] \in {Blank, Quote}
            \/ \E done, s : /\ Escaping(C, text, done) /\ s \in Nat /\ Ends(done[Len(text)], s)
                            /\ Escaped(text) = ((<<Quote>> \o done[Len(text)]) \o Slashes(s)) \o <<Quote>>
<1>1. PICK done : Escaping(C, text, done) /\ EscapeQuotes(text) = done[Len(text)]
  BY EscapeQuotesIs
<1>2. PICK d : d = done[Len(text)]
  OBVIOUS
<1>3. d \in Seq(C)
  <2>1. Len(text) \in 0 .. Len(text)
    OBVIOUS
  <2> QED BY <1>1, <1>2, <2>1 DEF Escaping
<1>4. PICK s \in Nat : Ends(d, s)
  BY <1>3, EndsExists
<1>5. EndRun(d) = Slashes(s) /\ Slashes(s) \in Seq({Backslash})
  BY <1>3, <1>4, EndRunIs, SlashesAre
<1>6. CASE \E u \in DOMAIN text : text[u] \in {Blank, Quote}
  <2>1. Escaped(text) = <<Quote>> \o d \o EndRun(d) \o <<Quote>>
    BY <1>1, <1>2, <1>6 DEF Escaped
  <2>2. Escaped(text) = ((<<Quote>> \o d) \o Slashes(s)) \o <<Quote>>
    BY <1>5, <2>1
  <2>3. <<Quote>> \in Seq(C) /\ Slashes(s) \in Seq(C)
    BY <1>5
  <2>4. (<<Quote>> \o d) \o Slashes(s) \in Seq(C)
    BY <1>3, <2>3
  <2>5. Escaped(text) \in Seq(C)
    BY <2>2, <2>3, <2>4
  <2> QED BY <1>1, <1>2, <1>4, <2>2, <2>5
<1>7. CASE ~ \E u \in DOMAIN text : text[u] \in {Blank, Quote}
  BY <1>7 DEF Escaped
<1> QED BY <1>6, <1>7

\* An argument converted by the script is read back, from between two arguments, as itself.
LEMMA ReadArgument ==
  ASSUME NEW C, {Quote, Backslash} \subseteq C, NEW text \in Seq(C), text # <<>>,
         NEW line \in Seq(C), NEW r, Reads(line, r), NEW m, At(line, m, Escaped(text)),
         NEW f, r[m] = Between(f)
  PROVE  \E w, s : Held(C, text, f, r[m + Len(Escaped(text))], w, s)
<1>1. CASE Escaped(text) = text /\ ~ \E u \in DOMAIN text : text[u] \in {Blank, Quote}
  <2>1. At(line, m, text)
    BY <1>1
  <2>2. \E w, s : Held(C, text, f, r[m + Len(text)], w, s)
    BY <1>1, <2>1, ReadPlain
  <2> QED BY <1>1, <2>2
<1>2. CASE \E done, s : /\ Escaping(C, text, done) /\ s \in Nat /\ Ends(done[Len(text)], s)
                        /\ Escaped(text) = ((<<Quote>> \o done[Len(text)]) \o Slashes(s)) \o <<Quote>>
  <2>1. PICK done, s : /\ Escaping(C, text, done) /\ s \in Nat /\ Ends(done[Len(text)], s)
                       /\ Escaped(text) = ((<<Quote>> \o done[Len(text)]) \o Slashes(s)) \o <<Quote>>
    BY <1>2
  <2>2. PICK d, q, a, b, e : /\ d = done[Len(text)] /\ q = <<Quote>> /\ e = Escaped(text)
                             /\ a = q \o d /\ b = a \o Slashes(s)
    OBVIOUS
  <2>3. e = b \o q /\ Ends(d, s)
    BY <2>1, <2>2
  <2>4. d \in Seq(C)
    <3>1. Len(text) \in 0 .. Len(text)
      OBVIOUS
    <3> QED BY <2>1, <2>2, <3>1 DEF Escaping
  <2>5. q \in Seq(C) /\ Len(q) = 1
    BY <2>2
  <2>6. Slashes(s) \in Seq(C) /\ Len(Slashes(s)) = s /\ s \in Nat
    <3>1. Slashes(s) \in Seq({Backslash}) /\ Len(Slashes(s)) = s
      BY <2>1, SlashesAre
    <3> QED BY <2>1, <3>1
  <2>7. a \in Seq(C) /\ Len(a) = Len(q) + Len(d)
    BY <2>2, <2>4, <2>5, ConcatProperties
  <2>8. b \in Seq(C) /\ Len(b) = Len(a) + Len(Slashes(s))
    BY <2>2, <2>6, <2>7, ConcatProperties
  <2>9. Len(e) = Len(b) + Len(q)
    BY <2>3, <2>5, <2>8, ConcatProperties
  <2>10. At(line, m, b) /\ At(line, m + Len(b), q)
    <3>1. At(line, m, b \o q)
      BY <2>2, <2>3
    <3> QED BY <2>5, <2>8, <3>1, AtConcat
  <2>11. At(line, m, a) /\ At(line, m + Len(a), Slashes(s))
    BY <2>2, <2>6, <2>7, <2>10, AtConcat
  <2>12. At(line, m, q) /\ At(line, m + Len(q), d)
    BY <2>2, <2>4, <2>5, <2>11, AtConcat
  <2>13. m \in Nat /\ Len(d) \in Nat /\ s \in Nat
    BY <2>4, <2>6 DEF At
  <2>14. r[m + 1] = Inside(f, <<>>, 0)
    BY <2>2, <2>12, ReadNext, StartQuote
  <2>15. PICK w, t : Said(C, d, text, f, r[(m + 1) + Len(d)], w, t)
    <3>1. At(line, m + 1, done[Len(text)])
      BY <2>2, <2>5, <2>12
    <3>2. \E w, t : Said(C, done[Len(text)], text, f, r[(m + 1) + Len(done[Len(text)])], w, t)
      BY <2>1, <2>14, <3>1, ReadEscaped
    <3> QED BY <3>2, <2>2
  <2>16. w \in Seq(C) /\ t \in Nat /\ Ends(d, t) /\ w \o Slashes(t) = text
         /\ r[(m + 1) + Len(d)] = Inside(f, w, t)
    BY <2>15 DEF Said
  <2>17. Slashes(t) = Slashes(s)
    BY <2>3, <2>4, <2>16, EndRunIs
  <2>18. t = s
    BY <2>6, <2>16, <2>17, SlashesAre
  <2>19. r[m + Len(a)] = Inside(f, w, s)
    <3>1. m + Len(a) = (m + 1) + Len(d)
      BY <2>5, <2>7, <2>13
    <3> QED BY <3>1, <2>16, <2>18
  <2>20. PICK n : n = s + s
    OBVIOUS
  <2>21. r[m + Len(b)] = Inside(f, w, n)
    <3>1. r[(m + Len(a)) + s] = Inside(f, w, s + s)
      BY <2>6, <2>11, <2>19, ReadSlashesInside
    <3>2. m + Len(b) = (m + Len(a)) + s
      BY <2>5, <2>6, <2>7, <2>8, <2>13
    <3> QED BY <3>1, <3>2, <2>20
  <2>22. r[m + Len(e)] = ReadCharacter(Inside(f, w, n), Quote)
    <3>1. r[(m + Len(b)) + 1] = ReadCharacter(r[m + Len(b)], Quote)
      BY <2>2, <2>10, ReadNext
    <3>2. (m + Len(b)) + 1 = m + Len(e)
      BY <2>5, <2>6, <2>7, <2>8, <2>9, <2>13
    <3> QED BY <3>1, <3>2, <2>21
  <2>23. r[m + Len(e)] = Outside(f, text, 0)
    <3>1. n % 2 # 1 /\ n \div 2 = s
      BY <2>6, <2>20
    <3>2. ReadCharacter(Inside(f, w, n), Quote) = Outside(f, w \o Slashes(n \div 2), 0)
      BY <3>1, ReadQuote
    <3>3. w \o Slashes(n \div 2) = text
      BY <3>1, <2>16, <2>18
    <3> QED BY <3>2, <3>3, <2>22
  <2>24. text \o Slashes(0) = text
    BY DEF Slashes
  <2>25. Held(C, text, f, r[m + Len(Escaped(text))], text, 0)
    BY <2>2, <2>23, <2>24 DEF Held
  <2> QED BY <2>25, Zenon
<1> QED BY <1>1, <1>2, EscapedIs

(***************************************************************************)
(* The line of several arguments                                           *)
(***************************************************************************)

States(C) == [found : Seq(Seq(C)), word : Seq(C), open : BOOLEAN, quoted : BOOLEAN, slashes : Nat]

LEMMA ReadCharacterType ==
  ASSUME NEW C, {Quote, Backslash} \subseteq C, NEW z \in States(C), NEW c \in C
  PROVE  ReadCharacter(z, c) \in States(C)
<1>1. /\ z.found \in Seq(Seq(C)) /\ z.word \in Seq(C) /\ z.open \in BOOLEAN
      /\ z.quoted \in BOOLEAN /\ z.slashes \in Nat
  BY DEF States
<1>2. \A n \in Nat : Slashes(n) \in Seq(C)
  <2> SUFFICES ASSUME NEW n \in Nat PROVE Slashes(n) \in Seq(C)
    OBVIOUS
  <2>1. Slashes(n) \in Seq({Backslash})
    BY SlashesAre
  <2> QED BY <2>1
<1>3. ASSUME NEW y \in States(C), NEW v \in Seq(C)
      PROVE  [y EXCEPT !.word = v] \in States(C)
  BY DEF States
<1>4. Flushed(z) \in States(C)
  <2>1. PICK x : x = z.word \o Slashes(z.slashes)
    OBVIOUS
  <2>2. x \in Seq(C)
    BY <1>1, <1>2, <2>1
  <2>3. [z EXCEPT !.word = x, !.slashes = 0] \in States(C)
    BY <2>2 DEF States
  <2>4. Flushed(z) = [z EXCEPT !.word = x, !.slashes = 0]
    BY <2>1, Zenon DEF Flushed
  <2> QED BY <2>3, <2>4
<1>5. ASSUME NEW y \in States(C)
      PROVE  WordDone(y) \in States(C)
  <2>1. y.found \in Seq(Seq(C)) /\ y.word \in Seq(C)
    BY DEF States
  <2>2. PICK g : g = Append(y.found, y.word)
    OBVIOUS
  <2>3. g \in Seq(Seq(C))
    BY <2>1, <2>2
  <2>4. Reading \in States(C)
    BY DEF Reading, States
  <2>5. [Reading EXCEPT !.found = g] \in States(C)
    BY <2>3, <2>4 DEF States
  <2> QED BY <2>2, <2>5 DEF WordDone
<1>6. CASE c = Backslash
  <2>1. PICK n : n = z.slashes + 1
    OBVIOUS
  <2>2. [z EXCEPT !.slashes = n, !.open = TRUE] \in States(C)
    <3>1. n \in Nat
      BY <1>1, <2>1
    <3> QED BY <3>1 DEF States
  <2>3. ReadCharacter(z, c) = [z EXCEPT !.slashes = n, !.open = TRUE]
    BY <1>6, <2>1, Kinds, Zenon DEF ReadCharacter
  <2> QED BY <2>2, <2>3
<1>7. CASE c = Quote
  <2>1. PICK x, half : x = z.word \o Slashes(z.slashes \div 2)
                       /\ half = [z EXCEPT !.word = x, !.slashes = 0, !.open = TRUE]
    OBVIOUS
  <2>2. x \in Seq(C)
    <3>1. z.slashes \div 2 \in Nat
      BY <1>1
    <3> QED BY <3>1, <1>1, <1>2, <2>1
  <2>3. half \in States(C)
    BY <2>1, <2>2 DEF States
  <2>4. half.word \in Seq(C) /\ half.quoted \in BOOLEAN
    BY <2>3 DEF States
  <2>5. PICK v, b : v = Append(half.word, Quote) /\ b = ~half.quoted
    OBVIOUS
  <2>6. v \in Seq(C) /\ b \in BOOLEAN
    BY <2>4, <2>5
  <2>7. [half EXCEPT !.word = v] \in States(C) /\ [half EXCEPT !.quoted = b] \in States(C)
    BY <2>3, <2>6 DEF States
  <2>8. ReadCharacter(z, c) = IF z.slashes % 2 = 1 THEN [half EXCEPT !.word = v]
                                                   ELSE [half EXCEPT !.quoted = b]
    BY <1>7, <2>1, <2>5, Kinds, Zenon DEF ReadCharacter
  <2> QED BY <2>7, <2>8
<1>8. CASE c # Backslash /\ c # Quote /\ c = Blank /\ ~z.quoted
  <2>1. ReadCharacter(z, c) = WordDone(Flushed(z))
    BY <1>8, Kinds, Zenon DEF ReadCharacter
  <2> QED BY <2>1, <1>4, <1>5
<1>9. CASE c # Backslash /\ c # Quote /\ ~(c = Blank /\ ~z.quoted)
  <2>1. PICK b : b = Flushed(z)
    OBVIOUS
  <2>2. PICK v : v = Append(b.word, c)
    OBVIOUS
  <2>3. b \in States(C) /\ b.word \in Seq(C)
    BY <1>4, <2>1 DEF States
  <2>4. v \in Seq(C)
    BY <2>2, <2>3
  <2>5. [b EXCEPT !.word = v, !.open = TRUE] \in States(C)
    BY <2>3, <2>4 DEF States
  <2>6. ReadCharacter(z, c) = [b EXCEPT !.word = v, !.open = TRUE]
    BY <1>9, <2>1, <2>2, Zenon DEF ReadCharacter
  <2> QED BY <2>5, <2>6
<1> QED BY <1>6, <1>7, <1>8, <1>9

\* What the program has read, and what it finds.
LEMMA ArgumentsOfIs ==
  ASSUME NEW C, {Quote, Backslash} \subseteq C, NEW line \in Seq(C)
  PROVE  \E r : Reads(line, r) /\ ArgumentsOf(line) = WordDone(Flushed(r[Len(line)])).found
<1> DEFINE n == Len(line)
           V == States(C)
           F(f) == [k \in 0 .. n |-> IF k = 0 THEN Reading ELSE ReadCharacter(f[k - 1], line[k])]
<1>0. n \in Nat /\ \A k \in 1 .. n : line[k] \in C
  OBVIOUS
<1>1. Reading \in V
  BY DEF Reading, States
<1> HIDE DEF n, V
<1>2. PICK step \in [V \X (1 .. n) -> V] :
             \A d \in V : \A k \in 1 .. n : step[<<d, k>>] = ReadCharacter(d, line[k])
  <2> DEFINE st == [p \in V \X (1 .. n) |-> ReadCharacter(p[1], line[p[2]])]
  <2>1. st \in [V \X (1 .. n) -> V]
    BY <1>0, ReadCharacterType DEF V
  <2>2. \A d \in V : \A k \in 1 .. n : st[<<d, k>>] = ReadCharacter(d, line[k])
    OBVIOUS
  <2> HIDE DEF st
  <2> QED BY <2>1, <2>2
<1>3. PICK f \in [0 .. n -> V] : f[0] = Reading /\ \A k \in 1 .. n : f[k] = step[<<f[k - 1], k>>]
  <2>1. PICK f : Given(f, n, V, Reading, step)
    BY <1>0, <1>1, Recursion
  <2> QED BY <2>1 DEF Given
<1>4. f = F(f)
  <2>1. \A k \in 0 .. n : f[k] = F(f)[k]
    <3> TAKE k \in 0 .. n
    <3>1. CASE k = 0
      BY <3>1, <1>3
    <3>2. CASE k # 0
      <4>1. k \in 1 .. n /\ k - 1 \in 0 .. n /\ f[k - 1] \in V
        BY <3>2, <1>0, <1>3
      <4>2. f[k] = ReadCharacter(f[k - 1], line[k])
        BY <4>1, <1>2, <1>3
      <4>3. F(f)[k] = ReadCharacter(f[k - 1], line[k])
        BY <3>2
      <4> QED BY <4>2, <4>3
    <3> QED BY <3>1, <3>2
  <2> HIDE DEF F
  <2>2. F(f) = [k \in 0 .. n |-> F(f)[k]]
    BY DEF F
  <2>3. f = [k \in 0 .. n |-> f[k]]
    BY <1>3
  <2> QED BY <2>1, <2>2, <2>3
<1> DEFINE read == CHOOSE f_1 : f_1 = F(f_1)
<1>5. read = F(read)
  <2> HIDE DEF F
  <2> QED BY <1>4
<1>6. ArgumentsOf(line) = WordDone(Flushed(read[n])).found
  BY DEF ArgumentsOf, n
<1> HIDE DEF read
<1>7. read[0] = Reading
  BY <1>0, <1>5
<1>8. \A k \in 1 .. n : read[k] = ReadCharacter(read[k - 1], line[k])
  <2> TAKE k \in 1 .. n
  <2>1. k \in 0 .. n /\ k # 0
    BY <1>0
  <2>2. F(read)[k] = ReadCharacter(read[k - 1], line[k])
    BY <2>1
  <2>3. F(read)[k] = read[k]
    <3> HIDE DEF F
    <3> QED BY <1>5
  <2> QED BY <2>2, <2>3
<1> QED BY <1>6, <1>7, <1>8 DEF Reads, n

\* The line grows by an argument.
NextLine(before, list, k) ==
  IF k = 1 THEN Escaped(list[1]) ELSE before \o <<Blank>> \o Escaped(list[k])

Lines(C, list, line) ==
  /\ line \in [0 .. Len(list) -> Seq(C)]
  /\ line[0] = <<>>
  /\ \A k \in 1 .. Len(list) : line[k] = NextLine(line[k - 1], list, k)

\* The command line is built argument by argument.
LEMMA ConvertIs ==
  ASSUME NEW C, {Quote, Backslash, Blank} \subseteq C, NEW list \in Seq(Seq(C))
  PROVE  \E line : /\ Lines(C, list, line)
                   /\ ConvertToNativeCommandArguments(list) = line[Len(list)]
<1> DEFINE n == Len(list)
           F(f) == [k \in 0 .. n |-> IF k = 0 THEN <<>>
                      ELSE IF k = 1 THEN Escaped(list[1])
                      ELSE f[k - 1] \o <<Blank>> \o Escaped(list[k])]
<1>0. n \in Nat /\ \A k \in 1 .. n : list[k] \in Seq(C)
  OBVIOUS
<1> HIDE DEF n
<1>a. ASSUME NEW d \in Seq(C), NEW k \in 1 .. n
      PROVE  NextLine(d, list, k) \in Seq(C)
  <2>1. 1 \in 1 .. n
    BY <1>0
  <2>2. Escaped(list[1]) \in Seq(C) /\ Escaped(list[k]) \in Seq(C)
    BY <1>0, <2>1, EscapedIs
  <2>3. <<Blank>> \in Seq(C)
    OBVIOUS
  <2>4. d \o <<Blank>> \in Seq(C)
    BY <2>3, ConcatProperties
  <2>5. (d \o <<Blank>>) \o Escaped(list[k]) \in Seq(C)
    BY <2>2, <2>4, ConcatProperties
  <2> QED BY <2>2, <2>5 DEF NextLine
<1>1. PICK step \in [Seq(C) \X (1 .. n) -> Seq(C)] :
             \A d \in Seq(C) : \A k \in 1 .. n : step[<<d, k>>] = NextLine(d, list, k)
  <2> DEFINE st == [p \in Seq(C) \X (1 .. n) |-> NextLine(p[1], list, p[2])]
  <2>1. st \in [Seq(C) \X (1 .. n) -> Seq(C)]
    BY <1>a
  <2>2. \A d \in Seq(C) : \A k \in 1 .. n : st[<<d, k>>] = NextLine(d, list, k)
    OBVIOUS
  <2> HIDE DEF st
  <2> QED BY <2>1, <2>2
<1>2. <<>> \in Seq(C)
  OBVIOUS
<1>3. PICK f \in [0 .. n -> Seq(C)] : f[0] = <<>> /\ \A k \in 1 .. n : f[k] = step[<<f[k - 1], k>>]
  <2>1. PICK f : Given(f, n, Seq(C), <<>>, step)
    BY <1>0, <1>2, Recursion
  <2> QED BY <2>1 DEF Given
<1>4. f = F(f)
  <2>1. \A k \in 0 .. n : f[k] = F(f)[k]
    <3> TAKE k \in 0 .. n
    <3>1. CASE k = 0
      BY <3>1, <1>3
    <3>2. CASE k # 0
      <4>1. k \in 1 .. n /\ k - 1 \in 0 .. n /\ f[k - 1] \in Seq(C)
        BY <3>2, <1>0, <1>3
      <4>2. f[k] = NextLine(f[k - 1], list, k)
        BY <4>1, <1>1, <1>3
      <4>3. F(f)[k] = NextLine(f[k - 1], list, k)
        BY <3>2 DEF NextLine
      <4> QED BY <4>2, <4>3
    <3> QED BY <3>1, <3>2
  <2> HIDE DEF F
  <2>2. F(f) = [k \in 0 .. n |-> F(f)[k]]
    BY DEF F
  <2>3. f = [k \in 0 .. n |-> f[k]]
    BY <1>3
  <2> QED BY <2>1, <2>2, <2>3
<1> DEFINE line == CHOOSE f_1 : f_1 = F(f_1)
<1>5. line = F(line)
  <2> HIDE DEF F
  <2> QED BY <1>4
<1>6. ConvertToNativeCommandArguments(list) = line[n]
  BY DEF ConvertToNativeCommandArguments, n
<1> HIDE DEF line
<1>7. /\ DOMAIN line = 0 .. n /\ line = [k \in 0 .. n |-> line[k]]
      /\ line[0] = <<>>
  BY <1>0, <1>5
<1>8. \A k \in 1 .. n : line[k] = NextLine(line[k - 1], list, k)
  <2> TAKE k \in 1 .. n
  <2>1. k \in 0 .. n /\ k # 0
    BY <1>0
  <2>2. F(line)[k] = NextLine(line[k - 1], list, k)
    BY <2>1 DEF NextLine
  <2>3. F(line)[k] = line[k]
    <3> HIDE DEF F
    <3> QED BY <1>5
  <2> QED BY <2>2, <2>3
<1>9. \A k \in 0 .. n : line[k] \in Seq(C)
  <2> DEFINE S == {k \in 0 .. n : line[k] \in Seq(C)}
  <2>1. 0 \in S
    <3>1. 0 \in 0 .. n /\ line[0] \in Seq(C)
      <4>1. 0 \in 0 .. n
        BY <1>0
      <4>2. line[0] = <<>>
        BY <1>7
      <4> QED BY <4>1, <4>2, <1>2
    <3> QED BY <3>1
  <2>2. \A k \in 0 .. n - 1 : k \in S => k + 1 \in S
    <3> SUFFICES ASSUME NEW k \in 0 .. n - 1, k \in S PROVE k + 1 \in S
      OBVIOUS
    <3>1. k + 1 \in 1 .. n /\ k + 1 \in 0 .. n /\ (k + 1) - 1 = k
      BY <1>0
    <3>2. line[k + 1] = NextLine(line[k], list, k + 1)
      BY <3>1, <1>8
    <3>3. line[k + 1] \in Seq(C)
      BY <3>1, <3>2, <1>a
    <3> QED BY <3>1, <3>3
  <2> HIDE DEF S
  <2>3. \A k \in 0 .. n : k \in S
    BY <1>0, <2>1, <2>2, UpTo
  <2> QED BY <2>3 DEF S
<1>10. line \in [0 .. n -> Seq(C)]
  BY <1>7, <1>9
<1> QED BY <1>6, <1>7, <1>8, <1>10 DEF Lines, n

\* The program that reads the line of the arguments finds the arguments.
THEOREM TheQuotingIsUndone ==
  ASSUME NEW C, {Quote, Backslash, Blank} \subseteq C, NEW list \in Seq(Seq(C) \ {<<>>})
  PROVE  ArgumentsOf(ConvertToNativeCommandArguments(list)) = list
<1> DEFINE n == Len(list)
<1>0. /\ n \in Nat /\ list \in Seq(Seq(C))
      /\ \A k \in 1 .. n : list[k] \in Seq(C) /\ list[k] # <<>>
  OBVIOUS
<1> HIDE DEF n
<1>1. PICK line : Lines(C, list, line) /\ ConvertToNativeCommandArguments(list) = line[n]
  BY <1>0, ConvertIs DEF n
<1>2. /\ \A k \in 0 .. n : line[k] \in Seq(C)
      /\ line[0] = <<>>
      /\ \A k \in 1 .. n : line[k] = NextLine(line[k - 1], list, k)
  BY <1>1 DEF Lines, n
<1>3. PICK full : full = line[n]
  OBVIOUS
<1>4. full \in Seq(C)
  <2>1. n \in 0 .. n
    BY <1>0
  <2> QED BY <2>1, <1>2, <1>3
<1>5. PICK r : Reads(full, r) /\ ArgumentsOf(full) = WordDone(Flushed(r[Len(full)])).found
  BY <1>4, ArgumentsOfIs
<1>6. r[0] = Between(<<>>)
  BY <1>5 DEF Reads, Reading, Between
<1> DEFINE Reached(k, w, s) == Held(C, list[k], SubSeq(list, 1, k - 1), r[Len(line[k])], w, s)
           S == {k \in 0 .. n : k # 0 /\ At(full, 0, line[k]) => \E w, s : Reached(k, w, s)}
<1>7. 0 \in S
  BY <1>0
<1>8. \A k \in 0 .. n - 1 : k \in S => k + 1 \in S
  <2> SUFFICES ASSUME NEW k \in 0 .. n - 1, k \in S, At(full, 0, line[k + 1])
               PROVE  \E w, s : Reached(k + 1, w, s)
    <3>1. \A k \in 0 .. n - 1 : k + 1 \in 0 .. n
      BY <1>0
    <3> QED BY <3>1
  <2>1. k + 1 \in 1 .. n /\ (k + 1) - 1 = k /\ k \in 0 .. n
    BY <1>0
  <2>2. PICK a, b, e : a = line[k] /\ b = line[k + 1] /\ e = Escaped(list[k + 1])
    OBVIOUS
  <2>3. a \in Seq(C) /\ e \in Seq(C) /\ list[k + 1] \in Seq(C) /\ list[k + 1] # <<>>
    BY <1>0, <1>2, <2>1, <2>2, EscapedIs
  <2>4. CASE k = 0
    <3>1. b = e
      <4>1. line[k + 1] = NextLine(line[(k + 1) - 1], list, k + 1)
        BY <1>2, <2>1
      <4>2. k + 1 = 1
        BY <2>4
      <4> QED BY <4>1, <4>2, <2>2 DEF NextLine
    <3>2. \E w, s : Held(C, list[k + 1], <<>>, r[0 + Len(Escaped(list[k + 1]))], w, s)
      <4>1. At(full, 0, Escaped(list[k + 1]))
        BY <3>1, <2>2
      <4> QED BY <4>1, <1>4, <1>5, <1>6, <2>3, ReadArgument
    <3>3. SubSeq(list, 1, (k + 1) - 1) = <<>>
      BY <1>0, <2>1, <2>4, Beginnings
    <3>4. 0 + Len(Escaped(list[k + 1])) = Len(line[k + 1])
      <4>1. Len(e) \in Nat /\ 0 + Len(e) = Len(e)
        BY <2>3
      <4> QED BY <4>1, <3>1, <2>2
    <3> QED BY <3>2, <3>3, <3>4
  <2>5. CASE k # 0
    <3>1. b = (a \o <<Blank>>) \o e
      <4>1. line[k + 1] = NextLine(line[(k + 1) - 1], list, k + 1)
        BY <1>2, <2>1
      <4>2. k + 1 # 1
        BY <2>5
      <4> QED BY <4>1, <4>2, <2>1, <2>2 DEF NextLine
    <3>2. PICK g : g = a \o <<Blank>>
      OBVIOUS
    <3>3. <<Blank>> \in Seq(C) /\ Len(<<Blank>>) = 1
      OBVIOUS
    <3>4. g \in Seq(C) /\ Len(g) = Len(a) + 1
      BY <3>2, <3>3, <2>3, ConcatProperties
    <3>5. At(full, 0, g) /\ At(full, 0 + Len(g), e)
      <4>1. At(full, 0, g \o e)
        BY <3>1, <3>2, <2>2
      <4> QED BY <4>1, <3>4, <2>3, <1>4, AtConcat
    <3>6. At(full, 0, a) /\ At(full, 0 + Len(a), <<Blank>>)
      BY <3>2, <3>3, <3>5, <2>3, <1>4, AtConcat
    <3>7. PICK w, s : Reached(k, w, s)
      BY <3>6, <2>2, <2>5
    <3>8. w \o Slashes(s) = list[k] /\ r[Len(a)] = Outside(SubSeq(list, 1, k - 1), w, s)
      BY <3>7, <2>2 DEF Held
    <3>9. r[Len(g)] = ReadCharacter(r[Len(a)], Blank)
      <4>1. r[(0 + Len(a)) + 1] = ReadCharacter(r[0 + Len(a)], Blank)
        BY <3>6, <1>4, <1>5, ReadNext
      <4>2. 0 + Len(a) = Len(a) /\ Len(g) = (0 + Len(a)) + 1
        BY <3>4, <2>3
      <4> QED BY <4>1, <4>2
    <3>10. r[Len(g)] = Between(SubSeq(list, 1, k))
      <4>1. r[Len(g)] = Between(Append(SubSeq(list, 1, k - 1), w \o Slashes(s)))
        BY <3>8, <3>9, WordDoneIs
      <4>2. k \in 1 .. n
        BY <1>0, <2>5
      <4>3. SubSeq(list, 1, k) = Append(SubSeq(list, 1, k - 1), list[k])
        BY <1>0, <4>2, Beginnings DEF n
      <4> QED BY <4>1, <4>3, <3>8
    <3>11. PICK m : m = Len(g)
      OBVIOUS
    <3>12. At(full, m, Escaped(list[k + 1])) /\ r[m] = Between(SubSeq(list, 1, k))
      <4>1. 0 + Len(g) = Len(g)
        BY <3>4
      <4> QED BY <4>1, <3>5, <3>10, <3>11, <2>2
    <3>13. \E v, t : Held(C, list[k + 1], SubSeq(list, 1, k),
                          r[m + Len(Escaped(list[k + 1]))], v, t)
      BY <3>12, <1>4, <1>5, <2>3, ReadArgument
    <3>14. m + Len(Escaped(list[k + 1])) = Len(line[k + 1])
      <4>1. Len(b) = Len(g) + Len(e)
        BY <3>1, <3>2, <3>4, <2>3, ConcatProperties
      <4> QED BY <4>1, <3>11, <2>2
    <3> QED BY <3>13, <3>14, <2>1
  <2> QED BY <2>4, <2>5
<1> HIDE DEF S
<1>9. \A k \in 0 .. n : k \in S
  BY <1>0, <1>7, <1>8, UpTo
<1>10. ArgumentsOf(full) = list
  <2>1. CASE n = 0
    <3>1. full = <<>> /\ Len(full) = 0
      BY <1>2, <1>3, <2>1
    <3>2. Flushed(r[Len(full)]) = Between(<<>>)
      BY <3>1, <1>6, FlushedIs
    <3>3. WordDone(Between(<<>>)) = Between(<<>>)
      BY FieldsAre DEF WordDone
    <3>4. ArgumentsOf(full) = <<>>
      <4>1. Between(<<>>).found = <<>>
        BY FieldsAre
      <4>2. WordDone(Flushed(r[Len(full)])) = Between(<<>>)
        BY <3>2, <3>3
      <4> QED BY <1>5, <4>1, <4>2
    <3>5. list = <<>>
      BY <2>1, <1>0 DEF n
    <3> QED BY <3>4, <3>5
  <2>2. CASE n # 0
    <3>1. n \in S /\ n \in 1 .. n
      BY <1>0, <1>9, <2>2
    <3>2. At(full, 0, line[n])
      <4>1. 0 \in Nat /\ 0 + Len(full) <= Len(full) /\ \A u \in 1 .. Len(full) : full[0 + u] = full[u]
        BY <1>4
      <4> QED BY <4>1, <1>3 DEF At
    <3>3. PICK w, s : Reached(n, w, s)
      BY <3>1, <3>2, <2>2 DEF S
    <3>4. w \o Slashes(s) = list[n] /\ r[Len(full)] = Outside(SubSeq(list, 1, n - 1), w, s)
      BY <3>3, <1>3 DEF Held
    <3>5. PICK all : all = Append(SubSeq(list, 1, n - 1), w \o Slashes(s))
      OBVIOUS
    <3>6. WordDone(Flushed(r[Len(full)])) = Between(all)
      BY <3>4, <3>5, WordDoneIs
    <3>7. all = list
      <4>1. SubSeq(list, 1, n) = Append(SubSeq(list, 1, n - 1), list[n])
            /\ SubSeq(list, 1, n) = list
        BY <1>0, <3>1, Beginnings DEF n
      <4> QED BY <4>1, <3>4, <3>5
    <3>8. Between(all).found = all
      BY FieldsAre
    <3> QED BY <1>5, <3>6, <3>7, <3>8
  <2> QED BY <2>1, <2>2
<1> QED BY <1>1, <1>3, <1>10

\* The command line is the one of the arguments.
Argued ==
  commandLine # <<>> =>
    /\ commandLine = ConvertToNativeCommandArguments(arguments)
    /\ \E path \in Texts : arguments = <<path, <<"n">> >>

LEMMA ArguedAlways == Spec => []Argued
<1>1. Init => Argued
  BY DEF Init, Argued
<1>2. Argued /\ [Next]_vars => Argued'
  <2> SUFFICES ASSUME Argued, [Next]_vars PROVE Argued'
    OBVIOUS
  <2>1. CASE BuildCommand
    BY <2>1, Zenon DEF BuildCommand, Argued
  <2>2. CASE Start \/ StartFails
    <3>1. commandLine' = <<>>
      BY <2>2, Zenon DEF Start, StartFails
    <3> QED BY <3>1, Zenon DEF Argued
  <2>3. CASE UNCHANGED <<arguments, commandLine>>
    BY <2>3, Zenon DEF Argued
  <2>4. Configure \/ Probe \/ Skip \/ Prepare \/ EndExperiment \/ ReadChunk \/ ReadEnds \/ WaitForExit
        \/ SaveRaw \/ CheckExitCode \/ ParseJson \/ Report => UNCHANGED <<arguments, commandLine>>
    BY Zenon DEF Configure, Probe, Skip, Prepare, EndExperiment, ReadChunk, ReadEnds, WaitForExit,
      SaveRaw, CheckExitCode, ParseJson, Report, scriptVars
  <2>5. Child \/ UNCHANGED vars => UNCHANGED <<arguments, commandLine>>
    BY Zenon DEF Child, ChildPrints, ChildWrites, ChildExits, vars, scriptVars
  <2> QED BY <2>1, <2>2, <2>3, <2>4, <2>5 DEF Next, Script
<1> QED BY <1>1, <1>2, PTL DEF Spec

(***************************************************************************)
(* The theorems                                                            *)
(***************************************************************************)

\* Every variable has its type: the counters do not pass what they count, a pipe holds no
\* more than it can.
THEOREM TypeCorrect == Spec => []TypeOK
<1>1. IInv => TypeOK
  BY BenchmarkAssumption DEF IInv, Place, Piped, Counted, TypeOK
<1> QED BY <1>1, Invariance, PTL

\* Between two experiments the counts of the summary are right (run.ps1:815, 945-951).
THEOREM TheCountsAgree == Spec => []CountsAgree
<1>1. IInv => CountsAgree
  BY DEF IInv, Counted, CountsAgree, InExperiment, Tried
<1> QED BY <1>1, Invariance, PTL

\* What is where in two texts joined by a character, with something behind them that ends in n.
Joins(x, s, sep, t, n) ==
  /\ Len(x) = Len(s) + Len(t) + 3
  /\ \A k \in 1 .. Len(s) : x[k] = s[k]
  /\ x[Len(s) + 1] = sep
  /\ \A k \in 1 .. Len(t) : x[Len(s) + 1 + k] = t[k]
  /\ x[Len(x)] = n

LEMMA Joined ==
  ASSUME NEW C, NEW s \in Seq(C), NEW t \in Seq(C), NEW sep \in C, NEW mark \in C, NEW n \in C
  PROVE  Joins(s \o <<sep>> \o t \o <<mark, n>>, s, sep, t, n)
<1>0. PICK x : x = s \o <<sep>> \o t \o <<mark, n>>
  OBVIOUS
<1>1. PICK a : a = s \o <<sep>>
  OBVIOUS
<1>2. PICK b : b = a \o t
  OBVIOUS
<1>3. x = b \o <<mark, n>>
  BY <1>0, <1>1, <1>2
<1>4. Len(s) \in Nat /\ Len(t) \in Nat
  OBVIOUS
<1>5. <<sep>> \in Seq(C) /\ Len(<<sep>>) = 1 /\ <<sep>>[1] = sep
  OBVIOUS
<1>6. <<mark, n>> \in Seq(C) /\ Len(<<mark, n>>) = 2 /\ <<mark, n>>[2] = n
  OBVIOUS
<1>7. /\ a \in Seq(C) /\ Len(a) = Len(s) + 1
      /\ \A k \in 1 .. Len(s) : a[k] = s[k]
      /\ a[Len(s) + 1] = sep
  <2>1. a \in Seq(C) /\ Len(a) = Len(s) + 1
    BY <1>1, <1>5, ConcatProperties
  <2>2. \A k \in 1 .. Len(s) + 1 : a[k] = IF k <= Len(s) THEN s[k] ELSE <<sep>>[k - Len(s)]
    BY <1>1, <1>5, ConcatProperties
  <2> QED BY <2>1, <2>2, <1>4, <1>5
<1>8. /\ b \in Seq(C) /\ Len(b) = Len(s) + 1 + Len(t)
      /\ \A k \in 1 .. Len(s) + 1 : b[k] = a[k]
      /\ \A k \in 1 .. Len(t) : b[Len(s) + 1 + k] = t[k]
  <2>1. b \in Seq(C) /\ Len(b) = Len(a) + Len(t)
    BY <1>2, <1>7, ConcatProperties
  <2>2. \A k \in 1 .. Len(a) + Len(t) : b[k] = IF k <= Len(a) THEN a[k] ELSE t[k - Len(a)]
    BY <1>2, <1>7, ConcatProperties
  <2>3. Len(a) \in Nat /\ Len(a) = Len(s) + 1 /\ Len(s) \in Nat /\ Len(t) \in Nat
    BY <1>4, <1>7
  <2>4. \A k \in 1 .. Len(s) + 1 : b[k] = a[k]
    <3> TAKE k \in 1 .. Len(s) + 1
    <3>1. k \in 1 .. Len(a) + Len(t) /\ k <= Len(a)
      BY <2>3
    <3> QED BY <2>2, <3>1
  <2>5. \A k \in 1 .. Len(t) : b[Len(s) + 1 + k] = t[k]
    <3> TAKE k \in 1 .. Len(t)
    <3>1. /\ Len(s) + 1 + k \in 1 .. Len(a) + Len(t) /\ ~(Len(s) + 1 + k <= Len(a))
          /\ (Len(s) + 1 + k) - Len(a) = k
      BY <2>3
    <3> QED BY <2>2, <3>1
  <2> QED BY <2>1, <2>3, <2>4, <2>5
<1>9. Len(x) = Len(s) + Len(t) + 3
  <2>1. Len(x) = Len(b) + 2
    BY <1>3, <1>6, <1>8, ConcatProperties
  <2> QED BY <2>1, <1>4, <1>8
<1>10. \A k \in 1 .. Len(b) + 2 : x[k] = IF k <= Len(b) THEN b[k] ELSE <<mark, n>>[k - Len(b)]
  BY <1>3, <1>6, <1>8, ConcatProperties
<1>11. x[Len(x)] = n
  <2>1. Len(x) = Len(b) + 2 /\ Len(b) \in Nat
    BY <1>4, <1>8, <1>9
  <2> QED BY <2>1, <1>6, <1>10
<1>12. \A k \in 1 .. Len(b) : x[k] = b[k]
  BY <1>4, <1>8, <1>10
<1>13. \A k \in 1 .. Len(s) : x[k] = s[k]
  BY <1>4, <1>7, <1>8, <1>12
<1>14. x[Len(s) + 1] = sep
  BY <1>4, <1>7, <1>8, <1>12
<1>15. \A k \in 1 .. Len(t) : x[Len(s) + 1 + k] = t[k]
  BY <1>4, <1>8, <1>12
<1>16. Joins(x, s, sep, t, n)
  BY <1>9, <1>11, <1>13, <1>14, <1>15 DEF Joins
<1> QED BY <1>0, <1>16

\* Texts with the same elements are the same.
LEMMA SameText ==
  ASSUME NEW C, NEW s \in Seq(C), NEW t \in Seq(C), Len(s) = Len(t),
         \A k \in 1 .. Len(s) : s[k] = t[k]
  PROVE  s = t
OBVIOUS

\* Two pairs of texts are the same, or the first is cut at a later of the characters sep.
Alike(s, t, u, v, sep, n, m) ==
  n = m /\ ((s = u /\ t = v) \/ (sep \in ToSet(s) /\ sep \in ToSet(v)))

\* Two texts joined by a character to two others, and numbers behind them, that come out the
\* same: the texts are the same, or one is cut at another such character than the other.
LEMMA JoinedAlike ==
  ASSUME NEW C, NEW s \in Seq(C), NEW t \in Seq(C), NEW u \in Seq(C), NEW v \in Seq(C),
         NEW x, NEW sep, NEW n, NEW m, Joins(x, s, sep, t, n), Joins(x, u, sep, v, m),
         Len(s) >= Len(u)
  PROVE  Alike(s, t, u, v, sep, n, m)
<1>3. /\ Len(x) = Len(s) + Len(t) + 3
      /\ \A k \in 1 .. Len(s) : x[k] = s[k]
      /\ x[Len(s) + 1] = sep
      /\ \A k \in 1 .. Len(t) : x[Len(s) + 1 + k] = t[k]
      /\ x[Len(x)] = n
  BY DEF Joins
<1>4. /\ Len(x) = Len(u) + Len(v) + 3
      /\ \A k \in 1 .. Len(u) : x[k] = u[k]
      /\ x[Len(u) + 1] = sep
      /\ \A k \in 1 .. Len(v) : x[Len(u) + 1 + k] = v[k]
      /\ x[Len(x)] = m
  BY DEF Joins
<1> SUFFICES n = m /\ ((s = u /\ t = v) \/ (sep \in ToSet(s) /\ sep \in ToSet(v)))
  BY DEF Alike
<1>5. n = m
  BY <1>3, <1>4
<1>6. Len(s) \in Nat /\ Len(t) \in Nat /\ Len(u) \in Nat /\ Len(v) \in Nat
  OBVIOUS
<1>7. CASE Len(s) = Len(u)
  <2>1. Len(t) = Len(v)
    BY <1>3, <1>4, <1>6, <1>7
  <2>2. \A k \in 1 .. Len(s) : s[k] = u[k]
    BY <1>3, <1>4, <1>7
  <2>3. \A k \in 1 .. Len(t) : t[k] = v[k]
    BY <1>3, <1>4, <1>7, <2>1
  <2>4. s = u /\ t = v
    BY <1>7, <2>1, <2>2, <2>3, SameText
  <2> QED BY <1>5, <2>4
<1>8. CASE Len(s) > Len(u)
  <2>1. Len(u) + 1 \in 1 .. Len(s) /\ Len(s) - Len(u) \in 1 .. Len(v)
    BY <1>3, <1>4, <1>6, <1>8
  <2>2. s[Len(u) + 1] = sep
    BY <2>1, <1>3, <1>4
  <2>3. v[Len(s) - Len(u)] = sep
    <3>1. Len(u) + 1 + (Len(s) - Len(u)) = Len(s) + 1
      BY <1>6
    <3> QED BY <3>1, <2>1, <1>3, <1>4
  <2>4. DOMAIN s = 1 .. Len(s) /\ DOMAIN v = 1 .. Len(v)
    OBVIOUS
  <2>5. sep \in ToSet(s) /\ sep \in ToSet(v)
    BY <2>1, <2>2, <2>3, <2>4 DEF ToSet
  <2> QED BY <1>5, <2>5
<1> QED BY <1>6, <1>7, <1>8

\* The last place of a sequence with some property, or 0.
LEMMA LastPlace ==
  ASSUME NEW n \in Nat, NEW I \in SUBSET (1 .. n), I # {}
  PROVE  Max(I) \in I
<1> DEFINE R == {k \in 0 .. n : n - k \in I}
<1>1. R \in SUBSET Nat /\ R # {}
  <2>1. PICK k \in I : TRUE
    OBVIOUS
  <2>2. n - k \in 0 .. n /\ n - (n - k) = k
    BY <2>1
  <2>3. n - k \in R
    BY <2>1, <2>2
  <2>4. R \in SUBSET Nat
    OBVIOUS
  <2> QED BY <2>3, <2>4
<1> HIDE DEF R
<1>2. PICK least \in R : \A k \in R : least <= k
  BY <1>1, LeastNumber
<1>3. n - least \in I /\ least \in 0 .. n
  BY <1>2 DEF R
<1>4. \A k \in I : n - least >= k
  <2> TAKE k \in I
  <2>1. k \in 1 .. n /\ n - k \in R
    <3>1. k \in 1 .. n /\ n - k \in 0 .. n /\ n - (n - k) = k
      OBVIOUS
    <3> QED BY <3>1 DEF R
  <2> QED BY <1>2, <1>3, <2>1
<1> QED BY <1>3, <1>4 DEF Max

\* A file stem is a text, and so is what is safe of a text.
LEMMA FileStemType ==
  ASSUME NEW C, NEW path \in Seq(C)
  PROVE  FileStem(path) \in Seq(C)
<1> DEFINE Cuts == {k \in 1 .. Len(path) : path[k] \in {Backslash, "/", ":"}}
           cut == IF Cuts # {} THEN Max(Cuts) ELSE 0
           file == SubSeq(path, cut + 1, Len(path))
           Dots == {k \in 1 .. Len(file) : file[k] = "."}
           dot == IF Dots # {} THEN Max(Dots) ELSE 0
<1>1. Len(path) \in Nat
  OBVIOUS
<1>2. FileStem(path) = IF dot = 0 THEN file ELSE SubSeq(file, 1, dot - 1)
  BY Zenon DEF FileStem, SelectLastInSeq
<1>3. cut \in 0 .. Len(path)
  <2>1. Cuts \in SUBSET (1 .. Len(path))
    OBVIOUS
  <2> HIDE DEF Cuts
  <2>2. CASE Cuts = {}
    <3>1. cut = 0
      BY <2>2, Zenon
    <3> QED BY <1>1, <3>1
  <2>3. CASE Cuts # {}
    <3>1. cut = Max(Cuts)
      BY <2>3, Zenon
    <3>2. Max(Cuts) \in Cuts
      BY <1>1, <2>1, <2>3, LastPlace
    <3>3. \A k \in Cuts : k \in 0 .. Len(path)
      BY <1>1, <2>1
    <3> QED BY <3>1, <3>2, <3>3
  <2> QED BY <2>2, <2>3
<1> HIDE DEF cut
<1>4. file \in Seq(C) /\ Len(file) \in Nat
  BY <1>1, <1>3
<1> HIDE DEF file
<1>5. dot \in 0 .. Len(file)
  <2>1. Dots \in SUBSET (1 .. Len(file))
    OBVIOUS
  <2> HIDE DEF Dots
  <2>2. CASE Dots = {}
    <3>1. dot = 0
      BY <2>2, Zenon
    <3> QED BY <1>4, <3>1
  <2>3. CASE Dots # {}
    <3>1. dot = Max(Dots)
      BY <2>3, Zenon
    <3>2. Max(Dots) \in Dots
      BY <1>4, <2>1, <2>3, LastPlace
    <3>3. \A k \in Dots : k \in 0 .. Len(file)
      BY <1>4, <2>1
    <3> QED BY <3>1, <3>2, <3>3
  <2> QED BY <2>2, <2>3
<1> HIDE DEF dot
<1>6. dot # 0 => SubSeq(file, 1, dot - 1) \in Seq(C)
  BY <1>4, <1>5
<1> QED BY <1>2, <1>4, <1>6

LEMMA SafeType ==
  ASSUME NEW C, NEW text \in Seq(C)
  PROVE  Safe(text) \in Seq(C \union {Underscore})
<1>1. Len(text) \in Nat /\ DOMAIN text = 1 .. Len(text) /\ \A k \in 1 .. Len(text) : text[k] \in C
  OBVIOUS
<1> DEFINE Bad == {Backslash, "/", ":", "*", "?", Quote, "<", ">", "|"}
           safe == [k \in 1 .. Len(text) |-> IF text[k] \in Bad THEN Underscore ELSE text[k]]
<1>2. Safe(text) = safe
  BY <1>1, Zenon DEF Safe
<1> HIDE DEF Bad
<1>3. safe \in [1 .. Len(text) -> C \union {Underscore}]
  BY <1>1
<1> HIDE DEF safe
<1>4. safe \in Seq(C \union {Underscore})
  BY <1>1, <1>3
<1> QED BY <1>2, <1>4

\* The name of a model with a file is a text.
LEMMA ModelNameType ==
  ASSUME NEW reference, Found(ResolveBenchmarkModel(reference))
  PROVE  \E C : ModelName(ResolveBenchmarkModel(reference)) \in Seq(C)
<1> DEFINE m == ResolveBenchmarkModel(reference)
           Ids == {k \in 1 .. Len(Models) : Models[k].id = reference}
           Named == {k \in 1 .. Len(Models) : Models[k].name = reference}
           Paths == {k \in 1 .. Len(Models) : Models[k].path = reference}
           First(I) == IF I # {} THEN Min(I) ELSE 0
           Of(I) == IF First(I) = 0 THEN Nothing ELSE Models[First(I)]
           File == [id |-> reference, name |-> FileStem(reference), path |-> reference]
<1>1. m = IF reference = Nothing THEN Nothing
          ELSE IF Of(Ids) # Nothing THEN Of(Ids)
          ELSE IF Of(Named) # Nothing THEN Of(Named)
          ELSE IF Of(Paths) # Nothing THEN Of(Paths)
          ELSE IF reference \in ModelFiles THEN File ELSE Nothing
  BY Zenon DEF ResolveBenchmarkModel, FirstWith, SelectInSeq
<1>2. m # Nothing /\ m.path \in ModelFiles
  BY DEF Found
<1>3. ASSUME NEW I \in SUBSET (1 .. Len(Models)), Of(I) # Nothing
      PROVE  Of(I) \in ToSet(Models)
  <2>1. I # {} /\ First(I) = Min(I) /\ Min(I) \in I
    <3>1. First(I) # 0
      BY <1>3
    <3>2. I # {}
      BY <3>1
    <3>3. I \in SUBSET Nat
      OBVIOUS
    <3> QED BY <3>2, <3>3, LeastNumber
  <2>2. Of(I) = Models[Min(I)]
    BY <1>3, <2>1
  <2>3. DOMAIN Models = 1 .. Len(Models)
    BY NamesAssumption
  <2> QED BY <2>1, <2>2, <2>3 DEF ToSet
<1>4. Ids \in SUBSET (1 .. Len(Models)) /\ Named \in SUBSET (1 .. Len(Models))
      /\ Paths \in SUBSET (1 .. Len(Models))
  OBVIOUS
<1> HIDE DEF Ids, Named, Paths, Of, File, m
<1>5. m \in ToSet(Models) \/ (reference \in ModelFiles /\ m = File)
  BY <1>1, <1>2, <1>3, <1>4
<1>6. CASE m.name = Nothing
  <2>1. m.path \in Seq(ToSet(m.path))
    BY <1>2, NamesAssumption
  <2>2. FileStem(m.path) \in Seq(ToSet(m.path))
    BY <2>1, FileStemType
  <2> QED BY <1>6, <2>2 DEF ModelName, m
<1>7. CASE m.name # Nothing /\ m \in ToSet(Models)
  <2>1. m.name \in Seq(ToSet(m.name))
    BY <1>7, NamesAssumption
  <2> QED BY <1>7, <2>1 DEF ModelName, m
<1>8. CASE m.name # Nothing /\ reference \in ModelFiles /\ m = File
  <2>1. reference \in Seq(ToSet(reference))
    BY <1>8, NamesAssumption
  <2>2. FileStem(reference) \in Seq(ToSet(reference))
    BY <2>1, FileStemType
  <2>3. m.name = FileStem(reference)
    BY <1>8 DEF File
  <2> QED BY <1>8, <2>2, <2>3 DEF ModelName, m
<1> QED BY <1>5, <1>6, <1>7, <1>8

\* A run of an experiment whose model has a file.
RunReal(run) == run[1] \in 1..NExperiments /\ Found(ModelOf(run))

\* Only such runs are made, so only they leave files and rows.
Real ==
  /\ InExperiment => Found(model)
  /\ \A f \in DOMAIN files : RunReal(files[f])
  /\ \A r \in ToSet(rows) : RunReal(<<r.exp, r.layer>>)

\* Every step keeps that.
LEMMA RealKept ==
  ASSUME IInv, Real, [Next]_vars
  PROVE  Real'
<1>0. Place
  BY DEF IInv
<1>1. config' = config
  BY DEF Next, Child, ChildPrints, ChildWrites, ChildExits, vars, scriptVars, Script, Configure, Probe,
    Skip, Prepare, BuildCommand, EndExperiment, Start, StartFails, ReadChunk, ReadEnds, WaitForExit,
    SaveRaw, CheckExitCode, ParseJson, Report
<1>2. \A run : RunReal(run)' <=> RunReal(run)
  BY <1>1 DEF RunReal, ModelOf, ExperimentOf
<1>3. InExperiment => RunReal(<<i, j>>)
  BY <1>0 DEF Real, RunReal, Place, InExperiment, ModelOf, ExperimentOf
<1>4. CASE UNCHANGED <<i, pc, model, files, rows>>
  BY <1>2, <1>4 DEF Real, InExperiment
<1>5. CASE Configure \/ Probe \/ Skip \/ BuildCommand \/ EndExperiment \/ Start \/ StartFails
           \/ ReadEnds \/ WaitForExit \/ CheckExitCode \/ Report
  <2>1. UNCHANGED <<files, rows>>
    BY <1>5, Zenon DEF Configure, Probe, Skip, BuildCommand, EndExperiment, Start, StartFails, ReadEnds,
      WaitForExit, CheckExitCode, Report
  <2>2. InExperiment' => InExperiment /\ model' = model
    BY <1>0, <1>5 DEF Configure, Probe, Skip, BuildCommand, EndExperiment, Start, StartFails, ReadEnds,
      WaitForExit, CheckExitCode, Report, NextRun, InExperiment, Place
  <2> QED BY <1>2, <2>1, <2>2 DEF Real
<1>6. CASE Prepare
  <2>1. Found(model') /\ UNCHANGED <<files, rows>>
    BY <1>6 DEF Prepare
  <2> QED BY <1>2, <2>1 DEF Real
<1>7. CASE SaveRaw
  <2>1. pc = "save" /\ UNCHANGED <<i, j, model, rows>>
    BY <1>7 DEF SaveRaw
  <2>2. InExperiment /\ RunReal(<<i, j>>)
    BY <1>0, <1>3, <2>1 DEF Place, InExperiment
  <2>3. \A f \in DOMAIN files' : files'[f] = <<i, j>> \/ (f \in DOMAIN files /\ files'[f] = files[f])
    BY <1>7 DEF SaveRaw
  <2> QED BY <1>2, <2>1, <2>2, <2>3 DEF Real
<1>8. CASE ParseJson
  <2>1. pc = "parse" /\ UNCHANGED <<i, model, files>>
    BY <1>8 DEF ParseJson
  <2>2. InExperiment /\ RunReal(<<i, j>>)
    BY <1>0, <1>3, <2>1 DEF Place, InExperiment
  <2>3. \A r \in ToSet(rows)' : r \in ToSet(rows) \/ (r.exp = i /\ r.layer = j)
    BY <1>8, NewRows DEF IInv
  <2> QED BY <1>2, <2>1, <2>2, <2>3 DEF Real
<1>9. CASE ReadChunk \/ Child \/ UNCHANGED vars
  BY <1>4, <1>9 DEF ReadChunk, Child, ChildPrints, ChildWrites, ChildExits, vars, scriptVars
<1> QED BY <1>5, <1>6, <1>7, <1>8, <1>9 DEF Next, Script

LEMMA RealAlways == Spec => []Real
<1>1. Init => Real
  BY DEF Init, Real, InExperiment, ToSet
<1> QED BY <1>1, RealKept, Invariance, PTL DEF Spec

\* A sequence over a set is one over a larger set.
LEMMA Wider ==
  ASSUME NEW C, NEW D, C \subseteq D, NEW s \in Seq(C)
  PROVE  s \in Seq(D)
OBVIOUS

\* The texts in the name of a run's files.
LEMMA RunTexts ==
  ASSUME Place, NEW run, RunReal(run)
  PROVE  \E C : /\ Safe(ExperimentOf(run).id) \in Seq(C)
                /\ Safe(ModelName(ModelOf(run))) \in Seq(C)
<1>1. ExperimentOf(run) \in Experiments
  BY DEF RunReal, Place, ExperimentOf
<1>2. ExperimentOf(run).id \in Seq(ToSet(ExperimentOf(run).id))
  BY <1>1, NamesAssumption
<1>3. PICK D : ModelName(ModelOf(run)) \in Seq(D)
  BY ModelNameType DEF RunReal, ModelOf
<1> DEFINE E == ToSet(ExperimentOf(run).id)
           C == (E \union {Underscore}) \union (D \union {Underscore})
<1>4. Safe(ExperimentOf(run).id) \in Seq(E \union {Underscore})
  BY <1>2, SafeType
<1>5. Safe(ModelName(ModelOf(run))) \in Seq(D \union {Underscore})
  BY <1>3, SafeType
<1> HIDE DEF E
<1>6. Safe(ExperimentOf(run).id) \in Seq(C) /\ Safe(ModelName(ModelOf(run))) \in Seq(C)
  <2>1. E \union {Underscore} \subseteq C /\ D \union {Underscore} \subseteq C
    OBVIOUS
  <2> HIDE DEF C
  <2> QED BY <1>4, <1>5, <2>1, Wider
<1> QED BY <1>6

\* What the file names of two runs being one says of the runs.
LEMMA FilesAlike ==
  ASSUME Place, NEW run, NEW other, RunReal(run), RunReal(other), FileOf(run) = FileOf(other)
  PROVE  LayersOf(run) = LayersOf(other) /\ SameOrSplit(run, other)
<1> DEFINE s == Safe(ExperimentOf(run).id)
           t == Safe(ModelName(ModelOf(run)))
           u == Safe(ExperimentOf(other).id)
           v == Safe(ModelName(ModelOf(other)))
<1>1. PICK A : s \in Seq(A) /\ t \in Seq(A)
  BY RunTexts
<1>2. PICK B : u \in Seq(B) /\ v \in Seq(B)
  BY RunTexts
<1>3. s \o <<Underscore>> \o t \o <<"_ngl", LayersOf(run)>> = u \o <<Underscore>> \o v \o <<"_ngl", LayersOf(other)>>
  BY Zenon DEF FileOf, FilePrefix
<1>4. SameOrSplit(run, other) <=>
        \/ s = u /\ t = v
        \/ Underscore \in ToSet(s) /\ Underscore \in ToSet(v)
        \/ Underscore \in ToSet(u) /\ Underscore \in ToSet(t)
  BY DEF SameOrSplit, HasUnderscore
<1> HIDE DEF s, t, u, v
<1> DEFINE C == A \union B \union {Underscore, "_ngl", LayersOf(run), LayersOf(other)}
<1>5. /\ s \in Seq(C) /\ t \in Seq(C) /\ u \in Seq(C) /\ v \in Seq(C)
      /\ Underscore \in C /\ "_ngl" \in C /\ LayersOf(run) \in C /\ LayersOf(other) \in C
  <2>1. A \subseteq C /\ B \subseteq C
    OBVIOUS
  <2>2. Underscore \in C /\ "_ngl" \in C /\ LayersOf(run) \in C /\ LayersOf(other) \in C
    OBVIOUS
  <2> HIDE DEF C
  <2> QED BY <1>1, <1>2, <2>1, <2>2, Wider
<1> HIDE DEF C
<1>6. Len(s) \in Nat /\ Len(u) \in Nat
  BY <1>5
<1> DEFINE x == s \o <<Underscore>> \o t \o <<"_ngl", LayersOf(run)>>
<1>a. Joins(x, s, Underscore, t, LayersOf(run))
  BY <1>5, Joined, Zenon
<1>b. Joins(x, u, Underscore, v, LayersOf(other))
  BY <1>3, <1>5, Joined, Zenon
<1> HIDE DEF x
<1>7. CASE Len(s) >= Len(u)
  <2>1. Alike(s, t, u, v, Underscore, LayersOf(run), LayersOf(other))
    BY <1>a, <1>b, <1>5, <1>7, JoinedAlike, Zenon
  <2> QED BY <2>1, <1>4 DEF Alike
<1>8. CASE Len(u) >= Len(s)
  <2>1. Alike(u, v, s, t, Underscore, LayersOf(other), LayersOf(run))
    BY <1>a, <1>b, <1>5, <1>8, JoinedAlike, Zenon
  <2> QED BY <2>1, <1>4 DEF Alike
<1> QED BY <1>6, <1>7, <1>8

LEMMA RawTextOf == IInv /\ Real => RowsHaveRawText
<1> SUFFICES ASSUME IInv, Real, NEW r \in ToSet(rows)
             PROVE  LET run  == <<r.exp, r.layer>>
                        last == files[FileOf(run)]
                    IN  /\ FileOf(run) \in DOMAIN files
                        /\ NotBefore(run, last)
                        /\ LayersOf(last) = LayersOf(run)
                        /\ SameOrSplit(run, last)
  BY DEF RowsHaveRawText
<1> DEFINE run == <<r.exp, r.layer>>
           last == files[FileOf(run)]
<1>1. /\ FileOf(run) \in DOMAIN files /\ FileOf(last) = FileOf(run)
      /\ last[1] > run[1] \/ (last[1] = run[1] /\ last[2] >= run[2])
  BY DEF IInv, RowsKept
<1>2. RunReal(run) /\ RunReal(last) /\ Place
  BY <1>1 DEF Real, IInv
<1> HIDE DEF run, last
<1>3. LayersOf(run) = LayersOf(last) /\ SameOrSplit(run, last)
  BY <1>1, <1>2, FilesAlike
<1>4. NotBefore(run, last)
  BY <1>1 DEF NotBefore
<1> QED BY <1>1, <1>3, <1>4 DEF run, last

\* The raw text behind every row has been kept, or replaced by that of a later run whose file
\* has the same name (run.ps1:777-832).
THEOREM RawTextIsKept == Spec => []RowsHaveRawText
<1>1. IInv /\ Real => RowsHaveRawText
  BY RawTextOf
<1> QED BY <1>1, Invariance, RealAlways, PTL

\* The program that is started finds the arguments the script meant, whatever blanks, quotes
\* and backslashes are in a model's path (run.ps1:81-107).
THEOREM ArgumentsAreUnderstood == Spec => []ArgumentsArrive
<1>1. Argued => ArgumentsArrive
  <2> SUFFICES ASSUME Argued, commandLine # <<>> PROVE ArgumentsOf(commandLine) = arguments
    BY DEF ArgumentsArrive
  <2>1. PICK path \in Texts : arguments = <<path, <<"n">> >>
    BY DEF Argued
  <2> DEFINE C == ToSet(path) \union {"n", Quote, Backslash, Blank}
  <2>2. path \in Seq(C) /\ path # <<>>
    BY BenchmarkAssumption
  <2>3. <<"n">> \in Seq(C) /\ <<"n">> # <<>> /\ {Quote, Backslash, Blank} \subseteq C
    OBVIOUS
  <2> HIDE DEF C
  <2>4. arguments \in Seq(Seq(C) \ {<<>>})
    BY <2>1, <2>2, <2>3
  <2>5. ArgumentsOf(ConvertToNativeCommandArguments(arguments)) = arguments
    BY <2>3, <2>4, TheQuotingIsUndone
  <2> QED BY <2>5 DEF Argued
<1> QED BY <1>1, ArguedAlways, PTL

================================================================================
