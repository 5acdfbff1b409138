------------------------------- MODULE Benchmark -------------------------------
(***************************************************************************)
(* run.ps1, the benchmark of language models: for each experiment of the    *)
(* configuration and each number of GPU layers it starts llama-bench, reads  *)
(* what it prints through two pipes, keeps the raw text, and adds a row to    *)
(* the results for each measurement in it.  At the end it writes the table    *)
(* and a summary that counts the experiments.                               *)
(*                                                                         *)
(* $ErrorActionPreference = "Stop": an error outside a try ends the script    *)
(* ("stopped").  The program started is a process of its own; it may print    *)
(* to either pipe in any order, and blocks when the pipe is full.            *)
(***************************************************************************)
EXTENDS CommandLine, FiniteSets

CONSTANTS
  Models,         \* config.models: a sequence of records id, name, path
  Experiments,    \* what an experiment may be: records id ("unnamed" if none), model, layers
  NExperiments,   \* how many the configuration has
  ConfigLayers,   \* config.gpu_layers, as a sequence
  ModelFiles,     \* the paths Test-Path finds
  Texts,          \* what a model's path may be for the command line
  Outputs,        \* what a run may print: a sequence of measurements, or NotJson
  NotJson,        \* ... or something else than JSON, or it cannot be kept as such
  Garbled,        \* a number in a measurement that is no number
  PipeSize,       \* what a pipe holds, in chunks
  MaxChunks,      \* bound: chunks a process prints
  Nothing         \* a field that is missing, null or empty

\* Ids, names and paths are sequences of characters, where what no operator below looks at may
\* be one for several, and letters have no case, as for PowerShell and the files of Windows; so
\* are texts, and the path of a file is not empty.  Layers and what is printed are sequences.
ASSUME BenchmarkAssumption ==
  /\ NExperiments \in Nat /\ PipeSize \in Nat /\ MaxChunks \in Nat
  /\ ConfigLayers \in Seq(Nat) /\ \A e \in Experiments : e.layers \in Seq(Nat)
  /\ \A output \in Outputs \ {NotJson} : output \in Seq(ToSet(output))
  /\ \A text \in Texts : text \in Seq(ToSet(text)) /\ text # <<>>

ASSUME NamesAssumption ==
  /\ \A e \in Experiments : e.id \in Seq(ToSet(e.id))
  /\ Models \in Seq(ToSet(Models))
  /\ \A m \in ToSet(Models) : m.name = Nothing \/ m.name \in Seq(ToSet(m.name))
  /\ \A path \in ModelFiles : path \in Seq(ToSet(path))

VARIABLES
  pc,           \* where the script is
  config,       \* the experiments
  i, j,         \* the experiment and the number in $gpuLayers being run
  model,        \* $model
  layers,       \* $gpuLayers
  arguments, commandLine,   \* from the building of the command to the start
  child,        \* the process: alive, the pipe it wants to print to, chunks it may still print
  pipes,        \* chunks printed and not read
  files,        \* raw output saved: file prefix -> the run that wrote it last
  rows,         \* $allResults
  succeeded, completed, failed,
  parsed,       \* history: runs whose output was taken in completely
  notStarted    \* history: runs whose process did not start

scriptVars == <<pc, config, i, j, model, layers, arguments, commandLine, files, rows,
                succeeded, completed, failed, parsed, notStarted>>
vars == <<scriptVars, child, pipes>>

NoProcess == [alive |-> FALSE, wants |-> "none", chunks |-> 0]
Process == [alive |-> TRUE, wants |-> "none", chunks |-> MaxChunks]
EmptyPipes == [out |-> 0, err |-> 0]

Init ==
  /\ pc = "config" /\ config \in [1..NExperiments -> Experiments]
  /\ i = 0 /\ j = 0 /\ model = Nothing /\ layers = <<>>
  /\ arguments = <<>> /\ commandLine = <<>>
  /\ child = NoProcess /\ pipes = EmptyPipes
  /\ files = <<>> /\ rows = <<>>
  /\ succeeded = FALSE /\ completed = 0 /\ failed = 0
  /\ parsed = {} /\ notStarted = {}

(***************************************************************************)
(* The configuration                                                       *)
(***************************************************************************)

\* A missing or unreadable configuration, one without program, models or experiments, or a
\* program that is not there: exit 1, or an error of the commands in between.
Configure ==
  /\ pc = "config"
  /\ pc' \in {"probes", "stopped"}
  /\ UNCHANGED <<config, i, j, model, layers, arguments, commandLine, files, rows, succeeded,
                 completed, failed, parsed, notStarted, child, pipes>>

\* Each of the five probes of the machine has its own try and leaves "Unknown" or 0.
Probe ==
  /\ pc = "probes"
  /\ pc' = "start"
  /\ UNCHANGED <<config, i, j, model, layers, arguments, commandLine, files, rows, succeeded,
                 completed, failed, parsed, notStarted, child, pipes>>

\* The first model with the wanted value in a field.
FirstWith(field(_), reference) ==
  LET k == SelectInSeq(Models, LAMBDA m : field(m) = reference)
  IN  IF k = 0 THEN Nothing ELSE Models[k]

\* GetFileNameWithoutExtension (external): what is behind the last separator and before the
\* last dot.
FileStem(path) ==
  LET cut  == SelectLastInSeq(path, LAMBDA c : c \in {Backslash, "/", ":"})
      file == SubSeq(path, cut + 1, Len(path))
      dot  == SelectLastInSeq(file, LAMBDA c : c = ".")
  IN  IF dot = 0 THEN file ELSE SubSeq(file, 1, dot - 1)

\* Resolve-BenchmarkModel: by id, by name, by path, else a path itself.  Texts are compared
\* as PowerShell compares them, without regard to case.
ResolveBenchmarkModel(reference) ==
  LET byId   == FirstWith(LAMBDA m : m.id, reference)
      byName == FirstWith(LAMBDA m : m.name, reference)
      byPath == FirstWith(LAMBDA m : m.path, reference)
  IN  IF reference = Nothing THEN Nothing
      ELSE IF byId # Nothing THEN byId
      ELSE IF byName # Nothing THEN byName
      ELSE IF byPath # Nothing THEN byPath
      ELSE IF reference \in ModelFiles
      THEN [id |-> reference, name |-> FileStem(reference), path |-> reference] ELSE Nothing

\* $modelName: a model without a name is called after its file.
ModelName(m) == IF m.name = Nothing THEN FileStem(m.path) ELSE m.name

\* A list is true to PowerShell if it has two members, or one that is true: [0] is not.
Truthy(ls) == Len(ls) > 1 \/ (Len(ls) = 1 /\ ls[1] # 0)

GpuLayers(e) ==
  IF Truthy(e.layers) THEN e.layers
  ELSE IF Truthy(ConfigLayers) THEN ConfigLayers ELSE <<99>>

(***************************************************************************)
(* The loop over the experiments                                           *)
(***************************************************************************)

\* A model with a path at which there is a file.
Found(m) == IF m = Nothing THEN FALSE ELSE m.path \in ModelFiles

\* No model, a model without a path, or no file there: counted as failed.
Skip ==
  /\ pc = "next" /\ i < NExperiments
  /\ ~Found(ResolveBenchmarkModel(config[i + 1].model))
  /\ i' = i + 1
  /\ failed' = failed + 1
  /\ UNCHANGED <<pc, config, j, model, layers, arguments, commandLine, files, rows, succeeded,
                 completed, parsed, notStarted, child, pipes>>

\* A size, a number of parameters or of tokens that cannot be converted ends the script.
Prepare ==
  /\ pc = "next" /\ i < NExperiments
  /\ LET e == config[i + 1]
         m == ResolveBenchmarkModel(e.model)
     IN  /\ Found(m)
         /\ model' = m
         /\ layers' = GpuLayers(e)
  /\ pc' \in {"layer", "stopped"}
  /\ i' = i + 1 /\ j' = 1
  /\ succeeded' = FALSE
  /\ UNCHANGED <<config, arguments, commandLine, files, rows, completed, failed, parsed,
                 notStarted, child, pipes>>

\* The command for one number of layers.  Of the path, quoting tells other characters apart
\* than the names of files do: it is any of Texts here.
BuildCommand ==
  /\ pc = "layer" /\ j <= Len(layers)
  /\ \E path \in Texts : arguments' = <<path, <<"n">> >>
  /\ commandLine' = ConvertToNativeCommandArguments(arguments')
  /\ pc' = "start"
  /\ UNCHANGED <<config, i, j, model, layers, files, rows, succeeded, completed, failed, parsed,
                 notStarted, child, pipes>>

\* Mutant: an experiment counts as completed when its last run was.
LastRunDecides ==
  /\ pc = "layer" /\ j > Len(layers)
  /\ IF <<i, Len(layers)>> \in parsed THEN completed' = completed + 1 /\ UNCHANGED failed
                  ELSE failed' = failed + 1 /\ UNCHANGED completed
  /\ pc' = "next"
  /\ UNCHANGED <<config, i, j, model, layers, arguments, commandLine, files, rows, succeeded,
                 parsed, notStarted, child, pipes>>

\* One run that succeeded is enough.
EndExperiment ==
  /\ pc = "layer" /\ j > Len(layers)
  /\ IF succeeded THEN completed' = completed + 1 /\ UNCHANGED failed
                  ELSE failed' = failed + 1 /\ UNCHANGED completed
  /\ pc' = "next"
  /\ UNCHANGED <<config, i, j, model, layers, arguments, commandLine, files, rows, succeeded,
                 parsed, notStarted, child, pipes>>

(***************************************************************************)
(* Invoke-NativeProcess, for the version (no experiment yet) and for a run   *)
(***************************************************************************)

NextRun == pc' = "layer" /\ j' = j + 1

\* Mutant: waits for the end of the process before it reads.
StartThenWait ==
  /\ pc = "start"
  /\ child' = Process /\ pipes' = EmptyPipes
  /\ arguments' = <<>> /\ commandLine' = <<>>
  /\ pc' = "wait"
  /\ UNCHANGED <<config, i, j, model, layers, files, rows, succeeded, completed, failed, parsed,
                 notStarted>>

Start ==
  /\ pc = "start"
  /\ child' = Process /\ pipes' = EmptyPipes
  /\ arguments' = <<>> /\ commandLine' = <<>>
  /\ pc' = "readout"
  /\ UNCHANGED <<config, i, j, model, layers, files, rows, succeeded, completed, failed, parsed,
                 notStarted>>

\* The version stays "Unknown"; a run that does not start is counted at once.
StartFails ==
  /\ pc = "start"
  /\ arguments' = <<>> /\ commandLine' = <<>>
  /\ IF i = 0
     THEN pc' = "next" /\ UNCHANGED <<j, failed, notStarted>>
     ELSE /\ NextRun
          /\ failed' = failed + 1
          /\ notStarted' = notStarted \union {<<i, j>>}
  /\ UNCHANGED <<config, i, model, layers, files, rows, succeeded, completed, parsed, child, pipes>>

\* ReadToEnd of a pipe returns when it is empty and its writer has ended.
ReadChunk ==
  /\ \/ pc = "readout" /\ pipes.out > 0 /\ pipes' = [pipes EXCEPT !.out = @ - 1]
     \/ pc = "readerr" /\ pipes.err > 0 /\ pipes' = [pipes EXCEPT !.err = @ - 1]
  /\ UNCHANGED <<scriptVars, child>>

ReadEnds ==
  /\ ~child.alive
  /\ \/ pc = "readout" /\ pipes.out = 0 /\ pc' = "readerr"
     \/ pc = "readerr" /\ pipes.err = 0 /\ pc' = "wait"
  /\ UNCHANGED <<config, i, j, model, layers, arguments, commandLine, files, rows, succeeded,
                 completed, failed, parsed, notStarted, child, pipes>>

WaitForExit ==
  /\ pc = "wait" /\ ~child.alive
  /\ pc' = IF i = 0 THEN "next" ELSE "save"
  /\ UNCHANGED <<config, i, j, model, layers, arguments, commandLine, files, rows, succeeded,
                 completed, failed, parsed, notStarted, child, pipes>>

(***************************************************************************)
(* The process (external)                                                  *)
(***************************************************************************)

ChildPrints(pipe) ==
  /\ child.alive /\ child.wants = "none" /\ child.chunks > 0
  /\ child' = [child EXCEPT !.wants = pipe, !.chunks = @ - 1]
  /\ UNCHANGED <<scriptVars, pipes>>

ChildWrites ==
  /\ child.alive /\ child.wants # "none"
  /\ pipes[child.wants] < PipeSize
  /\ pipes' = [pipes EXCEPT ![child.wants] = @ + 1]
  /\ child' = [child EXCEPT !.wants = "none"]
  /\ UNCHANGED scriptVars

ChildExits ==
  /\ child.alive /\ child.wants = "none"
  /\ child' = NoProcess
  /\ UNCHANGED <<scriptVars, pipes>>

(***************************************************************************)
(* What a run has printed                                                  *)
(***************************************************************************)

Underscore == "_"

\* -replace '[\\/:*?"<>|]', '_'
Safe(text) ==
  [k \in DOMAIN text |->
     IF text[k] \in {Backslash, "/", ":", "*", "?", Quote, "<", ">", "|"} THEN Underscore ELSE text[k]]

\* Mutant: runs of one experiment share a file.
SharedPrefix(e, m, ngl) == Safe(e.id) \o <<Underscore>> \o Safe(ModelName(m))

\* "{0}_{1}_ngl{2}": nothing marks where the id ends and the name begins.  The number of
\* layers is one character here; it is what follows the last "_ngl".
FilePrefix(e, m, ngl) == Safe(e.id) \o <<Underscore>> \o Safe(ModelName(m)) \o <<"_ngl", ngl>>

\* The raw text is kept whatever the exit code; a file of the same name is overwritten.  An
\* error here is outside every try.
SaveRaw ==
  /\ pc = "save"
  /\ \/ /\ files' = [f \in DOMAIN files \union {FilePrefix(config[i], model, layers[j])} |->
                       IF f = FilePrefix(config[i], model, layers[j]) THEN <<i, j>> ELSE files[f]]
        /\ pc' = "code"
     \/ pc' = "stopped" /\ UNCHANGED files
  /\ UNCHANGED <<config, i, j, model, layers, arguments, commandLine, rows, succeeded, completed,
                 failed, parsed, notStarted, child, pipes>>

\* An exit code other than 0 is reported and the run is over.
CheckExitCode ==
  /\ pc = "code"
  /\ \/ NextRun
     \/ pc' = "parse" /\ UNCHANGED j
  /\ UNCHANGED <<config, i, model, layers, arguments, commandLine, files, rows, succeeded,
                 completed, failed, parsed, notStarted, child, pipes>>

\* Get-TestLabel, from the numbers of prompt and generated tokens; a number that is no
\* number is an error.
TestLabel(m) ==
  CASE m.prompt > 0 /\ m.gen > 0 -> "pp+tg"
    [] m.prompt > 0 /\ m.gen = 0 -> "pp"
    [] m.prompt = 0 /\ m.gen > 0 -> "tg"
    [] OTHER -> "unknown"

\* The rows up to the first measurement that raises an error stay in the results.
Converted(output) ==
  LET bad == SelectInSeq(output, LAMBDA m : Garbled \in {m.prompt, m.gen})
  IN  IF bad = 0 THEN output ELSE SubSeq(output, 1, bad - 1)

Row(m) == [exp |-> i, layer |-> j, test |-> TestLabel(m)]

ParseJson ==
  /\ pc = "parse"
  /\ \E output \in Outputs :
       IF output = NotJson THEN UNCHANGED <<rows, succeeded, parsed>>
       ELSE /\ rows' = rows \o [k \in DOMAIN Converted(output) |-> Row(output[k])]
            /\ IF Converted(output) = output
               THEN succeeded' = TRUE /\ parsed' = parsed \union {<<i, j>>}
               ELSE UNCHANGED <<succeeded, parsed>>
  /\ NextRun
  /\ UNCHANGED <<config, i, model, layers, arguments, commandLine, files, completed, failed,
                 notStarted, child, pipes>>

\* The table and the summary; until then the results are in memory only.
Report ==
  /\ pc = "next" /\ i = NExperiments
  /\ pc' \in {"done", "stopped"}
  /\ UNCHANGED <<config, i, j, model, layers, arguments, commandLine, files, rows, succeeded,
                 completed, failed, parsed, notStarted, child, pipes>>

Script ==
  \/ Configure \/ Probe \/ Skip \/ Prepare \/ BuildCommand \/ EndExperiment
  \/ Start \/ StartFails \/ ReadChunk \/ ReadEnds \/ WaitForExit
  \/ SaveRaw \/ CheckExitCode \/ ParseJson \/ Report

Child == (\E pipe \in {"out", "err"} : ChildPrints(pipe)) \/ ChildWrites \/ ChildExits

Next == Script \/ Child

Spec == Init /\ [][Next]_vars

\* The script goes on, and so does a process that has something to do.
FairSpec == Spec /\ WF_vars(Script) /\ WF_vars(Child)

(***************************************************************************)
(* Properties                                                              *)
(***************************************************************************)

\* Every variable has its type.
TypeOK ==
  /\ pc \in {"config", "probes", "start", "readout", "readerr", "wait", "next", "layer", "save",
             "code", "parse", "done", "stopped"}
  /\ i \in 0..NExperiments /\ j \in 0..(Len(layers) + 1)
  /\ child \in [alive : BOOLEAN, wants : {"none", "out", "err"}, chunks : 0..MaxChunks]
  /\ pipes \in [{"out", "err"} -> 0..PipeSize]
  /\ {succeeded} \subseteq BOOLEAN /\ {completed, failed} \subseteq Nat
  /\ parsed \subseteq (1..NExperiments) \X Nat /\ notStarted \subseteq (1..NExperiments) \X Nat

\* The script waits for the end of standard output, and the process for room in the other
\* pipe, which nobody reads (run.ps1:138-139).
Jammed ==
  /\ pc = "readout" /\ pipes.out = 0
  /\ child.alive /\ child.wants = "err" /\ pipes.err = PipeSize

\* The benchmark comes to an end, by itself or by an error, whatever its programs print and in
\* whichever order, unless one of them fills standard error while its output is being read:
\* the pipes are read to their ends before the exit is waited for.
EndsUnlessJammed == <>(pc \in {"done", "stopped"} \/ Jammed)

\* Between two experiments the counts of the summary are right: completed are those of which
\* one run was taken in as a whole, failed are the others and once more each run that did
\* not start, so that completed and failed add up to the total only if every run started.
CountsAgree ==
  pc \in {"next", "done"} =>
    /\ completed = Cardinality({run[1] : run \in parsed})
    /\ completed + failed = i + Cardinality(notStarted)

\* A run: its experiment, the model of that, the number of its layers, and its files.
ExperimentOf(run) == config[run[1]]
ModelOf(run) == ResolveBenchmarkModel(ExperimentOf(run).model)
LayersOf(run) == GpuLayers(ExperimentOf(run))[run[2]]
FileOf(run) == FilePrefix(ExperimentOf(run), ModelOf(run), LayersOf(run))

\* run ended last, or is last itself.
NotBefore(run, last) == last[1] > run[1] \/ (last[1] = run[1] /\ last[2] >= run[2])

HasUnderscore(text) == Underscore \in ToSet(Safe(text))

\* Two runs whose files have one name: id and model have one name each, once they are safe, or
\* the id of one of them and the model of the other have an underscore, on either side of
\* which the name can be read.
SameOrSplit(run, other) ==
  LET Id(r)   == ExperimentOf(r).id
      Name(r) == ModelName(ModelOf(r))
  IN  \/ Safe(Id(run)) = Safe(Id(other)) /\ Safe(Name(run)) = Safe(Name(other))
      \/ HasUnderscore(Id(run)) /\ HasUnderscore(Name(other))
      \/ HasUnderscore(Id(other)) /\ HasUnderscore(Name(run))

\* For every row the raw text it was read from has been kept, unless a later run wrote over it.
\* That run had as many layers and the same id and model, once safe for a file name; or else
\* it was one of another id and model, with an underscore in both, and the row's text is lost.
RowsHaveRawText ==
  \A r \in ToSet(rows) :
    LET run  == <<r.exp, r.layer>>
        last == files[FileOf(run)]
    IN  /\ FileOf(run) \in DOMAIN files
        /\ NotBefore(run, last)
        /\ LayersOf(last) = LayersOf(run)
        /\ SameOrSplit(run, last)

\* The program that is started finds in its command line the arguments that were meant.
ArgumentsArrive == commandLine # <<>> => ArgumentsOf(commandLine) = arguments
================================================================================
