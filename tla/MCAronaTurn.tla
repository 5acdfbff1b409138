------------------------------ MODULE MCAronaTurn ------------------------------
(***************************************************************************)
(* AronaTurn for TLC: three capabilities (a file the ransomware rule         *)
(* forbids, a file nothing forbids at first, a program), two templates that *)
(* overlap, and rules that may be proposed against either file.             *)
(***************************************************************************)
EXTENDS AronaTurnRefines, TLC

Locked  == [kind |-> "FileSystemAccess", path |-> {".locked"}]
Scratch == [kind |-> "FileSystemAccess", path |-> {"scratch"}]
Cargo   == [kind |-> "ProcessExecution", path |-> {}]

TwoTemplates == [dev |-> {Scratch, Cargo}, server |-> {Locked, Cargo}]
FilesOrTools == [dev |-> {Locked, Scratch}, server |-> {Cargo}]
FileOrTool   == [dev |-> {Locked}, server |-> {Cargo}]

NoRules  == << >>
RansomRule == << New([by |-> "Signature", pattern |-> ".locked"], TRUE) >>
Default  == default_rule_set
Proposed == { <<[by |-> "Signature", pattern |-> ".locked"], TRUE>>,
              <<[by |-> "Signature", pattern |-> "scratch"], FALSE>> }
NoProposal == {}

\* Categories are only ever compared with one another.
CategorySymmetry == Permutations(Categories)

\* One event that each detection method answers to, and one just short of it.
SampleEvents ==
  { [kind |-> "FileOperation", path |-> {".locked"}, writes |-> 0],
    [kind |-> "FileOperation", path |-> {}, writes |-> 101],
    [kind |-> "FileOperation", path |-> {}, writes |-> 100],
    [kind |-> "SensorReading", sensor |-> "cpu_temp_celsius", value |-> 96],
    [kind |-> "SensorReading", sensor |-> "cpu_temp_celsius", value |-> 95],
    [kind |-> "ChecksumCheck", matched |-> FALSE],
    [kind |-> "WriteFailure", reason |-> "disk_full"],
    [kind |-> "ProcessAbnormal", event_type |-> "crash"],
    [kind |-> "HeartbeatMissed", missed |-> 3] }
================================================================================
