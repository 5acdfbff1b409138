---------------------------- MODULE MCKernelPolicy ----------------------------
(***************************************************************************)
(* KernelPolicy for TLC: the five first rules and one more, whose name may be *)
(* the one of a first rule; one purpose with two templates; an event for each *)
(* detection method and one just short of it.                               *)
(***************************************************************************)
EXTENDS KernelPolicy

MCTemplates == [rust |-> {"dev", "cargo"}, web |-> {"dev"}]
MCNewRules  == { <<[by |-> "EventLog", event_type |-> "disk_full"], FALSE>>,
                 <<[by |-> "AbnormalProcessEvent", event_type |-> "crash"], TRUE>> }
\* The names of a protected rule and of another; the time stamp counter gives a new one.
MCRandom    == { <<"boot", 1>>, <<"boot", 3>> }
MCEvents ==
  { [kind |-> "FileOperation", path |-> {".locked"}, writes |-> 0],
    [kind |-> "FileOperation", path |-> {}, writes |-> 101],
    [kind |-> "FileOperation", path |-> {}, writes |-> 100],
    [kind |-> "SensorReading", sensor |-> "cpu_temp_celsius", value |-> 96],
    [kind |-> "SensorReading", sensor |-> "cpu_temp_celsius", value |-> 95],
    [kind |-> "SensorReading", sensor |-> "fan", value |-> 96],
    [kind |-> "ChecksumCheck", matched |-> FALSE],
    [kind |-> "ChecksumCheck", matched |-> TRUE],
    [kind |-> "WriteFailure", reason |-> "disk_full"],
    [kind |-> "WriteFailure", reason |-> "locked"],
    [kind |-> "ProcessAbnormal", event_type |-> "crash"],
    [kind |-> "HeartbeatMissed", missed |-> 2],
    [kind |-> "HeartbeatMissed", missed |-> 3] }
================================================================================
