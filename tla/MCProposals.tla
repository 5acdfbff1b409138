----------------------------- MODULE MCProposals -----------------------------
(***************************************************************************)
(* Proposals for TLC.  The lines have keys in both cases, decorated keys,    *)
(* keys that are repeated and details that fit or do not; the default        *)
(* catalogue has the two templates of the source, and descriptions of        *)
(* purposes are all texts of up to seven characters of three kinds.          *)
(***************************************************************************)
EXTENDS Proposals

MCUpper(w) == IF w = "category" THEN "CATEGORY" ELSE w

Line(key, value) == <<key, ":", " ", value>>

MCRuleLines ==
  { <<"*", "*", "category", ":", "*", "*", " ", "Ransomware">>,
    Line("CATEGORY", "Unheard"),
    Line("METHOD", "Signature"), Line("METHOD", "SensorThreshold"), Line("METHOD", "Heartbeat"),
    <<"DETAIL", ":", " ", "cpu", " ", "temp", " ", "=", " ", "95">>,
    Line("DETAIL", "3"), <<"DETAIL", ":", "*", "*">>,
    Line("PROTECTED", "false"), Line("PROTECTED", "False"),
    <<"PROTECTED", "false">> }

Files == <<"FileSystemAccess", " ", "path=C", " ", "mode=ReadOnly">>
MCTemplateLines ==
  { Line("NAME", "Python"), Line("DESCRIPTION", "Godot"),
    <<" ", "CAPABILITY", ":", " ">> \o Files,
    <<"*", "*", "CAPABILITY", ":", "*", "*", " ">> \o Files,
    <<"CAPABILITY", ":", " ", "NetworkPort", " ", "port=80", " ", "protocol=Tcp">>,
    <<"CAPABILITY", ":", " ", "NetworkPort", " ", "port=80">>,
    <<"CAPABILITY", ":", " ", "ProcessExecution", " ", "program=py">>,
    <<"CAPABILITY", ":">> }

MCNumber(w) == w \in {"3", "95", "80"}
MCAttribute(w) ==
  CASE w = "path=C" -> <<"path", "C">>
    [] w = "mode=ReadOnly" -> <<"mode", "ReadOnly">>
    [] w = "port=80" -> <<"port", "80">>
    [] w = "protocol=Tcp" -> <<"protocol", "Tcp">>
    [] w = "program=py" -> <<"program", "py">>
    [] OTHER -> Nothing

MCLetters == {"a", "A", "b"}
MCLower(c) == IF c = "A" THEN "a" ELSE c
MCTextOf(w) ==
  CASE w = "Python" -> <<"a", "b", "a">>
    [] w = "Godot" -> <<"b", "b", "b", "-", "a">>
    [] w = "FiveM" -> <<"A", "a", "a">>
    [] w = "Rust" -> <<"-", "a", "A", "a", "b">>
    [] OTHER -> <<"-">>

MCPurposes == UNION {[1..n -> {"a", "A", "-", "b"}] : n \in 0..4}
              \union {<<"a", "b", "-">> \o t : t \in [1..4 -> {"a", "b", "-"}]}
              \union {<<"b", "a", "a", "-">> \o t : t \in [1..3 -> {"a", "b", "-"}]}
===============================================================================
