----------------------------- MODULE MCBenchmark -----------------------------
(***************************************************************************)
(* Benchmark for TLC: a configuration with two experiments out of eight that *)
(* find their model by id, by name, by path, as a file, or not at all, whose  *)
(* models have a name or are called after their file, and whose files have   *)
(* different names, one name because the ids become the same, or one name     *)
(* because "x" and "1_A", "x:1" and "A" are the same when joined.            *)
(***************************************************************************)
EXTENDS Benchmark

GGUF(name) == name \o <<".", "gguf">>

MCModels == << [id |-> <<"a">>, name |-> <<"A">>, path |-> GGUF(<<"a">>)],
               [id |-> Nothing, name |-> <<"B">>, path |-> Nothing],
               [id |-> <<"c">>, name |-> <<"a">>, path |-> GGUF(<<"c">>)],
               [id |-> <<"d">>, name |-> Nothing, path |-> GGUF(<<"m", "/", "d">>)],
               [id |-> <<"e">>, name |-> <<"1", "_", "A">>, path |-> GGUF(<<"e">>)] >>

Experiment(id, m, ls) == [id |-> id, model |-> m, layers |-> ls]

MCExperiments == { Experiment(<<"x", ":", "1">>, <<"a">>, <<99, 20>>),
                   Experiment(<<"x", "_", "1">>, GGUF(<<"a">>), <<0>>),
                   Experiment(<<"x">>, <<"e">>, <<99>>),
                   Experiment(<<"y">>, <<"d">>, <<99>>),
                   Experiment(<<"y">>, GGUF(<<"d">>), <<>>),
                   Experiment(<<"unnamed">>, Nothing, <<20>>),
                   Experiment(<<"y">>, <<"B">>, <<20>>),
                   Experiment(<<"y">>, <<"c">>, <<20>>) }

MCModelFiles == {GGUF(<<"a">>), GGUF(<<"d">>), GGUF(<<"m", "/", "d">>), GGUF(<<"e">>)}
NoLayers == <<>>

Measured(p, g) == [prompt |-> p, gen |-> g]
MCOutputs == { NotJson, <<>>, <<Measured(512, 0), Measured(0, 128)>>,
               <<Measured(512, 0), Measured(0, Garbled)>> }

\* Texts of one to three characters of the four kinds.
MCTexts == UNION {[1..n -> {"x", " ", "q", "b"}] : n \in 1..3}
===============================================================================
