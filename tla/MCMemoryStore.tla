---------------------------- MODULE MCMemoryStore -----------------------------
(***************************************************************************)
(* MemoryStore for TLC: two threads, two records, a search that returns one. *)
(* Of the four categories the one that only the user's own memories go to is *)
(* left out; it is used like System.                                        *)
(***************************************************************************)
EXTENDS MemoryStore, TLC

MCCategories == <<"System", "Arona", "Memoir">>
MCWords      == { {"start"} }
MCLogWords   == { "start" }
MCQueries    == { <<"start", "log">> }

\* Like exp(-elapsed / stability): falling from one in the first, growing in the second.
MCDecay(elapsed_days, half_days) == (1000 * half_days) \div (half_days + 2 * elapsed_days)

Sym == Permutations(Threads)
================================================================================
