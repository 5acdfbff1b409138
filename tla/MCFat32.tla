------------------------------ MODULE MCFat32 ------------------------------
(***************************************************************************)
(* Fat32 for TLC on the smallest disk on which everything happens: four     *)
(* clusters of two sectors (the root and three for files), two FAT sectors  *)
(* per copy so that a chain crosses from one to the other and entries are    *)
(* left over, a directory of two entries in two sectors so that it fills up. *)
(* The contents are empty, one full cluster, and a cluster and a half.       *)
(***************************************************************************)
EXTENDS Fat32

MCNames == {"a", "b", "bb"}
MCShortNames == {"A", "B"}
MCShortName == [n \in MCNames |-> IF n = "a" THEN "A" ELSE "B"]

\* Names no two of which have one 8.3 form.
MCDistinctNames == {"a", "b"}
MCDistinctShortName == [n \in MCDistinctNames |-> IF n = "a" THEN "A" ELSE "B"]

MCContents == {<<>>, <<"x", "y">>, <<"y", "x", "z">>}
============================================================================
