------------------------------ MODULE MCConflict ------------------------------
(***************************************************************************)
(* Conflict for TLC: three purposes; a port outside the range and a file; a   *)
(* range of two ports of which another program uses one for UDP; answers with *)
(* one winner, with two, with none and with one nobody can read.             *)
(***************************************************************************)
EXTENDS Conflict

MCUpper(w) == IF w = "winner" THEN "WINNER" ELSE w

MCWanted == { <<"net", "Tcp", 1>>, <<"fs", "dev">> }
MCBusy   == { <<"net", "Udp", 6>> }
Sym      == Permutations(Purposes)

Line(value) == <<"WINNER", ":", " ", value>>
MCAnswers == { <<Line("requester")>>, <<Line("both")>>,
               <<Line("requester"), Line("holder")>>, <<<<"holder">>>> }
================================================================================
