------------------------------ MODULE CommandLine ------------------------------
(***************************************************************************)
(* How run.ps1 writes a list of arguments as one command line, and how a    *)
(* Windows program reads a command line back.  A text is a sequence of      *)
(* characters; of the white space only the blank is there.                  *)
(***************************************************************************)
EXTENDS Naturals, Sequences, SequencesExt, FiniteSetsExt

Blank == " "
Quote == "q"
Backslash == "b"

\* The backslashes a text ends in.
EndRun(text) ==
  LET n == Max({k \in 0..Len(text) :
                  \A i \in (Len(text) - k + 1)..Len(text) : text[i] = Backslash})
  IN  SubSeq(text, Len(text) - n + 1, Len(text))

\* -replace '(\\*)"', '$1$1\"': a quote gets a backslash, and those before it are doubled.
EscapeQuotes(text) ==
  LET done[k \in 0..Len(text)] ==
        IF k = 0 THEN <<>>
        ELSE IF text[k] = Quote THEN done[k - 1] \o EndRun(done[k - 1]) \o <<Backslash, Quote>>
        ELSE Append(done[k - 1], text[k])
  IN  done[Len(text)]

\* Mutant: the backslashes before the closing quote are left alone.
QuotesOnly(text) ==
  IF \E i \in DOMAIN text : text[i] \in {Blank, Quote}
  THEN <<Quote>> \o EscapeQuotes(text) \o <<Quote>> ELSE text

\* One argument: in quotes if it has a blank or a quote, and then the backslashes before
\* the closing quote are doubled (-replace '(\\+)$', '$1$1').
Escaped(text) ==
  IF \E i \in DOMAIN text : text[i] \in {Blank, Quote}
  THEN LET inner == EscapeQuotes(text)
       IN  <<Quote>> \o inner \o EndRun(inner) \o <<Quote>>
  ELSE text

ConvertToNativeCommandArguments(arguments) ==
  LET line[k \in 0..Len(arguments)] ==
        IF k = 0 THEN <<>>
        ELSE IF k = 1 THEN Escaped(arguments[1])
        ELSE line[k - 1] \o <<Blank>> \o Escaped(arguments[k])
  IN  line[Len(arguments)]

(***************************************************************************)
(* The other side (external): the runtime of the program that is started    *)
(* splits its command line at blanks outside quotes; an even number of       *)
(* backslashes before a quote is half as many and the quote opens or closes, *)
(* an odd number is half as many and a quote of the text.                   *)
(***************************************************************************)
Slashes(n) == [i \in 1..n |-> Backslash]

Reading == [found |-> <<>>, word |-> <<>>, open |-> FALSE, quoted |-> FALSE, slashes |-> 0]

Flushed(r) == [r EXCEPT !.word = @ \o Slashes(r.slashes), !.slashes = 0]

WordDone(r) == IF r.open THEN [Reading EXCEPT !.found = Append(r.found, r.word)] ELSE r

ReadCharacter(r, c) ==
  CASE c = Backslash -> [r EXCEPT !.slashes = @ + 1, !.open = TRUE]
    [] c = Quote ->
         LET half == [r EXCEPT !.word = @ \o Slashes(r.slashes \div 2),
                               !.slashes = 0, !.open = TRUE]
         IN  IF r.slashes % 2 = 1 THEN [half EXCEPT !.word = Append(@, Quote)]
                                  ELSE [half EXCEPT !.quoted = ~@]
    [] c = Blank /\ ~r.quoted -> WordDone(Flushed(r))
    [] OTHER -> LET f == Flushed(r) IN [f EXCEPT !.word = Append(@, c), !.open = TRUE]

ArgumentsOf(line) ==
  LET read[k \in 0..Len(line)] == IF k = 0 THEN Reading ELSE ReadCharacter(read[k - 1], line[k])
  IN  WordDone(Flushed(read[Len(line)])).found
================================================================================
