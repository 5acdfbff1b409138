----------------------------- MODULE KeyValueLines -----------------------------
(***************************************************************************)
(* parse_key_value_lines of guardian_bridge.rs, which the bridges to the    *)
(* language model share: the answer of the model, line by line, as a map     *)
(* from keys to values.  A line is a sequence of words and of the characters *)
(* that the parser looks at.                                                *)
(***************************************************************************)
EXTENDS Naturals, Sequences, SequencesExt, FiniteSetsExt

CONSTANT Upper(_)     \* to_uppercase of a word

Space == {" "}
Decoration == Space \union {"*", "#", "-", "_"}

\* trim_matches: what is left without the given characters at either end.
Trim(text, chars) ==
  LET kept == {k \in DOMAIN text : text[k] \notin chars}
  IN  IF kept = {} THEN <<>> ELSE SubSeq(text, Min(kept), Max(kept))

\* split_once(':'), at the first colon.
HasColon(line) == \E k \in DOMAIN line : line[k] = ":"
Colon(line) == Min({k \in DOMAIN line : line[k] = ":"})

Key(line) ==
  LET key == Trim(SubSeq(line, 1, Colon(line) - 1), Decoration)
  IN  [k \in DOMAIN key |-> Upper(key[k])]

\* A value keeps its case.
Value(line) == Trim(SubSeq(line, Colon(line) + 1, Len(line)), Decoration)

\* insert: the value takes the place of what the map had for the key.
With(fields, key, value) ==
  [k \in DOMAIN fields \union {key} |-> IF k = key THEN value ELSE fields[k]]

\* Lines without a colon are skipped; a later line of the same key takes the place of an
\* earlier one.
parse_key_value_lines(lines) ==
  LET fields[n \in 0..Len(lines)] ==
        IF n = 0 THEN <<>>
        ELSE IF HasColon(lines[n])
        THEN With(fields[n - 1], Key(lines[n]), Value(lines[n])) ELSE fields[n - 1]
  IN  fields[Len(lines)]

\* For comparison: what the last line of a key says, if there is one.
Says(lines, key, value) ==
  \E n \in DOMAIN lines :
    /\ HasColon(lines[n]) /\ Key(lines[n]) = key /\ Value(lines[n]) = value
    /\ \A m \in (n + 1)..Len(lines) : HasColon(lines[m]) => Key(lines[m]) # key

Mentions(lines, key) == \E n \in DOMAIN lines : HasColon(lines[n]) /\ Key(lines[n]) = key
================================================================================
