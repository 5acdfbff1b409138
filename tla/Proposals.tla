------------------------------- MODULE Proposals -------------------------------
(***************************************************************************)
(* The bridges that let the language model propose a rule for the guardian  *)
(* (guardian_bridge.rs) or a permission template for a purpose which the     *)
(* catalogue does not know (catalog_bridge.rs, permissions_bridge.rs).  The   *)
(* model writes what it likes, line after line; the parsers make a rule, a    *)
(* template or an error of it.                                              *)
(*                                                                         *)
(* A text that is searched for keywords is a sequence of letters in lower    *)
(* and upper case and of other characters ("-").                            *)
(***************************************************************************)
EXTENDS KeyValueLines, FiniteSets, TLC

CONSTANTS
  RuleLines, TemplateLines,   \* the lines the model writes
  MaxRuleLines, MaxTemplateLines,   \* bound: how many
  Lower(_),                   \* to_ascii_lowercase of a letter
  Letters,                    \* is_ascii_alphanumeric
  Purposes,                   \* the descriptions of purposes
  TextOf(_),                  \* the characters of a name or description
  Number(_),                  \* whether a word can be parsed as a number of the type asked for
  Attribute(_),               \* the two sides of an attribute key=value, or Nothing
  MaxCatalog,                 \* bound: templates in the catalogue
  Nothing

\* The templates for a FiveM server and for development in Rust.  What is kept of a template
\* in the catalogue is its name and description, by which it is found.
default_catalog == << <<"FiveM", "script">>, <<"Rust", "build">> >>

\* The words of templates, and what is made of lines and of texts is made of sequences.
TemplateWords ==
  UNION ({ToSet(l) : l \in TemplateLines} \union {ToSet(t) : t \in ToSet(default_catalog)})

ASSUME ProposalsAssumption ==
  /\ \A l \in RuleLines \union TemplateLines : l \in Seq(ToSet(l))
  /\ \A p \in Purposes : p \in Seq(ToSet(p))
  /\ \A w \in TemplateWords : TextOf(w) \in Seq(ToSet(TextOf(w)))

VARIABLES
  call,       \* "none", "rule", "resolve", "template", "returned"
  purpose,    \* of resolve_or_propose
  answer,     \* what the model has written in this call
  catalog,    \* the templates known, which proposed ones are added to
  last        \* the call that ended last: its answer or purpose, and what came of it

vars == <<call, purpose, answer, catalog, last>>

Error(kind) == [kind |-> kind, ok |-> FALSE]

Init ==
  /\ call = "none" /\ purpose = <<>> /\ answer = <<>>
  /\ catalog = default_catalog
  /\ last = Error("none")

(***************************************************************************)
(* Rules for the guardian                                                  *)
(***************************************************************************)

ThreatCategories == {"Ransomware", "HardwareFailure", "DataCorruption", "SystemCorruption"}

\* parse: a text that is one whole number, or one that may be negative.
Whole(text) == Len(text) = 1 /\ Number(text[1])
Signed(text) == Whole(text) \/ (Len(text) = 2 /\ text[1] = "-" /\ Number(text[2]))

\* split_once('='), at the first of them, and trim of both sides.
Equals(text) == {k \in DOMAIN text : text[k] = "="}
Sides(text) == << Trim(SubSeq(text, 1, Min(Equals(text)) - 1), Space),
                  Trim(SubSeq(text, Min(Equals(text)) + 1, Len(text)), Space) >>

\* The DetectionMethod, or Nothing if the name is not one or the detail does not fit it.
Method(name, detail) ==
  CASE name = <<"Signature">> -> [by |-> "Signature", pattern |-> detail]
    [] name = <<"BehavioralAnomaly">> -> [by |-> "BehavioralAnomaly"]
    [] name = <<"SensorThreshold">> ->
         IF Equals(detail) # {} /\ Signed(Sides(detail)[2])
         THEN [by |-> "SensorThreshold", sensor |-> Sides(detail)[1], limit |-> Sides(detail)[2]]
         ELSE Nothing
    [] name = <<"ChecksumVerification">> -> [by |-> "ChecksumVerification"]
    [] name \in {<<"EventLog">>, <<"AbnormalProcessEvent">>} ->
         [by |-> name[1], event_type |-> detail]
    [] name = <<"Heartbeat">> ->
         IF Whole(Trim(detail, Space))
         THEN [by |-> "Heartbeat", max_missed_beats |-> Trim(detail, Space)[1]] ELSE Nothing
    [] OTHER -> Nothing

\* Mutant: what is not true is not protected.
ProtectedIfTrue(fields) ==
  <<"PROTECTED">> \in DOMAIN fields /\ fields[<<"PROTECTED">>] = <<"true">>

\* In doubt a rule is protected.
Protected(fields) ==
  ~(<<"PROTECTED">> \in DOMAIN fields /\ fields[<<"PROTECTED">>] = <<"false">>)

\* parse_response of guardian_bridge.rs; the errors are one.
ParseRule(lines) ==
  LET fields == parse_key_value_lines(lines)
      Has(key) == key \in DOMAIN fields
  IN  IF ~(Has(<<"CATEGORY">>) /\ Has(<<"DETAIL">>) /\ Has(<<"METHOD">>)) THEN Nothing
      ELSE IF fields[<<"CATEGORY">>] \notin {<<c>> : c \in ThreatCategories} THEN Nothing
      ELSE LET method == Method(fields[<<"METHOD">>], fields[<<"DETAIL">>])
           IN  IF method = Nothing THEN Nothing
               ELSE [category |-> fields[<<"CATEGORY">>][1], method |-> method,
                     protected |-> Protected(fields)]

(***************************************************************************)
(* Templates                                                               *)
(***************************************************************************)

\* split_whitespace.
Words(text) ==
  LET words[n \in 0..Len(text)] ==
        IF n = 0 THEN <<>>
        ELSE IF text[n] \in Space THEN words[n - 1] ELSE Append(words[n - 1], text[n])
  IN  words[Len(text)]

\* The attributes key=value of a capability, of which the last of a key counts.
Attributes(words) ==
  FoldLeft(LAMBDA attrs, w : IF Attribute(w) = Nothing THEN attrs
                             ELSE (Attribute(w)[1] :> Attribute(w)[2]) @@ attrs,
           <<>>, words)

\* parse_capability, Nothing being its errors.
parse_capability(text) ==
  LET words == Words(text)
      kind  == IF words = <<>> THEN Nothing ELSE words[1]
      attrs == IF words = <<>> THEN <<>> ELSE Attributes(Tail(words))
      Has(keys) == keys \subseteq DOMAIN attrs
  IN  CASE kind = "FileSystemAccess" ->
             IF Has({"path", "mode"})
             THEN IF attrs["mode"] \in {"ReadOnly", "ReadWrite"}
                  THEN <<kind, attrs["path"], attrs["mode"]>> ELSE Nothing
             ELSE Nothing
        [] kind = "NetworkPort" ->
             IF Has({"port", "protocol"})
             THEN IF Number(attrs["port"]) /\ attrs["protocol"] \in {"Tcp", "Udp"}
                  THEN <<kind, attrs["port"], attrs["protocol"]>> ELSE Nothing
             ELSE Nothing
        [] kind = "ProcessExecution" ->
             IF Has({"program"}) THEN <<kind, attrs["program"]>> ELSE Nothing
        [] kind = "EnvironmentVariable" ->
             IF Has({"name"}) THEN <<kind, attrs["name"]>> ELSE Nothing
        [] OTHER -> Nothing

\* What follows CAPABILITY: in a line that begins with it as it stands, blanks apart.
IsCapability(line) == IsPrefix(<<"CAPABILITY", ":">>, Trim(line, Space))
CapabilityText(line) == LET t == Trim(line, Space) IN Trim(SubSeq(t, 3, Len(t)), Space)

\* filter_map over the lines.
CapabilityTexts(lines) ==
  LET texts[n \in 0..Len(lines)] ==
        IF n = 0 THEN <<>>
        ELSE IF IsCapability(lines[n])
        THEN Append(texts[n - 1], CapabilityText(lines[n])) ELSE texts[n - 1]
  IN  texts[Len(lines)]

\* Mutant: a capability that cannot be read is left out.
SkipsBadCapabilities(lines) ==
  LET fields == parse_key_value_lines(lines)
      texts  == SelectSeq(CapabilityTexts(lines), LAMBDA t : parse_capability(t) # Nothing)
  IN  IF <<"NAME">> \in DOMAIN fields /\ texts # <<>>
      THEN [text |-> fields[<<"NAME">>],
            capabilities |-> [n \in DOMAIN texts |-> parse_capability(texts[n])]]
      ELSE Nothing

\* parse_response of permissions_bridge.rs: one capability that cannot be read spoils all, and
\* there must be one.
ParseTemplate(lines) ==
  LET fields == parse_key_value_lines(lines)
      texts  == CapabilityTexts(lines)
      caps   == [n \in DOMAIN texts |-> parse_capability(texts[n])]
      Field(key) == IF key \in DOMAIN fields THEN fields[key] ELSE <<>>
  IN  IF <<"NAME">> \in DOMAIN fields /\ caps # <<>> /\ Nothing \notin ToSet(caps)
      THEN [text |-> fields[<<"NAME">>] \o Field(<<"DESCRIPTION">>), capabilities |-> caps]
      ELSE Nothing

(***************************************************************************)
(* The catalogue                                                           *)
(***************************************************************************)

\* What the loop over the characters does with one: a run of letters is kept when it ends, if
\* it has three.  Of the keywords only is asked which there are.
Scan(s, c) ==
  IF c \in Letters THEN [s EXCEPT !.current = Append(@, Lower(c))]
  ELSE [keywords |-> s.keywords \union (IF Len(s.current) >= 3 THEN {s.current} ELSE {}),
        current |-> <<>>]

\* The loop.
Scanned(text) ==
  LET s[n \in 0..Len(text)] ==
        IF n = 0 THEN [keywords |-> {}, current |-> <<>>] ELSE Scan(s[n - 1], text[n])
  IN  s[Len(text)]

\* Mutant: a word at the end of the text is forgotten.
ForgetsTheEnd(text) == Scanned(text).keywords

extract_ascii_keywords(text) ==
  LET end == Scanned(text)
  IN  end.keywords \union (IF Len(end.current) >= 3 THEN {end.current} ELSE {})

\* The characters of a template's name and description, which are words here.
Characters(words) ==
  LET texts[n \in 0..Len(words)] ==
        IF n = 0 THEN <<>> ELSE texts[n - 1] \o TextOf(words[n]) \o <<"-">>
  IN  texts[Len(words)]

keyword_match(text, template) ==
  extract_ascii_keywords(text) \intersect
    extract_ascii_keywords(Characters(template)) # {}

(***************************************************************************)
(* Calls                                                                   *)
(***************************************************************************)

\* The caller has looked at what came back.
GoOn ==
  /\ call = "returned"
  /\ call' = "none" /\ last' = Error("none")
  /\ UNCHANGED <<purpose, answer, catalog>>

propose_rule ==
  /\ call = "none"
  /\ call' = "rule"
  /\ UNCHANGED <<purpose, answer, catalog, last>>

resolve_or_propose ==
  /\ call = "none"
  /\ call' = "resolve" /\ purpose' \in Purposes
  /\ UNCHANGED <<answer, catalog, last>>

\* The first template that matches, without asking the model.
Existing ==
  /\ call = "resolve"
  /\ LET n == SelectInSeq(catalog, LAMBDA t : keyword_match(purpose, t))
     IN  n # 0 /\ last' = [kind |-> "existing", ok |-> TRUE, index |-> n, purpose |-> purpose]
  /\ call' = "returned" /\ purpose' = <<>>
  /\ UNCHANGED <<answer, catalog>>

propose_template ==
  /\ call = "resolve"
  /\ SelectInSeq(catalog, LAMBDA t : keyword_match(purpose, t)) = 0
  /\ call' = "template" /\ purpose' = <<>> /\ UNCHANGED answer
  /\ last' = [kind |-> "unknown", ok |-> TRUE, purpose |-> purpose]
  /\ UNCHANGED catalog

\* generate: the model writes (external) ...
Write ==
  /\ \/ call = "rule" /\ Len(answer) < MaxRuleLines /\ \E l \in RuleLines : answer' = Append(answer, l)
     \/ call = "template" /\ Len(answer) < MaxTemplateLines /\ \E l \in TemplateLines : answer' = Append(answer, l)
  /\ last' = Error("none")
  /\ UNCHANGED <<call, purpose, catalog>>

\* ... or fails, which is passed on.
GenerateFails ==
  /\ call \in {"rule", "template"}
  /\ call' = "returned" /\ answer' = <<>> /\ last' = Error("cognition")
  /\ UNCHANGED <<purpose, catalog>>

RuleProposed ==
  /\ call = "rule"
  /\ last' = IF ParseRule(answer) = Nothing
             THEN [kind |-> "rule", ok |-> FALSE, answer |-> answer]
             ELSE [kind |-> "rule", ok |-> TRUE, answer |-> answer, made |-> ParseRule(answer)]
  /\ call' = "returned" /\ answer' = <<>>
  /\ UNCHANGED <<purpose, catalog>>

\* The caller adds a proposed template to its catalogue (catalog.rs:6).
TemplateProposed ==
  /\ call = "template"
  /\ IF ParseTemplate(answer) = Nothing
     THEN last' = [kind |-> "template", ok |-> FALSE, answer |-> answer] /\ UNCHANGED catalog
     ELSE /\ last' = [kind |-> "template", ok |-> TRUE, answer |-> answer,
                      made |-> ParseTemplate(answer)]
          /\ catalog' = IF Len(catalog) < MaxCatalog
                        THEN Append(catalog, ParseTemplate(answer).text) ELSE catalog
  /\ call' = "returned" /\ answer' = <<>>
  /\ UNCHANGED purpose

Next ==
  \/ GoOn \/ propose_rule \/ resolve_or_propose \/ Existing \/ propose_template
  \/ Write \/ GenerateFails \/ RuleProposed \/ TemplateProposed

Spec == Init /\ [][Next]_vars

(***************************************************************************)
(* Properties                                                              *)
(***************************************************************************)

\* Between two calls nothing is left of a purpose or an answer.
TypeOK ==
  /\ call \in {"none", "rule", "resolve", "template", "returned"}
  /\ purpose \in IF call = "resolve" THEN Purposes ELSE {<<>>}
  /\ answer \in Seq(IF call = "rule" THEN RuleLines
                     ELSE IF call = "template" THEN TemplateLines ELSE {})
  /\ catalog \in Seq(Seq(TemplateWords))

\* A rule made of an answer says what the last line of each key says, however keys and values
\* are decorated and whatever else the model has written; it can be relaxed by false alarms
\* only if the last word on PROTECTED was exactly false.
RulesSayWhatWasAnswered ==
  last.kind = "rule" /\ last.ok =>
    /\ Says(last.answer, <<"CATEGORY">>, <<last.made.category>>)
    /\ Says(last.answer, <<"METHOD">>, <<last.made.method.by>>)
    /\ last.made.method.by = "Signature" =>
         Says(last.answer, <<"DETAIL">>, last.made.method.pattern)
    /\ ~last.made.protected <=> Says(last.answer, <<"PROTECTED">>, <<"false">>)

\* What a line lists, if it is a CAPABILITY line without decoration.
Lists(line, capability) ==
  \E n \in DOMAIN line :
    /\ \A k \in 1..(n - 1) : line[k] \in Space
    /\ n + 1 \in DOMAIN line /\ line[n] = "CAPABILITY" /\ line[n + 1] = ":"
    /\ parse_capability(SubSeq(line, n + 2, Len(line))) = capability

\* A template permits exactly what its answer lists in plain CAPABILITY lines.  A line that
\* lists something unreadable makes it an error, so that nothing is left out unnoticed; only
\* decorated lines are (permissions_bridge.rs:69).
TemplatesPermitWhatWasListed ==
  last.kind = "template" /\ last.ok =>
    /\ \A c \in ToSet(last.made.capabilities) : \E l \in ToSet(last.answer) : Lists(l, c)
    /\ \A l \in ToSet(last.answer) :
         /\ ~Lists(l, Nothing)
         /\ \A c \in {parse_capability(t) : t \in ToSet(CapabilityTexts(<<l>>))} :
              c \in ToSet(last.made.capabilities)

\* The runs of at least three letters that no longer run contains.
Runs(text) ==
  {[k \in 1..(r[2] - r[1] + 1) |-> Lower(text[r[1] + k - 1])] :
     r \in {ab \in (DOMAIN text) \X (DOMAIN text) :
              /\ ab[2] >= ab[1] + 2
              /\ \A k \in ab[1]..ab[2] : text[k] \in Letters
              /\ ab[1] = 1 \/ text[ab[1] - 1] \notin Letters
              /\ ab[2] = Len(text) \/ text[ab[2] + 1] \notin Letters}}

Shares(text, template) == Runs(text) \intersect Runs(Characters(template)) # {}

\* The model is asked only for a purpose that has no word of three letters in common with any
\* template; for any other the first such template is taken.
FoundByKeywords ==
  /\ last.kind = "existing" =>
       /\ Shares(last.purpose, catalog[last.index])
       /\ \A n \in 1..(last.index - 1) : ~Shares(last.purpose, catalog[n])
  /\ last.kind = "unknown" => \A t \in ToSet(catalog) : ~Shares(last.purpose, t)
================================================================================
