---------------------------- MODULE ProposalsProofs ----------------------------
(***************************************************************************)
(* Theorems about what is made of the model's answers: any lines, any number *)
(* of them, any words and characters.                                       *)
(***************************************************************************)
EXTENDS Proposals, SequenceTheorems, WellFoundedInduction, TLAPS

(***************************************************************************)
(* Induction and recursion                                                 *)
(***************************************************************************)

\* A set of numbers has a least one, which is its only one.
LEMMA LeastNumber ==
  ASSUME NEW S \in SUBSET Nat, S # {}
  PROVE  Min(S) \in S /\ \A n \in S : Min(S) <= n
<1> DEFINE Below == OpToRel(<, Nat)
<1>1. Below = {ss \in Nat \X Nat : ss[1] < ss[2]}
  BY Zenon DEF OpToRel
<1>2. \E m \in S : \A n \in S : <<n, m>> \notin Below
  BY NatLessThanWellFounded, WFMin
<1> HIDE DEF Below
<1>3. \A m, n \in Nat : <<n, m>> \notin Below => m <= n
  BY <1>1
<1>4. \E m \in S : \A n \in S : m <= n
  BY <1>2, <1>3
<1> QED
  BY <1>4 DEF Min

\* Induction over the numbers from 0 to n.
LEMMA UpTo ==
  ASSUME NEW n \in Nat, NEW S, 0 \in S, \A u \in 0 .. n - 1 : u \in S => u + 1 \in S
  PROVE  \A u \in 0 .. n : u \in S
<1> SUFFICES ASSUME \E u \in 0 .. n : u \notin S PROVE FALSE
  OBVIOUS
<1> DEFINE B == {u \in 0 .. n : u \notin S}
<1>1. PICK m \in B : \A u \in B : m <= u
  <2>1. B \subseteq Nat /\ B # {}
    OBVIOUS
  <2> HIDE DEF B
  <2> QED BY <2>1, LeastNumber
<1>2. m # 0 /\ m - 1 \in 0 .. n - 1 /\ (m - 1) + 1 = m /\ m - 1 \notin B
  BY <1>1
<1> QED BY <1>1, <1>2

\* A set of numbers up to n has a greatest one.
LEMMA GreatestNumber ==
  ASSUME NEW n \in Nat, NEW S \in SUBSET (1 .. n), S # {}
  PROVE  Max(S) \in S /\ \A u \in S : u <= Max(S)
<1> DEFINE B == {n - u : u \in S}
<1>1. B \in SUBSET Nat /\ B # {}
  <2>1. \A u \in S : n - u \in Nat
    OBVIOUS
  <2>2. B \in SUBSET Nat
    BY <2>1
  <2>3. PICK u \in S : TRUE
    OBVIOUS
  <2>4. n - u \in B
    OBVIOUS
  <2> QED BY <2>2, <2>4
<1>2. PICK u \in S : \A v \in S : n - u <= n - v
  <2> DEFINE least == Min(B)
  <2>1. least \in B /\ \A b \in B : least <= b
    BY <1>1, LeastNumber
  <2> HIDE DEF least
  <2>2. PICK u \in S : least = n - u
    BY <2>1
  <2> QED BY <2>1, <2>2
<1>3. \A v \in S : v <= u
  BY <1>2
<1>4. \E x \in S : \A y \in S : x >= y
  BY <1>3
<1>5. Max(S) \in S /\ \A y \in S : Max(S) >= y
  BY <1>4 DEF Max
<1> QED BY <1>5

\* f is given by its first value and a step; there is such an f.
Given(f, n, V, base, step) ==
  f \in [0 .. n -> V] /\ f[0] = base /\ \A k \in 1 .. n : f[k] = step[<<f[k - 1], k>>]

\* There is a function with a given first value and a given step to the next.
LEMMA Recursion ==
  ASSUME NEW n \in Nat, NEW V, NEW base \in V, NEW step \in [V \X (1 .. n) -> V]
  PROVE  \E f : Given(f, n, V, base, step)
<1> DEFINE S == {m \in 0 .. n : \E f : Given(f, m, V, base, step)}
<1>1. 0 \in S
  <2>1. Given([k \in 0 .. 0 |-> base], 0, V, base, step)
    BY DEF Given
  <2> QED BY <2>1
<1>2. ASSUME NEW m \in 0 .. n - 1, m \in S
      PROVE  m + 1 \in S
  <2>1. PICK f : Given(f, m, V, base, step)
    BY <1>2
  <2>2. m \in Nat /\ m + 1 \in 1 .. n /\ m \in 0 .. m /\ f \in [0 .. m -> V] /\ f[m] \in V
    BY <2>1 DEF Given
  <2> DEFINE next == step[<<f[m], m + 1>>]
             g == [k \in 0 .. m + 1 |-> IF k <= m THEN f[k] ELSE next]
  <2>3. next \in V
    BY <2>2
  <2> HIDE DEF next
  <2>4. g \in [0 .. m + 1 -> V]
    <3>1. \A k \in 0 .. m + 1 : k <= m => f[k] \in V
      BY <2>2
    <3> QED BY <2>3, <3>1
  <2>5. \A k \in 0 .. m : g[k] = f[k]
    BY <2>2
  <2>6. g[m + 1] = next
    BY <2>2
  <2> HIDE DEF g
  <2>7. \A k \in 1 .. m + 1 : g[k] = step[<<g[k - 1], k>>]
    <3> TAKE k \in 1 .. m + 1
    <3>1. CASE k = m + 1
      <4>1. k - 1 = m /\ g[k - 1] = f[m]
        BY <3>1, <2>2, <2>5
      <4> QED BY <3>1, <4>1, <2>6 DEF next
    <3>2. CASE k # m + 1
      <4>1. k \in 1 .. m /\ k \in 0 .. m /\ k - 1 \in 0 .. m
        BY <3>2, <2>2
      <4> QED BY <4>1, <2>1, <2>5 DEF Given
    <3> QED BY <3>1, <3>2
  <2>8. g[0] = base
    BY <2>1, <2>2, <2>5 DEF Given
  <2>9. Given(g, m + 1, V, base, step)
    BY <2>4, <2>7, <2>8 DEF Given
  <2> QED BY <2>2, <2>9
<1> HIDE DEF S
<1>3. n \in S
  BY <1>1, <1>2, UpTo
<1> QED BY <1>3 DEF S

(***************************************************************************)
(* The lines of an answer                                                  *)
(***************************************************************************)

\* The map after line n, from the map before it.
After(fields, line) == IF HasColon(line) THEN With(fields, Key(line), Value(line)) ELSE fields

\* Of the first n lines the last one of every key is in the map, and nothing else.
LastLines(fields, lines, n) ==
  /\ \A k \in 1..n : HasColon(lines[k]) => Key(lines[k]) \in DOMAIN fields
  /\ \A key \in DOMAIN fields :
       \E k \in 1..n :
         /\ HasColon(lines[k]) /\ Key(lines[k]) = key /\ Value(lines[k]) = fields[key]
         /\ \A m \in (k + 1)..n : HasColon(lines[m]) => Key(lines[m]) # key

\* One line more.
LEMMA LineAdded ==
  ASSUME NEW lines, NEW n \in Nat, NEW fields, LastLines(fields, lines, n)
  PROVE  LastLines(After(fields, lines[n + 1]), lines, n + 1)
<1> DEFINE line == lines[n + 1]
           new == After(fields, line)
<1>1. \A k : k \in 1..(n + 1) <=> k \in 1..n \/ k = n + 1
  OBVIOUS
<1>2. \A k \in 1..n : \A m : m \in (k + 1)..(n + 1) <=> m \in (k + 1)..n \/ m = n + 1
  OBVIOUS
<1>3. (n + 1 + 1)..(n + 1) = {}
  OBVIOUS
<1>4. CASE HasColon(line)
  <2>1. /\ DOMAIN new = DOMAIN fields \union {Key(line)} /\ new[Key(line)] = Value(line)
        /\ \A key \in DOMAIN fields : key # Key(line) => new[key] = fields[key]
    BY <1>4 DEF After, With
  <2> HIDE DEF new
  <2>2. ASSUME NEW k \in 1..(n + 1), HasColon(lines[k])
        PROVE  Key(lines[k]) \in DOMAIN new
    BY <1>1, <2>1, <2>2 DEF LastLines
  <2>3. ASSUME NEW key \in DOMAIN new
        PROVE  \E k \in 1..(n + 1) :
                 /\ HasColon(lines[k]) /\ Key(lines[k]) = key /\ Value(lines[k]) = new[key]
                 /\ \A m \in (k + 1)..(n + 1) : HasColon(lines[m]) => Key(lines[m]) # key
    <3>1. CASE key = Key(line)
      <4>1. n + 1 \in 1..(n + 1)
        OBVIOUS
      <4> QED BY <1>3, <1>4, <2>1, <3>1, <4>1
    <3>2. CASE key # Key(line)
      <4>1. key \in DOMAIN fields /\ new[key] = fields[key]
        BY <2>1, <3>2
      <4>2. PICK k \in 1..n :
              /\ HasColon(lines[k]) /\ Key(lines[k]) = key /\ Value(lines[k]) = fields[key]
              /\ \A m \in (k + 1)..n : HasColon(lines[m]) => Key(lines[m]) # key
        BY <4>1 DEF LastLines
      <4>3. k \in 1..(n + 1)
        BY <1>1
      <4>4. \A m \in (k + 1)..(n + 1) : HasColon(lines[m]) => Key(lines[m]) # key
        BY <1>2, <3>2, <4>2
      <4> QED BY <4>1, <4>2, <4>3, <4>4
    <3> QED BY <3>1, <3>2
  <2>4. LastLines(new, lines, n + 1)
    BY <2>2, <2>3 DEF LastLines
  <2> QED BY <2>4 DEF new
<1>5. CASE ~HasColon(line)
  <2>1. new = fields
    BY <1>5 DEF After
  <2>2. ASSUME NEW k \in 1..(n + 1), HasColon(lines[k])
        PROVE  Key(lines[k]) \in DOMAIN fields
    BY <1>1, <1>5, <2>2 DEF LastLines
  <2>3. ASSUME NEW key \in DOMAIN fields
        PROVE  \E k \in 1..(n + 1) :
                 /\ HasColon(lines[k]) /\ Key(lines[k]) = key /\ Value(lines[k]) = fields[key]
                 /\ \A m \in (k + 1)..(n + 1) : HasColon(lines[m]) => Key(lines[m]) # key
    <3>1. PICK k \in 1..n :
            /\ HasColon(lines[k]) /\ Key(lines[k]) = key /\ Value(lines[k]) = fields[key]
            /\ \A m \in (k + 1)..n : HasColon(lines[m]) => Key(lines[m]) # key
      BY DEF LastLines
    <3>2. \A m \in (k + 1)..(n + 1) : HasColon(lines[m]) => Key(lines[m]) # key
      BY <1>2, <1>5, <3>1
    <3>3. k \in 1..(n + 1)
      BY <1>1
    <3> QED BY <3>1, <3>2, <3>3
  <2>4. LastLines(fields, lines, n + 1)
    BY <2>2, <2>3 DEF LastLines
  <2> QED BY <2>1, <2>4
<1> QED BY <1>4, <1>5

\* The map of an answer is the map after its last line.
LEMMA FieldsOf ==
  ASSUME NEW lines, Len(lines) \in Nat
  PROVE  LastLines(parse_key_value_lines(lines), lines, Len(lines))
<1> DEFINE n == Len(lines)
           F(f) == [k \in 0 .. n |-> IF k = 0 THEN <<>>
                      ELSE IF HasColon(lines[k])
                      THEN With(f[k - 1], Key(lines[k]), Value(lines[k])) ELSE f[k - 1]]
           Keys == {Key(lines[k]) : k \in 1 .. n}
           Values == {Value(lines[k]) : k \in 1 .. n}
           Maps == UNION {[D -> Values] : D \in SUBSET Keys}
<1>0. n \in Nat
  OBVIOUS
<1> HIDE DEF n
<1>1. \A m \in Maps, k \in 1 .. n : After(m, lines[k]) \in Maps
  <2> SUFFICES ASSUME NEW m \in Maps, NEW k \in 1 .. n PROVE After(m, lines[k]) \in Maps
    OBVIOUS
  <2>1. PICK D \in SUBSET Keys : m \in [D -> Values]
    OBVIOUS
  <2>2. CASE HasColon(lines[k])
    <3> DEFINE E == D \union {Key(lines[k])}
               g == With(m, Key(lines[k]), Value(lines[k]))
    <3>1. Key(lines[k]) \in Keys /\ Value(lines[k]) \in Values
      OBVIOUS
    <3>2. E \in SUBSET Keys
      BY <3>1
    <3>3. g = [x \in E |-> IF x = Key(lines[k]) THEN Value(lines[k]) ELSE m[x]]
      BY <2>1 DEF With
    <3>4. \A x \in E : (IF x = Key(lines[k]) THEN Value(lines[k]) ELSE m[x]) \in Values
      BY <2>1, <3>1
    <3> HIDE DEF g, E, Keys, Values
    <3>5. g \in [E -> Values]
      BY <3>3, <3>4
    <3> QED BY <2>2, <3>2, <3>5 DEF After, g
  <2>3. CASE ~HasColon(lines[k])
    BY <2>3 DEF After
  <2> QED BY <2>2, <2>3
<1>2. <<>> \in Maps
  <2>1. <<>> \in [{} -> Values]
    OBVIOUS
  <2>2. {} \in SUBSET Keys
    OBVIOUS
  <2> HIDE DEF Keys, Values
  <2> QED BY <2>1, <2>2
<1> HIDE DEF Maps
<1>3. PICK step \in [Maps \X (1 .. n) -> Maps] :
             \A m \in Maps : \A k \in 1 .. n : step[<<m, k>>] = After(m, lines[k])
  <2> DEFINE st == [p \in Maps \X (1 .. n) |-> After(p[1], lines[p[2]])]
  <2>1. st \in [Maps \X (1 .. n) -> Maps]
    BY <1>0, <1>1
  <2>2. \A m \in Maps : \A k \in 1 .. n : st[<<m, k>>] = After(m, lines[k])
    OBVIOUS
  <2> HIDE DEF st
  <2> QED BY <2>1, <2>2
<1>4. PICK f \in [0 .. n -> Maps] : f[0] = <<>> /\ \A k \in 1 .. n : f[k] = step[<<f[k - 1], k>>]
  <2>1. PICK f : Given(f, n, Maps, <<>>, step)
    BY <1>0, <1>2, Recursion
  <2> QED BY <2>1 DEF Given
<1>5. f = F(f)
  <2>1. \A k \in 0 .. n : f[k] = F(f)[k]
    <3> TAKE k \in 0 .. n
    <3>1. CASE k = 0
      BY <3>1, <1>4
    <3>2. CASE k # 0
      <4>1. k \in 1 .. n /\ k - 1 \in 0 .. n /\ f[k - 1] \in Maps
        BY <3>2, <1>0, <1>4
      <4>2. f[k] = After(f[k - 1], lines[k])
        BY <4>1, <1>3, <1>4
      <4>3. F(f)[k] = After(f[k - 1], lines[k])
        BY <3>2 DEF After
      <4> QED BY <4>2, <4>3
    <3> QED BY <3>1, <3>2
  <2> HIDE DEF F
  <2>2. F(f) = [k \in 0 .. n |-> F(f)[k]]
    BY DEF F
  <2>3. f = [k \in 0 .. n |-> f[k]]
    BY <1>4
  <2> QED BY <2>1, <2>2, <2>3
<1> DEFINE fields == CHOOSE f_1 : f_1 = F(f_1)
<1>6. fields = F(fields)
  <2> HIDE DEF F
  <2> QED BY <1>5
<1>7. parse_key_value_lines(lines) = fields[n]
  BY DEF parse_key_value_lines, n
<1> HIDE DEF fields
<1>8. /\ fields[0] = <<>>
      /\ \A k \in 1 .. n : fields[k] = After(fields[k - 1], lines[k])
  <2>1. fields[0] = <<>>
    BY <1>0, <1>6
  <2>2. ASSUME NEW k \in 1 .. n PROVE fields[k] = After(fields[k - 1], lines[k])
    <3>1. k \in 0 .. n /\ k # 0
      BY <1>0
    <3>2. F(fields)[k] = After(fields[k - 1], lines[k])
      BY <3>1 DEF After
    <3>3. F(fields)[k] = fields[k]
      <4> HIDE DEF F
      <4> QED BY <1>6
    <3> QED BY <3>2, <3>3
  <2> QED BY <2>1, <2>2
<1> HIDE DEF F
<1> DEFINE S == {k \in 0 .. n : LastLines(fields[k], lines, k)}
<1>9. 0 \in S
  <2>1. LastLines(<<>>, lines, 0)
    BY DEF LastLines
  <2> QED BY <1>0, <1>8, <2>1
<1>10. ASSUME NEW k \in 0 .. n - 1, k \in S PROVE k + 1 \in S
  <2>1. k + 1 \in 1 .. n /\ (k + 1) - 1 = k /\ k + 1 \in 0 .. n /\ k \in Nat
    BY <1>0
  <2>2. LastLines(fields[k], lines, k) /\ fields[k + 1] = After(fields[k], lines[k + 1])
    BY <1>8, <1>10, <2>1
  <2> QED BY <2>1, <2>2, LineAdded
<1> HIDE DEF S
<1>11. \A k \in 0 .. n : k \in S
  BY <1>0, <1>9, <1>10, UpTo
<1>12. n \in S
  BY <1>0, <1>11
<1> QED BY <1>7, <1>12 DEF S, n

\* parse_key_value_lines: the map has a key with a value exactly if the last line of the key
\* says so.
LEMMA FieldsSay ==
  ASSUME NEW lines, Len(lines) \in Nat, DOMAIN lines = 1..Len(lines), NEW key, NEW value
  PROVE  LET fields == parse_key_value_lines(lines)
         IN  (key \in DOMAIN fields /\ fields[key] = value) <=> Says(lines, key, value)
<1> DEFINE fields == parse_key_value_lines(lines)
           n == Len(lines)
<1>1. LastLines(fields, lines, n) /\ n \in Nat /\ DOMAIN lines = 1..n
  BY FieldsOf
<1>2. Says(lines, key, value) <=>
        \E k \in 1..n :
          /\ HasColon(lines[k]) /\ Key(lines[k]) = key /\ Value(lines[k]) = value
          /\ \A m \in (k + 1)..n : HasColon(lines[m]) => Key(lines[m]) # key
  BY <1>1 DEF Says
<1> HIDE DEF fields, n
<1>3. ASSUME key \in DOMAIN fields, fields[key] = value PROVE Says(lines, key, value)
  BY <1>1, <1>2, <1>3 DEF LastLines
<1>4. ASSUME Says(lines, key, value) PROVE key \in DOMAIN fields /\ fields[key] = value
  <2>1. PICK k \in 1..n :
          /\ HasColon(lines[k]) /\ Key(lines[k]) = key /\ Value(lines[k]) = value
          /\ \A m \in (k + 1)..n : HasColon(lines[m]) => Key(lines[m]) # key
    BY <1>2, <1>4
  <2>2. key \in DOMAIN fields
    BY <1>1, <2>1 DEF LastLines
  <2>3. PICK l \in 1..n :
          /\ HasColon(lines[l]) /\ Key(lines[l]) = key /\ Value(lines[l]) = fields[key]
          /\ \A m \in (l + 1)..n : HasColon(lines[m]) => Key(lines[m]) # key
    BY <1>1, <2>2 DEF LastLines
  <2>4. l \notin (k + 1)..n /\ k \notin (l + 1)..n
    BY <2>1, <2>3
  <2>5. l = k
    BY <1>1, <2>4
  <2> QED BY <2>1, <2>2, <2>3, <2>5
<1> QED BY <1>3, <1>4 DEF fields

(***************************************************************************)
(* Words, texts and characters: the loops                                  *)
(***************************************************************************)

\* The words before character k and the character: a blank adds nothing.
WordAdded(words, c) == IF c \in Space THEN words ELSE Append(words, c)

\* Words goes through the text character by character.
LEMMA WordsAre ==
  ASSUME NEW S, NEW text \in Seq(S)
  PROVE  \E w \in [0 .. Len(text) -> Seq(S)] :
           /\ w[0] = <<>> /\ Words(text) = w[Len(text)]
           /\ \A k \in 1 .. Len(text) : w[k] = WordAdded(w[k - 1], text[k])
<1> DEFINE n == Len(text)
           F(f) == [k \in 0 .. n |-> IF k = 0 THEN <<>>
                      ELSE IF text[k] \in Space THEN f[k - 1] ELSE Append(f[k - 1], text[k])]
<1>1. n \in Nat /\ \A k \in 1 .. n : text[k] \in S
  OBVIOUS
<1> HIDE DEF n
<1>2. \A s \in Seq(S), k \in 1 .. n : WordAdded(s, text[k]) \in Seq(S)
  BY <1>1 DEF WordAdded
<1>3. PICK step \in [Seq(S) \X (1 .. n) -> Seq(S)] :
             \A s \in Seq(S) : \A k \in 1 .. n : step[<<s, k>>] = WordAdded(s, text[k])
  <2> DEFINE st == [p \in Seq(S) \X (1 .. n) |-> WordAdded(p[1], text[p[2]])]
  <2>1. st \in [Seq(S) \X (1 .. n) -> Seq(S)]
    BY <1>2
  <2>2. \A s \in Seq(S) : \A k \in 1 .. n : st[<<s, k>>] = WordAdded(s, text[k])
    OBVIOUS
  <2> HIDE DEF st
  <2> QED BY <2>1, <2>2
<1>4. PICK f \in [0 .. n -> Seq(S)] : f[0] = <<>> /\ \A k \in 1 .. n : f[k] = step[<<f[k - 1], k>>]
  <2>1. <<>> \in Seq(S)
    OBVIOUS
  <2>2. PICK f : Given(f, n, Seq(S), <<>>, step)
    BY <1>1, <2>1, Recursion
  <2> QED BY <2>2 DEF Given
<1>5. f = F(f)
  <2>1. \A k \in 0 .. n : f[k] = F(f)[k]
    <3> TAKE k \in 0 .. n
    <3>1. CASE k = 0
      BY <3>1, <1>4
    <3>2. CASE k # 0
      <4>1. k \in 1 .. n /\ k - 1 \in 0 .. n /\ f[k - 1] \in Seq(S)
        BY <3>2, <1>1, <1>4
      <4>2. f[k] = WordAdded(f[k - 1], text[k])
        BY <4>1, <1>3, <1>4
      <4> QED BY <3>2, <4>2 DEF WordAdded
    <3> QED BY <3>1, <3>2
  <2> HIDE DEF F
  <2>2. F(f) = [k \in 0 .. n |-> F(f)[k]]
    BY DEF F
  <2>3. f = [k \in 0 .. n |-> f[k]]
    BY <1>4
  <2> QED BY <2>1, <2>2, <2>3
<1> DEFINE words == CHOOSE f_1 : f_1 = F(f_1)
<1>6. words = F(words)
  <2> HIDE DEF F
  <2> QED BY <1>5
<1>7. Words(text) = words[n]
  BY DEF Words, n
<1> HIDE DEF words
<1>8. DOMAIN words = 0 .. n /\ words = [k \in 0 .. n |-> words[k]]
  <2>1. DOMAIN F(words) = 0 .. n /\ F(words) = [k \in 0 .. n |-> F(words)[k]]
    OBVIOUS
  <2> HIDE DEF F
  <2> QED BY <1>6, <2>1
<1>9. words[0] = <<>> /\ \A k \in 1 .. n : words[k] = WordAdded(words[k - 1], text[k])
  <2>1. words[0] = <<>>
    BY <1>1, <1>6
  <2>2. ASSUME NEW k \in 1 .. n PROVE words[k] = WordAdded(words[k - 1], text[k])
    <3>1. k \in 0 .. n /\ k # 0
      BY <1>1
    <3>2. F(words)[k] = WordAdded(words[k - 1], text[k])
      BY <3>1 DEF WordAdded
    <3> HIDE DEF F
    <3> QED BY <1>6, <3>2
  <2> QED BY <2>1, <2>2
<1> HIDE DEF F
<1> DEFINE G == {k \in 0 .. n : words[k] \in Seq(S)}
<1>10. 0 \in G
  <2>1. <<>> \in Seq(S)
    OBVIOUS
  <2>2. 0 \in 0 .. n
    BY <1>1
  <2> QED BY <1>9, <2>1, <2>2
<1>11. ASSUME NEW k \in 0 .. n - 1, k \in G PROVE k + 1 \in G
  <2>1. k + 1 \in 1 .. n /\ (k + 1) - 1 = k /\ k + 1 \in 0 .. n
    BY <1>1
  <2> QED BY <1>2, <1>9, <1>11, <2>1
<1> HIDE DEF G
<1>12. \A k \in 0 .. n : k \in G
  BY <1>1, <1>10, <1>11, UpTo
<1>13. words \in [0 .. n -> Seq(S)]
  BY <1>8, <1>12 DEF G
<1> QED BY <1>7, <1>9, <1>13 DEF n

\* Blanks at either end do not matter.
LEMMA WordsOfPart ==
  ASSUME NEW S, NEW x \in Seq(S), NEW d \in 0 .. Len(x), NEW m \in d .. Len(x),
         \A k \in 1 .. d : x[k] \in Space, \A k \in m + 1 .. Len(x) : x[k] \in Space
  PROVE  SubSeq(x, d + 1, m) \in Seq(S) /\ Words(SubSeq(x, d + 1, m)) = Words(x)
<1> DEFINE y == SubSeq(x, d + 1, m)
           n == Len(x)
<1>1. n \in Nat /\ d \in Nat /\ m \in Nat /\ d <= m /\ m <= n
  OBVIOUS
<1>2. y \in Seq(S) /\ Len(y) = m - d /\ \A k \in 1 .. m - d : y[k] = x[d + k]
  <2>1. \A i \in d + 1 .. m : x[i] \in S
    BY <1>1
  <2>2. /\ y \in Seq(S) /\ Len(y) = IF d + 1 <= m THEN m - (d + 1) + 1 ELSE 0
        /\ \A i \in 1 .. m - (d + 1) + 1 : y[i] = x[(d + 1) + i - 1]
    BY <1>1, <2>1, SubSeqProperties
  <2>3. Len(y) = m - d
    BY <1>1, <2>2
  <2>4. \A k \in 1 .. m - d : y[k] = x[d + k]
    BY <1>1, <2>2
  <2> QED BY <2>2, <2>3, <2>4
<1> HIDE DEF y
<1>3. PICK w \in [0 .. n -> Seq(S)] :
        /\ w[0] = <<>> /\ Words(x) = w[n]
        /\ \A k \in 1 .. n : w[k] = WordAdded(w[k - 1], x[k])
  BY WordsAre
<1>4. PICK v \in [0 .. m - d -> Seq(S)] :
        /\ v[0] = <<>> /\ Words(y) = v[m - d]
        /\ \A k \in 1 .. m - d : v[k] = WordAdded(v[k - 1], y[k])
  <2>1. y \in Seq(S) /\ Len(y) = m - d
    BY <1>2
  <2>2. PICK v \in [0 .. Len(y) -> Seq(S)] :
          /\ v[0] = <<>> /\ Words(y) = v[Len(y)]
          /\ \A k \in 1 .. Len(y) : v[k] = WordAdded(v[k - 1], y[k])
    BY <2>1, WordsAre
  <2> QED BY <2>1, <2>2
<1> HIDE DEF n
<1>5. w[d] = <<>>
  <2> DEFINE A == {k \in 0 .. d : w[k] = <<>>}
  <2>1. 0 \in A
    BY <1>1, <1>3
  <2>2. ASSUME NEW k \in 0 .. d - 1, k \in A PROVE k + 1 \in A
    <3>1. k + 1 \in 1 .. n /\ (k + 1) - 1 = k /\ k + 1 \in 1 .. d /\ k + 1 \in 0 .. d
      BY <1>1
    <3> QED BY <1>3, <2>2, <3>1 DEF WordAdded
  <2> HIDE DEF A
  <2>3. \A k \in 0 .. d : k \in A
    BY <1>1, <2>1, <2>2, UpTo
  <2> QED BY <1>1, <2>3 DEF A
<1>6. w[m] = v[m - d]
  <2> DEFINE A == {k \in 0 .. m - d : w[d + k] = v[k]}
  <2>1. 0 \in A
    BY <1>1, <1>4, <1>5
  <2>2. ASSUME NEW k \in 0 .. (m - d) - 1, k \in A PROVE k + 1 \in A
    <3>1. /\ d + (k + 1) \in 1 .. n /\ (d + (k + 1)) - 1 = d + k /\ (k + 1) - 1 = k
          /\ k + 1 \in 1 .. m - d /\ k + 1 \in 0 .. m - d
      BY <1>1
    <3>2. w[d + (k + 1)] = WordAdded(w[d + k], x[d + (k + 1)])
      BY <1>3, <3>1
    <3>3. v[k + 1] = WordAdded(v[k], x[d + (k + 1)])
      BY <1>2, <1>4, <3>1
    <3> QED BY <2>2, <3>1, <3>2, <3>3
  <2> HIDE DEF A
  <2>3. m - d \in Nat
    BY <1>1
  <2>4. \A k \in 0 .. m - d : k \in A
    BY <2>1, <2>2, <2>3, UpTo
  <2>5. m - d \in A /\ d + (m - d) = m
    BY <1>1, <2>3, <2>4
  <2> QED BY <2>5 DEF A
<1>7. w[n] = w[m]
  <2> DEFINE A == {k \in 0 .. n - m : w[m + k] = w[m]}
  <2>1. 0 \in A
    BY <1>1
  <2>2. ASSUME NEW k \in 0 .. (n - m) - 1, k \in A PROVE k + 1 \in A
    <3>1. /\ m + (k + 1) \in 1 .. n /\ (m + (k + 1)) - 1 = m + k
          /\ m + (k + 1) \in m + 1 .. n /\ k + 1 \in 0 .. n - m
      BY <1>1
    <3>2. w[m + (k + 1)] = WordAdded(w[m + k], x[m + (k + 1)]) /\ x[m + (k + 1)] \in Space
      BY <1>3, <3>1 DEF n
    <3> QED BY <2>2, <3>1, <3>2 DEF WordAdded
  <2> HIDE DEF A
  <2>3. n - m \in Nat
    BY <1>1
  <2>4. \A k \in 0 .. n - m : k \in A
    BY <2>1, <2>2, <2>3, UpTo
  <2>5. n - m \in A /\ m + (n - m) = n
    BY <1>1, <2>3, <2>4
  <2> QED BY <2>5 DEF A
<1> QED BY <1>2, <1>3, <1>4, <1>6, <1>7 DEF y

\* Trim takes blanks away, and nothing else: what is left begins and ends with something else.
LEMMA TrimIs ==
  ASSUME NEW S, NEW x \in Seq(S), NEW k \in 1 .. Len(x), x[k] \notin Space
  PROVE  \E lo, hi \in 1 .. Len(x) :
           /\ Trim(x, Space) = SubSeq(x, lo, hi) /\ lo <= k /\ k <= hi
           /\ x[lo] \notin Space /\ x[hi] \notin Space
           /\ \A i \in 1 .. lo - 1 : x[i] \in Space
           /\ \A i \in hi + 1 .. Len(x) : x[i] \in Space
<1> DEFINE n == Len(x)
           kept == {i \in DOMAIN x : x[i] \notin Space}
<1>1. n \in Nat /\ DOMAIN x = 1 .. n
  OBVIOUS
<1>2. k \in kept /\ kept \subseteq 1 .. n /\ kept \subseteq Nat
  BY <1>1
<1>3. Trim(x, Space) = SubSeq(x, Min(kept), Max(kept))
  BY <1>2 DEF Trim
<1>4. \A i \in 1 .. n : i \notin kept => x[i] \in Space
  BY <1>1
<1>5. \A i \in kept : x[i] \notin Space
  OBVIOUS
<1> HIDE DEF kept, n
<1>6. Min(kept) \in kept /\ \A i \in kept : Min(kept) <= i
  BY <1>2, LeastNumber
<1>7. Max(kept) \in kept /\ \A i \in kept : i <= Max(kept)
  BY <1>1, <1>2, GreatestNumber
<1> DEFINE lo == Min(kept)
           hi == Max(kept)
<1> HIDE DEF lo, hi
<1>8. lo \in 1 .. n /\ hi \in 1 .. n /\ lo <= k /\ k <= hi
  BY <1>2, <1>6, <1>7 DEF lo, hi
<1>9. \A i \in 1 .. lo - 1 : x[i] \in Space
  BY <1>2, <1>4, <1>6, <1>8, <1>1 DEF lo
<1>10. \A i \in hi + 1 .. n : x[i] \in Space
  BY <1>2, <1>4, <1>7, <1>8, <1>1 DEF hi
<1> QED BY <1>3, <1>5, <1>6, <1>7, <1>8, <1>9, <1>10 DEF lo, hi, n

(***************************************************************************)
(* The loops over lines, characters and words                              *)
(***************************************************************************)

\* The texts after one line more.
TextAdded(texts, line) ==
  IF IsCapability(line) THEN Append(texts, CapabilityText(line)) ELSE texts

\* CapabilityTexts goes through the lines one by one.
LEMMA TextsAre ==
  ASSUME NEW lines, Len(lines) \in Nat
  PROVE  \E r \in [0 .. Len(lines) -> Seq({CapabilityText(lines[k]) : k \in 1 .. Len(lines)})] :
           /\ r[0] = <<>> /\ CapabilityTexts(lines) = r[Len(lines)]
           /\ \A k \in 1 .. Len(lines) : r[k] = TextAdded(r[k - 1], lines[k])
<1> DEFINE n == Len(lines)
           V == Seq({CapabilityText(lines[k]) : k \in 1 .. Len(lines)})
           F(f) == [k \in 0 .. n |-> IF k = 0 THEN <<>>
                      ELSE IF IsCapability(lines[k])
                      THEN Append(f[k - 1], CapabilityText(lines[k])) ELSE f[k - 1]]
<1>1. n \in Nat /\ <<>> \in V
  OBVIOUS
<1>2. \A s \in V, k \in 1 .. n : TextAdded(s, lines[k]) \in V
  BY DEF TextAdded
<1> HIDE DEF n, V
<1>3. PICK step \in [V \X (1 .. n) -> V] :
             \A s \in V : \A k \in 1 .. n : step[<<s, k>>] = TextAdded(s, lines[k])
  <2> DEFINE st == [p \in V \X (1 .. n) |-> TextAdded(p[1], lines[p[2]])]
  <2>1. st \in [V \X (1 .. n) -> V]
    BY <1>2
  <2>2. \A s \in V : \A k \in 1 .. n : st[<<s, k>>] = TextAdded(s, lines[k])
    OBVIOUS
  <2> HIDE DEF st
  <2> QED BY <2>1, <2>2
<1>4. PICK f \in [0 .. n -> V] : f[0] = <<>> /\ \A k \in 1 .. n : f[k] = step[<<f[k - 1], k>>]
  <2>1. PICK f : Given(f, n, V, <<>>, step)
    BY <1>1, Recursion
  <2> QED BY <2>1 DEF Given
<1>5. f = F(f)
  <2>1. \A k \in 0 .. n : f[k] = F(f)[k]
    <3> TAKE k \in 0 .. n
    <3>1. CASE k = 0
      BY <3>1, <1>4
    <3>2. CASE k # 0
      <4>1. k \in 1 .. n /\ k - 1 \in 0 .. n /\ f[k - 1] \in V
        BY <3>2, <1>1, <1>4
      <4>2. f[k] = TextAdded(f[k - 1], lines[k])
        BY <4>1, <1>3, <1>4
      <4> QED BY <3>2, <4>2 DEF TextAdded
    <3> QED BY <3>1, <3>2
  <2> HIDE DEF F
  <2>2. F(f) = [k \in 0 .. n |-> F(f)[k]]
    BY DEF F
  <2>3. f = [k \in 0 .. n |-> f[k]]
    BY <1>4
  <2> QED BY <2>1, <2>2, <2>3
<1> DEFINE r == CHOOSE f_1 : f_1 = F(f_1)
<1>6. r = F(r)
  <2> HIDE DEF F
  <2> QED BY <1>5
<1>7. CapabilityTexts(lines) = r[n]
  BY DEF CapabilityTexts, n
<1> HIDE DEF r
<1>8. DOMAIN r = 0 .. n /\ r = [k \in 0 .. n |-> r[k]]
  <2>1. DOMAIN F(r) = 0 .. n /\ F(r) = [k \in 0 .. n |-> F(r)[k]]
    OBVIOUS
  <2> HIDE DEF F
  <2> QED BY <1>6, <2>1
<1>9. r[0] = <<>> /\ \A k \in 1 .. n : r[k] = TextAdded(r[k - 1], lines[k])
  <2>1. r[0] = <<>>
    BY <1>1, <1>6
  <2>2. ASSUME NEW k \in 1 .. n PROVE r[k] = TextAdded(r[k - 1], lines[k])
    <3>1. k \in 0 .. n /\ k # 0
      BY <1>1
    <3>2. F(r)[k] = TextAdded(r[k - 1], lines[k])
      BY <3>1 DEF TextAdded
    <3> HIDE DEF F
    <3> QED BY <1>6, <3>2
  <2> QED BY <2>1, <2>2
<1> HIDE DEF F
<1> DEFINE G == {k \in 0 .. n : r[k] \in V}
<1>10. 0 \in G
  <2>1. 0 \in 0 .. n
    BY <1>1
  <2> QED BY <1>1, <1>9, <2>1
<1>11. ASSUME NEW k \in 0 .. n - 1, k \in G PROVE k + 1 \in G
  <2>1. k + 1 \in 1 .. n /\ (k + 1) - 1 = k /\ k + 1 \in 0 .. n
    BY <1>1
  <2> QED BY <1>2, <1>9, <1>11, <2>1
<1> HIDE DEF G
<1>12. \A k \in 0 .. n : k \in G
  BY <1>1, <1>10, <1>11, UpTo
<1>13. r \in [0 .. n -> V]
  BY <1>8, <1>12 DEF G
<1> QED BY <1>7, <1>9, <1>13 DEF n, V

\* What Scan makes of the beginning of a text.
Scans(text) ==
  LET Lows == {Lower(text[k]) : k \in 1 .. Len(text)}
  IN  [keywords : SUBSET Seq(Lows), current : Seq(Lows)]

\* Scanned goes through the text character by character.
LEMMA ScannedIs ==
  ASSUME NEW text, Len(text) \in Nat
  PROVE  \E r \in [0 .. Len(text) -> Scans(text)] :
           /\ r[0] = [keywords |-> {}, current |-> <<>>] /\ Scanned(text) = r[Len(text)]
           /\ \A k \in 1 .. Len(text) : r[k] = Scan(r[k - 1], text[k])
<1> DEFINE n == Len(text)
           V == Scans(text)
           F(f) == [k \in 0 .. n |-> IF k = 0 THEN [keywords |-> {}, current |-> <<>>]
                      ELSE Scan(f[k - 1], text[k])]
<1>1. n \in Nat /\ [keywords |-> {}, current |-> <<>>] \in V
  BY DEF Scans
<1>2. \A s \in V, k \in 1 .. n : Scan(s, text[k]) \in V
  <2> SUFFICES ASSUME NEW s \in V, NEW k \in 1 .. n PROVE Scan(s, text[k]) \in V
    OBVIOUS
  <2> DEFINE Lows == {Lower(text[j]) : j \in 1 .. Len(text)}
  <2>1. Lower(text[k]) \in Lows
    OBVIOUS
  <2>2. V = [keywords : SUBSET Seq(Lows), current : Seq(Lows)]
    BY DEF Scans
  <2> HIDE DEF Lows, V
  <2>3. Append(s.current, Lower(text[k])) \in Seq(Lows)
    BY <2>1, <2>2
  <2>4. CASE text[k] \in Letters
    BY <2>2, <2>3, <2>4 DEF Scan
  <2>5. CASE text[k] \notin Letters
    <3>1. <<>> \in Seq(Lows)
      OBVIOUS
    <3> QED BY <2>2, <2>5, <3>1 DEF Scan
  <2> QED BY <2>4, <2>5
<1> HIDE DEF n, V
<1>3. PICK step \in [V \X (1 .. n) -> V] :
             \A s \in V : \A k \in 1 .. n : step[<<s, k>>] = Scan(s, text[k])
  <2> DEFINE st == [p \in V \X (1 .. n) |-> Scan(p[1], text[p[2]])]
  <2>1. st \in [V \X (1 .. n) -> V]
    BY <1>2
  <2>2. \A s \in V : \A k \in 1 .. n : st[<<s, k>>] = Scan(s, text[k])
    OBVIOUS
  <2> HIDE DEF st
  <2> QED BY <2>1, <2>2
<1>4. PICK f \in [0 .. n -> V] : f[0] = [keywords |-> {}, current |-> <<>>] /\ \A k \in 1 .. n : f[k] = step[<<f[k - 1], k>>]
  <2>1. PICK f : Given(f, n, V, [keywords |-> {}, current |-> <<>>], step)
    BY <1>1, Recursion
  <2> QED BY <2>1 DEF Given
<1>5. f = F(f)
  <2>1. \A k \in 0 .. n : f[k] = F(f)[k]
    <3> TAKE k \in 0 .. n
    <3>1. CASE k = 0
      BY <3>1, <1>4
    <3>2. CASE k # 0
      <4>1. k \in 1 .. n /\ k - 1 \in 0 .. n /\ f[k - 1] \in V
        BY <3>2, <1>1, <1>4
      <4>2. f[k] = Scan(f[k - 1], text[k])
        BY <4>1, <1>3, <1>4
      <4> QED BY <3>2, <4>2
    <3> QED BY <3>1, <3>2
  <2> HIDE DEF F
  <2>2. F(f) = [k \in 0 .. n |-> F(f)[k]]
    BY DEF F
  <2>3. f = [k \in 0 .. n |-> f[k]]
    BY <1>4
  <2> QED BY <2>1, <2>2, <2>3
<1> DEFINE r == CHOOSE f_1 : f_1 = F(f_1)
<1>6. r = F(r)
  <2> HIDE DEF F
  <2> QED BY <1>5
<1>7. Scanned(text) = r[n]
  BY DEF Scanned, n
<1> HIDE DEF r
<1>8. DOMAIN r = 0 .. n /\ r = [k \in 0 .. n |-> r[k]]
  <2>1. DOMAIN F(r) = 0 .. n /\ F(r) = [k \in 0 .. n |-> F(r)[k]]
    OBVIOUS
  <2> HIDE DEF F
  <2> QED BY <1>6, <2>1
<1>9. r[0] = [keywords |-> {}, current |-> <<>>] /\ \A k \in 1 .. n : r[k] = Scan(r[k - 1], text[k])
  <2>1. r[0] = [keywords |-> {}, current |-> <<>>]
    BY <1>1, <1>6
  <2>2. ASSUME NEW k \in 1 .. n PROVE r[k] = Scan(r[k - 1], text[k])
    <3>1. k \in 0 .. n /\ k # 0
      BY <1>1
    <3>2. F(r)[k] = Scan(r[k - 1], text[k])
      BY <3>1
    <3> HIDE DEF F
    <3> QED BY <1>6, <3>2
  <2> QED BY <2>1, <2>2
<1> HIDE DEF F
<1> DEFINE G == {k \in 0 .. n : r[k] \in V}
<1>10. 0 \in G
  <2>1. 0 \in 0 .. n
    BY <1>1
  <2> QED BY <1>1, <1>9, <2>1
<1>11. ASSUME NEW k \in 0 .. n - 1, k \in G PROVE k + 1 \in G
  <2>1. k + 1 \in 1 .. n /\ (k + 1) - 1 = k /\ k + 1 \in 0 .. n
    BY <1>1
  <2> QED BY <1>2, <1>9, <1>11, <2>1
<1> HIDE DEF G
<1>12. \A k \in 0 .. n : k \in G
  BY <1>1, <1>10, <1>11, UpTo
<1>13. r \in [0 .. n -> V]
  BY <1>8, <1>12 DEF G
<1> QED BY <1>7, <1>9, <1>13 DEF n, V

\* Characters goes through the words one by one.
LEMMA CharactersAre ==
  ASSUME NEW S, NEW words, Len(words) \in Nat, "-" \in S,
         \A k \in 1 .. Len(words) : TextOf(words[k]) \in Seq(S)
  PROVE  \E r \in [0 .. Len(words) -> Seq(S)] :
           /\ r[0] = <<>> /\ Characters(words) = r[Len(words)]
           /\ \A k \in 1 .. Len(words) : r[k] = r[k - 1] \o TextOf(words[k]) \o <<"-">>
<1> DEFINE n == Len(words)
           V == Seq(S)
           F(f) == [k \in 0 .. n |-> IF k = 0 THEN <<>>
                      ELSE f[k - 1] \o TextOf(words[k]) \o <<"-">>]
<1>1. n \in Nat /\ <<>> \in V
  OBVIOUS
<1>2. \A s \in V, k \in 1 .. n : s \o TextOf(words[k]) \o <<"-">> \in V
  OBVIOUS
<1> HIDE DEF n, V
<1>3. PICK step \in [V \X (1 .. n) -> V] :
             \A s \in V : \A k \in 1 .. n : step[<<s, k>>] = s \o TextOf(words[k]) \o <<"-">>
  <2> DEFINE st == [p \in V \X (1 .. n) |-> p[1] \o TextOf(words[p[2]]) \o <<"-">>]
  <2>1. st \in [V \X (1 .. n) -> V]
    BY <1>2
  <2>2. \A s \in V : \A k \in 1 .. n : st[<<s, k>>] = s \o TextOf(words[k]) \o <<"-">>
    OBVIOUS
  <2> HIDE DEF st
  <2> QED BY <2>1, <2>2
<1>4. PICK f \in [0 .. n -> V] : f[0] = <<>> /\ \A k \in 1 .. n : f[k] = step[<<f[k - 1], k>>]
  <2>1. PICK f : Given(f, n, V, <<>>, step)
    BY <1>1, Recursion
  <2> QED BY <2>1 DEF Given
<1>5. f = F(f)
  <2>1. \A k \in 0 .. n : f[k] = F(f)[k]
    <3> TAKE k \in 0 .. n
    <3>1. CASE k = 0
      BY <3>1, <1>4
    <3>2. CASE k # 0
      <4>1. k \in 1 .. n /\ k - 1 \in 0 .. n /\ f[k - 1] \in V
        BY <3>2, <1>1, <1>4
      <4>2. f[k] = f[k - 1] \o TextOf(words[k]) \o <<"-">>
        BY <4>1, <1>3, <1>4
      <4> QED BY <3>2, <4>2
    <3> QED BY <3>1, <3>2
  <2> HIDE DEF F
  <2>2. F(f) = [k \in 0 .. n |-> F(f)[k]]
    BY DEF F
  <2>3. f = [k \in 0 .. n |-> f[k]]
    BY <1>4
  <2> QED BY <2>1, <2>2, <2>3
<1> DEFINE r == CHOOSE f_1 : f_1 = F(f_1)
<1>6. r = F(r)
  <2> HIDE DEF F
  <2> QED BY <1>5
<1>7. Characters(words) = r[n]
  BY DEF Characters, n
<1> HIDE DEF r
<1>8. DOMAIN r = 0 .. n /\ r = [k \in 0 .. n |-> r[k]]
  <2>1. DOMAIN F(r) = 0 .. n /\ F(r) = [k \in 0 .. n |-> F(r)[k]]
    OBVIOUS
  <2> HIDE DEF F
  <2> QED BY <1>6, <2>1
<1>9. r[0] = <<>> /\ \A k \in 1 .. n : r[k] = r[k - 1] \o TextOf(words[k]) \o <<"-">>
  <2>1. r[0] = <<>>
    BY <1>1, <1>6
  <2>2. ASSUME NEW k \in 1 .. n PROVE r[k] = r[k - 1] \o TextOf(words[k]) \o <<"-">>
    <3>1. k \in 0 .. n /\ k # 0
      BY <1>1
    <3>2. F(r)[k] = r[k - 1] \o TextOf(words[k]) \o <<"-">>
      BY <3>1
    <3> HIDE DEF F
    <3> QED BY <1>6, <3>2
  <2> QED BY <2>1, <2>2
<1> HIDE DEF F
<1> DEFINE G == {k \in 0 .. n : r[k] \in V}
<1>10. 0 \in G
  <2>1. 0 \in 0 .. n
    BY <1>1
  <2> QED BY <1>1, <1>9, <2>1
<1>11. ASSUME NEW k \in 0 .. n - 1, k \in G PROVE k + 1 \in G
  <2>1. k + 1 \in 1 .. n /\ (k + 1) - 1 = k /\ k + 1 \in 0 .. n
    BY <1>1
  <2> QED BY <1>2, <1>9, <1>11, <2>1
<1> HIDE DEF G
<1>12. \A k \in 0 .. n : k \in G
  BY <1>1, <1>10, <1>11, UpTo
<1>13. r \in [0 .. n -> V]
  BY <1>8, <1>12 DEF G
<1> QED BY <1>7, <1>9, <1>13 DEF n, V

(***************************************************************************)
(* What a line lists                                                       *)
(***************************************************************************)

\* The members of a list after one more.
LEMMA SetOfAppend ==
  ASSUME NEW S, NEW s \in Seq(S), NEW e \in S
  PROVE  ToSet(Append(s, e)) = ToSet(s) \union {e}
<1> DEFINE t == Append(s, e)
<1>1. /\ t \in Seq(S) /\ Len(t) = Len(s) + 1 /\ Len(s) \in Nat
      /\ \A i \in 1 .. Len(s) : t[i] = s[i]
      /\ t[Len(s) + 1] = e
      /\ DOMAIN s = 1 .. Len(s) /\ DOMAIN t = 1 .. Len(s) + 1
  BY AppendProperties
<1> HIDE DEF t
<1>2. ASSUME NEW i \in DOMAIN t PROVE t[i] \in ToSet(s) \union {e}
  <2>1. i \in 1 .. Len(s) \/ i = Len(s) + 1
    BY <1>1
  <2> QED BY <1>1, <2>1 DEF ToSet
<1>3. ASSUME NEW i \in DOMAIN s PROVE s[i] \in ToSet(t)
  <2>1. i \in DOMAIN t /\ t[i] = s[i]
    BY <1>1
  <2> QED BY <2>1 DEF ToSet
<1>4. e \in ToSet(t)
  <2>1. Len(s) + 1 \in DOMAIN t
    BY <1>1
  <2> QED BY <1>1, <2>1 DEF ToSet
<1>5. ToSet(t) \subseteq ToSet(s) \union {e}
  BY <1>2 DEF ToSet
<1>6. ToSet(s) \subseteq ToSet(t)
  BY <1>3 DEF ToSet
<1> QED BY <1>4, <1>5, <1>6 DEF t

\* The texts are those of the CAPABILITY lines.
LEMMA TextsOf ==
  ASSUME NEW lines, Len(lines) \in Nat
  PROVE  /\ \E S : CapabilityTexts(lines) \in Seq(S)
         /\ ToSet(CapabilityTexts(lines)) =
              {CapabilityText(lines[k]) : k \in {j \in 1 .. Len(lines) : IsCapability(lines[j])}}
<1> DEFINE n == Len(lines)
           S == {CapabilityText(lines[k]) : k \in 1 .. n}
           Upto(m) == {CapabilityText(lines[k]) : k \in {j \in 1 .. m : IsCapability(lines[j])}}
<1>1. PICK r \in [0 .. n -> Seq(S)] :
        /\ r[0] = <<>> /\ CapabilityTexts(lines) = r[n]
        /\ \A k \in 1 .. n : r[k] = TextAdded(r[k - 1], lines[k])
  BY TextsAre
<1>2. n \in Nat /\ \A k \in 1 .. n : CapabilityText(lines[k]) \in S
  OBVIOUS
<1>3. \A m \in Nat : Upto(m + 1) =
        Upto(m) \union {CapabilityText(lines[k]) : k \in {j \in {m + 1} : IsCapability(lines[j])}}
  <2> TAKE m \in Nat
  <2>1. 1 .. m + 1 = (1 .. m) \union {m + 1}
    OBVIOUS
  <2>2. {j \in 1 .. m + 1 : IsCapability(lines[j])} =
          {j \in 1 .. m : IsCapability(lines[j])} \union {j \in {m + 1} : IsCapability(lines[j])}
    BY <2>1
  <2> QED BY <2>2
<1>4. Upto(0) = {}
  <2>1. 1 .. 0 = {}
    OBVIOUS
  <2> QED BY <2>1
<1> DEFINE G == {m \in 0 .. n : ToSet(r[m]) = Upto(m)}
<1> HIDE DEF n, S, Upto
<1>5. 0 \in G
  <2>1. ToSet(<<>>) = {}
    BY DEF ToSet
  <2>2. 0 \in 0 .. n
    BY <1>2
  <2> QED BY <1>1, <1>4, <2>1, <2>2
<1>6. ASSUME NEW m \in 0 .. n - 1, m \in G PROVE m + 1 \in G
  <2>1. /\ m \in Nat /\ m + 1 \in 1 .. n /\ (m + 1) - 1 = m /\ m + 1 \in 0 .. n /\ m \in 0 .. n
    BY <1>2
  <2>2. r[m + 1] = TextAdded(r[m], lines[m + 1]) /\ r[m] \in Seq(S)
    BY <1>1, <2>1
  <2>3. CASE IsCapability(lines[m + 1])
    <3>1. CapabilityText(lines[m + 1]) \in S
      BY <1>2, <2>1
    <3>2. ToSet(r[m + 1]) = ToSet(r[m]) \union {CapabilityText(lines[m + 1])}
      BY <2>2, <2>3, <3>1, SetOfAppend DEF TextAdded
    <3>3. Upto(m + 1) = Upto(m) \union {CapabilityText(lines[m + 1])}
      BY <1>3, <2>1, <2>3
    <3> QED BY <1>6, <2>1, <3>2, <3>3
  <2>4. CASE ~IsCapability(lines[m + 1])
    <3>1. r[m + 1] = r[m]
      BY <2>2, <2>4 DEF TextAdded
    <3>2. Upto(m + 1) = Upto(m)
      BY <1>3, <2>1, <2>4
    <3> QED BY <1>6, <2>1, <3>1, <3>2
  <2> QED BY <2>3, <2>4
<1> HIDE DEF G
<1>7. \A m \in 0 .. n : m \in G
  BY <1>2, <1>5, <1>6, UpTo
<1>8. ToSet(r[n]) = Upto(n) /\ r[n] \in Seq(S)
  <2>1. n \in 0 .. n
    BY <1>2
  <2> QED BY <1>1, <1>7, <2>1 DEF G
<1> QED BY <1>1, <1>8 DEF Upto, n

\* Of a capability only the words count.
LEMMA WordsCount ==
  ASSUME NEW x, NEW y, Words(x) = Words(y)
  PROVE  parse_capability(x) = parse_capability(y)
BY Zenon DEF parse_capability

\* Trimming the spaces of a text leaves its words.
LEMMA WordsOfTrim ==
  ASSUME NEW S, NEW x \in Seq(S)
  PROVE  Trim(x, Space) \in Seq(S) /\ Words(Trim(x, Space)) = Words(x)
<1>1. Len(x) \in Nat /\ DOMAIN x = 1 .. Len(x)
  OBVIOUS
<1>2. CASE \E k \in 1 .. Len(x) : x[k] \notin Space
  <2>1. PICK k \in 1 .. Len(x) : x[k] \notin Space
    BY <1>2
  <2>2. PICK lo, hi \in 1 .. Len(x) :
          /\ Trim(x, Space) = SubSeq(x, lo, hi) /\ lo <= k /\ k <= hi
          /\ \A i \in 1 .. lo - 1 : x[i] \in Space
          /\ \A i \in hi + 1 .. Len(x) : x[i] \in Space
    BY <2>1, TrimIs
  <2> DEFINE d == lo - 1
  <2>3. d \in 0 .. Len(x) /\ hi \in d .. Len(x) /\ d + 1 = lo
    BY <1>1, <2>2
  <2>4. \A i \in 1 .. d : x[i] \in Space
    BY <2>2
  <2> HIDE DEF d
  <2>5. SubSeq(x, d + 1, hi) \in Seq(S) /\ Words(SubSeq(x, d + 1, hi)) = Words(x)
    BY <2>2, <2>3, <2>4, WordsOfPart
  <2> QED BY <2>2, <2>3, <2>5
<1>3. CASE \A k \in 1 .. Len(x) : x[k] \in Space
  <2>1. {k \in DOMAIN x : x[k] \notin Space} = {}
    BY <1>1, <1>3
  <2>2. Trim(x, Space) = <<>>
    BY <2>1 DEF Trim
  <2> DEFINE n == Len(x)
  <2>3. n \in 0 .. Len(x) /\ n \in n .. Len(x) /\ \A k \in n + 1 .. Len(x) : x[k] \in Space
    BY <1>1
  <2>4. SubSeq(x, n + 1, n) \in Seq(S) /\ Words(SubSeq(x, n + 1, n)) = Words(x)
    <3>1. \A k \in 1 .. n : x[k] \in Space
      BY <1>3
    <3> HIDE DEF n
    <3> QED BY <2>3, <3>1, WordsOfPart
  <2>5. SubSeq(x, n + 1, n) = <<>>
    BY <1>1, SubSeqEmpty
  <2> QED BY <2>2, <2>4, <2>5
<1> QED BY <1>2, <1>3

\* How a line begins that lists something.
Begins(line, n) ==
  /\ n \in DOMAIN line /\ n + 1 \in DOMAIN line
  /\ \A k \in 1 .. n - 1 : line[k] \in Space
  /\ line[n] = "CAPABILITY" /\ line[n + 1] = ":"

LEMMA PrefixIs ==
  ASSUME NEW S, NEW t \in Seq(S)
  PROVE  IsPrefix(<<"CAPABILITY", ":">>, t) <=>
           Len(t) >= 2 /\ t[1] = "CAPABILITY" /\ t[2] = ":"
<1> DEFINE p == <<"CAPABILITY", ":">>
<1>1. Len(p) = 2 /\ p[1] = "CAPABILITY" /\ p[2] = ":" /\ p \in Seq({"CAPABILITY", ":"})
  OBVIOUS
<1>2. SubSeq(p, 1, 2) = p
  BY <1>1, SubSeqFull
<1>3. IsPrefix(p, t) <=> 2 <= Len(t) /\ p = SubSeq(t, 1, 2)
  BY <1>1, <1>2 DEF IsPrefix
<1>4. Len(t) \in Nat
  OBVIOUS
<1>5. ASSUME Len(t) >= 2
      PROVE  p = SubSeq(t, 1, 2) <=> t[1] = "CAPABILITY" /\ t[2] = ":"
  <2> DEFINE q == SubSeq(t, 1, 2)
  <2>1. q = <<t[1], t[2]>>
    <3>1. \A i \in 1 .. 2 : t[i] \in S
      BY <1>4, <1>5, ElementOfSeq
    <3>2. q \in Seq(S) /\ Len(q) = 2 /\ \A i \in 1 .. 2 : q[i] = t[i]
      <4>1. 2 - 1 + 1 = 2 /\ \A i \in 1 .. 2 : 1 + i - 1 = i
        OBVIOUS
      <4> QED BY <3>1, <4>1, SubSeqProperties
    <3> HIDE DEF q
    <3> QED BY <3>2
  <2> HIDE DEF q
  <2>2. p = <<t[1], t[2]>> <=> t[1] = "CAPABILITY" /\ t[2] = ":"
    OBVIOUS
  <2> QED BY <2>1, <2>2 DEF q
<1> HIDE DEF p
<1>6. 2 <= Len(t) <=> Len(t) >= 2
  BY <1>4
<1> QED BY <1>3, <1>5, <1>6 DEF p

\* What follows the colon has the same words as what the parser reads.
LEMMA TextAfter ==
  ASSUME NEW S, NEW line \in Seq(S), NEW n, Begins(line, n)
  PROVE  /\ IsCapability(line)
         /\ Words(CapabilityText(line)) = Words(SubSeq(line, n + 2, Len(line)))
<1> DEFINE len == Len(line)
<1>1. len \in Nat /\ DOMAIN line = 1 .. len /\ n \in 1 .. len /\ n + 1 \in 1 .. len
  BY DEF Begins
<1>2. line[n] \notin Space /\ line[n + 1] \notin Space
  BY DEF Begins, Space
<1>3. PICK lo, hi \in 1 .. len :
        /\ Trim(line, Space) = SubSeq(line, lo, hi) /\ lo <= n + 1 /\ n + 1 <= hi
        /\ line[lo] \notin Space
        /\ \A i \in 1 .. lo - 1 : line[i] \in Space
        /\ \A i \in hi + 1 .. len : line[i] \in Space
  BY <1>1, <1>2, TrimIs
<1>4. lo = n
  <2>1. ~(lo < n)
    <3>1. lo < n => lo \in 1 .. n - 1
      BY <1>1
    <3> QED BY <1>3, <3>1 DEF Begins
  <2>2. ~(n < lo)
    <3>1. n < lo => n \in 1 .. lo - 1
      BY <1>1
    <3> QED BY <1>2, <1>3, <3>1
  <2> QED BY <1>1, <2>1, <2>2
<1> DEFINE t == SubSeq(line, n, hi)
           x == SubSeq(line, n + 2, len)
           y == SubSeq(line, n + 2, hi)
           m == hi - n - 1
<1>5. \A i \in 1 .. len : line[i] \in S
  OBVIOUS
<1> HIDE DEF len
<1>6. /\ t \in Seq(S) /\ Len(t) = m + 2
      /\ \A i \in 1 .. m + 2 : t[i] = line[n + i - 1]
  <2>1. /\ n \in Int /\ hi \in Int /\ n <= hi /\ hi - n + 1 = m + 2
        /\ \A i \in n .. hi : line[i] \in S
    BY <1>1, <1>3, <1>5
  <2> QED BY <2>1, SubSeqProperties
<1>7. /\ x \in Seq(S) /\ Len(x) = len - n - 1
      /\ \A i \in 1 .. len - n - 1 : x[i] = line[n + i + 1]
  <2>1. /\ n + 2 \in Int /\ len \in Int /\ len - (n + 2) + 1 = len - n - 1
        /\ \A i \in n + 2 .. len : line[i] \in S
    BY <1>1, <1>5
  <2>2. /\ x \in Seq(S) /\ Len(x) = IF n + 2 <= len THEN len - (n + 2) + 1 ELSE 0
        /\ \A i \in 1 .. len - n - 1 : x[i] = line[(n + 2) + i - 1]
    BY <2>1, SubSeqProperties
  <2>3. \A i \in 1 .. len - n - 1 : (n + 2) + i - 1 = n + i + 1
    BY <1>1
  <2> QED BY <1>1, <2>2, <2>3
<1>8. /\ y \in Seq(S) /\ Len(y) = m
      /\ \A i \in 1 .. m : y[i] = line[n + i + 1]
  <2>1. /\ n + 2 \in Int /\ hi \in Int /\ hi - (n + 2) + 1 = m
        /\ \A i \in n + 2 .. hi : line[i] \in S
    BY <1>1, <1>3, <1>5
  <2>2. /\ y \in Seq(S) /\ Len(y) = IF n + 2 <= hi THEN hi - (n + 2) + 1 ELSE 0
        /\ \A i \in 1 .. m : y[i] = line[(n + 2) + i - 1]
    BY <2>1, SubSeqProperties
  <2>3. \A i \in 1 .. m : (n + 2) + i - 1 = n + i + 1
    BY <1>1, <1>3
  <2> QED BY <1>1, <1>3, <2>2, <2>3
<1>9. m \in Nat /\ m <= len - n - 1
  BY <1>1, <1>3
<1>10. Trim(line, Space) = t
  BY <1>3, <1>4
<1> HIDE DEF t, x, y
<1>11. IsCapability(line)
  <2>1. Len(t) >= 2
    BY <1>6, <1>9
  <2>2. t[1] = line[n] /\ t[2] = line[n + 1]
    <3>1. 1 \in 1 .. m + 2 /\ 2 \in 1 .. m + 2 /\ n + 1 - 1 = n /\ n + 2 - 1 = n + 1
      BY <1>1, <1>9
    <3> QED BY <1>6, <3>1
  <2> QED BY <1>6, <1>10, <2>1, <2>2, PrefixIs DEF IsCapability, Begins
<1>12. SubSeq(t, 3, Len(t)) = y
  <2> DEFINE z == SubSeq(t, 3, Len(t))
  <2>1. \A i \in 3 .. m + 2 : t[i] \in S
    BY <1>6, <1>9
  <2>2. /\ z \in Seq(S) /\ Len(z) = IF 3 <= m + 2 THEN (m + 2) - 3 + 1 ELSE 0
        /\ \A i \in 1 .. (m + 2) - 3 + 1 : z[i] = t[3 + i - 1]
    BY <1>6, <1>9, <2>1, SubSeqProperties
  <2> HIDE DEF z
  <2>3. Len(z) = m /\ (m + 2) - 3 + 1 = m
    BY <1>9, <2>2
  <2>4. \A i \in 1 .. m : z[i] = y[i]
    <3> TAKE i \in 1 .. m
    <3>1. 3 + i - 1 \in 1 .. m + 2 /\ n + (3 + i - 1) - 1 = n + i + 1
      BY <1>1, <1>9
    <3> QED BY <1>6, <1>8, <2>2, <2>3, <3>1
  <2> QED BY <1>8, <2>2, <2>3, <2>4, SeqEqual DEF z
<1>13. CapabilityText(line) = Trim(y, Space)
  BY <1>10, <1>12 DEF CapabilityText
<1>14. Words(y) = Words(x)
  <2>1. /\ 0 \in 0 .. Len(x) /\ m \in 0 .. Len(x) /\ 0 + 1 = 1
        /\ \A k \in 1 .. 0 : x[k] \in Space
    BY <1>1, <1>7, <1>9
  <2>2. \A k \in m + 1 .. Len(x) : x[k] \in Space
    <3> TAKE k \in m + 1 .. Len(x)
    <3>1. k \in 1 .. len - n - 1 /\ n + k + 1 \in hi + 1 .. len
      BY <1>1, <1>3, <1>7, <1>9
    <3> QED BY <1>3, <1>7, <3>1
  <2>3. SubSeq(x, 1, m) \in Seq(S) /\ Words(SubSeq(x, 1, m)) = Words(x)
    <3> HIDE DEF m
    <3> QED BY <1>7, <2>1, <2>2, WordsOfPart
  <2>4. SubSeq(x, 1, m) = y
    <3> DEFINE z == SubSeq(x, 1, m)
    <3>1. \A i \in 1 .. m : x[i] \in S
      BY <1>7, <1>9
    <3>2. /\ z \in Seq(S) /\ Len(z) = IF 1 <= m THEN m - 1 + 1 ELSE 0
          /\ \A i \in 1 .. m - 1 + 1 : z[i] = x[1 + i - 1]
      BY <1>9, <3>1, SubSeqProperties
    <3> HIDE DEF z
    <3>3. Len(z) = m /\ m - 1 + 1 = m
      BY <1>9, <3>2
    <3>4. \A i \in 1 .. m : z[i] = y[i]
      <4> TAKE i \in 1 .. m
      <4>1. 1 + i - 1 = i /\ i \in 1 .. len - n - 1
        BY <1>1, <1>9
      <4> QED BY <1>7, <1>8, <3>2, <3>3, <4>1
    <3> QED BY <1>8, <3>2, <3>3, <3>4, SeqEqual DEF z
  <2> QED BY <2>3, <2>4
<1>15. Words(Trim(y, Space)) = Words(y)
  BY <1>8, WordsOfTrim
<1> QED BY <1>11, <1>13, <1>14, <1>15 DEF x, len

\* A CAPABILITY line begins so.
LEMMA CapabilityBegins ==
  ASSUME NEW S, NEW line \in Seq(S), IsCapability(line)
  PROVE  \E n \in DOMAIN line : Begins(line, n)
<1> DEFINE t == Trim(line, Space)
           len == Len(line)
<1>1. len \in Nat /\ DOMAIN line = 1 .. len /\ \A i \in 1 .. len : line[i] \in S
  OBVIOUS
<1>2. t \in Seq(S)
  BY WordsOfTrim
<1>3. Len(t) >= 2 /\ t[1] = "CAPABILITY" /\ t[2] = ":"
  BY <1>2, PrefixIs DEF IsCapability
<1>4. PICK k \in 1 .. len : line[k] \notin Space
  <2> SUFFICES ASSUME \A k \in 1 .. len : line[k] \in Space PROVE FALSE
    OBVIOUS
  <2>1. {k \in DOMAIN line : line[k] \notin Space} = {}
    BY <1>1
  <2>2. t = <<>>
    BY <2>1 DEF Trim
  <2> HIDE DEF t
  <2> QED BY <1>3, <2>2
<1>5. PICK lo, hi \in 1 .. len :
        /\ t = SubSeq(line, lo, hi) /\ lo <= k /\ k <= hi
        /\ \A i \in 1 .. lo - 1 : line[i] \in Space
  BY <1>4, TrimIs
<1> HIDE DEF t, len
<1>6. Len(t) = hi - lo + 1 /\ \A i \in 1 .. hi - lo + 1 : t[i] = line[lo + i - 1]
  <2>1. /\ lo \in Int /\ hi \in Int /\ lo <= hi /\ \A i \in lo .. hi : line[i] \in S
    BY <1>1, <1>5
  <2> QED BY <1>5, <2>1, SubSeqProperties
<1>7. /\ 1 \in 1 .. hi - lo + 1 /\ 2 \in 1 .. hi - lo + 1 /\ lo + 1 - 1 = lo /\ lo + 2 - 1 = lo + 1
      /\ lo + 1 \in 1 .. len
  BY <1>1, <1>3, <1>6
<1>8. line[lo] = "CAPABILITY" /\ line[lo + 1] = ":"
  BY <1>3, <1>6, <1>7
<1> QED BY <1>1, <1>5, <1>7, <1>8 DEF Begins, len

\* A line lists what the parser reads in it, and nothing else.
LEMMA ListsIs ==
  ASSUME NEW S, NEW line \in Seq(S), NEW c
  PROVE  Lists(line, c) <=> IsCapability(line) /\ parse_capability(CapabilityText(line)) = c
<1>1. Lists(line, c) <=>
        \E n \in DOMAIN line :
          Begins(line, n) /\ parse_capability(SubSeq(line, n + 2, Len(line))) = c
  BY DEF Lists, Begins
<1>2. \A n : Begins(line, n) =>
        /\ IsCapability(line)
        /\ parse_capability(CapabilityText(line)) = parse_capability(SubSeq(line, n + 2, Len(line)))
  BY TextAfter, WordsCount
<1>3. IsCapability(line) => \E n \in DOMAIN line : Begins(line, n)
  BY CapabilityBegins
<1> QED BY <1>1, <1>2, <1>3

(***************************************************************************)
(* Keywords                                                                *)
(***************************************************************************)

\* From a to b in lower case.
Run(text, a, b) == [k \in 1 .. (b - a + 1) |-> Lower(text[a + k - 1])]

\* From a on there are letters only, and none before a.
Lettered(text, a, b) ==
  (\A k \in a .. b : text[k] \in Letters) /\ (a = 1 \/ text[a - 1] \notin Letters)

\* The runs of three among the first n characters that have ended by then, and those that end
\* if the text ends there.
Ended(text, n) ==
  {ab \in (1 .. n) \X (1 .. n) :
     /\ ab[2] >= ab[1] + 2 /\ Lettered(text, ab[1], ab[2])
     /\ ab[2] < n /\ text[ab[2] + 1] \notin Letters}
Closed(text, n) ==
  {ab \in (1 .. n) \X (1 .. n) :
     /\ ab[2] >= ab[1] + 2 /\ Lettered(text, ab[1], ab[2])
     /\ ab[2] = n \/ text[ab[2] + 1] \notin Letters}

Of(text, runs) == {Run(text, ab[1], ab[2]) : ab \in runs}

\* What the loop has after n characters: the run that is going on, and those that have ended.
ScanOK(text, s, n) ==
  /\ \E a \in 1 .. n + 1 : Lettered(text, a, n) /\ s.current = Run(text, a, n)
  /\ s.keywords = Of(text, Ended(text, n))

LEMMA RunLength ==
  ASSUME NEW text, NEW n \in Nat, NEW a \in 1 .. n + 1
  PROVE  Len(Run(text, a, n)) = n - a + 1
<1>1. n - a + 1 \in Nat
  OBVIOUS
<1> QED BY <1>1 DEF Run

\* If the text ends, the run that is going on ends with it.
LEMMA Closing ==
  ASSUME NEW text, NEW n \in Nat, NEW s, ScanOK(text, s, n)
  PROVE  s.keywords \union (IF Len(s.current) >= 3 THEN {s.current} ELSE {}) =
           Of(text, Closed(text, n))
<1>1. PICK a \in 1 .. n + 1 : Lettered(text, a, n) /\ s.current = Run(text, a, n)
  BY DEF ScanOK
<1>2. Len(s.current) = n - a + 1
  BY <1>1, RunLength
<1>3. ASSUME NEW ab \in Closed(text, n), ab \notin Ended(text, n) PROVE ab = <<a, n>> /\ a + 2 <= n
  <2>1. /\ ab \in (1 .. n) \X (1 .. n) /\ ab[2] >= ab[1] + 2 /\ Lettered(text, ab[1], ab[2])
        /\ ab[2] = n
    BY <1>3 DEF Closed, Ended
  <2>2. ab[1] = a
    <3>1. ~(ab[1] < a)
      <4>1. ab[1] < a => a # 1 /\ a - 1 \in ab[1] .. ab[2]
        BY <2>1
      <4> QED BY <1>1, <2>1, <4>1 DEF Lettered
    <3>2. ~(a < ab[1])
      <4>1. a < ab[1] => ab[1] # 1 /\ ab[1] - 1 \in a .. n
        BY <2>1
      <4> QED BY <1>1, <2>1, <4>1 DEF Lettered
    <3>3. a \in Nat /\ ab[1] \in Nat
      BY <2>1
    <3> QED BY <3>1, <3>2, <3>3
  <2> QED BY <2>1, <2>2
<1>4. Ended(text, n) \subseteq Closed(text, n)
  BY DEF Ended, Closed
<1>5. CASE n - a + 1 >= 3
  <2>1. <<a, n>> \in Closed(text, n)
    <3>1. a \in 1 .. n /\ n \in 1 .. n /\ n >= a + 2
      BY <1>5
    <3> QED BY <1>1, <3>1 DEF Closed
  <2>2. Closed(text, n) = Ended(text, n) \union {<<a, n>>}
    BY <1>3, <1>4, <2>1
  <2>3. Of(text, Closed(text, n)) = Of(text, Ended(text, n)) \union {Run(text, a, n)}
    <3> DEFINE p == <<a, n>>
    <3>1. p[1] = a /\ p[2] = n /\ Closed(text, n) = Ended(text, n) \union {p}
      BY <2>2
    <3> HIDE DEF p
    <3>2. Of(text, Ended(text, n) \union {p}) = Of(text, Ended(text, n)) \union {Run(text, p[1], p[2])}
      BY DEF Of
    <3> QED BY <3>1, <3>2
  <2> QED BY <1>1, <1>2, <1>5, <2>3 DEF ScanOK
<1>6. CASE ~(n - a + 1 >= 3)
  <2>1. ~(a + 2 <= n)
    BY <1>6
  <2>2. Closed(text, n) = Ended(text, n)
    BY <1>3, <1>4, <2>1
  <2> QED BY <1>2, <1>6, <2>2 DEF ScanOK
<1> QED BY <1>5, <1>6

\* One character more.
LEMMA ScanKeeps ==
  ASSUME NEW text, NEW n \in Nat, NEW s, ScanOK(text, s, n),
         s \in [keywords : {s.keywords}, current : {s.current}]
  PROVE  ScanOK(text, Scan(s, text[n + 1]), n + 1)
<1> DEFINE c == text[n + 1]
           next == Scan(s, c)
<1>1. PICK a \in 1 .. n + 1 : Lettered(text, a, n) /\ s.current = Run(text, a, n)
  BY DEF ScanOK
<1>2. CASE c \in Letters
  <2>1. next.current = Append(s.current, Lower(c)) /\ next.keywords = s.keywords
    BY <1>2 DEF Scan
  <2>2. Append(Run(text, a, n), Lower(c)) = Run(text, a, n + 1)
    <3> DEFINE V == {Lower(text[k]) : k \in 1 .. n + 1}
               m == n - a + 1
               r == Run(text, a, n)
               q == Run(text, a, n + 1)
    <3>1. m \in Nat /\ (n + 1) - a + 1 = m + 1 /\ m + 1 \in Nat /\ a + (m + 1) - 1 = n + 1
      OBVIOUS
    <3>2. \A k \in 1 .. m + 1 : a + k - 1 \in 1 .. n + 1
      OBVIOUS
    <3>3. \A k \in 1 .. m + 1 : Lower(text[a + k - 1]) \in V
      BY <3>2
    <3>4. r = [k \in 1 .. m |-> Lower(text[a + k - 1])]
      BY DEF Run
    <3>5. q = [k \in 1 .. m + 1 |-> Lower(text[a + k - 1])]
      BY <3>1 DEF Run
    <3> HIDE DEF m, r, q, V
    <3>6. \A k \in 1 .. m : k \in 1 .. m + 1
      BY <3>1
    <3>7. r \in [1 .. m -> V] /\ q \in [1 .. m + 1 -> V]
      BY <3>3, <3>4, <3>5, <3>6
    <3>8. r \in Seq(V) /\ Len(r) = m /\ q \in Seq(V) /\ Len(q) = m + 1
      <4>1. \A j \in Nat : \A f \in [1 .. j -> V] : f \in Seq(V) /\ Len(f) = j
        OBVIOUS
      <4> QED BY <3>1, <3>7, <4>1
    <3>9. Lower(c) \in V
      BY DEF V
    <3> DEFINE t == Append(r, Lower(c))
    <3>10. /\ t \in Seq(V) /\ Len(t) = m + 1
           /\ (\A i \in 1 .. m : t[i] = r[i]) /\ t[m + 1] = Lower(c)
      BY <3>8, <3>9, AppendProperties
    <3>11. \A i \in 1 .. m : r[i] = q[i]
      BY <3>4, <3>5, <3>6
    <3>12. q[m + 1] = Lower(c)
      <4>1. m + 1 \in 1 .. m + 1
        BY <3>1
      <4> QED BY <3>1, <3>5, <4>1
    <3> HIDE DEF t
    <3>13. \A i \in 1 .. m + 1 : t[i] = q[i]
      <4>1. \A i \in 1 .. m + 1 : i \in 1 .. m \/ i = m + 1
        BY <3>1
      <4> QED BY <3>10, <3>11, <3>12, <4>1
    <3> QED BY <3>8, <3>10, <3>13, SeqEqual DEF t, r, q
  <2>3. Lettered(text, a, n + 1)
    <3>1. \A k \in a .. n + 1 : k \in a .. n \/ k = n + 1
      OBVIOUS
    <3> QED BY <1>1, <1>2, <3>1 DEF Lettered
  <2>4. Ended(text, n + 1) = Ended(text, n)
    <3>1. ASSUME NEW ab \in Ended(text, n + 1) PROVE ab \in Ended(text, n)
      <4>1. /\ ab \in (1 .. n + 1) \X (1 .. n + 1) /\ ab[2] >= ab[1] + 2
            /\ ab[2] < n + 1 /\ text[ab[2] + 1] \notin Letters /\ Lettered(text, ab[1], ab[2])
        BY DEF Ended
      <4>2. ab[2] # n
        BY <1>2, <4>1
      <4>3. ab[2] < n /\ ab \in (1 .. n) \X (1 .. n)
        BY <4>1, <4>2
      <4> QED BY <4>1, <4>3 DEF Ended
    <3>2. ASSUME NEW ab \in Ended(text, n) PROVE ab \in Ended(text, n + 1)
      BY DEF Ended
    <3> QED BY <3>1, <3>2
  <2>5. a \in 1 .. (n + 1) + 1
    OBVIOUS
  <2> HIDE DEF next
  <2>6. ScanOK(text, next, n + 1)
    BY <1>1, <2>1, <2>2, <2>3, <2>4, <2>5 DEF ScanOK
  <2> QED BY <2>6 DEF next
<1>3. CASE c \notin Letters
  <2>1. /\ next.current = <<>>
        /\ next.keywords = s.keywords \union (IF Len(s.current) >= 3 THEN {s.current} ELSE {})
    BY <1>3 DEF Scan
  <2>2. Ended(text, n + 1) = Closed(text, n)
    <3>1. ASSUME NEW ab \in Ended(text, n + 1) PROVE ab \in Closed(text, n)
      <4>1. /\ ab \in (1 .. n + 1) \X (1 .. n + 1) /\ ab[2] >= ab[1] + 2
            /\ ab[2] < n + 1 /\ text[ab[2] + 1] \notin Letters /\ Lettered(text, ab[1], ab[2])
        BY DEF Ended
      <4>2. ab \in (1 .. n) \X (1 .. n)
        BY <4>1
      <4> QED BY <4>1, <4>2 DEF Closed
    <3>2. ASSUME NEW ab \in Closed(text, n) PROVE ab \in Ended(text, n + 1)
      BY <1>3 DEF Closed, Ended
    <3> QED BY <3>1, <3>2
  <2>3. Run(text, n + 2, n + 1) = <<>>
    <3>1. 1 .. ((n + 1) - (n + 2) + 1) = {}
      OBVIOUS
    <3> QED BY <3>1 DEF Run
  <2>4. Lettered(text, n + 2, n + 1)
    <3>1. (n + 2) .. (n + 1) = {} /\ (n + 2) - 1 = n + 1
      OBVIOUS
    <3> QED BY <1>3, <3>1 DEF Lettered
  <2>5. n + 2 \in 1 .. (n + 1) + 1
    OBVIOUS
  <2> HIDE DEF next
  <2>6. next.keywords = Of(text, Ended(text, n + 1))
    BY <2>1, <2>2, Closing
  <2>7. ScanOK(text, next, n + 1)
    BY <2>1, <2>3, <2>4, <2>5, <2>6 DEF ScanOK
  <2> QED BY <2>7 DEF next
<1> QED BY <1>2, <1>3

\* extract_ascii_keywords finds the runs of letters of a text, and only them.
LEMMA KeywordsAreRuns ==
  ASSUME NEW S, NEW text \in Seq(S)
  PROVE  extract_ascii_keywords(text) = Runs(text)
<1> DEFINE n == Len(text)
<1>1. n \in Nat /\ DOMAIN text = 1 .. n
  OBVIOUS
<1>2. PICK r \in [0 .. n -> Scans(text)] :
        /\ r[0] = [keywords |-> {}, current |-> <<>>] /\ Scanned(text) = r[n]
        /\ \A k \in 1 .. n : r[k] = Scan(r[k - 1], text[k])
  BY <1>1, ScannedIs
<1> HIDE DEF n
<1> DEFINE G == {k \in 0 .. n : ScanOK(text, r[k], k)}
<1>3. 0 \in G
  <2>1. r[0].keywords = {} /\ r[0].current = <<>>
    BY <1>2
  <2>2. Ended(text, 0) = {}
    BY DEF Ended
  <2>3. Run(text, 1, 0) = <<>>
    <3>1. 1 .. (0 - 1 + 1) = {}
      OBVIOUS
    <3> QED BY <3>1 DEF Run
  <2>4. Lettered(text, 1, 0) /\ 1 \in 1 .. 0 + 1 /\ 0 \in 0 .. n
    BY <1>1 DEF Lettered
  <2>5. ScanOK(text, r[0], 0)
    BY <2>1, <2>2, <2>3, <2>4 DEF ScanOK, Of
  <2> QED BY <2>4, <2>5
<1>4. ASSUME NEW k \in 0 .. n - 1, k \in G PROVE k + 1 \in G
  <2>1. k \in Nat /\ k + 1 \in 1 .. n /\ (k + 1) - 1 = k /\ k + 1 \in 0 .. n /\ k \in 0 .. n
    BY <1>1
  <2>2. r[k + 1] = Scan(r[k], text[k + 1]) /\ ScanOK(text, r[k], k)
    BY <1>2, <1>4, <2>1
  <2>3. r[k] \in [keywords : {r[k].keywords}, current : {r[k].current}]
    <3>1. r[k] \in Scans(text)
      BY <1>2, <2>1
    <3> QED BY <3>1 DEF Scans
  <2>4. ScanOK(text, r[k + 1], k + 1)
    BY <2>1, <2>2, <2>3, ScanKeeps
  <2> QED BY <2>1, <2>4
<1> HIDE DEF G
<1>5. \A k \in 0 .. n : k \in G
  BY <1>1, <1>3, <1>4, UpTo
<1>6. ScanOK(text, Scanned(text), n)
  <2>1. n \in 0 .. n
    BY <1>1
  <2> QED BY <1>2, <1>5, <2>1 DEF G
<1>7. extract_ascii_keywords(text) = Of(text, Closed(text, n))
  BY <1>1, <1>6, Closing DEF extract_ascii_keywords
<1>8. Runs(text) = Of(text, Closed(text, n))
  BY <1>1 DEF Runs, Of, Closed, Run, Lettered, n
<1> QED BY <1>7, <1>8

(***************************************************************************)
(* A rule                                                                  *)
(***************************************************************************)

Lines == RuleLines \union TemplateLines

LEMMA LinesAre ==
  ASSUME NEW lines \in Seq(Lines)
  PROVE  /\ Len(lines) \in Nat /\ DOMAIN lines = 1 .. Len(lines)
         /\ \A k \in 1 .. Len(lines) : lines[k] \in Lines
BY LenProperties, ElementOfSeq

\* A detection method has the name it was asked for by, and a signature its detail.
LEMMA MethodIs ==
  ASSUME NEW name, NEW detail, Method(name, detail) # Nothing
  PROVE  /\ name = <<Method(name, detail).by>>
         /\ Method(name, detail).by = "Signature" => detail = Method(name, detail).pattern
<1> DEFINE m == Method(name, detail)
<1>1. \A x, y : <<x>> = <<y>> => x = y
  OBVIOUS
<1>2. CASE name = <<"Signature">>
  <2>1. m = [by |-> "Signature", pattern |-> detail]
    BY <1>1, <1>2, Zenon DEF Method
  <2> HIDE DEF m
  <2> QED BY <1>2, <2>1 DEF m
<1>3. CASE name = <<"BehavioralAnomaly">>
  <2>1. m = [by |-> "BehavioralAnomaly"]
    BY <1>1, <1>3, Zenon DEF Method
  <2> HIDE DEF m
  <2> QED BY <1>3, <2>1 DEF m
<1>4. CASE name = <<"SensorThreshold">>
  <2> DEFINE sensor == Sides(detail)[1]
             limit == Sides(detail)[2]
  <2>1. m = IF Equals(detail) # {} /\ Signed(limit)
            THEN [by |-> "SensorThreshold", sensor |-> sensor, limit |-> limit]
            ELSE Nothing
    BY <1>1, <1>4, Zenon DEF Method
  <2> HIDE DEF sensor, limit
  <2>2. m = [by |-> "SensorThreshold", sensor |-> sensor, limit |-> limit]
    BY <2>1
  <2> HIDE DEF m
  <2> QED BY <1>4, <2>2 DEF m
<1>5. CASE name = <<"ChecksumVerification">>
  <2>1. m = [by |-> "ChecksumVerification"]
    BY <1>1, <1>5, Zenon DEF Method
  <2> HIDE DEF m
  <2> QED BY <1>5, <2>1 DEF m
<1>6. CASE name \in {<<"EventLog">>, <<"AbnormalProcessEvent">>}
  <2>1. m = [by |-> name[1], event_type |-> detail]
    BY <1>1, <1>6, Zenon DEF Method
  <2> HIDE DEF m
  <2> QED BY <1>6, <2>1 DEF m
<1>7. CASE name = <<"Heartbeat">>
  <2> DEFINE beats == Trim(detail, Space)
  <2>1. m = IF Whole(beats)
            THEN [by |-> "Heartbeat", max_missed_beats |-> beats[1]] ELSE Nothing
    BY <1>1, <1>7, Zenon DEF Method
  <2> HIDE DEF beats
  <2>2. m = [by |-> "Heartbeat", max_missed_beats |-> beats[1]]
    BY <2>1
  <2> HIDE DEF m
  <2> QED BY <1>7, <2>2 DEF m
<1>8. CASE /\ name \notin {<<"EventLog">>, <<"AbnormalProcessEvent">>}
           /\ name # <<"Signature">> /\ name # <<"BehavioralAnomaly">>
           /\ name # <<"SensorThreshold">> /\ name # <<"ChecksumVerification">>
           /\ name # <<"Heartbeat">>
  BY <1>8, Zenon DEF Method
<1> QED BY <1>2, <1>3, <1>4, <1>5, <1>6, <1>7, <1>8

\* A rule that comes of an answer is what the last lines of its keys say.
LEMMA RuleSays ==
  ASSUME NEW lines \in Seq(Lines), NEW made, made = ParseRule(lines), made # Nothing
  PROVE  /\ Says(lines, <<"CATEGORY">>, <<made.category>>)
         /\ Says(lines, <<"METHOD">>, <<made.method.by>>)
         /\ made.method.by = "Signature" => Says(lines, <<"DETAIL">>, made.method.pattern)
         /\ ~made.protected <=> Says(lines, <<"PROTECTED">>, <<"false">>)
<1> DEFINE fields == parse_key_value_lines(lines)
           name == fields[<<"METHOD">>]
           detail == fields[<<"DETAIL">>]
           method == Method(name, detail)
<1>1. Len(lines) \in Nat /\ DOMAIN lines = 1 .. Len(lines)
  BY LinesAre
<1>2. \A key, value :
        (key \in DOMAIN fields /\ fields[key] = value) <=> Says(lines, key, value)
  BY <1>1, FieldsSay
<1>3. ParseRule(lines) =
        IF ~(<<"CATEGORY">> \in DOMAIN fields /\ <<"DETAIL">> \in DOMAIN fields
               /\ <<"METHOD">> \in DOMAIN fields) THEN Nothing
        ELSE IF fields[<<"CATEGORY">>] \notin {<<c>> : c \in ThreatCategories} THEN Nothing
        ELSE IF method = Nothing THEN Nothing
        ELSE [category |-> fields[<<"CATEGORY">>][1], method |-> method,
              protected |-> Protected(fields)]
  BY DEF ParseRule
<1> HIDE DEF fields, name, detail, method
<1>4. /\ <<"CATEGORY">> \in DOMAIN fields /\ <<"DETAIL">> \in DOMAIN fields
      /\ <<"METHOD">> \in DOMAIN fields
      /\ fields[<<"CATEGORY">>] \in {<<c>> : c \in ThreatCategories}
      /\ method # Nothing
      /\ made = [category |-> fields[<<"CATEGORY">>][1], method |-> method,
                 protected |-> Protected(fields)]
  BY <1>3
<1>5. made.category = fields[<<"CATEGORY">>][1] /\ made.method = method
      /\ made.protected = Protected(fields)
  BY <1>4
<1>6. fields[<<"CATEGORY">>] = <<made.category>>
  BY <1>4, <1>5
<1>7. name = <<method.by>> /\ (method.by = "Signature" => detail = method.pattern)
  BY <1>4, MethodIs DEF method
<1>8. Says(lines, <<"CATEGORY">>, <<made.category>>)
  BY <1>2, <1>4, <1>6
<1>9. Says(lines, <<"METHOD">>, <<made.method.by>>)
  BY <1>2, <1>4, <1>5, <1>7 DEF name
<1>10. made.method.by = "Signature" => Says(lines, <<"DETAIL">>, made.method.pattern)
  BY <1>2, <1>4, <1>5, <1>7 DEF detail
<1>11. ~made.protected <=> Says(lines, <<"PROTECTED">>, <<"false">>)
  BY <1>2, <1>5 DEF Protected
<1> QED BY <1>8, <1>9, <1>10, <1>11

(***************************************************************************)
(* A template                                                              *)
(***************************************************************************)

\* What a template that comes of an answer permits is what the lines list.
LEMMA TemplateLists ==
  ASSUME NEW lines \in Seq(Lines), NEW made, made = ParseTemplate(lines), made # Nothing
  PROVE  /\ \A c \in ToSet(made.capabilities) : \E l \in ToSet(lines) : Lists(l, c)
         /\ \A l \in ToSet(lines) :
              /\ ~Lists(l, Nothing)
              /\ \A c \in {parse_capability(t) : t \in ToSet(CapabilityTexts(<<l>>))} :
                   c \in ToSet(made.capabilities)
<1> DEFINE texts == CapabilityTexts(lines)
           caps == [n \in DOMAIN texts |-> parse_capability(texts[n])]
<1>1. /\ Len(lines) \in Nat /\ DOMAIN lines = 1 .. Len(lines)
      /\ \A k \in 1 .. Len(lines) : lines[k] \in Seq(ToSet(lines[k]))
  BY LinesAre, ProposalsAssumption DEF Lines
<1>2. ToSet(texts) =
        {CapabilityText(lines[k]) : k \in {j \in 1 .. Len(lines) : IsCapability(lines[j])}}
  BY <1>1, TextsOf
<1>3. Nothing \notin ToSet(caps) /\ made.capabilities = caps
  BY DEF ParseTemplate
<1>4. ToSet(caps) = {parse_capability(t) : t \in ToSet(texts)}
  BY DEF ToSet
<1> HIDE DEF texts, caps
<1>5. ToSet(caps) =
        {parse_capability(CapabilityText(lines[k])) :
           k \in {j \in 1 .. Len(lines) : IsCapability(lines[j])}}
  BY <1>2, <1>4
<1>6. ToSet(lines) = {lines[k] : k \in 1 .. Len(lines)}
  BY <1>1 DEF ToSet
<1>7. \A k \in 1 .. Len(lines) : \A c :
        Lists(lines[k], c) <=>
          IsCapability(lines[k]) /\ parse_capability(CapabilityText(lines[k])) = c
  BY <1>1, ListsIs
<1>8. ASSUME NEW c \in ToSet(caps) PROVE \E l \in ToSet(lines) : Lists(l, c)
  BY <1>5, <1>6, <1>7
<1>9. ASSUME NEW l \in ToSet(lines)
      PROVE  /\ ~Lists(l, Nothing)
             /\ \A c \in {parse_capability(t) : t \in ToSet(CapabilityTexts(<<l>>))} : c \in ToSet(caps)
  <2>1. PICK k \in 1 .. Len(lines) : l = lines[k]
    BY <1>6
  <2>2. IsCapability(l) => parse_capability(CapabilityText(l)) \in ToSet(caps)
    BY <1>5, <2>1
  <2>3. ~Lists(l, Nothing)
    BY <1>3, <1>7, <2>1, <2>2
  <2> DEFINE one == <<l>>
  <2>4. Len(one) = 1 /\ 1 \in Nat /\ 1 .. 1 = {1} /\ one[1] = l
    OBVIOUS
  <2> HIDE DEF one
  <2>5. ToSet(CapabilityTexts(one)) =
          {CapabilityText(one[k_1]) : k_1 \in {j \in 1 .. 1 : IsCapability(one[j])}}
    BY <2>4, TextsOf
  <2>6. \A t \in ToSet(CapabilityTexts(one)) : IsCapability(l) /\ t = CapabilityText(l)
    BY <2>4, <2>5
  <2>7. \A c \in {parse_capability(t) : t \in ToSet(CapabilityTexts(one))} : c \in ToSet(caps)
    BY <2>2, <2>6
  <2> QED BY <2>3, <2>7 DEF one
<1> QED BY <1>3, <1>8, <1>9

\* Trimming leaves elements of the text.
LEMMA TrimIn ==
  ASSUME NEW S, NEW x \in Seq(S), NEW chars
  PROVE  Trim(x, chars) \in Seq(S)
<1> DEFINE kept == {k \in DOMAIN x : x[k] \notin chars}
           n == Len(x)
<1>1. n \in Nat /\ DOMAIN x = 1 .. n /\ \A i \in 1 .. n : x[i] \in S
  OBVIOUS
<1>2. CASE kept = {}
  BY <1>2 DEF Trim
<1>3. CASE kept # {}
  <2>1. kept \in SUBSET (1 .. n) /\ kept \in SUBSET Nat
    BY <1>1
  <2>2. Trim(x, chars) = SubSeq(x, Min(kept), Max(kept))
    BY <1>3 DEF Trim
  <2> HIDE DEF kept, n
  <2>3. Min(kept) \in 1 .. n /\ Max(kept) \in 1 .. n
    BY <1>1, <1>3, <2>1, LeastNumber, GreatestNumber
  <2> DEFINE lo == Min(kept)
             hi == Max(kept)
  <2> HIDE DEF lo, hi
  <2>4. lo \in Int /\ hi \in Int /\ \A i \in lo .. hi : x[i] \in S
    BY <1>1, <2>3 DEF lo, hi
  <2>5. SubSeq(x, lo, hi) \in Seq(S)
    BY <2>4, SubSeqProperties
  <2> QED BY <2>2, <2>5 DEF lo, hi
<1> QED BY <1>2, <1>3

\* What follows the colon of a line is made of the line's characters.
LEMMA ValueIn ==
  ASSUME NEW S, NEW line \in Seq(S), HasColon(line)
  PROVE  Value(line) \in Seq(S)
<1> DEFINE colons == {k \in DOMAIN line : line[k] = ":"}
           n == Len(line)
<1>1. n \in Nat /\ DOMAIN line = 1 .. n /\ \A i \in 1 .. n : line[i] \in S
  OBVIOUS
<1>2. colons \in SUBSET Nat /\ colons # {}
  BY <1>1 DEF HasColon
<1>3. Colon(line) \in Nat
  <2> HIDE DEF colons
  <2> QED BY <1>2, LeastNumber DEF Colon, colons
<1>4. Colon(line) + 1 \in Int /\ n \in Int /\ \A i \in Colon(line) + 1 .. n : line[i] \in S
  BY <1>1, <1>3
<1> HIDE DEF n
<1>5. SubSeq(line, Colon(line) + 1, n) \in Seq(S)
  BY <1>4, SubSeqProperties
<1> QED BY <1>5, TrimIn DEF Value, n

\* Its name and description are words of the lines.
LEMMA TemplateText ==
  ASSUME NEW lines \in Seq(TemplateLines), NEW made, made = ParseTemplate(lines), made # Nothing
  PROVE  made.text \in Seq(TemplateWords)
<1> DEFINE fields == parse_key_value_lines(lines)
           Field(key) == IF key \in DOMAIN fields THEN fields[key] ELSE <<>>
<1>1. /\ Len(lines) \in Nat /\ DOMAIN lines = 1 .. Len(lines)
      /\ \A k \in 1 .. Len(lines) : lines[k] \in TemplateLines
  BY LenProperties, ElementOfSeq
<1>2. \A l \in TemplateLines : l \in Seq(TemplateWords)
  <2> TAKE l \in TemplateLines
  <2>1. l \in Seq(ToSet(l)) /\ ToSet(l) \subseteq TemplateWords
    BY ProposalsAssumption DEF TemplateWords
  <2> QED BY <2>1, SeqMonotonic
<1>3. ASSUME NEW key \in DOMAIN fields PROVE fields[key] \in Seq(TemplateWords)
  <2>1. Says(lines, key, fields[key])
    BY <1>1, FieldsSay
  <2>2. PICK k \in 1 .. Len(lines) : HasColon(lines[k]) /\ Value(lines[k]) = fields[key]
    BY <1>1, <2>1 DEF Says
  <2> QED BY <1>1, <1>2, <2>2, ValueIn
<1>4. made.text = fields[<<"NAME">>] \o Field(<<"DESCRIPTION">>) /\ <<"NAME">> \in DOMAIN fields
  BY DEF ParseTemplate
<1> HIDE DEF fields
<1>5. fields[<<"NAME">>] \in Seq(TemplateWords) /\ Field(<<"DESCRIPTION">>) \in Seq(TemplateWords)
  BY <1>3, <1>4
<1> HIDE DEF Field
<1> QED BY <1>4, <1>5, ConcatProperties

(***************************************************************************)
(* The catalogue                                                           *)
(***************************************************************************)

\* Two texts match exactly if they share a run of letters.
LEMMA MatchesAre ==
  ASSUME NEW S, NEW text \in Seq(S), NEW t \in Seq(TemplateWords)
  PROVE  keyword_match(text, t) <=> Shares(text, t)
<1> DEFINE Chars == {"-"} \union UNION {ToSet(TextOf(w)) : w \in TemplateWords}
<1>1. ASSUME NEW w \in TemplateWords PROVE TextOf(w) \in Seq(Chars)
  <2>1. TextOf(w) \in Seq(ToSet(TextOf(w))) /\ ToSet(TextOf(w)) \subseteq Chars
    BY ProposalsAssumption
  <2> QED BY <2>1, SeqMonotonic
<1>2. Len(t) \in Nat /\ \A k \in 1 .. Len(t) : t[k] \in TemplateWords
  BY LenProperties, ElementOfSeq
<1>3. "-" \in Chars
  OBVIOUS
<1> HIDE DEF Chars
<1>4. PICK r \in [0 .. Len(t) -> Seq(Chars)] : Characters(t) = r[Len(t)]
  BY <1>1, <1>2, <1>3, CharactersAre
<1>5. Characters(t) \in Seq(Chars)
  <2>1. Len(t) \in 0 .. Len(t)
    BY <1>2
  <2> QED BY <1>4, <2>1
<1> QED BY <1>5, KeywordsAreRuns DEF keyword_match, Shares

LEMMA PurposeIs ==
  ASSUME TypeOK
  PROVE  \E S : purpose \in Seq(S)
<1>1. CASE call = "resolve"
  BY <1>1, ProposalsAssumption DEF TypeOK
<1>2. CASE call # "resolve"
  <2>1. purpose = <<>> /\ <<>> \in Seq({})
    BY <1>2 DEF TypeOK
  <2> QED BY <2>1
<1> QED BY <1>1, <1>2

\* What is searched for in the catalogue.
First == SelectInSeq(catalog, LAMBDA t : keyword_match(purpose, t))

\* The template found is the first of the catalog that shares a word with the purpose.
LEMMA FirstIs ==
  ASSUME TypeOK
  PROVE  /\ First # 0 =>
              /\ First \in 1 .. Len(catalog) /\ Shares(purpose, catalog[First])
              /\ \A n \in 1 .. First - 1 : ~Shares(purpose, catalog[n])
         /\ First = 0 => \A t \in ToSet(catalog) : ~Shares(purpose, t)
<1> DEFINE found == {n \in 1 .. Len(catalog) : keyword_match(purpose, catalog[n])}
<1>1. First = IF found # {} THEN Min(found) ELSE 0
  BY DEF First, SelectInSeq
<1>2. PICK S : purpose \in Seq(S)
  BY PurposeIs
<1>3. /\ Len(catalog) \in Nat /\ DOMAIN catalog = 1 .. Len(catalog)
      /\ \A n \in 1 .. Len(catalog) : catalog[n] \in Seq(TemplateWords)
  BY LenProperties, ElementOfSeq DEF TypeOK
<1>4. \A n \in 1 .. Len(catalog) : n \in found <=> Shares(purpose, catalog[n])
  BY <1>2, <1>3, MatchesAre
<1>5. found \in SUBSET (1 .. Len(catalog)) /\ found \in SUBSET Nat
  BY <1>3
<1> HIDE DEF found
<1>6. CASE found # {}
  <2>1. First \in found /\ \A n \in found : First <= n
    BY <1>1, <1>5, <1>6, LeastNumber
  <2>2. First # 0 /\ First \in 1 .. Len(catalog)
    BY <1>3, <1>5, <2>1
  <2>3. \A n \in 1 .. First - 1 : n \in 1 .. Len(catalog) /\ n \notin found
    BY <1>3, <1>5, <2>1, <2>2
  <2> QED BY <1>4, <2>1, <2>2, <2>3
<1>7. CASE found = {}
  <2>1. First = 0
    BY <1>1, <1>7
  <2>2. ToSet(catalog) = {catalog[n] : n \in 1 .. Len(catalog)}
    BY <1>3 DEF ToSet
  <2> QED BY <1>4, <1>7, <2>1, <2>2
<1> QED BY <1>6, <1>7

(***************************************************************************)
(* The invariant                                                           *)
(***************************************************************************)

IInv ==
  TypeOK /\ RulesSayWhatWasAnswered /\ TemplatesPermitWhatWasListed /\ FoundByKeywords

\* The strengthened invariant holds at the start and is kept by every step.
LEMMA InitIInv == Init => IInv
<1> SUFFICES ASSUME Init PROVE IInv
  OBVIOUS
<1>1. /\ call = "none" /\ purpose = <<>> /\ answer = <<>> /\ catalog = default_catalog
      /\ last.kind = "none"
  BY DEF Init, Error
<1>2. TypeOK
  <2>1. ToSet(default_catalog) = {<<"FiveM", "script">>, <<"Rust", "build">>}
    <3>1. DOMAIN default_catalog = {1, 2}
      BY DEF default_catalog
    <3>2. ToSet(default_catalog) = {default_catalog[1], default_catalog[2]}
      BY <3>1 DEF ToSet
    <3> QED BY <3>2 DEF default_catalog
  <2>2. /\ ToSet(<<"FiveM", "script">>) = {"FiveM", "script"}
        /\ ToSet(<<"Rust", "build">>) = {"Rust", "build"}
    BY DEF ToSet
  <2>3. {"FiveM", "script", "Rust", "build"} \subseteq TemplateWords
    <3> DEFINE Sets == {ToSet(t) : t \in ToSet(default_catalog)}
    <3>1. {"FiveM", "script"} \in Sets /\ {"Rust", "build"} \in Sets
      BY <2>1, <2>2
    <3> HIDE DEF Sets
    <3>2. {"FiveM", "script", "Rust", "build"} \subseteq UNION Sets
      BY <3>1
    <3>3. TemplateWords = UNION ({ToSet(l) : l \in TemplateLines} \union Sets)
      BY DEF TemplateWords, Sets
    <3> QED BY <3>2, <3>3
  <2> DEFINE W == TemplateWords
  <2>4. <<"FiveM", "script">> \in Seq(W) /\ <<"Rust", "build">> \in Seq(W)
    <3> HIDE DEF W
    <3>1. "FiveM" \in W /\ "script" \in W /\ "Rust" \in W /\ "build" \in W
      BY <2>3 DEF W
    <3> QED BY <3>1
  <2>5. default_catalog \in Seq(Seq(W))
    <3> HIDE DEF W
    <3> QED BY <2>4 DEF default_catalog
  <2>6. answer \in Seq({})
    BY <1>1
  <2> QED BY <1>1, <2>5, <2>6 DEF TypeOK
<1> QED BY <1>1, <1>2 DEF IInv, RulesSayWhatWasAnswered, TemplatesPermitWhatWasListed, FoundByKeywords

\* A step that ends no call successfully, or says nothing new.
LEMMA SaysNothing ==
  ASSUME IInv, TypeOK', \/ last' = last /\ catalog' = catalog
                        \/ last'.ok = FALSE /\ last'.kind \notin {"existing", "unknown"}
  PROVE  IInv'
<1>1. CASE last' = last /\ catalog' = catalog
  <2>1. RulesSayWhatWasAnswered'
    BY <1>1 DEF IInv, RulesSayWhatWasAnswered
  <2>2. TemplatesPermitWhatWasListed'
    BY <1>1 DEF IInv, TemplatesPermitWhatWasListed
  <2>3. FoundByKeywords'
    BY <1>1 DEF IInv, FoundByKeywords
  <2> QED BY <2>1, <2>2, <2>3 DEF IInv
<1>2. CASE last'.ok = FALSE /\ last'.kind \notin {"existing", "unknown"}
  BY <1>2 DEF IInv, RulesSayWhatWasAnswered, TemplatesPermitWhatWasListed, FoundByKeywords
<1> QED BY <1>1, <1>2

LEMMA StepIInv == IInv /\ [Next]_vars => IInv'
<1> SUFFICES ASSUME IInv, [Next]_vars PROVE IInv'
  OBVIOUS
<1>0. TypeOK
  BY DEF IInv
<1>00. <<>> \in Seq({}) /\ <<>> \in Seq(RuleLines) /\ <<>> \in Seq(TemplateLines)
  OBVIOUS
<1>01. Seq({}) = {<<>>}
  <2>1. ASSUME NEW s \in Seq({}) PROVE s = <<>>
    <3>1. Len(s) \in Nat /\ \A i \in 1 .. Len(s) : s[i] \in {}
      BY LenProperties, ElementOfSeq
    <3>2. Len(s) = 0
      BY <3>1
    <3> QED BY <3>2
  <2> QED BY <1>00, <2>1
<1>1. CASE GoOn
  <2>1. TypeOK' /\ last'.ok = FALSE /\ last'.kind = "none"
    BY <1>0, <1>1 DEF GoOn, TypeOK, Error
  <2> QED BY <2>1, SaysNothing
<1>2. CASE propose_rule
  <2>1. TypeOK' /\ last' = last /\ catalog' = catalog
    BY <1>0, <1>00, <1>01, <1>2 DEF propose_rule, TypeOK
  <2> QED BY <2>1, SaysNothing
<1>3. CASE resolve_or_propose
  <2>1. TypeOK' /\ last' = last /\ catalog' = catalog
    BY <1>0, <1>3 DEF resolve_or_propose, TypeOK
  <2> QED BY <2>1, SaysNothing
<1>4. CASE Existing
  <2>1. /\ First # 0 /\ last' = [kind |-> "existing", ok |-> TRUE, index |-> First, purpose |-> purpose]
        /\ catalog' = catalog
    BY <1>4 DEF Existing, First
  <2>2. TypeOK'
    BY <1>0, <1>4 DEF Existing, TypeOK
  <2>3. /\ last'.kind = "existing" /\ last'.index = First /\ last'.purpose = purpose
    BY <2>1
  <2>4. FoundByKeywords'
    BY <1>0, <2>1, <2>3, FirstIs DEF FoundByKeywords
  <2> QED BY <2>2, <2>3, <2>4 DEF IInv, RulesSayWhatWasAnswered, TemplatesPermitWhatWasListed
<1>5. CASE propose_template
  <2>1. /\ First = 0 /\ last' = [kind |-> "unknown", ok |-> TRUE, purpose |-> purpose]
        /\ catalog' = catalog
    BY <1>5 DEF propose_template, First
  <2>2. TypeOK'
    BY <1>0, <1>00, <1>01, <1>5 DEF propose_template, TypeOK
  <2>3. last'.kind = "unknown" /\ last'.purpose = purpose
    BY <2>1
  <2>4. FoundByKeywords'
    BY <1>0, <2>1, <2>3, FirstIs DEF FoundByKeywords
  <2> QED BY <2>2, <2>3, <2>4 DEF IInv, RulesSayWhatWasAnswered, TemplatesPermitWhatWasListed
<1>6. CASE Write
  <2>1. /\ call' = call /\ purpose' = purpose /\ catalog' = catalog
        /\ last'.ok = FALSE /\ last'.kind = "none"
    BY <1>6 DEF Write, Error
  <2>2. CASE call = "rule"
    <3>1. PICK l \in RuleLines : answer' = Append(answer, l)
      BY <1>6, <2>2 DEF Write
    <3>2. answer \in Seq(RuleLines)
      BY <1>0, <2>2 DEF TypeOK
    <3>3. answer' \in Seq(RuleLines)
      BY <3>1, <3>2, AppendProperties
    <3>4. TypeOK'
      BY <1>0, <2>1, <2>2, <3>3 DEF TypeOK
    <3> QED BY <2>1, <3>4, SaysNothing
  <2>3. CASE call = "template"
    <3>1. PICK l \in TemplateLines : answer' = Append(answer, l)
      BY <1>6, <2>3 DEF Write
    <3>2. answer \in Seq(TemplateLines)
      BY <1>0, <2>3 DEF TypeOK
    <3>3. answer' \in Seq(TemplateLines)
      BY <3>1, <3>2, AppendProperties
    <3>4. TypeOK'
      BY <1>0, <2>1, <2>3, <3>3 DEF TypeOK
    <3> QED BY <2>1, <3>4, SaysNothing
  <2> QED BY <1>6, <2>2, <2>3 DEF Write
<1>7. CASE GenerateFails
  <2>1. TypeOK' /\ last'.ok = FALSE /\ last'.kind = "cognition"
    BY <1>0, <1>00, <1>7 DEF GenerateFails, TypeOK, Error
  <2> QED BY <2>1, SaysNothing
<1>8. CASE RuleProposed
  <2>1. TypeOK'
    BY <1>0, <1>00, <1>8 DEF RuleProposed, TypeOK
  <2>2. answer \in Seq(Lines)
    <3>1. answer \in Seq(RuleLines) /\ RuleLines \subseteq Lines
      BY <1>0, <1>8 DEF RuleProposed, TypeOK, Lines
    <3> QED BY <3>1, SeqMonotonic
  <2>3. CASE ParseRule(answer) = Nothing
    <3>1. last'.ok = FALSE /\ last'.kind = "rule"
      BY <1>8, <2>3 DEF RuleProposed
    <3> QED BY <2>1, <3>1, SaysNothing
  <2>4. CASE ParseRule(answer) # Nothing
    <3>1. /\ last'.kind = "rule" /\ last'.answer = answer
          /\ last'.made = ParseRule(answer) /\ last'.made # Nothing
      BY <1>8, <2>4 DEF RuleProposed
    <3>2. RulesSayWhatWasAnswered'
      BY <2>2, <3>1, RuleSays DEF RulesSayWhatWasAnswered
    <3> QED BY <2>1, <3>1, <3>2 DEF IInv, TemplatesPermitWhatWasListed, FoundByKeywords
  <2> QED BY <2>3, <2>4
<1>9. CASE TemplateProposed
  <2>1. answer \in Seq(TemplateLines) /\ catalog \in Seq(Seq(TemplateWords))
    BY <1>0, <1>9 DEF TemplateProposed, TypeOK
  <2>2. answer \in Seq(Lines)
    <3>1. TemplateLines \subseteq Lines
      BY DEF Lines
    <3> QED BY <2>1, <3>1, SeqMonotonic
  <2>3. CASE ParseTemplate(answer) = Nothing
    <3>1. TypeOK' /\ last'.ok = FALSE /\ last'.kind = "template"
      BY <1>0, <1>00, <1>9, <2>3 DEF TemplateProposed, TypeOK
    <3> QED BY <3>1, SaysNothing
  <2>4. CASE ParseTemplate(answer) # Nothing
    <3>1. /\ last'.kind = "template" /\ last'.answer = answer
          /\ last'.made = ParseTemplate(answer) /\ last'.made # Nothing
          /\ catalog' \in {catalog, Append(catalog, ParseTemplate(answer).text)}
      BY <1>9, <2>4 DEF TemplateProposed
    <3>2. ParseTemplate(answer).text \in Seq(TemplateWords)
      BY <2>1, <2>4, TemplateText
    <3>3. catalog' \in Seq(Seq(TemplateWords))
      <4>1. Append(catalog, ParseTemplate(answer).text) \in Seq(Seq(TemplateWords))
        BY <2>1, <3>2, AppendProperties
      <4> QED BY <2>1, <3>1, <4>1
    <3>4. TypeOK'
      BY <1>0, <1>00, <1>9, <3>3 DEF TemplateProposed, TypeOK
    <3>5. TemplatesPermitWhatWasListed'
      BY <2>2, <3>1, TemplateLists DEF TemplatesPermitWhatWasListed
    <3> QED BY <3>1, <3>4, <3>5 DEF IInv, RulesSayWhatWasAnswered, FoundByKeywords
  <2> QED BY <2>3, <2>4
<1>10. CASE UNCHANGED vars
  <2>1. TypeOK' /\ last' = last /\ catalog' = catalog
    BY <1>0, <1>10 DEF vars, TypeOK
  <2> QED BY <2>1, SaysNothing
<1> QED BY <1>1, <1>2, <1>3, <1>4, <1>5, <1>6, <1>7, <1>8, <1>9, <1>10 DEF Next

LEMMA SpecIInv == Spec => []IInv
<1> QED BY InitIInv, StepIInv, PTL DEF Spec

(***************************************************************************)
(* Theorems                                                                *)
(***************************************************************************)

\* propose_rule and resolve_or_propose keep purpose and answer to one call, and the catalogue
\* of texts.
THEOREM TypeCorrect == Spec => []TypeOK
<1>1. IInv => TypeOK
  BY DEF IInv
<1> QED BY <1>1, SpecIInv, PTL

\* parse_response of guardian_bridge.rs makes the rule that the last lines of an answer say,
\* of any answer at all (RulesSayWhatWasAnswered).
THEOREM RulesAreFaithful == Spec => []RulesSayWhatWasAnswered
<1>1. IInv => RulesSayWhatWasAnswered
  BY DEF IInv
<1> QED BY <1>1, SpecIInv, PTL

\* parse_response of permissions_bridge.rs permits exactly what the CAPABILITY lines of an
\* answer list, of any answer at all (TemplatesPermitWhatWasListed).
THEOREM TemplatesAreFaithful == Spec => []TemplatesPermitWhatWasListed
<1>1. IInv => TemplatesPermitWhatWasListed
  BY DEF IInv
<1> QED BY <1>1, SpecIInv, PTL

\* The first template of the catalogue that shares a word with the purpose is taken, and the
\* model is asked only if there is none, for any texts (FoundByKeywords).
THEOREM PurposesAreFound == Spec => []FoundByKeywords
<1>1. IInv => FoundByKeywords
  BY DEF IInv
<1> QED BY <1>1, SpecIInv, PTL
================================================================================
