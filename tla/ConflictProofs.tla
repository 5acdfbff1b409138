---------------------------- MODULE ConflictProofs ----------------------------
(***************************************************************************)
(* Theorems about conflicts over resources: any number of purposes, ports     *)
(* and conflicts at the same time.                                         *)
(***************************************************************************)
EXTENDS Conflict, TLAPS, WellFoundedInduction

(***************************************************************************)
(* The first free port                                                     *)
(***************************************************************************)

\* A set of numbers has a least one, which is its only one.
LEMMA LeastNumber ==
  ASSUME NEW S \in SUBSET Nat, S # {}
  PROVE  Min(S) \in S /\ \A n \in S : Min(S) <= n
<1> DEFINE Below == OpToRel(<, Nat)
<1>1. Below = {ss \in Nat \X Nat : ss[1] < ss[2]}
  BY Zenon DEF OpToRel
<1>2. \E m \in S : \A n \in S : <<n, m>> \notin Below
  BY NatLessThanWellFounded, WFMin
<1> HIDE DEF Below
<1>3. \A m, n \in Nat : <<n, m>> \notin Below => m <= n
  BY <1>1
<1>4. \E m \in S : \A n \in S : m <= n
  BY <1>2, <1>3
<1> QED
  BY <1>4 DEF Min

\* The least number of a set is the one below all others.
LEMMA MinIsThe ==
  ASSUME NEW S \in SUBSET Nat, NEW m \in S, \A n \in S : m <= n
  PROVE  Min(S) = m
<1>1. Min(S) \in S /\ Min(S) <= m
  BY LeastNumber
<1>2. m <= Min(S)
  BY <1>1
<1>3. Min(S) \in Nat /\ m \in Nat
  BY <1>1
<1>4. \A a, b \in Nat : a <= b /\ b <= a => a = b
  OBVIOUS
<1> QED
  BY <1>1, <1>2, <1>3, <1>4, Zenon

Free(used, protocol) == {n \in FirstPort..LastPort : <<"net", protocol, n>> \notin used}

\* The search finds the first port of the range that is not in use, if there is one.
LEMMA FirstFreePort ==
  ASSUME NEW used, NEW protocol
  PROVE  FreePort(used, protocol) =
           IF Free(used, protocol) = {} THEN Nothing
           ELSE <<"net", protocol, Min(Free(used, protocol))>>
<1> DEFINE range == PORT_SEARCH_RANGE
           found == {n \in 1..Len(range) : <<"net", protocol, range[n]>> \notin used}
           k == IF found # {} THEN Min(found) ELSE 0
<1>0. FirstPort \in Nat /\ LastPort \in Nat
  BY ConflictAssumption
<1>1. /\ Len(range) = IF FirstPort <= LastPort THEN LastPort - FirstPort + 1 ELSE 0
      /\ \A n \in 1..Len(range) : range[n] = FirstPort + n - 1
  <2>1. CASE FirstPort <= LastPort
    <3>1. LastPort - FirstPort + 1 \in Nat
      BY <2>1, <1>0
    <3>2. range \in [1..(LastPort - FirstPort + 1) -> Int]
      BY <3>1, <1>0 DEF PORT_SEARCH_RANGE
    <3>3. Len(range) = LastPort - FirstPort + 1
      BY <3>1, <3>2
    <3> QED
      BY <2>1, <3>1, <3>3, <1>0 DEF PORT_SEARCH_RANGE
  <2>2. CASE ~(FirstPort <= LastPort)
    <3>1. 1..(LastPort - FirstPort + 1) = {}
      BY <2>2, <1>0
    <3>2. range = <<>>
      BY <3>1 DEF PORT_SEARCH_RANGE
    <3> QED
      BY <2>2, <3>2
  <2> QED
    BY <2>1, <2>2
<1>2. FreePort(used, protocol) = IF k = 0 THEN Nothing ELSE <<"net", protocol, range[k]>>
  BY DEF FreePort, SelectInSeq, is_port_available
<1> HIDE DEF range
<1>3. CASE found = {}
  <2>1. Free(used, protocol) = {}
    <3> SUFFICES ASSUME NEW n \in FirstPort..LastPort, <<"net", protocol, n>> \notin used
                 PROVE  FALSE
      BY DEF Free
    <3>1. n - FirstPort + 1 \in 1..Len(range) /\ range[n - FirstPort + 1] = n
      BY <1>1, <1>0
    <3> QED
      BY <1>3, <3>1
  <2> QED
    BY <1>2, <1>3, <2>1
<1>4. CASE found # {}
  <2>1. found \in SUBSET Nat
    BY <1>1, <1>0
  <2>2. k \in found /\ \A n \in found : k <= n
    BY <1>4, <2>1, LeastNumber
  <2>3. range[k] \in Free(used, protocol)
    <3>1. k \in 1..Len(range) /\ <<"net", protocol, range[k]>> \notin used
      BY <2>2
    <3>2. range[k] \in FirstPort..LastPort
      BY <1>0, <1>1, <3>1
    <3> HIDE DEF k
    <3> QED
      BY <3>1, <3>2 DEF Free
  <2>4. ASSUME NEW n \in Free(used, protocol)
        PROVE  range[k] <= n
    <3>1. n - FirstPort + 1 \in found
      <4>1. n \in FirstPort..LastPort /\ <<"net", protocol, n>> \notin used
        BY DEF Free
      <4>2. n - FirstPort + 1 \in 1..Len(range) /\ range[n - FirstPort + 1] = n
        BY <1>0, <1>1, <4>1
      <4> QED
        BY <4>1, <4>2
    <3>2. k <= n - FirstPort + 1
      BY <2>2, <3>1
    <3>3. k \in 1..Len(range) /\ n \in Nat /\ range[k] = FirstPort + k - 1
      BY <1>0, <1>1, <2>2 DEF Free
    <3> HIDE DEF k
    <3> QED
      BY <1>0, <1>1, <3>2, <3>3
  <2>5. Free(used, protocol) \in SUBSET Nat
    BY <1>0 DEF Free
  <2>6. Min(Free(used, protocol)) = range[k]
    BY <2>3, <2>4, <2>5, MinIsThe
  <2>7. k # 0
    BY <2>1, <2>2
  <2> QED
    BY <1>2, <2>3, <2>6, <2>7
<1> QED
  BY <1>3, <1>4

(***************************************************************************)
(* Induction and recursion                                                 *)
(***************************************************************************)

\* Induction over the numbers from 0 to n.
LEMMA UpTo ==
  ASSUME NEW n \in Nat, NEW S, 0 \in S, \A u \in 0 .. n - 1 : u \in S => u + 1 \in S
  PROVE  \A u \in 0 .. n : u \in S
<1> SUFFICES ASSUME \E u \in 0 .. n : u \notin S PROVE FALSE
  OBVIOUS
<1> DEFINE B == {u \in 0 .. n : u \notin S}
<1>1. PICK m \in B : \A u \in B : m <= u
  <2>1. B \subseteq Nat /\ B # {}
    OBVIOUS
  <2> HIDE DEF B
  <2> QED BY <2>1, LeastNumber
<1>2. m # 0 /\ m - 1 \in 0 .. n - 1 /\ (m - 1) + 1 = m /\ m - 1 \notin B
  BY <1>1
<1> QED BY <1>1, <1>2

\* f is given by its first value and a step; there is such an f.
Given(f, n, V, base, step) ==
  f \in [0 .. n -> V] /\ f[0] = base /\ \A k \in 1 .. n : f[k] = step[<<f[k - 1], k>>]

\* There is a function with a given first value and a given step to the next.
LEMMA Recursion ==
  ASSUME NEW n \in Nat, NEW V, NEW base \in V, NEW step \in [V \X (1 .. n) -> V]
  PROVE  \E f : Given(f, n, V, base, step)
<1> DEFINE S == {m \in 0 .. n : \E f : Given(f, m, V, base, step)}
<1>1. 0 \in S
  <2>1. Given([k \in 0 .. 0 |-> base], 0, V, base, step)
    BY DEF Given
  <2> QED BY <2>1
<1>2. ASSUME NEW m \in 0 .. n - 1, m \in S
      PROVE  m + 1 \in S
  <2>1. PICK f : Given(f, m, V, base, step)
    BY <1>2
  <2>2. m \in Nat /\ m + 1 \in 1 .. n /\ m \in 0 .. m /\ f \in [0 .. m -> V] /\ f[m] \in V
    BY <2>1 DEF Given
  <2> DEFINE next == step[<<f[m], m + 1>>]
             g == [k \in 0 .. m + 1 |-> IF k <= m THEN f[k] ELSE next]
  <2>3. next \in V
    BY <2>2
  <2> HIDE DEF next
  <2>4. g \in [0 .. m + 1 -> V]
    <3>1. \A k \in 0 .. m + 1 : k <= m => f[k] \in V
      BY <2>2
    <3> QED BY <2>3, <3>1
  <2>5. \A k \in 0 .. m : g[k] = f[k]
    BY <2>2
  <2>6. g[m + 1] = next
    BY <2>2
  <2> HIDE DEF g
  <2>7. \A k \in 1 .. m + 1 : g[k] = step[<<g[k - 1], k>>]
    <3> TAKE k \in 1 .. m + 1
    <3>1. CASE k = m + 1
      <4>1. k - 1 = m /\ g[k - 1] = f[m]
        BY <3>1, <2>2, <2>5
      <4> QED BY <3>1, <4>1, <2>6 DEF next
    <3>2. CASE k # m + 1
      <4>1. k \in 1 .. m /\ k \in 0 .. m /\ k - 1 \in 0 .. m
        BY <3>2, <2>2
      <4> QED BY <4>1, <2>1, <2>5 DEF Given
    <3> QED BY <3>1, <3>2
  <2>8. g[0] = base
    BY <2>1, <2>2, <2>5 DEF Given
  <2>9. Given(g, m + 1, V, base, step)
    BY <2>4, <2>7, <2>8 DEF Given
  <2> QED BY <2>2, <2>9
<1> HIDE DEF S
<1>3. n \in S
  BY <1>1, <1>2, UpTo
<1> QED BY <1>3 DEF S

(***************************************************************************)
(* The lines of an answer                                                  *)
(***************************************************************************)

\* The map after line n, from the map before it.
After(fields, line) == IF HasColon(line) THEN With(fields, Key(line), Value(line)) ELSE fields

\* Of the first n lines the last one of every key is in the map, and nothing else.
LastLines(fields, lines, n) ==
  /\ \A k \in 1..n : HasColon(lines[k]) => Key(lines[k]) \in DOMAIN fields
  /\ \A key \in DOMAIN fields :
       \E k \in 1..n :
         /\ HasColon(lines[k]) /\ Key(lines[k]) = key /\ Value(lines[k]) = fields[key]
         /\ \A m \in (k + 1)..n : HasColon(lines[m]) => Key(lines[m]) # key

\* One line more.
LEMMA LineAdded ==
  ASSUME NEW lines, NEW n \in Nat, NEW fields, LastLines(fields, lines, n)
  PROVE  LastLines(After(fields, lines[n + 1]), lines, n + 1)
<1> DEFINE line == lines[n + 1]
           new == After(fields, line)
<1>1. \A k : k \in 1..(n + 1) <=> k \in 1..n \/ k = n + 1
  OBVIOUS
<1>2. \A k \in 1..n : \A m : m \in (k + 1)..(n + 1) <=> m \in (k + 1)..n \/ m = n + 1
  OBVIOUS
<1>3. (n + 1 + 1)..(n + 1) = {}
  OBVIOUS
<1>4. CASE HasColon(line)
  <2>1. /\ DOMAIN new = DOMAIN fields \union {Key(line)} /\ new[Key(line)] = Value(line)
        /\ \A key \in DOMAIN fields : key # Key(line) => new[key] = fields[key]
    BY <1>4 DEF After, With
  <2> HIDE DEF new
  <2>2. ASSUME NEW k \in 1..(n + 1), HasColon(lines[k])
        PROVE  Key(lines[k]) \in DOMAIN new
    BY <1>1, <2>1, <2>2 DEF LastLines
  <2>3. ASSUME NEW key \in DOMAIN new
        PROVE  \E k \in 1..(n + 1) :
                 /\ HasColon(lines[k]) /\ Key(lines[k]) = key /\ Value(lines[k]) = new[key]
                 /\ \A m \in (k + 1)..(n + 1) : HasColon(lines[m]) => Key(lines[m]) # key
    <3>1. CASE key = Key(line)
      <4>1. n + 1 \in 1..(n + 1)
        OBVIOUS
      <4> QED BY <1>3, <1>4, <2>1, <3>1, <4>1
    <3>2. CASE key # Key(line)
      <4>1. key \in DOMAIN fields /\ new[key] = fields[key]
        BY <2>1, <3>2
      <4>2. PICK k \in 1..n :
              /\ HasColon(lines[k]) /\ Key(lines[k]) = key /\ Value(lines[k]) = fields[key]
              /\ \A m \in (k + 1)..n : HasColon(lines[m]) => Key(lines[m]) # key
        BY <4>1 DEF LastLines
      <4>3. k \in 1..(n + 1)
        BY <1>1
      <4>4. \A m \in (k + 1)..(n + 1) : HasColon(lines[m]) => Key(lines[m]) # key
        BY <1>2, <3>2, <4>2
      <4> QED BY <4>1, <4>2, <4>3, <4>4
    <3> QED BY <3>1, <3>2
  <2>4. LastLines(new, lines, n + 1)
    BY <2>2, <2>3 DEF LastLines
  <2> QED BY <2>4 DEF new
<1>5. CASE ~HasColon(line)
  <2>1. new = fields
    BY <1>5 DEF After
  <2>2. ASSUME NEW k \in 1..(n + 1), HasColon(lines[k])
        PROVE  Key(lines[k]) \in DOMAIN fields
    BY <1>1, <1>5, <2>2 DEF LastLines
  <2>3. ASSUME NEW key \in DOMAIN fields
        PROVE  \E k \in 1..(n + 1) :
                 /\ HasColon(lines[k]) /\ Key(lines[k]) = key /\ Value(lines[k]) = fields[key]
                 /\ \A m \in (k + 1)..(n + 1) : HasColon(lines[m]) => Key(lines[m]) # key
    <3>1. PICK k \in 1..n :
            /\ HasColon(lines[k]) /\ Key(lines[k]) = key /\ Value(lines[k]) = fields[key]
            /\ \A m \in (k + 1)..n : HasColon(lines[m]) => Key(lines[m]) # key
      BY DEF LastLines
    <3>2. \A m \in (k + 1)..(n + 1) : HasColon(lines[m]) => Key(lines[m]) # key
      BY <1>2, <1>5, <3>1
    <3>3. k \in 1..(n + 1)
      BY <1>1
    <3> QED BY <3>1, <3>2, <3>3
  <2>4. LastLines(fields, lines, n + 1)
    BY <2>2, <2>3 DEF LastLines
  <2> QED BY <2>1, <2>4
<1> QED BY <1>4, <1>5

\* The map of an answer is the map after its last line.
LEMMA FieldsOf ==
  ASSUME NEW lines, Len(lines) \in Nat
  PROVE  LastLines(parse_key_value_lines(lines), lines, Len(lines))
<1> DEFINE n == Len(lines)
           F(f) == [k \in 0 .. n |-> IF k = 0 THEN <<>>
                      ELSE IF HasColon(lines[k])
                      THEN With(f[k - 1], Key(lines[k]), Value(lines[k])) ELSE f[k - 1]]
           Keys == {Key(lines[k]) : k \in 1 .. n}
           Values == {Value(lines[k]) : k \in 1 .. n}
           Maps == UNION {[D -> Values] : D \in SUBSET Keys}
<1>0. n \in Nat
  OBVIOUS
<1> HIDE DEF n
<1>1. \A m \in Maps, k \in 1 .. n : After(m, lines[k]) \in Maps
  <2> SUFFICES ASSUME NEW m \in Maps, NEW k \in 1 .. n PROVE After(m, lines[k]) \in Maps
    OBVIOUS
  <2>1. PICK D \in SUBSET Keys : m \in [D -> Values]
    OBVIOUS
  <2>2. CASE HasColon(lines[k])
    <3> DEFINE E == D \union {Key(lines[k])}
               g == With(m, Key(lines[k]), Value(lines[k]))
    <3>1. Key(lines[k]) \in Keys /\ Value(lines[k]) \in Values
      OBVIOUS
    <3>2. E \in SUBSET Keys
      BY <3>1
    <3>3. g = [x \in E |-> IF x = Key(lines[k]) THEN Value(lines[k]) ELSE m[x]]
      BY <2>1 DEF With
    <3>4. \A x \in E : (IF x = Key(lines[k]) THEN Value(lines[k]) ELSE m[x]) \in Values
      BY <2>1, <3>1
    <3> HIDE DEF g, E, Keys, Values
    <3>5. g \in [E -> Values]
      BY <3>3, <3>4
    <3> QED BY <2>2, <3>2, <3>5 DEF After, g
  <2>3. CASE ~HasColon(lines[k])
    BY <2>3 DEF After
  <2> QED BY <2>2, <2>3
<1>2. <<>> \in Maps
  <2>1. <<>> \in [{} -> Values]
    OBVIOUS
  <2>2. {} \in SUBSET Keys
    OBVIOUS
  <2> HIDE DEF Keys, Values
  <2> QED BY <2>1, <2>2
<1> HIDE DEF Maps
<1>3. PICK step \in [Maps \X (1 .. n) -> Maps] :
             \A m \in Maps : \A k \in 1 .. n : step[<<m, k>>] = After(m, lines[k])
  <2> DEFINE st == [p \in Maps \X (1 .. n) |-> After(p[1], lines[p[2]])]
  <2>1. st \in [Maps \X (1 .. n) -> Maps]
    BY <1>0, <1>1
  <2>2. \A m \in Maps : \A k \in 1 .. n : st[<<m, k>>] = After(m, lines[k])
    OBVIOUS
  <2> HIDE DEF st
  <2> QED BY <2>1, <2>2
<1>4. PICK f \in [0 .. n -> Maps] : f[0] = <<>> /\ \A k \in 1 .. n : f[k] = step[<<f[k - 1], k>>]
  <2>1. PICK f : Given(f, n, Maps, <<>>, step)
    BY <1>0, <1>2, Recursion
  <2> QED BY <2>1 DEF Given
<1>5. f = F(f)
  <2>1. \A k \in 0 .. n : f[k] = F(f)[k]
    <3> TAKE k \in 0 .. n
    <3>1. CASE k = 0
      BY <3>1, <1>4
    <3>2. CASE k # 0
      <4>1. k \in 1 .. n /\ k - 1 \in 0 .. n /\ f[k - 1] \in Maps
        BY <3>2, <1>0, <1>4
      <4>2. f[k] = After(f[k - 1], lines[k])
        BY <4>1, <1>3, <1>4
      <4>3. F(f)[k] = After(f[k - 1], lines[k])
        BY <3>2 DEF After
      <4> QED BY <4>2, <4>3
    <3> QED BY <3>1, <3>2
  <2> HIDE DEF F
  <2>2. F(f) = [k \in 0 .. n |-> F(f)[k]]
    BY DEF F
  <2>3. f = [k \in 0 .. n |-> f[k]]
    BY <1>4
  <2> QED BY <2>1, <2>2, <2>3
<1> DEFINE fields == CHOOSE f_1 : f_1 = F(f_1)
<1>6. fields = F(fields)
  <2> HIDE DEF F
  <2> QED BY <1>5
<1>7. parse_key_value_lines(lines) = fields[n]
  BY DEF parse_key_value_lines, n
<1> HIDE DEF fields
<1>8. /\ fields[0] = <<>>
      /\ \A k \in 1 .. n : fields[k] = After(fields[k - 1], lines[k])
  <2>1. fields[0] = <<>>
    BY <1>0, <1>6
  <2>2. ASSUME NEW k \in 1 .. n PROVE fields[k] = After(fields[k - 1], lines[k])
    <3>1. k \in 0 .. n /\ k # 0
      BY <1>0
    <3>2. F(fields)[k] = After(fields[k - 1], lines[k])
      BY <3>1 DEF After
    <3>3. F(fields)[k] = fields[k]
      <4> HIDE DEF F
      <4> QED BY <1>6
    <3> QED BY <3>2, <3>3
  <2> QED BY <2>1, <2>2
<1> HIDE DEF F
<1> DEFINE S == {k \in 0 .. n : LastLines(fields[k], lines, k)}
<1>9. 0 \in S
  <2>1. LastLines(<<>>, lines, 0)
    BY DEF LastLines
  <2> QED BY <1>0, <1>8, <2>1
<1>10. ASSUME NEW k \in 0 .. n - 1, k \in S PROVE k + 1 \in S
  <2>1. k + 1 \in 1 .. n /\ (k + 1) - 1 = k /\ k + 1 \in 0 .. n /\ k \in Nat
    BY <1>0
  <2>2. LastLines(fields[k], lines, k) /\ fields[k + 1] = After(fields[k], lines[k + 1])
    BY <1>8, <1>10, <2>1
  <2> QED BY <2>1, <2>2, LineAdded
<1> HIDE DEF S
<1>11. \A k \in 0 .. n : k \in S
  BY <1>0, <1>9, <1>10, UpTo
<1>12. n \in S
  BY <1>0, <1>11
<1> QED BY <1>7, <1>12 DEF S, n

\* parse_key_value_lines: the map has a key with a value exactly if the last line of the key
\* says so.
LEMMA FieldsSay ==
  ASSUME NEW lines, Len(lines) \in Nat, DOMAIN lines = 1..Len(lines), NEW key, NEW value
  PROVE  LET fields == parse_key_value_lines(lines)
         IN  (key \in DOMAIN fields /\ fields[key] = value) <=> Says(lines, key, value)
<1> DEFINE fields == parse_key_value_lines(lines)
           n == Len(lines)
<1>1. LastLines(fields, lines, n) /\ n \in Nat /\ DOMAIN lines = 1..n
  BY FieldsOf
<1>2. Says(lines, key, value) <=>
        \E k \in 1..n :
          /\ HasColon(lines[k]) /\ Key(lines[k]) = key /\ Value(lines[k]) = value
          /\ \A m \in (k + 1)..n : HasColon(lines[m]) => Key(lines[m]) # key
  BY <1>1 DEF Says
<1> HIDE DEF fields, n
<1>3. ASSUME key \in DOMAIN fields, fields[key] = value PROVE Says(lines, key, value)
  BY <1>1, <1>2, <1>3 DEF LastLines
<1>4. ASSUME Says(lines, key, value) PROVE key \in DOMAIN fields /\ fields[key] = value
  <2>1. PICK k \in 1..n :
          /\ HasColon(lines[k]) /\ Key(lines[k]) = key /\ Value(lines[k]) = value
          /\ \A m \in (k + 1)..n : HasColon(lines[m]) => Key(lines[m]) # key
    BY <1>2, <1>4
  <2>2. key \in DOMAIN fields
    BY <1>1, <2>1 DEF LastLines
  <2>3. PICK l \in 1..n :
          /\ HasColon(lines[l]) /\ Key(lines[l]) = key /\ Value(lines[l]) = fields[key]
          /\ \A m \in (l + 1)..n : HasColon(lines[m]) => Key(lines[m]) # key
    BY <1>1, <2>2 DEF LastLines
  <2>4. l \notin (k + 1)..n /\ k \notin (l + 1)..n
    BY <2>1, <2>3
  <2>5. l = k
    BY <1>1, <2>4
  <2> QED BY <2>1, <2>2, <2>3, <2>5
<1> QED BY <1>3, <1>4 DEF fields

(***************************************************************************)
(* What a conflict knows                                                   *)
(***************************************************************************)

Alternatives == {<<"net", r[2], n>> : r \in {x \in Wanted : IsPort(x)}, n \in FirstPort..LastPort}

\* Every port of the range is an alternative of the wanted one.
LEMMA AlternativesOf ==
  ASSUME NEW x \in Wanted, IsPort(x), NEW n \in FirstPort..LastPort
  PROVE  <<"net", x[2], n>> \in Alternatives
<1>1. \E y \in {z \in Wanted : IsPort(z)}, m \in FirstPort..LastPort :
        <<"net", x[2], n>> = <<"net", y[2], m>>
  OBVIOUS
<1> QED
  BY <1>1 DEF Alternatives

Resources == Wanted \union Alternatives

Stages == {"resolve", "arbitrate", "isolated", "Holder", "Requester"}

Calls ==
  [stage : Stages, wants : Wanted, holder : Purposes, answer : Answers \union {<<>>},
   used : SUBSET (Busy \union Resources), gets : Resources]

TypeOK ==
  /\ holdings \subseteq Purposes \X Resources
  /\ \A p \in Purposes : Pending(p) => request[p] \in Calls
  /\ DOMAIN request = Purposes

\* A port that is held although a conflict takes it for free was taken in a race.
KnowsThePorts ==
  \A p \in Purposes, r \in Resources :
    (Pending(p) /\ IsPort(r) /\ r \notin request[p].used /\ HoldersOf(r) # {}) => r \in raced

\* So was what somebody holds that a conflict takes for its holder's.
KnowsTheHolder ==
  \A p, q \in Purposes :
    (Pending(p) /\ q \in HoldersOf(request[p].wants)) =>
      q = request[p].holder \/ request[p].wants \in raced

\* What a conflict gets is what was asked for or a port it takes for free.
GetsWhatItKnows ==
  \A p \in Purposes :
    Pending(p) =>
      IF request[p].stage = "isolated"
      THEN IsPort(request[p].gets) /\ request[p].gets \notin request[p].used
      ELSE request[p].gets = request[p].wants

IInv == TypeOK /\ KnowsThePorts /\ KnowsTheHolder /\ GetsWhatItKnows /\ SharedOnlyByRace /\ IsolatedFirst

LEMMA InitIInv == Init => IInv
BY DEF Init, IInv, TypeOK, KnowsThePorts, KnowsTheHolder, GetsWhatItKnows, SharedOnlyByRace,
       IsolatedFirst, Pending, HoldersOf

(***************************************************************************)
(* Every step keeps it                                                     *)
(***************************************************************************)

\* Whoever takes something makes it raced for all who do not know.
LEMMA Takes ==
  ASSUME IInv, NEW p \in Purposes, NEW r \in Resources, NEW leaving,
         holdings' = (holdings \ leaving) \union {<<p, r>>},
         raced' = Racing(p, r),
         \A q \in Purposes \ {p} : request'[q] = request[q],
         request'[p] = Nothing, DOMAIN request' = Purposes,
         r \in raced \/ \A q \in HoldersOf(r) : <<q, r>> \in leaving
  PROVE  IInv'
<1> USE DEF Pending
<1>1. /\ holdings \subseteq Purposes \X Resources
      /\ \A q \in Purposes : request[q] # Nothing => request[q] \in Calls
      /\ DOMAIN request = Purposes
  BY DEF IInv, TypeOK
<1>2. TypeOK'
  BY <1>1 DEF TypeOK
<1>3. \A q \in Purposes : \A x : q \in HoldersOf(x)' => q \in HoldersOf(x) \/ (q = p /\ x = r)
  BY DEF HoldersOf
<1>4. /\ raced \subseteq raced'
      /\ \A q \in Purposes \ {p} : Pending(q) /\ Unaware(q, r) => r \in raced'
  BY DEF Racing
<1>5. KnowsThePorts'
  <2> SUFFICES ASSUME NEW q \in Purposes, NEW x \in Resources,
                      request'[q] # Nothing, IsPort(x), x \notin request'[q].used,
                      NEW h \in HoldersOf(x)'
               PROVE  x \in raced'
    BY DEF KnowsThePorts
  <2>1. q # p /\ request'[q] = request[q]
    OBVIOUS
  <2>2. CASE h \in HoldersOf(x)
    BY <1>4, <2>1, <2>2 DEF IInv, KnowsThePorts
  <2>3. CASE x = r
    BY <1>4, <2>1, <2>3 DEF Unaware
  <2> QED
    BY <1>3, <2>2, <2>3 DEF HoldersOf
<1>6. KnowsTheHolder'
  <2> SUFFICES ASSUME NEW a \in Purposes, NEW q \in Purposes,
                      request'[a] # Nothing, <<q, request'[a].wants>> \in holdings'
               PROVE  q = request'[a].holder \/ request'[a].wants \in raced'
    BY DEF KnowsTheHolder, HoldersOf
  <2>1. a # p /\ request'[a] = request[a]
    OBVIOUS
  <2>2. CASE q \in HoldersOf(request[a].wants)
    BY <1>4, <2>1, <2>2 DEF IInv, KnowsTheHolder
  <2>3. CASE request[a].wants = r
    BY <1>4, <2>1, <2>3 DEF Unaware
  <2> QED
    BY <2>1, <2>2, <2>3 DEF HoldersOf
<1>7. GetsWhatItKnows'
  BY DEF IInv, GetsWhatItKnows
<1>8. SharedOnlyByRace'
  <2> SUFFICES ASSUME NEW x, x \notin raced', NEW a \in HoldersOf(x)', NEW b \in HoldersOf(x)'
               PROVE  a = b
    BY DEF SharedOnlyByRace
  <2>1. CASE x = r
    <3>1. \A q \in HoldersOf(x)' : q = p
      BY <1>4, <2>1 DEF HoldersOf
    <3> QED
      BY <3>1
  <2>2. CASE x # r
    <3>1. a \in HoldersOf(x) /\ b \in HoldersOf(x) /\ x \notin raced
      BY <1>4, <2>2 DEF HoldersOf
    <3>2. x \in {pr[2] : pr \in holdings} \ raced
      BY <3>1 DEF HoldersOf
    <3> QED
      BY <3>1, <3>2 DEF IInv, SharedOnlyByRace
  <2> QED
    BY <2>1, <2>2
<1>9. IsolatedFirst'
  BY DEF IInv, IsolatedFirst
<1> QED
  BY <1>2, <1>5, <1>6, <1>7, <1>8, <1>9 DEF IInv

\* A step that decides something about one conflict takes nothing.
LEMMA Decides ==
  ASSUME IInv, NEW p \in Purposes, UNCHANGED <<holdings, raced>>, DOMAIN request' = Purposes,
         \A q \in Purposes \ {p} : request'[q] = request[q],
         Pending(p)' =>
           /\ Pending(p) /\ request'[p] \in Calls
           /\ request'[p].wants = request[p].wants /\ request'[p].used = request[p].used
           /\ request'[p].holder = request[p].holder
           /\ IF request'[p].stage = "isolated"
              THEN IsPort(request'[p].gets) /\ request'[p].gets \notin request'[p].used
              ELSE request'[p].gets = request'[p].wants
           /\ IsPort(request'[p].wants) =>
                LET c == request'[p]
                    free == Free(c.used, c.wants[2])
                IN  /\ c.stage \in {"arbitrate", "Holder", "Requester"} => free = {}
                    /\ c.stage = "isolated" => free # {} /\ c.gets = <<"net", c.wants[2], Min(free)>>
  PROVE  IInv'
<1> USE DEF Pending
<1>1. TypeOK'
  BY DEF IInv, TypeOK
<1>2. \A x : HoldersOf(x)' = HoldersOf(x)
  BY DEF HoldersOf
<1>3. KnowsThePorts'
  BY <1>2 DEF IInv, KnowsThePorts
<1>4. KnowsTheHolder'
  BY DEF IInv, KnowsTheHolder, HoldersOf
<1>5. GetsWhatItKnows'
  BY DEF IInv, GetsWhatItKnows
<1>6. SharedOnlyByRace'
  BY DEF IInv, SharedOnlyByRace, HoldersOf
<1>7. IsolatedFirst'
  BY DEF IInv, IsolatedFirst, Free
<1> QED
  BY <1>1, <1>3, <1>4, <1>5, <1>6, <1>7 DEF IInv

\* One lemma for each action: it keeps the invariant.
LEMMA TakeStep ==
  ASSUME IInv, NEW p \in Purposes, NEW r \in Wanted, Take(p, r)
  PROVE  IInv'
<1> DEFINE leaving == {}
<1>1. /\ holdings' = (holdings \ leaving) \union {<<p, r>>}
      /\ raced' = Racing(p, r) /\ request' = request /\ request[p] = Nothing
      /\ HoldersOf(r) = {}
  BY DEF Take, Pending
<1>2. r \in Resources /\ DOMAIN request = Purposes
  BY DEF Resources, IInv, TypeOK
<1> HIDE DEF leaving
<1> QED
  BY <1>1, <1>2, Takes

LEMMA AskStep ==
  ASSUME IInv, NEW p \in Purposes, NEW r \in Wanted, Ask(p, r)
  PROVE  IInv'
<1> USE DEF Pending
<1>1. PICK h \in HoldersOf(r) :
        request' = [request EXCEPT ![p] =
                     [stage |-> "resolve", wants |-> r, holder |-> h, answer |-> <<>>,
                      used |-> Busy \union {hr[2] : hr \in {x \in holdings : IsPort(x[2])}},
                      gets |-> r]]
  BY DEF Ask
<1> DEFINE used == Busy \union {hr[2] : hr \in {x \in holdings : IsPort(x[2])}}
<1>2. /\ holdings \subseteq Purposes \X Resources
      /\ \A q \in Purposes : request[q] # Nothing => request[q] \in Calls
      /\ DOMAIN request = Purposes
  BY DEF IInv, TypeOK
<1>3. used \subseteq Busy \union Resources
  BY <1>2
<1>4. \A q \in Purposes : \A x : <<q, x>> \in holdings /\ IsPort(x) => x \in used
  OBVIOUS
<1>5. /\ DOMAIN request' = Purposes
      /\ \A q \in Purposes \ {p} : request'[q] = request[q]
      /\ request'[p] = [stage |-> "resolve", wants |-> r, holder |-> h, answer |-> <<>>,
                        used |-> used, gets |-> r]
  BY <1>1, <1>2
<1> HIDE DEF used
<1>6. /\ request'[p].stage = "resolve" /\ request'[p].wants = r /\ request'[p].holder = h
      /\ request'[p].used = used /\ request'[p].gets = r
  BY <1>5
<1>7. UNCHANGED <<holdings, raced>> /\ \A x : HoldersOf(x)' = HoldersOf(x)
  BY DEF Ask, HoldersOf
<1>8. TypeOK'
  <2>1. h \in Purposes /\ r \in Resources
    BY DEF HoldersOf, Resources
  <2>2. request'[p] \in Calls
    BY <1>3, <1>5, <2>1 DEF Calls, Stages
  <2> QED
    BY <1>2, <1>5, <1>7, <2>2 DEF TypeOK
<1>9. KnowsThePorts'
  BY <1>4, <1>5, <1>6, <1>7 DEF IInv, KnowsThePorts, HoldersOf
<1>10. KnowsTheHolder'
  <2> SUFFICES ASSUME NEW a \in Purposes, NEW q \in Purposes,
                      request'[a] # Nothing, <<q, request'[a].wants>> \in holdings'
               PROVE  q = request'[a].holder \/ request'[a].wants \in raced'
    BY DEF KnowsTheHolder, HoldersOf
  <2>1. CASE a = p
    <3>1. q \in HoldersOf(r) /\ h \in HoldersOf(r) /\ raced' = raced
      BY <1>6, <1>7, <2>1 DEF HoldersOf
    <3>2. r \in {pr[2] : pr \in holdings}
      BY <3>1 DEF HoldersOf
    <3> QED
      BY <1>6, <2>1, <3>1, <3>2 DEF IInv, SharedOnlyByRace
  <2>2. CASE a # p
    BY <1>5, <1>7, <2>2 DEF IInv, KnowsTheHolder, HoldersOf
  <2> QED
    BY <2>1, <2>2
<1>11. GetsWhatItKnows'
  BY <1>5, <1>6 DEF IInv, GetsWhatItKnows
<1>12. SharedOnlyByRace'
  BY <1>7 DEF IInv, SharedOnlyByRace, HoldersOf
<1>13. IsolatedFirst'
  BY <1>5, <1>6 DEF IInv, IsolatedFirst
<1> QED
  BY <1>8, <1>9, <1>10, <1>11, <1>12, <1>13 DEF IInv

LEMMA ReleaseStep ==
  ASSUME IInv, NEW p \in Purposes, NEW r, Release(p, r)
  PROVE  IInv'
<1> USE DEF Pending
<1>1. /\ holdings' = holdings \ {<<p, r>>} /\ request' = request
      /\ raced' = raced \ {x \in {r} : HoldersOf(x) = {p}}
  BY DEF Release
<1>2. \A x : HoldersOf(x)' \subseteq HoldersOf(x)
  BY <1>1 DEF HoldersOf
<1>3. \A x, q : q \in HoldersOf(x)' /\ x \in raced => x \in raced'
  BY <1>1 DEF HoldersOf
<1>4. TypeOK'
  BY <1>1 DEF IInv, TypeOK
<1>5. KnowsThePorts'
  BY <1>1, <1>2, <1>3 DEF IInv, KnowsThePorts
<1>6. KnowsTheHolder'
  <2> SUFFICES ASSUME NEW a \in Purposes, NEW q \in Purposes,
                      request[a] # Nothing, <<q, request[a].wants>> \in holdings'
               PROVE  q = request[a].holder \/ request[a].wants \in raced'
    BY <1>1 DEF KnowsTheHolder, HoldersOf
  <2>1. q \in HoldersOf(request[a].wants)
    BY <1>1 DEF HoldersOf
  <2>2. q = request[a].holder \/ request[a].wants \in raced
    BY <2>1 DEF IInv, KnowsTheHolder
  <2>3. request[a].wants \in raced => request[a].wants \in raced'
    BY <1>1, <2>1 DEF HoldersOf
  <2> QED
    BY <2>2, <2>3
<1>7. GetsWhatItKnows'
  BY <1>1 DEF IInv, GetsWhatItKnows
<1>8. SharedOnlyByRace'
  <2> SUFFICES ASSUME NEW x, x \notin raced', NEW a \in HoldersOf(x)', NEW b \in HoldersOf(x)'
               PROVE  a = b
    BY DEF SharedOnlyByRace
  <2>1. a \in HoldersOf(x) /\ b \in HoldersOf(x) /\ x \notin raced
    BY <1>2, <1>3
  <2>2. x \in {pr[2] : pr \in holdings} \ raced
    BY <2>1 DEF HoldersOf
  <2> QED
    BY <2>1, <2>2 DEF IInv, SharedOnlyByRace
<1>9. IsolatedFirst'
  BY <1>1 DEF IInv, IsolatedFirst
<1> QED
  BY <1>4, <1>5, <1>6, <1>7, <1>8, <1>9 DEF IInv

LEMMA ResolveStep ==
  ASSUME IInv, NEW p \in Purposes, ResolveConflict(p)
  PROVE  IInv'
<1> DEFINE r == request[p].wants
           used == request[p].used
           alternative == resolve(r, used)
<1>1. /\ request[p] \in Calls /\ DOMAIN request = Purposes
      /\ request[p].stage = "resolve" /\ Pending(p) /\ UNCHANGED <<holdings, raced>>
      /\ request[p].gets = r
  BY DEF ResolveConflict, IInv, TypeOK, GetsWhatItKnows
<1>2. /\ r \in Wanted /\ r \in Resources
  BY <1>1 DEF Calls, Resources
<1>3. request' = [request EXCEPT ![p] =
                    IF alternative # Nothing
                    THEN [request[p] EXCEPT !.stage = "isolated", !.gets = alternative]
                    ELSE [request[p] EXCEPT !.stage = "arbitrate"]]
  BY DEF ResolveConflict
<1>4. ~IsPort(r) => alternative = Nothing
  BY DEF resolve
<1>5. IsPort(r) => alternative = IF Free(used, r[2]) = {} THEN Nothing
                                 ELSE <<"net", r[2], Min(Free(used, r[2]))>>
  BY FirstFreePort DEF resolve
<1>6. ASSUME IsPort(r), Free(used, r[2]) # {}
      PROVE  LET port == <<"net", r[2], Min(Free(used, r[2]))>>
             IN  port \in Alternatives /\ port # Nothing /\ port \notin used /\ IsPort(port)
  <2>1. Min(Free(used, r[2])) \in Free(used, r[2])
    <3>1. Free(used, r[2]) \in SUBSET Nat
      BY ConflictAssumption DEF Free
    <3> QED
      BY <1>6, <3>1, LeastNumber
  <2>2. <<"net", r[2], Min(Free(used, r[2]))>> \in Alternatives
    <3> HIDE DEF r, used
    <3>1. Min(Free(used, r[2])) \in FirstPort..LastPort
      BY <2>1 DEF Free
    <3>2. r \in {x \in Wanted : IsPort(x)}
      BY <1>2, <1>6
    <3> QED
      BY <3>1, <3>2, AlternativesOf
  <2>3. Nothing \notin Alternatives
    BY ConflictAssumption DEF Alternatives
  <2>4. <<"net", r[2], Min(Free(used, r[2]))>> \notin used
    BY <2>1 DEF Free
  <2> QED
    BY <2>2, <2>3, <2>4 DEF IsPort
<1> HIDE DEF r, used, alternative
<1>7. /\ DOMAIN request' = Purposes /\ \A q \in Purposes \ {p} : request'[q] = request[q]
      /\ request'[p] = IF alternative # Nothing
                       THEN [request[p] EXCEPT !.stage = "isolated", !.gets = alternative]
                       ELSE [request[p] EXCEPT !.stage = "arbitrate"]
  BY <1>1, <1>3
<1>8. CASE alternative # Nothing
  <2>1. /\ IsPort(r) /\ Free(used, r[2]) # {}
        /\ alternative = <<"net", r[2], Min(Free(used, r[2]))>>
        /\ alternative \in Resources /\ alternative \notin used /\ IsPort(alternative)
    BY <1>4, <1>5, <1>6, <1>8 DEF Resources
  <2>2. /\ request'[p] \in Calls /\ request'[p].stage = "isolated"
        /\ request'[p].gets = alternative /\ request'[p].wants = r
        /\ request'[p].used = used /\ request'[p].holder = request[p].holder
    BY <1>1, <1>7, <1>8, <2>1 DEF Calls, Stages, r, used
  <2> QED
    BY <1>1, <1>7, <2>1, <2>2, Decides DEF r, used
<1>9. CASE alternative = Nothing
  <2>1. IsPort(r) => Free(used, r[2]) = {}
    BY <1>5, <1>6, <1>9
  <2>2. /\ request'[p] \in Calls /\ request'[p].stage = "arbitrate"
        /\ request'[p].gets = r /\ request'[p].wants = r
        /\ request'[p].used = used /\ request'[p].holder = request[p].holder
    BY <1>1, <1>7, <1>9 DEF Calls, Stages, r, used
  <2> QED
    BY <1>1, <1>7, <2>1, <2>2, Decides DEF r, used
<1> QED
  BY <1>8, <1>9

LEMMA ArbitrateStep ==
  ASSUME IInv, NEW p \in Purposes, Arbitrate(p)
  PROVE  IInv'
<1>1. /\ request[p] \in Calls /\ DOMAIN request = Purposes
      /\ request[p].stage = "arbitrate" /\ Pending(p) /\ UNCHANGED <<holdings, raced>>
      /\ request[p].gets = request[p].wants
      /\ IsPort(request[p].wants) => Free(request[p].used, request[p].wants[2]) = {}
  BY DEF Arbitrate, IInv, TypeOK, GetsWhatItKnows, IsolatedFirst, Free
<1>2. PICK answer \in Answers :
        request' = [request EXCEPT ![p] =
          CASE Winner(answer) = Nothing -> Nothing
            [] OTHER -> [request[p] EXCEPT !.stage = Winner(answer), !.answer = answer]]
  BY DEF Arbitrate
<1>3. Winner(answer) # Nothing => Winner(answer) \in {"Holder", "Requester"}
  BY DEF Winner
<1>4. /\ DOMAIN request' = Purposes /\ \A q \in Purposes \ {p} : request'[q] = request[q]
  BY <1>1, <1>2
<1>5. CASE Winner(answer) = Nothing
  <2>1. request'[p] = Nothing
    BY <1>1, <1>2, <1>5
  <2> QED
    BY <1>1, <1>4, <2>1, Decides DEF Pending
<1>6. CASE Winner(answer) # Nothing
  <2>1. request'[p] = [request[p] EXCEPT !.stage = Winner(answer), !.answer = answer]
    BY <1>1, <1>2, <1>6
  <2>2. /\ request'[p] \in Calls /\ request'[p].stage \in {"Holder", "Requester"}
        /\ request'[p].gets = request[p].gets /\ request'[p].wants = request[p].wants
        /\ request'[p].used = request[p].used /\ request'[p].holder = request[p].holder
    BY <1>1, <1>3, <1>6, <2>1 DEF Calls, Stages
  <2> QED
    BY <1>1, <1>4, <2>2, Decides
<1> QED
  BY <1>5, <1>6

LEMMA ArbitrateFailsStep ==
  ASSUME IInv, NEW p \in Purposes, ArbitrateFails(p)
  PROVE  IInv'
<1>1. /\ DOMAIN request' = Purposes /\ \A q \in Purposes \ {p} : request'[q] = request[q]
      /\ request'[p] = Nothing /\ UNCHANGED <<holdings, raced>>
  BY DEF ArbitrateFails, IInv, TypeOK
<1> QED
  BY <1>1, Decides DEF Pending

LEMMA SettleStep ==
  ASSUME IInv, NEW p \in Purposes, Settle(p)
  PROVE  IInv'
<1> DEFINE r == request[p].gets
           leaving == {<<h, request[p].wants>> : h \in loser_should_yield(p)}
<1>1. /\ request[p] \in Calls /\ Pending(p)
      /\ request[p].stage \in {"isolated", "Requester", "Holder"}
      /\ DOMAIN request' = Purposes /\ \A q \in Purposes \ {p} : request'[q] = request[q]
      /\ request'[p] = Nothing
  BY DEF Settle, IInv, TypeOK
<1>2. CASE p \in loser_should_yield(p)
  <2>1. UNCHANGED <<holdings, raced>>
    BY <1>2 DEF Settle
  <2> QED
    BY <1>1, <2>1, Decides DEF Pending
<1>3. CASE p \notin loser_should_yield(p)
  <2>1. holdings' = (holdings \ leaving) \union {<<p, r>>} /\ raced' = Racing(p, r)
    BY <1>3 DEF Settle
  <2>2. r \in Resources
    BY <1>1 DEF Calls
  <2>3. r \in raced \/ \A q \in HoldersOf(r) : <<q, r>> \in leaving
    <3>1. CASE request[p].stage = "isolated"
      <4>1. IsPort(r) /\ r \notin request[p].used
        BY <1>1, <3>1 DEF IInv, GetsWhatItKnows
      <4>2. HoldersOf(r) # {} => r \in raced
        BY <1>1, <2>2, <4>1 DEF IInv, KnowsThePorts
      <4> QED
        BY <4>2
    <3>2. CASE request[p].stage = "Requester"
      <4>1. r = request[p].wants
        BY <1>1, <3>2 DEF IInv, GetsWhatItKnows
      <4>2. \A q \in HoldersOf(r) : q = request[p].holder \/ r \in raced
        BY <1>1, <4>1 DEF IInv, KnowsTheHolder, HoldersOf
      <4>3. request[p].holder \in loser_should_yield(p)
        BY <3>2 DEF loser_should_yield
      <4> QED
        BY <4>1, <4>2, <4>3
    <3>3. request[p].stage # "Holder"
      BY <1>3 DEF loser_should_yield
    <3> QED
      BY <1>1, <3>1, <3>2, <3>3
  <2> HIDE DEF r, leaving
  <2> QED
    BY <1>1, <2>1, <2>2, <2>3, Takes
<1> QED
  BY <1>2, <1>3

\* The inductive invariant holds in every state.
LEMMA Invariance == Spec => []IInv
<1>1. IInv /\ [Next]_vars => IInv'
  <2> SUFFICES ASSUME IInv, [Next]_vars
               PROVE  IInv'
    OBVIOUS
  <2>1. CASE UNCHANGED vars
    BY <2>1 DEF vars, IInv, TypeOK, KnowsThePorts, KnowsTheHolder, GetsWhatItKnows,
       SharedOnlyByRace, IsolatedFirst, HoldersOf, Pending
  <2>2. CASE Next
    <3>1. PICK p \in Purposes :
            \/ \E r \in Wanted : Take(p, r) \/ Ask(p, r)
            \/ \E pr \in holdings : Release(p, pr[2])
            \/ ResolveConflict(p) \/ Arbitrate(p) \/ ArbitrateFails(p) \/ Settle(p)
      BY <2>2 DEF Next
    <3>2. CASE \E r \in Wanted : Take(p, r) \/ Ask(p, r)
      BY <3>2, TakeStep, AskStep
    <3>3. CASE \E pr \in holdings : Release(p, pr[2])
      BY <3>3, ReleaseStep
    <3>4. CASE ResolveConflict(p) \/ Arbitrate(p) \/ ArbitrateFails(p) \/ Settle(p)
      BY <3>4, ResolveStep, ArbitrateStep, ArbitrateFailsStep, SettleStep
    <3> QED
      BY <3>1, <3>2, <3>3, <3>4
  <2> QED
    BY <2>1, <2>2
<1> QED
  BY InitIInv, <1>1, PTL DEF Spec

(***************************************************************************)
(* Who loses                                                               *)
(***************************************************************************)

\* A conflict is decided for the one who asks only by an answer that says so.
Verdicts ==
  \A p \in Purposes :
    Pending(p) /\ request[p].stage = "Requester" =>
      Says(request[p].answer, <<"WINNER">>, <<"requester">>)

\* parse_response names the one who asks only if the last word on WINNER does.
LEMMA WinnerSays ==
  ASSUME NEW answer \in Answers, Winner(answer) # Nothing, Winner(answer) = "Requester"
  PROVE  Says(answer, <<"WINNER">>, <<"requester">>)
<1> DEFINE fields == parse_key_value_lines(answer)
<1>1. Len(answer) \in Nat /\ DOMAIN answer = 1..Len(answer)
  <2>1. answer \in Seq(ToSet(answer))
    BY ConflictAssumption
  <2> QED BY <2>1
<1>2. <<"WINNER">> \in DOMAIN fields /\ fields[<<"WINNER">>] = <<"requester">>
  <2>1. Winner(answer) = IF <<"WINNER">> \notin DOMAIN fields THEN Nothing
                         ELSE IF fields[<<"WINNER">>] = <<"requester">> THEN "Requester" ELSE "Holder"
    BY DEF Winner
  <2> HIDE DEF fields
  <2> QED BY <2>1
<1> QED BY <1>1, <1>2, FieldsSay

LEMMA InitVerdicts == Init => Verdicts
BY DEF Init, Verdicts, Pending

\* Whatever the step, a conflict is decided for the one who asks only by an answer that says so.
LEMMA StepVerdicts == ASSUME IInv, Verdicts, [Next]_vars PROVE Verdicts'
<1> USE DEF Pending
<1>0. DOMAIN request = Purposes
  BY DEF IInv, TypeOK
<1>1. ASSUME NEW p \in Purposes, \A q \in Purposes \ {p} : request'[q] = request[q],
             request'[p] # Nothing /\ request'[p].stage = "Requester" =>
               Says(request'[p].answer, <<"WINNER">>, <<"requester">>)
      PROVE  Verdicts'
  BY <1>1 DEF Verdicts
<1>2. CASE UNCHANGED request
  BY <1>2 DEF Verdicts
<1>3. ASSUME NEW p \in Purposes, NEW r \in Wanted, Ask(p, r) PROVE Verdicts'
  <2>1. PICK h : request' = [request EXCEPT ![p] =
                     [stage |-> "resolve", wants |-> r, holder |-> h, answer |-> <<>>,
                      used |-> Busy \union {hr[2] : hr \in {x \in holdings : IsPort(x[2])}},
                      gets |-> r]]
    BY <1>3 DEF Ask
  <2>2. request'[p].stage = "resolve" /\ \A q \in Purposes \ {p} : request'[q] = request[q]
    BY <1>0, <2>1
  <2> QED BY <1>1, <2>2
<1>4. ASSUME NEW p \in Purposes, ResolveConflict(p) PROVE Verdicts'
  <2> DEFINE alternative == resolve(request[p].wants, request[p].used)
  <2>1. request[p] \in Calls
    BY <1>4 DEF ResolveConflict, IInv, TypeOK
  <2>2. request' = [request EXCEPT ![p] =
                       IF alternative # Nothing
                       THEN [@ EXCEPT !.stage = "isolated", !.gets = alternative]
                       ELSE [@ EXCEPT !.stage = "arbitrate"]]
    BY <1>4 DEF ResolveConflict
  <2> HIDE DEF alternative
  <2>3. request'[p].stage \in {"isolated", "arbitrate"} /\ \A q \in Purposes \ {p} : request'[q] = request[q]
    BY <1>0, <2>1, <2>2 DEF Calls
  <2> QED BY <1>1, <2>3
<1>5. ASSUME NEW p \in Purposes, Arbitrate(p) PROVE Verdicts'
  <2>1. PICK answer \in Answers :
          request' = [request EXCEPT ![p] =
            CASE Winner(answer) = Nothing -> Nothing
              [] OTHER -> [request[p] EXCEPT !.stage = Winner(answer), !.answer = answer]]
    BY <1>5 DEF Arbitrate
  <2>2. \A q \in Purposes \ {p} : request'[q] = request[q]
    BY <1>0, <2>1
  <2>3. CASE Winner(answer) = Nothing
    <3>1. request'[p] = Nothing
      BY <1>0, <2>1, <2>3
    <3> QED BY <1>1, <2>2, <3>1
  <2>4. CASE Winner(answer) # Nothing
    <3>1. request[p] \in Calls
      BY <1>5 DEF Arbitrate, IInv, TypeOK
    <3>2. request'[p] = [request[p] EXCEPT !.stage = Winner(answer), !.answer = answer]
      BY <1>0, <2>1, <2>4
    <3>3. request'[p].stage = Winner(answer) /\ request'[p].answer = answer
      BY <3>1, <3>2 DEF Calls
    <3>4. request'[p].stage = "Requester" =>
            Says(request'[p].answer, <<"WINNER">>, <<"requester">>)
      BY <2>4, <3>3, WinnerSays
    <3> QED BY <1>1, <2>2, <3>4
  <2> QED BY <2>3, <2>4
<1>6. ASSUME NEW p \in Purposes, ArbitrateFails(p) \/ Settle(p) PROVE Verdicts'
  <2>1. request' = [request EXCEPT ![p] = Nothing]
    BY <1>6 DEF ArbitrateFails, Settle
  <2>2. request'[p] = Nothing /\ \A q \in Purposes \ {p} : request'[q] = request[q]
    BY <1>0, <2>1
  <2> QED BY <1>1, <2>2
<1>7. ASSUME NEW p \in Purposes, NEW r, Take(p, r) \/ Release(p, r) PROVE Verdicts'
  BY <1>2, <1>7 DEF Take, Release
<1> QED BY <1>2, <1>3, <1>4, <1>5, <1>6, <1>7 DEF Next, vars

\* What a step takes away from somebody, it takes by giving up or by such an answer.
Loses(hr) ==
  \/ request' = request
  \/ \E p \in Purposes :
       /\ Pending(p) /\ ~Pending(p)'
       /\ <<request[p].holder, request[p].wants>> = hr
       /\ Says(request[p].answer, <<"WINNER">>, <<"requester">>)
       /\ <<p, hr[2]>> \in holdings'

\* A holding that a step takes away was lost by a verdict.
LEMMA StepLoses ==
  ASSUME IInv, Verdicts, [Next]_vars, NEW hr \in holdings \ holdings'
  PROVE  Loses(hr)
<1>1. CASE request' = request
  BY <1>1 DEF Loses
<1>2. ASSUME NEW p \in Purposes, Settle(p) PROVE Loses(hr)
  <2>1. /\ Pending(p) /\ request[p].stage \in {"isolated", "Requester", "Holder"}
        /\ request' = [request EXCEPT ![p] = Nothing]
    BY <1>2 DEF Settle
  <2>2. p \notin loser_should_yield(p)
    BY <1>2 DEF Settle
  <2>3. holdings' = (holdings \ {<<h, request[p].wants>> : h \in loser_should_yield(p)})
                      \union {<<p, request[p].gets>>}
    BY <1>2, <2>2 DEF Settle
  <2>4. PICK h \in loser_should_yield(p) : hr = <<h, request[p].wants>>
    BY <2>3
  <2>5. request[p].stage = "Requester" /\ h = request[p].holder
    BY <2>1, <2>2, <2>4 DEF loser_should_yield
  <2>6. request[p].gets = request[p].wants
    BY <2>1, <2>5 DEF IInv, GetsWhatItKnows
  <2>7. Says(request[p].answer, <<"WINNER">>, <<"requester">>)
    BY <2>1, <2>5 DEF Verdicts
  <2>8. ~Pending(p)'
    BY <2>1 DEF IInv, TypeOK, Pending
  <2>9. <<p, hr[2]>> \in holdings'
    BY <2>3, <2>4, <2>6
  <2> QED BY <2>1, <2>4, <2>5, <2>7, <2>8, <2>9 DEF Loses
<1>3. ASSUME NEW p \in Purposes, NEW r, Take(p, r) \/ Ask(p, r) PROVE FALSE
  BY <1>3 DEF Take, Ask
<1>4. ASSUME NEW p \in Purposes, ResolveConflict(p) \/ Arbitrate(p) \/ ArbitrateFails(p) PROVE FALSE
  BY <1>4 DEF ResolveConflict, Arbitrate, ArbitrateFails
<1>5. ASSUME NEW p \in Purposes, NEW r, Release(p, r) PROVE request' = request
  BY <1>5 DEF Release
<1> QED BY <1>1, <1>2, <1>3, <1>4, <1>5 DEF Next, vars

(***************************************************************************)
(* The theorems                                                            *)
(***************************************************************************)

\* Two purposes come to hold the same resource only when one of them took it after the other had
\* looked (resolve, conflict.rs; the callers).
THEOREM SharingTakesARace == Spec => []SharedOnlyByRace
<1>1. IInv => SharedOnlyByRace
  BY DEF IInv
<1> QED
  BY <1>1, Invariance, PTL

\* A port is replaced by the first one of the range that is free, and the model is asked only when
\* there is none (resolve_port_conflict, resolve_conflict).
THEOREM TheFirstFreePortIsTaken == Spec => []IsolatedFirst
<1>1. IInv => IsolatedFirst
  BY DEF IInv
<1> QED
  BY <1>1, Invariance, PTL

\* What a purpose holds it loses by giving it up, or by an answer about this resource and this
\* holder whose last word on the WINNER is requester (LosesByVerdict), however the lines before
\* it read and whatever else is decided at the same time.
THEOREM LosersWereJudged == Spec => LosesByVerdict
<1>1. IInv /\ Verdicts /\ [Next]_vars => \A hr \in holdings \ holdings' : Loses(hr)
  BY StepLoses
<1>2. Init => Verdicts
  BY InitVerdicts
<1>3. IInv /\ Verdicts /\ [Next]_vars => Verdicts'
  BY StepVerdicts
<1> QED
  BY <1>1, <1>2, <1>3, Invariance, PTL DEF Spec, LosesByVerdict, Loses
================================================================================
