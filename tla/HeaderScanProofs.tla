---------------------------- MODULE HeaderScanProofs ----------------------------
(***************************************************************************)
(* The header scan decides the grammar of Preamble for files of any        *)
(* length: at every token the automaton stands behind the only way to cut  *)
(* what it has read into units, because no unit begins another.            *)
(***************************************************************************)
EXTENDS HeaderScan, FiniteSetTheorems, SequenceTheorems, TLAPS

-----------------------------------------------------------------------------
\* The grammar.

\* What the first n tokens are says everything about brackets, units and
\* preambles there.
LEMMA SameBalance ==
  ASSUME NEW s, NEW t, NEW n \in Nat, \A i \in 1..n : s[i] = t[i]
  PROVE  \A a \in 1..n, b \in 1..n : Balance(s, a, b) = Balance(t, a, b)
<1> SUFFICES ASSUME NEW a \in 1..n, NEW b \in 1..n
             PROVE  Balance(s, a, b) = Balance(t, a, b)
  OBVIOUS
<1>1. /\ {i \in a..b : s[i].kind = "open"} = {i \in a..b : t[i].kind = "open"}
      /\ {i \in a..b : s[i].kind = "close"} = {i \in a..b : t[i].kind = "close"}
  OBVIOUS
<1>2. QED
  BY <1>1 DEF Balance

LEMMA SameTokens ==
  ASSUME NEW s, NEW t, NEW n \in Nat, \A i \in 1..n : s[i] = t[i]
  PROVE  /\ \A a \in 1..n, b \in 1..n : Unit(s, a, b) <=> Unit(t, a, b)
         /\ \A m \in 0..n : Preamble(s, m) <=> Preamble(t, m)
<1>1. \A a \in 1..n, b \in 1..n : Balance(s, a, b) = Balance(t, a, b)
  BY SameBalance
<1>2. ASSUME NEW a \in 1..n, NEW b \in 1..n
      PROVE  Unit(s, a, b) <=> Unit(t, a, b)
  <2>1. Blank(s, a, b) <=> Blank(t, a, b)
    BY DEF Blank
  <2>2. UseItem(s, a, b) <=> UseItem(t, a, b)
    BY DEF UseItem
  <2>3. Attribute(s, a, b) <=> Attribute(t, a, b)
    <3>1. \A i \in a..b : i \in 1..n
      OBVIOUS
    <3>2. \A i \in a..b : Balance(s, a, i) = Balance(t, a, i)
      BY <1>1, <3>1
    <3>3. a <= b => Balance(s, a, b) = Balance(t, a, b)
      BY <3>2
    <3>4. \A k \in (a + 1)..b :
            (/\ \A i \in (a + 1)..(k - 1) : s[i].kind = "bang"
             /\ s[k].kind = "open"
             /\ \A i \in k..(b - 1) : Balance(s, a, i) > 0)
              <=> (/\ \A i \in (a + 1)..(k - 1) : t[i].kind = "bang"
                   /\ t[k].kind = "open"
                   /\ \A i \in k..(b - 1) : Balance(t, a, i) > 0)
      <4> SUFFICES ASSUME NEW k \in (a + 1)..b
                   PROVE  /\ \A i \in (a + 1)..(k - 1) : s[i] = t[i]
                          /\ s[k] = t[k]
                          /\ \A i \in k..(b - 1) : Balance(s, a, i) = Balance(t, a, i)
        OBVIOUS
      <4>1. QED
        BY <3>1, <3>2
    <3>5. QED
      BY <1>1, <3>4 DEF Attribute
  <2>4. QED
    BY <2>1, <2>2, <2>3 DEF Unit
<1>3. ASSUME NEW m \in 0..n
      PROVE  Preamble(s, m) <=> Preamble(t, m)
  <2>1. \A cuts \in SUBSET (0..m) : \A i \in cuts, j \in cuts :
          i < j => (Unit(s, i + 1, j) <=> Unit(t, i + 1, j))
    <3> SUFFICES ASSUME NEW i \in 0..m, NEW j \in 0..m, i < j
                 PROVE  Unit(s, i + 1, j) <=> Unit(t, i + 1, j)
      OBVIOUS
    <3>1. i + 1 \in 1..n /\ j \in 1..n
      OBVIOUS
    <3>2. QED
      BY <1>2, <3>1
  <2>2. QED
    BY <2>1 DEF Preamble
<1>4. QED
  BY <1>2, <1>3

\* The empty file is a preamble, and a unit extends one.
LEMMA PreambleExtends ==
  ASSUME NEW s
  PROVE  /\ Preamble(s, 0)
         /\ \A k \in Nat, n \in Nat :
              k < n /\ Preamble(s, k) /\ Unit(s, k + 1, n) => Preamble(s, n)
<1>1. Preamble(s, 0)
  <2>1. {0} \in SUBSET (0..0) /\ {0, 0} \subseteq {0} /\ {0} \ {0} = {}
    OBVIOUS
  <2>2. QED
    BY <2>1 DEF Preamble
<1>2. ASSUME NEW k \in Nat, NEW n \in Nat, k < n, Preamble(s, k), Unit(s, k + 1, n)
      PROVE  Preamble(s, n)
  <2>1. PICK cuts \in SUBSET (0..k) :
          /\ {0, k} \subseteq cuts
          /\ \A j \in cuts \ {0} : \E i \in cuts : i < j /\ Unit(s, i + 1, j)
    BY <1>2 DEF Preamble
  <2>2. cuts \cup {n} \in SUBSET (0..n) /\ {0, n} \subseteq cuts \cup {n}
    BY <1>2, <2>1
  <2>3. ASSUME NEW j \in (cuts \cup {n}) \ {0}
        PROVE  \E i \in cuts \cup {n} : i < j /\ Unit(s, i + 1, j)
    BY <1>2, <2>1
  <2>4. QED
    BY <2>2, <2>3 DEF Preamble
<1>3. QED
  BY <1>1, <1>2

\* A preamble ends with a unit, behind a shorter preamble.
LEMMA PreambleEnds ==
  ASSUME NEW s, NEW n \in Nat \ {0}, Preamble(s, n)
  PROVE  \E d \in 0..(n - 1) : Preamble(s, d) /\ Unit(s, d + 1, n)
<1>1. PICK cuts \in SUBSET (0..n) :
        /\ {0, n} \subseteq cuts
        /\ \A j \in cuts \ {0} : \E i \in cuts : i < j /\ Unit(s, i + 1, j)
  BY DEF Preamble
<1>2. PICK d \in cuts : d < n /\ Unit(s, d + 1, n)
  BY <1>1
<1>3. d \in 0..(n - 1)
  BY <1>2
<1>4. Preamble(s, d)
  <2> DEFINE shorter == cuts \cap (0..d)
  <2>1. shorter \in SUBSET (0..d) /\ {0, d} \subseteq shorter
    BY <1>1, <1>3
  <2>2. \A j \in shorter \ {0} : \E i \in shorter : i < j /\ Unit(s, i + 1, j)
    <3> SUFFICES ASSUME NEW j \in shorter \ {0}
                 PROVE  \E i \in shorter : i < j /\ Unit(s, i + 1, j)
      OBVIOUS
    <3>1. PICK i \in cuts : i < j /\ Unit(s, i + 1, j)
      BY <1>1
    <3>2. i \in shorter
      BY <1>3, <3>1
    <3>3. QED
      BY <3>1, <3>2
  <2>3. QED
    BY <2>1, <2>2 DEF Preamble
<1>5. QED
  BY <1>2, <1>3, <1>4

-----------------------------------------------------------------------------
\* What is read of a unit that has not ended.

OpenUnit(s, a, n) == OpenUse(s, a, n) \/ OpenPound(s, a, n) \/ OpenAttr(s, a, n)

\* No attribute begins with an attribute, or is one that has not ended.
LEMMA AttributeCode ==
  ASSUME NEW s, NEW a \in Nat, NEW e \in Nat, NEW n \in Nat, e <= n,
         Attribute(s, a, e), OpenAttr(s, a, n)
  PROVE  FALSE
<1>1. PICK k \in (a + 1)..e : /\ \A i \in (a + 1)..(k - 1) : s[i].kind = "bang"
                              /\ s[k].kind = "open"
  BY DEF Attribute
<1>2. PICK l \in (a + 1)..n : /\ \A i \in (a + 1)..(l - 1) : s[i].kind = "bang"
                              /\ s[l].kind = "open"
                              /\ \A i \in l..n : Balance(s, a, i) > 0
  BY DEF OpenAttr
<1>3. k = l
  <2>1. k < l => s[k].kind = "bang"
    BY <1>1, <1>2
  <2>2. l < k => s[l].kind = "bang"
    BY <1>1, <1>2
  <2>3. QED
    BY <1>1, <1>2, <2>1, <2>2
<1>4. e \in l..n
  BY <1>1, <1>3
<1>5. Balance(s, a, e) = 0
  BY DEF Attribute
<1>6. QED
  BY <1>2, <1>4, <1>5

\* A unit that has not ended begins with no unit.
LEMMA OpenHasNoUnit ==
  ASSUME NEW s, NEW a \in Nat, NEW e \in Nat, NEW n \in Nat, a <= e, e <= n,
         Unit(s, a, e), OpenUnit(s, a, n)
  PROVE  FALSE
<1>1. CASE OpenUse(s, a, n)
  BY <1>1 DEF OpenUse, Unit, Blank, UseItem, Attribute
<1>2. CASE OpenPound(s, a, n)
  <2>1. Attribute(s, a, e)
    BY <1>2 DEF OpenPound, Unit, Blank, UseItem
  <2>2. PICK k \in (a + 1)..e : s[k].kind = "open"
    BY <2>1 DEF Attribute
  <2>3. s[k].kind = "bang"
    BY <1>2, <2>2 DEF OpenPound
  <2>4. QED
    BY <2>2, <2>3
<1>3. CASE OpenAttr(s, a, n)
  <2>1. Attribute(s, a, e)
    BY <1>3 DEF OpenAttr, Unit, Blank, UseItem
  <2>2. QED
    BY <1>3, <2>1, AttributeCode
<1>4. QED
  BY <1>1, <1>2, <1>3 DEF OpenUnit

\* Units are a prefix code.
LEMMA PrefixCode ==
  ASSUME NEW s, NEW a \in Nat, NEW e \in Nat, NEW n \in Nat, a <= e, e < n,
         Unit(s, a, e), Unit(s, a, n)
  PROVE  FALSE
<1>1. CASE Blank(s, a, n)
  BY <1>1 DEF Blank
<1>2. CASE UseItem(s, a, n)
  <2>1. OpenUse(s, a, n - 1)
    BY <1>2 DEF UseItem, OpenUse
  <2>2. e <= n - 1 /\ n - 1 \in Nat
    OBVIOUS
  <2>3. QED
    BY <2>1, <2>2, OpenHasNoUnit DEF OpenUnit
<1>3. CASE Attribute(s, a, n)
  <2>1. PICK k \in (a + 1)..n :
          /\ \A i \in (a + 1)..(k - 1) : s[i].kind = "bang"
          /\ s[k].kind = "open"
          /\ \A i \in k..(n - 1) : Balance(s, a, i) > 0
    BY <1>3 DEF Attribute
  <2>2. CASE k <= n - 1
    <3>1. OpenAttr(s, a, n - 1)
      BY <1>3, <2>1, <2>2 DEF Attribute, OpenAttr
    <3>2. e <= n - 1 /\ n - 1 \in Nat
      OBVIOUS
    <3>3. QED
      BY <3>1, <3>2, OpenHasNoUnit DEF OpenUnit
  <2>3. CASE k = n
    <3>1. OpenPound(s, a, n - 1)
      BY <1>3, <2>1, <2>3 DEF Attribute, OpenPound
    <3>2. e <= n - 1 /\ n - 1 \in Nat
      OBVIOUS
    <3>3. QED
      BY <3>1, <3>2, OpenHasNoUnit DEF OpenUnit
  <2>4. QED
    BY <2>1, <2>2, <2>3
<1>4. QED
  BY <1>1, <1>2, <1>3 DEF Unit

Kinds(s, kind, a, n) == {i \in a..n : s[i].kind = kind}

\* Counting the tokens of a kind, one token at a time.
LEMMA CountStep ==
  ASSUME NEW s, NEW kind, NEW a \in Nat \ {0}, NEW n \in Nat, a <= n + 1
  PROVE  /\ Cardinality(Kinds(s, kind, a, n)) \in Nat
         /\ a = n + 1 => Cardinality(Kinds(s, kind, a, n)) = 0
         /\ Cardinality(Kinds(s, kind, a, n + 1)) =
              Cardinality(Kinds(s, kind, a, n)) + (IF s[n + 1].kind = kind THEN 1 ELSE 0)
<1>1. IsFiniteSet(Kinds(s, kind, a, n)) /\ Cardinality(Kinds(s, kind, a, n)) \in Nat
  <2>1. IsFiniteSet(a..n) /\ Kinds(s, kind, a, n) \subseteq a..n
    BY FS_Interval DEF Kinds
  <2>2. IsFiniteSet(Kinds(s, kind, a, n))
    BY <2>1, FS_Subset
  <2>3. QED
    BY <2>2, FS_CardinalityType
<1>2. ASSUME s[n + 1].kind = kind
      PROVE  Cardinality(Kinds(s, kind, a, n + 1)) =
               Cardinality(Kinds(s, kind, a, n)) + (IF s[n + 1].kind = kind THEN 1 ELSE 0)
  <2>1. n + 1 \notin Kinds(s, kind, a, n)
    BY DEF Kinds
  <2>2. Kinds(s, kind, a, n + 1) = Kinds(s, kind, a, n) \cup {n + 1}
    BY <1>2 DEF Kinds
  <2>3. Cardinality(Kinds(s, kind, a, n) \cup {n + 1}) = Cardinality(Kinds(s, kind, a, n)) + 1
    BY <1>1, <2>1, FS_AddElement
  <2>4. QED
    BY <1>1, <1>2, <2>2, <2>3
<1>3. ASSUME s[n + 1].kind # kind
      PROVE  Cardinality(Kinds(s, kind, a, n + 1)) =
               Cardinality(Kinds(s, kind, a, n)) + (IF s[n + 1].kind = kind THEN 1 ELSE 0)
  <2>1. Kinds(s, kind, a, n + 1) = Kinds(s, kind, a, n)
    BY <1>3 DEF Kinds
  <2>2. QED
    BY <1>1, <1>3, <2>1
<1>4. a = n + 1 => Cardinality(Kinds(s, kind, a, n)) = 0
  <2>1. a = n + 1 => Kinds(s, kind, a, n) = {}
    BY DEF Kinds
  <2>2. QED
    BY <2>1, FS_EmptySet
<1>5. QED
  <2>1. Cardinality(Kinds(s, kind, a, n + 1)) =
          Cardinality(Kinds(s, kind, a, n)) + (IF s[n + 1].kind = kind THEN 1 ELSE 0)
    BY <1>1, <1>2, <1>3
  <2>2. QED
    BY <1>1, <1>4, <2>1

\* And brackets.
LEMMA BalanceStep ==
  ASSUME NEW s, NEW a \in Nat \ {0}, NEW n \in Nat, a <= n + 1
  PROVE  /\ Balance(s, a, n) \in Int
         /\ a = n + 1 => Balance(s, a, n) = 0
         /\ Balance(s, a, n + 1) =
              Balance(s, a, n) + (IF s[n + 1].kind = "open" THEN 1
                                  ELSE IF s[n + 1].kind = "close" THEN -1 ELSE 0)
<1>1. \A m : Balance(s, a, m) =
               Cardinality(Kinds(s, "open", a, m)) - Cardinality(Kinds(s, "close", a, m))
  BY DEF Balance, Kinds
<1>2. /\ Cardinality(Kinds(s, "open", a, n)) \in Nat
      /\ a = n + 1 => Cardinality(Kinds(s, "open", a, n)) = 0
      /\ Cardinality(Kinds(s, "open", a, n + 1)) =
           Cardinality(Kinds(s, "open", a, n)) + (IF s[n + 1].kind = "open" THEN 1 ELSE 0)
  BY CountStep
<1>3. /\ Cardinality(Kinds(s, "close", a, n)) \in Nat
      /\ a = n + 1 => Cardinality(Kinds(s, "close", a, n)) = 0
      /\ Cardinality(Kinds(s, "close", a, n + 1)) =
           Cardinality(Kinds(s, "close", a, n)) + (IF s[n + 1].kind = "close" THEN 1 ELSE 0)
  BY CountStep
<1>4. QED
  BY <1>1, <1>2, <1>3

-----------------------------------------------------------------------------
\* The automaton.

\* Up to k the tokens are a preamble that can be cut in one way only: where a
\* shorter one ends, the next unit ends by k as well.
Parsed(s, k) ==
  /\ Preamble(s, k)
  /\ \A d \in 0..(k - 1) : Preamble(s, d) => \E e \in (d + 1)..k : Unit(s, d + 1, e)

\* Of the n tokens, those behind k are what the state says, and no preamble
\* ends in them.
Behind(s, k, n) ==
  /\ st = "Top" => k = n /\ (n # 0 => s[n].kind # "outer")
  /\ st = "UseItem" => k < n /\ OpenUse(s, k + 1, n)
  /\ st = "AttrPound" => k < n /\ OpenPound(s, k + 1, n) /\ Balance(s, k + 1, n) = 0
  /\ st = "Attr" => k < n /\ OpenAttr(s, k + 1, n) /\ Balance(s, k + 1, n) = depth
  /\ \A j \in (k + 1)..n : ~ Preamble(s, j)

Scanned ==
  st # "Done" =>
    /\ url = NoUrl /\ depth <= Len(read)
    /\ \E k \in 0..Len(read) : Parsed(read, k) /\ Behind(read, k, Len(read))

\* What the scan does, in one equation: the first outer doc below preamble is
\* the header, and there is no other.
FindsFirstDoc ==
  st = "Done" => url = IF AtHeader THEN approval_url_from(Last(read).doc.links) ELSE NoUrl

IInv == TypeOK /\ Scanned /\ FindsFirstDoc

LEMMA InitIInv == Init => IInv
<1> SUFFICES ASSUME Init PROVE IInv
  OBVIOUS
<1>1. TypeOK
  <2>1. read \in Seq(Token) /\ Len(read) = 0
    BY DEF Init
  <2>2. depth \in 0..MaxTokens /\ Len(read) <= MaxTokens
    BY <2>1, MaxTokensAssumption DEF Init, MaxTokensAssumption
  <2>3. st = "Top" /\ ~ (depth > 0) /\ url = NoUrl
    BY DEF Init
  <2>4. QED
    BY <2>1, <2>2, <2>3 DEF TypeOK
<1>2. Scanned
  <2>1. Len(read) = 0
    BY DEF Init
  <2>2. Parsed(read, 0)
    BY PreambleExtends DEF Parsed
  <2>3. Behind(read, 0, 0)
    BY DEF Init, Behind
  <2>4. QED
    BY <2>1, <2>2, <2>3 DEF Init, Scanned
<1>3. FindsFirstDoc
  BY DEF Init, FindsFirstDoc
<1>4. QED
  BY <1>1, <1>2, <1>3 DEF IInv

\* A token that leaves the unit behind k open ends no preamble; one that closes
\* it does, and again in one way only.
LEMMA TokenParsed ==
  ASSUME NEW s, NEW k \in Nat, NEW n \in Nat, k <= n,
         Parsed(s, k), \A j \in (k + 1)..n : ~ Preamble(s, j)
  PROVE  /\ ~ Unit(s, k + 1, n + 1) => ~ Preamble(s, n + 1)
         /\ Unit(s, k + 1, n + 1) => Parsed(s, n + 1)
<1>1. ASSUME ~ Unit(s, k + 1, n + 1), Preamble(s, n + 1)
      PROVE  FALSE
  <2>1. PICK d \in 0..n : Preamble(s, d) /\ Unit(s, d + 1, n + 1)
    BY <1>1, PreambleEnds
  <2>2. d < k
    BY <1>1, <2>1
  <2>3. PICK e \in (d + 1)..k : Unit(s, d + 1, e)
    BY <2>1, <2>2 DEF Parsed
  <2>4. QED
    BY <2>1, <2>2, <2>3, PrefixCode
<1>2. ASSUME Unit(s, k + 1, n + 1)
      PROVE  Parsed(s, n + 1)
  <2>1. Preamble(s, n + 1)
    BY <1>2, PreambleExtends DEF Parsed
  <2>2. ASSUME NEW d \in 0..n, Preamble(s, d)
        PROVE  \E e \in (d + 1)..(n + 1) : Unit(s, d + 1, e)
    <3>1. d <= k
      BY <2>2
    <3>2. CASE d = k
      BY <1>2, <3>2
    <3>3. CASE d < k
      BY <2>2, <3>3 DEF Parsed
    <3>4. QED
      BY <3>1, <3>2, <3>3
  <2>3. QED
    BY <2>1, <2>2 DEF Parsed
<1>3. QED
  BY <1>1, <1>2

\* What reading a token leaves as it was.
LEMMA ReadKeeps ==
  ASSUME TypeOK, NEW t \in Token, Read(t)
  PROVE  /\ read' \in Seq(Token) /\ Len(read') = Len(read) + 1 /\ Len(read') <= MaxTokens
         /\ Len(read) \in Nat /\ read'[Len(read) + 1] = t
         /\ \A i \in 1..Len(read) : read'[i] = read[i]
<1>1. read \in Seq(Token) /\ Len(read) < MaxTokens /\ read' = Append(read, t)
  BY DEF TypeOK, Read
<1>2. /\ read' \in Seq(Token) /\ Len(read') = Len(read) + 1 /\ read'[Len(read) + 1] = t
      /\ \A i \in 1..Len(read) : read'[i] = read[i]
  BY <1>1, AppendProperties
<1>3. Len(read) \in Nat
  BY <1>1, LenProperties
<1>4. QED
  BY <1>1, <1>2, <1>3, MaxTokensAssumption DEF MaxTokensAssumption

LEMMA ReadParsed ==
  ASSUME TypeOK, NEW t \in Token, Read(t), NEW k \in 0..Len(read), Parsed(read, k),
         \A j \in (k + 1)..Len(read) : ~ Preamble(read, j)
  PROVE  /\ Parsed(read', k)
         /\ \A j \in (k + 1)..Len(read) : ~ Preamble(read', j)
<1>1. /\ Len(read) \in Nat /\ \A i \in 1..Len(read) : read[i] = read'[i]
  BY ReadKeeps
<1>2. /\ \A a \in 1..Len(read), b \in 1..Len(read) : Unit(read, a, b) <=> Unit(read', a, b)
      /\ \A m \in 0..Len(read) : Preamble(read, m) <=> Preamble(read', m)
  BY <1>1, SameTokens
<1>3. QED
  BY <1>1, <1>2 DEF Parsed

\* A token that keeps the unit behind k open.
LEMMA StaysOpen ==
  ASSUME TypeOK, NEW t \in Token, Read(t), NEW k \in 0..Len(read), Parsed(read, k),
         \A j \in (k + 1)..Len(read) : ~ Preamble(read, j),
         OpenUnit(read', k + 1, Len(read) + 1)
  PROVE  /\ Parsed(read', k)
         /\ \A j \in (k + 1)..Len(read') : ~ Preamble(read', j)
<1>1. /\ Parsed(read', k) /\ \A j \in (k + 1)..Len(read) : ~ Preamble(read', j)
      /\ Len(read) \in Nat /\ Len(read') = Len(read) + 1
  BY ReadParsed, ReadKeeps
<1>2. ~ Unit(read', k + 1, Len(read) + 1)
  BY <1>1, OpenHasNoUnit
<1>3. ~ Preamble(read', Len(read) + 1)
  BY <1>1, <1>2, TokenParsed
<1>4. QED
  BY <1>1, <1>3

\* And one that closes it.
LEMMA Closes ==
  ASSUME TypeOK, NEW t \in Token, Read(t), NEW k \in 0..Len(read), Parsed(read, k),
         \A j \in (k + 1)..Len(read) : ~ Preamble(read, j),
         Unit(read', k + 1, Len(read) + 1)
  PROVE  Parsed(read', Len(read'))
<1>1. /\ Parsed(read', k) /\ \A j \in (k + 1)..Len(read) : ~ Preamble(read', j)
      /\ Len(read) \in Nat /\ Len(read') = Len(read) + 1
  BY ReadParsed, ReadKeeps
<1>2. QED
  BY <1>1, TokenParsed

\* The tokens behind k, one more read.
LEMMA Tokens ==
  ASSUME TypeOK, NEW t \in Token, Read(t), NEW k \in 0..Len(read)
  PROVE  /\ Len(read) \in Nat /\ Len(read') = Len(read) + 1 /\ Len(read') <= MaxTokens
         /\ read' \in Seq(Token) /\ read'[Len(read) + 1] = t
         /\ \A i \in 1..Len(read) : read'[i] = read[i]
         /\ \A i \in (k + 1)..Len(read) : Balance(read', k + 1, i) = Balance(read, k + 1, i)
         /\ Balance(read', k + 1, Len(read)) \in Int
         /\ k = Len(read) => Balance(read', k + 1, Len(read)) = 0
         /\ Balance(read', k + 1, Len(read) + 1) =
              Balance(read', k + 1, Len(read)) + (IF t.kind = "open" THEN 1
                                                  ELSE IF t.kind = "close" THEN -1 ELSE 0)
<1>1. /\ Len(read) \in Nat /\ Len(read') = Len(read) + 1 /\ Len(read') <= MaxTokens
      /\ read' \in Seq(Token) /\ read'[Len(read) + 1] = t
      /\ \A i \in 1..Len(read) : read'[i] = read[i]
  BY ReadKeeps
<1>2. \A a \in 1..Len(read), b \in 1..Len(read) : Balance(read', a, b) = Balance(read, a, b)
  BY <1>1, SameBalance
<1>3. \A i \in (k + 1)..Len(read) : Balance(read', k + 1, i) = Balance(read, k + 1, i)
  BY <1>1, <1>2
<1>4. /\ Balance(read', k + 1, Len(read)) \in Int
      /\ k = Len(read) => Balance(read', k + 1, Len(read)) = 0
      /\ Balance(read', k + 1, Len(read) + 1) =
           Balance(read', k + 1, Len(read)) + (IF t.kind = "open" THEN 1
                                               ELSE IF t.kind = "close" THEN -1 ELSE 0)
  <2>1. k + 1 \in Nat \ {0} /\ k + 1 <= Len(read) + 1
    BY <1>1
  <2> HIDE DEF Read
  <2>2. QED
    BY <1>1, <2>1, BalanceStep
<1>5. QED
  BY <1>1, <1>3, <1>4

\* The invariant after a step that goes on,
LEMMA GoesOn ==
  ASSUME TypeOK, NEW t \in Token, Read(t), url = NoUrl, url' = url,
         st' \in {"Top", "UseItem", "AttrPound", "Attr"}, depth' \in 0..(Len(read) + 1),
         st' = "Attr" <=> depth' > 0,
         \E k \in 0..Len(read') : Parsed(read', k) /\ Behind(read, k, Len(read))'
  PROVE  IInv'
<1>1. /\ read' \in Seq(Token) /\ Len(read') = Len(read) + 1 /\ Len(read') <= MaxTokens
      /\ Len(read) \in Nat
  BY ReadKeeps
<1>2. TypeOK'
  <2>1. depth' \in 0..MaxTokens
    BY <1>1, MaxTokensAssumption DEF MaxTokensAssumption
  <2>2. QED
    BY <1>1, <2>1 DEF TypeOK
<1>3. Scanned'
  BY <1>1 DEF Scanned
<1>4. FindsFirstDoc'
  BY DEF FindsFirstDoc
<1>5. QED
  BY <1>2, <1>3, <1>4 DEF IInv

\* and after one that gives up.
LEMMA GivesUp ==
  ASSUME TypeOK, url = NoUrl, url' = url, st' = "Done", depth' = 0,
         read' \in Seq(Token), Len(read') <= MaxTokens,
         read' # <<>> => \/ read'[Len(read')].kind # "outer"
                         \/ ~ Preamble(read', Len(read') - 1)
  PROVE  IInv'
<1>1. TypeOK'
  BY MaxTokensAssumption DEF TypeOK, MaxTokensAssumption
<1>2. Scanned' /\ FindsFirstDoc'
  BY DEF Scanned, FindsFirstDoc, AtHeader, Last
<1>3. QED
  BY <1>1, <1>2 DEF IInv

LEMMA UseStep ==
  ASSUME IInv, NEW t \in Token, InUse(t)
  PROVE  IInv'
<1>1. TypeOK /\ st = "UseItem" /\ Read(t) /\ url = NoUrl /\ url' = url /\ depth' = 0
  BY DEF IInv, Scanned, InUse, Goto
<1>2. PICK k \in 0..Len(read) : Parsed(read, k) /\ Behind(read, k, Len(read))
  BY <1>1 DEF IInv, Scanned
<1>3. /\ k < Len(read) /\ OpenUse(read, k + 1, Len(read))
      /\ \A j \in (k + 1)..Len(read) : ~ Preamble(read, j)
  BY <1>1, <1>2 DEF Behind
<1>4. /\ Len(read) \in Nat /\ Len(read') = Len(read) + 1 /\ read'[Len(read) + 1] = t
      /\ \A i \in 1..Len(read) : read'[i] = read[i]
  BY <1>1, ReadKeeps
<1>5. CASE t.kind = "semi"
  <2>1. UseItem(read', k + 1, Len(read) + 1)
    BY <1>3, <1>4, <1>5 DEF OpenUse, UseItem
  <2>2. Parsed(read', Len(read'))
    BY <1>1, <1>2, <1>3, <2>1, Closes DEF Unit
  <2>3. st' = "Top"
    BY <1>5 DEF InUse, Goto
  <2>4. Behind(read, Len(read), Len(read))'
    BY <1>4, <1>5, <2>3 DEF Behind
  <2>5. QED
    BY <1>1, <1>4, <2>2, <2>3, <2>4, GoesOn
<1>6. CASE t.kind # "semi"
  <2>1. OpenUse(read', k + 1, Len(read) + 1)
    BY <1>3, <1>4, <1>6 DEF OpenUse
  <2>2. Parsed(read', k) /\ \A j \in (k + 1)..Len(read') : ~ Preamble(read', j)
    BY <1>1, <1>2, <1>3, <2>1, StaysOpen DEF OpenUnit
  <2>3. st' = "UseItem"
    BY <1>6 DEF InUse, Goto
  <2>4. Behind(read, k, Len(read))'
    BY <1>3, <1>4, <2>1, <2>2, <2>3 DEF Behind
  <2>5. k \in 0..Len(read')
    BY <1>4
  <2>6. QED
    BY <1>1, <1>4, <2>2, <2>3, <2>4, <2>5, GoesOn
<1>7. QED
  BY <1>5, <1>6

LEMMA TopStep ==
  ASSUME IInv, NEW t \in Token, TopLevel(t)
  PROVE  IInv'
<1>1. TypeOK /\ st = "Top" /\ Read(t) /\ url = NoUrl /\ url' = url /\ depth' = 0 /\ t.kind # "outer"
  BY DEF IInv, Scanned, TopLevel, Goto
<1>2. PICK k \in 0..Len(read) : Parsed(read, k) /\ Behind(read, k, Len(read))
  BY <1>1 DEF IInv, Scanned
<1>3. /\ k = Len(read) /\ \A j \in (k + 1)..Len(read) : ~ Preamble(read, j)
      /\ k \in 0..Len(read')
  BY <1>1, <1>2, ReadKeeps DEF Behind
<1>4. /\ Len(read) \in Nat /\ Len(read') = Len(read) + 1 /\ read'[Len(read) + 1] = t
      /\ read' \in Seq(Token) /\ Len(read') <= MaxTokens
      /\ Balance(read', k + 1, Len(read)) = 0
      /\ Balance(read', k + 1, Len(read) + 1) =
           Balance(read', k + 1, Len(read)) + (IF t.kind = "open" THEN 1
                                               ELSE IF t.kind = "close" THEN -1 ELSE 0)
  BY <1>1, <1>3, Tokens
<1>5. CASE t.kind = "ws"
  <2>1. Blank(read', k + 1, Len(read) + 1)
    BY <1>3, <1>4, <1>5 DEF Blank
  <2>2. Parsed(read', Len(read'))
    BY <1>1, <1>2, <1>3, <2>1, Closes DEF Unit
  <2>3. st' = "Top"
    BY <1>5 DEF TopLevel, Goto
  <2>4. Behind(read, Len(read), Len(read))'
    BY <1>4, <1>5, <2>3 DEF Behind
  <2>5. QED
    BY <1>1, <1>4, <2>2, <2>3, <2>4, GoesOn
<1>6. CASE t.kind = "use"
  <2>1. OpenUse(read', k + 1, Len(read) + 1)
    BY <1>3, <1>4, <1>6 DEF OpenUse
  <2>2. Parsed(read', k) /\ \A j \in (k + 1)..Len(read') : ~ Preamble(read', j)
    BY <1>1, <1>2, <1>3, <2>1, StaysOpen DEF OpenUnit
  <2>3. st' = "UseItem"
    BY <1>6 DEF TopLevel, Goto
  <2>4. Behind(read, k, Len(read))'
    BY <1>3, <1>4, <2>1, <2>2, <2>3 DEF Behind
  <2>5. QED
    BY <1>1, <1>3, <2>2, <2>3, <2>4, <1>4, GoesOn
<1>7. CASE t.kind = "pound"
  <2>1. OpenPound(read', k + 1, Len(read) + 1)
    BY <1>3, <1>4, <1>7 DEF OpenPound
  <2>2. Parsed(read', k) /\ \A j \in (k + 1)..Len(read') : ~ Preamble(read', j)
    BY <1>1, <1>2, <1>3, <2>1, StaysOpen DEF OpenUnit
  <2>3. st' = "AttrPound" /\ Balance(read', k + 1, Len(read')) = 0
    BY <1>4, <1>7 DEF TopLevel, Goto
  <2>4. Behind(read, k, Len(read))'
    BY <1>3, <1>4, <2>1, <2>2, <2>3 DEF Behind
  <2>5. QED
    BY <1>1, <1>3, <1>4, <2>2, <2>3, <2>4, GoesOn
<1>8. CASE t.kind \notin {"ws", "use", "pound"}
  <2>1. st' = "Done"
    BY <1>8 DEF TopLevel, Goto
  <2>2. QED
    BY <1>1, <1>4, <2>1, GivesUp
<1>9. QED
  BY <1>5, <1>6, <1>7, <1>8

LEMMA PoundStep ==
  ASSUME IInv, NEW t \in Token, AfterPound(t)
  PROVE  IInv'
<1>1. TypeOK /\ st = "AttrPound" /\ Read(t) /\ url = NoUrl /\ url' = url
  BY DEF IInv, Scanned, AfterPound, Goto
<1>2. PICK k \in 0..Len(read) : Parsed(read, k) /\ Behind(read, k, Len(read))
  BY <1>1 DEF IInv, Scanned
<1>3. /\ k < Len(read) /\ OpenPound(read, k + 1, Len(read)) /\ Balance(read, k + 1, Len(read)) = 0
      /\ \A j \in (k + 1)..Len(read) : ~ Preamble(read, j)
      /\ k \in 0..Len(read')
  BY <1>1, <1>2, ReadKeeps DEF Behind
<1>4. /\ Len(read) \in Nat /\ Len(read') = Len(read) + 1 /\ read'[Len(read) + 1] = t
      /\ read' \in Seq(Token) /\ Len(read') <= MaxTokens
      /\ \A i \in 1..Len(read) : read'[i] = read[i]
      /\ \A i \in (k + 1)..Len(read) : Balance(read', k + 1, i) = Balance(read, k + 1, i)
      /\ Balance(read', k + 1, Len(read) + 1) =
           Balance(read', k + 1, Len(read)) + (IF t.kind = "open" THEN 1
                                               ELSE IF t.kind = "close" THEN -1 ELSE 0)
  BY <1>1, Tokens
<1>5. Balance(read', k + 1, Len(read)) = 0
  BY <1>3, <1>4
<1>6. CASE t.kind = "bang"
  <2>1. OpenPound(read', k + 1, Len(read) + 1)
    BY <1>3, <1>4, <1>6 DEF OpenPound
  <2>2. Parsed(read', k) /\ \A j \in (k + 1)..Len(read') : ~ Preamble(read', j)
    BY <1>1, <1>2, <1>3, <2>1, StaysOpen DEF OpenUnit
  <2>3. st' = "AttrPound" /\ depth' = 0 /\ Balance(read', k + 1, Len(read')) = 0
    BY <1>4, <1>5, <1>6 DEF AfterPound, Goto
  <2>4. Behind(read, k, Len(read))'
    BY <1>3, <1>4, <2>1, <2>2, <2>3 DEF Behind
  <2>5. QED
    BY <1>1, <1>3, <1>4, <2>2, <2>3, <2>4, GoesOn
<1>7. CASE t.kind = "open"
  <2>1. Balance(read', k + 1, Len(read) + 1) = 1
    BY <1>4, <1>5, <1>7
  <2>2. OpenAttr(read', k + 1, Len(read) + 1)
    <3>1. /\ Len(read) + 1 \in (k + 2)..(Len(read) + 1)
          /\ \A i \in (k + 2)..Len(read) : read'[i].kind = "bang"
          /\ read'[k + 1].kind = "pound" /\ read'[Len(read) + 1].kind = "open"
      BY <1>3, <1>4, <1>7 DEF OpenPound
    <3>2. QED
      BY <1>4, <2>1, <3>1 DEF OpenAttr
  <2>3. Parsed(read', k) /\ \A j \in (k + 1)..Len(read') : ~ Preamble(read', j)
    BY <1>1, <1>2, <1>3, <2>2, StaysOpen DEF OpenUnit
  <2>4. st' = "Attr" /\ depth' = 1
    BY <1>7 DEF AfterPound, Goto
  <2>5. Behind(read, k, Len(read))'
    BY <1>3, <1>4, <2>1, <2>2, <2>3, <2>4 DEF Behind
  <2>6. QED
    BY <1>1, <1>3, <1>4, <2>3, <2>4, <2>5, GoesOn
<1>8. CASE t.kind \notin {"bang", "open"}
  <2>1. st' = "Done" /\ depth' = 0
    BY <1>8 DEF AfterPound, Goto
  <2>2. ~ Preamble(read', Len(read') - 1)
    BY <1>1, <1>2, <1>3, <1>4, ReadParsed
  <2>3. QED
    BY <1>1, <1>4, <2>1, <2>2, GivesUp
<1>9. QED
  BY <1>6, <1>7, <1>8

LEMMA AttrStep ==
  ASSUME IInv, NEW t \in Token, InAttr(t)
  PROVE  IInv'
<1>1. /\ TypeOK /\ st = "Attr" /\ Read(t) /\ url = NoUrl /\ url' = url
      /\ depth \in Nat \ {0} /\ depth <= Len(read)
  <2>1. TypeOK /\ st = "Attr" /\ Read(t) /\ url' = url
    BY DEF IInv, InAttr, Goto
  <2>2. QED
    BY <2>1 DEF IInv, Scanned, TypeOK
<1>2. PICK k \in 0..Len(read) : Parsed(read, k) /\ Behind(read, k, Len(read))
  BY <1>1 DEF IInv, Scanned
<1>3. /\ k < Len(read) /\ OpenAttr(read, k + 1, Len(read))
      /\ Balance(read, k + 1, Len(read)) = depth
      /\ \A j \in (k + 1)..Len(read) : ~ Preamble(read, j)
      /\ k \in 0..Len(read')
  BY <1>1, <1>2, ReadKeeps DEF Behind
<1>4. /\ Len(read) \in Nat /\ Len(read') = Len(read) + 1 /\ read'[Len(read) + 1] = t
      /\ \A i \in 1..Len(read) : read'[i] = read[i]
      /\ \A i \in (k + 1)..Len(read) : Balance(read', k + 1, i) = Balance(read, k + 1, i)
      /\ Balance(read', k + 1, Len(read) + 1) =
           Balance(read', k + 1, Len(read)) + (IF t.kind = "open" THEN 1
                                               ELSE IF t.kind = "close" THEN -1 ELSE 0)
  BY <1>1, Tokens
<1>5. Balance(read', k + 1, Len(read)) = depth
  BY <1>3, <1>4
<1>6. PICK m \in (k + 2)..Len(read) :
        /\ read'[k + 1].kind = "pound" /\ read'[m].kind = "open"
        /\ \A i \in (k + 2)..(m - 1) : read'[i].kind = "bang"
        /\ \A i \in m..Len(read) : Balance(read', k + 1, i) > 0
  <2>1. PICK m \in (k + 2)..Len(read) :
          /\ read[k + 1].kind = "pound" /\ read[m].kind = "open"
          /\ \A i \in (k + 2)..(m - 1) : read[i].kind = "bang"
          /\ \A i \in m..Len(read) : Balance(read, k + 1, i) > 0
    BY <1>3 DEF OpenAttr
  <2>2. QED
    BY <1>3, <1>4, <2>1
<1>7. m \in ((k + 1) + 1)..(Len(read) + 1)
  BY <1>4
<1>8. CASE t.kind = "close" /\ depth = 1
  <2>1. Balance(read', k + 1, Len(read) + 1) = 0
    BY <1>4, <1>5, <1>8
  <2>2. Attribute(read', k + 1, Len(read) + 1)
    BY <1>4, <1>6, <1>7, <2>1 DEF Attribute
  <2>3. Parsed(read', Len(read'))
    BY <1>1, <1>2, <1>3, <2>2, Closes DEF Unit
  <2>4. st' = "Top" /\ depth' = 0
    BY <1>8 DEF InAttr, Goto
  <2>5. Behind(read, Len(read), Len(read))'
    BY <1>4, <1>8, <2>4 DEF Behind
  <2>6. QED
    BY <1>1, <1>4, <2>3, <2>4, <2>5, GoesOn
<1>9. CASE ~ (t.kind = "close" /\ depth = 1)
  <2>1. /\ st' = "Attr"
        /\ depth' = depth + (IF t.kind = "open" THEN 1 ELSE IF t.kind = "close" THEN -1 ELSE 0)
    <3>1. CASE t.kind = "open"
      BY <3>1 DEF InAttr, Goto
    <3>2. CASE t.kind = "close"
      BY <1>9, <1>1, <3>2 DEF InAttr, Goto
    <3>3. CASE t.kind \notin {"open", "close"}
      BY <1>1, <3>3 DEF InAttr, Goto
    <3>4. QED
      BY <3>1, <3>2, <3>3
  <2>2. depth' \in 1..(Len(read) + 1)
    BY <1>1, <1>4, <1>9, <2>1
  <2>3. Balance(read', k + 1, Len(read) + 1) = depth'
    BY <1>4, <1>5, <2>1
  <2>4. OpenAttr(read', k + 1, Len(read) + 1)
    <3>1. \A i \in m..(Len(read) + 1) : Balance(read', k + 1, i) > 0
      BY <1>4, <1>6, <2>2, <2>3
    <3>2. QED
      BY <1>6, <1>7, <3>1 DEF OpenAttr
  <2>5. Parsed(read', k) /\ \A j \in (k + 1)..Len(read') : ~ Preamble(read', j)
    BY <1>1, <1>2, <1>3, <2>4, StaysOpen DEF OpenUnit
  <2>6. Behind(read, k, Len(read))'
    BY <1>3, <1>4, <2>1, <2>3, <2>4, <2>5 DEF Behind
  <2>7. QED
    BY <1>1, <1>3, <1>4, <2>1, <2>2, <2>5, <2>6, GoesOn
<1>10. QED
  BY <1>8, <1>9

LEMMA HeaderStep ==
  ASSUME IInv, NEW t \in Token, Header(t)
  PROVE  IInv'
<1>1. /\ TypeOK /\ st = "Top" /\ Read(t) /\ t.kind = "outer" /\ st' = "Done" /\ depth' = depth
      /\ url' = approval_url_from(t.doc.links)
  BY DEF IInv, Header
<1>2. /\ Len(read) \in Nat /\ Len(read') = Len(read) + 1 /\ read'[Len(read) + 1] = t
      /\ read' \in Seq(Token) /\ Len(read') <= MaxTokens
  BY <1>1, ReadKeeps
<1>3. PICK k \in 0..Len(read) : Parsed(read, k) /\ Behind(read, k, Len(read))
  BY <1>1 DEF IInv, Scanned
<1>4. Preamble(read', Len(read') - 1)
  <2>1. k = Len(read) /\ \A j \in (k + 1)..Len(read) : ~ Preamble(read, j)
    BY <1>1, <1>3 DEF Behind
  <2>2. Parsed(read', k)
    BY <1>1, <1>3, <2>1, ReadParsed
  <2>3. QED
    BY <1>2, <2>1, <2>2 DEF Parsed
<1>5. TypeOK'
  <2>1. t.doc \in Docs
    BY <1>1 DEF Token, Plain
  <2>2. url' \in {NoUrl} \cup {Head(d.links) : d \in {e \in Docs : e.links # <<>>}}
    BY <1>1, <2>1 DEF approval_url_from
  <2>3. QED
    BY <1>1, <1>2, <2>2 DEF TypeOK
<1>6. Scanned'
  BY <1>1 DEF Scanned
<1>7. FindsFirstDoc'
  <2>1. read' # <<>> /\ Last(read') = t
    BY <1>2 DEF Last
  <2>2. QED
    BY <1>1, <1>4, <2>1 DEF FindsFirstDoc, AtHeader
<1>8. QED
  BY <1>5, <1>6, <1>7 DEF IInv

LEMMA EndStep ==
  ASSUME IInv, EndOfFile
  PROVE  IInv'
<1>1. /\ TypeOK /\ st # "Done" /\ st' = "Done" /\ depth' = 0 /\ url' = url /\ url = NoUrl
      /\ read' = read
  BY DEF IInv, Scanned, EndOfFile, Goto
<1>2. read \in Seq(Token) /\ Len(read) \in Nat /\ Len(read) <= MaxTokens
  BY <1>1 DEF TypeOK
<1>3. PICK k \in 0..Len(read) : Parsed(read, k) /\ Behind(read, k, Len(read))
  BY <1>1 DEF IInv, Scanned
<1>4. \/ Len(read) = 0 \/ read[Len(read)].kind # "outer"
      \/ k < Len(read) - 1 /\ \A j \in (k + 1)..Len(read) : ~ Preamble(read, j)
  <2>1. CASE st = "Top"
    BY <1>3, <2>1 DEF Behind
  <2>2. CASE st = "AttrPound"
    BY <1>2, <1>3, <2>2 DEF Behind, OpenPound
  <2>3. CASE st \in {"UseItem", "Attr"}
    <3>1. k < Len(read) /\ read[k + 1].kind # "outer"
      BY <1>3, <2>3 DEF Behind, OpenUse, OpenAttr
    <3>2. \A j \in (k + 1)..Len(read) : ~ Preamble(read, j)
      BY <1>3 DEF Behind
    <3>3. QED
      BY <1>2, <3>1, <3>2
  <2>4. QED
    BY <1>1, <2>1, <2>2, <2>3 DEF TypeOK
<1>5. read # <<>> => read[Len(read)].kind # "outer" \/ ~ Preamble(read, Len(read) - 1)
  <2>1. Len(read) = 0 => read = <<>>
    BY <1>2
  <2>2. QED
    BY <1>2, <1>4, <2>1
<1>6. QED
  BY <1>1, <1>2, <1>5, GivesUp

LEMMA NextIInv == IInv /\ [Next]_vars => IInv'
<1> SUFFICES ASSUME IInv, [Next]_vars PROVE IInv'
  OBVIOUS
<1>1. ASSUME NEW t \in Token, InUse(t) \/ InAttr(t) \/ AfterPound(t) \/ TopLevel(t) \/ Header(t)
      PROVE  IInv'
  BY <1>1, UseStep, AttrStep, PoundStep, TopStep, HeaderStep
<1>2. CASE EndOfFile
  BY <1>2, EndStep
<1>3. CASE UNCHANGED vars
  <2>1. UNCHANGED <<st, depth, url, read>>
    BY <1>3 DEF vars
  <2>2. TypeOK' /\ FindsFirstDoc'
    BY <2>1 DEF IInv, TypeOK, FindsFirstDoc, AtHeader
  <2>3. Scanned'
    BY <2>1 DEF IInv, Scanned, Behind
  <2>4. QED
    BY <2>2, <2>3 DEF IInv
<1>4. QED
  BY <1>1, <1>2, <1>3 DEF Next

LEMMA Inductive == Spec => []IInv
BY InitIInv, NextIInv, PTL DEF Spec

\* Every state of the scan is well typed, for files of any length: no closing
\* bracket takes the depth below zero.
THEOREM TypeCorrect == Spec => []TypeOK
<1>1. IInv => TypeOK
  BY DEF IInv
<1>2. QED
  BY <1>1, Inductive, PTL

\* What the documents allow above the header is preamble.
LEMMA DocumentedIsPreamble ==
  ASSUME NEW s, NEW n, DocumentedPreamble(s, n)
  PROVE  Preamble(s, n)
<1>1. PICK cuts \in SUBSET (0..n) :
        /\ {0, n} \subseteq cuts
        /\ \A j \in cuts \ {0} : \E i \in cuts : i < j /\ DocumentedUnit(s, i + 1, j)
  BY DEF DocumentedPreamble
<1>2. \A a, b : DocumentedUnit(s, a, b) => Unit(s, a, b)
  BY DEF DocumentedUnit, Unit
<1>3. QED
  BY <1>1, <1>2 DEF Preamble

\* For files of any length the scan gives the link of every header the
\* documents describe, and of no doc that stands below anything but preamble.
THEOREM ScanCorrect == Spec => []FindsHeader
<1>1. IInv => FindsHeader
  <2> SUFFICES ASSUME FindsFirstDoc, st = "Done" PROVE FindsHeader
    BY DEF IInv, FindsHeader
  <2>1. Documented => AtHeader
    BY DocumentedIsPreamble DEF Documented, AtHeader
  <2>2. QED
    BY <2>1 DEF FindsFirstDoc, FindsHeader
<1>2. QED
  BY <1>1, Inductive, PTL

\* A token that neither completes nor continues the one unit there could be
\* leaves no way to read the file as a header's beginning.
LEMMA Debris ==
  ASSUME NEW s, NEW k \in Nat, NEW n \in Nat, k <= n, Len(s) = n + 1,
         Parsed(s, k), \A j \in (k + 1)..n : ~ Preamble(s, j),
         ~ Unit(s, k + 1, n + 1), ~ OpenUnit(s, k + 1, n + 1)
  PROVE  ~ Beginning(s)
<1> SUFFICES ASSUME NEW j \in 0..(n + 1), Preamble(s, j),
                    j = n + 1 \/ OpenUnit(s, j + 1, n + 1)
             PROVE  FALSE
  BY DocumentedIsPreamble DEF Beginning, DocumentedOpen, OpenUnit
<1>1. CASE j = n + 1
  BY <1>1, TokenParsed
<1>2. CASE j \in (k + 1)..n
  BY <1>2
<1>3. CASE j = k
  BY <1>3
<1>4. CASE j < k
  <2>1. PICK e \in (j + 1)..k : Unit(s, j + 1, e)
    BY <1>4 DEF Parsed
  <2>2. OpenUnit(s, j + 1, n + 1)
    BY <1>4
  <2>3. QED
    BY <2>1, <2>2, OpenHasNoUnit
<1>5. QED
  BY <1>1, <1>2, <1>3, <1>4

\* Between items, a token that begins none; after a #, one that is neither ! nor
\* an opening bracket.
LEMMA RefusedAtTop ==
  ASSUME IInv, NEW t \in Token, TopLevel(t), st' = "Done"
  PROVE  ~ Beginning(read')
<1>1. TypeOK /\ st = "Top" /\ Read(t) /\ t.kind \notin {"ws", "use", "pound"}
  BY DEF IInv, TopLevel, Goto
<1>2. PICK k \in 0..Len(read) : Parsed(read, k) /\ Behind(read, k, Len(read))
  BY <1>1 DEF IInv, Scanned
<1>3. k = Len(read) /\ \A j \in (k + 1)..Len(read) : ~ Preamble(read, j)
  BY <1>1, <1>2 DEF Behind
<1>4. Len(read) \in Nat /\ Len(read') = Len(read) + 1 /\ read'[Len(read) + 1] = t
  BY <1>1, ReadKeeps
<1>5. Parsed(read', k) /\ \A j \in (k + 1)..Len(read) : ~ Preamble(read', j)
  BY <1>1, <1>2, <1>3, ReadParsed
<1>6. /\ ~ Unit(read', k + 1, Len(read) + 1)
      /\ ~ OpenUnit(read', k + 1, Len(read) + 1)
  BY <1>1, <1>3, <1>4 DEF Unit, Blank, UseItem, Attribute, OpenUnit, OpenUse, OpenPound,
                          OpenAttr
<1>7. QED
  BY <1>3, <1>4, <1>5, <1>6, Debris

LEMMA RefusedAfterPound ==
  ASSUME IInv, NEW t \in Token, AfterPound(t), st' = "Done"
  PROVE  ~ Beginning(read')
<1>1. TypeOK /\ st = "AttrPound" /\ Read(t) /\ t.kind \notin {"bang", "open"}
  BY DEF IInv, AfterPound, Goto
<1>2. PICK k \in 0..Len(read) : Parsed(read, k) /\ Behind(read, k, Len(read))
  BY <1>1 DEF IInv, Scanned
<1>3. /\ k < Len(read) /\ OpenPound(read, k + 1, Len(read))
      /\ \A j \in (k + 1)..Len(read) : ~ Preamble(read, j)
  BY <1>1, <1>2 DEF Behind
<1>4. /\ Len(read) \in Nat /\ Len(read') = Len(read) + 1 /\ read'[Len(read) + 1] = t
      /\ \A i \in 1..Len(read) : read'[i] = read[i]
  BY <1>1, ReadKeeps
<1>5. Parsed(read', k) /\ \A j \in (k + 1)..Len(read) : ~ Preamble(read', j)
  BY <1>1, <1>2, <1>3, ReadParsed
<1>6. /\ read'[k + 1].kind = "pound"
      /\ \A i \in (k + 2)..Len(read) : read'[i].kind = "bang"
      /\ \A i \in (k + 2)..(Len(read) + 1) : read'[i].kind # "open"
  BY <1>1, <1>3, <1>4 DEF OpenPound
<1>7. ~ Unit(read', k + 1, Len(read) + 1)
  BY <1>3, <1>4, <1>6 DEF Unit, Blank, UseItem, Attribute
<1>8. ~ OpenUnit(read', k + 1, Len(read) + 1)
  BY <1>1, <1>3, <1>4, <1>6 DEF OpenUnit, OpenUse, OpenPound, OpenAttr
<1>9. QED
  BY <1>3, <1>4, <1>5, <1>7, <1>8, Debris

\* For files of any length the scan returns without a header only at the end of
\* the file or at a token that no documented header has above it.
THEOREM NeverTooEarly == Spec => RefusesOnlyDebris
<1> DEFINE Refused == st' = "Done" /\ read' # read =>
                        Last(read').kind = "outer" \/ ~ Beginning(read')
<1>1. IInv /\ [Next]_vars => [Refused]_vars
  <2> SUFFICES ASSUME IInv, [Next]_vars PROVE Refused
    OBVIOUS
  <2>1. ASSUME NEW t \in Token, TopLevel(t) PROVE Refused
    BY <2>1, RefusedAtTop
  <2>2. ASSUME NEW t \in Token, AfterPound(t) PROVE Refused
    BY <2>2, RefusedAfterPound
  <2>3. ASSUME NEW t \in Token, InUse(t) \/ InAttr(t) PROVE Refused
    BY <2>3 DEF InUse, InAttr, Goto
  <2>4. ASSUME NEW t \in Token, Header(t) PROVE Refused
    <3>1. TypeOK /\ Read(t) /\ t.kind = "outer"
      BY <2>4 DEF IInv, Header
    <3>2. Len(read) \in Nat /\ Len(read') = Len(read) + 1 /\ read'[Len(read) + 1] = t
      BY <3>1, ReadKeeps
    <3>3. QED
      BY <3>1, <3>2 DEF Last
  <2>5. CASE UNCHANGED read
    BY <2>5
  <2>6. QED
    BY <2>1, <2>2, <2>3, <2>4, <2>5 DEF Next, EndOfFile, vars
<1>2. QED
  BY <1>1, Inductive, PTL DEF Spec, RefusesOnlyDebris

=============================================================================
