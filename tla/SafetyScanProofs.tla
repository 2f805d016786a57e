---------------------------- MODULE SafetyScanProofs ----------------------------
(***************************************************************************)
(* The backward walk decides the grammar of FoundIffAttached for prefixes  *)
(* of any length: at every token it stands behind the only way to cut what *)
(* it has passed into units, because no unit begins another, and it knows  *)
(* whether it is still above an attribute's bracket.                       *)
(***************************************************************************)
EXTENDS SafetyScan, FiniteSetTheorems, SequenceTheorems, TLAPS

-----------------------------------------------------------------------------
\* The grammar.

\* What the first n tokens are says everything about brackets, units and
\* cuts there.
LEMMA SameBalance ==
  ASSUME NEW s, NEW t, NEW n \in Nat, \A i \in 1..n : s[i] = t[i]
  PROVE  \A a \in 1..n, b \in 1..n : Balance(s, a, b) = Balance(t, a, b)
<1> SUFFICES ASSUME NEW a \in 1..n, NEW b \in 1..n
             PROVE  Balance(s, a, b) = Balance(t, a, b)
  OBVIOUS
<1>1. /\ {i \in a..b : s[i] = "open"} = {i \in a..b : t[i] = "open"}
      /\ {i \in a..b : s[i] = "close"} = {i \in a..b : t[i] = "close"}
  OBVIOUS
<1>2. QED
  BY <1>1 DEF Balance

LEMMA SameUnits ==
  ASSUME NEW s, NEW t, NEW n \in Nat, \A i \in 1..n : s[i] = t[i]
  PROVE  \A a \in 1..n, b \in 1..n : Unit(s, a, b) <=> Unit(t, a, b)
<1> SUFFICES ASSUME NEW a \in 1..n, NEW b \in 1..n
             PROVE  Unit(s, a, b) <=> Unit(t, a, b)
  OBVIOUS
<1>1. Blank(s, a, b) <=> Blank(t, a, b)
  BY DEF Blank
<1>2. Bracketed(s, a, b) <=> Bracketed(t, a, b)
  <2>1. \A i \in 1..n : Balance(s, a, i) = Balance(t, a, i)
    BY SameBalance
  <2>2. \A i \in a..(b - 1) : i \in 1..n
    OBVIOUS
  <2>3. QED
    BY <2>1, <2>2 DEF Bracketed
<1>3. Marked(s, a, b) <=> Marked(t, a, b)
  <2>1. \A i \in 1..(a - 1) : s[i] = t[i]
    OBVIOUS
  <2>2. AtBracket(s, a - 1) <=> AtBracket(t, a - 1)
    BY <2>1 DEF AtBracket
  <2>3. QED
    BY <2>2 DEF Marked
<1>4. QED
  BY <1>1, <1>2, <1>3 DEF Unit

LEMMA SameTokens ==
  ASSUME NEW s, NEW t, NEW n \in Nat, \A i \in 1..n : s[i] = t[i]
  PROVE  \A m \in 0..n : Passable(s, m) <=> Passable(t, m)
<1> SUFFICES ASSUME NEW m \in 0..n
             PROVE  Passable(s, m) <=> Passable(t, m)
  OBVIOUS
<1>1. \A cuts \in SUBSET (0..m) : \A i \in cuts, j \in cuts :
        i < j => (Unit(s, i + 1, j) <=> Unit(t, i + 1, j))
  <2> SUFFICES ASSUME NEW i \in 0..m, NEW j \in 0..m, i < j
               PROVE  Unit(s, i + 1, j) <=> Unit(t, i + 1, j)
    OBVIOUS
  <2>1. i + 1 \in 1..n /\ j \in 1..n
    OBVIOUS
  <2>2. QED
    BY <2>1, SameUnits
<1>2. QED
  BY <1>1 DEF Passable

\* No token at all is passable, and a unit extends what is.
LEMMA PassableExtends ==
  ASSUME NEW s
  PROVE  /\ Passable(s, 0)
         /\ \A k \in Nat, n \in Nat :
              k < n /\ Passable(s, k) /\ Unit(s, k + 1, n) => Passable(s, n)
<1>1. Passable(s, 0)
  <2>1. {0} \in SUBSET (0..0) /\ {0, 0} \subseteq {0} /\ {0} \ {0} = {}
    OBVIOUS
  <2>2. QED
    BY <2>1 DEF Passable
<1>2. ASSUME NEW k \in Nat, NEW n \in Nat, k < n, Passable(s, k), Unit(s, k + 1, n)
      PROVE  Passable(s, n)
  <2>1. PICK cuts \in SUBSET (0..k) :
          /\ {0, k} \subseteq cuts
          /\ \A j \in cuts \ {0} : \E i \in cuts : i < j /\ Unit(s, i + 1, j)
    BY <1>2 DEF Passable
  <2>2. cuts \cup {n} \in SUBSET (0..n) /\ {0, n} \subseteq cuts \cup {n}
    BY <1>2, <2>1
  <2>3. ASSUME NEW j \in (cuts \cup {n}) \ {0}
        PROVE  \E i \in cuts \cup {n} : i < j /\ Unit(s, i + 1, j)
    BY <1>2, <2>1
  <2>4. QED
    BY <2>2, <2>3 DEF Passable
<1>3. QED
  BY <1>1, <1>2

\* What is passable ends with a unit, behind less that is.
LEMMA PassableEnds ==
  ASSUME NEW s, NEW n \in Nat \ {0}, Passable(s, n)
  PROVE  \E d \in 0..(n - 1) : Passable(s, d) /\ Unit(s, d + 1, n)
<1>1. PICK cuts \in SUBSET (0..n) :
        /\ {0, n} \subseteq cuts
        /\ \A j \in cuts \ {0} : \E i \in cuts : i < j /\ Unit(s, i + 1, j)
  BY DEF Passable
<1>2. PICK d \in cuts : d < n /\ Unit(s, d + 1, n)
  BY <1>1
<1>3. d \in 0..(n - 1)
  BY <1>2
<1>4. Passable(s, d)
  <2> DEFINE shorter == cuts \cap (0..d)
  <2>1. shorter \in SUBSET (0..d) /\ {0, d} \subseteq shorter
    BY <1>1, <1>3
  <2>2. \A j \in shorter \ {0} : \E i \in shorter : i < j /\ Unit(s, i + 1, j)
    <3> SUFFICES ASSUME NEW j \in shorter \ {0}
                 PROVE  \E i \in shorter : i < j /\ Unit(s, i + 1, j)
      OBVIOUS
    <3>1. PICK i \in cuts : i < j /\ Unit(s, i + 1, j)
      BY <1>1
    <3>2. i \in shorter
      BY <1>3, <3>1
    <3>3. QED
      BY <3>1, <3>2
  <2>3. QED
    BY <2>1, <2>2 DEF Passable
<1>5. QED
  BY <1>2, <1>3, <1>4

\* What is read of a pair of brackets that has not ended; it begins with no unit.
OpenGroup(s, a, n) ==
  a <= n /\ s[a] = "close" /\ \A i \in a..n : Balance(s, a, i) > 0

LEMMA OpenHasNoUnit ==
  ASSUME NEW s, NEW a \in Nat, NEW e \in Nat, NEW n \in Nat, a <= e, e <= n,
         Unit(s, a, e), OpenGroup(s, a, n)
  PROVE  FALSE
<1>1. Balance(s, a, e) = 0
  BY DEF Unit, Blank, Bracketed, Marked, Mark, OpenGroup
<1>2. Balance(s, a, e) > 0
  BY DEF OpenGroup
<1>3. QED
  BY <1>1, <1>2

\* Units are a prefix code.
LEMMA PrefixCode ==
  ASSUME NEW s, NEW a \in Nat, NEW e \in Nat, NEW n \in Nat, a <= e, e < n,
         Unit(s, a, e), Unit(s, a, n)
  PROVE  FALSE
<1>1. Bracketed(s, a, n)
  BY DEF Unit, Blank, Marked
<1>2. OpenGroup(s, a, n - 1)
  BY <1>1 DEF Bracketed, OpenGroup
<1>3. e <= n - 1 /\ n - 1 \in Nat
  OBVIOUS
<1>4. QED
  BY <1>2, <1>3, OpenHasNoUnit

Kinds(s, kind, a, n) == {i \in a..n : s[i] = kind}

\* Counting the tokens of a kind, one token at a time.
LEMMA CountStep ==
  ASSUME NEW s, NEW kind, NEW a \in Nat \ {0}, NEW n \in Nat, a <= n + 1
  PROVE  /\ Cardinality(Kinds(s, kind, a, n)) \in Nat
         /\ a = n + 1 => Cardinality(Kinds(s, kind, a, n)) = 0
         /\ Cardinality(Kinds(s, kind, a, n + 1)) =
              Cardinality(Kinds(s, kind, a, n)) + (IF s[n + 1] = kind THEN 1 ELSE 0)
<1>1. IsFiniteSet(Kinds(s, kind, a, n)) /\ Cardinality(Kinds(s, kind, a, n)) \in Nat
  <2>1. IsFiniteSet(a..n) /\ Kinds(s, kind, a, n) \subseteq a..n
    BY FS_Interval DEF Kinds
  <2>2. IsFiniteSet(Kinds(s, kind, a, n))
    BY <2>1, FS_Subset
  <2>3. QED
    BY <2>2, FS_CardinalityType
<1>2. ASSUME s[n + 1] = kind
      PROVE  Cardinality(Kinds(s, kind, a, n + 1)) =
               Cardinality(Kinds(s, kind, a, n)) + (IF s[n + 1] = kind THEN 1 ELSE 0)
  <2>1. n + 1 \notin Kinds(s, kind, a, n)
    BY DEF Kinds
  <2>2. Kinds(s, kind, a, n + 1) = Kinds(s, kind, a, n) \cup {n + 1}
    BY <1>2 DEF Kinds
  <2>3. Cardinality(Kinds(s, kind, a, n) \cup {n + 1}) = Cardinality(Kinds(s, kind, a, n)) + 1
    BY <1>1, <2>1, FS_AddElement
  <2>4. QED
    BY <1>1, <1>2, <2>2, <2>3
<1>3. ASSUME s[n + 1] # kind
      PROVE  Cardinality(Kinds(s, kind, a, n + 1)) =
               Cardinality(Kinds(s, kind, a, n)) + (IF s[n + 1] = kind THEN 1 ELSE 0)
  <2>1. Kinds(s, kind, a, n + 1) = Kinds(s, kind, a, n)
    BY <1>3 DEF Kinds
  <2>2. QED
    BY <1>1, <1>3, <2>1
<1>4. a = n + 1 => Cardinality(Kinds(s, kind, a, n)) = 0
  <2>1. a = n + 1 => Kinds(s, kind, a, n) = {}
    BY DEF Kinds
  <2>2. QED
    BY <2>1, FS_EmptySet
<1>5. QED
  <2>1. Cardinality(Kinds(s, kind, a, n + 1)) =
          Cardinality(Kinds(s, kind, a, n)) + (IF s[n + 1] = kind THEN 1 ELSE 0)
    BY <1>1, <1>2, <1>3
  <2>2. QED
    BY <1>1, <1>4, <2>1

\* And brackets.
LEMMA BalanceStep ==
  ASSUME NEW s, NEW a \in Nat \ {0}, NEW n \in Nat, a <= n + 1
  PROVE  /\ Balance(s, a, n) \in Int
         /\ a = n + 1 => Balance(s, a, n) = 0
         /\ Balance(s, a, n + 1) =
              Balance(s, a, n) + (IF s[n + 1] = "close" THEN 1
                                  ELSE IF s[n + 1] = "open" THEN -1 ELSE 0)
<1>1. \A m : Balance(s, a, m) =
               Cardinality(Kinds(s, "close", a, m)) - Cardinality(Kinds(s, "open", a, m))
  BY DEF Balance, Kinds
<1>2. /\ Cardinality(Kinds(s, "open", a, n)) \in Nat
      /\ a = n + 1 => Cardinality(Kinds(s, "open", a, n)) = 0
      /\ Cardinality(Kinds(s, "open", a, n + 1)) =
           Cardinality(Kinds(s, "open", a, n)) + (IF s[n + 1] = "open" THEN 1 ELSE 0)
  BY CountStep
<1>3. /\ Cardinality(Kinds(s, "close", a, n)) \in Nat
      /\ a = n + 1 => Cardinality(Kinds(s, "close", a, n)) = 0
      /\ Cardinality(Kinds(s, "close", a, n + 1)) =
           Cardinality(Kinds(s, "close", a, n)) + (IF s[n + 1] = "close" THEN 1 ELSE 0)
  BY CountStep
<1>4. QED
  BY <1>1, <1>2, <1>3

-----------------------------------------------------------------------------
\* The walk.

\* Up to k the tokens can be cut in one way only: where a shorter cut ends, the
\* next unit ends by k as well.
Parsed(s, k) ==
  /\ Passable(s, k)
  /\ \A d \in 0..(k - 1) : Passable(s, d) => \E e \in (d + 1)..k : Unit(s, d + 1, e)

\* Of the n tokens, those behind k are what the mode says, and nothing passable
\* ends in them.
Behind(s, k, n) ==
  /\ mode \in {"walk", "tail"} => /\ k = n /\ (n # 0 => s[n] # "safety")
                                  /\ mode = "tail" <=> AtBracket(s, n)
  /\ mode = "group" => k < n /\ OpenGroup(s, k + 1, n) /\ Balance(s, k + 1, n) = depth
  /\ \A j \in (k + 1)..n : ~ Passable(s, j)

Walking == mode \in {"walk", "group", "tail"}

Scanned ==
  /\ mode = "start" => read = <<>>
  /\ Walking =>
       /\ source /\ depth <= Len(read)
       /\ \E k \in 0..Len(read) : Parsed(read, k) /\ Behind(read, k, Len(read))

IInv == TypeOK /\ Scanned /\ FoundIffAttached

LEMMA InitIInv == Init => IInv
<1> SUFFICES ASSUME Init PROVE IInv
  OBVIOUS
<1>1. TypeOK
  <2>1. read \in Seq(Token) /\ Len(read) = 0
    BY DEF Init
  <2>2. depth \in 0..MaxTokens /\ Len(read) <= MaxTokens
    BY <2>1, MaxTokensAssumption DEF Init, MaxTokensAssumption
  <2>3. mode = "start" /\ ~ (depth > 0)
    BY DEF Init
  <2>4. source \in BOOLEAN /\ inside \in BOOLEAN /\ found \in BOOLEAN
    BY Zenon DEF Init
  <2>5. QED
    BY <2>1, <2>2, <2>3, <2>4 DEF TypeOK
<1>2. Scanned /\ FoundIffAttached
  BY DEF Init, Scanned, Walking, FoundIffAttached
<1>3. QED
  BY <1>1, <1>2 DEF IInv

\* A token that leaves the group behind k open ends nothing passable; one that
\* completes a unit does, and again in one way only.
LEMMA TokenParsed ==
  ASSUME NEW s, NEW k \in Nat, NEW n \in Nat, k <= n,
         Parsed(s, k), \A j \in (k + 1)..n : ~ Passable(s, j)
  PROVE  /\ ~ Unit(s, k + 1, n + 1) => ~ Passable(s, n + 1)
         /\ Unit(s, k + 1, n + 1) => Parsed(s, n + 1)
<1>1. ASSUME ~ Unit(s, k + 1, n + 1), Passable(s, n + 1)
      PROVE  FALSE
  <2>1. PICK d \in 0..n : Passable(s, d) /\ Unit(s, d + 1, n + 1)
    BY <1>1, PassableEnds
  <2>2. d < k
    BY <1>1, <2>1
  <2>3. PICK e \in (d + 1)..k : Unit(s, d + 1, e)
    BY <2>1, <2>2 DEF Parsed
  <2>4. QED
    BY <2>1, <2>2, <2>3, PrefixCode
<1>2. ASSUME Unit(s, k + 1, n + 1)
      PROVE  Parsed(s, n + 1)
  <2>1. Passable(s, n + 1)
    BY <1>2, PassableExtends DEF Parsed
  <2>2. ASSUME NEW d \in 0..n, Passable(s, d)
        PROVE  \E e \in (d + 1)..(n + 1) : Unit(s, d + 1, e)
    <3>1. d <= k
      BY <2>2
    <3>2. CASE d = k
      BY <1>2, <3>2
    <3>3. CASE d < k
      BY <2>2, <3>3 DEF Parsed
    <3>4. QED
      BY <3>1, <3>2, <3>3
  <2>3. QED
    BY <2>1, <2>2 DEF Parsed
<1>3. QED
  BY <1>1, <1>2

\* What reading a token leaves as it was, of the tokens
LEMMA ReadKeeps ==
  ASSUME TypeOK, NEW t \in Token, Read(t)
  PROVE  /\ read' \in Seq(Token) /\ Len(read') = Len(read) + 1 /\ Len(read') <= MaxTokens
         /\ Len(read) \in Nat /\ read'[Len(read) + 1] = t
         /\ \A i \in 1..Len(read) : read'[i] = read[i]
         /\ source' = source /\ inside' = inside
<1>1. /\ read \in Seq(Token) /\ Len(read) < MaxTokens /\ read' = Append(read, t)
      /\ source' = source /\ inside' = inside
  BY DEF TypeOK, Read
<1>2. /\ read' \in Seq(Token) /\ Len(read') = Len(read) + 1 /\ read'[Len(read) + 1] = t
      /\ \A i \in 1..Len(read) : read'[i] = read[i]
  BY <1>1, AppendProperties
<1>3. Len(read) \in Nat
  BY <1>1, LenProperties
<1>4. QED
  BY <1>1, <1>2, <1>3, MaxTokensAssumption DEF MaxTokensAssumption

\* and of their cuts.
LEMMA ReadParsed ==
  ASSUME TypeOK, NEW t \in Token, Read(t), NEW k \in 0..Len(read), Parsed(read, k),
         \A j \in (k + 1)..Len(read) : ~ Passable(read, j)
  PROVE  /\ Parsed(read', k)
         /\ \A j \in (k + 1)..Len(read) : ~ Passable(read', j)
<1>1. /\ Len(read) \in Nat /\ \A i \in 1..Len(read) : read[i] = read'[i]
  BY ReadKeeps
<1>2. \A a \in 1..Len(read), b \in 1..Len(read) : Unit(read, a, b) <=> Unit(read', a, b)
  BY <1>1, SameUnits
<1>3. \A m \in 0..Len(read) : Passable(read, m) <=> Passable(read', m)
  BY <1>1, SameTokens
<1>4. QED
  BY <1>1, <1>2, <1>3 DEF Parsed

\* A token that keeps the group behind k open.
LEMMA StaysOpen ==
  ASSUME TypeOK, NEW t \in Token, Read(t), NEW k \in 0..Len(read), Parsed(read, k),
         \A j \in (k + 1)..Len(read) : ~ Passable(read, j),
         OpenGroup(read', k + 1, Len(read) + 1)
  PROVE  /\ Parsed(read', k)
         /\ \A j \in (k + 1)..Len(read') : ~ Passable(read', j)
<1>1. /\ Parsed(read', k) /\ \A j \in (k + 1)..Len(read) : ~ Passable(read', j)
      /\ Len(read) \in Nat /\ Len(read') = Len(read) + 1
  BY ReadParsed, ReadKeeps
<1>2. ~ Unit(read', k + 1, Len(read) + 1)
  BY <1>1, OpenHasNoUnit
<1>3. ~ Passable(read', Len(read) + 1)
  BY <1>1, <1>2, TokenParsed
<1>4. QED
  BY <1>1, <1>3

\* And one that completes a unit.
LEMMA Completes ==
  ASSUME TypeOK, NEW t \in Token, Read(t), NEW k \in 0..Len(read), Parsed(read, k),
         \A j \in (k + 1)..Len(read) : ~ Passable(read, j),
         Unit(read', k + 1, Len(read) + 1)
  PROVE  Parsed(read', Len(read'))
<1>1. /\ Parsed(read', k) /\ \A j \in (k + 1)..Len(read) : ~ Passable(read', j)
      /\ Len(read) \in Nat /\ Len(read') = Len(read) + 1
  BY ReadParsed, ReadKeeps
<1>2. QED
  BY <1>1, TokenParsed

\* The tokens behind k, one more read.
LEMMA Tokens ==
  ASSUME TypeOK, NEW t \in Token, Read(t), NEW k \in 0..Len(read)
  PROVE  /\ \A i \in (k + 1)..Len(read) : Balance(read', k + 1, i) = Balance(read, k + 1, i)
         /\ Balance(read', k + 1, Len(read)) \in Int
         /\ k = Len(read) => Balance(read', k + 1, Len(read)) = 0
         /\ Balance(read', k + 1, Len(read) + 1) =
              Balance(read', k + 1, Len(read)) + (IF t = "close" THEN 1
                                                  ELSE IF t = "open" THEN -1 ELSE 0)
<1>1. /\ Len(read) \in Nat /\ read'[Len(read) + 1] = t
      /\ \A i \in 1..Len(read) : read'[i] = read[i]
  BY ReadKeeps
<1>2. \A a \in 1..Len(read), b \in 1..Len(read) : Balance(read', a, b) = Balance(read, a, b)
  BY <1>1, SameBalance
<1>3. \A i \in (k + 1)..Len(read) : Balance(read', k + 1, i) = Balance(read, k + 1, i)
  BY <1>1, <1>2
<1>4. k + 1 \in Nat \ {0} /\ k + 1 <= Len(read) + 1
  BY <1>1
<1>5. QED
  BY <1>1, <1>3, <1>4, BalanceStep

\* Whether the walk is still above a bracket, one token on.
LEMMA Above ==
  ASSUME TypeOK, NEW t \in Token, Read(t)
  PROVE  AtBracket(read', Len(read')) <=>
           t = "open" \/ (t \in Mark \cup {"ws"} /\ AtBracket(read, Len(read)))
<1>1. /\ Len(read) \in Nat /\ Len(read') = Len(read) + 1 /\ read'[Len(read) + 1] = t
      /\ \A i \in 1..Len(read) : read'[i] = read[i]
  BY ReadKeeps
<1>2. ASSUME AtBracket(read', Len(read')), t # "open"
      PROVE  t \in Mark \cup {"ws"} /\ AtBracket(read, Len(read))
  <2>1. PICK i \in 1..Len(read') :
          /\ read'[i] = "open"
          /\ \A j \in (i + 1)..Len(read') : read'[j] \in Mark \cup {"ws"}
    BY <1>2 DEF AtBracket
  <2>2. i \in 1..Len(read)
    BY <1>1, <1>2, <2>1
  <2>3. \A j \in (i + 1)..Len(read) : read[j] \in Mark \cup {"ws"}
    BY <1>1, <2>1, <2>2
  <2>4. QED
    BY <1>1, <2>1, <2>2, <2>3 DEF AtBracket
<1>3. ASSUME t = "open"
      PROVE  AtBracket(read', Len(read'))
  BY <1>1, <1>3 DEF AtBracket
<1>4. ASSUME t \in Mark \cup {"ws"}, AtBracket(read, Len(read))
      PROVE  AtBracket(read', Len(read'))
  <2>1. PICK i \in 1..Len(read) :
          /\ read[i] = "open"
          /\ \A j \in (i + 1)..Len(read) : read[j] \in Mark \cup {"ws"}
    BY <1>4 DEF AtBracket
  <2>2. \A j \in (i + 1)..Len(read') : read'[j] \in Mark \cup {"ws"}
    BY <1>1, <1>4, <2>1
  <2>3. QED
    BY <1>1, <2>1, <2>2 DEF AtBracket
<1>5. QED
  BY <1>2, <1>3, <1>4

\* The invariant after a step that goes on,
LEMMA GoesOn ==
  ASSUME TypeOK, source, NEW t \in Token, Read(t), found' = found,
         Walking', depth' \in 0..(Len(read) + 1), mode' = "group" <=> depth' > 0,
         \E k \in 0..Len(read') : Parsed(read', k) /\ Behind(read, k, Len(read))'
  PROVE  IInv'
<1>1. /\ read' \in Seq(Token) /\ Len(read') = Len(read) + 1 /\ Len(read') <= MaxTokens
      /\ Len(read) \in Nat /\ source' = source /\ inside' = inside
  BY ReadKeeps
<1>2. TypeOK'
  <2>1. depth' \in 0..MaxTokens
    BY <1>1, MaxTokensAssumption DEF MaxTokensAssumption
  <2>2. QED
    BY <1>1, <2>1 DEF TypeOK, Walking
<1>3. mode' \notin {"start", "done"} /\ depth' <= Len(read')
  BY <1>1 DEF Walking
<1>4. Scanned'
  <2>1. source'
    BY <1>1
  <2>2. QED
    BY <1>1, <1>3, <2>1 DEF Scanned
<1>5. FoundIffAttached'
  BY <1>3 DEF FoundIffAttached
<1>6. QED
  BY <1>2, <1>4, <1>5 DEF IInv

\* and after one that ends the walk with no comment found.
LEMMA GivesUp ==
  ASSUME TypeOK, source, source' = source, inside' = inside, Return(inside),
         read' \in Seq(Token), Len(read') <= MaxTokens,
         read' # <<>> => \/ read'[Len(read')] # "safety"
                         \/ ~ Passable(read', Len(read') - 1)
  PROVE  IInv'
<1>1. mode' = "done" /\ found' = inside /\ depth' = 0
  BY DEF Return
<1>2. TypeOK'
  BY <1>1, MaxTokensAssumption DEF TypeOK, MaxTokensAssumption
<1>3. Scanned'
  BY <1>1 DEF Scanned, Walking
<1>4. FoundIffAttached'
  <2>1. ~ (read' # <<>> /\ Last(read') = "safety" /\ Passable(read', Len(read') - 1))
    BY DEF Last
  <2>2. inside \in BOOLEAN
    BY DEF TypeOK
  <2>3. QED
    BY <1>1, <2>1, <2>2, Zenon DEF FoundIffAttached
<1>5. QED
  BY <1>2, <1>3, <1>4 DEF IInv

LEMMA BeginStep ==
  ASSUME IInv, Begin
  PROVE  IInv'
<1>1. /\ TypeOK /\ mode = "start" /\ read = <<>> /\ read' = read /\ depth' = 0
      /\ source' = source /\ inside' = inside
  BY DEF IInv, Scanned, Begin, Goto, Return
<1>2. Len(read) = 0
  BY <1>1
<1>3. CASE source
  <2>1. mode' = "walk" /\ found' = found
    BY <1>3 DEF Begin, Goto
  <2>2. TypeOK'
    BY <1>1, <2>1 DEF TypeOK
  <2>3. Parsed(read', 0)
    BY PassableExtends DEF Parsed
  <2>4. Behind(read, 0, 0)'
    BY <2>1 DEF Behind, AtBracket
  <2>5. Scanned' /\ FoundIffAttached'
    BY <1>1, <1>2, <1>3, <2>1, <2>3, <2>4 DEF Scanned, Walking, FoundIffAttached
  <2>6. QED
    BY <2>2, <2>5 DEF IInv
<1>4. CASE ~ source
  <2>1. mode' = "done" /\ found' = FALSE
    BY <1>4 DEF Begin, Return
  <2>2. TypeOK'
    <3>1. found' \in BOOLEAN
      BY <2>1, Zenon
    <3>2. QED
      BY <1>1, <2>1, <3>1 DEF TypeOK
  <2>3. Scanned'
    BY <2>1 DEF Scanned, Walking
  <2>4. FoundIffAttached'
    BY <1>1, <1>4, <2>1, Zenon DEF FoundIffAttached
  <2>5. QED
    BY <2>2, <2>3, <2>4 DEF IInv
<1>5. QED
  BY <1>3, <1>4

\* The match of the outer loop, from both places that reach it.
LEMMA VisitStep ==
  ASSUME IInv, NEW t \in Token, mode \in {"walk", "tail"}, Read(t), Visit(t),
         mode = "tail" => t \notin Mark \cup {"ws"}
  PROVE  IInv'
<1>1. TypeOK /\ source
  BY DEF IInv, Scanned, Walking
<1>2. PICK k \in 0..Len(read) : Parsed(read, k) /\ Behind(read, k, Len(read))
  BY DEF IInv, Scanned, Walking
<1>3. /\ k = Len(read) /\ \A j \in (k + 1)..Len(read) : ~ Passable(read, j)
      /\ mode = "tail" <=> AtBracket(read, Len(read))
  BY <1>2 DEF Behind
<1>4. /\ Len(read) \in Nat /\ Len(read') = Len(read) + 1 /\ read'[Len(read) + 1] = t
      /\ read' \in Seq(Token) /\ Len(read') <= MaxTokens
      /\ source' = source /\ inside' = inside
  BY <1>1, ReadKeeps
<1>5. Parsed(read', Len(read))
  BY <1>1, <1>2, <1>3, ReadParsed
<1>6. CASE t \in {"ws", "comment"}
  <2>1. mode' = "walk" /\ depth' = 0 /\ found' = found
    BY <1>6 DEF Visit, Goto
  <2>2. Blank(read', Len(read) + 1, Len(read) + 1)
    BY <1>4, <1>6 DEF Blank
  <2>3. Parsed(read', Len(read'))
    BY <1>1, <1>2, <1>3, <2>2, Completes DEF Unit
  <2>4. ~ AtBracket(read', Len(read'))
    BY <1>1, <1>3, <1>6, Above DEF Mark
  <2>5. Behind(read, Len(read), Len(read))'
    BY <1>4, <1>6, <2>1, <2>4 DEF Behind
  <2>6. QED
    BY <1>1, <1>4, <2>1, <2>3, <2>5, GoesOn DEF Walking
<1>7. CASE t = "safety"
  <2>1. mode' = "done" /\ found' = TRUE /\ depth' = 0
    BY <1>7 DEF Visit, Return
  <2>2. Passable(read', Len(read') - 1)
    BY <1>4, <1>5 DEF Parsed
  <2>3. read' # <<>> /\ Last(read') = "safety"
    BY <1>4, <1>7 DEF Last
  <2>4. TypeOK'
    BY <1>1, <1>4, <2>1, MaxTokensAssumption DEF TypeOK, MaxTokensAssumption
  <2>5. Scanned' /\ FoundIffAttached'
    BY <1>1, <1>4, <2>1, <2>2, <2>3 DEF Scanned, Walking, FoundIffAttached
  <2>6. QED
    BY <2>4, <2>5 DEF IInv
<1>8. CASE t = "close"
  <2>1. mode' = "group" /\ depth' = 1 /\ found' = found
    BY <1>8 DEF Visit, Goto
  <2>2. Balance(read', Len(read) + 1, Len(read) + 1) = 1
    <3>1. /\ Balance(read', k + 1, Len(read)) = 0
          /\ Balance(read', k + 1, Len(read) + 1) = Balance(read', k + 1, Len(read)) + 1
      BY <1>1, <1>3, <1>8, Tokens
    <3>2. QED
      BY <1>3, <3>1
  <2>3. OpenGroup(read', Len(read) + 1, Len(read) + 1)
    BY <1>4, <1>8, <2>2 DEF OpenGroup
  <2>4. \A j \in (k + 1)..Len(read') : ~ Passable(read', j)
    BY <1>1, <1>2, <1>3, <2>3, StaysOpen
  <2>5. Parsed(read', k) /\ k \in 0..Len(read')
    BY <1>3, <1>4, <1>5
  <2>6. Behind(read, k, Len(read))'
    BY <1>3, <1>4, <2>1, <2>2, <2>3, <2>4 DEF Behind
  <2>7. QED
    BY <1>1, <1>4, <2>1, <2>5, <2>6, GoesOn DEF Walking
<1>9. CASE t \notin {"ws", "comment", "safety", "close"}
  <2>1. Return(inside)
    BY <1>9 DEF Visit
  <2>2. QED
    BY <1>1, <1>4, <1>9, <2>1, GivesUp
<1>10. QED
  BY <1>6, <1>7, <1>8, <1>9

LEMMA TailStep ==
  ASSUME IInv, NEW t \in Token, AfterGroup(t)
  PROVE  IInv'
<1>1. TypeOK /\ source /\ mode = "tail" /\ Read(t)
  BY DEF IInv, Scanned, Walking, AfterGroup
<1>2. CASE t \in Mark \cup {"ws"}
  <2>1. mode' = "tail" /\ depth' = 0 /\ found' = found
    BY <1>2 DEF AfterGroup, Goto, Mark
  <2>2. PICK k \in 0..Len(read) : Parsed(read, k) /\ Behind(read, k, Len(read))
    BY <1>1 DEF IInv, Scanned, Walking
  <2>3. /\ k = Len(read) /\ AtBracket(read, Len(read))
        /\ \A j \in (k + 1)..Len(read) : ~ Passable(read, j)
    BY <1>1, <2>2 DEF Behind
  <2>4. /\ Len(read) \in Nat /\ Len(read') = Len(read) + 1 /\ read'[Len(read) + 1] = t
        /\ \A i \in 1..Len(read) : read'[i] = read[i]
    BY <1>1, ReadKeeps
  <2>5. Unit(read', Len(read) + 1, Len(read) + 1)
    <3>1. CASE t = "ws"
      BY <2>4, <3>1 DEF Unit, Blank
    <3>2. CASE t \in Mark
      <4>1. AtBracket(read', Len(read))
        BY <2>3, <2>4 DEF AtBracket
      <4>2. (Len(read) + 1) - 1 = Len(read)
        BY <2>4
      <4>3. QED
        BY <2>4, <3>2, <4>1, <4>2 DEF Unit, Marked
    <3>3. QED
      BY <1>2, <3>1, <3>2
  <2>6. Parsed(read', Len(read'))
    BY <1>1, <2>2, <2>3, <2>5, Completes
  <2>7. AtBracket(read', Len(read'))
    BY <1>1, <1>2, <2>3, Above
  <2>8. Behind(read, Len(read), Len(read))'
    BY <1>2, <2>1, <2>4, <2>7 DEF Behind, Mark
  <2>9. QED
    BY <1>1, <2>1, <2>4, <2>6, <2>8, GoesOn DEF Walking
<1>3. CASE t \notin Mark \cup {"ws"}
  <2>1. Visit(t)
    BY <1>3 DEF AfterGroup, Mark
  <2>2. QED
    BY <1>1, <1>3, <2>1, VisitStep
<1>4. QED
  BY <1>2, <1>3

LEMMA GroupStep ==
  ASSUME IInv, NEW t \in Token, Group(t)
  PROVE  IInv'
<1>1. /\ TypeOK /\ source /\ mode = "group" /\ Read(t)
      /\ depth \in Nat \ {0} /\ depth <= Len(read)
  <2>1. TypeOK /\ source /\ mode = "group" /\ Read(t)
    BY DEF IInv, Scanned, Walking, Group
  <2>2. QED
    BY <2>1 DEF IInv, Scanned, Walking, TypeOK
<1>2. PICK k \in 0..Len(read) : Parsed(read, k) /\ Behind(read, k, Len(read))
  BY <1>1 DEF IInv, Scanned, Walking
<1>3. /\ k < Len(read) /\ OpenGroup(read, k + 1, Len(read))
      /\ Balance(read, k + 1, Len(read)) = depth
      /\ \A j \in (k + 1)..Len(read) : ~ Passable(read, j)
  BY <1>1, <1>2 DEF Behind
<1>4. /\ Len(read) \in Nat /\ Len(read') = Len(read) + 1 /\ read'[Len(read) + 1] = t
      /\ \A i \in 1..Len(read) : read'[i] = read[i]
  BY <1>1, ReadKeeps
<1>5. /\ \A i \in (k + 1)..Len(read) : Balance(read', k + 1, i) = Balance(read, k + 1, i)
      /\ Balance(read', k + 1, Len(read) + 1) =
           Balance(read', k + 1, Len(read)) + (IF t = "close" THEN 1
                                               ELSE IF t = "open" THEN -1 ELSE 0)
  BY <1>1, Tokens
<1>6. Balance(read', k + 1, Len(read)) = depth
  BY <1>3, <1>4, <1>5
<1>7. /\ read'[k + 1] = "close"
      /\ \A i \in (k + 1)..Len(read) : Balance(read', k + 1, i) > 0
  BY <1>3, <1>4, <1>5 DEF OpenGroup
<1>8. CASE t = "open" /\ depth = 1
  <2>1. mode' = "tail" /\ depth' = 0 /\ found' = found
    BY <1>8 DEF Group, Goto
  <2>2. Balance(read', k + 1, Len(read) + 1) = 0
    BY <1>5, <1>6, <1>8
  <2>3. Bracketed(read', k + 1, Len(read) + 1)
    BY <1>4, <1>7, <2>2 DEF Bracketed
  <2>4. Parsed(read', Len(read'))
    BY <1>1, <1>2, <1>3, <2>3, Completes DEF Unit
  <2>5. AtBracket(read', Len(read'))
    BY <1>1, <1>8, Above
  <2>6. Behind(read, Len(read), Len(read))'
    BY <1>4, <1>8, <2>1, <2>5 DEF Behind
  <2>7. QED
    BY <1>1, <1>4, <2>1, <2>4, <2>6, GoesOn DEF Walking
<1>9. CASE ~ (t = "open" /\ depth = 1)
  <2>1. /\ mode' = "group" /\ found' = found
        /\ depth' = depth + (IF t = "close" THEN 1 ELSE IF t = "open" THEN -1 ELSE 0)
    <3>1. CASE t = "close"
      BY <3>1 DEF Group, Goto
    <3>2. CASE t = "open"
      BY <1>1, <1>9, <3>2 DEF Group, Goto
    <3>3. CASE t \notin {"open", "close"}
      BY <1>1, <3>3 DEF Group, Goto
    <3>4. QED
      BY <3>1, <3>2, <3>3
  <2>2. depth' \in 1..(Len(read) + 1)
    BY <1>1, <1>4, <1>9, <2>1
  <2>3. Balance(read', k + 1, Len(read) + 1) = depth'
    BY <1>5, <1>6, <2>1
  <2>4. OpenGroup(read', k + 1, Len(read) + 1)
    BY <1>3, <1>4, <1>7, <2>2, <2>3 DEF OpenGroup
  <2>5. Parsed(read', k) /\ \A j \in (k + 1)..Len(read') : ~ Passable(read', j)
    BY <1>1, <1>2, <1>3, <2>4, StaysOpen
  <2>6. Behind(read, k, Len(read))' /\ k \in 0..Len(read')
    BY <1>3, <1>4, <2>1, <2>3, <2>4, <2>5 DEF Behind
  <2>7. QED
    BY <1>1, <1>4, <2>1, <2>2, <2>5, <2>6, GoesOn DEF Walking
<1>10. QED
  BY <1>8, <1>9

LEMMA StartStep ==
  ASSUME IInv, StartOfFile
  PROVE  IInv'
<1>1. /\ TypeOK /\ source /\ Walking /\ Return(inside) /\ read' = read
      /\ source' = source /\ inside' = inside
  BY DEF IInv, Scanned, Walking, StartOfFile
<1>2. read \in Seq(Token) /\ Len(read) \in Nat /\ Len(read) <= MaxTokens
  BY <1>1 DEF TypeOK
<1>3. PICK k \in 0..Len(read) : Parsed(read, k) /\ Behind(read, k, Len(read))
  BY <1>1 DEF IInv, Scanned
<1>4. \/ Len(read) = 0 \/ read[Len(read)] # "safety"
      \/ ~ Passable(read, Len(read) - 1)
  <2>1. CASE mode \in {"walk", "tail"}
    BY <1>3, <2>1 DEF Behind
  <2>2. CASE mode = "group"
    <3>1. /\ k < Len(read) /\ read[k + 1] = "close"
          /\ \A j \in (k + 1)..Len(read) : ~ Passable(read, j)
      BY <1>3, <2>2 DEF Behind, OpenGroup
    <3>2. QED
      BY <1>2, <3>1
  <2>3. QED
    BY <1>1, <2>1, <2>2 DEF Walking
<1>5. read # <<>> => \/ read[Len(read)] # "safety" \/ ~ Passable(read, Len(read) - 1)
  <2>1. Len(read) = 0 => read = <<>>
    BY <1>2
  <2>2. QED
    BY <1>2, <1>4, <2>1
<1>6. QED
  BY <1>1, <1>2, <1>5, GivesUp

LEMMA NextIInv == IInv /\ [Next]_vars => IInv'
<1> SUFFICES ASSUME IInv, [Next]_vars PROVE IInv'
  OBVIOUS
<1>1. ASSUME NEW t \in Token, Walk(t) PROVE IInv'
  <2>1. mode = "walk" /\ Read(t) /\ Visit(t)
    BY <1>1 DEF Walk
  <2>2. QED
    BY <2>1, VisitStep
<1>2. ASSUME NEW t \in Token, Group(t) \/ AfterGroup(t) PROVE IInv'
  BY <1>2, GroupStep, TailStep
<1>3. CASE Begin
  BY <1>3, BeginStep
<1>4. CASE StartOfFile
  BY <1>4, StartStep
<1>5. CASE UNCHANGED vars
  <2>1. UNCHANGED <<source, inside, mode, depth, found, read>>
    BY <1>5 DEF vars
  <2>2. TypeOK' /\ FoundIffAttached'
    BY <2>1 DEF IInv, TypeOK, FoundIffAttached
  <2>3. Scanned'
    BY <2>1 DEF IInv, Scanned, Walking, Behind
  <2>4. QED
    BY <2>2, <2>3 DEF IInv
<1>6. QED
  BY <1>1, <1>2, <1>3, <1>4, <1>5 DEF Next

LEMMA Inductive == Spec => []IInv
BY InitIInv, NextIInv, PTL DEF Spec

\* Every state of the walk is well typed, for prefixes of any length: no opening
\* bracket takes the depth below zero.
THEOREM TypeCorrect == Spec => []TypeOK
<1>1. IInv => TypeOK
  BY DEF IInv
<1>2. QED
  BY <1>1, Inductive, PTL

\* The walk decides the grammar, for prefixes of any length: a span without a
\* comment of its own is found to have one exactly when a SAFETY comment stands
\* above it with only passable tokens between.
THEOREM WalkCorrect == Spec => []FoundIffAttached
<1>1. IInv => FoundIffAttached
  BY DEF IInv
<1>2. QED
  BY <1>1, Inductive, PTL

=============================================================================
