--------------------------- MODULE UnsafeScopeProofs ---------------------------
(***************************************************************************)
(* The shape check of unsafe_scope decides about trees of any size: what   *)
(* it passes hides nothing and what it reports has something to hoist.     *)
(* The arguments follow paths down a tree, and where code would recurse    *)
(* they take the deepest or the shallowest node of a set.                  *)
(***************************************************************************)
EXTENDS UnsafeScope, FiniteSetTheorems, WellFoundedInduction, TLAPS

-----------------------------------------------------------------------------
\* Positions under the prefix order.

Position == Seq(Nat \ {0})

LEMMA PrefixAt ==
  ASSUME NEW p \in Position, NEW q \in Position
  PROVE  IsPrefix(p, q) <=> Len(p) <= Len(q) /\ \A i \in 1 .. Len(p) : p[i] = q[i]
<1>1. ASSUME Len(p) <= Len(q) PROVE SubSeq(p, 1, Len(p)) = p
  BY <1>1 DEF Position
<1>2. ASSUME Len(p) <= Len(q), \A i \in 1 .. Len(p) : p[i] = q[i]
      PROVE  p = SubSeq(q, 1, Len(p))
  BY <1>2 DEF Position
<1>3. ASSUME Len(p) <= Len(q), p = SubSeq(q, 1, Len(p)), NEW i \in 1 .. Len(p)
      PROVE  p[i] = q[i]
  BY <1>3 DEF Position
<1>. QED  BY <1>1, <1>2, <1>3 DEF IsPrefix

LEMMA PrefixCuts ==
  ASSUME NEW p \in Position, NEW q \in Position, IsPrefix(p, q)
  PROVE  p = SubSeq(q, 1, Len(p))
<1>1. SubSeq(p, 1, Len(p)) = p
  BY DEF Position
<1>. QED  BY <1>1 DEF IsPrefix

LEMMA PrefixRefl ==
  ASSUME NEW p \in Position PROVE IsPrefix(p, p)
BY PrefixAt

LEMMA PrefixTrans ==
  ASSUME NEW p \in Position, NEW q \in Position, NEW r \in Position,
         IsPrefix(p, q), IsPrefix(q, r)
  PROVE  IsPrefix(p, r)
BY PrefixAt DEF Position

LEMMA PrefixAntisym ==
  ASSUME NEW p \in Position, NEW q \in Position, IsPrefix(p, q), IsPrefix(q, p)
  PROVE  p = q
BY PrefixAt DEF Position

LEMMA PrefixLinear ==
  ASSUME NEW p \in Position, NEW q \in Position, NEW r \in Position,
         IsPrefix(p, r), IsPrefix(q, r)
  PROVE  IsPrefix(p, q) \/ IsPrefix(q, p)
BY PrefixAt DEF Position

LEMMA PrefixSameLen ==
  ASSUME NEW p \in Position, NEW q \in Position, NEW r \in Position,
         IsPrefix(p, r), IsPrefix(q, r), Len(p) = Len(q)
  PROVE  p = q
BY PrefixCuts

LEMMA PrefixLonger ==
  ASSUME NEW p \in Position, NEW q \in Position, IsPrefix(p, q), p # q
  PROVE  Len(p) < Len(q)
BY PrefixAt DEF Position

\* Between a position and one below it lies a child of the upper one.
LEMMA PrefixCut ==
  ASSUME NEW p \in Position, NEW q \in Position, IsPrefix(p, q), p # q
  PROVE  LET c == SubSeq(q, 1, Len(p) + 1)
         IN  /\ Len(c) = Len(p) + 1 /\ c \in Position
             /\ IsPrefix(p, c) /\ IsPrefix(c, q)
<1> DEFINE c == SubSeq(q, 1, Len(p) + 1)
<1>1. Len(p) \in Nat /\ Len(q) \in Nat /\ Len(p) < Len(q)
  BY PrefixLonger DEF Position
<1>2. c \in Position /\ Len(c) = Len(p) + 1
  BY <1>1 DEF Position
<1>3. \A i \in 1 .. Len(p) + 1 : c[i] = q[i]
  BY <1>1 DEF Position
<1>. HIDE DEF c
<1>4. IsPrefix(p, c)
  <2>1. \A i \in 1 .. Len(p) : p[i] = c[i]
    BY <1>1, <1>3, PrefixAt
  <2>. QED  BY <1>1, <1>2, <2>1, PrefixAt
<1>5. IsPrefix(c, q)
  BY <1>1, <1>2, <1>3, PrefixAt
<1>. QED  BY <1>2, <1>4, <1>5 DEF c

-----------------------------------------------------------------------------
\* The nodes of a tree.

LEMMA NodesArePositions ==
  ASSUME IsTree(body)
  PROVE  Nodes \subseteq Position /\ IsFiniteSet(Nodes)
BY DEF IsTree, Nodes, Position

LEMMA WithinRefl ==
  ASSUME IsTree(body), NEW p \in Nodes PROVE Within(p, p)
BY NodesArePositions, PrefixRefl DEF Within

LEMMA WithinTrans ==
  ASSUME IsTree(body), NEW p \in Nodes, NEW q \in Nodes, NEW r \in Nodes,
         Within(p, q), Within(q, r)
  PROVE  Within(p, r)
BY NodesArePositions, PrefixTrans DEF Within

LEMMA WithinAntisym ==
  ASSUME IsTree(body), NEW p \in Nodes, NEW q \in Nodes, Within(p, q), Within(q, p)
  PROVE  p = q
BY NodesArePositions, PrefixAntisym DEF Within

LEMMA WithinLinear ==
  ASSUME IsTree(body), NEW p \in Nodes, NEW q \in Nodes, NEW r \in Nodes,
         Within(p, q), Within(p, r)
  PROVE  Within(q, r) \/ Within(r, q)
BY NodesArePositions, PrefixLinear DEF Within

LEMMA SubNode ==
  ASSUME IsTree(body), NEW e \in Nodes, NEW c \in Sub(e)
  PROVE  c \in Nodes /\ Within(c, e) /\ c # e
BY NodesArePositions DEF Sub, Children, Within, Nodes, Position

\* What lies below an expression lies in one of its children ...
LEMMA SubToward ==
  ASSUME IsTree(body), NEW e \in Nodes, NEW p \in Nodes, Within(p, e), p # e
  PROVE  \E c \in Sub(e) : Within(p, c)
<1> DEFINE c == SubSeq(p, 1, Len(e) + 1)
<1>1. e \in Position /\ p \in Position /\ IsPrefix(e, p)
  BY NodesArePositions DEF Within
<1>2. Len(c) = Len(e) + 1 /\ IsPrefix(e, c) /\ IsPrefix(c, p)
  BY <1>1, PrefixCut
<1>3. Len(e) + 1 \in 0 .. Len(p)
  BY <1>1, PrefixLonger DEF Position
<1>4. c \in Nodes
  BY <1>3 DEF IsTree, Nodes
<1>. QED  BY <1>2, <1>4 DEF Sub, Children, Within, Nodes

\* ... and in only one.
LEMMA SubUnique ==
  ASSUME IsTree(body), NEW e \in Nodes, NEW p \in Nodes,
         NEW c \in Sub(e), NEW d \in Sub(e), Within(p, c), Within(p, d)
  PROVE  c = d
<1>1. c \in Position /\ d \in Position /\ p \in Position /\ Len(c) = Len(d)
  BY NodesArePositions DEF Sub, Children, Nodes
<1>. QED  BY <1>1, PrefixSameLen DEF Within

\* Nothing lies between an expression and its child.
LEMMA SubAbove ==
  ASSUME IsTree(body), NEW e \in Nodes, NEW c \in Sub(e), NEW p \in Nodes,
         Within(c, p), p # c
  PROVE  Within(e, p)
<1>1. c \in Nodes /\ Within(c, e) /\ Len(c) = Len(e) + 1
  BY SubNode DEF Sub, Children
<1>2. c \in Position /\ e \in Position /\ p \in Position
  BY <1>1, NodesArePositions
<1>3. Len(p) < Len(c)
  BY <1>2, PrefixLonger DEF Within
<1>4. CASE Within(e, p)
  BY <1>4
<1>5. CASE Within(p, e)
  <2>1. p = e
    BY <1>1, <1>2, <1>3, <1>5, PrefixLonger DEF Within, Position
  <2>. QED  BY <2>1, WithinRefl
<1>. QED  BY <1>1, <1>4, <1>5, WithinLinear

\* A family of subsets of a finite set has a minimal member.
LEMMA SmallestSet ==
  ASSUME NEW S, IsFiniteSet(S), NEW F, F \subseteq SUBSET S, F # {}
  PROVE  \E X \in F : \A Y \in F : Y \subseteq X => Y = X
<1>1. F \subseteq FiniteSubsetsOf(S)
  BY FS_FiniteSubsetsOfFinite
<1>2. PICK X \in F : \A Y \in F : ~ (<<Y, X>> \in StrictSubsetOrdering(S))
  BY <1>1, FS_StrictSubsetOrderingWellFounded, WFMin, Zenon
<1>. QED  BY <1>2 DEF StrictSubsetOrdering

\* What recursion on subexpressions would give: a set of nodes has one with
\* none of the set below it ...
LEMMA Deepest ==
  ASSUME IsTree(body), NEW T, T \subseteq Nodes, T # {}
  PROVE  \E t \in T : \A u \in T : Within(u, t) => u = t
<1> DEFINE Here(t) == {u \in T : Within(u, t)}
<1> DEFINE F == {Here(t) : t \in T}
<1>1. PICK X \in F : \A Y \in F : Y \subseteq X => Y = X
  <2>1. F \subseteq SUBSET Nodes /\ F # {}
    OBVIOUS
  <2>. HIDE DEF F
  <2>. QED  BY <2>1, NodesArePositions, SmallestSet
<1>2. PICK t \in T : X = Here(t)
  OBVIOUS
<1>3. ASSUME NEW u \in T, Within(u, t) PROVE u = t
  <2>1. Here(u) \subseteq Here(t)
    BY <1>3, WithinTrans
  <2>2. Here(u) = Here(t)
    BY <1>1, <1>2, <2>1
  <2>3. Within(t, u)
    BY <2>2, WithinRefl
  <2>. QED  BY <1>3, <2>3, WithinAntisym
<1>. QED  BY <1>3

\* ... and one with none of the set above it.
LEMMA Shallowest ==
  ASSUME IsTree(body), NEW T, T \subseteq Nodes, T # {}
  PROVE  \E t \in T : \A u \in T : Within(t, u) => u = t
<1> DEFINE Here(t) == {u \in T : Within(t, u)}
<1> DEFINE F == {Here(t) : t \in T}
<1>1. PICK X \in F : \A Y \in F : Y \subseteq X => Y = X
  <2>1. F \subseteq SUBSET Nodes /\ F # {}
    OBVIOUS
  <2>. HIDE DEF F
  <2>. QED  BY <2>1, NodesArePositions, SmallestSet
<1>2. PICK t \in T : X = Here(t)
  OBVIOUS
<1>3. ASSUME NEW u \in T, Within(t, u) PROVE u = t
  <2>1. Here(u) \subseteq Here(t)
    BY <1>3, WithinTrans
  <2>2. Here(u) = Here(t)
    BY <1>1, <1>2, <2>1
  <2>3. Within(u, t)
    BY <2>2, WithinRefl
  <2>. QED  BY <1>3, <2>3, WithinAntisym
<1>. QED  BY <1>3

-----------------------------------------------------------------------------
\* Paths.

\* The way through a child: down to its parent, the parent, on from the child.
LEMMA PathSplit ==
  ASSUME IsTree(body), NEW e \in Nodes, NEW m \in Nodes, NEW c \in Sub(m),
         NEW p \in Nodes, Within(m, e), Within(p, c), NEW r \in Path(e, p)
  PROVE  r \in Path(e, m) \/ r = m \/ r \in Path(c, p)
<1>1. c \in Nodes /\ r \in Nodes /\ r # p /\ Within(r, e) /\ Within(p, r)
  BY SubNode DEF Path
<1>2. CASE Within(r, c)
  BY <1>1, <1>2 DEF Path
<1>3. CASE Within(c, r)
  <2>1. CASE c = r
    BY <1>1, <2>1, WithinRefl DEF Path
  <2>2. CASE c # r
    <3>1. Within(m, r)
      BY <1>1, <1>3, <2>2, SubAbove
    <3>. QED  BY <1>1, <3>1 DEF Path
  <2>. QED  BY <2>1, <2>2
<1>. QED  BY <1>1, <1>2, <1>3, WithinLinear

LEMMA PathPrefix ==
  ASSUME IsTree(body), NEW e \in Nodes, NEW p \in Nodes, NEW m \in Path(e, p)
  PROVE  /\ m \in Nodes /\ Within(m, e) /\ Within(p, m) /\ m # p
         /\ Path(e, m) \subseteq Path(e, p)
<1>1. m \in Nodes /\ Within(m, e) /\ Within(p, m) /\ m # p
  BY DEF Path
<1>2. ASSUME NEW r \in Path(e, m) PROVE r \in Path(e, p)
  <2>1. r \in Nodes /\ Within(r, e) /\ Within(m, r) /\ r # m
    BY DEF Path
  <2>2. Within(p, r)
    BY <1>1, <2>1, WithinTrans
  <2>3. r # p
    BY <1>1, <2>1, WithinAntisym
  <2>. QED  BY <2>1, <2>2, <2>3 DEF Path
<1>. QED  BY <1>1, <1>2

LEMMA PathHere ==
  ASSUME IsTree(body), NEW e \in Nodes
  PROVE  Path(e, e) = {}
BY WithinAntisym DEF Path

\* Whatever lies in e is reached from the way down to p: it is on that way, or
\* below p, or in a child the way does not take.
LEMMA LeavesPath ==
  ASSUME IsTree(body), NEW e \in Nodes, NEW p \in Nodes, NEW x \in Nodes,
         Within(p, e), Within(x, e)
  PROVE  \E m \in Path(e, p) \cup {p} :
           /\ Within(x, m)
           /\ x = m \/ \E c \in Sub(m) : Within(x, c) /\ ~ Within(p, c)
<1> DEFINE T == {r \in Nodes : Within(r, e) /\ Within(p, r) /\ Within(x, r)}
<1>1. e \in T
  BY WithinRefl
<1>2. PICK m \in T : \A u \in T : Within(u, m) => u = m
  <2>1. T \subseteq Nodes /\ T # {}
    BY <1>1
  <2>. HIDE DEF T
  <2>. QED  BY <2>1, Deepest
<1>3. m \in Path(e, p) \cup {p}
  BY DEF Path
<1>4. ASSUME x # m PROVE \E c \in Sub(m) : Within(x, c) /\ ~ Within(p, c)
  <2>1. PICK c \in Sub(m) : Within(x, c)
    BY <1>4, SubToward
  <2>2. c \in Nodes /\ Within(c, m) /\ c # m
    BY SubNode
  <2>3. Within(c, e)
    BY <2>2, WithinTrans
  <2>4. ~ Within(p, c)
    BY <1>2, <2>1, <2>2, <2>3
  <2>. QED  BY <2>1, <2>4
<1>. QED  BY <1>3, <1>4

LEMMA OneSub ==
  ASSUME IsTree(body), NEW e \in Nodes, body[e] \in Layer \cup {"draw", "dover"},
         NEW c \in Sub(e), NEW d \in Sub(e)
  PROVE  c = d
<1>1. Sub(e) = {Append(e, 1)}
  BY DEF IsTree, Nodes, Sub
<1>. QED  BY <1>1

LEMMA NoSub ==
  ASSUME IsTree(body), NEW e \in Nodes, body[e] \in Atom, NEW p \in Nodes, Within(p, e)
  PROVE  p = e /\ Sub(e) = {}
<1>1. Sub(e) = {}
  BY DEF IsTree, Nodes, Sub
<1>. QED  BY <1>1, SubToward

\* Below layers with an atom at the end there is nothing but these.
LEMMA Line ==
  ASSUME IsTree(body), NEW e \in Nodes, NEW p \in Nodes, Within(p, e),
         body[p] \in Atom, \A q \in Path(e, p) : body[q] \in Layer,
         NEW x \in Nodes, Within(x, e)
  PROVE  x \in Path(e, p) \cup {p}
<1>1. PICK m \in Path(e, p) \cup {p} :
         x = m \/ \E c \in Sub(m) : Within(x, c) /\ ~ Within(p, c)
  BY LeavesPath
<1>2. SUFFICES ASSUME NEW c \in Sub(m), ~ Within(p, c) PROVE FALSE
  BY <1>1
<1>3. CASE m = p
  BY <1>3, NoSub, WithinRefl
<1>4. CASE m \in Path(e, p)
  <2>1. m \in Nodes /\ Within(p, m) /\ p # m
    BY <1>4, PathPrefix
  <2>2. PICK d \in Sub(m) : Within(p, d)
    BY <2>1, SubToward
  <2>. QED  BY <1>2, <1>4, <2>1, <2>2, OneSub
<1>. QED  BY <1>3, <1>4

\* A plain read holds no operation, computation, block or assignment, but for
\* a static mut or a union field.
LEMMA PureBelow ==
  ASSUME IsTree(body), NEW e \in Nodes, is_pure_read(e), NEW x \in Nodes, Within(x, e)
  PROVE  body[x] \in Atom \cup Layer
<1>1. CASE body[e] \in {"value", "smut"}
  BY <1>1, NoSub DEF Atom
<1>2. CASE is_binding_place(e)
  <2>1. PICK p \in Nodes : /\ Within(p, e) /\ body[p] = "local"
                           /\ \A q \in Path(e, p) : body[q] \in Layer
    BY <1>2 DEF is_binding_place
  <2>2. x \in Path(e, p) \cup {p}
    BY <2>1, Line DEF Atom
  <2>. QED  BY <2>1, <2>2 DEF Atom
<1>. QED  BY <1>1, <1>2 DEF is_pure_read

\* A count of one is one operation.
LEMMA LeafCount ==
  ASSUME IsTree(body), NEW e \in Nodes
  PROVE  /\ IsFiniteSet(leaves(e)) /\ Cardinality(leaves(e)) \in Nat
         /\ Cardinality(leaves(e)) = 0 <=> leaves(e) = {}
         /\ Cardinality(leaves(e)) = 1 <=> \E p : leaves(e) = {p}
<1>1. leaves(e) \in SUBSET Nodes
  BY DEF leaves
<1>2. IsFiniteSet(leaves(e))
  BY <1>1, NodesArePositions, FS_Subset
<1>. QED  BY <1>2, FS_CardinalityType, FS_EmptySet, FS_Singleton

\* Whatever check_body_expr passes over without a note hides nothing.
LEMMA ShapeSound ==
  ASSUME IsTree(body), NEW e \in Nodes, body[e] \notin Block, check_body_expr(e)
  PROVE  Cardinality(leaves(e)) <= 1 /\ Does(e) \cap (Computing \cup Block) = {}
<1> DEFINE Plain == Atom \cup Layer \cup Unsafe \cup {"assign"}
<1>1. Plain \cap (Computing \cup Block) = {}
  BY DEF Atom, Layer, Unsafe, Computing, Block
<1>2. CASE leaves(e) = {} /\ is_pure_read(e)
  <2>1. Cardinality(leaves(e)) = 0
    BY <1>2, LeafCount
  <2>2. \A x \in Nodes : Within(x, e) => body[x] \in Plain
    BY <1>2, PureBelow
  <2>. QED  BY <1>1, <2>1, <2>2 DEF Does
<1>3. CASE /\ Cardinality(leaves(e)) = 1
           /\ \A p \in leaves(e) : unwrap_to_leaf(e, p) /\ check_leaf_operands(p)
  <2>1. PICK p : leaves(e) = {p}
    BY <1>3, LeafCount
  <2>2. /\ p \in Nodes /\ Within(p, e) /\ body[p] \in Unsafe
        /\ unwrap_to_leaf(e, p) /\ check_leaf_operands(p)
    BY <1>3, <2>1 DEF leaves
  <2>3. ASSUME NEW x \in Nodes, Within(x, e), \A q \in Path(e, x) : ~ Hides(q, x)
        PROVE  body[x] \in Plain
    <3>1. PICK m \in Path(e, p) \cup {p} :
            /\ Within(x, m)
            /\ x = m \/ \E c \in Sub(m) : Within(x, c) /\ ~ Within(p, c)
      BY <2>2, <2>3, LeavesPath
    <3>2. m \in Nodes /\ Within(m, e) /\ Within(p, m)
      BY <2>2, <3>1, PathPrefix, WithinRefl
    <3>3. CASE x = m
      BY <2>2, <3>1, <3>3 DEF unwrap_to_leaf
    <3>4. ASSUME x # m, NEW c \in Sub(m), Within(x, c), ~ Within(p, c)
          PROVE  body[x] \in Plain
      <4>1. c \in Nodes
        BY <3>2, SubNode
      <4>2. ASSUME is_pure_read(c) PROVE body[x] \in Plain
        BY <3>4, <4>1, <4>2, PureBelow
      <4>3. CASE m = p
        <5>1. ~ Hides(p, x)
          BY <2>3, <3>1, <3>2, <3>4, <4>3 DEF Path
        <5>2. body[p] # "asm" /\ (body[p] = "pcall" => c # Append(p, 1))
          BY <3>4, <5>1 DEF Hides
        <5>3. body[p] # "smut"
          BY <3>4, <3>2, <4>3, NoSub DEF Atom
        <5>4. c \in operands(p)
          BY <2>2, <3>4, <4>3, <5>2, <5>3 DEF operands, Unsafe
        <5>. QED  BY <2>2, <4>2, <5>4 DEF check_leaf_operands
      <4>4. CASE m \in Path(e, p)
        <5>1. PICK d \in Sub(m) : Within(p, d)
          BY <2>2, <3>2, <4>4, PathPrefix, SubToward
        <5>2. body[m] \notin Layer
          BY <3>2, <3>4, <5>1, OneSub
        <5>3. is_pure_read(c)
          BY <2>2, <3>4, <4>4, <5>2 DEF unwrap_to_leaf
        <5>. QED  BY <4>2, <5>3
      <4>. QED  BY <3>1, <4>3, <4>4
    <3>. QED  BY <3>1, <3>3, <3>4
  <2>4. Does(e) \subseteq Plain
    BY <2>3 DEF Does
  <2>. QED  BY <1>1, <1>3, <2>4
<1>. QED  BY <1>2, <1>3 DEF check_body_expr

\* Operations of a child are the expression's, unless an unsafe block is between.
LEMMA DeeperLeaf ==
  ASSUME IsTree(body), NEW e \in Nodes, NEW m \in Nodes, NEW c \in Sub(m), Within(m, e),
         \A q \in Path(e, m) \cup {m} : body[q] \notin {"unsafe", "gen"},
         NEW p \in leaves(c)
  PROVE  p \in leaves(e)
<1>1. c \in Nodes /\ Within(c, m)
  BY SubNode
<1>2. p \in Nodes /\ Within(p, c) /\ body[p] \in Unsafe
  BY DEF leaves
<1>3. Within(p, e)
  BY <1>1, <1>2, WithinTrans
<1>4. \A q \in Path(e, p) : q \in Path(e, m) \/ q = m \/ q \in Path(c, p)
  BY <1>2, PathSplit
<1>5. \A q \in Path(e, p) : body[q] \notin {"unsafe", "gen"}
  BY <1>4 DEF leaves
<1>. QED  BY <1>2, <1>3, <1>5 DEF leaves

\* What a child does the expression does, unless something on the way hides it.
LEMMA DeeperDoes ==
  ASSUME IsTree(body), NEW e \in Nodes, NEW m \in Nodes, NEW c \in Sub(m), Within(m, e),
         \A q \in Path(e, m) : body[q] \notin Block \cup {"asm", "pcall"},
         body[m] \notin Block \cup {"asm"}, body[m] = "pcall" => c # Append(m, 1)
  PROVE  Does(c) \subseteq Does(e)
<1>1. c \in Nodes /\ Within(c, m) /\ Len(c) = Len(m) + 1
  BY SubNode DEF Sub, Children
<1>2. SUFFICES ASSUME NEW x \in Nodes, Within(x, c), \A q \in Path(c, x) : ~ Hides(q, x)
               PROVE  Within(x, e) /\ \A q \in Path(e, x) : ~ Hides(q, x)
  BY DEF Does
<1>3. Within(x, e)
  BY <1>1, <1>2, WithinTrans
<1>4. ~ Hides(m, x)
  <2>1. c \in Position /\ m \in Position /\ x \in Position
    BY <1>1, <1>2, NodesArePositions
  <2>2. Append(m, 1) \in Position /\ Len(Append(m, 1)) = Len(c)
    BY <1>1, <2>1 DEF Position
  <2>3. ASSUME Within(x, Append(m, 1)) PROVE c = Append(m, 1)
    BY <1>2, <2>1, <2>2, <2>3, PrefixSameLen DEF Within
  <2>. QED  BY <2>3 DEF Hides
<1>5. ASSUME NEW q \in Path(e, m) PROVE ~ Hides(q, x)
  BY <1>5 DEF Hides
<1>6. ASSUME NEW q \in Path(e, x) PROVE ~ Hides(q, x)
  BY <1>2, <1>4, <1>5, <1>6, PathSplit
<1>. QED  BY <1>3, <1>6

-----------------------------------------------------------------------------

\* What NoFalseAlarm asks of a reported statement with at most one operation.
ToHoist(e) ==
  Does(e) \cap (Computing \cup Block) # {} \/ IdleAssign(e) \/ WrappedValue(e)

LEMMA LeafBelow ==
  ASSUME IsTree(body), NEW e \in Nodes, NEW m \in Nodes, Within(m, e),
         \A q \in Path(e, m) : body[q] \notin {"unsafe", "gen"},
         NEW p \in leaves(m)
  PROVE  p \in leaves(e)
<1>1. p \in Nodes /\ Within(p, m) /\ body[p] \in Unsafe
  BY DEF leaves
<1>2. Within(p, e)
  BY <1>1, WithinTrans
<1>3. ASSUME NEW q \in Path(e, p) PROVE q \in Path(e, m) \/ q \in Path(m, p)
  <2>1. q \in Nodes /\ Within(q, e) /\ Within(p, q) /\ q # p
    BY DEF Path
  <2>2. CASE Within(q, m)
    BY <2>1, <2>2 DEF Path
  <2>3. CASE Within(m, q)
    <3>1. CASE q = m
      BY <2>1, <3>1, WithinRefl DEF Path
    <3>2. CASE q # m
      BY <2>1, <2>3, <3>2 DEF Path
    <3>. QED  BY <3>1, <3>2
  <2>. QED  BY <1>1, <2>1, <2>2, <2>3, WithinLinear
<1>4. \A q \in Path(e, p) : body[q] \notin {"unsafe", "gen"}
  BY <1>3 DEF leaves
<1>. QED  BY <1>1, <1>2, <1>4 DEF leaves

\* Every expression but the outermost is a child of one on the way down to it.
LEMMA Parent ==
  ASSUME IsTree(body), NEW e \in Nodes, NEW p \in Nodes, Within(p, e), p # e
  PROVE  \E q \in Path(e, p) : p \in Sub(q)
<1>1. e \in Path(e, p)
  BY WithinRefl DEF Path
<1>2. PICK q \in Path(e, p) : \A r \in Path(e, p) : Within(r, q) => r = q
  <2>1. Path(e, p) \subseteq Nodes
    BY DEF Path
  <2>. QED  BY <1>1, <2>1, Deepest
<1>3. q \in Nodes /\ Within(q, e) /\ Within(p, q) /\ q # p
  BY PathPrefix
<1>4. PICK c \in Sub(q) : Within(p, c)
  BY <1>3, SubToward
<1>5. c \in Nodes /\ Within(c, q) /\ c # q
  BY <1>3, SubNode
<1>6. Within(c, e)
  BY <1>3, <1>5, WithinTrans
<1>7. c = p
  BY <1>2, <1>4, <1>5, <1>6 DEF Path
<1>. QED  BY <1>4, <1>7

\* What needs no unsafe and is no plain read has something to hoist: where its
\* layers end is a computation, a block, an assignment or a value.
LEMMA Impure ==
  ASSUME IsTree(body), NEW e \in Nodes, leaves(e) = {}, ~ is_pure_read(e)
  PROVE  ToHoist(e)
<1> DEFINE T == {r \in Nodes : Within(r, e) /\ \A q \in Path(e, r) : body[q] \in Layer}
<1>1. e \in T
  BY WithinRefl, PathHere
<1>2. PICK m \in T : \A u \in T : Within(u, m) => u = m
  <2>1. T \subseteq Nodes /\ T # {}
    BY <1>1
  <2>. HIDE DEF T
  <2>. QED  BY <2>1, Deepest
<1>3. m \in Nodes /\ Within(m, e) /\ \A q \in Path(e, m) : body[q] \in Layer
  OBVIOUS
<1>4. \A q \in Path(e, m) : body[q] \notin Block \cup {"asm", "pcall"}
  BY <1>3 DEF Layer, Block
<1>5. body[m] \notin Unsafe
  BY <1>3, <1>4 DEF leaves, Block
<1>6. body[m] \notin Layer
  <2>1. SUFFICES ASSUME body[m] \in Layer PROVE FALSE
    OBVIOUS
  <2>2. Sub(m) = {Append(m, 1)}
    BY <1>3, <2>1 DEF IsTree, Nodes, Sub
  <2>3. PICK c \in Sub(m) : TRUE
    BY <2>2
  <2>4. c \in Nodes /\ Within(c, m) /\ c # m /\ Within(c, c)
    BY <1>3, SubNode, WithinRefl
  <2>5. Within(c, e)
    BY <1>3, <2>4, WithinTrans
  <2>6. \A q \in Path(e, c) : q \in Path(e, m) \/ q = m
    BY <1>3, <2>4, PathSplit, PathHere
  <2>7. c \in T
    BY <1>3, <2>1, <2>4, <2>5, <2>6
  <2>. QED  BY <1>2, <2>4, <2>7
<1>7. CASE body[m] \in Computing \cup Block
  <2>1. \A q \in Path(e, m) : ~ Hides(q, m)
    BY <1>4 DEF Hides
  <2>. QED  BY <1>3, <1>7, <2>1 DEF Does, ToHoist
<1>8. CASE body[m] = "assign"
  <2>1. leaves(m) = {}
    BY <1>3, <1>4, LeafBelow DEF Block
  <2>. QED  BY <1>3, <1>8, <2>1 DEF IdleAssign, ToHoist
<1>9. CASE body[m] = "value"
  <2>1. m # e
    BY <1>9 DEF is_pure_read
  <2>2. PICK q \in Path(e, m) : m \in Sub(q)
    BY <1>3, <2>1, Parent
  <2>3. q \in Nodes /\ Within(q, e) /\ Path(e, q) \subseteq Path(e, m)
    BY <1>3, PathPrefix
  <2>4. body[q] # "ufield"
    BY <1>4, <2>3 DEF leaves, Unsafe, Block
  <2>. QED  BY <1>3, <1>9, <2>2, <2>3, <2>4 DEF WrappedValue, ToHoist
<1>10. body[m] # "local"
  BY <1>3 DEF is_pure_read, is_binding_place
<1>11. body[m] \in Kind
  BY <1>3 DEF IsTree, Nodes
<1>. QED  BY <1>5, <1>6, <1>7, <1>8, <1>9, <1>10, <1>11 DEF Kind, Atom, Unsafe

\* To hoist from a child is to hoist from the expression.
LEMMA HoistBelow ==
  ASSUME IsTree(body), NEW e \in Nodes, NEW m \in Nodes, NEW c \in Sub(m), Within(m, e),
         \A q \in Path(e, m) : body[q] \notin Block \cup {"asm", "pcall"},
         body[m] \notin Block \cup {"asm"}, body[m] = "pcall" => c # Append(m, 1),
         ToHoist(c)
  PROVE  ToHoist(e)
<1>1. c \in Nodes /\ Within(c, m)
  BY SubNode
<1>2. Within(c, e)
  BY <1>1, WithinTrans
<1>3. Does(c) \subseteq Does(e)
  BY DeeperDoes
<1>4. \A p \in Nodes : Within(p, c) => Within(p, e)
  BY <1>1, <1>2, WithinTrans
<1>5. IdleAssign(c) => IdleAssign(e)
  BY <1>4 DEF IdleAssign
<1>6. WrappedValue(c) => WrappedValue(e)
  BY <1>4 DEF WrappedValue
<1>. QED  BY <1>3, <1>5, <1>6 DEF ToHoist

\* Whatever check_body_expr notes has something to hoist, or two operations.
LEMMA ShapeAlarm ==
  ASSUME IsTree(body), NEW e \in Nodes, ~ check_body_expr(e)
  PROVE  ToHoist(e) \/ Cardinality(leaves(e)) > 1
<1>1. CASE leaves(e) = {}
  BY <1>1, Impure DEF check_body_expr
<1>2. CASE Cardinality(leaves(e)) = 1
  <2>1. PICK p : leaves(e) = {p}
    BY <1>2, LeafCount
  <2>2. /\ p \in Nodes /\ Within(p, e) /\ body[p] \in Unsafe
        /\ \A q \in Path(e, p) : body[q] \notin {"unsafe", "gen"}
    BY <2>1 DEF leaves
  <2>3. ASSUME NEW q \in Path(e, p) PROVE body[q] \notin Unsafe
    <3>1. q \in Nodes /\ Within(q, e) /\ q # p /\ Path(e, q) \subseteq Path(e, p)
      BY <2>2, PathPrefix
    <3>. QED  BY <2>1, <2>2, <3>1 DEF leaves
  <2>4. ASSUME NEW q \in Path(e, p)
        PROVE  body[q] \in Computing \cup Block \cup Layer \cup {"assign"}
    <3>1. q \in Nodes /\ Within(p, q) /\ q # p
      BY <2>2, PathPrefix
    <3>2. body[q] \notin Atom
      BY <2>2, <3>1, NoSub
    <3>3. body[q] \in Kind
      BY <3>1 DEF IsTree, Nodes
    <3>. QED  BY <2>3, <3>2, <3>3 DEF Kind
  <2>5. CASE \E q \in Path(e, p) : body[q] \in Computing \cup Block
    <3> DEFINE T == {q \in Path(e, p) : body[q] \in Computing \cup Block}
    <3>1. PICK m \in T : \A u \in T : Within(m, u) => u = m
      <4>1. T \subseteq Nodes /\ T # {}
        BY <2>5 DEF Path
      <4>. HIDE DEF T
      <4>. QED  BY <4>1, Shallowest
    <3>2. m \in Nodes /\ Within(m, e) /\ Path(e, m) \subseteq Path(e, p)
      BY <2>2, PathPrefix
    <3>3. ASSUME NEW q \in Path(e, m) PROVE ~ Hides(q, m)
      <4>1. q \in Path(e, p) /\ Within(m, q) /\ q # m
        BY <3>2 DEF Path
      <4>2. body[q] \notin Block
        BY <3>1, <4>1
      <4>. QED  BY <2>3, <4>1, <4>2 DEF Hides, Unsafe
    <3>. QED  BY <3>2, <3>3 DEF Does, ToHoist
  <2>6. CASE \A q \in Path(e, p) : body[q] \notin Computing \cup Block
    <3>1. \A q \in Path(e, p) : body[q] \notin Block \cup {"asm", "pcall"}
      BY <2>3, <2>6 DEF Unsafe
    <3>2. ASSUME NEW m \in Path(e, p) \cup {p}, NEW c \in Sub(m), ~ Within(p, c),
                 ~ is_pure_read(c),
                 body[m] \notin Block \cup {"asm"}, body[m] = "pcall" => c # Append(m, 1)
          PROVE  ToHoist(e)
      <4>1. m \in Nodes /\ Within(m, e) /\ Path(e, m) \subseteq Path(e, p)
        BY <2>2, PathPrefix
      <4>2. c \in Nodes
        BY <4>1, SubNode
      <4>3. \A q \in Path(e, m) \cup {m} : body[q] \notin {"unsafe", "gen"}
        BY <2>2, <4>1, <3>2 DEF Block
      <4>4. ASSUME NEW t \in leaves(c) PROVE FALSE
        <5>1. t \in leaves(e)
          BY <4>1, <4>3, DeeperLeaf
        <5>. QED  BY <2>1, <3>2, <5>1 DEF leaves
      <4>5. ToHoist(c)
        BY <3>2, <4>2, <4>4, Impure
      <4>6. \A q \in Path(e, m) : body[q] \notin Block \cup {"asm", "pcall"}
        BY <3>1, <4>1
      <4>. QED  BY <3>2, <4>1, <4>5, <4>6, HoistBelow
    <3>3. CASE ~ unwrap_to_leaf(e, p)
      <4>1. PICK q \in Path(e, p) :
              /\ body[q] = "assign"
              /\ \E r \in Sub(q) : ~ Within(p, r) /\ ~ is_pure_read(r)
        BY <2>4, <2>6, <3>3 DEF unwrap_to_leaf
      <4>. QED  BY <3>2, <4>1 DEF Block
    <3>4. CASE ~ check_leaf_operands(p)
      <4>1. PICK o \in operands(p) : ~ is_pure_read(o)
        BY <3>4 DEF check_leaf_operands
      <4>2. /\ o \in Sub(p) /\ body[p] \in {"draw", "ufield", "ucall", "pcall"}
            /\ body[p] = "pcall" => o # Append(p, 1)
        BY DEF operands
      <4>3. ~ Within(p, o)
        BY <2>2, <4>2, SubNode, WithinAntisym
      <4>. QED  BY <3>2, <4>1, <4>2, <4>3 DEF Block
    <3>. QED  BY <1>2, <2>1, <3>3, <3>4 DEF check_body_expr
  <2>. QED  BY <2>5, <2>6
<1>3. CASE Cardinality(leaves(e)) \notin {0, 1}
  BY <1>3, LeafCount
<1>. QED  BY <1>1, <1>2, <1>3, LeafCount

-----------------------------------------------------------------------------

\* The inductive invariant: of the blocks judged exactly those that offend are
\* reported.
Inv ==
  /\ TypeOK
  /\ body \in Bodies
  /\ flagged = {p \in active : Offends(p)}

LEMMA InvInit ==
  ASSUME Init PROVE Inv
BY DEF Init, Inv, TypeOK

\* The body does not change, and with it what its blocks are judged by.
LEMMA Unmoved ==
  ASSUME body' = body
  PROVE  Blocks' = Blocks /\ \A p : Offends(p)' <=> Offends(p)
BY DEF Blocks, Nodes, Offends, Needed, check_body_expr, leaves, is_pure_read,
       is_binding_place, unwrap_to_leaf, check_leaf_operands, operands, Path, Sub

LEMMA InvNext ==
  ASSUME Inv, [Next]_vars
  PROVE  Inv'
<1>1. ASSUME NEW p \in todo, NEW level \in Level, Skip(p, level)
      PROVE  Inv'
  <2>1. body' = body /\ active' = active /\ flagged' = flagged /\ todo' = todo \ {p}
    BY <1>1 DEF Skip, Visit
  <2>. QED  BY <2>1, Unmoved DEF Inv, TypeOK
<1>2. ASSUME NEW p \in todo, NEW level \in Level, check_expr(p, level)
      PROVE  Inv'
  <2>1. /\ body' = body /\ todo' = todo \ {p} /\ active' = active \cup {p}
        /\ flagged' = flagged \cup {q \in {p} : Offends(q)}
    BY <1>2 DEF check_expr, Visit
  <2>2. TypeOK'
    BY <2>1, Unmoved DEF Inv, TypeOK
  <2>3. flagged' = {q \in active' : Offends(q)'}
    BY <2>1, Unmoved DEF Inv
  <2>. QED  BY <2>1, <2>2, <2>3 DEF Inv
<1>3. ASSUME UNCHANGED vars
      PROVE  Inv'
  BY <1>3, Unmoved DEF Inv, TypeOK, vars
<1>. QED  BY <1>1, <1>2, <1>3 DEF Next

\* Blocks are visited once, and reports come only from where the lint is active
\* (check_expr's early return).
THEOREM TypeCorrect == Spec => []TypeOK
<1>1. Inv => TypeOK
  BY DEF Inv
<1>. QED  BY InvInit, InvNext, <1>1, PTL DEF Spec

LEMMA InvHidden ==
  ASSUME Inv PROVE NothingHidden
<1>1. IsTree(body)
  BY BodiesAssumption DEF Inv
<1>2. SUFFICES ASSUME NEW b \in Approved, NEW e \in Sub(b), body[e] \notin Block
               PROVE  /\ Cardinality(leaves(e)) <= 1
                      /\ Does(e) \cap (Computing \cup Block) = {}
  BY DEF NothingHidden
<1>3. b \in Nodes /\ ~ Offends(b) /\ body[b] = "unsafe" /\ Needed(b)
  BY DEF Approved, Inv, TypeOK, Blocks
<1>4. e \in Nodes /\ check_body_expr(e)
  BY <1>1, <1>3, SubNode DEF Offends
<1>. QED  BY <1>1, <1>2, <1>4, ShapeSound

\* An approved unsafe block, of any size, hides no second operation and no
\* computation in a statement (check_body_expr, unwrap_to_leaf,
\* check_leaf_operands).
THEOREM NothingEverHidden == Spec => []NothingHidden
BY InvInit, InvNext, InvHidden, PTL DEF Spec

LEMMA InvAlarm ==
  ASSUME Inv PROVE NoFalseAlarm
<1>1. IsTree(body)
  BY BodiesAssumption DEF Inv
<1>2. SUFFICES ASSUME NEW b \in flagged
               PROVE  \E e \in Sub(b) :
                        /\ body[e] \notin Block
                        /\ ToHoist(e) \/ Cardinality(leaves(e)) > 1
  BY DEF NoFalseAlarm, ToHoist
<1>3. b \in Nodes /\ Offends(b)
  BY DEF Inv, TypeOK, Blocks
<1>4. PICK e \in Sub(b) : body[e] = "let" \/ ~ check_body_expr(e)
  BY <1>3 DEF Offends
<1>5. e \in Nodes
  BY <1>1, <1>3, SubNode
<1>6. CASE body[e] = "let"
  <2>1. "let" \in Does(e)
    BY <1>1, <1>5, <1>6, WithinRefl, PathHere DEF Does
  <2>. QED  BY <1>6, <2>1 DEF ToHoist, Computing, Block
<1>7. CASE ~ check_body_expr(e)
  BY <1>1, <1>5, <1>7, ShapeAlarm DEF check_body_expr
<1>. QED  BY <1>4, <1>6, <1>7

\* A reported unsafe block, of any size, has a statement with something to hoist.
THEOREM AlarmsTrue == Spec => []NoFalseAlarm
BY InvInit, InvNext, InvAlarm, PTL DEF Spec

-----------------------------------------------------------------------------
\* The definitions by paths are the recursions of the code.

\* The way down from an expression begins with it and goes on from a child.
LEMMA SubPath ==
  ASSUME IsTree(body), NEW e \in Nodes, NEW c \in Sub(e), NEW p \in Nodes, Within(p, c)
  PROVE  /\ Within(p, e) /\ p # e
         /\ \A q : q \in Path(e, p) <=> q = e \/ q \in Path(c, p)
<1>1. c \in Nodes /\ Within(c, e) /\ c # e /\ Within(e, e)
  BY SubNode, WithinRefl
<1>2. Within(p, e) /\ p # e
  BY <1>1, WithinTrans, WithinAntisym
<1>3. \A q \in Path(e, p) : q = e \/ q \in Path(c, p)
  BY <1>1, PathSplit, PathHere
<1>4. \A q \in Path(c, p) : q \in Path(e, p)
  BY <1>1, WithinTrans DEF Path
<1>5. e \in Path(e, p)
  BY <1>1, <1>2 DEF Path
<1>. QED  BY <1>2, <1>3, <1>4, <1>5

\* leaves, defined by paths, is the traversal of visit_expr: nothing below an
\* unsafe block, elsewhere the expression itself and what its children hold.
THEOREM LeavesRecursion ==
  ASSUME IsTree(body), NEW e \in Nodes
  PROVE  leaves(e) = IF body[e] \in {"unsafe", "gen"} THEN {}
                     ELSE {p \in {e} : body[p] \in Unsafe}
                            \cup UNION {leaves(c) : c \in Sub(e)}
<1>1. ASSUME NEW c \in Sub(e), NEW p \in leaves(c), body[e] \notin {"unsafe", "gen"}
      PROVE  p \in leaves(e)
  BY <1>1, SubPath DEF leaves
<1>2. ASSUME NEW p \in leaves(e), p # e
      PROVE  body[e] \notin {"unsafe", "gen"} /\ \E c \in Sub(e) : p \in leaves(c)
  <2>1. PICK c \in Sub(e) : Within(p, c)
    BY <1>2, SubToward DEF leaves
  <2>. QED  BY <2>1, SubPath DEF leaves
<1>3. e \in leaves(e) <=> body[e] \in Unsafe
  BY WithinRefl, PathHere DEF leaves
<1>4. CASE body[e] \in {"unsafe", "gen"}
  BY <1>2, <1>3, <1>4 DEF Unsafe
<1>5. CASE body[e] \notin {"unsafe", "gen"}
  BY <1>1, <1>2, <1>3, <1>5
<1>. QED  BY <1>4, <1>5

\* is_binding_place, defined by a path, is the code's match: a local, or a
\* layer over a binding place.
THEOREM BindingPlaceRecursion ==
  ASSUME IsTree(body), NEW e \in Nodes
  PROVE  is_binding_place(e) <=>
           \/ body[e] = "local"
           \/ body[e] \in Layer /\ \A c \in Sub(e) : is_binding_place(c)
<1>1. ASSUME body[e] = "local" PROVE is_binding_place(e)
  BY <1>1, WithinRefl, PathHere DEF is_binding_place
<1>2. ASSUME NEW c \in Sub(e), is_binding_place(c), body[e] \in Layer
      PROVE  is_binding_place(e)
  BY <1>2, SubPath DEF is_binding_place
<1>3. ASSUME NEW p \in Nodes, Within(p, e), body[p] = "local", p # e,
             \A q \in Path(e, p) : body[q] \in Layer
      PROVE  body[e] \in Layer /\ \A d \in Sub(e) : is_binding_place(d)
  <2>1. PICK c \in Sub(e) : Within(p, c)
    BY <1>3, SubToward
  <2>2. body[e] \in Layer /\ is_binding_place(c)
    BY <1>3, <2>1, SubPath DEF is_binding_place
  <2>. QED  BY <2>2, OneSub
<1>4. ASSUME body[e] \in Layer PROVE Sub(e) # {}
  BY <1>4 DEF IsTree, Nodes, Sub
<1>. QED  BY <1>1, <1>2, <1>3, <1>4 DEF is_binding_place

\* unwrap_to_leaf, defined by a path, is the code's descent: through a layer, or
\* into the side of an assignment that holds the operation, the other being a
\* plain read.
THEOREM UnwrapRecursion ==
  ASSUME IsTree(body), NEW e \in Nodes, NEW p \in Nodes, Within(p, e)
  PROVE  unwrap_to_leaf(e, p) <=>
           \/ e = p
           \/ \E c \in Sub(e) :
                /\ Within(p, c) /\ unwrap_to_leaf(c, p)
                /\ \/ body[e] \in Layer
                   \/ body[e] = "assign" /\ \A d \in Sub(e) \ {c} : is_pure_read(d)
<1>1. CASE e = p
  BY <1>1, PathHere DEF unwrap_to_leaf
<1>2. CASE e # p
  <2>1. PICK c \in Sub(e) : Within(p, c)
    BY <1>2, SubToward
  <2>2. \A d \in Sub(e) : Within(p, d) <=> d = c
    BY <2>1, SubUnique
  <2>3. \A q : q \in Path(e, p) <=> q = e \/ q \in Path(c, p)
    BY <2>1, SubPath
  <2>. QED  BY <1>2, <2>1, <2>2, <2>3 DEF unwrap_to_leaf
<1>. QED  BY <1>1, <1>2

=============================================================================
