------------------------- MODULE InlineLiteralProofs -------------------------
(***************************************************************************)
(* inline_literal judges every literal of a crate of any size by the same  *)
(* lists: those of the whole crate, collected before the first visit.      *)
(***************************************************************************)
EXTENDS InlineLiteral, TLAPS

\* The lists hold nothing before check_crate, and all of the crate after it
\* when the lint is on at the root.
Collected ==
  /\ next = 0 => registered = {} /\ attr_ranges = {}
  /\ next # 0 /\ is_active(crate.root) =>
       registered = marker_names /\ attr_ranges = attribute_ranges
  /\ attr_ranges \subseteq attribute_ranges

\* What the pass says of node i.
Reports(i) ==
  \/ /\ nodes[i].kind = "constant"
     /\ is_active(nodes[i].level) /\ names_its_value(nodes[i])
  \/ /\ nodes[i].kind = "literal"
     /\ is_active(nodes[i].level) /\ nodes[i].span = "own"
     /\ nodes[i].within \notin attr_ranges
     /\ verdict(nodes[i])

FlaggedExactly == flagged = {i \in 1..(next - 1) : Reports(i)}

IInv == TypeOK /\ Collected /\ FlaggedExactly

\* The nodes, and what is in them.
LEMMA NodeTypes ==
  ASSUME TypeOK
  PROVE  /\ nodes \in Seq(Node) /\ Len(nodes) \in Nat /\ DOMAIN nodes = 1..Len(nodes)
         /\ \A i \in DOMAIN nodes : nodes[i] \in Node
         /\ \A i \in DOMAIN nodes : nodes[i].kind = "literal" => nodes[i] \in Literal
         /\ \A i \in DOMAIN nodes : nodes[i].kind = "attribute" => nodes[i] \in Attribute
         /\ \A i \in DOMAIN nodes : nodes[i].kind = "marker" => nodes[i] \in Marker
<1>1. nodes \in Seq(Node) /\ Len(nodes) \in Nat /\ DOMAIN nodes = 1..Len(nodes)
  BY DEF TypeOK, nodes
<1>2. \A i \in DOMAIN nodes : nodes[i] \in Node
  BY <1>1
<1>3. QED
  BY <1>1, <1>2 DEF Node, Literal, Attribute, Marker, Constant

LEMMA InitIInv == Init => IInv
<1> SUFFICES ASSUME Init PROVE IInv
  OBVIOUS
<1>1. crate \in [root : Level, nodes : Seq(Node)]
  BY CratesAssumption DEF Init, CratesAssumption
<1>2. TypeOK
  <2>1. Len(nodes) \in Nat
    BY <1>1 DEF nodes
  <2>2. QED
    BY <1>1, <2>1 DEF Init, TypeOK
<1>3. Collected /\ FlaggedExactly
  BY DEF Init, Collected, FlaggedExactly
<1>4. QED
  BY <1>2, <1>3 DEF IInv

\* A visit moves to the next node and adds at most that one to the reports.
LEMMA VisitStep ==
  ASSUME IInv, NEW kind, Visit(kind), Flag(Reports(next))
  PROVE  IInv'
<1> USE DEF IInv
<1>0. /\ next \in 1..Len(nodes) /\ next' = next + 1 /\ next \in Nat /\ next # 0
      /\ Len(nodes) \in Nat
  BY NodeTypes DEF Visit, TypeOK
<1>1. nodes' = nodes /\ crate' = crate /\ registered' = registered /\ attr_ranges' = attr_ranges
  BY DEF Visit, nodes
<1>2. TypeOK'
  <2>1. flagged \subseteq 1..next /\ next \in 1..next /\ next' - 1 = next
    BY <1>0 DEF TypeOK
  <2>2. flagged' \subseteq 1..(next' - 1)
    BY <2>1 DEF Flag
  <2>3. next' \in 0..(Len(nodes') + 1)
    BY <1>0, <1>1
  <2>4. QED
    BY <1>1, <2>2, <2>3 DEF TypeOK
<1>3. Collected'
  BY <1>0, <1>1 DEF Collected, marker_names, attribute_ranges
<1>4. \A i : Reports(i)' <=> Reports(i)
  BY <1>1 DEF Reports, verdict, string_reported, names_its_value
<1>5. FlaggedExactly'
  <2>1. flagged' = {i \in 1..next : Reports(i)}
    BY <1>0 DEF Flag, FlaggedExactly
  <2>2. next' - 1 = next
    BY <1>0
  <2>3. QED
    BY <1>4, <2>1, <2>2 DEF FlaggedExactly
<1>6. QED
  BY <1>2, <1>3, <1>5

\* Nothing is reported before check_crate, so nothing was judged without lists.
LEMMA CrateStep ==
  ASSUME IInv, check_crate
  PROVE  IInv'
<1> USE DEF IInv
<1>1. /\ next = 0 /\ next' = 1 /\ crate' = crate /\ nodes' = nodes
      /\ flagged' = flagged /\ flagged = {}
  BY DEF check_crate, nodes, FlaggedExactly
<1>2. Len(nodes) \in Nat
  BY NodeTypes
<1>3. marker_names \subseteq Names /\ attribute_ranges \subseteq Attribute
  BY NodeTypes DEF marker_names, attribute_ranges, Marker
<1>4. TypeOK'
  <2>1. registered' \subseteq Names /\ attr_ranges' \subseteq Attribute
    BY <1>3 DEF check_crate, TypeOK
  <2>2. next' \in 0..(Len(nodes') + 1) /\ flagged' \subseteq 1..(next' - 1)
    BY <1>1, <1>2
  <2>3. QED
    BY <1>1, <2>1, <2>2 DEF TypeOK
<1>5. Collected'
  <2>1. marker_names' = marker_names /\ attribute_ranges' = attribute_ranges
    BY <1>1 DEF marker_names, attribute_ranges
  <2>2. QED
    BY <1>1, <2>1 DEF check_crate, Collected
<1>6. FlaggedExactly'
  BY <1>1 DEF FlaggedExactly
<1>7. QED
  BY <1>4, <1>5, <1>6

LEMMA NextIInv == IInv /\ [Next]_vars => IInv'
<1> SUFFICES ASSUME IInv, [Next]_vars PROVE IInv'
  OBVIOUS
<1>1. CASE check_crate
  BY <1>1, CrateStep
<1>2. CASE check_value_named_const
  <2>1. /\ Visit("constant") /\ nodes[next].kind = "constant"
        /\ Flag(is_active(nodes[next].level) /\ names_its_value(nodes[next]))
    BY <1>2 DEF check_value_named_const, Visit
  <2>2. Flag(Reports(next))
    BY <2>1 DEF Reports, Flag
  <2>3. QED
    BY <2>1, <2>2, VisitStep
<1>3. CASE check_expr
  <2>1. /\ Visit("literal") /\ nodes[next].kind = "literal"
        /\ Flag(/\ is_active(nodes[next].level) /\ nodes[next].span = "own"
                /\ nodes[next].within \notin attr_ranges
                /\ verdict(nodes[next]))
    BY <1>3 DEF check_expr, Visit
  <2>2. Flag(Reports(next))
    BY <2>1 DEF Reports, Flag
  <2>3. QED
    BY <2>1, <2>2, VisitStep
<1>4. CASE Pass
  <2>1. PICK kind : kind \in {"marker", "attribute"} /\ Visit(kind)
    BY <1>4 DEF Pass
  <2>2. nodes[next].kind = kind
    BY <2>1 DEF Visit
  <2>3. ~ Reports(next)
    BY <2>1, <2>2 DEF Reports
  <2>4. Flag(Reports(next))
    BY <1>4, <2>3 DEF Pass, Flag
  <2>5. QED
    BY <2>1, <2>4, VisitStep
<1>5. CASE UNCHANGED vars
  BY <1>5 DEF vars, IInv, TypeOK, Collected, FlaggedExactly, Reports, nodes, marker_names,
     attribute_ranges, verdict, string_reported, names_its_value
<1>6. QED
  BY <1>1, <1>2, <1>3, <1>4, <1>5 DEF Next

THEOREM Inductive == Spec => []IInv
BY InitIInv, NextIInv, PTL DEF Spec

-----------------------------------------------------------------------------
\* TypeOK holds in every reachable state: reports are of visited nodes.
THEOREM TypeCorrect == Spec => []TypeOK
<1>1. IInv => TypeOK
  BY DEF IInv
<1>2. QED
  BY <1>1, Inductive, PTL

\* A judged node is a literal of the crate and was visited after check_crate.
LEMMA JudgedNodes ==
  ASSUME IInv, NEW i, Judged(i)
  PROVE  /\ i \in DOMAIN nodes /\ nodes[i] \in Literal /\ next # 0
         /\ i \in flagged <=> nodes[i].within \notin attr_ranges /\ verdict(nodes[i])
<1>1. i \in 1..(next - 1) /\ nodes[i].kind = "literal"
  BY DEF Judged
<1>2. next \in 0..(Len(nodes) + 1) /\ Len(nodes) \in Nat /\ DOMAIN nodes = 1..Len(nodes)
  BY NodeTypes DEF IInv, TypeOK
<1>3. i \in DOMAIN nodes /\ next # 0
  BY <1>1, <1>2
<1>4. nodes[i] \in Literal
  BY <1>1, <1>3, NodeTypes DEF IInv
<1>5. i \in flagged <=> Reports(i)
  BY <1>1 DEF IInv, FlaggedExactly
<1>6. QED
  BY <1>1, <1>3, <1>4, <1>5 DEF Reports, Judged

\* RegistrationOrderIrrelevant in every reachable state: a registered message
\* is not reported, wherever its marker stands.
THEOREM RegistrationHolds == Spec => []RegistrationOrderIrrelevant
<1>1. IInv => RegistrationOrderIrrelevant
  <2> SUFFICES ASSUME IInv, NEW i \in DOMAIN nodes, NEW m \in DOMAIN nodes,
                      is_active(crate.root), Judged(i), nodes[i].lit = "Str",
                      nodes[i].value = "plain",
                      nodes[m].kind = "marker", nodes[m].wellformed,
                      NEW k \in DOMAIN nodes[i].chain,
                      CallsRegistered(nodes[i].chain[k], {nodes[m].name})
               PROVE  i \notin flagged
    BY DEF RegistrationOrderIrrelevant
  <2>1. nodes[m].name \in registered
    BY JudgedNodes DEF IInv, Collected, marker_names
  <2>2. CallsRegistered(nodes[i].chain[k], registered)
    BY <2>1 DEF CallsRegistered
  <2>3. in_message_position(nodes[i].chain, registered)
    BY <2>2 DEF in_message_position
  <2>4. ~ verdict(nodes[i])
    BY <2>3 DEF verdict, string_reported
  <2>5. QED
    BY <2>4, JudgedNodes
<1>2. QED
  BY <1>1, Inductive, PTL

\* AttributeDataSilent in every reachable state: what an attribute carries is
\* not reported.
THEOREM AttributesHold == Spec => []AttributeDataSilent
<1>1. IInv => AttributeDataSilent
  <2> SUFFICES ASSUME IInv, NEW i \in DOMAIN nodes, is_active(crate.root), Judged(i),
                      NEW j \in DOMAIN nodes, nodes[j] = nodes[i].within,
                      nodes[i].within.owner \notin {"TupleField", "Other"},
                      nodes[i].within.class # "parsed"
               PROVE  i \notin flagged
    BY DEF AttributeDataSilent, Carried
  <2>1. nodes[i] \in Literal /\ next # 0
    BY JudgedNodes
  <2>2. nodes[j] \in Node
    BY NodeTypes DEF IInv
  <2>3. nodes[j] \in Attribute
    BY <2>1, <2>2, NoAttributeAssumption DEF Literal, NoAttributeAssumption
  <2>4. nodes[j].kind = "attribute" /\ records(nodes[j])
    BY <2>3 DEF Attribute, records
  <2>5. nodes[i].within \in attr_ranges
    BY <2>1, <2>4 DEF IInv, Collected, attribute_ranges
  <2>6. QED
    BY <2>5, JudgedNodes
<1>2. QED
  BY <1>1, Inductive, PTL

\* Ranges are of attributes of the crate.
LEMMA UncarriedUncovered ==
  ASSUME IInv, NEW i, ~ Carried(i)
  PROVE  nodes[i].within \notin attr_ranges
BY DEF IInv, Collected, attribute_ranges, Carried

\* NestedStringsReported in every reachable state: no position excuses a
\* string in a string.
THEOREM NestedStringsHold == Spec => []NestedStringsReported
<1>1. IInv => NestedStringsReported
  <2> SUFFICES ASSUME IInv, NEW i \in DOMAIN nodes, Judged(i), ~ Carried(i),
                      nodes[i].lit = "Str", nodes[i].value = "nested"
               PROVE  i \in flagged
    BY DEF NestedStringsReported
  <2>1. verdict(nodes[i])
    BY DEF verdict, string_reported
  <2>2. QED
    BY <2>1, JudgedNodes, UncarriedUncovered
<1>2. QED
  BY <1>1, Inductive, PTL

\* MagicNumbersReported in every reachable state: only a naming site excuses a
\* number other than 0, 1 and 2.
THEOREM MagicNumbersHold == Spec => []MagicNumbersReported
<1>1. IInv => MagicNumbersReported
  <2> SUFFICES ASSUME IInv, NEW i \in DOMAIN nodes, Judged(i), ~ Carried(i),
                      nodes[i].lit \in {"Int", "Float"}, nodes[i].value = "3",
                      \A k \in DOMAIN nodes[i].chain : ~ NamingSite(nodes[i].chain[k])
               PROVE  i \in flagged
    BY DEF MagicNumbersReported
  <2>1. ~ in_const_context(nodes[i].chain)
    BY DEF in_const_context, Stop
  <2>2. ~ trivial_float(nodes[i].chain, nodes[i].value)
    BY DEF trivial_float
  <2>3. ~ trivial_int(nodes[i].chain, nodes[i].value)
    BY <2>2 DEF trivial_int
  <2>4. verdict(nodes[i])
    BY <2>1, <2>2, <2>3 DEF verdict
  <2>5. QED
    BY <2>4, JudgedNodes, UncarriedUncovered
<1>2. QED
  BY <1>1, Inductive, PTL

-----------------------------------------------------------------------------
LEMMA CastNode == Cast \in Ancestor /\ Cast.node = "Cast"
<1>1. Cast.node = "Cast"
  BY DEF Cast
<1>2. "Cast" \in NodeKinds /\ "" \in Names /\ {} \in SUBSET Names
  BY NamesAssumption DEF NodeKinds, ExprKinds, NamesAssumption
<1>3. Cast \in Ancestor
  BY <1>2 DEF Cast, Ancestor
<1>4. QED
  BY <1>1, <1>3

\* Putting a cast between a literal and what encloses it shifts the ancestors.
LEMMA CastChain ==
  ASSUME NEW c \in Seq(Ancestor), NEW d, d = <<Cast>> \o c
  PROVE  /\ DOMAIN d = 1..(Len(c) + 1) /\ DOMAIN c = 1..Len(c) /\ Len(c) \in Nat
         /\ d[1] = Cast
         /\ \A i \in DOMAIN c : i + 1 \in DOMAIN d /\ d[i + 1] = c[i]
<1>1. Cast \in Ancestor
  BY CastNode
<1> DEFINE k == Cast
<1> HIDE DEF k
<1>3. k \in Ancestor
  BY <1>1 DEF k
<1>4. <<k>> \in Seq(Ancestor) /\ Len(<<k>>) = 1 /\ <<k>>[1] = k
  BY <1>3
<1>5. d = <<k>> \o c
  BY DEF k
<1>6. d \in Seq(Ancestor) /\ Len(d) = Len(c) + 1 /\ Len(c) \in Nat
  BY <1>4, <1>5
<1>7. d[1] = k
  BY <1>4, <1>5, <1>6
<1>8. ASSUME NEW i \in DOMAIN c PROVE i + 1 \in DOMAIN d /\ d[i + 1] = c[i]
  BY <1>4, <1>5, <1>6
<1>9. QED
  BY <1>6, <1>7, <1>8 DEF k

\* Where d stops, c stops one earlier, at the same ancestor.
StopsAlike(c, d, passed) ==
  /\ \A i \in Stop(c, passed) : i + 1 \in Stop(d, passed) /\ d[i + 1] = c[i]
  /\ \A j \in Stop(d, passed) : j - 1 \in Stop(c, passed) /\ d[j] = c[j - 1]

\* A walk that passes casts stops at the same ancestor with and without one.
LEMMA CastStop ==
  ASSUME NEW c \in Seq(Ancestor), NEW passed, "Cast" \in passed
  PROVE  StopsAlike(c, <<Cast>> \o c, passed)
<1>0. PICK d : d = <<Cast>> \o c
  OBVIOUS
<1>1. /\ DOMAIN d = 1..(Len(c) + 1) /\ DOMAIN c = 1..Len(c) /\ Len(c) \in Nat
      /\ d[1] = Cast
      /\ \A i \in DOMAIN c : i + 1 \in DOMAIN d /\ d[i + 1] = c[i]
  BY <1>0, CastChain
<1>2. d[1].node \in passed
  BY <1>1, CastNode
<1>3. ASSUME NEW i \in Stop(c, passed)
      PROVE  i + 1 \in Stop(d, passed) /\ d[i + 1] = c[i]
  <2>1. i \in DOMAIN c /\ c[i].node \notin passed
        /\ \A j \in 1..(i - 1) : c[j].node \in passed
    BY <1>3 DEF Stop
  <2>2. ASSUME NEW j \in 1..((i + 1) - 1) PROVE d[j].node \in passed
    <3>1. CASE j = 1
      BY <3>1, <1>2
    <3>2. CASE j # 1
      <4>1. j - 1 \in 1..(i - 1) /\ j - 1 \in DOMAIN c /\ (j - 1) + 1 = j
        BY <3>2, <2>1, <1>1
      <4>2. d[j] = c[j - 1]
        BY <4>1, <1>1
      <4>3. QED
        BY <4>1, <4>2, <2>1
    <3>3. QED
      BY <3>1, <3>2
  <2>3. QED
    BY <1>1, <2>1, <2>2 DEF Stop
<1>4. ASSUME NEW j \in Stop(d, passed)
      PROVE  j - 1 \in Stop(c, passed) /\ d[j] = c[j - 1]
  <2>1. j \in DOMAIN d /\ d[j].node \notin passed
        /\ \A k \in 1..(j - 1) : d[k].node \in passed
    BY <1>4 DEF Stop
  <2>2. j # 1
    BY <2>1, <1>2
  <2>3. j - 1 \in DOMAIN c /\ (j - 1) + 1 = j
    BY <1>1, <2>1, <2>2
  <2>4. d[j] = c[j - 1]
    BY <1>1, <2>3
  <2>5. ASSUME NEW k \in 1..((j - 1) - 1) PROVE c[k].node \in passed
    <3>1. k \in DOMAIN c /\ k + 1 \in 1..(j - 1)
      BY <1>1, <2>3
    <3>2. QED
      BY <3>1, <2>1, <1>1
  <2>6. QED
    BY <2>1, <2>3, <2>4, <2>5 DEF Stop
<1>5. QED
  BY <1>0, <1>3, <1>4 DEF StopsAlike

\* Casts change neither the naming site nor the shape of a literal's place.
LEMMA CastContext ==
  ASSUME NEW c \in Seq(Ancestor), NEW d, d = <<Cast>> \o c, NEW value
  PROVE  /\ in_const_context(d) <=> in_const_context(c)
         /\ trivial_float(d, value) <=> trivial_float(c, value)
         /\ trivial_int(d, value) <=> trivial_int(c, value)
<1> DEFINE walked == ExprKinds \cup {"AnonConst", "Stmt", "Block", "Ty"}
<1>1. /\ \A i \in Stop(c, walked) : i + 1 \in Stop(d, walked) /\ d[i + 1] = c[i]
      /\ \A j \in Stop(d, walked) : j - 1 \in Stop(c, walked) /\ d[j] = c[j - 1]
  <2>1. "Cast" \in walked
    BY DEF ExprKinds
  <2>2. StopsAlike(c, d, walked)
    BY <2>1, CastStop
  <2>3. QED
    BY <2>2 DEF StopsAlike
<1>2. in_const_context(d) <=> in_const_context(c)
  BY <1>1 DEF in_const_context
<1>3. /\ \A i \in Stop(c, Transparent) : i + 1 \in Stop(d, Transparent) /\ d[i + 1] = c[i]
      /\ \A j \in Stop(d, Transparent) : j - 1 \in Stop(c, Transparent) /\ d[j] = c[j - 1]
  <2>1. "Cast" \in Transparent
    BY DEF Transparent
  <2>2. StopsAlike(c, d, Transparent)
    BY <2>1, CastStop
  <2>3. QED
    BY <2>2 DEF StopsAlike
<1>4. trivial_float(d, value) <=> trivial_float(c, value)
  <2> DEFINE T(a) == \/ AddSub(a) /\ value = "1"
                     \/ MulDiv(a) /\ value = "2"
                     \/ /\ RangeStart(a) \/ Comparison(a) \/ LetInit(a)
                        /\ value \in {"0", "1"}
  <2>1. /\ trivial_float(c, value) <=> \E i \in Stop(c, Transparent) : T(c[i])
        /\ trivial_float(d, value) <=> \E i \in Stop(d, Transparent) : T(d[i])
    BY DEF trivial_float
  <2> HIDE DEF T
  <2>2. QED
    BY <1>3, <2>1
<1>5. trivial_int(d, value) <=> trivial_int(c, value)
  <2> DEFINE Z(a) == (CallArg(a) \/ StructFieldZero(a)) /\ value = "0"
  <2>1. /\ trivial_int(c, value) <=>
             trivial_float(c, value) \/ \E i \in Stop(c, Transparent) : Z(c[i])
        /\ trivial_int(d, value) <=>
             trivial_float(d, value) \/ \E i \in Stop(d, Transparent) : Z(d[i])
    BY DEF trivial_int
  <2> HIDE DEF Z
  <2>2. QED
    BY <1>3, <1>4, <2>1
<1>6. QED
  BY <1>2, <1>4, <1>5

\* CastsTransparent in every reachable state: a number and its twin under a
\* cast are judged alike.
THEOREM CastsHold == Spec => []CastsTransparent
<1>1. IInv => CastsTransparent
  <2> SUFFICES ASSUME IInv, NEW i \in DOMAIN nodes, NEW j \in DOMAIN nodes,
                      Judged(i), Judged(j), nodes[i].lit \in {"Int", "Float"},
                      nodes[j] = [nodes[i] EXCEPT !.chain = <<Cast>> \o @]
               PROVE  i \in flagged <=> j \in flagged
    BY DEF CastsTransparent
  <2>1. nodes[i] \in Literal
    BY JudgedNodes
  <2>2. /\ nodes[i].chain \in Seq(Ancestor)
        /\ nodes[j].chain = <<Cast>> \o nodes[i].chain
        /\ nodes[j].lit = nodes[i].lit /\ nodes[j].value = nodes[i].value
        /\ nodes[j].within = nodes[i].within
    BY <2>1 DEF Literal
  <2>3. /\ in_const_context(nodes[j].chain) <=> in_const_context(nodes[i].chain)
        /\ trivial_float(nodes[j].chain, nodes[j].value)
             <=> trivial_float(nodes[i].chain, nodes[i].value)
        /\ trivial_int(nodes[j].chain, nodes[j].value)
             <=> trivial_int(nodes[i].chain, nodes[i].value)
    BY <2>2, CastContext
  <2>4. verdict(nodes[j]) <=> verdict(nodes[i])
    BY <2>2, <2>3 DEF verdict
  <2>5. QED
    BY <2>2, <2>4, JudgedNodes
<1>2. QED
  BY <1>1, Inductive, PTL

\* OneReportPerConstant in every reachable state: an initializer stands at a
\* naming site, so what is wrong with it is its constant's name.
THEOREM OneReportHolds == Spec => []OneReportPerConstant
<1>1. IInv => OneReportPerConstant
  <2> SUFFICES ASSUME IInv, NEW i \in 2..Len(nodes), Initializer(i), nodes[i].value # "nested",
                      i \in flagged
               PROVE  FALSE
    BY DEF OneReportPerConstant
  <2>1. i \in DOMAIN nodes /\ nodes[i].kind = "literal"
    BY NodeTypes DEF IInv, Initializer
  <2>2. nodes[i] \in Literal /\ Reports(i)
    BY <2>1, NodeTypes DEF IInv, FlaggedExactly
  <2>3. verdict(nodes[i])
    BY <2>1, <2>2 DEF Reports
  <2> DEFINE chain == nodes[i].chain
  <2>4. 1 \in DOMAIN chain /\ NamingSite(chain[1]) /\ chain \in Seq(Ancestor)
    BY <2>2 DEF Initializer, NamingSite, Literal
  <2>5. chain[1].node \notin ExprKinds \cup {"AnonConst", "Stmt", "Block", "Ty"}
    BY DEF Initializer, ExprKinds
  <2>6. in_const_context(chain)
    BY <2>4, <2>5 DEF in_const_context, Stop
  <2>7. QED
    BY <2>3, <2>6 DEF verdict, string_reported
<1>2. QED
  BY <1>1, Inductive, PTL

=============================================================================
