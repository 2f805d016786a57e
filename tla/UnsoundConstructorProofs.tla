------------------------ MODULE UnsoundConstructorProofs ------------------------
(***************************************************************************)
(* unsound_constructor reports exactly the bare, named sites below a       *)
(* declaration, for crates of any size and any number of types.            *)
(***************************************************************************)
EXTENDS UnsoundConstructor, TLAPS

\* The pass remembers exactly the types declared so far.
Registered ==
  unsound_types = {t \in Types : \E i \in DOMAIN visited : Declares(i, t)}

IInv == TypeOK /\ Registered /\ SitesStandAlone /\ NoFalseFinding

USE MaxNodesAssumption DEF MaxNodesAssumption

LEMMA InitIInv == Init => IInv
<1> SUFFICES ASSUME Init PROVE IInv
  OBVIOUS
<1>1. visited = <<>> /\ Len(visited) = 0 /\ DOMAIN visited = {} /\ visited \in Seq(Node)
  BY DEF Init
<1>2. TypeOK
  <2>1. flagged \in SUBSET (1..Len(visited)) /\ unsound_types \in SUBSET Types
    BY DEF Init
  <2>2. done \in BOOLEAN
    BY DEF Init
  <2>3. QED
    BY <1>1, <2>1, <2>2 DEF TypeOK
<1>3. Registered /\ SitesStandAlone /\ NoFalseFinding
  BY <1>1 DEF Init, Registered, SitesStandAlone, NoFalseFinding
<1>4. QED
  BY <1>2, <1>3 DEF IInv

\* A visit adds one node and changes no other.
LEMMA VisitAppends ==
  ASSUME TypeOK, NEW n \in Node, Visit(n)
  PROVE  /\ visited' \in Seq(Node) /\ Len(visited') = Len(visited) + 1
         /\ Len(visited') <= MaxNodes
         /\ DOMAIN visited' = DOMAIN visited \cup {Len(visited) + 1}
         /\ DOMAIN visited = 1..Len(visited) /\ Len(visited) \in Nat
         /\ visited'[Len(visited) + 1] = n
         /\ \A i \in DOMAIN visited : visited'[i] = visited[i]
         /\ done' = done
BY DEF TypeOK, Visit

\* What a node declares, and whether it is bare, it keeps.
LEMMA NodesKept ==
  ASSUME TypeOK, NEW n \in Node, Visit(n), NEW i \in DOMAIN visited
  PROVE  /\ \A t : Declares(i, t)' <=> Declares(i, t)
         /\ Bare(i)' <=> Bare(i)
BY VisitAppends DEF Declares, Bare

\* A struct is reported for itself and changes no earlier finding.
LEMMA ItemStep ==
  ASSUME IInv, NEW n \in Node, check_item(n)
  PROVE  IInv'
<1> USE DEF IInv
<1>0. PICK k : k = Len(visited) + 1
  OBVIOUS
<1> DEFINE marked == is_active(n.level) /\ n.marked
<1>1. /\ n.kind = "struct" /\ Visit(n)
      /\ unsound_types' = unsound_types \cup {t \in {n.type} : marked}
      /\ flagged' = flagged \cup {i \in {k} : marked /\ ~ n.commented}
  BY <1>0 DEF check_item, Flag
<1>2. n.type \in Types
  BY DEF Node, Struct, Literal
<1>3. TypeOK'
  <2>1. unsound_types' \in SUBSET Types
    BY <1>1, <1>2 DEF TypeOK
  <2>2. flagged' \in SUBSET (1..Len(visited'))
    <3>1. Len(visited') = k /\ k \in Nat /\ k # 0 /\ Len(visited) = k - 1
      BY <1>0, <1>1, VisitAppends
    <3>2. flagged \in SUBSET (1..k)
      BY <3>1 DEF TypeOK
    <3>3. flagged' \subseteq flagged \cup {k}
      BY <1>1
    <3>4. k \in 1..k
      BY <3>1
    <3>5. QED
      BY <3>1, <3>2, <3>3, <3>4
  <2>3. QED
    BY <1>1, <2>1, <2>2, VisitAppends DEF TypeOK
<1>4. \A t : Declares(k, t)' <=> n.type = t /\ marked
  BY <1>0, <1>1, VisitAppends DEF Declares
<1>5. Registered'
  BY <1>0, <1>1, <1>2, <1>4, VisitAppends, NodesKept DEF Registered
<1>6. k \notin flagged /\ visited'[k].kind # "literal"
  BY <1>0, <1>1, VisitAppends DEF TypeOK
<1>7. SitesStandAlone'
  <2> SUFFICES ASSUME NEW i \in DOMAIN visited', NEW j \in DOMAIN visited',
                      i < j, visited'[j].kind = "literal", visited'[j].named,
                      Declares(i, visited[j].type)'
               PROVE  j \in flagged' <=> Bare(j)'
    BY DEF SitesStandAlone
  <2>1. j \in DOMAIN visited /\ i \in DOMAIN visited /\ j # k
    BY <1>0, <1>1, <1>6, VisitAppends
  <2>2. visited'[j] = visited[j] /\ Declares(i, visited[j].type)
    BY <1>0, <1>1, <2>1, VisitAppends, NodesKept
  <2>3. j \in flagged <=> Bare(j)
    BY <2>1, <2>2 DEF SitesStandAlone
  <2>4. j \in flagged' <=> j \in flagged
    BY <1>0, <1>1, <2>1
  <2>5. Bare(j)' <=> Bare(j)
    BY <1>0, <1>1, <2>1, NodesKept
  <2>6. QED
    BY <2>2, <2>3, <2>4, <2>5
<1>8. NoFalseFinding'
  <2> SUFFICES ASSUME NEW j \in flagged'
               PROVE  Bare(j)' /\ \E i \in 1..j : Declares(i, visited[j].type)'
    BY DEF NoFalseFinding
  <2>1. CASE j \in flagged
    <3>1. j \in DOMAIN visited /\ Bare(j)
      BY <1>0, <1>1, <2>1, VisitAppends DEF TypeOK, NoFalseFinding
    <3>2. PICK i \in 1..j : Declares(i, visited[j].type)
      BY <2>1 DEF NoFalseFinding
    <3>3. i \in DOMAIN visited
      BY <1>0, <1>1, <3>1, VisitAppends
    <3>4. Bare(j)' /\ Declares(i, visited[j].type)'
      BY <1>0, <1>1, <3>1, <3>2, <3>3, VisitAppends, NodesKept
    <3>5. QED
      BY <3>4
  <2>2. CASE j = k /\ marked /\ ~ n.commented
    <3>1. Bare(j)' /\ Declares(j, visited[j].type)'
      BY <1>0, <1>1, <2>2, VisitAppends DEF Bare, Declares
    <3>2. j \in 1..j
      BY <1>0, <1>1, <2>2, VisitAppends
    <3>3. QED
      BY <3>1, <3>2
  <2>3. QED
    BY <1>0, <1>1, <2>1, <2>2
<1>9. QED
  BY <1>3, <1>5, <1>7, <1>8

\* A literal is reported for itself and declares nothing.
LEMMA ExprStep ==
  ASSUME IInv, NEW n \in Node, check_expr(n)
  PROVE  IInv'
<1> USE DEF IInv
<1>0. PICK k : k = Len(visited) + 1
  OBVIOUS
<1> DEFINE bare == is_active(n.level) /\ n.named /\ n.type \in unsound_types /\ ~ n.commented
<1>1. /\ n.kind = "literal" /\ Visit(n)
      /\ unsound_types' = unsound_types
      /\ flagged' = flagged \cup {i \in {k} : bare}
  BY <1>0 DEF check_expr, Flag
<1>2. n.type \in Types /\ n.named \in BOOLEAN
  BY DEF Node, Struct, Literal
<1>3. TypeOK'
  <2>1. flagged' \in SUBSET (1..Len(visited'))
    <3>1. Len(visited') = k /\ k \in Nat /\ k # 0 /\ Len(visited) = k - 1
      BY <1>0, <1>1, VisitAppends
    <3>2. flagged \in SUBSET (1..k)
      BY <3>1 DEF TypeOK
    <3>3. flagged' \subseteq flagged \cup {k}
      BY <1>1
    <3>4. k \in 1..k
      BY <3>1
    <3>5. QED
      BY <3>1, <3>2, <3>3, <3>4
  <2>2. QED
    BY <1>1, <2>1, VisitAppends DEF TypeOK
<1>4. \A t : ~ Declares(k, t)'
  BY <1>0, <1>1, VisitAppends DEF Declares
<1>5. Registered'
  BY <1>0, <1>1, <1>4, VisitAppends, NodesKept DEF Registered
<1>6. k \notin flagged
  BY <1>0, <1>1, VisitAppends DEF TypeOK
<1>7. SitesStandAlone'
  <2> SUFFICES ASSUME NEW i \in DOMAIN visited', NEW j \in DOMAIN visited',
                      i < j, visited'[j].kind = "literal", visited'[j].named,
                      Declares(i, visited[j].type)'
               PROVE  j \in flagged' <=> Bare(j)'
    BY DEF SitesStandAlone
  <2>1. i \in DOMAIN visited
    BY <1>0, <1>1, VisitAppends
  <2>2. CASE j \in DOMAIN visited
    <3>1. visited'[j] = visited[j] /\ Declares(i, visited[j].type)
      BY <1>0, <1>1, <2>1, <2>2, VisitAppends, NodesKept
    <3>2. j \in flagged <=> Bare(j)
      BY <2>1, <2>2, <3>1 DEF SitesStandAlone
    <3>3. j \in flagged' <=> j \in flagged
      BY <1>0, <1>1, <2>2, VisitAppends
    <3>4. Bare(j)' <=> Bare(j)
      BY <1>0, <1>1, <2>2, NodesKept
    <3>5. QED
      BY <3>1, <3>2, <3>3, <3>4
  <2>3. CASE j = k
    <3>1. Declares(i, n.type)
      BY <1>0, <1>1, <2>1, <2>3, VisitAppends, NodesKept
    <3>2. n.type \in unsound_types
      BY <1>2, <2>1, <3>1 DEF Registered
    <3>3. j \in flagged' <=> is_active(n.level) /\ n.named /\ ~ n.commented
      BY <1>0, <1>1, <1>6, <2>3, <3>2
    <3>4. Bare(j)' <=> is_active(n.level) /\ ~ n.commented
      BY <1>0, <1>1, <2>3, VisitAppends DEF Bare
    <3>5. visited'[j].named = n.named
      BY <1>0, <1>1, <2>3, VisitAppends
    <3>6. QED
      BY <1>2, <3>3, <3>4, <3>5
  <2>4. QED
    BY <1>0, <1>1, <2>2, <2>3, VisitAppends
<1>8. NoFalseFinding'
  <2> SUFFICES ASSUME NEW j \in flagged'
               PROVE  Bare(j)' /\ \E i \in 1..j : Declares(i, visited[j].type)'
    BY DEF NoFalseFinding
  <2>1. CASE j \in flagged
    <3>1. j \in DOMAIN visited /\ Bare(j)
      BY <1>0, <1>1, <2>1, VisitAppends DEF TypeOK, NoFalseFinding
    <3>2. PICK i \in 1..j : Declares(i, visited[j].type)
      BY <2>1 DEF NoFalseFinding
    <3>3. i \in DOMAIN visited
      BY <1>0, <1>1, <3>1, VisitAppends
    <3>4. Bare(j)' /\ Declares(i, visited[j].type)'
      BY <1>0, <1>1, <3>1, <3>2, <3>3, VisitAppends, NodesKept
    <3>5. QED
      BY <3>4
  <2>2. CASE j = k /\ bare
    <3>1. PICK i \in DOMAIN visited : Declares(i, n.type)
      BY <2>2 DEF Registered
    <3>2. i \in 1..j
      BY <1>0, <1>1, <2>2, VisitAppends
    <3>3. Bare(j)' /\ Declares(i, visited[j].type)'
      BY <1>0, <1>1, <2>2, <3>1, VisitAppends, NodesKept DEF Bare
    <3>4. QED
      BY <3>2, <3>3
  <2>3. QED
    BY <1>0, <1>1, <2>1, <2>2
<1>9. QED
  BY <1>3, <1>5, <1>7, <1>8

LEMMA StepIInv == IInv /\ [Next]_vars => IInv'
<1> SUFFICES ASSUME IInv, [Next]_vars PROVE IInv'
  OBVIOUS
<1>1. ASSUME UNCHANGED <<unsound_types, flagged, visited>>, done' \in BOOLEAN
      PROVE  IInv'
  BY <1>1 DEF IInv, TypeOK, Registered, SitesStandAlone, NoFalseFinding, Declares, Bare
<1>2. CASE Finish \/ UNCHANGED vars
  BY <1>1, <1>2 DEF Finish, vars, IInv, TypeOK
<1>3. QED
  BY <1>2, ItemStep, ExprStep DEF Next

LEMMA Inductive == Spec => [](TypeOK /\ SitesStandAlone /\ NoFalseFinding)
<1>1. Spec => []IInv
  BY InitIInv, StepIInv, PTL DEF Spec
<1>2. IInv => TypeOK /\ SitesStandAlone /\ NoFalseFinding
  BY DEF IInv
<1>3. QED
  BY <1>1, <1>2, PTL

\* Every state of the pass is well typed, for crates of any size.
THEOREM TypeCorrect == Spec => []TypeOK
BY Inductive, PTL

\* One half of the lint's correctness, for every crate: no site below a
\* declaration is missed because of another node.
THEOREM SitesCorrect == Spec => []SitesStandAlone
BY Inductive, PTL

\* The other half: check_item and check_expr make no finding up.
THEOREM FindingsTrue == Spec => []NoFalseFinding
BY Inductive, PTL

=============================================================================
