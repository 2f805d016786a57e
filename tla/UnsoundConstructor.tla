-------------------------- MODULE UnsoundConstructor --------------------------
(***************************************************************************)
(* The unsound_constructor pass over one crate: the HIR traversal visits   *)
(* items and expressions in source order, bodies where they stand; the     *)
(* pass keeps the marked structs it has met so far and reports structs and *)
(* literals without a SAFETY comment.  The crate is whatever has been      *)
(* visited so far, so every crate of at most MaxNodes nodes is covered.    *)
(***************************************************************************)
EXTENDS Naturals, Sequences, LintLevels

CONSTANTS
  Types,      \* struct types of the crate
  MaxNodes    \* bound: structs and literals

ASSUME MaxNodesAssumption == MaxNodes \in Nat

\* commented is has_safety_comment's answer for the node.  named: the path of
\* a literal resolves to the struct itself, not to Self or a type alias.
\* marked: the struct carries #[servyi::unsound_constructor].
Struct ==
  [kind : {"struct"}, type : Types, level : Level, commented : BOOLEAN,
   marked : BOOLEAN, named : {TRUE}]
Literal ==
  [kind : {"literal"}, type : Types, level : Level, commented : BOOLEAN,
   marked : {FALSE}, named : BOOLEAN]
Node == Struct \cup Literal

VARIABLES
  unsound_types,   \* Pass::unsound_types
  flagged,         \* positions of the nodes reported
  done,            \* the traversal is over
  visited          \* history: the nodes visited

vars == <<unsound_types, flagged, done, visited>>

Init == unsound_types = {} /\ flagged = {} /\ done = FALSE /\ visited = <<>>

\* A type has one declaration.
Visit(n) ==
  /\ ~ done /\ Len(visited) < MaxNodes
  /\ n.kind = "struct" => \A i \in DOMAIN visited :
                            visited[i].kind = "struct" => visited[i].type # n.type
  /\ visited' = Append(visited, n)
  /\ UNCHANGED done

\* Mutant: the finding lands on the node after the one visited.
FlagNext(b) == flagged' = flagged \cup {i \in {Len(visited) + 2} : b}

Flag(b) == flagged' = flagged \cup {i \in {Len(visited) + 1} : b}

\* Mutant: a documented struct is not remembered.
RegisterUncommented(n) ==
  /\ n.kind = "struct" /\ Visit(n)
  /\ LET marked == is_active(n.level) /\ n.marked /\ ~ n.commented
     IN /\ unsound_types' = unsound_types \cup {t \in {n.type} : marked}
        /\ Flag(marked)

check_item(n) ==
  /\ n.kind = "struct" /\ Visit(n)
  /\ LET marked == is_active(n.level) /\ n.marked
     IN /\ unsound_types' = unsound_types \cup {t \in {n.type} : marked}
        /\ Flag(marked /\ ~ n.commented)

\* Mutant: the level at the literal is not consulted.
check_expr_everywhere(n) ==
  /\ n.kind = "literal" /\ Visit(n)
  /\ Flag(n.named /\ n.type \in unsound_types /\ ~ n.commented)
  /\ UNCHANGED unsound_types

check_expr(n) ==
  /\ n.kind = "literal" /\ Visit(n)
  /\ Flag(is_active(n.level) /\ n.named /\ n.type \in unsound_types /\ ~ n.commented)
  /\ UNCHANGED unsound_types

Finish ==
  /\ ~ done
  /\ done' = TRUE
  /\ UNCHANGED <<unsound_types, flagged, visited>>

Next ==
  \/ \E n \in Node : check_item(n) \/ check_expr(n)
  \/ Finish
  \/ done /\ UNCHANGED vars

Spec == Init /\ [][Next]_vars

-----------------------------------------------------------------------------

TypeOK ==
  /\ unsound_types \in SUBSET Types
  /\ flagged \in SUBSET (1..Len(visited))
  /\ done \in BOOLEAN
  /\ visited \in Seq(Node) /\ Len(visited) <= MaxNodes

\* The declaration at i makes the pass hold type t unsound.
Declares(i, t) ==
  LET n == visited[i] IN n.kind = "struct" /\ n.type = t /\ n.marked /\ is_active(n.level)

\* Node i lacks a comment the lint is there to ask for.
Bare(i) == is_active(visited[i].level) /\ ~ visited[i].commented

\* No literal is silenced by what another node does: a literal that names a
\* struct declared before it is reported exactly when it is bare, whether or
\* not the declaration, or any other literal, carries its own comment.  Nothing
\* is claimed of literals written with Self or an alias: they resolve to no
\* struct, and the code passes them over although the doc has every site checked.
SitesStandAlone ==
  \A i, j \in DOMAIN visited :
    /\ i < j /\ Declares(i, visited[j].type)
    /\ visited[j].kind = "literal" /\ visited[j].named
    => (j \in flagged <=> Bare(j))

\* Nothing is reported that no active, marked declaration asks for.
NoFalseFinding ==
  \A j \in flagged : Bare(j) /\ \E i \in 1..j : Declares(i, visited[j].type)

\* The lint's doc: a comment at "every place that constructs the type", which
\* the field's doc has visited after the struct.  Violated: a body above the
\* struct is visited before it.
EveryConstructionSite ==
  done => \A i, j \in DOMAIN visited :
            Declares(i, visited[j].type) /\ visited[j].kind = "literal"
              /\ visited[j].named /\ Bare(j) => j \in flagged

=============================================================================
