------------------------------ MODULE UnsafeScope ------------------------------
(***************************************************************************)
(* The unsafe_scope lint over the body of a function: every block the HIR  *)
(* traversal meets is judged on its own.  A body is a tree of expressions, *)
(* a function from their positions (sequences of child indices, the code's *)
(* HirIds) to their kinds, those the lint tells apart after type checking. *)
(* A block's children are its statements and its tail.  What the code      *)
(* computes on its way down the tree is defined here by the path it takes. *)
(***************************************************************************)
EXTENDS Naturals, FiniteSets, SequencesExt, LintLevels

CONSTANT Bodies   \* the bodies to judge

\* LeafFinder::classify.  pcall calls its first child, an unsafe function
\* pointer; ucall names its callee and has arguments only.
Unsafe == {"draw",      \* dereference of a raw pointer
           "ucall",     \* call to unsafe function or method
           "pcall",     \* call through unsafe function pointer
           "smut",      \* access to static mut
           "ufield",    \* access to union field
           "asm"}       \* inline assembly

\* BlockCheckMode: {}, unsafe {}, and the compiler's own unsafe {}.
Block == {"block", "unsafe", "gen"}

\* A value is a literal, a const or a static.
Atom == {"local", "value", "smut"}

\* Layers of a place: a field, a reference taken, a reference dereferenced.
Layer == {"field", "ufield", "addr", "dref"}

\* dover dereferences what is neither a reference nor a raw pointer.
Computing == {"scall", "dover", "other", "let"}

Kind == Atom \cup Layer \cup Unsafe \cup Block \cup Computing \cup {"assign"}

Children(b, p) == {q \in DOMAIN b : Len(q) = Len(p) + 1 /\ IsPrefix(p, q)}

\* assign is = and op=, the target first.
IsTree(b) ==
  /\ DOMAIN b \subseteq Seq(Nat \ {0}) /\ IsFiniteSet(DOMAIN b)
  /\ \A p \in DOMAIN b : \A n \in 0 .. Len(p) : SubSeq(p, 1, n) \in DOMAIN b
  /\ \A p \in DOMAIN b :
       /\ b[p] \in Kind
       /\ b[p] \in Atom => Children(b, p) = {}
       /\ b[p] \in Layer \cup {"draw", "dover"} => Children(b, p) = {Append(p, 1)}
       /\ b[p] = "assign" => Children(b, p) = {Append(p, 1), Append(p, 2)}

ASSUME BodiesAssumption == \A b \in Bodies : IsTree(b)

VARIABLES
  body,      \* the body being linted
  todo,      \* positions of the blocks not yet visited
  active,    \* positions of the blocks visited where the lint is active
  flagged    \* positions of the blocks reported

vars == <<body, todo, active, flagged>>

-----------------------------------------------------------------------------

Nodes == DOMAIN body

Sub(e) == Children(body, e)

\* contains_leaf: p is e, or e is one of p's ancestors.
Within(p, e) == IsPrefix(e, p)

\* The expressions passed on the way from e down to p, p excluded.
Path(e, p) == {q \in Nodes \ {p} : Within(q, e) /\ Within(p, q)}

\* The unsafe operations that the enclosing block is there for: what an inner
\* unsafe block holds does not count.
leaves(e) ==
  {p \in Nodes : /\ Within(p, e) /\ body[p] \in Unsafe
                 /\ \A q \in Path(e, p) : body[q] \notin {"unsafe", "gen"}}

is_binding_place(e) ==
  \E p \in Nodes : /\ Within(p, e) /\ body[p] = "local"
                   /\ \A q \in Path(e, p) : body[q] \in Layer

\* A static mut is a static.
is_pure_read(e) == body[e] \in {"value", "smut"} \/ is_binding_place(e)

\* Mutant: an assignment's operation is always looked for in its target.
unwrap_target(e, p) ==
  \A q \in Path(e, p) :
    \/ body[q] \in Layer
    \/ /\ body[q] = "assign" /\ Within(p, Append(q, 1))
       /\ \A r \in Sub(q) : ~ Within(p, r) => is_pure_read(r)

\* The way down to the operation at p leads through place layers and
\* assignments whose other side is a plain read.
unwrap_to_leaf(e, p) ==
  \A q \in Path(e, p) :
    \/ body[q] \in Layer
    \/ /\ body[q] = "assign"
       /\ \A r \in Sub(q) : ~ Within(p, r) => is_pure_read(r)

\* Mutant: the arguments of a call are not looked at.
NoArguments(leaf) == {e \in Sub(leaf) : body[leaf] \in {"draw", "ufield"}}

\* The callee of a call is no operand; neither is what asm! reads.
operands(leaf) ==
  {e \in Sub(leaf) : \/ body[leaf] \in {"draw", "ufield", "ucall"}
                     \/ body[leaf] = "pcall" /\ e # Append(leaf, 1)}

check_leaf_operands(leaf) == \A e \in operands(leaf) : is_pure_read(e)

\* TRUE where the code leaves no note.
check_body_expr(e) ==
  \/ body[e] \in Block
  \/ leaves(e) = {} /\ is_pure_read(e)
  \/ /\ Cardinality(leaves(e)) = 1
     /\ \A p \in leaves(e) : unwrap_to_leaf(e, p) /\ check_leaf_operands(p)

\* The operations of a block's statements and tail, taken together.
Needed(b) == \E e \in Sub(b) : leaves(e) # {}

Offends(b) ==
  /\ body[b] = "unsafe" /\ Needed(b)
  /\ \E e \in Sub(b) : body[e] = "let" \/ ~ check_body_expr(e)

-----------------------------------------------------------------------------

Blocks == {p \in Nodes : body[p] \in Block}

Init ==
  /\ body \in Bodies
  /\ todo = Blocks
  /\ active = {} /\ flagged = {}

Visit(p) == todo' = todo \ {p} /\ UNCHANGED body

Skip(p, level) ==
  /\ Visit(p)
  /\ ~ is_active(level)
  /\ UNCHANGED <<active, flagged>>

\* Mutant: the level is not consulted.
check_expr_everywhere(p, level) ==
  /\ Visit(p)
  /\ active' = active \cup {q \in {p} : is_active(level)}
  /\ flagged' = flagged \cup {q \in {p} : Offends(q)}

check_expr(p, level) ==
  /\ Visit(p)
  /\ is_active(level)
  /\ active' = active \cup {p}
  /\ flagged' = flagged \cup {q \in {p} : Offends(q)}

Next ==
  \/ \E p \in todo, level \in Level : Skip(p, level) \/ check_expr(p, level)
  \/ todo = {} /\ UNCHANGED vars

Spec == Init /\ [][Next]_vars

-----------------------------------------------------------------------------

\* Positions of blocks throughout, a block visited or to be visited; the lint
\* reports only where it is active.
TypeOK ==
  /\ todo \subseteq Blocks /\ active \subseteq Blocks \ todo
  /\ flagged \subseteq active

\* An inner block is judged on its own, and the lint looks neither into asm!
\* nor into the callee of a pcall.
Hides(q, p) ==
  \/ body[q] \in Block \cup {"asm"}
  \/ body[q] = "pcall" /\ Within(p, Append(q, 1))

\* What an expression does itself, by kinds.
Does(e) ==
  {body[p] : p \in {n \in Nodes : Within(n, e) /\ \A q \in Path(e, n) : ~ Hides(q, n)}}

\* The unsafe blocks the lint approves of, with an operation that needs them.
Approved == {p \in active \ flagged : body[p] = "unsafe" /\ Needed(p)}

\* Nothing hides in an approved block: a statement that is no block does at
\* most one unsafe operation and computes nothing, however the operation is
\* wrapped, assigned or passed on.
NothingHidden ==
  \A b \in Approved : \A e \in Sub(b) :
    body[e] \notin Block =>
      Cardinality(leaves(e)) <= 1 /\ Does(e) \cap (Computing \cup Block) = {}

\* An assignment that no unsafe operation is part of.
IdleAssign(e) ==
  \E p \in Nodes : Within(p, e) /\ body[p] = "assign" /\ leaves(p) = {}

\* A field or a reference of a value, which is no binding.
WrappedValue(e) ==
  \E p \in Nodes : /\ Within(p, e) /\ body[p] \in Layer \ {"ufield"}
                   /\ \E q \in Sub(p) : body[q] = "value"

\* A report names something to hoist: a computation, a second operation or a
\* block inside a statement, an assignment that needs no unsafe, or a
\* reference to, or field of, a value.
NoFalseAlarm ==
  \A b \in flagged : \E e \in Sub(b) :
    /\ body[e] \notin Block
    /\ \/ Does(e) \cap (Computing \cup Block) # {}
       \/ Cardinality(leaves(e)) > 1
       \/ IdleAssign(e) \/ WrappedValue(e)

\* check_body_expr's comment: an inner block is "covered by its own check_expr
\* invocation".  Violated: that looks at unsafe blocks only, so a computation
\* in a plain block of an unsafe block is nobody's.
InnerBlocksCovered ==
  todo = {} =>
    \A b \in Approved : \A e \in Sub(b) :
      body[e] \in Block /\ e \in active \ flagged =>
        \A s \in Sub(e) : Does(s) \cap Computing = {}

=============================================================================
