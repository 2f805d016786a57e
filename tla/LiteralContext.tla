----------------------------- MODULE LiteralContext -----------------------------
(***************************************************************************)
(* Where a literal stands.  lint-inline-literal walks from a literal to    *)
(* the nodes that enclose it, nearest first; each of its walks passes some *)
(* kinds of node and stops at the first other one, which decides.  An      *)
(* ancestor here is one such node:                                         *)
(*   node    the kind of HIR node, an expression by its ExprKind           *)
(*   at      the child of it the walk comes from                           *)
(*   name    operator, callee, method, field owner or item kind            *)
(*   macros  the macros in the backtrace of its span                       *)
(* The callee of a call is the last segment of a resolved path, "" for one *)
(* relative to a type; "core::Err" and "RangeInclusiveNew" are the two the *)
(* code identifies by definition.  "Range" is RangeFrom too.               *)
(***************************************************************************)
EXTENDS Naturals, Sequences

CONSTANT Names   \* of operators, methods, functions, macros and items

\* Most nodes have none.
ASSUME NamesAssumption == "" \in Names

ExprKinds ==
  {"Cast", "Unary", "Binary", "AssignOp", "Call", "MethodCall", "Struct", "Closure",
   "BlockExpr", "OtherExpr"}
NodeKinds ==
  ExprKinds \cup {"ExprField", "LetStmt", "Stmt", "Block", "AnonConst", "Ty", "Item",
                  "TraitItem", "ImplItem", "Variant", "Other"}

Ancestor ==
  [node : NodeKinds,
   at : {"", "lhs", "rhs", "callee", "recv", "first", "arg", "start", "field", "init", "else"},
   name : Names, macros : SUBSET Names]

\* Where a walk that passes the kinds in passed stops: one position, or none
\* when the ancestors run out.
Stop(chain, passed) ==
  {i \in DOMAIN chain : /\ chain[i].node \notin passed
                        /\ \A j \in 1..(i - 1) : chain[j].node \in passed}

-----------------------------------------------------------------------------
\* Naming sites: const and static initializers, explicit discriminants.

\* Mutant: the constants of impl blocks are forgotten.
NamingSiteOfItems(a) ==
  \/ a.node = "Item" /\ a.name \in {"Const", "Static"}
  \/ a.node = "TraitItem" /\ a.name = "Const"
  \/ a.node = "Variant" /\ a.name = "discriminant"

NamingSite(a) ==
  \/ a.node = "Item" /\ a.name \in {"Const", "Static"}
  \/ a.node \in {"TraitItem", "ImplItem"} /\ a.name = "Const"
  \/ a.node = "Variant" /\ a.name = "discriminant"

in_const_context(chain) ==
  \E i \in Stop(chain, ExprKinds \cup {"AnonConst", "Stmt", "Block", "Ty"}) :
    NamingSite(chain[i])

-----------------------------------------------------------------------------
\* Message positions.  The lists of names are cut to one or two of a kind.

MESSAGE_MACROS == {"println", "error"}
MessageMethods == {"expect", "context", "with_context"}

\* The lazy closure of with_context: at most eight steps.
InLazyContext(chain) ==
  \E i \in Stop(chain, {"Closure", "Block"}) :
    /\ i <= 8
    /\ chain[i].node = "MethodCall" /\ chain[i].name = "with_context"
    /\ chain[i].at \in {"first", "arg"}

\* The expression at a is an expansion of, or a call to, something registered.
CallsRegistered(a, registered) ==
  /\ a.node \in ExprKinds
  /\ \/ a.macros \cap registered # {}
     \/ a.node \in {"Call", "MethodCall"} /\ a.name \in registered

in_message_position(chain, registered) ==
  \/ /\ chain # <<>>
     /\ chain[1].node = "MethodCall" /\ chain[1].name \in MessageMethods
     /\ chain[1].at \in {"first", "arg"}
  \/ InLazyContext(chain)
  \/ \E i \in DOMAIN chain :
       \/ chain[i].node \in ExprKinds /\ chain[i].macros \cap MESSAGE_MACROS # {}
       \/ CallsRegistered(chain[i], registered)
       \/ chain[i].node = "Call" /\ chain[i].name = "core::Err"

-----------------------------------------------------------------------------
\* Trivial numerics: the shape of the first enclosing operator.

AdditionFamily == {"fetch_add", "wrapping_sub", "rotate_left", "rem_euclid"}

AddSub(a) ==
  \/ a.node = "Unary" /\ a.name = "-"
  \/ a.node = "Binary" /\ a.name \in {"+", "-"}
  \/ a.node = "AssignOp" /\ a.at = "rhs" /\ a.name \in {"+", "-"}
  \/ a.node = "MethodCall" /\ a.at = "first" /\ a.name \in AdditionFamily

MulDiv(a) ==
  \/ a.node = "Binary" /\ a.name \in {"*", "/"}
  \/ a.node = "AssignOp" /\ a.at = "rhs" /\ a.name \in {"*", "/"}

Comparison(a) == a.node = "Binary" /\ a.name \in {"==", "<"}

RangeStart(a) ==
  \/ a.node = "Call" /\ a.at = "first" /\ a.name = "RangeInclusiveNew"
  \/ a.node = "Struct" /\ a.at = "start" /\ a.name = "Range"

CallArg(a) ==
  \/ a.node = "Call" /\ a.at \in {"first", "arg"} /\ ~ RangeStart(a)
  \/ a.node = "MethodCall" /\ a.at \in {"recv", "first", "arg"} /\ ~ AddSub(a)

StructFieldZero(a) == a.node = "Struct" /\ a.at \in {"start", "field"} /\ ~ RangeStart(a)

LetInit(a) == a.node = "LetStmt" /\ a.at = "init"

\* Mutant: casts are not looked through.
TransparentFields == {"ExprField"}

\* The nodes trivial_shape_full looks through.
Transparent == {"Cast", "ExprField"}

\* Mutant: bounds, range starts and bindings may have any value.
trivial_binding(chain, value) ==
  \E i \in Stop(chain, Transparent) :
    \/ AddSub(chain[i]) /\ value = "1"
    \/ MulDiv(chain[i]) /\ value = "2"
    \/ RangeStart(chain[i]) \/ Comparison(chain[i]) \/ LetInit(chain[i])

\* A number is a value as written; floats compare by value, so "1" is 1.0 too.
trivial_float(chain, value) ==
  \E i \in Stop(chain, Transparent) :
    \/ AddSub(chain[i]) /\ value = "1"
    \/ MulDiv(chain[i]) /\ value = "2"
    \/ /\ RangeStart(chain[i]) \/ Comparison(chain[i]) \/ LetInit(chain[i])
       /\ value \in {"0", "1"}

trivial_int(chain, value) ==
  \/ trivial_float(chain, value)
  \/ \E i \in Stop(chain, Transparent) :
       (CallArg(chain[i]) \/ StructFieldZero(chain[i])) /\ value = "0"

=============================================================================
