---------------------------- MODULE MCInlineLiteral ----------------------------
(***************************************************************************)
(* Crates for TLC.  A literal is enclosed by one or two of the segments    *)
(* below and by an owner; a segment is what one construct of the source    *)
(* becomes in the HIR.  Next to it stands at most one other node: a marker *)
(* or an attribute on either side of it, its constant, or its cast twin.   *)
(***************************************************************************)
EXTENDS InlineLiteral

N(node, at, name) == [node |-> node, at |-> at, name |-> name, macros |-> {}]
M(macro) == [node |-> "OtherExpr", at |-> "", name |-> "", macros |-> {macro}]

MCNames ==
  {"", "Const", "Static", "Fn", "discriminant", "Range", "Config", "RangeInclusiveNew",
   "core::Err", "+", "-", "*", "/", "<", "%", "fetch_add", "expect", "with_context",
   "println", "fail", "log_error", "status"}

Numeric ==
  {<<N("Unary", "", "-")>>, <<N("Binary", "rhs", "+")>>, <<N("Binary", "lhs", "*")>>,
   <<N("Binary", "rhs", "<")>>, <<N("Binary", "rhs", "%")>>,
   <<N("AssignOp", "rhs", "-")>>, <<N("AssignOp", "rhs", "/")>>,
   <<N("MethodCall", "first", "fetch_add")>>,
   <<N("Call", "first", "RangeInclusiveNew")>>,
   <<N("ExprField", "", ""), N("Struct", "start", "Range")>>}
Calls ==
  {<<N("Call", "first", "fail")>>, <<N("Call", "arg", "")>>, <<N("Call", "first", "core::Err")>>,
   <<N("MethodCall", "first", "expect")>>, <<N("MethodCall", "first", "with_context")>>,
   <<N("MethodCall", "first", "status")>>, <<M("println")>>, <<M("log_error")>>}
Other ==
  {<<N("ExprField", "", ""), N("Struct", "field", "Config")>>, <<N("Closure", "", "")>>,
   <<N("Block", "", ""), N("BlockExpr", "", "")>>, <<N("OtherExpr", "", "")>>,
   <<N("LetStmt", "init", ""), N("Stmt", "", ""), N("Block", "", ""), N("BlockExpr", "", "")>>,
   <<N("AnonConst", "", ""), N("Other", "", ""), N("OtherExpr", "", "")>>}

Fn == <<N("Block", "", ""), N("BlockExpr", "", ""), N("Item", "", "Fn")>>
Constants == {<<N("Item", "", "Const")>>, <<N("TraitItem", "", "Const")>>, <<N("ImplItem", "", "Const")>>}
Owners ==
  Constants \cup {Fn, <<N("Item", "", "Static")>>, <<N("AnonConst", "", ""), N("Variant", "", "discriminant")>>}

Around(segments) ==
  {s \o o : s \in segments, o \in Owners}
    \cup {s \o t \o o : s, t \in segments, o \in Owners}

Lit(lit, value, level, chain) ==
  [kind |-> "literal", level |-> level, lit |-> lit, value |-> value, span |-> "own",
   within |-> NoAttribute, chain |-> chain]

Texts == {"empty", "plain", "nested"}
Digits == {"0", "1", "2", "3"}

\* Literals on their own.
Words ==
  {Lit("Str", v, "warn", c) : v \in Texts, c \in Around(Calls \cup Other)}
    \cup {Lit(k, "any", "warn", c) : k \in {"Bool", "Char"}, c \in Around(Other)}
Numbers ==
  {Lit(k, v, "warn", c) : k \in {"Int", "Float"}, v \in Digits,
                          c \in Around(Numeric \cup Calls \cup Other \cup {<<Cast>>})}
Silent ==
  {[l EXCEPT !.level = v, !.span = s] :
     l \in {Lit("Str", "plain", "warn", Fn), Lit("Int", "3", "warn", Fn)},
     v \in {"allow", "expect", "deny"}, s \in {"own", "foreign", "borrowed"}}

\* A literal and a marker, or an attribute, in either order.
Messages == {Lit("Str", v, "warn", s \o t \o Fn) : v \in {"plain", "nested"}, s, t \in Calls}
Markers == {[kind |-> "marker", name |-> n, wellformed |-> b] :
              n \in {"fail", "log_error", "status"}, b \in BOOLEAN}
Carried2(a) == {[Lit(l[1], l[2], "warn", Fn) EXCEPT !.within = a] :
                  l \in {<<"Str", "plain">>, <<"Str", "nested">>, <<"Int", "3">>}}
Pairs ==
  {<<m, l>> : m \in Markers, l \in Messages} \cup {<<l, m>> : m \in Markers, l \in Messages}
    \cup UNION {{<<a, l>>, <<l, a>>} : <<a, l>> \in UNION {{a} \X Carried2(a) : a \in Attribute}}

\* A number and its twin under a cast.
Twins ==
  {<<Lit(k, v, "warn", s \o Fn), Lit(k, v, "warn", <<Cast>> \o s \o Fn)>> :
     k \in {"Int", "Float"}, v \in Digits, s \in Numeric \cup Calls \cup Other}

\* A constant and its initializer.
Declarations ==
  {<<[kind |-> "constant", level |-> v, ident |-> n, lit |-> l[1], value |-> l[2]],
     Lit(l[1], l[2], v, o)>> :
     v \in {"allow", "warn"}, n \in {"meaning", "number words", "own text"},
     l \in ({"Str"} \X Texts) \cup ({"Int", "Float"} \X Digits) \cup {<<"Char", "any">>},
     o \in Constants}

MCCrates ==
  [root : {"warn"}, nodes : {<<l>> : l \in Words \cup Numbers \cup Silent} \cup Twins \cup Declarations]
    \cup [root : {"allow", "warn"}, nodes : Pairs]

=============================================================================
