----------------------------- MODULE InlineLiteral -----------------------------
(***************************************************************************)
(* The inline_literal pass over one crate.  check_crate runs first and     *)
(* collects, from the whole crate, the message names its register_message! *)
(* markers declare and the source ranges of its attributes; then the HIR   *)
(* traversal visits constants and literals in source order, and each       *)
(* literal is judged by what encloses it and by those two lists.           *)
(***************************************************************************)
EXTENDS LiteralContext, LintLevels

CONSTANTS
  Crates,     \* the crates that may be linted
  NoAttribute \* where a literal stands that no attribute carries

\* A free constant item: a marker of register_message!, or one that falls
\* short of the form (another tag, another shape, an associated constant).
Marker == [kind : {"marker"}, name : Names, wellformed : BOOLEAN]

\* An attribute with tokens: the node it is on, and how the compiler keeps it.
Attribute ==
  [kind : {"attribute"},
   owner : {"Item", "ForeignItem", "Variant", "NamedField", "TupleField", "ImplItem",
            "TraitItem", "Other"},
   class : {"unparsed", "doc", "parsed"}]

\* span: the literal's own text, a foreign macro's expansion, an identifier
\* the span was borrowed from; within: the attribute whose source holds it.
\* A nested string has another string literal in it.
Literal ==
  [kind : {"literal"}, level : Level, lit : {"Bool", "Str", "Char", "Int", "Float"},
   value : {"0", "1", "2", "3", "empty", "plain", "nested", "any"},
   span : {"own", "foreign", "borrowed"}, within : Attribute \cup {NoAttribute},
   chain : Seq(Ancestor)]

\* A constant whose initializer is a literal: what its name says, if anything.
Constant ==
  [kind : {"constant"}, level : Level, ident : {"meaning", "number words", "own text"},
   lit : {"Bool", "Str", "Char", "Int", "Float"},
   value : {"0", "1", "2", "3", "empty", "plain", "nested", "any"}]

Node == Marker \cup Attribute \cup Constant \cup Literal

ASSUME NoAttributeAssumption == NoAttribute \notin Node
ASSUME CratesAssumption == Crates \subseteq [root : Level, nodes : Seq(Node)]

VARIABLES
  crate,        \* what is linted
  registered,   \* Pass::registered
  attr_ranges,  \* Pass::attr_ranges, an attribute standing for its range
  next,         \* node to visit; 0 before check_crate
  flagged       \* positions of the nodes reported

vars == <<crate, registered, attr_ranges, next, flagged>>

nodes == crate.nodes

Init ==
  /\ crate \in Crates
  /\ registered = {} /\ attr_ranges = {} /\ flagged = {}
  /\ next = 0

-----------------------------------------------------------------------------
\* MarkerCollector
marker_names ==
  {nodes[i].name : i \in {j \in DOMAIN nodes : nodes[j].kind = "marker" /\ nodes[j].wellformed}}

\* Mutant: attributes of variants are not looked at.
records_items(a) ==
  /\ a.owner \in {"Item", "ForeignItem", "NamedField", "ImplItem", "TraitItem"}
  /\ a.class # "parsed"

\* AttrRangeCollector: owners collect_item reaches, attributes record keeps.
records(a) ==
  /\ a.owner \in {"Item", "ForeignItem", "Variant", "NamedField", "ImplItem", "TraitItem"}
  /\ a.class # "parsed"

attribute_ranges ==
  {nodes[i] : i \in {j \in DOMAIN nodes : nodes[j].kind = "attribute" /\ records(nodes[j])}}

\* Mutant: the attributes are collected first, and nothing else.
check_crate_attributes ==
  /\ next = 0
  /\ next' = 1
  /\ attr_ranges' = IF is_active(crate.root) THEN attribute_ranges ELSE {}
  /\ UNCHANGED <<crate, registered, flagged>>

check_crate ==
  /\ next = 0
  /\ next' = 1
  /\ IF is_active(crate.root)
     THEN registered' = marker_names /\ attr_ranges' = attribute_ranges
     ELSE UNCHANGED <<registered, attr_ranges>>
  /\ UNCHANGED <<crate, flagged>>

-----------------------------------------------------------------------------
Visit(kind) ==
  /\ next \in DOMAIN nodes
  /\ nodes[next].kind = kind
  /\ next' = next + 1
  /\ UNCHANGED <<crate, registered, attr_ranges>>

\* Mutant: the report lands on the node after.
FlagNext(b) == flagged' = flagged \cup {i \in {next + 1} : b}

Flag(b) == flagged' = flagged \cup {i \in {next} : b}

\* is_number_name and name_is_string_value: an empty string has no key.
names_its_value(c) ==
  \/ c.lit \in {"Int", "Float"} /\ c.ident = "number words"
  \/ c.lit = "Str" /\ c.ident = "own text" /\ c.value # "empty"

\* check_item, check_trait_item and check_impl_item
check_value_named_const ==
  /\ Visit("constant")
  /\ Flag(is_active(nodes[next].level) /\ names_its_value(nodes[next]))

\* Mutant: the sanctioned positions are looked at before nested strings.
sanctioned_first(l) ==
  /\ l.value # "empty"
  /\ ~ in_const_context(l.chain) /\ ~ in_message_position(l.chain, registered)

\* The strings check_expr reports: Str, ByteStr and CStr.
string_reported(l) ==
  /\ l.value # "empty"
  /\ \/ l.value = "nested"
     \/ ~ in_const_context(l.chain) /\ ~ in_message_position(l.chain, registered)

\* The match on the literal's kind; Char is Byte as well, Bool is never reported.
verdict(l) ==
  \/ l.lit = "Str" /\ string_reported(l)
  \/ l.lit = "Char" /\ ~ in_const_context(l.chain)
  \/ l.lit = "Int" /\ ~ in_const_context(l.chain) /\ ~ trivial_int(l.chain, l.value)
  \/ l.lit = "Float" /\ ~ in_const_context(l.chain) /\ ~ trivial_float(l.chain, l.value)

\* in_foreign_expansion, span_is_synthetic and the attribute ranges come first.
check_expr ==
  /\ Visit("literal")
  /\ LET l == nodes[next]
     IN Flag(/\ is_active(l.level) /\ l.span = "own"
             /\ l.within \notin attr_ranges
             /\ verdict(l))

\* Markers and attributes are no literals; the pass leaves them alone.
Pass ==
  /\ Visit("marker") \/ Visit("attribute")
  /\ UNCHANGED flagged

Done == next = Len(nodes) + 1

Next ==
  \/ check_crate \/ check_value_named_const \/ check_expr \/ Pass
  \/ Done /\ UNCHANGED vars

Spec == Init /\ [][Next]_vars

-----------------------------------------------------------------------------

TypeOK ==
  /\ crate \in [root : Level, nodes : Seq(Node)]
  /\ registered \subseteq Names
  /\ attr_ranges \subseteq Attribute
  /\ next \in 0..(Len(nodes) + 1)
  /\ flagged \subseteq 1..(next - 1)

\* A literal the pass has visited, that the user wrote where the lint is on.
Judged(i) ==
  /\ i \in 1..(next - 1) /\ nodes[i].kind = "literal"
  /\ is_active(nodes[i].level) /\ nodes[i].span = "own"

Carried(i) ==
  \E j \in DOMAIN nodes : nodes[j] = nodes[i].within

\* The README: a message name is registered for the crate, wherever in it the
\* marker stands: a string an expansion of it or a call to it encloses is not
\* reported, even one visited before the marker.  (With the lint on at the root:
\* where the root allows it, check_crate collects nothing.)
RegistrationOrderIrrelevant ==
  \A i \in DOMAIN nodes : \A m \in DOMAIN nodes :
    /\ is_active(crate.root) /\ Judged(i) /\ nodes[i].lit = "Str" /\ nodes[i].value = "plain"
    /\ nodes[m].kind = "marker" /\ nodes[m].wellformed
    /\ \E k \in DOMAIN nodes[i].chain : CallsRegistered(nodes[i].chain[k], {nodes[m].name})
    => i \notin flagged

\* What an attribute of an item, member, variant or named field carries is
\* declaration data wherever a derive puts it, nested strings included.
AttributeDataSilent ==
  \A i \in DOMAIN nodes :
    /\ is_active(crate.root) /\ Judged(i) /\ Carried(i)
    /\ nodes[i].within.owner \notin {"TupleField", "Other"}
    /\ nodes[i].within.class # "parsed"
    => i \notin flagged

\* A string in a string is reported ANYWHERE: in messages, registered calls
\* and constants as well.
NestedStringsReported ==
  \A i \in DOMAIN nodes :
    Judged(i) /\ ~ Carried(i) /\ nodes[i].lit = "Str" /\ nodes[i].value = "nested"
      => i \in flagged

\* No operator, call, field or binding around it sanctions a number other
\* than 0, 1 and 2: only a constant or a discriminant does.
MagicNumbersReported ==
  \A i \in DOMAIN nodes :
    /\ Judged(i) /\ ~ Carried(i)
    /\ nodes[i].lit \in {"Int", "Float"} /\ nodes[i].value = "3"
    /\ \A k \in DOMAIN nodes[i].chain : ~ NamingSite(nodes[i].chain[k])
    => i \in flagged

Cast == [node |-> "Cast", at |-> "", name |-> "", macros |-> {}]

\* trivial_int's doc: casts on the literal's side are transparent.  Of the
\* same number in the same place with and without one, both or neither are
\* reported.
CastsTransparent ==
  \A i, j \in DOMAIN nodes :
    /\ Judged(i) /\ Judged(j) /\ nodes[i].lit \in {"Int", "Float"}
    /\ nodes[j] = [nodes[i] EXCEPT !.chain = <<Cast>> \o @]
    => (i \in flagged <=> j \in flagged)

\* Literal i is all there is to the right of a constant's equals sign.
Initializer(i) ==
  /\ nodes[i].kind = "literal" /\ Len(nodes[i].chain) = 1
  /\ nodes[i].chain[1].node \in {"Item", "TraitItem", "ImplItem"}
  /\ nodes[i].chain[1].name = "Const"

\* A constant is told once what is wrong with it: reported for its name, it is
\* not reported for its literal as well, unless that holds another string.
OneReportPerConstant ==
  \A i \in 2..Len(nodes) :
    Initializer(i) /\ nodes[i].value # "nested" /\ nodes[i - 1].kind = "constant"
      => i - 1 \notin flagged \/ i \notin flagged

\* The module doc: literals live in const and static initializers.  Violated:
\* a field of a struct in the initializer ends the walk to the constant.
NamingSitesExempt ==
  \A i \in DOMAIN nodes :
    /\ Judged(i) /\ nodes[i].value # "nested"
    /\ \E k \in DOMAIN nodes[i].chain :
         /\ NamingSite(nodes[i].chain[k])
         /\ \A j \in 1..(k - 1) : nodes[i].chain[j].node \in {"ExprField", "Struct"}
    => i \notin flagged

=============================================================================
