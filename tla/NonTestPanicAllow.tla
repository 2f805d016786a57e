--------------------------- MODULE NonTestPanicAllow ---------------------------
(***************************************************************************)
(* The non_test_panic_allow pass on one attribute of one compilation.  A   *)
(* lint attribute is its name and the paths in its list, a path being its  *)
(* segments; an item of the list that is no path is left out, as the code  *)
(* skips it.                                                               *)
(***************************************************************************)
EXTENDS Naturals, Sequences, LintLevels

CONSTANT Paths   \* lint paths attributes may name

ASSUME PathsAssumption == Paths \subseteq Seq(STRING)

LintAttribute == [name : {"allow", "expect", "warn"}, items : SUBSET Paths]

\* panic or unwrap_used, alone or right below clippy
PanicPolicy(path) ==
  /\ path # <<>> /\ path[Len(path)] \in {"panic", "unwrap_used"}
  /\ Len(path) = 1 \/ path[Len(path) - 1] = "clippy"

\* Mutant: expect is no exemption.
check_attribute_allow(level, is_test_crate, attr) ==
  /\ is_active(level) /\ ~ is_test_crate
  /\ attr.name = "allow"
  /\ \E path \in attr.items : PanicPolicy(path)

\* Mutant: a test build is linted as well.
check_attribute_tests(level, is_test_crate, attr) ==
  /\ is_active(level)
  /\ attr.name \in {"allow", "expect"}
  /\ \E path \in attr.items : PanicPolicy(path)

\* Whether the attribute is reported.
check_attribute(level, is_test_crate, attr) ==
  /\ is_active(level) /\ ~ is_test_crate
  /\ attr.name \in {"allow", "expect"}
  /\ \E path \in attr.items : PanicPolicy(path)

=============================================================================
