-------------------------------- MODULE Driver --------------------------------
(***************************************************************************)
(* main of servyi-lint: what the driver makes of its arguments.  An        *)
(* invocation is whether RUSTC_WRAPPER is in its environment, the program  *)
(* names in front of the compiler's own arguments, and whether the probe   *)
(* flag is among those.                                                    *)
(***************************************************************************)
EXTENDS Sequences

\* The passes config registers, in order.
register_lints ==
  <<"custom_parser", "inline_literal", "non_test_panic_allow", "unsafe_scope",
    "unsound_constructor", "workspace_lints_table">>

is_compiler(name) == name \in {"rustc", "clippy-driver"}

\* The first argument is taken off as the compiler's path.
has_rustc_path(inv) == inv.wrapper_env /\ inv.front # <<>> /\ is_compiler(Head(inv.front))

args(inv) == IF has_rustc_path(inv) THEN Tail(inv.front) ELSE inv.front

\* Mutant: every call that names a compiler goes to that compiler.
hands_over(inv) == has_rustc_path(inv)

\* A probe goes to the wrapped compiler, without the lints.
delegates(inv) == has_rustc_path(inv) /\ inv.probe

\* run_compiler takes what is left in front for an input file, and refuses a
\* second one.
refuses(inv) == ~ delegates(inv) /\ args(inv) # <<>>

\* The exit code of a delegated probe: the compiler's own, or the driver's when
\* it cannot be started or dies of a signal.
PROBE_DELEGATION_EXIT == 101
probe_exit(compiler) ==
  CASE compiler = "works"   -> 0
    [] compiler = "fails"   -> 1
    [] compiler = "missing" -> PROBE_DELEGATION_EXIT
    [] compiler = "killed"  -> PROBE_DELEGATION_EXIT

=============================================================================
