------------------------------ MODULE PolicyGate ------------------------------
(***************************************************************************)
(* What the lint policy promises a project: a build passes only after each *)
(* of its compilations was linted and none showed what the policy denies.  *)
(* It may fail at any time, for reasons that are not the policy's.         *)
(***************************************************************************)
CONSTANT Compilations   \* of the project's own packages

VARIABLES
  linted,    \* compilations the lints have looked at
  denied,    \* those that showed a denied finding
  verdict

gate_vars == <<linted, denied, verdict>>

Init == linted = {} /\ denied = {} /\ verdict = "open"

\* One compilation is linted, with what it shows.
Lint(c) ==
  /\ verdict = "open" /\ c \notin linted
  /\ linted' = linted \cup {c}
  /\ denied' \in {denied, denied \cup {c}}
  /\ UNCHANGED verdict

Pass ==
  /\ verdict = "open" /\ linted = Compilations /\ denied = {}
  /\ verdict' = "passed"
  /\ UNCHANGED <<linted, denied>>

Fail ==
  /\ verdict = "open"
  /\ verdict' = "failed"
  /\ UNCHANGED <<linted, denied>>

Next == (\E c \in Compilations : Lint(c)) \/ Pass \/ Fail

Spec == Init /\ [][Next]_gate_vars

\* What a project may rely on: what passed was linted, all of it, and showed
\* nothing denied.
Promise == verdict = "passed" => linted = Compilations /\ denied = {}

=============================================================================
