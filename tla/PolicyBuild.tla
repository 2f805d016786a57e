------------------------------ MODULE PolicyBuild ------------------------------
(***************************************************************************)
(* A build under the lint policy: cargo asks the driver for the target's   *)
(* properties, then runs one driver per compilation, as many at a time as  *)
(* dependencies allow, and starts no more after one has failed.  Each      *)
(* package of the project is compiled for itself and for its tests; a      *)
(* dependency once, with --cap-lints allow.  A driver exits with 101 when  *)
(* its compilation has an error, and a denied lint is one.                 *)
(***************************************************************************)
EXTENDS Naturals, Driver, NonTestPanicAllow

CONSTANTS
  Members,       \* packages of the project
  Dependencies,  \* other packages, compiled before every member
  DeniedLints,   \* -D in the policy's RUSTFLAGS; the others stay at warn
  Setups,        \* how cargo is told about the driver, and the compiler's state
  Sources        \* the lint attributes the packages may contain

Package == Members \cup Dependencies

\* What stands in the source: an attribute, where it is compiled, and the level
\* an enclosing attribute gives non_test_panic_allow there ("flag" for none).
Site ==
  [attr : LintAttribute, when : {"always", "test", "not test"},
   override : {"flag"} \cup Level]

Setup ==
  [wrapper_env : BOOLEAN,
   front : {<<"rustc">>, <<"clippy-driver", "rustc">>, <<"rustc.exe">>},
   compiler : {"works", "fails", "missing", "killed"}]

ASSUME BuildAssumption ==
  /\ Members \cap Dependencies = {}
  /\ DeniedLints \subseteq {register_lints[i] : i \in 1..6}
  /\ "non_test_panic_allow" \in DeniedLints
  /\ Setups \subseteq Setup
  /\ Sources \subseteq [Package -> SUBSET Site]

\* cargo check --all-targets
Unit == [package : Members, test : BOOLEAN] \cup [package : Dependencies, test : {FALSE}]
OwnUnit == {u \in Unit : u.package \in Members}

VARIABLES
  setup, source,
  stage,     \* cargo: "probe", "building", "passed", "failed"
  proc,      \* each driver: "idle", "main", "compiling", "exited"
  code,      \* exit codes, 0 before exit
  linted,    \* history: the units the passes ran on
  findings   \* history: the lints that reported at deny in each unit

vars == <<setup, source, stage, proc, code, linted, findings>>

Init ==
  /\ setup \in Setups /\ source \in Sources
  /\ stage = "probe"
  /\ proc = [u \in Unit |-> "idle"]
  /\ code = [u \in Unit |-> 0]
  /\ linted = {}
  /\ findings = [u \in Unit |-> {}]

-----------------------------------------------------------------------------
\* A workspace wrapper stands in front of the compiler for members only; a
\* probe is made the way members are compiled.
invocation(u) ==
  [wrapper_env |-> setup.wrapper_env, probe |-> FALSE,
   front |-> IF u.package \in Members THEN setup.front ELSE <<setup.front[Len(setup.front)]>>]
probe_invocation == [wrapper_env |-> setup.wrapper_env, probe |-> TRUE, front |-> setup.front]

\* Mutant: a compiler that cannot be started is waited for.
ProbeWaits ==
  /\ stage = "probe"
  /\ IF delegates(probe_invocation) /\ setup.compiler = "missing"
     THEN UNCHANGED stage
     ELSE stage' = IF delegates(probe_invocation) /\ probe_exit(setup.compiler) = 0
                   THEN "building" ELSE "failed"
  /\ UNCHANGED <<setup, source, proc, code, linted, findings>>

\* cargo's probe, and main's delegation of it.
Probe ==
  /\ stage = "probe"
  /\ stage' = IF delegates(probe_invocation) /\ probe_exit(setup.compiler) = 0
              THEN "building" ELSE "failed"
  /\ UNCHANGED <<setup, source, proc, code, linted, findings>>

Failed(u) == proc[u] = "exited" /\ code[u] # 0

Launch(u) ==
  /\ stage = "building" /\ proc[u] = "idle"
  /\ \A v \in Unit : ~ Failed(v)
  /\ u.package \in Members =>
       \A v \in Unit : v.package \in Dependencies => proc[v] = "exited"
  /\ proc' = [proc EXCEPT ![u] = "main"]
  /\ UNCHANGED <<setup, source, stage, code, linted, findings>>

\* Mutant: the status is known before the process has ended.
ExitEarly(u, status) ==
  /\ proc' = [proc EXCEPT ![u] = "compiling"]
  /\ code' = [code EXCEPT ![u] = status]

Exit(u, status) ==
  /\ proc' = [proc EXCEPT ![u] = "exited"]
  /\ code' = [code EXCEPT ![u] = status]

\* main up to run_compiler, or to the exit of what never gets there.
main(u) ==
  /\ proc[u] = "main"
  /\ \/ /\ delegates(invocation(u)) \/ refuses(invocation(u))
        /\ Exit(u, IF delegates(invocation(u)) THEN probe_exit(setup.compiler) ELSE 101)
     \/ /\ ~ delegates(invocation(u)) /\ ~ refuses(invocation(u))
        /\ proc' = [proc EXCEPT ![u] = "compiling"]
        /\ UNCHANGED code
  /\ UNCHANGED <<setup, source, stage, linted, findings>>

\* --cap-lints allow, an attribute in the source, the flag
level(u, site) ==
  IF u.package \in Dependencies THEN "allow"
  ELSE IF site.override = "flag" THEN "deny" ELSE site.override

compiled(u, site) == site.when = "always" \/ (site.when = "test" <=> u.test)

\* What non_test_panic_allow reports at deny.
PanicAllows(u) ==
  {s \in source[u.package] : /\ compiled(u, s) /\ level(u, s) = "deny"
                             /\ check_attribute(level(u, s), u.test, s.attr)}

\* catch_fatal_errors: an error of the compilation, and a denied lint is one.
exit_code(ok, reported) == IF ok /\ reported = {} THEN 0 ELSE 101

\* run_compiler: lints run on what type-checks; the other passes report what
\* they find, capped in dependencies.  The passes may have run and the
\* compilation still have an error that is none of DeniedLints' (~ ok): rustc's
\* own late lints deny some things by default, an attribute in the source may
\* deny what the policy only warns about, and not every error comes before lints.
run_compiler(u) ==
  /\ proc[u] = "compiling"
  /\ \/ Exit(u, exit_code(FALSE, {})) /\ UNCHANGED <<linted, findings>>
     \/ \E ok \in BOOLEAN, others \in SUBSET (DeniedLints \ {"non_test_panic_allow"}) :
          LET reported == others \cup {l \in {"non_test_panic_allow"} : PanicAllows(u) # {}}
          IN /\ u.package \in Dependencies => others = {}
             /\ linted' = linted \cup {u}
             /\ findings' = [findings EXCEPT ![u] = reported]
             /\ Exit(u, exit_code(ok, reported))
  /\ UNCHANGED <<setup, source, stage>>

\* cargo waits for the drivers it has started.
Finish ==
  /\ stage = "building"
  /\ \A u \in Unit : proc[u] \in {"idle", "exited"}
  /\ \/ (\E u \in Unit : Failed(u)) /\ stage' = "failed"
     \/ (\A u \in Unit : proc[u] = "exited" /\ ~ Failed(u)) /\ stage' = "passed"
  /\ UNCHANGED <<setup, source, proc, code, linted, findings>>

Over == stage \in {"passed", "failed"}

Next ==
  \/ Probe \/ Finish
  \/ \E u \in Unit : Launch(u) \/ main(u) \/ run_compiler(u)
  \/ Over /\ UNCHANGED vars

\* cargo and every driver it runs make progress; what the compiler is asked to
\* do ends, the probe included.
Spec == Init /\ [][Next]_vars /\ WF_vars(Next)

-----------------------------------------------------------------------------

TypeOK ==
  /\ setup \in Setup /\ source \in [Package -> SUBSET Site]
  /\ stage \in {"probe", "building", "passed", "failed"}
  /\ proc \in [Unit -> {"idle", "main", "compiling", "exited"}]
  /\ code \in [Unit -> {0, 1, 101}]
  /\ linted \subseteq Unit
  /\ findings \in [Unit -> SUBSET DeniedLints]
  /\ \A u \in Unit : proc[u] # "exited" => u \notin linted /\ code[u] = 0

\* The build is a policy gate: however cargo was told about the driver and in
\* whatever order the drivers ran, it passes only after the lints ran on every
\* compilation of every member and none reported at deny.
Gate == INSTANCE PolicyGate WITH
  Compilations <- OwnUnit, linted <- linted \cap OwnUnit,
  denied <- {u \in OwnUnit : findings[u] # {}},
  verdict <- IF Over THEN stage ELSE "open"
GateSpec == Gate!Spec

\* An attribute that exempts code from the panic policy.
Exempts(attr) ==
  /\ attr.name \in {"allow", "expect"}
  /\ attr.items \cap {<<"panic">>, <<"clippy", "panic">>, <<"clippy", "unwrap_used">>} # {}

\* Linting the test compilations less strictly lets no exemption into the
\* code that ships: one that stands outside test code, with the lint denied
\* there, fails the build.
NoExemptionShips ==
  stage = "passed" =>
    \A p \in Members : \A s \in source[p] :
      Exempts(s.attr) /\ s.when # "test" => s.override \in {"allow", "expect", "warn"}

\* Nobody is blamed for what is sanctioned: non_test_panic_allow reports at
\* deny only a member's own compilation without tests, for an exemption that
\* stands outside test code where no attribute lowers the lint; and no lint ever
\* runs in a driver cargo did not call as RUSTC_WRAPPER with the compiler's path
\* in front, whatever else fails the compilation.
BlameDeserved ==
  \A u \in Unit :
    /\ "non_test_panic_allow" \in findings[u] =>
         /\ u.package \in Members /\ ~ u.test
         /\ \E s \in source[u.package] :
              /\ s.attr.name \in {"allow", "expect"} /\ s.when # "test"
              /\ s.override \in {"flag", "deny"}
              /\ \E path \in s.attr.items : PanicPolicy(path)
    /\ u \in linted =>
         /\ setup.wrapper_env /\ setup.compiler = "works"
         /\ u.package \in Members => setup.front = <<"rustc">>

\* Every build comes to a verdict: after a probe the compiler answers, refuses
\* or cannot be started for, and in whatever order drivers end.  A compiler that
\* never returns is assumed away by the fairness of Spec; main waits for it
\* without a time limit.
BuildEnds == <>Over

=============================================================================
