--------------------------- MODULE PolicyBuildProofs ---------------------------
(***************************************************************************)
(* The build is a policy gate for any packages, sources and denied lints,  *)
(* any way of configuring the wrapper, and any schedule of the drivers.    *)
(***************************************************************************)
EXTENDS PolicyBuild, TLAPS

\* A driver that ended well ran the lints and they found nothing; one that has
\* findings ended badly, and dependencies have none.
Outcomes ==
  \A u \in Unit :
    /\ proc[u] = "exited" /\ code[u] = 0 => u \in linted /\ findings[u] = {}
    /\ findings[u] # {} => u \in linted /\ u.package \in Members /\ code[u] # 0

\* non_test_panic_allow reported exactly where check_attribute does.
Reported ==
  \A u \in Unit :
    u \in linted => ("non_test_panic_allow" \in findings[u] <=> PanicAllows(u) # {})

\* cargo has no driver running before the probe's answer and after the verdict.
Settled ==
  /\ stage # "building" => \A u \in Unit : proc[u] \in {"idle", "exited"}
  /\ stage = "passed" => \A u \in Unit : proc[u] = "exited" /\ code[u] = 0

\* Lints run only in drivers cargo called as it should.
CalledAsWrapper ==
  \A u \in Unit :
    (u \in linted \/ proc[u] = "compiling") /\ u.package \in Members =>
      setup.front = <<"rustc">>

Configured ==
  /\ stage = "probe" => \A u \in Unit : proc[u] = "idle"
  /\ \A u \in Unit :
       proc[u] # "idle" => setup.wrapper_env /\ setup.compiler = "works"
  /\ CalledAsWrapper

IInv == TypeOK /\ Outcomes /\ Reported /\ Settled /\ Configured

USE BuildAssumption DEF BuildAssumption

LEMMA InitIInv == Init => IInv
<1> SUFFICES ASSUME Init PROVE IInv
  OBVIOUS
<1>1. TypeOK
  BY DEF Init, TypeOK
<1>2. Outcomes /\ Reported /\ Settled /\ Configured
  BY DEF Init, Outcomes, Reported, Settled, Configured, CalledAsWrapper
<1>3. QED
  BY <1>1, <1>2 DEF IInv

\* Sources do not change, nor what stands in them.
LEMMA SourcesKept ==
  ASSUME UNCHANGED <<setup, source>>
  PROVE  \A u : PanicAllows(u)' = PanicAllows(u)
BY DEF PanicAllows, level, compiled

LEMMA ProbeStep ==
  ASSUME IInv, Probe
  PROVE  IInv'
<1> USE DEF IInv
<1>1. UNCHANGED <<setup, source, proc, code, linted, findings>> /\ stage = "probe"
  BY DEF Probe
<1>2. stage' \in {"building", "failed"}
  BY DEF Probe
<1>3. TypeOK'
  BY <1>1, <1>2 DEF TypeOK
<1>4. Outcomes'
  BY <1>1 DEF Outcomes
<1>5. Reported'
  BY <1>1, SourcesKept DEF Reported
<1>6. Settled' /\ Configured'
  BY <1>1, <1>2 DEF Settled, Configured, CalledAsWrapper
<1>7. QED
  BY <1>3, <1>4, <1>5, <1>6

\* The probe is answered by a working compiler behind RUSTC_WRAPPER, or the
\* build is over.
ProbeAnswered ==
  stage = "building" => setup.wrapper_env /\ setup.compiler = "works"

LEMMA ProbeExits ==
  ASSUME NEW c \in {"works", "fails", "missing", "killed"}, probe_exit(c) = 0
  PROVE  c = "works"
BY DEF probe_exit, PROBE_DELEGATION_EXIT

LEMMA AnsweredInit == Init => ProbeAnswered
BY DEF Init, ProbeAnswered

LEMMA AnsweredNext == TypeOK /\ ProbeAnswered /\ [Next]_vars => ProbeAnswered'
<1> SUFFICES ASSUME TypeOK, ProbeAnswered, [Next]_vars PROVE ProbeAnswered'
  OBVIOUS
<1>1. CASE Probe
  <2> SUFFICES ASSUME stage' = "building"
               PROVE  setup.wrapper_env /\ setup.compiler = "works"
    BY <1>1 DEF Probe, ProbeAnswered
  <2>1. delegates(probe_invocation) /\ probe_exit(setup.compiler) = 0
    BY <1>1 DEF Probe
  <2>2. setup.compiler \in {"works", "fails", "missing", "killed"}
    BY DEF TypeOK, Setup
  <2>3. QED
    BY <2>1, <2>2, ProbeExits DEF delegates, has_rustc_path, probe_invocation
<1>2. CASE Finish \/ UNCHANGED vars \/ (Over /\ UNCHANGED vars)
  BY <1>2 DEF Finish, vars, ProbeAnswered
<1>3. CASE \E u \in Unit : Launch(u) \/ main(u) \/ run_compiler(u)
  BY <1>3 DEF Launch, main, run_compiler, ProbeAnswered
<1>4. QED
  BY <1>1, <1>2, <1>3 DEF Next

LEMMA LaunchStep ==
  ASSUME IInv, ProbeAnswered, NEW u \in Unit, Launch(u)
  PROVE  IInv'
<1> USE DEF IInv
<1>1. /\ UNCHANGED <<setup, source, stage, code, linted, findings>>
      /\ stage = "building" /\ proc[u] = "idle"
      /\ proc' = [proc EXCEPT ![u] = "main"]
  BY DEF Launch
<1>2. /\ proc'[u] = "main" /\ \A v \in Unit : v # u => proc'[v] = proc[v]
      /\ proc' \in [Unit -> {"idle", "main", "compiling", "exited"}]
  BY <1>1 DEF TypeOK
<1>3. TypeOK'
  BY <1>1, <1>2 DEF TypeOK
<1>4. Outcomes'
  BY <1>1, <1>2 DEF Outcomes
<1>5. Reported'
  BY <1>1, SourcesKept DEF Reported
<1>6. Settled' /\ Configured'
  BY <1>1, <1>2 DEF Settled, Configured, CalledAsWrapper, ProbeAnswered
<1>7. QED
  BY <1>3, <1>4, <1>5, <1>6

LEMMA MainStep ==
  ASSUME IInv, NEW u \in Unit, main(u)
  PROVE  IInv'
<1> USE DEF IInv
<1>1. /\ UNCHANGED <<setup, source, stage, linted, findings>>
      /\ proc[u] = "main" /\ stage = "building"
  BY DEF main, Settled
<1>2. ~ delegates(invocation(u))
  BY DEF delegates, invocation
<1>3. \/ /\ proc' = [proc EXCEPT ![u] = "exited"]
         /\ code' = [code EXCEPT ![u] = 101]
      \/ proc' = [proc EXCEPT ![u] = "compiling"] /\ code' = code
  BY <1>2 DEF main, Exit
<1>4. /\ \A v \in Unit : v # u => proc'[v] = proc[v] /\ code'[v] = code[v]
      /\ \/ proc'[u] = "exited" /\ code'[u] = 101
         \/ proc'[u] = "compiling" /\ code'[u] = code[u]
      /\ proc' \in [Unit -> {"idle", "main", "compiling", "exited"}]
      /\ code' \in [Unit -> {0, 1, 101}]
  <2>1. CASE /\ proc' = [proc EXCEPT ![u] = "exited"]
             /\ code' = [code EXCEPT ![u] = 101]
    BY <2>1 DEF TypeOK
  <2>2. CASE proc' = [proc EXCEPT ![u] = "compiling"] /\ code' = code
    BY <2>2 DEF TypeOK
  <2>3. QED
    BY <1>3, <2>1, <2>2
<1>5. u \notin linted /\ code[u] = 0
  BY <1>1 DEF TypeOK
<1>6. TypeOK'
  BY <1>1, <1>4, <1>5 DEF TypeOK
<1>7. Outcomes'
  BY <1>1, <1>4, <1>5 DEF Outcomes
<1>8. Reported'
  BY <1>1, SourcesKept DEF Reported
<1>9. Settled' /\ Configured'
  <2>1. proc'[u] = "compiling" /\ u.package \in Members => setup.front = <<"rustc">>
    <3> SUFFICES ASSUME proc'[u] = "compiling", u.package \in Members
                 PROVE  setup.front = <<"rustc">>
      OBVIOUS
    <3>1. args(invocation(u)) = <<>>
      BY <1>2, <1>4 DEF main, refuses, Exit, TypeOK
    <3>2. invocation(u).front = setup.front
      BY DEF invocation
    <3>3. setup.front \in {<<"rustc">>, <<"clippy-driver", "rustc">>, <<"rustc.exe">>}
      BY DEF TypeOK, Setup
    <3>4. CASE setup.front = <<"clippy-driver", "rustc">>
      BY <3>1, <3>2, <3>4 DEF args
    <3>5. CASE setup.front = <<"rustc.exe">>
      BY <3>1, <3>2, <3>5 DEF args, has_rustc_path, is_compiler
    <3>6. QED
      BY <3>3, <3>4, <3>5
  <2>2. QED
    BY <1>1, <1>4, <2>1 DEF Settled, Configured, CalledAsWrapper
<1>10. QED
  BY <1>6, <1>7, <1>8, <1>9

\* Dependencies are capped: nothing in them is active.
LEMMA DependenciesCapped ==
  ASSUME NEW u \in Unit, PanicAllows(u) # {}
  PROVE  u.package \in Members /\ ~ u.test
<1>1. PICK s : level(u, s) = "deny" /\ check_attribute(level(u, s), u.test, s.attr)
  BY DEF PanicAllows
<1>2. u.package \notin Dependencies /\ ~ u.test
  BY <1>1 DEF level, check_attribute
<1>3. u.package \in Members \cup Dependencies
  BY DEF Unit
<1>4. QED
  BY <1>2, <1>3

LEMMA CompilerStep ==
  ASSUME IInv, NEW u \in Unit, run_compiler(u)
  PROVE  IInv'
<1> USE DEF IInv
<1>1. /\ UNCHANGED <<setup, source, stage>>
      /\ proc[u] = "compiling" /\ stage = "building"
      /\ u \notin linted /\ code[u] = 0 /\ findings[u] = {}
  <2>1. UNCHANGED <<setup, source, stage>> /\ proc[u] = "compiling"
    BY DEF run_compiler
  <2>2. QED
    BY <2>1 DEF TypeOK, Settled, Outcomes
<1>2. CASE Exit(u, exit_code(FALSE, {})) /\ UNCHANGED <<linted, findings>>
  <2>1. /\ proc' = [proc EXCEPT ![u] = "exited"]
        /\ code' = [code EXCEPT ![u] = 101]
    BY <1>2 DEF Exit, exit_code
  <2>2. /\ \A v \in Unit : v # u => proc'[v] = proc[v] /\ code'[v] = code[v]
        /\ proc'[u] = "exited" /\ code'[u] = 101
        /\ proc' \in [Unit -> {"idle", "main", "compiling", "exited"}]
        /\ code' \in [Unit -> {0, 1, 101}]
    BY <2>1 DEF TypeOK
  <2>3. TypeOK'
    BY <1>1, <1>2, <2>2 DEF TypeOK
  <2>4. Outcomes'
    BY <1>1, <1>2, <2>2 DEF Outcomes
  <2>5. Reported'
    BY <1>1, <1>2, SourcesKept DEF Reported
  <2>6. Settled' /\ Configured'
    BY <1>1, <1>2, <2>2 DEF Settled, Configured, CalledAsWrapper
  <2>7. QED
    BY <2>3, <2>4, <2>5, <2>6
<1>3. ASSUME NEW ok \in BOOLEAN,
             NEW others \in SUBSET (DeniedLints \ {"non_test_panic_allow"}),
             NEW reported,
             reported = others \cup {l \in {"non_test_panic_allow"} : PanicAllows(u) # {}},
             u.package \in Dependencies => others = {},
             linted' = linted \cup {u},
             findings' = [findings EXCEPT ![u] = reported],
             Exit(u, exit_code(ok, reported))
      PROVE  IInv'
  <2>1. reported \in SUBSET DeniedLints
    BY <1>3
  <2>2. "non_test_panic_allow" \in reported <=> PanicAllows(u) # {}
    BY <1>3
  <2>3. reported # {} => u.package \in Members
    <3>1. u.package \in Members \cup Dependencies
      BY DEF Unit
    <3>2. QED
      BY <1>3, <3>1, DependenciesCapped
  <2>4. /\ proc' = [proc EXCEPT ![u] = "exited"]
        /\ code' = [code EXCEPT ![u] = IF ok /\ reported = {} THEN 0 ELSE 101]
    BY <1>3 DEF Exit, exit_code
  <2>5. /\ \A v \in Unit : v # u => /\ proc'[v] = proc[v] /\ code'[v] = code[v]
                                    /\ findings'[v] = findings[v]
        /\ proc'[u] = "exited" /\ findings'[u] = reported
        /\ code'[u] = 0 => reported = {}
        /\ reported # {} => code'[u] = 101
        /\ proc' \in [Unit -> {"idle", "main", "compiling", "exited"}]
        /\ code' \in [Unit -> {0, 1, 101}]
        /\ findings' \in [Unit -> SUBSET DeniedLints]
    BY <1>3, <2>1, <2>4 DEF TypeOK
  <2>6. linted' \subseteq Unit /\ u \in linted' /\ \A v : v # u => (v \in linted' <=> v \in linted)
    BY <1>3 DEF TypeOK
  <2>7. TypeOK'
    BY <1>1, <2>5, <2>6 DEF TypeOK
  <2>8. Outcomes'
    BY <1>1, <2>3, <2>5, <2>6 DEF Outcomes
  <2>9. Reported'
    BY <1>1, <2>2, <2>5, <2>6, SourcesKept DEF Reported
  <2>10. Settled' /\ Configured'
    BY <1>1, <2>5, <2>6 DEF Settled, Configured, CalledAsWrapper
  <2>11. QED
    BY <2>7, <2>8, <2>9, <2>10
<1>4. QED
  BY <1>2, <1>3 DEF run_compiler

LEMMA FinishStep ==
  ASSUME IInv, Finish
  PROVE  IInv'
<1> USE DEF IInv
<1>1. /\ UNCHANGED <<setup, source, proc, code, linted, findings>> /\ stage = "building"
      /\ \A u \in Unit : proc[u] \in {"idle", "exited"}
      /\ \/ stage' = "failed"
         \/ (\A u \in Unit : proc[u] = "exited" /\ ~ Failed(u)) /\ stage' = "passed"
  BY DEF Finish
<1>2. TypeOK'
  BY <1>1 DEF TypeOK
<1>3. Outcomes'
  BY <1>1 DEF Outcomes
<1>4. Reported'
  BY <1>1, SourcesKept DEF Reported
<1>5. Settled' /\ Configured'
  BY <1>1 DEF Settled, Configured, CalledAsWrapper, Failed
<1>6. QED
  BY <1>2, <1>3, <1>4, <1>5

LEMMA NextIInv == IInv /\ ProbeAnswered /\ [Next]_vars => IInv'
<1> SUFFICES ASSUME IInv, ProbeAnswered, [Next]_vars PROVE IInv'
  OBVIOUS
<1>1. CASE UNCHANGED vars
  BY <1>1, SourcesKept DEF vars, IInv, TypeOK, Outcomes, Reported, Settled, Configured,
     CalledAsWrapper
<1>2. QED
  BY <1>1, ProbeStep, LaunchStep, MainStep, CompilerStep, FinishStep DEF Next

THEOREM Inductive == Spec => [](IInv /\ ProbeAnswered)
<1>1. Init => IInv /\ ProbeAnswered
  BY InitIInv, AnsweredInit
<1>2. IInv /\ ProbeAnswered /\ [Next]_vars => (IInv /\ ProbeAnswered)'
  BY NextIInv, AnsweredNext DEF IInv
<1>3. QED
  BY <1>1, <1>2, PTL DEF Spec

-----------------------------------------------------------------------------
\* TypeOK holds in every reachable state: no exit code before a driver's exit.
THEOREM TypeCorrect == Spec => []TypeOK
<1>1. IInv => TypeOK
  BY DEF IInv
<1>2. QED
  BY <1>1, Inductive, PTL

\* NoExemptionShips in every reachable state: the compilation without tests
\* meets every exemption that stands outside test code.
THEOREM NoExemptionEverShips == Spec => []NoExemptionShips
<1>1. IInv => NoExemptionShips
  <2> SUFFICES ASSUME IInv, stage = "passed", NEW p \in Members, NEW s \in source[p],
                      Exempts(s.attr), s.when # "test"
               PROVE  s.override \in {"allow", "expect", "warn"}
    BY DEF NoExemptionShips
  <2> DEFINE u == [package |-> p, test |-> FALSE]
  <2>1. u \in Unit /\ u.package = p /\ u.test = FALSE
    BY DEF Unit
  <2> HIDE DEF u
  <2>2. u \in linted /\ findings[u] = {} /\ PanicAllows(u) = {}
    BY <2>1 DEF IInv, Settled, Outcomes, Reported
  <2>3. p \in Package /\ s \in Site
    BY DEF IInv, TypeOK, Package
  <2>4. compiled(u, s)
    BY <2>1, <2>3 DEF compiled, Site
  <2>5. check_attribute("deny", u.test, s.attr)
    <3>1. PanicPolicy(<<"panic">>) /\ PanicPolicy(<<"clippy", "panic">>)
          /\ PanicPolicy(<<"clippy", "unwrap_used">>)
      BY DEF PanicPolicy
    <3>2. \E path \in s.attr.items : PanicPolicy(path)
      BY <3>1 DEF Exempts
    <3>3. QED
      BY <2>1, <3>2 DEF check_attribute, Exempts, is_active
  <2>6. level(u, s) # "deny"
    BY <2>1, <2>2, <2>4, <2>5 DEF PanicAllows
  <2>7. QED
    BY <2>1, <2>3, <2>6 DEF level, Site, Level
<1>2. QED
  BY <1>1, Inductive, PTL

\* BlameDeserved in every reachable state: tests, dependencies and code where
\* the lint is lowered are never reported for exemptions, and no lint runs in a
\* driver that was not called as RUSTC_WRAPPER, however the compilations end.
THEOREM BlameIsDeserved == Spec => []BlameDeserved
<1>1. IInv => BlameDeserved
  <2> SUFFICES ASSUME IInv, NEW u \in Unit
               PROVE  /\ "non_test_panic_allow" \in findings[u] =>
                           /\ u.package \in Members /\ ~ u.test
                           /\ \E s \in source[u.package] :
                                /\ s.attr.name \in {"allow", "expect"} /\ s.when # "test"
                                /\ s.override \in {"flag", "deny"}
                                /\ \E path \in s.attr.items : PanicPolicy(path)
                      /\ u \in linted =>
                           /\ setup.wrapper_env /\ setup.compiler = "works"
                           /\ u.package \in Members => setup.front = <<"rustc">>
    BY DEF BlameDeserved
  <2>1. ASSUME "non_test_panic_allow" \in findings[u]
        PROVE  /\ u.package \in Members /\ ~ u.test
               /\ \E s \in source[u.package] :
                    /\ s.attr.name \in {"allow", "expect"} /\ s.when # "test"
                    /\ s.override \in {"flag", "deny"}
                    /\ \E path \in s.attr.items : PanicPolicy(path)
    <3>1. PanicAllows(u) # {}
      BY <2>1 DEF IInv, Outcomes, Reported
    <3>2. u.package \in Members /\ ~ u.test /\ u.package \notin Dependencies
      BY <3>1, DependenciesCapped
    <3>3. PICK s \in source[u.package] :
            /\ compiled(u, s) /\ level(u, s) = "deny"
            /\ check_attribute(level(u, s), u.test, s.attr)
      BY <3>1 DEF PanicAllows
    <3>4. s.when # "test"
      BY <3>2, <3>3 DEF compiled
    <3>5. s.override \in {"flag", "deny"}
      BY <3>2, <3>3 DEF level
    <3>6. QED
      BY <3>2, <3>3, <3>4, <3>5 DEF check_attribute
  <2>2. u \in linted => /\ setup.wrapper_env /\ setup.compiler = "works"
                        /\ u.package \in Members => setup.front = <<"rustc">>
    BY DEF IInv, Configured, CalledAsWrapper, TypeOK
  <2>3. QED
    BY <2>1, <2>2
<1>2. QED
  BY <1>1, Inductive, PTL

-----------------------------------------------------------------------------
\* The build's state as the policy gate sees it.
own_linted == linted \cap OwnUnit
own_denied == {u \in OwnUnit : findings[u] # {}}
own_verdict == IF Over THEN stage ELSE "open"

LEMMA GateInit == Init => Gate!Init
BY DEF Init, Gate!Init, Over, OwnUnit

\* Steps of cargo and of a driver's start are invisible to the gate.
LEMMA InvisibleStep ==
  ASSUME UNCHANGED <<stage, linted, findings>>
  PROVE  UNCHANGED Gate!gate_vars
BY DEF Gate!gate_vars, Over

\* A compilation that type-checks is linted once, with what the lints deny.
LEMMA CompilerGate ==
  ASSUME IInv, NEW u \in Unit, run_compiler(u)
  PROVE  (\E c \in OwnUnit : Gate!Lint(c)) \/ UNCHANGED Gate!gate_vars
<1>1. stage' = stage /\ proc[u] = "compiling" /\ stage = "building"
      /\ u \notin linted /\ findings[u] = {}
  <2>1. stage' = stage /\ proc[u] = "compiling"
    BY DEF run_compiler
  <2>2. QED
    BY <2>1 DEF IInv, TypeOK, Settled, Outcomes
<1>2. CASE UNCHANGED <<linted, findings>>
  BY <1>1, <1>2, InvisibleStep
<1>3. CASE ~ UNCHANGED <<linted, findings>>
  <2>1. PICK reported : /\ linted' = linted \cup {u}
                        /\ findings' = [findings EXCEPT ![u] = reported]
    BY <1>3 DEF run_compiler
  <2>2. /\ findings'[u] = reported
        /\ \A v \in Unit : v # u => findings'[v] = findings[v]
    BY <2>1 DEF IInv, TypeOK
  <2>3. \A v \in OwnUnit : v \in Unit
    BY DEF OwnUnit
  <2>4. CASE u \in OwnUnit
    <3>1. own_linted' = own_linted \cup {u} /\ u \notin own_linted
      BY <1>1, <2>1, <2>4 DEF own_linted, OwnUnit
    <3>2. own_denied' \in {own_denied, own_denied \cup {u}}
      <4>1. reported = {} => own_denied' = own_denied
        BY <1>1, <2>2, <2>3 DEF own_denied
      <4>2. reported # {} => own_denied' = own_denied \cup {u}
        BY <1>1, <2>2, <2>3, <2>4 DEF own_denied
      <4>3. QED
        BY <4>1, <4>2
    <3>3. own_verdict = "open" /\ own_verdict' = own_verdict
      BY <1>1 DEF own_verdict, Over
    <3>4. Gate!Lint(u)
      BY <3>1, <3>2, <3>3 DEF Gate!Lint, own_linted, own_denied, own_verdict
    <3>5. QED
      BY <2>4, <3>4
  <2>5. CASE u \notin OwnUnit
    <3>1. own_linted' = own_linted /\ own_denied' = own_denied /\ own_verdict' = own_verdict
      BY <1>1, <2>1, <2>2, <2>3, <2>5 DEF own_linted, own_denied, own_verdict, Over
    <3>2. QED
      BY <3>1 DEF Gate!gate_vars, own_linted, own_denied, own_verdict
  <2>6. QED
    BY <2>4, <2>5
<1>4. QED
  BY <1>2, <1>3

\* The probe may end the build; cargo's verdict is the gate's.
LEMMA CargoGate ==
  ASSUME IInv, Probe \/ Finish
  PROVE  Gate!Pass \/ Gate!Fail \/ UNCHANGED Gate!gate_vars
<1>1. UNCHANGED <<linted, findings>> /\ stage \in {"probe", "building"}
  BY DEF Probe, Finish
<1>2. own_linted' = own_linted /\ own_denied' = own_denied /\ own_verdict = "open"
  BY <1>1 DEF own_linted, own_denied, own_verdict, Over
<1>3. CASE stage' = "failed"
  <2>1. own_verdict' = "failed"
    BY <1>3 DEF own_verdict, Over
  <2>2. Gate!Fail
    BY <1>2, <2>1 DEF Gate!Fail, own_linted, own_denied, own_verdict
  <2>3. QED
    BY <2>2
<1>4. CASE stage' = "building"
  <2>1. own_verdict' = own_verdict
    BY <1>2, <1>4 DEF own_verdict, Over
  <2>2. QED
    BY <1>2, <2>1 DEF Gate!gate_vars, own_linted, own_denied, own_verdict
<1>5. CASE stage' = "passed"
  <2>1. \A u \in Unit : proc[u] = "exited" /\ ~ Failed(u)
    BY <1>5 DEF Probe, Finish
  <2>2. \A u \in Unit : u \in linted /\ findings[u] = {}
    BY <2>1 DEF Failed, IInv, TypeOK, Outcomes
  <2>3. own_linted = OwnUnit /\ own_denied = {} /\ own_verdict' = "passed"
    BY <1>5, <2>2 DEF own_linted, own_denied, own_verdict, Over, OwnUnit
  <2>4. Gate!Pass
    BY <1>2, <2>3 DEF Gate!Pass, own_linted, own_denied, own_verdict
  <2>5. QED
    BY <2>4
<1>6. QED
  BY <1>3, <1>4, <1>5 DEF Probe, Finish

LEMMA GateStep == IInv /\ [Next]_vars => [Gate!Next]_(Gate!gate_vars)
<1> SUFFICES ASSUME IInv, [Next]_vars PROVE Gate!Next \/ UNCHANGED Gate!gate_vars
  OBVIOUS
<1>1. CASE Probe \/ Finish
  BY <1>1, CargoGate DEF Gate!Next
<1>2. ASSUME NEW u \in Unit, run_compiler(u) PROVE Gate!Next \/ UNCHANGED Gate!gate_vars
  BY <1>2, CompilerGate DEF Gate!Next
<1>3. ASSUME NEW u \in Unit, Launch(u) \/ main(u) PROVE UNCHANGED Gate!gate_vars
  BY <1>3, InvisibleStep DEF Launch, main
<1>4. CASE UNCHANGED vars
  BY <1>4, InvisibleStep DEF vars
<1>5. QED
  BY <1>1, <1>2, <1>3, <1>4 DEF Next

\* The build implements the policy gate: GateSpec, for any packages, sources,
\* denied lints and ways of configuring the wrapper.
THEOREM ImplementsGate == Spec => GateSpec
<1>1. Init => Gate!Init
  BY GateInit
<1>2. IInv /\ [Next]_vars => [Gate!Next]_(Gate!gate_vars)
  BY GateStep
<1>3. QED
  BY <1>1, <1>2, Inductive, PTL DEF Spec, GateSpec, Gate!Spec

\* What the gate promises, as the gate: it passes only what it has linted, all
\* of it, without a denied finding.
LEMMA GateKeeps == Gate!Spec => []Gate!Promise
<1>1. Gate!Init => Gate!Promise
  BY DEF Gate!Init, Gate!Promise
<1>2. Gate!Promise /\ [Gate!Next]_(Gate!gate_vars) => Gate!Promise'
  <2> SUFFICES ASSUME Gate!Promise, [Gate!Next]_(Gate!gate_vars) PROVE Gate!Promise'
    OBVIOUS
  <2>1. ASSUME NEW c \in OwnUnit, Gate!Lint(c) PROVE Gate!Promise'
    BY <2>1 DEF Gate!Lint, Gate!Promise
  <2>2. CASE Gate!Pass \/ Gate!Fail
    BY <2>2 DEF Gate!Pass, Gate!Fail, Gate!Promise
  <2>3. CASE UNCHANGED Gate!gate_vars
    BY <2>3 DEF Gate!gate_vars, Gate!Promise
  <2>4. QED
    BY <2>1, <2>2, <2>3 DEF Gate!Next
<1>3. QED
  BY <1>1, <1>2, PTL DEF Gate!Spec

\* A green build of the policy means what it says: the lints ran on both
\* compilations of every member, and reported nothing they are denied for.
THEOREM PassedMeansLinted ==
  Spec => [](stage = "passed" => \A u \in OwnUnit : u \in linted /\ findings[u] = {})
<1>1. Gate!Promise => (stage = "passed" => \A u \in OwnUnit : u \in linted /\ findings[u] = {})
  BY DEF Gate!Promise, Over
<1>2. QED
  BY <1>1, GateKeeps, ImplementsGate, PTL DEF GateSpec

-----------------------------------------------------------------------------
\* The build ends.

Place == [idle |-> 0, main |-> 1, compiling |-> 2, exited |-> 3]

\* What is left to do, of the drivers and of cargo.
Undone == {w \in Unit \X (1 .. 3) : Place[proc[w[1]]] < w[2]}
CargoLeft == CASE stage = "probe" -> 2 [] stage = "building" -> 1 [] OTHER -> 0

\* Nothing that is done is ever undone, by a failure or otherwise, and every
\* step gets something done.  With finitely many packages this is what
\* BuildEnds rests on besides fairness.
THEOREM BuildAdvances ==
  Spec => [][/\ Undone' \subseteq Undone /\ CargoLeft' <= CargoLeft
             /\ Undone' # Undone \/ CargoLeft' < CargoLeft]_vars
<1> DEFINE Advance == /\ Undone' \subseteq Undone /\ CargoLeft' <= CargoLeft
                      /\ Undone' # Undone \/ CargoLeft' < CargoLeft
<1>1. ASSUME TypeOK, NEW u \in Unit, NEW to \in {"main", "compiling", "exited"},
             Place[proc[u]] < Place[to], proc' = [proc EXCEPT ![u] = to], stage' = stage
      PROVE  Advance
  <2>1. /\ proc \in [Unit -> {"idle", "main", "compiling", "exited"}]
        /\ proc'[u] = to /\ \A v \in Unit : v # u => proc'[v] = proc[v]
    BY <1>1 DEF TypeOK
  <2>2. ASSUME NEW w \in Unit \X (1 .. 3), Place[proc'[w[1]]] < w[2]
        PROVE  Place[proc[w[1]]] < w[2]
    <3>1. CASE w[1] = u
      BY <1>1, <2>1, <2>2, <3>1 DEF Place
    <3>2. CASE w[1] # u
      BY <2>1, <2>2, <3>2
    <3>3. QED
      BY <3>1, <3>2
  <2>3. Undone' \subseteq Undone
    BY <2>2 DEF Undone
  <2>4. <<u, Place[to]>> \in Undone /\ <<u, Place[to]>> \notin Undone'
    BY <1>1, <2>1 DEF Undone, Place
  <2>5. CargoLeft' = CargoLeft /\ CargoLeft \in Nat
    BY <1>1 DEF CargoLeft
  <2>6. QED
    BY <2>3, <2>4, <2>5
<1>2. ASSUME TypeOK, Probe \/ Finish PROVE Advance
  <2>1. UNCHANGED proc /\ CargoLeft' < CargoLeft /\ CargoLeft \in Nat /\ CargoLeft' \in Nat
    BY <1>2 DEF Probe, Finish, CargoLeft
  <2>2. Undone' = Undone
    BY <2>1 DEF Undone
  <2>3. QED
    BY <2>1, <2>2
<1>3. ASSUME TypeOK, NEW u \in Unit, Launch(u) \/ main(u) \/ run_compiler(u) PROVE Advance
  <2>1. stage' = stage
    BY <1>3 DEF Launch, main, run_compiler
  <2>2. \/ proc[u] = "idle" /\ proc' = [proc EXCEPT ![u] = "main"]
        \/ proc[u] = "main" /\ proc' = [proc EXCEPT ![u] = "compiling"]
        \/ proc[u] \in {"main", "compiling"} /\ proc' = [proc EXCEPT ![u] = "exited"]
    BY <1>3 DEF Launch, main, run_compiler, Exit
  <2>3. PICK to \in {"main", "compiling", "exited"} :
          Place[proc[u]] < Place[to] /\ proc' = [proc EXCEPT ![u] = to]
    BY <2>2 DEF Place
  <2>4. QED
    BY <1>1, <1>3, <2>1, <2>3
<1>4. TypeOK /\ [Next]_vars => [Advance]_vars
  BY <1>2, <1>3 DEF Next
<1>5. QED
  BY <1>4, TypeCorrect, PTL DEF Spec

\* What cargo may do before its verdict, besides waiting for a driver.
CanLaunch(u) ==
  /\ stage = "building" /\ proc[u] = "idle" /\ \A v \in Unit : ~ Failed(v)
  /\ u.package \in Members =>
       \A v \in Unit : v.package \in Dependencies => proc[v] = "exited"
CanFinish ==
  /\ stage = "building" /\ \A u \in Unit : proc[u] \in {"idle", "exited"}
  /\ (\E u \in Unit : Failed(u)) \/ \A u \in Unit : proc[u] = "exited" /\ ~ Failed(u)

\* Nobody waits on everybody: until the verdict the probe is open, a driver is
\* running, cargo may start one, or it may conclude.
THEOREM NeverStuck ==
  Spec => [](\/ Over \/ stage = "probe"
             \/ \E u \in Unit : proc[u] \in {"main", "compiling"}
             \/ \E u \in Unit : CanLaunch(u)
             \/ CanFinish)
<1> DEFINE Going == \/ Over \/ stage = "probe"
                    \/ \E u \in Unit : proc[u] \in {"main", "compiling"}
                    \/ \E u \in Unit : CanLaunch(u)
                    \/ CanFinish
<1>1. ASSUME TypeOK PROVE Going
  <2>1. SUFFICES ASSUME stage = "building",
                        \A u \in Unit : proc[u] \in {"idle", "exited"},
                        \A u \in Unit : ~ Failed(u),
                        NEW w \in Unit, proc[w] = "idle"
                 PROVE  \E u \in Unit : CanLaunch(u)
    BY <1>1 DEF TypeOK, Over, CanFinish
  <2>2. CASE \E u \in Unit : u.package \in Dependencies /\ proc[u] = "idle"
    BY <2>1, <2>2 DEF CanLaunch
  <2>3. CASE \A u \in Unit : u.package \in Dependencies => proc[u] = "exited"
    BY <2>1, <2>3 DEF CanLaunch
  <2>4. QED
    BY <2>1, <2>2, <2>3
<1>2. TypeOK => Going
  BY <1>1
<1>3. QED
  BY <1>2, TypeCorrect, PTL

=============================================================================
