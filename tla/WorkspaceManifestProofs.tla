----------------------- MODULE WorkspaceManifestProofs -----------------------
(***************************************************************************)
(* The walk of workspace_lints_table reports the governing manifest, for a *)
(* crate at any depth of the file system.                                  *)
(***************************************************************************)
EXTENDS WorkspaceManifest, TLAPS

\* What the walk knows of the directories below dir: none was a workspace,
\* none but the crate's own a package, and own says whether that one is.
Walked ==
  pc = "walk" =>
    /\ is_active(level) /\ cargo /\ reported = {}
    /\ \A d \in 0..(dir - 1) : ~ Workspace(d) /\ (d # 0 => ~ Package(d))
    /\ own <=> dir # 0 /\ Package(0)

\* Before the walk nothing is remembered and nothing reported.
Fresh == pc = "start" => dir = 0 /\ ~ own /\ reported = {}

IInv == TypeOK /\ Fresh /\ Walked /\ ReportsGoverning

USE DepthAssumption DEF DepthAssumption

\* The walk starts in a state of the invariant.
LEMMA InitIInv == Init => IInv
<1> SUFFICES ASSUME Init PROVE IInv
  OBVIOUS
<1>1. TypeOK
  <2>1. dir \in 0..(Depth + 1)
    BY DEF Init
  <2>2. pc \in {"start", "walk", "done"} /\ reported \in SUBSET Dirs
    BY DEF Init
  <2>3. own \in BOOLEAN
    BY DEF Init
  <2>4. QED
    BY <2>1, <2>2, <2>3 DEF Init, TypeOK
<1>2. Fresh
  BY DEF Init, Fresh
<1>3. Walked
  BY DEF Init, Walked
<1>4. ReportsGoverning
  BY DEF Init, ReportsGoverning
<1>5. QED
  BY <1>1, <1>2, <1>3, <1>4 DEF IInv

\* A manifest defines lints only if there is one.
LEMMA OwnPackage ==
  ASSUME TypeOK, pc = "walk", Walked, own
  PROVE  fs[0].parsed /\ fs[0].workspace = "none"
BY DEF Walked, Package

\* The walk ended without a workspace in reach: the crate's own manifest
\* governs, if there is one.
LEMMA NoWorkspaceInReach ==
  ASSUME TypeOK, Walked, pc = "walk", dir # 0,
         dir \in Dirs => Package(dir)
  PROVE  \A d \in Dirs : Governs(d) <=> (d = 0 /\ own)
<1>1. ASSUME NEW w \in Dirs, Workspace(w), Reaches(w)
      PROVE  FALSE
  <2>1. w >= dir
    BY <1>1 DEF Walked, TypeOK, Dirs
  <2>2. CASE dir \in Dirs
    <3>1. Package(dir)
      BY <2>2
    <3>2. dir \in 1..w
      BY <2>1 DEF TypeOK, Dirs
    <3>3. QED
      BY <3>1, <3>2, <1>1 DEF Reaches
  <2>3. CASE dir \notin Dirs
    BY <2>1, <2>3 DEF TypeOK, Dirs
  <2>4. QED
    BY <2>2, <2>3
<1>2. own <=> Package(0)
  BY DEF Walked, TypeOK
<1>3. QED
  BY <1>1, <1>2 DEF Governs

\* The walk stands before a workspace: it governs, and no other manifest.
LEMMA WorkspaceInReach ==
  ASSUME TypeOK, Walked, pc = "walk", dir \in Dirs, Workspace(dir)
  PROVE  \A d \in Dirs : Governs(d) <=> d = dir
<1>1. Reaches(dir)
  BY DEF Walked, Reaches, TypeOK, Dirs, Package, Workspace
<1>2. \A k \in 0..(dir - 1) : ~ Workspace(k)
  BY DEF Walked
<1>3. \A d \in Dirs : Workspace(d) /\ d # dir => d > dir
  BY <1>2 DEF TypeOK, Dirs
<1>4. \A d \in Dirs : d > dir => dir \in 0..(d - 1)
  BY DEF TypeOK, Dirs
<1>5. QED
  BY <1>1, <1>2, <1>3, <1>4 DEF Governs

\* fs, level and cargo do not change, so neither does what they determine.
LEMMA InputFixed ==
  ASSUME UNCHANGED input
  PROVE  /\ \A d \in Dirs : Governs(d)' <=> Governs(d)
         /\ \A d : Workspace(d)' <=> Workspace(d)
         /\ \A d : Package(d)' <=> Package(d)
         /\ is_active(level)' <=> is_active(level)
BY DEF input, Governs, Workspace, Package, Reaches, Dirs, is_active

\* Every step keeps the invariant.
LEMMA StepIInv == IInv /\ [Next]_vars => IInv'
<1> SUFFICES ASSUME IInv, [Next]_vars PROVE IInv'
  OBVIOUS
<1> USE DEF IInv
<1>1. CASE Begin
  <2>1. TypeOK' /\ Fresh' /\ ReportsGoverning'
    BY <1>1, InputFixed DEF Begin, TypeOK, Fresh, ReportsGoverning, input
  <2>2. Walked'
    BY <1>1, InputFixed DEF Begin, TypeOK, Fresh, Walked, input
  <2>3. QED
    BY <2>1, <2>2
<1>2. CASE Skip
  <2>1. TypeOK'
    BY <1>2 DEF Skip, Looking, Up, TypeOK, input, Dirs
  <2>2. Fresh' /\ ReportsGoverning'
    BY <1>2 DEF Skip, Looking, Up, Fresh, ReportsGoverning
  <2>3. Walked'
    BY <1>2, InputFixed
       DEF Skip, Looking, Up, TypeOK, Walked, input, Dirs, Workspace, Package
  <2>4. QED
    BY <2>1, <2>2, <2>3
<1>3. CASE RememberOwn
  <2>1. TypeOK'
    BY <1>3 DEF RememberOwn, Looking, TypeOK, input, Dirs
  <2>2. Fresh' /\ ReportsGoverning'
    BY <1>3 DEF RememberOwn, Looking, Fresh, ReportsGoverning
  <2>3. Walked'
    <3>1. dir' = 1 /\ own' = TRUE /\ UNCHANGED <<input, pc, reported>>
      BY <1>3 DEF RememberOwn
    <3>2. Package(0) /\ ~ Workspace(0)
      BY <1>3 DEF RememberOwn, Looking, Package, Workspace
    <3>3. 0..(dir' - 1) = {0}
      BY <3>1
    <3>4. is_active(level)' /\ cargo' /\ reported' = {}
      BY <1>3, <3>1 DEF RememberOwn, Looking, Walked, input, is_active
    <3>5. own' /\ dir' # 0 /\ Package(0)'
      BY <3>1, <3>2, InputFixed
    <3>6. QED
      BY <3>2, <3>3, <3>4, <3>5, <3>1, InputFixed DEF Walked
  <2>4. QED
    BY <2>1, <2>2, <2>3
<1>4. CASE StopAtWorkspace
  <2>1. pc = "walk" /\ dir \in Dirs /\ Workspace(dir) /\ Return(dir)
    BY <1>4 DEF StopAtWorkspace, Looking, Workspace
  <2>2. \A d \in Dirs : Governs(d) <=> d = dir
    BY <2>1, WorkspaceInReach
  <2>3. UNCHANGED input /\ dir' = dir /\ own' = own /\ pc' = "done"
    BY <2>1 DEF Return
  <2>4. reported' = {x \in {dir} : defines_lints(fs[x])}
    BY <2>1 DEF Return
  <2>5. TypeOK'
    BY <2>1, <2>3, <2>4 DEF TypeOK, input
  <2>6. ReportsGoverning'
    BY <2>1, <2>2, <2>3, <2>4, InputFixed
       DEF ReportsGoverning, Walked, input, defines_lints
  <2>7. QED
    BY <2>3, <2>5, <2>6 DEF Fresh, Walked
<1>5. CASE StopAtNested \/ RanOut
  <2>1. dir # 0 /\ (dir \in Dirs => Package(dir)) /\ pc = "walk" /\ ReturnOwn
    BY <1>5 DEF StopAtNested, Nested, RanOut, Looking, Package, Dirs
  <2>2. \A d \in Dirs : Governs(d) <=> (d = 0 /\ own)
    BY <2>1, NoWorkspaceInReach
  <2>3. UNCHANGED input /\ dir' = dir /\ own' = own /\ pc' = "done"
    BY <2>1 DEF ReturnOwn, Return, input
  <2>4. reported' = {x \in {0} : own /\ defines_lints(fs[x])}
    BY <2>1 DEF ReturnOwn, Return, Walked, TypeOK
  <2>5. 0 \in Dirs
    BY DEF Dirs
  <2>6. TypeOK'
    BY <2>3, <2>4, <2>5 DEF TypeOK, input
  <2>7. ReportsGoverning'
    BY <2>1, <2>2, <2>3, <2>4, <2>5, InputFixed
       DEF ReportsGoverning, Walked, input, defines_lints
  <2>8. QED
    BY <2>3, <2>6, <2>7 DEF Fresh, Walked
<1>6. CASE UNCHANGED vars
  <2>1. UNCHANGED <<input, pc, dir, own, reported>>
    BY <1>6 DEF vars, input
  <2>2. TypeOK' /\ Fresh'
    BY <2>1 DEF TypeOK, Fresh, input
  <2>3. Walked' /\ ReportsGoverning'
    BY <2>1, InputFixed DEF Walked, ReportsGoverning, input
  <2>4. QED
    BY <2>2, <2>3
<1>7. QED
  BY <1>1, <1>2, <1>3, <1>4, <1>5, <1>6 DEF Next, Step

LEMMA Inductive == Spec => [](TypeOK /\ ReportsGoverning)
<1>1. Spec => []IInv
  BY InitIInv, StepIInv, PTL DEF Spec
<1>2. IInv => TypeOK /\ ReportsGoverning
  BY DEF IInv
<1>3. QED
  BY <1>1, <1>2, PTL

\* Every state of the walk is well typed, for every Depth.
THEOREM TypeCorrect == Spec => []TypeOK
BY Inductive, PTL

\* The walk's correctness, for every Depth: a crate is reported with exactly
\* the manifest that governs it, if that defines lints.
THEOREM WalkCorrect == Spec => []ReportsGoverning
BY Inductive, PTL

\* What is left of the walk: directories to look at and stages to go.
Left == (Depth + 1 - dir) + (CASE pc = "start" -> 2 [] pc = "walk" -> 1 [] pc = "done" -> 0)

\* The loop ends, whatever the manifests: each step that changes anything
\* leaves strictly less to do, Depth + 3 steps at most.  This is what
\* Terminates rests on besides fairness.
THEOREM WalkBounded == Spec => [][Left' < Left /\ Left \in 0 .. (Depth + 3)]_vars
<1>1. TypeOK /\ [Next]_vars => [Left' < Left /\ Left \in 0 .. (Depth + 3)]_vars
  <2> SUFFICES ASSUME TypeOK, Next, ~ UNCHANGED vars
               PROVE  Left \in 0 .. (Depth + 3) /\ Left' < Left
    OBVIOUS
  <2>1. dir \in 0 .. (Depth + 1) /\ pc \in {"start", "walk", "done"}
    BY DEF TypeOK
  <2>2. Left \in 0 .. (Depth + 3)
    BY <2>1 DEF Left
  <2>3. CASE Begin
    BY <2>1, <2>3 DEF Begin, Left
  <2>4. CASE Skip \/ RememberOwn
    BY <2>1, <2>4 DEF Skip, RememberOwn, Looking, Up, Left
  <2>5. CASE StopAtWorkspace \/ StopAtNested \/ RanOut
    <3>1. pc = "walk" /\ pc' = "done" /\ dir' = dir
      BY <2>5 DEF StopAtWorkspace, StopAtNested, RanOut, Nested, Looking, Return, ReturnOwn
    <3>2. QED
      BY <2>1, <3>1 DEF Left
  <2>6. QED
    BY <2>2, <2>3, <2>4, <2>5 DEF Next, Step
<1>2. QED
  BY <1>1, Inductive, PTL DEF Spec

=============================================================================
