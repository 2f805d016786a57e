--------------------------- MODULE WorkspaceManifest ---------------------------
(***************************************************************************)
(* The workspace_lints_table lint, once per crate: walk up from the        *)
(* crate's manifest directory to the manifest that governs it, and report  *)
(* that manifest when it configures lints.  Directory 0 is the crate's     *)
(* own, directory d + 1 the parent of d, Depth the root of the file system.*)
(***************************************************************************)
EXTENDS Integers, LintLevels

CONSTANT Depth

ASSUME DepthAssumption == Depth \in Nat

Dirs == 0..Depth

\* A Cargo.toml, as toml::Table shows it: the [workspace] table if any, by
\* what its lints entry is, and the [lints] table.  An absent, unreadable or
\* malformed manifest is not parsed.
Manifest ==
  [parsed : {TRUE}, workspace : {"none", "bare", "empty", "lints"},
   lints : {"none", "empty", "marker", "defs"}]
    \cup [parsed : {FALSE}, workspace : {"none"}, lints : {"none"}]

VARIABLES
  fs,         \* fs[d]: the manifest in directory d
  level,      \* level of the lint at the crate root
  cargo,      \* CARGO_MANIFEST_DIR is set
  pc,         \* "start", "walk", "done"
  dir,        \* directory to look at next; Depth + 1 past the root
  own,        \* the crate's own manifest was parsed
  reported    \* manifests reported

vars == <<fs, level, cargo, pc, dir, own, reported>>
input == <<fs, level, cargo>>

-----------------------------------------------------------------------------

\* [workspace.lints] must hold something; [lints] anything but the marker
\* `workspace = true` alone.
defines_lints(m) == m.workspace = "lints" \/ m.lints \in {"empty", "defs"}

Init ==
  /\ fs \in [Dirs -> Manifest]
  /\ level \in Level
  /\ cargo \in BOOLEAN
  /\ pc = "start"
  /\ dir = 0
  /\ own = FALSE
  /\ reported = {}

\* check_crate: nothing to do where the lint is inactive or cargo absent.
Begin ==
  /\ pc = "start"
  /\ pc' = IF is_active(level) /\ cargo THEN "walk" ELSE "done"
  /\ UNCHANGED <<input, dir, own, reported>>

Looking == pc = "walk" /\ dir \in Dirs

Up(n) ==
  /\ dir' = dir + n
  /\ UNCHANGED <<input, pc, own, reported>>

\* Mutant: the parent is skipped with the directory.
SkipParent == Looking /\ ~ fs[dir].parsed /\ Up(2)

\* Mutant: the loop does not advance.
SkipNot == Looking /\ ~ fs[dir].parsed /\ Up(0)

Skip == Looking /\ ~ fs[dir].parsed /\ Up(1)

RememberOwn ==
  /\ Looking /\ fs[dir].parsed /\ fs[dir].workspace = "none"
  /\ dir = 0
  /\ own' = TRUE
  /\ dir' = dir + 1
  /\ UNCHANGED <<input, pc, reported>>

Return(d) ==
  /\ pc' = "done"
  /\ reported' = {x \in {d} : defines_lints(fs[x])}
  /\ UNCHANGED <<input, dir, own>>

ReturnOwn ==
  IF own THEN Return(0)
  ELSE pc' = "done" /\ UNCHANGED <<input, dir, own, reported>>

StopAtWorkspace ==
  /\ Looking /\ fs[dir].parsed /\ fs[dir].workspace # "none"
  /\ Return(dir)

Nested == Looking /\ fs[dir].parsed /\ fs[dir].workspace = "none" /\ dir # 0

\* Mutant: as cargo does, the walk goes on above a package.
PassNested == Nested /\ Up(1)

\* A package above the crate that is no workspace: the crate stands alone.
StopAtNested == Nested /\ ReturnOwn

RanOut ==
  /\ pc = "walk" /\ dir \notin Dirs
  /\ ReturnOwn

Step ==
  \/ Begin \/ Skip \/ RememberOwn \/ StopAtWorkspace \/ StopAtNested \/ RanOut

Next == Step \/ (pc = "done" /\ UNCHANGED vars)

Spec == Init /\ [][Next]_vars /\ WF_vars(Step)

-----------------------------------------------------------------------------

TypeOK ==
  /\ fs \in [Dirs -> Manifest]
  /\ level \in Level
  /\ cargo \in BOOLEAN
  /\ pc \in {"start", "walk", "done"}
  /\ dir \in 0..(Depth + 1)
  /\ own \in BOOLEAN
  /\ reported \in SUBSET Dirs

\* The doc of the walk, read without the walk.  Up to and including w no
\* manifest but the crate's own is a package's without [workspace].
Workspace(d) == fs[d].parsed /\ fs[d].workspace # "none"
Package(d) == fs[d].parsed /\ fs[d].workspace = "none"
Reaches(w) == \A d \in 1..w : ~ Package(d)

Governs(d) ==
  \/ Workspace(d) /\ Reaches(d) /\ \A k \in 0..(d - 1) : ~ Workspace(k)
  \/ /\ d = 0 /\ Package(0)
     /\ \A w \in Dirs : ~ (Workspace(w) /\ Reaches(w))

\* The walk, which sees one directory at a time and remembers one manifest,
\* reports exactly the governing manifest that defines lints; and nothing
\* when the lint is inactive or there is no cargo.
ReportsGoverning ==
  pc = "done" =>
    reported = {d \in Dirs : /\ is_active(level) /\ cargo
                             /\ Governs(d) /\ defines_lints(fs[d])}

\* The walk ends, at the root of the file system if nowhere before.
Terminates == <>(pc = "done")

=============================================================================
