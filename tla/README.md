# Verification of the Servyi lints

TLA+ models of the lint collection in this repository, the TLC runs that check
them on small instances, and theorems about them that TLAPS checks for every
value of the constants. Modules carry the names of the code: an action or an
operator in `CustomParser.tla` that is called `verify_approval` or
`check_expr` is that function.

## The system

`servyi-lint` is a rustc driver that cargo runs in place of rustc
(`RUSTC_WRAPPER`), one process per crate, several at a time. It registers six
late lints. rustc walks each crate's HIR once and calls every pass at every
node; each pass first asks `servyi-lint-core` whether its lint is active there.
A lint denied on the command line makes the process fail, and with it the
build. Nothing is persisted between processes.

| part | state it keeps | operations | what makes it correct |
|---|---|---|---|
| `lint-custom-parser` | per process: cache link -> verdict; outside: comments on GitHub, source files | per call expression: header look-up, cache look-up, fetch by curl, store, report | a hand-parsing primitive passes only under a live, maintainer's approval; what cannot be checked is not approved; one answer per link |
| its header scan | scanner state and bracket depth | one step per token | finds the header exactly where the grammar allows one |
| `lint-unsound-constructor` | the marked structs met so far | `check_item`, `check_expr` | every construction site of a marked type is judged, each on its own |
| its SAFETY scan | position in the tokens above, bracket depth | one step per token, backwards | finds the comment exactly when only attributes, comments and white space are in between |
| `lint-unsafe-scope` | none; recursion over a block's expressions | leaf finding, shape checks, `check_expr` | an approved block computes nothing and does one unsafe operation per statement |
| `lint-workspace-lints-table` | the walk: directory, own manifest | `check_crate`, the walk, `defines_lints` | reports the governing manifest, and only when it configures lints |
| `servyi-lint-core` | none | `is_active` | one meaning of "active" for all lints |
| `lint-inline-literal` | registered message names, attribute ranges | collection in `check_crate`, then a decision per literal and per constant | order of registration is irrelevant; generated and attribute-carried literals are never reported; nested strings and magic numbers are, anywhere |
| `lint-non-test-panic-allow` | none | `check_attribute` | reports in non-test compilations only |
| driver `main` | the argument list | wrapper detection, probe delegation, compile, exit code | is the compiler, plus the lints |
| lint-policy action, CI self-test | cargo's processes and their exit codes | `cargo check` under the driver; fixture loops | a build passes only when everything was linted and clean; a bad fixture is denied by its lint |
| `fixture-derive`, build scripts | none | | support only |

What is hard here, and hard to test: the network between two steps of a check
and the cache that outlives the truth of what it holds (`custom_parser`);
crates linted concurrently with separate caches; comments edited and files
saved while a build runs; passes that depend on traversal order
(`unsound_constructor`, `inline_literal`); hand-written automata over tokens
with counted brackets, one of them running backwards; walks out of a literal to what
encloses it, each with its own idea of where to stop (`inline_literal`); two
compilations of one package that are linted differently; a driver that must tell
from its arguments and environment how it was called; a recursive shape check
whose cases each look at some subexpressions and not at others
(`unsafe_scope`); a walk that commits to the first manifest that fits.
`PROJECT.json` lists these hazards line by line.

## Modules

| module | models | state |
|---|---|---|
| `LintLevels` | `is_active` | constant operators |
| `ApprovalLink` | `approval_url_from`, `api_endpoint` | constant operators |
| `CustomParser` | the `custom_parser` lint in several processes, and the world around it | see below |
| `ApprovalPolicy` | the promise: the abstract specification `CustomParser` implements | links vouched for, settled links, outcomes |
| `MCCustomParser` | links for TLC | |
| `CustomParserProofs` | theorems | |
| `HeaderScan`, `MCHeaderScan` | `file_approval_url` | `st` and `depth` are the code's `St` |
| `HeaderScanProofs` | theorems | |
| `SafetyScan` | `has_safety_comment` | `mode` is the place in the loops, `depth` the code's |
| `SafetyScanProofs` | theorems | |
| `UnsoundConstructor` | the pass over a crate | `unsound_types` is the field; `flagged` the diagnostics |
| `UnsoundConstructorProofs` | theorems | |
| `UnsafeScope`, `MCUnsafeScope` | the pass over a function body | blocks to visit, blocks reported |
| `UnsafeScopeProofs` | theorems | |
| `WorkspaceManifest` | the lint, once per crate | `dir`, `own` of the walk |
| `WorkspaceManifestProofs` | theorems | |
| `LiteralContext` | `in_const_context`, `in_message_position`, `trivial_int`, `trivial_float` | constant operators |
| `InlineLiteral` | the `inline_literal` pass over a crate | `registered` and `attr_ranges` are the pass's fields; `flagged` the diagnostics |
| `MCInlineLiteral` | crates for TLC | |
| `InlineLiteralProofs` | theorems | |
| `NonTestPanicAllow` | `check_attribute` | constant operators |
| `Driver` | what `main` makes of its arguments | constant operators |
| `PolicyBuild` | cargo, the probe and the driver processes of one build | see below |
| `PolicyGate` | the promise: the abstract specification `PolicyBuild` implements | compilations linted and denied, verdict |
| `MCPolicyBuild` | sources and setups for TLC | |
| `PolicyBuildProofs` | theorems | |

`CustomParser` extends `ApprovalLink` and `LintLevels` and instantiates
`ApprovalPolicy` with a refinement mapping; `HeaderScan` extends
`ApprovalLink`; `InlineLiteral` extends `LiteralContext` and `LintLevels`.
`PolicyBuild` composes `Driver` and `NonTestPanicAllow` (which extends
`LintLevels`), one instance per process, and instantiates `PolicyGate` with a
refinement mapping. The other lints extend `LintLevels`.

### CustomParser

One call of `check_parser_primitive` is cut where the code blocks or reads
state another actor changes: `HeaderLookup` (the file is read from disk),
`CacheHit` or `CacheMiss` (with `api_endpoint`, up to the start of curl),
`FetchReply`, `FetchFails` or `FetchRefused` (what curl brings back), `TimeOut`
(curl gives up after `--max-time 10`), `Store` (insert into the cache and report). `Ignore` is a call for which the
code returns early. Between any two steps other processes move, a comment may
be edited or deleted (`EditComment`) and a file saved (`EditFile`). Within a
process calls are sequential: rustc runs these passes on one thread per crate,
so the two short critical sections of `cached_approval` are never interleaved
with another call of the same process.

A link is a record of what `url` is asked for, so a permalink under `pull` and
one under `issues` can name the same comment. A comment is its author and where
the sentence stands. GitHub's error replies are JSON without a login
(`Refusal`), like a comment that does not exist. `seen`, `fetched` and `faulty`
(the links of which some fetch failed or was refused) are history variables:
they appear in properties only.

### The scanners

`HeaderScan` and `SafetyScan` choose each token when it is read, so a run
covers every file of at most `MaxTokens` tokens; the history variable `read`
is the file, in `SafetyScan` from its last token on. Their properties say what
is accepted without an automaton: the tokens are cut into units, each of which
satisfies a grammar stated with positions and counts of brackets (`Preamble`,
`Passable`). `Docs` of `HeaderScan` holds the outer doc comments: their links,
and whether they begin with the marker, which the code compares to nothing.

What the documents describe is narrower than what the scan accepts, and
`HeaderScan` keeps the two apart. `Documented` is a marked doc comment below white
space, imports and inner attributes; `AtHeader` is any outer doc below white
space, imports and attributes, with any number of `!` behind the `#`.
`FindsHeader` says that every documented header is found and that no link is given
but at an `AtHeader`; `RefusesOnlyDebris` that the scan gives up only at a token
below which no documented header can stand. Of what lies between the two, an
unmarked doc comment or one below an outer attribute, the code accepts all and the
documents none, and no property asks for either. White
space between the `#`, the `!` and the bracket of an attribute, which Rust allows,
ends the scan; the grammar of a documented attribute excludes it too, so nothing is
claimed of such files.

### UnsoundConstructor

The crate is likewise whatever has been visited: any sequence of structs and
literals, each with a level, with or without a SAFETY comment, literals named
by the struct's path or otherwise (`Self`, an alias). The traversal order of
rustc is source order with bodies in place, which is why a literal may come
before its struct.

### UnsafeScope

A body is a tree, a function from positions to kinds of expressions; positions
stand for `HirId`s, and one below another extends it. The code recurses on
subexpressions; here `leaves`, `is_binding_place` and `unwrap_to_leaf` say what
must hold of the nodes on the way down (`Path`), which is the same and can be
proved about. That it is the same are theorems of their own
(`LeavesRecursion`, `BindingPlaceRecursion`, `UnwrapRecursion`). `IsTree` is what
rustc's HIR guarantees: finitely many nodes, each below its parent, with the
number of children its kind has.
`check_body_expr` is TRUE where the code leaves no note. Every block of the body
is visited, in any order, at any level: the pass keeps no state. "More than one
operation per block" is left to clippy by the driver's README, and the
properties count per statement, as the code does.

### LiteralContext and InlineLiteral

The code decides about a literal by walking from it to the nodes that enclose
it. A literal here carries these ancestors as a sequence of records, nearest
first: the kind of HIR node, the child of it the walk comes from, a name
(operator, callee, method, kind of item) and the macros its span comes from.
Each walk of the code is "skip these kinds, decide at the first other node",
which is `Stop`. `in_const_context` accepts the naming sites of the README,
`in_message_position` looks at every ancestor (and, for the closure of
`with_context`, at eight of them), `trivial_shape_full` is the set of predicates
below `AddSub`, each a shape with the values it sanctions. The code's lists of
macro and method names are cut to one or two of a kind.

`InlineLiteral` is one crate: markers, attributes, constants and literals in
source order. `check_crate` collects registered message names and attribute
ranges from the whole crate before any literal is visited, unless the lint is
allowed at the root; `check_value_named_const` and `check_expr` then judge node
after node. That a span comes from a foreign macro, or was borrowed from an
identifier by a derive, is a field of the literal; so is the attribute whose
source the span lies in. Whether a constant's name says its value is an input:
the comparison of the two texts is not modelled.

### Driver, NonTestPanicAllow and PolicyBuild

`PolicyBuild` is `cargo check --all-targets` as the lint-policy action runs it.
cargo first probes the target (`Probe`), through the driver; then one process
runs per compilation (`Unit`): a dependency once and with lints capped, a member
twice, with and without `cfg(test)`. `Launch` is cargo's job queue (members
after dependencies, nothing new after a failure), `main` the driver up to
`run_compiler`, `run_compiler` the rest of the process, `Finish` cargo's
verdict. A compilation may fail before the passes run, or after they ran with an
error none of the denied lints reported (a late lint of rustc's own, a lint the
policy warns about that the source denies): the exit code is 101 in both cases. How cargo is told about the driver is `setup`: `RUSTC_WRAPPER` in the
environment or not, and the program names in front of the compiler's arguments
(`rustc`; another wrapper and then `rustc`, as `RUSTC_WORKSPACE_WRAPPER` under
`RUSTC_WRAPPER` gives; a name that is no compiler to the driver), with a
compiler that works, fails, is missing or is killed. The other lints are free to
report anything they are denied for; `non_test_panic_allow` is computed from the
attributes in the sources, at the level that `--cap-lints`, an enclosing
attribute or the flag gives.

### WorkspaceManifest

Directory 0 is the crate's, `Depth` the root of the file system; each holds a
manifest, or none that parses. The actions are the branches of the loop.

## Runs

| run | checks | bounds |
|---|---|---|
| `approvals` | `TypeOK`, `FailClosed`, `SameUrlSameOutcome`, `AtMostOneFetch`, `CratesAgree`, `VerdictStable`, `PolicySpec`, `EveryCrateLinted` | 2 processes, 2 files, a permalink and a link without endpoint, 2 accounts, `MaxCalls = 2`, `MaxChanges = 1` |
| `approval_quote` | violation of `QuotedTemplateNeverApproves` | 1 file, `MaxCalls = 1` |
| `header` | `TypeOK`, `FindsHeader`, `RefusesOnlyDebris` | `MaxTokens = 7`, four doc comments |
| `safety_scan` | `TypeOK`, `FoundIffAttached` | `MaxTokens = 7` |
| `unsound` | `TypeOK`, `SitesStandAlone`, `NoFalseFinding` | 2 types, `MaxNodes = 3` |
| `unsound_order` | violation of `EveryConstructionSite` | 2 types, `MaxNodes = 3` |
| `unsafe_scope` | `TypeOK`, `NothingHidden`, `NoFalseAlarm` | expressions of depth 2, one or two statements |
| `unsafe_scope_inner` | violation of `InnerBlocksCovered` | the same |
| `manifests` | `TypeOK`, `ReportsGoverning`, `Terminates` | three nested directories |
| `inline_literal` | `TypeOK`, `RegistrationOrderIrrelevant`, `AttributeDataSilent`, `NestedStringsReported`, `MagicNumbersReported`, `CastsTransparent`, `OneReportPerConstant` | a literal in one or two constructs and an owner, next to at most one marker, attribute, constant or cast twin |
| `inline_const` | violation of `NamingSitesExempt` | the same |
| `build` | `TypeOK`, `GateSpec`, `NoExemptionShips`, `BlameDeserved`, `BuildEnds` | 2 members, 1 dependency, one lint attribute anywhere in one member, every setup |

Why the bounds are enough. Two calls and one change are what a stale verdict
takes: the first call settles a link, the comment or the header changes, the
second call meets the cache. Two processes and two files under different
headers are what a disagreement takes. Seven tokens hold an attribute with nested
brackets and the doc comment below it, or the SAFETY comment above it. Three
nodes are a struct, a second struct, and a literal, in any order. Depth two
puts each kind of expression over each other, and a second statement supplies
the operation that makes the block count. Three directories are a crate, a
directory in between, and a root. Two constructs put every shape that decides
below every other one, and every walk of `inline_literal` stops at the first
node it does not pass; order of registration needs one marker and one literal.
Two members are what one driver running while another fails takes, and one
attribute is judged without regard to the others. All safety properties are
also proved without bounds.

Fairness. `CustomParser` assumes weak fairness of what each process and its curl
do by themselves (`Own`): go on to the next step, and give up a fetch, as curl does
under `--max-time 10`. No fairness is assumed of the world, and no answer of the
network, good or bad, is promised: `EveryCrateLinted` holds because of the time
limit, and fails without it. `WorkspaceManifest` assumes fairness of the walk, a
sequential loop. `PolicyBuild` assumes it of the build as a whole: cargo goes on as
long as it can, and what the compiler is asked to do ends; which process moves
next, and what it meets, is free. `main` waits for the probed compiler without a
time limit, so a compiler that hangs at the probe hangs the build: `BuildEnds`
assumes it does not.

Every run checks deadlock: a finished system stutters explicitly.

### Disagreements the violation runs show

- A maintainer's comment that shows the approval sentence in a fenced code
  block approves: code blocks arrive as `Event::Text`.
- A literal above the declaration of its struct is never checked.
- A plain block inside an unsafe block is checked by nobody.
- A literal in a struct field of a constant's initializer is reported, although
  literals belong in initializers: the walk to the naming site ends at
  `Node::ExprField`.

Others, seen while modelling and visible in the definitions, without a run.
The properties that pass are stated so that they do not depend on them: none asks
for what the documents rule out.

- `custom_parser`: an API refusal (rate limit) is reported and cached as a
  rejection of the comment; the text of the header marker is never compared, so
  that any first outer doc comment is the header; and the header is found below
  outer attributes, where the documents allow inner ones only.
- `unsound_constructor`: white space between a SAFETY comment and its span may
  hold empty lines; literals written with `Self` or an alias are never checked,
  although every construction site should be; an `allow` on a struct leaves all
  its sites unchecked.
- `workspace_lints_table`: an empty `[lints]` table counts as a definition while
  an empty `[workspace.lints]` does not; the walk stops at a package between the
  crate and the nearest `[workspace]`.
- `unsafe_scope`: a reference to a constant (`&CONST`) is no plain read although
  a constant is; the callee of an unsafe call, and what inline assembly reads,
  may be computed inside the block.
- `inline_literal`: the string of a `with_context` closure whose body is a block
  (`|| { "msg" }`) is not recognised as a message; attributes of tuple fields are
  not collected, although those of members should be; where the crate root allows
  the lint both lists stay empty for modules that turn it on again; a type-relative call
  (`Log::fail("x")`) to a registered name is not matched; zero as a call argument
  or a field is sanctioned for integers only.
- driver: with a workspace wrapper under `RUSTC_WRAPPER` the second program name
  is taken for an input file and members fail to compile; that fails the build,
  and never passes it.

## Proofs

| module | theorem | says |
|---|---|---|
| `CustomParserProofs` | `TypeCorrect` | `[]TypeOK` |
| | `FailsClosed` | `[]FailClosed` |
| | `OneOutcomePerUrl` | `[]SameUrlSameOutcome` |
| | `OneFetchPerUrl` | `[]AtMostOneFetch` |
| | `Agreement` | `[]CratesAgree` |
| | `VerdictsFinal` | `VerdictStable` |
| | `ImplementsPolicy` | `PolicySpec` |
| | `SilentMeansSettled` | the promise of `ApprovalPolicy`, of the processes |
| | `CallsRunOut` | every step of a process uses up one it had left |
| `HeaderScanProofs` | `TypeCorrect`, `ScanCorrect` | `[]TypeOK`, `[]FindsHeader` |
| | `NeverTooEarly` | `RefusesOnlyDebris` |
| `SafetyScanProofs` | `TypeCorrect`, `WalkCorrect` | `[]TypeOK`, `[]FoundIffAttached` |
| `UnsafeScopeProofs` | `TypeCorrect` | `[]TypeOK` |
| | `NothingEverHidden` | `[]NothingHidden` |
| | `AlarmsTrue` | `[]NoFalseAlarm` |
| | `LeavesRecursion`, `BindingPlaceRecursion`, `UnwrapRecursion` | the definitions by paths satisfy the code's recursions |
| `UnsoundConstructorProofs` | `TypeCorrect`, `SitesCorrect`, `FindingsTrue` | `[]TypeOK`, `[]SitesStandAlone`, `[]NoFalseFinding` |
| `WorkspaceManifestProofs` | `TypeCorrect`, `WalkCorrect` | `[]TypeOK`, `[]ReportsGoverning` |
| | `WalkBounded` | `Depth + 3` steps at most, each leaving less to do |
| `InlineLiteralProofs` | `TypeCorrect` | `[]TypeOK` |
| | `RegistrationHolds` | `[]RegistrationOrderIrrelevant` |
| | `AttributesHold` | `[]AttributeDataSilent` |
| | `NestedStringsHold` | `[]NestedStringsReported` |
| | `MagicNumbersHold` | `[]MagicNumbersReported` |
| | `CastsHold` | `[]CastsTransparent` |
| | `OneReportHolds` | `[]OneReportPerConstant` |
| `PolicyBuildProofs` | `TypeCorrect` | `[]TypeOK` |
| | `NoExemptionEverShips` | `[]NoExemptionShips` |
| | `BlameIsDeserved` | `[]BlameDeserved` |
| | `ImplementsGate` | `GateSpec` |
| | `PassedMeansLinted` | the promise of `PolicyGate`, of the build |
| | `BuildAdvances`, `NeverStuck` | every step gets something done; until the verdict somebody can move |

They hold for every value of the constants that satisfies the named
assumptions, which say: `NoUrl` is no link, `NoEndpoint` no endpoint, `NoLogin`
no maintainer, `NoAttribute` no node; `""` is a name; `Crates`, `Paths`, `Setups`
and `Sources` are sets of the records the modules describe; `Bodies` are trees
of any size (`BodiesAssumption`); members and
dependencies are different packages, `DeniedLints` are lints of the driver and
`non_test_panic_allow` is one of them, as the action denies it; the bounds are
natural numbers.

`CustomParser`. The properties are not inductive: that a call passes only
under a vouched link depends on what is cached, which depends on what a process
in flight is about to store. The invariant `IInv` is `Ranges` with
`Stage` (which of `url` and `verdict` are set at which `pc`), `Recorded` (the
history holds the present content of every comment), `Sound` (every verdict, in
flight or cached, has a ground: a content the comment had, qualifying or not, a
link that is no permalink, or a fetch of that link that failed or was refused),
`Consistent`
(what was reported under a link is what the cache says of it) and `Spent` (a link
is fetched at most once, and then is in flight or cached). That crates agree
follows from `Sound`: two different verdicts on a link have two different grounds,
which is what `Doubtful` allows. Each action preserves each part; the
refinement proof maps the start of a verification and the fetch to stuttering,
`Store` and `CacheHit` to the policy's `Approve` or `Refuse`, and an edit to
`Vouch`.

`HeaderScan` and `SafetyScan`. The properties quantify over all ways to cut the
tokens into units, so the invariant says that there is only one: no unit begins
another (`PrefixCode`), and what is read of a unit that has not ended begins
with none (`OpenHasNoUnit`). `Scanned` then places the automaton behind that
cut: up to a position `k` the tokens are `Parsed`, and the state, the depth and
the tokens behind `k` are those of one open unit (`Behind`). A token either
completes that unit or leaves it open, which decides whether the next cut exists
(`TokenParsed`); the depth is the balance of brackets since `k`
(`BalanceStep`). For `RefusesOnlyDebris` a documented preamble is one of those cuts
(`DocumentedIsPreamble`), so a file that may still get a documented header has its
open unit where the automaton is, and the token that ends the scan extends no unit
(`RefusedAtTop`, `RefusedAfterPound`, `Debris`). In `SafetyScan` the `#` and `!` of an attribute are units of
their own that need a bracket below them, which is what the mode `tail`
remembers (`Above`).

`WorkspaceManifest`. `Walked` says of every directory below `dir` that it
holds no workspace and, above the crate, no package, and that `own` tells
whether the crate's manifest was parsed. `Fresh` says nothing is reported before
the walk ends.

`UnsoundConstructor`. `Registered` says `unsound_types` holds exactly the
types that a visited, active, marked struct declares.

`UnsafeScope`. `Inv` says that of the blocks judged exactly those that offend are
reported; the two properties are then facts about trees. Recursion would make
them proofs by induction over data. Instead each takes the deepest or
the shallowest node of a set (`Deepest`, `Shallowest`), which a finite set has
because strict inclusion between finite sets is well-founded. For
`NothingHidden`, a node in an approved statement is on the way down to the
operation or in a child that way does not take (`LeavesPath`); the other side of
an assignment and the operands are plain reads, below which there are only layers
and an atom (`PureBelow`), and nothing else is there (`ShapeSound`). For
`NoFalseAlarm`, where the layers of an expression that needs no unsafe and is no
plain read end, there is something to hoist (`Impure`), and what leads there hides
nothing (`HoistBelow`), unless it is itself a computation, a block or a second
operation (`ShapeAlarm`).

`InlineLiteral`. `Collected` says that from `check_crate` on the two lists are
those of the whole crate, or empty under an allowed root; `FlaggedExactly` says
that the nodes visited are flagged exactly when their verdict against those lists
is a report. Each property is then a fact about verdicts: casts in front of a
sequence of ancestors change no `Stop` that looks through them, no shape
sanctions a 3, and so on, for sequences of any length.

`PolicyBuild`. `Outcomes` ties exit codes to findings (a driver that ended well
linted its unit and found nothing; one with findings ended badly, though not
every one that ended badly has findings), `Reported` the findings of
`non_test_panic_allow` to `check_attribute`, `Settled` says that no driver runs
before the probe is answered or after the verdict, and `Configured` that a driver
runs only behind an answered probe, so as `RUSTC_WRAPPER` and with a working
compiler, and that it gets to compile a member only with the compiler's path, and no
other, in front (`CalledAsWrapper`). The refinement maps a compilation that type-checks to the gate's
`Lint`, `Finish` to `Pass` or `Fail`, a failed probe to `Fail`, and everything
else to stuttering.

What the abstract machines are for. `ApprovalPolicy` and `PolicyGate` each state
a `Promise`; it is proved of the abstract machine alone (`PolicyKeeps`,
`GateKeeps`), whose steps are few, and the refinement carries it over to the
interleaved one (`SilentMeansSettled`, `PassedMeansLinted`).

Model-checked only: liveness (`EveryCrateLinted`, `Terminates`, `BuildEnds`).
Reasoning about fairness is out of the prover's reach, but what these properties
rest on besides fairness is proved. `CallsRunOut`, `WalkBounded` and
`BuildAdvances` say that each step strictly lowers a measure no other step
raises, so that no behaviour goes on for ever; `NeverStuck` says that a build
without a verdict has a next step (in `CanLaunch` and `CanFinish` the guards of
`Launch` and `Finish` are spelled out, as `ENABLED` cannot be expanded). Not
proved is the conclusion from these that the end is reached.

## Not modelled

The fixture loops of the CI self-test, which are shell scripts that conclude from
exit codes (the step they test is in `PolicyBuild`); the action's clippy and
rustdoc steps, which are other tools; `fixture-derive` and the build scripts,
which have no behaviour of the linter; wording of diagnostics; debug output; the
full lists of macro, method and primitive names; the comparison of a constant's
name with its text. rustc itself (traversal, levels, types, name resolution),
rustc_lexer, pulldown-cmark, url, toml, cargo's job queue and GitHub appear as
what the code asks of them.

The header of a call is read from disk when the call is linted, not from the
text that is compiled. The runs edit files between calls, and the policy holds
for the header that was read; no property relates it to the compiled text, which
the model does not have.

## Plan

Done: the six lints, the core, the driver and the build around them, with
proofs of every safety property that a run checks. Left, in this order:

1. `CustomParser` with a `HeaderScan` run behind `HeaderLookup`, so that the
   header comes from tokens, and a file saved in the middle of a scan.
2. The CI self-test: what the fixture loops may conclude from exit codes, given
   the drivers of `PolicyBuild`.
