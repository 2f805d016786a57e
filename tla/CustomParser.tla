----------------------------- MODULE CustomParser -----------------------------
(***************************************************************************)
(* The custom_parser lint: every driver process (cargo starts one rustc    *)
(* per crate, several at a time) visits the call expressions of its crate; *)
(* a call to a hand-parsing primitive is silent only under a header whose  *)
(* approval the linter verified LIVE on GitHub.  Verdicts are cached per   *)
(* process.  Around the processes the world moves: comments are edited or  *)
(* deleted, source files are saved, curl fails, GitHub refuses.            *)
(*                                                                         *)
(* One call of check_parser_primitive is the sequence of steps its blocking*)
(* calls delimit: read the file's header, look in the cache, wait for      *)
(* curl, store the verdict and report.                                     *)
(***************************************************************************)
EXTENDS ApprovalLink, LintLevels, FiniteSets

CONSTANTS
  Procs,         \* driver processes
  Files,         \* source files
  Urls,          \* https links a header may carry
  Logins,        \* GitHub accounts
  Maintainers,   \* MAINTAINERS
  NoLogin,       \* "login" of a reply that is JSON but no comment
  MaxCalls,      \* bound: call expressions per crate
  MaxChanges     \* bound: edits of comments and files during the build

ASSUME NoUrlAssumption == NoUrl \notin Urls
ASSUME NoEndpointAssumption ==
  \A u \in Urls : IsPermalink(u) => api_endpoint(u) # NoEndpoint
ASSUME NoLoginAssumption == NoLogin \notin Maintainers
ASSUME BoundsAssumption == MaxCalls \in Nat /\ MaxChanges \in Nat

\* Where the approval sentence stands in a comment's markdown, if anywhere.
\* Inline code is Event::Code, which is skipped: there it is as good as absent.
Body == {"prose", "code_block", "absent"}

\* A JSON reply.  The Refusal has no v["user"]["login"] that is a string: a
\* deleted comment, or an HTTP error of any kind.
Refusal == [login |-> NoLogin, body |-> "absent"]
Comment == [login : Logins, body : Body] \cup {Refusal}

Endpoints == {api_endpoint(u) : u \in Urls} \ {NoEndpoint}

Verdict == {"approved", "rejected", "unverifiable"}
Unset == "unset"

\* hir::ExprKind and the PARSER_PRIMITIVES look-up: only a call that
\* resolves to a def path of the table is of interest.
Call == [level : Level, callee : {"unresolved", "other", "primitive"},
         file : Files]

VARIABLES
  header,    \* header[f]: what file_approval_url(f) would return now
  comment,   \* comment[e]: the comment GitHub serves at endpoint e
  changes,   \* edits made so far
  pc,        \* pc[p]: "visit", "cached", "fetch", "store"
  url,       \* url[p]: the link being judged
  verdict,   \* verdict[p]: result of verify_approval, to be stored
  cache,     \* cache[p]: CACHE of process p
  calls,     \* calls[p]: call expressions visited
  judged,    \* judged[p]: primitive calls reported on: link and diagnostics
  seen,      \* history: seen[e] is every content comment[e] has had
  faulty,    \* history: links of which some fetch failed or was refused
  fetched    \* history: fetched[p][u] is how often p ran curl for u

world == <<header, comment, changes, seen>>
vars == <<world, pc, url, verdict, cache, calls, judged, faulty, fetched>>

-----------------------------------------------------------------------------

\* serde_json and pulldown-cmark on the reply: the text of a code block
\* arrives as Event::Text, as prose does.
Qualifies(c) == c.login \in Maintainers /\ c.body \in {"prose", "code_block"}

\* Mutant: the author is not checked.
verify_any_author(c) ==
  IF c.body \in {"prose", "code_block"} THEN "approved" ELSE "rejected"

verify_approval(c) == IF Qualifies(c) THEN "approved" ELSE "rejected"

\* Mutant: what cannot be verified is let through.
FailOpen(v) == IF v = "rejected" THEN {v, "primitive"} ELSE {}

\* The diagnostics of one call: a header whose approval does not hold adds
\* approval_failure_note's, the plain finding follows in any case.
Diagnostics(v) == IF v = "approved" THEN {} ELSE {v, "primitive"}

Judged == [url : Urls \cup {NoUrl},
           notes : SUBSET (Verdict \cup {"primitive"})]

Judge(p, u, notes) ==
  /\ judged' = [judged EXCEPT ![p] = @ \cup {[url |-> u, notes |-> notes]}]
  /\ pc' = [pc EXCEPT ![p] = "visit"]
  /\ url' = [url EXCEPT ![p] = NoUrl]

-----------------------------------------------------------------------------

Init ==
  /\ header \in [Files -> Urls \cup {NoUrl}]
  /\ comment \in [Endpoints -> Comment]
  /\ changes = 0
  /\ pc = [p \in Procs |-> "visit"]
  /\ url = [p \in Procs |-> NoUrl]
  /\ verdict = [p \in Procs |-> Unset]
  /\ cache = [p \in Procs |-> [u \in Urls |-> Unset]]
  /\ calls = [p \in Procs |-> 0]
  /\ judged = [p \in Procs |-> {}]
  /\ seen = [e \in Endpoints |-> {comment[e]}]
  /\ faulty = {}
  /\ fetched = [p \in Procs |-> [u \in Urls |-> 0]]

Visit(p) ==
  /\ pc[p] = "visit"
  /\ calls[p] < MaxCalls
  /\ calls' = [calls EXCEPT ![p] = @ + 1]

\* The early returns: inactive level, unresolved callee, not in the table.
Ignore(p, c) ==
  /\ Visit(p)
  /\ ~ (is_active(c.level) /\ c.callee = "primitive")
  /\ UNCHANGED <<world, pc, url, verdict, cache, judged, faulty, fetched>>

\* file_approval_url reads the file from disk, anew for every call.
HeaderLookup(p, c) ==
  /\ Visit(p)
  /\ is_active(c.level) /\ c.callee = "primitive"
  /\ IF header[c.file] = NoUrl
     THEN Judge(p, NoUrl, {"primitive"})
     ELSE /\ pc' = [pc EXCEPT ![p] = "cached"]
          /\ url' = [url EXCEPT ![p] = header[c.file]]
          /\ UNCHANGED judged
  /\ UNCHANGED <<world, verdict, cache, faulty, fetched>>

CacheHit(p) ==
  /\ pc[p] = "cached"
  /\ cache[p][url[p]] # Unset
  /\ Judge(p, url[p], Diagnostics(cache[p][url[p]]))
  /\ UNCHANGED <<world, verdict, cache, calls, faulty, fetched>>

Fetch(p) ==
  /\ pc' = [pc EXCEPT ![p] = "fetch"]
  /\ fetched' = [fetched EXCEPT ![p][url[p]] = @ + 1]
  /\ UNCHANGED verdict

\* Mutant: a link that is no permalink is fetched all the same.
FetchAnyLink(p) ==
  /\ pc[p] = "cached"
  /\ Fetch(p)
  /\ UNCHANGED <<world, url, cache, calls, judged, faulty>>

\* verify_approval up to curl: without an endpoint rejected, no fetch.
BeginVerification(p) ==
  /\ pc[p] = "cached"
  /\ IF api_endpoint(url[p]) = NoEndpoint
     THEN /\ pc' = [pc EXCEPT ![p] = "store"]
          /\ verdict' = [verdict EXCEPT ![p] = "rejected"]
          /\ UNCHANGED fetched
     ELSE Fetch(p)
  /\ UNCHANGED <<world, url, cache, calls, judged, faulty>>

\* Mutant: the cache is not consulted.
NoCacheLookup(p) == BeginVerification(p)

CacheMiss(p) == BeginVerification(p) /\ cache[p][url[p]] = Unset

Fetched(p, v) ==
  /\ pc[p] = "fetch"
  /\ pc' = [pc EXCEPT ![p] = "store"]
  /\ verdict' = [verdict EXCEPT ![p] = v]
  /\ UNCHANGED <<world, url, cache, calls, judged, fetched>>

FetchReply(p) ==
  /\ Fetched(p, verify_approval(comment[api_endpoint(url[p])]))
  /\ UNCHANGED faulty

\* No answer that can be checked: the link's verdict is a failed fetch's.
Unanswered(p) ==
  /\ Fetched(p, "unverifiable")
  /\ faulty' = faulty \cup {url[p]}

\* curl cannot run, exits non-zero by itself or returns no JSON.
FetchFails(p) == Unanswered(p)

\* Mutant: curl is not given a limit, and waits on.
NoTimeOut(p) == pc[p] = "fetch" /\ UNCHANGED vars

\* curl gives up by itself: --max-time 10, exit status 28.
TimeOut(p) == Unanswered(p)

\* curl -s exits 0 on an HTTP error, whose body is JSON: rate limiting.
FetchRefused(p) ==
  /\ Fetched(p, verify_approval(Refusal))
  /\ faulty' = faulty \cup {url[p]}

Report(p, c) ==
  /\ pc[p] = "store"
  /\ cache' = [cache EXCEPT ![p] = c]
  /\ Judge(p, url[p], Diagnostics(verdict[p]))
  /\ verdict' = [verdict EXCEPT ![p] = Unset]
  /\ UNCHANGED <<world, calls, faulty, fetched>>

\* Mutant: the verdict is not cached.
StoreNothing(p) == Report(p, cache[p])

\* Mutant: only conclusive verdicts are cached.
StoreConclusive(p) ==
  Report(p, IF verdict[p] = "unverifiable" THEN cache[p]
            ELSE [cache[p] EXCEPT ![url[p]] = verdict[p]])

\* Mutant: the cache is one verdict, not one per link.
StoreForAll(p) == Report(p, [u \in Urls |-> verdict[p]])

Store(p) == Report(p, [cache[p] EXCEPT ![url[p]] = verdict[p]])

-----------------------------------------------------------------------------

\* The world: somebody edits or deletes a comment, saves a source file.
EditComment(e, c) ==
  /\ changes < MaxChanges
  /\ changes' = changes + 1
  /\ comment' = [comment EXCEPT ![e] = c]
  /\ seen' = [seen EXCEPT ![e] = @ \cup {c}]
  /\ UNCHANGED <<header, pc, url, verdict, cache, calls, judged, faulty,
                 fetched>>

EditFile(f, u) ==
  /\ changes < MaxChanges
  /\ changes' = changes + 1
  /\ header' = [header EXCEPT ![f] = u]
  /\ UNCHANGED <<comment, seen, pc, url, verdict, cache, calls, judged,
                 faulty, fetched>>

\* What the process and its curl do by themselves.
Own(p) ==
  \/ \E c \in Call : Ignore(p, c) \/ HeaderLookup(p, c)
  \/ CacheHit(p)
  \/ CacheMiss(p)
  \/ TimeOut(p)
  \/ Store(p)

\* What the network may do, or never do.
Answer(p) == FetchReply(p) \/ FetchFails(p) \/ FetchRefused(p)

Step(p) == Own(p) \/ Answer(p)

Finished == \A p \in Procs : pc[p] = "visit" /\ calls[p] = MaxCalls

Next ==
  \/ \E p \in Procs : Step(p)
  \/ \E e \in Endpoints, c \in Comment : EditComment(e, c)
  \/ \E f \in Files, u \in Urls \cup {NoUrl} : EditFile(f, u)
  \/ Finished /\ UNCHANGED vars

\* A process runs on, and its curl gives up in time; no answer is promised.
Fairness == \A p \in Procs : WF_vars(Own(p))

Spec == Init /\ [][Next]_vars /\ Fairness

-----------------------------------------------------------------------------

\* Every variable stays in its range.
Ranges ==
  /\ header \in [Files -> Urls \cup {NoUrl}]
  /\ comment \in [Endpoints -> Comment]
  /\ changes \in 0..MaxChanges
  /\ pc \in [Procs -> {"visit", "cached", "fetch", "store"}]
  /\ url \in [Procs -> Urls \cup {NoUrl}]
  /\ verdict \in [Procs -> Verdict \cup {Unset}]
  /\ cache \in [Procs -> [Urls -> Verdict \cup {Unset}]]
  /\ calls \in [Procs -> 0..MaxCalls]
  /\ judged \in [Procs -> SUBSET Judged]
  /\ seen \in [Endpoints -> SUBSET Comment]
  /\ faulty \subseteq Urls
  /\ fetched \in [Procs -> [Urls -> Nat]]

\* A call in flight carries what its step needs, and no more: a link from the
\* look-up on, a verdict only between curl and the cache, and curl is started
\* on nothing but an endpoint.
InFlight(p) ==
  /\ pc[p] = "visit" <=> url[p] = NoUrl
  /\ pc[p] = "store" <=> verdict[p] # Unset
  /\ pc[p] = "fetch" => api_endpoint(url[p]) # NoEndpoint

\* Type correctness: the variables keep to their ranges, a call in flight
\* carries what its step needs, and the comment served is among those seen.
TypeOK ==
  /\ Ranges
  /\ \A p \in Procs : InFlight(p)
  /\ \A e \in Endpoints : comment[e] \in seen[e]

\* The contents a link's comment has had that qualify.
Vouched(u) == IsPermalink(u) /\ \E c \in seen[api_endpoint(u)] : Qualifies(c)

\* Fail closed: a primitive call goes unreported only under a permalink whose
\* comment did, at some time, carry a maintainer's approval; whatever curl
\* does, whenever comments and files are edited, hit or miss in the cache.
FailClosed ==
  \A p \in Procs : \A j \in judged[p] :
    "primitive" \notin j.notes => j.url \in Urls /\ Vouched(j.url)

\* One link, one outcome: inside a process two calls under the same link get
\* the same diagnostics, though the network and the comment change meanwhile.
SameUrlSameOutcome ==
  \A p \in Procs : \A j, k \in judged[p] : j.url = k.url => j.notes = k.notes

\* The rate limit is spent once per link and process: no second curl.
AtMostOneFetch == \A p \in Procs, u \in Urls : fetched[p][u] <= 1

\* Why two verdicts on a link may differ: a fetch of it failed or was refused,
\* or its comment qualified at one time and not at another.
Doubtful(u) ==
  \/ u \in faulty
  \/ /\ IsPermalink(u)
     /\ \E c, d \in seen[api_endpoint(u)] : Qualifies(c) /\ ~ Qualifies(d)

\* Crates of one workspace disagree on a link for no other reason than the
\* link's own: not because of another link's fetch, comment or verdict, and
\* not because a file or an indifferent part of the comment was edited.
CratesAgree ==
  \A p, q \in Procs, u \in Urls :
    {cache[p][u], cache[q][u]} \subseteq Verdict /\ ~ Doubtful(u) =>
      cache[p][u] = cache[q][u]

\* A stored verdict is final for the process.
VerdictStable ==
  [][\A p \in Procs, u \in Urls :
       cache[p][u] # Unset => cache'[p][u] = cache[p][u]]_vars

\* Every crate is linted to its end though no answer ever comes: a call that
\* waits on the network is given up, reported on, and the next one visited.
EveryCrateLinted == <>[]Finished

\* What the policy promises, without processes' steps, fetches or files.
Policy == INSTANCE ApprovalPolicy WITH
            vouched <- {u \in Urls : Vouched(u)}
PolicySpec == Policy!Spec

\* The comment over the markdown pass: "quoting the sentence as a template
\* can never self-approve".  Violated: a code block's text is Event::Text.
QuotedTemplateNeverApproves ==
  \A p \in Procs : \A j \in judged[p] :
    j.notes = {} =>
      \E c \in seen[api_endpoint(j.url)] :
        c.login \in Maintainers /\ c.body = "prose"

=============================================================================
