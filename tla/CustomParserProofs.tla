-------------------------- MODULE CustomParserProofs --------------------------
(***************************************************************************)
(* custom_parser fails closed, consistently and with one fetch per link,   *)
(* for every number of processes, files, links and accounts, whatever the  *)
(* network does and whoever edits meanwhile.                               *)
(***************************************************************************)
EXTENDS CustomParser, TLAPS

\* Process p holds v to be the verdict on u: cached, or about to be.
Held(p, u, v) ==
  \/ cache[p][u] = v
  \/ pc[p] = "store" /\ url[p] = u /\ verdict[p] = v

\* What stands behind a verdict on u: a comment that qualified, one that did
\* not or none that could be asked for, or a fetch that went wrong.
Ground(u, v) ==
  /\ v = "approved" => Vouched(u)
  /\ v = "rejected" =>
       \/ ~ IsPermalink(u)
       \/ u \in faulty
       \/ \E d \in seen[api_endpoint(u)] : ~ Qualifies(d)
  /\ v = "unverifiable" => u \in faulty

\* Where a process stands: a link is judged from the look-up on, waited for
\* only if it is a permalink and unsettled, and its verdict held until stored.
Stage ==
  \A p \in Procs :
    /\ pc[p] = "visit" <=> url[p] = NoUrl
    /\ pc[p] = "store" <=> verdict[p] # Unset
    /\ pc[p] = "fetch" => IsPermalink(url[p])
    /\ pc[p] \in {"fetch", "store"} => cache[p][url[p]] = Unset

\* The comment being served is one of those seen.
Recorded == \A e \in Endpoints : comment[e] \in seen[e]

\* Every verdict held has its ground.
Sound ==
  \A p \in Procs, u \in Urls : \A v \in Verdict : Held(p, u, v) => Ground(u, v)

\* Each outcome is still what the cache says of its link.
Consistent ==
  \A p \in Procs : \A j \in judged[p] :
    \/ j = [url |-> NoUrl, notes |-> {"primitive"}]
    \/ /\ j.url \in Urls /\ cache[p][j.url] \in Verdict
       /\ j.notes = Diagnostics(cache[p][j.url])

\* A link fetched is settled, or being settled.
Spent ==
  \A p \in Procs, u \in Urls :
    /\ fetched[p][u] \in {0, 1}
    /\ fetched[p][u] = 1 =>
         cache[p][u] # Unset \/ (pc[p] \in {"fetch", "store"} /\ url[p] = u)

IInv == Ranges /\ Stage /\ Recorded /\ Sound /\ Consistent /\ Spent

USE NoUrlAssumption, BoundsAssumption DEF BoundsAssumption, NoUrlAssumption

-----------------------------------------------------------------------------
(* The pure parts.                                                         *)

\* The endpoint of a permalink among the links is one of Endpoints.
LEMMA EndpointOfPermalink ==
  ASSUME NEW u \in Urls
  PROVE  /\ IsPermalink(u) => api_endpoint(u) \in Endpoints
         /\ api_endpoint(u) = NoEndpoint <=> ~ IsPermalink(u)
BY NoEndpointAssumption DEF Endpoints, NoEndpointAssumption, api_endpoint

\* A refusal is a comment, and never one that qualifies.
LEMMA RefusalRejected == Refusal \in Comment /\ verify_approval(Refusal) = "rejected"
BY NoLoginAssumption
   DEF Refusal, Comment, verify_approval, Qualifies, NoLoginAssumption

\* Diagnostics are silent exactly on approval.
LEMMA DiagnosticsSilent ==
  ASSUME NEW v \in Verdict
  PROVE  /\ Diagnostics(v) \in SUBSET (Verdict \cup {"primitive"})
         /\ "primitive" \notin Diagnostics(v) <=> v = "approved"
BY DEF Diagnostics, Verdict

\* A verdict on the comment being served has its ground in that comment.
LEMMA VerdictGrounded ==
  ASSUME Recorded, NEW u \in Urls, IsPermalink(u)
  PROVE  LET v == verify_approval(comment[api_endpoint(u)])
         IN  v \in Verdict /\ Ground(u, v)
<1>1. comment[api_endpoint(u)] \in seen[api_endpoint(u)]
  BY EndpointOfPermalink DEF Recorded
<1>2. QED
  BY <1>1 DEF verify_approval, Ground, Vouched, Verdict

\* Unset is no verdict.
LEMMA UnsetNoVerdict == Unset \notin Verdict
BY DEF Unset, Verdict

-----------------------------------------------------------------------------
(* The invariant.                                                          *)

LEMMA InitIInv == Init => IInv
<1> SUFFICES ASSUME Init PROVE IInv
  OBVIOUS
<1>1. Ranges
  <2>1. changes \in 0..MaxChanges /\ calls \in [Procs -> 0..MaxCalls]
    BY DEF Init
  <2>2. verdict \in [Procs -> Verdict \cup {Unset}]
    BY DEF Init
  <2>3. cache \in [Procs -> [Urls -> Verdict \cup {Unset}]]
    BY DEF Init
  <2>4. judged \in [Procs -> SUBSET Judged]
    BY DEF Init
  <2>5. seen \in [Endpoints -> SUBSET Comment]
    BY DEF Init
  <2>6. fetched \in [Procs -> [Urls -> Nat]]
    BY DEF Init
  <2>7. pc \in [Procs -> {"visit", "cached", "fetch", "store"}]
    BY DEF Init
  <2>8. url \in [Procs -> Urls \cup {NoUrl}]
    BY DEF Init
  <2>9. QED
    BY <2>1, <2>2, <2>3, <2>4, <2>5, <2>6, <2>7, <2>8 DEF Init, Ranges
<1>2. Stage
  BY DEF Init, Stage, Unset
<1>3. Recorded
  BY DEF Init, Recorded
<1>4. \A p \in Procs, u \in Urls : \A v \in Verdict : ~ Held(p, u, v)
  BY UnsetNoVerdict DEF Init, Held
<1>5. Sound
  BY <1>4 DEF Sound
<1>6. Consistent
  BY DEF Init, Consistent
<1>7. Spent
  BY DEF Init, Spent
<1>8. QED
  BY <1>1, <1>2, <1>3, <1>5, <1>6, <1>7 DEF IInv

\* A call of no interest only counts.
LEMMA IgnoreStep ==
  ASSUME IInv, NEW p \in Procs, NEW c \in Call, Ignore(p, c)
  PROVE  IInv'
<1> USE DEF IInv
<1>1. UNCHANGED <<world, pc, url, verdict, cache, judged, faulty, fetched>>
  BY DEF Ignore
<1>2. calls' \in [Procs -> 0..MaxCalls]
  BY DEF Ignore, Visit, Ranges
<1>3. Ranges'
  BY <1>1, <1>2 DEF Ranges, world
<1>4. Stage' /\ Recorded' /\ Spent'
  BY <1>1 DEF Stage, Recorded, Spent, world
<1>5. Sound'
  BY <1>1 DEF Sound, Held, Ground, Vouched, world
<1>6. Consistent'
  BY <1>1 DEF Consistent
<1>7. QED
  BY <1>3, <1>4, <1>5, <1>6

\* A step that leaves the verdicts held and the world alone keeps what is
\* said of them.
LEMMA HeldFixed ==
  ASSUME Sound, Recorded, UNCHANGED <<world, faulty>>,
         \A q \in Procs, u \in Urls : \A v \in Verdict :
           Held(q, u, v)' => Held(q, u, v)
  PROVE  Sound' /\ Recorded'
<1>1. \A u, v : Ground(u, v) => Ground(u, v)'
  BY DEF Ground, Vouched, world
<1>2. Sound'
  BY <1>1 DEF Sound
<1>3. QED
  BY <1>2 DEF Recorded, world

\* The header decides: no link, a plain finding; a link, the cache is next.
LEMMA HeaderLookupStep ==
  ASSUME IInv, NEW p \in Procs, NEW c \in Call, HeaderLookup(p, c)
  PROVE  IInv'
<1> USE DEF IInv
<1>1. /\ UNCHANGED <<world, verdict, cache, faulty, fetched>>
      /\ pc[p] = "visit" /\ url[p] = NoUrl /\ verdict[p] = Unset
  BY DEF HeaderLookup, Visit, Stage
<1>2. calls' \in [Procs -> 0..MaxCalls]
  BY DEF HeaderLookup, Visit, Ranges
<1>3. header[c.file] \in Urls \cup {NoUrl}
  BY DEF Ranges, Call
<1>4. CASE header[c.file] = NoUrl
  <2>1. /\ judged' = [judged EXCEPT ![p] = @ \cup {[url |-> NoUrl, notes |-> {"primitive"}]}]
        /\ pc' = [pc EXCEPT ![p] = "visit"]
        /\ url' = [url EXCEPT ![p] = NoUrl]
    BY <1>4 DEF HeaderLookup, Judge
  <2>2. pc' = pc /\ url' = url
    BY <1>1, <2>1 DEF Ranges
  <2>3. [url |-> NoUrl, notes |-> {"primitive"}] \in Judged
    BY DEF Judged
  <2>4. judged' \in [Procs -> SUBSET Judged]
    BY <2>1, <2>3 DEF Ranges
  <2>5. Ranges'
    BY <1>1, <1>2, <2>2, <2>4 DEF Ranges, world
  <2>6. Stage' /\ Spent'
    BY <1>1, <2>2 DEF Stage, Spent
  <2>7. Sound' /\ Recorded'
    BY <1>1, <2>2, HeldFixed DEF Held
  <2>8. Consistent'
    BY <1>1, <2>1 DEF Consistent, Ranges
  <2>9. QED
    BY <2>5, <2>6, <2>7, <2>8
<1>5. CASE header[c.file] \in Urls
  <2>1. /\ pc' = [pc EXCEPT ![p] = "cached"]
        /\ url' = [url EXCEPT ![p] = header[c.file]]
        /\ judged' = judged
    BY <1>5 DEF HeaderLookup
  <2>2. Ranges'
    BY <1>1, <1>2, <1>5, <2>1 DEF Ranges, world
  <2>3. Stage'
    BY <1>1, <1>5, <2>1 DEF Stage, Ranges
  <2>4. Spent'
    BY <1>1, <2>1 DEF Spent, Ranges
  <2>5. Sound' /\ Recorded'
    BY <1>1, <2>1, HeldFixed DEF Held, Ranges
  <2>6. Consistent'
    BY <1>1, <2>1 DEF Consistent
  <2>7. QED
    BY <2>2, <2>3, <2>4, <2>5, <2>6
<1>6. QED
  BY <1>3, <1>4, <1>5

\* A settled link's call gets the outcome the cache says.
LEMMA CacheHitStep ==
  ASSUME IInv, NEW p \in Procs, CacheHit(p)
  PROVE  IInv'
<1> USE DEF IInv
<1> DEFINE v == cache[p][url[p]]
           j == [url |-> url[p], notes |-> Diagnostics(v)]
<1>1. /\ UNCHANGED <<world, verdict, cache, calls, faulty, fetched>>
      /\ pc[p] = "cached" /\ v # Unset
      /\ judged' = [judged EXCEPT ![p] = @ \cup {j}]
      /\ pc' = [pc EXCEPT ![p] = "visit"]
      /\ url' = [url EXCEPT ![p] = NoUrl]
  BY DEF CacheHit, Judge
<1>2. url[p] \in Urls /\ v \in Verdict
  BY <1>1 DEF Stage, Ranges
<1>3. j \in Judged
  BY <1>2, DiagnosticsSilent DEF Judged
<1>4. judged' \in [Procs -> SUBSET Judged]
  BY <1>1, <1>3 DEF Ranges
<1>5. Ranges'
  BY <1>1, <1>4 DEF Ranges, world
<1>6. Stage'
  BY <1>1 DEF Stage, Ranges
<1>7. Spent'
  BY <1>1 DEF Spent, Ranges
<1>8. Sound' /\ Recorded'
  BY <1>1, HeldFixed DEF Held, Ranges
<1>9. Consistent'
  BY <1>1, <1>2 DEF Consistent, Ranges
<1>10. QED
  BY <1>5, <1>6, <1>7, <1>8, <1>9

\* An unsettled link: rejected on its shape, or fetched for the first time.
LEMMA CacheMissStep ==
  ASSUME IInv, NEW p \in Procs, CacheMiss(p)
  PROVE  IInv'
<1> USE DEF IInv
<1>1. /\ UNCHANGED <<world, url, cache, calls, judged, faulty>>
      /\ pc[p] = "cached" /\ cache[p][url[p]] = Unset
  BY DEF CacheMiss, BeginVerification
<1>2. url[p] \in Urls
  BY <1>1 DEF Stage, Ranges
<1>3. Consistent'
  BY <1>1 DEF Consistent
<1>4. CASE ~ IsPermalink(url[p])
  <2>1. /\ pc' = [pc EXCEPT ![p] = "store"]
        /\ verdict' = [verdict EXCEPT ![p] = "rejected"]
        /\ fetched' = fetched
    BY <1>2, <1>4, EndpointOfPermalink DEF CacheMiss, BeginVerification
  <2>2. "rejected" \in Verdict /\ "rejected" # Unset
    BY DEF Verdict, Unset
  <2>3. Ranges'
    BY <1>1, <2>1, <2>2 DEF Ranges, world
  <2>4. Stage'
    BY <1>1, <1>2, <2>1, <2>2 DEF Stage, Ranges
  <2>5. Spent'
    BY <1>1, <2>1 DEF Spent, Ranges
  <2>6. \A u, v : Ground(u, v) => Ground(u, v)'
    BY <1>1 DEF Ground, Vouched, world
  <2>7. Ground(url[p], "rejected")
    BY <1>4 DEF Ground
  <2>8. Sound'
    BY <1>1, <2>1, <2>6, <2>7 DEF Sound, Held, Ranges
  <2>9. Recorded'
    BY <1>1 DEF Recorded, world
  <2>10. QED
    BY <1>3, <2>3, <2>4, <2>5, <2>8, <2>9
<1>5. CASE IsPermalink(url[p])
  <2>1. /\ pc' = [pc EXCEPT ![p] = "fetch"]
        /\ fetched' = [fetched EXCEPT ![p][url[p]] = @ + 1]
        /\ verdict' = verdict
    BY <1>2, <1>5, EndpointOfPermalink DEF CacheMiss, BeginVerification, Fetch
  <2>2. fetched[p][url[p]] = 0
    BY <1>1, <1>2 DEF Spent
  <2>3. fetched' \in [Procs -> [Urls -> Nat]]
    BY <1>2, <2>1, <2>2 DEF Ranges
  <2>4. Ranges'
    BY <1>1, <2>1, <2>3 DEF Ranges, world
  <2>5. Stage'
    BY <1>1, <1>5, <2>1 DEF Stage, Ranges
  <2>6. Spent'
    <3>1. ASSUME NEW q \in Procs, NEW u \in Urls
          PROVE  fetched'[q][u] = IF q = p /\ u = url[p] THEN 1 ELSE fetched[q][u]
      BY <1>2, <2>1, <2>2 DEF Ranges
    <3>2. ASSUME NEW q \in Procs
          PROVE  pc'[q] = IF q = p THEN "fetch" ELSE pc[q]
      BY <2>1 DEF Ranges
    <3>3. QED
      BY <1>1, <3>1, <3>2 DEF Spent
  <2>7. Sound' /\ Recorded'
    BY <1>1, <2>1, HeldFixed DEF Held, Ranges
  <2>8. QED
    BY <1>3, <2>4, <2>5, <2>6, <2>7
<1>6. QED
  BY <1>4, <1>5

\* curl has ended with a verdict v that has its ground.
LEMMA FetchedStep ==
  ASSUME IInv, NEW p \in Procs, NEW v \in Verdict, Fetched(p, v),
         faulty' \subseteq Urls, faulty \subseteq faulty',
         Ground(url[p], v)'
  PROVE  IInv'
<1> USE DEF IInv
<1>1. /\ UNCHANGED <<world, url, cache, calls, judged, fetched>>
      /\ pc[p] = "fetch"
      /\ pc' = [pc EXCEPT ![p] = "store"]
      /\ verdict' = [verdict EXCEPT ![p] = v]
  BY DEF Fetched
<1>2. v # Unset
  BY UnsetNoVerdict
<1>3. Ranges'
  BY <1>1 DEF Ranges, world
<1>4. Stage'
  BY <1>1, <1>2 DEF Stage, Ranges
<1>5. Spent'
  BY <1>1 DEF Spent, Ranges
<1>6. ASSUME NEW q \in Procs, NEW u \in Urls, NEW w \in Verdict, Held(q, u, w)'
      PROVE  Held(q, u, w) \/ (q = p /\ u = url[p] /\ w = v)
  BY <1>1, <1>6 DEF Held, Ranges
<1>7. \A u, w : Ground(u, w) => Ground(u, w)'
  BY <1>1 DEF Ground, Vouched, world
<1>8. Ground(url[p], v)' => \A u : u = url[p] => Ground(u, v)'
  BY <1>1 DEF Ground, Vouched
<1>9. Sound'
  BY <1>6, <1>7, <1>8 DEF Sound
<1>10. Recorded' /\ Consistent'
  BY <1>1 DEF Recorded, Consistent, world
<1>11. QED
  BY <1>3, <1>4, <1>5, <1>9, <1>10

\* The ways curl ends: with a reply, with none that can be checked, refused.
LEMMA FetchStep ==
  ASSUME IInv, NEW p \in Procs, Answer(p) \/ TimeOut(p)
  PROVE  IInv'
<1>1. /\ url[p] \in Urls /\ IsPermalink(url[p]) /\ faulty \subseteq Urls
      /\ url' = url /\ UNCHANGED world
  BY DEF IInv, Stage, Ranges, Answer, TimeOut, Unanswered, FetchReply, FetchFails,
         FetchRefused, Fetched
<1>2. CASE FetchReply(p)
  <2> DEFINE v == verify_approval(comment[api_endpoint(url[p])])
  <2>1. v \in Verdict /\ Ground(url[p], v)
    BY <1>1, VerdictGrounded DEF IInv
  <2>2. Fetched(p, v) /\ faulty' = faulty
    BY <1>2 DEF FetchReply
  <2> HIDE DEF v
  <2>3. (url[p])' = url[p] /\ v \in Verdict
    BY <1>1, <2>1
  <2>4. ASSUME NEW w \in Verdict, w = v, Ground(url[p], w) PROVE Ground(url[p], w)'
    BY <1>1, <2>2, <2>4 DEF Ground, Vouched, world
  <2>5. PICK w \in Verdict : w = v
    BY <2>1
  <2>6. QED
    BY <1>1, <2>1, <2>2, <2>4, <2>5, FetchedStep
<1>3. CASE Unanswered(p)
  <2>1. /\ "unverifiable" \in Verdict /\ Fetched(p, "unverifiable")
        /\ faulty' = faulty \cup {url[p]}
    BY <1>3 DEF Unanswered, Verdict
  <2>2. Ground(url[p], "unverifiable")'
    BY <1>1, <2>1 DEF Ground
  <2>3. QED
    BY <1>1, <2>1, <2>2, FetchedStep
<1>4. CASE FetchRefused(p)
  <2>1. /\ "rejected" \in Verdict /\ Fetched(p, "rejected")
        /\ faulty' = faulty \cup {url[p]}
    BY <1>4, RefusalRejected DEF FetchRefused, Verdict
  <2>2. Ground(url[p], "rejected")'
    BY <1>1, <2>1 DEF Ground
  <2>3. QED
    BY <1>1, <2>1, <2>2, FetchedStep
<1>5. QED
  BY <1>2, <1>3, <1>4 DEF Answer, TimeOut, FetchFails

\* The verdict held becomes the cached one, the call its outcome.
LEMMA StoreStep ==
  ASSUME IInv, NEW p \in Procs, Store(p)
  PROVE  IInv'
<1> USE DEF IInv
<1> DEFINE j == [url |-> url[p], notes |-> Diagnostics(verdict[p])]
<1>1. /\ UNCHANGED <<world, calls, faulty, fetched>>
      /\ pc[p] = "store"
      /\ cache' = [cache EXCEPT ![p] = [cache[p] EXCEPT ![url[p]] = verdict[p]]]
      /\ judged' = [judged EXCEPT ![p] = @ \cup {j}]
      /\ pc' = [pc EXCEPT ![p] = "visit"]
      /\ url' = [url EXCEPT ![p] = NoUrl]
      /\ verdict' = [verdict EXCEPT ![p] = Unset]
  BY DEF Store, Report, Judge
<1>2. url[p] \in Urls /\ verdict[p] \in Verdict /\ cache[p][url[p]] = Unset
  BY <1>1 DEF Stage, Ranges
<1>3. ASSUME NEW q \in Procs, NEW u \in Urls
      PROVE  cache'[q][u] = IF q = p /\ u = url[p] THEN verdict[p] ELSE cache[q][u]
  BY <1>1, <1>2 DEF Ranges
<1>4. Ranges'
  <2>1. cache' \in [Procs -> [Urls -> Verdict \cup {Unset}]]
    BY <1>1, <1>2 DEF Ranges
  <2>2. j \in Judged
    BY <1>2, DiagnosticsSilent DEF Judged
  <2>3. judged' \in [Procs -> SUBSET Judged]
    BY <1>1, <2>2 DEF Ranges
  <2>4. QED
    BY <1>1, <2>1, <2>3 DEF Ranges, world
<1>5. Stage'
  <2>1. ASSUME NEW q \in Procs, q # p
        PROVE  pc'[q] = pc[q] /\ url'[q] = url[q] /\ verdict'[q] = verdict[q]
                 /\ cache'[q] = cache[q]
    BY <1>1, <2>1 DEF Ranges
  <2>2. pc'[p] = "visit" /\ url'[p] = NoUrl /\ verdict'[p] = Unset
    BY <1>1 DEF Ranges
  <2>3. QED
    BY <2>1, <2>2 DEF Stage
<1>6. Spent'
  <2>1. \A q \in Procs : q # p => pc'[q] = pc[q] /\ url'[q] = url[q]
    BY <1>1 DEF Ranges
  <2>2. verdict[p] # Unset
    BY <1>2, UnsetNoVerdict
  <2>3. QED
    BY <1>1, <1>3, <2>1, <2>2 DEF Spent
<1>7. ASSUME NEW q \in Procs, NEW u \in Urls, NEW w \in Verdict, Held(q, u, w)'
      PROVE  Held(q, u, w)
  BY <1>1, <1>2, <1>3, <1>7, UnsetNoVerdict DEF Held, Ranges
<1>8. Sound' /\ Recorded'
  BY <1>1, <1>7, HeldFixed
<1>9. Consistent'
  <2>1. ASSUME NEW q \in Procs, NEW u \in Urls, cache[q][u] \in Verdict
        PROVE  cache'[q][u] = cache[q][u]
    BY <1>2, <1>3, <2>1, UnsetNoVerdict
  <2>2. ASSUME NEW q \in Procs, NEW k \in judged'[q]
        PROVE  k \in judged[q] \/ (q = p /\ k = j)
    BY <1>1, <2>2 DEF Ranges
  <2>3. cache'[p][j.url] = verdict[p] /\ j.url = url[p] /\ j.notes = Diagnostics(verdict[p])
    BY <1>2, <1>3
  <2> HIDE DEF j
  <2>4. ASSUME NEW q \in Procs, NEW k \in judged[q]
        PROVE  \/ k = [url |-> NoUrl, notes |-> {"primitive"}]
               \/ /\ k.url \in Urls /\ cache'[q][k.url] \in Verdict
                  /\ k.notes = Diagnostics(cache'[q][k.url])
    BY <2>1, <2>4 DEF Consistent
  <2>5. QED
    BY <1>2, <2>2, <2>3, <2>4 DEF Consistent
<1>10. QED
  BY <1>4, <1>5, <1>6, <1>8, <1>9

\* What has once vouched for a link does so for ever.
LEMMA VouchedGrows ==
  ASSUME Ranges, [Next]_vars, NEW u \in Urls, Vouched(u)
  PROVE  Vouched(u)'
<1>1. api_endpoint(u) \in Endpoints
  BY EndpointOfPermalink DEF Vouched
<1>2. ASSUME NEW p \in Procs, Step(p) PROVE UNCHANGED seen
  <2>1. CASE Own(p)
    BY <2>1 DEF Own, Ignore, HeaderLookup, CacheHit, CacheMiss, BeginVerification,
                TimeOut, Unanswered, Fetched, Store, Report, world
  <2>2. CASE Answer(p)
    BY <2>2 DEF Answer, FetchReply, FetchFails, FetchRefused, Unanswered, Fetched, world
  <2>3. QED
    BY <1>2, <2>1, <2>2 DEF Step
<1>3. \A e \in Endpoints : seen[e] \subseteq seen'[e]
  BY <1>2 DEF Ranges, Next, EditComment, EditFile, vars, world
<1>4. QED
  BY <1>1, <1>3 DEF Vouched

\* An edited comment is recorded, and is ground for no less.
LEMMA EditCommentStep ==
  ASSUME IInv, NEW e \in Endpoints, NEW c \in Comment, EditComment(e, c)
  PROVE  IInv'
<1> USE DEF IInv
<1>1. /\ UNCHANGED <<header, pc, url, verdict, cache, calls, judged, faulty, fetched>>
      /\ changes < MaxChanges /\ changes' = changes + 1
      /\ comment' = [comment EXCEPT ![e] = c]
      /\ seen' = [seen EXCEPT ![e] = @ \cup {c}]
  BY DEF EditComment
<1>2. changes' \in 0..MaxChanges /\ changes' # 0
  BY <1>1 DEF Ranges
<1>3. seen' \in [Endpoints -> SUBSET Comment]
  BY <1>1 DEF Ranges
<1>4. Ranges'
  BY <1>1, <1>2, <1>3 DEF Ranges
<1>5. Stage' /\ Spent'
  BY <1>1 DEF Stage, Spent
<1>6. Recorded'
  BY <1>1 DEF Recorded, Ranges
<1>7. ASSUME NEW u \in Urls, NEW v \in Verdict, Ground(u, v) PROVE Ground(u, v)'
  <2>1. Vouched(u) => Vouched(u)'
    BY VouchedGrows DEF Next
  <2>2. IsPermalink(u) => seen[api_endpoint(u)] \subseteq seen'[api_endpoint(u)]
    BY <1>1, EndpointOfPermalink DEF Ranges
  <2>3. QED
    BY <1>1, <1>7, <2>1, <2>2 DEF Ground
<1>8. Sound'
  BY <1>1, <1>7 DEF Sound, Held
<1>9. Consistent'
  BY <1>1 DEF Consistent
<1>10. QED
  BY <1>4, <1>5, <1>6, <1>8, <1>9

\* A saved file matters to the next look-up only.
LEMMA EditFileStep ==
  ASSUME IInv, NEW f \in Files, NEW u \in Urls \cup {NoUrl}, EditFile(f, u)
  PROVE  IInv'
<1> USE DEF IInv
<1>1. /\ UNCHANGED <<comment, seen, pc, url, verdict, cache, calls, judged, faulty, fetched>>
      /\ changes < MaxChanges /\ changes' = changes + 1
      /\ header' = [header EXCEPT ![f] = u]
  BY DEF EditFile
<1>2. changes' \in 0..MaxChanges /\ changes' # 0
  BY <1>1 DEF Ranges
<1>3. Ranges'
  BY <1>1, <1>2 DEF Ranges
<1>4. Stage' /\ Spent' /\ Recorded' /\ Consistent'
  BY <1>1 DEF Stage, Spent, Recorded, Consistent
<1>5. Sound'
  BY <1>1 DEF Sound, Held, Ground, Vouched
<1>6. QED
  BY <1>3, <1>4, <1>5

\* Nothing happens, or nothing is left to happen.
LEMMA StutterStep ==
  ASSUME IInv, UNCHANGED vars
  PROVE  IInv'
<1> USE DEF IInv, vars, world
<1>1. Ranges'
  BY DEF Ranges
<1>2. Stage' /\ Spent' /\ Recorded' /\ Consistent'
  BY DEF Stage, Spent, Recorded, Consistent
<1>3. Sound'
  BY DEF Sound, Held, Ground, Vouched
<1>4. QED
  BY <1>1, <1>2, <1>3

LEMMA StepIInv == IInv /\ [Next]_vars => IInv'
<1> SUFFICES ASSUME IInv, [Next]_vars PROVE IInv'
  OBVIOUS
<1>1. ASSUME NEW p \in Procs, Step(p) PROVE IInv'
  <2>1. CASE \E c \in Call : Ignore(p, c) \/ HeaderLookup(p, c)
    BY <2>1, IgnoreStep, HeaderLookupStep
  <2>2. CASE CacheHit(p)
    BY <2>2, CacheHitStep
  <2>3. CASE CacheMiss(p)
    BY <2>3, CacheMissStep
  <2>4. CASE Answer(p) \/ TimeOut(p)
    BY <2>4, FetchStep
  <2>5. CASE Store(p)
    BY <2>5, StoreStep
  <2>6. QED
    BY <1>1, <2>1, <2>2, <2>3, <2>4, <2>5 DEF Step, Own
<1>2. ASSUME NEW e \in Endpoints, NEW c \in Comment, EditComment(e, c) PROVE IInv'
  BY <1>2, EditCommentStep
<1>3. ASSUME NEW f \in Files, NEW u \in Urls \cup {NoUrl}, EditFile(f, u) PROVE IInv'
  BY <1>3, EditFileStep
<1>4. CASE UNCHANGED vars
  BY <1>4, StutterStep
<1>5. QED
  BY <1>1, <1>2, <1>3, <1>4 DEF Next

\* The inductive invariant holds throughout.
THEOREM Invariance == Spec => []IInv
BY InitIInv, StepIInv, PTL DEF Spec

-----------------------------------------------------------------------------
(* The properties.                                                         *)

\* No step applies a cache, a history or an endpoint outside its domain, and
\* no call in flight lacks what its next step needs.
THEOREM TypeCorrect == Spec => []TypeOK
<1>1. ASSUME IInv PROVE TypeOK
  <2>1. ASSUME NEW p \in Procs PROVE InFlight(p)
    <3>1. pc[p] = "fetch" => url[p] \in Urls
      BY <1>1 DEF IInv, Stage, Ranges
    <3>2. QED
      BY <1>1, <3>1, EndpointOfPermalink DEF IInv, Stage, InFlight
  <2>2. QED
    BY <1>1, <2>1 DEF IInv, Recorded, TypeOK
<1>2. QED
  BY <1>1, Invariance, PTL

\* A primitive call is silent only under a permalink whose comment once was a
\* maintainer's approval.
THEOREM FailsClosed == Spec => []FailClosed
<1>1. IInv => FailClosed
  <2> SUFFICES ASSUME IInv, NEW p \in Procs, NEW j \in judged[p],
                      "primitive" \notin j.notes
               PROVE  j.url \in Urls /\ Vouched(j.url)
    BY DEF FailClosed
  <2>1. /\ j.url \in Urls /\ cache[p][j.url] \in Verdict
        /\ j.notes = Diagnostics(cache[p][j.url])
    BY DEF IInv, Consistent
  <2>2. cache[p][j.url] = "approved"
    BY <2>1, DiagnosticsSilent
  <2>3. QED
    BY <2>1, <2>2 DEF IInv, Sound, Held, Ground
<1>2. QED
  BY <1>1, Invariance, PTL

\* Two calls of a crate under one link are never told apart.
THEOREM OneOutcomePerUrl == Spec => []SameUrlSameOutcome
<1>1. IInv => SameUrlSameOutcome
  BY DEF IInv, Consistent, SameUrlSameOutcome
<1>2. QED
  BY <1>1, Invariance, PTL

\* A crate asks GitHub at most once for a link.
THEOREM OneFetchPerUrl == Spec => []AtMostOneFetch
<1>1. IInv => AtMostOneFetch
  BY DEF IInv, Spent, AtMostOneFetch
<1>2. QED
  BY <1>1, Invariance, PTL

\* Any number of crates agree on every link that no failed fetch and no edit
\* of its comment has made doubtful.
THEOREM Agreement == Spec => []CratesAgree
<1>1. IInv => CratesAgree
  <2> SUFFICES ASSUME IInv, NEW p \in Procs, NEW q \in Procs, NEW u \in Urls,
                      cache[p][u] \in Verdict, cache[q][u] \in Verdict, ~ Doubtful(u)
               PROVE  cache[p][u] = cache[q][u]
    BY DEF CratesAgree
  <2>1. Ground(u, cache[p][u]) /\ Ground(u, cache[q][u])
    BY DEF IInv, Sound, Held
  <2>2. QED
    BY <2>1 DEF Ground, Doubtful, Vouched, Verdict
<1>2. QED
  BY <1>1, Invariance, PTL

\* The only step that writes a cache writes an unset entry.
THEOREM VerdictsFinal == Spec => VerdictStable
<1> DEFINE Stable == \A p \in Procs, u \in Urls :
                       cache[p][u] # Unset => cache'[p][u] = cache[p][u]
<1>1. IInv /\ [Next]_vars => [Stable]_vars
  <2> SUFFICES ASSUME IInv, [Next]_vars PROVE Stable
    OBVIOUS
  <2>1. CASE \E p \in Procs : Store(p)
    <3>1. PICK p \in Procs : Store(p)
      BY <2>1
    <3>2. /\ cache' = [cache EXCEPT ![p] = [cache[p] EXCEPT ![url[p]] = verdict[p]]]
          /\ cache[p][url[p]] = Unset
      BY <3>1 DEF Store, Report, IInv, Stage
    <3>3. QED
      BY <3>2 DEF IInv, Ranges
  <2>2. CASE UNCHANGED cache
    BY <2>2
  <2>3. (\E p \in Procs : Store(p)) \/ UNCHANGED cache
    BY DEF Next, Step, Ignore, HeaderLookup, CacheHit, CacheMiss,
           BeginVerification, Fetch, Own, Answer, TimeOut, Unanswered, FetchReply,
           FetchFails, FetchRefused, Fetched, EditComment, EditFile, vars
  <2>4. QED
    BY <2>1, <2>2, <2>3
<1>2. QED
  BY <1>1, Invariance, PTL DEF Spec, VerdictStable

-----------------------------------------------------------------------------
(* The processes implement the policy.                                     *)

\* The links vouched for, as the policy sees them.
VouchedUrls == {u \in Urls : Vouched(u)}

\* An outcome under a link held at verdict v is an Approve or a Refuse.
LEMMA OutcomeStep ==
  ASSUME IInv, NEW p \in Procs, NEW u \in Urls, NEW v \in Verdict,
         cache[p][u] \in {Unset, v}, v = "approved" => Vouched(u),
         cache' = [cache EXCEPT ![p][u] = v],
         judged' = [judged EXCEPT ![p] = @ \cup {[url |-> u, notes |-> Diagnostics(v)]}],
         VouchedUrls' = VouchedUrls
  PROVE  Policy!Next
<1>1. CASE v = "approved"
  <2>1. Diagnostics(v) = {}
    BY <1>1 DEF Diagnostics
  <2>2. Policy!Approve(p, u)
    BY <1>1, <2>1 DEF Policy!Approve, Policy!Report, Policy!Outcome, VouchedUrls, Unset
  <2>3. QED
    BY <2>2 DEF Policy!Next
<1>2. CASE v # "approved"
  <2>1. Diagnostics(v) = {v, "primitive"} /\ v \in {"rejected", "unverifiable"}
    BY <1>2 DEF Diagnostics, Verdict
  <2>2. Policy!Refuse(p, u, v)
    BY <2>1 DEF Policy!Refuse, Policy!Report, Policy!Outcome, VouchedUrls, Unset
  <2>3. QED
    BY <2>1, <2>2 DEF Policy!Next
<1>3. QED
  BY <1>1, <1>2

\* Every step of the processes and of the world is a step of the policy, or
\* one the policy does not see.
LEMMA StepPolicy == IInv /\ [Next]_vars => [Policy!Next]_(Policy!vars)
<1> SUFFICES ASSUME IInv, [Next]_vars
             PROVE  Policy!Next \/ UNCHANGED <<VouchedUrls, cache, judged>>
  BY DEF Policy!vars, VouchedUrls
<1>1. ASSUME UNCHANGED seen
      PROVE  VouchedUrls' = VouchedUrls
  BY <1>1 DEF VouchedUrls, Vouched
<1>2. ASSUME NEW p \in Procs, NEW c \in Call, HeaderLookup(p, c)
      PROVE  Policy!Next \/ UNCHANGED <<VouchedUrls, cache, judged>>
  <2>1. UNCHANGED <<seen, cache>>
    BY <1>2 DEF HeaderLookup, world
  <2>2. CASE UNCHANGED judged
    BY <1>1, <2>1, <2>2
  <2>3. CASE judged' = [judged EXCEPT ![p] = @ \cup {[url |-> NoUrl, notes |-> {"primitive"}]}]
    <3>1. Policy!Uncited(p)
      BY <1>1, <2>1, <2>3 DEF Policy!Uncited, Policy!Report, Policy!Outcome, VouchedUrls
    <3>2. QED
      BY <3>1 DEF Policy!Next
  <2>4. QED
    BY <1>2, <2>2, <2>3 DEF HeaderLookup, Judge
<1>3. ASSUME NEW p \in Procs, CacheHit(p)
      PROVE  Policy!Next
  <2> DEFINE u == url[p]
             v == cache[p][u]
  <2>1. UNCHANGED <<seen, cache>> /\ pc[p] = "cached" /\ v # Unset
    BY <1>3 DEF CacheHit, world
  <2>2. u \in Urls /\ v \in Verdict
    BY <2>1 DEF IInv, Stage, Ranges
  <2>3. cache' = [cache EXCEPT ![p][u] = v]
    BY <2>1, <2>2 DEF IInv, Ranges
  <2>4. judged' = [judged EXCEPT ![p] = @ \cup {[url |-> u, notes |-> Diagnostics(v)]}]
    BY <1>3 DEF CacheHit, Judge
  <2>5. v = "approved" => Vouched(u)
    BY <2>2 DEF IInv, Sound, Held, Ground, Verdict
  <2> HIDE DEF u
  <2>6. QED
    BY <1>1, <2>1, <2>2, <2>3, <2>4, <2>5, OutcomeStep
<1>4. ASSUME NEW p \in Procs, Store(p)
      PROVE  Policy!Next
  <2> DEFINE u == url[p]
             v == verdict[p]
  <2>1. UNCHANGED seen /\ pc[p] = "store"
    BY <1>4 DEF Store, Report, world
  <2>2. u \in Urls /\ v \in Verdict /\ cache[p][u] = Unset
    BY <2>1 DEF IInv, Stage, Ranges
  <2>3. cache' = [cache EXCEPT ![p][u] = v]
    BY <1>4 DEF Store, Report, IInv, Ranges
  <2>4. judged' = [judged EXCEPT ![p] = @ \cup {[url |-> u, notes |-> Diagnostics(v)]}]
    BY <1>4 DEF Store, Report, Judge
  <2>5. v = "approved" => Vouched(u)
    BY <2>1, <2>2 DEF IInv, Sound, Held, Ground, Verdict
  <2> HIDE DEF u, v
  <2>6. QED
    BY <1>1, <2>1, <2>2, <2>3, <2>4, <2>5, OutcomeStep
<1>5. ASSUME NEW e \in Endpoints, NEW c \in Comment, EditComment(e, c)
      PROVE  Policy!Next
  <2>1. UNCHANGED <<cache, judged>>
    BY <1>5 DEF EditComment
  <2>2. VouchedUrls' = VouchedUrls \cup VouchedUrls'
    BY VouchedGrows DEF VouchedUrls, IInv
  <2>3. VouchedUrls' \in SUBSET Urls
    BY DEF VouchedUrls
  <2>4. Policy!Vouch(VouchedUrls')
    BY <2>1, <2>2 DEF Policy!Vouch, VouchedUrls
  <2>5. QED
    BY <2>3, <2>4 DEF Policy!Next
<1>6. \/ \E p \in Procs, c \in Call : HeaderLookup(p, c)
      \/ \E p \in Procs : CacheHit(p) \/ Store(p)
      \/ \E e \in Endpoints, c \in Comment : EditComment(e, c)
      \/ UNCHANGED <<seen, cache, judged>>
  BY DEF Next, Step, Own, Answer, Ignore, CacheMiss, BeginVerification, Fetch, TimeOut,
         Unanswered, FetchReply, FetchFails, FetchRefused, Fetched, EditFile, vars, world
<1>7. QED
  BY <1>1, <1>2, <1>3, <1>4, <1>5, <1>6

\* The processes, the network and the editors together do nothing the policy
\* does not allow.
THEOREM ImplementsPolicy == Spec => PolicySpec
<1>1. Init => Policy!Init
  BY DEF Init, Policy!Init, Unset
<1>2. QED
  BY <1>1, StepPolicy, Invariance, PTL DEF Spec, PolicySpec, Policy!Spec

\* The policy's own invariant: its promise, and the ranges it needs.
Settled == {"approved", "rejected", "unverifiable"}
Note == Settled \cup {"primitive"}
PolicyInv ==
  /\ VouchedUrls \subseteq Urls
  /\ cache \in [Procs -> [Urls -> {"unset"} \cup Settled]]
  /\ judged \in [Procs -> SUBSET [url : Urls \cup {NoUrl}, notes : SUBSET Note]]
  /\ Policy!Promise

\* A link settled as approved is never settled otherwise, so that no later
\* call takes back what an earlier one was promised.
LEMMA PolicyKeeps == Policy!Spec => []Policy!Promise
<1>1. Policy!Init => PolicyInv
  BY DEF Policy!Init, PolicyInv, Policy!Promise, VouchedUrls, Settled
<1>2. PolicyInv /\ [Policy!Next]_(Policy!vars) => PolicyInv'
  <2> SUFFICES ASSUME PolicyInv, [Policy!Next]_(Policy!vars) PROVE PolicyInv'
    OBVIOUS
  <2>1. ASSUME NEW S \in SUBSET Urls, Policy!Vouch(S) PROVE PolicyInv'
    BY <2>1 DEF PolicyInv, Policy!Promise, VouchedUrls, Policy!Vouch
  <2>2. ASSUME NEW p \in Procs, Policy!Uncited(p) PROVE PolicyInv'
    <3>1. /\ VouchedUrls' = VouchedUrls /\ cache' = cache
          /\ judged' = [judged EXCEPT ![p] = @ \cup {[url |-> NoUrl, notes |-> {"primitive"}]}]
      BY <2>2 DEF Policy!Uncited, Policy!Report, Policy!Outcome, VouchedUrls
    <3>2. judged' \in [Procs -> SUBSET [url : Urls \cup {NoUrl}, notes : SUBSET Note]]
      <4>1. [url |-> NoUrl, notes |-> {"primitive"}]
              \in [url : Urls \cup {NoUrl}, notes : SUBSET Note]
        BY DEF Note
      <4>2. QED
        BY <3>1, <4>1 DEF PolicyInv
    <3>3. ASSUME NEW q \in Procs, NEW j \in judged'[q], j.notes = {}
          PROVE  j \in judged[q]
      <4>1. \/ j \in judged[q]
            \/ j = [url |-> NoUrl, notes |-> {"primitive"}]
        BY <3>1, <3>3 DEF PolicyInv
      <4>2. {"primitive"} # {}
        OBVIOUS
      <4>3. QED
        BY <3>3, <4>1, <4>2
    <3>4. Policy!Promise'
      BY <3>1, <3>3 DEF PolicyInv, Policy!Promise, VouchedUrls
    <3>5. QED
      BY <3>1, <3>2, <3>4 DEF PolicyInv
  <2>3. ASSUME NEW p \in Procs, NEW u \in Urls, NEW v \in Settled, NEW notes \in SUBSET Note,
               cache[p][u] \in {"unset", v},
               cache' = [cache EXCEPT ![p][u] = v],
               judged' = [judged EXCEPT ![p] = @ \cup {[url |-> u, notes |-> notes]}],
               notes = {} => u \in VouchedUrls /\ v = "approved",
               VouchedUrls' = VouchedUrls
        PROVE  PolicyInv'
    <3>1. VouchedUrls' \subseteq Urls
      BY DEF VouchedUrls
    <3>2. cache' \in [Procs -> [Urls -> {"unset"} \cup Settled]]
      BY <2>3 DEF PolicyInv
    <3>3. [url |-> u, notes |-> notes] \in [url : Urls \cup {NoUrl}, notes : SUBSET Note]
      OBVIOUS
    <3>4. /\ judged'[p] = judged[p] \cup {[url |-> u, notes |-> notes]}
          /\ \A q \in Procs \ {p} : judged'[q] = judged[q]
      BY <2>3 DEF PolicyInv
    <3>5. judged' \in [Procs -> SUBSET [url : Urls \cup {NoUrl}, notes : SUBSET Note]]
      BY <2>3, <3>3 DEF PolicyInv
    <3>6. /\ cache'[p][u] = v
          /\ \A q \in Procs, w \in Urls :
               cache[q][w] = "approved" => cache'[q][w] = "approved"
      BY <2>3 DEF PolicyInv, Settled
    <3>7. ASSUME NEW q \in Procs, NEW j \in judged[q], j.notes = {}
          PROVE  j.url \in VouchedUrls' /\ cache'[q][j.url] = "approved"
      <4>1. j.url \in VouchedUrls /\ cache[q][j.url] = "approved"
        BY <3>7 DEF PolicyInv, Policy!Promise, VouchedUrls
      <4>2. QED
        BY <2>3, <3>1, <3>6, <4>1
    <3>8. ASSUME NEW q \in Procs, NEW j \in judged'[q], j.notes = {}
          PROVE  j.url \in VouchedUrls' /\ cache'[q][j.url] = "approved"
      <4>1. CASE j \in judged[q]
        BY <3>7, <3>8, <4>1
      <4>2. CASE q = p /\ j = [url |-> u, notes |-> notes]
        BY <2>3, <3>6, <3>8, <4>2
      <4>3. QED
        BY <3>4, <4>1, <4>2
    <3>9. Policy!Promise'
      BY <3>8 DEF Policy!Promise, VouchedUrls
    <3>10. QED
      BY <3>1, <3>2, <3>5, <3>9 DEF PolicyInv
  <2>4. ASSUME NEW p \in Procs, NEW u \in Urls,
               \/ Policy!Approve(p, u)
               \/ \E v \in {"rejected", "unverifiable"} : Policy!Refuse(p, u, v)
        PROVE  PolicyInv'
    <3>1. CASE Policy!Approve(p, u)
      <4>1. u \in VouchedUrls /\ VouchedUrls' = VouchedUrls
        BY <3>1 DEF Policy!Approve, VouchedUrls
      <4>2. {} \in SUBSET Note /\ "approved" \in Settled
        BY DEF Settled
      <4>3. /\ cache[p][u] \in {"unset", "approved"}
            /\ cache' = [cache EXCEPT ![p][u] = "approved"]
            /\ judged' = [judged EXCEPT ![p] = @ \cup {[url |-> u, notes |-> {}]}]
        BY <3>1 DEF Policy!Approve, Policy!Report, Policy!Outcome
      <4>4. QED
        BY <2>3, <4>1, <4>2, <4>3
    <3>2. CASE \E v \in {"rejected", "unverifiable"} : Policy!Refuse(p, u, v)
      <4>1. PICK v \in {"rejected", "unverifiable"} : Policy!Refuse(p, u, v)
        BY <3>2
      <4>2. VouchedUrls' = VouchedUrls
        BY <4>1 DEF Policy!Refuse, VouchedUrls
      <4>3. {v, "primitive"} \in SUBSET Note /\ {v, "primitive"} # {} /\ v \in Settled
        BY DEF Settled, Note
      <4>4. /\ cache[p][u] \in {"unset", v}
            /\ cache' = [cache EXCEPT ![p][u] = v]
            /\ judged' = [judged EXCEPT ![p] = @ \cup {[url |-> u, notes |-> {v, "primitive"}]}]
        BY <4>1 DEF Policy!Refuse, Policy!Report, Policy!Outcome
      <4>5. QED
        BY <2>3, <4>2, <4>3, <4>4
    <3>3. QED
      BY <2>4, <3>1, <3>2
  <2>5. CASE UNCHANGED Policy!vars
    BY <2>5 DEF Policy!vars, PolicyInv, Policy!Promise, VouchedUrls
  <2>6. QED
    BY <2>1, <2>2, <2>4, <2>5 DEF Policy!Next
<1>3. PolicyInv => Policy!Promise
  BY DEF PolicyInv
<1>4. QED
  BY <1>1, <1>2, <1>3, PTL DEF Policy!Spec

\* What the policy promises the processes keep: behind every silent call stand
\* a vouched link and a verdict that is final.
THEOREM SilentMeansSettled == Spec => []Policy!Promise
BY PolicyKeeps, ImplementsPolicy, PTL DEF PolicySpec

-----------------------------------------------------------------------------
(* The processes end.                                                      *)

\* The steps process p has left at most: four for each call it may still
\* visit, and those of the call it is at.
Rank == [visit |-> 0, store |-> 1, fetch |-> 2, cached |-> 3]
Left(p) == 4 * (MaxCalls - calls[p]) + Rank[pc[p]]

\* No process's steps are given back by another's, by the network or by an
\* edit, and each step of its own uses one up: no call is judged for ever.
\* This is what EveryCrateLinted rests on besides fairness.
THEOREM CallsRunOut ==
  Spec => [][\A p \in Procs : /\ Left(p) \in Nat /\ Left(p)' <= Left(p)
                              /\ Step(p) => Left(p)' < Left(p)]_vars
<1> DEFINE Used(p) == /\ Left(p) \in Nat /\ Left(p)' <= Left(p)
                      /\ Step(p) => Left(p)' < Left(p)
<1>1. ASSUME IInv, NEW p \in Procs
      PROVE  /\ calls[p] \in 0 .. MaxCalls /\ pc[p] \in {"visit", "cached", "fetch", "store"}
             /\ Left(p) \in Nat
  <2>1. calls[p] \in 0 .. MaxCalls /\ pc[p] \in {"visit", "cached", "fetch", "store"}
    BY <1>1 DEF IInv, Ranges
  <2>2. QED
    BY <2>1 DEF Left, Rank
<1>2. ASSUME IInv, NEW p \in Procs, Step(p)
      PROVE  /\ Left(p)' \in Nat /\ Left(p)' < Left(p)
             /\ \A q \in Procs \ {p} : Left(q)' = Left(q)
  <2>1. calls \in [Procs -> 0 .. MaxCalls] /\ pc \in [Procs -> {"visit", "cached", "fetch", "store"}]
    BY <1>2 DEF IInv, Ranges
  <2>2. \/ /\ pc[p] = "visit" /\ calls[p] < MaxCalls
           /\ calls' = [calls EXCEPT ![p] = @ + 1]
           /\ pc' = pc \/ pc' = [pc EXCEPT ![p] = "visit"] \/ pc' = [pc EXCEPT ![p] = "cached"]
        \/ /\ calls' = calls
           /\ \/ pc[p] = "cached" /\ pc' = [pc EXCEPT ![p] = "visit"]
              \/ pc[p] = "cached" /\ pc' = [pc EXCEPT ![p] = "store"]
              \/ pc[p] = "cached" /\ pc' = [pc EXCEPT ![p] = "fetch"]
              \/ pc[p] = "fetch" /\ pc' = [pc EXCEPT ![p] = "store"]
              \/ pc[p] = "store" /\ pc' = [pc EXCEPT ![p] = "visit"]
    BY <1>2 DEF Step, Ignore, HeaderLookup, Visit, Judge, CacheHit, CacheMiss,
                BeginVerification, Fetch, Own, Answer, TimeOut, Unanswered, FetchReply,
                FetchFails, FetchRefused, Fetched, Store, Report
  <2>3. \A q \in Procs \ {p} : calls'[q] = calls[q] /\ pc'[q] = pc[q]
    BY <2>1, <2>2
  <2>4. \/ /\ pc[p] = "visit" /\ calls[p] < MaxCalls
           /\ calls'[p] = calls[p] + 1 /\ pc'[p] \in {"visit", "cached"}
        \/ /\ calls'[p] = calls[p]
           /\ \/ pc[p] = "cached" /\ pc'[p] \in {"visit", "store", "fetch"}
              \/ pc[p] = "fetch" /\ pc'[p] = "store"
              \/ pc[p] = "store" /\ pc'[p] = "visit"
    BY <2>1, <2>2
  <2>5. Left(p)' \in Nat /\ Left(p)' < Left(p)
    BY <2>1, <2>4 DEF Left, Rank
  <2>6. QED
    BY <2>3, <2>5 DEF Left
<1>3. IInv /\ [Next]_vars => [\A p \in Procs : Used(p)]_vars
  <2> SUFFICES ASSUME IInv, [Next]_vars, NEW p \in Procs PROVE Used(p) \/ UNCHANGED vars
    OBVIOUS
  <2>1. CASE Step(p)
    BY <1>1, <1>2, <2>1
  <2>2. CASE ~ Step(p) /\ \E q \in Procs : Step(q)
    BY <1>1, <1>2, <2>2
  <2>3. CASE ~ Step(p) /\ UNCHANGED <<pc, calls>>
    <3>1. Left(p)' = Left(p)
      BY <2>3 DEF Left
    <3>2. QED
      BY <1>1, <2>3, <3>1
  <2>4. QED
    BY <2>1, <2>2, <2>3 DEF Next, EditComment, EditFile, vars
<1>4. QED
  BY <1>3, Invariance, PTL DEF Spec

=============================================================================
