---------------------------- MODULE ApprovalPolicy ----------------------------
(***************************************************************************)
(* What custom_parser promises of approvals, as one abstract machine: a    *)
(* link may become vouched for, never unvouched; a process settles a link  *)
(* once, approving only what is vouched for; every primitive call is       *)
(* reported on, silently only when its link is settled as approved.        *)
(***************************************************************************)

CONSTANTS Procs, Urls, NoUrl

VARIABLES
  vouched,   \* links a maintainer's approval has stood behind
  cache,     \* cache[p][u]: how process p settled link u
  judged     \* judged[p]: outcomes of the primitive calls

vars == <<vouched, cache, judged>>

Outcome(u, notes) == [url |-> u, notes |-> notes]

Init ==
  /\ vouched \in SUBSET Urls
  /\ cache = [p \in Procs |-> [u \in Urls |-> "unset"]]
  /\ judged = [p \in Procs |-> {}]

Vouch(S) ==
  /\ vouched' = vouched \cup S
  /\ UNCHANGED <<cache, judged>>

Report(p, u, notes) == judged' = [judged EXCEPT ![p] = @ \cup {Outcome(u, notes)}]

\* A call under no link.
Uncited(p) ==
  /\ Report(p, NoUrl, {"primitive"})
  /\ UNCHANGED <<vouched, cache>>

\* A call under link u, settled before or settled now.
Approve(p, u) ==
  /\ u \in vouched
  /\ cache[p][u] \in {"unset", "approved"}
  /\ cache' = [cache EXCEPT ![p][u] = "approved"]
  /\ Report(p, u, {})
  /\ UNCHANGED vouched

Refuse(p, u, v) ==
  /\ cache[p][u] \in {"unset", v}
  /\ cache' = [cache EXCEPT ![p][u] = v]
  /\ Report(p, u, {v, "primitive"})
  /\ UNCHANGED vouched

Next ==
  \/ \E S \in SUBSET Urls : Vouch(S)
  \/ \E p \in Procs : Uncited(p)
  \/ \E p \in Procs, u \in Urls :
       \/ Approve(p, u)
       \/ \E v \in {"rejected", "unverifiable"} : Refuse(p, u, v)

Spec == Init /\ [][Next]_vars

\* What a reviewer may rely on: a silent call's link is vouched for, and its
\* process has settled it so for good.
Promise ==
  \A p \in Procs : \A j \in judged[p] :
    j.notes = {} => j.url \in vouched /\ cache[p][j.url] = "approved"

=============================================================================
