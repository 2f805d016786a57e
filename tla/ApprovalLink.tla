----------------------------- MODULE ApprovalLink -----------------------------
(***************************************************************************)
(* From the marker doc to a REST endpoint: approval_url_from takes the     *)
(* first link of the doc, api_endpoint maps a comment permalink to the     *)
(* endpoint that serves the comment.  Markdown and URLs are objects here,  *)
(* as they are in the code (pulldown-cmark, url): a doc is the sequence of *)
(* its links, a URL the parts the code asks of it.                         *)
(***************************************************************************)
EXTENDS Naturals, Sequences

CONSTANTS
  NoUrl,        \* Option::None of approval_url_from
  NoEndpoint    \* Option::None of api_endpoint

\* What a github fragment may name, and the REST collection it lives in.
Kind == [issuecomment      |-> "issues/comments",
         discussion_r      |-> "pulls/comments",
         pullrequestreview |-> "pulls/reviews"]

\* The first link decides, autolink or not; a later https link is not tried.
approval_url_from(links) ==
  IF links # <<>> /\ Head(links).scheme = "https" THEN Head(links) ELSE NoUrl

\* u.segments is the number of path segments, u.section the third of them,
\* u.shape what the anchored regex makes of the fragment.  The fourth
\* segment, the issue or pull number, is not used.
IsPermalink(u) ==
  /\ u.host = "github.com"
  /\ u.segments = 4
  /\ u.section \in {"pull", "issues"}
  /\ u.shape \in DOMAIN Kind

api_endpoint(u) ==
  IF IsPermalink(u)
  THEN [repo |-> u.repo, kind |-> Kind[u.shape], id |-> u.id]
  ELSE NoEndpoint

=============================================================================
