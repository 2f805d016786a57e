---------------------------- MODULE MCCustomParser ----------------------------
(***************************************************************************)
(* Two crates, two files and two links: a comment permalink and a link of  *)
(* another host, which has no endpoint.                                    *)
(***************************************************************************)
EXTENDS CustomParser

Permalink ==
  [host |-> "github.com", segments |-> 4, section |-> "pull", repo |-> "r",
   shape |-> "issuecomment", id |-> 1]

TwoUrls == {Permalink, [Permalink EXCEPT !.host = "gitlab.com"]}

=============================================================================
