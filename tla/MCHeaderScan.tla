----------------------------- MODULE MCHeaderScan -----------------------------
(***************************************************************************)
(* Seven tokens hold an inner attribute with nested brackets and the       *)
(* header below.  Docs: marked ones without a link, with one, and with one *)
(* whose first link is not https; and one with a link but no marker.       *)
(***************************************************************************)
EXTENDS HeaderScan

Link(scheme) == [scheme |-> scheme, id |-> 1]

Marked(links) == [links |-> links, marked |-> TRUE]

MCDocs ==
  {Marked(<<>>), Marked(<<Link("https")>>), Marked(<<Link("http"), Link("https")>>),
   [links |-> <<Link("https")>>, marked |-> FALSE]}

=============================================================================
