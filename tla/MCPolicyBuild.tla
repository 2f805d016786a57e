----------------------------- MODULE MCPolicyBuild -----------------------------
(***************************************************************************)
(* Sources for TLC: in app any one lint attribute, anywhere; in util and   *)
(* in the dependency dep nothing, or a plain exemption.                    *)
(***************************************************************************)
EXTENDS PolicyBuild

MCPaths ==
  {<<"panic">>, <<"clippy", "unwrap_used">>, <<"rustdoc", "panic">>, <<"clippy", "todo">>}

Items == {{p} : p \in MCPaths} \cup {{<<"clippy", "unwrap_used">>, <<"clippy", "todo">>}}

Attrs == [attr : [name : {"allow", "expect", "warn"}, items : Items],
          when : {"always", "test", "not test"}, override : {"flag", "allow", "deny"}]

Plain == [attr |-> [name |-> "allow", items |-> {<<"panic">>}], when |-> "always",
          override |-> "flag"]

MCSources ==
  {[p \in Package |-> CASE p = "app" -> a [] p = "util" -> b [] OTHER -> c] :
     a \in {{}} \cup {{s} : s \in Attrs}, b \in {{}, {Plain}}, c \in {{Plain}}}

MCSetups == Setup

MCDenied == {"inline_literal", "non_test_panic_allow"}

=============================================================================
