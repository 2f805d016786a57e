------------------------------ MODULE LintLevels ------------------------------
(***************************************************************************)
(* servyi-lint-core: the active-check every pass consults before it works. *)
(* A level is what rustc resolves at the node being checked, after command *)
(* line, attributes and --cap-lints; forbid and force-warn are to these    *)
(* lints what deny and warn are, so four levels remain.                    *)
(***************************************************************************)

Level == {"allow", "expect", "warn", "deny"}

is_active(level) == ~ (level = "allow" \/ level = "expect")

=============================================================================
