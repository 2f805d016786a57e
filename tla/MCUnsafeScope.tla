----------------------------- MODULE MCUnsafeScope -----------------------------
(***************************************************************************)
(* Every expression of depth two (call through a call, assignment of a     *)
(* dereference, field of a dereference, block in an argument ...) as the   *)
(* only statement of an unsafe block and before a dereference; every pair  *)
(* of expressions of depth one, the first also as a let.                   *)
(***************************************************************************)
EXTENDS UnsafeScope

\* Trees are built nested and laid out over their positions at the end.
Tree(k, sub) == [k |-> k, sub |-> sub]

RECURSIVE At(_, _)
At(e, p) == IF p = <<>> THEN e.k ELSE At(e.sub[Head(p)], Tail(p))

RECURSIVE Positions(_)
Positions(e) ==
  {<<>>} \cup UNION {{<<i>> \o p : p \in Positions(e.sub[i])} : i \in DOMAIN e.sub}

Flat(e) == [p \in Positions(e) |-> At(e, p)]

Atoms == {Tree(k, <<>>) : k \in Atom}

Unary == {"draw", "dref", "dover", "field", "ufield", "addr", "ucall", "asm",
          "scall", "other"} \cup Block

\* Only a place can be assigned to.
Place == {"local", "smut", "draw", "dref", "dover", "field", "ufield"}

Above(S) ==
  {Tree(k, <<e>>) : k \in Unary, e \in S}
    \cup {Tree("assign", <<l, r>>) : l \in {e \in S : e.k \in Place}, r \in S}
    \cup {Tree("pcall", <<f, a>>) : f \in S, a \in S}

One == Atoms \cup Above(Atoms)
Two == One \cup Above(One)

Deref == Tree("draw", <<Tree("local", <<>>)>>)

Trees ==
  {Tree("unsafe", <<e>>) : e \in Two}
    \cup {Tree("unsafe", <<e, Deref>>) : e \in Two}
    \cup {Tree("unsafe", <<e, f>>) : e \in One, f \in One}
    \cup {Tree("unsafe", <<Tree("let", <<e>>), f>>) : e \in One, f \in One}

MCBodies == {Flat(t) : t \in Trees}

=============================================================================
