------------------------------ MODULE SafetyScan ------------------------------
(***************************************************************************)
(* has_safety_comment of unsound_constructor: the tokens above a struct or *)
(* a literal are walked BACKWARDS, from the line above it: white space and *)
(* comments are passed, a bracket group with its # and ! is passed as an   *)
(* attribute, anything else ends the walk and the literal's own tokens are *)
(* searched instead.  The prefix is whatever has been read so far, so      *)
(* every prefix of at most MaxTokens tokens is covered.                    *)
(***************************************************************************)
EXTENDS Integers, FiniteSets, SequencesExt

CONSTANT MaxTokens   \* bound: tokens on the lines above

ASSUME MaxTokensAssumption == MaxTokens \in Nat

\* By rustc_lexer's kinds; "safety" is a comment, line or block, doc or plain,
\* that contains SAFETY.  White space is "ws" however many lines it spans.
Token == {"ws", "safety", "comment", "close", "open", "pound", "bang", "other"}

VARIABLES
  source,   \* span_to_prev_source succeeds
  inside,   \* a comment inside the span contains SAFETY
  mode,     \* "start", "walk", "group", "tail", "done"
  depth,    \* open groups, in mode "group"
  found,    \* the result
  read      \* history: tokens walked over, last token of the file first

vars == <<source, inside, mode, depth, found, read>>

Init ==
  /\ source \in BOOLEAN /\ inside \in BOOLEAN
  /\ mode = "start" /\ depth = 0 /\ found = FALSE /\ read = <<>>

Return(b) == mode' = "done" /\ found' = b /\ depth' = 0

Goto(m, d) == mode' = m /\ depth' = d /\ UNCHANGED found

\* No source text, no comment: not even the one inside is looked for.
Begin ==
  /\ mode = "start"
  /\ IF source THEN Goto("walk", 0) ELSE Return(FALSE)
  /\ UNCHANGED <<source, inside, read>>

Read(t) ==
  /\ Len(read) < MaxTokens
  /\ read' = Append(read, t)
  /\ UNCHANGED <<source, inside>>

\* The outer loop's match.
Visit(t) ==
  CASE t \in {"ws", "comment"} -> Goto("walk", 0)
    [] t = "safety"                     -> Return(TRUE)
    [] t = "close"                      -> Goto("group", 1)
    [] OTHER                            -> Return(inside)

Walk(t) == mode = "walk" /\ Read(t) /\ Visit(t)

\* Mutant: nested brackets are not counted.
GroupFlat(t) ==
  /\ mode = "group" /\ Read(t)
  /\ IF t = "open" THEN Goto("tail", 0) ELSE Goto("group", depth)

\* Mutant: the depth is taken down, never up.
GroupDown(t) ==
  /\ mode = "group" /\ Read(t)
  /\ CASE t = "open"  -> Goto(IF depth = 0 THEN "tail" ELSE "group", depth - 1)
       [] OTHER       -> Goto("group", depth)

Group(t) ==
  /\ mode = "group" /\ Read(t)
  /\ CASE t = "close"               -> Goto("group", depth + 1)
       [] t = "open" /\ depth = 1   -> Goto("tail", 0)
       [] t = "open" /\ depth # 1   -> Goto("group", depth - 1)
       [] OTHER                     -> Goto("group", depth)

\* peek: the # and ! of the attribute, and white space, belong to the group.
AfterGroup(t) ==
  /\ mode = "tail" /\ Read(t)
  /\ IF t \in {"pound", "bang", "ws"} THEN Goto("tail", 0) ELSE Visit(t)

\* The file begins here, wherever the walk is; a group may be left open.
StartOfFile ==
  /\ mode \in {"walk", "group", "tail"}
  /\ Return(inside)
  /\ UNCHANGED <<source, inside, read>>

Next ==
  \/ Begin
  \/ \E t \in Token : Walk(t) \/ Group(t) \/ AfterGroup(t)
  \/ StartOfFile
  \/ mode = "done" /\ UNCHANGED vars

Spec == Init /\ [][Next]_vars

-----------------------------------------------------------------------------

\* Ranges; the depth is positive exactly inside a group, so that no bracket
\* ever takes it below.
TypeOK ==
  /\ source \in BOOLEAN /\ inside \in BOOLEAN /\ found \in BOOLEAN
  /\ mode \in {"start", "walk", "group", "tail", "done"}
  /\ depth \in 0..MaxTokens /\ (mode = "group" <=> depth > 0)
  /\ read \in Seq(Token) /\ Len(read) <= MaxTokens

\* What may stand between a SAFETY comment and the span, said without the
\* walk of the tokens a..b of s, the last token of the file being s[1].
Balance(s, a, b) ==
  Cardinality({i \in a..b : s[i] = "close"}) - Cardinality({i \in a..b : s[i] = "open"})

Blank(s, a, b) == a = b /\ s[a] \in {"ws", "comment"}

\* One pair of brackets, and what it encloses.
Bracketed(s, a, b) ==
  /\ s[a] = "close" /\ Balance(s, a, b) = 0
  /\ \A i \in a..(b - 1) : Balance(s, a, i) > 0

Mark == {"pound", "bang"}

\* Above an opening bracket there is nothing up to token n but the # and ! of
\* its attribute, and white space.
AtBracket(s, n) ==
  \E i \in 1..n : s[i] = "open" /\ \A j \in (i + 1)..n : s[j] \in Mark \cup {"ws"}

Marked(s, a, b) == a = b /\ s[a] \in Mark /\ AtBracket(s, a - 1)

Unit(s, a, b) == Blank(s, a, b) \/ Bracketed(s, a, b) \/ Marked(s, a, b)

\* The first n tokens are units: each cut but the first ends one that begins
\* at another cut.
Passable(s, n) ==
  \E cuts \in SUBSET (0..n) :
    /\ {0, n} \subseteq cuts
    /\ \A j \in cuts \ {0} : \E i \in cuts : i < j /\ Unit(s, i + 1, j)

\* The span has its comment, for the lint, exactly when a SAFETY comment
\* stands above it with nothing but passable tokens between, or one inside.
FoundIffAttached ==
  mode = "done" =>
    found = /\ source
            /\ \/ inside
               \/ read # <<>> /\ Last(read) = "safety" /\ Passable(read, Len(read) - 1)

=============================================================================
