------------------------------ MODULE HeaderScan ------------------------------
(***************************************************************************)
(* file_approval_url of custom_parser: one pass over the tokens of a file, *)
(* left to right, until the first outer doc comment or the first token     *)
(* that may not stand above it.  Tokens are rustc_lexer's, by the classes  *)
(* the scan tells apart; the file is whatever has been read so far, so     *)
(* every file of at most MaxTokens tokens is covered.                      *)
(***************************************************************************)
EXTENDS ApprovalLink, FiniteSets, SequencesExt

CONSTANTS
  Docs,        \* outer docs: [links |-> ..., marked |-> ...]; marked when they
               \* begin with PARSER_MARKER, which the code compares to nothing
  NoDoc,       \* the doc of any other token
  MaxTokens    \* bound: length of the file

ASSUME MaxTokensAssumption == MaxTokens \in Nat

\* "other" is everything else: items, plain comments, inner docs.
Plain == {"ws", "use", "pound", "bang", "open", "close", "semi", "other"}

Token == [kind : Plain, doc : {NoDoc}] \cup [kind : {"outer"}, doc : Docs]

VARIABLES
  st,      \* St of the code; "Done" after the return
  depth,   \* St::Attr(depth)
  url,     \* the result
  read     \* history: the tokens consumed

vars == <<st, depth, url, read>>

Init == st = "Top" /\ depth = 0 /\ url = NoUrl /\ read = <<>>

Read(t) ==
  /\ Len(read) < MaxTokens
  /\ read' = Append(read, t)

Goto(s, d) == st' = s /\ depth' = d /\ UNCHANGED url

InUse(t) ==
  /\ st = "UseItem" /\ Read(t)
  /\ Goto(IF t.kind = "semi" THEN "Top" ELSE "UseItem", 0)

\* Mutant: the first closing bracket ends the attribute.
AttrFlat(t) ==
  /\ st = "Attr" /\ Read(t)
  /\ IF t.kind = "close" THEN Goto("Top", 0) ELSE Goto("Attr", depth)

\* Mutant: the depth runs through zero.
AttrThroughZero(t) ==
  /\ st = "Attr" /\ Read(t)
  /\ CASE t.kind = "open"  -> Goto("Attr", depth + 1)
       [] t.kind = "close" -> Goto(IF depth = 0 THEN "Top" ELSE "Attr", depth - 1)
       [] OTHER            -> Goto("Attr", depth)

InAttr(t) ==
  /\ st = "Attr" /\ Read(t)
  /\ CASE t.kind = "open"                -> Goto("Attr", depth + 1)
       [] t.kind = "close" /\ depth = 1  -> Goto("Top", 0)
       [] t.kind = "close" /\ depth # 1  -> Goto("Attr", depth - 1)
       [] OTHER                          -> Goto("Attr", depth)

AfterPound(t) ==
  /\ st = "AttrPound" /\ Read(t)
  /\ CASE t.kind = "bang" -> Goto("AttrPound", 0)
       [] t.kind = "open" -> Goto("Attr", 1)
       [] OTHER           -> Goto("Done", 0)

\* Mutant: imports end the scan.
TopNoImports(t) ==
  /\ st = "Top" /\ Read(t) /\ t.kind # "outer"
  /\ CASE t.kind = "ws"    -> Goto("Top", 0)
       [] t.kind = "pound" -> Goto("AttrPound", 0)
       [] OTHER            -> Goto("Done", 0)

TopLevel(t) ==
  /\ st = "Top" /\ Read(t) /\ t.kind # "outer"
  /\ CASE t.kind = "ws"    -> Goto("Top", 0)
       [] t.kind = "use"   -> Goto("UseItem", 0)
       [] t.kind = "pound" -> Goto("AttrPound", 0)
       [] OTHER            -> Goto("Done", 0)

\* The first outer doc is taken for the header, marked or not.
Header(t) ==
  /\ st = "Top" /\ Read(t) /\ t.kind = "outer"
  /\ url' = approval_url_from(t.doc.links)
  /\ st' = "Done" /\ UNCHANGED depth

EndOfFile ==
  /\ st # "Done"
  /\ Goto("Done", 0) /\ UNCHANGED read

Next ==
  \/ \E t \in Token : InUse(t) \/ InAttr(t) \/ AfterPound(t) \/ TopLevel(t)
                        \/ Header(t)
  \/ EndOfFile
  \/ st = "Done" /\ UNCHANGED vars

Spec == Init /\ [][Next]_vars

-----------------------------------------------------------------------------

\* Ranges; the depth is positive exactly inside an attribute, so that no closing
\* bracket ever takes it below.
TypeOK ==
  /\ st \in {"Top", "UseItem", "AttrPound", "Attr", "Done"}
  /\ depth \in 0..MaxTokens /\ (st = "Attr" <=> depth > 0)
  /\ url \in {NoUrl} \cup {Head(d.links) : d \in {e \in Docs : e.links # <<>>}}
  /\ read \in Seq(Token) /\ Len(read) <= MaxTokens

\* The grammar of what may stand above the marker, said without an automaton
\* of the tokens a..b of the file s.
Balance(s, a, b) ==
  Cardinality({i \in a..b : s[i].kind = "open"})
    - Cardinality({i \in a..b : s[i].kind = "close"})

Blank(s, a, b) == a = b /\ s[a].kind = "ws"

UseItem(s, a, b) ==
  /\ s[a].kind = "use" /\ s[b].kind = "semi"
  /\ \A i \in a..(b - 1) : s[i].kind # "semi"

Attribute(s, a, b) ==
  /\ s[a].kind = "pound" /\ Balance(s, a, b) = 0
  /\ \E k \in (a + 1)..b :
       /\ \A i \in (a + 1)..(k - 1) : s[i].kind = "bang"
       /\ s[k].kind = "open"
       /\ \A i \in k..(b - 1) : Balance(s, a, i) > 0

Unit(s, a, b) == Blank(s, a, b) \/ UseItem(s, a, b) \/ Attribute(s, a, b)

\* The first n tokens are units: each cut but the first ends one that begins
\* at another cut.
Preamble(s, n) ==
  \E cuts \in SUBSET (0..n) :
    /\ {0, n} \subseteq cuts
    /\ \A j \in cuts \ {0} : \E i \in cuts : i < j /\ Unit(s, i + 1, j)

\* The documents allow less: of attributes only inner ones, #![...].
Inner(s, a, b) ==
  /\ b > a => s[a + 1].kind = "bang"
  /\ b > a + 1 => s[a + 2].kind = "open"

DocumentedUnit(s, a, b) ==
  Blank(s, a, b) \/ UseItem(s, a, b) \/ (Attribute(s, a, b) /\ Inner(s, a, b))

DocumentedPreamble(s, n) ==
  \E cuts \in SUBSET (0..n) :
    /\ {0, n} \subseteq cuts
    /\ \A j \in cuts \ {0} : \E i \in cuts : i < j /\ DocumentedUnit(s, i + 1, j)

\* The tokens a..n begin a unit that has not ended.
OpenUse(s, a, n) == a <= n /\ s[a].kind = "use" /\ \A i \in a..n : s[i].kind # "semi"

OpenPound(s, a, n) ==
  a <= n /\ s[a].kind = "pound" /\ \A i \in (a + 1)..n : s[i].kind = "bang"

OpenAttr(s, a, n) ==
  /\ s[a].kind = "pound"
  /\ \E k \in (a + 1)..n :
       /\ \A i \in (a + 1)..(k - 1) : s[i].kind = "bang"
       /\ s[k].kind = "open"
       /\ \A i \in k..n : Balance(s, a, i) > 0

DocumentedOpen(s, a, n) ==
  OpenUse(s, a, n) \/ ((OpenPound(s, a, n) \/ OpenAttr(s, a, n)) /\ Inner(s, a, n))

\* A file may begin with s and carry a documented header further down.
Beginning(s) ==
  \E k \in 0..Len(s) :
    DocumentedPreamble(s, k) /\ (k = Len(s) \/ DocumentedOpen(s, k + 1, Len(s)))

\* The scan has ended at an outer doc below nothing but preamble.
AtHeader == read # <<>> /\ Last(read).kind = "outer" /\ Preamble(read, Len(read) - 1)

Documented ==
  /\ read # <<>> /\ Last(read).kind = "outer" /\ Last(read).doc.marked
  /\ DocumentedPreamble(read, Len(read) - 1)

\* The scan, a four-state automaton with a counter, gives the first https link
\* of every header the documents describe, and gives no link but that of an
\* outer doc above which whole imports, whole attributes and white space stand.
\* (Between the two, unmarked docs and docs below outer attributes, the code
\* accepts more than the documents do; nothing is claimed of those.)
FindsHeader ==
  st = "Done" =>
    /\ Documented => url = approval_url_from(Last(read).doc.links)
    /\ url # NoUrl => AtHeader /\ url = approval_url_from(Last(read).doc.links)

\* It never gives up too early: no token at which it returns without a header
\* may stand above a documented one.
RefusesOnlyDebris ==
  [][st' = "Done" /\ read' # read =>
       Last(read').kind = "outer" \/ ~ Beginning(read')]_vars

=============================================================================
