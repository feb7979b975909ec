------------------------------ MODULE Document ------------------------------
(***************************************************************************)
(* One open document of src/intel: the text the server keeps for the       *)
(* editor (edit.go, Offset in document.go), the tree it keeps of the text  *)
(* (Parse, and the recovery candidates of recovery.go), and the scope      *)
(* graph cached with it (Scopes in scopes.go).                             *)
(*                                                                         *)
(* The editor sends changes whose positions count lines and UTF-16 units   *)
(* in its own text; ApplyChanges applies those of one message in order and *)
(* stops at the first that fails.                                          *)
(*                                                                         *)
(* Data.  A text is the sequence of its characters, whose kinds differ in  *)
(* their UTF-8 and UTF-16 widths; a place is the number of characters in   *)
(* front of it.  The walks of the code go over whole characters, so the    *)
(* places are the byte offsets they can return.  The parser (gotreesitter, *)
(* external) may give any result, or none; a candidate text is the set of  *)
(* the masks that made it, and a mask may find nothing to change.          *)
(***************************************************************************)
EXTENDS Integers, Sequences, SequencesExt

CONSTANTS InitialTexts,  \* what the editor may open
          Insertions,    \* what it may type
          MaxLength,     \* bound on a text
          MaxEdits,      \* bound on the editor's changes
          MaxErrors,     \* bound on the errors counted in a tree
          MaxMissing     \* bound on the definitions missing from it

Chars == {"newline", "return", "ascii", "two", "four"}
ByteWidth == [newline |-> 1, return |-> 1, ascii |-> 1, two |-> 2, four |-> 4]
UnitWidth == [newline |-> 1, return |-> 1, ascii |-> 1, two |-> 1, four |-> 2]

ASSUME InitialTextsAssumption == InitialTexts \subseteq Seq(Chars)
ASSUME InsertionsAssumption == Insertions \subseteq Seq(Chars)
ASSUME BoundsAssumption ==
  /\ MaxLength \in Nat /\ MaxEdits \in Nat
  /\ MaxErrors \in Nat \ {0} /\ MaxMissing \in Nat

Masks == {"syntax", "paths", "constructors", "comments", "bodies"}

\* What a parse leaves: a tree that is complete, one with an error, one that
\* stopped early, or none; recoveryScore counts its errors and the definitions
\* it misses.
Kinds == {"complete", "error", "stopped", "none"}
Results == {r \in [kind : Kinds, errors : 0 .. MaxErrors, missing : 0 .. MaxMissing] :
              /\ r.kind = "complete" <=> r.errors = 0
              /\ r.kind = "none" => r.errors = 1 /\ r.missing = 0}

VARIABLES
  client,      \* the editor's text
  edits,       \* number of changes the editor made
  batch,       \* changes of the current message that are still to come
  astray,      \* history: a change was made after a return that ends a line for the
               \* editor alone, and no full text since
  source,      \* Document.Source
  tree,        \* Document.Tree, and the best candidate while one is chosen
  treeSource,  \* Document.treeSource, and the best candidate's text
  scopeGraph,  \* Document.scopeGraph: the tree it was built from
  pc,          \* where ApplyChanges is
  call,        \* its local variables
  diverged     \* history: a change failed and no full text came after it

vars == <<client, edits, batch, astray, source, tree, treeSource, scopeGraph, pc, call,
          diverged>>
document == <<source, tree, treeSource, scopeGraph>>
editor == <<client, edits, batch, astray>>

Positions == [line : Nat, character : Nat]
NoPlace == -1
NoGraph == <<>>
NoCall == "none"

-----------------------------------------------------------------------------
\* A position is a line and the width in front of a place on that line; the ends of lines
\* are indices.
Width(widths, text) ==
  LET sum[n \in 0 .. Len(text)] == IF n = 0 THEN 0 ELSE sum[n - 1] + widths[text[n]]
  IN  sum[Len(text)]

PositionIn(widths, ends, text, place) ==
  LET before == {i \in ends : i <= place}
  IN [line |-> Cardinality(before),
      character |-> Width(widths, SubSeq(text, Max(before \cup {0}) + 1, place))]

\* For the editor a line ends at a newline, at a return, or at both; for the server and
\* the parser only at a newline.
Newlines(text) == {i \in DOMAIN text : text[i] = "newline"}
LoneReturns(text) ==
  {i \in DOMAIN text : text[i] = "return" /\ (i = Len(text) \/ text[i + 1] # "newline")}

EditorPosition(text, place) ==
  PositionIn(UnitWidth, Newlines(text) \cup LoneReturns(text), text, place)

\* Where the editor can change a text: not between the characters of one line end.
EditorPlaces(text) ==
  {p \in 0 .. Len(text) :
     ~(p > 0 /\ p < Len(text) /\ text[p] = "return" /\ text[p + 1] = "newline")}

Spliced(text, from, to, new) ==
  SubSeq(text, 1, from) \o new \o SubSeq(text, to + 1, Len(text))

\* Variants (mutation testing): every character counts as one unit and a line ends
\* where it ends; the end of a line is not accepted.
OffsetInRunes(text, position) ==
  LET line == {p \in 0 .. Len(text) : Cardinality({i \in Newlines(text) : i <= p}) = position.line}
  IN IF line = {} THEN NoPlace
     ELSE Min({Min(line) + position.character, Max(line)})

OffsetBeforeLineEnd(text, position) ==
  LET starts == {p \in 0 .. Len(text) - 1 :
                   /\ text[p + 1] # "newline"
                   /\ PositionIn(UnitWidth, Newlines(text), text, p) = position}
  IN IF starts = {} THEN NoPlace ELSE CHOOSE p \in starts : TRUE

\* Document.Offset: one walk to the line, one to the character; a position inside
\* a surrogate pair, which the second walk steps over, or past the end of its line is
\* refused.  A walk has passed so many line ends, or units, when it is at a place.
Walks == [passed : Nat, place : Nat]

Offset(text, position) ==
  LET toLine[w \in Walks] ==
        IF w.passed < position.line /\ w.place < Len(text)
          THEN toLine[[passed |-> IF text[w.place + 1] = "newline" THEN w.passed + 1
                                  ELSE w.passed,
                       place |-> w.place + 1]]
          ELSE w
      along[w \in Walks] ==
        IF \/ w.place >= Len(text) \/ text[w.place + 1] = "newline"
           \/ w.passed >= position.character
          THEN IF w.passed = position.character THEN w.place ELSE NoPlace
          ELSE along[[passed |-> w.passed + UnitWidth[text[w.place + 1]],
                      place |-> w.place + 1]]
      found == toLine[[passed |-> 0, place |-> 0]]
  IN  IF found.passed = position.line
        THEN along[[passed |-> 0, place |-> found.place]]
        ELSE NoPlace

\* nodeRange: the parser's points, whose columns count bytes.
NodePosition(text, place) == PositionIn(ByteWidth, Newlines(text), text, place)

-----------------------------------------------------------------------------
\* Recovered and Complete.
Complete == tree.kind = "complete"
Exact == treeSource.text = source /\ treeSource.masks = {}
Recovered == ~Exact \/ ~Complete

\* Variant: a candidate that is as good is taken.
BetterOrAsGood(r, than) ==
  \/ r.errors < than.errors
  \/ r.errors = than.errors /\ r.missing <= than.missing

\* recoveryScore, compared as chooseCandidate does.
Better(r, than) ==
  \/ r.errors < than.errors
  \/ r.errors = than.errors /\ r.missing < than.missing

\* A parse of text: tree.fits says that its coordinates are those of that text.
Parsed(r, fits) == [kind |-> r.kind, errors |-> r.errors,
                    missing |-> r.missing, fits |-> fits]
Text(t, masks) == [text |-> t, masks |-> masks, own |-> TRUE]

Trees == [kind : Kinds, errors : 0 .. MaxErrors, missing : 0 .. MaxMissing,
          fits : BOOLEAN]
TreeTexts == [text : Seq(Chars), masks : SUBSET Masks, own : BOOLEAN]

Calls == [text : Seq(Chars),     \* the source to come
          parsed : TreeTexts,    \* the text the parser is given
          fresh : BOOLEAN,       \* parsed from nothing
          full : BOOLEAN,        \* the editor sent the whole text
          shorter : BOOLEAN]     \* the change removes more bytes than it adds

\* While candidates are tried, only for a tree with errors: the result of the
\* first parse (history), and the masks of maskCurrentSyntax when it changed the
\* text.
Choosings == [raw : {r \in Results : r.errors # 0}, masked : SUBSET {"syntax"}]

Candidates == {"syntax", "paths", "both", "constructors", "comments", "bodies"}

TypeOK ==
  /\ client \in Seq(Chars)
  /\ edits \in 0 .. MaxEdits
  /\ batch \in 0 .. 1
  /\ astray \in BOOLEAN
  /\ source \in Seq(Chars)
  /\ tree \in Trees
  /\ treeSource \in TreeTexts
  /\ scopeGraph = NoGraph \/ scopeGraph \in Trees \X TreeTexts
  /\ \/ pc \in {"idle", "failed"} /\ call = NoCall
     \/ pc = "parse" /\ call \in Calls
     \/ pc \in Candidates /\ call \in Choosings
  /\ diverged \in BOOLEAN

-----------------------------------------------------------------------------
\* Variants: the candidates are tried on a clean tree too; the scope graph is kept.
ChooseAlways(text, parsed, r, fits) ==
  /\ source' = text
  /\ tree' = Parsed(r, fits)
  /\ treeSource' = parsed
  /\ scopeGraph' = NoGraph
  /\ pc' = "syntax"
  /\ call' = [raw |-> r, masked |-> {}]

ChooseKeepsScopes(text, parsed, r, fits) ==
  /\ source' = text
  /\ tree' = Parsed(r, fits)
  /\ treeSource' = parsed
  /\ UNCHANGED scopeGraph
  /\ IF r.errors = 0
       THEN pc' = "idle" /\ call' = NoCall
       ELSE pc' = "syntax" /\ call' = [raw |-> r, masked |-> {}]

\* parseWithRecovery, once the first parse has succeeded: from here on nothing
\* fails, so the document already holds the new source and the best candidate.
Choose(text, parsed, r, fits) ==
  /\ source' = text
  /\ tree' = Parsed(r, fits)
  /\ treeSource' = parsed
  /\ scopeGraph' = NoGraph
  /\ IF r.errors = 0
       THEN pc' = "idle" /\ call' = NoCall
       ELSE pc' = "syntax" /\ call' = [raw |-> r, masked |-> {}]

\* didOpen: a document comes from a first parse that succeeded.
Init ==
  /\ client \in InitialTexts
  /\ edits = 0
  /\ batch = 0
  /\ astray = FALSE
  /\ source = client
  /\ treeSource = Text(client, {})
  /\ scopeGraph = NoGraph
  /\ diverged = FALSE
  /\ \E r \in Results :
       /\ tree = Parsed(r, TRUE)
       /\ IF r.errors = 0 THEN pc = "idle" /\ call = NoCall
          ELSE pc = "syntax" /\ call = [raw |-> r, masked |-> {}]

\* The editor changes its text and the server takes the change up; batch' says
\* whether the message holds one more.
Edit(next) ==
  /\ edits < MaxEdits
  /\ Len(next) <= MaxLength
  /\ client' = next
  /\ edits' = edits + 1
  /\ batch' \in IF batch = 1 THEN {0} ELSE {0, 1}

\* An error ends ApplyChanges.
Fail ==
  /\ pc' = "failed"
  /\ call' = NoCall
  /\ diverged' = TRUE

\* A change without a range is the whole text.
FullChange(new) ==
  /\ pc = "idle"
  /\ Edit(new)
  /\ astray' = FALSE
  /\ pc' = "parse"
  /\ call' = [text |-> new, parsed |-> Text(new, {}), fresh |-> TRUE,
              full |-> TRUE, shorter |-> FALSE]
  /\ UNCHANGED <<document, diverged>>

\* Variant: only the tree's own state is looked at.
FreshRequiredByTree == tree.kind # "complete"

\* A tree that is recovered is no base for an incremental parse; otherwise the
\* parser is given the old tree's text with the change made in it.
FreshRequired == Recovered \/ tree.kind # "complete"

ReplaceBytes(from, to, new) ==
  [text  |-> Spliced(treeSource.text, from, to, new),
   masks |-> treeSource.masks,
   own   |-> treeSource.masks = {}]

\* A change of the editor's text between two places of it.
RangeChange(from, to, new) ==
  LET start == Offset(source, EditorPosition(client, from))
      end == Offset(source, EditorPosition(client, to))
      next == Spliced(source, start, end, new)
      removed == SubSeq(source, start + 1, end)
  IN  /\ pc = "idle"
      /\ Edit(Spliced(client, from, to, new))
      /\ astray' = (astray \/ \E i \in LoneReturns(client) : i <= to)
      /\ UNCHANGED document
      /\ IF NoPlace \in {start, end} \/ end < start
           THEN Fail
           ELSE /\ pc' = "parse"
                /\ call' = [text |-> next,
                            parsed |-> IF FreshRequired THEN Text(next, {})
                                       ELSE ReplaceBytes(start, end, new),
                            fresh |-> FreshRequired, full |-> FALSE,
                            shorter |-> Width(ByteWidth, new) < Width(ByteWidth, removed)]
                /\ UNCHANGED diverged

\* The parser gives an error.  The old tree of an incremental parse has had its
\* coordinates moved by then, and one that shrank no longer covers the source.
ParseFails ==
  /\ pc = "parse"
  /\ Fail
  /\ tree' = IF call.fresh THEN tree
             ELSE [tree EXCEPT !.fits = FALSE,
                     !.kind = IF call.shorter THEN "stopped" ELSE @,
                     !.errors = IF call.shorter THEN 1 ELSE @]
  /\ UNCHANGED <<editor, source, treeSource, scopeGraph>>

ParseReturns(r) ==
  /\ pc = "parse"
  /\ Choose(call.text, call.parsed, r, call.fresh \/ tree.fits)
  /\ diverged' = (diverged /\ ~call.full)
  /\ UNCHANGED editor

\* The changes left in the message are lost; the editor has made them.
ReturnError ==
  /\ pc = "failed"
  /\ pc' = "idle"
  /\ IF batch = 0 THEN UNCHANGED editor
     ELSE \E from, to \in EditorPlaces(client), new \in Insertions :
            /\ from <= to
            /\ Edit(Spliced(client, from, to, new))
            /\ UNCHANGED astray
  /\ UNCHANGED <<document, call, diverged>>

-----------------------------------------------------------------------------
(***************************************************************************)
(* chooseRecoveredTree: the candidates in their order.  A mask that finds  *)
(* nothing to change and a parse that fails leave the best candidate, and  *)
(* so does a result that is not better (chooseCandidate).                  *)
(***************************************************************************)
Candidate(text, next) ==
  /\ pc' = next
  /\ \/ UNCHANGED <<tree, treeSource>>
     \/ \E r \in Results :
          /\ Better(r, tree)
          /\ tree' = Parsed(r, TRUE)
          /\ treeSource' = text
  /\ UNCHANGED <<editor, source, scopeGraph, diverged>>

Skip(next) ==
  /\ pc' = next
  /\ UNCHANGED <<editor, document, call, diverged>>

MaskSyntax ==
  /\ pc = "syntax"
  /\ \/ Skip("paths")
     \/ /\ call' = [call EXCEPT !.masked = {"syntax"}]
        /\ Candidate(Text(source, {"syntax"}), "paths")

MaskPaths ==
  /\ pc = "paths"
  /\ Candidate(Text(source, {"paths"}), "both")
  /\ UNCHANGED call

MaskPathsAfterSyntax ==
  /\ pc = "both"
  /\ IF call.masked = {} THEN Skip("constructors")
     ELSE /\ Candidate(Text(source, {"syntax", "paths"}), "constructors")
          /\ UNCHANGED call

MaskConstructors ==
  /\ pc = "constructors"
  /\ IF tree.missing = 0 THEN Skip("comments")
     ELSE /\ Candidate(Text(source, call.masked \cup {"constructors"}), "comments")
          /\ UNCHANGED call

MaskComments ==
  /\ pc = "comments"
  /\ IF tree.missing = 0 THEN Skip("bodies")
     ELSE /\ Candidate([treeSource EXCEPT !.masks = @ \cup {"comments"}], "bodies")
          /\ UNCHANGED call

\* needsBodyResync asks for an error in the tree as well as for a stop.
NeedsBodyResync == tree.kind # "complete"

MaskBodies ==
  /\ pc = "bodies"
  /\ call' = NoCall
  /\ IF NeedsBodyResync
       THEN Candidate(Text(source, call.masked \cup {"bodies"}), "idle")
       ELSE /\ pc' = "idle"
            /\ UNCHANGED <<editor, document, diverged>>

Recover ==
  \/ MaskSyntax \/ MaskPaths \/ MaskPathsAfterSyntax \/ MaskConstructors
  \/ MaskComments \/ MaskBodies

\* Scopes: built at the first request and kept.
BuildScopes ==
  /\ pc = "idle"
  /\ scopeGraph = NoGraph
  /\ tree.kind # "none"
  /\ scopeGraph' = <<tree, treeSource>>
  /\ UNCHANGED <<editor, source, tree, treeSource, pc, call, diverged>>

Next ==
  \/ \E new \in Insertions : FullChange(new)
  \/ \E from, to \in EditorPlaces(client), new \in Insertions :
       from <= to /\ RangeChange(from, to, new)
  \/ ParseFails
  \/ \E r \in Results : ParseReturns(r)
  \/ ReturnError
  \/ Recover
  \/ BuildScopes

Spec == Init /\ [][Next]_vars

-----------------------------------------------------------------------------
\* The document is the editor's text after every change, whatever its characters weigh in
\* bytes and UTF-16 units and whichever of the two line ends it has, until a change fails
\* or follows a return that is a line end of its own; a full text repairs it.
SourceIsTheEditors ==
  /\ pc \notin {"parse", "failed"} /\ ~diverged /\ ~astray => source = client
  /\ pc = "parse" /\ (call.full \/ ~(diverged \/ astray)) => call.text = client

\* A position of an editor whose text the server has is never refused: only the
\* parser makes a change fail.
OnlyTheParserFails == [][pc = "idle" /\ pc' = "failed" => diverged \/ astray']_vars

\* performance.md:31 "incremental trees must equal clean trees": unless a change
\* failed, the parser was given the source, or this source with masks, and a base
\* whose coordinates were right.
TreeIsOfTheSource ==
  pc = "idle" /\ ~diverged =>
    tree.fits /\ treeSource.own /\ treeSource.text = source

\* The scope graph that answers requests is the one of the tree.
ScopesAreOfTheTree ==
  ~diverged => scopeGraph \in {NoGraph, <<tree, treeSource>>}

\* A tree of masked text takes the place of the exact one only when it has fewer
\* errors, or as many and fewer definitions missing.
MaskedOnlyForGain ==
  [][pc' = "idle" /\ pc \in Candidates /\ treeSource'.masks # {}
       => \/ tree'.errors < call.raw.errors
          \/ tree'.errors = call.raw.errors /\ tree'.missing < call.raw.missing]_vars

-----------------------------------------------------------------------------
\* server.go:81 announces "positionEncoding": "utf-16": the editor finds every
\* node the server gives a range of where the node is.
RangesAreTheEditors ==
  pc = "idle" /\ ~diverged =>
    \A place \in 0 .. Len(source) :
      NodePosition(source, place) = EditorPosition(client, place)
=============================================================================
