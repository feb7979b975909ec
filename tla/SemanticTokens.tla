--------------------------- MODULE SemanticTokens ---------------------------
(***************************************************************************)
(* The semantic tokens of a document (src/intel/tokens.go).                *)
(*                                                                         *)
(* Data.  A text is a sequence of characters; an index stands for the byte *)
(* a character starts at.  A capture of the query has the index it starts  *)
(* at, the one after its end, and the kind of its name, "" if that has     *)
(* none.                                                                   *)
(***************************************************************************)
EXTENDS Integers, Sequences, FiniteSets, SequencesExt

\* UTF-16 code units of a character: an "EMOJI" has two.
Units(char) == IF char = "EMOJI" THEN 2 ELSE 1
UnitLength(text, start, end) ==
  FoldLeft(LAMBDA n, char : n + Units(char), 0, SubSeq(text, start, end - 1))

\* Mutant: columns count characters.
PositionOfCharacter(text, offset) ==
  LET before == {j \in 1 .. offset - 1 : text[j] = "LF"}
  IN [line |-> Cardinality(before), character |-> offset - 1 - Max(before \cup {0})]

PositionAtOffset(text, offset) ==
  FoldLeft(LAMBDA p, char : IF char = "LF" THEN [line |-> p.line + 1, character |-> 0]
                            ELSE [p EXCEPT !.character = @ + Units(char)],
           [line |-> 0, character |-> 0], SubSeq(text, 1, offset - 1))

\* What is open after each character: a string, a comment or neither.  A quote opens a
\* string to the next such quote without a backslash before it, over the ends of lines.
InString(text) ==
  LET open[i \in 0 .. Len(text)] ==
        IF i = 0 THEN "NONE"
        ELSE CASE open[i - 1] = "COMMENT" -> IF text[i] = "LF" THEN "NONE" ELSE "COMMENT"
               [] text[i] = "#" /\ open[i - 1] = "NONE" -> "COMMENT"
               [] text[i] \in {"DOUBLE", "SINGLE"} /\ open[i - 1] = "NONE" -> text[i]
               [] text[i] = open[i - 1] /\ text[i - 1] # "BACKSLASH" -> "NONE"
               [] OTHER -> open[i - 1]
  IN open

\* The comments of the bytes, which a masked tree may lack, each to the end of its line.
SourceCommentSpans(text) ==
  LET open == InString(text)
      End(i) == Min({j \in i .. Len(text) : text[j] = "LF"} \cup {Len(text) + 1})
  IN {[start |-> i, end |-> End(i)] : i \in {k \in DOMAIN text : text[k] = "#" /\ open[k - 1] = "NONE"}}

Token(text, start, end, kind) ==
  [line |-> PositionAtOffset(text, start).line,
   character |-> PositionAtOffset(text, start).character,
   length |-> UnitLength(text, start, end), kind |-> kind, start |-> start]

Tokens(text, captures, recovered) ==
  LET lineAt(i) == PositionAtOffset(text, i).line
      captured == {c \in captures : lineAt(c.start) = lineAt(c.end) /\ c.kind # ""}
      comments == IF recovered THEN SourceCommentSpans(text) ELSE {}
  IN {t \in {Token(text, c.start, c.end, c.kind) : c \in captured}
           \cup {Token(text, s.start, s.end, "comment") : s \in comments} : t.length > 0}

\* sort.Slice is not stable: tokens of the same place and length come in any order.
Sorted(tokens) ==
  {order \in SetToSeqs(tokens) :
     \A i, j \in DOMAIN order : i < j =>
       \/ order[i].start < order[j].start
       \/ order[i].start = order[j].start /\ order[i].length >= order[j].length}

Encoded(order) ==
  LET Step(state, token) ==
        IF token.start = state.lastStart THEN state
        ELSE LET deltaLine == token.line - state.line
                 deltaChar == IF deltaLine = 0 THEN token.character - state.character
                              ELSE token.character
             IN [data |-> Append(state.data, <<deltaLine, deltaChar, token.length, token.kind>>),
                 line |-> token.line, character |-> token.character, lastStart |-> token.start]
  IN FoldLeft(Step, [data |-> <<>>, line |-> 0, character |-> 0, lastStart |-> 0], order).data

EncodedTokens(text, captures, recovered) ==
  {Encoded(order) : order \in Sorted(Tokens(text, captures, recovered))}
=============================================================================
