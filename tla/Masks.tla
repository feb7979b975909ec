-------------------------------- MODULE Masks --------------------------------
(***************************************************************************)
(* The masks of src/intel/recovery.go, which hide from the parser what the *)
(* grammar does not know, and the outline of src/intel/lexical.go, which   *)
(* finds the names of definitions without it.                              *)
(*                                                                         *)
(* Data.  A source is a sequence of lexemes: a word, a keyword included,   *)
(* is one lexeme, whatever its length in bytes, every other byte is one of *)
(* its own ("LF", "CR", "TAB"), and "WIDE" is a character of two bytes.    *)
(* An index stands for the offset of a lexeme's first byte, and 0 for -1.  *)
(* A mask is the set of the indices it hides.                              *)
(***************************************************************************)
EXTENDS Integers, Sequences, SequencesExt

Keywords == [def |-> 3, type |-> 4, object |-> 6, hvm |-> 3, import |-> 6, from |-> 4,
             unchecked |-> 9, const |-> 5, return |-> 6, WIDE |-> 2]
Width(lexeme) == IF lexeme \in DOMAIN Keywords THEN Keywords[lexeme] ELSE 1
Bytes(text) ==
  LET bytes[i \in 0 .. Len(text)] == IF i = 0 THEN 0 ELSE bytes[i - 1] + Width(text[i])
  IN bytes[Len(text)]

Blanks == {" ", "TAB"}
Opening == {"(", "[", "{"}
Closing == {")", "]", "}"}
Quotes == {"DOUBLE", "SINGLE"}
Signs == Opening \cup Closing \cup Quotes \cup Blanks
         \cup {"LF", "CR", "WIDE", "BACKSLASH", ":", ",", "=", "-", "<", ">", "/", ".", "+", "*", "#"}

IsWordByte(lexeme) == lexeme \notin Signs
IsNameByte(lexeme) == IsWordByte(lexeme) \/ lexeme \in {".", "/", "-"}
IsPathWordByte(lexeme) == IsWordByte(lexeme) \/ lexeme \in {".", "-"}
IsExpressionByte(lexeme) == IsWordByte(lexeme) \/ lexeme \in {".", "+", "-"}

-----------------------------------------------------------------------------
(***************************************************************************)
(* Looking around in a text; to is the index after the last looked at.     *)
(***************************************************************************)
Least(indices) == IF indices = {} THEN 0 ELSE Min(indices)
OrEnd(index, to) == IF index = 0 THEN to ELSE index

IndexOf(text, from, to, lexeme) == Least({i \in from .. to - 1 : text[i] = lexeme})

\* The first index from from on that Test does not hold of, or to.
Past(text, from, to, Test(_)) ==
  Max({from, Min({i \in from .. to - 1 : ~Test(text[i])} \cup {to})})
PastBlanks(text, from, to) == Past(text, from, to, LAMBDA l : l \in Blanks)

\* Backwards: the index after the last one below from, but above low, where it fails.
Before(text, from, low, Test(_)) ==
  Min({from, Max({i \in low + 1 .. from : i = low + 1 \/ ~Test(text[i - 1])} \cup {low + 1})})

WordAt(text, i, word) ==
  /\ i \in DOMAIN text /\ text[i] = word
  /\ i = Len(text) \/ ~IsWordByte(text[i + 1])
  /\ i = 1 \/ ~IsWordByte(text[i - 1])
WordIn(text, i, words) == \E word \in words : WordAt(text, i, word)

HasArrow(text, from, to) == \E i \in from .. to - 2 : text[i] = "-" /\ text[i + 1] = ">"

DepthAfter(lexeme, depth, opening, closing) ==
  CASE lexeme \in opening -> depth + 1
    [] lexeme \in closing /\ depth > 0 -> depth - 1
    [] OTHER -> depth

\* How many brackets that were opened since from are open before index i.
Depths(text, from, opening, closing) ==
  LET depth[i \in from .. Len(text) + 1] ==
        IF i = from THEN 0 ELSE DepthAfter(text[i - 1], depth[i - 1], opening, closing)
  IN depth

\* The first index in from .. to - 1, outside of brackets, of one of the lexemes.
TopLevel(text, from, to, lexemes) ==
  LET depth == Depths(text, from, Opening, Closing)
  IN Least({i \in from .. to - 1 : depth[i] = 0 /\ text[i] \in lexemes})

TopLevelEquals(text, from, to) ==
  LET depth == Depths(text, from, Opening, Closing)
  IN Least({i \in from .. to - 1 :
              /\ text[i] = "=" /\ depth[i] = 0
              /\ i = from \/ text[i - 1] # "="
              /\ i + 1 = to \/ text[i + 1] # "="})

TopLevelCommaOrEnd(text, from, to) == OrEnd(TopLevel(text, from, to, {","}), to)

TopLevelBraceCommaOrEnd(text, from, to) == OrEnd(TopLevel(text, from, to, Closing \cup {","}), to)

\* The colon that ends a header, on the line.
HeaderColon(text, from) ==
  Least({i \in {TopLevel(text, from, Len(text) + 1, {":", "LF"})} : i > 0 /\ text[i] = ":"})

MatchingDelimiter(text, open, to) ==
  LET depth == Depths(text, open, {"("}, {")"})
  IN Least({i \in open .. to - 1 : text[i] = ")" /\ depth[i] = 1})

(***************************************************************************)
(* Lines, without the end.                                                 *)
(***************************************************************************)
LineEnd(text, from) == OrEnd(IndexOf(text, from, Len(text) + 1, "LF"), Len(text) + 1)
Line(text, from, to) == [from |-> from, to |-> to, cursor |-> PastBlanks(text, from, to)]
LinesOf(text) ==
  {Line(text, i, LineEnd(text, i)) : i \in {j \in DOMAIN text : j = 1 \/ text[j - 1] = "LF"}}
Indent(line) == line.cursor - line.from

-----------------------------------------------------------------------------
(***************************************************************************)
(* The masks of maskCurrentSyntax.                                         *)
(***************************************************************************)
MaskParameterTypes(text, from, to) ==
  LET depth == Depths(text, from, Opening, Closing)
  IN UNION {i .. TopLevelCommaOrEnd(text, i + 1, to) - 1 :
              i \in {j \in from .. to - 1 : text[j] = ":" /\ depth[j] = 0}}

\* A header without parameters is one with an arrow before the first bracket, or none.
MaskDefHeader(text, start, to) ==
  LET open == IndexOf(text, start, to, "(")
      close == MatchingDelimiter(text, open, Len(text) + 1)
      header == HeaderColon(text, start + 1)
      name == PastBlanks(text, start + 1, header)
  IN CASE open = 0 \/ HasArrow(text, start, open) ->
            Past(text, name, header, LAMBDA l : l \notin Blanks \cup {"-"}) .. header - 1
       [] open > 0 /\ close = 0 -> {}
       [] OTHER -> MaskParameterTypes(text, open + 1, close)
                   \cup close + 1 .. HeaderColon(text, close + 1) - 1

MaskTypeParameters(text, start, to) ==
  LET open == IndexOf(text, start, to, "(")
      close == MatchingDelimiter(text, open, Len(text) + 1)
  IN IF open = 0 \/ close = 0 \/ HeaderColon(text, close + 1) = 0 THEN {} ELSE open .. close

\* Mutant: the blanks before the name are taken for its end.
MaskFunTypeHeader(text, start, to) ==
  LET eq == IndexOf(text, start, to, "=")
  IN Past(text, start + 1, eq, LAMBDA l : l \notin Blanks) .. eq - 1

MaskFunTypeParameters(text, start, to) ==
  LET eq == IndexOf(text, start, to, "=")
  IN Past(text, PastBlanks(text, start + 1, eq), eq, LAMBDA l : l \notin Blanks) .. eq - 1

MaskFunHeaderTypes(text, start, to) ==
  LET eq == IndexOf(text, start, to, "=")
      depth == Depths(text, start, {"("}, {")"})
      lists == {i \in start .. eq - 1 :
                  text[i] = "(" /\ MatchingDelimiter(text, i, Len(text) + 1) \in 1 .. eq}
      outer == {i \in lists : \A j \in lists : j < i => MatchingDelimiter(text, j, eq) < i}
      results == {i \in start .. eq - 1 : text[i] = ":" /\ depth[i] = 0}
  IN UNION {MaskParameterTypes(text, i + 1, MatchingDelimiter(text, i, eq)) : i \in outer}
     \cup (IF results = {} THEN {} ELSE Min(results) .. eq - 1)

MaskBracedFieldTypes(text, line) ==
  LET hidden[i \in line.from .. line.to, braces \in 0 .. line.to - line.from] ==
        LET limit == TopLevelBraceCommaOrEnd(text, i + 1, line.to)
        IN CASE i = line.to -> {}
             [] text[i] = "{" -> hidden[i + 1, braces + 1]
             [] text[i] = "}" /\ braces > 0 -> hidden[i + 1, braces - 1]
             [] text[i] = ":" /\ braces > 0 -> (i .. limit - 1) \cup hidden[limit, braces]
             [] OTHER -> hidden[i + 1, braces]
  IN hidden[line.from, 0]

IsTypeHeader(text, line) == WordAt(text, line.cursor, "type") /\ HeaderColon(text, line.cursor + 1) > 0

IsText(text, line) == line.cursor < line.to /\ text[line.cursor] # "#"

\* The line belongs to the type of the last header before it.
IsConstructor(text, lines, line) ==
  \E header \in lines :
    /\ header.from < line.from /\ Indent(header) < Indent(line)
    /\ IsTypeHeader(text, header)
    /\ \A l \in lines : l.from \in header.from + 1 .. line.from =>
         IF WordAt(text, l.cursor, "type") THEN HeaderColon(text, l.cursor + 1) = 0
         ELSE IsText(text, l) => Indent(l) > Indent(header)

MaskCurrentTypes(text, lines) ==
  LET Hidden(line) ==
        CASE WordAt(text, line.cursor, "def") -> MaskDefHeader(text, line.cursor, line.to)
          [] WordAt(text, line.cursor, "type") ->
               MaskTypeParameters(text, line.cursor, line.to)
               \cup MaskFunTypeParameters(text, line.cursor, line.to)
          [] OTHER ->
               (IF IsConstructor(text, lines, line) THEN MaskBracedFieldTypes(text, line) ELSE {})
               \cup
               (IF Indent(line) = 0 /\ IsText(text, line)
                THEN MaskFunHeaderTypes(text, line.cursor, line.to) ELSE {})
  IN UNION {Hidden(line) : line \in lines}

\* A field is a name before the colon, and an open bracket before that.
MaskField(text, line, eq, colon) ==
  LET nameEnd == Before(text, colon, eq, LAMBDA l : l \in Blanks)
      name == Before(text, nameEnd, eq, IsNameByte)
      open == Before(text, name, eq, LAMBDA l : l \in Blanks) - 1
      close == MatchingDelimiter(text, open, line.to)
  IN IF name = nameEnd \/ open <= eq \/ text[open] # "(" \/ close = 0 THEN {}
     ELSE (open .. name - 1) \cup (colon .. close)

MaskFunTypeFields(text, lines) ==
  LET Fields(line, eq) ==
        UNION {MaskField(text, line, eq, i) :
                 i \in {j \in eq + 1 .. line.to - 1 : eq > 0 /\ text[j] = ":"}}
  IN UNION {Fields(line, IndexOf(text, line.cursor, line.to, "=")) :
              line \in {l \in lines : WordAt(text, l.cursor, "type")}}

MaskFunctionalSignatures(text, lines) ==
  UNION {line.from .. line.to - 1 :
           line \in {l \in lines :
                       /\ ~WordIn(text, l.cursor, {"def", "type", "object", "hvm", "import", "from"})
                       /\ HasArrow(text, l.cursor, l.to)
                       /\ TopLevelEquals(text, l.cursor, l.to) = 0}}

MaskCurrentKeywords(text, lines) ==
  {i \in {line.cursor : line \in lines} : WordIn(text, i, {"unchecked", "const"})}

\* The quote that is open after a lexeme, if quote was before it: a backslash before a
\* quote keeps the string open.
QuoteAfter(text, i, start, quote) ==
  CASE text[i] \in Quotes /\ quote = "NONE" -> text[i]
    [] text[i] = quote /\ (i = start \/ text[i - 1] # "BACKSLASH") -> "NONE"
    [] OTHER -> quote

ShiftEnd(text, operand, to) ==
  IF operand < to /\ text[operand] = "(" /\ MatchingDelimiter(text, operand, to) > 0
  THEN MatchingDelimiter(text, operand, to) + 1 ELSE Past(text, operand, to, IsExpressionByte)

IsShift(text, line, i) ==
  /\ text[i] \in {"<", ">"} /\ text[i + 1] = text[i]
  /\ \E prev \in line.from .. i - 1 :
       /\ prev = Before(text, i, line.from - 1, LAMBDA l : l \in Blanks) - 1
       /\ text[prev] \notin {"(", ","}

MaskShifts(text, line) ==
  LET hidden[i \in line.from .. line.to, quote \in Quotes \cup {"NONE"}] ==
        IF i + 1 >= line.to \/ (text[i] = "#" /\ quote = "NONE") THEN {}
        ELSE LET after == QuoteAfter(text, i, line.from, quote)
                 end == ShiftEnd(text, PastBlanks(text, i + 2, line.to), line.to)
             IN IF after = "NONE" /\ IsShift(text, line, i)
                THEN (i .. end - 1) \cup hidden[end, after]
                ELSE hidden[i + 1, after]
  IN hidden[line.from, "NONE"]

MaskCurrentShifts(text, lines) == UNION {MaskShifts(text, line) : line \in lines}

(***************************************************************************)
(* The other masks.                                                        *)
(***************************************************************************)
MaskCurrentConstructorReturns(text) ==
  UNION {IndexOf(text, line.cursor + 1, line.to, "/") .. line.to - 1 :
           line \in {l \in LinesOf(text) : /\ WordAt(text, l.cursor, "return")
                                           /\ IndexOf(text, l.cursor + 1, l.to, "/") > 0}}

MaskCurrentComments(text) ==
  LET Comment(line) ==
        LET from[i \in line.from .. line.to, quote \in Quotes \cup {"NONE"}] ==
              IF i = line.to \/ (text[i] = "#" /\ quote = "NONE") THEN i
              ELSE from[i + 1, QuoteAfter(text, i, line.from, quote)]
        IN from[line.from, "NONE"] .. line.to - 1
  IN UNION {Comment(line) : line \in LinesOf(text)}

\* The bytes outside of strings and comments.  Unlike the other masks, this one lets a
\* backslash protect any lexeme, and a string go on in the next line.
CodeBytes(text) ==
  LET found[i \in 1 .. Len(text) + 2, quote \in Quotes \cup {"NONE"}] ==
        CASE i > Len(text) -> {}
          [] quote # "NONE" ->
               IF text[i] = "BACKSLASH" THEN found[i + 2, quote]
               ELSE found[i + 1, IF text[i] = quote THEN "NONE" ELSE quote]
          [] text[i] \in Quotes -> found[i + 1, text[i]]
          [] text[i] = "#" -> found[LineEnd(text, i) + 1, quote]
          [] OTHER -> {i} \cup found[i + 1, quote]
  IN found[1, "NONE"]

PathSeparators(text) ==
  {i \in CodeBytes(text) : /\ text[i] = "/" /\ i > 1 /\ i < Len(text)
                           /\ IsPathWordByte(text[i - 1]) /\ IsPathWordByte(text[i + 1])}

-----------------------------------------------------------------------------
(***************************************************************************)
(* What a mask makes of a text.                                            *)
(***************************************************************************)
Spaces(n) == [k \in 1 .. n |-> " "]

MaskRange(text, hidden) ==
  FlattenSeq([i \in DOMAIN text |->
                IF i \in hidden /\ text[i] \notin Blanks \cup {"LF", "CR"}
                THEN Spaces(Width(text[i])) ELSE <<text[i]>>])

MaskCurrentSyntax(text) ==
  LET Hidden(lines) ==
        MaskCurrentTypes(text, lines) \cup MaskFunTypeFields(text, lines)
        \cup MaskFunctionalSignatures(text, lines) \cup MaskCurrentKeywords(text, lines)
        \cup MaskCurrentShifts(text, lines)
  IN MaskRange(text, Hidden(LinesOf(text)))

MaskCurrentPathSeparators(text) ==
  LET separators == PathSeparators(text)
  IN [i \in DOMAIN text |-> IF i \in separators THEN "_" ELSE text[i]]

TrimLineEnding(text, line) ==
  IF line.to > line.from /\ text[line.to - 1] = "CR" THEN [line EXCEPT !.to = @ - 1] ELSE line

TopLevelDefinitionLine(text, line) ==
  /\ line.from < line.to /\ text[line.from] \notin Blanks \cup {"#"}
  /\ \/ WordIn(text, line.from, {"def", "type", "object", "hvm", "import", "from", "unchecked", "const"})
     \/ TopLevelEquals(text, line.from, line.to) > 0

\* What a line of a body is replaced by: blanks, and on its first line a body that fits.
Placeholder(room) == IF room < 8 THEN <<"0">> ELSE <<"return", " ", "0">>

\* Variant: the body is copied to the start of its line, not past the indentation.
BodyLineUnindented(text, line, isFirst) ==
  LET bytes == Bytes(SubSeq(text, line.from, line.to - 1))
      body == Placeholder(Bytes(SubSeq(text, line.cursor, line.to - 1)))
  IN IF isFirst THEN body \o Spaces(bytes - Bytes(body)) ELSE Spaces(bytes)

BodyLine(text, line, isFirst) ==
  LET content == SubSeq(text, line.cursor, line.to - 1)
      body == Placeholder(Bytes(content))
  IN IF isFirst
     THEN Spaces(Indent(line)) \o body \o Spaces(Bytes(content) - Bytes(body))
     ELSE Spaces(Bytes(SubSeq(text, line.from, line.to - 1)))

IsMaskedDefinition(text, line) ==
  /\ WordAt(text, line.from, "def")
  /\ IndexOf(text, line.from, line.to, "=") = 0 /\ IndexOf(text, line.from, line.to, ":") > 0

IsCode(text, line) ==
  \E i \in line.from .. line.to - 1 :
    /\ text[i] \notin Blanks \cup {"CR", "#"}
    /\ \A j \in line.from .. i - 1 : text[j] \in Blanks \cup {"CR"}

\* The lines of the bodies of the definitions, one set for each that has code.
Bodies(text, lines, starts) ==
  LET Body(start) ==
        {line \in lines \ starts :
           start.from < line.from
           /\ ~\E other \in starts : other.from > start.from /\ other.from < line.from}
  IN {body \in {Body(start) : start \in {s \in starts : IsMaskedDefinition(text, s)}} :
        \E line \in body : IsCode(text, line)}

MaskBodies(text, lines, bodies) ==
  LET IsFirst(line, body) ==
        IsCode(text, line) /\ \A other \in body : IsCode(text, other) => line.from <= other.from
      New(line) ==
        IF \E body \in bodies : line \in body
        THEN BodyLine(text, line, \E body \in bodies : line \in body /\ IsFirst(line, body))
        ELSE SubSeq(text, line.from, line.to - 1)
  IN FlattenSeq([i \in DOMAIN text |->
       IF \E line \in lines : line.from = i /\ line.to > i
       THEN New(CHOOSE line \in lines : line.from = i)
       ELSE IF \E line \in lines : i \in line.from .. line.to - 1 THEN <<>> ELSE <<text[i]>>])

MaskCurrentDefinitionBodies(text) ==
  LET lines == {TrimLineEnding(text, line) : line \in LinesOf(text)}
      starts == {line \in lines : TopLevelDefinitionLine(text, line)}
  IN MaskBodies(text, lines, Bodies(text, lines, starts))

(***************************************************************************)
(* The texts chooseRecoveredTree may give the parser for a source.  It     *)
(* tries the mask of comments on the best one so far.                      *)
(***************************************************************************)
SyntaxCandidates(source, syntax) ==
  {source, syntax, MaskCurrentPathSeparators(source), MaskCurrentPathSeparators(syntax),
   MaskRange(syntax, MaskCurrentConstructorReturns(syntax))}
Candidates(source, syntax, bodiless) ==
  LET WithMaskedComments(best) == best \cup {MaskRange(text, MaskCurrentComments(text)) : text \in best}
  IN WithMaskedComments(SyntaxCandidates(source, syntax)) \cup {bodiless}
=============================================================================
