--------------------------- MODULE LexicalOutline ---------------------------
(***************************************************************************)
(* The outline of src/intel/lexical.go: the names of top-level definitions *)
(* as the lines of a source have them, which Document.Symbols adds to      *)
(* those of the tree.  Texts and lines are those of Masks.                 *)
(***************************************************************************)
EXTENDS Masks

Kinds == [def |-> "function", type |-> "type", object |-> "object", hvm |-> "function"]

FirstName(text, from, to) ==
  LET start == Past(text, from, to, LAMBDA l : l \in Blanks \cup {"(", "*"})
  IN [start |-> start, end |-> Past(text, start, to, IsNameByte)]

\* The symbols of a line: none or one, at byte offsets in the line.
TopLevelSymbol(text, line) ==
  LET to == Before(text, line.to, line.from - 1, LAMBDA l : l \in Blanks \cup {"CR"})
      begin == IF WordIn(text, line.cursor, {"unchecked", "const"})
               THEN PastBlanks(text, line.cursor + 1, to) ELSE line.cursor
      keywords == {k \in DOMAIN Kinds : WordAt(text, begin, k)}
      eq == TopLevelEquals(text, begin, to)
      name == IF keywords # {} THEN FirstName(text, PastBlanks(text, begin + 1, to), to)
              ELSE FirstName(text, begin, eq)
      ByteAt(i) == Bytes(SubSeq(text, line.from, i - 1))
  IN IF \/ line.cursor >= to \/ text[line.cursor] = "#"
        \/ WordIn(text, line.cursor, {"import", "from"})
        \/ begin >= to
        \/ keywords = {} /\ eq = 0
        \/ name.start = name.end
     THEN {}
     ELSE {[name |-> SubSeq(text, name.start, name.end - 1),
            kind |-> IF keywords = {} THEN "function" ELSE Kinds[CHOOSE k \in keywords : TRUE],
            line |-> Cardinality({i \in 1 .. line.from - 1 : text[i] = "LF"}),
            start |-> ByteAt(name.start), end |-> ByteAt(name.end)]}

\* The tree has existing symbols: pairs of a name and a line.
LexicalSymbols(text, existing) ==
  LET lines == {line \in LinesOf(text) : line.from < line.to /\ text[line.from] \notin Blanks}
  IN {s \in UNION {TopLevelSymbol(text, line) : line \in lines} : <<s.name, s.line>> \notin existing}
=============================================================================
