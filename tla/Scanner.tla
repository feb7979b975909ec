------------------------------- MODULE Scanner -------------------------------
(***************************************************************************)
(* The external scanner of src/bendlang/scanner.go: it turns indentation   *)
(* into INDENT, DEDENT and NEWLINE tokens and recognises natural literals  *)
(* (#12) and the part of a path before its slash.  One action is one turn  *)
(* of Scan's loop or one of its decisions.                                 *)
(*                                                                         *)
(* The parser (gotreesitter, external) calls Scan with the set of symbols  *)
(* its grammar state accepts, resumes after the token, falls back to its   *)
(* own lexer when Scan fails, and keeps serialized copies of the scanner's *)
(* state to which it returns when it abandons a branch or parses           *)
(* incrementally; one such copy at a time is enough to see what they do.   *)
(*                                                                         *)
(* Data.  A character is its class: "letter" stands for identifier         *)
(* characters other than digits, "other" for all that Scan does not name.  *)
(* The three layout tokens are zero-width; the token COMMENT is in the     *)
(* grammar's list but Scan never reads or emits it.                        *)
(***************************************************************************)
EXTENDS Integers, Sequences

CONSTANTS Inputs,      \* the sources to scan
          ValidSets,   \* the sets of symbols the parser may ask for
          BufferSize   \* bytes the parser offers to Serialize

Chars == {"newline", "space", "tab", "return", "#", "{", ":", "/", "digit",
          "letter", "other", "nul"}
Layout == {"NEWLINE", "INDENT", "DEDENT"}
Symbols == Layout \cup {"NAT", "PATH", "PATH_EXPR", "ERROR"}
NoToken == "none"

ASSUME InputsAssumption == Inputs \subseteq Seq(Chars)
ASSUME ValidSetsAssumption == ValidSets \subseteq SUBSET Symbols
ASSUME BufferSizeAssumption == BufferSize \in Nat

ByteRange == 256     \* indents are serialized as bytes
WordRange == 65536   \* and kept as uint16
TabWidth == 8

VARIABLES
  input,    \* the source being parsed
  pos,      \* the lexer's position
  pc,       \* where Scan is, or "idle" between two calls
  scan,     \* Scan's argument and local variables
  token,    \* the symbol of the last call, NoToken when it failed
  indents,  \* scannerState.indents: the columns of the blocks that are open
  saved,    \* the serialized state the parser keeps
  opened,   \* history: INDENT minus DEDENT tokens up to pos, 0 when lossy
  lossy     \* history: a column or a block did not fit its representation

vars == <<input, pos, pc, scan, token, indents, saved, opened, lossy>>

Locals == [start : Nat, mark : Nat, valid : SUBSET Symbols,
           foundEOL : BOOLEAN, indent : Nat, firstComment : Int]

Top(stack) == stack[Len(stack)]

\* Variant (mutation testing): the file's own block is serialized too.
SerializedFromZero(stack) ==
  [i \in 1 .. (IF Len(stack) > BufferSize THEN BufferSize ELSE Len(stack)) |->
     stack[i] % ByteRange]

\* Serialize: every column but the file's, clipped to the buffer.
Serialized(stack) ==
  LET n == Len(stack) - 1
  IN [i \in 1 .. (IF n > BufferSize THEN BufferSize ELSE n) |->
        stack[i + 1] % ByteRange]

Deserialized(bytes) == <<0>> \o bytes

\* The stacks that survive serialization.
Fits(stack) ==
  /\ Len(stack) - 1 <= BufferSize
  /\ \A i \in 1 .. Len(stack) : stack[i] < ByteRange

\* Lookahead returns 0 both at the end of the input and for a NUL character.
Lookahead == IF pos <= Len(input) THEN input[pos] ELSE "nul"
Advanced == IF pos <= Len(input) THEN pos + 1 ELSE pos
IsIdentifier(c) == c \in {"digit", "letter"}

ScanPoints == {"space", "hash", "digits", "comment", "layout", "path", "word",
               "component", "name"}

TypeOK ==
  /\ input \in Seq(Chars)
  /\ pos \in 1 .. Len(input) + 1
  /\ pc \in ScanPoints \cup {"idle"}
  /\ scan \in Locals
  /\ scan.start \in 1 .. Len(input) + 1
  /\ scan.mark \in 1 .. Len(input) + 1
  /\ token \in Symbols \cup {NoToken}
  /\ indents \in Seq(0 .. WordRange - 1)
  /\ Len(indents) >= 1
  /\ saved \in [pos : 1 .. Len(input) + 1, bytes : Seq(0 .. ByteRange - 1),
                opened : Int, lossy : BOOLEAN]
  /\ opened \in Int
  /\ lossy \in BOOLEAN

Idle == [start |-> 1, mark |-> 1, valid |-> {}, foundEOL |-> FALSE,
         indent |-> 0, firstComment |-> -1]

\* Create, and the parser's own copy of the created state.
Init ==
  /\ input \in Inputs
  /\ pos = 1
  /\ pc = "idle"
  /\ scan = Idle
  /\ token = NoToken
  /\ indents = <<0>>
  /\ saved = [pos |-> 1, bytes |-> <<>>, opened |-> 0, lossy |-> FALSE]
  /\ opened = 0
  /\ lossy = FALSE

-----------------------------------------------------------------------------
parser == <<input, saved>>
state  == <<indents, opened, lossy>>

\* The parser asks for a token; MarkEnd is called before anything is read.
Begin(v) ==
  /\ pc = "idle"
  /\ pc' = "space"
  /\ scan' = [Idle EXCEPT !.start = pos, !.mark = pos, !.valid = v]
  /\ UNCHANGED <<pos, token, state, parser>>

\* return false: the lexer goes back to where it was.
Fail ==
  /\ pc' = "idle"
  /\ token' = NoToken
  /\ pos' = scan.start
  /\ scan' = Idle
  /\ UNCHANGED <<state, parser>>

\* emit(t) with the token ending at end.
Emit(t, end) ==
  /\ pc' = "idle"
  /\ token' = t
  /\ pos' = end
  /\ scan' = Idle
  /\ UNCHANGED parser

Accepts(t) == t \in scan.valid

Read(next) ==
  /\ pos' = Advanced
  /\ pc' = next
  /\ UNCHANGED <<token, state, parser>>

\* In error recovery every symbol is valid and the scanner stays out of it.
Refuse == pc = "space" /\ Accepts("ERROR") /\ Fail

InSpace == pc = "space" /\ ~Accepts("ERROR")

Blank ==
  /\ InSpace
  /\ \/ /\ Lookahead = "newline"
        /\ scan' = [scan EXCEPT !.foundEOL = TRUE, !.indent = 0]
     \/ /\ Lookahead = "space"
        /\ scan' = [scan EXCEPT !.indent = @ + 1]
     \/ /\ Lookahead = "return"
        /\ scan' = [scan EXCEPT !.indent = 0]
     \/ /\ Lookahead = "tab"
        /\ scan' = [scan EXCEPT !.indent = @ + TabWidth]
  /\ Read("space")

ReadsHash == Lookahead = "#" /\ scan.valid \cap (Layout \cup {"NAT"}) # {}

Hash ==
  /\ InSpace
  /\ ReadsHash
  /\ Read("hash")
  /\ UNCHANGED scan

EndOfSource ==
  /\ InSpace
  /\ Lookahead = "nul"
  /\ scan' = [scan EXCEPT !.foundEOL = TRUE, !.indent = 0]
  /\ pc' = "layout"
  /\ UNCHANGED <<pos, token, state, parser>>

EndOfSpace ==
  /\ InSpace
  /\ Lookahead \notin {"newline", "space", "return", "tab", "nul"}
  /\ ~ReadsHash
  /\ pc' = "layout"
  /\ UNCHANGED <<pos, scan, token, state, parser>>

\* What follows a hash: a block comment (left to the grammar), a natural, the
\* comment after an expression (no layout), or a comment line.
Hashed ==
  /\ pc = "hash"
  /\ \/ Lookahead = "{" /\ Fail
     \/ Lookahead = "digit" /\ ~Accepts("NAT") /\ Fail
     \/ /\ Lookahead = "digit" /\ Accepts("NAT")
        /\ pc' = "digits"
        /\ UNCHANGED <<pos, scan, token, state, parser>>
     \/ Lookahead \notin {"{", "digit"} /\ ~scan.foundEOL /\ Fail
     \/ /\ Lookahead \notin {"{", "digit"} /\ scan.foundEOL
        /\ scan' = [scan EXCEPT !.firstComment = IF @ < 0 THEN scan.indent ELSE @]
        /\ pc' = "comment"
        /\ UNCHANGED <<pos, token, state, parser>>

Digits ==
  /\ pc = "digits"
  /\ \/ Lookahead = "digit" /\ Read("digits") /\ UNCHANGED scan
     \/ Lookahead # "digit" /\ Emit("NAT", pos) /\ UNCHANGED state

\* Variant: the column is not forgotten at the end of a comment line.
CommentKeepsIndent ==
  /\ pc = "comment"
  /\ Read(IF Lookahead \in {"nul", "newline"} THEN "space" ELSE "comment")
  /\ UNCHANGED scan

Comment ==
  /\ pc = "comment"
  /\ \/ Lookahead \notin {"nul", "newline"} /\ Read("comment") /\ UNCHANGED scan
     \/ /\ Lookahead \in {"nul", "newline"}
        /\ Read("space")
        /\ scan' = [scan EXCEPT !.indent = 0]

\* Variants: a block may open at the column of the one around it, or close at its
\* own column.
OpensAtSameColumn ==
  scan.foundEOL /\ Accepts("INDENT") /\ scan.indent >= Top(indents)

ClosesAtSameColumn ==
  /\ scan.foundEOL
  /\ Accepts("DEDENT") \/ ~Accepts("NEWLINE")
  /\ scan.indent <= Top(indents)
  /\ scan.firstComment < Top(indents)

Opens == scan.foundEOL /\ Accepts("INDENT") /\ scan.indent > Top(indents)

\* A line to the left of the block closes it, unless comments that still lie in
\* the block come first.  Not offered is no obstacle where NEWLINE is not either.
Closes ==
  /\ scan.foundEOL
  /\ Accepts("DEDENT") \/ ~Accepts("NEWLINE")
  /\ scan.indent < Top(indents)
  /\ scan.firstComment < Top(indents)

\* Variant: the column is not pushed.
IndentForgetsColumn ==
  /\ pc = "layout"
  /\ Opens
  /\ opened' = opened + 1
  /\ Emit("INDENT", scan.mark)
  /\ UNCHANGED <<indents, lossy>>

Indent ==
  /\ pc = "layout"
  /\ Opens
  /\ indents' = Append(indents, scan.indent % WordRange)
  /\ lossy' = (lossy \/ scan.indent >= WordRange)
  /\ opened' = IF lossy' THEN 0 ELSE opened + 1
  /\ Emit("INDENT", scan.mark)

Dedent ==
  /\ pc = "layout"
  /\ ~Opens
  /\ Closes
  /\ indents' = SubSeq(indents, 1, Len(indents) - 1)
  /\ opened' = IF lossy THEN 0 ELSE opened - 1
  /\ Emit("DEDENT", scan.mark)
  /\ UNCHANGED lossy

Newline ==
  /\ pc = "layout"
  /\ ~Opens /\ ~Closes
  /\ IF scan.foundEOL /\ Accepts("NEWLINE")
       THEN Emit("NEWLINE", scan.mark) /\ UNCHANGED state
       ELSE pc' = "path" /\ UNCHANGED <<pos, scan, token, state, parser>>

\* The path-expression token only where the general path token is valid too.
Path ==
  /\ pc = "path"
  /\ IF Accepts("PATH") /\ IsIdentifier(Lookahead)
       THEN /\ Read(IF Accepts("PATH_EXPR") THEN "word" ELSE "name")
            /\ UNCHANGED scan
       ELSE Fail

\* A word of a path expression; one that ends without a slash has no letter left
\* for the second chance.
Word ==
  /\ pc = "word"
  /\ \/ IsIdentifier(Lookahead) /\ Read("word") /\ UNCHANGED scan
     \/ /\ Lookahead = "/"
        /\ scan' = [scan EXCEPT !.mark = pos]
        /\ Read("component")
     \/ ~IsIdentifier(Lookahead) /\ Lookahead # "/" /\ Fail

Component ==
  /\ pc = "component"
  /\ \/ IsIdentifier(Lookahead) /\ Read("component") /\ UNCHANGED scan
     \/ /\ ~IsIdentifier(Lookahead)
        /\ Emit(IF Lookahead \in {"{", ":"} THEN "PATH" ELSE "PATH_EXPR",
                scan.mark)
        /\ UNCHANGED state

Name ==
  /\ pc = "name"
  /\ \/ IsIdentifier(Lookahead) /\ Read("name") /\ UNCHANGED scan
     \/ Lookahead = "/" /\ Emit("PATH", pos) /\ UNCHANGED state
     \/ ~IsIdentifier(Lookahead) /\ Lookahead # "/" /\ Fail

ScanStep ==
  \/ Refuse \/ Blank \/ Hash \/ EndOfSource \/ EndOfSpace \/ Hashed \/ Digits
  \/ Comment \/ Indent \/ Dedent \/ Newline \/ Path \/ Word \/ Component \/ Name

-----------------------------------------------------------------------------
(***************************************************************************)
(* The parser (external): its own lexer consumes something, and it keeps   *)
(* or returns to a serialized state between two calls of Scan.             *)
(***************************************************************************)
LexInternally ==
  /\ pc = "idle"
  /\ pos' \in pos + 1 .. Len(input) + 1
  /\ token' = NoToken
  /\ UNCHANGED <<pc, scan, state, parser>>

Save ==
  /\ pc = "idle"
  /\ saved' = [pos |-> pos, bytes |-> Serialized(indents),
               opened |-> IF Fits(indents) THEN opened ELSE 0,
               lossy |-> lossy \/ ~Fits(indents)]
  /\ UNCHANGED <<input, pos, pc, scan, token, state>>

Restore ==
  /\ pc = "idle"
  /\ pos' = saved.pos
  /\ indents' = Deserialized(saved.bytes)
  /\ opened' = saved.opened
  /\ lossy' = saved.lossy
  /\ token' = NoToken
  /\ UNCHANGED <<pc, scan, parser>>

Next ==
  \/ \E v \in ValidSets : Begin(v)
  \/ ScanStep
  \/ LexInternally \/ Save \/ Restore

Spec == Init /\ [][Next]_vars

-----------------------------------------------------------------------------
\* The blocks that are open nest: the first is the file's and each lies to the
\* right of the one around it, through any saving and returning of the parser,
\* as long as no column is too wide for its byte (or its word).
Nests(stack) ==
  /\ stack[1] = 0
  /\ \A i \in 1 .. Len(stack) - 1 : stack[i] < stack[i + 1]

BlocksNest == ~lossy => Nests(indents)

\* The stack has one entry for each INDENT the parser has been given and has
\* seen no DEDENT for: a branch taken up again goes on in its own blocks, and a
\* DEDENT never closes the file's.
BlocksAreTheParsers == ~lossy => Len(indents) = opened + 1

\* At one place of the source layout tokens come to an end whatever the grammar
\* accepts: after an INDENT neither INDENT nor DEDENT follows without the parser
\* consuming something, so there are dedents, then at most one indent, then
\* newlines.  A call that may not read a hash (nothing but paths is valid) stops
\* at a comment in the first column instead and is the exception.
IndentIsLast ==
  [][token = "INDENT" /\ pc # "idle" /\ pc' = "idle" /\ ~lossy
       /\ scan.valid \cap (Layout \cup {"NAT"}) # {}
       => token' \notin {"INDENT", "DEDENT"}]_vars
=============================================================================
