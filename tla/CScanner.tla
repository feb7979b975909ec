------------------------------ MODULE CScanner ------------------------------
(***************************************************************************)
(* The upstream scanner, src/internal/cparity/c/scanner.c.  A scan is a    *)
(* function from the source, the place and the state it starts in and the  *)
(* symbols the parser accepts to the token, the state and the place it     *)
(* ends in; the state is its array of columns.                             *)
(* Unlike the Go port it asks the lexer for the end of the source, so a    *)
(* NUL character is a character like any other.                            *)
(***************************************************************************)
EXTENDS CArray, FiniteSetsExt

CWordRange == 65536
CByteRange == 256
CLayout == {"NEWLINE", "INDENT", "DEDENT"}

\* lookahead and eof().
CLook(text, p) == IF p <= Len(text) THEN text[p] ELSE "eof"

CIdentifier == {"digit", "letter"}

\* The first place from p on whose character is not of the class.
SpanEnd(text, p, class) ==
  Min({q \in p .. Len(text) + p : CLook(text, q) \notin class})

CommentChars(text) == {text[i] : i \in DOMAIN text} \ {"newline", "nul"}

\* The for (;;) loop: its locals at a place, and how it ends: at the layout decision,
\* with a natural, or with return false ("fail"); until then it is in "space".
CLocals == [kind : {"space", "layout", "NAT", "fail"}, at : Nat,
            eol : BOOLEAN, indent : Nat, comment : Int]

CStart(place) ==
  [kind |-> "space", at |-> place, eol |-> FALSE, indent |-> 0, comment |-> -1]

\* One turn of it.
CTurn(text, valid, s) ==
  LET c == CLook(text, s.at)
      d == CLook(text, s.at + 1)
      hash == c = "#" /\ valid \cap (CLayout \cup {"NAT"}) # {}
      past == [s EXCEPT !.at = @ + 1]
  IN  CASE c = "newline" -> [past EXCEPT !.eol = TRUE, !.indent = 0]
        [] c = "space"   -> [past EXCEPT !.indent = @ + 1]
        [] c = "return"  -> [past EXCEPT !.indent = 0]
        [] c = "tab"     -> [past EXCEPT !.indent = @ + 8]
        [] hash /\ (d = "{" \/ (d = "digit" /\ "NAT" \notin valid)
                           \/ (d # "digit" /\ ~s.eol)) ->
             [s EXCEPT !.kind = "fail"]
        [] hash /\ d = "digit" /\ "NAT" \in valid ->
             [s EXCEPT !.kind = "NAT", !.at = SpanEnd(text, @ + 1, {"digit"})]
        [] hash /\ d \notin {"{", "digit"} /\ s.eol ->
             [s EXCEPT !.at = SpanEnd(text, @ + 1, CommentChars(text)) + 1,
                       !.indent = 0,
                       !.comment = IF @ = -1 THEN s.indent ELSE @]
        [] c = "eof" -> [s EXCEPT !.kind = "layout", !.eol = TRUE, !.indent = 0]
        [] OTHER     -> [s EXCEPT !.kind = "layout"]

CSpace(text, valid) ==
  LET loop[s \in CLocals] ==
        IF s.kind = "space" THEN loop[CTurn(text, valid, s)] ELSE s
  IN  loop

\* The two blocks that look for an identifier with a slash after it, from place
\* p: the token they give the text up to the slash, or "none".
CPath(text, p, valid) ==
  LET slash == SpanEnd(text, p, CIdentifier)
      after == CLook(text, SpanEnd(text, slash + 1, CIdentifier))
  IN  IF "PATH" \in valid /\ slash > p /\ CLook(text, slash) = "/"
        THEN IF "PATH_EXPR" \in valid /\ after \notin {"{", ":"}
               THEN "PATH_EXPR" ELSE "PATH"
        ELSE "none"

\* What follows the loop, from what it came to; the token's end is in pos.
CDecided(text, start, array, valid, space) ==
  LET failed == [token |-> "none", pos |-> start, indents |-> array]
      Token(t, end) == [failed EXCEPT !.token = t, !.pos = end]
      path == CPath(text, space.at, valid)
      current == Back(array)
      opens  == "INDENT" \in valid /\ space.indent > current
      closes == /\ "DEDENT" \in valid \/ "NEWLINE" \notin valid
                /\ space.indent < current
                /\ space.comment < current
  IN  IF "ERROR" \in valid \/ space.kind = "fail" THEN failed
      ELSE IF space.kind = "NAT" THEN Token("NAT", space.at)
      ELSE IF space.eol /\ array.size > 0 /\ opens
        THEN [Token("INDENT", start) EXCEPT
                !.indents = Pushed(array, space.indent % CWordRange)]
      ELSE IF space.eol /\ array.size > 0 /\ closes
        THEN [Token("DEDENT", start) EXCEPT
                !.indents = Popped(array)]
      ELSE IF space.eol /\ "NEWLINE" \in valid THEN Token("NEWLINE", start)
      ELSE IF path # "none"
        THEN Token(path, SpanEnd(text, space.at, CIdentifier))
      ELSE failed

\* tree_sitter_bend_external_scanner_scan
CScan(text, start, array, valid) ==
  CDecided(text, start, array, valid, CSpace(text, valid)[CStart(start)])

\* tree_sitter_bend_external_scanner_serialize: from the second column on, until
\* the columns or the bytes of the buffer are used up.
CSerialized(array, limit) ==
  [i \in 1 .. Min({array.size - 1, limit}) |-> array.contents[i + 1] % CByteRange]

\* tree_sitter_bend_external_scanner_deserialize: the array is freed and filled
\* again; what it held before does not matter.
CDeserialized(array, bytes) ==
  LET filled[n \in 0 .. Len(bytes)] ==
        IF n = 0 THEN Pushed(Deleted(array), 0) ELSE Pushed(filled[n - 1], bytes[n])
  IN  filled[Len(bytes)]

\* tree_sitter_bend_external_scanner_create
CCreated == CDeserialized(NullArray, <<>>)
=============================================================================
