----------------------------- MODULE Algorithms -----------------------------
(***************************************************************************)
(* The algorithms of Scopes and SnapshotLoader on bounded inputs: a        *)
(* program that grows phrase by phrase at its end, as an author types it,  *)
(* and, while there is none, any request to the sidecar; those of          *)
(* LexicalOutline on a file that grows line by line, and of SemanticTokens *)
(* on any captures of a text.                                              *)
(***************************************************************************)
EXTENDS Scopes, SnapshotLoader, LexicalOutline, SemanticTokens

CONSTANTS Names,       \* of functions, parameters and variables
          Mentioned,   \* the one that is mentioned in every body
          MaxPhrases,  \* bound on a program
          Base,        \* the directory of the checked document
          Target,      \* the URI of that document
          Uris,        \* of documents, in the order of a request
          OnDisk,      \* logical names of files that may be on the disk
          Imports,     \* what the checked document may import
          Written,     \* lines of a file, without their ends
          MaxLines,    \* bound on a file
          Characters,  \* of a highlighted text
          MaxText      \* bound on its length

\* The name that a rename asks for is new.
ASSUME NamesAssumption == "new" \notin Names \cup {Mentioned}
\* Files have a name; so have the documents among them, which are no directory.
ASSUME UrisAssumption ==
  /\ Base \in Seq(STRING)
  /\ Uris \in Seq([scheme : STRING, path : Seq(STRING)])
  /\ \A uri \in Range(Uris) : uri.scheme = "file" => uri.path \notin {<<>>, Base}
ASSUME ImportsAssumption ==
  /\ OnDisk \subseteq Seq(STRING) \ {<<>>}
  /\ Imports \subseteq [type : STRING, from : BOOLEAN, prefix : Seq(STRING), files : SUBSET STRING]
ASSUME WrittenAssumption == Written \subseteq Seq(STRING)

VARIABLES
  program,  \* a tree
  phrases,  \* number of phrases it was made of
  request,  \* documents and root of a request
  import,   \* an import met by its check
  disk,     \* the files that are on the disk
  source,   \* lexemes of a file that is parsed with recovery
  view      \* a highlighted text, what was captured in it, and its tokens

inputs == <<program, phrases, request, import, disk>>
vars == <<inputs, source, view>>

Root == [type |-> "source_file", field |-> "", parent |-> 0, name |-> "",
         at |-> [line |-> 0, character |-> 0]]
NoRequest == [root |-> <<>>, documents |-> <<>>]
NoView == [text |-> <<>>, captures |-> {}, recovered |-> FALSE, data |-> <<>>]
NoImport == [type |-> "List", from |-> TRUE, prefix |-> <<>>, files |-> {}]

Init ==
  /\ program = <<Root>>
  /\ phrases = 0
  /\ request = NoRequest
  /\ import = NoImport
  /\ disk = {}
  /\ source = <<>>
  /\ view = NoView

-----------------------------------------------------------------------------
(***************************************************************************)
(* Programs.  A phrase is a sequence of nodes whose parents are counted    *)
(* within the phrase; each ends in a body that mentions a name.            *)
(***************************************************************************)
Node(type, field, up) == [type |-> type, field |-> field, up |-> up, name |-> ""]
Identifier(field, up, name) == [type |-> "identifier", field |-> field, up |-> up, name |-> name]

Body(first) == <<Node("body", "", 1), Identifier("", first, Mentioned)>>

Definition(f, x) ==
  <<Node("imp_function_definition", "", 0), Identifier("name", 1, f),
    Node("parameters", "parameters", 1), Node("parameter", "", 3),
    Identifier("name", 4, x)>> \o Body(6)

Rule(f, x) ==
  <<Node("fun_function_definition", "", 0), Identifier("name", 1, f),
    Node("pattern", "", 1), Identifier("", 3, x)>> \o Body(5)

Lambda(x) ==
  <<Node("imp_lambda", "", 0), Node("parameters", "", 1),
    Node("expression_identifier", "", 2), Identifier("", 3, x)>> \o Body(5)

FunLambda(x) ==
  <<Node("fun_lambda", "", 0), Node("pattern", "", 1), Identifier("", 2, x)>> \o Body(4)

Case(x) ==
  <<Node("match_case", "", 0), Node("match_pattern", "", 1), Identifier("", 2, x)>> \o Body(4)

Bend == <<Node("bend_statement", "", 0)>> \o Body(2)

Assignment(x) ==
  <<Node("assignment_statement", "", 0), Identifier("pat", 1, x)>> \o Body(3)

PairAssignment(x, y) ==
  <<Node("assignment_statement", "", 0), Identifier("pat", 1, x), Identifier("pat", 1, y)>>
  \o Body(4)

Functions == UNION {{Definition(f, x), Rule(f, x)} : f \in Names, x \in Names}
Statements ==
  (UNION {{Lambda(x), FunLambda(x), Case(x), Assignment(x)} : x \in Names})
  \cup {PairAssignment(p[1], p[2]) : p \in {q \in Names \X Names : q[1] # q[2]}}
  \cup {Bend}

\* The nodes at the end of the program that can take another statement.
Open(tree) ==
  {n \in Nodes(tree) : tree[n].type \in {"source_file", "body"} /\ Len(tree) \in Subtree(tree, n)}

Extended(tree, phrase, parent, newline) ==
  LET last == tree[Len(tree)].at
      start == IF newline THEN [line |-> last.line + 1, character |-> 0]
               ELSE [last EXCEPT !.character = @ + 2]
  IN tree \o [i \in DOMAIN phrase |->
                [type |-> phrase[i].type, field |-> phrase[i].field, name |-> phrase[i].name,
                 parent |-> IF phrase[i].up = 0 THEN parent ELSE Len(tree) + phrase[i].up,
                 at |-> [start EXCEPT !.character = @ + i - 1]]]

Type ==
  /\ request = NoRequest /\ source = <<>> /\ view = NoView
  /\ phrases < MaxPhrases
  /\ phrases' = phrases + 1
  /\ \E parent \in Open(program), newline \in {FALSE, phrases > 0} :
       \E phrase \in IF parent = 1 THEN Functions ELSE Statements :
         program' = Extended(program, phrase, parent, newline)
  /\ UNCHANGED <<request, import, disk, source, view>>

-----------------------------------------------------------------------------
(***************************************************************************)
(* Requests.                                                               *)
(***************************************************************************)
\* The open documents, in the order of the request.
Listed(open) ==
  LET listed[n \in 0 .. Len(Uris)] ==
        IF n = 0 THEN <<>>
        ELSE IF Uris[n] \in open THEN Append(listed[n - 1], Uris[n]) ELSE listed[n - 1]
  IN  listed[Len(Uris)]

EditorsText(uri) == [uri |-> uri, source |-> [from |-> "editor", path |-> uri.path]]

Request ==
  /\ program = <<Root>> /\ request = NoRequest /\ source = <<>> /\ view = NoView
  /\ \E root \in {<<>>, Base}, open \in {{Target} \cup u : u \in SUBSET Range(Uris)} :
       LET uris == Listed(open)
       IN request' = [root |-> root, documents |-> [i \in DOMAIN uris |-> EditorsText(uris[i])]]
  /\ import' \in Imports
  /\ disk' \in SUBSET OnDisk
  /\ UNCHANGED <<program, phrases, source, view>>

-----------------------------------------------------------------------------
(***************************************************************************)
(* Files and highlighted texts.                                            *)
(***************************************************************************)
Write ==
  /\ inputs = <<<<Root>>, 0, NoRequest, NoImport, {}>> /\ view = NoView
  /\ Cardinality({i \in DOMAIN source : source[i] = "LF"}) < MaxLines - 1
  /\ \E line \in Written : source' = IF source = <<>> THEN line ELSE source \o <<"LF">> \o line
  /\ UNCHANGED <<inputs, view>>

\* What the query may capture in a text of n characters: nothing, one or two of its spans.
CaptureKinds == {"variable", "function", ""}
CaptureSets(n) ==
  LET spans == {s \in [start : 1 .. n, end : 2 .. n + 1, kind : CaptureKinds] : s.start < s.end}
  IN {{}} \cup {{c, d} : c, d \in spans}

Highlight ==
  /\ inputs = <<<<Root>>, 0, NoRequest, NoImport, {}>> /\ source = <<>> /\ view = NoView
  /\ \E n \in 1 .. MaxText : \E text \in [1 .. n -> Characters] :
       \E captures \in CaptureSets(n), recovered \in BOOLEAN :
         \E data \in EncodedTokens(text, captures, recovered) :
           view' = [text |-> text, captures |-> captures, recovered |-> recovered, data |-> data]
  /\ UNCHANGED <<inputs, source>>

Next == Type \/ Request \/ Write \/ Highlight

Spec == Init /\ [][Next]_vars

-----------------------------------------------------------------------------
(***************************************************************************)
(* Scopes.                                                                 *)
(***************************************************************************)
Openers == FunctionTypes \cup LambdaTypes \cup ArmTypes
Above(n) == {k \in Nodes(program) : k < n /\ n \in Subtree(program, k)}
Enclosing(n) == Max({1} \cup {k \in Above(n) : program[k].type \in Openers})

\* The node whose scope the identifier n binds its name in, by the shape of the tree.
BoundIn(n) ==
  LET lists == {k \in Above(n) : program[k].type \in {"parameters", "pattern", "match_pattern"}}
      parent == program[n].parent
  IN CASE program[n].field = "name" /\ program[parent].type \in FunctionTypes -> Enclosing(parent)
       [] lists # {} -> Enclosing(Max(lists))
       [] n = ChildByFieldName(program, parent, "pat") -> Enclosing(n)
       [] OTHER -> NoNode

\* The last of the innermost that bind its name before it, or at it; each identifier
\* binds in boundIn.
LexicalBinder(boundIn, n) ==
  LET above == Above(n)
      binders == {m \in Identifiers(program) :
                    m <= n /\ program[m].name = program[n].name /\ boundIn[m] \in above}
      innermost == Max({boundIn[m] : m \in binders})
  IN IF binders = {} THEN NoNode ELSE Max({m \in binders : boundIn[m] = innermost})

\* bindingAt compares ranges, the sizes of scopes and the order of bindings; what it
\* finds is what the nesting of the tree says: the binding of the innermost scope
\* around the name, whether scopes share a line, an end or a size.
BindingIsInnermost ==
  LET graph == BuildScopes(program)
      boundIn == [m \in Identifiers(program) |-> BoundIn(m)]
  IN \A n \in Identifiers(program) :
       LET binder == LexicalBinder(boundIn, n)
           found == BindingAt(graph, program, n)
       IN IF binder = NoNode THEN found = NoBinding
          ELSE found.range = NodeRange(program, binder)

\* Renaming a local name to a new one changes its binding and all names bound by it:
\* afterwards each name of the document is bound where it was.
RenameKeepsBindings ==
  LET graph == BuildScopes(program)
      Place(g, tree, n) == [BindingAt(g, tree, n) EXCEPT !.name = ""]
  IN \A n \in Identifiers(program) :
       BindingAt(graph, program, n).scope > 0 =>
         LET renamed == Rename(graph, program, n, "new")
             new == BuildScopes(renamed)
         IN \A m \in Identifiers(program) :
              Place(new, renamed, m) = Place(graph, program, m)

-----------------------------------------------------------------------------
(***************************************************************************)
(* The loader.                                                             *)
(***************************************************************************)
OpenFiles == {request.documents[i].uri.path : i \in DOMAIN request.documents}
IsOpen(name) == Base \o name \in OpenFiles

\* The files the import means, of those that exist on the disk or in the editor: the path
\* is the directory of the names, and that of `from path import names` may itself be a file
\* (Workspace.resolveImport takes it for one).
Wanted ==
  LET names == disk \cup {name \in {SubSeq(path, Len(Base) + 1, Len(path)) : path \in OpenFiles} :
                            IsOpen(name)}
  IN {name \in names :
        \/ /\ Front(name) = import.prefix
           /\ import.type = "Glob" \/ Last(name) \in import.files
        \/ import.from /\ name = import.prefix}

Text(from, name) == [from |-> from, path |-> Base \o name]
FromDisk ==
  [sources |-> [name \in Wanted \cap disk |-> Text("disk", name)],
   src |-> [kind |-> "Bend", files |-> {<<Last(name), name>> : name \in Wanted \cap disk}]]
Loaded == Load(SnapshotDocuments(request), import, FromDisk)

Mixed == \E a, b \in Wanted : IsOpen(a) /\ ~IsOpen(b)

\* The path is a file that is open; the loader looks for the names in a directory only.
IsOpenPath == import.from /\ import.prefix \in Wanted /\ IsOpen(import.prefix)

\* A document that is called by a name of another file's.
Misnamed ==
  \E i \in DOMAIN request.documents :
    LET uri == request.documents[i].uri
        name == LogicalDocumentName(uri, request.root)
    IN uri.path # Base \o name

\* The compiler sees the editor's text of each imported file that is open and the
\* disk's of the others, and binds the import to those files, if all are open or none is,
\* the path is no open file, and each document's name is its file's.
ImportsSeeTheEditor ==
  ~Mixed /\ ~IsOpenPath /\ ~Misnamed =>
    /\ Loaded.sources = [name \in Wanted |-> Text(IF IsOpen(name) THEN "editor" ELSE "disk", name)]
    /\ {file[2] : file \in Loaded.src.files} = Wanted

\* Unopened files are loaded by Bend's own loader (docs/semantic-protocol.md).
UnopenedFilesFallBack ==
  \A name \in Wanted : ~IsOpen(name) => name \in DOMAIN Loaded.sources

\* The loader "prefers the editor's in-memory workspace snapshot and falls back ... for
\* unopened imports" (main.rs:192-193): no file that is open is read from the disk.
OpenImportsAreTheEditors ==
  \A name \in DOMAIN Loaded.sources :
    ~Misnamed /\ IsOpen(name) => Loaded.sources[name] = Text("editor", name)

-----------------------------------------------------------------------------
(***************************************************************************)
(* Masks.                                                                  *)
(***************************************************************************)
LineLengths(text) ==
  LET lines == LinesOf(text)
  IN {[line |-> Cardinality({k \in lines : k.from < line.from}),
       bytes |-> Bytes(SubSeq(text, line.from, line.to - 1))] : line \in lines}
Places(text) ==
  {[at |-> Bytes(SubSeq(text, 1, i - 1)), lexeme |-> text[i]] :
     i \in {j \in DOMAIN text : text[j] \notin Blanks}}

\* What a body is replaced by, "return 0" or "0", stands where the body has text.
IsPlaceholder(p, places) ==
  \E q \in places : \/ p.at = q.at /\ p.lexeme \in {"return", "0"}
                    \/ p.at = q.at + 7 /\ p.lexeme = "0"

\* Each text the parser is given has its lines, and each line its bytes, where the source
\* has them, and each lexeme it shows is where the source has it, or "_" where that has
\* "/"; but for the placeholders in the one with masked bodies.  So positions in the tree
\* are positions in the source.
MasksKeepPlaces ==
  \A syntax \in {MaskCurrentSyntax(source)} :
    \A bodiless \in {MaskCurrentDefinitionBodies(syntax)}, places \in {Places(source)},
       lengths \in {LineLengths(source)} :
      \A text \in Candidates(source, syntax, bodiless) :
        /\ LineLengths(text) = lengths
        /\ \A p \in Places(text) :
             \/ p \in places
             \/ p.lexeme = "_" /\ [p EXCEPT !.lexeme = "/"] \in places
             \/ text = bodiless /\ text # syntax /\ IsPlaceholder(p, places)

\* Headers the masks do not recognise: one that starts with "unchecked" and has an arrow
\* is taken for a signature, and a name without parameters for a shorter one at its "-".
IsTakenForSignature(line) ==
  /\ WordAt(source, line.cursor, "unchecked")
  /\ HasArrow(source, line.cursor, line.to)
  /\ TopLevelEquals(source, line.cursor, line.to) = 0
IsCut(line, symbols) ==
  /\ WordAt(source, line.cursor, "def") /\ IndexOf(source, line.cursor, line.to, "(") = 0
  /\ \E symbol \in symbols : "-" \in Range(symbol.name)
\* With its keyword hidden, a header is no longer at the start of its line, and is hidden
\* with the body before it.
IsUnmarked(line) == WordIn(source, line.cursor, {"unchecked", "const"})

\* A header is hidden too where a bracket that is open before it is closed after it, as
\* while an author writes a list of parameters.
IsWithinBrackets(line) ==
  \E i \in 1 .. line.from - 1 :
    source[i] = "(" /\ MatchingDelimiter(source, i, Len(source) + 1) > line.from

\* The symbols of a text's lines, and where they are.
Outline(text) == {[line |-> line, symbols |-> TopLevelSymbol(text, line)] : line \in LinesOf(text)}
SymbolPlaces(outline) == {[s EXCEPT !.name = <<>>] : s \in UNION {entry.symbols : entry \in outline}}

\* The names of top-level definitions survive each mask, in place, but for those headers.
OutlineSurvives ==
  LET IsRecognised(line, symbols) ==
        /\ ~IsTakenForSignature(line) /\ ~IsCut(line, symbols) /\ ~IsWithinBrackets(line)
  IN \A syntax \in {MaskCurrentSyntax(source)} :
     \A bodiless \in {MaskCurrentDefinitionBodies(syntax)},
        outline \in {LexicalSymbols(source, {})} :
     \A headers \in {{entry \in Outline(source) :
                        /\ entry.symbols \cap outline # {}
                        /\ IsRecognised(entry.line, entry.symbols)}} :
       \A text \in Candidates(source, syntax, bodiless) :
         LET kept == IF text = bodiless /\ text # syntax
                     THEN {entry \in headers : ~IsUnmarked(entry.line)} ELSE headers
         IN SymbolPlaces(kept) \subseteq SymbolPlaces(Outline(text))

-----------------------------------------------------------------------------
(***************************************************************************)
(* Tokens.                                                                 *)
(***************************************************************************)
\* What a client makes of the data.
Decoded ==
  [i \in DOMAIN view.data |->
     LET first == Max({1} \cup {j \in 1 .. i : view.data[j][1] > 0})
         Sum(from, k) == FoldLeft(LAMBDA n, d : n + d[k], 0, SubSeq(view.data, from, i))
     IN [line |-> Sum(1, 1), character |-> Sum(first, 2),
         length |-> view.data[i][3], kind |-> view.data[i][4]]]

\* Where a client sees a byte of the text.
Seen(i) ==
  LET ends == {j \in 1 .. i - 1 : view.text[j] = "LF"}
  IN [line |-> Cardinality(ends), character |-> UnitLength(view.text, Max(ends \cup {0}) + 1, i)]

\* A client finds a token where the query's captures, or for a masked tree the comments,
\* start, the longest there is, and no other; all numbers it is sent are unsigned.
TokensAreWhereCaptured ==
  LET tokens == Tokens(view.text, view.captures, view.recovered)
      longest == {t \in tokens : \A u \in tokens : u.start = t.start => u.length <= t.length}
  IN /\ \A d \in Range(Decoded) : \E t \in longest :
          d = [line |-> Seen(t.start).line, character |-> Seen(t.start).character,
               length |-> t.length, kind |-> t.kind]
     /\ \A t \in longest : \E d \in Range(Decoded) :
          Seen(t.start) = [line |-> d.line, character |-> d.character]
     /\ Len(Decoded) = Cardinality({t.start : t \in tokens})
     /\ \A i \in DOMAIN view.data : view.data[i][1] >= 0 /\ view.data[i][2] >= 0
=============================================================================
