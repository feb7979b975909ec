# Bend Intel in TLA+

TLA+ modules, model-checking runs and machine-checked proofs for `bend-intel`: the Bend language
server `bendls`, the library `intel` it serves from, and the external scanner of the `bendlang`
grammar package. Every definition is translated from the code under `src/`; `PROJECT.json` gives
the lines each one stands for, the runs, the theorems, the hazards they aim at and the disagreements
found between code and documentation.

## 1. The system

| Component | Code | State | Operations | Modules |
|---|---|---|---|---|
| Language server | `lsp/server.go` | open documents, versions, the registered check and the stored compiler result of each document, the workspace index | didOpen, didChange, didClose, hover and the other requests, `bend/hvmView`, shutdown, exit; `scheduleSemantic` and its goroutine | `LspServer`, `LspHistory`, `SemanticChecks` |
| Document | `intel/document.go`, `edit.go` | source, tree, the text the tree was parsed from, cached scope graph | Parse, ApplyChanges, Offset, ranges | `Document` |
| Recovery | `intel/recovery.go` | the best candidate so far | six masks of the source, each parsed and compared | `Document` (the pipeline), `Masks` (the masks) |
| Scope graph | `intel/scopes.go` | scopes and bindings, built once per tree | Scopes, bindingAt | `Scopes`, `Document` (the cache) |
| Workspace index | `intel/workspace.go` | documents by URI, import graph with its converse | Load, Add, Remove, SetDocument, definition, references, rename, completion, symbols, call hierarchy | `Workspace` |
| External scanner | `bendlang/scanner.go` | stack of indentation columns | Scan, Serialize, Deserialize | `Scanner` |
| Upstream C scanner | `internal/cparity/c/scanner.c`, `tree_sitter/array.h` | the same stack, in an array that grows by itself | the reference the Go port is compared with | `CScanner`, `CArray`, `ScannerParity` |
| Command backend | `intel/semantics.go`, `semantic_protocol.go` | none between calls | one process per check, with a timeout | `SemanticCommand`; one action of `LspServer` |
| Semantic sidecar | `semanticd/src/main.rs` | none between requests | a check over a snapshot, with a package loader of its own | `SemanticCommand` (its main loop), `SnapshotLoader` |
| Lexical outline | `intel/lexical.go` | none | names of definitions from the lines of a source | `LexicalOutline` |
| Semantic tokens | `intel/tokens.go` | none | captures and comments to a delta-encoded list | `SemanticTokens` |
| Analysis views | `intel/analysis.go` | none | functions from a tree to a list | not modelled |
| Grammar package, generated parser | `bendlang/language.go`, `grammar/` | tables | parse | external: any parser; of the tables, which symbols a state accepts (`ScannerParity`) |
| Parity harness, command line tools | `internal/cparity/cgo.go`, `cmd/` | none | print, compare | not modelled |

How they interact. One handler goroutine reads messages from the editor and serves them in order. It
owns the documents and the index; `didOpen` gives the index its own parse of the text, `didChange`
the server's very `*Document`, so that from then on an edit in place changes the index too. After
each accepted edit the handler publishes the parser's diagnostics and starts a goroutine that sends
a snapshot of all open documents to the compiler and, when it answers, stores the result for hovers
and publishes its diagnostics. Versions, results and cancel functions are shared between the handler
and these goroutines under `semanticMu`; the writer has a lock of its own, so notifications do not
mix but their order is open. The document calls the parser, the parser calls the scanner and moves
it back and forth between branches through serialized copies of its state.

What is hard here:

- a check and the handler interleave between the check's context test, its version test, its store
  and its publish, four steps of which no two share a lock section;
- edits, closes and reopenings at the same version while checks run; cancellation that races an answer;
- a `didChange` whose batch fails half way, after the buffer has been changed in place;
- a tree that is edited, reused, replaced by a parse of a masked text, and cached facts about it;
- positions in UTF-16 units over a UTF-8 buffer, with two kinds of line ends;
- masks that must move nothing and hide no definition, each with its own reading of brackets,
  strings and comments, applied on top of each other;
- tokens sent as differences, from captures that overlap and a sort that is not stable;
- an import graph that must follow every opening, change and closing, and requests that go over it
  forwards and backwards;
- a compiler process that ends by itself, by a timeout or by cancellation, with its output in pipes
  that others may hold open;
- names resolved by the ranges and sizes of scopes, imports resolved by logical names;
- a scanner whose zero-width tokens and serialized state decide where blocks end, at places the
  parser chooses.

What makes each component correct: a superseded check never answers, and a live one does
(server); text, tree and cached graph belong together and positions mean what the editor means
(document); placeholders replace syntax only for a gain, in place, and leave the names of definitions (recovery); a
client decodes the tokens to where they are (tokens); index and graph are those of the
editor's texts, and the answers that go over the graph agree with each other (workspace); a call ends, and what it
returns is what the whole output amounts to (backend); a name means the innermost binding (scopes) and an
import what the editor has or else the disk (loader); blocks nest, the stack is the parser's, tokens come to an end, and the port does what its original does
(scanner). `PROJECT.json` lists 40 places where one of these may fail, under "hazards"; those
that no property speaks of have a note that says why.

## 2. Modules and how they correspond to the code

### LspServer, SemanticChecks

`LspServer` is the server with a backend configured. `handler` is the program counter of the handler
goroutine, split exactly where `semanticMu` is released or a notification is written: `DidOpen`,
`DidChange`, `DidChangeFails`, `DidClose` up to the end of their lock section, then `PublishSyntax`
and `ScheduleSemantic`, or `ClearDiagnostics`. `DidOpenFails` is an open whose text the parser refuses, after
which the document is open in the client only, and `DidChangeUnknown` a change of such a document. Two error paths
are left out: a publish that fails, which means that there is no client any more, and the index's own parse in
`didOpen`, whose error is swallowed, of the text the server has just parsed. `checkPc[c]` is that of the goroutine of check c:
`CheckReturns` (line 329), `CompareVersion` (332-337), `StoreResult` (343-345), `PublishSemantic`
(346). `Shutdown`, `Exit`, `EndOfInput` and `HvmView`/`LowerReturns` are the other things a handler
does; requests that only read are observations of the state between messages (`Settled`). Texts are
the number of the edit that wrote them; `Damaged(n)` is a buffer that no longer follows the client.
`docText` and `index` are `s.documents` and the workspace's entry, `aliased` says they are one object.
`overtaken` is a history variable: the phases in which the document changed under a check.
`LspHistory` adds, for `SnapshotIsTheClients`, the history of the client's texts with their versions.

`SemanticChecks` is the abstract promise: a document has at most one check waiting, starting another
or closing withdraws it, and what the client sees is an answer given while its check was waiting,
delivered at most once, maybe late. `LspServer` implements it under two refinement mappings, seen
through the stored results (hover) and through the diagnostics on the client's screen.

### Document

The editor's text `client` and the changes of its messages; `source`, `tree`, `treeSource` and
`scopeGraph` are the fields of `Document`; `pc` and `call` where `ApplyChanges` is. `FullChange` and
`RangeChange` are the two branches for a change, `Fail` a position that is refused (the changes
before it stay), `ParseReturns` and `ParseFails` the parse after a splice, `MaskSyntax` to
`MaskBodies` the candidates of `chooseRecoveredTree` in their order with their conditions, each
adopted by `Better` only, `Choose` the end of `parseWithRecovery`, `BuildScopes` a request that fills the cache.
Characters have a UTF-8 and a UTF-16 width; `Offset` is the two loops of the code as a recursive
function, `EditorPosition` the protocol's own reading, against which it is checked. The two differ in
what ends a line: for the protocol a lone return does too (`LoneReturns`). `astray` remembers that a
change was made after one. The parser is
external and may return any result with any number of errors, or none.

### Workspace

`documents` are the server's, by file; `indexed` the workspace's, by URI; `edges` and `reverse` the
import graph; `shared` the files whose two documents are one object. `Initialize` is Load, which gives
up at the first file it cannot read or parse; `DidOpen`, `DidChange`, `DidChangeFails`, `DidClose` are
the effects of the handlers on the index, with the rebuild each of them makes. A document is the
names it defines, uses and imports; a path it imports is kept as written, with or without the extension. `ResolveImport`
tries the candidates in the code's order: next to the importer, then from the root, and each as written, with the
extension, and as a directory with a `main` (`Variants`).
`Related`, `Definition`, `TargetURIs` and `Renamed` are `relatedDocuments`, `Definition`,
`targetURI` and `Rename` (references are found alike); where the code walks a Go map, the answer is
one of a set. A file has two URIs if an editor escapes a character that `pathToURI` does not.

### Scanner, CScanner, ScannerParity

`Scanner` has one action for each turn of the loop in `Scan` and each decision after it; `scan` holds
its local variables. `Serialized` keeps each column but the first as a byte, clipped to the buffer.
The parser calls with a set of valid symbols, lexes itself when Scan fails (`LexInternally`), and
`Save`s and `Restore`s the state. `CScanner` is `scanner.c`, written from the C source independently of
the Go port: `CScan` is a call as one operator, `CSerialized` and `CDeserialized` what its runtime keeps.
Its stack is an array of `CArray`, the macros of `array.h` it uses over slots of memory. `ScannerParity`
is one parse by both: it adds the C scanner's array and kept bytes as variables, takes its whole call
in the step in which the Go scanner returns, saves and restores both, and compares every call and
every state. `ExternalScannerStates` is the table of the generated parser from which the run takes the
sets of symbols. The characters are classes; a NUL is a class of its own because `Lookahead` cannot
tell it from the end of the source.

### SemanticCommand

One call of the backend, and the process it starts: `pc`, `ctx` and `result` are `run`'s, `process`
what os/exec sees of the process, `sidecar` the loop of `main` in `main.rs`, `stdin` and `stdout` the
pipes. `StartCommand`, `StartFails` and `RunReturns` are `cmd.Run`, with `Verdict` for what follows
it: the context's error, the command's, that of an empty, broken or foreign output, or the answer.
`Expire` is the timeout, `Cancel` the server's cancel function, `Kill` what `exec.CommandContext`
does then. The command may be the sidecar, a script that waits for it or one that leaves it behind
(`command.script`): killing a script leaves its sidecar alive, and `Run` waits for whoever holds the
pipes. `CheckEnds` and `Crash` are the two ends of a compilation, which may also hang.

### Scopes, SnapshotLoader, Masks, LexicalOutline, SemanticTokens, Algorithms

Pure operators and their inputs. `Scopes` builds the graph by visiting the nodes in the order of the
walk (`VisitFunction`, `VisitLambda`, `VisitArm`, `VisitOther` are the cases of `buildScopes`) and looks
names up as `bindingAt` does, by ranges, `ScopeSize` and the order of the bindings. `SnapshotLoader` is
`SnapshotDocuments` (`new`), `LogicalDocumentName` and `Load`, with the answer of Bend's own loader as an
argument; `Load` returns the sources and what it leaves in `import.src` (`Bound`). `Algorithms` feeds them: a program grows at its end by the phrases of the grammar that
bind or open scopes, and a request has any open documents, any of a set of imports and any files on the
disk. It states what they should compute without them: `LexicalBinder` goes by the nesting
of the tree and knows no ranges; `Wanted` and `Text` say whose text of which file an import
means: the path is the directory of the names, and that of `from path import names` may itself be a file, as the
server's `resolveImport` takes it.

`Masks` works on texts of lexemes: a word is one, every other byte is one, `WIDE` is a character of two bytes.
Each masking function of the code is the set of the indices it hides, and `MaskRange` what becomes of the
text; the scans with an index that moves are recursive functions or the first index with a property
(`IndexOf`, `Past`, `TopLevel`). `Candidates` are the texts `chooseRecoveredTree` may give the parser,
composed as there. `LexicalOutline` reads the names of definitions from the same texts. `SemanticTokens` has the text in
characters and any captures in place of the query's; `Sorted` gives every order `sort.Slice` may. In
`Algorithms` a file grows by lines (`Write`), and a text is highlighted with any two captures
(`Highlight`); `Decoded` is the client's reading of the data, `Seen` where it sees a character.

### Composition

`LspServer` treats a document as a text, `Document` treats what comes before and after a message
as the editor's and the index's business, `Workspace` sees both `Server.documents` and the index.
`Document` takes any text of the
same layout for a masked one, which `MasksKeepPlaces` shows of what the masks make.
They meet in the same facts seen from two sides: a failed batch is `Damaged` in `LspServer`,
`diverged` in `Document`, `damaged` and `stale` in `Workspace`; the aliasing of server and index is
`aliased` in one and `shared` in the other. `CheckReturns` of `LspServer` is a whole call of
`SemanticCommand`, whose `CallEnds` is the fairness that action is given.

## 3. Runs

| Run | Question | Bounds |
|---|---|---|
| `server_safety` | Is there one live check per document, are stale results only those overtaken in a gap, do index and documents agree? | 2 documents, 3 edits, versions 1..2, symmetry |
| `server_promises` | Does the server implement `SemanticChecks` in hovers and diagnostics? Do live answers arrive, does it come to rest? | 2 documents, 2 edits, fair |
| `stale_result_kept` | Violation: a result of an older version is kept | 1 document, 2 edits |
| `snapshot_not_the_clients` | Violation: a check is given a text that the client never had under any version | 2 documents, 3 edits |
| `document` | Is the text the editor's, the tree the text's, the graph the tree's, a mask only for a gain? | 2 changes, texts up to 5 characters of widths 1, 2 and 4 with LF, CRLF and lone returns, up to 2 errors |
| `document_ranges` | Violation: ranges are in bytes | no change |
| `scanner` | Do blocks nest, does the stack follow the parser's tokens, do layout tokens end, is every call and every state as in C? | sources of up to 3 pieces, two longer, one with column 256, one with a NUL; the 12 sets of the grammar and every layout set; a buffer for 2 blocks, an array of 2 slots at first |
| `workspace` | Do graph and index follow the editor, does rename agree with definition, are edits local? | 3 files (one with two URIs, two that an import may mean), 3 contents, 2 open |
| `semantic_command` | Does a call end, with the verdict on a whole output, and without a compiler left behind? | 10 commands, with and without a timeout, fair |
| `algorithms` | Is a name bound as the tree nests, does a rename keep bindings, do imports see the editor's texts? Do masks keep every place and the outline, does a client decode the tokens? | programs of 3 phrases over 2 names; 6 documents, 5 files, 11 imports; files of 3 of 24 lines; texts of 4 characters with 2 captures |
| `imports` | Violation: of two imported files the unopened one is not loaded | 2 documents |
| `file_imports` | Violation: the path of `from path import names` is a file and open, and the disk's text is loaded | 2 documents |

Why the bounds are enough. A race of the server needs one check, one handler and one change under
it; two documents let the check of one be affected by the other, three edits let a document be
closed, reopened at an old version and changed. Two changes let an incremental parse follow a
recovered or failed one, in one message or two. Three files are an importer, a file and a nearer one
of the same name; with 2 open the third is still in the index from the disk. A buffer for two blocks makes the nested source lose one.
Three phrases are a function, a scope in it and one more in or after that, on one line or on three;
one name is mentioned in every body, for names do not meet in `bindingAt`. An array that starts with 2 slots
(8 in the code) grows in the nested source. Each mask looks at one line and at what was open before it: the 24 lines are
written for the branches of the masks, in headers, constructors, bodies, strings and comments, and three of
them make an opening line, one under it and one after. Two captures can overlap, coincide and be of one
place in all ways; four characters hold a string or a comment with a wide character before it on the line, and a line end. Six documents include one
outside of the root whose path looks like one below it, and an unsaved one.
The bounds are named constants: `MaxEdits`, `MaxVersion`, `MaxLength`, `MaxErrors`, `MaxMissing`,
`BufferSize`, `LeastCapacity`, `MaxOpen`, `MaxPhrases`, `MaxLines`, `MaxText`. The theorems below hold for all their values.

`CHECK_DEADLOCK FALSE` in all runs but the workspace's: a server that has exited, an editor that has
used up its changes, a parser at the end of its source, a call that has returned and an input that is
complete stop.

Fairness (`FairSpec` of `LspServer`): a handler that has begun goes on, and each check goroutine
goes on, because Go schedules every runnable goroutine; that `Check` and `Lower` return at all is
`CallEnds` of `SemanticCommand`, which holds for every command with its timeout (10 s by default)
except one: a compiler that hangs below a script that has ended or been killed holds the call, for
`Run` waits for its pipes. With `BEND_SEMANTICD` naming the sidecar itself, as documented, the
assumption is met. The client is not fair: it may stay silent.

Fairness (`FairSpec` of `SemanticCommand`): the goroutine in `run`, the timer, the kill, a script and
the sidecar's loop proceed, as the runtimes and the system provide; the compiler (`CheckEnds`,
`Crash`) and the caller's `Cancel` are not fair.

No other run checks liveness; `IndentIsLast`, which says that zero-width tokens come to an end, is
stated as a safety property of steps.

### What the runs show

The properties hold, each with a mutation of the code that breaks it, except for these
disagreements, each with its run:

1. `NoStaleResultKept`: the documentation promises that results of old versions are discarded. The
   version is compared in one lock section and the result stored in another; an edit between them
   leaves an old result for hovers, for good if the newer check fails. `StaleHoverOnlyOvertaken` and
   `StaleDiagnosticsOnlyOvertaken` show that these gaps are the only source of staleness.
2. `SnapshotIsTheClients`: after a batch of which only a part was applied the buffer is a text the client never
   had, and the snapshots of other documents' checks give it to the compiler under the old version number. (A
   batch refused whole leaves an older text with its version, which the property permits.)
3. `RangesAreTheEditors`: the server announces UTF-16 positions and sends byte columns.
4. `UnopenedFilesFallBack`: documented to fall back to the disk for unopened files, the sidecar does so
   only for an import none of whose files is open.
5. `OpenImportsAreTheEditors`: documented to prefer the editor's texts, the sidecar looks for the path of
   `from path import names` only as a directory; where it is a file and open, the disk's text is compiled.

Further facts that show in the models and that their properties except by name or permit:

- closing a file that is on the disk removes it from the index, and a file whose URI an editor
  escapes is indexed twice (`IndexIsTheEditors` says what the index may then hold);
- a column of 256 or more does not survive serialization, in Go as in C (`lossy`; the lemma
  `RoundTripOfFitting` says that all other stacks do);
- on a NUL character the Go scanner differs from its original (`HasNul` in `ParityWithC`);
- after a lone return the server and the editor number the lines differently, and a change may land
  elsewhere or be refused until the next full text (`astray`);
- the masking of all bodies is also tried for a complete tree with an error, though
  `recovery.go:71` says otherwise (`NeedsBodyResync`);
- the masks hide some definitions from the parser (the exceptions of `OutlineSurvives`): an
  `unchecked def` with an arrow in its header is taken for a functional signature and blanked whole;
  any `unchecked` or `const` header, moved off the first column by the mask of its keyword, is hidden with
  the body before it, though `recovery.go:91` says headers are preserved; `def foo-bar:` is cut at its dash; and
  an opening parenthesis that a later line closes takes the headers between along;
- the mask of comments hides literals like `#12` and the rest of the line, and block comments, while
  `docs/gotreesitter-findings.md:44-49` says it masks only comments; `sourceCommentSpans` reads the same as a
  comment, lets a string run over line ends, and takes a quote after an escaped backslash for escaped;
- which of two captures of the same place and length gives a token its kind is left to an unstable
  sort (`Sorted`), and tokens of different places may overlap;
- of two related documents that define a name, the order of a Go map decides which one a definition
  or a rename takes, where the requesting document defines none (`RenameFollowsDefinition` is about
  names with one definition);
- a document outside of the root, or any if there is no root, may go by another file's name in the
  sidecar (`Misnamed`);
- `ImportsSeeTheEditor` excepts by name the two forms of imports that items 4 and 5 are about (`Mixed`, `IsOpenPath`);
- the scope graph, which `docs/original-spec.md:25` calls complete for assignments, binds only the first name of an
  assignment to several (`scopes.go:114` takes the first child with the field): the others count as global names,
  and renaming one edits other documents;
- a parse that fails after the kept tree was edited in place (`edit.go:54`) leaves the old source with a tree that has
  moved, until the next full text (`diverged`);
- a compiler that hangs below a script holds its call past the timeout (`Held`), and with `bend/hvmView` the handler;
- a rename does not ask whether its new name is taken (`RenameKeepsBindings` is about new names).

## 4. Proofs

All are checked by TLAPS for every value of the constants that the named assumptions allow.

- `LspServerProofs`: `TypeOK`, `OneLiveCheck`, `StaleHoverOnlyOvertaken`,
  `StaleDiagnosticsOnlyOvertaken`, `IndexAgreesWithDocuments`. The inductive invariant ties each
  phase of a check to the registered cancel function, to the version and text of its snapshot and to
  `overtaken`: a check not yet overtaken sees the document as it is, whatever phase it is in. None of the safety
  properties is inductive alone: that a stored result is fresh depends on what was known when its
  check passed each of the two tests. `HoverImplementsChecks` and `DiagnosticsImplementChecks` follow from
  the same invariant, one lemma per action that names the abstract step it maps to.
- `DocumentProofs`: `TreeIsOfTheSource`, `ScopesAreOfTheTree`, `MaskedOnlyForGain`. The invariant (`IInv`)
  describes the local variables of a call between its steps: the text given to the parser is the new
  source without masks, the best candidate is the raw parse or strictly better, and the graph is
  dropped before a candidate is tried. It does not speak of positions. A second one (`EditorInv`) does: the
  editor's text and the source go through the same changes, unless one failed or came after a lone return, and one that
  failed is known to have; from it `TypeOK`, `SourceIsTheEditors` and `OnlyTheParserFails`. Its base is `OffsetOfPosition`: for a text of
  characters of any widths in UTF-8 and UTF-16, the two loops of `Offset` end at the place the protocol means.
- `ScannerProofs`: `TypeOK`, `BlocksNest`, `BlocksAreTheParsers`, from an invariant that covers the
  saved copy as well as the current stack, and the history `lossy` of what did not fit. `IndentIsLast` compares two
  calls that start at one place: the invariant (`CallInv`, `LastInv`) says that after an INDENT the top of the stack
  is the column of the next text, which every later scan of the same characters finds again.
  Of the two scanners: pushing to and popping from the C array is pushing to and popping from the stack it
  stands for, within the memory it owns, whatever it has allocated before (`PushAppends`,
  `PopRemovesTheTop`); a parse by both scanners is, for the Go scanner, a parse by it alone, so
  that its theorems hold there (`ParityNests`); the blocks of both agree after any calls (`StatesStayAgreed`); and
  every call ends with the same token at the same place on every source without a NUL (`ParityOfScanners`): the loops
  of `CScan` exist because the rest of the source shrinks, and the Go scanner's local variables are, turn by turn,
  theirs at the same character.
- `WorkspaceProofs`: `TypeOK`, `GraphIsCurrent`, `IndexIsTheEditors` by induction (with the fact
  that nothing is open before the server has started), and `RenameFollowsDefinition`, which follows from one fact, that being related is mutual because
  `reverse` is always the converse of `edges`. `EditsAreLocal` follows from the graph being the index's:
  a candidate of an import that was not there before can only be a file of the message, so the
  first one there is the old one or that file (`ResolvesToOldOrTo`).
- `SemanticCommandProofs`: `TypeOK`, `ResultIsFinal`, `KilledIsNotFailed`, with an invariant on the
  process, the sidecar and what can have come out of it by then.
- `AlgorithmsProofs`: `ImportsSeeTheEditor`, for any documents, imports, root and files: a name below the root
  has one document, the documents that `Load` finds under an import's names, and binds it to, are those of the files it
  means (unless its path is a file that is open), and if none is found the disk's are taken (`RequestInv` says what requests are made of). `MasksKeepPlaces`, for every file:
  the lines of a text and their lengths are a function of the bytes of its ends (`LinesByBytes`), and a mask replaces parts of a text by parts with the
  same bytes and ends, which show nothing new (`MaskRangeHides`, `SeparatorsKeep`). The text with masked bodies alone
  shows something the source does not have, placeholders, and each stands where the body has text: a body's line
  starts, after its blanks, at the place of the line's first lexeme, and where there is no room for `return 0`
  it is `0` (`IndentIsAPlace`, `BodyLineStands`, `MaskBodiesStand`). The proof uses nothing about what the masks recognise, only what they write, so
  it stands however a header or a shift is found. `TokensAreWhereCaptured`, for every text: the folds of the community
  modules are recursive functions over 1..n (`SetFoldExists`, `SetFoldIsFold`), so a position is a count of line
  ends and a sum of units (`SeenIs`) and a later character has a later position (`PositionsIncrease`); what is
  encoded is the longest token of each start, in order (`EncodedIs`), and the sums of the client telescope to the
  places the tokens came from (`SumTelescopes`, `DecodedIs`). `ViewInv` is the invariant: the captures of the
  view are finitely many and start in its text, and its data encodes tokens chosen from them.
- `ScopesProofs`: `BindingIsInnermost` and `RenameKeepsBindings`, for programs of any number of phrases nested in
  any way. `bindingAt` never looks at the tree's shape: it compares ranges, takes the smallest scope that encloses a name
  and climbs, and in each scope takes the last binding that starts before it. The proof says what each comparison
  means. Nodes start in the order of the walk, so a range encloses an identifier's exactly if the identifier is below
  that node (`EnclosesIs`), and of two nodes one below the other the inner one is not larger (`InnerIsSmaller`); scopes
  that share a size are told apart by their order, which is why `bindingAt` must let the later one win. The graph that `BuildScopes`
  leaves has a scope for each node that opens one and a binding for each identifier that binds, in the order of the walk
  (`Explored`, by induction over the visits, with a lemma for each kind of phrase). So the search starts in the innermost
  scope (`BestIsInnermost`) and ends with the last binder of the innermost node around the name (`BindingAtIs`), which is what
  the property says by the tree alone (`LexicalBinderIs`). The invariant is `ProgramInv`: a root and phrases, each
  below the root or a body (`IsProgram`), with no node called `"new"` and no column beyond eight for each phrase;
  `IsTree`, that nodes come while their parent is open and start one after the other, is what makes it
  inductive. A rename leaves the shape, so `BindingAtIs` speaks of the renamed tree as well;
  what is left to prove is that a binder is bound by itself (`BinderIsItsOwn`), so that of all binders
  one changes its name, and the names it bound change with it (`RenamingKeeps`).
- `Induction` holds what these share: induction over numbers, over an interval and downwards, that loops and folds
  given as recursive functions exist, and counting. The provers cannot instantiate a theorem with an operator for
  a parameter, so what is to be proved of all numbers is a set, and a recursive function is given by the sets
  and functions its body is made of.

The assumptions are the types of the constants, that `NoUri` is no URI, that the files of the index end in the extension, that the
documents among them are no directory (`UrisAssumption`, `ImportsAssumption`), and that the name a rename gives is
not among those of the programs (`NamesAssumption`).

`BindingsAreInnermost` and `RenamesKeepBindings` have a premise, `LinesAreShort`: `sizeOfScope` counts a line for a million columns,
so a scope that ends in a longer line would be taken for a larger one than it is. Their corollaries replace the premise by a bound
on phrases (`NoLineIsLong`, 124,999 of them) that no run of the model approaches.

Only model-checked:

- liveness (`LiveAnswersAreShown`, `ServerComesToRest`, `CallEnds`), which the prover does not handle together
  with fairness;
- `OutlineSurvives`, which is about the forms of headers a run writes. It is not true of every text: the outline does not
  know comments, so `f # = 0` is a definition to it and not in a text whose comments are masked, and the mask
  of constructors' returns takes the equals sign of a definition called `return/x`.

## 5. Not modelled

- The generated parser (`parser.c`, in two copies, which are 99 % of the C lines of the repository)
  is tables and a lexer's switch that a library interprets: there is no control of this program in
  it. The models take any parser; only the table of external symbols is used. The memory macros of
  `alloc.h`, the lexer's macros of `parser.h`, and the operations of `array.h` the scanner does not call are
  left out with it, and the scanner's `destroy`, which frees its state for good.
- The parsing library, the query of semantic tokens and the Bend compiler are external: any result.
- The views of `analysis.go`, completion, workspace symbols, call hierarchy, folding, selection ranges, outlines
  of the tree and hover texts read one tree or the index and list what they find. They change
  nothing, and a unit test reaches what they do.
- JSON-RPC framing, wording, legends and the shape of replies; the sidecar's conversion of diagnostics
  and types into its response.
- `bendlang/language.go` loads tables once; `cgo.go` and the programs in `cmd/` print and compare.

Abstractions inside what is modelled: an editor opens a file once before it closes it; in `Workspace` names
bound locally are left out (they never leave their document) and import paths have no `..`; in `SnapshotLoader` they have no `./` or `../` either, and what Bend's
own loader finds is given by `Wanted`, without the `main` of a directory, and bound as it likes; in `Masks` a
word is one lexeme, so a mask never begins inside one; characters of more than two bytes are two bytes
there; `ScannerParity` takes a C call as one step, which nothing can interrupt.

No property states that an edit of a document repeats the checks of the documents that import it: the
server promises answers per document (`semanticd`'s snapshot is of all of them, the version compared of
one), and the hazard is listed without one.

## 6. Plan

Done: the server, its promise and their proofs; both scanners and their array; the document with its
recovery and its masks; the outline; semantic tokens; the workspace and its proofs; the backend's call;
scopes and the sidecar's loader as operators; proofs about the document's positions, both scanners' agreement,
the loader, the masks, the encoding of tokens, bindings and renames.

Left, in this order:

1. Local names in `Workspace`, from `Scopes`: what a rename edits in other documents.
2. The goroutine of a check composed with `SemanticCommand`, in place of `CheckReturns`.
