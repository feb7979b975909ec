----------------------------- MODULE Workspace -----------------------------
(***************************************************************************)
(* The workspace index of src/intel/workspace.go, driven by the handlers   *)
(* of src/lsp/server.go: the documents below the root and those the editor *)
(* has open, the import graph between them, and the answers to definition  *)
(* and rename requests.                                                    *)
(*                                                                         *)
(* Data.  A file is the sequence of names on its path from the root, with  *)
(* the extension for a last one of its own.  A document is what the index  *)
(* looks at: the names it defines at top level, those it uses without a    *)
(* local binding, and the paths it imports, as they are written.  An       *)
(* editor escapes characters in its URIs that pathToURI does not, so one   *)
(* file may have two URIs.                                                 *)
(***************************************************************************)
EXTENDS Integers, Sequences, FiniteSets, SequencesExt

CONSTANTS WalkOrder,  \* the files below the root, as Load visits them
          Contents,   \* what a document may hold
          Names,      \* of definitions
          Paths,      \* of imports
          Escaped,    \* files whose URI an editor escapes
          MaxOpen     \* bound: files open in the editor at once

Files == ToSet(WalkOrder)
Extension == ".bend"

ASSUME FilesAssumption ==
  /\ WalkOrder \in Seq(Seq(STRING))
  /\ \A i \in DOMAIN WalkOrder : Len(WalkOrder[i]) > 1 /\ Last(WalkOrder[i]) = Extension
ASSUME ContentsAssumption ==
  Contents \subseteq [defines : SUBSET Names, uses : SUBSET Names,
                      imports : SUBSET Paths]
ASSUME PathsAssumption == Paths \subseteq Seq(STRING) \ {<<>>}
ASSUME EscapedAssumption == Escaped \subseteq Files
ASSUME MaxOpenAssumption == MaxOpen \in Nat

Uris == [file : Files, form : {"path", "escaped"}]

VARIABLES
  disk,       \* the files' contents when the server starts
  started,    \* initialize has been handled
  documents,  \* Server.documents, by file
  shared,     \* files whose document is the workspace's own
  indexed,    \* Workspace.Documents, by URI
  edges,      \* ImportGraph.Edges, as pairs
  reverse,    \* ImportGraph.Reverse, as pairs
  stale,      \* history: a change failed and the graph was not rebuilt since
  damaged     \* history: files whose last change failed

vars == <<disk, started, documents, shared, indexed, edges, reverse, stale, damaged>>

Absent == [defines |-> {}, uses |-> {}, imports |-> {<<>>}]

TypeOK ==
  /\ disk \in [Files -> Contents \cup {Absent}]
  /\ started \in BOOLEAN
  /\ documents \in [Files -> Contents \cup {Absent}]
  /\ shared \in SUBSET Files
  /\ indexed \in [Uris -> Contents \cup {Absent}]
  /\ edges \in SUBSET (Uris \X Uris)
  /\ reverse \in SUBSET (Uris \X Uris)
  /\ stale \in BOOLEAN
  /\ damaged \in SUBSET Files
  /\ \A f \in shared : documents[f] # Absent

\* pathToURI, and the URI an editor sends.
PathToURI(file) == [file |-> file, form |-> "path"]
EditorURI(file) ==
  IF file \in Escaped THEN [file |-> file, form |-> "escaped"] ELSE PathToURI(file)

Documents(index) == {uri \in Uris : index[uri] # Absent}

\* resolveImport: next to the importing file, then from the root; the path as it is
\* written, then with the extension, then main in the directory of that name.
Variants(candidate) ==
  <<candidate, candidate \o <<Extension>>, candidate \o <<"main", Extension>>>>
Candidates(from, path) == Variants(Front(Front(from.file)) \o path) \o Variants(path)

\* The candidate that is tried first of those in the index.
ResolveImport(index, from, path) ==
  LET candidates == Candidates(from, path)
      found == {i \in 1 .. 6 : candidates[i] \in Files /\ index[PathToURI(candidates[i])] # Absent}
  IN {PathToURI(candidates[i]) : i \in {j \in found : \A k \in found : j <= k}}

\* rebuildImportGraph.
EdgesOf(index) ==
  {edge \in Documents(index) \X Documents(index) :
     \E path \in index[edge[1]].imports :
       edge[2] \in ResolveImport(index, edge[1], path)}

RebuildImportGraph ==
  /\ edges' = EdgesOf(indexed')
  /\ reverse' = {<<edge[2], edge[1]>> : edge \in edges'}
  /\ stale' = FALSE

Init ==
  /\ disk \in [Files -> Contents \cup {Absent}]
  /\ started = FALSE
  /\ documents = [f \in Files |-> Absent]
  /\ shared = {}
  /\ indexed = [uri \in Uris |-> Absent]
  /\ edges = {}
  /\ reverse = {}
  /\ stale = FALSE
  /\ damaged = {}

\* initialize: Load walks the files and gives up at the first that it cannot read
\* or parse; the server goes on with those before it.
Initialize ==
  /\ ~started
  /\ started' = TRUE
  /\ \E n \in 0 .. Len(WalkOrder) :
       indexed' = [uri \in Uris |->
                     IF uri.form = "path" /\ uri.file \in ToSet(SubSeq(WalkOrder, 1, n))
                       THEN disk[uri.file] ELSE Absent]
  /\ RebuildImportGraph
  /\ UNCHANGED <<disk, documents, shared, damaged>>

\* didOpen parses the text twice: the server's document is not the workspace's.
DidOpen(file, content) ==
  /\ started
  /\ documents[file] = Absent
  /\ Cardinality({f \in Files : documents[f] # Absent}) < MaxOpen
  /\ documents' = [documents EXCEPT ![file] = content]
  /\ indexed' = [indexed EXCEPT ![EditorURI(file)] = content]
  /\ RebuildImportGraph
  /\ UNCHANGED <<disk, started, shared, damaged>>

\* Variants: a change that never reaches the index, and one that does without the
\* import graph being rebuilt.
DidChangeKeepsIndex(file, content) ==
  /\ documents[file] # Absent
  /\ documents' = [documents EXCEPT ![file] = content]
  /\ damaged' = damaged \ {file}
  /\ UNCHANGED <<disk, started, shared, indexed, edges, reverse, stale>>

DidChangeKeepsGraph(file, content) ==
  /\ documents[file] # Absent
  /\ documents' = [documents EXCEPT ![file] = content]
  /\ shared' = shared \cup {file}
  /\ indexed' = [indexed EXCEPT ![EditorURI(file)] = content]
  /\ damaged' = damaged \ {file}
  /\ UNCHANGED <<disk, started, edges, reverse, stale>>

\* didChange puts the server's own document into the workspace.
DidChange(file, content) ==
  /\ documents[file] # Absent
  /\ documents' = [documents EXCEPT ![file] = content]
  /\ shared' = shared \cup {file}
  /\ indexed' = [indexed EXCEPT ![EditorURI(file)] = content]
  /\ damaged' = damaged \ {file}
  /\ RebuildImportGraph
  /\ UNCHANGED <<disk, started>>

\* A message that fails at a later change: the earlier ones stay in the document,
\* in the workspace too where it is the same one, and nothing is rebuilt.
DidChangeFails(file, content) ==
  /\ documents[file] # Absent
  /\ documents' = [documents EXCEPT ![file] = content]
  /\ indexed' = IF file \in shared
                  THEN [indexed EXCEPT ![EditorURI(file)] = content] ELSE indexed
  /\ stale' = (stale \/ file \in shared)
  /\ damaged' = damaged \cup {file}
  /\ UNCHANGED <<disk, started, shared, edges, reverse>>

\* Variants: a close that forgets Workspace.Remove, and one that takes the file's
\* importers out of the graph instead of resolving their imports again.
DidCloseKeepsIndex(file) ==
  /\ started
  /\ documents' = [documents EXCEPT ![file] = Absent]
  /\ damaged' = damaged \ {file}
  /\ UNCHANGED <<disk, started, shared, indexed, edges, reverse, stale>>

DidCloseDropsImporters(file) ==
  /\ started
  /\ documents' = [documents EXCEPT ![file] = Absent]
  /\ shared' = shared \ {file}
  /\ indexed' = [indexed EXCEPT ![EditorURI(file)] = Absent]
  /\ damaged' = damaged \ {file}
  /\ edges' = {edge \in edges : /\ edge[1] # EditorURI(file)
                               /\ <<edge[1], EditorURI(file)>> \notin edges}
  /\ reverse' = {<<edge[2], edge[1]>> : edge \in edges'}
  /\ UNCHANGED <<disk, started, stale>>

\* didClose: the file leaves the index, though it may be on the disk.  Its didOpen
\* may have failed.
DidClose(file) ==
  /\ started
  /\ documents' = [documents EXCEPT ![file] = Absent]
  /\ shared' = shared \ {file}
  /\ indexed' = [indexed EXCEPT ![EditorURI(file)] = Absent]
  /\ damaged' = damaged \ {file}
  /\ RebuildImportGraph
  /\ UNCHANGED <<disk, started>>

(***************************************************************************)
(* Requests.  The code walks maps, whose order Go leaves open: an answer   *)
(* is one of a set.                                                        *)
(***************************************************************************)
\* Variant: only what the document imports.
Imported(uri) == {uri} \cup {other \in Uris : <<uri, other>> \in edges}

\* relatedDocuments: one import away, in either direction.
Related(uri) ==
  {uri} \cup {other \in Uris : <<uri, other>> \in edges \/ <<uri, other>> \in reverse}

Defines(uri, name) == name \in indexed[uri].defines
Mentions(uri, name) == name \in indexed[uri].defines \cup indexed[uri].uses

RelatedDefiners(uri, name) == {other \in Related(uri) : Defines(other, name)}

\* Definition of a name that is not bound locally.
Definition(uri, name) ==
  IF Defines(uri, name) THEN {uri} ELSE RelatedDefiners(uri, name)

\* targetURI.
TargetURIs(uri, name) ==
  IF Defines(uri, name) \/ RelatedDefiners(uri, name) = {}
    THEN {uri} ELSE RelatedDefiners(uri, name)

\* References and Rename: the documents with the name that are related to the target.
Renamed(uri, name) ==
  {{other \in Documents(indexed) \cap Related(target) : Mentions(other, name)} :
     target \in TargetURIs(uri, name)}

Next ==
  \/ Initialize
  \/ \E f \in Files, c \in Contents :
       DidOpen(f, c) \/ DidChange(f, c) \/ DidChangeFails(f, c)
  \/ \E f \in Files : DidClose(f)

Spec == Init /\ [][Next]_vars

(***************************************************************************)
(* Properties.                                                             *)
(***************************************************************************)
\* Workspace.SetDocument, Add and Remove leave the import graph that of the index,
\* and Reverse its converse, in whatever order files are opened, changed and closed.
\* Only a message that fails part way through a document the index shares leaves
\* the graph behind, until the next rebuild.
GraphIsCurrent ==
  /\ ~stale => edges = EdgesOf(indexed)
  /\ reverse = {<<edge[2], edge[1]>> : edge \in edges}

\* What the index holds of a file is the text the editor shows, while it is open and
\* its last change succeeded, and otherwise nothing that was only ever in an editor.
IndexIsTheEditors ==
  \A uri \in Uris :
    LET open == documents[uri.file] # Absent /\ uri = EditorURI(uri.file)
    IN IF open THEN uri.file \notin damaged => indexed[uri] = documents[uri.file]
       ELSE indexed[uri] \in {Absent, disk[uri.file]}

\* Workspace.Rename agrees with Workspace.Definition: where one document defines the
\* name and the requester's use resolves to it, the documents edited are those whose
\* own uses resolve to it, whichever end of the import the request came from.
RenameFollowsDefinition ==
  \A name \in Names, uri \in Documents(indexed), target \in Documents(indexed) :
    (/\ {other \in Uris : Defines(other, name)} = {target}
     /\ target \in Definition(uri, name))
    => Renamed(uri, name) =
         {{other \in Documents(indexed) :
             Mentions(other, name) /\ Definition(other, name) = {target}}}

\* Opening, changing or closing a file moves no import between two other files,
\* unless it is to the file that came.
EditsAreLocal ==
  [][~stale =>
       \A file \in Files, edge \in edges :
         ( /\ \A other \in Files \ {file} : documents'[other] = documents[other]
           /\ \A uri \in Uris : uri.file # file => indexed'[uri] = indexed[uri]
           /\ edge[1].file # file
           /\ edge[2].file # file )
         => edge \in edges' \/ <<edge[1], EditorURI(file)>> \in edges']_vars
=============================================================================
