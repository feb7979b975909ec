-------------------------- MODULE WorkspaceProofs --------------------------
(***************************************************************************)
(* The import graph and the index, for any files, documents and order of   *)
(* the editor's messages; and, because the graph's two halves are always   *)
(* each other's converse, a rename that agrees with definition requests.   *)
(***************************************************************************)
EXTENDS Workspace, TLAPS

\* The editor opens no file before the server has started, and there are no imports.
NothingBefore == started \/ (edges = {} /\ \A file \in Files : documents[file] = Absent)

IInv == TypeOK /\ GraphIsCurrent /\ IndexIsTheEditors /\ NothingBefore

-----------------------------------------------------------------------------
LEMMA UriTypes ==
  ASSUME NEW file \in Files
  PROVE  PathToURI(file) \in Uris /\ EditorURI(file) \in Uris /\ EditorURI(file).file = file
  BY DEF PathToURI, EditorURI, Uris

LEMMA EdgesType ==
  ASSUME NEW index
  PROVE  EdgesOf(index) \in SUBSET (Uris \X Uris)
  BY DEF EdgesOf, Documents

\* What the index becomes when the text of one file does.
LEMMA SetType ==
  ASSUME indexed \in [Uris -> Contents \cup {Absent}],
         NEW uri \in Uris, NEW text \in Contents \cup {Absent}
  PROVE  [indexed EXCEPT ![uri] = text] \in [Uris -> Contents \cup {Absent}]
  OBVIOUS

\* A rebuild leaves a graph that is current.
LEMMA Rebuilt ==
  ASSUME RebuildImportGraph
  PROVE  /\ edges' \in SUBSET (Uris \X Uris)
         /\ reverse' \in SUBSET (Uris \X Uris)
         /\ stale' = FALSE
         /\ GraphIsCurrent'
  <1>1. edges' \in SUBSET (Uris \X Uris)
    BY EdgesType DEF RebuildImportGraph
  <1>2. reverse' = {<<edge[2], edge[1]>> : edge \in edges'}
    BY DEF RebuildImportGraph
  <1>3. reverse' \in SUBSET (Uris \X Uris)
    BY <1>1, <1>2
  <1>4. GraphIsCurrent'
    BY <1>2 DEF RebuildImportGraph, GraphIsCurrent
  <1> QED
    BY <1>1, <1>3, <1>4 DEF RebuildImportGraph

-----------------------------------------------------------------------------
\* No document is the mark of a missing one: it imports no empty path.
LEMMA ContentIsThere == \A content \in Contents : content # Absent
  <1> SUFFICES ASSUME NEW content \in Contents, content = Absent PROVE FALSE
    OBVIOUS
  <1>1. content.imports \in SUBSET Paths
    BY ContentsAssumption
  <1>2. <<>> \in content.imports
    BY DEF Absent
  <1> QED
    BY <1>1, <1>2, PathsAssumption

\* A message about one file touches the index at the URI the editor has for it, and
\* there it leaves the editor's text, or marks the file as damaged.
LEMMA OneFile ==
  ASSUME IInv, disk' = disk,
         NEW file \in Files, NEW text \in Contents \cup {Absent},
         documents' = [documents EXCEPT ![file] = text],
         damaged' \ {file} = damaged \ {file},
         \A uri \in Uris : uri # EditorURI(file) => indexed'[uri] = indexed[uri],
         indexed'[EditorURI(file)] = text \/ (text # Absent /\ file \in damaged')
  PROVE  IndexIsTheEditors'
  <1> SUFFICES ASSUME NEW uri \in Uris
               PROVE  IF documents'[uri.file] # Absent /\ uri = EditorURI(uri.file)
                      THEN uri.file \notin damaged' => indexed'[uri] = documents'[uri.file]
                      ELSE indexed'[uri] \in {Absent, disk'[uri.file]}
    BY DEF IndexIsTheEditors
  <1>1. uri.file \in Files
    BY DEF Uris
  <1>2. documents'[file] = text
    BY DEF IInv, TypeOK
  <1>3. uri.file # file => documents'[uri.file] = documents[uri.file]
    BY <1>1 DEF IInv, TypeOK
  <1>4. EditorURI(file).file = file
    BY UriTypes
  <1>5. CASE uri = EditorURI(file)
    BY <1>2, <1>4, <1>5
  <1>6. CASE uri # EditorURI(file)
    <2>1. indexed'[uri] = indexed[uri]
      BY <1>6
    <2>2. CASE uri.file = file
      <3>1. uri # EditorURI(uri.file)
        BY <1>6, <2>2
      <3> QED
        BY <2>1, <3>1 DEF IInv, IndexIsTheEditors
    <2>3. CASE uri.file # file
      <3>1. uri.file \in damaged' <=> uri.file \in damaged
        BY <2>3
      <3> QED
        BY <1>3, <2>1, <2>3, <3>1 DEF IInv, IndexIsTheEditors
    <2> QED
      BY <2>2, <2>3
  <1> QED
    BY <1>5, <1>6

-----------------------------------------------------------------------------
LEMMA InitInv == Init => IInv
  <1> SUFFICES ASSUME Init PROVE IInv
    OBVIOUS
  <1>1. TypeOK
    BY DEF Init, TypeOK
  <1>2. Documents(indexed) = {}
    BY DEF Init, Documents
  <1>3. EdgesOf(indexed) = {}
    BY <1>2 DEF EdgesOf
  <1>4. {<<edge[2], edge[1]>> : edge \in edges} = {}
    BY DEF Init
  <1>5. GraphIsCurrent
    BY <1>3, <1>4 DEF Init, GraphIsCurrent
  <1>6. IndexIsTheEditors
    BY DEF Init, IndexIsTheEditors, Uris
  <1> QED
    BY <1>1, <1>5, <1>6 DEF Init, IInv, NothingBefore

LEMMA InitializeInv ==
  ASSUME IInv, Initialize PROVE IInv'
  <1>1. PICK n \in 0 .. Len(WalkOrder) :
          indexed' = [uri \in Uris |->
                        IF uri.form = "path" /\ uri.file \in ToSet(SubSeq(WalkOrder, 1, n))
                          THEN disk[uri.file] ELSE Absent]
    BY DEF Initialize
  <1>2. \A uri \in Uris : uri.file \in Files
    BY DEF Uris
  <1>3. \A uri \in Uris : indexed'[uri] \in {Absent, disk[uri.file]}
    BY <1>1
  <1>4. indexed' \in [Uris -> Contents \cup {Absent}]
    <2>1. \A uri \in Uris : disk[uri.file] \in Contents \cup {Absent}
      BY <1>2 DEF IInv, TypeOK
    <2> QED
      BY <1>1, <2>1
  <1>5. GraphIsCurrent' /\ TypeOK'
    BY <1>4, Rebuilt DEF Initialize, IInv, TypeOK
  <1>6. IndexIsTheEditors'
    <2> SUFFICES ASSUME NEW uri \in Uris
                 PROVE  IF documents'[uri.file] # Absent /\ uri = EditorURI(uri.file)
                        THEN uri.file \notin damaged' => indexed'[uri] = documents'[uri.file]
                        ELSE indexed'[uri] \in {Absent, disk'[uri.file]}
      BY DEF IndexIsTheEditors
    <2>1. documents'[uri.file] = Absent
      BY <1>2 DEF Initialize, IInv, NothingBefore
    <2> QED
      BY <1>3, <2>1 DEF Initialize
  <1> QED
    BY <1>5, <1>6 DEF IInv, NothingBefore, Initialize

LEMMA DidOpenInv ==
  ASSUME IInv, NEW file \in Files, NEW content \in Contents, DidOpen(file, content)
  PROVE  IInv'
  <1>1. indexed' \in [Uris -> Contents \cup {Absent}]
    BY UriTypes, SetType DEF DidOpen, IInv, TypeOK
  <1>2. TypeOK' /\ GraphIsCurrent'
    BY <1>1, ContentIsThere, Rebuilt DEF DidOpen, IInv, TypeOK
  <1>3. IndexIsTheEditors'
    BY OneFile, UriTypes DEF DidOpen, IInv, TypeOK
  <1>4. NothingBefore'
    BY DEF DidOpen, IInv, TypeOK, NothingBefore
  <1> QED
    BY <1>2, <1>3, <1>4 DEF IInv

LEMMA DidChangeInv ==
  ASSUME IInv, NEW file \in Files, NEW content \in Contents, DidChange(file, content)
  PROVE  IInv'
  <1>1. indexed' \in [Uris -> Contents \cup {Absent}]
    BY UriTypes, SetType DEF DidChange, IInv, TypeOK
  <1>2. TypeOK' /\ GraphIsCurrent'
    BY <1>1, ContentIsThere, Rebuilt DEF DidChange, IInv, TypeOK
  <1>3. IndexIsTheEditors'
    BY OneFile, UriTypes DEF DidChange, IInv, TypeOK
  <1>4. NothingBefore'
    BY DEF DidChange, IInv, TypeOK, NothingBefore
  <1> QED
    BY <1>2, <1>3, <1>4 DEF IInv

LEMMA DidChangeFailsInv ==
  ASSUME IInv, NEW file \in Files, NEW content \in Contents, DidChangeFails(file, content)
  PROVE  IInv'
  <1>1. indexed' \in {indexed, [indexed EXCEPT ![EditorURI(file)] = content]}
    BY DEF DidChangeFails
  <1>2. indexed' \in [Uris -> Contents \cup {Absent}]
    BY <1>1, UriTypes, SetType DEF IInv, TypeOK
  <1>3. TypeOK'
    BY <1>2, ContentIsThere DEF DidChangeFails, IInv, TypeOK
  <1>4. GraphIsCurrent'
    <2>1. ~stale' => indexed' = indexed /\ ~stale
      BY DEF DidChangeFails, IInv, TypeOK
    <2> QED
      BY <2>1 DEF DidChangeFails, IInv, GraphIsCurrent
  <1>5. IndexIsTheEditors'
    <2>1. content # Absent /\ file \in damaged' /\ damaged' \ {file} = damaged \ {file}
      BY ContentIsThere DEF DidChangeFails
    <2>2. \A uri \in Uris : uri # EditorURI(file) => indexed'[uri] = indexed[uri]
      BY <1>1 DEF IInv, TypeOK
    <2> QED
      BY <2>1, <2>2, OneFile DEF DidChangeFails
  <1>6. NothingBefore'
    BY DEF DidChangeFails, IInv, TypeOK, NothingBefore
  <1> QED
    BY <1>3, <1>4, <1>5, <1>6 DEF IInv

LEMMA DidCloseInv ==
  ASSUME IInv, NEW file \in Files, DidClose(file)
  PROVE  IInv'
  <1>1. indexed' \in [Uris -> Contents \cup {Absent}]
    BY UriTypes, SetType DEF DidClose, IInv, TypeOK
  <1>2. TypeOK' /\ GraphIsCurrent'
    BY <1>1, Rebuilt DEF DidClose, IInv, TypeOK
  <1>3. IndexIsTheEditors'
    BY OneFile, UriTypes DEF DidClose, IInv, TypeOK
  <1>4. NothingBefore'
    BY DEF DidClose, IInv, TypeOK, NothingBefore
  <1> QED
    BY <1>2, <1>3, <1>4 DEF IInv

LEMMA NextInv == IInv /\ [Next]_vars => IInv'
  <1> SUFFICES ASSUME IInv, [Next]_vars PROVE IInv'
    OBVIOUS
  <1>1. CASE Initialize
    BY <1>1, InitializeInv
  <1>2. ASSUME NEW file \in Files, NEW content \in Contents,
               \/ DidOpen(file, content)
               \/ DidChange(file, content)
               \/ DidChangeFails(file, content)
        PROVE  IInv'
    BY <1>2, DidOpenInv, DidChangeInv, DidChangeFailsInv
  <1>3. ASSUME NEW file \in Files, DidClose(file) PROVE IInv'
    BY <1>3, DidCloseInv
  <1>4. CASE UNCHANGED vars
    <2>1. EdgesOf(indexed)' = EdgesOf(indexed)
      BY <1>4 DEF vars
    <2> QED
      BY <1>4, <2>1 DEF vars, IInv, TypeOK, GraphIsCurrent, IndexIsTheEditors, NothingBefore
  <1> QED
    BY <1>1, <1>2, <1>3, <1>4 DEF Next

\* The invariant, in every reachable state.
THEOREM Invariance == Spec => []IInv
  BY InitInv, NextInv, PTL DEF Spec

\* Every reachable state is well typed, and the documents the workspace shares with
\* the server are open ones.
THEOREM TypeCorrect == Spec => []TypeOK
  <1>1. IInv => TypeOK
    BY DEF IInv
  <1> QED
    BY <1>1, Invariance, PTL

\* Whatever the messages, the import graph is the index's, and Reverse the converse
\* of Edges.
THEOREM ImportGraphIsCurrent == Spec => []GraphIsCurrent
  <1>1. IInv => GraphIsCurrent
    BY DEF IInv
  <1> QED
    BY <1>1, Invariance, PTL

\* The index holds the editor's text of the files that are open, and only what was on
\* the disk of the others.
THEOREM OpenTextIsIndexed == Spec => []IndexIsTheEditors
  <1>1. IInv => IndexIsTheEditors
    BY DEF IInv
  <1> QED
    BY <1>1, Invariance, PTL

-----------------------------------------------------------------------------
\* Being related is mutual.
LEMMA RelatedIsMutual ==
  ASSUME TypeOK, GraphIsCurrent, NEW a \in Uris, NEW b \in Uris, a \in Related(b)
  PROVE  b \in Related(a)
  <1>1. \A u \in Uris, v \in Uris : <<u, v>> \in reverse <=> <<v, u>> \in edges
    <2> SUFFICES ASSUME NEW u \in Uris, NEW v \in Uris
                 PROVE  <<u, v>> \in reverse <=> <<v, u>> \in edges
      OBVIOUS
    <2>1. ASSUME <<u, v>> \in reverse PROVE <<v, u>> \in edges
      <3>1. PICK edge \in edges : <<u, v>> = <<edge[2], edge[1]>>
        BY <2>1 DEF GraphIsCurrent
      <3>2. edge \in Uris \X Uris
        BY DEF TypeOK
      <3> QED
        BY <3>1, <3>2
    <2>2. ASSUME <<v, u>> \in edges PROVE <<u, v>> \in reverse
      BY <2>2 DEF GraphIsCurrent
    <2> QED
      BY <2>1, <2>2
  <1> QED
    BY <1>1 DEF Related

\* A name that one document defines: the uses that resolve to it are those of the
\* documents related to it.
LEMMA DefinitionOfOne ==
  ASSUME TypeOK, GraphIsCurrent, NEW name, NEW target \in Uris, NEW uri \in Uris,
         {other \in Uris : Defines(other, name)} = {target}
  PROVE  /\ target \in Definition(uri, name) <=> Definition(uri, name) = {target}
         /\ Definition(uri, name) = {target} <=> uri \in Related(target)
         /\ Definition(uri, name) = {target} => TargetURIs(uri, name) = {target}
  <1>1. \A other \in Uris : Defines(other, name) <=> other = target
    OBVIOUS
  <1>2. Related(uri) \subseteq Uris /\ uri \in Related(uri)
    BY DEF Related
  <1>3. RelatedDefiners(uri, name) = Related(uri) \cap {target}
    BY <1>1, <1>2 DEF RelatedDefiners
  <1>4. CASE uri = target
    <2>1. Defines(uri, name)
      BY <1>1, <1>4
    <2>2. Definition(uri, name) = {target} /\ TargetURIs(uri, name) = {target}
      BY <1>4, <2>1 DEF Definition, TargetURIs
    <2> QED
      BY <1>2, <1>4, <2>2
  <1>5. CASE uri # target
    <2>1. ~Defines(uri, name)
      BY <1>1, <1>5
    <2>2. Definition(uri, name) = Related(uri) \cap {target}
      BY <1>3, <2>1 DEF Definition
    <2>3. target \in Related(uri) <=> uri \in Related(target)
      BY RelatedIsMutual
    <2>4. target \in Related(uri) => TargetURIs(uri, name) = {target}
      BY <1>3, <2>1 DEF TargetURIs
    <2> QED
      BY <2>2, <2>3, <2>4
  <1> QED
    BY <1>4, <1>5

\* In every reachable state a rename edits the documents whose uses a definition
\* request would take to the same place, however many documents and imports there are.
THEOREM RenameAgreesWithDefinition == Spec => []RenameFollowsDefinition
  <1>1. ASSUME TypeOK, GraphIsCurrent PROVE RenameFollowsDefinition
    <2> SUFFICES ASSUME NEW name \in Names,
                        NEW uri \in Documents(indexed), NEW target \in Documents(indexed),
                        {other \in Uris : Defines(other, name)} = {target},
                        target \in Definition(uri, name)
                 PROVE  Renamed(uri, name) =
                          {{other \in Documents(indexed) :
                              Mentions(other, name) /\ Definition(other, name) = {target}}}
      BY DEF RenameFollowsDefinition
    <2>1. Documents(indexed) \subseteq Uris
      BY DEF Documents
    <2>2. TargetURIs(uri, name) = {target}
      BY <1>1, <2>1, DefinitionOfOne
    <2>3. \A other \in Documents(indexed) :
            other \in Related(target) <=> Definition(other, name) = {target}
      BY <1>1, <2>1, DefinitionOfOne
    <2>4. {other \in Documents(indexed) \cap Related(target) : Mentions(other, name)}
          = {other \in Documents(indexed) :
               Mentions(other, name) /\ Definition(other, name) = {target}}
      BY <2>3
    <2> QED
      BY <2>2, <2>4 DEF Renamed
  <1>2. IInv => TypeOK /\ GraphIsCurrent
    BY DEF IInv
  <1> QED
    BY <1>1, <1>2, Invariance, PTL

-----------------------------------------------------------------------------
\* One of a few numbers is the least.
LEMMA FirstOfSix ==
  ASSUME NEW numbers \in SUBSET (1 .. 6), NEW i \in 1 .. 6, \E k \in numbers : ~(i <= k)
  PROVE  \E k \in numbers : k < i /\ \A l \in numbers : k <= l
  <1>1. CASE 1 \in numbers
    BY <1>1
  <1>2. CASE 1 \notin numbers /\ 2 \in numbers
    BY <1>2
  <1>3. CASE 1 \notin numbers /\ 2 \notin numbers
    BY <1>3
  <1> QED
    BY <1>1, <1>2, <1>3

\* A candidate that came into the index can only be one of the file that changed, so an
\* import resolves to what it did, or to that file.
LEMMA ResolvesToOldOrTo ==
  ASSUME NEW old, NEW new, NEW file \in Files, NEW from, NEW path,
         NEW uri \in ResolveImport(old, from, path), uri.file # file,
         \A other \in Files : other # file => new[PathToURI(other)] = old[PathToURI(other)]
  PROVE  \/ uri \in ResolveImport(new, from, path)
         \/ /\ PathToURI(file) \in ResolveImport(new, from, path)
            /\ new[PathToURI(file)] \notin {old[PathToURI(file)], Absent}
  <1> DEFINE tried(i) == Candidates(from, path)[i]
             Found(index) == {i \in 1 .. 6 : tried(i) \in Files /\ index[PathToURI(tried(i))] # Absent}
             First(index) == {i \in Found(index) : \A k \in Found(index) : i <= k}
  <1>1. \A index : ResolveImport(index, from, path) = {PathToURI(tried(i)) : i \in First(index)}
    BY DEF ResolveImport
  <1> HIDE DEF tried
  <1>2. PICK i \in First(old) : uri = PathToURI(tried(i))
    BY <1>1
  <1>3. tried(i) # file /\ tried(i) \in Files
    BY <1>2 DEF PathToURI
  <1>4. i \in Found(new)
    BY <1>3
  <1>5. \A k \in Found(new) : k \in Found(old) \/ tried(k) = file
    OBVIOUS
  <1>6. CASE \A k \in Found(new) : i <= k
    BY <1>1, <1>2, <1>4, <1>6
  <1>7. CASE \E k \in Found(new) : ~(i <= k)
    <2>1. \A k \in Found(new) : k < i => tried(k) = file
      BY <1>5
    <2>2. PICK k \in Found(new) : k < i /\ \A l \in Found(new) : k <= l
      BY <1>7, FirstOfSix DEF Found
    <2>3. k \in First(new) /\ tried(k) = file
      BY <2>1, <2>2
    <2>4. k \notin Found(old)
      BY <1>2, <2>2
    <2> QED
      BY <1>1, <2>3, <2>4
  <1> QED
    BY <1>6, <1>7

\* A rebuild after the text of one file changed: an import between two other files is
\* still there, or leads to that file now.
LEMMA RebuildIsLocal ==
  ASSUME IInv, ~stale, RebuildImportGraph,
         NEW changed \in Files, NEW text \in Contents \cup {Absent},
         indexed' = [indexed EXCEPT ![EditorURI(changed)] = text],
         NEW file \in Files, NEW edge \in edges,
         \A uri \in Uris : uri.file # file => indexed'[uri] = indexed[uri],
         edge[1].file # file, edge[2].file # file
  PROVE  edge \in edges' \/ <<edge[1], EditorURI(file)>> \in edges'
  <1>1. edge \in Documents(indexed) \X Documents(indexed)
    BY DEF IInv, GraphIsCurrent, EdgesOf
  <1>2. PICK path \in indexed[edge[1]].imports : edge[2] \in ResolveImport(indexed, edge[1], path)
    BY DEF IInv, GraphIsCurrent, EdgesOf
  <1>3. edge[1] \in Uris /\ edge[2] \in Uris /\ edge = <<edge[1], edge[2]>>
    BY <1>1 DEF Documents
  <1>4. \A uri \in Uris : uri # EditorURI(file) => indexed'[uri] = indexed[uri]
    <2> SUFFICES ASSUME NEW uri \in Uris, uri # EditorURI(file) PROVE indexed'[uri] = indexed[uri]
      OBVIOUS
    <2>1. CASE uri = EditorURI(changed)
      BY <2>1, UriTypes
    <2>2. CASE uri # EditorURI(changed)
      BY <2>2 DEF IInv, TypeOK
    <2> QED
      BY <2>1, <2>2
  <1>5. /\ indexed'[edge[1]] = indexed[edge[1]]
        /\ edge[1] \in Documents(indexed') /\ edge[2] \in Documents(indexed')
    BY <1>1, <1>3 DEF Documents
  <1>6. \A other \in Files : other # file => indexed'[PathToURI(other)] = indexed[PathToURI(other)]
    <2>1. \A other \in Files : PathToURI(other) \in Uris /\ PathToURI(other).file = other
      BY UriTypes DEF PathToURI
    <2> QED
      BY <2>1
  <1>7. \A uri : uri \in Documents(indexed') /\ uri \in ResolveImport(indexed', edge[1], path)
                  => <<edge[1], uri>> \in edges'
    BY <1>2, <1>5 DEF RebuildImportGraph, EdgesOf
  <1>8. CASE edge[2] \in ResolveImport(indexed', edge[1], path)
    BY <1>3, <1>5, <1>7, <1>8
  <1>9. CASE /\ PathToURI(file) \in ResolveImport(indexed', edge[1], path)
             /\ indexed'[PathToURI(file)] \notin {indexed[PathToURI(file)], Absent}
    <2>1. PathToURI(file) = EditorURI(file)
      BY <1>4, <1>9, UriTypes
    <2>2. EditorURI(file) \in Documents(indexed')
      BY <1>9, <2>1, UriTypes DEF Documents
    <2> QED
      BY <1>7, <1>9, <2>1, <2>2
  <1>10. \/ edge[2] \in ResolveImport(indexed', edge[1], path)
         \/ /\ PathToURI(file) \in ResolveImport(indexed', edge[1], path)
            /\ indexed'[PathToURI(file)] \notin {indexed[PathToURI(file)], Absent}
    <2> DEFINE old == indexed
               new == indexed'
    <2>1. edge[2] \in ResolveImport(old, edge[1], path) /\ edge[2].file # file
      BY <1>2
    <2>2. \A other \in Files : other # file => new[PathToURI(other)] = old[PathToURI(other)]
      BY <1>6
    <2> HIDE DEF old, new
    <2>3. \/ edge[2] \in ResolveImport(new, edge[1], path)
          \/ /\ PathToURI(file) \in ResolveImport(new, edge[1], path)
             /\ new[PathToURI(file)] \notin {old[PathToURI(file)], Absent}
      BY <2>1, <2>2, ResolvesToOldOrTo
    <2> QED
      BY <2>3 DEF old, new
  <1> QED
    BY <1>8, <1>9, <1>10

\* Whatever files and imports there are, opening, changing or closing one file moves no
\* import between two others, unless it is to that file.
THEOREM ImportsMoveLocally == Spec => EditsAreLocal
  <1> DEFINE Moved == ~stale =>
        \A file \in Files, edge \in edges :
          ( /\ \A other \in Files \ {file} : documents'[other] = documents[other]
            /\ \A uri \in Uris : uri.file # file => indexed'[uri] = indexed[uri]
            /\ edge[1].file # file
            /\ edge[2].file # file )
          => edge \in edges' \/ <<edge[1], EditorURI(file)>> \in edges'
  <1>1. ASSUME IInv, Next PROVE Moved
    <2> SUFFICES ASSUME ~stale, NEW file \in Files, NEW edge \in edges,
                        \A uri \in Uris : uri.file # file => indexed'[uri] = indexed[uri],
                        edge[1].file # file, edge[2].file # file
                 PROVE  edge \in edges' \/ <<edge[1], EditorURI(file)>> \in edges'
      OBVIOUS
    <2>1. CASE Initialize
      BY <1>1, <2>1 DEF Initialize, IInv, NothingBefore
    <2>2. ASSUME NEW f \in Files, NEW content \in Contents, DidOpen(f, content)
          PROVE  edge \in edges' \/ <<edge[1], EditorURI(file)>> \in edges'
      BY <1>1, <2>2, RebuildIsLocal DEF DidOpen
    <2>3. ASSUME NEW f \in Files, NEW content \in Contents, DidChange(f, content)
          PROVE  edge \in edges' \/ <<edge[1], EditorURI(file)>> \in edges'
      BY <1>1, <2>3, RebuildIsLocal DEF DidChange
    <2>4. ASSUME NEW f \in Files, NEW content \in Contents, DidChangeFails(f, content)
          PROVE  edge \in edges'
      BY <2>4 DEF DidChangeFails
    <2>5. ASSUME NEW f \in Files, DidClose(f)
          PROVE  edge \in edges' \/ <<edge[1], EditorURI(file)>> \in edges'
      BY <1>1, <2>5, RebuildIsLocal DEF DidClose
    <2> QED
      BY <1>1, <2>1, <2>2, <2>3, <2>4, <2>5 DEF Next
  <1>2. ASSUME IInv, [Next]_vars PROVE [Moved]_vars
    BY <1>1, <1>2
  <1> QED
    BY <1>2, Invariance, PTL DEF Spec, EditsAreLocal
=============================================================================
