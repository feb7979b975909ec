-------------------------- MODULE AlgorithmsProofs --------------------------
(***************************************************************************)
(* The sidecar's loader, for every request: any documents, imports, root   *)
(* and files on the disk.  The masks of the parser's recovery, for every   *)
(* file.  The semantic tokens, for every text.                             *)
(***************************************************************************)
EXTENDS Algorithms, SequenceTheorems, Induction

\* The provers do not find that a string is in STRING.
Words == STRING \cup {Unsaved}
Paths == Seq(Words)
LogicalName == Paths \ {<<>>}

-----------------------------------------------------------------------------
(***************************************************************************)
(* Sequences.                                                              *)
(***************************************************************************)
LEMMA Joined ==
  ASSUME NEW S, NEW prefix \in Seq(S), NEW file \in S
  PROVE  /\ Append(prefix, file) \in Seq(S) /\ Append(prefix, file) # <<>>
         /\ Front(Append(prefix, file)) = prefix
         /\ Last(Append(prefix, file)) = file
<1> DEFINE s == Append(prefix, file)
           k == Len(prefix)
<1>1. /\ s \in Seq(S) /\ s # <<>> /\ Len(s) = k + 1 /\ s[k + 1] = file
      /\ \A i \in 1 .. k : s[i] = prefix[i]
  BY AppendProperties
<1>2. k \in Nat /\ \A i \in 1 .. k : prefix[i] \in S
  OBVIOUS
<1> HIDE DEF s
<1>3. /\ SubSeq(s, 1, k) \in Seq(S)
      /\ Len(SubSeq(s, 1, k)) = IF 1 <= k THEN k - 1 + 1 ELSE 0
      /\ \A i \in 1 .. k - 1 + 1 : SubSeq(s, 1, k)[i] = s[1 + i - 1]
  <2>1. \A i \in 1 .. k : s[i] \in S
    BY <1>1, <1>2
  <2> HIDE DEF k
  <2> QED BY <1>2, <2>1, SubSeqProperties, 1 \in Int
<1>4. Len(SubSeq(s, 1, k)) = k /\ \A i \in 1 .. k : SubSeq(s, 1, k)[i] = prefix[i]
  <2> HIDE DEF k
  <2> QED BY <1>1, <1>2, <1>3
<1>5. SubSeq(s, 1, k) = prefix
  BY <1>3, <1>4, SeqEqual
<1>6. Len(s) - 1 = k /\ s[Len(s)] = file
  BY <1>1, <1>2
<1>7. Front(s) = prefix /\ Last(s) = file
  BY <1>5, <1>6 DEF Front, Last
<1> QED BY <1>1, <1>7 DEF s

LEMMA Parted ==
  ASSUME NEW S, NEW name \in Seq(S), name # <<>>
  PROVE  /\ Front(name) \in Seq(S)
         /\ Last(name) \in S
         /\ Append(Front(name), Last(name)) = name
<1> DEFINE n == Len(name)
<1>1. name \in Seq(S) /\ n \in Nat \ {0}
  BY EmptySeq
<1>2. \A i \in 1 .. n : name[i] \in S
  BY <1>1
<1> HIDE DEF n
<1>3. n - 1 \in Int /\ 1 \in Int /\ \A i \in 1 .. n - 1 : name[i] \in S
  BY <1>1, <1>2
<1>4. /\ SubSeq(name, 1, n - 1) \in Seq(S)
      /\ Len(SubSeq(name, 1, n - 1)) = IF 1 <= n - 1 THEN n - 1 - 1 + 1 ELSE 0
      /\ \A i \in 1 .. n - 1 - 1 + 1 : SubSeq(name, 1, n - 1)[i] = name[1 + i - 1]
  BY <1>3, SubSeqProperties
<1> DEFINE f == SubSeq(name, 1, n - 1)
<1>5. Front(name) = f /\ Last(name) = name[n]
  BY DEF Front, Last, n
<1>6. f \in Seq(S) /\ Len(f) = n - 1 /\ \A i \in 1 .. n - 1 : f[i] = name[i]
  BY <1>1, <1>4
<1> HIDE DEF f
<1>7. name[n] \in S
  BY <1>1, <1>2
<1>8. Append(f, name[n]) \in Seq(S) /\ Len(Append(f, name[n])) = n
  BY <1>1, <1>6, <1>7
<1>9. \A i \in 1 .. n : Append(f, name[n])[i] = name[i]
  BY <1>1, <1>6, <1>7
<1>10. Append(f, name[n]) = name
  BY <1>1, <1>8, <1>9, SeqEqual DEF n
<1> QED BY <1>5, <1>6, <1>7, <1>10

\* A name below a directory is what its path has after the directory's.
LEMMA Below ==
  ASSUME NEW S, NEW base \in Seq(S), NEW name \in Seq(S)
  PROVE  SubSeq(base \o name, Len(base) + 1, Len(base \o name)) = name
<1> DEFINE p == base \o name
           m == Len(base) + 1
           n == Len(p)
<1>1. Len(base) \in Nat /\ Len(name) \in Nat
  OBVIOUS
<1>2. /\ p \in Seq(S) /\ n = Len(base) + Len(name)
      /\ \A i \in 1 .. Len(base) + Len(name) :
           p[i] = IF i <= Len(base) THEN base[i] ELSE name[i - Len(base)]
  BY ConcatProperties
<1> HIDE DEF p
<1>3. \A i \in 1 .. n : p[i] \in S
  BY <1>1, <1>2
<1>4. m \in Int /\ n \in Int /\ n - m + 1 = Len(name)
      /\ \A i \in m .. n : i \in 1 .. n
  BY <1>1, <1>2
<1>5. \A i \in m .. n : p[i] \in S
  BY <1>3, <1>4
<1>6. \A i \in 1 .. Len(name) : p[m + i - 1] = name[i]
  <2> SUFFICES ASSUME NEW i \in 1 .. Len(name) PROVE p[m + i - 1] = name[i]
    OBVIOUS
  <2>1. /\ m + i - 1 \in 1 .. Len(base) + Len(name) /\ ~(m + i - 1 <= Len(base))
        /\ m + i - 1 - Len(base) = i
    BY <1>1
  <2> QED BY <1>2, <2>1
<1>7. (IF m <= n THEN n - m + 1 ELSE 0) = Len(name)
  BY <1>1, <1>2
<1> HIDE DEF m, n
<1>8. /\ SubSeq(p, m, n) \in Seq(S)
      /\ Len(SubSeq(p, m, n)) = IF m <= n THEN n - m + 1 ELSE 0
      /\ \A i \in 1 .. n - m + 1 : SubSeq(p, m, n)[i] = p[m + i - 1]
  BY <1>4, <1>5, SubSeqProperties
<1>9. /\ Len(SubSeq(p, m, n)) = Len(name)
      /\ \A i \in 1 .. Len(name) : SubSeq(p, m, n)[i] = name[i]
  BY <1>4, <1>6, <1>7, <1>8
<1>10. SubSeq(p, m, n) = name
  BY <1>8, <1>9, SeqEqual
<1> QED BY <1>10 DEF m, n, p

LEMMA SameBelow ==
  ASSUME NEW S, NEW base \in Seq(S), NEW a \in Seq(S), NEW b \in Seq(S),
         base \o a = base \o b
  PROVE  a = b
  BY Below

\* The last index of a kind.
LEMMA MaxIs ==
  ASSUME NEW k \in Nat, NEW T, T \subseteq 0 .. k, T # {}
  PROVE  Max(T) \in T
  BY GreatestOf DEF Max

-----------------------------------------------------------------------------
(***************************************************************************)
(* Requests.                                                               *)
(***************************************************************************)
Documents == {EditorsText(uri) : uri \in Range(Uris)}

RequestInv ==
  /\ request.root \in {<<>>, Base}
  /\ request.documents \in Seq(Documents)
  /\ import.prefix \in Paths
  /\ import.files \subseteq Words
  /\ disk \subseteq OnDisk

LEMMA Inputs ==
  /\ Base \in Paths
  /\ Uris \in Seq([scheme : Words, path : Paths])
  /\ \A uri \in Range(Uris) : uri.scheme = "file" => uri.path \notin {<<>>, Base}
  /\ OnDisk \subseteq LogicalName
  /\ Imports \subseteq [type : Words, from : BOOLEAN, prefix : Paths, files : SUBSET Words]
<1>1. Seq(STRING) \subseteq Paths /\ STRING \subseteq Words
  BY SeqMonotonic DEF Paths, Words
<1> DEFINE Uri == [scheme : STRING, path : Seq(STRING)]
           Import == [type : STRING, from : BOOLEAN, prefix : Seq(STRING), files : SUBSET STRING]
<1>2. Uri \subseteq [scheme : Words, path : Paths]
  BY <1>1
<1>3. Import \subseteq [type : Words, from : BOOLEAN, prefix : Paths, files : SUBSET Words]
  BY <1>1
<1>4. Uris \in Seq([scheme : Words, path : Paths])
  <2>1. Uris \in Seq(Uri)
    BY UrisAssumption
  <2> HIDE DEF Uri
  <2> QED BY <1>2, <2>1, SeqMonotonic
<1> HIDE DEF Uri, Import
<1>5. Imports \subseteq [type : Words, from : BOOLEAN, prefix : Paths, files : SUBSET Words]
  BY <1>3, ImportsAssumption DEF Import
<1>6. Base \in Paths
  BY <1>1, UrisAssumption
<1>7. OnDisk \subseteq LogicalName
  BY <1>1, ImportsAssumption DEF LogicalName
<1> QED BY <1>4, <1>5, <1>6, <1>7, UrisAssumption

LEMMA RequestedUris ==
  \A uri \in Range(Uris) : uri.path \in Paths
<1> DEFINE U == [scheme : Words, path : Paths]
<1>1. Uris \in Seq(U)
  BY Inputs
<1>2. \A u \in U : u.path \in Paths
  OBVIOUS
<1> HIDE DEF U
<1>3. DOMAIN Uris = 1 .. Len(Uris) /\ \A i \in 1 .. Len(Uris) : Uris[i] \in U
  BY <1>1
<1> QED BY <1>2, <1>3 DEF Range

\* Every document has a name.
LEMMA DocumentsAreNamed ==
  ASSUME NEW uri \in Range(Uris), NEW root \in {<<>>, Base}
  PROVE  LogicalDocumentName(uri, root) \in LogicalName
<1> DEFINE path == UriPath(uri, root)
<1>1. root \in Paths /\ Base \in Paths
  BY Inputs, EmptySeq DEF Paths
<1>2. path \in LogicalName /\ (root # <<>> => path # root)
  <2>1. CASE uri.scheme = "file"
    <3>1. path = uri.path /\ path \notin {<<>>, Base}
      BY <2>1, Inputs DEF UriPath
    <3> QED BY <3>1, RequestedUris DEF LogicalName
  <2>2. CASE uri.scheme # "file"
    <3>1. Unsaved \in Words
      BY DEF Words
    <3>2. path = Append(root, Unsaved)
      BY <2>2 DEF UriPath
    <3>3. path \in Paths /\ path # <<>> /\ Len(path) = Len(root) + 1 /\ Len(root) \in Nat
      BY <1>1, <3>1, <3>2, AppendProperties DEF Paths
    <3>4. path # root
      BY <3>3
    <3> QED BY <3>3, <3>4 DEF LogicalName
  <2> QED BY <2>1, <2>2
<1> HIDE DEF path
<1>3. path \in Seq(Words) /\ path # <<>> /\ Len(path) \in Nat \ {0}
      /\ \A i \in 1 .. Len(path) : path[i] \in Words
  BY <1>2, EmptySeq DEF LogicalName, Paths
<1>4. CASE root = <<>>
  <2>1. Last(path) \in Words
    BY <1>3 DEF Last
  <2>2. <<Last(path)>> \in Paths /\ <<Last(path)>> # <<>>
    BY <2>1 DEF Paths
  <2> QED BY <1>4, <2>2 DEF LogicalDocumentName, path, LogicalName
<1>5. CASE root # <<>> /\ IsPrefix(root, path)
  <2> DEFINE m == Len(root) + 1
             n == Len(path)
  <2>1. Len(root) \in Nat /\ Len(root) <= n /\ SubSeq(root, 1, Len(root)) = SubSeq(path, 1, Len(root))
    BY <1>1, <1>5 DEF IsPrefix, Paths
  <2>2. Len(root) # n
    <3>1. SubSeq(root, 1, Len(root)) = root /\ SubSeq(path, 1, n) = path
      BY <1>1, <1>3, SubSeqFull DEF Paths
    <3> QED BY <1>2, <1>5, <2>1, <3>1
  <2>3. m \in Int /\ n \in Int /\ m <= n /\ n - m + 1 >= 1 /\ \A i \in m .. n : i \in 1 .. n
    BY <1>3, <2>1, <2>2
  <2>4. \A i \in m .. n : path[i] \in Words
    BY <1>3, <2>3
  <2> HIDE DEF m, n
  <2>5. SubSeq(path, m, n) \in Seq(Words)
        /\ Len(SubSeq(path, m, n)) = IF m <= n THEN n - m + 1 ELSE 0
    BY <2>3, <2>4, SubSeqProperties
  <2>6. SubSeq(path, m, n) # <<>>
    <3> DEFINE s == SubSeq(path, m, n)
    <3>1. Len(s) # 0
      BY <2>3, <2>5
    <3> HIDE DEF s
    <3>2. s # <<>>
      BY <3>1
    <3> QED BY <3>2 DEF s
  <2>7. LogicalDocumentName(uri, root) = SubSeq(path, m, n)
    BY <1>5 DEF LogicalDocumentName, path, m, n
  <2> QED BY <2>5, <2>6, <2>7 DEF LogicalName, Paths
<1>6. CASE root # <<>> /\ ~IsPrefix(root, path)
  BY <1>2, <1>6 DEF LogicalDocumentName, path
<1> QED BY <1>4, <1>5, <1>6

-----------------------------------------------------------------------------
(***************************************************************************)
(* The snapshot of a request whose documents have the names of their       *)
(* files: it has each of them, with the editor's text.                     *)
(***************************************************************************)
NameAt(i) == LogicalDocumentName(request.documents[i].uri, request.root)
Answered == {NameAt(i) : i \in DOMAIN request.documents}

LEMMA DocumentAt ==
  ASSUME RequestInv, ~Misnamed, NEW i \in DOMAIN request.documents
  PROVE  /\ NameAt(i) \in LogicalName
         /\ request.documents[i].uri.path = Base \o NameAt(i)
         /\ request.documents[i].source = Text("editor", NameAt(i))
<1> DEFINE d == request.documents[i]
<1>1. d \in Documents
  BY DEF RequestInv
<1>2. d.uri \in Range(Uris) /\ d.source = [from |-> "editor", path |-> d.uri.path]
  BY <1>1 DEF Documents, EditorsText
<1>3. NameAt(i) \in LogicalName
  BY <1>2, DocumentsAreNamed DEF NameAt, RequestInv
<1>4. d.uri.path = Base \o NameAt(i)
  BY DEF Misnamed, NameAt
<1> QED BY <1>2, <1>3, <1>4 DEF Text

LEMMA SnapshotHasTheEditors ==
  ASSUME RequestInv, ~Misnamed
  PROVE  SnapshotDocuments(request) = [name \in Answered |-> Text("editor", name)]
<1> DEFINE docs == request.documents
           At(name) == {i \in 1 .. Len(docs) : NameAt(i) = name}
<1>1. Len(docs) \in Nat /\ DOMAIN docs = 1 .. Len(docs)
  BY DEF RequestInv
<1>2. SnapshotDocuments(request) =
        [name \in Answered |->
           docs[IF At(name) # {} THEN Max(At(name)) ELSE 0].source]
  BY DEF SnapshotDocuments, SelectLastInSeq, Answered, NameAt
<1>3. ASSUME NEW name \in Answered
      PROVE  docs[IF At(name) # {} THEN Max(At(name)) ELSE 0].source = Text("editor", name)
  <2>1. At(name) # {} /\ At(name) \subseteq 0 .. Len(docs)
    BY <1>1 DEF Answered
  <2>2. Max(At(name)) \in At(name)
    BY <1>1, <2>1, MaxIs
  <2>3. NameAt(Max(At(name))) = name /\ Max(At(name)) \in DOMAIN docs
    BY <1>1, <2>2
  <2> QED BY <2>1, <2>3, DocumentAt
<1> QED BY <1>2, <1>3

\* A logical name is open if one of the documents has it.
LEMMA OpenIsAnswered ==
  ASSUME RequestInv, ~Misnamed
  PROVE  /\ \A name \in LogicalName : IsOpen(name) <=> name \in Answered
         /\ {SubSeq(path, Len(Base) + 1, Len(path)) : path \in OpenFiles} = Answered
         /\ Answered \subseteq LogicalName
<1>1. OpenFiles = {Base \o name : name \in Answered} /\ Answered \subseteq LogicalName
  BY DocumentAt DEF OpenFiles, Answered
<1>2. Base \in Seq(Words) /\ \A name \in LogicalName : name \in Seq(Words)
  BY Inputs DEF Paths, LogicalName
<1>3. \A name \in LogicalName : IsOpen(name) <=> name \in Answered
  BY <1>1, <1>2, SameBelow DEF IsOpen
<1>4. \A name \in Answered : SubSeq(Base \o name, Len(Base) + 1, Len(Base \o name)) = name
  BY <1>1, <1>2, Below
<1> QED BY <1>1, <1>3, <1>4

-----------------------------------------------------------------------------
(***************************************************************************)
(* What a check of the request loads.                                      *)
(***************************************************************************)
IsNamed(name) ==
  /\ Front(name) = import.prefix
  /\ import.type = "Glob" \/ Last(name) \in import.files

LEMMA FoundAreNamed ==
  ASSUME RequestInv, NEW documents, DOMAIN documents \subseteq LogicalName
  PROVE  Found(documents, import) = {name \in DOMAIN documents : IsNamed(name)}
<1>1. import.prefix \in Paths /\ import.files \subseteq Words
  BY DEF RequestInv
<1>2. \A file \in import.files :
        /\ Front(JoinLogicalName(import.prefix, file)) = import.prefix
        /\ Last(JoinLogicalName(import.prefix, file)) = file
  BY <1>1, Joined DEF Paths, JoinLogicalName
<1>3. \A name \in LogicalName : name = JoinLogicalName(Front(name), Last(name))
  BY Parted DEF LogicalName, Paths, JoinLogicalName
<1>4. CASE import.type = "Glob"
  BY <1>4 DEF Found, Glob, IsNamed
<1>5. CASE import.type # "Glob"
  <2>1. \A name \in DOMAIN documents :
          name \in {JoinLogicalName(import.prefix, file) : file \in import.files}
            <=> Front(name) = import.prefix /\ Last(name) \in import.files
    BY <1>2, <1>3
  <2> QED BY <1>5, <2>1 DEF Found, IsNamed
<1> QED BY <1>4, <1>5

\* The files an import is bound to.
LEMMA FilesOf ==
  ASSUME NEW names
  PROVE  {file[2] : file \in {<<Last(name), name>> : name \in names}} = names
<1> DEFINE bound == {<<Last(name), name>> : name \in names}
<1>1. \A file \in bound : file[2] \in names
  OBVIOUS
<1>2. \A name \in names : <<Last(name), name>> \in bound /\ <<Last(name), name>>[2] = name
  OBVIOUS
<1> HIDE DEF bound
<1>3. {file[2] : file \in bound} = names
  BY <1>1, <1>2
<1> QED BY <1>3 DEF bound

LEMMA RequestsSeeTheEditor ==
  ASSUME RequestInv
  PROVE  ImportsSeeTheEditor
<1> SUFFICES ASSUME ~Mixed, ~IsOpenPath, ~Misnamed
             PROVE  /\ Loaded.sources = [name \in Wanted |->
                         Text(IF IsOpen(name) THEN "editor" ELSE "disk", name)]
                    /\ {file[2] : file \in Loaded.src.files} = Wanted
  BY DEF ImportsSeeTheEditor
<1> DEFINE documents == SnapshotDocuments(request)
           found == Found(documents, import)
<1>1. documents = [name \in Answered |-> Text("editor", name)]
  BY SnapshotHasTheEditors
<1>2. /\ \A name \in LogicalName : IsOpen(name) <=> name \in Answered
      /\ {SubSeq(path, Len(Base) + 1, Len(path)) : path \in OpenFiles} = Answered
      /\ Answered \subseteq LogicalName
  BY OpenIsAnswered
<1>3. disk \subseteq LogicalName
  BY Inputs DEF RequestInv
<1> HIDE DEF documents
<1>4. found = {name \in Answered : IsNamed(name)}
  BY <1>1, <1>2, FoundAreNamed
<1>5. Wanted = {name \in disk \cup Answered :
                    IsNamed(name) \/ (import.from /\ name = import.prefix)}
  BY <1>2 DEF Wanted, IsNamed
<1>6. found = {name \in Wanted : IsOpen(name)}
  BY <1>2, <1>3, <1>4, <1>5 DEF IsOpenPath
<1>7. Loaded = IF found = {} THEN FromDisk
               ELSE [sources |-> [name \in found |-> documents[name]],
                     src |-> Bound(import, found)]
  BY DEF Loaded, Load, documents
<1> HIDE DEF found
<1>8. CASE found = {}
  <2>1. \A name \in Wanted : ~IsOpen(name) /\ name \in disk
    BY <1>2, <1>3, <1>4, <1>5, <1>6, <1>8
  <2>2. Wanted \cap disk = Wanted
    BY <2>1
  <2>3. {file[2] : file \in {<<Last(name), name>> : name \in Wanted}} = Wanted
    BY FilesOf
  <2> QED BY <1>7, <1>8, <2>1, <2>2, <2>3 DEF FromDisk
<1>9. CASE found # {}
  <2>1. \A name \in Wanted : IsOpen(name)
    BY <1>6, <1>9 DEF Mixed
  <2>2. found = Wanted
    BY <1>6, <2>1
  <2>3. \A name \in Wanted : documents[name] = Text("editor", name)
    BY <1>1, <1>4, <2>2
  <2>4. {file[2] : file \in {<<Last(name), name>> : name \in Wanted}} = Wanted
    BY FilesOf
  <2> QED BY <1>7, <1>9, <2>1, <2>2, <2>3, <2>4 DEF Bound
<1> QED BY <1>8, <1>9

-----------------------------------------------------------------------------
(***************************************************************************)
(* Every request is of that kind.                                          *)
(***************************************************************************)
LEMMA ListedAreUris ==
  ASSUME NEW open
  PROVE  Listed(open) \in Seq(Range(Uris))
<1> DEFINE S == Seq(Range(Uris))
           N == Len(Uris)
           step == [a \in S \X (1 .. N) |->
                      IF Uris[a[2]] \in open THEN Append(a[1], Uris[a[2]]) ELSE a[1]]
           IsListed(l) == l = [n \in 0 .. N |->
                                 IF n = 0 THEN <<>>
                                 ELSE IF Uris[n] \in open THEN Append(l[n - 1], Uris[n])
                                      ELSE l[n - 1]]
<1>1. N \in Nat /\ \A n \in 1 .. N : Uris[n] \in Range(Uris)
  BY Inputs DEF Range
<1>2. <<>> \in S
  BY EmptySeq
<1>3. ASSUME NEW s \in S, NEW n \in 1 .. N
      PROVE  (IF Uris[n] \in open THEN Append(s, Uris[n]) ELSE s) \in S
  BY <1>1, AppendProperties
<1>4. step \in [S \X (1 .. N) -> S]
  BY <1>3
<1>5. \A s \in S, n \in 1 .. N :
        step[<<s, n>>] = IF Uris[n] \in open THEN Append(s, Uris[n]) ELSE s
  OBVIOUS
<1> HIDE DEF step, S, N
<1>6. PICK f : IsFold(f, N, S, <<>>, step)
  BY <1>1, <1>2, <1>4, FoldExists
<1>7. /\ f \in [0 .. N -> S] /\ f[0] = <<>>
      /\ \A n \in 1 .. N : f[n] = step[<<f[n - 1], n>>]
  BY <1>6 DEF IsFold
<1>8. IsListed(f)
  <2>1. ASSUME NEW n \in 0 .. N, n # 0
        PROVE  f[n] = IF Uris[n] \in open THEN Append(f[n - 1], Uris[n]) ELSE f[n - 1]
    <3>1. n \in 1 .. N /\ n - 1 \in 0 .. N
      BY <1>1, <2>1
    <3> QED BY <1>5, <1>7, <3>1
  <2> QED BY <1>7, <2>1
<1>9. \A l : IsListed(l) => l = f
  <2> SUFFICES ASSUME NEW l, IsListed(l) PROVE l = f OBVIOUS
  <2> DEFINE T == {n \in 0 .. N : l[n] = f[n]}
  <2>1. 0 \in T
    BY <1>1, <1>7
  <2>2. ASSUME NEW k \in 1 .. N, k - 1 \in T PROVE k \in T
    <3>1. k \in 0 .. N /\ k # 0
      BY <1>1
    <3>2. l[k] = IF Uris[k] \in open THEN Append(l[k - 1], Uris[k]) ELSE l[k - 1]
      BY <3>1
    <3>3. f[k] = IF Uris[k] \in open THEN Append(f[k - 1], Uris[k]) ELSE f[k - 1]
      BY <1>8, <3>1
    <3> QED BY <2>2, <3>1, <3>2, <3>3
  <2> HIDE DEF T
  <2>3. ASSUME NEW n \in 0 .. N - 1, n \in T PROVE n + 1 \in T
    <3>1. n + 1 \in 1 .. N /\ n + 1 - 1 = n
      BY <1>1
    <3> QED BY <2>2, <2>3, <3>1
  <2>4. \A n \in 0 .. N : n \in T
    BY <1>1, <2>1, <2>3, UpwardInduction
  <2> QED BY <1>7, <2>4 DEF T
<1>10. Listed(open) = f[N]
  <2> HIDE DEF IsListed
  <2>1. (CHOOSE l : IsListed(l)) = f
    BY <1>8, <1>9
  <2> QED BY <2>1 DEF Listed, IsListed, N
<1> QED BY <1>1, <1>7, <1>10 DEF S

\* RequestInv is inductive: requests are made once, from the documents that are open.
LEMMA InductiveRequest == Spec => []RequestInv
<1>1. Init => RequestInv
  <2> SUFFICES ASSUME Init PROVE RequestInv OBVIOUS
  <2>1. request.root = <<>> /\ request.documents = <<>> /\ disk = {}
    BY DEF Init, NoRequest
  <2>2. import.prefix \in Paths /\ import.files \subseteq Words
    BY EmptySeq DEF Init, NoImport, Paths
  <2>3. <<>> \in Seq(Documents)
    BY EmptySeq
  <2> QED BY <2>1, <2>2, <2>3 DEF RequestInv
<1>2. RequestInv /\ [Next]_vars => RequestInv'
  <2> SUFFICES ASSUME RequestInv, [Next]_vars PROVE RequestInv' OBVIOUS
  <2>1. CASE Request
    <3>1. PICK root \in {<<>>, Base}, open \in {{Target} \cup u : u \in SUBSET Range(Uris)} :
            request' = [root |-> root,
                        documents |-> [i \in DOMAIN Listed(open) |-> EditorsText(Listed(open)[i])]]
      BY <2>1 DEF Request
    <3>2. Listed(open) \in Seq(Range(Uris))
      BY ListedAreUris
    <3>3. request'.documents \in Seq(Documents)
      BY <3>1, <3>2 DEF Documents
    <3>4. import' \in Imports /\ disk' \subseteq OnDisk
      BY <2>1 DEF Request
    <3> QED BY <3>1, <3>3, <3>4, Inputs DEF RequestInv
  <2>2. CASE Type
    BY <2>2 DEF Type, RequestInv
  <2>3. CASE Write
    BY <2>3 DEF Write, inputs, RequestInv
  <2>4. CASE Highlight
    BY <2>4 DEF Highlight, inputs, RequestInv
  <2>5. CASE UNCHANGED vars
    BY <2>5 DEF vars, inputs, RequestInv
  <2> QED BY <2>1, <2>2, <2>3, <2>4, <2>5 DEF Next
<1> QED BY <1>1, <1>2, PTL DEF Spec

\* The compiler sees the editor's text of each imported file that is open and the
\* disk's of the others, and binds the import to those files, if all are open or none
\* is, the path is no open file, and each document's name is its file's: for any
\* documents, imports, root and files, however their names and directories resemble each
\* other.
THEOREM ImportsAreTheEditors == Spec => []ImportsSeeTheEditor
<1>1. RequestInv => ImportsSeeTheEditor
  BY RequestsSeeTheEditor
<1> QED BY <1>1, InductiveRequest, PTL

-----------------------------------------------------------------------------
(***************************************************************************)
(* Bytes.                                                                  *)
(***************************************************************************)
LEMMA WidthIs ==
  ASSUME NEW lexeme
  PROVE  Width(lexeme) \in Nat \ {0}
<1>1. CASE lexeme \in DOMAIN Keywords
  <2>1. \A k \in DOMAIN Keywords : Keywords[k] \in Nat \ {0}
    BY DEF Keywords
  <2> QED BY <1>1, <2>1 DEF Width
<1>2. CASE lexeme \notin DOMAIN Keywords
  BY <1>2 DEF Width
<1> QED BY <1>1, <1>2

\* The sums of the widths of a text's lexemes.
IsSum(sum, text) ==
  /\ sum \in [0 .. Len(text) -> Nat]
  /\ sum[0] = 0
  /\ \A n \in 1 .. Len(text) : sum[n] = sum[n - 1] + Width(text[n])

\* The function that Bytes chooses exists.
LEMMA BytesAreASum ==
  ASSUME NEW S, NEW text \in Seq(S)
  PROVE  \E sum : IsSum(sum, text) /\ Bytes(text) = sum[Len(text)]
<1> DEFINE N == Len(text)
           Sums(g) == [i \in 0 .. N |-> IF i = 0 THEN 0 ELSE g[i - 1] + Width(text[i])]
           sum == CHOOSE g : g = Sums(g)
           step == [z \in Nat \X (1 .. N) |-> z[1] + Width(text[z[2]])]
<1>1. N \in Nat
  OBVIOUS
<1>2. Bytes(text) = sum[N]
  BY DEF Bytes
<1>3. step \in [Nat \X (1 .. N) -> Nat]
  BY WidthIs
<1>4. \A x \in Nat, n \in 1 .. N : step[<<x, n>>] = x + Width(text[n])
  OBVIOUS
<1>5. PICK f : IsFold(f, N, Nat, 0, step)
  <2>1. 0 \in Nat OBVIOUS
  <2> QED BY ONLY <1>1, <1>3, <2>1, FoldExists
<1> HIDE DEF step
<1>6. f \in [0 .. N -> Nat] /\ f[0] = 0 /\ \A n \in 1 .. N : f[n] = step[<<f[n - 1], n>>]
  BY <1>5 DEF IsFold
<1>7. f = Sums(f)
  <2>1. ASSUME NEW n \in 1 .. N PROVE n - 1 \in 0 .. N /\ f[n] = f[n - 1] + Width(text[n])
    <3>1. n - 1 \in 0 .. N
      BY <1>1
    <3>2. f[n - 1] \in Nat /\ f[n] = step[<<f[n - 1], n>>]
      BY <1>6, <3>1
    <3> QED BY <1>4, <3>1, <3>2
  <2> QED BY <1>6, <2>1
<1>8. sum = Sums(sum)
  <2> HIDE DEF Sums
  <2> QED BY <1>7
<1> HIDE DEF sum
<1>9. sum[0] = 0 /\ \A n \in 1 .. N : sum[n] = sum[n - 1] + Width(text[n])
  BY <1>1, <1>8
<1>10. \A n \in 0 .. N : sum[n] \in Nat
  <2> DEFINE T == {n \in Nat : sum[n] \in Nat}
  <2>1. 0 \in T
    BY <1>9
  <2>2. \A n \in 0 .. N - 1 : n \in T => n + 1 \in T
    BY <1>1, <1>9, WidthIs
  <2> HIDE DEF T, N
  <2>3. \A n \in 0 .. N : n \in T
    BY <1>1, <2>1, <2>2, UpwardInduction
  <2> QED BY <2>3 DEF T
<1>11. sum \in [0 .. N -> Nat]
  BY <1>8, <1>10
<1> QED BY <1>2, <1>9, <1>11 DEF IsSum

\* It is the only one.
LEMMA SumsAgree ==
  ASSUME NEW text, Len(text) \in Nat, NEW f, IsSum(f, text), NEW g, IsSum(g, text)
  PROVE  \A n \in 0 .. Len(text) : f[n] = g[n]
<1> DEFINE T == {n \in Nat : f[n] = g[n]}
<1>1. 0 \in T
  BY DEF IsSum
<1>2. ASSUME NEW n \in 0 .. Len(text) - 1, n \in T PROVE n + 1 \in T
  <2>1. n + 1 \in 1 .. Len(text) /\ n + 1 - 1 = n
    OBVIOUS
  <2> QED BY <1>2, <2>1 DEF IsSum
<1> HIDE DEF T
<1>3. \A n \in 0 .. Len(text) : n \in T
  BY <1>1, <1>2, UpwardInduction
<1> QED BY <1>3 DEF T

LEMMA BytesOf ==
  ASSUME NEW S, NEW text \in Seq(S), NEW sum, IsSum(sum, text)
  PROVE  Bytes(text) = sum[Len(text)] /\ Bytes(text) \in Nat
<1>1. Len(text) \in Nat
  OBVIOUS
<1>2. PICK f : IsSum(f, text) /\ Bytes(text) = f[Len(text)]
  BY BytesAreASum
<1>3. f[Len(text)] = sum[Len(text)]
  BY <1>1, <1>2, SumsAgree
<1> QED BY <1>1, <1>2, <1>3 DEF IsSum

\* The bytes of a front are the sum up to its end.
LEMMA BytesOfFront ==
  ASSUME NEW S, NEW text \in Seq(S), NEW sum, IsSum(sum, text), NEW k \in 0 .. Len(text)
  PROVE  Bytes(SubSeq(text, 1, k)) = sum[k]
<1> DEFINE u == SubSeq(text, 1, k)
           c == [n \in 0 .. k |-> sum[n]]
<1>1. k \in Nat /\ Len(text) \in Nat /\ \A i \in 1 .. k : text[i] \in S
  OBVIOUS
<1>2. /\ u \in Seq(S)
      /\ Len(u) = IF 1 <= k THEN k - 1 + 1 ELSE 0
      /\ \A i \in 1 .. k - 1 + 1 : u[i] = text[1 + i - 1]
  BY <1>1, SubSeqProperties, 1 \in Int
<1>3. Len(u) = k /\ \A i \in 1 .. k : u[i] = text[i]
  BY <1>1, <1>2
<1> HIDE DEF u
<1>4. IsSum(c, u)
  <2>1. \A n \in 0 .. k : n \in 0 .. Len(text)
    BY <1>1
  <2>2. c \in [0 .. k -> Nat] /\ c[0] = 0
    BY <1>1, <2>1 DEF IsSum
  <2>3. ASSUME NEW n \in 1 .. k PROVE c[n] = c[n - 1] + Width(u[n])
    <3>1. n \in 1 .. Len(text) /\ n - 1 \in 0 .. k /\ n \in 0 .. k
      BY <1>1
    <3>2. sum[n] = sum[n - 1] + Width(text[n])
      BY <3>1 DEF IsSum
    <3> QED BY <1>3, <3>1, <3>2
  <2> HIDE DEF c
  <2> QED BY <1>3, <2>2, <2>3 DEF IsSum
<1>5. c[k] = sum[k]
  BY <1>1
<1> HIDE DEF c
<1>6. Bytes(u) = c[k]
  BY <1>2, <1>3, <1>4, BytesOf
<1> QED BY <1>5, <1>6 DEF u

At(text, i) == Bytes(SubSeq(text, 1, i - 1))

LEMMA AtIs ==
  ASSUME NEW S, NEW text \in Seq(S), NEW sum, IsSum(sum, text)
  PROVE  \A i \in 1 .. Len(text) + 1 : At(text, i) = sum[i - 1]
<1> SUFFICES ASSUME NEW i \in 1 .. Len(text) + 1 PROVE At(text, i) = sum[i - 1]
  OBVIOUS
<1>1. Len(text) \in Nat
  OBVIOUS
<1>2. i - 1 \in 0 .. Len(text)
  BY <1>1
<1> QED BY <1>2, BytesOfFront DEF At

\* No lexeme is empty.
LEMMA SumsIncrease ==
  ASSUME NEW text, Len(text) \in Nat, NEW sum, IsSum(sum, text)
  PROVE  \A i, j \in 0 .. Len(text) : i < j => sum[i] < sum[j]
<1> SUFFICES ASSUME NEW i \in 0 .. Len(text) PROVE \A j \in 0 .. Len(text) : i < j => sum[i] < sum[j]
  OBVIOUS
<1> DEFINE T == {j \in i .. Len(text) : i < j => sum[i] < sum[j]}
<1>1. i \in T
  OBVIOUS
<1>2. ASSUME NEW n \in i .. Len(text) - 1, n \in T PROVE n + 1 \in T
  <2>1. n + 1 \in 1 .. Len(text) /\ n + 1 - 1 = n /\ n \in 0 .. Len(text) /\ n + 1 \in i .. Len(text)
    OBVIOUS
  <2>2. sum[n + 1] = sum[n] + Width(text[n + 1]) /\ sum[n] \in Nat /\ sum[i] \in Nat
    BY <2>1 DEF IsSum
  <2>3. Width(text[n + 1]) \in Nat \ {0}
    BY WidthIs
  <2>4. i < n \/ i = n
    BY <2>1
  <2>5. sum[i] <= sum[n]
    BY <1>2, <2>2, <2>4
  <2>6. sum[i] < sum[n + 1]
    BY <2>2, <2>3, <2>5
  <2> QED BY <2>1, <2>6
<1> HIDE DEF T
<1>3. \A j \in i .. Len(text) : j \in T
  <2>1. i \in Int /\ Len(text) \in Int
    OBVIOUS
  <2> QED BY ONLY <1>1, <1>2, <2>1, IntervalInduction
<1> QED BY <1>3 DEF T

\* What is in a text, and where.
Marks(text) == {[at |-> At(text, i), lexeme |-> text[i]] : i \in DOMAIN text}
Shifted(marks, k) == {[at |-> m.at + k, lexeme |-> m.lexeme] : m \in marks}

\* What is joined to a text is moved by its bytes.
LEMMA Concatenated ==
  ASSUME NEW S, NEW s \in Seq(S), NEW t \in Seq(S)
  PROVE  /\ Bytes(s) \in Nat /\ Bytes(t) \in Nat
         /\ Bytes(s \o t) = Bytes(s) + Bytes(t)
         /\ Marks(s \o t) = Marks(s) \cup Shifted(Marks(t), Bytes(s))
<1> DEFINE u == s \o t
           m == Len(s)
           n == Len(t)
<1>1. PICK f : IsSum(f, s) /\ Bytes(s) = f[m]
  BY BytesAreASum
<1>2. PICK g : IsSum(g, t) /\ Bytes(t) = g[n]
  BY BytesAreASum
<1> DEFINE h == [k \in 0 .. m + n |-> IF k <= m THEN f[k] ELSE f[m] + g[k - m]]
<1>3. m \in Nat /\ n \in Nat /\ DOMAIN s = 1 .. m /\ DOMAIN t = 1 .. n
  OBVIOUS
<1>4. /\ u \in Seq(S) /\ Len(u) = m + n
      /\ \A i \in 1 .. m + n : u[i] = IF i <= m THEN s[i] ELSE t[i - m]
  BY ConcatProperties
<1>5. DOMAIN u = 1 .. m + n
  BY <1>4
<1> HIDE DEF u, m, n
<1>6. /\ f \in [0 .. m -> Nat] /\ f[0] = 0 /\ \A k \in 1 .. m : f[k] = f[k - 1] + Width(s[k])
      /\ g \in [0 .. n -> Nat] /\ g[0] = 0 /\ \A k \in 1 .. n : g[k] = g[k - 1] + Width(t[k])
  BY <1>1, <1>2 DEF IsSum, m, n
<1>7. /\ \A k \in 0 .. m : h[k] = f[k]
      /\ \A k \in 0 .. n : h[k + m] = f[m] + g[k]
  <2>1. \A k \in 0 .. m : h[k] = f[k]
    BY <1>3
  <2>2. ASSUME NEW k \in 0 .. n PROVE h[k + m] = f[m] + g[k]
    <3>1. f[m] \in Nat /\ k + m \in 0 .. m + n /\ k + m - m = k
      BY <1>3, <1>6
    <3>2. CASE k = 0
      <4>1. h[m] = f[m]
        BY <1>3, <2>1
      <4> HIDE DEF h
      <4> QED BY <1>3, <1>6, <3>1, <3>2, <4>1
    <3>3. CASE k # 0
      <4> DEFINE j == k + m
      <4>1. j \in 0 .. m + n /\ ~(j <= m) /\ j - m = k
        BY <1>3, <3>1, <3>3
      <4> HIDE DEF j
      <4>2. h[j] = f[m] + g[j - m]
        BY <4>1
      <4> QED BY <4>1, <4>2 DEF j
    <3> QED BY <3>2, <3>3
  <2> QED BY <2>1, <2>2
<1>8. h \in [0 .. m + n -> Nat]
  <2>1. ASSUME NEW k \in 0 .. m + n PROVE (IF k <= m THEN f[k] ELSE f[m] + g[k - m]) \in Nat
    <3>1. CASE k <= m
      <4>1. k \in 0 .. m
        BY <1>3, <3>1
      <4> QED BY <1>6, <3>1, <4>1
    <3>2. CASE ~(k <= m)
      <4>1. k - m \in 0 .. n /\ m \in 0 .. m
        BY <1>3, <3>2
      <4>2. g[k - m] \in Nat /\ f[m] \in Nat
        BY <1>6, <4>1
      <4> QED BY <3>2, <4>2
    <3> QED BY <3>1, <3>2
  <2> QED BY <2>1
<1> HIDE DEF h
<1>9. ASSUME NEW k \in 1 .. m + n PROVE h[k] = h[k - 1] + Width(u[k])
  <2>1. CASE k <= m
    <3>1. k \in 1 .. m /\ k \in 0 .. m /\ k - 1 \in 0 .. m
      BY <1>3, <2>1
    <3> QED BY <1>4, <1>6, <1>7, <2>1, <3>1
  <2>2. CASE ~(k <= m)
    <3> DEFINE j == k - m
    <3>1. j \in 1 .. n /\ j \in 0 .. n /\ j - 1 \in 0 .. n /\ j + m = k /\ j - 1 + m = k - 1
      BY <1>3, <2>2
    <3>2. u[k] = t[j]
      BY <1>4, <2>2
    <3> HIDE DEF j
    <3>3. h[k] = f[m] + g[j] /\ h[k - 1] = f[m] + g[j - 1]
      <4>1. h[j + m] = f[m] + g[j] /\ h[j - 1 + m] = f[m] + g[j - 1]
        BY <1>7, <3>1
      <4> QED BY <3>1, <4>1
    <3>4. f[m] \in Nat /\ g[j - 1] \in Nat /\ Width(u[k]) \in Nat /\ g[j] = g[j - 1] + Width(u[k])
      BY <1>3, <1>6, <3>1, <3>2, WidthIs
    <3> QED BY <3>3, <3>4
  <2> QED BY <2>1, <2>2
<1>10. IsSum(h, u)
  <2>1. h[0] = 0
    BY <1>3, <1>6, <1>7
  <2> QED BY <1>4, <1>8, <1>9, <2>1 DEF IsSum
<1>11. Bytes(u) = h[m + n] /\ Bytes(s) \in Nat /\ Bytes(t) \in Nat
  BY <1>1, <1>2, <1>4, <1>10, BytesOf DEF m, n
<1>12. h[m + n] = f[m] + g[n]
  <2>1. h[n + m] = f[m] + g[n]
    BY <1>3, <1>7
  <2> QED BY <1>3, <2>1
<1>13. Bytes(u) = Bytes(s) + Bytes(t)
  BY <1>1, <1>2, <1>11, <1>12
<1>14. /\ \A i \in 1 .. m : At(s, i) = f[i - 1] /\ At(u, i) = f[i - 1]
       /\ \A i \in 1 .. n : At(t, i) = g[i - 1] /\ At(u, i + m) = f[m] + g[i - 1]
  <2>1. \A i \in 1 .. m + 1 : At(s, i) = f[i - 1]
    BY <1>1, AtIs DEF m
  <2>2. \A i \in 1 .. n + 1 : At(t, i) = g[i - 1]
    BY <1>2, AtIs DEF n
  <2>3. \A i \in 1 .. m + n + 1 : At(u, i) = h[i - 1]
    <3>1. \A i \in 1 .. Len(u) + 1 : At(u, i) = h[i - 1]
      BY ONLY <1>4, <1>10, AtIs
    <3>2. Len(u) = m + n
      BY <1>4
    <3> QED BY ONLY <3>1, <3>2
  <2>4. ASSUME NEW i \in 1 .. m PROVE At(s, i) = f[i - 1] /\ At(u, i) = f[i - 1]
    <3>1. i \in 1 .. m + 1 /\ i \in 1 .. m + n + 1 /\ i - 1 \in 0 .. m
      BY <1>3
    <3> QED BY <1>4, <1>7, <2>1, <2>3, <3>1
  <2>5. ASSUME NEW i \in 1 .. n PROVE At(t, i) = g[i - 1] /\ At(u, i + m) = f[m] + g[i - 1]
    <3>1. i \in 1 .. n + 1 /\ i + m \in 1 .. m + n + 1 /\ i - 1 \in 0 .. n /\ (i + m) - 1 = i - 1 + m
      BY <1>3
    <3>2. At(u, i + m) = h[(i + m) - 1]
      BY ONLY <2>3, <3>1
    <3>3. h[i - 1 + m] = f[m] + g[i - 1]
      BY <1>7, <3>1
    <3> QED BY <2>2, <3>1, <3>2, <3>3
  <2> QED BY <2>4, <2>5
<1>15. ASSUME NEW x PROVE x \in Marks(u) <=> x \in Marks(s) \cup Shifted(Marks(t), Bytes(s))
  <2>1. x \in Marks(u) <=> \E i \in 1 .. m + n : x = [at |-> At(u, i), lexeme |-> u[i]]
    BY <1>5 DEF Marks
  <2>2. x \in Marks(s) <=> \E i \in 1 .. m : x = [at |-> At(s, i), lexeme |-> s[i]]
    BY <1>3 DEF Marks
  <2>3. x \in Shifted(Marks(t), Bytes(s)) <=>
          \E i \in 1 .. n : x = [at |-> At(t, i) + Bytes(s), lexeme |-> t[i]]
    <3>1. x \in Shifted(Marks(t), Bytes(s)) <=>
            \E y \in Marks(t) : x = [at |-> y.at + Bytes(s), lexeme |-> y.lexeme]
      BY Zenon DEF Shifted
    <3>2. \A y : y \in Marks(t) <=> \E i \in 1 .. n : y = [at |-> At(t, i), lexeme |-> t[i]]
      BY <1>3 DEF Marks
    <3>3. ASSUME NEW y, NEW i, y = [at |-> At(t, i), lexeme |-> t[i]]
          PROVE  [at |-> y.at + Bytes(s), lexeme |-> y.lexeme] =
                   [at |-> At(t, i) + Bytes(s), lexeme |-> t[i]]
      BY <3>3
    <3> QED BY ONLY <3>1, <3>2, <3>3, Zenon
  <2>4. \A i \in 1 .. m : i \in 1 .. m + n /\ At(u, i) = At(s, i) /\ u[i] = s[i]
    BY <1>3, <1>4, <1>14
  <2>5. ASSUME NEW i \in 1 .. n
        PROVE  i + m \in 1 .. m + n /\ At(u, i + m) = At(t, i) + Bytes(s) /\ u[i + m] = t[i]
    <3>1. i + m \in 1 .. m + n /\ ~(i + m <= m) /\ i + m - m = i /\ i - 1 \in 0 .. n /\ m \in 0 .. m
      BY <1>3
    <3>2. u[i + m] = t[i]
      BY <1>4, <3>1
    <3>3. g[i - 1] \in Nat /\ f[m] \in Nat
      BY <1>6, <3>1
    <3> QED BY <1>1, <1>14, <3>1, <3>2, <3>3
  <2>6. \A i \in 1 .. m + n : i \in 1 .. m \/ \E k \in 1 .. n : i = k + m
    <3> SUFFICES ASSUME NEW i \in 1 .. m + n, i \notin 1 .. m PROVE \E k \in 1 .. n : i = k + m
      OBVIOUS
    <3>1. i - m \in 1 .. n /\ i = i - m + m
      BY <1>3
    <3> QED BY <3>1
  <2> QED BY <2>1, <2>2, <2>3, <2>4, <2>5, <2>6
<1>16. Marks(u) = Marks(s) \cup Shifted(Marks(t), Bytes(s))
  BY <1>15
<1> QED BY <1>11, <1>13, <1>16 DEF u

\* One lexeme, and none.
LEMMA Single ==
  ASSUME NEW S, NEW x \in S
  PROVE  /\ Bytes(<<x>>) = Width(x)
         /\ Marks(<<x>>) = {[at |-> 0, lexeme |-> x]}
         /\ Bytes(<<>>) = 0 /\ Marks(<<>>) = {}
<1>1. /\ <<x>> \in Seq(S) /\ Len(<<x>>) = 1 /\ <<x>>[1] = x
      /\ <<>> \in Seq(S) /\ Len(<<>>) = 0
      /\ DOMAIN <<x>> = {1} /\ DOMAIN <<>> = {}
  OBVIOUS
<1>2. PICK f : IsSum(f, <<x>>) /\ Bytes(<<x>>) = f[1]
  BY <1>1, BytesAreASum
<1>3. f[0] = 0 /\ f[1] = f[0] + Width(x)
  BY <1>1, <1>2 DEF IsSum
<1>4. At(<<x>>, 1) = f[0]
  <2>1. \A i \in 1 .. Len(<<x>>) + 1 : At(<<x>>, i) = f[i - 1]
    BY ONLY <1>1, <1>2, AtIs
  <2> QED BY <1>1, <2>1
<1>5. Marks(<<x>>) = {[at |-> 0, lexeme |-> x]}
  BY <1>1, <1>3, <1>4 DEF Marks
<1>6. PICK g : IsSum(g, <<>>) /\ Bytes(<<>>) = g[0]
  BY <1>1, BytesAreASum
<1>7. Bytes(<<>>) = 0
  BY <1>6 DEF IsSum
<1>8. Marks(<<>>) = {}
  BY <1>1 DEF Marks
<1> QED BY <1>2, <1>3, <1>5, <1>7, <1>8, WidthIs

-----------------------------------------------------------------------------
(***************************************************************************)
(* Lines.                                                                  *)
(***************************************************************************)
LEMMA MinIs ==
  ASSUME NEW T, T \subseteq Nat, NEW z \in T, \A y \in T : z <= y
  PROVE  Min(T) = z
<1>1. z \in Nat /\ \A y \in T : y \in Nat
  OBVIOUS
<1>2. \A x \in T : (\A y \in T : x <= y) => x = z
  BY <1>1
<1> QED BY <1>2 DEF Min

\* The starts of lines, of which there are J.
LineStarts(text) == {j \in DOMAIN text : j = 1 \/ text[j - 1] = "LF"}

\* A line ends at the first end after its start, or with the text.
LEMMA LinesAre ==
  ASSUME NEW S, NEW text \in Seq(S)
  PROVE  /\ LinesOf(text) = {Line(text, i, LineEnd(text, i)) : i \in LineStarts(text)}
         /\ \A i \in LineStarts(text) :
              /\ i \in 1 .. Len(text)
              /\ LineEnd(text, i) \in i .. Len(text) + 1
              /\ \A k \in i .. LineEnd(text, i) - 1 : text[k] # "LF"
              /\ LineEnd(text, i) = Len(text) + 1 \/ text[LineEnd(text, i)] = "LF"
<1> DEFINE n == Len(text)
<1>1. n \in Nat /\ DOMAIN text = 1 .. n
  OBVIOUS
<1> HIDE DEF n
<1>2. LinesOf(text) = {Line(text, i, LineEnd(text, i)) : i \in LineStarts(text)}
  BY DEF LinesOf, LineStarts
<1>3. ASSUME NEW i \in LineStarts(text)
      PROVE  /\ i \in 1 .. n
             /\ LineEnd(text, i) \in i .. n + 1
             /\ \A k \in i .. LineEnd(text, i) - 1 : text[k] # "LF"
             /\ LineEnd(text, i) = n + 1 \/ text[LineEnd(text, i)] = "LF"
  <2> DEFINE K == {k \in i .. n + 1 - 1 : text[k] = "LF"}
             to == LineEnd(text, i)
  <2>1. i \in 1 .. n
    BY <1>1 DEF LineStarts
  <2>2. to = OrEnd(Least(K), n + 1)
    BY DEF LineEnd, IndexOf, n
  <2>3. K \subseteq Nat /\ K = {k \in i .. n : text[k] = "LF"}
    BY <1>1, <2>1
  <2> HIDE DEF to
  <2>4. CASE K = {}
    <3>1. to = n + 1
      BY <2>2, <2>4 DEF OrEnd, Least
    <3>2. to \in i .. n + 1 /\ \A k \in i .. to - 1 : k \in i .. n
      BY <1>1, <2>1, <3>1
    <3> QED BY <2>1, <2>3, <2>4, <3>1, <3>2 DEF to
  <2>5. CASE K # {}
    <3> HIDE DEF K
    <3>1. PICK z \in K : \A y \in K : z <= y
      BY <2>3, <2>5, SmallestOf
    <3>2. Min(K) = z
      BY <2>3, <3>1, MinIs
    <3>3. z \in i .. n /\ text[z] = "LF" /\ z # 0
      BY <2>1, <2>3, <3>1
    <3>4. to = z
      BY <2>2, <2>5, <3>2, <3>3 DEF OrEnd, Least
    <3>5. \A k \in i .. z - 1 : text[k] # "LF"
      <4> SUFFICES ASSUME NEW k \in i .. z - 1, text[k] = "LF" PROVE FALSE OBVIOUS
      <4>1. k \in i .. n /\ ~(z <= k)
        BY <1>1, <2>1, <3>3
      <4> QED BY <2>3, <3>1, <4>1
    <3>6. z \in i .. n + 1
      BY <1>1, <3>3
    <3> QED BY <2>1, <3>3, <3>4, <3>5, <3>6 DEF to
  <2> QED BY <2>4, <2>5
<1> QED BY <1>2, <1>3 DEF n

\* The bytes where a text has the ends of its lines.
Ends(text) == {m.at : m \in {k \in Marks(text) : k.lexeme = "LF"}}

\* Lines by the bytes they start at, in a text of n bytes.
Starts(ends, n) == {s \in {0} \cup {e + 1 : e \in ends} : s < n}
Lengths(ends, n) ==
  {[line |-> Cardinality({x \in Starts(ends, n) : x < s}),
    bytes |-> Min({e \in ends \cup {n} : e >= s}) - s] : s \in Starts(ends, n)}

LEMMA EndsAre ==
  ASSUME NEW S, NEW text \in Seq(S)
  PROVE  \A x : x \in Ends(text) <=> \E i \in DOMAIN text : text[i] = "LF" /\ x = At(text, i)
<1> SUFFICES ASSUME NEW x
             PROVE  x \in Ends(text) <=> \E i \in DOMAIN text : text[i] = "LF" /\ x = At(text, i)
  OBVIOUS
<1>1. x \in Ends(text) <=> \E m \in Marks(text) : m.lexeme = "LF" /\ x = m.at
  BY Zenon DEF Ends
<1>2. \A m : m \in Marks(text) <=> \E i \in DOMAIN text : m = [at |-> At(text, i), lexeme |-> text[i]]
  BY Zenon DEF Marks
<1>3. ASSUME NEW i, NEW m, m = [at |-> At(text, i), lexeme |-> text[i]]
      PROVE  m.at = At(text, i) /\ m.lexeme = text[i]
  BY <1>3
<1>4. ASSUME NEW m \in Marks(text), m.lexeme = "LF", x = m.at
      PROVE  \E i \in DOMAIN text : text[i] = "LF" /\ x = At(text, i)
  <2>1. PICK i \in DOMAIN text : m = [at |-> At(text, i), lexeme |-> text[i]]
    BY <1>2
  <2>2. m.at = At(text, i) /\ m.lexeme = text[i]
    BY ONLY <1>3, <2>1
  <2> QED BY <1>4, <2>2, Zenon
<1>5. ASSUME NEW i \in DOMAIN text, text[i] = "LF", x = At(text, i)
      PROVE  \E m \in Marks(text) : m.lexeme = "LF" /\ x = m.at
  <2> DEFINE m == [at |-> At(text, i), lexeme |-> text[i]]
  <2>1. m \in Marks(text) /\ m.at = At(text, i) /\ m.lexeme = text[i]
    BY <1>2
  <2> HIDE DEF m
  <2> QED BY <1>5, <2>1, Zenon
<1> QED BY ONLY <1>1, <1>4, <1>5, Zenon

LEMMA BytesAt ==
  ASSUME NEW S, NEW text \in Seq(S)
  PROVE  /\ At(text, 1) = 0 /\ At(text, Len(text) + 1) = Bytes(text)
         /\ \A i \in 1 .. Len(text) + 1 : At(text, i) \in Nat
         /\ \A i \in 1 .. Len(text) : At(text, i + 1) = At(text, i) + Width(text[i])
         /\ \A i, j \in 1 .. Len(text) + 1 : i < j => At(text, i) < At(text, j)
<1> DEFINE n == Len(text)
<1>1. n \in Nat
  OBVIOUS
<1>2. PICK sum : IsSum(sum, text) /\ Bytes(text) = sum[n]
  BY BytesAreASum
<1>3. \A i \in 1 .. n + 1 : At(text, i) = sum[i - 1]
  BY <1>2, AtIs
<1>4. \A i, j \in 0 .. n : i < j => sum[i] < sum[j]
  BY <1>1, <1>2, SumsIncrease
<1>5. /\ sum \in [0 .. n -> Nat] /\ sum[0] = 0
      /\ \A i \in 1 .. n : sum[i] = sum[i - 1] + Width(text[i])
  BY <1>2 DEF IsSum
<1> HIDE DEF n
<1>6. At(text, 1) = 0 /\ At(text, n + 1) = Bytes(text)
  <2>1. 1 \in 1 .. n + 1 /\ n + 1 \in 1 .. n + 1 /\ (n + 1) - 1 = n /\ 1 - 1 = 0
    BY <1>1
  <2>2. At(text, 1) = sum[1 - 1] /\ At(text, n + 1) = sum[(n + 1) - 1]
    BY ONLY <1>3, <2>1
  <2> QED BY <1>2, <1>5, <2>1, <2>2
<1>7. ASSUME NEW i \in 1 .. n + 1 PROVE At(text, i) \in Nat
  <2>1. i - 1 \in 0 .. n
    BY <1>1
  <2> QED BY <1>3, <1>5, <2>1
<1>8. ASSUME NEW i \in 1 .. n PROVE At(text, i + 1) = At(text, i) + Width(text[i])
  <2>1. i + 1 \in 1 .. n + 1 /\ i \in 1 .. n + 1 /\ (i + 1) - 1 = i
    BY <1>1
  <2>2. At(text, i + 1) = sum[(i + 1) - 1] /\ At(text, i) = sum[i - 1]
    BY ONLY <1>3, <2>1
  <2> QED BY <1>5, <2>1, <2>2
<1>9. ASSUME NEW i \in 1 .. n + 1, NEW j \in 1 .. n + 1, i < j PROVE At(text, i) < At(text, j)
  <2>1. i - 1 \in 0 .. n /\ j - 1 \in 0 .. n /\ i - 1 < j - 1
    BY <1>1, <1>9
  <2>2. sum[i - 1] < sum[j - 1]
    BY <1>4, <2>1
  <2> QED BY <1>3, <2>2
<1> QED BY <1>6, <1>7, <1>8, <1>9 DEF n

\* A piece has the bytes between its places.
LEMMA BytesBetween ==
  ASSUME NEW S, NEW text \in Seq(S), NEW i \in 1 .. Len(text) + 1, NEW j \in i .. Len(text) + 1
  PROVE  /\ SubSeq(text, i, j - 1) \in Seq(S)
         /\ SubSeq(text, 1, i - 1) \in Seq(S)
         /\ SubSeq(text, 1, i - 1) \o SubSeq(text, i, j - 1) = SubSeq(text, 1, j - 1)
         /\ Bytes(SubSeq(text, i, j - 1)) = At(text, j) - At(text, i)
<1> DEFINE n == Len(text)
           a == SubSeq(text, 1, i - 1)
           b == SubSeq(text, i, j - 1)
<1>1. n \in Nat /\ \A k \in 1 .. n : text[k] \in S
  OBVIOUS
<1> HIDE DEF n
<1>2. i \in 1 .. n + 1 /\ j \in i .. n + 1 /\ 1 \in Int /\ i - 1 \in Int /\ i \in Int /\ j - 1 \in Int
  BY <1>1 DEF n
<1>3. a \in Seq(S)
  <2>1. \A k \in 1 .. i - 1 : text[k] \in S
    BY <1>1, <1>2
  <2> QED BY <1>2, <2>1, SubSeqProperties
<1>4. b \in Seq(S)
  <2>1. \A k \in i .. j - 1 : text[k] \in S
    BY <1>1, <1>2
  <2> QED BY <1>2, <2>1, SubSeqProperties
<1>5. a \o b = SubSeq(text, 1, j - 1)
  <2> DEFINE k == i - 1
             l == j - 1
  <2>1. 1 \in 1 .. n + 1 /\ k \in 1 - 1 .. n /\ l \in k .. n /\ k + 1 = i
    BY <1>1, <1>2
  <2> HIDE DEF k, l
  <2>2. SubSeq(text, 1, k) \o SubSeq(text, k + 1, l) = SubSeq(text, 1, l)
    BY <2>1, ConcatAdjacentSubSeq DEF n
  <2> QED BY <2>1, <2>2 DEF k, l
<1> HIDE DEF a, b
<1>6. Bytes(a \o b) = Bytes(a) + Bytes(b) /\ Bytes(a) \in Nat /\ Bytes(b) \in Nat
  BY <1>3, <1>4, Concatenated
<1>7. Bytes(a) = At(text, i) /\ Bytes(a \o b) = At(text, j)
  BY <1>5 DEF At, a
<1>8. Bytes(b) = At(text, j) - At(text, i)
  BY <1>6, <1>7
<1> QED BY <1>3, <1>4, <1>5, <1>8 DEF a, b

\* Lines start where the text does and after its ends, if bytes follow.
LEMMA StartsAre ==
  ASSUME NEW S, NEW text \in Seq(S)
  PROVE  \A x : x \in Starts(Ends(text), Bytes(text)) <=>
                  \E i \in LineStarts(text) : x = At(text, i)
<1> DEFINE n == Len(text)
           N == Bytes(text)
<1>1. n \in Nat /\ DOMAIN text = 1 .. n
  OBVIOUS
<1>2. /\ At(text, 1) = 0 /\ At(text, n + 1) = N
      /\ \A i \in 1 .. n + 1 : At(text, i) \in Nat
      /\ \A i \in 1 .. n : At(text, i + 1) = At(text, i) + Width(text[i])
      /\ \A i, j \in 1 .. n + 1 : i < j => At(text, i) < At(text, j)
  BY BytesAt
<1>3. Width("LF") = 1
  BY DEF Width, Keywords
<1>4. \A x : x \in Ends(text) <=> \E i \in 1 .. n : text[i] = "LF" /\ x = At(text, i)
  BY <1>1, EndsAre
<1> HIDE DEF n, N
<1>5. ASSUME NEW i \in LineStarts(text) PROVE At(text, i) \in Starts(Ends(text), N)
  <2>1. i \in 1 .. n /\ i \in 1 .. n + 1 /\ n + 1 \in 1 .. n + 1 /\ i < n + 1
    BY <1>1 DEF LineStarts
  <2>2. At(text, i) < N
    BY <1>2, <2>1
  <2>3. CASE i = 1
    BY <1>2, <2>2, <2>3 DEF Starts
  <2>4. CASE i # 1
    <3>1. i - 1 \in 1 .. n /\ (i - 1) + 1 = i /\ text[i - 1] = "LF"
      <4>1. i - 1 \in 1 .. n /\ (i - 1) + 1 = i
        BY <1>1, <2>1, <2>4
      <4>2. text[i - 1] = "LF"
        BY <2>4, Zenon DEF LineStarts
      <4> QED BY <4>1, <4>2
    <3>2. At(text, i) = At(text, i - 1) + 1
      <4>1. At(text, (i - 1) + 1) = At(text, i - 1) + Width(text[i - 1])
        BY <1>2, <3>1
      <4> QED BY <1>3, <3>1, <4>1
    <3>3. At(text, i - 1) \in Ends(text)
      BY <1>4, <3>1
    <3> QED BY <2>2, <3>2, <3>3 DEF Starts
  <2> QED BY <2>3, <2>4
<1>6. ASSUME NEW x \in Starts(Ends(text), N) PROVE \E i \in LineStarts(text) : x = At(text, i)
  <2>1. x < N /\ (x = 0 \/ \E e \in Ends(text) : x = e + 1)
    BY DEF Starts
  <2>2. CASE x = 0
    <3>1. n # 0
      <4> SUFFICES ASSUME n = 0 PROVE FALSE OBVIOUS
      <4>1. N = 0
        BY <1>2
      <4> QED BY <2>1, <2>2, <4>1
    <3>2. 1 \in LineStarts(text)
      BY <1>1, <3>1 DEF LineStarts
    <3> QED BY <1>2, <2>2, <3>2
  <2>3. CASE \E e \in Ends(text) : x = e + 1
    <3>1. PICK k \in 1 .. n : text[k] = "LF" /\ x = At(text, k) + 1
      BY <1>4, <2>3
    <3>2. x = At(text, k + 1)
      BY <1>2, <1>3, <3>1
    <3>3. k # n
      BY <1>2, <2>1, <3>2
    <3>4. k + 1 \in 1 .. n /\ (k + 1) - 1 = k
      BY <1>1, <3>3
    <3>5. k + 1 \in LineStarts(text)
      BY <1>1, <3>1, <3>4 DEF LineStarts
    <3> QED BY <3>2, <3>5
  <2> QED BY <2>1, <2>2, <2>3
<1> QED BY <1>5, <1>6 DEF N

LEMMA SameSize ==
  ASSUME NEW D, IsFiniteSet(D), NEW R, NEW f \in [D -> R],
         \A a, b \in D : f[a] = f[b] => a = b,
         \A r \in R : \E a \in D : f[a] = r
  PROVE  Cardinality(R) = Cardinality(D)
<1>1. f \in Bijection(D, R)
  BY DEF Bijection, Injection, Surjection, IsInjective
<1>2. ExistsBijection(D, R)
  BY <1>1 DEF ExistsBijection
<1> QED BY <1>2, FS_Bijection

\* Lines are numbered alike by their indices and by their bytes.
LEMMA EarlierLines ==
  ASSUME NEW S, NEW text \in Seq(S), NEW i \in LineStarts(text)
  PROVE  /\ Cardinality({k \in LinesOf(text) : k.from < i}) =
              Cardinality({j \in LineStarts(text) : j < i})
         /\ Cardinality({x \in Starts(Ends(text), Bytes(text)) : x < At(text, i)}) =
              Cardinality({j \in LineStarts(text) : j < i})
<1> DEFINE n == Len(text)
           D == {j \in LineStarts(text) : j < i}
           P == {k \in LinesOf(text) : k.from < i}
           Q == {x \in Starts(Ends(text), Bytes(text)) : x < At(text, i)}
           L(j) == Line(text, j, LineEnd(text, j))
<1>1. n \in Nat /\ DOMAIN text = 1 .. n
  OBVIOUS
<1>2. LineStarts(text) \subseteq 1 .. n
  BY <1>1 DEF LineStarts
<1>3. IsFiniteSet(D)
  <2>1. D \subseteq 1 .. n
    BY <1>2
  <2>2. IsFiniteSet(1 .. n)
    BY <1>1, FS_Interval, 1 \in Int
  <2> QED BY <2>1, <2>2, FS_Subset
<1>4. \A j : L(j).from = j
  BY DEF Line
<1>5. \A k : k \in LinesOf(text) <=> \E j \in LineStarts(text) : k = L(j)
  BY LinesAre
<1> HIDE DEF L, n
<1>6. Cardinality(P) = Cardinality(D)
  <2> DEFINE f == [j \in D |-> L(j)]
  <2>1. f \in [D -> P]
    BY <1>4, <1>5
  <2>2. \A a, b \in D : f[a] = f[b] => a = b
    BY <1>4
  <2>3. \A r \in P : \E a \in D : f[a] = r
    BY <1>4, <1>5
  <2> HIDE DEF f, D, P
  <2> QED BY <1>3, <2>1, <2>2, <2>3, SameSize
<1>7. Cardinality(Q) = Cardinality(D)
  <2> DEFINE f == [j \in D |-> At(text, j)]
  <2>1. \A x : x \in Starts(Ends(text), Bytes(text)) <=> \E j \in LineStarts(text) : x = At(text, j)
    BY StartsAre
  <2>2. /\ \A j, k \in 1 .. n + 1 : j < k => At(text, j) < At(text, k)
        /\ \A j \in 1 .. n + 1 : At(text, j) \in Nat
    BY BytesAt DEF n
  <2>3. \A j \in LineStarts(text) : j \in 1 .. n + 1 /\ j \in Int
    BY <1>1, <1>2
  <2>4. ASSUME NEW j \in LineStarts(text), NEW k \in LineStarts(text)
        PROVE  At(text, j) < At(text, k) <=> j < k
    <3>1. j < k \/ j = k \/ k < j
      BY <2>3
    <3>2. At(text, j) \in Nat /\ At(text, k) \in Nat
      BY <2>2, <2>3
    <3>3. j < k => At(text, j) < At(text, k)
      BY <2>2, <2>3
    <3>4. k < j => At(text, k) < At(text, j)
      BY <2>2, <2>3
    <3>5. j \in Int /\ k \in Int
      BY <2>3
    <3> QED BY <3>1, <3>2, <3>3, <3>4, <3>5
  <2>5. f \in [D -> Q]
    BY <2>1, <2>4
  <2>6. ASSUME NEW a \in D, NEW b \in D, f[a] = f[b] PROVE a = b
    <3>1. a \in LineStarts(text) /\ b \in LineStarts(text) /\ At(text, a) = At(text, b)
      BY <2>6
    <3>2. ~(a < b) /\ ~(b < a)
      <4>1. At(text, a) \in Nat
        BY <2>2, <2>3, <3>1
      <4> QED BY <2>4, <3>1, <4>1
    <3> QED BY <2>3, <3>1, <3>2
  <2>7. \A r \in Q : \E a \in D : f[a] = r
    BY <2>1, <2>4
  <2> HIDE DEF f, D, Q
  <2> QED BY <1>3, <2>5, <2>6, <2>7, SameSize
<1> QED BY <1>6, <1>7

\* The byte that ends a line is the next end, or that of the text.
LEMMA NextEnd ==
  ASSUME NEW S, NEW text \in Seq(S), NEW i \in LineStarts(text)
  PROVE  Min({e \in Ends(text) \cup {Bytes(text)} : e >= At(text, i)}) = At(text, LineEnd(text, i))
<1> DEFINE n == Len(text)
           to == LineEnd(text, i)
           T == {e \in Ends(text) \cup {Bytes(text)} : e >= At(text, i)}
<1>1. n \in Nat /\ DOMAIN text = 1 .. n
  OBVIOUS
<1>2. /\ i \in 1 .. n /\ to \in i .. n + 1
      /\ \A k \in i .. to - 1 : text[k] # "LF"
      /\ to = n + 1 \/ text[to] = "LF"
  BY LinesAre
<1>3. /\ At(text, n + 1) = Bytes(text)
      /\ \A k \in 1 .. n + 1 : At(text, k) \in Nat
      /\ \A j, k \in 1 .. n + 1 : j < k => At(text, j) < At(text, k)
  BY BytesAt
<1>4. \A x : x \in Ends(text) <=> \E k \in 1 .. n : text[k] = "LF" /\ x = At(text, k)
  BY <1>1, EndsAre
<1> HIDE DEF n, to
<1>5. i \in 1 .. n + 1 /\ to \in 1 .. n + 1 /\ n + 1 \in 1 .. n + 1 /\ i <= to /\ to <= n + 1
  BY <1>1, <1>2
<1>6. ASSUME NEW j \in 1 .. n + 1, NEW k \in 1 .. n + 1, j <= k PROVE At(text, j) <= At(text, k)
  <2>1. j < k \/ j = k
    BY <1>6
  <2>2. At(text, j) \in Nat /\ At(text, k) \in Nat
    BY <1>3
  <2> QED BY <1>3, <2>1, <2>2
<1>7. At(text, to) \in T
  <2>1. At(text, to) >= At(text, i)
    <3>1. At(text, i) <= At(text, to) /\ At(text, i) \in Nat /\ At(text, to) \in Nat
      BY <1>3, <1>5, <1>6
    <3> QED BY <3>1
  <2>2. CASE to = n + 1
    BY <1>3, <2>1, <2>2
  <2>3. CASE to # n + 1
    <3>1. to \in 1 .. n /\ text[to] = "LF"
      BY <1>1, <1>2, <2>3
    <3> QED BY <1>4, <2>1, <3>1
  <2> QED BY <2>2, <2>3
<1>8. ASSUME NEW e \in T PROVE e \in Nat /\ At(text, to) <= e
  <2>1. CASE e = Bytes(text)
    BY <1>3, <1>5, <1>6, <2>1
  <2>2. CASE e \in Ends(text)
    <3>1. PICK k \in 1 .. n : text[k] = "LF" /\ e = At(text, k)
      BY <1>4, <2>2
    <3>2. k \in 1 .. n + 1 /\ At(text, k) \in Nat
      BY <1>1, <1>3
    <3>3. ~(k < i)
      <4> SUFFICES ASSUME k < i PROVE FALSE OBVIOUS
      <4>1. At(text, k) < At(text, i) /\ At(text, i) \in Nat
        BY <1>3, <1>5, <3>2
      <4>2. e >= At(text, i)
        OBVIOUS
      <4> QED BY <3>1, <3>2, <4>1, <4>2
    <3>4. k \notin i .. to - 1
      BY <1>2, <3>1
    <3>5. to <= k
      BY <1>2, <1>5, <3>3, <3>4
    <3> QED BY <1>5, <1>6, <3>1, <3>2, <3>5
  <2> QED BY <2>1, <2>2
<1> HIDE DEF T
<1>9. T \subseteq Nat /\ \A e \in T : At(text, to) <= e
  BY <1>8
<1>10. Min(T) = At(text, to)
  BY <1>7, <1>9, MinIs
<1> QED BY <1>10 DEF T, to

\* The lines of a text and their lengths follow from the bytes of their ends.
LEMMA LinesByBytes ==
  ASSUME NEW S, NEW text \in Seq(S)
  PROVE  LineLengths(text) = Lengths(Ends(text), Bytes(text))
<1> DEFINE n == Len(text)
           Starting == Starts(Ends(text), Bytes(text))
           Row(i) == [line |-> Cardinality({j \in LineStarts(text) : j < i}),
                      bytes |-> At(text, LineEnd(text, i)) - At(text, i)]
           Length(line) == [line |-> Cardinality({k \in LinesOf(text) : k.from < line.from}),
                            bytes |-> Bytes(SubSeq(text, line.from, line.to - 1))]
           LengthAt(s) == [line |-> Cardinality({x \in Starting : x < s}),
                           bytes |-> Min({e \in Ends(text) \cup {Bytes(text)} : e >= s}) - s]
<1>1. /\ LinesOf(text) = {Line(text, i, LineEnd(text, i)) : i \in LineStarts(text)}
      /\ \A i \in LineStarts(text) : i \in 1 .. n /\ LineEnd(text, i) \in i .. n + 1
  BY LinesAre
<1>2. n \in Nat
  OBVIOUS
<1>3. ASSUME NEW i \in LineStarts(text)
      PROVE  Length(Line(text, i, LineEnd(text, i))) = Row(i) /\ LengthAt(At(text, i)) = Row(i)
  <2>1. Line(text, i, LineEnd(text, i)).from = i /\ Line(text, i, LineEnd(text, i)).to = LineEnd(text, i)
    BY DEF Line
  <2>2. i \in 1 .. n + 1 /\ LineEnd(text, i) \in i .. n + 1
    BY <1>1, <1>2
  <2>3. Bytes(SubSeq(text, i, LineEnd(text, i) - 1)) = At(text, LineEnd(text, i)) - At(text, i)
    BY <2>2, BytesBetween
  <2> QED BY <2>1, <2>3, EarlierLines, NextEnd
<1>4. LineLengths(text) = {Length(line) : line \in LinesOf(text)}
  BY DEF LineLengths
<1>5. Lengths(Ends(text), Bytes(text)) = {LengthAt(s) : s \in Starting}
  BY DEF Lengths
<1>6. Starting = {At(text, i) : i \in LineStarts(text)}
  BY StartsAre
<1> HIDE DEF Length, LengthAt, Row, Starting
<1>7. LineLengths(text) = {Row(i) : i \in LineStarts(text)}
  BY <1>1, <1>3, <1>4
<1>8. Lengths(Ends(text), Bytes(text)) = {Row(i) : i \in LineStarts(text)}
  BY <1>3, <1>5, <1>6
<1> QED BY <1>7, <1>8

-----------------------------------------------------------------------------
(***************************************************************************)
(* What a mask keeps: the bytes of the text, those of the ends of its      *)
(* lines, and the places of what it shows.                                 *)
(***************************************************************************)
SameLines(a, b) == Bytes(b) = Bytes(a) /\ Ends(b) = Ends(a)
Hides(a, b) == SameLines(a, b) /\ Places(b) \subseteq Places(a)

LEMMA PlacesAre ==
  ASSUME NEW text
  PROVE  Places(text) = {m \in Marks(text) : m.lexeme \notin Blanks}
<1> DEFINE M(i) == [at |-> At(text, i), lexeme |-> text[i]]
<1>1. \A i : M(i).lexeme = text[i]
  OBVIOUS
<1>2. Places(text) = {M(i) : i \in {j \in DOMAIN text : text[j] \notin Blanks}}
  BY DEF Places, At
<1>3. Marks(text) = {M(i) : i \in DOMAIN text}
  BY DEF Marks
<1> HIDE DEF M
<1> QED BY <1>1, <1>2, <1>3

LEMMA EndsOfMarks ==
  ASSUME NEW text
  PROVE  \A x : x \in Ends(text) <=> \E m \in Marks(text) : m.lexeme = "LF" /\ x = m.at
  BY Zenon DEF Ends

\* What a text is joined with is shifted by the text.
LEMMA PartsJoined ==
  ASSUME NEW S, NEW s \in Seq(S), NEW t \in Seq(S)
  PROVE  /\ \A x : x \in Ends(s \o t) <=> x \in Ends(s) \/ \E e \in Ends(t) : x = e + Bytes(s)
         /\ \A x : x \in Places(s \o t) <=>
              \/ x \in Places(s)
              \/ \E p \in Places(t) : x = [at |-> p.at + Bytes(s), lexeme |-> p.lexeme]
<1> DEFINE Moved(p) == [at |-> p.at + Bytes(s), lexeme |-> p.lexeme]
<1>1. Marks(s \o t) = Marks(s) \cup Shifted(Marks(t), Bytes(s))
  BY Concatenated
<1>2. \A p : Moved(p).at = p.at + Bytes(s) /\ Moved(p).lexeme = p.lexeme
  OBVIOUS
<1>3. Shifted(Marks(t), Bytes(s)) = {Moved(p) : p \in Marks(t)}
  BY DEF Shifted
<1> HIDE DEF Moved
<1>4. \A x : x \in Marks(s \o t) <=> x \in Marks(s) \/ \E p \in Marks(t) : x = Moved(p)
  BY <1>1, <1>3
<1>5. \A x : x \in Ends(s \o t) <=> x \in Ends(s) \/ \E e \in Ends(t) : x = e + Bytes(s)
  <2>1. ASSUME NEW x \in Ends(s \o t) PROVE x \in Ends(s) \/ \E e \in Ends(t) : x = e + Bytes(s)
    <3>1. PICK m \in Marks(s \o t) : m.lexeme = "LF" /\ x = m.at
      BY EndsOfMarks
    <3>2. CASE m \in Marks(s)
      BY <3>1, <3>2, EndsOfMarks
    <3>3. CASE \E p \in Marks(t) : m = Moved(p)
      <4>1. PICK p \in Marks(t) : m = Moved(p)
        BY <3>3
      <4>2. p.lexeme = "LF" /\ x = p.at + Bytes(s)
        BY <1>2, <3>1, <4>1
      <4>3. p.at \in Ends(t)
        BY <4>2, EndsOfMarks
      <4> QED BY <4>2, <4>3
    <3> QED BY <1>4, <3>2, <3>3
  <2>2. ASSUME NEW x \in Ends(s) PROVE x \in Ends(s \o t)
    BY <1>4, EndsOfMarks
  <2>3. ASSUME NEW e \in Ends(t) PROVE e + Bytes(s) \in Ends(s \o t)
    <3>1. PICK p \in Marks(t) : p.lexeme = "LF" /\ e = p.at
      BY EndsOfMarks
    <3>2. Moved(p) \in Marks(s \o t) /\ Moved(p).lexeme = "LF" /\ Moved(p).at = e + Bytes(s)
      BY <1>2, <1>4, <3>1
    <3> QED BY <3>2, EndsOfMarks
  <2> QED BY <2>1, <2>2, <2>3
<1>6. \A x : x \in Places(s \o t) <=> x \in Places(s) \/ \E p \in Places(t) : x = Moved(p)
  <2>1. /\ Places(s \o t) = {m \in Marks(s \o t) : m.lexeme \notin Blanks}
        /\ Places(s) = {m \in Marks(s) : m.lexeme \notin Blanks}
        /\ Places(t) = {m \in Marks(t) : m.lexeme \notin Blanks}
    BY PlacesAre
  <2>2. ASSUME NEW x
        PROVE  x \in Places(s \o t) <=> x \in Places(s) \/ \E p \in Places(t) : x = Moved(p)
    BY <1>2, <1>4, <2>1, Zenon
  <2> QED BY <2>2
<1> QED BY <1>5, <1>6 DEF Moved

LEMMA SameLinesJoined ==
  ASSUME NEW S, NEW a \in Seq(S), NEW b \in Seq(S), NEW u \in Seq(S), NEW v \in Seq(S),
         SameLines(a, b), SameLines(u, v)
  PROVE  SameLines(a \o u, b \o v)
<1>1. Bytes(b \o v) = Bytes(a \o u)
  BY Concatenated DEF SameLines
<1>2. \A x : x \in Ends(b \o v) <=> x \in Ends(a \o u)
  <2>1. \A x : x \in Ends(a \o u) <=> x \in Ends(a) \/ \E e \in Ends(u) : x = e + Bytes(a)
    BY PartsJoined
  <2>2. \A x : x \in Ends(b \o v) <=> x \in Ends(b) \/ \E e \in Ends(v) : x = e + Bytes(b)
    BY PartsJoined
  <2>3. Bytes(b) = Bytes(a) /\ Ends(b) = Ends(a) /\ Ends(v) = Ends(u)
    BY DEF SameLines
  <2> QED BY ONLY <2>1, <2>2, <2>3
<1>3. Ends(b \o v) = Ends(a \o u)
  <2>1. \A x \in Ends(b \o v) : x \in Ends(a \o u)
    BY <1>2
  <2>2. \A x \in Ends(a \o u) : x \in Ends(b \o v)
    BY <1>2
  <2> QED BY <2>1, <2>2
<1> QED BY <1>1, <1>3 DEF SameLines

LEMMA HidesJoined ==
  ASSUME NEW S, NEW a \in Seq(S), NEW b \in Seq(S), NEW u \in Seq(S), NEW v \in Seq(S),
         Hides(a, b), Hides(u, v)
  PROVE  Hides(a \o u, b \o v)
<1>1. SameLines(a \o u, b \o v)
  BY SameLinesJoined DEF Hides
<1>2. \A x : x \in Places(b \o v) => x \in Places(a \o u)
  <2>1. Bytes(b) = Bytes(a) /\ Places(b) \subseteq Places(a) /\ Places(v) \subseteq Places(u)
    BY DEF Hides, SameLines
  <2>2. \A x : x \in Places(a \o u) <=>
               \/ x \in Places(a)
               \/ \E p \in Places(u) : x = [at |-> p.at + Bytes(a), lexeme |-> p.lexeme]
    BY PartsJoined
  <2>3. \A x : x \in Places(b \o v) <=>
               \/ x \in Places(b)
               \/ \E p \in Places(v) : x = [at |-> p.at + Bytes(b), lexeme |-> p.lexeme]
    BY PartsJoined
  <2> QED BY ONLY <2>1, <2>2, <2>3
<1> QED BY <1>1, <1>2 DEF Hides

\* Texts without an end of a line, of blanks, and of lexemes of one byte.
LEMMA NoEnds ==
  ASSUME NEW text, \A i \in DOMAIN text : text[i] # "LF"
  PROVE  Ends(text) = {}
<1>1. \A m \in Marks(text) : m.lexeme # "LF"
  BY DEF Marks
<1> QED BY <1>1, EndsOfMarks

LEMMA NoPlaces ==
  ASSUME NEW text, \A i \in DOMAIN text : text[i] \in Blanks
  PROVE  Places(text) = {}
<1>1. \A m \in Marks(text) : m.lexeme \in Blanks
  BY DEF Marks
<1> QED BY <1>1, PlacesAre

\* A text of lexemes of one byte.
LEMMA OneByteEach ==
  ASSUME NEW S, NEW text \in Seq(S), \A i \in DOMAIN text : Width(text[i]) = 1
  PROVE  Bytes(text) = Len(text)
<1> DEFINE n == Len(text)
           sum == [i \in 0 .. n |-> i]
<1>1. n \in Nat /\ DOMAIN text = 1 .. n
  OBVIOUS
<1> HIDE DEF n
<1>2. sum \in [0 .. n -> Nat] /\ sum[0] = 0 /\ sum[n] = n
  BY <1>1
<1>3. ASSUME NEW i \in 1 .. n PROVE sum[i] = sum[i - 1] + Width(text[i])
  <2>1. i \in 0 .. n /\ i - 1 \in 0 .. n /\ (i - 1) + 1 = i /\ Width(text[i]) = 1
    BY <1>1
  <2> QED BY <2>1
<1> HIDE DEF sum
<1>4. IsSum(sum, text)
  BY <1>2, <1>3 DEF IsSum, n
<1> QED BY <1>2, <1>4, BytesOf DEF n

LEMMA FunctionIsSeq ==
  ASSUME NEW S, NEW n \in Nat, NEW f \in [1 .. n -> S]
  PROVE  f \in Seq(S) /\ Len(f) = n /\ DOMAIN f = 1 .. n
<1>1. f \in Seq(S)
  BY SeqDef
<1>2. DOMAIN f = 1 .. n /\ DOMAIN f = 1 .. Len(f) /\ Len(f) \in Nat
  BY <1>1, LenProperties
<1>3. Len(f) = n
  <2>1. ~(n < Len(f))
    <3> SUFFICES ASSUME n < Len(f) PROVE FALSE OBVIOUS
    <3>1. Len(f) \in 1 .. Len(f) /\ Len(f) \notin 1 .. n
      BY <1>2
    <3> QED BY <1>2, <3>1
  <2>2. ~(Len(f) < n)
    <3> SUFFICES ASSUME Len(f) < n PROVE FALSE OBVIOUS
    <3>1. n \in 1 .. n /\ n \notin 1 .. Len(f)
      BY <1>2
    <3> QED BY <1>2, <3>1
  <2> QED BY <1>2, <2>1, <2>2
<1> QED BY <1>1, <1>2, <1>3

LEMMA BlanksAre ==
  \A x \in Blanks : Width(x) = 1 /\ x # "LF"
  BY DEF Blanks, Width, Keywords

HasBlanks(S) == " " \in S

LEMMA SpacesAre ==
  ASSUME NEW S, HasBlanks(S), NEW n \in Nat
  PROVE  /\ Spaces(n) \in Seq(S) /\ Bytes(Spaces(n)) = n
         /\ Ends(Spaces(n)) = {} /\ Places(Spaces(n)) = {}
<1>1. Spaces(n) \in Seq(S) /\ Len(Spaces(n)) = n /\ DOMAIN Spaces(n) = 1 .. n
  <2>1. Spaces(n) \in [1 .. n -> S]
    BY DEF Spaces, HasBlanks
  <2> QED BY <2>1, FunctionIsSeq
<1>2. \A i \in DOMAIN Spaces(n) : Spaces(n)[i] = " "
  BY <1>1 DEF Spaces
<1>3. \A i \in DOMAIN Spaces(n) : Spaces(n)[i] \in Blanks
  BY <1>2 DEF Blanks
<1>4. \A i \in DOMAIN Spaces(n) : Width(Spaces(n)[i]) = 1 /\ Spaces(n)[i] # "LF"
  BY <1>3, BlanksAre
<1> QED BY <1>1, <1>3, <1>4, OneByteEach, NoEnds, NoPlaces

-----------------------------------------------------------------------------
(***************************************************************************)
(* A text that is put together from parts.                                 *)
(***************************************************************************)
IsFlat(f, parts, S) ==
  /\ f \in [0 .. Len(parts) -> Seq(S)]
  /\ f[0] = <<>>
  /\ \A i \in 1 .. Len(parts) : f[i] = f[i - 1] \o parts[i]

\* The function that FlattenSeq chooses exists and is the only one.
LEMMA Flattened ==
  ASSUME NEW S, NEW parts \in Seq(Seq(S))
  PROVE  \E f : IsFlat(f, parts, S) /\ FlattenSeq(parts) = f[Len(parts)]
<1> DEFINE n == Len(parts)
           step == [a \in Seq(S) \X (1 .. n) |-> a[1] \o parts[a[2]]]
           Flat(g) == [i \in 1 .. n |-> IF i = 1 THEN parts[i] ELSE g[i - 1] \o parts[i]]
<1>1. n \in Nat /\ \A i \in 1 .. n : parts[i] \in Seq(S)
  OBVIOUS
<1>2. step \in [Seq(S) \X (1 .. n) -> Seq(S)]
  <2>1. \A a \in Seq(S), i \in 1 .. n : a \o parts[i] \in Seq(S)
    BY <1>1, ConcatProperties
  <2> QED BY <2>1
<1>3. \A a \in Seq(S), i \in 1 .. n : step[<<a, i>>] = a \o parts[i]
  OBVIOUS
<1>4. <<>> \in Seq(S)
  OBVIOUS
<1> HIDE DEF step
<1>5. PICK f : IsFold(f, n, Seq(S), <<>>, step)
  BY <1>1, <1>2, <1>4, FoldExists
<1>6. /\ f \in [0 .. n -> Seq(S)] /\ f[0] = <<>>
      /\ \A i \in 1 .. n : f[i] = step[<<f[i - 1], i>>]
  BY <1>5 DEF IsFold
<1>7. ASSUME NEW i \in 1 .. n PROVE i - 1 \in 0 .. n /\ f[i] = f[i - 1] \o parts[i]
  <2>1. i - 1 \in 0 .. n
    BY <1>1
  <2>2. f[i - 1] \in Seq(S) /\ f[i] = step[<<f[i - 1], i>>]
    BY <1>6, <2>1
  <2> QED BY <1>3, <2>1, <2>2
<1>8. IsFlat(f, parts, S)
  BY <1>6, <1>7 DEF IsFlat
<1>9. CASE n = 0
  <2>1. parts = <<>>
    BY <1>9, EmptySeq
  <2> QED BY <1>6, <1>8, <1>9, <2>1 DEF FlattenSeq
<1>10. CASE n # 0
  <2> DEFINE g == [i \in 1 .. n |-> f[i]]
  <2>1. ASSUME NEW i \in 1 .. n
        PROVE  g[i] = IF i = 1 THEN parts[i] ELSE g[i - 1] \o parts[i]
    <3>1. CASE i = 1
      <4>1. f[1] = f[0] \o parts[1] /\ 1 \in 1 .. n
        <5>1. 1 \in 1 .. n /\ 1 - 1 = 0
          BY <1>1, <1>10
        <5>2. f[1] = f[1 - 1] \o parts[1]
          BY <1>7, <5>1
        <5> QED BY <5>1, <5>2
      <4>2. <<>> \o parts[1] = parts[1]
        BY <1>1, <4>1, ConcatEmptySeq
      <4> QED BY <1>6, <3>1, <4>1, <4>2
    <3>2. CASE i # 1
      <4>1. i - 1 \in 1 .. n
        BY <1>1, <3>2
      <4> QED BY <1>7, <3>2, <4>1
    <3> QED BY <3>1, <3>2
  <2>2. g = Flat(g)
    <3>1. g = [i \in 1 .. n |-> g[i]]
      OBVIOUS
    <3> HIDE DEF g
    <3> QED BY <2>1, <3>1
  <2>3. \A h : h = Flat(h) => h = g
    <3> SUFFICES ASSUME NEW h, h = Flat(h) PROVE h = g OBVIOUS
    <3>1. ASSUME NEW k \in 1 .. n PROVE h[k] = IF k = 1 THEN parts[k] ELSE h[k - 1] \o parts[k]
      <4> DEFINE z == Flat(h)
      <4>1. z[k] = IF k = 1 THEN parts[k] ELSE h[k - 1] \o parts[k]
        OBVIOUS
      <4>2. h = z
        OBVIOUS
      <4> HIDE DEF z
      <4> QED BY <4>1, <4>2
    <3>2. DOMAIN h = 1 .. n /\ h = [i \in 1 .. n |-> h[i]]
      <4> DEFINE z == Flat(h)
      <4>1. DOMAIN z = 1 .. n /\ z = [i \in 1 .. n |-> z[i]]
        OBVIOUS
      <4>2. h = z
        OBVIOUS
      <4> HIDE DEF z
      <4> QED BY <4>1, <4>2
    <3> DEFINE T == {k \in Nat : k \in 1 .. n /\ h[k] = g[k]}
    <3> HIDE DEF g
    <3>3. 1 \in T
      <4>1. 1 \in 1 .. n
        BY <1>1, <1>10
      <4> QED BY <2>1, <3>1, <4>1
    <3>4. ASSUME NEW k \in 1 .. n - 1, k \in T PROVE k + 1 \in T
      <4> DEFINE j == k + 1
      <4>1. j \in 1 .. n /\ j # 1 /\ j - 1 = k /\ j \in Nat
        BY <1>1
      <4> HIDE DEF j
      <4>2. h[j] = h[k] \o parts[j] /\ g[j] = g[k] \o parts[j]
        BY <2>1, <3>1, <4>1
      <4>3. h[k] = g[k]
        BY <3>4
      <4>4. j \in T
        BY <4>1, <4>2, <4>3
      <4> QED BY <4>4 DEF j
    <3> HIDE DEF T
    <3>5. \A k \in 1 .. n : k \in T
      <4>1. 1 \in Int /\ n \in Int
        BY <1>1
      <4> QED BY ONLY <3>3, <3>4, <4>1, IntervalInduction
    <3>6. \A k \in 1 .. n : h[k] = g[k]
      BY <3>5 DEF T
    <3>7. g = [i \in 1 .. n |-> g[i]]
      BY DEF g
    <3> QED BY <3>2, <3>6, <3>7
  <2>4. FlattenSeq(parts) = (CHOOSE h : h = Flat(h))[n]
    BY <1>10 DEF FlattenSeq
  <2>5. (CHOOSE h : h = Flat(h)) = g
    <3> HIDE DEF Flat, g
    <3> QED BY <2>2, <2>3
  <2>6. FlattenSeq(parts) = g[n]
    BY <2>4, <2>5
  <2>7. n \in 1 .. n
    BY <1>1, <1>10
  <2> QED BY <1>8, <2>6, <2>7
<1> QED BY <1>9, <1>10

\* The fronts of a text, each with one lexeme more.
LEMMA Fronts ==
  ASSUME NEW S, NEW text \in Seq(S)
  PROVE  /\ SubSeq(text, 1, 0) = <<>>
         /\ SubSeq(text, 1, Len(text)) = text
         /\ \A i \in 0 .. Len(text) : SubSeq(text, 1, i) \in Seq(S)
         /\ \A i \in 1 .. Len(text) : SubSeq(text, 1, i) = SubSeq(text, 1, i - 1) \o <<text[i]>>
<1>1. SubSeq(text, 1, 0) = <<>>
  BY SubSeqEmpty
<1>2. SubSeq(text, 1, Len(text)) = text
  BY SubSeqFull
<1>3. Len(text) \in Nat /\ \A i \in 1 .. Len(text) : text[i] \in S
  OBVIOUS
<1>4. ASSUME NEW i \in 0 .. Len(text) PROVE SubSeq(text, 1, i) \in Seq(S)
  <2>1. 1 \in Int /\ i \in Int /\ \A k \in 1 .. i : text[k] \in S
    BY <1>3
  <2> QED BY <2>1, SubSeqProperties
<1>5. ASSUME NEW i \in 1 .. Len(text) PROVE SubSeq(text, 1, i) = SubSeq(text, 1, i - 1) \o <<text[i]>>
  <2>1. 1 \in 1 .. Len(text) /\ i \in 1 .. Len(text)
    BY <1>3
  <2> QED BY <2>1, SubSeqRecursiveSecond
<1> QED BY <1>1, <1>2, <1>4, <1>5

LEMMA HidesItself ==
  ASSUME NEW text PROVE Hides(text, text) /\ SameLines(text, text)
  BY DEF Hides, SameLines

\* What MaskRange makes of one lexeme.
LEMMA MaskedLexeme ==
  ASSUME NEW S, HasBlanks(S), NEW x \in S, x # "LF"
  PROVE  Spaces(Width(x)) \in Seq(S) /\ Hides(<<x>>, Spaces(Width(x)))
<1>1. Width(x) \in Nat
  BY WidthIs
<1>2. /\ Spaces(Width(x)) \in Seq(S) /\ Bytes(Spaces(Width(x))) = Width(x)
      /\ Ends(Spaces(Width(x))) = {} /\ Places(Spaces(Width(x))) = {}
  BY <1>1, SpacesAre
<1>3. Bytes(<<x>>) = Width(x)
  BY Single
<1>4. Ends(<<x>>) = {}
  <2>1. DOMAIN <<x>> = {1} /\ <<x>>[1] = x
    OBVIOUS
  <2>2. \A i \in DOMAIN <<x>> : <<x>>[i] # "LF"
    BY <2>1
  <2> QED BY <2>2, NoEnds
<1> QED BY <1>2, <1>3, <1>4 DEF Hides, SameLines

\* Whatever is hidden.
LEMMA MaskRangeHides ==
  ASSUME NEW S, HasBlanks(S), NEW text \in Seq(S), NEW hidden
  PROVE  MaskRange(text, hidden) \in Seq(S) /\ Hides(text, MaskRange(text, hidden))
<1> DEFINE n == Len(text)
           Part(i) == IF i \in hidden /\ text[i] \notin Blanks \cup {"LF", "CR"}
                      THEN Spaces(Width(text[i])) ELSE <<text[i]>>
           parts == [i \in DOMAIN text |-> Part(i)]
<1> HIDE DEF Part, parts
<1>1. n \in Nat /\ DOMAIN text = 1 .. n /\ \A i \in 1 .. n : text[i] \in S
  OBVIOUS
<1> HIDE DEF n
<1>2. ASSUME NEW i \in 1 .. n
      PROVE  <<text[i]>> \in Seq(S) /\ Part(i) \in Seq(S) /\ Hides(<<text[i]>>, Part(i))
  <2>1. text[i] \in S /\ <<text[i]>> \in Seq(S) /\ Hides(<<text[i]>>, <<text[i]>>)
    BY <1>1, HidesItself
  <2>2. ASSUME text[i] \notin Blanks \cup {"LF", "CR"}
        PROVE  Spaces(Width(text[i])) \in Seq(S) /\ Hides(<<text[i]>>, Spaces(Width(text[i])))
    BY <2>1, <2>2, MaskedLexeme
  <2>3. CASE text[i] \notin Blanks \cup {"LF", "CR"} /\ i \in hidden
    <3>1. Part(i) = Spaces(Width(text[i]))
      BY <2>3 DEF Part
    <3> QED BY <2>1, <2>2, <2>3, <3>1
  <2>4. CASE ~(text[i] \notin Blanks \cup {"LF", "CR"} /\ i \in hidden)
    <3>1. Part(i) = <<text[i]>>
      BY <2>4 DEF Part
    <3> QED BY <2>1, <3>1
  <2> QED BY <2>3, <2>4
<1>3. parts \in [1 .. n -> Seq(S)]
  BY <1>1, <1>2 DEF parts
<1>4. parts \in Seq(Seq(S)) /\ Len(parts) = n
  BY <1>1, <1>3, FunctionIsSeq
<1>5. \A i \in 1 .. n : parts[i] = Part(i)
  BY <1>1 DEF parts
<1>6. MaskRange(text, hidden) = FlattenSeq(parts)
  BY DEF MaskRange, Part, parts
<1>7. PICK f : IsFlat(f, parts, S) /\ FlattenSeq(parts) = f[n]
  BY <1>4, Flattened
<1>8. f \in [0 .. n -> Seq(S)] /\ f[0] = <<>> /\ \A i \in 1 .. n : f[i] = f[i - 1] \o Part(i)
  BY <1>4, <1>5, <1>7 DEF IsFlat
<1>9. /\ SubSeq(text, 1, 0) = <<>> /\ SubSeq(text, 1, n) = text
      /\ \A i \in 0 .. n : SubSeq(text, 1, i) \in Seq(S)
      /\ \A i \in 1 .. n : SubSeq(text, 1, i) = SubSeq(text, 1, i - 1) \o <<text[i]>>
  BY Fronts DEF n
<1> DEFINE T == {i \in Nat : Hides(SubSeq(text, 1, i), f[i])}
<1>10. 0 \in T
  BY <1>8, <1>9, HidesItself
<1>11. ASSUME NEW i \in 0 .. n - 1, i \in T PROVE i + 1 \in T
  <2> DEFINE j == i + 1
  <2>1. j \in 1 .. n /\ j - 1 = i /\ i \in 0 .. n /\ j \in Nat
    BY <1>1
  <2> HIDE DEF j
  <2>2. f[j] = f[i] \o Part(j) /\ SubSeq(text, 1, j) = SubSeq(text, 1, i) \o <<text[j]>>
    BY <1>8, <1>9, <2>1
  <2>3. /\ SubSeq(text, 1, i) \in Seq(S) /\ f[i] \in Seq(S) /\ <<text[j]>> \in Seq(S)
        /\ Part(j) \in Seq(S) /\ Hides(<<text[j]>>, Part(j))
    <3>1. SubSeq(text, 1, i) \in Seq(S) /\ f[i] \in Seq(S)
      BY <1>8, <1>9, <2>1
    <3> QED BY <1>2, <2>1, <3>1
  <2>4. Hides(SubSeq(text, 1, i), f[i])
    BY <1>11
  <2>5. Hides(SubSeq(text, 1, j), f[j])
    BY <2>2, <2>3, <2>4, HidesJoined
  <2>6. j \in T
    BY <2>1, <2>5
  <2> QED BY <2>6 DEF j
<1> HIDE DEF T
<1>12. \A i \in 0 .. n : i \in T
  BY <1>1, <1>10, <1>11, UpwardInduction
<1>13. Hides(SubSeq(text, 1, n), f[n]) /\ f[n] \in Seq(S)
  <2>1. n \in 0 .. n
    BY <1>1
  <2> QED BY <1>8, <1>12, <2>1 DEF T
<1> QED BY <1>6, <1>7, <1>9, <1>13

-----------------------------------------------------------------------------
(***************************************************************************)
(* The candidates that show what the source has, a separator as "_".       *)
(***************************************************************************)
IsShown(p, places) == p \in places \/ (p.lexeme = "_" /\ [p EXCEPT !.lexeme = "/"] \in places)
Keeps(a, b) == SameLines(a, b) /\ \A p \in Places(b) : IsShown(p, Places(a))

\* A mask of a masked text.
LEMMA MasksCompose ==
  ASSUME NEW a, NEW b, NEW c
  PROVE  /\ Hides(a, b) => Keeps(a, b)
         /\ Hides(a, b) /\ Hides(b, c) => Hides(a, c)
         /\ Keeps(a, b) /\ Hides(b, c) => Keeps(a, c)
         /\ Hides(a, b) /\ Keeps(b, c) => Keeps(a, c)
  BY DEF Hides, Keeps, SameLines, IsShown

LEMMA Relabelled ==
  \A a, b, c : /\ [at |-> a, lexeme |-> b].lexeme = b
               /\ [[at |-> a, lexeme |-> b] EXCEPT !.lexeme = c] = [at |-> a, lexeme |-> c]
  OBVIOUS

\* Each lexeme is kept, or a separator replaced.
IsReplacement(a, b) == b = a \/ (b = "_" /\ a = "/")

LEMMA ReplacedKeeps ==
  ASSUME NEW S, NEW text \in Seq(S), NEW masked \in Seq(S), Len(masked) = Len(text),
         \A i \in 1 .. Len(text) : IsReplacement(text[i], masked[i])
  PROVE  Keeps(text, masked)
<1> DEFINE n == Len(text)
<1>1. n \in Nat /\ DOMAIN text = 1 .. n
  OBVIOUS
<1>2. DOMAIN masked = 1 .. Len(masked)
  OBVIOUS
<1>3. DOMAIN masked = 1 .. n /\ Len(masked) = n
  BY <1>2
<1>4. \A i \in 1 .. n : IsReplacement(text[i], masked[i])
  OBVIOUS
<1>5. Width("_") = 1 /\ Width("/") = 1
  BY DEF Width, Keywords
<1>6. \A i \in 1 .. n : Width(masked[i]) = Width(text[i])
  BY <1>4, <1>5 DEF IsReplacement
<1>7. PICK sum : IsSum(sum, text) /\ Bytes(text) = sum[n]
  BY BytesAreASum
<1>8. IsSum(sum, masked)
  BY <1>3, <1>6, <1>7 DEF IsSum, n
<1>9. Bytes(masked) = Bytes(text)
  <2>1. Bytes(masked) = sum[Len(masked)]
    BY <1>8, BytesOf
  <2> QED BY <1>3, <1>7, <2>1
<1>10. \A i \in 1 .. n : At(masked, i) = At(text, i)
  <2>1. \A i \in 1 .. Len(text) + 1 : At(text, i) = sum[i - 1]
    BY <1>7, AtIs
  <2>2. \A i \in 1 .. Len(masked) + 1 : At(masked, i) = sum[i - 1]
    BY <1>8, AtIs
  <2>3. \A i \in 1 .. n : i \in 1 .. n + 1
    BY <1>1
  <2> QED BY <1>3, <2>1, <2>2, <2>3
<1> HIDE DEF n
<1>11. Ends(masked) = Ends(text)
  <2>1. \A x : x \in Ends(text) <=> \E i \in 1 .. n : text[i] = "LF" /\ x = At(text, i)
    BY <1>1, EndsAre
  <2>2. \A x : x \in Ends(masked) <=> \E i \in 1 .. n : masked[i] = "LF" /\ x = At(masked, i)
    <3>1. \A x : x \in Ends(masked) <=> \E i \in DOMAIN masked : masked[i] = "LF" /\ x = At(masked, i)
      BY EndsAre
    <3> QED BY <1>3, <3>1
  <2>3. \A i \in 1 .. n : masked[i] = "LF" <=> text[i] = "LF"
    BY <1>4 DEF IsReplacement
  <2>4. \A x : x \in Ends(masked) <=> x \in Ends(text)
    BY ONLY <1>10, <2>1, <2>2, <2>3
  <2>5. \A x \in Ends(masked) : x \in Ends(text)
    BY <2>4
  <2>6. \A x \in Ends(text) : x \in Ends(masked)
    BY <2>4
  <2> QED BY <2>5, <2>6
<1>12. ASSUME NEW p \in Places(masked) PROVE IsShown(p, Places(text))
  <2>1. PICK i \in 1 .. n : masked[i] \notin Blanks /\ p = [at |-> At(masked, i), lexeme |-> masked[i]]
    BY <1>3 DEF Places, At
  <2>2. \A k \in 1 .. n : text[k] \notin Blanks => [at |-> At(text, k), lexeme |-> text[k]] \in Places(text)
    BY <1>1 DEF Places, At
  <2>3. At(masked, i) = At(text, i)
    BY <1>10
  <2>4. CASE masked[i] = text[i]
    <3>1. p = [at |-> At(text, i), lexeme |-> text[i]] /\ text[i] \notin Blanks
      BY <2>1, <2>3, <2>4
    <3> QED BY <2>2, <3>1 DEF IsShown
  <2>5. CASE masked[i] = "_" /\ text[i] = "/"
    <3>1. p = [at |-> At(text, i), lexeme |-> "_"]
      BY <2>1, <2>3, <2>5
    <3>3. p.lexeme = "_" /\ [p EXCEPT !.lexeme = "/"] = [at |-> At(text, i), lexeme |-> "/"]
      BY ONLY <3>1, Relabelled, Zenon
    <3>2. text[i] \notin Blanks
      BY <2>5 DEF Blanks
    <3> QED BY <2>2, <2>5, <3>2, <3>3 DEF IsShown
  <2> QED BY <1>4, <2>4, <2>5 DEF IsReplacement
<1> QED BY <1>9, <1>11, <1>12 DEF Keeps, SameLines

HasBar(S) == "_" \in S

LEMMA SeparatorsKeep ==
  ASSUME NEW S, HasBar(S), NEW text \in Seq(S)
  PROVE  /\ MaskCurrentPathSeparators(text) \in Seq(S)
         /\ Keeps(text, MaskCurrentPathSeparators(text))
<1> DEFINE n == Len(text)
           masked == MaskCurrentPathSeparators(text)
<1>1. n \in Nat /\ DOMAIN text = 1 .. n /\ \A i \in 1 .. n : text[i] \in S
  OBVIOUS
<1> HIDE DEF n
<1>2. masked = [i \in 1 .. n |-> IF i \in PathSeparators(text) THEN "_" ELSE text[i]]
  BY <1>1 DEF MaskCurrentPathSeparators
<1>3. \A i \in PathSeparators(text) : text[i] = "/"
  BY DEF PathSeparators
<1> HIDE DEF masked
<1>4. masked \in [1 .. n -> S]
  BY <1>1, <1>2 DEF HasBar
<1>5. masked \in Seq(S) /\ Len(masked) = n
  BY <1>1, <1>4, FunctionIsSeq
<1>6. \A i \in 1 .. n : IsReplacement(text[i], masked[i])
  BY <1>2, <1>3 DEF IsReplacement
<1>7. Keeps(text, masked)
  BY <1>5, <1>6, ReplacedKeeps DEF n
<1> QED BY <1>5, <1>7 DEF masked

\* Whatever it finds, the first mask only hides.
LEMMA SyntaxHides ==
  ASSUME NEW S, HasBlanks(S), NEW text \in Seq(S)
  PROVE  MaskCurrentSyntax(text) \in Seq(S) /\ Hides(text, MaskCurrentSyntax(text))
<1>1. \E hidden : MaskCurrentSyntax(text) = MaskRange(text, hidden)
  BY DEF MaskCurrentSyntax
<1> QED BY <1>1, MaskRangeHides

\* But for the bodiless one, candidates show what the source shows.
LEMMA CandidatesKeep ==
  ASSUME NEW S, HasBlanks(S), HasBar(S), NEW text \in Seq(S), NEW bodiless,
         NEW candidate \in Candidates(text, MaskCurrentSyntax(text), bodiless)
  PROVE  candidate = bodiless \/ (candidate \in Seq(S) /\ Keeps(text, candidate))
<1> DEFINE syntax == MaskCurrentSyntax(text)
           Kept(t) == t \in Seq(S) /\ Keeps(text, t)
<1>1. syntax \in Seq(S) /\ Hides(text, syntax)
  BY SyntaxHides
<1> HIDE DEF syntax
<1>2. Kept(text)
  BY HidesItself, MasksCompose
<1>3. Kept(syntax)
  BY <1>1, MasksCompose
<1>4. Kept(MaskCurrentPathSeparators(text))
  BY SeparatorsKeep
<1>5. Kept(MaskCurrentPathSeparators(syntax))
  BY <1>1, SeparatorsKeep, MasksCompose
<1>6. \A t, hidden : Kept(t) => Kept(MaskRange(t, hidden))
  BY MaskRangeHides, MasksCompose
<1>7. Kept(MaskRange(syntax, MaskCurrentConstructorReturns(syntax)))
  BY <1>3, <1>6
<1> HIDE DEF Kept
<1>8. \A t \in SyntaxCandidates(text, syntax) : Kept(t)
  BY <1>2, <1>3, <1>4, <1>5, <1>7 DEF SyntaxCandidates
<1>9. \A t \in SyntaxCandidates(text, syntax) : Kept(MaskRange(t, MaskCurrentComments(t)))
  BY <1>6, <1>8
<1>10. candidate = bodiless \/ Kept(candidate)
  <2>1. candidate \in Candidates(text, syntax, bodiless)
    BY DEF syntax
  <2> QED BY <1>8, <1>9, <2>1 DEF Candidates
<1> QED BY <1>10 DEF Kept

-----------------------------------------------------------------------------
(***************************************************************************)
(* Lines without their ends, of which the bodies of definitions consist.   *)
(***************************************************************************)
IsLineOf(text, line) ==
  /\ line.from \in 1 .. Len(text)
  /\ line.to \in line.from .. Len(text) + 1
  /\ line.cursor \in line.from .. line.to
  /\ \A k \in line.from .. line.to - 1 : text[k] # "LF"
  /\ \A k \in line.from .. line.cursor - 1 : text[k] \in Blanks
  /\ line.cursor < line.to => text[line.cursor] \notin Blanks

AreLines(text, lines) ==
  /\ \A line \in lines : IsLineOf(text, line)
  /\ \A a, b \in lines : a.from = b.from => a = b
  /\ \A a, b \in lines : a.from < b.from => a.to <= b.from

LEMMA MaxOfTwo ==
  ASSUME NEW a \in Nat, NEW b \in Nat, a <= b
  PROVE  Max({a, b}) = b
<1>1. b \in {a, b} /\ \A y \in {a, b} : b >= y
  OBVIOUS
<1>2. \A x \in {a, b} : (\A y \in {a, b} : x >= y) => x = b
  OBVIOUS
<1> QED BY <1>1, <1>2 DEF Max

\* There are only blanks before the cursor, and none at it.
LEMMA CursorIs ==
  ASSUME NEW text, NEW i \in Nat, NEW to \in Nat, i <= to
  PROVE  /\ PastBlanks(text, i, to) \in i .. to
         /\ \A k \in i .. PastBlanks(text, i, to) - 1 : text[k] \in Blanks
         /\ PastBlanks(text, i, to) < to => text[PastBlanks(text, i, to)] \notin Blanks
<1> DEFINE T == {k \in i .. to - 1 : ~(text[k] \in Blanks)} \cup {to}
<1>1. PastBlanks(text, i, to) = Max({i, Min(T)})
  BY DEF PastBlanks, Past
<1>2. T \subseteq Nat /\ to \in T
  OBVIOUS
<1>3. /\ \A k \in i .. to - 1 : k \notin T => text[k] \in Blanks
      /\ \A k \in T : k # to => text[k] \notin Blanks
  OBVIOUS
<1>4. \A k \in T : i <= k /\ k <= to
  OBVIOUS
<1> HIDE DEF T
<1>5. PICK z \in T : \A y \in T : z <= y
  BY <1>2, SmallestOf
<1>6. Min(T) = z
  BY <1>2, <1>5, MinIs
<1>7. z \in i .. to /\ z \in Nat
  BY <1>2, <1>4, <1>5
<1>8. PastBlanks(text, i, to) = z
  BY <1>1, <1>6, <1>7, MaxOfTwo
<1>9. ASSUME NEW k \in i .. z - 1 PROVE text[k] \in Blanks
  <2>1. k \in i .. to - 1 /\ ~(z <= k)
    BY <1>7
  <2> QED BY <1>3, <1>5, <2>1
<1>10. z < to => text[z] \notin Blanks
  BY <1>3, <1>5, <1>7
<1> QED BY <1>7, <1>8, <1>9, <1>10

\* Lines do not overlap.
LEMMA WholeLines ==
  ASSUME NEW S, NEW text \in Seq(S)
  PROVE  AreLines(text, LinesOf(text))
<1> DEFINE n == Len(text)
           L(i) == Line(text, i, LineEnd(text, i))
<1>1. n \in Nat
  OBVIOUS
<1>2. /\ LinesOf(text) = {L(i) : i \in LineStarts(text)}
      /\ \A i \in LineStarts(text) :
           /\ i \in 1 .. n
           /\ LineEnd(text, i) \in i .. n + 1
           /\ \A k \in i .. LineEnd(text, i) - 1 : text[k] # "LF"
  BY LinesAre
<1>3. \A i : /\ L(i).from = i /\ L(i).to = LineEnd(text, i)
             /\ L(i).cursor = PastBlanks(text, i, LineEnd(text, i))
  BY DEF Line
<1> HIDE DEF n, L
<1>4. ASSUME NEW i \in LineStarts(text) PROVE IsLineOf(text, L(i))
  <2> DEFINE to == LineEnd(text, i)
  <2>1. i \in 1 .. n /\ to \in i .. n + 1 /\ \A k \in i .. to - 1 : text[k] # "LF"
    BY <1>2
  <2> HIDE DEF to
  <2>2. i \in Nat /\ to \in Nat /\ i <= to
    BY <1>1, <2>1
  <2>3. /\ PastBlanks(text, i, to) \in i .. to
        /\ \A k \in i .. PastBlanks(text, i, to) - 1 : text[k] \in Blanks
        /\ PastBlanks(text, i, to) < to => text[PastBlanks(text, i, to)] \notin Blanks
    BY <2>2, CursorIs
  <2>4. L(i).from = i /\ L(i).to = to /\ L(i).cursor = PastBlanks(text, i, to)
    BY <1>3 DEF to
  <2> QED BY <2>1, <2>3, <2>4 DEF IsLineOf, n
<1>5. ASSUME NEW i \in LineStarts(text), NEW j \in LineStarts(text), i < j
      PROVE  LineEnd(text, i) <= j
  <2>1. /\ i \in 1 .. n /\ j \in 1 .. n /\ LineEnd(text, i) \in i .. n + 1
        /\ \A k \in i .. LineEnd(text, i) - 1 : text[k] # "LF"
    BY <1>2
  <2>2. j # 1
    BY <1>1, <1>5, <2>1
  <2>3. text[j - 1] = "LF"
    BY <2>2, Zenon DEF LineStarts
  <2>4. j - 1 \notin i .. LineEnd(text, i) - 1
    BY <2>1, <2>3
  <2> QED BY <1>1, <1>5, <2>1, <2>4
<1> QED BY <1>2, <1>3, <1>4, <1>5 DEF AreLines

\* Nor do they without their "CR".
LEMMA TrimmedLines ==
  ASSUME NEW text, Len(text) \in Nat, NEW lines, AreLines(text, lines),
         \A line \in lines : line = [from |-> line.from, to |-> line.to, cursor |-> line.cursor]
  PROVE  AreLines(text, {TrimLineEnding(text, line) : line \in lines})
<1> DEFINE Trimmed(line) == TrimLineEnding(text, line)
<1>1. ASSUME NEW line \in lines
      PROVE  /\ IsLineOf(text, Trimmed(line)) /\ Trimmed(line).from = line.from
             /\ Trimmed(line).to <= line.to
  <2> DEFINE from == line.from
             to == line.to
             cursor == line.cursor
             t == Trimmed(line)
  <2>1. /\ from \in 1 .. Len(text) /\ to \in from .. Len(text) + 1 /\ cursor \in from .. to
        /\ \A k \in from .. to - 1 : text[k] # "LF"
        /\ \A k \in from .. cursor - 1 : text[k] \in Blanks
        /\ cursor < to => text[cursor] \notin Blanks
    BY DEF AreLines, IsLineOf
  <2>2. CASE to > from /\ text[to - 1] = "CR"
    <3>1. t = [line EXCEPT !.to = to - 1]
      BY <2>2 DEF TrimLineEnding
    <3>2. t.from = from /\ t.to = to - 1 /\ t.cursor = cursor
      <4>1. line = [from |-> from, to |-> to, cursor |-> cursor]
        OBVIOUS
      <4> HIDE DEF t, from, to, cursor
      <4> QED BY <3>1, <4>1
    <3> HIDE DEF t, from, to, cursor
    <3>3. cursor # to
      <4> SUFFICES ASSUME cursor = to PROVE FALSE OBVIOUS
      <4>1. to - 1 \in from .. cursor - 1
        BY <2>1, <2>2
      <4>2. text[to - 1] \in Blanks
        BY <2>1, <4>1
      <4> QED BY <2>2, <4>2 DEF Blanks
    <3>4. to - 1 \in from .. Len(text) + 1 /\ cursor \in from .. to - 1 /\ to - 1 <= to
      BY <2>1, <2>2, <3>3
    <3>5. \A k \in from .. (to - 1) - 1 : text[k] # "LF"
      <4>1. \A k \in from .. (to - 1) - 1 : k \in from .. to - 1
        BY <2>1
      <4> QED BY <2>1, <4>1
    <3>6. cursor < to - 1 => cursor < to
      BY <2>1
    <3>7. IsLineOf(text, t)
      BY <2>1, <3>2, <3>4, <3>5, <3>6 DEF IsLineOf
    <3> QED BY <3>2, <3>4, <3>7 DEF t, from, to
  <2>3. CASE ~(to > from /\ text[to - 1] = "CR")
    <3>1. t = line
      BY <2>3 DEF TrimLineEnding
    <3> QED BY <2>1, <3>1 DEF AreLines
  <2> QED BY <2>2, <2>3
<1>2. \A a, b \in lines : a.from = b.from => a = b
  BY DEF AreLines
<1>3. ASSUME NEW a \in lines, NEW b \in lines, a.from < b.from PROVE Trimmed(a).to <= Trimmed(b).from
  <2>1. a.to <= b.from /\ a.to \in Int /\ b.from \in Int
    BY <1>3 DEF AreLines, IsLineOf
  <2>2. Trimmed(a).to \in Int /\ Trimmed(a).to <= a.to /\ Trimmed(b).from = b.from
    BY <1>1 DEF IsLineOf
  <2> QED BY <2>1, <2>2
<1> HIDE DEF Trimmed
<1>4. AreLines(text, {Trimmed(line) : line \in lines})
  BY <1>1, <1>2, <1>3 DEF AreLines
<1> QED BY <1>4 DEF Trimmed

-----------------------------------------------------------------------------
(***************************************************************************)
(* The bodies of definitions.                                              *)
(***************************************************************************)
HasBody(S) == {"return", " ", "0"} \subseteq S

\* What a masked body keeps: each lexeme is in its place, or is the placeholder's.
Stands(a, b) ==
  /\ SameLines(a, b)
  /\ \A p \in Places(b) : p \in Places(a) \/ IsPlaceholder(p, Places(a))

\* A place is a number of bytes.
LEMMA PlacesAreAt ==
  ASSUME NEW S, NEW text \in Seq(S)
  PROVE  \A p \in Places(text) : p.at \in Nat /\ p = [at |-> p.at, lexeme |-> p.lexeme]
<1>1. \A m \in Marks(text) : m.at \in Nat /\ m = [at |-> m.at, lexeme |-> m.lexeme]
  <2>1. \A i \in 1 .. Len(text) : i \in 1 .. Len(text) + 1
    <3>1. Len(text) \in Nat
      OBVIOUS
    <3> QED BY <3>1
  <2>2. DOMAIN text = 1 .. Len(text)
    OBVIOUS
  <2>3. \A i \in DOMAIN text : At(text, i) \in Nat
    BY <2>1, <2>2, BytesAt
  <2> QED BY <2>3 DEF Marks
<1> QED BY <1>1, PlacesAre

\* A text that does not start with a blank has a place at its start.
LEMMA FirstIsAPlace ==
  ASSUME NEW S, NEW text \in Seq(S), Len(text) > 0, text[1] \notin Blanks
  PROVE  \E q \in Places(text) : q.at = 0
<1>1. 1 \in DOMAIN text
  OBVIOUS
<1>2. At(text, 1) = 0
  BY BytesAt
<1> DEFINE q == [at |-> At(text, 1), lexeme |-> text[1]]
<1>3. q \in Marks(text)
  BY <1>1 DEF Marks
<1>4. q.at = 0 /\ q.lexeme = text[1]
  BY <1>2
<1> HIDE DEF q
<1> QED BY <1>3, <1>4, PlacesAre

LEMMA OnePlace ==
  ASSUME NEW V, NEW x \in V
  PROVE  \A p \in Places(<<x>>) : p.at = 0 /\ p.lexeme = x
<1>1. Marks(<<x>>) = {[at |-> 0, lexeme |-> x]}
  BY Single
<1>2. \A p \in Marks(<<x>>) : p.at = 0 /\ p.lexeme = x
  BY <1>1
<1> QED BY <1>2, PlacesAre

\* The parts of a text are moved together.
LEMMA StandsJoined ==
  ASSUME NEW S, NEW a \in Seq(S), NEW b \in Seq(S), NEW u \in Seq(S), NEW v \in Seq(S),
         Stands(a, b), Stands(u, v)
  PROVE  Stands(a \o u, b \o v)
<1> DEFINE k == Bytes(a)
           Moved(p) == [at |-> p.at + k, lexeme |-> p.lexeme]
<1>1. SameLines(a \o u, b \o v)
  BY SameLinesJoined DEF Stands
<1>2. Bytes(b) = k /\ k \in Nat
  BY Concatenated DEF Stands, SameLines
<1>3. \A x : x \in Places(a \o u) <=> x \in Places(a) \/ \E p \in Places(u) : x = Moved(p)
  BY PartsJoined
<1>4. \A x : x \in Places(b \o v) <=> x \in Places(b) \/ \E p \in Places(v) : x = Moved(p)
  <2>1. \A x : x \in Places(b \o v) <=>
               \/ x \in Places(b)
               \/ \E p \in Places(v) : x = [at |-> p.at + Bytes(b), lexeme |-> p.lexeme]
    BY PartsJoined
  <2> QED BY ONLY <1>2, <2>1
<1>5. \A p : Moved(p).at = p.at + k /\ Moved(p).lexeme = p.lexeme
  OBVIOUS
<1>6. /\ \A p \in Places(b) : p \in Places(a) \/ IsPlaceholder(p, Places(a))
      /\ \A p \in Places(v) : p \in Places(u) \/ IsPlaceholder(p, Places(u))
  BY DEF Stands
<1>7. \A p \in Places(u) : p.at \in Nat
  BY PlacesAreAt
<1> HIDE DEF Moved, k
<1>8. ASSUME NEW p \in Places(b) PROVE p \in Places(a \o u) \/ IsPlaceholder(p, Places(a \o u))
  BY <1>3, <1>6 DEF IsPlaceholder
<1>9. ASSUME NEW p \in Places(v)
      PROVE  Moved(p) \in Places(a \o u) \/ IsPlaceholder(Moved(p), Places(a \o u))
  <2>1. CASE p \in Places(u)
    BY <1>3, <2>1
  <2>2. CASE IsPlaceholder(p, Places(u))
    <3>1. PICK q \in Places(u) :
            \/ p.at = q.at /\ p.lexeme \in {"return", "0"}
            \/ p.at = q.at + 7 /\ p.lexeme = "0"
      BY <2>2 DEF IsPlaceholder
    <3>2. Moved(q) \in Places(a \o u)
      BY <1>3
    <3>3. (q.at + 7) + k = (q.at + k) + 7
      BY <1>2, <1>7
    <3>4. \/ Moved(p).at = Moved(q).at /\ Moved(p).lexeme \in {"return", "0"}
          \/ Moved(p).at = Moved(q).at + 7 /\ Moved(p).lexeme = "0"
      BY <1>5, <3>1, <3>3
    <3> QED BY <3>2, <3>4 DEF IsPlaceholder
  <2> QED BY <1>6, <2>1, <2>2
<1> QED BY <1>1, <1>4, <1>8, <1>9 DEF Stands

LEMMA StandsItself ==
  ASSUME NEW text PROVE Stands(text, text)
  BY HidesItself DEF Stands

\* Texts without ends, joined.
LEMMA NoEndsJoined ==
  ASSUME NEW S, NEW s \in Seq(S), NEW t \in Seq(S), Ends(s) = {}, Ends(t) = {}
  PROVE  s \o t \in Seq(S) /\ Ends(s \o t) = {} /\ Bytes(s \o t) = Bytes(s) + Bytes(t)
<1>1. \A x : x \in Ends(s \o t) <=> x \in Ends(s) \/ \E e \in Ends(t) : x = e + Bytes(s)
  BY PartsJoined
<1>2. Ends(s \o t) = {}
  BY <1>1
<1>3. Bytes(s \o t) = Bytes(s) + Bytes(t)
  BY Concatenated
<1> QED BY <1>2, <1>3, ConcatProperties

LEMMA OneOf ==
  ASSUME NEW V, NEW x \in V, x # "LF"
  PROVE  <<x>> \in Seq(V) /\ Ends(<<x>>) = {} /\ Bytes(<<x>>) = Width(x)
<1>1. DOMAIN <<x>> = {1} /\ <<x>>[1] = x /\ <<x>> \in Seq(V)
  OBVIOUS
<1>2. \A i \in DOMAIN <<x>> : <<x>>[i] # "LF"
  BY <1>1
<1> QED BY <1>1, <1>2, NoEnds, Single

LEMMA ThreeJoined ==
  ASSUME NEW x, NEW y, NEW z
  PROVE  (<<x>> \o <<y>>) \o <<z>> = <<x, y, z>>
<1> DEFINE V == {x, y, z}
           a == <<x>>
           b == <<y>>
           c == <<z>>
           ab == a \o b
           d == <<x, y, z>>
<1>1. /\ a \in Seq(V) /\ Len(a) = 1 /\ a[1] = x
      /\ b \in Seq(V) /\ Len(b) = 1 /\ b[1] = y
      /\ c \in Seq(V) /\ Len(c) = 1 /\ c[1] = z
      /\ d \in Seq(V) /\ Len(d) = 3 /\ d[1] = x /\ d[2] = y /\ d[3] = z
  OBVIOUS
<1> HIDE DEF a, b, c, d, V
<1>2. ab \in Seq(V) /\ Len(ab) = 2 /\ ab[1] = x /\ ab[2] = y
  <2>1. /\ a \o b \in Seq(V) /\ Len(a \o b) = Len(a) + Len(b)
        /\ \A i \in 1 .. Len(a) + Len(b) :
             (a \o b)[i] = IF i <= Len(a) THEN a[i] ELSE b[i - Len(a)]
    BY <1>1, ConcatProperties
  <2> QED BY <1>1, <2>1
<1> HIDE DEF ab
<1>3. ab \o c \in Seq(V) /\ Len(ab \o c) = 3 /\ (ab \o c)[1] = x /\ (ab \o c)[2] = y /\ (ab \o c)[3] = z
  <2>1. /\ ab \o c \in Seq(V) /\ Len(ab \o c) = Len(ab) + Len(c)
        /\ \A i \in 1 .. Len(ab) + Len(c) :
             (ab \o c)[i] = IF i <= Len(ab) THEN ab[i] ELSE c[i - Len(ab)]
    BY <1>1, <1>2, ConcatProperties
  <2> QED BY <1>1, <1>2, <2>1
<1>4. \A i \in 1 .. 3 : (ab \o c)[i] = d[i]
  BY <1>1, <1>3
<1>5. ab \o c = d
  BY <1>1, <1>3, <1>4, SeqEqual
<1> QED BY <1>5 DEF a, b, c, ab, d

\* What stands where a text starts, or after "return".
IsAtStart(p) == (p.at = 0 /\ p.lexeme \in {"return", "0"}) \/ (p.at = 7 /\ p.lexeme = "0")

\* The placeholder is no longer than the room it is given.
LEMMA PlaceholderIs ==
  ASSUME NEW S, HasBody(S), NEW room \in Nat \ {0}
  PROVE  /\ Placeholder(room) \in Seq(S) /\ Ends(Placeholder(room)) = {}
         /\ Bytes(Placeholder(room)) \in 0 .. room
         /\ \A p \in Places(Placeholder(room)) : IsAtStart(p)
<1>1. Width("0") = 1 /\ Width("return") = 6 /\ Width(" ") = 1
  BY DEF Width, Keywords
<1> DEFINE a == <<"return">>
           b == <<" ">>
           c == <<"0">>
           V == {"return", " ", "0"}
<1>2. "return" \in V /\ " " \in V /\ "0" \in V /\ "return" # "LF" /\ " " # "LF" /\ "0" # "LF"
  OBVIOUS
<1>3. Seq(V) \subseteq Seq(S)
  BY SeqMonotonic DEF HasBody
<1> HIDE DEF V
<1>4. /\ a \in Seq(V) /\ Ends(a) = {} /\ Bytes(a) = 6
      /\ b \in Seq(V) /\ Ends(b) = {} /\ Bytes(b) = 1
      /\ c \in Seq(V) /\ Ends(c) = {} /\ Bytes(c) = 1
  BY ONLY <1>1, <1>2, OneOf
<1>10. /\ \A p \in Places(a) : p.at = 0 /\ p.lexeme = "return"
       /\ Places(b) = {}
       /\ \A p \in Places(c) : p.at = 0 /\ p.lexeme = "0"
  <2>1. DOMAIN b = {1} /\ b[1] \in Blanks
    BY DEF Blanks
  <2>2. \A i \in DOMAIN b : b[i] \in Blanks
    BY <2>1
  <2>3. Places(b) = {}
    BY <2>2, NoPlaces
  <2> QED BY <1>2, <2>3, OnePlace
<1>5. (a \o b) \o c = <<"return", " ", "0">>
  BY ONLY ThreeJoined
<1> HIDE DEF a, b
<1>6. CASE room < 8
  <2>1. Placeholder(room) = c
    BY <1>6 DEF Placeholder
  <2> HIDE DEF c
  <2> QED BY <1>3, <1>4, <1>10, <2>1 DEF IsAtStart
<1> HIDE DEF c
<1>7. a \o b \in Seq(V) /\ Ends(a \o b) = {} /\ Bytes(a \o b) = 7
  BY <1>4, NoEndsJoined
<1>11. \A p \in Places(a \o b) : p.at = 0 /\ p.lexeme = "return"
  <2>1. \A x : x \in Places(a \o b) <=>
               \/ x \in Places(a)
               \/ \E p \in Places(b) : x = [at |-> p.at + Bytes(a), lexeme |-> p.lexeme]
    BY <1>4, PartsJoined
  <2> QED BY <1>10, <2>1
<1> DEFINE ab == a \o b
<1> HIDE DEF ab
<1>8. ab \o c \in Seq(V) /\ Ends(ab \o c) = {} /\ Bytes(ab \o c) = 8
  <2>1. ab \in Seq(V) /\ Ends(ab) = {} /\ Bytes(ab) = 7
    BY <1>7 DEF ab
  <2> QED BY <1>4, <2>1, NoEndsJoined
<1>12. \A p \in Places(ab \o c) : IsAtStart(p)
  <2>1. ab \in Seq(V) /\ Bytes(ab) = 7 /\ \A p \in Places(ab) : p.at = 0 /\ p.lexeme = "return"
    BY <1>7, <1>11 DEF ab
  <2>2. \A x : x \in Places(ab \o c) <=>
               \/ x \in Places(ab)
               \/ \E p \in Places(c) : x = [at |-> p.at + Bytes(ab), lexeme |-> p.lexeme]
    BY <1>4, <2>1, PartsJoined
  <2>3. ASSUME NEW p \in Places(c)
        PROVE  IsAtStart([at |-> p.at + Bytes(ab), lexeme |-> p.lexeme])
    BY <1>10, <2>1 DEF IsAtStart
  <2>4. \A p \in Places(ab) : IsAtStart(p)
    BY <2>1 DEF IsAtStart
  <2> QED BY <2>2, <2>3, <2>4
<1>9. CASE ~(room < 8)
  <2>1. Placeholder(room) = (a \o b) \o c
    BY <1>5, <1>9 DEF Placeholder
  <2>2. Placeholder(room) = ab \o c
    BY <2>1 DEF ab
  <2> QED BY <1>3, <1>8, <1>9, <1>12, <2>2
<1> QED BY <1>6, <1>9

\* What lies between two places of a line, and of the blanks before the cursor.
LEMMA PieceOfLine ==
  ASSUME NEW S, NEW text \in Seq(S), NEW line, IsLineOf(text, line),
         NEW i \in line.from .. line.to, NEW j \in i .. line.to
  PROVE  /\ SubSeq(text, i, j - 1) \in Seq(S) /\ Ends(SubSeq(text, i, j - 1)) = {}
         /\ Bytes(SubSeq(text, i, j - 1)) = At(text, j) - At(text, i)
<1> DEFINE piece == SubSeq(text, i, j - 1)
           n == Len(text)
<1>1. /\ n \in Nat /\ line.from \in 1 .. n /\ line.to \in line.from .. n + 1
      /\ \A k \in line.from .. line.to - 1 : text[k] # "LF"
  BY DEF IsLineOf
<1>2. i \in 1 .. n + 1 /\ j \in i .. n + 1 /\ i \in Int /\ j - 1 \in Int /\ j \in Int
  BY <1>1
<1>3. /\ piece \in Seq(S)
      /\ Bytes(piece) = At(text, j) - At(text, i)
  BY <1>2, BytesBetween DEF n
<1>4. \A k \in i .. j - 1 : k \in 1 .. n /\ text[k] # "LF"
  BY <1>1, <1>2
<1>5. \A k \in i .. j - 1 : text[k] \in S
  BY <1>4 DEF n
<1>6. /\ Len(piece) = IF i <= j - 1 THEN (j - 1) - i + 1 ELSE 0
      /\ \A k \in 1 .. ((j - 1) - i + 1) : piece[k] = text[i + k - 1]
  BY <1>2, <1>5, SubSeqProperties
<1>7. DOMAIN piece = 1 .. Len(piece) /\ Len(piece) \in Nat
  BY <1>3, LenProperties
<1> HIDE DEF piece, n
<1>8. ASSUME NEW k \in DOMAIN piece PROVE piece[k] # "LF"
  <2>1. k \in 1 .. ((j - 1) - i + 1)
    BY <1>2, <1>6, <1>7
  <2> DEFINE l == i + k - 1
  <2>2. piece[k] = text[l] /\ l \in i .. j - 1
    BY <1>2, <1>6, <2>1
  <2> HIDE DEF l
  <2> QED BY <1>4, <2>2
<1>9. Ends(piece) = {}
  BY <1>8, NoEnds
<1> QED BY <1>3, <1>9 DEF piece

\* A blank is a byte, so an indentation has as many bytes as blanks.
LEMMA IndentIs ==
  ASSUME NEW S, NEW text \in Seq(S), NEW line, IsLineOf(text, line)
  PROVE  At(text, line.cursor) = At(text, line.from) + Indent(line) /\ Indent(line) \in Nat
<1> DEFINE n == Len(text)
           from == line.from
           cursor == line.cursor
           T == {k \in from .. cursor : At(text, k) = At(text, from) + (k - from)}
<1>1. n \in Nat
  OBVIOUS
<1>2. /\ from \in 1 .. n /\ line.to \in from .. n + 1 /\ cursor \in from .. line.to
      /\ \A k \in from .. cursor - 1 : text[k] \in Blanks
  BY DEF IsLineOf
<1>3. from \in Int /\ cursor \in from .. n + 1 /\ cursor \in Int
  BY <1>1, <1>2
<1>4. /\ \A k \in 1 .. n + 1 : At(text, k) \in Nat
      /\ \A k \in 1 .. n : At(text, k + 1) = At(text, k) + Width(text[k])
  BY BytesAt
<1> HIDE DEF n, from, cursor
<1>5. from \in T
  BY <1>1, <1>2, <1>3, <1>4
<1>6. ASSUME NEW k \in from .. cursor - 1, k \in T PROVE k + 1 \in T
  <2>1. k \in 1 .. n /\ k \in Int /\ k + 1 \in from .. cursor
    BY <1>1, <1>2, <1>3
  <2>2. text[k] \in Blanks
    BY <1>2
  <2>3. Width(text[k]) = 1
    BY <2>2, BlanksAre
  <2>4. At(text, k) = At(text, from) + (k - from)
    BY <1>6
  <2>5. At(text, k + 1) = At(text, k) + 1
    BY <1>4, <2>1, <2>3
  <2>6. At(text, from) \in Nat
    BY <1>1, <1>2, <1>4
  <2>7. At(text, k + 1) = At(text, from) + ((k + 1) - from)
    BY <1>3, <2>1, <2>4, <2>5, <2>6
  <2> QED BY <2>1, <2>7
<1> HIDE DEF T
<1>7. \A k \in from .. cursor : k \in T
  BY ONLY <1>3, <1>5, <1>6, IntervalInduction
<1>8. cursor \in T
  BY <1>3, <1>7
<1>9. At(text, cursor) = At(text, from) + (cursor - from)
  BY <1>8 DEF T
<1>10. cursor - from \in Nat
  BY <1>3, <1>2
<1> QED BY <1>9, <1>10 DEF Indent, from, cursor

\* The text of a line starts where its indentation ends.
LEMMA IndentIsAPlace ==
  ASSUME NEW S, NEW text \in Seq(S), NEW line, IsLineOf(text, line), line.cursor < line.to
  PROVE  \E q \in Places(SubSeq(text, line.from, line.to - 1)) : q.at = Indent(line)
<1> DEFINE n == Len(text)
           from == line.from
           cursor == line.cursor
           to == line.to
           before == SubSeq(text, from, cursor - 1)
           content == SubSeq(text, cursor, to - 1)
<1>1. n \in Nat /\ \A k \in 1 .. n : text[k] \in S
  OBVIOUS
<1>2. /\ from \in 1 .. n /\ to \in from .. n + 1 /\ cursor \in from .. to /\ cursor < to
      /\ text[cursor] \notin Blanks
  BY DEF IsLineOf
<1>3. /\ from \in Int /\ cursor \in Int /\ to \in Int
      /\ from \in line.from .. line.to /\ cursor \in line.from .. line.to
      /\ cursor \in from .. line.to /\ to \in cursor .. line.to
  BY <1>1, <1>2
<1>4. before \in Seq(S) /\ Bytes(before) = At(text, cursor) - At(text, from)
  BY <1>3, PieceOfLine
<1>5. content \in Seq(S)
  BY <1>3, PieceOfLine
<1>6. Bytes(before) = Indent(line)
  <2>1. \A k \in 1 .. n + 1 : At(text, k) \in Nat
    BY BytesAt DEF n
  <2>2. from \in 1 .. n + 1
    BY <1>1, <1>2
  <2>3. At(text, from) \in Nat
    BY <2>1, <2>2
  <2> QED BY <1>4, <2>3, IndentIs DEF cursor, from
<1>7. before \o content = SubSeq(text, from, to - 1)
  <2> DEFINE k == cursor - 1
             l == to - 1
  <2>1. from \in 1 .. n + 1 /\ k \in from - 1 .. n /\ l \in k .. n /\ k + 1 = cursor
    BY <1>1, <1>2, <1>3
  <2> HIDE DEF k, l, from, cursor, to
  <2>2. SubSeq(text, from, k) \o SubSeq(text, k + 1, l) = SubSeq(text, from, l)
    BY <2>1, ConcatAdjacentSubSeq DEF n
  <2> QED BY <2>1, <2>2 DEF k, l
<1>8. Len(content) > 0 /\ content[1] = text[cursor]
  <2> HIDE DEF n, from, cursor, to
  <2> DEFINE l == to - 1
  <2>1. /\ cursor \in Int /\ l \in Int /\ cursor <= l
        /\ \A k \in cursor .. l : text[k] \in S
    BY <1>1, <1>2, <1>3
  <2> HIDE DEF l
  <2>2. /\ Len(SubSeq(text, cursor, l)) = l - cursor + 1
        /\ \A i \in 1 .. (l - cursor + 1) : SubSeq(text, cursor, l)[i] = text[cursor + i - 1]
    BY <2>1, SubSeqProperties
  <2>3. 1 \in 1 .. (l - cursor + 1) /\ cursor + 1 - 1 = cursor
    BY <2>1
  <2>4. SubSeq(text, cursor, l)[1] = text[cursor + 1 - 1]
    BY <2>2, <2>3
  <2> QED BY <2>1, <2>2, <2>3, <2>4 DEF l
<1> HIDE DEF before, content
<1>9. PICK q \in Places(content) : q.at = 0
  BY <1>2, <1>5, <1>8, FirstIsAPlace
<1>10. [at |-> q.at + Bytes(before), lexeme |-> q.lexeme] \in Places(before \o content)
  BY <1>4, <1>5, PartsJoined
<1>11. q.at + Bytes(before) = Indent(line)
  BY <1>6, <1>9, IndentIs
<1> QED BY <1>7, <1>10, <1>11

\* A line of a body has its bytes, and a body on its first line fits and stands there.
LEMMA BodyLineStands ==
  ASSUME NEW S, HasBlanks(S), HasBody(S), NEW text \in Seq(S), NEW line, IsLineOf(text, line),
         NEW isFirst, isFirst => IsCode(text, line)
  PROVE  /\ BodyLine(text, line, isFirst) \in Seq(S)
         /\ Stands(SubSeq(text, line.from, line.to - 1), BodyLine(text, line, isFirst))
<1> DEFINE whole == SubSeq(text, line.from, line.to - 1)
           content == SubSeq(text, line.cursor, line.to - 1)
           body == Placeholder(Bytes(content))
           new == BodyLine(text, line, isFirst)
<1>1. /\ line.from \in line.from .. line.to /\ line.to \in line.from .. line.to
      /\ line.cursor \in line.from .. line.to /\ line.to \in line.cursor .. line.to
      /\ line.from \in Int /\ line.to \in Int /\ line.cursor \in Int
      /\ \A k \in line.from .. line.cursor - 1 : text[k] \in Blanks
  BY DEF IsLineOf
<1>2. /\ Ends(whole) = {} /\ Bytes(whole) = At(text, line.to) - At(text, line.from)
      /\ Bytes(content) = At(text, line.to) - At(text, line.cursor)
  BY <1>1, PieceOfLine
<1>3. /\ \A k \in 1 .. Len(text) + 1 : At(text, k) \in Nat
      /\ \A j, k \in 1 .. Len(text) + 1 : j < k => At(text, j) < At(text, k)
  BY BytesAt
<1>4. /\ line.from \in 1 .. Len(text) + 1 /\ line.cursor \in 1 .. Len(text) + 1
      /\ line.to \in 1 .. Len(text) + 1 /\ line.cursor <= line.to
  <2>1. Len(text) \in Nat
    OBVIOUS
  <2> QED BY <2>1 DEF IsLineOf
<1>5. Bytes(whole) = Indent(line) + Bytes(content) /\ Indent(line) \in Nat
  <2>1. At(text, line.from) \in Nat /\ At(text, line.cursor) \in Nat /\ At(text, line.to) \in Nat
    BY <1>3, <1>4
  <2> QED BY <1>2, <2>1, IndentIs
<1>6. Bytes(content) \in Nat /\ (line.cursor < line.to => Bytes(content) # 0)
  <2>1. At(text, line.cursor) \in Nat /\ At(text, line.to) \in Nat
    BY <1>3, <1>4
  <2>2. line.cursor < line.to => At(text, line.cursor) < At(text, line.to)
    BY <1>3, <1>4
  <2>3. line.cursor < line.to \/ line.cursor = line.to
    BY <1>1, <1>4
  <2> QED BY <1>2, <2>1, <2>2, <2>3
<1>7. CASE isFirst
  <2>1. line.cursor < line.to
    <3>1. PICK i \in line.from .. line.to - 1 : text[i] \notin Blanks
      BY <1>7 DEF IsCode
    <3>2. i \notin line.from .. line.cursor - 1
      BY <1>1, <3>1
    <3> QED BY <1>1, <3>2
  <2>2. Bytes(content) \in Nat \ {0}
    BY <1>6, <2>1
  <2>3. new = Spaces(Indent(line)) \o body \o Spaces(Bytes(content) - Bytes(body))
    BY <1>7 DEF BodyLine
  <2> HIDE DEF whole, content, new
  <2>4. body \in Seq(S) /\ Ends(body) = {} /\ Bytes(body) \in 0 .. Bytes(content)
    BY <2>2, PlaceholderIs
  <2> HIDE DEF body
  <2>5. Bytes(content) - Bytes(body) \in Nat
    BY <2>2, <2>4
  <2> DEFINE p == Spaces(Indent(line))
             q == Spaces(Bytes(content) - Bytes(body))
  <2>6. /\ p \in Seq(S) /\ Ends(p) = {} /\ Bytes(p) = Indent(line)
        /\ q \in Seq(S) /\ Ends(q) = {} /\ Bytes(q) = Bytes(content) - Bytes(body)
    BY <1>5, <2>5, SpacesAre
  <2>7. new = (p \o body) \o q
    BY <2>3
  <2> HIDE DEF p, q
  <2>8. p \o body \in Seq(S) /\ Ends(p \o body) = {} /\ Bytes(p \o body) = Indent(line) + Bytes(body)
    BY <2>4, <2>6, NoEndsJoined
  <2>9. /\ (p \o body) \o q \in Seq(S) /\ Ends((p \o body) \o q) = {}
        /\ Bytes((p \o body) \o q) = Bytes(p \o body) + Bytes(q)
    BY <2>6, <2>8, NoEndsJoined
  <2>10. new \in Seq(S) /\ Ends(new) = {} /\ Bytes(new) = Bytes(whole)
    BY <1>5, <2>2, <2>4, <2>6, <2>7, <2>8, <2>9
  <2>11. \E q0 \in Places(whole) : q0.at = Indent(line)
    BY <2>1, IndentIsAPlace DEF whole
  <2>12. \A x \in Places(new) : \E y \in Places(body) : x = [at |-> y.at + Indent(line), lexeme |-> y.lexeme]
    <3>1. Places(p) = {} /\ Places(q) = {}
      BY <1>5, <2>5, SpacesAre DEF p, q
    <3>2. \A x : x \in Places(p \o body) <=>
                 \/ x \in Places(p)
                 \/ \E y \in Places(body) : x = [at |-> y.at + Bytes(p), lexeme |-> y.lexeme]
      BY <2>4, <2>6, PartsJoined
    <3> DEFINE r == p \o body
    <3>3. r \in Seq(S)
      BY <2>8
    <3> HIDE DEF r
    <3>4. \A x : x \in Places(r \o q) <=>
                 \/ x \in Places(r)
                 \/ \E y \in Places(q) : x = [at |-> y.at + Bytes(r), lexeme |-> y.lexeme]
      BY <2>6, <3>3, PartsJoined
    <3>5. new = r \o q
      BY <2>7 DEF r
    <3>6. \A x \in Places(new) : x \in Places(r)
      BY <3>1, <3>4, <3>5
    <3> QED BY <2>6, <3>1, <3>2, <3>6 DEF r
  <2>13. ASSUME NEW x \in Places(new) PROVE IsPlaceholder(x, Places(whole))
    <3>1. PICK y \in Places(body) : x = [at |-> y.at + Indent(line), lexeme |-> y.lexeme]
      BY <2>12
    <3>2. IsAtStart(y)
      BY <2>2, PlaceholderIs DEF body
    <3>3. PICK q0 \in Places(whole) : q0.at = Indent(line)
      BY <2>11
    <3>4. \/ x.at = q0.at /\ x.lexeme \in {"return", "0"}
          \/ x.at = q0.at + 7 /\ x.lexeme = "0"
      BY <1>5, <3>1, <3>2, <3>3 DEF IsAtStart
    <3> QED BY <3>4 DEF IsPlaceholder
  <2>14. SameLines(whole, new)
    BY <1>2, <2>10 DEF SameLines
  <2> QED BY <2>10, <2>13, <2>14 DEF Stands, new, whole
<1>8. CASE ~isFirst
  <2>1. new = Spaces(Bytes(whole))
    BY <1>8 DEF BodyLine
  <2>2. Bytes(whole) \in Nat
    BY <1>5, <1>6
  <2> HIDE DEF whole, content, new
  <2>3. new \in Seq(S) /\ Ends(new) = {} /\ Bytes(new) = Bytes(whole) /\ Places(new) = {}
    BY <2>1, <2>2, SpacesAre
  <2>4. SameLines(whole, new)
    BY <1>2, <2>3 DEF SameLines
  <2> QED BY <2>3, <2>4 DEF Stands, new, whole
<1> QED BY <1>7, <1>8

\* The index that the parts up to the one at i stand for the text up to.
Within(line, i) == i \in line.from .. line.to - 1
IsEnd(lines, i, m) ==
  \/ \E line \in lines : Within(line, i) /\ m = line.to - 1
  \/ m = i /\ ~\E line \in lines : Within(line, i)

\* Lines do not overlap, so the end is the index, or that of the line it is in.
LEMMA LinesApart ==
  ASSUME NEW text, Len(text) \in Nat, NEW lines, AreLines(text, lines)
  PROVE  /\ \A a, b \in lines : \A i \in Nat : Within(a, i) /\ Within(b, i) => a = b
         /\ \A i \in Nat : (\E line \in lines : line.from = i + 1) => IsEnd(lines, i, i)
         /\ \A i \in Nat : (~\E line \in lines : Within(line, i + 1)) => IsEnd(lines, i, i)
         /\ IsEnd(lines, Len(text), Len(text))
         /\ \A m : IsEnd(lines, 0, m) => m = 0
<1>1. \A line \in lines : /\ line.from \in 1 .. Len(text)
                          /\ line.to \in line.from .. Len(text) + 1
                          /\ line.from \in Int /\ line.to \in Int
  BY DEF AreLines, IsLineOf
<1>2. ASSUME NEW a \in lines, NEW b \in lines, NEW i \in Nat, Within(a, i), Within(b, i) PROVE a = b
  <2>1. a.from \in Int /\ b.from \in Int /\ a.to \in Int /\ b.to \in Int
    BY <1>1
  <2>2. (a.from = b.from => a = b) /\ (a.from < b.from => a.to <= b.from) /\ (b.from < a.from => b.to <= a.from)
    BY DEF AreLines
  <2> QED BY <1>2, <2>1, <2>2 DEF Within
<1>3. ASSUME NEW i \in Nat, NEW line \in lines, line.from = i + 1 PROVE IsEnd(lines, i, i)
  <2>1. ASSUME NEW k \in lines, Within(k, i) PROVE i = k.to - 1
    <3>1. k.from < line.from
      BY <1>1, <1>3, <2>1 DEF Within
    <3>2. k.to <= line.from
      BY <3>1 DEF AreLines
    <3> QED BY <1>1, <1>3, <2>1, <3>2 DEF Within
  <2> QED BY <2>1 DEF IsEnd
<1>4. ASSUME NEW i \in Nat, ~\E line \in lines : Within(line, i + 1) PROVE IsEnd(lines, i, i)
  <2>1. ASSUME NEW k \in lines, Within(k, i) PROVE i = k.to - 1
    <3>1. ~Within(k, i + 1)
      BY <1>4
    <3> QED BY <1>1, <2>1, <3>1 DEF Within
  <2> QED BY <2>1 DEF IsEnd
<1>5. IsEnd(lines, Len(text), Len(text))
  <2>1. ASSUME NEW k \in lines, Within(k, Len(text)) PROVE Len(text) = k.to - 1
    BY <1>1, <2>1 DEF Within
  <2> QED BY <2>1 DEF IsEnd
<1>6. \A m : IsEnd(lines, 0, m) => m = 0
  <2>1. \A k \in lines : ~Within(k, 0)
    BY <1>1 DEF Within
  <2> QED BY <2>1 DEF IsEnd
<1> QED BY <1>2, <1>3, <1>4, <1>5, <1>6

\* Whatever the bodies are.
LEMMA MaskBodiesStand ==
  ASSUME NEW S, HasBlanks(S), HasBody(S), NEW text \in Seq(S), NEW lines, AreLines(text, lines),
         NEW bodies
  PROVE  MaskBodies(text, lines, bodies) \in Seq(S) /\ Stands(text, MaskBodies(text, lines, bodies))
<1> DEFINE n == Len(text)
           IsFirst(line, body) ==
             IsCode(text, line) /\ \A other \in body : IsCode(text, other) => line.from <= other.from
           Begins(line) == \E body \in bodies : line \in body /\ IsFirst(line, body)
           Whole(line) == SubSeq(text, line.from, line.to - 1)
           New(line) == IF \E body \in bodies : line \in body
                        THEN BodyLine(text, line, Begins(line)) ELSE Whole(line)
           Part(i) == IF \E line \in lines : line.from = i /\ line.to > i
                      THEN New(CHOOSE line \in lines : line.from = i)
                      ELSE IF \E line \in lines : i \in line.from .. line.to - 1 THEN <<>> ELSE <<text[i]>>
           parts == [i \in DOMAIN text |-> Part(i)]
<1>1. MaskBodies(text, lines, bodies) = FlattenSeq(parts)
  BY DEF MaskBodies
<1>2. \A line : Begins(line) => IsCode(text, line)
  OBVIOUS
<1> HIDE DEF Begins, parts, Part, New, Whole
<1>3. n \in Nat /\ DOMAIN text = 1 .. n /\ \A i \in 1 .. n : text[i] \in S
  OBVIOUS
<1>4. \A line \in lines : /\ IsLineOf(text, line)
                          /\ line.from \in 1 .. n /\ line.to \in line.from .. n + 1
                          /\ line.from \in Int /\ line.to \in Int
  BY DEF AreLines, IsLineOf
<1>5. /\ \A a, b \in lines : a.from = b.from => a = b
      /\ \A a, b \in lines : a.from < b.from => a.to <= b.from
  BY DEF AreLines
<1>6. /\ \A a, b \in lines : \A i \in Nat : Within(a, i) /\ Within(b, i) => a = b
      /\ \A i \in Nat : (\E line \in lines : line.from = i + 1) => IsEnd(lines, i, i)
      /\ \A i \in Nat : (~\E line \in lines : Within(line, i + 1)) => IsEnd(lines, i, i)
      /\ IsEnd(lines, n, n)
      /\ \A m : IsEnd(lines, 0, m) => m = 0
  BY <1>3, LinesApart
<1>7. ASSUME NEW line \in lines
      PROVE  Whole(line) \in Seq(S) /\ New(line) \in Seq(S) /\ Stands(Whole(line), New(line))
  <2>1. IsLineOf(text, line)
    BY <1>4
  <2>2. Whole(line) \in Seq(S) /\ Stands(Whole(line), Whole(line))
    <3>1. line.from \in line.from .. line.to /\ line.to \in line.from .. line.to
      BY <1>4
    <3> QED BY <2>1, <3>1, PieceOfLine, StandsItself DEF Whole
  <2>3. CASE \E body \in bodies : line \in body
    <3>1. New(line) = BodyLine(text, line, Begins(line))
      BY <2>3 DEF New
    <3>2. /\ BodyLine(text, line, Begins(line)) \in Seq(S)
          /\ Stands(SubSeq(text, line.from, line.to - 1), BodyLine(text, line, Begins(line)))
      BY <1>2, <2>1, BodyLineStands
    <3> QED BY <2>2, <3>1, <3>2 DEF Whole
  <2>4. CASE ~\E body \in bodies : line \in body
    <3>1. New(line) = Whole(line)
      BY <2>4 DEF New
    <3> QED BY <2>2, <3>1
  <2> QED BY <2>3, <2>4
<1> HIDE DEF n
\* The parts.
<1>8. ASSUME NEW i \in 1 .. n, NEW line \in lines, line.from = i, line.to > i
      PROVE  Part(i) = New(line)
  <2>1. (CHOOSE l \in lines : l.from = i) = line
    BY <1>5, <1>8
  <2>2. Part(i) = New(CHOOSE l \in lines : l.from = i)
    BY <1>8 DEF Part
  <2> QED BY <2>1, <2>2
<1>9. ASSUME NEW i \in 1 .. n, NEW line \in lines, Within(line, i), line.from # i
      PROVE  Part(i) = <<>>
  <2>1. ~\E l \in lines : l.from = i /\ l.to > i
    <3> SUFFICES ASSUME NEW l \in lines, l.from = i, l.to > i PROVE FALSE OBVIOUS
    <3>1. Within(l, i) /\ i \in Nat
      BY <1>3, <1>4 DEF Within
    <3> QED BY <1>6, <1>9, <3>1
  <2>2. \E l \in lines : i \in l.from .. l.to - 1
    BY <1>9 DEF Within
  <2> QED BY <2>1, <2>2 DEF Part
<1>10. ASSUME NEW i \in 1 .. n, ~\E line \in lines : Within(line, i)
       PROVE  Part(i) = <<text[i]>>
  <2>1. ~\E l \in lines : i \in l.from .. l.to - 1
    BY <1>10 DEF Within
  <2>2. ~\E l \in lines : l.from = i /\ l.to > i
    <3> SUFFICES ASSUME NEW l \in lines, l.from = i, l.to > i PROVE FALSE OBVIOUS
    <3>1. i \in l.from .. l.to - 1
      BY <1>3, <1>4
    <3> QED BY <2>1, <3>1
  <2> QED BY <2>1, <2>2 DEF Part
<1>11. ASSUME NEW i \in 1 .. n
       PROVE  Part(i) \in Seq(S) /\ (~(\E line \in lines : Within(line, i)) => <<text[i]>> \in Seq(S))
  <2>1. text[i] \in S /\ <<text[i]>> \in Seq(S) /\ <<>> \in Seq(S)
    BY <1>3
  <2>2. CASE \E line \in lines : Within(line, i) /\ line.from = i
    <3>1. PICK line \in lines : Within(line, i) /\ line.from = i
      BY <2>2
    <3>2. line.to > i
      BY <1>4, <3>1 DEF Within
    <3> QED BY <1>7, <1>8, <2>1, <3>1, <3>2
  <2>3. CASE \E line \in lines : Within(line, i) /\ line.from # i
    BY <1>9, <2>1, <2>3
  <2>4. CASE ~\E line \in lines : Within(line, i)
    BY <1>10, <2>1, <2>4
  <2> QED BY <2>2, <2>3, <2>4
<1>12. parts \in [1 .. n -> Seq(S)]
  BY <1>3, <1>11 DEF parts
<1>13. parts \in Seq(Seq(S)) /\ Len(parts) = n
  BY <1>3, <1>12, FunctionIsSeq
<1>14. \A i \in 1 .. n : parts[i] = Part(i)
  BY <1>3 DEF parts
<1>15. PICK f : IsFlat(f, parts, S) /\ FlattenSeq(parts) = f[n]
  BY <1>13, Flattened
<1>16. f \in [0 .. n -> Seq(S)] /\ f[0] = <<>> /\ \A i \in 1 .. n : f[i] = f[i - 1] \o Part(i)
  BY <1>13, <1>14, <1>15 DEF IsFlat
<1>17. /\ SubSeq(text, 1, 0) = <<>> /\ SubSeq(text, 1, n) = text
       /\ \A i \in 0 .. n : SubSeq(text, 1, i) \in Seq(S)
       /\ \A i \in 1 .. n : SubSeq(text, 1, i) = SubSeq(text, 1, i - 1) \o <<text[i]>>
  BY Fronts DEF n
<1> DEFINE T == {i \in Nat : \A m : IsEnd(lines, i, m) => Stands(SubSeq(text, 1, m), f[i])}
<1>18. 0 \in T
  BY <1>6, <1>16, <1>17, StandsItself
<1>19. ASSUME NEW i \in 0 .. n - 1, i \in T PROVE i + 1 \in T
  <2> DEFINE j == i + 1
  <2>1. j \in 1 .. n /\ j - 1 = i /\ i \in 0 .. n /\ j \in Nat /\ i \in Nat /\ j = i + 1
    BY <1>3
  <2>2. \A m : IsEnd(lines, i, m) => Stands(SubSeq(text, 1, m), f[i])
    BY <1>19
  <2> HIDE DEF j, T
  <2>3. f[j] = f[i] \o Part(j) /\ SubSeq(text, 1, j) = SubSeq(text, 1, i) \o <<text[j]>>
    BY <1>16, <1>17, <2>1
  <2>4. SubSeq(text, 1, i) \in Seq(S) /\ f[i] \in Seq(S)
    BY <1>16, <1>17, <2>1
  <2>5. ASSUME NEW m, IsEnd(lines, j, m) PROVE Stands(SubSeq(text, 1, m), f[j])
    <3>1. ASSUME NEW line \in lines, Within(line, j) PROVE m = line.to - 1
      <4>1. PICK l \in lines : Within(l, j) /\ m = l.to - 1
        BY <2>5, <3>1 DEF IsEnd
      <4> QED BY <1>6, <2>1, <3>1, <4>1
    <3>2. CASE \E line \in lines : Within(line, j) /\ line.from = j
      <4>1. PICK line \in lines : Within(line, j) /\ line.from = j
        BY <3>2
      <4>2. line.to > j /\ line.to \in j .. n + 1 /\ j \in 1 .. n + 1
        BY <1>3, <1>4, <2>1, <4>1 DEF Within
      <4>3. Part(j) = New(line) /\ m = line.to - 1
        BY <1>8, <2>1, <3>1, <4>1, <4>2
      <4>4. IsEnd(lines, i, i)
        BY <1>6, <2>1, <4>1
      <4>5. Stands(SubSeq(text, 1, i), f[i])
        BY <2>2, <4>4
      <4>6. Whole(line) \in Seq(S) /\ New(line) \in Seq(S) /\ Stands(Whole(line), New(line))
        BY <1>7
      <4>7. SubSeq(text, 1, i) \o Whole(line) = SubSeq(text, 1, m)
        <5>1. SubSeq(text, 1, j - 1) \o SubSeq(text, j, line.to - 1) = SubSeq(text, 1, line.to - 1)
          BY <4>2, BytesBetween DEF n
        <5> QED BY <2>1, <4>1, <4>3, <5>1 DEF Whole
      <4>8. Stands(SubSeq(text, 1, i) \o Whole(line), f[i] \o New(line))
        BY <2>4, <4>5, <4>6, StandsJoined
      <4> QED BY <2>3, <4>3, <4>7, <4>8
    <3>3. CASE \E line \in lines : Within(line, j) /\ line.from # j
      <4>1. PICK line \in lines : Within(line, j) /\ line.from # j
        BY <3>3
      <4>2. Part(j) = <<>> /\ m = line.to - 1
        BY <1>9, <2>1, <3>1, <4>1
      <4>3. Within(line, i)
        BY <1>4, <2>1, <4>1 DEF Within
      <4>4. IsEnd(lines, i, m)
        BY <4>2, <4>3 DEF IsEnd
      <4>5. f[j] = f[i]
        <5>1. f[i] \o <<>> = f[i]
          BY <2>4, ConcatEmptySeq
        <5> QED BY <2>3, <4>2, <5>1
      <4> QED BY <2>2, <4>4, <4>5
    <3>4. CASE ~\E line \in lines : Within(line, j)
      <4>1. Part(j) = <<text[j]>> /\ <<text[j]>> \in Seq(S) /\ m = j
        BY <1>10, <1>11, <2>1, <2>5, <3>4 DEF IsEnd
      <4>2. IsEnd(lines, i, i)
        BY <1>6, <2>1, <3>4
      <4>3. Stands(SubSeq(text, 1, i), f[i])
        BY <2>2, <4>2
      <4>4. Stands(<<text[j]>>, <<text[j]>>)
        BY StandsItself
      <4>5. Stands(SubSeq(text, 1, i) \o <<text[j]>>, f[i] \o <<text[j]>>)
        BY <2>4, <4>1, <4>3, <4>4, StandsJoined
      <4> QED BY <2>3, <4>1, <4>5
    <3> QED BY <3>2, <3>3, <3>4
  <2>6. j \in T
    BY <2>1, <2>5 DEF T
  <2> QED BY <2>1, <2>6
<1> HIDE DEF T
<1>20. \A i \in 0 .. n : i \in T
  BY <1>3, <1>18, <1>19, UpwardInduction
<1>21. Stands(SubSeq(text, 1, n), f[n]) /\ f[n] \in Seq(S)
  <2>1. n \in 0 .. n
    BY <1>3
  <2> QED BY <1>6, <1>16, <1>20, <2>1 DEF T
<1> QED BY <1>1, <1>15, <1>17, <1>21

LEMMA LinesAreRecords ==
  ASSUME NEW text
  PROVE  \A line \in LinesOf(text) :
           line = [from |-> line.from, to |-> line.to, cursor |-> line.cursor]
  BY DEF LinesOf, Line

LEMMA DefinitionBodiesStand ==
  ASSUME NEW S, HasBlanks(S), HasBody(S), NEW text \in Seq(S)
  PROVE  /\ MaskCurrentDefinitionBodies(text) \in Seq(S)
         /\ Stands(text, MaskCurrentDefinitionBodies(text))
<1> DEFINE lines == {TrimLineEnding(text, line) : line \in LinesOf(text)}
<1>1. AreLines(text, lines)
  <2>1. Len(text) \in Nat
    OBVIOUS
  <2> QED BY <2>1, WholeLines, LinesAreRecords, TrimmedLines
<1> HIDE DEF lines
<1>2. \E bodies : MaskCurrentDefinitionBodies(text) = MaskBodies(text, lines, bodies)
  BY DEF MaskCurrentDefinitionBodies, lines
<1> QED BY <1>1, <1>2, MaskBodiesStand

-----------------------------------------------------------------------------
(***************************************************************************)
(* Files.  Lexemes are words and what the masks write.                     *)
(***************************************************************************)
Lexemes == STRING \cup {"LF", " ", "0", "return", "_"}
SourceInv == source \in Seq(Lexemes)

LEMMA LexemesHave == HasBlanks(Lexemes) /\ HasBody(Lexemes) /\ HasBar(Lexemes)
  BY DEF Lexemes, HasBlanks, HasBody, HasBar

LEMMA WrittenLines == Written \subseteq Seq(Lexemes) /\ <<"LF">> \in Seq(Lexemes)
<1>1. "LF" \in Lexemes /\ STRING \subseteq Lexemes
  BY DEF Lexemes
<1> HIDE DEF Lexemes
<1>2. Seq(STRING) \subseteq Seq(Lexemes)
  BY <1>1, SeqMonotonic
<1>3. <<"LF">> \in Seq(Lexemes)
  BY <1>1
<1> QED BY <1>2, <1>3, WrittenAssumption

\* SourceInv is inductive: a file grows by whole lines of words.
LEMMA InductiveSource == Spec => []SourceInv
<1>1. Init => SourceInv
  BY EmptySeq DEF Init, SourceInv
<1>2. SourceInv /\ [Next]_vars => SourceInv'
  <2> SUFFICES ASSUME SourceInv, [Next]_vars PROVE SourceInv' OBVIOUS
  <2>1. CASE Write
    <3>1. PICK line \in Written : source' = IF source = <<>> THEN line ELSE source \o <<"LF">> \o line
      BY <2>1 DEF Write
    <3>2. line \in Seq(Lexemes) /\ <<"LF">> \in Seq(Lexemes) /\ source \in Seq(Lexemes)
      BY WrittenLines DEF SourceInv
    <3> DEFINE end == <<"LF">>
    <3>3. end \in Seq(Lexemes) /\ source' = IF source = <<>> THEN line ELSE (source \o end) \o line
      BY <3>1, <3>2
    <3> HIDE DEF end
    <3>4. source \o end \in Seq(Lexemes)
      BY <3>2, <3>3, ConcatProperties
    <3>5. (source \o end) \o line \in Seq(Lexemes)
      BY <3>2, <3>4, ConcatProperties
    <3> QED BY <3>2, <3>3, <3>5 DEF SourceInv
  <2>2. CASE Type
    BY <2>2 DEF Type, SourceInv
  <2>3. CASE Request
    BY <2>3 DEF Request, SourceInv
  <2>4. CASE Highlight
    BY <2>4 DEF Highlight, SourceInv
  <2>5. CASE UNCHANGED vars
    BY <2>5 DEF vars, SourceInv
  <2> QED BY <2>1, <2>2, <2>3, <2>4, <2>5 DEF Next
<1> QED BY <1>1, <1>2, PTL DEF Spec

\* The lines of each candidate are those of the source, and its lexemes are in place.  If
\* no body is masked, the bodiless one is the syntax-masked text, which only hides.
LEMMA EachCandidate == SourceInv => MasksKeepPlaces
<1> SUFFICES ASSUME SourceInv PROVE MasksKeepPlaces OBVIOUS
<1> DEFINE syntax == MaskCurrentSyntax(source)
           bodiless == MaskCurrentDefinitionBodies(syntax)
<1>1. source \in Seq(Lexemes)
  BY DEF SourceInv
<1>2. syntax \in Seq(Lexemes) /\ Hides(source, syntax)
  BY <1>1, SyntaxHides, LexemesHave
<1> HIDE DEF syntax
<1>3. bodiless \in Seq(Lexemes) /\ Stands(syntax, bodiless)
  BY <1>2, DefinitionBodiesStand, LexemesHave
<1> HIDE DEF bodiless
<1>4. ASSUME NEW text \in Candidates(source, syntax, bodiless)
      PROVE  /\ text \in Seq(Lexemes) /\ SameLines(source, text)
             /\ \A p \in Places(text) :
                  \/ IsShown(p, Places(source))
                  \/ text = bodiless /\ text # syntax /\ IsPlaceholder(p, Places(source))
  <2>1. text = bodiless \/ (text \in Seq(Lexemes) /\ Keeps(source, text))
    <3>1. text \in Candidates(source, MaskCurrentSyntax(source), bodiless)
      BY <1>4 DEF syntax
    <3> QED BY <1>1, <3>1, CandidatesKeep, LexemesHave
  <2>2. SameLines(source, bodiless)
    BY <1>2, <1>3 DEF SameLines, Hides, Stands
  <2>3. CASE text \in Seq(Lexemes) /\ Keeps(source, text)
    BY <2>3 DEF Keeps
  <2>4. CASE text = bodiless /\ text = syntax
    BY <1>2, <2>2, <2>4 DEF Hides, IsShown
  <2>5. CASE text = bodiless /\ text # syntax
    <3>1. ASSUME NEW p \in Places(text) PROVE p \in Places(source) \/ IsPlaceholder(p, Places(source))
      <4>1. p \in Places(syntax) \/ IsPlaceholder(p, Places(syntax))
        BY <1>3, <2>5 DEF Stands
      <4>2. Places(syntax) \subseteq Places(source)
        BY <1>2 DEF Hides
      <4> QED BY <4>1, <4>2 DEF IsPlaceholder
    <3> QED BY <1>3, <2>2, <2>5, <3>1 DEF IsShown
  <2> QED BY <2>1, <2>3, <2>4, <2>5
<1>5. ASSUME NEW text \in Candidates(source, syntax, bodiless) PROVE LineLengths(text) = LineLengths(source)
  <2>1. text \in Seq(Lexemes) /\ Ends(text) = Ends(source) /\ Bytes(text) = Bytes(source)
    BY <1>4 DEF SameLines
  <2>2. LineLengths(text) = Lengths(Ends(text), Bytes(text))
    BY <2>1, LinesByBytes
  <2>3. LineLengths(source) = Lengths(Ends(source), Bytes(source))
    BY <1>1, LinesByBytes
  <2> QED BY <2>1, <2>2, <2>3
<1> QED BY <1>4, <1>5 DEF MasksKeepPlaces, IsShown, syntax, bodiless

\* Each text the parser is given has its lines, and each line its bytes, where the source
\* has them, and each lexeme it shows is where the source has it, or "_" where that has
\* "/"; but for the placeholders in the text with masked bodies, each of which stands
\* where the body has text.  For any file, whatever the masks take for a header, a type,
\* a shift or a comment in it.
THEOREM MasksAreInPlace == Spec => []MasksKeepPlaces
<1> QED BY EachCandidate, InductiveSource, PTL

-----------------------------------------------------------------------------
(***************************************************************************)
(* Folds.                                                                  *)
(***************************************************************************)

LEMMA GreatestIs ==
  ASSUME NEW n \in Nat, NEW s \in SUBSET (1 .. n), s # {}
  PROVE  /\ Max(s) \in s
         /\ \A i \in s : Max(s) >= i
<1>1. s \subseteq 0 .. n
  OBVIOUS
<1>2. \E i \in s : \A j \in s : i >= j
  BY <1>1, GreatestOf
<1> QED BY <1>2 DEF Max

LEMMA GreatestOfFirst ==
  ASSUME NEW k \in Nat
  PROVE  k # 0 => 1 .. k # {} /\ Max(1 .. k) = k /\ (1 .. k) \ {k} = 1 .. k - 1
<1> SUFFICES ASSUME k # 0
             PROVE  1 .. k # {} /\ Max(1 .. k) = k /\ (1 .. k) \ {k} = 1 .. k - 1
  OBVIOUS
<1>1. k \in 1 .. k /\ 1 .. k \in SUBSET (1 .. k)
  OBVIOUS
<1>2. Max(1 .. k) \in 1 .. k /\ Max(1 .. k) >= k
  BY <1>1, GreatestIs
<1>3. Max(1 .. k) = k
  BY <1>2
<1>4. (1 .. k) \ {k} = 1 .. k - 1
  OBVIOUS
<1> QED BY <1>1, <1>3, <1>4

\* A fold over 1 .. n as the community modules write it: over sets of numbers, the
\* greatest last.
IsSetFold(h, n, A, base, step) ==
  /\ h = [s \in SUBSET (1 .. n) |-> h[s]]
  /\ h[{}] = base
  /\ \A s \in SUBSET (1 .. n) :
       s # {} /\ h[s \ {Max(s)}] \in A => h[s] = step[<<h[s \ {Max(s)}], Max(s)>>]

LEMMA SetFoldExists ==
  ASSUME NEW n \in Nat, NEW A, NEW base \in A, NEW step \in [A \X (1 .. n) -> A]
  PROVE  \E h \in [SUBSET (1 .. n) -> A] : IsSetFold(h, n, A, base, step)
<1> DEFINE Fold(h, k) == h \in [SUBSET (1 .. k) -> A] /\ IsSetFold(h, k, A, base, step)
           T == {k \in Nat : \E h : Fold(h, k)}
<1>1. 0 \in T
  <2> DEFINE h == [s \in SUBSET (1 .. 0) |-> base]
  <2>1. \A s \in SUBSET (1 .. 0) : s = {}
    OBVIOUS
  <2>2. h \in [SUBSET (1 .. 0) -> A] /\ h = [s \in SUBSET (1 .. 0) |-> h[s]] /\ h[{}] = base
    OBVIOUS
  <2> HIDE DEF h
  <2>3. Fold(h, 0)
    BY <2>1, <2>2 DEF IsSetFold
  <2> HIDE DEF Fold
  <2> QED BY <2>3
<1>2. ASSUME NEW k \in 0 .. n - 1, k \in T PROVE k + 1 \in T
  <2>1. PICK h : Fold(h, k)
    BY <1>2
  <2> DEFINE g == [s \in SUBSET (1 .. k + 1) |->
                     IF k + 1 \in s THEN step[<<h[s \ {k + 1}], k + 1>>] ELSE h[s]]
  <2>2. k \in Nat /\ k + 1 \in Nat /\ k + 1 \in 1 .. n /\ k + 1 \notin 1 .. k
    OBVIOUS
  <2>3. \A s \in SUBSET (1 .. k + 1) : s \ {k + 1} \in SUBSET (1 .. k)
    OBVIOUS
  <2>4. \A s \in SUBSET (1 .. k + 1) : k + 1 \notin s => s \in SUBSET (1 .. k)
    OBVIOUS
  <2>5. \A s \in SUBSET (1 .. k) : s \in SUBSET (1 .. k + 1) /\ k + 1 \notin s
    OBVIOUS
  <2>6. \A s \in SUBSET (1 .. k) : g[s] = h[s] /\ h[s] \in A
    BY <2>1, <2>5
  <2>7. ASSUME NEW s \in SUBSET (1 .. k + 1) PROVE g[s] \in A
    <3>1. CASE k + 1 \in s
      <4>1. h[s \ {k + 1}] \in A
        BY <2>3, <2>6
      <4>2. step[<<h[s \ {k + 1}], k + 1>>] \in A
        BY <2>2, <4>1
      <4> QED BY <3>1, <4>2
    <3>2. CASE k + 1 \notin s
      BY <2>4, <2>6, <3>2
    <3> QED BY <3>1, <3>2
  <2>8. g \in [SUBSET (1 .. k + 1) -> A]
    BY <2>7
  <2>9. g = [s \in SUBSET (1 .. k + 1) |-> g[s]]
    OBVIOUS
  <2>10. g[{}] = base
    <3>1. {} \in SUBSET (1 .. k)
      OBVIOUS
    <3>2. h[{}] = base
      BY <2>1 DEF IsSetFold
    <3> QED BY <2>6, <3>1, <3>2
  <2>11. ASSUME NEW s \in SUBSET (1 .. k + 1), s # {}
         PROVE  g[s] = step[<<g[s \ {Max(s)}], Max(s)>>]
    <3> DEFINE i == Max(s)
    <3>1. i \in s /\ \A j \in s : i >= j
      BY <2>2, <2>11, GreatestIs
    <3>2. CASE k + 1 \in s
      <4>1. i = k + 1
        <5>1. i \in 1 .. k + 1 /\ i >= k + 1
          BY <3>1, <3>2
        <5> HIDE DEF i
        <5> QED BY <2>2, <5>1
      <4>2. g[s \ {k + 1}] = h[s \ {k + 1}]
        BY <2>3, <2>6
      <4>3. g[s] = step[<<h[s \ {k + 1}], k + 1>>]
        BY <3>2
      <4> HIDE DEF g, i
      <4> QED BY <4>1, <4>2, <4>3 DEF i
    <3>3. CASE k + 1 \notin s
      <4>1. s \in SUBSET (1 .. k) /\ s \ {i} \in SUBSET (1 .. k)
        BY <2>4, <3>3
      <4>2. g[s] = h[s] /\ g[s \ {i}] = h[s \ {i}] /\ h[s \ {i}] \in A
        BY <2>6, <4>1
      <4>3. h[s] = step[<<h[s \ {i}], i>>]
        BY <2>1, <2>11, <4>1, <4>2 DEF IsSetFold
      <4> HIDE DEF g, i
      <4> QED BY <4>2, <4>3 DEF i
    <3> QED BY <3>2, <3>3
  <2> HIDE DEF g
  <2>12. Fold(g, k + 1)
    BY <2>8, <2>9, <2>10, <2>11 DEF IsSetFold
  <2> HIDE DEF Fold
  <2> QED BY <2>2, <2>12
<1> HIDE DEF T
<1>3. n \in T
  BY <1>1, <1>2, IntervalInduction
<1> QED BY <1>3 DEF T

\* r is what the fold comes to.
FoldsTo(r, n, A, base, step) == \E f : IsFold(f, n, A, base, step) /\ f[n] = r

LEMMA SetFoldIsFold ==
  ASSUME NEW n \in Nat, NEW A, NEW base \in A, NEW step \in [A \X (1 .. n) -> A],
         NEW h, IsSetFold(h, n, A, base, step)
  PROVE  FoldsTo(h[1 .. n], n, A, base, step)
<1> DEFINE f == [k \in 0 .. n |-> h[1 .. k]]
           T == {k \in 0 .. n : h[1 .. k] \in A}
<1>1. h[1 .. 0] = base
  <2>1. 1 .. 0 = {}
    OBVIOUS
  <2> QED BY <2>1 DEF IsSetFold
<1>2. ASSUME NEW k \in 1 .. n, h[1 .. k - 1] \in A
      PROVE  h[1 .. k] = step[<<h[1 .. k - 1], k>>] /\ h[1 .. k] \in A
  <2>1. k \in Nat /\ k # 0 /\ 1 .. k \in SUBSET (1 .. n)
    OBVIOUS
  <2>2. 1 .. k # {} /\ Max(1 .. k) = k /\ (1 .. k) \ {k} = 1 .. k - 1
    BY <2>1, GreatestOfFirst
  <2>3. h[1 .. k] = step[<<h[1 .. k - 1], k>>]
    BY <1>2, <2>1, <2>2 DEF IsSetFold
  <2> QED BY <1>2, <2>3
<1>3. \A k \in 0 .. n : k \in T
  <2>1. 0 \in T
    BY <1>1
  <2>2. ASSUME NEW k \in 0 .. n - 1, k \in T PROVE k + 1 \in T
    <3> DEFINE i == k + 1
    <3>1. i \in 1 .. n /\ i - 1 = k /\ h[1 .. k] \in A
      BY <2>2
    <3> HIDE DEF i
    <3>2. h[1 .. i] \in A
      BY <1>2, <3>1
    <3>3. i \in 0 .. n
      BY <3>1
    <3> QED BY <3>2, <3>3 DEF i
  <2> HIDE DEF T
  <2> QED BY <2>1, <2>2, UpwardInduction
<1>4. f \in [0 .. n -> A]
  BY <1>3
<1>5. f[0] = base /\ f[n] = h[1 .. n]
  BY <1>1
<1>6. ASSUME NEW k \in 1 .. n PROVE f[k] = step[<<f[k - 1], k>>]
  <2>1. k \in 0 .. n /\ k - 1 \in 0 .. n
    OBVIOUS
  <2>2. f[k] = h[1 .. k] /\ f[k - 1] = h[1 .. k - 1] /\ h[1 .. k - 1] \in A
    BY <1>3, <2>1
  <2> QED BY <1>2, <2>2
<1> HIDE DEF f
<1>7. IsFold(f, n, A, base, step)
  BY <1>4, <1>5, <1>6 DEF IsFold
<1> QED BY <1>5, <1>7 DEF FoldsTo

LEMMA PartIs ==
  ASSUME NEW text, NEW a \in Int, NEW b \in Int
  PROVE  /\ DOMAIN SubSeq(text, a, b) = 1 .. (IF a <= b THEN (b - a) + 1 ELSE 0)
         /\ \A i \in 1 .. (b - a) + 1 : SubSeq(text, a, b)[i] = text[(a + i) - 1]
<1> DEFINE S == {text[i] : i \in a .. b}
           q == SubSeq(text, a, b)
<1>1. \A i \in a .. b : text[i] \in S
  OBVIOUS
<1> HIDE DEF S
<1>2. /\ q \in Seq(S)
      /\ Len(q) = IF a <= b THEN (b - a) + 1 ELSE 0
      /\ \A i \in 1 .. (b - a) + 1 : q[i] = text[(a + i) - 1]
  BY <1>1, SubSeqProperties
<1> HIDE DEF q
<1>3. DOMAIN q = 1 .. Len(q)
  BY <1>2
<1> QED BY <1>2, <1>3 DEF q

-----------------------------------------------------------------------------
(***************************************************************************)
(* Positions.                                                              *)
(***************************************************************************)

LEMMA UnitsAre ==
  ASSUME NEW char
  PROVE  Units(char) \in 1 .. 2
  BY DEF Units

\* The sums of the units of the characters from start.
AreUnitSums(f, text, start, n) ==
  /\ f \in [0 .. n -> Nat]
  /\ f[0] = 0
  /\ \A i \in 1 .. n : f[i] = f[i - 1] + Units(text[(start + i) - 1])

LEMMA UnitLengthIsAFold ==
  ASSUME NEW text, NEW start \in Int, NEW end \in Int, NEW n \in Nat,
         n = IF start <= end - 1 THEN end - start ELSE 0
  PROVE  \E f : AreUnitSums(f, text, start, n) /\ UnitLength(text, start, end) = f[n]
<1> DEFINE q == SubSeq(text, start, end - 1)
           Iter(h) == [s \in SUBSET (1 .. n) |->
                         IF s = {} THEN 0 ELSE h[s \ {Max(s)}] + Units(q[Max(s)])]
           step == [z \in Nat \X (1 .. n) |-> z[1] + Units(q[z[2]])]
           iter == CHOOSE h : h = Iter(h)
<1>1. DOMAIN q = 1 .. n /\ \A i \in 1 .. n : q[i] = text[(start + i) - 1]
  <2>1. end - 1 \in Int
    OBVIOUS
  <2>2. /\ DOMAIN q = 1 .. (IF start <= end - 1 THEN (end - 1 - start) + 1 ELSE 0)
        /\ \A i \in 1 .. (end - 1 - start) + 1 : q[i] = text[(start + i) - 1]
    BY <2>1, PartIs
  <2> HIDE DEF q
  <2>3. (IF start <= end - 1 THEN (end - 1 - start) + 1 ELSE 0) = n
    OBVIOUS
  <2>4. \A i \in 1 .. n : i \in 1 .. (end - 1 - start) + 1
    OBVIOUS
  <2> QED BY <2>2, <2>3, <2>4
<1> HIDE DEF q
<1>2. UnitLength(text, start, end) = iter[1 .. n]
  BY <1>1 DEF UnitLength, FoldLeft, MapThenFoldSet, q
<1>3. step \in [Nat \X (1 .. n) -> Nat] /\ 0 \in Nat
  BY UnitsAre
<1>4. \A x \in Nat, i \in 1 .. n : step[<<x, i>>] = x + Units(q[i])
  OBVIOUS
<1> HIDE DEF step
<1>5. \A s \in SUBSET (1 .. n) : s # {} => Max(s) \in 1 .. n /\ s \ {Max(s)} \in SUBSET (1 .. n)
  BY GreatestIs
<1>6. iter = Iter(iter)
  <2>1. PICK h \in [SUBSET (1 .. n) -> Nat] : IsSetFold(h, n, Nat, 0, step)
    BY <1>3, SetFoldExists
  <2>2. ASSUME NEW s \in SUBSET (1 .. n)
        PROVE  h[s] = IF s = {} THEN 0 ELSE h[s \ {Max(s)}] + Units(q[Max(s)])
    BY <1>4, <1>5, <2>1 DEF IsSetFold
  <2>3. h = [s \in SUBSET (1 .. n) |-> h[s]]
    BY <2>1 DEF IsSetFold
  <2>4. h = Iter(h)
    BY <2>2, <2>3, Zenon
  <2> HIDE DEF Iter
  <2> QED BY <2>4
<1> HIDE DEF iter
<1>7. IsSetFold(iter, n, Nat, 0, step)
  <2>1. iter = [s \in SUBSET (1 .. n) |-> iter[s]] /\ iter[{}] = 0
    BY <1>6
  <2>2. ASSUME NEW s \in SUBSET (1 .. n), s # {}, iter[s \ {Max(s)}] \in Nat
        PROVE  iter[s] = step[<<iter[s \ {Max(s)}], Max(s)>>]
    <3>1. iter[s] = iter[s \ {Max(s)}] + Units(q[Max(s)])
      BY <1>6, <2>2
    <3> HIDE DEF Iter
    <3> QED BY <1>4, <1>5, <2>2, <3>1
  <2> QED BY <2>1, <2>2 DEF IsSetFold
<1> HIDE DEF Iter
<1>8. PICK f : IsFold(f, n, Nat, 0, step) /\ f[n] = iter[1 .. n]
  <2>1. FoldsTo(iter[1 .. n], n, Nat, 0, step)
    BY <1>3, <1>7, SetFoldIsFold
  <2> QED BY <2>1 DEF FoldsTo
<1>9. f \in [0 .. n -> Nat] /\ f[0] = 0
  BY <1>8 DEF IsFold
<1>10. ASSUME NEW i \in 1 .. n PROVE f[i] = f[i - 1] + Units(text[(start + i) - 1])
  <2>1. f[i] = step[<<f[i - 1], i>>] /\ f[i - 1] \in Nat
    BY <1>8, <1>9 DEF IsFold
  <2> QED BY <1>1, <1>4, <2>1
<1>11. AreUnitSums(f, text, start, n)
  BY <1>9, <1>10 DEF AreUnitSums
<1>12. UnitLength(text, start, end) = f[n]
  BY <1>2, <1>8
<1> QED BY <1>11, <1>12

Moved(p, char) ==
  IF char = "LF" THEN [line |-> p.line + 1, character |-> 0]
  ELSE [p EXCEPT !.character = @ + Units(char)]
Origin == [line |-> 0, character |-> 0]
Positions == [line : Nat, character : Nat]

LEMMA MovedIs ==
  ASSUME NEW p \in Positions, NEW char
  PROVE  /\ Moved(p, char) \in Positions
         /\ Moved(p, char).line = IF char = "LF" THEN p.line + 1 ELSE p.line
         /\ Moved(p, char).character = IF char = "LF" THEN 0 ELSE p.character + Units(char)
  BY UnitsAre DEF Moved, Positions

\* The positions of a text's characters; the one after its end is where a next one
\* would be.
ArePositions(at, text, n) ==
  /\ at \in [0 .. n -> Positions]
  /\ at[0] = Origin
  /\ \A i \in 1 .. n : at[i] = Moved(at[i - 1], text[i])

LEMMA PositionIsAFold ==
  ASSUME NEW text, NEW n \in Nat
  PROVE  \E f : ArePositions(f, text, n) /\ PositionAtOffset(text, n + 1) = f[n]
<1> DEFINE q == SubSeq(text, 1, (n + 1) - 1)
           Iter(h) == [s \in SUBSET (1 .. n) |->
                         IF s = {} THEN Origin ELSE Moved(h[s \ {Max(s)}], q[Max(s)])]
           step == [z \in Positions \X (1 .. n) |-> Moved(z[1], q[z[2]])]
           iter == CHOOSE h : h = Iter(h)
<1>1. DOMAIN q = 1 .. n /\ \A i \in 1 .. n : q[i] = text[i]
  <2>1. (n + 1) - 1 \in Int /\ 1 \in Int
    OBVIOUS
  <2>2. /\ DOMAIN q = 1 .. (IF 1 <= (n + 1) - 1 THEN (((n + 1) - 1) - 1) + 1 ELSE 0)
        /\ \A i \in 1 .. (((n + 1) - 1) - 1) + 1 : q[i] = text[(1 + i) - 1]
    BY <2>1, PartIs
  <2> HIDE DEF q
  <2>3. (IF 1 <= (n + 1) - 1 THEN (((n + 1) - 1) - 1) + 1 ELSE 0) = n
    OBVIOUS
  <2>4. \A i \in 1 .. n : i \in 1 .. (((n + 1) - 1) - 1) + 1 /\ (1 + i) - 1 = i
    OBVIOUS
  <2> QED BY <2>2, <2>3, <2>4
<1> HIDE DEF q
<1>2. PositionAtOffset(text, n + 1) = iter[1 .. n]
  BY <1>1 DEF PositionAtOffset, FoldLeft, MapThenFoldSet, q, Moved, Origin
<1>3. step \in [Positions \X (1 .. n) -> Positions] /\ Origin \in Positions
  BY MovedIs DEF Origin, Positions
<1>4. \A x \in Positions, i \in 1 .. n : step[<<x, i>>] = Moved(x, q[i])
  OBVIOUS
<1> HIDE DEF step
<1>5. \A s \in SUBSET (1 .. n) : s # {} => Max(s) \in 1 .. n /\ s \ {Max(s)} \in SUBSET (1 .. n)
  BY GreatestIs
<1>6. iter = Iter(iter)
  <2>1. PICK h \in [SUBSET (1 .. n) -> Positions] : IsSetFold(h, n, Positions, Origin, step)
    BY <1>3, SetFoldExists
  <2>2. ASSUME NEW s \in SUBSET (1 .. n)
        PROVE  h[s] = IF s = {} THEN Origin ELSE Moved(h[s \ {Max(s)}], q[Max(s)])
    BY <1>4, <1>5, <2>1 DEF IsSetFold
  <2>3. h = [s \in SUBSET (1 .. n) |-> h[s]]
    BY <2>1 DEF IsSetFold
  <2>4. h = Iter(h)
    BY <2>2, <2>3, Zenon
  <2> HIDE DEF Iter
  <2> QED BY <2>4
<1> HIDE DEF iter
<1>7. IsSetFold(iter, n, Positions, Origin, step)
  <2>1. iter = [s \in SUBSET (1 .. n) |-> iter[s]] /\ iter[{}] = Origin
    BY <1>6
  <2>2. ASSUME NEW s \in SUBSET (1 .. n), s # {}, iter[s \ {Max(s)}] \in Positions
        PROVE  iter[s] = step[<<iter[s \ {Max(s)}], Max(s)>>]
    <3>1. iter[s] = Moved(iter[s \ {Max(s)}], q[Max(s)])
      BY <1>6, <2>2
    <3> HIDE DEF Iter
    <3> QED BY <1>4, <1>5, <2>2, <3>1
  <2> QED BY <2>1, <2>2 DEF IsSetFold
<1> HIDE DEF Iter
<1>8. PICK f : IsFold(f, n, Positions, Origin, step) /\ f[n] = iter[1 .. n]
  <2>1. FoldsTo(iter[1 .. n], n, Positions, Origin, step)
    BY <1>3, <1>7, SetFoldIsFold
  <2> QED BY <2>1 DEF FoldsTo
<1>9. f \in [0 .. n -> Positions] /\ f[0] = Origin
  BY <1>8 DEF IsFold
<1>10. ASSUME NEW i \in 1 .. n PROVE f[i] = Moved(f[i - 1], text[i])
  <2>1. f[i] = step[<<f[i - 1], i>>] /\ f[i - 1] \in Positions
    BY <1>8, <1>9 DEF IsFold
  <2> QED BY <1>1, <1>4, <2>1
<1> QED BY <1>2, <1>8, <1>9, <1>10 DEF ArePositions

LEMMA PositionsAre ==
  ASSUME NEW text, NEW n \in Nat, NEW at, ArePositions(at, text, n), NEW k \in 0 .. n
  PROVE  PositionAtOffset(text, k + 1) = at[k]
<1>1. PICK f : ArePositions(f, text, k) /\ PositionAtOffset(text, k + 1) = f[k]
  BY PositionIsAFold
<1> DEFINE T == {j \in 0 .. k : f[j] = at[j]}
<1>2. 0 \in T
  BY <1>1 DEF ArePositions
<1>3. ASSUME NEW j \in 0 .. k - 1, j \in T PROVE j + 1 \in T
  <2> DEFINE i == j + 1
  <2>1. i \in 1 .. k /\ i \in 1 .. n /\ i - 1 = j /\ i \in 0 .. k
    OBVIOUS
  <2> HIDE DEF i
  <2>2. f[i] = at[i]
    BY <1>1, <1>3, <2>1 DEF ArePositions
  <2> QED BY <2>1, <2>2 DEF i
<1> HIDE DEF T
<1>4. k \in T
  BY <1>2, <1>3, UpwardInduction
<1> QED BY <1>1, <1>4 DEF T

LEMMA PositionsExist ==
  ASSUME NEW text, NEW n \in Nat
  PROVE  \E at : ArePositions(at, text, n)
  BY PositionIsAFold

LEMMA UnitSumsExist ==
  ASSUME NEW text, NEW n \in Nat
  PROVE  \E sums : AreUnitSums(sums, text, 1, n)
<1>1. 1 \in Int /\ n + 1 \in Int /\ n = IF 1 <= (n + 1) - 1 THEN (n + 1) - 1 ELSE 0
  OBVIOUS
<1> QED BY <1>1, UnitLengthIsAFold

LEMMA UnitLengthIs ==
  ASSUME NEW text, NEW n \in Nat, NEW sums, AreUnitSums(sums, text, 1, n),
         NEW a \in 0 .. n, NEW b \in a .. n
  PROVE  UnitLength(text, a + 1, b + 1) = sums[b] - sums[a]
<1> DEFINE m == b - a
<1>1. /\ m \in Nat /\ a + 1 \in Int /\ b + 1 \in Int
      /\ m = IF a + 1 <= (b + 1) - 1 THEN (b + 1) - (a + 1) ELSE 0
  OBVIOUS
<1> HIDE DEF m
<1>2. PICK f : AreUnitSums(f, text, a + 1, m) /\ UnitLength(text, a + 1, b + 1) = f[m]
  BY <1>1, UnitLengthIsAFold
<1> DEFINE T == {j \in 0 .. m : f[j] = sums[a + j] - sums[a]}
<1>3. sums[a] \in Nat /\ a + 0 = a /\ a + m = b
  BY DEF AreUnitSums, m
<1>4. 0 \in T
  BY <1>1, <1>2, <1>3 DEF AreUnitSums
<1>5. ASSUME NEW j \in 0 .. m - 1, j \in T PROVE j + 1 \in T
  <2> DEFINE i == j + 1
             k == a + i
  <2>1. /\ i \in 1 .. m /\ i - 1 = j /\ i \in 0 .. m
        /\ k \in 1 .. n /\ k - 1 = a + j /\ ((a + 1) + i) - 1 = k
    BY <1>1, <1>3
  <2>2. f[j] = sums[a + j] - sums[a]
    BY <1>5
  <2> HIDE DEF i
  <2>3. f[i] = f[j] + Units(text[k])
    BY <1>2, <2>1 DEF AreUnitSums
  <2>4. sums[k] = sums[a + j] + Units(text[k]) /\ a + j \in 0 .. n
    <3>1. (1 + k) - 1 = k
      BY <2>1
    <3> HIDE DEF k
    <3> QED BY <2>1, <3>1 DEF AreUnitSums
  <2>5. sums[a + j] \in Nat /\ Units(text[k]) \in Nat
    BY <2>4, UnitsAre DEF AreUnitSums
  <2> HIDE DEF k, T
  <2>6. f[i] = sums[k] - sums[a]
    BY <1>3, <2>2, <2>3, <2>4, <2>5
  <2> QED BY <2>1, <2>6 DEF T, i, k
<1> HIDE DEF T
<1>6. m \in T
  BY <1>1, <1>4, <1>5, UpwardInduction
<1> QED BY <1>2, <1>3, <1>6 DEF T

\* Later characters are at later positions.
LEMMA PositionsIncrease ==
  ASSUME NEW text, NEW n \in Nat, NEW at, ArePositions(at, text, n),
         NEW i \in 0 .. n, NEW j \in i .. n
  PROVE  /\ at[i].line <= at[j].line
         /\ at[i].line = at[j].line => at[i].character <= at[j].character
<1> DEFINE Later(k) == /\ at[i].line <= at[k].line
                       /\ at[i].line = at[k].line => at[i].character <= at[k].character
           T == {k \in i .. n : Later(k)}
<1>1. \A k \in 0 .. n : at[k] \in Positions /\ at[k].line \in Nat /\ at[k].character \in Nat
  BY DEF ArePositions, Positions
<1>2. i \in T
  BY <1>1
<1>3. ASSUME NEW k \in i .. n - 1, k \in T PROVE k + 1 \in T
  <2> DEFINE m == k + 1
  <2>1. m \in 1 .. n /\ m - 1 = k /\ k \in 0 .. n /\ m \in 0 .. n /\ m \in i .. n
    OBVIOUS
  <2> HIDE DEF m
  <2>2. at[m] = Moved(at[k], text[m]) /\ at[k] \in Positions
    BY <1>1, <2>1 DEF ArePositions
  <2>3. /\ at[m].line = IF text[m] = "LF" THEN at[k].line + 1 ELSE at[k].line
        /\ at[m].character = IF text[m] = "LF" THEN 0 ELSE at[k].character + Units(text[m])
    BY <2>2, MovedIs
  <2>4. Units(text[m]) \in Nat
    BY UnitsAre
  <2>5. Later(k)
    BY <1>3
  <2>6. Later(m)
    <3>1. /\ at[i].line \in Nat /\ at[i].character \in Nat
          /\ at[k].line \in Nat /\ at[k].character \in Nat
      BY <1>1, <2>1
    <3>2. CASE text[m] = "LF"
      <4>1. at[m].line = at[k].line + 1
        BY <2>3, <3>2
      <4> QED BY <2>5, <3>1, <4>1
    <3>3. CASE text[m] # "LF"
      <4>1. at[m].line = at[k].line /\ at[m].character = at[k].character + Units(text[m])
        BY <2>3, <3>3
      <4> QED BY <2>4, <2>5, <3>1, <4>1
    <3> QED BY <3>2, <3>3
  <2> HIDE DEF Later
  <2> QED BY <2>1, <2>6 DEF m
<1> HIDE DEF T, Later
<1>4. j \in T
  BY <1>2, <1>3, IntervalInduction
<1> QED BY <1>4 DEF T, Later

\* The ends of lines among the first k characters.
EndsTo(text, k) == {j \in 1 .. k : text[j] = "LF"}

LEMMA LastEnd ==
  ASSUME NEW text, NEW k \in Nat
  PROVE  /\ Max(EndsTo(text, k) \cup {0}) \in 0 .. k
         /\ Max(EndsTo(text, 0) \cup {0}) = 0
         /\ Max(EndsTo(text, k + 1) \cup {0}) =
              IF text[k + 1] = "LF" THEN k + 1 ELSE Max(EndsTo(text, k) \cup {0})
<1> DEFINE E(i) == EndsTo(text, i) \cup {0}
<1>1. ASSUME NEW i \in Nat PROVE Max(E(i)) \in E(i) /\ Max(E(i)) \in 0 .. i /\ \A j \in E(i) : Max(E(i)) >= j
  <2>1. E(i) \subseteq 0 .. i /\ E(i) # {}
    BY DEF EndsTo
  <2> HIDE DEF E
  <2>2. \E j \in E(i) : \A m \in E(i) : j >= m
    BY <2>1, GreatestOf
  <2>3. Max(E(i)) \in E(i) /\ \A j \in E(i) : Max(E(i)) >= j
    BY <2>2 DEF Max
  <2> QED BY <2>1, <2>3
<1>2. Max(E(0)) = 0
  <2>1. Max(E(0)) \in 0 .. 0
    BY <1>1
  <2> HIDE DEF E
  <2> QED BY <2>1
<1>3. ASSUME text[k + 1] = "LF" PROVE Max(E(k + 1)) = k + 1
  <2> DEFINE m == k + 1
  <2>1. m \in E(m) /\ m \in Nat
    BY <1>3 DEF EndsTo
  <2> HIDE DEF m, E
  <2>2. Max(E(m)) \in 0 .. m /\ Max(E(m)) >= m
    BY <1>1, <2>1
  <2> QED BY <2>1, <2>2 DEF m
<1>4. ASSUME text[k + 1] # "LF" PROVE E(k + 1) = E(k)
  BY <1>4 DEF EndsTo
<1>5. Max(E(k)) \in 0 .. k
  BY <1>1
<1> HIDE DEF E
<1>6. /\ Max(E(k)) \in 0 .. k
      /\ Max(E(0)) = 0
      /\ Max(E(k + 1)) = IF text[k + 1] = "LF" THEN k + 1 ELSE Max(E(k))
  BY <1>2, <1>3, <1>4, <1>5
<1> QED BY <1>6 DEF E

LEMMA EndsAreCounted ==
  ASSUME NEW text, NEW k \in Nat
  PROVE  /\ Cardinality(EndsTo(text, k)) \in Nat
         /\ Cardinality(EndsTo(text, 0)) = 0
         /\ Cardinality(EndsTo(text, k + 1)) =
              IF text[k + 1] = "LF" THEN Cardinality(EndsTo(text, k)) + 1
              ELSE Cardinality(EndsTo(text, k))
<1>1. IsFiniteSet(EndsTo(text, k)) /\ Cardinality(EndsTo(text, k)) \in Nat
  <2>1. IsFiniteSet(1 .. k)
    BY FS_Interval, 1 \in Int, k \in Int
  <2>2. EndsTo(text, k) \subseteq 1 .. k
    BY DEF EndsTo
  <2> QED BY <2>1, <2>2, FS_Subset, FS_CardinalityType
<1>2. EndsTo(text, 0) = {}
  BY DEF EndsTo
<1>3. Cardinality(EndsTo(text, 0)) = 0
  BY <1>2, FS_EmptySet
<1>4. CASE text[k + 1] = "LF"
  <2>1. EndsTo(text, k + 1) = EndsTo(text, k) \cup {k + 1} /\ k + 1 \notin EndsTo(text, k)
    BY <1>4 DEF EndsTo
  <2>2. Cardinality(EndsTo(text, k) \cup {k + 1}) = Cardinality(EndsTo(text, k)) + 1
    BY ONLY <1>1, <2>1, FS_AddElement
  <2> QED BY <1>1, <1>3, <1>4, <2>1, <2>2
<1>5. CASE text[k + 1] # "LF"
  <2>1. EndsTo(text, k + 1) = EndsTo(text, k)
    BY <1>5 DEF EndsTo
  <2> QED BY <1>1, <1>3, <1>5, <2>1
<1> QED BY <1>4, <1>5

\* A position is the number of lines that end before, and the units of the last one.
LEMMA SeenIs ==
  ASSUME NEW text, NEW n \in Nat, NEW at, ArePositions(at, text, n), NEW k \in 0 .. n
  PROVE  /\ at[k].line = Cardinality(EndsTo(text, k))
         /\ at[k].character = UnitLength(text, Max(EndsTo(text, k) \cup {0}) + 1, k + 1)
<1>1. PICK sums : AreUnitSums(sums, text, 1, n)
  BY UnitSumsExist
<1> DEFINE last(i) == Max(EndsTo(text, i) \cup {0})
           count(i) == Cardinality(EndsTo(text, i))
           T == {i \in 0 .. n : at[i].line = count(i) /\ at[i].character = sums[i] - sums[last(i)]}
<1>2. ASSUME NEW i \in 0 .. n
      PROVE  /\ last(i) \in 0 .. i /\ last(0) = 0
             /\ last(i + 1) = IF text[i + 1] = "LF" THEN i + 1 ELSE last(i)
             /\ count(i) \in Nat /\ count(0) = 0
             /\ count(i + 1) = IF text[i + 1] = "LF" THEN count(i) + 1 ELSE count(i)
  <2>1. i \in Nat
    OBVIOUS
  <2> QED BY <2>1, LastEnd, EndsAreCounted
<1> HIDE DEF last, count
<1>3. \A i \in 0 .. n : sums[i] \in Nat
  BY <1>1 DEF AreUnitSums
<1>4. 0 \in T
  <2>1. at[0].line = 0 /\ at[0].character = 0
    BY DEF ArePositions, Origin
  <2>2. sums[0] = 0 /\ 0 \in 0 .. n
    BY <1>1 DEF AreUnitSums
  <2>3. last(0) = 0 /\ count(0) = 0
    BY <1>2, <2>2
  <2> QED BY <2>1, <2>2, <2>3
<1>5. ASSUME NEW j \in 0 .. n - 1, j \in T PROVE j + 1 \in T
  <2> DEFINE m == j + 1
  <2>1. m \in 1 .. n /\ m - 1 = j /\ j \in 0 .. n /\ m \in 0 .. n /\ (1 + m) - 1 = m
    OBVIOUS
  <2>2. /\ last(j) \in 0 .. j
        /\ last(m) = IF text[m] = "LF" THEN m ELSE last(j)
        /\ count(j) \in Nat
        /\ count(m) = IF text[m] = "LF" THEN count(j) + 1 ELSE count(j)
    BY <1>2, <2>1
  <2> HIDE DEF m
  <2>3. at[m] = Moved(at[j], text[m]) /\ at[j] \in Positions
    BY <2>1 DEF ArePositions
  <2>4. /\ at[m].line = IF text[m] = "LF" THEN at[j].line + 1 ELSE at[j].line
        /\ at[m].character = IF text[m] = "LF" THEN 0 ELSE at[j].character + Units(text[m])
    BY <2>3, MovedIs
  <2>5. sums[m] = sums[j] + Units(text[m])
    BY <1>1, <2>1 DEF AreUnitSums
  <2>6. /\ Units(text[m]) \in Nat
        /\ sums[m] \in Nat /\ sums[j] \in Nat /\ sums[last(j)] \in Nat
    <3>1. last(j) \in 0 .. n
      BY <2>1, <2>2
    <3> QED BY <1>3, <2>1, <3>1, UnitsAre
  <2>7. at[j].line = count(j) /\ at[j].character = sums[j] - sums[last(j)]
    BY <1>5
  <2>8. at[m].line = count(m) /\ at[m].character = sums[m] - sums[last(m)]
    <3>1. CASE text[m] = "LF"
      <4>1. last(m) = m /\ count(m) = count(j) + 1 /\ at[m].line = at[j].line + 1 /\ at[m].character = 0
        BY <2>2, <2>4, <3>1
      <4> QED BY <2>6, <2>7, <4>1
    <3>2. CASE text[m] # "LF"
      <4>1. /\ last(m) = last(j) /\ count(m) = count(j) /\ at[m].line = at[j].line
            /\ at[m].character = at[j].character + Units(text[m])
        BY <2>2, <2>4, <3>2
      <4> QED BY <2>5, <2>6, <2>7, <4>1
    <3> QED BY <3>1, <3>2
  <2> QED BY <2>1, <2>8 DEF m
<1> HIDE DEF T
<1>6. k \in T
  BY <1>4, <1>5, UpwardInduction
<1>7. at[k].line = count(k) /\ at[k].character = sums[k] - sums[last(k)]
  BY <1>6 DEF T
<1>8. UnitLength(text, last(k) + 1, k + 1) = sums[k] - sums[last(k)]
  <2>1. last(k) \in 0 .. n /\ k \in last(k) .. n
    BY <1>2
  <2> QED BY <1>1, <2>1, UnitLengthIs
<1> QED BY <1>7, <1>8 DEF last, count

-----------------------------------------------------------------------------
(***************************************************************************)
(* Encoding.                                                               *)
(***************************************************************************)
\* What is sent of a token: how far it is from the one before.
Row(before, t) ==
  LET deltaLine == t.line - before.line
      deltaChar == IF deltaLine = 0 THEN t.character - before.character ELSE t.character
  IN  <<deltaLine, deltaChar, t.length, t.kind>>

After(state, token) ==
  IF token.start = state.lastStart THEN state
  ELSE [data |-> Append(state.data, Row(state, token)),
        line |-> token.line, character |-> token.character, lastStart |-> token.start]
Unsent == [data |-> <<>>, line |-> 0, character |-> 0, lastStart |-> 0]

AreTokens(T) ==
  \A t \in T : /\ t.start \in Nat \ {0} /\ t.length \in Nat
               /\ t.line \in Nat /\ t.character \in Nat
Rows(T) == Int \X Int \X Nat \X {t.kind : t \in T}
States(T) == [data : Seq(Rows(T)), line : Nat, character : Nat, lastStart : Nat]

LEMMA RowIs ==
  ASSUME NEW T, AreTokens(T), NEW t \in T,
         NEW before, before.line \in Nat, before.character \in Nat
  PROVE  /\ Row(before, t) \in Rows(T)
         /\ Row(before, t)[1] = t.line - before.line
         /\ Row(before, t)[2] = IF t.line = before.line THEN t.character - before.character
                                ELSE t.character
         /\ Row(before, t)[3] = t.length
         /\ Row(before, t)[4] = t.kind
<1>1. t.line \in Nat /\ t.character \in Nat /\ t.length \in Nat
  BY DEF AreTokens
<1> DEFINE dl == t.line - before.line
           dc == IF dl = 0 THEN t.character - before.character ELSE t.character
<1>2. dl \in Int /\ dc \in Int
  BY <1>1
<1>3. dc = IF t.line = before.line THEN t.character - before.character ELSE t.character
  BY <1>1
<1>4. Row(before, t) = <<dl, dc, t.length, t.kind>>
  BY DEF Row
<1> HIDE DEF dc
<1> QED BY <1>1, <1>2, <1>3, <1>4 DEF Rows

LEMMA AfterIs ==
  ASSUME NEW T, AreTokens(T), NEW t \in T, NEW state \in States(T)
  PROVE  After(state, t) \in States(T)
<1>1. /\ state.data \in Seq(Rows(T)) /\ state.line \in Nat /\ state.character \in Nat
  BY DEF States
<1>2. Row(state, t) \in Rows(T)
  BY <1>1, RowIs
<1>3. Append(state.data, Row(state, t)) \in Seq(Rows(T))
  BY <1>1, <1>2, AppendProperties
<1>4. t.line \in Nat /\ t.character \in Nat /\ t.start \in Nat
  BY DEF AreTokens
<1> QED BY <1>3, <1>4 DEF After, States

AreStates(f, order, m, T) ==
  /\ f \in [0 .. m -> States(T)]
  /\ f[0] = Unsent
  /\ \A i \in 1 .. m : f[i] = After(f[i - 1], order[i])

LEMMA EncodedIsAFold ==
  ASSUME NEW T, AreTokens(T), NEW n \in Nat, NEW order \in [1 .. n -> T]
  PROVE  \E f : AreStates(f, order, n, T) /\ Encoded(order) = f[n].data
<1> DEFINE Iter(h) == [s \in SUBSET (1 .. n) |->
                         IF s = {} THEN Unsent ELSE After(h[s \ {Max(s)}], order[Max(s)])]
           S == States(T)
           step == [z \in S \X (1 .. n) |-> After(z[1], order[z[2]])]
           iter == CHOOSE h : h = Iter(h)
<1>1. DOMAIN order = 1 .. n
  OBVIOUS
<1>2. Encoded(order) = iter[1 .. n].data
  BY <1>1 DEF Encoded, FoldLeft, MapThenFoldSet, After, Row, Unsent
<1>3. step \in [S \X (1 .. n) -> S] /\ Unsent \in S
  <2>1. <<>> \in Seq(Rows(T))
    BY EmptySeq
  <2>2. Unsent \in S
    BY <2>1 DEF Unsent, States
  <2>3. \A z \in S \X (1 .. n) : After(z[1], order[z[2]]) \in S
    BY AfterIs
  <2> HIDE DEF S
  <2> QED BY <2>2, <2>3
<1> HIDE DEF S
<1>4. \A x \in S, i \in 1 .. n : step[<<x, i>>] = After(x, order[i])
  OBVIOUS
<1> HIDE DEF step
<1>5. \A s \in SUBSET (1 .. n) : s # {} => Max(s) \in 1 .. n /\ s \ {Max(s)} \in SUBSET (1 .. n)
  BY GreatestIs
<1>6. iter = Iter(iter)
  <2>1. PICK h \in [SUBSET (1 .. n) -> S] : IsSetFold(h, n, S, Unsent, step)
    BY <1>3, SetFoldExists
  <2>2. ASSUME NEW s \in SUBSET (1 .. n)
        PROVE  h[s] = IF s = {} THEN Unsent ELSE After(h[s \ {Max(s)}], order[Max(s)])
    BY <1>4, <1>5, <2>1 DEF IsSetFold
  <2>3. h = [s \in SUBSET (1 .. n) |-> h[s]]
    BY <2>1 DEF IsSetFold
  <2>4. h = Iter(h)
    BY <2>2, <2>3, Zenon
  <2> HIDE DEF Iter
  <2> QED BY <2>4
<1> HIDE DEF iter
<1>7. IsSetFold(iter, n, S, Unsent, step)
  <2>1. iter = [s \in SUBSET (1 .. n) |-> iter[s]] /\ iter[{}] = Unsent
    BY <1>6
  <2>2. ASSUME NEW s \in SUBSET (1 .. n), s # {}, iter[s \ {Max(s)}] \in S
        PROVE  iter[s] = step[<<iter[s \ {Max(s)}], Max(s)>>]
    <3>1. iter[s] = After(iter[s \ {Max(s)}], order[Max(s)])
      BY <1>6, <2>2
    <3> HIDE DEF Iter
    <3> QED BY <1>4, <1>5, <2>2, <3>1
  <2> QED BY <2>1, <2>2 DEF IsSetFold
<1> HIDE DEF Iter
<1>8. PICK f : IsFold(f, n, S, Unsent, step) /\ f[n] = iter[1 .. n]
  <2>1. FoldsTo(iter[1 .. n], n, S, Unsent, step)
    BY <1>3, <1>7, SetFoldIsFold
  <2> QED BY <2>1 DEF FoldsTo
<1>9. f \in [0 .. n -> S] /\ f[0] = Unsent
  BY <1>8 DEF IsFold
<1>10. ASSUME NEW i \in 1 .. n PROVE f[i] = After(f[i - 1], order[i])
  <2>1. f[i] = step[<<f[i - 1], i>>] /\ f[i - 1] \in S
    BY <1>8, <1>9 DEF IsFold
  <2> QED BY <1>4, <2>1
<1>11. AreStates(f, order, n, T)
  BY <1>9, <1>10 DEF AreStates, S
<1>12. Encoded(order) = f[n].data
  BY <1>2, <1>8
<1> QED BY <1>11, <1>12

\* The first tokens of each start among the first j, in the order of their starts.
IsLongest(t, T) == \A u \in T : u.start = t.start => u.length <= t.length
AreFirsts(e, order, j, T) ==
  /\ e \in Seq(T)
  /\ \A i \in 1 .. Len(e) : IsLongest(e[i], T) /\ \E l \in 1 .. j : e[i] = order[l]
  /\ \A l \in 1 .. j : \E i \in 1 .. Len(e) : e[i].start = order[l].start
  /\ \A h, i \in 1 .. Len(e) : h < i => e[h].start < e[i].start

SortsTokens(order, n, T) ==
  /\ order \in [1 .. n -> T]
  /\ \A t \in T : \E i \in 1 .. n : order[i] = t
  /\ \A i, j \in 1 .. n : i < j =>
       \/ order[i].start < order[j].start
       \/ order[i].start = order[j].start /\ order[i].length >= order[j].length

LEMMA NextSameStart ==
  ASSUME NEW T, NEW n \in Nat, NEW order, SortsTokens(order, n, T), NEW j \in 0 .. n - 1,
         NEW e, AreFirsts(e, order, j, T), Len(e) # 0, e[Len(e)].start = order[j + 1].start
  PROVE  AreFirsts(e, order, j + 1, T)
<1> DEFINE m == j + 1
           k == Len(e)
<1>1. e \in Seq(T) /\ k \in 1 .. k
  BY DEF AreFirsts
<1>2. \A i \in 1 .. k : IsLongest(e[i], T) /\ \E l \in 1 .. j : e[i] = order[l]
  BY DEF AreFirsts
<1>3. \A l \in 1 .. j : \E i \in 1 .. k : e[i].start = order[l].start
  BY DEF AreFirsts
<1>4. e[k].start = order[m].start
  OBVIOUS
<1>5. \A l \in 1 .. j : l \in 1 .. m
  OBVIOUS
<1>6. \A l \in 1 .. m : l \in 1 .. j \/ l = m
  OBVIOUS
<1>7. \A h, i \in 1 .. k : h < i => e[h].start < e[i].start
  BY DEF AreFirsts
<1> HIDE DEF k, m
<1>8. \A i \in 1 .. k : IsLongest(e[i], T) /\ \E l \in 1 .. m : e[i] = order[l]
  BY <1>2, <1>5
<1>9. \A l \in 1 .. m : \E i \in 1 .. k : e[i].start = order[l].start
  BY <1>1, <1>3, <1>4, <1>6
<1> QED BY <1>1, <1>7, <1>8, <1>9 DEF AreFirsts, k, m

LEMMA NextNewStart ==
  ASSUME NEW T, AreTokens(T), NEW n \in Nat, NEW order, SortsTokens(order, n, T), NEW j \in 0 .. n - 1,
         NEW e, AreFirsts(e, order, j, T), Len(e) # 0 => e[Len(e)].start # order[j + 1].start
  PROVE  AreFirsts(Append(e, order[j + 1]), order, j + 1, T)
<1> DEFINE m == j + 1
           k == Len(e)
           t == order[m]
           g == Append(e, t)
<1>1. e \in Seq(T) /\ k \in Nat /\ m \in 1 .. n /\ t \in T
  BY DEF AreFirsts, SortsTokens
<1>2. /\ g \in Seq(T) /\ Len(g) = k + 1 /\ g[k + 1] = t
      /\ \A i \in 1 .. k : g[i] = e[i]
  BY <1>1, AppendProperties
<1>3. \A i \in 1 .. k : e[i] \in T /\ IsLongest(e[i], T) /\ \E l \in 1 .. j : e[i] = order[l]
  BY <1>1 DEF AreFirsts
<1>4. \A l \in 1 .. j : \E i \in 1 .. k : e[i].start = order[l].start
  BY DEF AreFirsts
<1>5. \A h, i \in 1 .. k : h < i => e[h].start < e[i].start
  BY DEF AreFirsts
<1>6. /\ \A u \in T : \E i \in 1 .. n : order[i] = u
      /\ \A h, i \in 1 .. n : h < i =>
           \/ order[h].start < order[i].start
           \/ order[h].start = order[i].start /\ order[h].length >= order[i].length
  BY DEF SortsTokens
<1>7. \A u \in T : u.start \in Nat /\ u.length \in Nat
  BY DEF AreTokens
<1>8. k # 0 => e[k].start # t.start
  OBVIOUS
<1>9. \A l \in 1 .. j : l \in 1 .. m /\ l \in 1 .. n /\ l < m
  OBVIOUS
<1>10. \A l \in 1 .. m : l \in 1 .. j \/ l = m
  OBVIOUS
<1>11. \A l \in 1 .. n : l \in 1 .. j \/ l = m \/ m < l
  OBVIOUS
<1>12. m \in 1 .. m
  BY <1>1
<1> HIDE DEF k, m, t, g
<1>13. ASSUME NEW i \in 1 .. k PROVE e[i].start < t.start
  <2>1. k \in 1 .. k /\ k # 0 /\ (i < k \/ i = k)
    BY <1>1
  <2>2. PICK l \in 1 .. j : e[k] = order[l]
    BY <1>3, <2>1
  <2>3. e[k].start < t.start
    <3>1. e[k].start <= t.start
      <4>1. l \in 1 .. n /\ m \in 1 .. n /\ l < m
        BY <1>1, <1>9
      <4>2. order[l].start < order[m].start \/ order[l].start = order[m].start
        BY <1>6, <4>1
      <4>3. e[k].start \in Nat /\ t.start \in Nat
        BY <1>1, <1>3, <1>7, <2>1
      <4> QED BY <2>2, <4>2, <4>3 DEF t
    <3>2. e[k].start \in Nat /\ t.start \in Nat
      BY <1>1, <1>3, <1>7, <2>1
    <3> QED BY <1>8, <2>1, <3>1, <3>2
  <2>4. e[i].start \in Nat /\ e[k].start \in Nat /\ t.start \in Nat
    BY <1>1, <1>3, <1>7, <2>1
  <2>5. i < k => e[i].start < e[k].start
    BY <1>5, <2>1
  <2> QED BY <2>1, <2>3, <2>4, <2>5
<1>14. IsLongest(t, T)
  <2> SUFFICES ASSUME NEW u \in T, u.start = t.start PROVE u.length <= t.length
    BY DEF IsLongest
  <2>1. PICK l \in 1 .. n : order[l] = u
    BY <1>6
  <2>2. l \notin 1 .. j
    <3> SUFFICES ASSUME l \in 1 .. j PROVE FALSE OBVIOUS
    <3>1. PICK i \in 1 .. k : e[i].start = order[l].start
      BY <1>4
    <3>2. e[i].start < t.start /\ e[i].start = t.start /\ t.start \in Nat
      BY <1>1, <1>7, <1>13, <2>1, <3>1
    <3> QED BY <3>2
  <2>3. CASE l = m
    BY <1>1, <1>7, <2>1, <2>3 DEF t
  <2>4. CASE m < l
    <3>1. t.start < u.start \/ (t.start = u.start /\ t.length >= u.length)
      BY <1>1, <1>6, <2>1, <2>4 DEF t
    <3>2. t.start \in Nat /\ u.start \in Nat /\ t.length \in Nat /\ u.length \in Nat
      BY <1>1, <1>7
    <3> QED BY <3>1, <3>2
  <2> QED BY <1>11, <2>2, <2>3, <2>4
<1>15. \A i \in 1 .. k + 1 : i \in 1 .. k \/ i = k + 1
  BY <1>1
<1>16. \A i \in 1 .. k : i \in 1 .. k + 1
  BY <1>1
<1>17. k + 1 \in 1 .. k + 1
  BY <1>1
<1>18. \A i \in 1 .. k + 1 : IsLongest(g[i], T) /\ \E l \in 1 .. m : g[i] = order[l]
  BY <1>2, <1>3, <1>9, <1>12, <1>14, <1>15 DEF t
<1>19. \A l \in 1 .. m : \E i \in 1 .. k + 1 : g[i].start = order[l].start
  BY <1>2, <1>4, <1>10, <1>16, <1>17 DEF t
<1>20. ASSUME NEW h \in 1 .. k + 1, NEW i \in 1 .. k + 1, h < i PROVE g[h].start < g[i].start
  <2>1. h \in 1 .. k
    BY <1>1, <1>20
  <2>2. CASE i \in 1 .. k
    BY <1>2, <1>5, <1>20, <2>1, <2>2
  <2>3. CASE i = k + 1
    BY <1>2, <1>13, <2>1, <2>3
  <2> QED BY <1>15, <2>2, <2>3
<1>21. AreFirsts(g, order, m, T)
  BY <1>2, <1>18, <1>19, <1>20 DEF AreFirsts
<1> QED BY <1>21 DEF g, t, m

\* The data of the tokens e.
Encodes(data, e) ==
  /\ Len(data) = Len(e)
  /\ \A i \in 1 .. Len(e) : data[i] = Row(IF i = 1 THEN Origin ELSE e[i - 1], e[i])
EndsAt(state, e) ==
  /\ Len(e) = 0 => state.line = 0 /\ state.character = 0 /\ state.lastStart = 0
  /\ Len(e) # 0 => /\ state.line = e[Len(e)].line
                   /\ state.character = e[Len(e)].character
                   /\ state.lastStart = e[Len(e)].start

LEMMA NextIsEncoded ==
  ASSUME NEW T, AreTokens(T), NEW t \in T, NEW state \in States(T),
         NEW e \in Seq(T), Encodes(state.data, e), EndsAt(state, e), t.start # state.lastStart
  PROVE  Encodes(After(state, t).data, Append(e, t)) /\ EndsAt(After(state, t), Append(e, t))
<1> DEFINE k == Len(e)
           g == Append(e, t)
           d == state.data
           r == Row(state, t)
           c == Append(d, r)
<1>1. k \in Nat
  OBVIOUS
<1>2. /\ g \in Seq(T) /\ Len(g) = k + 1 /\ g[k + 1] = t
      /\ \A i \in 1 .. k : g[i] = e[i]
  BY AppendProperties
<1>3. d \in Seq(Rows(T)) /\ Len(d) = k /\ \A i \in 1 .. k : d[i] = Row(IF i = 1 THEN Origin ELSE e[i - 1], e[i])
  BY DEF States, Encodes
<1>4. state.line \in Nat /\ state.character \in Nat
  BY DEF States
<1>5. r \in Rows(T)
  BY <1>4, RowIs
<1>6. /\ k = 0 => state.line = 0 /\ state.character = 0
      /\ k # 0 => state.line = e[k].line /\ state.character = e[k].character
  BY DEF EndsAt
<1>7. /\ After(state, t).data = c
      /\ After(state, t).line = t.line
      /\ After(state, t).character = t.character
      /\ After(state, t).lastStart = t.start
  BY DEF After
<1> HIDE DEF g, d, r
<1>8. /\ Len(c) = k + 1 /\ c[k + 1] = r
      /\ \A i \in 1 .. k : c[i] = d[i]
  BY <1>3, <1>5, AppendProperties
<1> HIDE DEF k, c
<1>9. k + 1 # 0 /\ (k + 1) - 1 = k /\ \A i \in 1 .. k + 1 : i \in 1 .. k \/ i = k + 1
  BY <1>1
<1>10. \A i \in 1 .. k : i # 1 => i - 1 \in 1 .. k
  BY <1>1
<1>11. ASSUME NEW i \in 1 .. k PROVE c[i] = Row(IF i = 1 THEN Origin ELSE g[i - 1], g[i])
  <2>1. c[i] = Row(IF i = 1 THEN Origin ELSE e[i - 1], e[i]) /\ g[i] = e[i]
    BY <1>2, <1>3, <1>8
  <2>2. (IF i = 1 THEN Origin ELSE e[i - 1]) = (IF i = 1 THEN Origin ELSE g[i - 1])
    BY <1>2, <1>10
  <2> QED BY <2>1, <2>2
<1>12. c[k + 1] = Row(IF k + 1 = 1 THEN Origin ELSE g[(k + 1) - 1], g[k + 1])
  <2>1. CASE k = 0
    <3>1. state.line = Origin.line /\ state.character = Origin.character
      BY <1>6, <2>1 DEF Origin
    <3>2. r = Row(Origin, t)
      BY <3>1 DEF r, Row
    <3>3. k + 1 = 1
      BY <2>1
    <3> QED BY <1>2, <1>8, <3>2, <3>3
  <2>2. CASE k # 0
    <3>1. k \in 1 .. k /\ k + 1 # 1
      BY <1>1, <2>2
    <3>2. state.line = g[k].line /\ state.character = g[k].character
      BY <1>2, <1>6, <2>2, <3>1
    <3>3. r = Row(g[k], t)
      BY <3>2 DEF r, Row
    <3> QED BY <1>2, <1>8, <1>9, <3>1, <3>3
  <2> QED BY <2>1, <2>2
<1>13. \A i \in 1 .. k + 1 : c[i] = Row(IF i = 1 THEN Origin ELSE g[i - 1], g[i])
  <2> DEFINE Good(i) == c[i] = Row(IF i = 1 THEN Origin ELSE g[i - 1], g[i])
  <2>1. \A i \in 1 .. k : Good(i)
    BY <1>11
  <2>2. Good(k + 1)
    BY <1>12
  <2> HIDE DEF Good
  <2>3. \A i \in 1 .. k + 1 : Good(i)
    BY <1>9, <2>1, <2>2
  <2> QED BY <2>3 DEF Good
<1>14. Encodes(c, g)
  BY <1>2, <1>8, <1>13 DEF Encodes
<1>15. EndsAt(After(state, t), g)
  BY <1>2, <1>7, <1>9 DEF EndsAt
<1> QED BY <1>7, <1>14, <1>15 DEF g

\* What is sent are the first tokens of each start, the longest, in order.
LEMMA EncodedIs ==
  ASSUME NEW T, AreTokens(T), NEW n \in Nat, NEW order, SortsTokens(order, n, T)
  PROVE  \E e : /\ AreFirsts(e, order, n, T)
                /\ Encodes(Encoded(order), e)
                /\ Encoded(order) \in Seq(Rows(T))
<1>1. order \in [1 .. n -> T]
  BY DEF SortsTokens
<1>2. PICK f : AreStates(f, order, n, T) /\ Encoded(order) = f[n].data
  BY <1>1, EncodedIsAFold
<1>3. \A i \in 0 .. n : f[i] \in States(T)
  BY <1>2 DEF AreStates
<1> DEFINE Ok(j, e) == AreFirsts(e, order, j, T) /\ Encodes(f[j].data, e) /\ EndsAt(f[j], e)
           J == {j \in 0 .. n : \E e : Ok(j, e)}
<1>4. 0 \in J
  <2> DEFINE e == <<>>
  <2>1. e \in Seq(T) /\ Len(e) = 0 /\ \A i \in 1 .. 0 : FALSE
    BY EmptySeq
  <2>2. f[0].data = e /\ f[0].line = 0 /\ f[0].character = 0 /\ f[0].lastStart = 0
    BY <1>2 DEF AreStates, Unsent
  <2> HIDE DEF e
  <2>3. AreFirsts(e, order, 0, T)
    BY <2>1 DEF AreFirsts
  <2>4. Encodes(f[0].data, e) /\ EndsAt(f[0], e)
    BY <2>1, <2>2 DEF Encodes, EndsAt
  <2>5. Ok(0, e) /\ 0 \in 0 .. n
    BY <2>3, <2>4
  <2> HIDE DEF Ok
  <2> QED BY <2>5
<1>5. ASSUME NEW j \in 0 .. n - 1, j \in J PROVE j + 1 \in J
  <2>1. PICK e : Ok(j, e)
    BY <1>5
  <2> DEFINE m == j + 1
             t == order[m]
  <2>2. j \in 0 .. n /\ m \in 1 .. n /\ m \in 0 .. n /\ m - 1 = j
    OBVIOUS
  <2>3. t \in T /\ f[j] \in States(T) /\ e \in Seq(T)
    BY <1>1, <1>3, <2>1, <2>2 DEF AreFirsts
  <2> HIDE DEF m
  <2>4. f[m] = After(f[j], t)
    BY <1>2, <2>2 DEF AreStates
  <2>5. t.start \in Nat \ {0}
    BY <2>3 DEF AreTokens
  <2>6. CASE t.start = f[j].lastStart
    <3>1. f[m] = f[j]
      BY <2>4, <2>6 DEF After
    <3>2. Len(e) # 0 /\ e[Len(e)].start = t.start
      BY <2>1, <2>5, <2>6 DEF EndsAt
    <3>3. AreFirsts(e, order, m, T)
      BY <2>1, <3>2, NextSameStart DEF m
    <3>4. Ok(m, e)
      BY <2>1, <3>1, <3>3
    <3> HIDE DEF Ok
    <3> QED BY <2>2, <3>4 DEF m
  <2>7. CASE t.start # f[j].lastStart
    <3>1. Len(e) # 0 => e[Len(e)].start # t.start
      BY <2>1, <2>7 DEF EndsAt
    <3>2. AreFirsts(Append(e, t), order, m, T)
      BY <2>1, <3>1, NextNewStart DEF m
    <3>3. Encodes(f[m].data, Append(e, t)) /\ EndsAt(f[m], Append(e, t))
      BY <2>1, <2>3, <2>4, <2>7, NextIsEncoded
    <3>4. Ok(m, Append(e, t))
      BY <3>2, <3>3
    <3> HIDE DEF Ok
    <3> QED BY <2>2, <3>4 DEF m
  <2> QED BY <2>6, <2>7
<1> HIDE DEF J
<1>6. n \in J
  BY <1>4, <1>5, UpwardInduction
<1>7. PICK e : Ok(n, e)
  BY <1>6 DEF J
<1>8. f[n].data \in Seq(Rows(T))
  BY <1>3 DEF States
<1> QED BY <1>2, <1>7, <1>8

LEMMA SortedIs ==
  ASSUME NEW T, IsFiniteSet(T), NEW order \in Sorted(T)
  PROVE  Cardinality(T) \in Nat /\ SortsTokens(order, Cardinality(T), T)
<1> DEFINE n == Cardinality(T)
           D == 1 .. n
<1>1. n \in Nat
  BY FS_CardinalityType
<1>2. /\ order \in [D -> T]
      /\ \A i, j \in D : i # j => order[i] # order[j]
      /\ \A i, j \in DOMAIN order : i < j =>
           \/ order[i].start < order[j].start
           \/ order[i].start = order[j].start /\ order[i].length >= order[j].length
  BY DEF Sorted, SetToSeqs
<1>3. DOMAIN order = D
  BY <1>2
<1>4. Cardinality(D) = n
  <2>1. 1 \in Int /\ n \in Int /\ (IF 1 > n THEN 0 ELSE n - 1 + 1) = n
    BY <1>1
  <2> HIDE DEF n
  <2> QED BY <2>1, FS_Interval
<1> HIDE DEF n, D
<1>5. order \in Injection(D, T)
  BY <1>2, <1>3 DEF Injection, IsInjective
<1>6. order \in Surjection(D, T)
  BY <1>4, <1>5, FS_Injection DEF n
<1>7. \A t \in T : \E i \in D : order[i] = t
  BY <1>6 DEF Surjection
<1> QED BY <1>1, <1>2, <1>3, <1>7 DEF SortsTokens, D, n

-----------------------------------------------------------------------------
(***************************************************************************)
(* Decoding.                                                               *)
(***************************************************************************)
Summed(data, from, to, c) == FoldLeft(LAMBDA n, d : n + d[c], 0, SubSeq(data, from, to))

AreSums(f, data, from, n, c) ==
  /\ f \in [0 .. n -> Int]
  /\ f[0] = 0
  /\ \A i \in 1 .. n : f[i] = f[i - 1] + data[(from + i) - 1][c]

LEMMA SummedIsAFold ==
  ASSUME NEW data, NEW from \in Nat, NEW n \in Nat, NEW c,
         \A i \in 1 .. n : data[(from + i) - 1][c] \in Int
  PROVE  \E f : AreSums(f, data, from, n, c) /\ Summed(data, from, (from + n) - 1, c) = f[n]
<1> DEFINE to == (from + n) - 1
           q == SubSeq(data, from, to)
           Value(i) == q[i][c]
           Iter(h) == [s \in SUBSET (1 .. n) |->
                         IF s = {} THEN 0 ELSE h[s \ {Max(s)}] + Value(Max(s))]
           step == [z \in Int \X (1 .. n) |-> z[1] + Value(z[2])]
           iter == CHOOSE h : h = Iter(h)
<1>1. DOMAIN q = 1 .. n /\ \A i \in 1 .. n : q[i] = data[(from + i) - 1]
  <2>1. from \in Int /\ to \in Int /\ (to - from) + 1 = n
    OBVIOUS
  <2>2. (IF from <= to THEN (to - from) + 1 ELSE 0) = n
    OBVIOUS
  <2> HIDE DEF to
  <2>3. /\ DOMAIN q = 1 .. (IF from <= to THEN (to - from) + 1 ELSE 0)
        /\ \A i \in 1 .. (to - from) + 1 : q[i] = data[(from + i) - 1]
    BY <2>1, PartIs
  <2> HIDE DEF q
  <2> QED BY <2>1, <2>2, <2>3
<1> HIDE DEF q
<1>2. Summed(data, from, to, c) = iter[1 .. n]
  BY <1>1 DEF Summed, FoldLeft, MapThenFoldSet, q
<1>3. \A i \in 1 .. n : Value(i) = data[(from + i) - 1][c] /\ Value(i) \in Int
  BY <1>1
<1> HIDE DEF Value
<1>4. step \in [Int \X (1 .. n) -> Int] /\ 0 \in Int
  BY <1>3
<1>5. \A x \in Int, i \in 1 .. n : step[<<x, i>>] = x + Value(i)
  OBVIOUS
<1> HIDE DEF step, to
<1>6. \A s \in SUBSET (1 .. n) : s # {} => Max(s) \in 1 .. n /\ s \ {Max(s)} \in SUBSET (1 .. n)
  BY GreatestIs
<1>7. iter = Iter(iter)
  <2>1. PICK h \in [SUBSET (1 .. n) -> Int] : IsSetFold(h, n, Int, 0, step)
    BY <1>4, SetFoldExists
  <2>2. ASSUME NEW s \in SUBSET (1 .. n)
        PROVE  h[s] = IF s = {} THEN 0 ELSE h[s \ {Max(s)}] + Value(Max(s))
    BY <1>5, <1>6, <2>1 DEF IsSetFold
  <2>3. h = [s \in SUBSET (1 .. n) |-> h[s]]
    BY <2>1 DEF IsSetFold
  <2>4. h = Iter(h)
    BY <2>2, <2>3, Zenon
  <2> HIDE DEF Iter
  <2> QED BY <2>4
<1> HIDE DEF iter
<1>8. IsSetFold(iter, n, Int, 0, step)
  <2>1. iter = [s \in SUBSET (1 .. n) |-> iter[s]] /\ iter[{}] = 0
    BY <1>7
  <2>2. ASSUME NEW s \in SUBSET (1 .. n), s # {}, iter[s \ {Max(s)}] \in Int
        PROVE  iter[s] = step[<<iter[s \ {Max(s)}], Max(s)>>]
    <3>1. iter[s] = iter[s \ {Max(s)}] + Value(Max(s))
      BY <1>7, <2>2
    <3> HIDE DEF Iter
    <3> QED BY <1>5, <1>6, <2>2, <3>1
  <2> QED BY <2>1, <2>2 DEF IsSetFold
<1> HIDE DEF Iter
<1>9. PICK f : IsFold(f, n, Int, 0, step) /\ f[n] = iter[1 .. n]
  <2>1. FoldsTo(iter[1 .. n], n, Int, 0, step)
    BY <1>4, <1>8, SetFoldIsFold
  <2> QED BY <2>1 DEF FoldsTo
<1>10. f \in [0 .. n -> Int] /\ f[0] = 0
  BY <1>9 DEF IsFold
<1>11. ASSUME NEW i \in 1 .. n PROVE f[i] = f[i - 1] + data[(from + i) - 1][c]
  <2>1. f[i] = step[<<f[i - 1], i>>] /\ f[i - 1] \in Int
    BY <1>9, <1>10 DEF IsFold
  <2> QED BY <1>3, <1>5, <2>1
<1>12. Summed(data, from, (from + n) - 1, c) = f[n]
  BY <1>2, <1>9 DEF to
<1>13. AreSums(f, data, from, n, c)
  BY <1>10, <1>11 DEF AreSums
<1> QED BY <1>12, <1>13

\* What is known before and grows by each number is known after.
GrowsBy(g, data, c, from, to) ==
  /\ \A j \in from - 1 .. to : g[j] \in Int
  /\ \A j \in from .. to : data[j][c] \in Int /\ g[j] = g[j - 1] + data[j][c]

LEMMA SumTelescopes ==
  ASSUME NEW data, NEW a \in Nat, NEW from \in Nat, from = a + 1, NEW to \in Nat, from <= to, NEW c,
         NEW g, GrowsBy(g, data, c, from, to)
  PROVE  Summed(data, from, to, c) = g[to] - g[a]
<1>0. /\ \A j \in a .. to : g[j] \in Int
      /\ \A j \in from .. to : data[j][c] \in Int /\ g[j] = g[j - 1] + data[j][c]
  <2>1. from - 1 = a
    OBVIOUS
  <2> QED BY <2>1 DEF GrowsBy
<1> DEFINE n == (to - from) + 1
<1>1. n \in Nat /\ from \in Nat /\ (from + n) - 1 = to /\ a \in Nat /\ a + n = to
  OBVIOUS
<1>2. \A i \in 1 .. n : (from + i) - 1 \in from .. to /\ (from + i) - 1 = a + i
  OBVIOUS
<1> HIDE DEF n
<1>3. \A i \in 1 .. n : data[(from + i) - 1][c] \in Int
  BY <1>0, <1>2
<1>4. PICK f : AreSums(f, data, from, n, c) /\ Summed(data, from, (from + n) - 1, c) = f[n]
  BY <1>1, <1>3, SummedIsAFold
<1> DEFINE T == {i \in 0 .. n : f[i] = g[a + i] - g[a]}
<1>5. 0 \in T
  <2>1. a \in a .. to /\ a + 0 = a
    BY <1>1
  <2>2. g[a] \in Int
    BY <1>0, <2>1
  <2> QED BY <1>1, <1>4, <2>1, <2>2 DEF AreSums
<1>6. ASSUME NEW j \in 0 .. n - 1, j \in T PROVE j + 1 \in T
  <2> DEFINE i == j + 1
             k == a + i
  <2>1. /\ i \in 1 .. n /\ i \in 0 .. n /\ i - 1 = j /\ k \in from .. to
        /\ k - 1 = a + j /\ (from + i) - 1 = k
        /\ k \in a .. to /\ k - 1 \in a .. to /\ a \in a .. to
    BY <1>1
  <2>2. f[j] = g[a + j] - g[a]
    BY <1>6
  <2> HIDE DEF i
  <2>3. f[i] = f[j] + data[k][c]
    BY <1>4, <2>1 DEF AreSums
  <2> HIDE DEF k
  <2>4. g[k] = g[k - 1] + data[k][c] /\ data[k][c] \in Int
    BY <1>0, <2>1
  <2>5. g[k] \in Int /\ g[k - 1] \in Int /\ g[a] \in Int
    BY <1>0, <2>1
  <2> DEFINE x == data[k][c]
             y == g[k - 1]
  <2>6. f[j] = y - g[a]
    BY <2>1, <2>2
  <2> HIDE DEF x, y
  <2>7. f[i] = f[j] + x /\ g[k] = y + x /\ x \in Int /\ y \in Int
    BY <2>3, <2>4, <2>5 DEF x, y
  <2>8. f[i] = g[k] - g[a]
    BY <2>5, <2>6, <2>7
  <2>9. i \in T
    BY <2>1, <2>8 DEF k
  <2> QED BY <2>9 DEF i
<1> HIDE DEF T
<1>7. n \in T
  BY <1>1, <1>5, <1>6, UpwardInduction
<1> QED BY <1>1, <1>4, <1>7 DEF T

\* The tokens are where they are in a text: no later one is before an earlier.
AreForward(e) ==
  \A h, i \in 1 .. Len(e) : h < i =>
    /\ e[h].line <= e[i].line
    /\ e[h].line = e[i].line => e[h].character <= e[i].character

LineAt(e, i) == IF i = 0 THEN 0 ELSE e[i].line
CharacterAt(e, i) == IF i = 0 THEN 0 ELSE e[i].character

LEMMA RowsAre ==
  ASSUME NEW T, AreTokens(T), NEW e \in Seq(T), NEW data, Encodes(data, e),
         AreForward(e), NEW i \in 1 .. Len(e)
  PROVE  /\ LineAt(e, i) \in Nat /\ LineAt(e, i - 1) \in Nat
         /\ CharacterAt(e, i) \in Nat /\ CharacterAt(e, i - 1) \in Nat
         /\ data[i][1] \in Nat /\ data[i][2] \in Nat
         /\ data[i][1] = LineAt(e, i) - LineAt(e, i - 1)
         /\ data[i][2] = IF data[i][1] = 0 THEN CharacterAt(e, i) - CharacterAt(e, i - 1)
                         ELSE CharacterAt(e, i)
         /\ data[i][3] = e[i].length
         /\ data[i][4] = e[i].kind
<1> DEFINE k == Len(e)
           before == IF i = 1 THEN Origin ELSE e[i - 1]
           t == e[i]
<1>1. \A j \in 1 .. k : e[j] \in T /\ e[j].line \in Nat /\ e[j].character \in Nat
  BY DEF AreTokens
<1>2. data[i] = Row(before, t)
  BY DEF Encodes
<1>3. i # 0 /\ (i - 1 = 0 <=> i = 1) /\ (i # 1 => i - 1 \in 1 .. k /\ i - 1 < i) /\ i \in Int
  OBVIOUS
<1> HIDE DEF k
<1>4. before.line = LineAt(e, i - 1) /\ before.character = CharacterAt(e, i - 1)
  BY <1>3 DEF Origin, LineAt, CharacterAt
<1>5. t.line = LineAt(e, i) /\ t.character = CharacterAt(e, i)
  BY <1>3 DEF LineAt, CharacterAt
<1>6. before.line \in Nat /\ before.character \in Nat
  BY <1>1, <1>3 DEF Origin
<1>7. t \in T /\ t.line \in Nat /\ t.character \in Nat
  BY <1>1 DEF k
<1>8. /\ before.line <= t.line
      /\ before.line = t.line => before.character <= t.character
  <2>1. CASE i = 1
    BY <1>7, <2>1 DEF Origin
  <2>2. CASE i # 1
    BY <1>3, <2>2 DEF AreForward, k
  <2> QED BY <2>1, <2>2
<1> HIDE DEF before, t
<1>9. /\ Row(before, t)[1] = t.line - before.line
      /\ Row(before, t)[2] = IF t.line = before.line THEN t.character - before.character
                             ELSE t.character
      /\ Row(before, t)[3] = t.length
      /\ Row(before, t)[4] = t.kind
  BY <1>6, <1>7, RowIs
<1> DEFINE dl == data[i][1]
           dc == data[i][2]
<1>10. /\ dl = t.line - before.line
       /\ dc = IF t.line = before.line THEN t.character - before.character ELSE t.character
       /\ data[i][3] = t.length /\ data[i][4] = t.kind
  BY <1>2, <1>9
<1> HIDE DEF dl, dc
<1>11. /\ dl \in Nat /\ dc \in Nat
       /\ dc = IF dl = 0 THEN t.character - before.character ELSE t.character
  BY <1>6, <1>7, <1>8, <1>10
<1> QED BY <1>4, <1>5, <1>6, <1>7, <1>10, <1>11 DEF dl, dc, t

\* What a client adds up is where the tokens are.
LEMMA DecodedIs ==
  ASSUME NEW T, AreTokens(T), NEW e \in Seq(T), NEW data, Encodes(data, e),
         AreForward(e), NEW i \in 1 .. Len(e)
  PROVE  /\ Summed(data, 1, i, 1) = e[i].line
         /\ Summed(data, Max({1} \cup {j \in 1 .. i : data[j][1] > 0}), i, 2) = e[i].character
<1> DEFINE k == Len(e)
           s == {1} \cup {j \in 1 .. i : data[j][1] > 0}
           first == Max(s)
<1>1. k \in Nat /\ i \in Nat /\ i # 0 /\ 1 \in Nat \ {0} /\ 1 <= i /\ \A j \in 1 .. i : j \in 1 .. k
  OBVIOUS
<1>2. \A j \in 1 .. k : /\ LineAt(e, j) \in Nat /\ LineAt(e, j - 1) \in Nat
                        /\ CharacterAt(e, j) \in Nat /\ CharacterAt(e, j - 1) \in Nat
                        /\ data[j][1] \in Nat /\ data[j][2] \in Nat
                        /\ data[j][1] = LineAt(e, j) - LineAt(e, j - 1)
                        /\ data[j][2] = IF data[j][1] = 0 THEN CharacterAt(e, j) - CharacterAt(e, j - 1)
                                        ELSE CharacterAt(e, j)
  BY RowsAre
<1>3. e[i].line = LineAt(e, i) /\ e[i].character = CharacterAt(e, i) /\ LineAt(e, 0) = 0
  BY <1>1 DEF LineAt, CharacterAt
<1> HIDE DEF k
<1>4. Summed(data, 1, i, 1) = LineAt(e, i)
  <2> DEFINE g == [j \in 0 .. i |-> LineAt(e, j)]
  <2>1. 0 \in Nat /\ 1 \in Nat /\ 1 = 0 + 1
    OBVIOUS
  <2>2. \A j \in 0 .. i : j = 0 \/ j \in 1 .. i
    OBVIOUS
  <2>3. \A j \in 0 .. i : g[j] \in Int
    <3> SUFFICES ASSUME NEW j \in 0 .. i PROVE LineAt(e, j) \in Int
      OBVIOUS
    <3>1. CASE j = 0
      BY <1>3, <3>1
    <3>2. CASE j # 0
      <4>1. j \in 1 .. k
        BY <1>1, <2>2, <3>2
      <4> QED BY <1>2, <4>1
    <3> QED BY <3>1, <3>2
  <2>4. \A j \in 1 .. i : j \in 0 .. i /\ j - 1 \in 0 .. i
    OBVIOUS
  <2>5. ASSUME NEW j \in 1 .. i PROVE data[j][1] \in Int /\ g[j] = g[j - 1] + data[j][1]
    <3>1. g[j] = LineAt(e, j) /\ g[j - 1] = LineAt(e, j - 1)
      BY <2>4
    <3> HIDE DEF g
    <3>2. /\ LineAt(e, j) \in Nat /\ LineAt(e, j - 1) \in Nat
          /\ data[j][1] \in Nat
          /\ data[j][1] = LineAt(e, j) - LineAt(e, j - 1)
      BY <1>1, <1>2
    <3> QED BY <3>1, <3>2
  <2>6. g[0] = 0 /\ g[i] = LineAt(e, i) /\ LineAt(e, i) \in Nat
    BY <1>1, <1>2, <1>3
  <2> HIDE DEF g
  <2>7. GrowsBy(g, data, 1, 1, i)
    <3>1. \A j \in 1 - 1 .. i : j \in 0 .. i
      OBVIOUS
    <3> QED BY <2>3, <2>5, <3>1 DEF GrowsBy
  <2> DEFINE zero == 0
             one == 1
  <2>8. /\ zero \in Nat /\ one \in Nat /\ one = zero + 1 /\ i \in Nat /\ one <= i
        /\ GrowsBy(g, data, 1, one, i)
    BY <1>1, <2>7
  <2> HIDE DEF zero, one
  <2>9. Summed(data, one, i, 1) = g[i] - g[zero]
    BY ONLY <2>8, SumTelescopes
  <2> QED BY <2>6, <2>9 DEF zero, one
<1>5. s \in SUBSET (1 .. i) /\ s # {}
  BY <1>1
<1>6. first \in s /\ first \in 1 .. i /\ \A j \in s : first >= j
  BY <1>1, <1>5, GreatestIs
<1> HIDE DEF first
<1>7. ASSUME NEW j \in first .. i, j # first PROVE data[j][2] = CharacterAt(e, j) - CharacterAt(e, j - 1)
  <2>1. j \in 1 .. i /\ j \in 1 .. k /\ ~(first >= j)
    BY <1>1, <1>6, <1>7
  <2>2. ~(data[j][1] > 0)
    BY <1>6, <2>1
  <2>3. data[j][1] \in Nat
    BY <1>2, <2>1
  <2>4. data[j][1] = 0
    BY <2>2, <2>3
  <2> QED BY <1>2, <2>1, <2>4
<1>8. data[first][2] = CharacterAt(e, first) /\ first \in 1 .. k
  <2>1. first \in 1 .. k
    BY <1>1, <1>6
  <2>2. CASE data[first][1] = 0
    <3>1. first = 1
      BY <1>6, <2>2
    <3>2. CharacterAt(e, 1 - 1) = 0
      BY DEF CharacterAt
    <3>3. data[1][2] = CharacterAt(e, 1) - CharacterAt(e, 1 - 1) /\ CharacterAt(e, 1) \in Nat
      BY <1>2, <2>1, <2>2, <3>1
    <3> QED BY <2>1, <3>1, <3>2, <3>3
  <2>3. CASE data[first][1] # 0
    BY <1>2, <2>1, <2>3
  <2> QED BY <2>2, <2>3
<1> HIDE DEF s
<1>9. Summed(data, first, i, 2) = CharacterAt(e, i)
  <2> DEFINE a == first - 1
             g == [j \in a .. i |-> IF j = a THEN 0 ELSE CharacterAt(e, j)]
  <2>1. first \in Nat /\ first <= i /\ a \in Nat /\ first = a + 1
    BY <1>6
  <2>2. \A j \in a .. i : j = a \/ (j # a /\ j \in first .. i)
    BY <2>1
  <2>3. \A j \in first .. i : /\ j \in 1 .. k /\ j # a /\ j \in a .. i
                              /\ j - 1 \in a .. i /\ (j # first => j - 1 # a)
    BY <1>1, <2>1
  <2>4. \A j \in a .. i : g[j] \in Int
    BY <1>2, <2>2, <2>3
  <2>5. ASSUME NEW j \in first .. i PROVE data[j][2] \in Int /\ g[j] = g[j - 1] + data[j][2]
    <3>1. g[j] = CharacterAt(e, j)
      BY <2>3
    <3>2. j # first => g[j - 1] = CharacterAt(e, j - 1)
      BY <2>3
    <3>3. j = first => g[j - 1] = 0
      BY <2>3
    <3>4. data[j][2] \in Nat /\ CharacterAt(e, j) \in Nat /\ CharacterAt(e, j - 1) \in Nat
      BY <1>2, <2>3
    <3> HIDE DEF g
    <3>5. CASE j = first
      BY <1>8, <3>1, <3>3, <3>4, <3>5
    <3>6. CASE j # first
      BY <1>7, <3>1, <3>2, <3>4, <3>6
    <3> QED BY <3>5, <3>6
  <2>6. g[a] = 0 /\ g[i] = CharacterAt(e, i) /\ CharacterAt(e, i) \in Nat
    <3>1. a \in a .. i /\ i \in first .. i
      BY <2>1
    <3> QED BY <1>2, <2>3, <3>1
  <2> HIDE DEF g, a
  <2>7. GrowsBy(g, data, 2, first, i)
    <3>1. first - 1 = a
      BY <2>1
    <3> QED BY <2>4, <2>5, <3>1 DEF GrowsBy
  <2>8. a \in Nat /\ first \in Nat /\ first = a + 1 /\ i \in Nat /\ first <= i
    BY <1>1, <2>1
  <2>9. Summed(data, first, i, 2) = g[i] - g[a]
    BY ONLY <2>7, <2>8, SumTelescopes
  <2> QED BY <2>6, <2>9
<1> QED BY <1>3, <1>4, <1>9 DEF first, s

-----------------------------------------------------------------------------
(***************************************************************************)
(* The tokens of a text.                                                   *)
(***************************************************************************)
LEMMA ImageIsFinite ==
  ASSUME NEW S, IsFiniteSet(S), NEW f
  PROVE  IsFiniteSet({f[x] : x \in S})
<1> DEFINE R == {f[x] : x \in S}
           g == [x \in S |-> f[x]]
<1>1. g \in [S -> R] /\ \A r \in R : \E x \in S : g[x] = r
  OBVIOUS
<1> HIDE DEF g, R
<1>2. g \in Surjection(S, R)
  BY <1>1 DEF Surjection
<1>3. IsFiniteSet(R)
  BY <1>2, FS_Surjection
<1> QED BY <1>3 DEF R

LEMMA SpansAre ==
  ASSUME NEW V, NEW text \in Seq(V)
  PROVE  /\ IsFiniteSet(SourceCommentSpans(text))
         /\ \A s \in SourceCommentSpans(text) : s.start \in 1 .. Len(text) /\ s.end \in Int
<1> DEFINE n == Len(text)
           End(i) == Min({j \in i .. n : text[j] = "LF"} \cup {n + 1})
           I == {k \in DOMAIN text : text[k] = "#" /\ InString(text)[k - 1] = "NONE"}
           f == [i \in 1 .. n |-> [start |-> i, end |-> End(i)]]
<1>1. n \in Nat /\ DOMAIN text = 1 .. n
  OBVIOUS
<1>2. SourceCommentSpans(text) = {[start |-> i, end |-> End(i)] : i \in I}
  BY DEF SourceCommentSpans
<1>3. I \subseteq 1 .. n
  BY <1>1
<1> HIDE DEF I, n
<1>4. ASSUME NEW i \in 1 .. n PROVE End(i) \in Int
  <2> DEFINE E == {j \in i .. n : text[j] = "LF"} \cup {n + 1}
  <2>1. E \subseteq Nat /\ E # {}
    BY <1>1
  <2> HIDE DEF E
  <2>2. PICK z \in E : \A y \in E : z <= y
    BY <2>1, SmallestOf
  <2>3. z \in E /\ E \subseteq Nat /\ \A y \in E : z <= y
    BY <2>1, <2>2
  <2>4. Min(E) = z
    BY ONLY <2>3, MinIs
  <2>5. Min(E) \in Int
    BY <2>3, <2>4
  <2> QED BY <2>5 DEF E
<1> HIDE DEF End
<1>5. SourceCommentSpans(text) = {f[i] : i \in I}
  <2>1. \A i \in I : f[i] = [start |-> i, end |-> End(i)]
    BY <1>3
  <2> HIDE DEF f
  <2> QED BY <1>2, <2>1
<1>6. IsFiniteSet(I)
  <2>1. IsFiniteSet(1 .. n)
    BY <1>1, FS_Interval, 1 \in Int
  <2> QED BY <1>3, <2>1, FS_Subset
<1>7. \A i \in I : f[i].start \in 1 .. n /\ f[i].end \in Int
  BY <1>3, <1>4
<1> HIDE DEF f
<1>8. IsFiniteSet({f[i] : i \in I})
  BY <1>6, ImageIsFinite
<1> QED BY <1>5, <1>7, <1>8 DEF n

LEMMA UnitLengthIsNatural ==
  ASSUME NEW text, NEW start \in Int, NEW end \in Int
  PROVE  UnitLength(text, start, end) \in Nat
<1> DEFINE n == IF start <= end - 1 THEN end - start ELSE 0
<1>1. n \in Nat
  OBVIOUS
<1>2. n = IF start <= end - 1 THEN end - start ELSE 0
  OBVIOUS
<1> HIDE DEF n
<1>3. PICK f : AreUnitSums(f, text, start, n) /\ UnitLength(text, start, end) = f[n]
  BY <1>1, <1>2, UnitLengthIsAFold
<1> QED BY <1>1, <1>3 DEF AreUnitSums

IsPlaced(t, at, n) ==
  /\ t.start \in 1 .. n /\ t.length \in Nat
  /\ t.line = at[t.start - 1].line /\ t.character = at[t.start - 1].character

LEMMA TokenIs ==
  ASSUME NEW text, NEW n \in Nat, NEW at, ArePositions(at, text, n),
         NEW start \in 1 .. n, NEW end \in Int, NEW kind
  PROVE  IsPlaced(Token(text, start, end, kind), at, n)
<1>1. start - 1 \in 0 .. n /\ start - 1 + 1 = start /\ start \in Int
  OBVIOUS
<1>2. PositionAtOffset(text, start) = at[start - 1]
  BY <1>1, PositionsAre
<1>3. UnitLength(text, start, end) \in Nat
  BY <1>1, UnitLengthIsNatural
<1> QED BY <1>2, <1>3 DEF IsPlaced, Token

LEMMA TokensAre ==
  ASSUME NEW V, NEW text \in Seq(V), NEW at, ArePositions(at, text, Len(text)),
         NEW captures, IsFiniteSet(captures),
         \A c \in captures : c.start \in 1 .. Len(text) /\ c.end \in Int,
         NEW recovered
  PROVE  /\ IsFiniteSet(Tokens(text, captures, recovered))
         /\ \A t \in Tokens(text, captures, recovered) : IsPlaced(t, at, Len(text))
<1> DEFINE n == Len(text)
           lineAt(i) == PositionAtOffset(text, i).line
           captured == {c \in captures : lineAt(c.start) = lineAt(c.end) /\ c.kind # ""}
           comments == IF recovered THEN SourceCommentSpans(text) ELSE {}
           f == [c \in captured |-> Token(text, c.start, c.end, c.kind)]
           g == [s \in comments |-> Token(text, s.start, s.end, "comment")]
           F == {f[c] : c \in captured}
           G == {g[s] : s \in comments}
           T == Tokens(text, captures, recovered)
<1>1. n \in Nat
  OBVIOUS
<1>2. T \subseteq F \cup G
  BY DEF Tokens
<1>3. IsFiniteSet(captured) /\ \A c \in captured : c.start \in 1 .. n /\ c.end \in Int
  BY FS_Subset
<1>4. IsFiniteSet(comments) /\ \A s \in comments : s.start \in 1 .. n /\ s.end \in Int
  BY SpansAre, FS_EmptySet
<1> HIDE DEF captured, comments, n, T
<1>5. \A t \in F : IsPlaced(t, at, n)
  BY <1>1, <1>3, TokenIs DEF n
<1>6. \A t \in G : IsPlaced(t, at, n)
  BY <1>1, <1>4, TokenIs DEF n
<1> HIDE DEF f, g
<1>7. IsFiniteSet(F) /\ IsFiniteSet(G)
  BY <1>3, <1>4, ImageIsFinite
<1> HIDE DEF F, G
<1>8. IsFiniteSet(T)
  BY <1>2, <1>7, FS_Union, FS_Subset
<1> QED BY <1>2, <1>5, <1>6, <1>8 DEF T, n

\* The data are those of the longest token of each start, in order.
IsSent(data, T, e) ==
  /\ e \in Seq(T) /\ data \in Seq(Rows(T)) /\ Encodes(data, e)
  /\ \A i \in 1 .. Len(e) : IsLongest(e[i], T)
  /\ \A t \in T : \E i \in 1 .. Len(e) : e[i].start = t.start
  /\ \A h, i \in 1 .. Len(e) : h < i => e[h].start < e[i].start

LEMMA TokensAreSent ==
  ASSUME NEW V, NEW text \in Seq(V), NEW at, ArePositions(at, text, Len(text)),
         NEW T, IsFiniteSet(T), \A t \in T : IsPlaced(t, at, Len(text)),
         NEW order \in Sorted(T)
  PROVE  AreTokens(T) /\ \E e : IsSent(Encoded(order), T, e)
<1> DEFINE n == Len(text)
           m == Cardinality(T)
<1>1. AreTokens(T)
  <2> SUFFICES ASSUME NEW t \in T
               PROVE  /\ t.start \in Nat \ {0} /\ t.length \in Nat
                      /\ t.line \in Nat /\ t.character \in Nat
    BY DEF AreTokens
  <2>1. n \in Nat /\ IsPlaced(t, at, n)
    OBVIOUS
  <2> HIDE DEF n
  <2>2. t.start \in 1 .. n /\ t.start - 1 \in 0 .. n
    BY <2>1 DEF IsPlaced
  <2>3. at[t.start - 1] \in Positions
    BY <2>2 DEF ArePositions, n
  <2> QED BY <2>1, <2>2, <2>3 DEF IsPlaced, Positions
<1>2. m \in Nat /\ SortsTokens(order, m, T)
  BY SortedIs
<1> HIDE DEF m, n
<1>3. PICK e : /\ AreFirsts(e, order, m, T)
               /\ Encodes(Encoded(order), e)
               /\ Encoded(order) \in Seq(Rows(T))
  BY <1>1, <1>2, EncodedIs
<1>4. \A t \in T : \E l \in 1 .. m : order[l] = t
  BY <1>2 DEF SortsTokens
<1>5. IsSent(Encoded(order), T, e)
  BY <1>3, <1>4 DEF AreFirsts, IsSent
<1> QED BY <1>1, <1>5

LEMMA NothingIsSent == AreTokens({}) /\ IsSent(<<>>, {}, <<>>)
<1> DEFINE e == <<>>
<1>1. e \in Seq({}) /\ e \in Seq(Rows({})) /\ Len(e) = 0 /\ \A i \in 1 .. 0 : FALSE
  BY EmptySeq
<1> HIDE DEF e
<1>2. IsSent(e, {}, e)
  BY <1>1 DEF IsSent, Encodes
<1> QED BY <1>2 DEF e, AreTokens

LEMMA SentAreForward ==
  ASSUME NEW text, NEW n \in Nat, NEW at, ArePositions(at, text, n),
         NEW T, AreTokens(T), \A t \in T : IsPlaced(t, at, n),
         NEW data, NEW e, IsSent(data, T, e)
  PROVE  AreForward(e)
<1> SUFFICES ASSUME NEW h \in 1 .. Len(e), NEW i \in 1 .. Len(e), h < i
             PROVE  /\ e[h].line <= e[i].line
                    /\ e[h].line = e[i].line => e[h].character <= e[i].character
  BY DEF AreForward
<1>1. e[h] \in T /\ e[i] \in T /\ e[h].start < e[i].start
  BY DEF IsSent
<1>2. /\ e[h].start \in 1 .. n /\ e[i].start \in 1 .. n
      /\ e[h].line = at[e[h].start - 1].line /\ e[h].character = at[e[h].start - 1].character
      /\ e[i].line = at[e[i].start - 1].line /\ e[i].character = at[e[i].start - 1].character
  BY <1>1 DEF IsPlaced
<1> DEFINE a == e[h].start - 1
           b == e[i].start - 1
<1>3. a \in 0 .. n /\ b \in a .. n
  BY <1>1, <1>2
<1> HIDE DEF a, b
<1>4. /\ at[a].line <= at[b].line
      /\ at[a].line = at[b].line => at[a].character <= at[b].character
  BY <1>3, PositionsIncrease
<1> QED BY <1>2, <1>4 DEF a, b

-----------------------------------------------------------------------------
(***************************************************************************)
(* Clients.                                                                *)
(***************************************************************************)
\* The tokens of a text, and what is sent of them.
Highlighted == Tokens(view.text, view.captures, view.recovered)
ViewInv ==
  /\ view.text \in Seq(Characters)
  /\ IsFiniteSet(view.captures)
  /\ \A c \in view.captures : c.start \in 1 .. Len(view.text) /\ c.end \in Int
  /\ AreTokens(Highlighted) /\ \E e : IsSent(view.data, Highlighted, e)

LEMMA SeenAt ==
  ASSUME NEW at, ArePositions(at, view.text, Len(view.text)), view.text \in Seq(Characters),
         NEW start \in 1 .. Len(view.text)
  PROVE  Seen(start) = [line |-> at[start - 1].line, character |-> at[start - 1].character]
<1> DEFINE n == Len(view.text)
           text == view.text
           k == start - 1
<1>1. n \in Nat /\ k \in 0 .. n /\ k + 1 = start
  OBVIOUS
<1>2. /\ at[k].line = Cardinality(EndsTo(text, k))
      /\ at[k].character = UnitLength(text, Max(EndsTo(text, k) \cup {0}) + 1, k + 1)
  <2>1. n \in Nat /\ k \in 0 .. n /\ ArePositions(at, text, n)
    BY <1>1
  <2> HIDE DEF k, text, n
  <2> QED BY <2>1, SeenIs
<1>3. Seen(start) = [line |-> Cardinality(EndsTo(text, k)),
                     character |-> UnitLength(text, Max(EndsTo(text, k) \cup {0}) + 1, start)]
  BY DEF Seen, EndsTo
<1> QED BY <1>1, <1>2, <1>3

\* What a client reads is what was sent.
LEMMA DecodedAre ==
  ASSUME AreTokens(Highlighted), NEW e, IsSent(view.data, Highlighted, e), AreForward(e)
  PROVE  /\ DOMAIN view.data = 1 .. Len(e)
         /\ Len(Decoded) = Len(e) /\ DOMAIN Decoded = 1 .. Len(e)
         /\ \A i \in 1 .. Len(e) :
              /\ Decoded[i] = [line |-> e[i].line, character |-> e[i].character,
                               length |-> e[i].length, kind |-> e[i].kind]
              /\ view.data[i][1] \in Nat /\ view.data[i][2] \in Nat
<1> DEFINE data == view.data
           k == Len(e)
           T == Highlighted
           Added(i) == [line |-> Summed(data, 1, i, 1),
                     character |-> Summed(data, Max({1} \cup {j \in 1 .. i : data[j][1] > 0}), i, 2),
                     length |-> data[i][3], kind |-> data[i][4]]
           Sent(i) == [line |-> e[i].line, character |-> e[i].character,
                         length |-> e[i].length, kind |-> e[i].kind]
<1>1. k \in Nat /\ e \in Seq(T) /\ data \in Seq(Rows(T)) /\ Len(data) = k /\ Encodes(data, e)
  BY DEF IsSent, Encodes
<1>2. DOMAIN data = 1 .. k
  BY <1>1
<1>3. Decoded = [i \in 1 .. k |-> Added(i)]
  <2>1. Decoded = [i \in DOMAIN data |-> Added(i)]
    BY DEF Decoded, Summed
  <2> HIDE DEF Added, k, data
  <2> QED BY <1>2, <2>1
<1>4. ASSUME NEW i \in 1 .. k
      PROVE  Added(i) = Sent(i) /\ data[i][1] \in Nat /\ data[i][2] \in Nat
  <2>1. /\ data[i][1] \in Nat /\ data[i][2] \in Nat
        /\ data[i][3] = e[i].length /\ data[i][4] = e[i].kind
    <3> HIDE DEF data, T
    <3> QED BY <1>1, RowsAre DEF T
  <2>2. /\ Summed(data, 1, i, 1) = e[i].line
        /\ Summed(data, Max({1} \cup {j \in 1 .. i : data[j][1] > 0}), i, 2) = e[i].character
    <3> HIDE DEF data, T
    <3> QED BY <1>1, DecodedIs DEF T
  <2> QED BY <2>1, <2>2
<1> DEFINE S == {Added(i) : i \in 1 .. k}
           d == Decoded
<1>5. \A i \in 1 .. k : d[i] = Added(i)
  BY <1>3
<1>6. d \in [1 .. k -> S]
  BY <1>3
<1> HIDE DEF S, Added, k, d
<1>7. Len(d) = k /\ DOMAIN d = 1 .. k
  BY <1>1, <1>6, FunctionIsSeq
<1>8. \A i \in 1 .. k : d[i] = Sent(i)
  BY <1>4, <1>5
<1> QED BY <1>2, <1>4, <1>7, <1>8 DEF d, k

LEMMA StartsAreCounted ==
  ASSUME NEW T, AreTokens(T), NEW data, NEW e, IsSent(data, T, e)
  PROVE  Len(e) = Cardinality({t.start : t \in T})
<1> DEFINE k == Len(e)
           R == {t.start : t \in T}
           f == [i \in 1 .. k |-> e[i].start]
           D == 1 .. k
<1>1. k \in Nat /\ \A i \in D : e[i] \in T
  BY DEF IsSent
<1>2. IsFiniteSet(D) /\ Cardinality(D) = k
  <2>1. 1 \in Int /\ k \in Int /\ (IF 1 > k THEN 0 ELSE k - 1 + 1) = k
    BY <1>1
  <2> HIDE DEF k
  <2> QED BY <2>1, FS_Interval
<1>3. f \in [D -> R]
  BY <1>1
<1>4. \A r \in R : \E i \in D : f[i] = r
  BY DEF IsSent
<1>5. ASSUME NEW a \in D, NEW b \in D, f[a] = f[b] PROVE a = b
  <2>1. f[a] = e[a].start /\ f[b] = e[b].start /\ f[a] \in Nat /\ f[b] \in Nat
    BY <1>1 DEF AreTokens
  <2>2. /\ a < b => e[a].start < e[b].start
        /\ b < a => e[b].start < e[a].start
    BY DEF IsSent
  <2> DEFINE p == e[a].start
             q == e[b].start
  <2>3. a \in Int /\ b \in Int /\ p = q /\ p \in Nat /\ q \in Nat
    BY <1>1, <1>5, <2>1
  <2>4. (a < b => p < q) /\ (b < a => q < p)
    BY <2>2
  <2> HIDE DEF p, q
  <2> QED BY <2>3, <2>4
<1> HIDE DEF f, R, D
<1>6. Cardinality(R) = Cardinality(D)
  BY <1>2, <1>3, <1>4, <1>5, SameSize
<1> QED BY <1>2, <1>6 DEF R

LEMMA ClientsSee == ViewInv => TokensAreWhereCaptured
<1> SUFFICES ASSUME ViewInv PROVE TokensAreWhereCaptured OBVIOUS
<1> DEFINE T == Highlighted
           n == Len(view.text)
           longest == {t \in T : \A u \in T : u.start = t.start => u.length <= t.length}
<1>1. n \in Nat /\ view.text \in Seq(Characters)
  BY DEF ViewInv
<1>2. PICK at : ArePositions(at, view.text, n)
  BY <1>1, PositionsExist
<1>3. \A t \in T : IsPlaced(t, at, n)
  BY <1>1, <1>2, TokensAre DEF ViewInv, Highlighted
<1>4. AreTokens(T)
  BY DEF ViewInv
<1>5. PICK e : IsSent(view.data, T, e)
  BY DEF ViewInv
<1>6. AreForward(e)
  BY <1>1, <1>2, <1>3, <1>4, <1>5, SentAreForward
<1> DEFINE k == Len(e)
           Reads(t) == [line |-> t.line, character |-> t.character, length |-> t.length, kind |-> t.kind]
<1>7. /\ DOMAIN view.data = 1 .. k /\ Len(Decoded) = k /\ DOMAIN Decoded = 1 .. k
      /\ \A i \in 1 .. k : /\ Decoded[i] = Reads(e[i])
                           /\ view.data[i][1] \in Nat /\ view.data[i][2] \in Nat
  BY <1>4, <1>5, <1>6, DecodedAre
<1>8. ASSUME NEW t \in T
      PROVE  Seen(t.start) = [line |-> t.line, character |-> t.character]
  <2>1. t.start \in 1 .. n /\ t.line = at[t.start - 1].line /\ t.character = at[t.start - 1].character
    BY <1>3 DEF IsPlaced
  <2> QED BY <1>1, <1>2, <2>1, SeenAt
<1>9. /\ \A i \in 1 .. k : e[i] \in longest
      /\ \A t \in T : \E i \in 1 .. k : e[i].start = t.start
  <2> HIDE DEF T
  <2>1. /\ e \in Seq(T) /\ \A i \in 1 .. k : IsLongest(e[i], T)
        /\ \A t \in T : \E i \in 1 .. k : e[i].start = t.start
    BY <1>5 DEF IsSent
  <2>2. \A i \in 1 .. k : e[i] \in T
    BY <2>1
  <2> HIDE DEF k
  <2> QED BY <2>1, <2>2 DEF IsLongest
<1>10. longest \subseteq T
  OBVIOUS
<1>11. k = Cardinality({t.start : t \in T})
  BY <1>4, <1>5, StartsAreCounted
<1> DEFINE d == Decoded
<1>12. Range(d) = {d[i] : i \in 1 .. k}
  BY <1>7 DEF Range
<1>13. TokensAreWhereCaptured <=>
         /\ \A c \in Range(d) : \E t \in longest :
              c = [line |-> Seen(t.start).line, character |-> Seen(t.start).character,
                   length |-> t.length, kind |-> t.kind]
         /\ \A t \in longest : \E c \in Range(d) :
              Seen(t.start) = [line |-> c.line, character |-> c.character]
         /\ Len(d) = Cardinality({t.start : t \in T})
         /\ \A i \in DOMAIN view.data : view.data[i][1] >= 0 /\ view.data[i][2] >= 0
  BY DEF TokensAreWhereCaptured, Highlighted
<1> HIDE DEF T, longest, d, k, n
<1>14. ASSUME NEW c \in Range(d)
       PROVE  \E t \in longest :
                c = [line |-> Seen(t.start).line, character |-> Seen(t.start).character,
                     length |-> t.length, kind |-> t.kind]
  <2>1. PICK i \in 1 .. k : c = d[i]
    BY <1>12
  <2>2. c = Reads(e[i]) /\ e[i] \in longest /\ e[i] \in T
    BY <1>7, <1>9, <1>10, <2>1 DEF d
  <2> DEFINE t == e[i]
  <2>3. Seen(t.start) = [line |-> t.line, character |-> t.character]
    BY <1>8, <2>2
  <2>4. t \in longest /\ c = Reads(t)
    BY <2>2
  <2> HIDE DEF t
  <2>5. Seen(t.start).line = t.line /\ Seen(t.start).character = t.character
    BY <2>3
  <2> QED BY <2>4, <2>5
<1>15. ASSUME NEW t \in longest
       PROVE  \E c \in Range(d) : Seen(t.start) = [line |-> c.line, character |-> c.character]
  <2>1. PICK i \in 1 .. k : e[i].start = t.start
    BY <1>9, <1>10
  <2>2. e[i] \in T /\ d[i] = Reads(e[i]) /\ d[i] \in Range(d)
    BY <1>7, <1>9, <1>10, <1>12 DEF d
  <2>3. Seen(t.start) = [line |-> e[i].line, character |-> e[i].character]
    BY <1>8, <2>1, <2>2
  <2> QED BY <2>2, <2>3
<1>16. \A i \in DOMAIN view.data : view.data[i][1] >= 0 /\ view.data[i][2] >= 0
  BY <1>7
<1>17. Len(d) = Cardinality({t.start : t \in T})
  BY <1>7, <1>11 DEF d
<1> QED BY <1>13, <1>14, <1>15, <1>16, <1>17

LEMMA CapturesAre ==
  ASSUME NEW n \in Nat, NEW captures \in CaptureSets(n)
  PROVE  /\ IsFiniteSet(captures)
         /\ \A c \in captures : c.start \in 1 .. n /\ c.end \in Int
<1> DEFINE spans == {s \in [start : 1 .. n, end : 2 .. n + 1, kind : CaptureKinds] : s.start < s.end}
<1>1. \A s \in spans : s.start \in 1 .. n /\ s.end \in Int
  OBVIOUS
<1>2. captures \in {{}} \cup {{c, d} : c, d \in spans}
  BY DEF CaptureSets
<1> HIDE DEF spans
<1>3. CASE captures = {}
  BY <1>3, FS_EmptySet
<1>4. CASE captures # {}
  <2>1. PICK c \in spans, d \in spans : captures = {c, d}
    BY <1>2, <1>4
  <2>2. IsFiniteSet({})
    BY FS_EmptySet
  <2>3. IsFiniteSet({} \cup {c})
    BY ONLY <2>2, FS_AddElement
  <2>4. IsFiniteSet(({} \cup {c}) \cup {d})
    BY ONLY <2>3, FS_AddElement
  <2>5. ({} \cup {c}) \cup {d} = captures
    BY <2>1
  <2> QED BY <1>1, <2>1, <2>4, <2>5
<1> QED BY <1>3, <1>4

\* ViewInv is inductive: the captures of a text are within it.
LEMMA InductiveView == Spec => []ViewInv
<1>1. Init => ViewInv
  <2> SUFFICES ASSUME Init PROVE ViewInv OBVIOUS
  <2>1. view.text = <<>> /\ view.captures = {} /\ view.recovered = FALSE /\ view.data = <<>>
    BY DEF Init, NoView
  <2>2. Highlighted = {}
    BY <2>1 DEF Highlighted, Tokens
  <2>3. <<>> \in Seq(Characters)
    BY EmptySeq
  <2>4. AreTokens(Highlighted) /\ IsSent(view.data, Highlighted, <<>>)
    BY ONLY <2>1, <2>2, NothingIsSent
  <2> QED BY <2>1, <2>3, <2>4, FS_EmptySet DEF ViewInv
<1>2. ViewInv /\ [Next]_vars => ViewInv'
  <2> SUFFICES ASSUME ViewInv, [Next]_vars PROVE ViewInv' OBVIOUS
  <2>1. CASE Highlight
    <3>1. PICK n \in 1 .. MaxText :
            \E text \in [1 .. n -> Characters] :
              \E captures \in CaptureSets(n), recovered \in BOOLEAN :
                \E data \in EncodedTokens(text, captures, recovered) :
                  view' = [text |-> text, captures |-> captures, recovered |-> recovered, data |-> data]
      BY <2>1 DEF Highlight
    <3>2. PICK text \in [1 .. n -> Characters], captures \in CaptureSets(n), recovered \in BOOLEAN :
            \E data \in EncodedTokens(text, captures, recovered) :
              view' = [text |-> text, captures |-> captures, recovered |-> recovered, data |-> data]
      BY <3>1
    <3>3. PICK data \in EncodedTokens(text, captures, recovered) :
            view' = [text |-> text, captures |-> captures, recovered |-> recovered, data |-> data]
      BY <3>2
    <3>4. n \in Nat /\ text \in Seq(Characters) /\ Len(text) = n
      <4>1. n \in Nat
        OBVIOUS
      <4> QED BY <4>1, FunctionIsSeq
    <3>5. IsFiniteSet(captures) /\ \A c \in captures : c.start \in 1 .. Len(text) /\ c.end \in Int
      BY <3>4, CapturesAre
    <3> DEFINE T == Tokens(text, captures, recovered)
    <3>7. PICK at : ArePositions(at, text, Len(text))
      BY <3>4, PositionsExist
    <3>8. IsFiniteSet(T) /\ \A t \in T : IsPlaced(t, at, Len(text))
      BY <3>4, <3>5, <3>7, TokensAre
    <3>9. PICK order \in Sorted(T) : data = Encoded(order)
      BY DEF EncodedTokens
    <3> HIDE DEF T
    <3>10. AreTokens(T) /\ \E e : IsSent(data, T, e)
      BY <3>4, <3>7, <3>8, <3>9, TokensAreSent
    <3>11. /\ view'.text = text /\ view'.captures = captures
           /\ view'.recovered = recovered /\ view'.data = data
      BY <3>3
    <3>12. Highlighted' = T
      BY <3>11 DEF Highlighted, T
    <3> QED BY <3>4, <3>5, <3>10, <3>11, <3>12 DEF ViewInv
  <2>2. CASE UNCHANGED view
    BY <2>2 DEF ViewInv, Highlighted
  <2>3. Type \/ Request \/ Write \/ UNCHANGED vars => UNCHANGED view
    BY DEF Type, Request, Write, vars
  <2> QED BY <2>1, <2>2, <2>3 DEF Next
<1> QED BY <1>1, <1>2, PTL DEF Spec

\* A client finds a token where the query's captures, or for a masked tree the comments,
\* start, the longest there is, and no other, and all numbers it is sent are unsigned: for
\* any text of any length, and in whatever order the sort leaves tokens of one place.
THEOREM TokensAreFound == Spec => []TokensAreWhereCaptured
<1> QED BY ClientsSee, InductiveView, PTL
=============================================================================
