--------------------------- MODULE SnapshotLoader ---------------------------
(***************************************************************************)
(* SnapshotLoader of the sidecar (src/semanticd/src/main.rs): the sources  *)
(* a check is given for an import, from the documents of the request or,   *)
(* if none of them answers, from Bend's own loader.                        *)
(*                                                                         *)
(* Data.  A path is the sequence of its names, without the extension; a    *)
(* logical name is a path below the workspace root.  A URI is a record: a  *)
(* file's has its path (however it was escaped: percent_decode undoes it), *)
(* others have none.  An import has a path, here its prefix, and names, its *)
(* files, unless it is a "Glob"; from tells `from path import names` from  *)
(* `import path/name`, which the loader does not.                          *)
(***************************************************************************)
EXTENDS Integers, Sequences, SequencesExt

Unsaved == "__bend_intel_unsaved__"

\* uri_path.
UriPath(uri, root) ==
  IF uri.scheme = "file" THEN uri.path ELSE Append(root, Unsaved)

\* logical_document_name: below the root, or as it is, or, without a root, the last name.
LogicalDocumentName(uri, root) ==
  LET path == UriPath(uri, root)
  IN CASE root = <<>> -> <<Last(path)>>
       [] root # <<>> /\ IsPrefix(root, path) -> SubSeq(path, Len(root) + 1, Len(path))
       [] OTHER -> path

\* join_logical_name.
JoinLogicalName(prefix, file) == Append(prefix, file)

\* SnapshotLoader::new: of documents with one name the last in the request stays.
SnapshotDocuments(request) ==
  LET Name(d) == LogicalDocumentName(d.uri, request.root)
      names == {Name(request.documents[i]) : i \in DOMAIN request.documents}
  IN [name \in names |->
        LET last == SelectLastInSeq(request.documents, LAMBDA d : Name(d) = name)
        IN request.documents[last].source]

\* Variant: a glob takes the files of subdirectories too.
GlobAll(names, prefix) == {name \in names : IsStrictPrefix(prefix, name)}

\* The documents of a directory.
Glob(names, prefix) == {name \in names : Front(name) = prefix}

\* The names an import finds in the snapshot.
Found(documents, import) ==
  IF import.type = "Glob" THEN Glob(DOMAIN documents, import.prefix)
  ELSE {JoinLogicalName(import.prefix, file) : file \in import.files} \cap DOMAIN documents

\* import.src: the names of an import with the files they are bound to.
Bound(import, names) ==
  [kind |-> IF import.type = "Single" THEN "File" ELSE "Dir",
   files |-> {<<Last(name), name>> : name \in names}]

\* PackageLoader::load: the sources, and what it leaves in import.src; fallback is what
\* Bend's loader answers and leaves there.
Load(documents, import, fallback) ==
  LET names == Found(documents, import)
  IN IF names = {} THEN fallback
     ELSE [sources |-> [name \in names |-> documents[name]], src |-> Bound(import, names)]
=============================================================================
