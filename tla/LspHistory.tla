----------------------------- MODULE LspHistory -----------------------------
(***************************************************************************)
(* LspServer with a history of what the client has had on its screen: each *)
(* text with the version it gave it.  No action of the server reads it; it *)
(* is what the snapshots given to the compiler are compared with.          *)
(***************************************************************************)
EXTENDS LspServer

VARIABLE history  \* per document, the client's texts with their versions

Client(u) == [version |-> clientVersion[u], text |-> clientText[u]]

HistoryInit == Init /\ history = [u \in Uris |-> {Client(u)}]

HistoryNext ==
  /\ Next
  /\ history' = [u \in Uris |-> history[u] \cup {Client(u)'}]

HistorySpec == HistoryInit /\ [][HistoryNext]_<<vars, history>>

\* docs/semantic-protocol.md:28 "The document list is a versioned workspace
\* snapshot": each document a check is given is one the client has had, with that
\* text at that version.  An older one that is whole, as after a didChange that was
\* refused before any of it was applied, is a snapshot too.
SnapshotIsTheClients ==
  \A c \in Checks, u \in Uris : Started(c) => checkSnap[c][u] \in history[u]
=============================================================================
