------------------------------ MODULE LspServer ------------------------------
(***************************************************************************)
(* The language server of src/lsp/server.go: one handler goroutine that    *)
(* reads and serves messages in order, and one goroutine per compiler      *)
(* check (scheduleSemantic).  They share, under semanticMu, the document   *)
(* versions, the stored results and the cancel functions; every other      *)
(* field belongs to the handler.  A handler is split exactly where it      *)
(* releases semanticMu or writes a notification, because that is where a   *)
(* check's goroutine can get in between.                                   *)
(*                                                                         *)
(* Data.  The n-th didOpen/didChange carries the client text n; Damaged(n) *)
(* is what the server's buffer holds once it no longer follows the client  *)
(* (edit n failed after part of its batch, or was a ranged edit of such a  *)
(* buffer).  Edit n schedules at most one check, which is check n.         *)
(*                                                                         *)
(* A semantic backend is configured: without one scheduleSemantic returns  *)
(* at once and there is nothing concurrent to say.  Writes to the client   *)
(* succeed: one that fails has no client left to read it.                  *)
(***************************************************************************)
EXTENDS Naturals, FiniteSets

CONSTANTS Uris,        \* documents the client works with
          NoUri,       \* "no document is being handled"
          MaxEdits,    \* bound: didOpen and didChange messages in a session
          MaxVersion   \* bound: document versions the client uses

ASSUME NoUriAssumption == NoUri \notin Uris
ASSUME BoundsAssumption == MaxEdits \in Nat /\ MaxVersion \in Nat

VARIABLES
  handler,         \* what the handler goroutine does next
  target,          \* the document of the message it is serving
  docText,         \* s.documents: the text the server holds, or NoText
  index,           \* s.workspace: the text the workspace index holds
  aliased,         \* documents whose index entry is the very same *Document
  versions,        \* s.versions: a version, or NoVersion when absent
  semanticCancel,  \* s.semanticCancel: the check registered, or NoCheck
  semanticResult,  \* s.semanticResult: the check whose result is stored
  checkPc,         \* progress of every check goroutine
  checkUri,        \* the document a check was started for
  checkSnap,       \* the workspace snapshot a check was started with
  cancelled,       \* checks whose context has been cancelled
  overtaken,       \* history: phases in which a check saw its document change
  shown,           \* the diagnostics the client last received per document
  clientText,      \* the client's own text of an open document
  clientVersion,   \* and its version of it
  edits            \* number of didOpen/didChange messages so far

serverVars == <<docText, index, aliased, versions, semanticCancel,
                semanticResult>>
checkVars  == <<checkPc, checkUri, checkSnap, cancelled, overtaken>>
clientVars == <<shown, clientText, clientVersion, edits>>
vars == <<handler, target, serverVars, checkVars, clientVars>>

NoText == 0
NoVersion == 0
NoCheck == 0
Damaged(n) == MaxEdits + n

Texts    == 0 .. 2 * MaxEdits
Versions == 0 .. MaxVersion
Checks   == 1 .. MaxEdits
Snapshot == [version : Versions, text : Texts]

\* Diagnostics on the client's screen: their version label and the check they
\* come from (NoCheck: the parser's, or an empty list).
Shown   == [by : Checks \cup {NoCheck}, version : Versions]
Cleared == [by |-> NoCheck, version |-> NoVersion]

Open(u) == docText[u] # NoText

\* The server's text of u is what the client has.
InSync(u) == docText[u] = clientText[u]

\* Phases of a check past its context test: it will cause an effect unless the
\* version test stops it.
LatePhases == {"returned", "accepted", "stored"}

Unfinished(c) == checkPc[c] \in LatePhases \cup {"running"}
Live(c) == Unfinished(c) /\ c \notin cancelled

CheckVersion(c) == checkSnap[c][checkUri[c]].version
CheckText(c)    == checkSnap[c][checkUri[c]].text

TypeOK ==
  /\ handler \in {"idle", "publish", "schedule", "clear", "lowering",
                  "exiting", "stopped"}
  /\ target \in Uris \cup {NoUri}
  /\ docText \in [Uris -> Texts]
  /\ index \in [Uris -> Texts]
  /\ aliased \subseteq Uris
  /\ versions \in [Uris -> Versions]
  /\ semanticCancel \in [Uris -> Checks \cup {NoCheck}]
  /\ semanticResult \in [Uris -> Checks \cup {NoCheck}]
  /\ checkPc \in [Checks -> LatePhases \cup {"unused", "running", "done"}]
  /\ checkUri \in [Checks -> Uris \cup {NoUri}]
  /\ checkSnap \in [Checks -> [Uris -> Snapshot]]
  /\ cancelled \subseteq Checks
  /\ overtaken \in [Checks -> SUBSET LatePhases]
  /\ shown \in [Uris -> Shown]
  /\ clientText \in [Uris -> Texts]
  /\ clientVersion \in [Uris -> Versions]
  /\ edits \in 0 .. MaxEdits

Init ==
  /\ handler = "idle"
  /\ target = NoUri
  /\ docText = [u \in Uris |-> NoText]
  /\ index = [u \in Uris |-> NoText]
  /\ aliased = {}
  /\ versions = [u \in Uris |-> NoVersion]
  /\ semanticCancel = [u \in Uris |-> NoCheck]
  /\ semanticResult = [u \in Uris |-> NoCheck]
  /\ checkPc = [c \in Checks |-> "unused"]
  /\ checkUri = [c \in Checks |-> NoUri]
  /\ checkSnap = [c \in Checks |->
                    [u \in Uris |-> [version |-> NoVersion, text |-> NoText]]]
  /\ cancelled = {}
  /\ overtaken = [c \in Checks |-> {}]
  /\ shown = [u \in Uris |-> Cleared]
  /\ clientText = [u \in Uris |-> NoText]
  /\ clientVersion = [u \in Uris |-> NoVersion]
  /\ edits = 0

-----------------------------------------------------------------------------
(***************************************************************************)
(* The handler goroutine.                                                  *)
(***************************************************************************)

\* History only: the checks of u past their context test whose goroutine has yet
\* to store or publish while the version of u changes under it.
Overtake(u) ==
  overtaken' = [c \in Checks |->
    IF checkUri[c] = u /\ checkPc[c] \in LatePhases
      THEN overtaken[c] \cup {checkPc[c]} ELSE overtaken[c]]

\* Variant (mutation testing): the stored result is not forgotten.
InvalidateKeepsResult(u, v) ==
  /\ versions' = [versions EXCEPT ![u] = v]
  /\ Overtake(u)
  /\ UNCHANGED semanticResult

\* The lock section didOpen and didChange share: record the new version and
\* forget the result of the old one.  The running check is left alone here.
Invalidate(u, v) ==
  /\ versions' = [versions EXCEPT ![u] = v]
  /\ semanticResult' = [semanticResult EXCEPT ![u] = NoCheck]
  /\ Overtake(u)

\* What the client did before the message was read.
ClientEdit(u, v) ==
  /\ edits < MaxEdits
  /\ edits' = edits + 1
  /\ clientText' = [clientText EXCEPT ![u] = edits + 1]
  /\ clientVersion' = [clientVersion EXCEPT ![u] = v]

\* didOpen: any starting version, so a reopened document may reuse versions of
\* its previous life.  The index parses the same text for itself (Add), which
\* succeeds as the server's own parse has.
DidOpen(u, v) ==
  /\ handler = "idle"
  /\ clientText[u] = NoText
  /\ ClientEdit(u, v)
  /\ docText' = [docText EXCEPT ![u] = edits + 1]
  /\ index' = [index EXCEPT ![u] = edits + 1]
  /\ aliased' = aliased \ {u}
  /\ Invalidate(u, v)
  /\ handler' = "publish"
  /\ target' = u
  /\ UNCHANGED <<semanticCancel, checkPc, checkUri, checkSnap,
                 cancelled, shown>>

\* didOpen of a text that the parser refuses: the handler returns at once, and the
\* document is open in the client only.
DidOpenFails(u, v) ==
  /\ handler = "idle"
  /\ clientText[u] = NoText
  /\ ClientEdit(u, v)
  /\ UNCHANGED <<handler, target, serverVars, checkVars, shown>>

\* didChange of such a document: "document not open".
DidChangeUnknown(u, v) ==
  /\ handler = "idle"
  /\ clientText[u] # NoText /\ ~Open(u)
  /\ v > clientVersion[u]
  /\ ClientEdit(u, v)
  /\ UNCHANGED <<handler, target, serverVars, checkVars, shown>>

\* Variant: the workspace index is not given the changed document.
DidChangeWithoutSetDocument(u, v, replace) ==
  /\ handler = "idle"
  /\ Open(u)
  /\ v > clientVersion[u]
  /\ ClientEdit(u, v)
  /\ docText' = [docText EXCEPT ![u] = IF replace \/ InSync(u)
                                         THEN edits + 1
                                         ELSE Damaged(edits + 1)]
  /\ Invalidate(u, v)
  /\ handler' = "publish"
  /\ target' = u
  /\ UNCHANGED <<index, aliased, semanticCancel, checkPc, checkUri, checkSnap,
                 cancelled, shown>>

\* didChange whose whole batch applies.  A full replacement resynchronises the
\* buffer; a ranged batch keeps a damaged buffer damaged.
DidChange(u, v, replace) ==
  /\ handler = "idle"
  /\ Open(u)
  /\ v > clientVersion[u]
  /\ ClientEdit(u, v)
  /\ docText' = [docText EXCEPT ![u] = IF replace \/ InSync(u)
                                         THEN edits + 1
                                         ELSE Damaged(edits + 1)]
  /\ index' = [index EXCEPT ![u] = docText'[u]]
  /\ aliased' = aliased \cup {u}
  /\ Invalidate(u, v)
  /\ handler' = "publish"
  /\ target' = u
  /\ UNCHANGED <<semanticCancel, checkPc, checkUri, checkSnap,
                 cancelled, shown>>

\* didChange whose batch fails at some change: ApplyChanges has already spliced
\* the changes before it into the buffer (partly), or none of them.  The
\* handler returns: no new version, no new index entry, no publish, no check.
DidChangeFails(u, v, partly) ==
  /\ handler = "idle"
  /\ Open(u)
  /\ v > clientVersion[u]
  /\ ClientEdit(u, v)
  /\ docText' = IF partly THEN [docText EXCEPT ![u] = Damaged(edits + 1)]
                          ELSE docText
  /\ index' = IF u \in aliased THEN [index EXCEPT ![u] = docText'[u]] ELSE index
  /\ UNCHANGED <<handler, target, aliased, versions, semanticCancel,
                 semanticResult, checkVars, shown>>

\* The parser's diagnostics, labelled with the version just recorded.
PublishSyntax ==
  /\ handler = "publish"
  /\ shown' = [shown EXCEPT ![target] =
                 [by |-> NoCheck, version |-> versions[target]]]
  /\ handler' = "schedule"
  /\ UNCHANGED <<target, serverVars, checkVars, clientText, clientVersion,
                 edits>>

\* Both are scheduleSemantic with another idea of what to cancel.
ScheduleCancelling(obsolete) ==
  /\ handler = "schedule"
  /\ cancelled' = cancelled \cup obsolete
  /\ semanticCancel' = [semanticCancel EXCEPT ![target] = edits]
  /\ checkPc' = [checkPc EXCEPT ![edits] = "running"]
  /\ checkUri' = [checkUri EXCEPT ![edits] = target]
  /\ checkSnap' = [checkSnap EXCEPT ![edits] =
       [u \in Uris |-> [version |-> versions[u], text |-> docText[u]]]]
  /\ handler' = "idle"
  /\ target' = NoUri
  /\ UNCHANGED <<docText, index, aliased, versions, semanticResult,
                 overtaken, clientVars>>

\* Variants: an absent cancel function is called; the old check is not
\* cancelled.
ScheduleSemanticNoNilTest == ScheduleCancelling({semanticCancel[target]})
ScheduleSemanticKeepsOld == ScheduleCancelling({})

\* scheduleSemantic's lock section: cancel the check registered for the
\* document, register the new one and give it a snapshot of every open document.
ScheduleSemantic ==
  /\ handler = "schedule"
  /\ cancelled' = cancelled \cup ({semanticCancel[target]} \ {NoCheck})
  /\ semanticCancel' = [semanticCancel EXCEPT ![target] = edits]
  /\ checkPc' = [checkPc EXCEPT ![edits] = "running"]
  /\ checkUri' = [checkUri EXCEPT ![edits] = target]
  /\ checkSnap' = [checkSnap EXCEPT ![edits] =
       [u \in Uris |-> [version |-> versions[u], text |-> docText[u]]]]
  /\ handler' = "idle"
  /\ target' = NoUri
  /\ UNCHANGED <<docText, index, aliased, versions, semanticResult,
                 overtaken, clientVars>>

\* Variant: the running check is neither cancelled nor unregistered.
DidCloseKeepsCheck(u) ==
  /\ handler = "idle"
  /\ clientText[u] # NoText
  /\ docText' = [docText EXCEPT ![u] = NoText]
  /\ clientText' = [clientText EXCEPT ![u] = NoText]
  /\ clientVersion' = [clientVersion EXCEPT ![u] = NoVersion]
  /\ index' = [index EXCEPT ![u] = NoText]
  /\ aliased' = aliased \ {u}
  /\ Invalidate(u, NoVersion)
  /\ handler' = "clear"
  /\ target' = u
  /\ UNCHANGED <<semanticCancel, cancelled, checkPc, checkUri, checkSnap, shown,
                 edits>>

\* didClose up to the end of its lock section, of a document whose didOpen may have
\* failed.
DidClose(u) ==
  /\ handler = "idle"
  /\ clientText[u] # NoText
  /\ docText' = [docText EXCEPT ![u] = NoText]
  /\ clientText' = [clientText EXCEPT ![u] = NoText]
  /\ clientVersion' = [clientVersion EXCEPT ![u] = NoVersion]
  /\ index' = [index EXCEPT ![u] = NoText]
  /\ aliased' = aliased \ {u}
  /\ versions' = [versions EXCEPT ![u] = NoVersion]
  /\ semanticResult' = [semanticResult EXCEPT ![u] = NoCheck]
  /\ Overtake(u)
  /\ cancelled' = cancelled \cup ({semanticCancel[u]} \ {NoCheck})
  /\ semanticCancel' = [semanticCancel EXCEPT ![u] = NoCheck]
  /\ handler' = "clear"
  /\ target' = u
  /\ UNCHANGED <<checkPc, checkUri, checkSnap, shown, edits>>

\* didClose's last statement: an empty list without a version.
ClearDiagnostics ==
  /\ handler = "clear"
  /\ shown' = [shown EXCEPT ![target] = Cleared]
  /\ handler' = "idle"
  /\ target' = NoUri
  /\ UNCHANGED <<serverVars, checkVars, clientText, clientVersion, edits>>

\* cancelSemanticWork.
CancelSemanticWork ==
  /\ cancelled' = cancelled \cup
                    ({semanticCancel[u] : u \in Uris} \ {NoCheck})
  /\ semanticCancel' = [u \in Uris |-> NoCheck]

\* The shutdown request.  The flag it also sets (s.shutdown) is never read: the
\* messages that follow are served as before.
Shutdown ==
  /\ handler = "idle"
  /\ CancelSemanticWork
  /\ UNCHANGED <<handler, target, docText, index, aliased, versions,
                 semanticResult, checkPc, checkUri, checkSnap, overtaken,
                 clientVars>>

\* bend/hvmView: the compiler lowers the snapshot while the handler waits.
HvmView ==
  /\ handler = "idle"
  /\ \E u \in Uris : Open(u)
  /\ handler' = "lowering"
  /\ UNCHANGED <<target, serverVars, checkVars, clientVars>>

LowerReturns ==
  /\ handler = "lowering"
  /\ handler' = "idle"
  /\ UNCHANGED <<target, serverVars, checkVars, clientVars>>

\* The exit notification cancels; the end of the input does not.  Either way
\* Run returns and the process ends shortly after.
Exit ==
  /\ handler = "idle"
  /\ CancelSemanticWork
  /\ handler' = "exiting"
  /\ UNCHANGED <<target, docText, index, aliased, versions, semanticResult,
                 checkPc, checkUri, checkSnap, overtaken,
                 clientVars>>

EndOfInput ==
  /\ handler = "idle"
  /\ handler' = "exiting"
  /\ UNCHANGED <<target, serverVars, checkVars, clientVars>>

ProcessEnds ==
  /\ handler = "exiting"
  /\ handler' = "stopped"
  /\ UNCHANGED <<target, serverVars, checkVars, clientVars>>

-----------------------------------------------------------------------------
(***************************************************************************)
(* The goroutine of check c.                                               *)
(***************************************************************************)

\* Variants: the context is not tested; the backend ends only when cancelled.
CheckReturnsIgnoringContext(c, ok) ==
  /\ handler # "stopped"
  /\ checkPc[c] = "running"
  /\ checkPc' = [checkPc EXCEPT ![c] = IF ok THEN "returned" ELSE "done"]
  /\ UNCHANGED <<handler, target, serverVars, checkUri, checkSnap, cancelled,
                 overtaken, clientVars>>

CheckReturnsOnlyWhenCancelled(c, ok) ==
  /\ c \in cancelled
  /\ CheckReturnsIgnoringContext(c, FALSE)

\* backend.Check returns and line 329 tests err, the result and ctx.Err().  A
\* cancelled check always ends here; a live one ends here if the backend failed.
CheckReturns(c, ok) ==
  /\ handler # "stopped"
  /\ checkPc[c] = "running"
  /\ checkPc' = [checkPc EXCEPT ![c] = IF ok /\ c \notin cancelled
                                         THEN "returned" ELSE "done"]
  /\ UNCHANGED <<handler, target, serverVars, checkUri, checkSnap, cancelled,
                 overtaken, clientVars>>

\* Variants: open at any version is enough; the comparison is the wrong way.
CompareVersionAs(c, accept) ==
  /\ handler # "stopped"
  /\ checkPc[c] = "returned"
  /\ checkPc' = [checkPc EXCEPT ![c] = IF accept THEN "accepted" ELSE "done"]
  /\ UNCHANGED <<handler, target, serverVars, checkUri, checkSnap, cancelled,
                 overtaken, clientVars>>

CompareVersionOpenOnly(c) ==
  CompareVersionAs(c, versions[checkUri[c]] # NoVersion)

CompareVersionInverted(c) ==
  CompareVersionAs(c, versions[checkUri[c]] # CheckVersion(c))

\* The first lock section: still open, at the version of the snapshot?
CompareVersion(c) ==
  /\ handler # "stopped"
  /\ checkPc[c] = "returned"
  /\ checkPc' = [checkPc EXCEPT ![c] =
       IF versions[checkUri[c]] = CheckVersion(c) THEN "accepted" ELSE "done"]
  /\ UNCHANGED <<handler, target, serverVars, checkUri, checkSnap, cancelled,
                 overtaken, clientVars>>

\* The second lock section.
StoreResult(c) ==
  /\ handler # "stopped"
  /\ checkPc[c] = "accepted"
  /\ semanticResult' = [semanticResult EXCEPT ![checkUri[c]] = c]
  /\ checkPc' = [checkPc EXCEPT ![c] = "stored"]
  /\ UNCHANGED <<handler, target, docText, index, aliased, versions,
                 semanticCancel, checkUri, checkSnap, cancelled,
                 overtaken, clientVars>>

\* The compiler's diagnostics replace whatever the client shows.
PublishSemantic(c) ==
  /\ handler # "stopped"
  /\ checkPc[c] = "stored"
  /\ shown' = [shown EXCEPT ![checkUri[c]] =
                 [by |-> c, version |-> CheckVersion(c)]]
  /\ checkPc' = [checkPc EXCEPT ![c] = "done"]
  /\ UNCHANGED <<handler, target, serverVars, checkUri, checkSnap, cancelled,
                 overtaken, clientText, clientVersion, edits>>

-----------------------------------------------------------------------------
Edit == \E u \in Uris, v \in 1 .. MaxVersion :
          \/ DidOpen(u, v)
          \/ DidOpenFails(u, v)
          \/ DidChangeUnknown(u, v)
          \/ \E replace \in BOOLEAN : DidChange(u, v, replace)
          \/ \E partly \in BOOLEAN : DidChangeFails(u, v, partly)

\* Messages the client may or may not send.
ReadMessage ==
  \/ Edit
  \/ \E u \in Uris : DidClose(u)
  \/ Shutdown
  \/ HvmView
  \/ Exit
  \/ EndOfInput

\* The rest of a handler that has begun.
FinishHandler ==
  \/ PublishSyntax
  \/ ScheduleSemantic
  \/ ClearDiagnostics
  \/ LowerReturns
  \/ ProcessEnds

CheckStep(c) ==
  \/ \E ok \in BOOLEAN : CheckReturns(c, ok)
  \/ CompareVersion(c)
  \/ StoreResult(c)
  \/ PublishSemantic(c)

Next ==
  \/ ReadMessage
  \/ FinishHandler
  \/ \E c \in Checks : CheckStep(c)

Spec == Init /\ [][Next]_vars

\* Go schedules every runnable goroutine, and a backend call ends: the command
\* backend bounds it with a timeout (10 s by default).  The client is not fair.
Fairness ==
  /\ WF_vars(FinishHandler)
  /\ \A c \in Checks : WF_vars(CheckStep(c))

FairSpec == Spec /\ Fairness

-----------------------------------------------------------------------------
(***************************************************************************)
(* Properties.  Settled(u): no handler is in the middle of a message about *)
(* u, so a hover or signature request about u may be served now.           *)
(***************************************************************************)
Settled(u) == target # u

Started(c) == checkPc[c] # "unused"

\* The check saw the document as the server has it now.
Current(c, u) ==
  /\ checkUri[c] = u
  /\ CheckVersion(c) = versions[u]
  /\ InSync(u) => CheckText(c) = docText[u]

\* A check that may still run to its end is the one registered for its
\* document, which is open, and it looks at what the server has now; so an edit,
\* a close, shutdown and exit leave no obsolete check running uncancelled, and
\* a document never has two live checks (docs/semantic-protocol.md:74).
OneLiveCheck ==
  \A c \in Checks : Live(c) =>
    /\ semanticCancel[checkUri[c]] = c
    /\ Open(checkUri[c])
    /\ Settled(checkUri[c]) => Current(c, checkUri[c])

\* What hover and signatureHelp serve for u is the result of a check of u's
\* present version and text.  The version differs only if u changed in the very
\* gap between the version test and the store (server.go:334-343); with an equal
\* version the text differs only if u changed after the check's context test,
\* that is, if it was closed and reopened at the same version (329-332).
StaleHoverOnlyOvertaken ==
  \A u \in Uris : semanticResult[u] # NoCheck =>
    LET c == semanticResult[u] IN
      /\ checkUri[c] = u
      /\ CheckVersion(c) # versions[u] => "accepted" \in overtaken[c]
      /\ InSync(u) /\ CheckText(c) # docText[u] => overtaken[c] # {}

\* The same for what the client shows between two messages: the parser's
\* diagnostics of the present version, or those of a check that was overtaken
\* after its version test; so nothing but such a check's late publish leaves
\* diagnostics on a closed document.
StaleDiagnosticsOnlyOvertaken ==
  \A u \in Uris : Settled(u) =>
    LET c == shown[u].by IN
      IF c = NoCheck
        THEN shown[u].version = versions[u]
        ELSE /\ checkUri[c] = u
             /\ CheckVersion(c) # versions[u] =>
                  overtaken[c] \cap {"accepted", "stored"} # {}
             /\ InSync(u) /\ CheckText(c) # docText[u] => overtaken[c] # {}

\* Requests answered from the workspace index (definition, references, rename)
\* and those answered from the open document see the same text: only a failed
\* batch, after which the buffer is not the client's anyway, separates them.
IndexAgreesWithDocuments ==
  \A u \in Uris : index[u] # docText[u] => ~InSync(u) /\ u \notin aliased

\* What the client sees of the compiler, in hovers and as diagnostics, comes
\* from checks that answered while they were the document's registered check,
\* each delivered at most once.
Waiting ==
  [u \in Uris |-> IF \E c \in Checks : /\ semanticCancel[u] = c
                                       /\ checkPc[c] = "running"
                    THEN semanticCancel[u] ELSE NoCheck]

Undelivered(phases) ==
  {<<checkUri[c], c>> : c \in {k \in Checks : checkPc[k] \in phases}}

Begun == {c \in Checks : Started(c)}

HoverView == INSTANCE SemanticChecks
  WITH Docs <- Uris, None <- NoCheck, waiting <- Waiting, begun <- Begun,
       answers <- Undelivered({"returned", "accepted"}),
       visible <- semanticResult

DiagnosticsView == INSTANCE SemanticChecks
  WITH Docs <- Uris, None <- NoCheck, waiting <- Waiting, begun <- Begun,
       answers <- Undelivered({"returned", "accepted", "stored"}),
       visible <- [u \in Uris |-> shown[u].by]

HoverImplementsChecks == HoverView!Spec
DiagnosticsImplementChecks == DiagnosticsView!Spec

\* An answer that arrives while its check is live reaches the client, unless the
\* check is cancelled first or the process ends: the version test never throws
\* away the answer of a check that nothing superseded.
LiveAnswersAreShown ==
  \A c \in Checks :
    checkPc[c] = "returned" /\ c \notin cancelled ~>
      \/ c \in cancelled
      \/ handler = "stopped"
      \/ \E u \in Uris : shown[u].by = c

\* Once the client falls silent the server comes to rest: it has served the last
\* message and no check runs on.
AtRest == handler = "idle" /\ \A c \in Checks : ~Unfinished(c)

ServerComesToRest ==
  <>[][~ReadMessage]_vars => <>[](handler = "stopped" \/ AtRest)

-----------------------------------------------------------------------------
(***************************************************************************)
(* What the documentation says and the code does not keep.                 *)
(***************************************************************************)
\* docs/semantic-protocol.md:74 "discards results whose document version is no
\* longer current": once the server rests, the result kept for the hovers of an
\* open document is of the document's version.
NoStaleResultKept ==
  AtRest => \A u \in Uris : Open(u) /\ semanticResult[u] # NoCheck =>
    CheckVersion(semanticResult[u]) = versions[u]
=============================================================================
