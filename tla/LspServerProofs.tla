--------------------------- MODULE LspServerProofs ---------------------------
(***************************************************************************)
(* Theorems about LspServer for every set of documents and every bound,    *)
(* with their proofs.                                                      *)
(***************************************************************************)
EXTENDS LspServer, TLAPS

-----------------------------------------------------------------------------
(***************************************************************************)
(* The inductive invariant, part by part.                                  *)
(***************************************************************************)

\* What the handler is doing, and that check number edits is still to start
\* while its edit is being handled.
HandlerInv ==
  /\ target \in Uris <=> handler \in {"publish", "schedule", "clear"}
  /\ handler \in {"publish", "schedule"} =>
       Open(target) /\ edits \in Checks /\ ~Started(edits)
  /\ handler = "clear" => ~Open(target)
  /\ \A c \in Checks : c > edits => ~Started(c)

\* Open documents are open in the client too and have a version, never newer than the client's; a text number
\* not used yet is nobody's text.
DocumentAt(u) ==
  /\ Open(u) <=> versions[u] # NoVersion
  /\ Open(u) => clientText[u] # NoText
  /\ versions[u] <= clientVersion[u]
  /\ docText[u] <= edits \/ docText[u] > MaxEdits
  /\ clientText[u] <= edits

DocumentsInv == \A u \in Uris : DocumentAt(u)

\* The registry holds exactly the checks that have not been cancelled.
RegisteredAt(u) ==
  semanticCancel[u] # NoCheck =>
    /\ Started(semanticCancel[u])
    /\ semanticCancel[u] \notin cancelled
    /\ checkUri[semanticCancel[u]] = u
    /\ Open(u)

StartedAt(c) ==
  Started(c) =>
    /\ checkUri[c] \in Uris
    /\ CheckVersion(c) # NoVersion
    /\ c \notin cancelled => semanticCancel[checkUri[c]] = c

RegistryInv ==
  /\ \A u \in Uris : RegisteredAt(u)
  /\ \A c \in Checks : StartedAt(c)
  /\ \A c \in cancelled : Started(c)

SameVersion(c) == CheckVersion(c) = versions[checkUri[c]]
Agrees(c) ==
  InSync(checkUri[c]) => CheckText(c) = docText[checkUri[c]]

\* A check not cancelled is no newer than its document, and current unless the
\* document's next check is about to replace it.
LiveAt(c) ==
  Started(c) /\ c \notin cancelled =>
    /\ CheckVersion(c) <= versions[checkUri[c]]
    /\ SameVersion(c) => Agrees(c)
    /\ Settled(checkUri[c]) => SameVersion(c)

LiveInv == \A c \in Checks : LiveAt(c)

\* How a check in flight can differ from its document, phase by phase.
PhaseAt(c) ==
  /\ checkPc[c] = "returned" =>
       (overtaken[c] = {} /\ SameVersion(c) => Agrees(c))
  /\ checkPc[c] = "accepted" =>
       /\ "accepted" \notin overtaken[c] => SameVersion(c)
       /\ overtaken[c] = {} => Agrees(c)
  /\ checkPc[c] = "stored" =>
       /\ overtaken[c] \cap {"accepted", "stored"} = {} => SameVersion(c)
       /\ overtaken[c] = {} => Agrees(c)

PhaseInv == \A c \in Checks : PhaseAt(c)

\* StaleHoverOnlyOvertaken for one document.
ResultAt(u) ==
  semanticResult[u] # NoCheck =>
    LET c == semanticResult[u] IN
      /\ Started(c)
      /\ checkUri[c] = u
      /\ "accepted" \notin overtaken[c] => SameVersion(c)
      /\ overtaken[c] = {} => Agrees(c)

ResultInv == \A u \in Uris : ResultAt(u)

\* StaleDiagnosticsOnlyOvertaken for one document, from the moment the handler
\* has published.
ShownAt(u) ==
  LET c == shown[u].by IN
    /\ c # NoCheck => Started(c) /\ checkUri[c] = u
    /\ Settled(u) \/ handler = "schedule" =>
         IF c = NoCheck
           THEN shown[u].version = versions[u]
           ELSE /\ overtaken[c] \cap {"accepted", "stored"} = {} =>
                     SameVersion(c)
                /\ overtaken[c] = {} => Agrees(c)

ShownInv == \A u \in Uris : ShownAt(u)

IndexAt(u) == index[u] # docText[u] => ~InSync(u) /\ u \notin aliased

IInv ==
  /\ TypeOK
  /\ HandlerInv
  /\ DocumentsInv
  /\ RegistryInv
  /\ LiveInv
  /\ PhaseInv
  /\ ResultInv
  /\ ShownInv
  /\ IndexAgreesWithDocuments

-----------------------------------------------------------------------------
(***************************************************************************)
(* Type correctness.                                                       *)
(***************************************************************************)
USE NoUriAssumption, BoundsAssumption

\* The few facts about the ranges that typing needs.
LEMMA Ranges ==
  /\ NoText \in Texts /\ NoVersion \in Versions /\ NoCheck \notin Checks
  /\ 1 .. MaxVersion \subseteq Versions
  /\ 0 \in 0 .. MaxEdits
  /\ \A n \in 0 .. MaxEdits : n < MaxEdits =>
       /\ n + 1 \in 0 .. MaxEdits /\ n + 1 \in Checks
       /\ n + 1 \in Texts /\ Damaged(n + 1) \in Texts
  BY DEF NoText, Texts, NoVersion, Versions, NoCheck, Checks, Damaged

LEMMA TypeInit == Init => TypeOK
  BY Ranges DEF Init, TypeOK, Snapshot, Shown, Cleared

\* The history grows by late phases only.
LEMMA TypeOvertake ==
  ASSUME TypeOK, NEW u \in Uris, Overtake(u)
  PROVE  overtaken' \in [Checks -> SUBSET LatePhases]
<1>1. \A c \in Checks :
        (IF checkUri[c] = u /\ checkPc[c] \in LatePhases
           THEN overtaken[c] \cup {checkPc[c]} ELSE overtaken[c])
          \in SUBSET LatePhases
  BY DEF TypeOK
<1>2. QED
  BY <1>1 DEF Overtake

\* Every message handler keeps every variable in its type.
LEMMA TypeMessage == ASSUME TypeOK, ReadMessage PROVE TypeOK'
<1>1. ASSUME NEW u \in Uris, NEW v \in 1 .. MaxVersion, DidOpen(u, v)
      PROVE  TypeOK'
  <2>1. overtaken' \in [Checks -> SUBSET LatePhases]
    BY <1>1, TypeOvertake DEF DidOpen, Invalidate
  <2>2. QED
    BY <1>1, <2>1, Ranges DEF TypeOK, DidOpen, ClientEdit, Invalidate
<1>2. ASSUME NEW u \in Uris, NEW v \in 1 .. MaxVersion,
             NEW replace \in BOOLEAN, DidChange(u, v, replace)
      PROVE  TypeOK'
  <2>1. overtaken' \in [Checks -> SUBSET LatePhases]
    BY <1>2, TypeOvertake DEF DidChange, Invalidate
  <2>2. docText' \in [Uris -> Texts] /\ index' \in [Uris -> Texts]
    BY <1>2, Ranges DEF TypeOK, DidChange, ClientEdit, Damaged
  <2>3. QED
    BY <1>2, <2>1, <2>2, Ranges DEF TypeOK, DidChange, ClientEdit, Invalidate
<1>3. ASSUME NEW u \in Uris, NEW v \in 1 .. MaxVersion,
             NEW partly \in BOOLEAN, DidChangeFails(u, v, partly)
      PROVE  TypeOK'
  <2>1. docText' \in [Uris -> Texts]
    BY <1>3, Ranges DEF TypeOK, DidChangeFails, ClientEdit, Damaged
  <2>2. index' \in [Uris -> Texts]
    BY <1>3, <2>1, Ranges DEF TypeOK, DidChangeFails
  <2>3. QED
    BY <1>3, <2>1, <2>2, Ranges DEF TypeOK, DidChangeFails, ClientEdit, checkVars
<1>4. ASSUME NEW u \in Uris, DidClose(u) PROVE TypeOK'
  <2>1. overtaken' \in [Checks -> SUBSET LatePhases]
    BY <1>4, TypeOvertake DEF DidClose
  <2>2. QED
    BY <1>4, <2>1, Ranges DEF TypeOK, DidClose
<1>5. CASE Shutdown
  BY <1>5, Ranges DEF TypeOK, Shutdown, CancelSemanticWork, clientVars
<1>6. CASE Exit
  BY <1>6, Ranges DEF TypeOK, Exit, CancelSemanticWork, clientVars
<1>7. CASE HvmView \/ EndOfInput
  BY <1>7, Ranges DEF TypeOK, HvmView, EndOfInput, serverVars, checkVars, clientVars
<1>8. ASSUME NEW u \in Uris, NEW v \in 1 .. MaxVersion,
             DidOpenFails(u, v) \/ DidChangeUnknown(u, v)
      PROVE  TypeOK'
  <2>1. UNCHANGED <<handler, target, serverVars, checkVars, shown>>
    BY <1>8 DEF DidOpenFails, DidChangeUnknown
  <2>2. ClientEdit(u, v)
    BY <1>8 DEF DidOpenFails, DidChangeUnknown
  <2>3. /\ clientText' \in [Uris -> Texts] /\ edits' \in 0 .. MaxEdits
        /\ clientVersion' \in [Uris -> Versions]
    BY <2>2, Ranges DEF TypeOK, ClientEdit
  <2>4. QED
    BY <2>1, <2>3 DEF TypeOK, serverVars, checkVars
<1>9. QED
  BY <1>1, <1>2, <1>3, <1>4, <1>5, <1>6, <1>7, <1>8 DEF ReadMessage, Edit

\* The later steps of a handler and the steps of a check need to know which
\* document and which check they work on.
LEMMA TypeHandler == ASSUME TypeOK, HandlerInv, FinishHandler PROVE TypeOK'
<1>1. CASE PublishSyntax
  <2>1. target \in Uris
    BY <1>1 DEF PublishSyntax, HandlerInv
  <2>2. shown' \in [Uris -> Shown]
    BY <1>1, <2>1, Ranges DEF TypeOK, PublishSyntax, Shown
  <2>3. QED
    BY <1>1, <2>2, Ranges DEF TypeOK, PublishSyntax, serverVars, checkVars
<1>2. CASE ScheduleSemantic
  <2>1. target \in Uris /\ edits \in Checks
    BY <1>2 DEF ScheduleSemantic, HandlerInv
  <2>2. [u \in Uris |-> [version |-> versions[u], text |-> docText[u]]]
          \in [Uris -> Snapshot]
    BY Ranges DEF TypeOK, Snapshot
  <2>3. checkSnap' \in [Checks -> [Uris -> Snapshot]]
    BY <1>2, <2>1, <2>2, Ranges DEF TypeOK, ScheduleSemantic
  <2>4. cancelled' \subseteq Checks
    BY <1>2, <2>1, Ranges DEF TypeOK, ScheduleSemantic
  <2>5. QED
    BY <1>2, <2>1, <2>3, <2>4, Ranges DEF TypeOK, ScheduleSemantic, clientVars
<1>3. CASE ClearDiagnostics
  <2>1. shown' \in [Uris -> Shown]
    BY <1>3, Ranges DEF TypeOK, ClearDiagnostics, Shown, Cleared
  <2>2. QED
    BY <1>3, <2>1, Ranges DEF TypeOK, ClearDiagnostics, serverVars, checkVars
<1>4. CASE LowerReturns \/ ProcessEnds
  BY <1>4, Ranges DEF TypeOK, LowerReturns, ProcessEnds, serverVars, checkVars,
              clientVars
<1>5. QED
  BY <1>1, <1>2, <1>3, <1>4 DEF FinishHandler

LEMMA TypeCheck ==
  ASSUME TypeOK, RegistryInv, NEW c \in Checks, CheckStep(c) PROVE TypeOK'
<1>1. ASSUME NEW ok \in BOOLEAN, CheckReturns(c, ok) PROVE TypeOK'
  <2>1. checkPc' \in [Checks -> LatePhases \cup {"unused", "running", "done"}]
    BY <1>1, Ranges DEF TypeOK, CheckReturns, LatePhases
  <2>2. QED
    BY <1>1, <2>1, Ranges DEF TypeOK, CheckReturns, serverVars, clientVars
<1>2. CASE CompareVersion(c)
  <2>1. checkPc' \in [Checks -> LatePhases \cup {"unused", "running", "done"}]
    BY <1>2, Ranges DEF TypeOK, CompareVersion, LatePhases
  <2>2. QED
    BY <1>2, <2>1, Ranges DEF TypeOK, CompareVersion, serverVars, clientVars
<1>3. CASE StoreResult(c)
  <2>1. checkPc' \in [Checks -> LatePhases \cup {"unused", "running", "done"}]
    BY <1>3, Ranges DEF TypeOK, StoreResult, LatePhases
  <2>2. semanticResult' \in [Uris -> Checks \cup {NoCheck}]
    BY <1>3 DEF TypeOK, StoreResult
  <2>3. QED
    BY <1>3, <2>1, <2>2, Ranges DEF TypeOK, StoreResult, clientVars
<1>4. CASE PublishSemantic(c)
  <2>1. checkUri[c] \in Uris
    BY <1>4 DEF PublishSemantic, RegistryInv, StartedAt,
                Started
  <2>2. CheckVersion(c) \in Versions
    BY <2>1, Ranges DEF TypeOK, CheckVersion, Snapshot
  <2>3. [by |-> c, version |-> CheckVersion(c)] \in Shown
    BY <2>2 DEF Shown
  <2>4. shown' \in [Uris -> Shown]
    BY <1>4, <2>3, Ranges DEF TypeOK, PublishSemantic
  <2>5. QED
    BY <1>4, <2>4, Ranges DEF TypeOK, PublishSemantic, serverVars
<1>5. QED
  BY <1>1, <1>2, <1>3, <1>4 DEF CheckStep

-----------------------------------------------------------------------------
(***************************************************************************)
(* Every action preserves the invariant.                                   *)
(***************************************************************************)
USE DEF NoText, NoVersion, NoCheck

LEMMA InitIInv == Init => IInv
<1> SUFFICES ASSUME Init PROVE IInv
  OBVIOUS
<1>1. TypeOK
  BY TypeInit
<1>2. HandlerInv /\ DocumentsInv /\ IndexAgreesWithDocuments
  BY DEF Init, HandlerInv, DocumentsInv, DocumentAt, IndexAgreesWithDocuments,
         Started, Open
<1>3. RegistryInv /\ LiveInv /\ PhaseInv
  BY DEF Init, RegistryInv, RegisteredAt, StartedAt, LiveInv, LiveAt, PhaseInv,
         PhaseAt, Started
<1>4. ResultInv /\ ShownInv
  BY DEF Init, ResultInv, ResultAt, ShownInv, ShownAt, Cleared
<1>5. QED
  BY <1>1, <1>2, <1>3, <1>4 DEF IInv

\* What didOpen, didChange and didClose of u have in common: the version of u
\* moves on, its result is dropped, the checks past their context test are
\* overtaken and no other document is touched.
Touches(u) ==
  /\ Overtake(u)
  /\ semanticResult' = [semanticResult EXCEPT ![u] = NoCheck]
  /\ \A w \in Uris \ {u} : /\ docText'[w] = docText[w]
                           /\ clientText'[w] = clientText[w]
                           /\ versions'[w] = versions[w]
  /\ handler = "idle"
  /\ handler' \in {"publish", "clear"}
  /\ target' = u
  /\ UNCHANGED <<checkPc, checkUri, checkSnap, shown>>

LEMMA TouchesIInv ==
  ASSUME IInv, NEW u \in Uris, Touches(u)
  PROVE  PhaseInv' /\ ResultInv' /\ ShownInv'
<1> USE DEF IInv
<1>1. ASSUME NEW c \in Checks PROVE PhaseAt(c)'
  <2>1. CASE checkUri[c] = u
    BY <2>1 DEF PhaseAt, Touches, Overtake, TypeOK, LatePhases
  <2>2. CASE checkUri[c] # u /\ Started(c)
    BY <2>2 DEF PhaseInv, PhaseAt, RegistryInv, StartedAt, Touches, Overtake,
                SameVersion, CheckVersion, CheckText, Agrees, InSync
  <2>3. CASE ~Started(c)
    BY <2>3 DEF Started, PhaseAt, Touches
  <2>4. QED
    BY <2>1, <2>2, <2>3
<1>2. ASSUME NEW w \in Uris PROVE ResultAt(w)'
  <2>1. CASE w = u
    BY <2>1 DEF ResultAt, Touches, TypeOK
  <2>2. CASE w # u
    <3> SUFFICES ASSUME semanticResult[w] # NoCheck PROVE ResultAt(w)'
      BY <2>2 DEF ResultAt, Touches, TypeOK
    <3> DEFINE c == semanticResult[w]
    <3>1. c \in Checks /\ ResultAt(w)
      BY DEF ResultInv, TypeOK
    <3>2. overtaken'[c] = overtaken[c] /\ semanticResult'[w] = c
      BY <2>2, <3>1 DEF ResultAt, Touches, Overtake, TypeOK
    <3>3. QED
      BY <2>2, <3>1, <3>2 DEF ResultAt, Touches, SameVersion, CheckVersion,
         CheckText, Agrees, InSync, Started
  <2>3. QED
    BY <2>1, <2>2
<1>3. ASSUME NEW w \in Uris PROVE ShownAt(w)'
  <2>1. CASE w = u
    BY <2>1 DEF ShownInv, ShownAt, Touches, Settled, Started
  <2>2. CASE w # u
    <3> DEFINE c == shown[w].by
    <3>1. ShownAt(w) /\ Settled(w) /\ shown'[w].by = c
      BY DEF ShownInv, Touches, Settled, HandlerInv
    <3>2. CASE c = NoCheck
      BY <2>2, <3>1, <3>2 DEF ShownAt, Touches
    <3>3. CASE c # NoCheck
      <4>1. c \in Checks /\ checkUri[c] = w
        BY <3>1, <3>3 DEF ShownAt, TypeOK, Shown
      <4>2. overtaken'[c] = overtaken[c]
        BY <2>2, <4>1 DEF Touches, Overtake
      <4>3. QED
        BY <2>2, <3>1, <3>3, <4>1, <4>2 DEF ShownAt, Touches, SameVersion,
           CheckVersion, CheckText, Agrees, InSync, Started
    <3>4. QED
      BY <3>2, <3>3
  <2>3. QED
    BY <2>1, <2>2
<1>4. QED
  BY <1>1, <1>2, <1>3 DEF PhaseInv, ResultInv, ShownInv

\* didOpen: no check of u is live.
LEMMA DidOpenIInv ==
  ASSUME IInv, NEW u \in Uris, NEW v \in 1 .. MaxVersion, DidOpen(u, v)
  PROVE  IInv'
<1> USE DEF IInv
<1> ~Open(u)
  BY DEF DidOpen, DocumentsInv, DocumentAt
<1>1. TypeOK'
  BY TypeMessage DEF ReadMessage, Edit
<1>2. HandlerInv'
  BY Ranges DEF TypeOK, DidOpen, ClientEdit, HandlerInv, Open, Started, Checks
<1>3. ASSUME NEW w \in Uris PROVE DocumentAt(w)' /\ IndexAt(w)'
  BY DEF TypeOK, DidOpen, ClientEdit, Invalidate, DocumentsInv, DocumentAt,
         Open, Texts, Versions, IndexAgreesWithDocuments, IndexAt, InSync
<1>4. RegistryInv'
  BY DEF TypeOK, DidOpen, RegistryInv, RegisteredAt, StartedAt, Open, Started,
         CheckVersion
<1>5. ASSUME NEW c \in Checks PROVE LiveAt(c)'
  <2> SUFFICES ASSUME Started(c), c \notin cancelled PROVE LiveAt(c)'
    BY DEF LiveAt, DidOpen, Started
  <2>1. checkUri[c] \in Uris \ {u}
    BY Ranges DEF RegistryInv, RegisteredAt, StartedAt, DidOpen
  <2>2. QED
    BY <2>1 DEF LiveInv, LiveAt, DidOpen, ClientEdit, Invalidate, HandlerInv,
                TypeOK, Settled, SameVersion, CheckVersion, CheckText, Agrees,
                InSync
<1>6. Touches(u)
  BY DEF Touches, DidOpen, ClientEdit, Invalidate, TypeOK
<1>7. QED
  BY <1>1, <1>2, <1>3, <1>4, <1>5, <1>6, TouchesIInv
     DEF DocumentsInv, LiveInv, IndexAt, IndexAgreesWithDocuments

\* didChange: a live check of u is older than the new version.
LEMMA DidChangeIInv ==
  ASSUME IInv, NEW u \in Uris, NEW v \in 1 .. MaxVersion,
         NEW replace \in BOOLEAN, DidChange(u, v, replace)
  PROVE  IInv'
<1> USE DEF IInv
<1>1. TypeOK'
  BY TypeMessage DEF ReadMessage, Edit
<1>2. docText'[u] \in {edits + 1, Damaged(edits + 1)}
  BY DEF DidChange, TypeOK
<1>3. HandlerInv'
  BY <1>2, Ranges DEF TypeOK, DidChange, ClientEdit, HandlerInv, Open, Started,
                      Checks, Damaged
<1>4. ASSUME NEW w \in Uris PROVE DocumentAt(w)' /\ IndexAt(w)'
  BY <1>2 DEF TypeOK, DidChange, ClientEdit, Invalidate, DocumentsInv,
         DocumentAt, Open, Texts, Versions, IndexAgreesWithDocuments, IndexAt,
         InSync, Damaged
<1>5. RegistryInv'
  BY DEF TypeOK, DidChange, RegistryInv, RegisteredAt, StartedAt, Open, Started,
         CheckVersion, ClientEdit, Damaged
<1>6. ASSUME NEW c \in Checks PROVE LiveAt(c)'
  <2> SUFFICES ASSUME Started(c), c \notin cancelled PROVE LiveAt(c)'
    BY DEF LiveAt, DidChange, Started
  <2>1. checkUri[c] \in Uris
    BY DEF RegistryInv, StartedAt
  <2>2. CASE checkUri[c] = u
    <3>1. versions'[u] > versions[u] /\ CheckVersion(c) <= versions[u]
      BY <2>1, <2>2 DEF LiveInv, LiveAt, DidChange, ClientEdit, Invalidate,
         DocumentsInv, DocumentAt, TypeOK, Versions
    <3>2. CheckVersion(c) \in Versions
      BY <2>1 DEF TypeOK, CheckVersion, Snapshot
    <3>3. QED
      BY <2>2, <3>1, <3>2, <1>1 DEF LiveAt, DidChange, SameVersion, Settled,
         CheckVersion, TypeOK, Versions
  <2>3. CASE checkUri[c] # u
    BY <2>1, <2>3 DEF LiveInv, LiveAt, DidChange, ClientEdit, Invalidate,
       HandlerInv, TypeOK, Settled, SameVersion, CheckVersion, CheckText,
       Agrees, InSync
  <2>4. QED
    BY <2>2, <2>3
<1>7. Touches(u)
  BY DEF Touches, DidChange, ClientEdit, Invalidate, TypeOK
<1>8. QED
  BY <1>1, <1>3, <1>4, <1>5, <1>6, <1>7, TouchesIInv
     DEF DocumentsInv, LiveInv, IndexAt, IndexAgreesWithDocuments

\* didClose: the check registered for u is cancelled with it.
LEMMA DidCloseIInv ==
  ASSUME IInv, NEW u \in Uris, DidClose(u)
  PROVE  IInv'
<1> USE DEF IInv
<1>1. TypeOK'
  BY TypeMessage DEF ReadMessage
<1>2. HandlerInv'
  BY DEF TypeOK, DidClose, HandlerInv, Open, Started
<1>3. ASSUME NEW w \in Uris PROVE DocumentAt(w)' /\ IndexAt(w)'
  BY DEF TypeOK, DidClose, DocumentsInv, DocumentAt, Open, Versions, Texts,
         IndexAgreesWithDocuments, IndexAt, InSync
<1>4. RegistryInv'
  <2>1. ASSUME NEW w \in Uris PROVE RegisteredAt(w)'
    BY DEF TypeOK, DidClose, RegistryInv, RegisteredAt, Open, Started
  <2>2. ASSUME NEW c \in Checks PROVE StartedAt(c)'
    BY DEF TypeOK, DidClose, RegistryInv, StartedAt, Started, CheckVersion
  <2>3. \A c \in cancelled' : Started(c)'
    BY DEF TypeOK, DidClose, RegistryInv, RegisteredAt, Started
  <2>4. QED
    BY <2>1, <2>2, <2>3 DEF RegistryInv
<1>5. ASSUME NEW c \in Checks PROVE LiveAt(c)'
  <2> SUFFICES ASSUME Started(c), c \notin cancelled' PROVE LiveAt(c)'
    BY DEF LiveAt, DidClose, Started
  <2>1. checkUri[c] \in Uris \ {u} /\ c \notin cancelled
    BY Ranges DEF RegistryInv, RegisteredAt, StartedAt, DidClose
  <2>2. QED
    BY <2>1 DEF LiveInv, LiveAt, DidClose, HandlerInv, TypeOK, Settled,
                SameVersion, CheckVersion, CheckText, Agrees, InSync
<1>6. Touches(u)
  BY DEF Touches, DidClose, TypeOK
<1>7. QED
  BY <1>1, <1>2, <1>3, <1>4, <1>5, <1>6, TouchesIInv
     DEF DocumentsInv, LiveInv, IndexAt, IndexAgreesWithDocuments

\* didChange that fails: the buffer is not the client's any more, so nothing is
\* claimed of the texts of u.
LEMMA DidChangeFailsIInv ==
  ASSUME IInv, NEW u \in Uris, NEW v \in 1 .. MaxVersion,
         NEW partly \in BOOLEAN, DidChangeFails(u, v, partly)
  PROVE  IInv'
<1> USE DEF IInv
<1>1. TypeOK'
  BY TypeMessage DEF ReadMessage, Edit
<1>2. /\ docText'[u] # clientText'[u]
      /\ docText'[u] \in {docText[u], Damaged(edits + 1)}
      /\ docText'[u] # NoText
  BY DEF DidChangeFails, ClientEdit, DocumentsInv, DocumentAt, TypeOK, Open,
         Damaged
<1>3. \A w \in Uris \ {u} :
        docText'[w] = docText[w] /\ clientText'[w] = clientText[w]
  BY DEF DidChangeFails, ClientEdit, TypeOK
<1>4. HandlerInv'
  BY DEF TypeOK, DidChangeFails, ClientEdit, HandlerInv, Started, Checks,
         checkVars
<1>5. ASSUME NEW w \in Uris PROVE DocumentAt(w)' /\ IndexAt(w)'
  BY <1>2, <1>3 DEF TypeOK, DidChangeFails, ClientEdit, DocumentsInv,
         DocumentAt, Open, Texts, Versions, IndexAgreesWithDocuments, IndexAt,
         InSync, Damaged
<1>6. RegistryInv'
  BY <1>2, <1>3 DEF TypeOK, DidChangeFails, RegistryInv, RegisteredAt,
     StartedAt, Open, Started, CheckVersion, checkVars
<1>7. ASSUME NEW c \in Checks, checkUri[c] \in Uris
      PROVE  (Agrees(c) => Agrees(c)') /\ (SameVersion(c)' <=> SameVersion(c))
  <2>1. Agrees(c) => Agrees(c)'
    <3>1. CASE checkUri[c] = u
      BY <1>2, <3>1 DEF DidChangeFails, Agrees, InSync, checkVars
    <3>2. CASE checkUri[c] # u
      BY <1>3, <1>7, <3>2 DEF DidChangeFails, Agrees, InSync, CheckText, checkVars
    <3>3. QED
      BY <3>1, <3>2
  <2>2. SameVersion(c)' <=> SameVersion(c)
    BY DEF DidChangeFails, SameVersion, CheckVersion, checkVars
  <2>3. QED
    BY <2>1, <2>2
<1>8. ASSUME NEW c \in Checks PROVE LiveAt(c)' /\ PhaseAt(c)'
  <2>1. CASE ~Started(c)
    BY <2>1 DEF LiveAt, PhaseAt, Started, DidChangeFails, checkVars
  <2>2. CASE Started(c)
    BY <1>7, <2>2 DEF RegistryInv, StartedAt, LiveInv, LiveAt, PhaseInv,
       PhaseAt, DidChangeFails, Started, Settled, CheckVersion, checkVars
  <2>3. QED
    BY <2>1, <2>2
<1>9. ASSUME NEW w \in Uris PROVE ResultAt(w)'
  BY <1>7 DEF TypeOK, ResultInv, ResultAt, DidChangeFails, Started, checkVars
<1>10. ASSUME NEW w \in Uris PROVE ShownAt(w)'
  BY <1>7 DEF TypeOK, ShownInv, ShownAt, DidChangeFails, Started, Settled,
     Shown, checkVars
<1>11. QED
  BY <1>1, <1>4, <1>5, <1>6, <1>8, <1>9, <1>10
     DEF DocumentsInv, LiveInv, PhaseInv, ResultInv, ShownInv, IndexAt,
         IndexAgreesWithDocuments

\* A message the server refuses for a document it does not hold moves the client
\* only: nothing is claimed of the texts of such a document.
LEMMA RefusedIInv ==
  ASSUME IInv, NEW u \in Uris, NEW v \in 1 .. MaxVersion,
         DidOpenFails(u, v) \/ DidChangeUnknown(u, v)
  PROVE  IInv'
<1> USE DEF IInv
<1>1. TypeOK'
  BY TypeMessage DEF ReadMessage, Edit
<1>2. /\ UNCHANGED <<handler, target, serverVars, checkVars, shown>>
      /\ edits' = edits + 1 /\ clientText'[u] = edits + 1 /\ clientVersion'[u] = v
      /\ ~Open(u) /\ versions[u] = NoVersion
  BY DEF DidOpenFails, DidChangeUnknown, ClientEdit, DocumentsInv, DocumentAt,
         TypeOK
<1>3. \A w \in Uris \ {u} : /\ clientText'[w] = clientText[w]
                             /\ clientVersion'[w] = clientVersion[w]
  BY DEF DidOpenFails, DidChangeUnknown, ClientEdit, TypeOK
<1>4. HandlerInv'
  <2>1. handler = "idle" /\ edits \in Nat
    BY DEF DidOpenFails, DidChangeUnknown, TypeOK
  <2>2. QED
    BY <1>2, <2>1 DEF HandlerInv, Started, Checks, checkVars
<1>5. ~InSync(u)'
  BY <1>2 DEF Open, InSync, TypeOK, serverVars
<1>6. ASSUME NEW w \in Uris PROVE DocumentAt(w)' /\ IndexAt(w)'
  <2>1. CASE w = u
    BY <1>1, <1>2, <1>5, <2>1 DEF TypeOK, DocumentsInv, DocumentAt, Open,
       IndexAgreesWithDocuments, IndexAt, serverVars, Versions
  <2>2. CASE w # u
    BY <1>2, <1>3, <2>2 DEF TypeOK, DocumentsInv, DocumentAt, Open, Texts,
       IndexAgreesWithDocuments, IndexAt, InSync, serverVars
  <2>3. QED
    BY <2>1, <2>2
<1>7. RegistryInv'
  BY <1>2 DEF RegistryInv, RegisteredAt, StartedAt, Open, Started,
     CheckVersion, serverVars, checkVars
<1>8. ASSUME NEW c \in Checks, checkUri[c] \in Uris
      PROVE  (Agrees(c) => Agrees(c)') /\ (SameVersion(c)' <=> SameVersion(c))
  <2>1. CASE checkUri[c] = u
    BY <1>2, <1>5, <2>1 DEF Agrees, SameVersion, CheckVersion, serverVars,
       checkVars
  <2>2. CASE checkUri[c] # u
    BY <1>2, <1>3, <1>8, <2>2 DEF Agrees, InSync, SameVersion, CheckText,
       CheckVersion, serverVars, checkVars
  <2>3. QED
    BY <2>1, <2>2
<1>9. ASSUME NEW c \in Checks PROVE LiveAt(c)' /\ PhaseAt(c)'
  <2>1. CASE ~Started(c)
    BY <1>2, <2>1 DEF LiveAt, PhaseAt, Started, checkVars
  <2>2. CASE Started(c)
    BY <1>2, <1>8, <2>2 DEF RegistryInv, StartedAt, LiveInv, LiveAt, PhaseInv,
       PhaseAt, Started, Settled, CheckVersion, serverVars, checkVars
  <2>3. QED
    BY <2>1, <2>2
<1>10. ASSUME NEW w \in Uris PROVE ResultAt(w)'
  BY <1>2, <1>8 DEF TypeOK, ResultInv, ResultAt, Started, serverVars, checkVars
<1>11. ASSUME NEW w \in Uris PROVE ShownAt(w)'
  BY <1>2, <1>8 DEF TypeOK, ShownInv, ShownAt, Started, Settled, Shown,
     serverVars, checkVars
<1>12. QED
  BY <1>1, <1>4, <1>6, <1>7, <1>9, <1>10, <1>11
     DEF DocumentsInv, LiveInv, PhaseInv, ResultInv, ShownInv, IndexAt,
         IndexAgreesWithDocuments

\* The parser's diagnostics are those of the version just recorded.
LEMMA PublishSyntaxIInv == ASSUME IInv, PublishSyntax PROVE IInv'
<1> USE DEF IInv
<1>1. TypeOK'
  BY TypeHandler DEF FinishHandler
<1>2. target \in Uris /\ target' = target /\ handler' = "schedule"
  BY DEF PublishSyntax, HandlerInv
<1>3. HandlerInv'
  BY <1>2 DEF PublishSyntax, HandlerInv, serverVars, checkVars, Open, Started
<1>4. DocumentsInv' /\ RegistryInv' /\ IndexAgreesWithDocuments'
  BY DEF PublishSyntax, serverVars, checkVars, DocumentsInv, DocumentAt,
         RegistryInv, RegisteredAt, StartedAt, IndexAgreesWithDocuments, Open,
         Started, CheckVersion, InSync
<1>5. LiveInv' /\ PhaseInv' /\ ResultInv'
  BY <1>2 DEF PublishSyntax, serverVars, checkVars, LiveInv, LiveAt, PhaseInv,
     PhaseAt, ResultInv, ResultAt, Started, Settled, SameVersion, Agrees,
     CheckVersion, CheckText, InSync
<1>6. ASSUME NEW w \in Uris PROVE ShownAt(w)'
  <2>1. CASE w = target
    BY <1>2, <2>1 DEF PublishSyntax, TypeOK, ShownAt, serverVars
  <2>2. CASE w # target
    BY <1>2, <2>2 DEF PublishSyntax, TypeOK, ShownInv, ShownAt, Settled,
       serverVars, checkVars, Started, SameVersion, Agrees, CheckVersion,
       CheckText, InSync
  <2>3. QED
    BY <2>1, <2>2
<1>7. QED
  BY <1>1, <1>3, <1>4, <1>5, <1>6 DEF ShownInv

\* scheduleSemantic: the new check is the only live one of its document and sees
\* it as it is.
LEMMA ScheduleSemanticIInv == ASSUME IInv, ScheduleSemantic PROVE IInv'
<1> USE DEF IInv
<1>1. TypeOK'
  BY TypeHandler DEF FinishHandler
<1>2. /\ target \in Uris /\ Open(target) /\ edits \in Checks /\ ~Started(edits)
      /\ edits # NoCheck /\ edits \notin cancelled
  BY Ranges DEF ScheduleSemantic, HandlerInv, RegistryInv
<1>3. /\ handler' = "idle" /\ target' = NoUri /\ edits' = edits
      /\ checkPc'[edits] = "running" /\ checkUri'[edits] = target
      /\ \A u \in Uris : /\ checkSnap'[edits][u].version = versions[u]
                         /\ checkSnap'[edits][u].text = docText[u]
      /\ \A c \in Checks \ {edits} : /\ checkPc'[c] = checkPc[c]
                                     /\ checkUri'[c] = checkUri[c]
                                     /\ checkSnap'[c] = checkSnap[c]
      /\ UNCHANGED <<docText, index, aliased, versions, semanticResult,
                     overtaken, shown, clientText, clientVersion>>
  BY <1>2 DEF ScheduleSemantic, TypeOK, clientVars
<1>4. ASSUME NEW c \in Checks \ {edits}
      PROVE  /\ Started(c)' <=> Started(c)
             /\ SameVersion(c)' <=> SameVersion(c)
             /\ Agrees(c)' <=> Agrees(c)
             /\ CheckVersion(c)' = CheckVersion(c)
  BY <1>3 DEF Started, SameVersion, Agrees, CheckVersion, CheckText, InSync
<1>5. Started(edits)' /\ SameVersion(edits)' /\ Agrees(edits)'
      /\ CheckVersion(edits)' = versions[target]
  BY <1>2, <1>3 DEF Started, SameVersion, Agrees, CheckVersion, CheckText
<1>6. /\ cancelled' = cancelled \cup ({semanticCancel[target]} \ {NoCheck})
      /\ semanticCancel' = [semanticCancel EXCEPT ![target] = edits]
  BY DEF ScheduleSemantic
<1>7. HandlerInv'
  BY <1>2, <1>3, <1>4 DEF HandlerInv, TypeOK, Checks
<1>8. DocumentsInv' /\ IndexAgreesWithDocuments'
  BY <1>3 DEF DocumentsInv, DocumentAt, IndexAgreesWithDocuments, Open, InSync
<1>9. RegistryInv'
  <2>1. ASSUME NEW u \in Uris PROVE RegisteredAt(u)'
    <3>1. CASE u = target
      <4>1. semanticCancel[target] # edits
        BY <1>2 DEF RegistryInv, RegisteredAt
      <4>2. QED
        BY <1>2, <1>3, <1>5, <1>6, <3>1, <4>1 DEF RegisteredAt, TypeOK, Open
    <3>2. CASE u # target
      <4> SUFFICES ASSUME semanticCancel'[u] # NoCheck PROVE RegisteredAt(u)'
        BY DEF RegisteredAt
      <4> DEFINE c == semanticCancel[u]
      <4>1. semanticCancel'[u] = c /\ c \in Checks
        BY <1>6, <3>2 DEF TypeOK
      <4>2. Started(c) /\ c \notin cancelled /\ checkUri[c] = u /\ Open(u)
        BY <4>1 DEF RegistryInv, RegisteredAt
      <4>3. c # edits /\ c # semanticCancel[target]
        <5>1. RegisteredAt(target) /\ semanticCancel[u] # NoCheck
          BY <1>2, <4>1 DEF RegistryInv
        <5>2. QED
          BY <1>2, <3>2, <4>2, <5>1 DEF RegisteredAt
      <4>4. QED
        BY <1>3, <1>4, <1>6, <4>1, <4>2, <4>3 DEF RegisteredAt, Open
    <3>3. QED
      BY <3>1, <3>2
  <2>2. ASSUME NEW c \in Checks PROVE StartedAt(c)'
    <3>1. CASE c = edits
      <4>1. versions[target] # NoVersion
        BY <1>2 DEF DocumentsInv, DocumentAt
      <4>2. QED
        BY <1>2, <1>3, <1>5, <1>6, <3>1, <4>1 DEF StartedAt, TypeOK
    <3>2. CASE c # edits
      BY <1>2, <1>3, <1>4, <1>6, <3>2, Ranges
         DEF RegistryInv, StartedAt, TypeOK
    <3>3. QED
      BY <3>1, <3>2
  <2>3. \A c \in cancelled' : Started(c)'
    BY <1>2, <1>3, <1>4, <1>5, <1>6 DEF RegistryInv, RegisteredAt, TypeOK
  <2>4. QED
    BY <2>1, <2>2, <2>3 DEF RegistryInv
<1>10. ASSUME NEW c \in Checks PROVE LiveAt(c)'
  <2>1. CASE c = edits
    BY <1>2, <1>3, <1>5, <2>1 DEF LiveAt, TypeOK, Versions
  <2>2. CASE c # edits
    <3> SUFFICES ASSUME Started(c), c \notin cancelled' PROVE LiveAt(c)'
      BY <1>4, <2>2 DEF LiveAt
    <3>1. c \notin cancelled /\ checkUri[c] \in Uris \ {target}
      BY <1>2, <1>6, Ranges DEF RegistryInv, StartedAt
    <3>2. QED
      BY <1>3, <1>4, <2>2, <3>1 DEF LiveInv, LiveAt, Settled
  <2>3. QED
    BY <2>1, <2>2
<1>11. ASSUME NEW c \in Checks PROVE PhaseAt(c)'
  <2>1. CASE c = edits
    BY <1>3, <2>1 DEF PhaseAt
  <2>2. CASE c # edits
    BY <1>3, <1>4, <2>2 DEF PhaseInv, PhaseAt
  <2>3. QED
    BY <2>1, <2>2
<1>12. ASSUME NEW w \in Uris PROVE ResultAt(w)'
  BY <1>2, <1>3, <1>4 DEF ResultInv, ResultAt, TypeOK
<1>13. ASSUME NEW w \in Uris PROVE ShownAt(w)'
  <2> DEFINE c == shown[w].by
  <2>1. ShownAt(w) /\ handler = "schedule" /\ shown'[w] = shown[w]
    BY <1>3 DEF ShownInv, ScheduleSemantic
  <2>2. c # NoCheck => c \in Checks \ {edits}
    BY <1>2, <2>1 DEF ShownAt, TypeOK, Shown
  <2>3. CASE c = NoCheck
    BY <1>3, <2>1, <2>3 DEF ShownAt
  <2>4. CASE c # NoCheck
    BY <1>3, <1>4, <2>1, <2>2, <2>4 DEF ShownAt
  <2>5. QED
    BY <2>3, <2>4
<1>14. QED
  BY <1>1, <1>7, <1>8, <1>9, <1>10, <1>11, <1>12, <1>13
     DEF LiveInv, PhaseInv, ResultInv, ShownInv

\* didClose's empty list, for a document without a version.
LEMMA ClearDiagnosticsIInv == ASSUME IInv, ClearDiagnostics PROVE IInv'
<1> USE DEF IInv
<1>1. TypeOK'
  BY TypeHandler DEF FinishHandler
<1>2. target \in Uris /\ ~Open(target) /\ target' = NoUri /\ handler' = "idle"
  BY DEF ClearDiagnostics, HandlerInv
<1>3. HandlerInv'
  BY <1>2 DEF ClearDiagnostics, HandlerInv, serverVars, checkVars, Started
<1>4. DocumentsInv' /\ RegistryInv' /\ IndexAgreesWithDocuments'
  BY DEF ClearDiagnostics, serverVars, checkVars, DocumentsInv, DocumentAt,
         RegistryInv, RegisteredAt, StartedAt, IndexAgreesWithDocuments, Open,
         Started, CheckVersion, InSync
<1>5. PhaseInv' /\ ResultInv'
  BY DEF ClearDiagnostics, serverVars, checkVars, PhaseInv, PhaseAt, ResultInv,
     ResultAt, Started, SameVersion, Agrees, CheckVersion, CheckText, InSync
<1>6. ASSUME NEW c \in Checks PROVE LiveAt(c)'
  <2> SUFFICES ASSUME Started(c), c \notin cancelled PROVE LiveAt(c)'
    BY DEF LiveAt, Started, ClearDiagnostics, checkVars
  <2>1. checkUri[c] \in Uris \ {target}
    BY <1>2, Ranges DEF RegistryInv, RegisteredAt, StartedAt
  <2>2. QED
    BY <2>1 DEF ClearDiagnostics, serverVars, checkVars, LiveInv, LiveAt,
       Settled, SameVersion, Agrees, CheckVersion, CheckText, InSync
<1>7. ASSUME NEW w \in Uris PROVE ShownAt(w)'
  <2>1. CASE w = target
    BY <1>2, <2>1 DEF ClearDiagnostics, TypeOK, ShownAt, Cleared, serverVars,
       DocumentsInv, DocumentAt
  <2>2. CASE w # target
    BY <1>2, <2>2 DEF ClearDiagnostics, TypeOK, ShownInv, ShownAt, Settled,
       serverVars, checkVars, Started, SameVersion, Agrees, CheckVersion,
       CheckText, InSync
  <2>3. QED
    BY <2>1, <2>2
<1>8. QED
  BY <1>1, <1>3, <1>4, <1>5, <1>6, <1>7 DEF LiveInv, ShownInv

\* cancelSemanticWork: every registered check is cancelled, none stays live.
LEMMA CancelIInv == ASSUME IInv, Shutdown \/ Exit PROVE IInv'
<1> USE DEF IInv
<1>1. TypeOK'
  BY TypeMessage DEF ReadMessage
<1>2. /\ CancelSemanticWork
      /\ handler = "idle" /\ handler' \in {"idle", "exiting"}
      /\ UNCHANGED <<target, docText, index, aliased, versions, semanticResult,
                     checkPc, checkUri, checkSnap, overtaken, clientVars>>
  BY DEF Shutdown, Exit
<1>3. HandlerInv' /\ DocumentsInv' /\ IndexAgreesWithDocuments'
  BY <1>2 DEF HandlerInv, DocumentsInv, DocumentAt, IndexAgreesWithDocuments,
     Open, InSync, Started, clientVars
<1>4. PhaseInv' /\ ResultInv' /\ ShownInv'
  BY <1>2 DEF PhaseInv, PhaseAt, ResultInv, ResultAt, ShownInv, ShownAt, Started,
     Settled, SameVersion, Agrees, CheckVersion, CheckText, InSync, clientVars
<1>5. ASSUME NEW c \in Checks, Started(c) PROVE c \in cancelled'
  BY <1>2, <1>5, Ranges DEF CancelSemanticWork, RegistryInv, StartedAt
<1>6. LiveInv'
  BY <1>2, <1>5 DEF LiveInv, LiveAt, Started
<1>7. RegistryInv'
  <2>1. \A u \in Uris : RegisteredAt(u)'
    BY <1>2 DEF CancelSemanticWork, RegisteredAt
  <2>2. \A c \in Checks : StartedAt(c)'
    BY <1>2, <1>5 DEF RegistryInv, StartedAt, Started, CheckVersion
  <2>3. \A c \in cancelled' : Started(c)'
    BY <1>2 DEF CancelSemanticWork, RegistryInv, RegisteredAt, Started
  <2>4. QED
    BY <2>1, <2>2, <2>3 DEF RegistryInv
<1>8. QED
  BY <1>1, <1>3, <1>4, <1>6, <1>7

\* Steps that only move the handler between idle, lowering and the end.
LEMMA QuietIInv ==
  ASSUME IInv, HvmView \/ EndOfInput \/ LowerReturns \/ ProcessEnds
               \/ UNCHANGED vars
  PROVE  IInv'
<1> USE DEF IInv
<1>1. /\ handler' = handler \/
         {handler, handler'} \subseteq {"idle", "lowering", "exiting", "stopped"}
      /\ UNCHANGED <<target, serverVars, checkVars, clientVars>>
  BY DEF HvmView, EndOfInput, LowerReturns, ProcessEnds, vars
<1> USE DEF serverVars, checkVars, clientVars
<1>2. TypeOK'
  BY <1>1 DEF TypeOK
<1>3. HandlerInv'
  BY <1>1 DEF HandlerInv, Open, Started
<1>4. DocumentsInv' /\ RegistryInv' /\ LiveInv' /\ IndexAgreesWithDocuments'
  BY <1>1 DEF DocumentsInv, DocumentAt, RegistryInv, RegisteredAt, StartedAt,
     LiveInv, LiveAt, IndexAgreesWithDocuments, Open, InSync, Started, Settled,
     SameVersion, Agrees, CheckVersion, CheckText
<1>5. PhaseInv' /\ ResultInv' /\ ShownInv'
  BY <1>1 DEF PhaseInv, PhaseAt, ResultInv, ResultAt, ShownInv, ShownAt, Started,
     Settled, SameVersion, Agrees, CheckVersion, CheckText, InSync
<1>6. QED
  BY <1>2, <1>3, <1>4, <1>5

\* What the four steps of a check have in common, but for the result stored and
\* the diagnostics shown: only its own phase moves.
Advances(c) ==
  /\ Started(c) /\ Started(c)'
  /\ \A d \in Checks \ {c} : checkPc'[d] = checkPc[d]
  /\ UNCHANGED <<handler, target, docText, index, aliased, versions,
                 semanticCancel, checkUri, checkSnap, cancelled, overtaken,
                 clientText, clientVersion, edits>>

LEMMA AdvancesIInv ==
  ASSUME IInv, NEW c \in Checks, Advances(c), PhaseAt(c)'
  PROVE  /\ HandlerInv' /\ DocumentsInv' /\ RegistryInv' /\ LiveInv'
         /\ PhaseInv' /\ IndexAgreesWithDocuments'
         /\ \A d \in Checks : /\ Started(d)' <=> Started(d)
                              /\ SameVersion(d)' <=> SameVersion(d)
                              /\ Agrees(d)' <=> Agrees(d)
<1> USE DEF IInv, Advances
<1>1. \A d \in Checks : /\ Started(d)' <=> Started(d)
                        /\ SameVersion(d)' <=> SameVersion(d)
                        /\ Agrees(d)' <=> Agrees(d)
                        /\ CheckVersion(d)' = CheckVersion(d)
  BY DEF Started, SameVersion, Agrees, CheckVersion, CheckText, InSync
<1>2. HandlerInv' /\ DocumentsInv' /\ IndexAgreesWithDocuments'
  BY <1>1 DEF HandlerInv, DocumentsInv, DocumentAt, IndexAgreesWithDocuments,
     Open, InSync
<1>3. RegistryInv'
  BY <1>1 DEF TypeOK, RegistryInv, RegisteredAt, StartedAt, Open
<1>4. LiveInv'
  BY <1>1 DEF LiveInv, LiveAt, Settled
<1>5. \A d \in Checks : PhaseAt(d)'
  BY <1>1 DEF PhaseInv, PhaseAt
<1>6. QED
  BY <1>1, <1>2, <1>3, <1>4, <1>5 DEF PhaseInv

\* Line 329: a check that gets past it is live.
LEMMA CheckReturnsIInv ==
  ASSUME IInv, NEW c \in Checks, NEW ok \in BOOLEAN, CheckReturns(c, ok)
  PROVE  IInv'
<1> USE DEF IInv
<1>1. TypeOK'
  BY TypeCheck DEF CheckStep
<1>2. Advances(c) /\ UNCHANGED <<semanticResult, shown>>
  BY DEF CheckReturns, Advances, TypeOK, Started, serverVars, clientVars
<1>3. PhaseAt(c)'
  BY DEF CheckReturns, PhaseAt, LiveInv, LiveAt, TypeOK, Started, SameVersion,
     Agrees, CheckVersion, CheckText, InSync, serverVars, clientVars
<1>4. ResultInv' /\ ShownInv'
  BY <1>2, <1>3, AdvancesIInv
     DEF Advances, TypeOK, Shown, ResultInv, ResultAt, ShownInv, ShownAt, Settled
<1>5. QED
  BY <1>1, <1>2, <1>3, <1>4, AdvancesIInv

\* The version test.
LEMMA CompareVersionIInv ==
  ASSUME IInv, NEW c \in Checks, CompareVersion(c) PROVE IInv'
<1> USE DEF IInv
<1>1. TypeOK'
  BY TypeCheck DEF CheckStep
<1>2. Advances(c) /\ UNCHANGED <<semanticResult, shown>>
  BY DEF CompareVersion, Advances, TypeOK, Started, serverVars, clientVars
<1>3. PhaseAt(c)'
  BY DEF CompareVersion, PhaseInv, PhaseAt, TypeOK, SameVersion, Agrees,
     CheckVersion, CheckText, InSync, serverVars, clientVars
<1>4. ResultInv' /\ ShownInv'
  BY <1>2, <1>3, AdvancesIInv
     DEF Advances, TypeOK, Shown, ResultInv, ResultAt, ShownInv, ShownAt, Settled
<1>5. QED
  BY <1>1, <1>2, <1>3, <1>4, AdvancesIInv

\* The store.
LEMMA StoreResultIInv ==
  ASSUME IInv, NEW c \in Checks, StoreResult(c) PROVE IInv'
<1> USE DEF IInv
<1>1. TypeOK'
  BY TypeCheck DEF CheckStep
<1>2. Advances(c) /\ shown' = shown
  BY DEF StoreResult, Advances, TypeOK, Started, clientVars
<1>3. PhaseAt(c)'
  BY DEF StoreResult, PhaseInv, PhaseAt, TypeOK, SameVersion, Agrees,
     CheckVersion, CheckText, InSync, clientVars
<1>4. ASSUME NEW w \in Uris PROVE ResultAt(w)'
  <2>1. CASE w = checkUri[c]
    BY <1>1, <1>2, <1>3, <2>1, AdvancesIInv
       DEF StoreResult, Advances, TypeOK, PhaseInv, PhaseAt, ResultAt
  <2>2. CASE w # checkUri[c]
    BY <1>2, <1>3, <2>2, AdvancesIInv
       DEF StoreResult, Advances, TypeOK, ResultInv, ResultAt
  <2>3. QED
    BY <2>1, <2>2
<1>5. ShownInv'
  BY <1>2, <1>3, AdvancesIInv
     DEF Advances, TypeOK, Shown, ShownInv, ShownAt, Settled
<1>6. QED
  BY <1>1, <1>2, <1>3, <1>4, <1>5, AdvancesIInv DEF ResultInv

\* The publish.
LEMMA PublishSemanticIInv ==
  ASSUME IInv, NEW c \in Checks, PublishSemantic(c) PROVE IInv'
<1> USE DEF IInv
<1>1. TypeOK'
  BY TypeCheck DEF CheckStep
<1>2. Advances(c) /\ semanticResult' = semanticResult
  BY DEF PublishSemantic, Advances, TypeOK, Started, serverVars
<1>3. PhaseAt(c)'
  BY DEF PublishSemantic, PhaseAt, TypeOK
<1>4. ResultInv'
  BY <1>2, <1>3, AdvancesIInv DEF Advances, TypeOK, ResultInv, ResultAt
<1>5. ASSUME NEW w \in Uris PROVE ShownAt(w)'
  <2>1. CASE w = checkUri[c]
    <3>1. shown'[w].by = c /\ c # NoCheck
      BY <2>1, Ranges DEF PublishSemantic, TypeOK
    <3>2. PhaseAt(c) /\ checkPc[c] = "stored"
      BY DEF PublishSemantic, PhaseInv
    <3>3. QED
      BY <1>2, <1>3, <2>1, <3>1, <3>2, AdvancesIInv
         DEF Advances, PhaseAt, ShownAt
  <2>2. CASE w # checkUri[c]
    <3>1. shown'[w] = shown[w] /\ ShownAt(w)
      BY <2>2 DEF PublishSemantic, TypeOK, ShownInv
    <3>2. QED
      BY <1>2, <1>3, <3>1, AdvancesIInv
         DEF Advances, TypeOK, Shown, ShownAt, Settled
  <2>3. QED
    BY <2>1, <2>2
<1>6. QED
  BY <1>1, <1>2, <1>3, <1>4, <1>5, AdvancesIInv DEF ShownInv

LEMMA NextIInv == IInv /\ [Next]_vars => IInv'
<1> SUFFICES ASSUME IInv, [Next]_vars PROVE IInv'
  OBVIOUS
<1>1. CASE ReadMessage
  BY <1>1, DidOpenIInv, RefusedIInv, DidChangeIInv, DidChangeFailsIInv,
     DidCloseIInv, CancelIInv, QuietIInv DEF ReadMessage, Edit
<1>2. CASE FinishHandler
  BY <1>2, PublishSyntaxIInv, ScheduleSemanticIInv, ClearDiagnosticsIInv,
     QuietIInv DEF FinishHandler
<1>3. CASE \E c \in Checks : CheckStep(c)
  BY <1>3, CheckReturnsIInv, CompareVersionIInv, StoreResultIInv,
     PublishSemanticIInv DEF CheckStep
<1>4. CASE UNCHANGED vars
  BY <1>4, QuietIInv
<1>5. QED
  BY <1>1, <1>2, <1>3, <1>4 DEF Next

LEMMA InductiveInvariant == Spec => []IInv
  BY InitIInv, NextIInv, PTL DEF Spec

-----------------------------------------------------------------------------
(***************************************************************************)
(* The theorems.                                                           *)
(***************************************************************************)

\* Every variable of the server stays in its type.
THEOREM TypeCorrectness == Spec => []TypeOK
  BY InductiveInvariant, PTL DEF IInv

\* A check that can still run to its end uncancelled is the one registered for
\* its document, and between messages it is current.
THEOREM LiveChecksAreRegistered == Spec => []OneLiveCheck
<1>1. IInv => OneLiveCheck
  <2> SUFFICES ASSUME IInv, NEW c \in Checks, Live(c)
               PROVE  /\ semanticCancel[checkUri[c]] = c
                      /\ Open(checkUri[c])
                      /\ Settled(checkUri[c]) => Current(c, checkUri[c])
    BY DEF OneLiveCheck
  <2>1. Started(c) /\ c \notin cancelled
    BY DEF Live, Unfinished, LatePhases, Started
  <2>2. checkUri[c] \in Uris /\ semanticCancel[checkUri[c]] = c
    BY <2>1 DEF IInv, RegistryInv, StartedAt
  <2>3. Open(checkUri[c])
    BY <2>2, Ranges DEF IInv, RegistryInv, RegisteredAt
  <2>4. Settled(checkUri[c]) => Current(c, checkUri[c])
    BY <2>1 DEF IInv, LiveInv, LiveAt, Current, SameVersion, Agrees
  <2>5. QED
    BY <2>2, <2>3, <2>4
<1>2. QED
  BY <1>1, InductiveInvariant, PTL

\* An obsolete result can be served only if its check was overtaken between its
\* version test and its store, or between its context test and its version test
\* by a reopening at the same version.
THEOREM HoverStaleness == Spec => []StaleHoverOnlyOvertaken
<1>1. IInv => StaleHoverOnlyOvertaken
  BY DEF IInv, ResultInv, ResultAt, StaleHoverOnlyOvertaken, SameVersion, Agrees
<1>2. QED
  BY <1>1, InductiveInvariant, PTL

\* Diagnostics shown between messages are the parser's of the present version,
\* or of a check that is current or was overtaken after its version test.
THEOREM DiagnosticsStaleness == Spec => []StaleDiagnosticsOnlyOvertaken
<1>1. IInv => StaleDiagnosticsOnlyOvertaken
  BY DEF IInv, ShownInv, ShownAt, StaleDiagnosticsOnlyOvertaken, SameVersion,
         Agrees
<1>2. QED
  BY <1>1, InductiveInvariant, PTL

\* The workspace index and the open document part only when a batch failed.
THEOREM IndexAgreement == Spec => []IndexAgreesWithDocuments
  BY InductiveInvariant, PTL DEF IInv

-----------------------------------------------------------------------------
(***************************************************************************)
(* LspServer implements SemanticChecks, seen from the hovers and from the  *)
(* published diagnostics, for every set of documents and every bound.      *)
(***************************************************************************)
HoverPhases == {"returned", "accepted"}
DiagnosticsPhases == {"returned", "accepted", "stored"}

\* The abstract state moves only with the registry and the phases.
LEMMA SameRegistry ==
  ASSUME UNCHANGED <<semanticCancel, checkPc, checkUri>>
  PROVE  /\ Waiting' = Waiting
         /\ Begun' = Begun
         /\ Undelivered(HoverPhases)' = Undelivered(HoverPhases)
         /\ Undelivered(DiagnosticsPhases)' = Undelivered(DiagnosticsPhases)
  BY DEF Waiting, Begun, Undelivered, Started

\* A document waits for its registered check while that runs.
LEMMA WaitingFor ==
  ASSUME IInv, NEW c \in Checks, checkPc[c] = "running", c \notin cancelled
  PROVE  checkUri[c] \in Uris /\ Waiting[checkUri[c]] = c /\ c # NoCheck
<1>1. Started(c)
  BY DEF Started
<1>2. checkUri[c] \in Uris /\ semanticCancel[checkUri[c]] = c
  BY <1>1 DEF IInv, RegistryInv, StartedAt
<1>3. QED
  BY <1>2, Ranges DEF Waiting

\* Withdrawing the registered checks of some documents.
LEMMA Withdraw ==
  ASSUME NEW ds \in SUBSET Uris,
         semanticCancel' = [u \in Uris |-> IF u \in ds THEN NoCheck
                                                       ELSE semanticCancel[u]],
         UNCHANGED <<checkPc, checkUri>>
  PROVE  /\ Waiting' = [u \in Uris |-> IF u \in ds THEN NoCheck ELSE Waiting[u]]
         /\ Begun' = Begun
         /\ Undelivered(HoverPhases)' = Undelivered(HoverPhases)
         /\ Undelivered(DiagnosticsPhases)' = Undelivered(DiagnosticsPhases)
<1>1. Waiting' = [u \in Uris |-> IF u \in ds THEN NoCheck ELSE Waiting[u]]
  BY Ranges DEF Waiting
<1>2. QED
  BY <1>1 DEF Begun, Undelivered, Started

\* A step of check c leaves the other checks alone.
LEMMA OneCheckMoves ==
  ASSUME NEW c \in Checks, Advances(c),
         checkPc[c] # "running", checkPc'[c] # "running"
  PROVE  Begun' = Begun /\ Waiting' = Waiting
  BY DEF Waiting, Begun, Advances, Started

\* Its answer is delivered or dropped when it leaves the phases in between.
LEMMA AnswerMoves ==
  ASSUME NEW c \in Checks, Advances(c), NEW phases
  PROVE  Undelivered(phases)' =
           IF checkPc'[c] \in phases
             THEN Undelivered(phases) \cup {<<checkUri[c], c>>}
             ELSE Undelivered(phases) \ {<<checkUri[c], c>>}
<1>1. \A x : x \in Undelivered(phases)' <=>
        \E k \in Checks : x = <<checkUri[k], k>> /\ checkPc'[k] \in phases
  BY DEF Undelivered, Advances
<1>2. \A x : x \in Undelivered(phases) <=>
        \E k \in Checks : x = <<checkUri[k], k>> /\ checkPc[k] \in phases
  BY DEF Undelivered
<1>3. \A k \in Checks \ {c} : /\ checkPc'[k] = checkPc[k]
                              /\ <<checkUri[k], k>> # <<checkUri[c], c>>
  BY DEF Advances
<1>4. CASE checkPc'[c] \in phases
  <2>1. \A x : x \in Undelivered(phases)' <=>
          x \in Undelivered(phases) \cup {<<checkUri[c], c>>}
    BY <1>1, <1>2, <1>3, <1>4
  <2>2. QED
    BY <1>4, <2>1
<1>5. CASE checkPc'[c] \notin phases
  <2>1. \A x : x \in Undelivered(phases)' <=>
          x \in Undelivered(phases) \ {<<checkUri[c], c>>}
    BY <1>1, <1>2, <1>3, <1>5
  <2>2. QED
    BY <1>5, <2>1
<1>6. QED
  BY <1>4, <1>5

-----------------------------------------------------------------------------
(***************************************************************************)
(* Every step is a step of SemanticChecks or a stutter.                    *)
(***************************************************************************)
\* It is still to be delivered as long as it stays in between.
LEMMA AnswerStays ==
  ASSUME NEW c \in Checks, Advances(c), NEW phases,
         checkPc[c] \in phases, checkPc'[c] \in phases
  PROVE  Undelivered(phases)' = Undelivered(phases)
<1>1. <<checkUri[c], c>> \in Undelivered(phases)
  BY DEF Undelivered
<1>2. Undelivered(phases)' = Undelivered(phases) \cup {<<checkUri[c], c>>}
  BY AnswerMoves
<1>3. QED
  BY <1>1, <1>2

USE DEF HoverPhases, DiagnosticsPhases

\* The initial state shows no answer.
LEMMA HoverInit == Init => HoverView!Init
  BY DEF Init, HoverView!Init, Waiting, Undelivered, Begun, Started

LEMMA DiagnosticsInit == Init => DiagnosticsView!Init
  BY DEF Init, DiagnosticsView!Init, Waiting, Undelivered, Begun, Started,
         Cleared

\* The hovers: an answer is visible from its store to the next edit or close.
LEMMA HoverStep ==
  ASSUME IInv, IInv', [Next]_vars PROVE [HoverView!Next]_(HoverView!vars)
<1>1. ASSUME UNCHANGED <<semanticCancel, checkPc, checkUri, semanticResult>>
      PROVE  UNCHANGED HoverView!vars
  BY <1>1, SameRegistry DEF HoverView!vars
<1>2. ASSUME NEW u \in Uris, NEW v \in 1 .. MaxVersion,
             DidOpen(u, v) \/ \E replace \in BOOLEAN : DidChange(u, v, replace)
      PROVE  HoverView!Next
  <2>1. semanticResult' =
          [w \in Uris |-> IF w \in {u} THEN NoCheck ELSE semanticResult[w]]
    BY <1>2 DEF DidOpen, DidChange, Invalidate, IInv, TypeOK
  <2>2. UNCHANGED <<semanticCancel, checkPc, checkUri>>
    BY <1>2 DEF DidOpen, DidChange
  <2>3. Waiting' = [w \in Uris |-> IF w \in {} THEN NoCheck ELSE Waiting[w]]
    BY <2>2, SameRegistry DEF Waiting
  <2>4. HoverView!Retract({}, {u})
    BY <2>1, <2>2, <2>3, SameRegistry DEF HoverView!Retract
  <2>5. QED
    BY <2>4 DEF HoverView!Next
<1>3. ASSUME NEW u \in Uris, NEW v \in 1 .. MaxVersion,
             \/ DidOpenFails(u, v) \/ DidChangeUnknown(u, v)
             \/ \E partly \in BOOLEAN : DidChangeFails(u, v, partly)
      PROVE  UNCHANGED HoverView!vars
  BY <1>1, <1>3 DEF DidOpenFails, DidChangeUnknown, DidChangeFails, serverVars,
     checkVars
<1>4. ASSUME NEW u \in Uris, DidClose(u) PROVE HoverView!Next
  <2>1. semanticCancel' =
          [w \in Uris |-> IF w \in {u} THEN NoCheck ELSE semanticCancel[w]]
    BY <1>4 DEF DidClose, IInv, TypeOK
  <2>2. semanticResult' =
          [w \in Uris |-> IF w \in {u} THEN NoCheck ELSE semanticResult[w]]
    BY <1>4 DEF DidClose, IInv, TypeOK
  <2>3. HoverView!Retract({u}, {u})
    BY <1>4, <2>1, <2>2, Withdraw DEF HoverView!Retract, DidClose
  <2>4. QED
    BY <2>3 DEF HoverView!Next
<1>5. CASE Shutdown \/ Exit
  <2>1. /\ semanticCancel' =
            [w \in Uris |-> IF w \in Uris THEN NoCheck ELSE semanticCancel[w]]
        /\ UNCHANGED <<checkPc, checkUri, semanticResult>>
    BY <1>5 DEF Shutdown, Exit, CancelSemanticWork
  <2>2. semanticResult' =
          [w \in Uris |-> IF w \in {} THEN NoCheck ELSE semanticResult[w]]
    BY <2>1 DEF IInv, TypeOK
  <2>3. HoverView!Retract(Uris, {})
    BY <2>1, <2>2, Withdraw DEF HoverView!Retract
  <2>4. QED
    BY <2>3 DEF HoverView!Next
<1>6. CASE HvmView \/ EndOfInput \/ LowerReturns \/ ProcessEnds
           \/ PublishSyntax \/ ClearDiagnostics \/ UNCHANGED vars
  BY <1>1, <1>6 DEF HvmView, EndOfInput, LowerReturns, ProcessEnds,
     PublishSyntax, ClearDiagnostics, serverVars, checkVars, vars
<1>7. CASE ScheduleSemantic
  <2>1. target \in Uris /\ edits \in Checks /\ edits # NoCheck /\ ~Started(edits)
    BY <1>7, Ranges DEF ScheduleSemantic, IInv, HandlerInv
  <2>2. /\ semanticCancel' = [semanticCancel EXCEPT ![target] = edits]
        /\ checkPc' = [checkPc EXCEPT ![edits] = "running"]
        /\ checkUri' = [checkUri EXCEPT ![edits] = target]
        /\ UNCHANGED semanticResult
    BY <1>7 DEF ScheduleSemantic, clientVars
  <2>3. Waiting' = [Waiting EXCEPT ![target] = edits]
    <3>1. ASSUME NEW u \in Uris, u # target
          PROVE  semanticCancel[u] # edits
      BY <2>1 DEF IInv, RegistryInv, RegisteredAt
    <3>2. ASSUME NEW u \in Uris
          PROVE  Waiting'[u] = [Waiting EXCEPT ![target] = edits][u]
      BY <2>1, <2>2, <3>1 DEF Waiting, IInv, TypeOK
    <3>3. QED
      BY <3>2 DEF Waiting
  <2>4. Begun' = Begun \cup {edits} /\ edits \notin Begun
    BY <2>1, <2>2 DEF Begun, Started, IInv, TypeOK
  <2>5. Undelivered(HoverPhases)' = Undelivered(HoverPhases)
    <3>1. \A k \in Checks : \/ checkUri'[k] = checkUri[k] /\ checkPc'[k] = checkPc[k]
                            \/ checkPc[k] \notin HoverPhases /\ checkPc'[k] \notin HoverPhases
      BY <2>1, <2>2 DEF IInv, TypeOK, Started
    <3>2. \A x : x \in Undelivered(HoverPhases)' <=> x \in Undelivered(HoverPhases)
      BY <3>1 DEF Undelivered
    <3>3. QED
      BY <3>2
  <2>6. HoverView!Begin(target, edits)
    BY <2>2, <2>3, <2>4, <2>5 DEF HoverView!Begin
  <2>7. QED
    BY <2>1, <2>6 DEF HoverView!Next
<1>8. ASSUME NEW c \in Checks, NEW ok \in BOOLEAN, CheckReturns(c, ok)
      PROVE  HoverView!Next \/ UNCHANGED HoverView!vars
  <2>1. /\ Advances(c) /\ checkPc[c] = "running"
        /\ UNCHANGED semanticResult
        /\ checkPc'[c] = IF ok /\ c \notin cancelled THEN "returned" ELSE "done"
    BY <1>8 DEF CheckReturns, Advances, IInv, TypeOK, Started, serverVars,
       clientVars
  <2>2. Begun' = Begun
    BY <2>1 DEF Begun, Advances, Started
  <2>3. <<checkUri[c], c>> \notin Undelivered(HoverPhases)
    BY <2>1 DEF Undelivered
  <2>4. CASE c \in cancelled
    <3>1. Waiting' = Waiting
      <4>1. \A u \in Uris : semanticCancel[u] # c
        BY <2>4, Ranges DEF IInv, RegistryInv, RegisteredAt
      <4>2. QED
        BY <2>1, <4>1 DEF Waiting, Advances
    <3>2. Undelivered(HoverPhases)' = Undelivered(HoverPhases)
      BY ONLY c \in Checks, <2>1, <2>3, <2>4, AnswerMoves
    <3>3. QED
      BY <2>1, <2>2, <3>1, <3>2 DEF HoverView!vars
  <2>5. CASE c \notin cancelled
    <3>1. checkUri[c] \in Uris /\ Waiting[checkUri[c]] = c /\ c # NoCheck
      BY <2>1, <2>5, WaitingFor
    <3>2. Waiting' = [Waiting EXCEPT ![checkUri[c]] = NoCheck]
      <4>1. ASSUME NEW u \in Uris, u # checkUri[c]
            PROVE  semanticCancel[u] # c
        BY <3>1, <4>1 DEF IInv, RegistryInv, RegisteredAt
      <4>2. ASSUME NEW u \in Uris
            PROVE  Waiting'[u] = [Waiting EXCEPT ![checkUri[c]] = NoCheck][u]
        <5>1. CASE u = checkUri[c]
          <6>1. semanticCancel[u] = c
            BY <3>1, <5>1 DEF Waiting
          <6>2. QED
            BY <2>1, <2>5, <5>1, <6>1 DEF Waiting, Advances
        <5>2. CASE u # checkUri[c]
          BY <2>1, <4>1, <5>2 DEF Waiting, Advances
        <5>3. QED
          BY <5>1, <5>2
      <4>3. QED
        BY <4>2 DEF Waiting
    <3>3. CASE ok
      <4>1. Undelivered(HoverPhases)' = Undelivered(HoverPhases) \cup {<<checkUri[c], c>>}
        BY <2>1, <2>5, <3>3, AnswerMoves
      <4>2. HoverView!Answer(checkUri[c])
        BY <2>1, <2>2, <3>1, <3>2, <4>1 DEF HoverView!Answer
      <4>3. QED
        BY <3>1, <4>2 DEF HoverView!Next
    <3>4. CASE ~ok
      <4>1. Undelivered(HoverPhases)' = Undelivered(HoverPhases)
        BY <2>1, <2>3, <2>5, <3>4, AnswerMoves
      <4>2. Waiting' = [u \in Uris |-> IF u \in {checkUri[c]} THEN NoCheck
                                                           ELSE Waiting[u]]
        BY <3>2 DEF Waiting
      <4>3. semanticResult' = [u \in Uris |-> IF u \in {} THEN NoCheck ELSE semanticResult[u]]
        BY <2>1 DEF IInv, TypeOK
      <4>4. HoverView!Retract({checkUri[c]}, {})
        BY <2>2, <4>1, <4>2, <4>3 DEF HoverView!Retract
      <4>5. QED
        BY <3>1, <4>4 DEF HoverView!Next
    <3>5. QED
      BY <3>3, <3>4
  <2>6. QED
    BY <2>4, <2>5
<1>9. ASSUME NEW c \in Checks, CompareVersion(c)
      PROVE  HoverView!Next \/ UNCHANGED HoverView!vars
  <2>1. /\ Advances(c) /\ checkPc[c] = "returned"
        /\ UNCHANGED semanticResult
        /\ checkPc'[c] \in {"accepted", "done"}
        /\ checkUri[c] \in Uris
    BY <1>9 DEF CompareVersion, Advances, IInv, TypeOK, RegistryInv, StartedAt,
       Started, serverVars, clientVars
  <2>2. Begun' = Begun /\ Waiting' = Waiting
    BY <2>1, OneCheckMoves
  <2>3. CASE checkPc'[c] = "accepted"
    <3>1. Undelivered(HoverPhases)' = Undelivered(HoverPhases)
      BY ONLY c \in Checks, <2>1, <2>3, AnswerStays
    <3>2. QED
      BY <2>1, <2>2, <3>1 DEF HoverView!vars
  <2>4. CASE checkPc'[c] = "done"
    <3>1. HoverView!Discard(checkUri[c], c)
      BY <2>1, <2>2, <2>4, AnswerMoves DEF HoverView!Discard
    <3>2. QED
      BY <2>1, <3>1 DEF HoverView!Next
  <2>5. QED
    BY <2>1, <2>3, <2>4
<1>10. ASSUME NEW c \in Checks, StoreResult(c) PROVE HoverView!Next
  <2>1. /\ Advances(c) /\ checkPc[c] = "accepted" /\ checkPc'[c] = "stored"
        /\ semanticResult' = [semanticResult EXCEPT ![checkUri[c]] = c]
        /\ checkUri[c] \in Uris
    BY <1>10 DEF StoreResult, Advances, IInv, TypeOK, RegistryInv, StartedAt,
       Started, clientVars
  <2>2. Begun' = Begun /\ Waiting' = Waiting
    BY <2>1, OneCheckMoves
  <2>3. <<checkUri[c], c>> \in Undelivered(HoverPhases)
    BY <2>1 DEF Undelivered
  <2>4. HoverView!Deliver(checkUri[c], c)
    BY <2>1, <2>2, <2>3, AnswerMoves DEF HoverView!Deliver
  <2>5. QED
    BY <2>1, <2>4 DEF HoverView!Next
<1>11. ASSUME NEW c \in Checks, PublishSemantic(c)
       PROVE  UNCHANGED HoverView!vars
  <2>1. /\ Advances(c) /\ checkPc[c] = "stored" /\ checkPc'[c] = "done"
        /\ UNCHANGED semanticResult
    BY <1>11 DEF PublishSemantic, Advances, IInv, TypeOK, Started, serverVars
  <2>2. Begun' = Begun /\ Waiting' = Waiting
    BY <2>1, OneCheckMoves
  <2>3. <<checkUri[c], c>> \notin Undelivered(HoverPhases)
    BY <2>1 DEF Undelivered
  <2>4. Undelivered(HoverPhases)' = Undelivered(HoverPhases)
    BY ONLY c \in Checks, <2>1, <2>3, AnswerMoves
  <2>5. QED
    BY <2>1, <2>2, <2>4 DEF HoverView!vars
<1>12. QED
  BY <1>2, <1>3, <1>4, <1>5, <1>6, <1>7, <1>8, <1>9, <1>10, <1>11
     DEF Next, ReadMessage, Edit, FinishHandler, CheckStep

\* What hovers see of the compiler implements SemanticChecks.
THEOREM HoverRefinement == Spec => HoverImplementsChecks
<1>1. Spec => HoverView!Init /\ [][HoverView!Next]_(HoverView!vars)
  BY HoverInit, HoverStep, InductiveInvariant, PTL DEF Spec
<1>2. QED
  BY <1>1 DEF HoverImplementsChecks, HoverView!Spec

\* The diagnostics: an answer is visible from its publish to the next one.
LEMMA DiagnosticsStep ==
  ASSUME IInv, IInv', [Next]_vars
  PROVE  [DiagnosticsView!Next]_(DiagnosticsView!vars)
<1>1. ASSUME UNCHANGED <<semanticCancel, checkPc, checkUri, shown>>
      PROVE  UNCHANGED DiagnosticsView!vars
  BY <1>1, SameRegistry DEF DiagnosticsView!vars
<1>2. CASE Edit
  BY <1>1, <1>2 DEF Edit, DidOpen, DidOpenFails, DidChangeUnknown, DidChange,
     DidChangeFails, serverVars, checkVars
<1>3. ASSUME PublishSyntax \/ ClearDiagnostics PROVE DiagnosticsView!Next
  <2>1. PICK u \in Uris : u = target
    BY <1>3 DEF PublishSyntax, ClearDiagnostics, IInv, HandlerInv
  <2>2. /\ UNCHANGED <<semanticCancel, checkPc, checkUri>>
        /\ \A w \in Uris : shown'[w].by = IF w \in {u} THEN NoCheck
                                                       ELSE shown[w].by
    BY <1>3, <2>1 DEF PublishSyntax, ClearDiagnostics, IInv, TypeOK,
       Cleared, serverVars, checkVars
  <2>3. Waiting' = [w \in Uris |-> IF w \in {} THEN NoCheck ELSE Waiting[w]]
    BY <2>2, SameRegistry DEF Waiting
  <2>4. DiagnosticsView!Retract({}, {u})
    BY <2>2, <2>3, SameRegistry DEF DiagnosticsView!Retract
  <2>5. QED
    BY <2>4 DEF DiagnosticsView!Next
<1>4. ASSUME NEW u \in Uris, DidClose(u) PROVE DiagnosticsView!Next
  <2>1. semanticCancel' =
          [w \in Uris |-> IF w \in {u} THEN NoCheck ELSE semanticCancel[w]]
    BY <1>4 DEF DidClose, IInv, TypeOK
  <2>2. DiagnosticsView!Retract({u}, {})
    BY <1>4, <2>1, Withdraw DEF DiagnosticsView!Retract, DidClose
  <2>3. QED
    BY <2>2 DEF DiagnosticsView!Next
<1>5. CASE Shutdown \/ Exit
  <2>1. /\ semanticCancel' =
            [w \in Uris |-> IF w \in Uris THEN NoCheck ELSE semanticCancel[w]]
        /\ UNCHANGED <<checkPc, checkUri, shown>>
    BY <1>5 DEF Shutdown, Exit, CancelSemanticWork, clientVars
  <2>2. DiagnosticsView!Retract(Uris, {})
    BY <2>1, Withdraw DEF DiagnosticsView!Retract
  <2>3. QED
    BY <2>2 DEF DiagnosticsView!Next
<1>6. CASE HvmView \/ EndOfInput \/ LowerReturns \/ ProcessEnds
           \/ UNCHANGED vars
  BY <1>1, <1>6 DEF HvmView, EndOfInput, LowerReturns, ProcessEnds,
     serverVars, checkVars, clientVars, vars
<1>7. CASE ScheduleSemantic
  <2>1. target \in Uris /\ edits \in Checks /\ edits # NoCheck /\ ~Started(edits)
    BY <1>7, Ranges DEF ScheduleSemantic, IInv, HandlerInv
  <2>2. /\ semanticCancel' = [semanticCancel EXCEPT ![target] = edits]
        /\ checkPc' = [checkPc EXCEPT ![edits] = "running"]
        /\ checkUri' = [checkUri EXCEPT ![edits] = target]
        /\ UNCHANGED shown
    BY <1>7 DEF ScheduleSemantic, clientVars
  <2>3. Waiting' = [Waiting EXCEPT ![target] = edits]
    <3>1. ASSUME NEW u \in Uris, u # target
          PROVE  semanticCancel[u] # edits
      BY <2>1 DEF IInv, RegistryInv, RegisteredAt
    <3>2. ASSUME NEW u \in Uris
          PROVE  Waiting'[u] = [Waiting EXCEPT ![target] = edits][u]
      BY <2>1, <2>2, <3>1 DEF Waiting, IInv, TypeOK
    <3>3. QED
      BY <3>2 DEF Waiting
  <2>4. Begun' = Begun \cup {edits} /\ edits \notin Begun
    BY <2>1, <2>2 DEF Begun, Started, IInv, TypeOK
  <2>5. Undelivered(DiagnosticsPhases)' = Undelivered(DiagnosticsPhases)
    <3>1. \A k \in Checks : \/ checkUri'[k] = checkUri[k] /\ checkPc'[k] = checkPc[k]
                            \/ checkPc[k] \notin DiagnosticsPhases /\ checkPc'[k] \notin DiagnosticsPhases
      BY <2>1, <2>2 DEF IInv, TypeOK, Started
    <3>2. \A x : x \in Undelivered(DiagnosticsPhases)' <=> x \in Undelivered(DiagnosticsPhases)
      BY <3>1 DEF Undelivered
    <3>3. QED
      BY <3>2
  <2>6. DiagnosticsView!Begin(target, edits)
    BY <2>2, <2>3, <2>4, <2>5 DEF DiagnosticsView!Begin
  <2>7. QED
    BY <2>1, <2>6 DEF DiagnosticsView!Next
<1>8. ASSUME NEW c \in Checks, NEW ok \in BOOLEAN, CheckReturns(c, ok)
      PROVE  DiagnosticsView!Next \/ UNCHANGED DiagnosticsView!vars
  <2>1. /\ Advances(c) /\ checkPc[c] = "running"
        /\ UNCHANGED shown
        /\ checkPc'[c] = IF ok /\ c \notin cancelled THEN "returned" ELSE "done"
    BY <1>8 DEF CheckReturns, Advances, IInv, TypeOK, Started, serverVars,
       clientVars
  <2>2. Begun' = Begun
    BY <2>1 DEF Begun, Advances, Started
  <2>3. <<checkUri[c], c>> \notin Undelivered(DiagnosticsPhases)
    BY <2>1 DEF Undelivered
  <2>4. CASE c \in cancelled
    <3>1. Waiting' = Waiting
      <4>1. \A u \in Uris : semanticCancel[u] # c
        BY <2>4, Ranges DEF IInv, RegistryInv, RegisteredAt
      <4>2. QED
        BY <2>1, <4>1 DEF Waiting, Advances
    <3>2. Undelivered(DiagnosticsPhases)' = Undelivered(DiagnosticsPhases)
      BY ONLY c \in Checks, <2>1, <2>3, <2>4, AnswerMoves
    <3>3. QED
      BY <2>1, <2>2, <3>1, <3>2 DEF DiagnosticsView!vars
  <2>5. CASE c \notin cancelled
    <3>1. checkUri[c] \in Uris /\ Waiting[checkUri[c]] = c /\ c # NoCheck
      BY <2>1, <2>5, WaitingFor
    <3>2. Waiting' = [Waiting EXCEPT ![checkUri[c]] = NoCheck]
      <4>1. ASSUME NEW u \in Uris, u # checkUri[c]
            PROVE  semanticCancel[u] # c
        BY <3>1, <4>1 DEF IInv, RegistryInv, RegisteredAt
      <4>2. ASSUME NEW u \in Uris
            PROVE  Waiting'[u] = [Waiting EXCEPT ![checkUri[c]] = NoCheck][u]
        <5>1. CASE u = checkUri[c]
          <6>1. semanticCancel[u] = c
            BY <3>1, <5>1 DEF Waiting
          <6>2. QED
            BY <2>1, <2>5, <5>1, <6>1 DEF Waiting, Advances
        <5>2. CASE u # checkUri[c]
          BY <2>1, <4>1, <5>2 DEF Waiting, Advances
        <5>3. QED
          BY <5>1, <5>2
      <4>3. QED
        BY <4>2 DEF Waiting
    <3>3. CASE ok
      <4>1. Undelivered(DiagnosticsPhases)' = Undelivered(DiagnosticsPhases) \cup {<<checkUri[c], c>>}
        BY <2>1, <2>5, <3>3, AnswerMoves
      <4>2. DiagnosticsView!Answer(checkUri[c])
        BY <2>1, <2>2, <3>1, <3>2, <4>1 DEF DiagnosticsView!Answer
      <4>3. QED
        BY <3>1, <4>2 DEF DiagnosticsView!Next
    <3>4. CASE ~ok
      <4>1. Undelivered(DiagnosticsPhases)' = Undelivered(DiagnosticsPhases)
        BY <2>1, <2>3, <2>5, <3>4, AnswerMoves
      <4>2. Waiting' = [u \in Uris |-> IF u \in {checkUri[c]} THEN NoCheck
                                                           ELSE Waiting[u]]
        BY <3>2 DEF Waiting
      <4>3. [w \in Uris |-> shown'[w].by] =
              [u \in Uris |-> IF u \in {} THEN NoCheck ELSE shown[u].by]
        BY <2>1
      <4>4. DiagnosticsView!Retract({checkUri[c]}, {})
        BY <2>2, <4>1, <4>2, <4>3 DEF DiagnosticsView!Retract
      <4>5. QED
        BY <3>1, <4>4 DEF DiagnosticsView!Next
    <3>5. QED
      BY <3>3, <3>4
  <2>6. QED
    BY <2>4, <2>5
<1>9. ASSUME NEW c \in Checks, CompareVersion(c)
      PROVE  DiagnosticsView!Next \/ UNCHANGED DiagnosticsView!vars
  <2>1. /\ Advances(c) /\ checkPc[c] = "returned"
        /\ UNCHANGED shown
        /\ checkPc'[c] \in {"accepted", "done"}
        /\ checkUri[c] \in Uris
    BY <1>9 DEF CompareVersion, Advances, IInv, TypeOK, RegistryInv, StartedAt,
       Started, serverVars, clientVars
  <2>2. Begun' = Begun /\ Waiting' = Waiting
    BY <2>1, OneCheckMoves
  <2>3. CASE checkPc'[c] = "accepted"
    <3>1. <<checkUri[c], c>> \in Undelivered(DiagnosticsPhases)
      BY <2>1 DEF Undelivered
    <3>2. Undelivered(DiagnosticsPhases)' =
            Undelivered(DiagnosticsPhases) \cup {<<checkUri[c], c>>}
      BY ONLY c \in Checks, <2>1, <2>3, AnswerMoves
    <3>3. Undelivered(DiagnosticsPhases)' = Undelivered(DiagnosticsPhases)
      BY <3>1, <3>2
    <3>4. QED
      BY <2>1, <2>2, <3>3 DEF DiagnosticsView!vars
  <2>4. CASE checkPc'[c] = "done"
    <3>1. DiagnosticsView!Discard(checkUri[c], c)
      BY <2>1, <2>2, <2>4, AnswerMoves DEF DiagnosticsView!Discard
    <3>2. QED
      BY <2>1, <3>1 DEF DiagnosticsView!Next
  <2>5. QED
    BY <2>1, <2>3, <2>4
<1>10. ASSUME NEW c \in Checks, StoreResult(c)
       PROVE  UNCHANGED DiagnosticsView!vars
  <2>1. /\ Advances(c) /\ checkPc[c] = "accepted" /\ checkPc'[c] = "stored"
        /\ UNCHANGED shown
    BY <1>10 DEF StoreResult, Advances, IInv, TypeOK, Started, clientVars
  <2>2. Begun' = Begun /\ Waiting' = Waiting
    BY <2>1, OneCheckMoves
  <2>3. Undelivered(DiagnosticsPhases)' = Undelivered(DiagnosticsPhases)
    BY ONLY c \in Checks, <2>1, AnswerStays
  <2>4. QED
    BY <2>1, <2>2, <2>3 DEF DiagnosticsView!vars
<1>11. ASSUME NEW c \in Checks, PublishSemantic(c) PROVE DiagnosticsView!Next
  <2>1. /\ Advances(c) /\ checkPc[c] = "stored" /\ checkPc'[c] = "done"
        /\ checkUri[c] \in Uris
        /\ \A w \in Uris :
             shown'[w].by = IF w = checkUri[c] THEN c ELSE shown[w].by
    BY <1>11 DEF PublishSemantic, Advances, IInv, TypeOK, RegistryInv, StartedAt,
       Started, serverVars
  <2>2. Begun' = Begun /\ Waiting' = Waiting
    BY <2>1, OneCheckMoves
  <2>3. <<checkUri[c], c>> \in Undelivered(DiagnosticsPhases)
    BY <2>1 DEF Undelivered
  <2>4. DiagnosticsView!Deliver(checkUri[c], c)
    BY <2>1, <2>2, <2>3, AnswerMoves DEF DiagnosticsView!Deliver
  <2>5. QED
    BY <2>1, <2>4 DEF DiagnosticsView!Next
<1>12. QED
  BY <1>2, <1>3, <1>4, <1>5, <1>6, <1>7, <1>8, <1>9, <1>10, <1>11
     DEF Next, ReadMessage, FinishHandler, CheckStep

\* What the client is shown of the compiler implements SemanticChecks.
THEOREM DiagnosticsRefinement == Spec => DiagnosticsImplementChecks
<1>1. Spec => DiagnosticsView!Init
              /\ [][DiagnosticsView!Next]_(DiagnosticsView!vars)
  BY DiagnosticsInit, DiagnosticsStep, InductiveInvariant, PTL DEF Spec
<1>2. QED
  BY <1>1 DEF DiagnosticsImplementChecks, DiagnosticsView!Spec
=============================================================================
