----------------------- MODULE SemanticCommandProofs -----------------------
(***************************************************************************)
(* What a call of the command backend returns, for any commands.           *)
(***************************************************************************)
EXTENDS SemanticCommand, TLAPS

\* Only a context that is over kills; a call that runs has a process, and one that has
\* returned gave the verdict of an output to which nobody is left to add.
Accounting ==
  /\ process = "killed" => ctx # "live"
  /\ pc = "start" => process = "none"
  /\ pc = "run" => process # "none"
  /\ process = "running" => pc = "run"
  /\ ResultIsFinal
  /\ KilledIsNotFailed

IInv == TypeOK /\ Accounting

LEMMA InitInv == Init => IInv
  BY DEF Init, IInv, TypeOK, Accounting, ResultIsFinal, KilledIsNotFailed, Alive, Ended, Scripts

LEMMA VerdictType == Verdict \in {"answer", "error", "context error"}
  BY DEF Verdict

LEMMA NextInv == IInv /\ [Next]_vars => IInv'
  <1> SUFFICES ASSUME IInv, [Next]_vars PROVE IInv'
    OBVIOUS
  <1> USE DEF IInv, TypeOK, Accounting, ResultIsFinal, KilledIsNotFailed, Alive, Ended
  <1>1. CASE StartCommand
    BY <1>1 DEF StartCommand
  <1>2. CASE StartFails
    BY <1>2, VerdictType DEF StartFails, Return, Verdict
  <1>3. CASE RunReturns
    BY <1>3, VerdictType DEF RunReturns, Return, Verdict
  <1>4. CASE Expire
    BY <1>4 DEF Expire
  <1>5. CASE Cancel
    BY <1>5 DEF Cancel
  <1>6. CASE Kill
    BY <1>6 DEF Kill, backend
  <1>7. CASE ReadRequest
    BY <1>7 DEF ReadRequest, backend
  <1>8. CASE EndOfRequests
    BY <1>8 DEF EndOfRequests, Leave, backend
  <1>9. CASE WriteResponse
    BY <1>9 DEF WriteResponse, backend
  <1>10. CASE CheckEnds
    BY <1>10 DEF CheckEnds, backend
  <1>11. CASE Crash
    BY <1>11 DEF Crash, Leave, backend
  <1>12. CASE ScriptEnds
    BY <1>12 DEF ScriptEnds, backend
  <1>13. CASE UNCHANGED vars
    BY <1>13 DEF vars
  <1> QED
    BY <1>1, <1>2, <1>3, <1>4, <1>5, <1>6, <1>7, <1>8, <1>9, <1>10, <1>11, <1>12, <1>13
       DEF Next, RunStep, SidecarStep

\* Every reachable state of a call is well typed; in particular it has a result
\* exactly when it has returned.
THEOREM TypeCorrectness == Spec => []TypeOK
  <1>1. IInv => TypeOK
    BY DEF IInv
  <1> QED
    BY <1>1, InitInv, NextInv, PTL DEF Spec

\* Whatever the command, a call that has returned leaves no sidecar at work, and it
\* returned an answer exactly if the whole output is one.
THEOREM ResultsAreFinal == Spec => []ResultIsFinal
  <1>1. IInv => ResultIsFinal
    BY DEF IInv, Accounting
  <1> QED
    BY <1>1, InitInv, NextInv, PTL DEF Spec

\* A killed command is always reported as the end of the context.
THEOREM KillsAreReported == Spec => []KilledIsNotFailed
  <1>1. IInv => KilledIsNotFailed
    BY DEF IInv, Accounting
  <1> QED
    BY <1>1, InitInv, NextInv, PTL DEF Spec
=============================================================================
