-------------------------- MODULE SemanticCommand --------------------------
(***************************************************************************)
(* One call of the command backend (src/intel/semantic_protocol.go): the   *)
(* process it starts, the sidecar that answers (the main loop of           *)
(* src/semanticd/src/main.rs), the pipes between them, the timeout and the *)
(* caller's cancellation.  Every call has a process of its own, so calls   *)
(* do not meet and one of them is enough.                                  *)
(*                                                                         *)
(* The command may be the sidecar itself or a script around it, which      *)
(* waits for it or leaves it behind.  The operating system and os/exec are *)
(* external: Run returns when the process has ended and nobody holds its   *)
(* output pipes any more, and a context that ends kills that process only. *)
(*                                                                         *)
(* Data.  The request is one line; the sidecar's answer is visible in the  *)
(* pipe in two steps, for its buffer may be flushed before it is complete. *)
(***************************************************************************)
CONSTANTS Protocol,   \* "bend-intel/1"
          Commands    \* what BEND_SEMANTICD may name

Scripts == {"none", "waits", "leaves"}

ASSUME CommandsAssumption ==
  Commands \subseteq [starts : BOOLEAN, script : Scripts, protocol : STRING]

VARIABLES
  command,   \* the backend's Command
  timed,     \* its Timeout is positive
  ctx,       \* run's context
  pc,        \* where run is
  result,    \* what it returned
  process,   \* the process it started
  stdin,     \* requests in the sidecar's input
  sidecar,   \* what the sidecar is doing
  stdout     \* what has come out of it

vars == <<command, timed, ctx, pc, result, process, stdin, sidecar, stdout>>
backend == <<command, timed, ctx, pc, result>>

Ended == {"succeeded", "failed", "killed"}
Alive == {"read", "check", "write"}

TypeOK ==
  /\ command \in Commands
  /\ timed \in BOOLEAN
  /\ ctx \in {"live", "expired", "cancelled"}
  /\ pc \in {"start", "run", "returned"}
  /\ result \in {"none", "answer", "error", "context error"}
  /\ process \in {"none", "running"} \cup Ended
  /\ stdin \in {"request", "end"}
  /\ sidecar \in Alive \cup {"none", "gone"}
  /\ stdout \in {"nothing", "part", "whole"}
  /\ pc = "returned" <=> result # "none"
  /\ process = "none" => sidecar = "none" /\ stdout = "nothing"

Init ==
  /\ command \in Commands
  /\ timed \in BOOLEAN
  /\ ctx = "live"
  /\ pc = "start"
  /\ result = "none"
  /\ process = "none"
  /\ stdin = "request"
  /\ sidecar = "none"
  /\ stdout = "nothing"

-----------------------------------------------------------------------------
(***************************************************************************)
(* SemanticCommandBackend.run.                                             *)
(***************************************************************************)
Return(value) ==
  /\ pc' = "returned"
  /\ result' = value

\* Variants: an answer is awaited but its absence is no error; a killed process is
\* a failed one.
VerdictOfNothing ==
  CASE process = "succeeded" ->
         IF stdout = "nothing" THEN "none"
         ELSE IF stdout = "whole" /\ command.protocol \in {"", Protocol} THEN "answer"
         ELSE "error"
    [] OTHER -> IF ctx = "live" THEN "error" ELSE "context error"

VerdictWithoutContext ==
  IF /\ process = "succeeded"
     /\ stdout = "whole"
     /\ command.protocol \in {"", Protocol}
    THEN "answer" ELSE "error"

\* What run makes of a command that came to its end: the context's error if it is
\* over, else the command's; then the output must decode and speak the protocol.
Verdict ==
  IF process # "succeeded"
    THEN IF ctx = "live" THEN "error" ELSE "context error"
    ELSE IF stdout = "whole" /\ command.protocol \in {"", Protocol}
           THEN "answer" ELSE "error"

\* cmd.Start: the sidecar, or a script that starts it.
StartCommand ==
  /\ pc = "start"
  /\ command.starts
  /\ ctx = "live"
  /\ pc' = "run"
  /\ process' = "running"
  /\ sidecar' = "read"
  /\ UNCHANGED <<command, timed, ctx, result, stdin, stdout>>

\* No command that can be started, or a context that is over already.  (Main makes no
\* backend of an empty command.)
StartFails ==
  /\ pc = "start"
  /\ ~command.starts \/ ctx # "live"
  /\ Return(Verdict)
  /\ UNCHANGED <<command, timed, ctx, process, stdin, sidecar, stdout>>

\* The timeout, and the caller's cancel function.
Expire ==
  /\ timed
  /\ pc # "returned"
  /\ ctx = "live"
  /\ ctx' = "expired"
  /\ UNCHANGED <<command, timed, pc, result, process, stdin, sidecar, stdout>>

Cancel ==
  /\ ctx = "live"
  /\ ctx' = "cancelled"
  /\ UNCHANGED <<command, timed, pc, result, process, stdin, sidecar, stdout>>

\* Variant: a command without the context kills nothing.
KillNothing == FALSE /\ UNCHANGED vars

\* exec.CommandContext: the process is killed, and with it the sidecar if it is one.
Kill ==
  /\ process = "running"
  /\ ctx # "live"
  /\ process' = "killed"
  /\ sidecar' = IF command.script = "none" THEN "gone" ELSE sidecar
  /\ UNCHANGED <<backend, stdin, stdout>>

\* Variant: the process's end is enough.
RunReturnsAtOnce ==
  /\ pc = "run"
  /\ process \in Ended
  /\ Return(Verdict)
  /\ UNCHANGED <<command, timed, ctx, process, stdin, sidecar, stdout>>

\* cmd.Run: the process has ended and the pipes are closed, by all who had them.
RunReturns ==
  /\ pc = "run"
  /\ process \in Ended
  /\ sidecar \notin Alive
  /\ Return(Verdict)
  /\ UNCHANGED <<command, timed, ctx, process, stdin, sidecar, stdout>>

-----------------------------------------------------------------------------
(***************************************************************************)
(* The sidecar.                                                            *)
(***************************************************************************)
\* The sidecar ends; so does the process, with its status, if that is the sidecar
\* or waits for it.
Leave(status) ==
  /\ sidecar' = "gone"
  /\ process' = IF process = "running" /\ command.script # "leaves" THEN status ELSE process

ReadRequest ==
  /\ sidecar = "read"
  /\ stdin = "request"
  /\ stdin' = "end"
  /\ sidecar' = "check"
  /\ UNCHANGED <<backend, process, stdout>>

EndOfRequests ==
  /\ sidecar = "read"
  /\ stdin = "end"
  /\ Leave("succeeded")
  /\ UNCHANGED <<backend, stdin, stdout>>

\* check: a response in every case, whatever the compiler says of the program.
CheckEnds ==
  /\ sidecar = "check"
  /\ sidecar' = "write"
  /\ UNCHANGED <<backend, process, stdin, stdout>>

\* Or the compiler takes the sidecar down.
Crash ==
  /\ sidecar = "check"
  /\ Leave("failed")
  /\ UNCHANGED <<backend, stdin, stdout>>

WriteResponse ==
  /\ sidecar = "write"
  /\ stdout' = IF stdout = "nothing" THEN "part" ELSE "whole"
  /\ sidecar' = IF stdout = "nothing" THEN "write" ELSE "read"
  /\ UNCHANGED <<backend, process, stdin>>

\* A script that does not wait.
ScriptEnds ==
  /\ command.script = "leaves"
  /\ process = "running"
  /\ process' = "succeeded"
  /\ UNCHANGED <<backend, stdin, sidecar, stdout>>

-----------------------------------------------------------------------------
RunStep == StartCommand \/ StartFails \/ RunReturns
SidecarStep == ReadRequest \/ EndOfRequests \/ WriteResponse

Next ==
  \/ RunStep
  \/ Expire
  \/ Cancel
  \/ Kill
  \/ SidecarStep
  \/ CheckEnds
  \/ Crash
  \/ ScriptEnds

Spec == Init /\ [][Next]_vars

\* Goroutines, timers, signals and processes proceed; the compiler need not end, nor
\* the caller cancel.
Fairness ==
  /\ WF_vars(RunStep)
  /\ WF_vars(Expire)
  /\ WF_vars(Kill)
  /\ WF_vars(SidecarStep)
  /\ WF_vars(ScriptEnds)

FairSpec == Spec /\ Fairness

-----------------------------------------------------------------------------
(***************************************************************************)
(* Properties.                                                             *)
(***************************************************************************)
\* A call leaves nothing behind: once it has returned no compiler runs on, and what
\* it returned is what the whole output of the command amounts to, not what had
\* come out of a script's sidecar by the time the script ended.
ResultIsFinal ==
  pc = "returned" =>
    /\ sidecar \notin Alive
    /\ result = "answer" <=>
         /\ process = "succeeded"
         /\ stdout = "whole"
         /\ command.protocol \in {"", Protocol}

\* Cancelled work is no failure of the compiler: what was killed is reported as the
\* context's error, and an answer is never one of a process that was killed.
KilledIsNotFailed ==
  pc = "returned" /\ process = "killed" => result = "context error"

\* The assumption the server makes of its backend: every call ends, unless the
\* compiler itself hangs where nothing can reach it, without a timeout or below a
\* script.
Held ==
  /\ sidecar = "check"
  /\ command.script # "none" \/ ~timed

CallEnds == <>[](pc = "returned" \/ Held)
=============================================================================
