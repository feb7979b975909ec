---------------------------- MODULE SemanticChecks ----------------------------
(***************************************************************************)
(* What the server promises about compiler checks, without the handler,    *)
(* the versions, the locks or the goroutines: a document has at most one   *)
(* check that may still answer, starting another one or closing the        *)
(* document withdraws it, and what the client sees from the compiler is an *)
(* answer given by a check that had not been withdrawn, delivered at most  *)
(* once.  An answer once given may still be delivered late: the promise    *)
(* says nothing about the order in which answers are delivered.            *)
(***************************************************************************)
CONSTANTS Docs, Checks, None

VARIABLES waiting,  \* the check of each document that may still answer
          answers,  \* <<document, check>> answered, neither shown nor dropped
          begun,    \* checks begun so far
          visible   \* the check whose answer the client sees

vars == <<waiting, answers, begun, visible>>

Init ==
  /\ waiting = [d \in Docs |-> None]
  /\ answers = {}
  /\ begun = {}
  /\ visible = [d \in Docs |-> None]

\* A new check of d takes the place of the one waiting.
Begin(d, c) ==
  /\ c \notin begun
  /\ begun' = begun \cup {c}
  /\ waiting' = [waiting EXCEPT ![d] = c]
  /\ UNCHANGED <<answers, visible>>

\* The waiting check of d answers.
Answer(d) ==
  /\ waiting[d] # None
  /\ answers' = answers \cup {<<d, waiting[d]>>}
  /\ waiting' = [waiting EXCEPT ![d] = None]
  /\ UNCHANGED <<begun, visible>>

Deliver(d, c) ==
  /\ <<d, c>> \in answers
  /\ answers' = answers \ {<<d, c>>}
  /\ visible' = [visible EXCEPT ![d] = c]
  /\ UNCHANGED <<waiting, begun>>

Discard(d, c) ==
  /\ answers' = answers \ {<<d, c>>}
  /\ UNCHANGED <<waiting, begun, visible>>

\* Checks withdrawn (or failed), answers taken off the client's screen.
Retract(withdrawn, erased) ==
  /\ waiting' = [d \in Docs |-> IF d \in withdrawn THEN None ELSE waiting[d]]
  /\ visible' = [d \in Docs |-> IF d \in erased THEN None ELSE visible[d]]
  /\ UNCHANGED <<answers, begun>>

Next ==
  \/ \E d \in Docs, c \in Checks :
       Begin(d, c) \/ Deliver(d, c) \/ Discard(d, c)
  \/ \E d \in Docs : Answer(d)
  \/ \E withdrawn, erased \in SUBSET Docs : Retract(withdrawn, erased)

Spec == Init /\ [][Next]_vars
=============================================================================
