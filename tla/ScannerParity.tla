---------------------------- MODULE ScannerParity ----------------------------
(***************************************************************************)
(* The Go scanner beside the upstream C scanner, as in a parse of the same *)
(* source by both runtimes (internal/cparity): each has a state of its own *)
(* and saves and restores it in its own way, and the parser asks both for  *)
(* the same symbols at the same places.                                    *)
(***************************************************************************)
EXTENDS Scanner, CScanner

VARIABLES
  cIndents,  \* the C scanner's array
  cSaved     \* the bytes the C runtime keeps of it

cvars == <<cIndents, cSaved>>

ParityInit ==
  /\ Init
  /\ cIndents = CCreated
  /\ cSaved = <<>>

CReturns == CScan(input, scan.start, cIndents, scan.valid)

CFollows ==
  /\ cIndents' = IF pc' = "idle" THEN CReturns.indents ELSE cIndents
  /\ UNCHANGED cSaved

CSave ==
  /\ cSaved' = CSerialized(cIndents, BufferSize)
  /\ UNCHANGED cIndents

CRestore ==
  /\ cIndents' = CDeserialized(cIndents, cSaved)
  /\ UNCHANGED cSaved

ParityNext ==
  \/ (\E v \in ValidSets : Begin(v)) /\ UNCHANGED cvars
  \/ ScanStep /\ CFollows
  \/ LexInternally /\ UNCHANGED cvars
  \/ Save /\ CSave
  \/ Restore /\ CRestore

ParitySpec == ParityInit /\ [][ParityNext]_<<vars, cvars>>

-----------------------------------------------------------------------------
HasNul == \E i \in DOMAIN input : input[i] = "nul"

\* Every call of Scan ends with the token and at the place of the C scanner,
\* whatever symbols are valid and whatever state it started from
\* (bendlang/grammar/UPSTREAM.md: "a behavioral port"), for sources without a NUL
\* character, which the Go scanner takes for the end of the source.
ParityWithC ==
  [][pc # "idle" /\ pc' = "idle" /\ ~HasNul
       => token' = CReturns.token /\ pos' = CReturns.pos]_vars

\* Through a whole parse, with its saving and returning, the C scanner's array
\* holds the stack of the Go scanner, and the two runtimes keep the same bytes; the
\* array never claims memory that it does not own.
StatesAgree ==
  /\ Sound(cIndents)
  /\ ~HasNul => Stack(cIndents) = indents /\ cSaved = saved.bytes

-----------------------------------------------------------------------------
\* ts_external_scanner_states of the generated parser: the sets of external symbols
\* that some state of the grammar accepts.  COMMENT is in all of them and never
\* read; the first is that of error recovery.
ExternalScannerStates ==
  {Symbols, {"PATH", "PATH_EXPR"}, {"NAT", "PATH", "PATH_EXPR"},
   {"DEDENT", "PATH", "PATH_EXPR"}, {"NEWLINE", "NAT", "PATH", "PATH_EXPR"}, {},
   {"NEWLINE"}, {"NEWLINE", "PATH", "PATH_EXPR"}, {"NAT"}, {"DEDENT"},
   {"PATH_EXPR"}, {"INDENT"}}
=============================================================================
