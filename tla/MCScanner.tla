------------------------------ MODULE MCScanner ------------------------------
(***************************************************************************)
(* Sources for TLC: a few pieces in any order, one source whose second     *)
(* line starts at column 256, and one with a NUL character.                *)
(***************************************************************************)
EXTENDS ScannerParity, SequencesExt

Pieces == {<<"newline">>, <<"space">>, <<"return">>, <<"#", "other">>,
           <<"#", "digit">>, <<"#", "{">>, <<"letter">>, <<"{">>,
           <<"newline", "space", "letter">>, <<"newline", "tab", "letter">>,
           <<"letter", "/", "digit">>}

\* Three blocks inside one another: one more than the buffer holds, and two more
\* than the C array has slots for at first.
NestedInput == <<"newline", "space", "letter", "newline", "space", "space",
                 "letter", "newline", "tab", "letter", "newline", "letter">>

\* A comment line in the first block, one in front of it, and a dedented line.
CommentedInput == <<"newline", "space", "letter", "newline", "space", "#",
                    "other", "newline", "#", "other", "newline", "letter">>

\* A block at column 256.
WideInput == <<"newline">> \o [i \in 1 .. 32 |-> "tab"] \o <<"letter">>

NulInput == <<"newline", "space", "nul", "letter">>

PiecedInputs == {FlattenSeq(s) : s \in SeqOf(Pieces, 3)}
                \cup {NestedInput, CommentedInput, WideInput, NulInput}

\* The sets of the grammar, and for the layout and a path alone any set.
ParserSets == ExternalScannerStates \cup SUBSET Layout \cup {{"PATH"}}
=============================================================================
