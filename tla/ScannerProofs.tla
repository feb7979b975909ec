---------------------------- MODULE ScannerProofs ----------------------------
(***************************************************************************)
(* The scanner's state is well typed and its blocks nest for every source, *)
(* every set of valid symbols and every way the parser saves and returns.  *)
(* The stack alone is not inductive: Restore takes it from the serialized  *)
(* copy, so the invariant says of the copy what it says of the stack.      *)
(*                                                                         *)
(* The C scanner's array is a stack whatever it has allocated, and the two *)
(* scanners side by side change nothing about the Go scanner.  Every call  *)
(* of the parser ends in both with the same token, place and blocks: the   *)
(* loops of a C call are followed turn by turn beside the Go scanner's.    *)
(***************************************************************************)
EXTENDS ScannerParity, SequenceTheorems, Induction

Stacks == {s \in Seq(0 .. WordRange - 1) : Len(s) >= 1 /\ s[1] = 0}

\* A saved state that lost nothing is a nest of as many blocks as the parser
\* had open.
SavedNests ==
  ~saved.lossy => /\ Nests(Deserialized(saved.bytes))
                  /\ Len(Deserialized(saved.bytes)) = saved.opened + 1

Places == 1 .. Len(input) + 1

\* The call of Scan in progress.
PlaceOK ==
  /\ pos \in Places
  /\ pc \in ScanPoints \cup {"idle"}
  /\ scan \in Locals
  /\ scan.start \in Places
  /\ scan.mark \in Places
  /\ token \in Symbols \cup {NoToken}

\* The scanner's state and the parser's copy of it.
StateOK ==
  /\ indents \in Stacks
  /\ opened \in Int
  /\ lossy \in BOOLEAN
  /\ BlocksNest
  /\ BlocksAreTheParsers
  /\ saved \in [pos : Places, bytes : Seq(0 .. ByteRange - 1),
                opened : Int, lossy : BOOLEAN]
  /\ SavedNests

IInv == input \in Seq(Chars) /\ PlaceOK /\ StateOK

-----------------------------------------------------------------------------
\* The ranges of the representation, as numbers the provers see.
LEMMA Ranges == ByteRange = 256 /\ WordRange = 65536 /\ TabWidth = 8
  BY DEF ByteRange, WordRange, TabWidth

LEMMA ByteOf ==
  ASSUME NEW x \in Nat
  PROVE  /\ x % ByteRange \in 0 .. ByteRange - 1
         /\ x < ByteRange => x % ByteRange = x
<1>1. x % 256 \in 0 .. 255 /\ (x < 256 => x % 256 = x)
  OBVIOUS
<1> QED
  BY <1>1 DEF ByteRange

LEMMA WordOf ==
  ASSUME NEW x \in Nat
  PROVE  /\ x % WordRange \in 0 .. WordRange - 1
         /\ x < WordRange => x % WordRange = x
<1>1. x % 65536 \in 0 .. 65535 /\ (x < 65536 => x % 65536 = x)
  OBVIOUS
<1> QED
  BY <1>1 DEF WordRange

LEMMA StackFacts ==
  ASSUME NEW s \in Stacks
  PROVE  /\ s \in Seq(0 .. WordRange - 1)
         /\ Len(s) \in Nat /\ Len(s) >= 1
         /\ \A i \in 1 .. Len(s) : s[i] \in 0 .. WordRange - 1 /\ s[i] \in Nat
         /\ s[1] = 0
<1>1. s \in Seq(0 .. WordRange - 1) /\ Len(s) >= 1 /\ s[1] = 0
  BY DEF Stacks
<1>2. Len(s) \in Nat
  BY <1>1
<1>3. \A i \in 1 .. Len(s) : s[i] \in 0 .. WordRange - 1
  BY <1>1, ElementOfSeq
<1>4. \A x \in 0 .. WordRange - 1 : x \in Nat
  BY Ranges
<1> QED
  BY <1>1, <1>2, <1>3, <1>4

\* A function on an initial segment is a sequence over its values.
LEMMA SegmentIsSequence ==
  ASSUME NEW k \in Nat, NEW S, NEW f, f \in [1 .. k -> S]
  PROVE  f \in Seq(S) /\ Len(f) = k
  OBVIOUS

\* What Serialize writes is bytes, no more than the buffer holds.
LEMMA SerializedBytes ==
  ASSUME NEW s \in Stacks
  PROVE  Serialized(s) \in Seq(0 .. ByteRange - 1)
<1> DEFINE n == Len(s) - 1
           k == IF n > BufferSize THEN BufferSize ELSE n
           f == [i \in 1 .. k |-> s[i + 1] % ByteRange]
<1>1. k \in Nat /\ k <= n /\ n + 1 = Len(s)
  BY BufferSizeAssumption, StackFacts
<1>2. ASSUME NEW i \in 1 .. k
      PROVE  s[i + 1] % ByteRange \in 0 .. ByteRange - 1
  <2>1. i + 1 \in 1 .. Len(s)
    BY <1>1, StackFacts
  <2>2. s[i + 1] \in Nat
    BY <2>1, StackFacts
  <2> QED
    BY <2>2, ByteOf
<1>3. f \in [1 .. k -> 0 .. ByteRange - 1]
  BY <1>2
<1>4. Serialized(s) = f
  BY DEF Serialized
<1> HIDE DEF f, k
<1> QED
  BY <1>1, <1>3, <1>4, SegmentIsSequence

\* What Deserialize builds is a stack whose first block is the file's.
LEMMA DeserializedStack ==
  ASSUME NEW bytes \in Seq(0 .. ByteRange - 1)
  PROVE  /\ Deserialized(bytes) \in Stacks
         /\ Len(Deserialized(bytes)) = Len(bytes) + 1
<1>1. \A x \in 0 .. ByteRange - 1 : x \in 0 .. WordRange - 1
  BY Ranges
<1>2. bytes \in Seq(0 .. WordRange - 1)
  BY <1>1, SeqMonotonic
<1>3. <<0>> \in Seq(0 .. WordRange - 1)
  BY Ranges
<1>4. <<0>> \o bytes \in Seq(0 .. WordRange - 1)
  BY <1>2, <1>3
<1>5. Len(<<0>> \o bytes) = Len(bytes) + 1 /\ (<<0>> \o bytes)[1] = 0
  BY <1>2
<1>6. Len(<<0>> \o bytes) >= 1
  BY <1>2, <1>5
<1> QED
  BY <1>4, <1>5, <1>6 DEF Deserialized, Stacks

\* Serialization loses nothing of a stack that fits.
LEMMA RoundTripOfFitting ==
  ASSUME NEW s \in Stacks, Fits(s)
  PROVE  Deserialized(Serialized(s)) = s
<1> DEFINE n == Len(s) - 1
           t == [i \in 1 .. n |-> s[i + 1]]
<1>1. n \in Nat /\ n <= BufferSize /\ Len(s) = n + 1
  BY StackFacts DEF Fits
<1>2. Serialized(s) = [i \in 1 .. n |-> s[i + 1] % ByteRange]
  <2>1. ~(n > BufferSize)
    BY <1>1, BufferSizeAssumption
  <2> QED
    BY <2>1 DEF Serialized
<1>3. ASSUME NEW i \in 1 .. n
      PROVE  s[i + 1] % ByteRange = s[i + 1]
  <2>1. i + 1 \in 1 .. Len(s)
    BY <1>1
  <2>2. s[i + 1] \in Nat /\ s[i + 1] < ByteRange
    BY <2>1, StackFacts DEF Fits
  <2> QED
    BY <2>2, ByteOf
<1>4. Serialized(s) = t
  BY <1>2, <1>3
<1>5. s \in Seq(0 .. WordRange - 1) /\ s[1] = 0
  BY StackFacts
<1>6. t \in [1 .. n -> 0 .. WordRange - 1]
  BY <1>1, StackFacts
<1>7. t \in Seq(0 .. WordRange - 1) /\ Len(t) = n /\ DOMAIN t = 1 .. n
  BY <1>1, <1>6, SegmentIsSequence
<1>8. /\ <<0>> \o t \in Seq(0 .. WordRange - 1)
      /\ Len(<<0>> \o t) = n + 1
      /\ (<<0>> \o t)[1] = 0
      /\ \A i \in 1 .. n : (<<0>> \o t)[i + 1] = t[i]
  <2>1. <<0>> \in Seq(0 .. WordRange - 1) /\ Len(<<0>>) = 1 /\ <<0>>[1] = 0
    BY Ranges
  <2> HIDE DEF t
  <2>2. /\ <<0>> \o t \in Seq(0 .. WordRange - 1)
        /\ Len(<<0>> \o t) = 1 + n
        /\ \A i \in 1 .. 1 + n : (<<0>> \o t)[i] =
                                    IF i <= 1 THEN <<0>>[i] ELSE t[i - 1]
    BY <1>7, <2>1, ConcatProperties
  <2>3. 1 + n = n + 1 /\ 1 \in 1 .. 1 + n
    BY <1>1
  <2>4. ASSUME NEW i \in 1 .. n
        PROVE  i + 1 \in 1 .. 1 + n /\ ~(i + 1 <= 1) /\ (i + 1) - 1 = i
    BY <1>1
  <2> QED
    BY <2>1, <2>2, <2>3, <2>4
<1>9. ASSUME NEW i \in 1 .. n + 1
      PROVE  (<<0>> \o t)[i] = s[i]
  <2>1. CASE i = 1
    BY <2>1, <1>5, <1>8
  <2>2. CASE i # 1
    <3>1. i - 1 \in 1 .. n /\ (i - 1) + 1 = i
      BY <2>2, <1>1
    <3>2. (<<0>> \o t)[(i - 1) + 1] = t[i - 1]
      BY <3>1, <1>8
    <3> QED
      BY <3>1, <3>2
  <2> QED
    BY <2>1, <2>2
<1>10. <<0>> \o t = s
  <2> HIDE DEF t
  <2> QED
    BY <1>1, <1>5, <1>8, <1>9, SeqEqual
<1> QED
  BY <1>4, <1>10 DEF Deserialized

LEMMA PushNests ==
  ASSUME NEW s \in Stacks, Nests(s), NEW c \in 0 .. WordRange - 1, c > Top(s)
  PROVE  Nests(Append(s, c))
<1> DEFINE t == Append(s, c)
<1>1. Len(t) = Len(s) + 1 /\ t[Len(s) + 1] = c
  BY StackFacts
<1>2. \A i \in 1 .. Len(s) : t[i] = s[i]
  BY StackFacts
<1> HIDE DEF t
<1>3. t[1] = 0
  BY <1>2, StackFacts
<1>4. ASSUME NEW i \in 1 .. Len(t) - 1
      PROVE  t[i] < t[i + 1]
  <2>1. CASE i = Len(s)
    BY <2>1, <1>1, <1>2, StackFacts DEF Top
  <2>2. CASE i # Len(s)
    <3>1. i \in 1 .. Len(s) - 1 /\ i \in 1 .. Len(s) /\ i + 1 \in 1 .. Len(s)
      BY <2>2, <1>1, StackFacts
    <3> QED
      BY <3>1, <1>2 DEF Nests
  <2> QED
    BY <2>1, <2>2
<1>5. Nests(t)
  BY <1>3, <1>4 DEF Nests
<1> QED
  BY <1>5 DEF t

LEMMA PopNests ==
  ASSUME NEW s \in Stacks, Len(s) >= 2
  PROVE  LET t == SubSeq(s, 1, Len(s) - 1)
         IN  t \in Stacks /\ Len(t) = Len(s) - 1 /\ (Nests(s) => Nests(t))
<1> DEFINE t == SubSeq(s, 1, Len(s) - 1)
<1>1. t \in Seq(0 .. WordRange - 1) /\ Len(t) = Len(s) - 1
  BY StackFacts
<1>2. \A i \in 1 .. Len(s) - 1 : t[i] = s[i]
  BY StackFacts
<1> HIDE DEF t
<1>3. t[1] = 0 /\ Len(t) >= 1
  BY <1>1, <1>2, StackFacts
<1>4. ASSUME Nests(s) PROVE Nests(t)
  <2>1. ASSUME NEW i \in 1 .. Len(t) - 1
        PROVE  t[i] < t[i + 1]
    <3>1. i \in 1 .. Len(s) - 1 /\ i + 1 \in 1 .. Len(s) - 1
      BY <1>1, StackFacts
    <3>2. s[i] < s[i + 1]
      BY <1>4, <3>1 DEF Nests
    <3> QED
      BY <1>2, <3>1, <3>2
  <2> QED
    BY <1>3, <2>1 DEF Nests
<1>5. t \in Stacks
  BY <1>1, <1>3 DEF Stacks
<1> QED
  BY <1>1, <1>4, <1>5 DEF t

-----------------------------------------------------------------------------
LEMMA InitInvariant == Init => IInv
<1> SUFFICES ASSUME Init PROVE IInv
  OBVIOUS
<1>1. input \in Seq(Chars)
  BY InputsAssumption DEF Init
<1>2. <<>> \in Seq(0 .. ByteRange - 1) /\ Len(<<>>) = 0
  BY EmptySeq
<1>3. Deserialized(<<>>) = <<0>>
  BY DEF Deserialized
<1>4. Nests(<<0>>)
  BY DEF Nests
<1>5. Idle \in Locals
  BY DEF Idle, Locals
<1>6. <<0>> \in Stacks /\ Len(<<0>>) = 1
  BY Ranges DEF Stacks
<1>7. Len(input) \in Nat /\ 1 \in Places
  BY <1>1 DEF Places
<1>8. PlaceOK
  BY <1>5, <1>7 DEF Init, Idle, PlaceOK
<1>9. saved \in [pos : Places, bytes : Seq(0 .. ByteRange - 1),
                 opened : Int, lossy : BOOLEAN]
  BY <1>2, <1>7 DEF Init
<1>10. BlocksNest /\ BlocksAreTheParsers /\ SavedNests
  BY <1>3, <1>4, <1>6 DEF Init, BlocksNest, BlocksAreTheParsers, SavedNests
<1>11. StateOK
  BY <1>6, <1>9, <1>10 DEF Init, StateOK
<1> QED
  BY <1>1, <1>8, <1>11 DEF IInv

LEMMA InvariantImplies ==
  IInv => TypeOK /\ BlocksNest /\ BlocksAreTheParsers
<1> SUFFICES ASSUME IInv PROVE TypeOK
  BY DEF IInv, StateOK
<1>1. indents \in Seq(0 .. WordRange - 1) /\ Len(indents) >= 1
  BY DEF IInv, StateOK, Stacks
<1> QED
  BY <1>1 DEF IInv, PlaceOK, StateOK, TypeOK, Places

-----------------------------------------------------------------------------
(***************************************************************************)
(* The ways a turn of Scan ends.                                           *)
(***************************************************************************)
LEMMA StateStutters ==
  ASSUME StateOK, UNCHANGED <<state, parser>>
  PROVE  StateOK'
  BY DEF StateOK, state, parser, BlocksNest, BlocksAreTheParsers, SavedNests,
         Places

LEMMA AdvancedPlace ==
  ASSUME IInv
  PROVE  Advanced \in Places
  BY DEF IInv, PlaceOK, Places, Advanced

LEMMA FailKeeps ==
  ASSUME IInv, Fail
  PROVE  IInv'
<1>1. Idle \in Locals /\ Idle.start = 1 /\ Idle.mark = 1
  BY DEF Idle, Locals
<1>2. input' = input /\ UNCHANGED <<state, parser>>
  BY DEF Fail, parser
<1>3. 1 \in Places /\ Places' = Places
  BY <1>2 DEF Places, IInv
<1>4. PlaceOK'
  BY <1>1, <1>3 DEF Fail, PlaceOK, IInv
<1> QED
  BY <1>2, <1>4, StateStutters DEF IInv

LEMMA EmitPlaces ==
  ASSUME IInv, NEW t \in Symbols, NEW end \in Places, Emit(t, end)
  PROVE  PlaceOK' /\ input' = input /\ saved' = saved
<1>1. Idle \in Locals /\ Idle.start = 1 /\ Idle.mark = 1
  BY DEF Idle, Locals
<1>2. input' = input /\ saved' = saved
  BY DEF Emit, parser
<1>3. 1 \in Places /\ Places' = Places
  BY <1>2 DEF Places, IInv
<1>4. PlaceOK'
  BY <1>1, <1>3 DEF Emit, PlaceOK
<1> QED
  BY <1>2, <1>4

LEMMA EmitKeeps ==
  ASSUME IInv, NEW t \in Symbols, NEW end \in Places, Emit(t, end),
         UNCHANGED state
  PROVE  IInv'
<1>1. PlaceOK' /\ input' = input /\ saved' = saved
  BY EmitPlaces
<1> QED
  BY <1>1, StateStutters DEF IInv, parser

\* The locals Scan may change in the middle of a call.
LocalsOK(s) == s \in Locals /\ s.start \in Places /\ s.mark \in Places

LEMMA TurnKeeps ==
  ASSUME IInv, LocalsOK(scan)', pos' \in Places, pc' \in ScanPoints,
         UNCHANGED <<token, state, parser>>
  PROVE  IInv'
<1>1. input' = input /\ Places' = Places
  BY DEF parser, Places
<1>2. PlaceOK'
  BY <1>1 DEF PlaceOK, IInv, LocalsOK
<1> QED
  BY <1>1, <1>2, StateStutters DEF IInv

LEMMA ReadKeeps ==
  ASSUME IInv, NEW next \in ScanPoints, Read(next), LocalsOK(scan)'
  PROVE  IInv'
  BY AdvancedPlace, TurnKeeps DEF Read

-----------------------------------------------------------------------------
(***************************************************************************)
(* Every turn keeps the invariant; only Indent and Dedent touch the stack. *)
(***************************************************************************)
LEMMA ScanFacts ==
  ASSUME IInv
  PROVE  /\ LocalsOK(scan)
         /\ scan.indent \in Nat
         /\ pos \in Places
  BY DEF IInv, PlaceOK, LocalsOK, Locals

LEMMA SpaceKeeps ==
  ASSUME IInv, Blank \/ Hash \/ EndOfSource \/ EndOfSpace
  PROVE  IInv'
<1>0. input' = input /\ Places' = Places
  BY DEF Blank, Hash, EndOfSource, EndOfSpace, Read, parser, Places
<1>1. CASE Blank
  <2>1. LocalsOK(scan')
    <3>1. CASE scan' = [scan EXCEPT !.foundEOL = TRUE, !.indent = 0]
      BY <3>1, ScanFacts DEF LocalsOK, Locals
    <3>2. CASE scan' = [scan EXCEPT !.indent = @ + 1]
      BY <3>2, ScanFacts DEF LocalsOK, Locals
    <3>3. CASE scan' = [scan EXCEPT !.indent = 0]
      BY <3>3, ScanFacts DEF LocalsOK, Locals
    <3>4. CASE scan' = [scan EXCEPT !.indent = @ + 8]
      BY <3>4, ScanFacts DEF LocalsOK, Locals
    <3> QED
      BY <1>1, <3>1, <3>2, <3>3, <3>4 DEF Blank, TabWidth
  <2>2. LocalsOK(scan)'
    BY <1>0, <2>1 DEF LocalsOK
  <2> QED
    BY <1>1, <2>2, ReadKeeps DEF Blank, ScanPoints
<1>2. CASE Hash
  <2>1. LocalsOK(scan)'
    BY <1>0, <1>2, ScanFacts DEF Hash, LocalsOK
  <2> QED
    BY <1>2, <2>1, ReadKeeps DEF Hash, ScanPoints
<1>3. CASE EndOfSource
  <2>1. LocalsOK(scan')
    BY <1>3, ScanFacts DEF EndOfSource, LocalsOK, Locals
  <2>2. LocalsOK(scan)'
    BY <1>0, <2>1 DEF LocalsOK
  <2> QED
    BY <1>3, <2>2, ScanFacts, TurnKeeps DEF EndOfSource, ScanPoints
<1>4. CASE EndOfSpace
  <2>1. LocalsOK(scan)'
    BY <1>0, <1>4, ScanFacts DEF EndOfSpace, LocalsOK
  <2> QED
    BY <1>4, <2>1, ScanFacts, TurnKeeps DEF EndOfSpace, ScanPoints
<1> QED
  BY <1>1, <1>2, <1>3, <1>4

LEMMA HashedKeeps ==
  ASSUME IInv, Hashed
  PROVE  IInv'
<1>1. CASE Fail
  BY <1>1, FailKeeps
<1>2. CASE /\ pc' = "digits"
           /\ UNCHANGED <<pos, scan, token, state, parser>>
  <2>1. LocalsOK(scan)'
    BY <1>2, ScanFacts DEF LocalsOK, parser, Places
  <2> QED
    BY <1>2, <2>1, ScanFacts, TurnKeeps DEF ScanPoints
<1>3. CASE /\ scan' = [scan EXCEPT !.firstComment =
                         IF @ < 0 THEN scan.indent ELSE @]
           /\ pc' = "comment"
           /\ UNCHANGED <<pos, token, state, parser>>
  <2>1. LocalsOK(scan')
    BY <1>3, ScanFacts DEF LocalsOK, Locals
  <2>2. LocalsOK(scan)'
    BY <1>3, <2>1 DEF LocalsOK, parser, Places
  <2> QED
    BY <1>3, <2>2, ScanFacts, TurnKeeps DEF ScanPoints
<1> QED
  BY <1>1, <1>2, <1>3 DEF Hashed

LEMMA WordsKeep ==
  ASSUME IInv, Digits \/ Comment \/ Path \/ Word \/ Component \/ Name
  PROVE  IInv'
<1>1. ASSUME NEW next \in ScanPoints, Read(next), UNCHANGED scan
      PROVE  IInv'
  <2>1. LocalsOK(scan)'
    BY <1>1, ScanFacts DEF LocalsOK, Read, parser, Places
  <2> QED
    BY <1>1, <2>1, ReadKeeps
<1>2. CASE Digits
  BY <1>1, <1>2, ScanFacts, EmitKeeps DEF Digits, ScanPoints, Symbols
<1>3. CASE Comment
  <2>1. CASE Read("comment") /\ UNCHANGED scan
    BY <1>1, <2>1 DEF ScanPoints
  <2>2. CASE Read("space") /\ scan' = [scan EXCEPT !.indent = 0]
    <3>1. LocalsOK(scan')
      BY <2>2, ScanFacts DEF LocalsOK, Locals
    <3>2. LocalsOK(scan)'
      BY <2>2, <3>1 DEF LocalsOK, Read, parser, Places
    <3> QED
      BY <2>2, <3>2, ReadKeeps DEF ScanPoints
  <2> QED
    BY <1>3, <2>1, <2>2 DEF Comment
<1>4. CASE Path
  BY <1>1, <1>4, FailKeeps DEF Path, ScanPoints
<1>5. CASE Word
  <2>1. CASE Read("word") /\ UNCHANGED scan
    BY <1>1, <2>1 DEF ScanPoints
  <2>2. CASE scan' = [scan EXCEPT !.mark = pos] /\ Read("component")
    <3>1. LocalsOK(scan')
      BY <2>2, ScanFacts DEF LocalsOK, Locals, Places
    <3>2. LocalsOK(scan)'
      BY <2>2, <3>1 DEF LocalsOK, Read, parser, Places
    <3> QED
      BY <2>2, <3>2, ReadKeeps DEF ScanPoints
  <2>3. CASE Fail
    BY <2>3, FailKeeps
  <2> QED
    BY <1>5, <2>1, <2>2, <2>3 DEF Word
<1>6. CASE Component
  BY <1>1, <1>6, ScanFacts, EmitKeeps DEF Component, ScanPoints, Symbols, LocalsOK
<1>7. CASE Name
  BY <1>1, <1>7, ScanFacts, EmitKeeps, FailKeeps DEF Name, ScanPoints, Symbols
<1> QED
  BY <1>2, <1>3, <1>4, <1>5, <1>6, <1>7

\* INDENT pushes a column to the right of the top, so the blocks still nest and
\* are one more; a column that wraps makes the state lossy instead.
LEMMA IndentKeeps ==
  ASSUME IInv, Indent
  PROVE  IInv'
<1> DEFINE c == scan.indent % WordRange
           new == Append(indents, c)
<1>1. scan.mark \in Places /\ scan.indent \in Nat
  BY ScanFacts DEF LocalsOK
<1>2. PlaceOK' /\ input' = input /\ saved' = saved
  BY <1>1, EmitPlaces DEF Indent, Symbols, Layout
<1>3. c \in 0 .. WordRange - 1 /\ (scan.indent < WordRange => c = scan.indent)
  BY <1>1, WordOf
<1>4. indents \in Stacks /\ opened \in Int
  BY DEF IInv, StateOK
<1>5. indents' = new
  BY DEF Indent
<1>6. new \in Stacks /\ Len(new) = Len(indents) + 1
  <2>1. new \in Seq(0 .. WordRange - 1)
    BY <1>3, <1>4, StackFacts
  <2>2. Len(new) = Len(indents) + 1 /\ new[1] = indents[1]
    BY <1>4, StackFacts
  <2>3. Len(new) >= 1 /\ new[1] = 0
    BY <1>4, <2>2, StackFacts
  <2> HIDE DEF new, c
  <2> QED
    BY <2>1, <2>2, <2>3 DEF Stacks
<1> HIDE DEF new, c
<1>7. lossy' \in BOOLEAN /\ (~lossy' => ~lossy /\ ~(scan.indent >= WordRange))
  BY DEF Indent
<1>8. opened' = IF lossy' THEN 0 ELSE opened + 1
  BY DEF Indent
<1>9. opened' \in Int
  BY <1>4, <1>8
<1>10. ASSUME ~lossy' PROVE Nests(new) /\ Len(new) = opened' + 1
  <2>1. ~lossy /\ Nests(indents) /\ Len(indents) = opened + 1
    BY <1>7, <1>10 DEF IInv, StateOK, BlocksNest, BlocksAreTheParsers
  <2>2. scan.indent < WordRange
    BY <1>1, <1>7, <1>10, Ranges
  <2>3. c > Top(indents)
    BY <1>3, <2>2 DEF Indent, Opens
  <2>4. Nests(new)
    BY <1>3, <1>4, <2>1, <2>3, PushNests DEF new
  <2>5. opened' = opened + 1
    BY <1>8, <1>10
  <2> QED
    BY <1>4, <1>6, <2>1, <2>4, <2>5
<1>11. BlocksNest' /\ BlocksAreTheParsers'
  BY <1>5, <1>10 DEF BlocksNest, BlocksAreTheParsers
<1>12. SavedNests' /\ saved' \in [pos : Places', bytes : Seq(0 .. ByteRange - 1),
                                  opened : Int, lossy : BOOLEAN]
  BY <1>2 DEF IInv, StateOK, SavedNests, Places
<1>13. StateOK'
  BY <1>5, <1>6, <1>7, <1>9, <1>11, <1>12 DEF StateOK
<1> QED
  BY <1>2, <1>13 DEF IInv

\* DEDENT closes a block to the right of the present column, so not the file's.
LEMMA DedentKeeps ==
  ASSUME IInv, Dedent
  PROVE  IInv'
<1> DEFINE new == SubSeq(indents, 1, Len(indents) - 1)
<1>1. scan.mark \in Places /\ scan.indent \in Nat
  BY ScanFacts DEF LocalsOK
<1>2. PlaceOK' /\ input' = input /\ saved' = saved
  BY <1>1, EmitPlaces DEF Dedent, Symbols, Layout
<1>3. indents \in Stacks /\ opened \in Int /\ lossy \in BOOLEAN
  BY DEF IInv, StateOK
<1>4. Len(indents) >= 2
  <2>1. scan.indent < indents[Len(indents)]
    BY DEF Dedent, Closes, Top
  <2>2. ASSUME Len(indents) = 1 PROVE FALSE
    <3>1. indents[Len(indents)] = 0
      BY <1>3, <2>2, StackFacts
    <3> QED
      BY <1>1, <2>1, <3>1
  <2>3. Len(indents) \in Nat /\ Len(indents) >= 1
    BY <1>3, StackFacts
  <2> QED
    BY <2>2, <2>3
<1>5. indents' = new /\ lossy' = lossy
  BY DEF Dedent
<1>6. /\ new \in Stacks
      /\ Len(new) = Len(indents) - 1
      /\ Nests(indents) => Nests(new)
  BY <1>3, <1>4, PopNests
<1> HIDE DEF new
<1>7. opened' = IF lossy THEN 0 ELSE opened - 1
  BY DEF Dedent
<1>8. opened' \in Int
  BY <1>3, <1>7
<1>9. ASSUME ~lossy PROVE Nests(new) /\ Len(new) = opened' + 1
  <2>1. Nests(indents) /\ Len(indents) = opened + 1
    BY <1>9 DEF IInv, StateOK, BlocksNest, BlocksAreTheParsers
  <2>2. opened' = opened - 1
    BY <1>7, <1>9
  <2> QED
    BY <1>3, <1>6, <2>1, <2>2
<1>10. BlocksNest' /\ BlocksAreTheParsers'
  BY <1>5, <1>9 DEF BlocksNest, BlocksAreTheParsers
<1>11. SavedNests' /\ saved' \in [pos : Places', bytes : Seq(0 .. ByteRange - 1),
                                  opened : Int, lossy : BOOLEAN]
  BY <1>2 DEF IInv, StateOK, SavedNests, Places
<1>12. StateOK'
  BY <1>3, <1>5, <1>6, <1>8, <1>10, <1>11 DEF StateOK
<1> QED
  BY <1>2, <1>12 DEF IInv

LEMMA NewlineKeeps ==
  ASSUME IInv, Newline
  PROVE  IInv'
<1>1. CASE Emit("NEWLINE", scan.mark) /\ UNCHANGED state
  BY <1>1, ScanFacts, EmitKeeps DEF LocalsOK, Symbols, Layout
<1>2. CASE pc' = "path" /\ UNCHANGED <<pos, scan, token, state, parser>>
  <2>1. LocalsOK(scan)'
    BY <1>2, ScanFacts DEF LocalsOK, parser, Places
  <2> QED
    BY <1>2, <2>1, ScanFacts, TurnKeeps DEF ScanPoints
<1> QED
  BY <1>1, <1>2 DEF Newline

-----------------------------------------------------------------------------
(***************************************************************************)
(* The parser's steps.                                                     *)
(***************************************************************************)
LEMMA BeginKeeps ==
  ASSUME IInv, NEW v \in ValidSets, Begin(v)
  PROVE  IInv'
<1>1. v \in SUBSET Symbols
  BY ValidSetsAssumption
<1>2. pos \in Nat /\ pos \in Places
  BY DEF IInv, PlaceOK, Places
<1>3. LocalsOK(scan')
  <2>1. scan' = [start |-> pos, mark |-> pos, valid |-> v, foundEOL |-> FALSE,
                 indent |-> 0, firstComment |-> -1]
    BY DEF Begin, Idle
  <2> QED
    BY <1>1, <1>2, <2>1 DEF LocalsOK, Locals
<1>4. LocalsOK(scan)'
  BY <1>3 DEF LocalsOK, Begin, parser, Places
<1> QED
  BY <1>2, <1>4, TurnKeeps DEF Begin, ScanPoints

LEMMA LexKeeps ==
  ASSUME IInv, LexInternally
  PROVE  IInv'
<1>1. input' = input /\ Places' = Places /\ UNCHANGED <<state, parser>>
  BY DEF LexInternally, parser, Places
<1>2. pos' \in Places
  BY DEF LexInternally, IInv, PlaceOK, Places
<1>3. PlaceOK'
  BY <1>1, <1>2 DEF LexInternally, IInv, PlaceOK
<1> QED
  BY <1>1, <1>3, StateStutters DEF IInv

\* What is saved as lossless fits, so it comes back as it was.
LEMMA SaveKeeps ==
  ASSUME IInv, Save
  PROVE  IInv'
<1> DEFINE bytes == Serialized(indents)
<1>1. input' = input /\ Places' = Places /\ UNCHANGED state
  BY DEF Save, state, Places
<1>2. indents \in Stacks /\ opened \in Int /\ lossy \in BOOLEAN
  BY DEF IInv, StateOK
<1>3. bytes \in Seq(0 .. ByteRange - 1)
  BY <1>2, SerializedBytes
<1>4. ASSUME ~(lossy \/ ~Fits(indents))
      PROVE  /\ Nests(Deserialized(bytes))
             /\ Len(Deserialized(bytes)) = opened + 1
  <2>1. Deserialized(bytes) = indents
    BY <1>2, <1>4, RoundTripOfFitting
  <2>2. Nests(indents) /\ Len(indents) = opened + 1
    BY <1>4 DEF IInv, StateOK, BlocksNest, BlocksAreTheParsers
  <2> QED
    BY <2>1, <2>2
<1> HIDE DEF bytes
<1>5. saved' = [pos |-> pos, bytes |-> bytes,
                opened |-> IF Fits(indents) THEN opened ELSE 0,
                lossy |-> lossy \/ ~Fits(indents)]
  BY DEF Save, bytes
<1>6. pos \in Places
  BY ScanFacts
<1>7. (lossy \/ ~Fits(indents)) \in BOOLEAN
  OBVIOUS
<1>8. saved' \in [pos : Places, bytes : Seq(0 .. ByteRange - 1),
                  opened : Int, lossy : BOOLEAN]
  BY <1>2, <1>3, <1>5, <1>6, <1>7
<1>9. SavedNests'
  <2>1. saved'.bytes = bytes /\ saved'.lossy = (lossy \/ ~Fits(indents))
    BY <1>5
  <2>2. Fits(indents) => saved'.opened = opened
    BY <1>5
  <2> QED
    BY <1>4, <2>1, <2>2 DEF SavedNests
<1>10. StateOK'
  BY <1>1, <1>8, <1>9
  DEF IInv, StateOK, state, BlocksNest, BlocksAreTheParsers
<1>11. PlaceOK'
  BY <1>1 DEF Save, IInv, PlaceOK
<1> QED
  BY <1>1, <1>10, <1>11 DEF IInv

LEMMA RestoreKeeps ==
  ASSUME IInv, Restore
  PROVE  IInv'
<1>1. input' = input /\ saved' = saved /\ Places' = Places
  BY DEF Restore, parser, Places
<1>2. /\ saved \in [pos : Places, bytes : Seq(0 .. ByteRange - 1),
                     opened : Int, lossy : BOOLEAN]
      /\ SavedNests
  BY DEF IInv, StateOK
<1>3. /\ indents' = Deserialized(saved.bytes)
      /\ opened' = saved.opened
      /\ lossy' = saved.lossy
      /\ pos' = saved.pos
  BY DEF Restore
<1>4. indents' \in Stacks
  BY <1>2, <1>3, DeserializedStack
<1>5. BlocksNest' /\ BlocksAreTheParsers'
  BY <1>2, <1>3 DEF SavedNests, BlocksNest, BlocksAreTheParsers
<1>6. SavedNests'
  BY <1>1, <1>2 DEF SavedNests
<1>7. opened' \in Int /\ lossy' \in BOOLEAN /\ pos' \in Places
  BY <1>2, <1>3
<1>8. StateOK'
  BY <1>1, <1>2, <1>4, <1>5, <1>6, <1>7 DEF StateOK
<1>9. PlaceOK'
  BY <1>1, <1>7 DEF Restore, IInv, PlaceOK
<1> QED
  BY <1>1, <1>8, <1>9 DEF IInv

LEMMA StutterKeeps ==
  ASSUME IInv, UNCHANGED vars
  PROVE  IInv'
<1>1. UNCHANGED <<state, parser>> /\ input' = input /\ Places' = Places
  BY DEF vars, state, parser, Places
<1>2. PlaceOK'
  BY <1>1 DEF IInv, PlaceOK, vars
<1> QED
  BY <1>1, <1>2, StateStutters DEF IInv

LEMMA NextInvariant == IInv /\ [Next]_vars => IInv'
<1> SUFFICES ASSUME IInv, [Next]_vars PROVE IInv'
  OBVIOUS
<1>1. ASSUME NEW v \in ValidSets, Begin(v) PROVE IInv'
  BY <1>1, BeginKeeps
<1>2. CASE ScanStep
  BY <1>2, FailKeeps, SpaceKeeps, HashedKeeps, WordsKeep, IndentKeeps,
     DedentKeeps, NewlineKeeps DEF ScanStep, Refuse
<1>3. CASE LexInternally
  BY <1>3, LexKeeps
<1>4. CASE Save
  BY <1>4, SaveKeeps
<1>5. CASE Restore
  BY <1>5, RestoreKeeps
<1>6. CASE UNCHANGED vars
  BY <1>6, StutterKeeps
<1> QED
  BY <1>1, <1>2, <1>3, <1>4, <1>5, <1>6 DEF Next

-----------------------------------------------------------------------------
\* Between and inside calls of Scan the scanner's state is well typed; the stack
\* is never empty, so Top is defined whenever Scan asks for it.
THEOREM TypeCorrectness == Spec => []TypeOK
  BY InitInvariant, NextInvariant, InvariantImplies, PTL DEF Spec

\* The open blocks nest, through any saving and returning of the parser, unless
\* a column did not fit its representation.
THEOREM Nesting == Spec => []BlocksNest
  BY InitInvariant, NextInvariant, InvariantImplies, PTL DEF Spec

\* The stack follows the INDENT and DEDENT tokens of the branch being parsed.
THEOREM BlockAccounting == Spec => []BlocksAreTheParsers
  BY InitInvariant, NextInvariant, InvariantImplies, PTL DEF Spec

-----------------------------------------------------------------------------
(***************************************************************************)
(* After an INDENT no INDENT and no DEDENT.  The next call starts at the   *)
(* place of the last one, so it comes to the same column if it reads the   *)
(* same comments: the column that blanks and comment lines lead to is a    *)
(* function of the source and the place.                                   *)
(***************************************************************************)
Skips == [mode : {"space", "comment", "layout"}, at : Nat \ {0}, indent : Nat]
Skip(m, p, i) == [mode |-> m, at |-> p, indent |-> i]

Seen(text, p) == IF p <= Len(text) THEN text[p] ELSE "nul"
After(text, p) == IF p <= Len(text) THEN p + 1 ELSE p

\* A turn of Scan's loop that has read a hash goes on in its comment.
SkipTurn(text, s) ==
  LET c == Seen(text, s.at)
      Go(m, i) == Skip(m, After(text, s.at), i)
  IN  CASE s.mode = "comment" ->
             IF c \in {"nul", "newline"} THEN Go("space", 0) ELSE Go("comment", s.indent)
        [] s.mode = "space" /\ c = "newline" -> Go("space", 0)
        [] s.mode = "space" /\ c = "space" -> Go("space", s.indent + 1)
        [] s.mode = "space" /\ c = "return" -> Go("space", 0)
        [] s.mode = "space" /\ c = "tab" -> Go("space", s.indent + TabWidth)
        [] s.mode = "space" /\ c = "#" -> Go("comment", s.indent)
        [] s.mode = "space" /\ c = "nul" -> Skip("layout", s.at, 0)
        [] OTHER -> Skip("layout", s.at, s.indent)

Skipped(text) ==
  LET loop[s \in Skips] == IF s.mode = "layout" THEN s.indent ELSE loop[SkipTurn(text, s)]
  IN  loop

Column(text, m, p, i) == Skipped(text)[Skip(m, p, i)]

ReadsComments == scan.valid \cap (Layout \cup {"NAT"}) # {}
ColumnHere(m) == Column(input, m, pos, scan.indent)
ColumnThere == Column(input, "space", scan.start, 0)

\* Where the call in progress is on its way to its column.
CallInv ==
  /\ pc \in {"space", "hash", "comment", "layout"} => scan.mark = scan.start
  /\ ReadsComments =>
       /\ pc = "space" => ColumnThere = ColumnHere("space")
       /\ pc \in {"hash", "comment"} => ColumnThere = ColumnHere("comment")
       /\ pc = "layout" => ColumnThere = scan.indent

\* The last INDENT opened a block at the column that lies ahead.
LastInv ==
  token = "INDENT" /\ ~lossy =>
    Column(input, "space", IF pc = "idle" THEN pos ELSE scan.start, 0) = Top(indents)

\* The loop ends: each turn reads a character, leaves a comment or is the last.
LEMMA SkipTurns ==
  ASSUME NEW text \in Seq(Chars), NEW s \in Skips
  PROVE  /\ s.mode = "layout" => Skipped(text)[s] = s.indent
         /\ s.mode # "layout" => Skipped(text)[s] = Skipped(text)[SkipTurn(text, s)]
<1> DEFINE N == Len(text)
           Loop(f) == f = [x \in Skips |-> IF x.mode = "layout" THEN x.indent
                                           ELSE f[SkipTurn(text, x)]]
           loop == CHOOSE f : Loop(f)
           left == [x \in Skips |-> IF x.at <= N THEN 2 * (N + 1 - x.at) ELSE 0]
           m == [x \in Skips |-> IF x.mode = "layout" THEN 0
                                 ELSE IF x.mode = "space" THEN left[x] + 1 ELSE left[x] + 2]
           next == [x \in Skips |-> SkipTurn(text, x)]
           out == [x \in Skips |-> x.indent]
           stop == {x \in Skips : x.mode = "layout"}
<1>1. N \in Nat /\ \A x \in Skips : x.at \in Nat \ {0} /\ x.indent \in Nat
  BY DEF Skips
<1>2. left \in [Skips -> 0 .. 2 * N]
  <2>1. ASSUME NEW x \in Skips PROVE left[x] \in 0 .. 2 * N
    BY <1>1
  <2> QED BY <2>1
<1>3. m \in [Skips -> 0 .. 2 * N + 2]
  <2>1. ASSUME NEW x \in Skips PROVE m[x] \in 0 .. 2 * N + 2
    <3>1. left[x] \in 0 .. 2 * N
      BY <1>2
    <3> HIDE DEF left
    <3> QED BY <1>1, <3>1
  <2> QED BY <2>1
<1>4. ASSUME NEW x \in Skips, x.mode # "layout"
      PROVE  SkipTurn(text, x) \in Skips /\ m[SkipTurn(text, x)] < m[x]
  <2> DEFINE t == SkipTurn(text, x)
             c == Seen(text, x.at)
             past == After(text, x.at)
  <2>1. x.at \in Nat \ {0} /\ x.indent \in Nat /\ x.mode \in {"space", "comment"}
    BY <1>4 DEF Skips
  <2>2. past \in Nat \ {0} /\ (x.at <= N => past = x.at + 1) /\ (x.at > N => past = x.at /\ c = "nul")
    BY <1>1, <2>1 DEF After, Seen
  <2>3. \/ \E i \in Nat : t = Skip("layout", x.at, i)
        \/ x.mode = "comment" /\ \E i \in Nat : t = Skip("space", past, i)
        \/ c # "nul" /\ \E i \in Nat : t = Skip("space", past, i)
        \/ c # "nul" /\ t = Skip("comment", past, x.indent)
    <3>1. x.indent + 1 \in Nat /\ x.indent + TabWidth \in Nat /\ 0 \in Nat
      BY <2>1, Ranges
    <3> HIDE DEF c, past
    <3> QED BY <2>1, <3>1 DEF SkipTurn, c, past
  <2> HIDE DEF t, c, past
  <2>4. CASE \E i \in Nat : t = Skip("layout", x.at, i)
    <3>1. t \in Skips /\ t.mode = "layout"
      BY <2>1, <2>4 DEF Skip, Skips
    <3>2. m[t] = 0
      BY <3>1
    <3>3. m[x] > 0
      <4>1. left[x] \in 0 .. 2 * N BY <1>2
      <4> HIDE DEF left
      <4> QED BY <1>1, <1>4, <4>1
    <3> QED BY <3>1, <3>2, <3>3 DEF t
  <2>5. CASE x.mode = "comment" /\ \E i \in Nat : t = Skip("space", past, i)
    <3>1. t \in Skips /\ t.mode = "space" /\ t.at = past
      BY <2>2, <2>5 DEF Skip, Skips
    <3>2. left[t] <= left[x]
      BY <1>1, <2>1, <2>2, <3>1
    <3>3. left[t] \in Nat /\ left[x] \in Nat
      BY <1>1, <1>2, <3>1
    <3> HIDE DEF left
    <3>4. m[t] = left[t] + 1 /\ m[x] = left[x] + 2
      BY <2>5, <3>1
    <3> HIDE DEF m
    <3> QED BY <3>1, <3>2, <3>3, <3>4 DEF t
  <2>6. CASE c # "nul" /\ ((\E i \in Nat : t = Skip("space", past, i))
                           \/ t = Skip("comment", past, x.indent))
    <3>1. t \in Skips /\ t.mode \in {"space", "comment"} /\ t.at = past
      BY <2>1, <2>2, <2>6 DEF Skip, Skips
    <3>2. left[t] + 2 <= left[x]
      BY <1>1, <2>1, <2>2, <2>6, <3>1
    <3>3. left[t] \in Nat /\ left[x] \in Nat
      BY <1>1, <1>2, <3>1
    <3> HIDE DEF left
    <3>4. m[t] <= left[t] + 2 /\ m[x] >= left[x] + 1
      BY <2>1, <3>1, <3>3
    <3>5. m[t] \in Nat /\ m[x] \in Nat
      BY <1>1, <1>3, <3>1
    <3> HIDE DEF m
    <3> QED BY <3>1, <3>2, <3>3, <3>4, <3>5 DEF t
  <2> QED BY <2>3, <2>4, <2>5, <2>6
<1>5. Skipped(text) = loop
  BY DEF Skipped
<1>6. \E f : Loop(f)
  <2>1. \A x \in Skips \ stop : next[x] \in Skips /\ m[next[x]] < m[x]
    <3> HIDE DEF m
    <3> QED BY <1>4
  <2>2. 2 * N + 2 \in Nat
    BY <1>1
  <2>3. \E f : IsLoop(f, Skips, stop, out, next)
    <3> HIDE DEF N, m, next, out, stop
    <3> QED BY ONLY <1>3, <2>1, <2>2, LoopExists
  <2>4. ASSUME NEW f, IsLoop(f, Skips, stop, out, next) PROVE Loop(f)
    BY <2>4 DEF IsLoop
  <2> HIDE DEF Loop, next, out, stop
  <2> QED BY <2>3, <2>4
<1>7. Loop(loop)
  <2> HIDE DEF Loop
  <2> QED BY <1>6, Zenon
<1> HIDE DEF loop
<1>8. /\ s.mode = "layout" => loop[s] = s.indent
      /\ s.mode # "layout" => loop[s] = loop[SkipTurn(text, s)]
  BY <1>7
<1> QED BY <1>5, <1>8

\* So a turn of Scan leads to the column that its locals before it led to.
LEMMA ColumnTurns ==
  ASSUME NEW text \in Seq(Chars), NEW p \in Nat \ {0}, NEW i \in Nat
  PROVE  LET c == Seen(text, p)
             past == After(text, p)
         IN  /\ c \in {"newline", "return"} =>
                  Column(text, "space", p, i) = Column(text, "space", past, 0)
             /\ c = "space" =>
                  Column(text, "space", p, i) = Column(text, "space", past, i + 1)
             /\ c = "tab" =>
                  Column(text, "space", p, i) = Column(text, "space", past, i + TabWidth)
             /\ c = "#" => Column(text, "space", p, i) = Column(text, "comment", past, i)
             /\ c = "nul" => Column(text, "space", p, i) = 0
             /\ c \notin {"newline", "space", "return", "tab", "#", "nul"} =>
                  Column(text, "space", p, i) = i
             /\ c \in {"nul", "newline"} =>
                  Column(text, "comment", p, i) = Column(text, "space", past, 0)
             /\ c \notin {"nul", "newline"} =>
                  Column(text, "comment", p, i) = Column(text, "comment", past, i)
<1> DEFINE c == Seen(text, p)
           past == After(text, p)
           s == Skip("space", p, i)
           k == Skip("comment", p, i)
<1>1. /\ s \in Skips /\ s.mode = "space" /\ s.at = p /\ s.indent = i
      /\ k \in Skips /\ k.mode = "comment" /\ k.at = p /\ k.indent = i
  BY DEF Skip, Skips
<1>2. \A j \in Nat : Column(text, "layout", p, j) = j
  <2>1. ASSUME NEW j \in Nat
        PROVE  /\ Skip("layout", p, j) \in Skips /\ Skip("layout", p, j).mode = "layout"
               /\ Skip("layout", p, j).indent = j
    BY DEF Skip, Skips
  <2> QED BY <2>1, SkipTurns DEF Column
<1> HIDE DEF s, k, c, past
<1>3. /\ Skipped(text)[s] = Skipped(text)[SkipTurn(text, s)]
      /\ Skipped(text)[k] = Skipped(text)[SkipTurn(text, k)]
  BY <1>1, SkipTurns
<1>4. /\ c \in {"newline", "return"} => SkipTurn(text, s) = Skip("space", past, 0)
      /\ c = "space" => SkipTurn(text, s) = Skip("space", past, i + 1)
      /\ c = "tab" => SkipTurn(text, s) = Skip("space", past, i + TabWidth)
      /\ c = "#" => SkipTurn(text, s) = Skip("comment", past, i)
      /\ c = "nul" => SkipTurn(text, s) = Skip("layout", p, 0)
      /\ c \notin {"newline", "space", "return", "tab", "#", "nul"} =>
           SkipTurn(text, s) = Skip("layout", p, i)
      /\ c \in {"nul", "newline"} => SkipTurn(text, k) = Skip("space", past, 0)
      /\ c \notin {"nul", "newline"} => SkipTurn(text, k) = Skip("comment", past, i)
  BY <1>1 DEF SkipTurn, c, past
<1>5. 0 \in Nat OBVIOUS
<1> QED BY <1>2, <1>3, <1>4, <1>5 DEF Column, s, k, c, past

\* A step of a call that is no end of it.
LEMMA LastIsKept ==
  ASSUME LastInv, pc # "idle", pc' # "idle", scan'.start = scan.start,
         UNCHANGED <<token, state, parser>>
  PROVE  LastInv'
  BY DEF LastInv, state, parser, Top

\* A call that returns another token, or none.
LEMMA OthersReturn ==
  ASSUME pc' = "idle", token' # "INDENT"
  PROVE  CallInv' /\ LastInv'
  BY DEF CallInv, LastInv

LEMMA PlaceFacts ==
  ASSUME IInv
  PROVE  /\ input \in Seq(Chars) /\ pos \in Nat \ {0} /\ scan.indent \in Nat
         /\ Lookahead = Seen(input, pos) /\ Advanced = After(input, pos)
         /\ scan = [start |-> scan.start, mark |-> scan.mark, valid |-> scan.valid,
                    foundEOL |-> scan.foundEOL, indent |-> scan.indent,
                    firstComment |-> scan.firstComment]
<1>1. input \in Seq(Chars) /\ pos \in 1 .. Len(input) + 1 /\ scan \in Locals
  BY DEF IInv, PlaceOK, Places
<1>2. pos \in Nat \ {0} /\ scan.indent \in Nat
  BY <1>1 DEF Locals
<1>3. Lookahead = Seen(input, pos) /\ Advanced = After(input, pos)
  BY DEF Lookahead, Advanced, Seen, After
<1>4. scan = [start |-> scan.start, mark |-> scan.mark, valid |-> scan.valid,
              foundEOL |-> scan.foundEOL, indent |-> scan.indent,
              firstComment |-> scan.firstComment]
  BY <1>1 DEF Locals
<1> QED BY <1>1, <1>2, <1>3, <1>4

\* What a turn leaves alone.
TurnOf ==
  /\ input' = input
  /\ scan'.start = scan.start /\ scan'.mark = scan.mark /\ scan'.valid = scan.valid
  /\ UNCHANGED <<token, state, parser>>

LEMMA BlankIndent ==
  ASSUME IInv, CallInv, LastInv, Blank
  PROVE  CallInv' /\ LastInv'
<1>1. pc = "space" /\ pc' = "space" /\ pos' = After(input, pos) /\ TurnOf
  BY PlaceFacts DEF Blank, InSpace, Read, TurnOf, parser
<1>2. ColumnHere("space")' = ColumnHere("space")
  <2>1. /\ Lookahead \in {"newline", "return"} => scan'.indent = 0
        /\ Lookahead = "space" => scan'.indent = scan.indent + 1
        /\ Lookahead = "tab" => scan'.indent = scan.indent + TabWidth
        /\ Lookahead \in {"newline", "return", "space", "tab"}
    BY PlaceFacts DEF Blank
  <2>2. Column(input, "space", pos, scan.indent) =
          Column(input, "space", After(input, pos), scan'.indent)
    BY <2>1, PlaceFacts, ColumnTurns
  <2> QED BY <1>1, <2>2 DEF ColumnHere, TurnOf
<1>3. CallInv'
  BY <1>1, <1>2 DEF CallInv, TurnOf, ColumnThere, ReadsComments
<1> QED BY <1>1, <1>3, LastIsKept DEF TurnOf

LEMMA HashIndent ==
  ASSUME IInv, CallInv, LastInv, Hash
  PROVE  CallInv' /\ LastInv'
<1>1. /\ pc = "space" /\ pc' = "hash" /\ pos' = After(input, pos) /\ TurnOf
      /\ scan' = scan /\ Lookahead = "#"
  BY PlaceFacts DEF Hash, InSpace, ReadsHash, Read, TurnOf, parser
<1>2. ColumnHere("comment")' = ColumnHere("space")
  <2>1. Column(input, "space", pos, scan.indent) =
          Column(input, "comment", After(input, pos), scan.indent)
    BY <1>1, PlaceFacts, ColumnTurns
  <2> QED BY <1>1, <2>1 DEF ColumnHere, TurnOf
<1>3. CallInv'
  BY <1>1, <1>2 DEF CallInv, TurnOf, ColumnThere, ReadsComments
<1> QED BY <1>1, <1>3, LastIsKept DEF TurnOf

LEMMA EndIndent ==
  ASSUME IInv, CallInv, LastInv, EndOfSource \/ EndOfSpace
  PROVE  CallInv' /\ LastInv'
<1>1. pc = "space" /\ pc' = "layout" /\ TurnOf
  BY PlaceFacts DEF EndOfSource, EndOfSpace, InSpace, TurnOf, parser
<1>2. ReadsComments => ColumnHere("space") = scan'.indent
  <2>1. CASE EndOfSource
    <3>1. Lookahead = "nul" /\ scan'.indent = 0
      BY <2>1, PlaceFacts DEF EndOfSource
    <3> QED BY <3>1, PlaceFacts, ColumnTurns DEF ColumnHere
  <2>2. CASE EndOfSpace
    <3>1. /\ scan' = scan
          /\ ReadsComments =>
               Lookahead \notin {"newline", "space", "return", "tab", "#", "nul"}
      BY <2>2 DEF EndOfSpace, ReadsHash, ReadsComments
    <3> QED BY <3>1, PlaceFacts, ColumnTurns DEF ColumnHere
  <2> QED BY <2>1, <2>2
<1>3. CallInv'
  BY <1>1, <1>2 DEF CallInv, TurnOf, ColumnThere, ReadsComments
<1> QED BY <1>1, <1>3, LastIsKept DEF TurnOf

LEMMA HashedIndent ==
  ASSUME IInv, CallInv, LastInv, Hashed
  PROVE  CallInv' /\ LastInv'
<1>1. CASE Fail
  BY <1>1, OthersReturn DEF Fail, NoToken
<1>2. CASE ~Fail
  <2>1. /\ pc = "hash" /\ pc' \in {"digits", "comment"} /\ pos' = pos /\ TurnOf
        /\ scan'.indent = scan.indent
    BY <1>2, PlaceFacts DEF Hashed, TurnOf, parser
  <2>2. CallInv'
    BY <2>1 DEF CallInv, TurnOf, ColumnThere, ColumnHere, ReadsComments
  <2> QED BY <2>1, <2>2, LastIsKept DEF TurnOf
<1> QED BY <1>1, <1>2

LEMMA CommentIndent ==
  ASSUME IInv, CallInv, LastInv, Comment
  PROVE  CallInv' /\ LastInv'
<1>1. /\ pc = "comment" /\ pos' = After(input, pos) /\ TurnOf
      /\ \/ /\ Lookahead \notin {"nul", "newline"} /\ pc' = "comment"
            /\ scan'.indent = scan.indent
         \/ Lookahead \in {"nul", "newline"} /\ pc' = "space" /\ scan'.indent = 0
  BY PlaceFacts DEF Comment, Read, TurnOf, parser
<1>2. ColumnHere(pc)' = ColumnHere("comment")
  <2>1. Column(input, "comment", pos, scan.indent) =
          Column(input, pc', After(input, pos), scan'.indent)
    BY <1>1, PlaceFacts, ColumnTurns
  <2> QED BY <1>1, <2>1 DEF ColumnHere, TurnOf
<1>3. CallInv'
  BY <1>1, <1>2 DEF CallInv, TurnOf, ColumnThere, ReadsComments
<1> QED BY <1>1, <1>3, LastIsKept DEF TurnOf

\* The rest of a call reads no blanks any more.
LEMMA RestIndent ==
  ASSUME IInv, CallInv, LastInv,
         Refuse \/ Digits \/ Newline \/ Path \/ Word \/ Component \/ Name
  PROVE  CallInv' /\ LastInv'
<1>1. \/ pc' = "idle" /\ token' # "INDENT"
      \/ pc # "idle" /\ pc' \in {"digits", "path", "word", "component", "name"} /\ TurnOf
      \/ pc # "idle" /\ pc' = "component" /\ LastInv'
  <2>1. CASE Word /\ Lookahead = "/"
    <3>1. CASE Fail
      BY <3>1 DEF Fail, NoToken
    <3>2. CASE ~Fail
      <4>1. pc = "word" /\ pc' \in {"word", "component"}
        BY <2>1, <3>2 DEF Word, Read
      <4>2. UNCHANGED <<token, state, parser>> /\ scan'.start = scan.start
        BY <2>1, <3>2, PlaceFacts DEF Word, Read
      <4>3. LastInv'
        BY <4>1, <4>2, LastIsKept
      <4>4. pc' = "component"
        BY <2>1, <3>2 DEF Word, Read, IsIdentifier
      <4> QED BY <4>1, <4>3, <4>4
    <3> QED BY <3>1, <3>2
  <2>2. CASE Word /\ Lookahead # "/"
    BY <2>2 DEF Word, Read, Fail, NoToken, TurnOf, parser
  <2>3. CASE Refuse \/ Digits \/ Newline \/ Path \/ Component \/ Name
    BY <2>3 DEF Refuse, Digits, Newline, Path, Component, Name, Read, Fail, Emit, NoToken,
                TurnOf, parser
  <2> QED BY <2>1, <2>2, <2>3
<1>2. CASE pc' = "idle" /\ token' # "INDENT"
  BY <1>2, OthersReturn
<1>3. CASE pc # "idle" /\ pc' \in {"digits", "path", "word", "component", "name"} /\ TurnOf
  BY <1>3, LastIsKept DEF CallInv, TurnOf
<1>4. CASE pc' = "component" /\ LastInv'
  BY <1>4 DEF CallInv
<1> QED BY <1>1, <1>2, <1>3, <1>4

\* The block that is opened is the column that lies ahead.
LEMMA IndentIndent ==
  ASSUME IInv, CallInv, LastInv, Indent
  PROVE  CallInv' /\ LastInv'
<1>1. /\ pc = "layout" /\ pc' = "idle" /\ pos' = scan.mark /\ input' = input
      /\ indents' = Append(indents, scan.indent % WordRange)
      /\ ~lossy' => scan.indent < WordRange
  <2>1. scan.indent \in Nat
    BY PlaceFacts
  <2>2. lossy' = (lossy \/ scan.indent >= WordRange)
    BY DEF Indent
  <2>3. ~lossy' => ~(scan.indent >= WordRange)
    BY <2>2, Zenon
  <2>4. ~(scan.indent >= WordRange) => scan.indent < WordRange
    BY <2>1, Ranges
  <2>5. /\ pc = "layout" /\ pc' = "idle" /\ pos' = scan.mark /\ input' = input
        /\ indents' = Append(indents, scan.indent % WordRange)
    BY DEF Indent, Emit, parser
  <2> QED BY <2>3, <2>4, <2>5
<1>2. ReadsComments
  BY DEF Indent, Opens, Accepts, ReadsComments, Layout
<1>3. ColumnThere = scan.indent /\ scan.mark = scan.start
  BY <1>1, <1>2 DEF CallInv
<1>4. ~lossy' => Top(indents') = scan.indent
  <2>1. indents \in Seq(0 .. WordRange - 1)
    BY StackFacts DEF IInv, StateOK
  <2>2. scan.indent \in Nat
    BY PlaceFacts
  <2>3. Top(Append(indents, scan.indent % WordRange)) = scan.indent % WordRange
    BY <2>1 DEF Top
  <2> QED BY <1>1, <2>2, <2>3, WordOf
<1>5. LastInv'
  BY <1>1, <1>3, <1>4 DEF LastInv, ColumnThere, Top
<1> QED BY <1>1, <1>5 DEF CallInv

LEMMA BeginIndent ==
  ASSUME IInv, CallInv, LastInv, NEW v \in ValidSets, Begin(v)
  PROVE  CallInv' /\ LastInv'
<1>1. /\ pc = "idle" /\ pc' = "space" /\ pos' = pos /\ input' = input /\ token' = token
      /\ indents' = indents /\ lossy' = lossy
      /\ scan'.start = pos /\ scan'.mark = pos /\ scan'.indent = 0
  BY DEF Begin, Idle, state, parser
<1>2. CallInv'
  BY <1>1 DEF CallInv, ColumnThere, ColumnHere
<1>3. LastInv'
  BY <1>1 DEF LastInv, Top
<1> QED BY <1>2, <1>3

LEMMA IndentInvIsKept ==
  IInv /\ CallInv /\ LastInv /\ [Next]_vars => CallInv' /\ LastInv'
<1> SUFFICES ASSUME IInv, CallInv, LastInv, [Next]_vars PROVE CallInv' /\ LastInv'
  OBVIOUS
<1>1. ASSUME NEW v \in ValidSets, Begin(v) PROVE CallInv' /\ LastInv'
  BY <1>1, BeginIndent
<1>2. CASE ScanStep /\ ~Dedent
  BY <1>2, BlankIndent, HashIndent, EndIndent, HashedIndent, CommentIndent, RestIndent,
     IndentIndent DEF ScanStep
<1>3. CASE Dedent \/ LexInternally \/ Restore
  <2>1. pc' = "idle" /\ token' # "INDENT"
    BY <1>3 DEF Dedent, Emit, LexInternally, Restore, NoToken
  <2> QED BY <2>1, OthersReturn
<1>4. CASE Save \/ UNCHANGED vars
  <2>1. /\ pc' = pc /\ pos' = pos /\ scan' = scan /\ input' = input /\ token' = token
        /\ indents' = indents /\ lossy' = lossy
    BY <1>4 DEF Save, vars, state
  <2> QED BY <2>1 DEF CallInv, LastInv, ColumnThere, ColumnHere, ReadsComments, Top
<1> QED BY <1>1, <1>2, <1>3, <1>4 DEF Next

\* After an INDENT the layout tokens come to an end: whatever the next call may return,
\* if it reads the comments that the last one read it finds no block to open or to close.
THEOREM IndentStaysLast == Spec => IndentIsLast
<1> DEFINE Last == token = "INDENT" /\ pc # "idle" /\ pc' = "idle" /\ ~lossy
                     /\ scan.valid \cap (Layout \cup {"NAT"}) # {}
                     => token' \notin {"INDENT", "DEDENT"}
           Inv == IInv /\ CallInv /\ LastInv
<1>1. Init => Inv
  <2>1. Init => CallInv /\ LastInv
    BY DEF Init, CallInv, LastInv, NoToken
  <2> QED BY <2>1, InitInvariant
<1>2. Inv /\ [Next]_vars => Inv'
  BY NextInvariant, IndentInvIsKept
<1>3. ASSUME Inv, Next PROVE Last
  <2> SUFFICES ASSUME token = "INDENT", pc # "idle", pc' = "idle", ~lossy, ReadsComments
               PROVE  token' \notin {"INDENT", "DEDENT"}
    BY DEF ReadsComments
  <2>1. pc = "layout" => scan.indent = Top(indents)
    BY <1>3 DEF CallInv, LastInv, ColumnThere
  <2>2. scan.indent \in Nat
    BY <1>3, PlaceFacts
  <2>3. ~Indent /\ ~Dedent
    BY <2>1, <2>2 DEF Indent, Dedent, Opens, Closes
  <2>4. ScanStep
    BY <1>3 DEF Next, Begin, LexInternally, Save, Restore
  <2> QED
    BY <2>3, <2>4 DEF ScanStep, Refuse, Blank, Hash, EndOfSource, EndOfSpace, Hashed, Digits,
       Comment, Newline, Path, Word, Component, Name, Fail, Emit, Read, NoToken
<1>4. Inv /\ [Next]_vars => [Last]_vars
  BY <1>3
<1>5. Spec => []Inv
  BY <1>1, <1>2, PTL DEF Spec
<1>6. Spec => [][Last]_vars
  BY <1>4, <1>5, PTL DEF Spec
<1> QED BY <1>6 DEF IndentIsLast

-----------------------------------------------------------------------------
(***************************************************************************)
(* The C scanner's array.                                                  *)
(***************************************************************************)
Arrays == [contents : Seq(Int), size : Nat, capacity : Nat]

\* An allocation has the slots asked for and keeps those it is given.
LEMMA ReallocatedKeeps ==
  ASSUME NEW slots \in Seq(Int), NEW n \in Nat, n >= Len(slots)
  PROVE  /\ Reallocated(slots, n) \in Seq(Int)
         /\ Len(Reallocated(slots, n)) = n
         /\ \A i \in 1 .. Len(slots) : Reallocated(slots, n)[i] = slots[i]
<1>1. \A i \in 1 .. n : (IF i <= Len(slots) THEN slots[i] ELSE Unwritten) \in Int
  BY DEF Unwritten
<1> QED
  BY <1>1 DEF Reallocated

\* Growing by one leaves room for one, changes no element and keeps the fields true.
LEMMA GrownHasRoom ==
  ASSUME NEW array \in Arrays, Sound(array)
  PROVE  /\ Grown(array, 1) \in Arrays
         /\ Sound(Grown(array, 1))
         /\ Grown(array, 1).size = array.size
         /\ array.size < Grown(array, 1).capacity
         /\ \A i \in 1 .. array.size : Grown(array, 1).contents[i] = array.contents[i]
<1> DEFINE doubled == IF 2 * array.capacity < LeastCapacity THEN LeastCapacity
                      ELSE 2 * array.capacity
           room == IF doubled < array.size + 1 THEN array.size + 1 ELSE doubled
<1>1. /\ array.size \in Nat /\ array.capacity \in Nat /\ array.contents \in Seq(Int)
      /\ array.capacity = Len(array.contents)
      /\ array.size <= array.capacity
  BY DEF Arrays, Sound
<1>2. room \in Nat /\ room >= array.size + 1
  BY <1>1, LeastCapacityAssumption
<1>3. CASE array.size + 1 <= array.capacity
  <2>1. Grown(array, 1) = array
    BY <1>1, <1>3 DEF Grown
  <2> QED
    BY <2>1, <1>1, <1>3
<1>4. CASE array.size + 1 > array.capacity
  <2>1. array.size = array.capacity
    BY <1>1, <1>4
  <2>2. Grown(array, 1) = Reserved(array, room)
    BY <1>4 DEF Grown
  <2>3. Reserved(array, room) =
          [array EXCEPT !.contents = Reallocated(@, room), !.capacity = room]
    BY <2>1, <1>1, <1>2 DEF Reserved
  <2> HIDE DEF room, doubled
  <2> DEFINE slots == Reallocated(array.contents, room)
  <2>4. /\ slots \in Seq(Int) /\ Len(slots) = room
        /\ \A i \in 1 .. Len(array.contents) : slots[i] = array.contents[i]
    BY <1>1, <1>2, <2>1, ReallocatedKeeps
  <2> HIDE DEF slots
  <2>5. /\ Grown(array, 1).contents = slots
        /\ Grown(array, 1).size = array.size
        /\ Grown(array, 1).capacity = room
        /\ Grown(array, 1) \in Arrays
    BY <2>2, <2>3, <2>4, <1>1, <1>2 DEF Arrays, slots
  <2> QED
    BY <2>1, <2>4, <2>5, <1>1, <1>2 DEF Sound
<1> QED
  BY <1>1, <1>3, <1>4

\* array_push is Append, wherever the array stands with its memory: its size never
\* outgrows the slots it owns.
THEOREM PushAppends ==
  ASSUME NEW array \in Arrays, Sound(array), NEW element \in Int
  PROVE  /\ Pushed(array, element) \in Arrays
         /\ Sound(Pushed(array, element))
         /\ Stack(Pushed(array, element)) = Append(Stack(array), element)
<1> DEFINE grown == Grown(array, 1)
           next == array.size + 1
           slots == [grown.contents EXCEPT ![next] = element]
<1>1. /\ grown \in Arrays /\ Sound(grown) /\ grown.size = array.size
      /\ array.size < grown.capacity
      /\ \A i \in 1 .. array.size : grown.contents[i] = array.contents[i]
  BY GrownHasRoom
<1>2. /\ array.size \in Nat /\ array.contents \in Seq(Int)
      /\ array.size <= Len(array.contents)
  BY DEF Arrays, Sound
<1>3. Pushed(array, element) = [grown EXCEPT !.contents = slots, !.size = next]
  BY <1>1 DEF Pushed
<1> HIDE DEF grown
<1>4. grown.contents \in Seq(Int) /\ grown.capacity \in Nat /\ grown.capacity = Len(grown.contents)
  BY <1>1 DEF Arrays, Sound
<1>5. /\ slots \in Seq(Int) /\ Len(slots) = Len(grown.contents)
      /\ slots[next] = element
      /\ \A i \in 1 .. array.size : slots[i] = array.contents[i]
  <2>1. next \in 1 .. Len(grown.contents) /\ \A i \in 1 .. array.size : i # next
    BY <1>1, <1>2, <1>4
  <2>2. \A i \in 1 .. array.size : i \in 1 .. Len(grown.contents)
    BY <1>1, <1>2, <1>4
  <2>3. /\ slots \in Seq(Int) /\ Len(slots) = Len(grown.contents)
        /\ \A i \in 1 .. Len(grown.contents) :
             slots[i] = IF i = next THEN element ELSE grown.contents[i]
    <3> HIDE DEF next
    <3> QED
      BY <1>4, <2>1, ExceptSeq
  <2> HIDE DEF slots, next
  <2> QED
    BY <1>1, <2>1, <2>2, <2>3
<1> HIDE DEF slots
<1>6. /\ Pushed(array, element) \in Arrays
      /\ Pushed(array, element).contents = slots
      /\ Pushed(array, element).size = next
      /\ Pushed(array, element).capacity = grown.capacity
  <2>1. Pushed(array, element) =
          [contents |-> slots, size |-> next, capacity |-> grown.capacity]
    BY <1>1, <1>3 DEF Arrays
  <2>2. next \in Nat
    BY <1>2
  <2> QED
    BY <2>1, <2>2, <1>4, <1>5 DEF Arrays
<1>7. Sound(Pushed(array, element))
  BY <1>1, <1>2, <1>4, <1>5, <1>6 DEF Sound
<1>8. SubSeq(slots, 1, next) = Append(SubSeq(array.contents, 1, array.size), element)
  <2> DEFINE old == SubSeq(array.contents, 1, array.size)
             new == SubSeq(slots, 1, next)
  <2>1. /\ old \in Seq(Int) /\ Len(old) = array.size
        /\ \A i \in 1 .. array.size : old[i] = array.contents[i]
    BY <1>2
  <2>2. /\ new \in Seq(Int) /\ Len(new) = next
        /\ \A i \in 1 .. next : new[i] = slots[i]
    BY <1>1, <1>2, <1>4, <1>5
  <2> HIDE DEF old, new
  <2>3. /\ Append(old, element) \in Seq(Int) /\ Len(Append(old, element)) = next
        /\ \A i \in 1 .. array.size : Append(old, element)[i] = old[i]
        /\ Append(old, element)[next] = element
    BY <2>1, <1>2
  <2>4. \A i \in 1 .. next : new[i] = Append(old, element)[i]
    BY <2>1, <2>2, <2>3, <1>2, <1>5
  <2>5. new = Append(old, element)
    BY <2>2, <2>3, <2>4, SeqEqual
  <2> QED
    BY <2>5 DEF old, new
<1> QED
  BY <1>6, <1>7, <1>8 DEF Stack

\* array_pop and array_back are the rest and the top of the stack; what is popped
\* stays in the memory and is no longer seen.
THEOREM PopRemovesTheTop ==
  ASSUME NEW array \in Arrays, Sound(array), array.size > 0
  PROVE  /\ Popped(array) \in Arrays
         /\ Sound(Popped(array))
         /\ Stack(Popped(array)) = SubSeq(Stack(array), 1, Len(Stack(array)) - 1)
         /\ Back(array) = Top(Stack(array))
<1>1. /\ array.size \in Nat /\ array.contents \in Seq(Int)
      /\ array.size <= Len(array.contents) /\ array.size - 1 \in Nat
  BY DEF Arrays, Sound
<1>2. /\ Popped(array) \in Arrays
      /\ Popped(array).size = array.size - 1
      /\ Popped(array).contents = array.contents
      /\ Popped(array).capacity = array.capacity
  BY <1>1 DEF Popped, Arrays
<1>3. Len(Stack(array)) = array.size /\ Stack(array)[array.size] = array.contents[array.size]
  BY <1>1 DEF Stack
<1>4. SubSeq(array.contents, 1, array.size - 1) =
        SubSeq(SubSeq(array.contents, 1, array.size), 1, array.size - 1)
  BY <1>1
<1> QED
  BY <1>1, <1>2, <1>3, <1>4 DEF Sound, Stack, Back, Top

-----------------------------------------------------------------------------
(***************************************************************************)
(* The C scanner's loops.                                                  *)
(***************************************************************************)
LEMMA SmallestIsMin ==
  ASSUME NEW T, T \subseteq Nat, T # {}
  PROVE  Min(T) \in T /\ \A n \in T : Min(T) <= n
<1>1. \E n \in T : \A m \in T : n <= m
  BY SmallestOf
<1> QED BY <1>1, Zenon DEF Min

LEMMA LookIn ==
  ASSUME NEW text \in Seq(Chars), NEW p \in Nat \ {0}
  PROVE  /\ p <= Len(text) => CLook(text, p) = text[p] /\ text[p] \in Chars
         /\ p > Len(text) => CLook(text, p) = "eof"
  BY ElementOfSeq DEF CLook

\* A span ends in front of the first character that is not of its class, at the
\* latest where the text does.
LEMMA SpanEndIs ==
  ASSUME NEW text \in Seq(Chars), NEW p \in Nat \ {0}, NEW class, "eof" \notin class
  PROVE  /\ SpanEnd(text, p, class) \in Nat
         /\ SpanEnd(text, p, class) >= p
         /\ CLook(text, SpanEnd(text, p, class)) \notin class
         /\ \A q \in p .. SpanEnd(text, p, class) - 1 : CLook(text, q) \in class
         /\ p <= Len(text) + 1 => SpanEnd(text, p, class) <= Len(text) + 1
<1> DEFINE N == Len(text)
           T == {q \in p .. N + p : CLook(text, q) \notin class}
           e == SpanEnd(text, p, class)
<1>1. N \in Nat /\ p >= 1 /\ T \subseteq Nat OBVIOUS
<1>2. N + p \in T
  <2>1. N + p > N /\ N + p \in p .. N + p
    BY <1>1
  <2> QED BY <2>1 DEF CLook
<1>3. p <= N + 1 => N + 1 \in T
  <2>1. p <= N + 1 => N + 1 > N /\ N + 1 \in p .. N + p
    BY <1>1
  <2> QED BY <2>1 DEF CLook
<1>4. e = Min(T)
  BY DEF SpanEnd
<1>5. \A q : q \in T <=> q \in p .. N + p /\ CLook(text, q) \notin class
  OBVIOUS
<1> HIDE DEF T, e
<1>6. e \in T /\ \A q \in T : e <= q
  BY <1>1, <1>2, <1>4, SmallestIsMin
<1>7. e \in p .. N + p /\ CLook(text, e) \notin class
  BY <1>5, <1>6
<1>8. ASSUME NEW q \in p .. e - 1 PROVE CLook(text, q) \in class
  <2>1. q \in p .. N + p /\ ~(e <= q)
    BY <1>1, <1>7
  <2> QED BY <1>5, <1>6, <2>1
<1>9. p <= N + 1 => e <= N + 1
  BY <1>3, <1>6
<1> HIDE DEF N
<1>10. e \in Nat /\ e >= p
  BY <1>1, <1>7
<1> QED BY <1>7, <1>8, <1>9, <1>10 DEF e, N

LEMMA SpanStops ==
  ASSUME NEW text \in Seq(Chars), NEW p \in Nat \ {0}, NEW class, "eof" \notin class,
         CLook(text, p) \notin class
  PROVE  SpanEnd(text, p, class) = p
<1> DEFINE e == SpanEnd(text, p, class)
<1>1. e \in Nat /\ e >= p /\ \A q \in p .. e - 1 : CLook(text, q) \in class
  BY SpanEndIs
<1> HIDE DEF e
<1>2. ~(p \in p .. e - 1)
  BY <1>1
<1>3. e = p
  BY <1>1, <1>2
<1> QED BY <1>3 DEF e

LEMMA SpanGoesOn ==
  ASSUME NEW text \in Seq(Chars), NEW p \in Nat \ {0}, NEW class, "eof" \notin class,
         CLook(text, p) \in class
  PROVE  SpanEnd(text, p, class) = SpanEnd(text, p + 1, class)
<1> DEFINE e == SpanEnd(text, p, class)
           f == SpanEnd(text, p + 1, class)
<1>1. /\ e \in Nat /\ e >= p /\ CLook(text, e) \notin class
      /\ \A q \in p .. e - 1 : CLook(text, q) \in class
  BY SpanEndIs
<1>2. /\ f \in Nat /\ f >= p + 1 /\ CLook(text, f) \notin class
      /\ \A q \in p + 1 .. f - 1 : CLook(text, q) \in class
  <2>1. p + 1 \in Nat \ {0} OBVIOUS
  <2> QED BY <2>1, SpanEndIs
<1> HIDE DEF e, f
<1>3. e # p
  BY <1>1
<1>4. ~(e < f)
  <2>1. e < f => e \in p + 1 .. f - 1
    BY <1>1, <1>2, <1>3
  <2> QED BY <1>1, <1>2, <2>1
<1>5. ~(f < e)
  <2>1. f < e => f \in p .. e - 1
    BY <1>1, <1>2
  <2> QED BY <1>1, <1>2, <2>1
<1>6. e = f
  BY <1>1, <1>2, <1>4, <1>5
<1> QED BY <1>6 DEF e, f

\* What a turn of the C loop makes of each character.
Turned(text, valid, s, t) ==
  LET c == CLook(text, s.at)
      d == CLook(text, s.at + 1)
      reads == valid \cap (CLayout \cup {"NAT"}) # {}
      line == SpanEnd(text, s.at + 1, CommentChars(text))
  IN  /\ c = "newline" => t = [s EXCEPT !.at = s.at + 1, !.eol = TRUE, !.indent = 0]
      /\ c = "space"  => t = [s EXCEPT !.at = s.at + 1, !.indent = s.indent + 1]
      /\ c = "return" => t = [s EXCEPT !.at = s.at + 1, !.indent = 0]
      /\ c = "tab"    => t = [s EXCEPT !.at = s.at + 1, !.indent = s.indent + 8]
      /\ c = "eof"    => t = [s EXCEPT !.kind = "layout", !.eol = TRUE, !.indent = 0]
      /\ (c = "#" => ~reads) /\ c \notin {"newline", "space", "return", "tab", "eof"}
           => t = [s EXCEPT !.kind = "layout"]
      /\ c = "#" /\ reads =>
           /\ d = "{" \/ (d = "digit" /\ "NAT" \notin valid) \/ (d # "digit" /\ ~s.eol)
                => t = [s EXCEPT !.kind = "fail"]
           /\ d = "digit" /\ "NAT" \in valid
                => t = [s EXCEPT !.kind = "NAT",
                                 !.at = SpanEnd(text, s.at + 1, {"digit"})]
           /\ d \notin {"{", "digit"} /\ s.eol
                => t = [s EXCEPT !.at = line + 1, !.indent = 0,
                                 !.comment = IF s.comment = -1 THEN s.indent ELSE @]

LEMMA TurnIs ==
  ASSUME NEW text, NEW valid, NEW s \in CLocals
  PROVE  Turned(text, valid, s, CTurn(text, valid, s))
<1>1. s.at \in Nat /\ s.indent \in Nat /\ s.comment \in Int /\ s.eol \in BOOLEAN
  BY DEF CLocals
<1> QED BY <1>1 DEF CTurn, CLocals, Turned

LEMMA CommentCharsEnd ==
  ASSUME NEW text \in Seq(Chars) PROVE "eof" \notin CommentChars(text)
<1>1. \A i \in DOMAIN text : text[i] \in Chars
  OBVIOUS
<1> QED BY <1>1 DEF CommentChars, Chars

\* A turn that does not end the loop has read a character.
LEMMA TurnReads ==
  ASSUME NEW text \in Seq(Chars), NEW valid, NEW s \in CLocals, s.kind = "space"
  PROVE  /\ CTurn(text, valid, s) \in CLocals
         /\ CTurn(text, valid, s).kind = "space"
              => s.at <= Len(text) /\ CTurn(text, valid, s).at > s.at
<1> DEFINE c == CLook(text, s.at)
           d == CLook(text, s.at + 1)
           t == CTurn(text, valid, s)
           reads == valid \cap (CLayout \cup {"NAT"}) # {}
           digits == SpanEnd(text, s.at + 1, {"digit"})
           line == SpanEnd(text, s.at + 1, CommentChars(text))
<1>0. Turned(text, valid, s, t)
  BY TurnIs
<1>1. /\ s.at \in Nat /\ s.indent \in Nat /\ s.comment \in Int /\ s.eol \in BOOLEAN
      /\ s.at + 1 \in Nat \ {0}
  BY DEF CLocals
<1>2. /\ digits \in Nat
      /\ line \in Nat /\ line >= s.at + 1
  BY <1>1, SpanEndIs, CommentCharsEnd
<1>3. c # "eof" => s.at <= Len(text)
  BY <1>1 DEF CLook
<1>4. CASE c = "newline"
  <2>1. t = [s EXCEPT !.at = s.at + 1, !.eol = TRUE, !.indent = 0]
    BY <1>0, <1>4 DEF Turned
  <2> HIDE DEF t, c
  <2>2. t \in CLocals /\ t.at = s.at + 1 /\ s.at <= Len(text)
    BY <1>1, <1>3, <1>4, <2>1 DEF CLocals
  <2> QED BY <1>1, <2>2 DEF t
<1>5. CASE c \in {"space", "return", "tab"}
  <2>1. \E i \in Nat : t = [s EXCEPT !.at = s.at + 1, !.indent = i]
    <3>1. s.indent + 1 \in Nat /\ s.indent + 8 \in Nat /\ 0 \in Nat
      BY <1>1
    <3> QED BY <1>0, <1>5, <3>1 DEF Turned
  <2> HIDE DEF t, c
  <2>2. t \in CLocals /\ t.at = s.at + 1 /\ s.at <= Len(text)
    BY <1>1, <1>3, <1>5, <2>1 DEF CLocals
  <2> QED BY <1>1, <2>2 DEF t
<1>6. CASE c = "eof"
  <2>1. t = [s EXCEPT !.kind = "layout", !.eol = TRUE, !.indent = 0]
    BY <1>0, <1>6 DEF Turned
  <2> HIDE DEF t, c
  <2>2. t \in CLocals /\ t.kind = "layout"
    BY <1>1, <2>1 DEF CLocals
  <2> QED BY <2>2 DEF t
<1>7. CASE t = [s EXCEPT !.kind = "layout"] \/ t = [s EXCEPT !.kind = "fail"]
  <2> HIDE DEF t, c
  <2>2. t \in CLocals /\ t.kind \in {"layout", "fail"}
    BY <1>1, <1>7 DEF CLocals
  <2> QED BY <2>2 DEF t
<1>8. CASE t = [s EXCEPT !.kind = "NAT", !.at = digits]
  <2> HIDE DEF t, c, digits
  <2>2. t \in CLocals /\ t.kind = "NAT"
    BY <1>1, <1>2, <1>8 DEF CLocals
  <2> QED BY <2>2 DEF t
<1>9. CASE c = "#" /\ t = [s EXCEPT !.at = line + 1, !.indent = 0,
                           !.comment = IF s.comment = -1 THEN s.indent ELSE @]
  <2> DEFINE first == IF s.comment = -1 THEN s.indent ELSE s.comment
  <2> HIDE DEF t, c, line
  <2>1. first \in Int /\ t = [s EXCEPT !.at = line + 1, !.indent = 0, !.comment = first]
    BY <1>1, <1>9
  <2> HIDE DEF first
  <2>2. t = [kind |-> s.kind, at |-> line + 1, eol |-> s.eol, indent |-> 0,
             comment |-> first]
    BY <2>1 DEF CLocals
  <2>4. line + 1 \in Nat /\ 0 \in Nat
    BY <1>2
  <2>5. s.kind \in {"space", "layout", "NAT", "fail"} /\ s.eol \in BOOLEAN
    BY DEF CLocals
  <2>6. t \in CLocals /\ t.at = line + 1
    BY <2>1, <2>2, <2>4, <2>5 DEF CLocals
  <2>3. t.at > s.at /\ s.at <= Len(text)
    BY <1>1, <1>2, <1>3, <1>9, <2>6
  <2> QED BY <2>6, <2>3 DEF t
<1>10. CASE c = "#"
  <2>1. CASE ~reads
    <3>1. t = [s EXCEPT !.kind = "layout"]
      BY <1>0, <1>10, <2>1 DEF Turned
    <3> QED BY <1>7, <3>1
  <2>2. CASE reads /\ (d = "{" \/ (d = "digit" /\ "NAT" \notin valid) \/ (d # "digit" /\ ~s.eol))
    <3>1. t = [s EXCEPT !.kind = "fail"]
      BY <1>0, <1>10, <2>2 DEF Turned
    <3> QED BY <1>7, <3>1
  <2>3. CASE reads /\ d = "digit" /\ "NAT" \in valid
    <3>1. t = [s EXCEPT !.kind = "NAT", !.at = digits]
      BY <1>0, <1>10, <2>3 DEF Turned
    <3> QED BY <1>8, <3>1
  <2>4. CASE reads /\ d \notin {"{", "digit"} /\ s.eol
    <3>1. t = [s EXCEPT !.at = line + 1, !.indent = 0,
                        !.comment = IF s.comment = -1 THEN s.indent ELSE @]
      BY <1>0, <1>10, <2>4 DEF Turned
    <3> QED BY <1>9, <1>10, <3>1
  <2>5. s.eol \in BOOLEAN BY <1>1
  <2> HIDE DEF reads, d
  <2> QED BY <2>1, <2>2, <2>3, <2>4, <2>5
<1> QED BY <1>0, <1>4, <1>5, <1>6, <1>7, <1>10 DEF Turned

Ended == {s \in CLocals : s.kind # "space"}

\* So the loop comes to an end, with the outcome of its last turn.
LEMMA SpaceTurns ==
  ASSUME NEW text \in Seq(Chars), NEW valid
  PROVE  \A s \in CLocals :
           /\ CSpace(text, valid)[s] \in Ended
           /\ s.kind # "space" => CSpace(text, valid)[s] = s
           /\ s.kind = "space" =>
                CSpace(text, valid)[s] = CSpace(text, valid)[CTurn(text, valid, s)]
<1> DEFINE N == Len(text)
           Loop(f) == f = [s \in CLocals |->
                             IF s.kind = "space" THEN f[CTurn(text, valid, s)] ELSE s]
           loop == CHOOSE f : Loop(f)
           m == [s \in CLocals |-> IF s.kind # "space" THEN 0
                                   ELSE IF s.at <= N THEN N + 2 - s.at ELSE 1]
           next == [s \in CLocals |-> CTurn(text, valid, s)]
           out == [s \in CLocals |-> s]
<1>1. N \in Nat /\ N + 2 \in Nat /\ \A s \in CLocals : s.at \in Nat
  BY DEF CLocals
<1>2. m \in [CLocals -> 0 .. N + 2]
  BY <1>1
<1>3. ASSUME NEW s \in CLocals \ Ended
      PROVE  next[s] \in CLocals /\ m[next[s]] < m[s]
  <2>1. s.kind = "space" /\ s \in CLocals
    BY DEF Ended
  <2>2. /\ next[s] \in CLocals
        /\ next[s].kind = "space" => s.at <= N /\ next[s].at > s.at
    BY <2>1, TurnReads
  <2> HIDE DEF next
  <2>3. m[next[s]] < m[s]
    BY <1>1, <2>1, <2>2
  <2> QED BY <2>2, <2>3
<1>4. CSpace(text, valid) = loop
  BY DEF CSpace
<1> HIDE DEF m
<1>5. \E f : Loop(f)
  <2>1. \E f : IsLoop(f, CLocals, Ended, out, next)
    <3> HIDE DEF N, next, out
    <3> QED BY ONLY <1>1, <1>2, <1>3, LoopExists
  <2>2. ASSUME NEW f, IsLoop(f, CLocals, Ended, out, next) PROVE Loop(f)
    BY <2>2 DEF IsLoop, Ended
  <2> HIDE DEF Loop, next, out
  <2> QED BY <2>1, <2>2
<1>6. Loop(loop)
  <2> HIDE DEF Loop
  <2> QED BY <1>5, Zenon
<1> HIDE DEF loop
<1>7. ASSUME NEW s \in CLocals
      PROVE  /\ s.kind # "space" => loop[s] = s
             /\ s.kind = "space" => loop[s] = loop[CTurn(text, valid, s)]
  BY <1>6
<1> HIDE DEF Loop
<1> DEFINE T == {n \in Nat : \A s \in CLocals : m[s] <= n => loop[s] \in Ended}
<1>8. 0 \in T
  <2>1. ASSUME NEW s \in CLocals, m[s] <= 0 PROVE loop[s] \in Ended
    <3>1. s.kind # "space"
      BY <1>1, <2>1 DEF m
    <3> QED BY <1>7, <3>1 DEF Ended
  <2> QED BY <2>1
<1>9. ASSUME NEW n \in Nat, n \in T PROVE n + 1 \in T
  <2>1. ASSUME NEW s \in CLocals, m[s] <= n + 1 PROVE loop[s] \in Ended
    <3>1. CASE s.kind = "space"
      <4>1. next[s] \in CLocals /\ m[next[s]] < m[s]
        BY <1>3, <3>1 DEF Ended
      <4>2. m[next[s]] \in Nat /\ m[s] \in Nat
        BY <1>2, <4>1
      <4>3. m[next[s]] <= n
        BY <2>1, <4>1, <4>2
      <4>4. loop[next[s]] \in Ended
        BY <1>9, <4>1, <4>3
      <4>5. next[s] = CTurn(text, valid, s)
        OBVIOUS
      <4> QED BY <1>7, <3>1, <4>4, <4>5
    <3>2. CASE s.kind # "space"
      BY <1>7, <3>2 DEF Ended
    <3> QED BY <3>1, <3>2
  <2> QED BY <2>1
<1> HIDE DEF T
<1>10. N + 2 \in T
  BY <1>1, <1>8, <1>9, SetInduction
<1>11. ASSUME NEW s \in CLocals PROVE loop[s] \in Ended
  <2>1. m[s] <= N + 2
    BY <1>1, <1>2
  <2> QED BY <1>10, <2>1 DEF T
<1> QED BY <1>4, <1>7, <1>11

-----------------------------------------------------------------------------
(***************************************************************************)
(* The C scanner's arrays.                                                 *)
(***************************************************************************)
SoundArrays == {array \in Arrays : Sound(array)}

\* Deserialize fills the array with the file's column and the bytes, from whatever
\* it held before.
LEMMA DeserializedArray ==
  ASSUME NEW array \in Arrays, NEW bytes \in Seq(Int)
  PROVE  /\ CDeserialized(array, bytes) \in SoundArrays
         /\ Stack(CDeserialized(array, bytes)) = Deserialized(bytes)
<1> DEFINE N == Len(bytes)
           base == Pushed(Deleted(array), 0)
           Fills(g) == g = [n \in 0 .. N |-> IF n = 0 THEN base
                                             ELSE Pushed(g[n - 1], bytes[n])]
           filled == CHOOSE g : Fills(g)
           step == [z \in SoundArrays \X (1 .. N) |-> Pushed(z[1], bytes[z[2]])]
<1>1. N \in Nat /\ \A n \in 1 .. N : bytes[n] \in Int
  OBVIOUS
<1>2. /\ Deleted(array) \in SoundArrays
      /\ Stack(Deleted(array)) = <<>>
  <2>1. Deleted(array) = [contents |-> <<>>, size |-> 0, capacity |-> 0]
    <3>1. array = [contents |-> array.contents, size |-> array.size,
                   capacity |-> array.capacity]
      BY DEF Arrays
    <3>2. DOMAIN array = {"contents", "size", "capacity"}
      BY <3>1
    <3>3. Deleted(array) = [f \in DOMAIN array |-> IF f = "contents" THEN <<>> ELSE 0]
      BY <3>2 DEF Deleted
    <3>4. [contents |-> <<>>, size |-> 0, capacity |-> 0] =
            [f \in {"contents", "size", "capacity"} |-> IF f = "contents" THEN <<>> ELSE 0]
      OBVIOUS
    <3> QED BY <3>2, <3>3, <3>4
  <2>2. <<>> \in Seq(Int) /\ Len(<<>>) = 0 /\ SubSeq(<<>>, 1, 0) = <<>>
    OBVIOUS
  <2> QED BY <2>1, <2>2 DEF SoundArrays, Arrays, Sound, Stack
<1>3. base \in SoundArrays /\ Stack(base) = <<0>>
  <2>1. /\ base \in Arrays /\ Sound(base)
        /\ Stack(base) = Append(Stack(Deleted(array)), 0)
    <3>1. Deleted(array) \in Arrays /\ Sound(Deleted(array)) /\ 0 \in Int
      BY <1>2 DEF SoundArrays
    <3> QED BY ONLY <3>1, PushAppends
  <2> HIDE DEF base
  <2>2. Append(<<>>, 0) = <<0>>
    OBVIOUS
  <2> QED BY <1>2, <2>1, <2>2 DEF SoundArrays
<1>4. ASSUME NEW a \in SoundArrays, NEW n \in 1 .. N
      PROVE  /\ Pushed(a, bytes[n]) \in SoundArrays
             /\ Stack(Pushed(a, bytes[n])) = Append(Stack(a), bytes[n])
  BY <1>1, PushAppends DEF SoundArrays
<1>5. CDeserialized(array, bytes) = filled[N]
  BY DEF CDeserialized
<1> HIDE DEF base
<1>6. \E g : Fills(g)
  <2>1. step \in [SoundArrays \X (1 .. N) -> SoundArrays]
    BY <1>4
  <2>2. \E g : IsFold(g, N, SoundArrays, base, step)
    <3> HIDE DEF N, step
    <3> QED BY ONLY <1>1, <1>3, <2>1, FoldExists
  <2>3. ASSUME NEW g, IsFold(g, N, SoundArrays, base, step) PROVE Fills(g)
    <3>1. /\ g \in [0 .. N -> SoundArrays] /\ g[0] = base
          /\ \A n \in 1 .. N : g[n] = step[<<g[n - 1], n>>]
      BY <2>3 DEF IsFold
    <3>2. ASSUME NEW n \in 1 .. N PROVE g[n] = Pushed(g[n - 1], bytes[n])
      <4>1. n - 1 \in 0 .. N
        BY <1>1
      <4>2. <<g[n - 1], n>> \in SoundArrays \X (1 .. N)
        BY <3>1, <4>1
      <4> QED BY <3>1, <4>2
    <3>3. \A n \in 0 .. N : n # 0 => n \in 1 .. N
      BY <1>1
    <3> HIDE DEF N, step
    <3> QED BY <3>1, <3>2, <3>3
  <2> HIDE DEF Fills, step
  <2> QED BY <2>2, <2>3
<1>7. Fills(filled)
  <2> HIDE DEF Fills
  <2> QED BY <1>6, Zenon
<1> HIDE DEF filled
<1>8. /\ filled[0] = base
      /\ \A n \in 1 .. N : filled[n] = Pushed(filled[n - 1], bytes[n])
  BY <1>1, <1>7
<1> HIDE DEF Fills, step
<1> DEFINE Part(n) == <<0>> \o SubSeq(bytes, 1, n)
           T == {n \in Nat : filled[n] \in SoundArrays /\ Stack(filled[n]) = Part(n)}
<1>9. 0 \in T
  <2>1. SubSeq(bytes, 1, 0) = <<>> /\ <<0>> \o <<>> = <<0>>
    OBVIOUS
  <2> QED BY <1>3, <1>8, <2>1
<1>10. ASSUME NEW n \in 0 .. N - 1, n \in T PROVE n + 1 \in T
  <2>1. n + 1 \in 1 .. N /\ (n + 1) - 1 = n /\ n + 1 \in Nat
    BY <1>1
  <2>2. filled[n + 1] = Pushed(filled[n], bytes[n + 1])
    BY <1>8, <2>1
  <2>3. /\ filled[n + 1] \in SoundArrays
        /\ Stack(filled[n + 1]) = Append(Part(n), bytes[n + 1])
    BY <1>4, <1>10, <2>1, <2>2
  <2>4. Append(Part(n), bytes[n + 1]) = Part(n + 1)
    <3>1. SubSeq(bytes, 1, n + 1) = Append(SubSeq(bytes, 1, n), bytes[n + 1])
      BY <2>1
    <3>2. SubSeq(bytes, 1, n) \in Seq(Int)
      BY <2>1
    <3>3. \A s \in Seq(Int), x \in Int : <<0>> \o Append(s, x) = Append(<<0>> \o s, x)
      OBVIOUS
    <3>4. bytes[n + 1] \in Int
      BY <1>1, <2>1
    <3> QED BY <3>1, <3>2, <3>3, <3>4
  <2> QED BY <2>1, <2>3, <2>4
<1> HIDE DEF T, N
<1>11. N \in T
  <2>1. N \in Nat /\ N \in 0 .. N BY <1>1
  <2>2. \A n \in 0 .. N : n \in T
    BY ONLY <2>1, <1>9, <1>10, UpwardInduction
  <2> QED BY <2>1, <2>2
<1>12. SubSeq(bytes, 1, N) = bytes
  BY DEF N
<1> QED BY <1>5, <1>11, <1>12 DEF T, Deserialized

LEMMA SmallerOfTwo ==
  ASSUME NEW a \in Int, NEW b \in Int
  PROVE  Min({a, b}) = IF a > b THEN b ELSE a
<1>1. \E n \in {a, b} : \A m \in {a, b} : n <= m
  <2>1. a <= b \/ b <= a OBVIOUS
  <2>2. a <= b => \A m \in {a, b} : a <= m
    OBVIOUS
  <2>3. b <= a => \A m \in {a, b} : b <= m
    OBVIOUS
  <2> QED BY <2>1, <2>2, <2>3
<1>2. Min({a, b}) \in {a, b} /\ \A m \in {a, b} : Min({a, b}) <= m
  BY <1>1, Zenon DEF Min
<1> QED BY <1>2

\* Serialize writes what the Go scanner writes of the same stack.
LEMMA SerializedArray ==
  ASSUME NEW array \in SoundArrays
  PROVE  /\ CSerialized(array, BufferSize) = Serialized(Stack(array))
         /\ CSerialized(array, BufferSize) \in Seq(Int)
<1> DEFINE n == array.size - 1
           k == IF n > BufferSize THEN BufferSize ELSE n
           stack == Stack(array)
           bytes == [i \in 1 .. k |-> array.contents[i + 1] % CByteRange]
<1>1. /\ array.contents \in Seq(Int) /\ array.size \in Nat
      /\ array.size <= Len(array.contents)
  BY DEF SoundArrays, Arrays, Sound
<1>2. n \in Int /\ BufferSize \in Int /\ k \in Int /\ k <= n
  BY <1>1, BufferSizeAssumption
<1>3. Len(stack) = array.size /\ \A i \in 1 .. array.size : stack[i] = array.contents[i]
  BY <1>1 DEF Stack
<1>4. Min({n, BufferSize}) = k
  BY <1>2, SmallerOfTwo
<1>5. \A i \in 1 .. k : /\ stack[i + 1] % ByteRange = array.contents[i + 1] % CByteRange
                        /\ array.contents[i + 1] % CByteRange \in Int
  <2>1. ASSUME NEW i \in 1 .. k
        PROVE  i + 1 \in 1 .. array.size /\ array.contents[i + 1] \in Int
    BY <1>1, <1>2
  <2>2. \A x \in Int : x % 256 \in Int
    OBVIOUS
  <2> QED BY <1>3, <2>1, <2>2 DEF ByteRange, CByteRange
<1> HIDE DEF k
<1>6. CSerialized(array, BufferSize) = bytes
  BY <1>4 DEF CSerialized
<1>7. Serialized(stack) = [i \in 1 .. k |-> stack[i + 1] % ByteRange]
  BY <1>3 DEF Serialized, k
<1>8. bytes \in Seq(Int)
  <2>1. \E l \in Nat : 1 .. k = 1 .. l
    <3>1. CASE k \in Nat
      BY <3>1
    <3>2. CASE k \notin Nat
      <4>1. 1 .. k = 1 .. 0 BY <1>2, <3>2
      <4> QED BY <4>1
    <3> QED BY <3>1, <3>2
  <2>2. PICK l \in Nat : 1 .. k = 1 .. l
    BY <2>1
  <2>3. bytes \in [1 .. l -> Int]
    BY <1>5, <2>2
  <2> HIDE DEF bytes
  <2> QED BY <2>3, SegmentIsSequence
<1> HIDE DEF stack
<1> QED BY <1>5, <1>6, <1>7, <1>8 DEF stack

-----------------------------------------------------------------------------
(***************************************************************************)
(* The C loop, character by character.                                     *)
(***************************************************************************)
\* The flag and its values, under names of their own: the provers take TRUE and BOOLEAN
\* for formulas.
Flags == BOOLEAN
Found == TRUE

Local(k, p, e, i, c) ==
  [kind |-> k, at |-> p, eol |-> e, indent |-> i, comment |-> c]

\* What the loop comes to from a turn on, where a layout decision behind the end of
\* the source counts as one at its end: nothing is read there.
Settled(text, s) ==
  IF s.kind = "layout" /\ s.at > Len(text) THEN [s EXCEPT !.at = Len(text) + 1] ELSE s

Comes(text, valid, s) == Settled(text, CSpace(text, valid)[s])

LEMMA LocalTurn ==
  ASSUME NEW text \in Seq(Chars), NEW valid,
         NEW p \in Nat \ {0}, NEW e \in Flags, NEW i \in Nat, NEW c \in Int
  PROVE  LET s == Local("space", p, e, i, c)
         IN  /\ Turned(text, valid, s, CTurn(text, valid, s))
             /\ Comes(text, valid, s) = Comes(text, valid, CTurn(text, valid, s))
<1> DEFINE s == Local("space", p, e, i, c)
<1>1. s \in CLocals /\ s.kind = "space"
  BY DEF Local, CLocals, Flags
<1> HIDE DEF s
<1>2. Turned(text, valid, s, CTurn(text, valid, s))
  BY <1>1, TurnIs
<1>3. CSpace(text, valid)[s] = CSpace(text, valid)[CTurn(text, valid, s)]
  BY <1>1, SpaceTurns
<1> QED BY <1>2, <1>3 DEF Comes, s

LEMMA LocalEnd ==
  ASSUME NEW text \in Seq(Chars), NEW valid,
         NEW p \in Nat, NEW e \in Flags, NEW i \in Nat, NEW c \in Int
  PROVE  /\ \A k \in {"NAT", "fail"} :
              Comes(text, valid, Local(k, p, e, i, c)) = Local(k, p, e, i, c)
         /\ p <= Len(text) =>
              Comes(text, valid, Local("layout", p, e, i, c)) = Local("layout", p, e, i, c)
         /\ p > Len(text) =>
              Comes(text, valid, Local("layout", p, e, i, c)) =
                Local("layout", Len(text) + 1, e, i, c)
<1>1. ASSUME NEW k \in {"layout", "NAT", "fail"}
      PROVE  Comes(text, valid, Local(k, p, e, i, c)) = Settled(text, Local(k, p, e, i, c))
  <2> DEFINE s == Local(k, p, e, i, c)
  <2>1. s \in CLocals /\ s.kind # "space"
    BY DEF Local, CLocals, Flags
  <2> HIDE DEF s
  <2>2. CSpace(text, valid)[s] = s
    BY <2>1, SpaceTurns
  <2> QED BY <2>2 DEF Comes, s
<1>2. \A k \in {"NAT", "fail"} : Settled(text, Local(k, p, e, i, c)) = Local(k, p, e, i, c)
  BY DEF Settled, Local
<1>3. p <= Len(text) => Settled(text, Local("layout", p, e, i, c)) = Local("layout", p, e, i, c)
  BY DEF Settled, Local
<1>4. p > Len(text) => Settled(text, Local("layout", p, e, i, c)) =
                         Local("layout", Len(text) + 1, e, i, c)
  BY DEF Settled, Local
<1> QED BY <1>1, <1>2, <1>3, <1>4

\* Blank k leads from column i to column j, and from flag e to flag f.
Moves(k, e, i, f, j) ==
  \/ k = "newline" /\ f = Found /\ j = 0
  \/ k = "space" /\ f = e /\ j = i + 1
  \/ k = "return" /\ f = e /\ j = 0
  \/ k = "tab" /\ f = e /\ j = i + 8

LEMMA BlankTurn ==
  ASSUME NEW text \in Seq(Chars), NEW valid,
         NEW p \in Nat \ {0}, NEW e \in Flags, NEW i \in Nat, NEW c \in Int,
         NEW f, NEW j, Moves(CLook(text, p), e, i, f, j)
  PROVE  Comes(text, valid, Local("space", p, e, i, c)) =
           Comes(text, valid, Local("space", p + 1, f, j, c))
<1> DEFINE s == Local("space", p, e, i, c)
           t == CTurn(text, valid, s)
           k == CLook(text, p)
<1>1. Turned(text, valid, s, t) /\ Comes(text, valid, s) = Comes(text, valid, t)
  BY LocalTurn
<1> HIDE DEF t
<1>2. /\ k = "newline" => t = Local("space", p + 1, TRUE, 0, c)
      /\ k = "space"   => t = Local("space", p + 1, e, i + 1, c)
      /\ k = "return"  => t = Local("space", p + 1, e, 0, c)
      /\ k = "tab"     => t = Local("space", p + 1, e, i + 8, c)
  BY <1>1 DEF Turned, Local, Flags
<1>3. t = Local("space", p + 1, f, j, c)
  BY <1>2 DEF Moves, Local, Found, Flags
<1> HIDE DEF s
<1> QED BY <1>1, <1>3 DEF s

\* At the end of the source, and behind it.
LEMMA EndTurn ==
  ASSUME NEW text \in Seq(Chars), NEW valid, NEW p \in Nat \ {0}, p > Len(text),
         NEW e \in Flags, NEW i \in Nat, NEW c \in Int
  PROVE  Comes(text, valid, Local("space", p, e, i, c)) =
           Local("layout", Len(text) + 1, Found, 0, c)
<1> DEFINE s == Local("space", p, e, i, c)
           t == CTurn(text, valid, s)
<1>1. Turned(text, valid, s, t) /\ Comes(text, valid, s) = Comes(text, valid, t)
  BY LocalTurn
<1> HIDE DEF t
<1>2. CLook(text, p) = "eof"
  BY LookIn
<1>3. t = Local("layout", p, Found, 0, c)
  BY <1>1, <1>2 DEF Turned, Local, Found
<1>4. Found \in Flags
  BY DEF Found, Flags
<1>5. Comes(text, valid, Local("layout", p, Found, 0, c)) =
        Local("layout", Len(text) + 1, Found, 0, c)
  BY <1>4, LocalEnd
<1> QED BY <1>1, <1>3, <1>5

LEMMA TextTurn ==
  ASSUME NEW text \in Seq(Chars), NEW valid, NEW p \in Nat \ {0}, p <= Len(text),
         NEW e \in Flags, NEW i \in Nat, NEW c \in Int,
         CLook(text, p) \notin {"newline", "space", "return", "tab"},
         CLook(text, p) = "#" => valid \cap (CLayout \cup {"NAT"}) = {}
  PROVE  Comes(text, valid, Local("space", p, e, i, c)) = Local("layout", p, e, i, c)
<1> DEFINE s == Local("space", p, e, i, c)
           t == CTurn(text, valid, s)
<1>1. Turned(text, valid, s, t) /\ Comes(text, valid, s) = Comes(text, valid, t)
  BY LocalTurn
<1> HIDE DEF t
<1>2. CLook(text, p) # "eof"
  BY LookIn DEF Chars
<1>3. t = Local("layout", p, e, i, c)
  BY <1>1, <1>2 DEF Turned, Local, Flags
<1>4. Comes(text, valid, Local("layout", p, e, i, c)) = Local("layout", p, e, i, c)
  BY LocalEnd
<1> QED BY <1>1, <1>3, <1>4

\* The hash in front of place p is read, and what follows it is no comment line, or
\* is one.
HashRead(text, valid, p) ==
  CLook(text, p - 1) = "#" /\ valid \cap (CLayout \cup {"NAT"}) # {}

NoComment(d, valid, e) ==
  \/ d = "{"
  \/ d = "digit" /\ "NAT" \notin valid
  \/ d # "digit" /\ e # Found

CommentLine(d, e) == d \notin {"{", "digit"} /\ e = Found

LEMMA HashTurn ==
  ASSUME NEW text \in Seq(Chars), NEW valid, NEW p \in Nat, p > 1,
         NEW e \in Flags, NEW i \in Nat, NEW c \in Int, HashRead(text, valid, p)
  PROVE  LET s == Local("space", p - 1, e, i, c)
             t == CTurn(text, valid, s)
             first == IF c = -1 THEN i ELSE c
         IN  /\ Comes(text, valid, s) = Comes(text, valid, t)
             /\ NoComment(CLook(text, p), valid, e) => t = Local("fail", p - 1, e, i, c)
             /\ CommentLine(CLook(text, p), e) =>
                  t = Local("space", SpanEnd(text, p, CommentChars(text)) + 1, e, 0, first)
<1> DEFINE s == Local("space", p - 1, e, i, c)
           t == CTurn(text, valid, s)
           d == CLook(text, p)
           first == IF c = -1 THEN i ELSE c
           line == SpanEnd(text, p, CommentChars(text))
<1>1. p - 1 \in Nat \ {0} /\ (p - 1) + 1 = p
  BY ONLY p \in Nat, p > 1
<1>2. Turned(text, valid, s, t) /\ Comes(text, valid, s) = Comes(text, valid, t)
  BY ONLY <1>1, text \in Seq(Chars), e \in Flags, i \in Nat, c \in Int, LocalTurn
<1> HIDE DEF t
<1>3. CLook(text, p - 1) = "#" /\ valid \cap (CLayout \cup {"NAT"}) # {}
  BY DEF HashRead
<1>4. /\ d = "{" \/ (d = "digit" /\ "NAT" \notin valid) \/ (d # "digit" /\ ~e)
           => t = Local("fail", p - 1, e, i, c)
      /\ d \notin {"{", "digit"} /\ e => t = Local("space", line + 1, e, 0, first)
  <2>1. s.at = p - 1 /\ s.indent = i /\ s.comment = c
    BY DEF Local
  <2>2. d # "digit" /\ ~e => ~s.eol
    BY DEF Local
  <2>3. e => s.eol
    BY DEF Local
  <2>4. [s EXCEPT !.kind = "fail"] = Local("fail", p - 1, e, i, c)
    BY DEF Local
  <2>5. [s EXCEPT !.at = line + 1, !.indent = 0,
                  !.comment = IF s.comment = -1 THEN s.indent ELSE @] =
          Local("space", line + 1, e, 0, first)
    <3>1. s.comment = c /\ s.indent = i
      BY DEF Local
    <3>2. [s EXCEPT !.at = line + 1, !.indent = 0, !.comment = first] =
            Local("space", line + 1, e, 0, first)
      <4>1. s \in CLocals
        BY <1>1 DEF Local, CLocals, Flags
      <4>2. s.kind = "space" /\ s.eol = e
        BY DEF Local
      <4> HIDE DEF line, first, s
      <4>3. ASSUME NEW r, r = [s EXCEPT !.at = line + 1, !.indent = 0, !.comment = first]
            PROVE  r = [kind |-> s.kind, at |-> line + 1, eol |-> s.eol, indent |-> 0,
                        comment |-> first]
        BY <4>1, <4>3 DEF CLocals
      <4> QED BY ONLY <4>2, <4>3 DEF Local
    <3> HIDE DEF s
    <3> QED BY ONLY <3>1, <3>2 DEF first
  <2> HIDE DEF s, line, d, first
  <2>6. d = "{" \/ (d = "digit" /\ "NAT" \notin valid) \/ (d # "digit" /\ ~e)
           => t = [s EXCEPT !.kind = "fail"]
    <3>1. CLook(text, s.at) = "#" /\ CLook(text, s.at + 1) = d
      BY ONLY <1>1, <1>3, <2>1 DEF d
    <3>2. d = "{" \/ (d = "digit" /\ "NAT" \notin valid) \/ (d # "digit" /\ ~s.eol)
            => t = [s EXCEPT !.kind = "fail"]
      BY ONLY <3>1, <1>2, <1>3 DEF Turned
    <3> QED BY ONLY <3>2, <2>2
  <2>7. d \notin {"{", "digit"} /\ e =>
          t = [s EXCEPT !.at = line + 1, !.indent = 0,
                        !.comment = IF s.comment = -1 THEN s.indent ELSE @]
    BY ONLY <1>1, <1>2, <1>3, <2>1, <2>3 DEF Turned, d, line
  <2> QED BY ONLY <2>4, <2>5, <2>6, <2>7
<1>5. (e # Found => ~e) /\ (e = Found => e)
  BY ONLY e \in Flags DEF Found, Flags
<1>6. NoComment(d, valid, e) => t = Local("fail", p - 1, e, i, c)
  BY ONLY <1>4, <1>5 DEF NoComment
<1>7. CommentLine(d, e) => t = Local("space", line + 1, e, 0, first)
  BY ONLY <1>4, <1>5 DEF CommentLine
<1> QED BY ONLY <1>2, <1>6, <1>7 DEF t

LEMMA HashFails ==
  ASSUME NEW text \in Seq(Chars), NEW valid, NEW p \in Nat, p > 1,
         NEW e \in Flags, NEW i \in Nat, NEW c \in Int, HashRead(text, valid, p),
         NoComment(CLook(text, p), valid, e)
  PROVE  Comes(text, valid, Local("space", p - 1, e, i, c)) = Local("fail", p - 1, e, i, c)
<1> DEFINE s == Local("space", p - 1, e, i, c)
           t == CTurn(text, valid, s)
<1>1. Comes(text, valid, s) = Comes(text, valid, t) /\ t = Local("fail", p - 1, e, i, c)
  BY HashTurn
<1>2. p - 1 \in Nat
  BY ONLY p \in Nat, p > 1
<1>5. Comes(text, valid, Local("fail", p - 1, e, i, c)) = Local("fail", p - 1, e, i, c)
  <2>1. "fail" \in {"NAT", "fail"} OBVIOUS
  <2> QED
    BY ONLY <1>2, <2>1, text \in Seq(Chars), e \in Flags, i \in Nat, c \in Int, LocalEnd
<1> QED BY ONLY <1>1, <1>5

LEMMA HashDigits ==
  ASSUME NEW text \in Seq(Chars), NEW valid, NEW p \in Nat, p > 1,
         NEW e \in Flags, NEW i \in Nat, NEW c \in Int, HashRead(text, valid, p),
         CLook(text, p) = "digit", "NAT" \in valid
  PROVE  Comes(text, valid, Local("space", p - 1, e, i, c)) =
           Local("NAT", SpanEnd(text, p, {"digit"}), e, i, c)
<1> DEFINE s == Local("space", p - 1, e, i, c)
           t == CTurn(text, valid, s)
<1>1. p - 1 \in Nat \ {0} /\ p - 1 \in Nat /\ (p - 1) + 1 = p /\ p \in Nat \ {0}
  OBVIOUS
<1>2. Turned(text, valid, s, t) /\ Comes(text, valid, s) = Comes(text, valid, t)
  BY <1>1, LocalTurn
<1> HIDE DEF t
<1> DEFINE end == SpanEnd(text, p, {"digit"})
<1>3. t = Local("NAT", end, e, i, c)
  BY <1>1, <1>2 DEF Turned, Local, HashRead
<1>4. end \in Nat
  BY <1>1, SpanEndIs, "eof" \notin {"digit"}
<1> HIDE DEF end
<1>5. Comes(text, valid, Local("NAT", end, e, i, c)) = Local("NAT", end, e, i, c)
  <2>1. "NAT" \in {"NAT", "fail"} OBVIOUS
  <2> QED
    BY ONLY <1>4, <2>1, text \in Seq(Chars), e \in Flags, i \in Nat, c \in Int, LocalEnd
<1> QED BY ONLY <1>2, <1>3, <1>5 DEF end

LEMMA HashLine ==
  ASSUME NEW text \in Seq(Chars), NEW valid, NEW p \in Nat, p > 1,
         NEW e \in Flags, NEW i \in Nat, NEW c \in Int, NEW first,
         HashRead(text, valid, p), CommentLine(CLook(text, p), e),
         first = IF c = -1 THEN i ELSE c
  PROVE  Comes(text, valid, Local("space", p - 1, e, i, c)) =
           Comes(text, valid,
                 Local("space", SpanEnd(text, p, CommentChars(text)) + 1, e, 0, first))
  BY HashTurn

-----------------------------------------------------------------------------
(***************************************************************************)
(* What the C scanner makes of the place and the columns it comes to.      *)
(***************************************************************************)
LEMMA PathIs ==
  ASSUME NEW text \in Seq(Chars), NEW p \in Nat \ {0}, NEW valid
  PROVE  LET slash == SpanEnd(text, p, CIdentifier)
             after == CLook(text, SpanEnd(text, slash + 1, CIdentifier))
             path == CPath(text, p, valid)
         IN  /\ "PATH" \notin valid => path = "none"
             /\ CLook(text, p) \notin CIdentifier => path = "none"
             /\ CLook(text, slash) # "/" => path = "none"
             /\ /\ "PATH" \in valid
                /\ CLook(text, p) \in CIdentifier
                /\ CLook(text, slash) = "/"
                => path = IF "PATH_EXPR" \in valid /\ after \notin {"{", ":"}
                            THEN "PATH_EXPR" ELSE "PATH"
<1> DEFINE slash == SpanEnd(text, p, CIdentifier)
<1>1. /\ slash \in Nat /\ slash >= p /\ CLook(text, slash) \notin CIdentifier
      /\ CLook(text, p) \notin CIdentifier => slash = p
  <2>1. "eof" \notin CIdentifier
    BY DEF CIdentifier
  <2> QED BY <2>1, SpanEndIs, SpanStops
<1>2. CLook(text, p) \in CIdentifier => slash > p
  BY <1>1
<1>3. CLook(text, p) \notin CIdentifier => ~(slash > p)
  BY <1>1
<1> HIDE DEF slash
<1> QED BY <1>2, <1>3 DEF CPath, slash

\* A call depends on the loop only by what it comes to.
LEMMA ScanIsDecided ==
  ASSUME NEW text \in Seq(Chars), NEW valid, NEW start \in Nat, NEW array
  PROVE  CScan(text, start, array, valid) =
           CDecided(text, start, array, valid,
                    Comes(text, valid, CStart(start)))
<1> DEFINE s == CStart(start)
           o == CSpace(text, valid)[s]
           r == Settled(text, o)
           N == Len(text)
<1>1. s \in CLocals
  BY DEF CStart, CLocals
<1>2. o \in CLocals
  <2> HIDE DEF s
  <2> QED BY <1>1, SpaceTurns DEF Ended
<1>3. N \in Nat OBVIOUS
<1> HIDE DEF o, N
<1>4. CASE o.kind = "layout" /\ o.at > N
  <2>1. o = [kind |-> o.kind, at |-> o.at, eol |-> o.eol, indent |-> o.indent,
             comment |-> o.comment]
    BY <1>2 DEF CLocals
  <2>2. r = [o EXCEPT !.at = N + 1]
    BY <1>4 DEF Settled, N
  <2>3. r = [kind |-> o.kind, at |-> N + 1, eol |-> o.eol, indent |-> o.indent,
             comment |-> o.comment]
    BY <2>1, <2>2
  <2> HIDE DEF r
  <2>4. /\ r.kind = "layout" /\ r.eol = o.eol /\ r.indent = o.indent
        /\ r.comment = o.comment /\ r.at = N + 1
    BY <1>4, <2>3
  <2>5. o.at \in Nat \ {0} /\ r.at \in Nat \ {0} /\ r.at > N
    BY <1>2, <1>3, <1>4, <2>4 DEF CLocals
  <2>6. CLook(text, o.at) \notin CIdentifier /\ CLook(text, r.at) \notin CIdentifier
    BY <1>4, <2>5 DEF CLook, CIdentifier, N
  <2>7. CPath(text, o.at, valid) = "none" /\ CPath(text, r.at, valid) = "none"
    BY <2>5, <2>6, PathIs
  <2>8. CDecided(text, start, array, valid, o) = CDecided(text, start, array, valid, r)
    BY <1>4, <2>4, <2>7 DEF CDecided
  <2> QED BY <2>8 DEF CScan, Comes, o, r
<1>5. CASE ~(o.kind = "layout" /\ o.at > N)
  <2>1. r = o
    BY <1>5 DEF Settled, N
  <2> HIDE DEF r
  <2> QED BY <2>1 DEF CScan, Comes, o, r
<1> QED BY <1>4, <1>5

Returned(t, p, array) == [token |-> t, pos |-> p, indents |-> array]

LEMMA DecidedInRecovery ==
  ASSUME NEW text, NEW start, NEW array, NEW valid, NEW space, "ERROR" \in valid
  PROVE  CDecided(text, start, array, valid, space) = Returned("none", start, array)
  BY DEF CDecided, Returned

LEMMA DecidedInTheLoop ==
  ASSUME NEW text, NEW start, NEW array, NEW valid, NEW p, NEW e, NEW i, NEW c
  PROVE  /\ CDecided(text, start, array, valid, Local("fail", p, e, i, c)) =
              Returned("none", start, array)
         /\ "ERROR" \notin valid =>
              CDecided(text, start, array, valid, Local("NAT", p, e, i, c)) =
                Returned("NAT", p, array)
<1>1. CDecided(text, start, array, valid, Local("fail", p, e, i, c)) =
        Returned("none", start, array)
  BY DEF CDecided, Returned, Local
<1>2. "ERROR" \notin valid =>
        CDecided(text, start, array, valid, Local("NAT", p, e, i, c)) =
          Returned("NAT", p, array)
  BY DEF CDecided, Returned, Local
<1> QED BY <1>1, <1>2

\* The decisions at the end of the loop, in their order: INDENT, DEDENT, NEWLINE, the
\* path in front of word, or nothing.
Decides(decided, start, array, valid, e, i, c, path, word) ==
  LET opens == e /\ "INDENT" \in valid /\ i > Back(array)
      closes == /\ e
                /\ "DEDENT" \in valid \/ "NEWLINE" \notin valid
                /\ i < Back(array)
                /\ c < Back(array)
      newline == e /\ "NEWLINE" \in valid
  IN  /\ opens => decided = Returned("INDENT", start, Pushed(array, i % CWordRange))
      /\ ~opens /\ closes => decided = Returned("DEDENT", start, Popped(array))
      /\ ~opens /\ ~closes /\ newline => decided = Returned("NEWLINE", start, array)
      /\ ~opens /\ ~closes /\ ~newline /\ path # "none" =>
           decided = Returned(path, word, array)
      /\ ~opens /\ ~closes /\ ~newline /\ path = "none" =>
           decided = Returned("none", start, array)

LEMMA DecidedLayout ==
  ASSUME NEW text, NEW start, NEW array, NEW valid, NEW p, NEW e \in Flags, NEW i, NEW c,
         "ERROR" \notin valid, array.size > 0
  PROVE  Decides(CDecided(text, start, array, valid, Local("layout", p, e, i, c)),
                 start, array, valid, e, i, c, CPath(text, p, valid),
                 SpanEnd(text, p, CIdentifier))
<1> DEFINE space == Local("layout", p, e, i, c)
<1>1. /\ space.kind = "layout" /\ space.at = p /\ space.eol = e /\ space.indent = i
      /\ space.comment = c
  BY DEF Local
<1> HIDE DEF space
<1> QED BY <1>1 DEF CDecided, Returned, space, Decides, Flags

-----------------------------------------------------------------------------
\* The Go scanner beside the C scanner does what it does alone.
THEOREM ParityImplementsScanner == ParitySpec => Spec
<1>1. ParityInit => Init
  BY DEF ParityInit
<1>2. [ParityNext]_<<vars, cvars>> => [Next]_vars
  BY DEF ParityNext, Next, vars
<1> QED
  BY <1>1, <1>2, PTL DEF ParitySpec, Spec

\* So the blocks nest in any parse by both (ScannerProofs).
THEOREM ParityNests == ParitySpec => [](TypeOK /\ BlocksNest /\ BlocksAreTheParsers)
<1> QED
  BY ParityImplementsScanner, TypeCorrectness, Nesting, BlockAccounting, PTL

-----------------------------------------------------------------------------
(***************************************************************************)
(* In the middle of a call the Go scanner is where the C scanner comes by. *)
(***************************************************************************)
\* What C's loop comes to from the start of the call, and from a turn with the
\* locals of the Go scanner.
Ran == Comes(input, scan.valid, CStart(scan.start))

FromHere(p, i) ==
  Comes(input, scan.valid, Local("space", p, scan.foundEOL, i, scan.firstComment))

InLayout(p) == Ran = Local("layout", p, scan.foundEOL, scan.indent, scan.firstComment)

NoLayout == ~Opens /\ ~Closes /\ ~(scan.foundEOL /\ Accepts("NEWLINE"))

\* The loop ended in front of a word that ends at q.
WordTo(q) ==
  \E p \in 1 .. Len(input) : /\ InLayout(p)
                             /\ CLook(input, p) \in CIdentifier
                             /\ SpanEnd(input, p, CIdentifier) = q

Follows ==
  /\ scan.firstComment >= -1
  /\ pc \notin {"idle", "space"} => "ERROR" \notin scan.valid
  /\ pc \notin {"idle", "component"} => scan.mark = scan.start
  /\ pc = "space" => Ran = FromHere(pos, scan.indent)
  /\ pc = "hash" => /\ pos > 1
                    /\ CLook(input, pos - 1) = "#"
                    /\ scan.valid \cap (CLayout \cup {"NAT"}) # {}
                    /\ Ran = FromHere(pos - 1, scan.indent)
  /\ pc = "digits" => Ran = Local("NAT", SpanEnd(input, pos, {"digit"}), scan.foundEOL,
                                  scan.indent, scan.firstComment)
  /\ pc = "comment" =>
       Ran = FromHere(SpanEnd(input, pos, CommentChars(input)) + 1, 0)
  /\ pc \in {"layout", "path"} => InLayout(pos)
  /\ pc \in {"path", "word", "component", "name"} => NoLayout
  /\ pc \in {"word", "component", "name"} => "PATH" \in scan.valid
  /\ pc \in {"word", "component"} => "PATH_EXPR" \in scan.valid
  /\ pc = "name" => "PATH_EXPR" \notin scan.valid
  /\ pc \in {"word", "name"} => WordTo(SpanEnd(input, pos, CIdentifier))
  /\ pc = "component" =>
       /\ WordTo(scan.mark)
       /\ CLook(input, scan.mark) = "/"
       /\ SpanEnd(input, scan.mark + 1, CIdentifier) = SpanEnd(input, pos, CIdentifier)

\* Between two calls, and in the middle of one.
SameState ==
  /\ cIndents \in SoundArrays
  /\ cSaved \in Seq(Int)
  /\ ~HasNul => Stack(cIndents) = indents /\ cSaved = saved.bytes /\ Follows

\* A step goes on side by side, or ends the call as C ends it.
Parallel ==
  /\ Follows'
  /\ pc' # "idle" => indents' = indents
  /\ pc' = "idle" => /\ token' = CReturns.token
                     /\ pos' = CReturns.pos
                     /\ Stack(CReturns.indents) = indents'

LEMMA CallFacts ==
  ASSUME IInv
  PROVE  /\ input \in Seq(Chars) /\ Len(input) \in Nat
         /\ pos \in Nat \ {0} /\ pos <= Len(input) + 1
         /\ scan.start \in Nat \ {0} /\ scan.mark \in Nat \ {0}
         /\ scan.foundEOL \in Flags /\ scan.indent \in Nat
         /\ scan.firstComment \in Int
         /\ scan = [start |-> scan.start, mark |-> scan.mark, valid |-> scan.valid,
                    foundEOL |-> scan.foundEOL, indent |-> scan.indent,
                    firstComment |-> scan.firstComment]
  BY DEF IInv, PlaceOK, Places, Locals, Flags

\* Without NUL characters both see the same character, and the same end.
LEMMA BothLook ==
  ASSUME IInv, ~HasNul
  PROVE  /\ pos <= Len(input) => /\ Lookahead = CLook(input, pos)
                                 /\ CLook(input, pos) \in Chars \ {"nul"}
                                 /\ Advanced = pos + 1
         /\ pos > Len(input) => /\ Lookahead = "nul" /\ CLook(input, pos) = "eof"
                                /\ Advanced = pos /\ pos = Len(input) + 1
<1>1. /\ input \in Seq(Chars) /\ Len(input) \in Nat
      /\ pos \in Nat \ {0} /\ pos <= Len(input) + 1
  BY CallFacts
<1>2. pos <= Len(input) => input[pos] # "nul"
  <2>1. pos <= Len(input) => pos \in DOMAIN input
    BY <1>1
  <2> QED BY <2>1 DEF HasNul
<1> QED BY <1>1, <1>2, LookIn DEF Lookahead, Advanced, CLook

LEMMA Returns ==
  ASSUME IInv
  PROVE  CReturns = CDecided(input, scan.start, cIndents, scan.valid, Ran)
  BY CallFacts, ScanIsDecided DEF CReturns, Ran

LEMMA FailParallel ==
  ASSUME IInv, Fail, Stack(cIndents) = indents,
         CReturns = Returned("none", scan.start, cIndents)
  PROVE  Parallel
<1>1. Follows'
  BY DEF Fail, Follows, Idle
<1> QED BY <1>1 DEF Fail, Parallel, Returned, NoToken, state

LEMMA EmitParallel ==
  ASSUME IInv, Stack(cIndents) = indents, NEW t, NEW end, Emit(t, end), UNCHANGED state,
         CReturns = Returned(t, end, cIndents)
  PROVE  Parallel
<1>1. Follows'
  BY DEF Emit, Follows, Idle
<1> QED BY <1>1 DEF Emit, Parallel, Returned, state

LEMMA RefuseParallel ==
  ASSUME IInv, Follows, Stack(cIndents) = indents, Refuse
  PROVE  Parallel
<1>1. CReturns = Returned("none", scan.start, cIndents)
  BY Returns, DecidedInRecovery DEF Refuse, Accepts
<1> QED BY <1>1, FailParallel DEF Refuse

LEMMA BlankParallel ==
  ASSUME IInv, Follows, ~HasNul, Blank
  PROVE  Parallel
<1>1. /\ pc = "space" /\ pc' = "space" /\ "ERROR" \notin scan.valid
      /\ input' = input /\ indents' = indents /\ pos' = Advanced
  BY DEF Blank, InSpace, Read, Accepts, parser, state
<1>2. Lookahead = CLook(input, pos) /\ pos' = pos + 1
  BY <1>1, CallFacts, BothLook DEF Blank
<1>3. Ran = FromHere(pos, scan.indent) /\ scan.firstComment >= -1 /\ scan.mark = scan.start
  BY <1>1 DEF Follows
<1>4. /\ scan'.start = scan.start /\ scan'.mark = scan.mark /\ scan'.valid = scan.valid
      /\ scan'.firstComment = scan.firstComment
      /\ Moves(Lookahead, scan.foundEOL, scan.indent, scan'.foundEOL, scan'.indent)
  BY CallFacts DEF Blank, TabWidth, Moves, Found
<1>5. FromHere(pos, scan.indent) =
        Comes(input, scan.valid,
              Local("space", pos + 1, scan'.foundEOL, scan'.indent, scan'.firstComment))
  <2>1. /\ input \in Seq(Chars) /\ pos \in Nat \ {0} /\ scan.foundEOL \in Flags
        /\ scan.indent \in Nat /\ scan.firstComment \in Int
    BY CallFacts
  <2>2. Moves(CLook(input, pos), scan.foundEOL, scan.indent, scan'.foundEOL, scan'.indent)
    BY <1>2, <1>4
  <2>3. FromHere(pos, scan.indent) =
          Comes(input, scan.valid,
                Local("space", pos + 1, scan'.foundEOL, scan'.indent, scan.firstComment))
    BY ONLY <2>1, <2>2, BlankTurn DEF FromHere
  <2> QED BY <1>4, <2>3
<1>6. (Ran = FromHere(pos, scan.indent))'
  BY <1>1, <1>2, <1>3, <1>4, <1>5 DEF Ran, FromHere
<1>7. Follows'
  BY <1>1, <1>3, <1>4, <1>6 DEF Follows
<1> QED BY <1>1, <1>7 DEF Parallel

LEMMA HashParallel ==
  ASSUME IInv, Follows, ~HasNul, Hash
  PROVE  Parallel
<1>1. /\ pc = "space" /\ pc' = "hash" /\ "ERROR" \notin scan.valid
      /\ input' = input /\ indents' = indents /\ pos' = Advanced /\ scan' = scan
      /\ Lookahead = "#" /\ scan.valid \cap (CLayout \cup {"NAT"}) # {}
  BY DEF Hash, InSpace, ReadsHash, Read, Accepts, parser, state, CLayout, Layout
<1>2. /\ pos \in Nat \ {0} /\ pos' = pos + 1 /\ pos' > 1 /\ pos' - 1 = pos
      /\ CLook(input, pos) = "#"
  BY <1>1, CallFacts, BothLook
<1>3. Ran = FromHere(pos, scan.indent) /\ scan.firstComment >= -1 /\ scan.mark = scan.start
  BY <1>1 DEF Follows
<1>4. (Ran = FromHere(pos - 1, scan.indent))'
  BY <1>1, <1>2, <1>3 DEF Ran, FromHere
<1>5. Follows'
  BY <1>1, <1>2, <1>3, <1>4 DEF Follows
<1> QED BY <1>1, <1>5 DEF Parallel

LEMMA EndOfSourceParallel ==
  ASSUME IInv, Follows, ~HasNul, EndOfSource
  PROVE  Parallel
<1>1. /\ pc = "space" /\ pc' = "layout" /\ "ERROR" \notin scan.valid
      /\ input' = input /\ indents' = indents /\ pos' = pos /\ Lookahead = "nul"
  BY DEF EndOfSource, InSpace, Accepts, parser, state
<1>2. /\ scan'.start = scan.start /\ scan'.mark = scan.mark /\ scan'.valid = scan.valid
      /\ scan'.firstComment = scan.firstComment
      /\ scan'.foundEOL = Found /\ scan'.indent = 0
  BY CallFacts DEF EndOfSource, Found
<1>3. /\ input \in Seq(Chars) /\ pos \in Nat \ {0} /\ scan.foundEOL \in Flags
      /\ scan.indent \in Nat /\ scan.firstComment \in Int
      /\ pos > Len(input) /\ pos = Len(input) + 1
  <2>1. ~(pos <= Len(input))
    BY <1>1, BothLook
  <2> QED BY <2>1, CallFacts, BothLook
<1>4. FromHere(pos, scan.indent) = Local("layout", Len(input) + 1, Found, 0, scan.firstComment)
  BY ONLY <1>3, EndTurn DEF FromHere
<1>5. Ran = FromHere(pos, scan.indent) /\ scan.firstComment >= -1 /\ scan.mark = scan.start
  BY <1>1 DEF Follows
<1>6. InLayout(pos)'
  BY <1>1, <1>2, <1>3, <1>4, <1>5 DEF InLayout, Ran
<1>7. Follows'
  BY <1>1, <1>2, <1>5, <1>6 DEF Follows
<1> QED BY <1>1, <1>7 DEF Parallel

LEMMA EndOfSpaceParallel ==
  ASSUME IInv, Follows, ~HasNul, EndOfSpace
  PROVE  Parallel
<1>1. /\ pc = "space" /\ pc' = "layout" /\ "ERROR" \notin scan.valid
      /\ input' = input /\ indents' = indents /\ pos' = pos /\ scan' = scan
      /\ Lookahead \notin {"newline", "space", "return", "tab", "nul"}
      /\ Lookahead = "#" => scan.valid \cap (CLayout \cup {"NAT"}) = {}
  BY DEF EndOfSpace, InSpace, ReadsHash, Accepts, parser, state, CLayout, Layout
<1>2. /\ input \in Seq(Chars) /\ pos \in Nat \ {0} /\ scan.foundEOL \in Flags
      /\ scan.indent \in Nat /\ scan.firstComment \in Int
      /\ pos <= Len(input)
      /\ CLook(input, pos) \notin {"newline", "space", "return", "tab"}
      /\ CLook(input, pos) = "#" => scan.valid \cap (CLayout \cup {"NAT"}) = {}
  <2>1. ~(pos > Len(input))
    BY <1>1, BothLook
  <2>2. pos <= Len(input)
    BY <2>1, CallFacts
  <2> QED BY <1>1, <2>2, CallFacts, BothLook
<1>3. FromHere(pos, scan.indent) =
        Local("layout", pos, scan.foundEOL, scan.indent, scan.firstComment)
  BY ONLY <1>2, TextTurn DEF FromHere
<1>4. Ran = FromHere(pos, scan.indent) /\ scan.firstComment >= -1 /\ scan.mark = scan.start
  BY <1>1 DEF Follows
<1>5. InLayout(pos)'
  BY <1>1, <1>3, <1>4 DEF InLayout, Ran
<1>6. Follows'
  BY <1>1, <1>4, <1>5 DEF Follows
<1> QED BY <1>1, <1>6 DEF Parallel

LEMMA HashedParallel ==
  ASSUME IInv, Follows, ~HasNul, Stack(cIndents) = indents, Hashed
  PROVE  Parallel
<1>1. pc = "hash" /\ "ERROR" \notin scan.valid
  BY DEF Hashed, Follows
<1>2. /\ input \in Seq(Chars) /\ pos \in Nat /\ pos > 1 /\ scan.foundEOL \in Flags
      /\ scan.indent \in Nat /\ scan.firstComment \in Int
      /\ HashRead(input, scan.valid, pos)
  BY <1>1, CallFacts DEF Follows, HashRead
<1>3. /\ Ran = FromHere(pos - 1, scan.indent) /\ scan.firstComment >= -1
      /\ scan.mark = scan.start
  BY <1>1 DEF Follows
<1>4. /\ Lookahead = "{" => CLook(input, pos) = "{"
      /\ Lookahead = "digit" => CLook(input, pos) = "digit"
      /\ Lookahead \notin {"{", "digit"} => CLook(input, pos) \notin {"{", "digit"}
  <2>1. CASE pos <= Len(input)
    <3>1. Lookahead = CLook(input, pos)
      BY <2>1, BothLook
    <3> QED BY ONLY <3>1
  <2>2. CASE pos > Len(input)
    <3>1. Lookahead = "nul" /\ CLook(input, pos) = "eof"
      BY <2>2, BothLook
    <3> QED BY ONLY <3>1
  <2>3. pos <= Len(input) \/ pos > Len(input)
    BY ONLY <1>2, Len(input) \in Nat, CallFacts
  <2> QED BY ONLY <2>1, <2>2, <2>3
<1>5. CASE /\ \/ Lookahead = "{"
              \/ Lookahead = "digit" /\ ~Accepts("NAT")
              \/ Lookahead \notin {"{", "digit"} /\ ~scan.foundEOL
           /\ Fail
  <2>1. NoComment(CLook(input, pos), scan.valid, scan.foundEOL)
    <3>1. ~scan.foundEOL => scan.foundEOL # Found
      BY ONLY TRUE DEF Found
    <3> QED BY ONLY <1>4, <1>5, <3>1 DEF Accepts, NoComment
  <2>2. Ran = Local("fail", pos - 1, scan.foundEOL, scan.indent, scan.firstComment)
    BY ONLY <1>2, <1>3, <2>1, HashFails DEF FromHere
  <2>3. CReturns = Returned("none", scan.start, cIndents)
    BY ONLY IInv, Returns, <2>2, DecidedInTheLoop
  <2> QED BY <1>5, <2>3, FailParallel
<1>6. CASE /\ Lookahead = "digit" /\ Accepts("NAT")
           /\ pc' = "digits"
           /\ UNCHANGED <<pos, scan, token, state, parser>>
  <2>1. CLook(input, pos) = "digit" /\ "NAT" \in scan.valid
    BY <1>4, <1>6 DEF Accepts
  <2>2. Ran = Local("NAT", SpanEnd(input, pos, {"digit"}), scan.foundEOL, scan.indent,
                    scan.firstComment)
    BY ONLY <1>2, <1>3, <2>1, HashDigits DEF FromHere
  <2>3. pos' = pos /\ scan' = scan /\ input' = input /\ indents' = indents
    BY <1>6 DEF parser, state
  <2>4. Ran' = Ran
    BY <2>3 DEF Ran
  <2>5. Follows'
    BY <1>1, <1>3, <1>6, <2>2, <2>3, <2>4 DEF Follows
  <2> QED BY <1>6, <2>3, <2>5 DEF Parallel
<1>7. CASE /\ Lookahead \notin {"{", "digit"} /\ scan.foundEOL
           /\ scan' = [scan EXCEPT !.firstComment = IF @ < 0 THEN scan.indent ELSE @]
           /\ pc' = "comment"
           /\ UNCHANGED <<pos, token, state, parser>>
  <2> DEFINE first == IF scan.firstComment = -1 THEN scan.indent ELSE scan.firstComment
             line == SpanEnd(input, pos, CommentChars(input))
  <2>1. CommentLine(CLook(input, pos), scan.foundEOL)
    <3>1. scan.foundEOL => scan.foundEOL = Found
      BY ONLY <1>2 DEF Found, Flags
    <3> QED BY ONLY <1>4, <1>7, <3>1 DEF CommentLine
  <2>2. FromHere(pos - 1, scan.indent) =
          Comes(input, scan.valid, Local("space", line + 1, scan.foundEOL, 0, first))
    <3>1. first = IF scan.firstComment = -1 THEN scan.indent ELSE scan.firstComment
      OBVIOUS
    <3> HIDE DEF first
    <3> QED BY ONLY <1>2, <2>1, <3>1, HashLine DEF FromHere
  <2>3. /\ pos' = pos /\ input' = input /\ indents' = indents
        /\ scan'.start = scan.start /\ scan'.mark = scan.mark /\ scan'.valid = scan.valid
        /\ scan'.foundEOL = scan.foundEOL /\ scan'.indent = scan.indent
        /\ scan'.firstComment = first /\ first >= -1
    <3>1. (IF scan.firstComment < 0 THEN scan.indent ELSE scan.firstComment) = first
      BY <1>2, <1>3
    <3>2. first >= -1
      BY <1>2, <1>3
    <3> HIDE DEF first
    <3>3. scan' = [scan EXCEPT !.firstComment = first]
      BY <1>7, <3>1
    <3> QED BY <1>7, <3>2, <3>3, CallFacts DEF parser, state
  <2> HIDE DEF first
  <2>4. (Ran = FromHere(SpanEnd(input, pos, CommentChars(input)) + 1, 0))'
    BY <1>3, <2>2, <2>3 DEF Ran, FromHere
  <2>5. Follows'
    BY <1>1, <1>3, <1>7, <2>3, <2>4 DEF Follows
  <2> QED BY <1>7, <2>3, <2>5 DEF Parallel
<1> QED BY <1>5, <1>6, <1>7 DEF Hashed

LEMMA DigitsParallel ==
  ASSUME IInv, Follows, ~HasNul, Stack(cIndents) = indents, Digits
  PROVE  Parallel
<1> DEFINE end == SpanEnd(input, pos, {"digit"})
<1>1. pc = "digits" /\ "ERROR" \notin scan.valid
  BY DEF Digits, Follows
<1>2. /\ scan.firstComment >= -1 /\ scan.mark = scan.start
      /\ Ran = Local("NAT", end, scan.foundEOL, scan.indent, scan.firstComment)
  BY <1>1 DEF Follows
<1>3. input \in Seq(Chars) /\ pos \in Nat \ {0} /\ "eof" \notin {"digit"}
  BY CallFacts
<1>4. pos <= Len(input) \/ pos > Len(input)
  BY CallFacts
<1>5. CASE Lookahead = "digit" /\ Read("digits") /\ UNCHANGED scan
  <2>1. ~(pos > Len(input))
    BY <1>5, BothLook
  <2>2. CLook(input, pos) \in {"digit"} /\ Advanced = pos + 1
    BY <1>4, <1>5, <2>1, BothLook
  <2>3. end = SpanEnd(input, pos + 1, {"digit"})
    BY ONLY <1>3, <2>2, SpanGoesOn
  <2>4. /\ pc' = "digits" /\ pos' = pos + 1 /\ scan' = scan /\ input' = input
        /\ indents' = indents
    BY <1>5, <2>2 DEF Read, parser, state
  <2> HIDE DEF end
  <2>5. Ran' = Ran
    BY <2>4 DEF Ran
  <2>6. (Ran = Local("NAT", SpanEnd(input, pos, {"digit"}), scan.foundEOL, scan.indent,
                     scan.firstComment))'
    BY <1>2, <2>3, <2>4, <2>5
  <2>7. Follows'
    BY <1>1, <1>2, <2>4, <2>6 DEF Follows
  <2> QED BY <2>4, <2>7 DEF Parallel
<1>6. CASE Lookahead # "digit" /\ Emit("NAT", pos) /\ UNCHANGED state
  <2>1. CLook(input, pos) \notin {"digit"}
    <3>1. CASE pos <= Len(input)
      BY <1>6, <3>1, BothLook
    <3>2. CASE pos > Len(input)
      BY <3>2, BothLook
    <3> QED BY <1>4, <3>1, <3>2
  <2>2. end = pos
    BY ONLY <1>3, <2>1, SpanStops
  <2>3. CReturns = Returned("NAT", pos, cIndents)
    <3> HIDE DEF end
    <3>1. Ran = Local("NAT", pos, scan.foundEOL, scan.indent, scan.firstComment)
      BY <1>2, <2>2
    <3> QED BY ONLY IInv, Returns, <1>1, <3>1, DecidedInTheLoop
  <2> QED BY <1>6, <2>3, EmitParallel
<1> QED BY <1>5, <1>6 DEF Digits

\* At the end of the source the comment ends behind it.
LEMMA EndsAlike ==
  ASSUME NEW text \in Seq(Chars), NEW valid, NEW e \in Flags, NEW c \in Int
  PROVE  Comes(text, valid, Local("space", Len(text) + 1, e, 0, c)) =
           Comes(text, valid, Local("space", Len(text) + 2, e, 0, c))
<1>1. /\ Len(text) + 1 \in Nat \ {0} /\ Len(text) + 1 > Len(text)
      /\ Len(text) + 2 \in Nat \ {0} /\ Len(text) + 2 > Len(text) /\ 0 \in Nat
  OBVIOUS
<1> QED BY <1>1, EndTurn

LEMMA CommentParallel ==
  ASSUME IInv, Follows, ~HasNul, Comment
  PROVE  Parallel
<1> DEFINE class == CommentChars(input)
           end == SpanEnd(input, pos, class)
<1>1. pc = "comment" /\ "ERROR" \notin scan.valid
  BY DEF Comment, Follows
<1>2. /\ scan.firstComment >= -1 /\ scan.mark = scan.start
      /\ Ran = FromHere(end + 1, 0)
  BY <1>1 DEF Follows
<1>3. input \in Seq(Chars) /\ pos \in Nat \ {0} /\ "eof" \notin class
  BY CallFacts, CommentCharsEnd
<1>4. pos <= Len(input) \/ pos > Len(input)
  BY CallFacts
<1>5. CASE Lookahead \notin {"nul", "newline"} /\ Read("comment") /\ UNCHANGED scan
  <2>1. ~(pos > Len(input))
    BY <1>5, BothLook
  <2>2. pos <= Len(input) /\ Lookahead = CLook(input, pos) /\ Advanced = pos + 1
    BY <1>4, <2>1, BothLook
  <2>3. CLook(input, pos) \in class
    <3>1. pos \in DOMAIN input /\ input[pos] = CLook(input, pos)
      BY <1>3, <2>2, LookIn
    <3> QED BY <1>5, <2>2, <3>1 DEF CommentChars
  <2> HIDE DEF class
  <2>4. end = SpanEnd(input, pos + 1, class)
    BY ONLY <1>3, <2>3, SpanGoesOn
  <2>5. /\ pc' = "comment" /\ pos' = pos + 1 /\ scan' = scan /\ input' = input
        /\ indents' = indents
    BY <1>5, <2>2 DEF Read, parser, state
  <2>6. (Ran = FromHere(SpanEnd(input, pos, CommentChars(input)) + 1, 0))'
    <3>1. SpanEnd(input, pos, CommentChars(input))' = end
      BY <2>4, <2>5 DEF class
    <3> HIDE DEF end
    <3> QED BY <1>2, <2>5, <3>1 DEF Ran, FromHere
  <2>7. Follows'
    BY <1>1, <1>2, <2>5, <2>6 DEF Follows
  <2> QED BY <2>5, <2>7 DEF Parallel
<1>6. CASE /\ Lookahead \in {"nul", "newline"}
           /\ Read("space")
           /\ scan' = [scan EXCEPT !.indent = 0]
  <2>1. CLook(input, pos) \notin class
    <3>1. CASE pos <= Len(input)
      BY <1>6, <3>1, BothLook DEF CommentChars
    <3>2. CASE pos > Len(input)
      BY <1>3, <3>2, BothLook
    <3> QED BY <1>4, <3>1, <3>2
  <2> HIDE DEF class
  <2>2. end = pos
    BY ONLY <1>3, <2>1, SpanStops
  <2>3. /\ pc' = "space" /\ pos' = Advanced /\ input' = input /\ indents' = indents
        /\ scan'.start = scan.start /\ scan'.mark = scan.mark /\ scan'.valid = scan.valid
        /\ scan'.foundEOL = scan.foundEOL /\ scan'.indent = 0
        /\ scan'.firstComment = scan.firstComment
    BY <1>6, CallFacts DEF Read, parser, state
  <2>4. FromHere(pos + 1, 0) = FromHere(Advanced, 0)
    <3>1. CASE pos <= Len(input)
      <4>1. Advanced = pos + 1
        BY <3>1, BothLook
      <4> QED BY <4>1
    <3>2. CASE pos > Len(input)
      <4>1. Advanced = Len(input) + 1 /\ pos = Len(input) + 1
        BY <3>2, BothLook
      <4>2. pos + 1 = Len(input) + 2
        BY <4>1, CallFacts
      <4>3. scan.foundEOL \in Flags /\ scan.firstComment \in Int
        BY CallFacts
      <4> QED BY ONLY <1>3, <4>1, <4>2, <4>3, EndsAlike DEF FromHere
    <3> QED BY <1>4, <3>1, <3>2
  <2>5. (Ran = FromHere(pos, scan.indent))'
    <3> HIDE DEF end
    <3>1. Ran = FromHere(Advanced, 0)
      BY <1>2, <2>2, <2>4
    <3> QED BY <2>3, <3>1 DEF Ran, FromHere
  <2>6. Follows'
    BY <1>1, <1>2, <2>3, <2>5 DEF Follows
  <2> QED BY <2>3, <2>6 DEF Parallel
<1> QED BY <1>5, <1>6 DEF Comment

\* The top of the array is the top of the stack.
LEMMA TopsAgree ==
  ASSUME IInv, cIndents \in SoundArrays, Stack(cIndents) = indents
  PROVE  /\ cIndents \in Arrays /\ Sound(cIndents)
         /\ cIndents.size > 0 /\ cIndents.size >= 1
         /\ Back(cIndents) = Top(indents)
<1>1. cIndents \in Arrays /\ Sound(cIndents)
  BY DEF SoundArrays
<1>2. /\ cIndents.size \in Nat /\ cIndents.contents \in Seq(Int)
      /\ cIndents.size <= Len(cIndents.contents)
  BY <1>1 DEF Arrays, Sound
<1>3. Len(Stack(cIndents)) = cIndents.size
  BY <1>2 DEF Stack
<1>4. Len(indents) >= 1 /\ Len(indents) \in Nat
  BY StackFacts DEF IInv, StateOK
<1>5. cIndents.size > 0 /\ cIndents.size >= 1
  BY <1>3, <1>4
<1> QED BY <1>1, <1>5, PopRemovesTheTop

\* What C returns when its loop ended in front of place p.
LEMMA LayoutReturns ==
  ASSUME IInv, cIndents \in SoundArrays, Stack(cIndents) = indents,
         "ERROR" \notin scan.valid, NEW p \in Nat, InLayout(p)
  PROVE  LET path == CPath(input, p, scan.valid)
             word == SpanEnd(input, p, CIdentifier)
         IN  /\ Opens => CReturns = Returned("INDENT", scan.start,
                                             Pushed(cIndents, scan.indent % CWordRange))
             /\ ~Opens /\ Closes =>
                  CReturns = Returned("DEDENT", scan.start, Popped(cIndents))
             /\ ~Opens /\ ~Closes /\ ~NoLayout =>
                  CReturns = Returned("NEWLINE", scan.start, cIndents)
             /\ NoLayout /\ path # "none" => CReturns = Returned(path, word, cIndents)
             /\ NoLayout /\ path = "none" => CReturns = Returned("none", scan.start, cIndents)
<1> DEFINE space == Local("layout", p, scan.foundEOL, scan.indent, scan.firstComment)
           path == CPath(input, p, scan.valid)
           word == SpanEnd(input, p, CIdentifier)
           decided == CDecided(input, scan.start, cIndents, scan.valid, space)
           opens == scan.foundEOL /\ "INDENT" \in scan.valid /\ scan.indent > Back(cIndents)
           closes == /\ scan.foundEOL
                     /\ "DEDENT" \in scan.valid \/ "NEWLINE" \notin scan.valid
                     /\ scan.indent < Back(cIndents)
                     /\ scan.firstComment < Back(cIndents)
           newline == scan.foundEOL /\ "NEWLINE" \in scan.valid
<1>1. cIndents.size > 0 /\ Back(cIndents) = Top(indents)
  BY TopsAgree
<1>2. CReturns = decided
  BY Returns DEF InLayout
<1>3. scan.foundEOL \in BOOLEAN
  BY CallFacts DEF Flags
<1> HIDE DEF path, word
<1>4. Decides(decided, scan.start, cIndents, scan.valid, scan.foundEOL, scan.indent,
              scan.firstComment, path, word)
  <2>1. scan.foundEOL \in Flags
    BY CallFacts
  <2> QED BY ONLY <1>1, <2>1, "ERROR" \notin scan.valid, DecidedLayout DEF path, word
<1>5. Opens <=> opens
  BY ONLY <1>1 DEF Opens, Accepts
<1>6. Closes <=> closes
  BY ONLY <1>1 DEF Closes, Accepts
<1>7. NoLayout <=> ~Opens /\ ~Closes /\ ~newline
  BY ONLY TRUE DEF NoLayout, Accepts
<1> HIDE DEF decided
<1>8. /\ Opens => CReturns = Returned("INDENT", scan.start,
                                      Pushed(cIndents, scan.indent % CWordRange))
      /\ ~Opens /\ Closes => CReturns = Returned("DEDENT", scan.start, Popped(cIndents))
      /\ ~Opens /\ ~Closes /\ ~NoLayout =>
           CReturns = Returned("NEWLINE", scan.start, cIndents)
      /\ NoLayout /\ path # "none" => CReturns = Returned(path, word, cIndents)
      /\ NoLayout /\ path = "none" => CReturns = Returned("none", scan.start, cIndents)
  BY ONLY <1>2, <1>4, <1>5, <1>6, <1>7 DEF Decides
<1> QED BY ONLY <1>8 DEF path, word

LEMMA IndentParallel ==
  ASSUME IInv, Follows, ~HasNul, cIndents \in SoundArrays, Stack(cIndents) = indents, Indent
  PROVE  Parallel
<1>1. /\ pc = "layout" /\ "ERROR" \notin scan.valid /\ InLayout(pos) /\ Opens
      /\ scan.mark = scan.start
  BY DEF Indent, Follows
<1>2. CReturns = Returned("INDENT", scan.start, Pushed(cIndents, scan.indent % CWordRange))
  <2>1. pos \in Nat BY CallFacts
  <2> QED BY ONLY IInv, cIndents \in SoundArrays, Stack(cIndents) = indents, <1>1, <2>1,
                  LayoutReturns
<1>3. Stack(Pushed(cIndents, scan.indent % CWordRange)) =
        Append(indents, scan.indent % WordRange)
  <2>1. scan.indent % CWordRange \in Int /\ scan.indent % CWordRange = scan.indent % WordRange
    <3>1. scan.indent % 65536 \in Int
      BY CallFacts
    <3> QED BY <3>1 DEF CWordRange, WordRange
  <2> QED BY <2>1, TopsAgree, PushAppends
<1>4. /\ pc' = "idle" /\ token' = "INDENT" /\ pos' = scan.mark /\ scan' = Idle
      /\ indents' = Append(indents, scan.indent % WordRange)
  BY DEF Indent, Emit
<1>5. Follows'
  BY <1>4 DEF Follows, Idle
<1> QED BY <1>1, <1>2, <1>3, <1>4, <1>5 DEF Parallel, Returned

LEMMA DedentParallel ==
  ASSUME IInv, Follows, ~HasNul, cIndents \in SoundArrays, Stack(cIndents) = indents, Dedent
  PROVE  Parallel
<1>1. /\ pc = "layout" /\ "ERROR" \notin scan.valid /\ InLayout(pos) /\ ~Opens /\ Closes
      /\ scan.mark = scan.start
  BY DEF Dedent, Follows
<1>2. CReturns = Returned("DEDENT", scan.start, Popped(cIndents))
  <2>1. pos \in Nat BY CallFacts
  <2> QED BY ONLY IInv, cIndents \in SoundArrays, Stack(cIndents) = indents, <1>1, <2>1,
                  LayoutReturns
<1>3. Stack(Popped(cIndents)) = SubSeq(indents, 1, Len(indents) - 1)
  BY TopsAgree, PopRemovesTheTop
<1>4. /\ pc' = "idle" /\ token' = "DEDENT" /\ pos' = scan.mark /\ scan' = Idle
      /\ indents' = SubSeq(indents, 1, Len(indents) - 1)
  BY DEF Dedent, Emit
<1>5. Follows'
  BY <1>4 DEF Follows, Idle
<1> QED BY <1>1, <1>2, <1>3, <1>4, <1>5 DEF Parallel, Returned

LEMMA NewlineParallel ==
  ASSUME IInv, Follows, ~HasNul, cIndents \in SoundArrays, Stack(cIndents) = indents, Newline
  PROVE  Parallel
<1>1. /\ pc = "layout" /\ "ERROR" \notin scan.valid /\ InLayout(pos) /\ ~Opens /\ ~Closes
      /\ scan.mark = scan.start /\ scan.firstComment >= -1
  BY DEF Newline, Follows
<1>2. CASE scan.foundEOL /\ Accepts("NEWLINE")
  <2>1. ~NoLayout /\ Emit("NEWLINE", scan.start) /\ UNCHANGED state
    BY <1>1, <1>2 DEF Newline, NoLayout
  <2>2. CReturns = Returned("NEWLINE", scan.start, cIndents)
    <3>1. pos \in Nat BY CallFacts
    <3> QED BY ONLY IInv, cIndents \in SoundArrays, Stack(cIndents) = indents, <1>1, <2>1,
                    <3>1, LayoutReturns
  <2> QED BY <2>1, <2>2, EmitParallel
<1>3. CASE ~(scan.foundEOL /\ Accepts("NEWLINE"))
  <2>1. /\ NoLayout /\ pc' = "path" /\ pos' = pos /\ scan' = scan /\ input' = input
        /\ indents' = indents
    BY <1>1, <1>3 DEF Newline, NoLayout, state, parser
  <2>2. NoLayout' /\ InLayout(pos)'
    BY <1>1, <2>1 DEF NoLayout, Opens, Closes, Accepts, InLayout, Ran
  <2>3. Follows'
    BY <1>1, <2>1, <2>2 DEF Follows
  <2> QED BY <2>1, <2>3 DEF Parallel
<1> QED BY <1>2, <1>3

\* What C returns when its loop ended in front of a word that ends at q.
LEMMA WordReturns ==
  ASSUME IInv, cIndents \in SoundArrays, Stack(cIndents) = indents,
         "ERROR" \notin scan.valid, "PATH" \in scan.valid, NoLayout, NEW q, WordTo(q)
  PROVE  LET after == CLook(input, SpanEnd(input, q + 1, CIdentifier))
             path == IF "PATH_EXPR" \in scan.valid /\ after \notin {"{", ":"}
                       THEN "PATH_EXPR" ELSE "PATH"
         IN  /\ CLook(input, q) = "/" => CReturns = Returned(path, q, cIndents)
             /\ CLook(input, q) # "/" => CReturns = Returned("none", scan.start, cIndents)
<1> DEFINE after == CLook(input, SpanEnd(input, q + 1, CIdentifier))
           name == IF "PATH_EXPR" \in scan.valid /\ after \notin {"{", ":"}
                     THEN "PATH_EXPR" ELSE "PATH"
<1>1. PICK p \in 1 .. Len(input) : /\ InLayout(p)
                                   /\ CLook(input, p) \in CIdentifier
                                   /\ SpanEnd(input, p, CIdentifier) = q
  BY DEF WordTo
<1>2. input \in Seq(Chars) /\ p \in Nat \ {0} /\ p \in Nat
  BY CallFacts
<1> DEFINE path == CPath(input, p, scan.valid)
<1>3. /\ path # "none" => CReturns = Returned(path, q, cIndents)
      /\ path = "none" => CReturns = Returned("none", scan.start, cIndents)
  BY ONLY IInv, cIndents \in SoundArrays, Stack(cIndents) = indents, "ERROR" \notin scan.valid,
          NoLayout, <1>1, <1>2, LayoutReturns
<1>4. /\ CLook(input, q) = "/" => path = name
      /\ CLook(input, q) # "/" => path = "none"
  BY ONLY <1>1, <1>2, "PATH" \in scan.valid, PathIs
<1>5. name # "none" OBVIOUS
<1> HIDE DEF path, name
<1>6. /\ CLook(input, q) = "/" => CReturns = Returned(name, q, cIndents)
      /\ CLook(input, q) # "/" => CReturns = Returned("none", scan.start, cIndents)
  BY ONLY <1>3, <1>4, <1>5
<1> QED BY ONLY <1>6 DEF name, after

\* What the Go scanner makes of the character it sees.
LEMMA WordLook ==
  ASSUME IInv, ~HasNul
  PROVE  /\ IsIdentifier(Lookahead) <=> CLook(input, pos) \in CIdentifier
         /\ Lookahead = "/" <=> CLook(input, pos) = "/"
         /\ Lookahead \in {"{", ":"} <=> CLook(input, pos) \in {"{", ":"}
         /\ IsIdentifier(Lookahead) \/ Lookahead = "/" => Advanced = pos + 1
         /\ IsIdentifier(Lookahead) =>
              /\ pos \in 1 .. Len(input)
              /\ SpanEnd(input, pos, CIdentifier) = SpanEnd(input, pos + 1, CIdentifier)
         /\ ~IsIdentifier(Lookahead) => SpanEnd(input, pos, CIdentifier) = pos
<1>1. /\ input \in Seq(Chars) /\ Len(input) \in Nat /\ pos \in Nat \ {0}
      /\ "eof" \notin CIdentifier
  BY CallFacts DEF CIdentifier
<1>2. /\ CLook(input, pos) \in CIdentifier =>
           SpanEnd(input, pos, CIdentifier) = SpanEnd(input, pos + 1, CIdentifier)
      /\ CLook(input, pos) \notin CIdentifier => SpanEnd(input, pos, CIdentifier) = pos
  BY ONLY <1>1, SpanGoesOn, SpanStops
<1>3. CASE pos <= Len(input)
  <2>1. Lookahead = CLook(input, pos) /\ Advanced = pos + 1
    BY <1>3, BothLook
  <2>2. pos \in 1 .. Len(input)
    BY <1>1, <1>3
  <2> QED BY ONLY <1>2, <2>1, <2>2 DEF IsIdentifier, CIdentifier
<1>4. CASE pos > Len(input)
  <2>1. Lookahead = "nul" /\ CLook(input, pos) = "eof"
    BY <1>4, BothLook
  <2> QED BY ONLY <1>1, <1>2, <2>1 DEF IsIdentifier, CIdentifier
<1>5. pos <= Len(input) \/ pos > Len(input)
  BY ONLY <1>1
<1> QED BY ONLY <1>3, <1>4, <1>5

\* A character of a word or a component is read.
LEMMA WordGoesOn ==
  ASSUME IInv, Follows, ~HasNul, NEW next \in {"word", "name", "component"},
         pc \in {"word", "name", "component"}, pc = next,
         IsIdentifier(Lookahead), Read(next), UNCHANGED scan
  PROVE  Parallel
<1>1. /\ pc' = next /\ pos' = pos + 1 /\ scan' = scan /\ input' = input
      /\ indents' = indents
  BY WordLook DEF Read, parser, state
<1>2. SpanEnd(input, pos, CIdentifier)' = SpanEnd(input, pos, CIdentifier)
  BY <1>1, WordLook
<1>3. Ran' = Ran /\ NoLayout' = NoLayout
  BY <1>1 DEF Ran, NoLayout, Opens, Closes, Accepts
<1>4. ASSUME NEW q PROVE WordTo(q)' = WordTo(q)
  BY <1>1, <1>3 DEF WordTo, InLayout
<1>5. CASE next = "component"
  <2>1. pc = "component" /\ pc' = "component"
    BY <1>1, <1>5
  <2>2. /\ WordTo(scan.mark)' /\ (CLook(input, scan.mark) = "/")'
        /\ (SpanEnd(input, scan.mark + 1, CIdentifier) = SpanEnd(input, pos, CIdentifier))'
    BY <1>1, <1>2, <1>4, <2>1 DEF Follows
  <2> QED BY <1>1, <1>3, <2>1, <2>2 DEF Follows, Parallel
<1>6. CASE next \in {"word", "name"}
  <2>1. pc \in {"word", "name"} /\ pc' = pc
    BY <1>1, <1>6
  <2>2. WordTo(SpanEnd(input, pos, CIdentifier))'
    BY <1>1, <1>2, <1>4, <2>1 DEF Follows
  <2> QED BY <1>1, <1>3, <2>1, <2>2 DEF Follows, Parallel
<1> QED BY <1>5, <1>6

LEMMA PathParallel ==
  ASSUME IInv, Follows, ~HasNul, cIndents \in SoundArrays, Stack(cIndents) = indents, Path
  PROVE  Parallel
<1>1. /\ pc = "path" /\ "ERROR" \notin scan.valid /\ InLayout(pos) /\ NoLayout
      /\ scan.mark = scan.start /\ scan.firstComment >= -1
  BY DEF Path, Follows
<1>2. CASE Accepts("PATH") /\ IsIdentifier(Lookahead)
  <2>1. /\ pc' \in {"word", "name"} /\ pos' = pos + 1 /\ scan' = scan /\ input' = input
        /\ indents' = indents /\ "PATH" \in scan.valid
        /\ pc' = "word" => "PATH_EXPR" \in scan.valid
        /\ pc' = "name" => "PATH_EXPR" \notin scan.valid
    BY <1>1, <1>2, WordLook DEF Path, Read, parser, state, Accepts
  <2>2. WordTo(SpanEnd(input, pos + 1, CIdentifier))
    BY <1>1, <1>2, WordLook DEF WordTo
  <2>3. WordTo(SpanEnd(input, pos, CIdentifier))' /\ NoLayout'
    BY <1>1, <2>1, <2>2 DEF WordTo, InLayout, Ran, NoLayout, Opens, Closes, Accepts
  <2>4. Follows'
    BY <1>1, <2>1, <2>3 DEF Follows
  <2> QED BY <2>1, <2>4 DEF Parallel
<1>3. CASE ~(Accepts("PATH") /\ IsIdentifier(Lookahead))
  <2>1. "PATH" \notin scan.valid \/ CLook(input, pos) \notin CIdentifier
    BY <1>3, WordLook DEF Accepts
  <2>2. input \in Seq(Chars) /\ pos \in Nat \ {0} /\ pos \in Nat
    BY CallFacts
  <2>3. CPath(input, pos, scan.valid) = "none"
    <3> DEFINE path == CPath(input, pos, scan.valid)
    <3>1. /\ "PATH" \notin scan.valid => path = "none"
          /\ CLook(input, pos) \notin CIdentifier => path = "none"
      BY ONLY <2>2, PathIs
    <3> QED BY ONLY <2>1, <3>1
  <2>4. CReturns = Returned("none", scan.start, cIndents)
    BY ONLY IInv, cIndents \in SoundArrays, Stack(cIndents) = indents, <1>1, <2>2, <2>3,
            LayoutReturns
  <2>5. Fail
    BY <1>3 DEF Path
  <2> QED BY <2>4, <2>5, FailParallel
<1> QED BY <1>2, <1>3

LEMMA WordParallel ==
  ASSUME IInv, Follows, ~HasNul, cIndents \in SoundArrays, Stack(cIndents) = indents, Word
  PROVE  Parallel
<1>1. /\ pc = "word" /\ "ERROR" \notin scan.valid /\ NoLayout
      /\ "PATH" \in scan.valid /\ "PATH_EXPR" \in scan.valid
      /\ WordTo(SpanEnd(input, pos, CIdentifier))
      /\ scan.mark = scan.start /\ scan.firstComment >= -1
  BY DEF Word, Follows
<1>2. CASE IsIdentifier(Lookahead) /\ Read("word") /\ UNCHANGED scan
  BY <1>1, <1>2, WordGoesOn
<1>3. CASE /\ Lookahead = "/"
           /\ scan' = [scan EXCEPT !.mark = pos]
           /\ Read("component")
  <2>1. /\ WordTo(pos) /\ CLook(input, pos) = "/" /\ Advanced = pos + 1
    <3>1. ~IsIdentifier(Lookahead)
      BY <1>3 DEF IsIdentifier
    <3> QED BY <1>1, <1>3, <3>1, WordLook
  <2>2. /\ pc' = "component" /\ pos' = pos + 1 /\ input' = input /\ indents' = indents
        /\ scan'.start = scan.start /\ scan'.mark = pos /\ scan'.valid = scan.valid
        /\ scan'.foundEOL = scan.foundEOL /\ scan'.indent = scan.indent
        /\ scan'.firstComment = scan.firstComment
    BY <1>3, <2>1, CallFacts DEF Read, parser, state
  <2>3. WordTo(scan.mark)' /\ NoLayout'
    BY <1>1, <2>1, <2>2 DEF WordTo, InLayout, Ran, NoLayout, Opens, Closes, Accepts
  <2>4. Follows'
    BY <1>1, <2>1, <2>2, <2>3 DEF Follows
  <2> QED BY <2>2, <2>4 DEF Parallel
<1>4. CASE ~IsIdentifier(Lookahead) /\ Lookahead # "/" /\ Fail
  <2>1. WordTo(pos) /\ CLook(input, pos) # "/"
    BY <1>1, <1>4, WordLook
  <2>2. CReturns = Returned("none", scan.start, cIndents)
    BY ONLY IInv, cIndents \in SoundArrays, Stack(cIndents) = indents, <1>1, <2>1,
            WordReturns
  <2> QED BY <1>4, <2>2, FailParallel
<1> QED BY <1>2, <1>3, <1>4 DEF Word

LEMMA ComponentParallel ==
  ASSUME IInv, Follows, ~HasNul, cIndents \in SoundArrays, Stack(cIndents) = indents,
         Component
  PROVE  Parallel
<1>1. /\ pc = "component" /\ "ERROR" \notin scan.valid /\ NoLayout
      /\ "PATH" \in scan.valid /\ "PATH_EXPR" \in scan.valid
      /\ WordTo(scan.mark) /\ CLook(input, scan.mark) = "/"
      /\ SpanEnd(input, scan.mark + 1, CIdentifier) = SpanEnd(input, pos, CIdentifier)
  BY DEF Component, Follows
<1>2. CASE IsIdentifier(Lookahead) /\ Read("component") /\ UNCHANGED scan
  BY <1>1, <1>2, WordGoesOn
<1>3. CASE /\ ~IsIdentifier(Lookahead)
           /\ Emit(IF Lookahead \in {"{", ":"} THEN "PATH" ELSE "PATH_EXPR", scan.mark)
           /\ UNCHANGED state
  <2> DEFINE t == IF Lookahead \in {"{", ":"} THEN "PATH" ELSE "PATH_EXPR"
             after == CLook(input, SpanEnd(input, scan.mark + 1, CIdentifier))
             path == IF "PATH_EXPR" \in scan.valid /\ after \notin {"{", ":"}
                       THEN "PATH_EXPR" ELSE "PATH"
  <2>1. path = t
    <3>1. SpanEnd(input, scan.mark + 1, CIdentifier) = pos
      BY <1>1, <1>3, WordLook
    <3>2. Lookahead \in {"{", ":"} <=> after \in {"{", ":"}
      BY <3>1, WordLook
    <3> HIDE DEF after
    <3> QED BY ONLY <1>1, <3>2
  <2>2. CReturns = Returned(path, scan.mark, cIndents)
    BY ONLY IInv, cIndents \in SoundArrays, Stack(cIndents) = indents, <1>1, WordReturns
  <2>3. CReturns = Returned(t, scan.mark, cIndents)
    BY ONLY <2>1, <2>2
  <2> QED BY <1>3, <2>3, EmitParallel
<1> QED BY <1>2, <1>3 DEF Component

LEMMA NameParallel ==
  ASSUME IInv, Follows, ~HasNul, cIndents \in SoundArrays, Stack(cIndents) = indents, Name
  PROVE  Parallel
<1>1. /\ pc = "name" /\ "ERROR" \notin scan.valid /\ NoLayout
      /\ "PATH" \in scan.valid /\ "PATH_EXPR" \notin scan.valid
      /\ WordTo(SpanEnd(input, pos, CIdentifier))
  BY DEF Name, Follows
<1>2. CASE IsIdentifier(Lookahead) /\ Read("name") /\ UNCHANGED scan
  BY <1>1, <1>2, WordGoesOn
<1>3. CASE Lookahead = "/" /\ Emit("PATH", pos) /\ UNCHANGED state
  <2>1. WordTo(pos) /\ CLook(input, pos) = "/"
    <3>1. ~IsIdentifier(Lookahead)
      BY <1>3 DEF IsIdentifier
    <3> QED BY <1>1, <1>3, <3>1, WordLook
  <2>2. CReturns = Returned("PATH", pos, cIndents)
    BY ONLY IInv, cIndents \in SoundArrays, Stack(cIndents) = indents, <1>1, <2>1,
            WordReturns
  <2> QED BY <1>3, <2>2, EmitParallel
<1>4. CASE ~IsIdentifier(Lookahead) /\ Lookahead # "/" /\ Fail
  <2>1. WordTo(pos) /\ CLook(input, pos) # "/"
    BY <1>1, <1>4, WordLook
  <2>2. CReturns = Returned("none", scan.start, cIndents)
    BY ONLY IInv, cIndents \in SoundArrays, Stack(cIndents) = indents, <1>1, <2>1,
            WordReturns
  <2> QED BY <1>4, <2>2, FailParallel
<1> QED BY <1>2, <1>3, <1>4 DEF Name

-----------------------------------------------------------------------------
(***************************************************************************)
(* The two scanners through a parse.                                       *)
(***************************************************************************)
LEMMA StepParallel ==
  ASSUME IInv, Follows, ~HasNul, cIndents \in SoundArrays, Stack(cIndents) = indents, ScanStep
  PROVE  Parallel
  BY RefuseParallel, BlankParallel, HashParallel, EndOfSourceParallel, EndOfSpaceParallel,
     HashedParallel, DigitsParallel, CommentParallel, IndentParallel, DedentParallel,
     NewlineParallel, PathParallel, WordParallel, ComponentParallel, NameParallel
  DEF ScanStep

\* Whatever C returns, with a NUL in the source too, its array is sound.
LEMMA ReturnsSound ==
  ASSUME IInv, cIndents \in SoundArrays
  PROVE  CReturns.indents \in SoundArrays
<1> DEFINE o == CSpace(input, scan.valid)[CStart(scan.start)]
<1>1. CStart(scan.start) \in CLocals
  BY CallFacts DEF CStart, CLocals
<1>2. o.indent \in Nat
  <2>1. input \in Seq(Chars)
    BY CallFacts
  <2>2. o \in CLocals
    BY <1>1, <2>1, SpaceTurns DEF Ended
  <2> HIDE DEF o
  <2> QED BY <2>2 DEF CLocals
<1>3. CReturns = CDecided(input, scan.start, cIndents, scan.valid, o)
  BY DEF CReturns, CScan
<1> HIDE DEF o
<1>4. \/ CReturns.indents = cIndents
      \/ CReturns.indents = Pushed(cIndents, o.indent % CWordRange)
      \/ cIndents.size > 0 /\ CReturns.indents = Popped(cIndents)
  BY <1>3 DEF CDecided
<1>5. Pushed(cIndents, o.indent % CWordRange) \in SoundArrays
  <2>1. o.indent % CWordRange \in Int
    <3>1. o.indent % 65536 \in Int
      BY <1>2
    <3> QED BY <3>1 DEF CWordRange
  <2> QED BY <2>1, PushAppends DEF SoundArrays
<1>6. cIndents.size > 0 => Popped(cIndents) \in SoundArrays
  BY PopRemovesTheTop DEF SoundArrays
<1> QED BY <1>4, <1>5, <1>6

LEMMA BothCreated == ParityInit => SameState
<1> SUFFICES ASSUME ParityInit PROVE SameState
  OBVIOUS
<1>1. NullArray \in Arrays /\ <<>> \in Seq(Int)
  BY DEF NullArray, Arrays
<1>2. CCreated \in SoundArrays /\ Stack(CCreated) = Deserialized(<<>>)
  BY <1>1, DeserializedArray DEF CCreated
<1>3. Deserialized(<<>>) = <<0>>
  BY DEF Deserialized
<1>4. Follows
  BY DEF ParityInit, Init, Follows, Idle
<1> QED BY <1>1, <1>2, <1>3, <1>4 DEF ParityInit, Init, SameState

\* The call begins with both at the same place.
LEMMA BothBegin ==
  ASSUME IInv, SameState, NEW v \in ValidSets, Begin(v), UNCHANGED cvars
  PROVE  SameState'
<1>1. /\ pc' = "space" /\ pos' = pos /\ input' = input /\ saved' = saved
      /\ indents' = indents /\ cIndents' = cIndents /\ cSaved' = cSaved
      /\ scan' = [start |-> pos, mark |-> pos, valid |-> v, foundEOL |-> FALSE,
                  indent |-> 0, firstComment |-> -1]
  BY DEF Begin, Idle, state, parser, cvars
<1>2. (Ran = FromHere(pos, scan.indent))'
  BY <1>1 DEF Ran, FromHere, CStart, Local
<1>3. Follows'
  BY <1>1, <1>2 DEF Follows
<1>4. HasNul' = HasNul
  BY <1>1 DEF HasNul
<1> QED BY <1>1, <1>3, <1>4 DEF SameState

LEMMA BothStep ==
  ASSUME IInv, SameState, ScanStep, CFollows
  PROVE  SameState'
<1>1. /\ input' = input /\ saved' = saved /\ cSaved' = cSaved
      /\ cIndents' = IF pc' = "idle" THEN CReturns.indents ELSE cIndents
  BY DEF ScanStep, Refuse, Blank, Hash, EndOfSource, EndOfSpace, Hashed, Digits, Comment,
         Indent, Dedent, Newline, Path, Word, Component, Name, Fail, Emit, Read, parser,
         CFollows
<1>2. cIndents' \in SoundArrays
  BY <1>1, ReturnsSound DEF SameState
<1>3. HasNul' = HasNul
  BY <1>1 DEF HasNul
<1>4. ASSUME ~HasNul PROVE Stack(cIndents)' = indents' /\ Follows'
  <2>1. cIndents \in SoundArrays /\ Stack(cIndents) = indents /\ Follows
    BY <1>4 DEF SameState
  <2>2. Parallel
    BY <1>4, <2>1, StepParallel
  <2>3. Stack(cIndents') = indents'
    BY <1>1, <2>1, <2>2 DEF Parallel
  <2> QED BY <2>2, <2>3 DEF Parallel, Stack
<1> QED BY <1>1, <1>2, <1>3, <1>4 DEF SameState

LEMMA BothLex ==
  ASSUME IInv, SameState, LexInternally, UNCHANGED cvars
  PROVE  SameState'
<1>1. /\ pc' = "idle" /\ scan' = scan /\ input' = input /\ saved' = saved
      /\ indents' = indents /\ cIndents' = cIndents /\ cSaved' = cSaved
  BY DEF LexInternally, state, parser, cvars
<1>2. HasNul' = HasNul /\ (Follows => Follows')
  BY <1>1 DEF HasNul, Follows
<1> QED BY <1>1, <1>2 DEF SameState

LEMMA BothSave ==
  ASSUME IInv, SameState, Save, CSave
  PROVE  SameState'
<1>1. /\ pc' = "idle" /\ scan' = scan /\ input' = input
      /\ saved'.bytes = Serialized(indents) /\ indents' = indents
      /\ cSaved' = CSerialized(cIndents, BufferSize) /\ cIndents' = cIndents
  BY DEF Save, CSave, state
<1>2. HasNul' = HasNul /\ (Follows => Follows')
  BY <1>1 DEF HasNul, Follows
<1>3. /\ CSerialized(cIndents, BufferSize) = Serialized(Stack(cIndents))
      /\ CSerialized(cIndents, BufferSize) \in Seq(Int)
  BY SerializedArray DEF SameState
<1> QED BY <1>1, <1>2, <1>3 DEF SameState

LEMMA BothRestore ==
  ASSUME IInv, SameState, Restore, CRestore
  PROVE  SameState'
<1>1. /\ pc' = "idle" /\ scan' = scan /\ input' = input
      /\ saved' = saved /\ indents' = Deserialized(saved.bytes)
      /\ cIndents' = CDeserialized(cIndents, cSaved) /\ cSaved' = cSaved
  BY DEF Restore, CRestore, parser
<1>2. HasNul' = HasNul /\ (Follows => Follows')
  BY <1>1 DEF HasNul, Follows
<1>3. /\ CDeserialized(cIndents, cSaved) \in SoundArrays
      /\ Stack(CDeserialized(cIndents, cSaved)) = Deserialized(cSaved)
  BY DeserializedArray DEF SameState, SoundArrays
<1> QED BY <1>1, <1>2, <1>3 DEF SameState

LEMMA BothStutter ==
  ASSUME SameState, UNCHANGED <<vars, cvars>>
  PROVE  SameState'
<1>1. /\ pc' = pc /\ pos' = pos /\ scan' = scan /\ input' = input /\ saved' = saved
      /\ indents' = indents /\ cIndents' = cIndents /\ cSaved' = cSaved
  BY DEF vars, cvars
<1>2. Ran' = Ran /\ NoLayout' = NoLayout /\ HasNul' = HasNul
  BY <1>1 DEF Ran, NoLayout, Opens, Closes, Accepts, HasNul
<1>3. Follows' = Follows
  BY <1>1, <1>2 DEF Follows, FromHere, InLayout, WordTo
<1> QED BY <1>1, <1>2, <1>3 DEF SameState

LEMMA SameStateIsKept ==
  IInv /\ SameState /\ [ParityNext]_<<vars, cvars>> => SameState'
<1> SUFFICES ASSUME IInv, SameState, [ParityNext]_<<vars, cvars>> PROVE SameState'
  OBVIOUS
<1>1. ASSUME NEW v \in ValidSets, Begin(v), UNCHANGED cvars PROVE SameState'
  BY <1>1, BothBegin
<1>2. CASE ScanStep /\ CFollows
  BY <1>2, BothStep
<1>3. CASE LexInternally /\ UNCHANGED cvars
  BY <1>3, BothLex
<1>4. CASE Save /\ CSave
  BY <1>4, BothSave
<1>5. CASE Restore /\ CRestore
  BY <1>5, BothRestore
<1>6. CASE UNCHANGED <<vars, cvars>>
  BY <1>6, BothStutter
<1> QED BY <1>1, <1>2, <1>3, <1>4, <1>5, <1>6 DEF ParityNext

LEMMA ParityInvariance == ParitySpec => [](IInv /\ SameState)
<1>1. ParityInit => IInv /\ SameState
  BY InitInvariant, BothCreated DEF ParityInit
<1>2. IInv /\ SameState /\ [ParityNext]_<<vars, cvars>> => (IInv /\ SameState)'
  <2>1. [ParityNext]_<<vars, cvars>> => [Next]_vars
    BY DEF ParityNext, Next, vars
  <2> QED BY <2>1, NextInvariant, SameStateIsKept
<1> QED BY <1>1, <1>2, PTL DEF ParitySpec

\* The C scanner's array holds the Go scanner's stack at every moment of a parse of a
\* source without NUL, the runtimes keep the same bytes of it, and of any source the
\* array's fields tell the truth about its memory.
THEOREM StatesStayAgreed == ParitySpec => []StatesAgree
<1>1. SameState => StatesAgree
  BY DEF SameState, StatesAgree, SoundArrays
<1> QED BY <1>1, ParityInvariance, PTL

\* Every call of Scan ends with C's token at C's place, from any state that a parse
\* comes to, for any set of valid symbols: the port is behavioral, as it says.
THEOREM ParityOfScanners == ParitySpec => ParityWithC
<1> DEFINE Same == pc # "idle" /\ pc' = "idle" /\ ~HasNul
                     => token' = CReturns.token /\ pos' = CReturns.pos
<1>1. ASSUME IInv, SameState, ParityNext PROVE Same
  <2> SUFFICES ASSUME pc # "idle", pc' = "idle", ~HasNul
               PROVE  token' = CReturns.token /\ pos' = CReturns.pos
    OBVIOUS
  <2>1. ScanStep
    BY <1>1 DEF ParityNext, Begin, LexInternally, Save, Restore
  <2>2. Parallel
    BY <1>1, <2>1, StepParallel DEF SameState
  <2> QED BY <2>2 DEF Parallel
<1>2. IInv /\ SameState /\ [ParityNext]_<<vars, cvars>> => [Same]_vars
  BY <1>1 DEF vars
<1>3. ParitySpec => [][Same]_vars
  BY <1>2, ParityInvariance, PTL DEF ParitySpec
<1> QED BY <1>3 DEF ParityWithC
=============================================================================
