--------------------------- MODULE DocumentProofs ---------------------------
(***************************************************************************)
(* What the document keeps of the parser's work, for every text, every     *)
(* parser and any number of changes.  The proofs do not look at positions: *)
(* wherever a change lands, the tree kept afterwards is one of the source  *)
(* kept with it.                                                           *)
(***************************************************************************)
EXTENDS Document, Induction, SequenceTheorems

Shape(text) == text = [text |-> text.text, masks |-> text.masks, own |-> text.own]

\* The text the parser is given is the new source without masks.
CallIsForItsText ==
  pc = "parse" =>
    /\ call.fresh \in BOOLEAN /\ call.full \in BOOLEAN
    /\ call.full => call.fresh
    /\ Shape(call.parsed)
    /\ call.parsed.masks = {}
    /\ call.parsed.own
    /\ call.parsed.text = call.text

\* The tree kept is a parse of the source, or of the source with masks.
TreeTextIsTheSource ==
  Shape(treeSource) /\ treeSource.own /\ treeSource.text = source

\* Coordinates only go astray when a change fails.
CoordinatesFit ==
  /\ tree \in Trees
  /\ diverged \in BOOLEAN
  /\ ~diverged => tree.fits

\* While candidates are tried the best one is the first parse, or beats it.
BestIsNoWorse ==
  pc \in Candidates =>
    /\ call = [raw |-> call.raw, masked |-> call.masked]
    /\ call.raw \in Results
    /\ treeSource.masks = {} =>
         tree.errors = call.raw.errors /\ tree.missing = call.raw.missing
    /\ treeSource.masks # {} => Better(tree, call.raw)

\* The graph is dropped with the tree it was built from.
GraphIsOfTheTree ==
  /\ ~diverged => scopeGraph \in {NoGraph, <<tree, treeSource>>}
  /\ pc \in Candidates => scopeGraph = NoGraph

PcInv == pc \in Candidates \cup {"idle", "parse", "failed"}

IInv ==
  /\ PcInv
  /\ CallIsForItsText
  /\ TreeTextIsTheSource
  /\ CoordinatesFit
  /\ BestIsNoWorse
  /\ GraphIsOfTheTree

-----------------------------------------------------------------------------
LEMMA TextShape ==
  ASSUME NEW t, NEW m
  PROVE  /\ Shape(Text(t, m)) /\ Text(t, m).text = t
         /\ Text(t, m).masks = m /\ Text(t, m).own
BY DEF Shape, Text

LEMMA ParsedIsATree ==
  ASSUME NEW r \in Results, NEW fits \in BOOLEAN
  PROVE  /\ Parsed(r, fits) \in Trees
         /\ Parsed(r, fits).errors = r.errors
         /\ Parsed(r, fits).missing = r.missing
         /\ Parsed(r, fits).fits = fits
BY DEF Parsed, Trees, Results

\* Beating one that beats a third is beating the third.
LEMMA BetterIsTransitive ==
  ASSUME NEW a, NEW b, NEW c,
         a.errors \in Int, b.errors \in Int, c.errors \in Int,
         a.missing \in Int, b.missing \in Int, c.missing \in Int,
         Better(a, b), Better(b, c)
  PROVE  Better(a, c)
BY DEF Better

LEMMA Numbers ==
  /\ \A t \in Trees : t.errors \in Int /\ t.missing \in Int /\ t.fits \in BOOLEAN
  /\ \A r \in Results : r.errors \in Int /\ r.missing \in Int
BY BoundsAssumption DEF Trees, Results

LEMMA InitIInv == Init => IInv
<1> SUFFICES ASSUME Init PROVE IInv OBVIOUS
<1>1. PICK r \in Results :
        /\ tree = Parsed(r, TRUE)
        /\ IF r.errors = 0 THEN pc = "idle" /\ call = NoCall
           ELSE pc = "syntax" /\ call = [raw |-> r, masked |-> {}]
  BY DEF Init
<1>2. PcInv /\ CallIsForItsText
  BY <1>1 DEF PcInv, CallIsForItsText, Candidates
<1>3. treeSource = Text(client, {}) /\ source = client
  BY DEF Init
<1>4. TreeTextIsTheSource
  BY <1>3, TextShape DEF TreeTextIsTheSource
<1>5. CoordinatesFit
  BY <1>1, ParsedIsATree DEF Init, CoordinatesFit
<1>6. BestIsNoWorse
  <2>1. treeSource.masks = {}
    BY <1>3, TextShape
  <2>2. tree = Parsed(r, TRUE)
    BY <1>1
  <2>3. tree.errors = r.errors /\ tree.missing = r.missing
    BY <2>2, ParsedIsATree
  <2>4. CASE r.errors = 0
    BY <1>1, <2>4 DEF BestIsNoWorse, Candidates
  <2>5. CASE r.errors # 0
    <3>1. call = [raw |-> r, masked |-> {}]
      BY <1>1, <2>5
    <3>2. call.raw = r /\ call = [raw |-> call.raw, masked |-> call.masked]
      BY <3>1
    <3> QED BY <2>1, <2>3, <3>2 DEF BestIsNoWorse
  <2> QED BY <2>4, <2>5
<1>7. GraphIsOfTheTree
  BY DEF Init, GraphIsOfTheTree
<1> QED BY <1>2, <1>4, <1>5, <1>6, <1>7 DEF IInv

\* A candidate keeps everything but the best tree and its text.
LEMMA CandidateIInv ==
  ASSUME IInv, pc \in Candidates, NEW next \in Candidates \cup {"idle"}, NEW text,
         Shape(text), text.own, text.text = source, text.masks # {},
         call' = call \/ call' = [call EXCEPT !.masked = {"syntax"}] \/ next = "idle",
         Candidate(text, next)
  PROVE  IInv'
<1> USE DEF Candidate, document, editor
<1>1. PcInv' /\ CallIsForItsText'
  <2>1. pc' \in Candidates \cup {"idle"} OBVIOUS
  <2> QED BY ONLY <2>1 DEF PcInv, CallIsForItsText, Candidates
<1>2. TreeTextIsTheSource'
  BY DEF IInv, TreeTextIsTheSource, Shape
<1>3. CoordinatesFit'
  BY ParsedIsATree DEF IInv, CoordinatesFit
<1>4. GraphIsOfTheTree'
  BY DEF IInv, GraphIsOfTheTree
<1>5. BestIsNoWorse'
  <2> SUFFICES ASSUME next # "idle" PROVE BestIsNoWorse'
    BY DEF BestIsNoWorse, Candidates
  <2>1. /\ call' = [raw |-> call'.raw, masked |-> call'.masked]
        /\ call'.raw = call.raw
    BY DEF IInv, BestIsNoWorse
  <2>2. CASE UNCHANGED <<tree, treeSource>>
    BY <2>1, <2>2 DEF IInv, BestIsNoWorse, Better
  <2>3. CASE \E r \in Results : /\ Better(r, tree)
                                /\ tree' = Parsed(r, TRUE)
                                /\ treeSource' = text
    <3>1. PICK r \in Results : /\ Better(r, tree)
                               /\ tree' = Parsed(r, TRUE)
                               /\ treeSource' = text
      BY <2>3
    <3>2. /\ tree'.errors = r.errors /\ tree'.missing = r.missing
          /\ tree \in Trees /\ call.raw \in Results
      BY <3>1, ParsedIsATree DEF IInv, CoordinatesFit, BestIsNoWorse
    <3>3. Better(tree', call.raw)
      <4>1. CASE treeSource.masks = {}
        BY <3>1, <3>2, <4>1 DEF IInv, BestIsNoWorse, Better
      <4>2. CASE treeSource.masks # {}
        <5>1. Better(tree, call.raw)
          BY <4>2 DEF IInv, BestIsNoWorse
        <5>2. Better(r, call.raw)
          BY <3>1, <3>2, <5>1, Numbers, BetterIsTransitive
        <5> QED BY <3>2, <5>2 DEF Better
      <4> QED BY <4>1, <4>2
    <3> QED BY <2>1, <3>1, <3>2, <3>3 DEF IInv, BestIsNoWorse, Better
  <2> QED BY <2>2, <2>3
<1> QED BY <1>1, <1>2, <1>3, <1>4, <1>5 DEF IInv

LEMMA SkipIInv ==
  ASSUME IInv, pc \in Candidates, NEW next \in Candidates \cup {"idle"},
         call' = call \/ next = "idle",
         pc' = next, UNCHANGED <<document, diverged>>
  PROVE  IInv'
<1>1. pc' \in Candidates \cup {"idle"} OBVIOUS
<1>2. PcInv' /\ CallIsForItsText'
  BY ONLY <1>1 DEF PcInv, CallIsForItsText, Candidates
<1>3. TreeTextIsTheSource' /\ CoordinatesFit' /\ GraphIsOfTheTree'
  BY DEF IInv, TreeTextIsTheSource, CoordinatesFit, GraphIsOfTheTree, Shape, document
<1>4. BestIsNoWorse'
  <2>1. CASE next = "idle"
    BY <2>1 DEF BestIsNoWorse, Candidates
  <2>2. CASE next # "idle"
    BY <2>2 DEF IInv, BestIsNoWorse, Better, document
  <2> QED BY <2>1, <2>2
<1> QED BY <1>2, <1>3, <1>4 DEF IInv

\* An error leaves the document, but for the coordinates.
LEMMA FailIInv == ASSUME IInv, pc \in {"idle", "parse"}, Fail,
                         UNCHANGED <<source, treeSource, scopeGraph>>,
                         tree' \in Trees
                  PROVE  IInv'
BY DEF IInv, Fail, PcInv, CallIsForItsText, Candidates, TreeTextIsTheSource,
       Shape, CoordinatesFit, BestIsNoWorse, GraphIsOfTheTree

LEMMA ChooseIInv ==
  ASSUME IInv, pc = "parse", NEW r \in Results, ParseReturns(r)
  PROVE  IInv'
<1> DEFINE fits == call.fresh \/ tree.fits
<1>1. /\ source' = call.text
      /\ tree' = Parsed(r, fits)
      /\ treeSource' = call.parsed
      /\ scopeGraph' = NoGraph
      /\ IF r.errors = 0
           THEN pc' = "idle" /\ call' = NoCall
           ELSE pc' = "syntax" /\ call' = [raw |-> r, masked |-> {}]
      /\ diverged' = (diverged /\ ~call.full)
  BY DEF ParseReturns, Choose
<1>2. /\ call.fresh \in BOOLEAN /\ call.full \in BOOLEAN /\ tree.fits \in BOOLEAN
      /\ diverged \in BOOLEAN
      /\ ~diverged => tree.fits
      /\ call.full => call.fresh
  BY Numbers DEF IInv, CoordinatesFit, CallIsForItsText
<1>3. PcInv' /\ CallIsForItsText'
  BY <1>1 DEF PcInv, CallIsForItsText, Candidates
<1>4. TreeTextIsTheSource'
  BY <1>1 DEF IInv, CallIsForItsText, TreeTextIsTheSource, Shape
<1>5. tree' \in Trees /\ tree'.fits = fits
       /\ tree'.errors = r.errors /\ tree'.missing = r.missing
  BY <1>1, <1>2, ParsedIsATree
<1>6. CoordinatesFit'
  BY <1>1, <1>2, <1>5 DEF CoordinatesFit
<1>7. BestIsNoWorse'
  BY <1>1, <1>5 DEF IInv, CallIsForItsText, BestIsNoWorse, Candidates
<1>8. GraphIsOfTheTree'
  BY <1>1 DEF GraphIsOfTheTree
<1> QED BY <1>3, <1>4, <1>6, <1>7, <1>8 DEF IInv

\* A change of a range: the incremental parse is only asked for when the tree's
\* text is the source.
LEMMA RangeChangeIInv ==
  ASSUME IInv, NEW from, NEW to, NEW new, RangeChange(from, to, new)
  PROVE  IInv'
<1> DEFINE start == Offset(source, EditorPosition(client, from))
           end == Offset(source, EditorPosition(client, to))
           next == Spliced(source, start, end, new)
           removed == SubSeq(source, start + 1, end)
<1>1. pc = "idle" /\ UNCHANGED document
  BY DEF RangeChange
<1>2. CASE Fail
  BY <1>1, <1>2, FailIInv DEF document, IInv, CoordinatesFit
<1>3. CASE /\ pc' = "parse"
           /\ call' = [text |-> next,
                       parsed |-> IF FreshRequired THEN Text(next, {})
                                  ELSE ReplaceBytes(start, end, new),
                       fresh |-> FreshRequired, full |-> FALSE,
                       shorter |-> Width(ByteWidth, new) < Width(ByteWidth, removed)]
           /\ UNCHANGED diverged
  <2> HIDE DEF start, end, removed
  <2>1. FreshRequired \in BOOLEAN
    BY DEF FreshRequired, Recovered
  <2>2. /\ call'.fresh = FreshRequired /\ call'.full = FALSE /\ call'.text = next
        /\ call'.parsed = IF FreshRequired THEN Text(next, {})
                          ELSE ReplaceBytes(start, end, new)
    BY <1>3
  <2>3. ASSUME ~FreshRequired
        PROVE  LET p == ReplaceBytes(start, end, new)
               IN  Shape(p) /\ p.masks = {} /\ p.own /\ p.text = next
    BY <2>3 DEF FreshRequired, Recovered, Exact, ReplaceBytes, Shape
  <2>4. CallIsForItsText'
    BY <1>3, <2>1, <2>2, <2>3, TextShape DEF CallIsForItsText, Shape
  <2>5. PcInv' /\ BestIsNoWorse'
    BY <1>3 DEF PcInv, BestIsNoWorse, Candidates
  <2>6. TreeTextIsTheSource' /\ CoordinatesFit' /\ GraphIsOfTheTree'
    BY <1>1, <1>3 DEF IInv, TreeTextIsTheSource, Shape, CoordinatesFit,
                      GraphIsOfTheTree, document, Candidates
  <2> QED BY <2>4, <2>5, <2>6 DEF IInv
<1> QED BY <1>2, <1>3 DEF RangeChange

LEMMA FullChangeIInv ==
  ASSUME IInv, NEW new, FullChange(new)
  PROVE  IInv'
<1>1. /\ pc = "idle" /\ pc' = "parse" /\ UNCHANGED <<document, diverged>>
      /\ call' = [text |-> new, parsed |-> Text(new, {}), fresh |-> TRUE,
                  full |-> TRUE, shorter |-> FALSE]
  BY DEF FullChange
<1>2. CallIsForItsText'
  BY <1>1, TextShape DEF CallIsForItsText, Shape
<1>3. PcInv' /\ BestIsNoWorse'
  BY <1>1 DEF PcInv, BestIsNoWorse, Candidates
<1>4. TreeTextIsTheSource' /\ CoordinatesFit' /\ GraphIsOfTheTree'
  BY <1>1 DEF IInv, TreeTextIsTheSource, Shape, CoordinatesFit,
              GraphIsOfTheTree, document, Candidates
<1> QED BY <1>2, <1>3, <1>4 DEF IInv

LEMMA ParseFailsIInv ==
  ASSUME IInv, ParseFails
  PROVE  IInv'
<1>1. tree' \in Trees
  <2>1. 1 \in 0 .. MaxErrors
    BY BoundsAssumption
  <2>2. tree \in Trees
    BY DEF IInv, CoordinatesFit
  <2>3. "stopped" \in Kinds
    BY DEF Kinds
  <2>4. CASE call.fresh
    BY <2>2, <2>4 DEF ParseFails
  <2>5. CASE ~call.fresh /\ call.shorter
    BY <2>1, <2>2, <2>3, <2>5 DEF ParseFails, Trees
  <2>6. CASE ~call.fresh /\ ~call.shorter
    BY <2>1, <2>2, <2>3, <2>6 DEF ParseFails, Trees
  <2> QED BY <2>4, <2>5, <2>6
<1> QED BY <1>1, FailIInv DEF ParseFails

LEMMA RecoverIInv ==
  ASSUME IInv, Recover
  PROVE  IInv'
<1>1. Shape(treeSource) /\ treeSource.own /\ treeSource.text = source
  BY DEF IInv, TreeTextIsTheSource
<1>2. CASE MaskSyntax
  <2>1. pc \in Candidates /\ "paths" \in Candidates
    BY <1>2 DEF MaskSyntax, Candidates
  <2>2. CASE Skip("paths")
    BY <2>1, <2>2, SkipIInv DEF Skip
  <2>3. CASE /\ call' = [call EXCEPT !.masked = {"syntax"}]
             /\ Candidate(Text(source, {"syntax"}), "paths")
    BY <2>1, <2>3, TextShape, CandidateIInv
  <2> QED BY <1>2, <2>2, <2>3 DEF MaskSyntax
<1>3. CASE MaskPaths
  <2>1. pc \in Candidates /\ "both" \in Candidates
    BY <1>3 DEF MaskPaths, Candidates
  <2> QED BY <1>3, <2>1, TextShape, CandidateIInv DEF MaskPaths
<1>4. CASE MaskPathsAfterSyntax
  <2>1. pc \in Candidates /\ "constructors" \in Candidates
    BY <1>4 DEF MaskPathsAfterSyntax, Candidates
  <2>2. CASE Skip("constructors")
    BY <2>1, <2>2, SkipIInv DEF Skip
  <2>3. CASE /\ Candidate(Text(source, {"syntax", "paths"}), "constructors")
             /\ UNCHANGED call
    BY <2>1, <2>3, TextShape, CandidateIInv
  <2> QED BY <1>4, <2>2, <2>3 DEF MaskPathsAfterSyntax
<1>5. CASE MaskConstructors
  <2>1. pc \in Candidates /\ "comments" \in Candidates
    BY <1>5 DEF MaskConstructors, Candidates
  <2>2. CASE Skip("comments")
    BY <2>1, <2>2, SkipIInv DEF Skip
  <2>3. CASE /\ Candidate(Text(source, call.masked \cup {"constructors"}), "comments")
             /\ UNCHANGED call
    <3>1. call.masked \cup {"constructors"} # {} OBVIOUS
    <3> QED BY <2>1, <2>3, <3>1, TextShape, CandidateIInv
  <2> QED BY <1>5, <2>2, <2>3 DEF MaskConstructors
<1>6. CASE MaskComments
  <2>1. pc \in Candidates /\ "bodies" \in Candidates
    BY <1>6 DEF MaskComments, Candidates
  <2>2. CASE Skip("bodies")
    BY <2>1, <2>2, SkipIInv DEF Skip
  <2>3. CASE /\ Candidate([treeSource EXCEPT !.masks = @ \cup {"comments"}], "bodies")
             /\ UNCHANGED call
    <3> DEFINE text == [treeSource EXCEPT !.masks = @ \cup {"comments"}]
    <3>1. Shape(text) /\ text.own /\ text.text = source /\ text.masks # {}
      BY <1>1 DEF Shape
    <3> HIDE DEF text
    <3>2. Candidate(text, "bodies") /\ call' = call
      BY <2>3 DEF text
    <3> QED BY <2>1, <3>1, <3>2, CandidateIInv
  <2> QED BY <1>6, <2>2, <2>3 DEF MaskComments
<1>7. CASE MaskBodies
  <2>1. pc \in Candidates /\ "idle" \in Candidates \cup {"idle"}
    BY <1>7 DEF MaskBodies, Candidates
  <2>2. CASE Candidate(Text(source, call.masked \cup {"bodies"}), "idle")
    <3>1. call.masked \cup {"bodies"} # {} OBVIOUS
    <3> QED BY <2>1, <2>2, <3>1, TextShape, CandidateIInv
  <2>3. CASE pc' = "idle" /\ UNCHANGED <<editor, document, diverged>>
    BY <2>1, <2>3, SkipIInv
  <2> QED BY <1>7, <2>2, <2>3 DEF MaskBodies
<1> QED BY <1>2, <1>3, <1>4, <1>5, <1>6, <1>7 DEF Recover

LEMMA NextIInv == IInv /\ [Next]_vars => IInv'
<1> SUFFICES ASSUME IInv, [Next]_vars PROVE IInv' OBVIOUS
<1>1. CASE \E new \in Insertions : FullChange(new)
  BY <1>1, FullChangeIInv
<1>2. CASE \E from, to \in EditorPlaces(client), new \in Insertions :
             from <= to /\ RangeChange(from, to, new)
  BY <1>2, RangeChangeIInv
<1>3. CASE ParseFails
  BY <1>3, ParseFailsIInv
<1>4. CASE \E r \in Results : ParseReturns(r)
  BY <1>4, ChooseIInv DEF ParseReturns
<1>5. CASE ReturnError
  BY <1>5 DEF ReturnError, document, IInv, PcInv, CallIsForItsText, Candidates,
     TreeTextIsTheSource, Shape, CoordinatesFit, BestIsNoWorse, GraphIsOfTheTree
<1>6. CASE Recover
  BY <1>6, RecoverIInv
<1>7. CASE BuildScopes
  BY <1>7 DEF BuildScopes, IInv, PcInv, CallIsForItsText, Candidates,
     TreeTextIsTheSource, Shape, CoordinatesFit, BestIsNoWorse, GraphIsOfTheTree
<1>8. CASE UNCHANGED vars
  BY <1>8 DEF vars, IInv, PcInv, CallIsForItsText, TreeTextIsTheSource, Shape,
     CoordinatesFit, BestIsNoWorse, Better, GraphIsOfTheTree
<1> QED BY <1>1, <1>2, <1>3, <1>4, <1>5, <1>6, <1>7, <1>8 DEF Next

LEMMA Invariance == Spec => []IInv
BY InitIInv, NextIInv, PTL DEF Spec

-----------------------------------------------------------------------------
(***************************************************************************)
(* Positions: the walks of Offset lead back to the place whose position    *)
(* the editor sent, as long as the two agree on the line ends in front.    *)
(***************************************************************************)
Weights == [Chars -> Nat \ {0}]

LEMMA WidthsAreWeights == UnitWidth \in Weights /\ ByteWidth \in Weights
BY DEF Weights, UnitWidth, ByteWidth, Chars

LEMMA WidthSums ==
  ASSUME NEW w \in Weights, NEW t \in Seq(Chars)
  PROVE  \E sum \in [0 .. Len(t) -> Nat] :
           /\ sum[0] = 0
           /\ \A n \in 1 .. Len(t) : sum[n] = sum[n - 1] + w[t[n]]
           /\ Width(w, t) = sum[Len(t)]
<1> DEFINE N == Len(t)
           Sums(g) == [n \in 0 .. N |-> IF n = 0 THEN 0 ELSE g[n - 1] + w[t[n]]]
           sum == CHOOSE g : g = Sums(g)
           step == [z \in Nat \X (1 .. N) |-> z[1] + w[t[z[2]]]]
<1>1. N \in Nat /\ \A n \in 1 .. N : w[t[n]] \in Nat
  BY ElementOfSeq DEF Weights
<1>2. Width(w, t) = sum[N]
  BY DEF Width
<1>3. step \in [Nat \X (1 .. N) -> Nat]
  BY <1>1
<1>4. \A x \in Nat, n \in 1 .. N : step[<<x, n>>] = x + w[t[n]]
  OBVIOUS
<1>5. PICK f \in [0 .. N -> Nat] :
        /\ f[0] = 0
        /\ \A n \in 1 .. N : f[n] = step[<<f[n - 1], n>>]
  <2>1. 0 \in Nat OBVIOUS
  <2>2. \E f : IsFold(f, N, Nat, 0, step)
    BY ONLY <1>1, <1>3, <2>1, FoldExists
  <2> QED BY <2>2 DEF IsFold
<1> HIDE DEF step
<1>6. f = Sums(f)
  <2>1. \A n \in 1 .. N : n - 1 \in 0 .. N /\ f[n] = f[n - 1] + w[t[n]]
    BY <1>4, <1>5
  <2> QED BY <1>5, <2>1
<1>7. sum = Sums(sum)
  <2> HIDE DEF Sums
  <2> QED BY <1>6
<1> HIDE DEF sum
<1>8. sum[0] = 0 /\ \A n \in 1 .. N : sum[n] = sum[n - 1] + w[t[n]]
  BY <1>1, <1>7
<1>9. \A n \in 0 .. N : sum[n] \in Nat
  <2> DEFINE T == {n \in Nat : sum[n] \in Nat}
  <2>1. 0 \in T
    BY <1>8
  <2>2. \A n \in 0 .. N - 1 : n \in T => n + 1 \in T
    BY <1>1, <1>8
  <2> HIDE DEF T, N
  <2>3. \A n \in 0 .. N : n \in T
    BY <1>1, <2>1, <2>2, UpwardInduction
  <2> QED BY <2>3 DEF T
<1>10. sum \in [0 .. N -> Nat]
  BY <1>7, <1>9
<1> QED BY <1>2, <1>8, <1>10

LEMMA WidthOfNothing == ASSUME NEW w \in Weights PROVE Width(w, <<>>) = 0
<1>1. <<>> \in Seq(Chars) /\ Len(<<>>) = 0 OBVIOUS
<1> QED BY <1>1, WidthSums

LEMMA WidthIsNat ==
  ASSUME NEW w \in Weights, NEW t \in Seq(Chars) PROVE Width(w, t) \in Nat
<1>1. Len(t) \in Nat OBVIOUS
<1> QED BY <1>1, WidthSums

LEMMA WidthOfAppend ==
  ASSUME NEW w \in Weights, NEW t \in Seq(Chars), NEW c \in Chars
  PROVE  Width(w, Append(t, c)) = Width(w, t) + w[c]
<1> DEFINE u == Append(t, c)
           N == Len(t)
<1>1. /\ u \in Seq(Chars) /\ Len(u) = N + 1 /\ N \in Nat
      /\ u[N + 1] = c /\ \A n \in 1 .. N : u[n] = t[n]
  OBVIOUS
<1>9. /\ u \in Seq(Chars) /\ N + 1 = Len(u) /\ N = Len(t)
  BY <1>1
<1> HIDE DEF u, N
<1>2. PICK f \in [0 .. N -> Nat] :
        /\ f[0] = 0
        /\ \A n \in 1 .. N : f[n] = f[n - 1] + w[t[n]]
        /\ Width(w, t) = f[N]
  BY <1>9, WidthSums
<1>3. PICK g \in [0 .. N + 1 -> Nat] :
        /\ g[0] = 0
        /\ \A n \in 1 .. N + 1 : g[n] = g[n - 1] + w[u[n]]
        /\ Width(w, u) = g[N + 1]
  <2>1. \E g \in [0 .. Len(u) -> Nat] :
          /\ g[0] = 0
          /\ \A n \in 1 .. Len(u) : g[n] = g[n - 1] + w[u[n]]
          /\ Width(w, u) = g[Len(u)]
    BY <1>9, WidthSums
  <2> QED BY <1>9, <2>1
<1> DEFINE T == {n \in Nat : g[n] = f[n]}
<1>4. 0 \in T
  BY <1>2, <1>3
<1>5. \A n \in 0 .. N - 1 : n \in T => n + 1 \in T
  <2> SUFFICES ASSUME NEW n \in 0 .. N - 1, g[n] = f[n] PROVE g[n + 1] = f[n + 1]
    OBVIOUS
  <2>1. n + 1 \in 1 .. N /\ n + 1 \in 1 .. N + 1 /\ n + 1 - 1 = n
    BY <1>1
  <2>2. f[n + 1] = f[n] + w[t[n + 1]]
    BY <1>2, <2>1
  <2>3. g[n + 1] = g[n] + w[u[n + 1]]
    BY <1>3, <2>1
  <2> QED BY <1>1, <2>1, <2>2, <2>3
<1> HIDE DEF T
<1>6. N \in T
  <2>1. \A n \in 0 .. N : n \in T
    BY <1>1, <1>4, <1>5, UpwardInduction
  <2> QED BY <1>1, <2>1
<1>7. g[N] = f[N]
  BY <1>6 DEF T
<1>8. g[N + 1] = g[N] + w[c]
  <2>1. N + 1 \in 1 .. N + 1 /\ N + 1 - 1 = N
    BY <1>1
  <2> QED BY <1>1, <1>3, <2>1
<1> QED BY <1>2, <1>3, <1>7, <1>8 DEF u

\* One character further along a line.
LEMMA WidthToTheNext ==
  ASSUME NEW w \in Weights, NEW t \in Seq(Chars), NEW s \in 0 .. Len(t),
         NEW p \in s .. Len(t)
  PROVE  /\ Width(w, SubSeq(t, s + 1, p)) \in Nat
         /\ p < Len(t) => Width(w, SubSeq(t, s + 1, p + 1))
                            = Width(w, SubSeq(t, s + 1, p)) + w[t[p + 1]]
         /\ Width(w, SubSeq(t, s + 1, s)) = 0
<1>1. SubSeq(t, s + 1, p) \in Seq(Chars)
  OBVIOUS
<1>2. SubSeq(t, s + 1, s) = <<>>
  OBVIOUS
<1>3. ASSUME p < Len(t)
      PROVE  SubSeq(t, s + 1, p + 1) = Append(SubSeq(t, s + 1, p), t[p + 1])
  BY <1>3
<1>4. p < Len(t) => t[p + 1] \in Chars
  BY ElementOfSeq
<1> QED BY <1>1, <1>2, <1>3, <1>4, WidthIsNat, WidthOfAppend, WidthOfNothing
\* The line a place is on starts behind the last newline in front of it.
Before(text, place) == {i \in Newlines(text) : i <= place}
Start(text, place) == Max(Before(text, place) \cup {0})

LEMMA LineStart ==
  ASSUME NEW text \in Seq(Chars), NEW place \in 0 .. Len(text)
  PROVE  /\ Start(text, place) \in 0 .. place
         /\ Start(text, place) # 0 => Start(text, place) \in Before(text, place)
         /\ \A i \in Start(text, place) + 1 .. place : text[i] # "newline"
<1> DEFINE B == Before(text, place) \cup {0}
<1>1. /\ B \subseteq 0 .. place /\ 0 \in B /\ place \in Nat
      /\ \A i \in 1 .. place : i \in B <=> text[i] = "newline"
  BY DEF Before, Newlines
<1>2. Start(text, place) = CHOOSE s \in B : \A i \in B : s >= i
  BY DEF Start, Max
<1>3. B # {}
  BY <1>1
<1> HIDE DEF B
<1>4. \E s \in B : \A i \in B : s >= i
  BY ONLY <1>1, <1>3, GreatestOf
<1> DEFINE s == Start(text, place)
<1>5. s \in B /\ \A i \in B : s >= i
  BY <1>2, <1>4
<1>6. s \in 0 .. place /\ (s # 0 => s \in Before(text, place))
  BY <1>1, <1>5 DEF B
<1>7. ASSUME NEW i \in s + 1 .. place PROVE text[i] # "newline"
  <2>1. i \in 1 .. place /\ ~(s >= i)
    BY <1>6
  <2> QED BY <1>1, <1>5, <2>1
<1> QED BY <1>6, <1>7

\* Up to a place with no lone return in front the editor counts as Offset does.
LEMMA EditorsPosition ==
  ASSUME NEW text \in Seq(Chars), NEW place \in 0 .. Len(text),
         ~ \E i \in LoneReturns(text) : i <= place
  PROVE  EditorPosition(text, place) =
           [line |-> Cardinality(Before(text, place)),
            character |-> Width(UnitWidth, SubSeq(text, Start(text, place) + 1, place))]
<1>1. {i \in Newlines(text) \cup LoneReturns(text) : i <= place} = Before(text, place)
  BY DEF Before
<1> QED BY <1>1 DEF EditorPosition, PositionIn, Start

\* The two walks of Offset, one step each.
LineStep(text, w) ==
  [passed |-> IF text[w.place + 1] = "newline" THEN w.passed + 1 ELSE w.passed,
   place |-> w.place + 1]
UnitStep(text, w) ==
  [passed |-> w.passed + UnitWidth[text[w.place + 1]], place |-> w.place + 1]

ToLine(f, text, line) ==
  f = [w \in Walks |-> IF w.passed < line /\ w.place < Len(text)
                         THEN f[LineStep(text, w)] ELSE w]
Along(f, text, character) ==
  f = [w \in Walks |->
         IF \/ w.place >= Len(text) \/ text[w.place + 1] = "newline"
            \/ w.passed >= character
           THEN IF w.passed = character THEN w.place ELSE NoPlace
           ELSE f[UnitStep(text, w)]]

LEMMA Steps ==
  ASSUME NEW text \in Seq(Chars), NEW w \in Walks, w.place < Len(text)
  PROVE  /\ LineStep(text, w) \in Walks /\ LineStep(text, w).place = w.place + 1
         /\ UnitStep(text, w) \in Walks /\ UnitStep(text, w).place = w.place + 1
<1>1. w.place \in Nat /\ w.passed \in Nat /\ w.place + 1 \in 1 .. Len(text)
  BY DEF Walks
<1>2. UnitWidth[text[w.place + 1]] \in Nat
  BY <1>1, ElementOfSeq, WidthsAreWeights DEF Weights
<1> QED BY <1>1, <1>2 DEF Walks, LineStep, UnitStep

\* Both come to an end: the text is in front of them.
LEMMA WalksEnd ==
  ASSUME NEW text \in Seq(Chars), NEW n
  PROVE  (\E f : ToLine(f, text, n)) /\ (\E f : Along(f, text, n))
<1> DEFINE N == Len(text)
           m == [w \in Walks |-> IF w.place < N THEN N - w.place ELSE 0]
<1>1. N \in Nat /\ \A w \in Walks : w.place \in Nat
  BY DEF Walks
<1>2. m \in [Walks -> 0 .. N]
  BY <1>1
<1>3. \A w, v \in Walks : w.place < N /\ v.place = w.place + 1 => m[v] < m[w]
  BY <1>1
<1> HIDE DEF m
<1>4. \E f : ToLine(f, text, n)
  <2> DEFINE stop == {w \in Walks : ~(w.passed < n /\ w.place < N)}
             out == [w \in Walks |-> w]
             next == [w \in Walks |-> LineStep(text, w)]
  <2>1. ASSUME NEW w \in Walks \ stop PROVE next[w] \in Walks /\ m[next[w]] < m[w]
    BY <1>3, Steps
  <2>2. ASSUME NEW f, IsLoop(f, Walks, stop, out, next) PROVE ToLine(f, text, n)
    BY <2>2 DEF IsLoop, ToLine
  <2> HIDE DEF stop, out, next, N
  <2>3. \E f : IsLoop(f, Walks, stop, out, next)
    BY ONLY <1>1, <1>2, <2>1, LoopExists
  <2> QED BY <2>2, <2>3
<1>5. \E f : Along(f, text, n)
  <2> DEFINE stop == {w \in Walks : \/ w.place >= N \/ text[w.place + 1] = "newline"
                                    \/ w.passed >= n}
             out == [w \in Walks |-> IF w.passed = n THEN w.place ELSE NoPlace]
             next == [w \in Walks |-> UnitStep(text, w)]
  <2>1. ASSUME NEW w \in Walks \ stop PROVE next[w] \in Walks /\ m[next[w]] < m[w]
    <3>1. w.place < N
      BY <1>1
    <3> QED BY <1>3, <3>1, Steps
  <2>2. ASSUME NEW f, IsLoop(f, Walks, stop, out, next) PROVE Along(f, text, n)
    BY <2>2 DEF IsLoop, Along
  <2> HIDE DEF stop, out, next, N
  <2>3. \E f : IsLoop(f, Walks, stop, out, next)
    BY ONLY <1>1, <1>2, <2>1, LoopExists
  <2> QED BY <2>2, <2>3
<1> QED BY <1>4, <1>5

LEMMA OffsetWalks ==
  ASSUME NEW text \in Seq(Chars), NEW position
  PROVE  \E toLine, along :
           /\ ToLine(toLine, text, position.line)
           /\ Along(along, text, position.character)
           /\ Offset(text, position) =
                LET found == toLine[[passed |-> 0, place |-> 0]]
                IN  IF found.passed = position.line
                      THEN along[[passed |-> 0, place |-> found.place]]
                      ELSE NoPlace
<1> DEFINE toLine == CHOOSE f : ToLine(f, text, position.line)
           along == CHOOSE f : Along(f, text, position.character)
<1>1. ToLine(toLine, text, position.line) /\ Along(along, text, position.character)
  BY WalksEnd, Zenon
<1>2. Offset(text, position) =
        LET found == toLine[[passed |-> 0, place |-> 0]]
        IN  IF found.passed = position.line
              THEN along[[passed |-> 0, place |-> found.place]]
              ELSE NoPlace
  BY DEF Offset, ToLine, Along, LineStep, UnitStep
<1> HIDE DEF toLine, along
<1> QED BY <1>1, <1>2

\* The first walk stops at the start of the line.
LEMMA WalkToTheLine ==
  ASSUME NEW text \in Seq(Chars), NEW place \in 0 .. Len(text), NEW f,
         ToLine(f, text, Cardinality(Before(text, place)))
  PROVE  /\ Cardinality(Before(text, place)) \in Nat
         /\ f[[passed |-> 0, place |-> 0]] =
              [passed |-> Cardinality(Before(text, place)), place |-> Start(text, place)]
<1> DEFINE N == Len(text)
           E == Newlines(text)
           C(p) == CountTo(E, p)
           s == Start(text, place)
           L == Cardinality(Before(text, place))
           w(p) == [passed |-> C(p), place |-> p]
<1>1. N \in Nat /\ E \subseteq 1 .. N /\ place \in 0 .. N
  BY DEF Newlines
<1>2. s \in 0 .. place /\ (s # 0 => s \in Before(text, place))
      /\ \A i \in s + 1 .. place : text[i] # "newline"
  BY LineStart
<1>3. s \in 0 .. N /\ (s # 0 => s \in E)
  BY <1>1, <1>2 DEF Before
<1>4. \A p \in 0 .. N : /\ C(p) \in Nat
                        /\ p < N => C(p + 1) = IF p + 1 \in E THEN C(p) + 1 ELSE C(p)
                        /\ \A q \in 0 .. N : p < q /\ q \in E => C(p) < C(q)
  <2> SUFFICES ASSUME NEW p \in 0 .. N
               PROVE  /\ C(p) \in Nat
                      /\ p < N => C(p + 1) = IF p + 1 \in E THEN C(p) + 1 ELSE C(p)
                      /\ \A q \in 0 .. N : p < q /\ q \in E => C(p) < C(q)
    OBVIOUS
  <2> HIDE DEF N, E
  <2>1. C(p) \in Nat
    BY <1>1, CountUpTo
  <2>2. p < N => C(p + 1) = IF p + 1 \in E THEN C(p) + 1 ELSE C(p)
    <3>1. p < N /\ p + 1 \in E => C(p + 1) = C(p) + 1
      BY <1>1, CountUpTo
    <3>2. p < N /\ p + 1 \notin E => C(p + 1) = C(p)
      BY <1>1, CountUpTo
    <3> QED BY <3>1, <3>2
  <2>3. \A q \in 0 .. N : p < q /\ q \in E => C(p) < C(q)
    BY <1>1, CountUpTo
  <2> QED BY <2>1, <2>2, <2>3
<1>5. C(0) = 0
  <2> HIDE DEF N, E
  <2> QED BY <1>1, CountUpTo
<1>6. C(s) = L
  <2>1. {i \in E : i <= s} = Before(text, place)
    <3>1. ASSUME NEW i \in E, i <= place, ~(i <= s) PROVE FALSE
      <4>1. i \in s + 1 .. place
        BY <1>1, <1>2, <3>1
      <4> QED BY <1>2, <3>1, <4>1 DEF Newlines
    <3>2. \A i \in E : i \in Nat /\ (i <= s => i <= place)
      BY <1>1, <1>2
    <3> QED BY <3>1, <3>2 DEF Before
  <2> QED BY <2>1 DEF CountTo
<1>7. ASSUME NEW p \in 0 .. s - 1 PROVE f[w(p)] = f[w(p + 1)]
  <2>1. p \in 0 .. N /\ p < N /\ p < s /\ s \in E
    BY <1>1, <1>2, <1>3
  <2>2. C(p) < L /\ C(p) \in Nat
    BY <1>3, <1>4, <1>6, <2>1
  <2>3. w(p) \in Walks /\ w(p).passed = C(p) /\ w(p).place = p
    BY <2>1, <2>2 DEF Walks
  <2>4. f[w(p)] = f[LineStep(text, w(p))]
    BY <2>1, <2>2, <2>3 DEF ToLine
  <2>5. p + 1 \in E <=> text[p + 1] = "newline"
    BY <2>1 DEF Newlines
  <2>6. LineStep(text, w(p)) = w(p + 1)
    BY <1>4, <2>1, <2>3, <2>5 DEF LineStep
  <2> QED BY <2>4, <2>6
<1> DEFINE T == {p \in Nat : f[w(0)] = f[w(p)]}
<1>8. 0 \in T OBVIOUS
<1>9. \A p \in 0 .. s - 1 : p \in T => p + 1 \in T
  <2> SUFFICES ASSUME NEW p \in 0 .. s - 1, f[w(0)] = f[w(p)]
               PROVE  f[w(0)] = f[w(p + 1)]
    OBVIOUS
  <2> QED BY <1>7
<1> HIDE DEF T
<1>10. s \in T
  <2>1. s \in Nat
    BY <1>2
  <2>2. \A p \in 0 .. s : p \in T
    BY ONLY <1>8, <1>9, <2>1, UpwardInduction
  <2> QED BY <2>1, <2>2
<1>11. f[w(0)] = f[w(s)]
  BY <1>10 DEF T
<1>12. L \in Nat
  BY <1>3, <1>4, <1>6
<1>13. f[w(s)] = w(s)
  <2>1. w(s) \in Walks /\ w(s).passed = L
    BY <1>3, <1>6, <1>12 DEF Walks
  <2> QED BY <1>12, <2>1 DEF ToLine
<1> QED BY <1>5, <1>6, <1>11, <1>12, <1>13

\* The second stops at the place.
LEMMA WalkAlongTheLine ==
  ASSUME NEW text \in Seq(Chars), NEW place \in 0 .. Len(text), NEW f,
         Along(f, text, Width(UnitWidth, SubSeq(text, Start(text, place) + 1, place)))
  PROVE  f[[passed |-> 0, place |-> Start(text, place)]] = place
<1> DEFINE N == Len(text)
           s == Start(text, place)
           W(p) == Width(UnitWidth, SubSeq(text, s + 1, p))
           w(p) == [passed |-> W(p), place |-> p]
<1>1. N \in Nat /\ place \in 0 .. N /\ s \in 0 .. place /\ s \in 0 .. N
      /\ \A i \in s + 1 .. place : text[i] # "newline"
  BY LineStart
<1>2. /\ \A p \in s .. N : /\ W(p) \in Nat
                           /\ p < N => W(p + 1) = W(p) + UnitWidth[text[p + 1]]
      /\ W(s) = 0
  BY <1>1, WidthsAreWeights, WidthToTheNext
<1>3. \A p \in 1 .. N : UnitWidth[text[p]] \in Nat /\ UnitWidth[text[p]] > 0
  BY ElementOfSeq, WidthsAreWeights DEF Weights
<1> HIDE DEF W, s
<1>13. w(s) = [passed |-> 0, place |-> s]
  BY <1>2
\* Every character in between adds to the width.
<1>4. \A p \in s .. place : p < place => W(p) < W(place)
  <2> DEFINE T == {k \in Nat : place - k < place => W(place - k) < W(place)}
  <2>1. 0 \in T OBVIOUS
  <2>2. \A k \in 0 .. (place - s) - 1 : k \in T => k + 1 \in T
    <3> SUFFICES ASSUME NEW k \in 0 .. (place - s) - 1,
                        place - k < place => W(place - k) < W(place)
                 PROVE  W(place - (k + 1)) < W(place)
      OBVIOUS
    <3> DEFINE q == place - (k + 1)
    <3>1. q \in s .. N /\ q < N /\ q + 1 = place - k /\ q + 1 \in 1 .. N /\ q + 1 \in s .. N
          /\ place \in s .. N
      BY <1>1
    <3>2. W(q + 1) = W(q) + UnitWidth[text[q + 1]] /\ W(q) \in Nat /\ W(place) \in Nat
      BY <1>2, <3>1
    <3>3. W(q) < W(q + 1) /\ W(q + 1) \in Nat
      BY <1>2, <1>3, <3>1, <3>2
    <3>4. CASE k = 0
      <4>1. q + 1 = place
        BY <3>4
      <4> QED BY <3>3, <4>1
    <3>5. CASE k # 0
      <4>1. W(q + 1) < W(place)
        BY <3>1, <3>5
      <4> HIDE DEF q
      <4>2. W(q) < W(place)
        BY <3>2, <3>3, <4>1
      <4> QED BY <4>2 DEF q
    <3> QED BY <3>4, <3>5
  <2> HIDE DEF T
  <2>3. place - s \in Nat
    BY <1>1
  <2>4. \A k \in 0 .. (place - s) : k \in T
    BY ONLY <2>1, <2>2, <2>3, UpwardInduction
  <2>5. ASSUME NEW p \in s .. place, p < place PROVE W(p) < W(place)
    <3>1. place - p \in 0 .. (place - s) /\ place - (place - p) = p /\ place - p \in Nat
      BY <1>1
    <3> QED BY <2>4, <2>5, <3>1 DEF T
  <2> QED BY <2>5
<1>5. \A p \in s .. place : w(p) \in Walks /\ w(p).passed = W(p) /\ w(p).place = p
  BY <1>1, <1>2 DEF Walks
<1>6. Along(f, text, W(place))
  BY DEF W, s
<1>7. ASSUME NEW p \in s .. place - 1 PROVE f[w(p)] = f[w(p + 1)]
  <2>1. p \in s .. place /\ p < N /\ p < place /\ p + 1 \in s + 1 .. place /\ p \in s .. N
    BY <1>1
  <2>2. W(p) < W(place) /\ W(p) \in Nat /\ W(place) \in Nat
    BY <1>1, <1>2, <1>4, <2>1
  <2>3. text[p + 1] # "newline"
    BY <1>1, <2>1
  <2>4. f[w(p)] = f[UnitStep(text, w(p))]
    BY <1>5, <1>6, <2>1, <2>2, <2>3 DEF Along
  <2>5. UnitStep(text, w(p)) = w(p + 1)
    BY <1>2, <2>1 DEF UnitStep
  <2> QED BY <2>4, <2>5
<1> DEFINE T == {k \in Nat : f[w(s)] = f[w(s + k)]}
<1>8. 0 \in T
  BY <1>1
<1>9. \A k \in 0 .. (place - s) - 1 : k \in T => k + 1 \in T
  <2> SUFFICES ASSUME NEW k \in 0 .. (place - s) - 1, f[w(s)] = f[w(s + k)]
               PROVE  f[w(s)] = f[w(s + (k + 1))]
    OBVIOUS
  <2>1. s + k \in s .. place - 1 /\ s + k + 1 = s + (k + 1)
    BY <1>1
  <2> QED BY <1>7, <2>1
<1> HIDE DEF T
<1>10. place - s \in T
  <2>1. place - s \in Nat
    BY <1>1
  <2>2. \A k \in 0 .. (place - s) : k \in T
    BY ONLY <1>8, <1>9, <2>1, UpwardInduction
  <2> QED BY <2>1, <2>2
<1>11. f[w(s)] = f[w(place)]
  <2>1. s + (place - s) = place
    BY <1>1
  <2> QED BY <1>10, <2>1 DEF T
<1>12. f[w(place)] = place
  <2>1. place \in s .. place /\ place \in s .. N
    BY <1>1
  <2>2. W(place) \in Nat
    BY <1>2, <2>1
  <2> QED BY <1>5, <1>6, <2>1, <2>2 DEF Along
<1> QED BY <1>11, <1>12, <1>13 DEF s

\* Offset leads back to the place the editor meant.
THEOREM OffsetOfPosition ==
  ASSUME NEW text \in Seq(Chars), NEW place \in 0 .. Len(text),
         ~ \E i \in LoneReturns(text) : i <= place
  PROVE  Offset(text, EditorPosition(text, place)) = place
<1> DEFINE position == EditorPosition(text, place)
<1>1. /\ position.line = Cardinality(Before(text, place))
      /\ position.character =
           Width(UnitWidth, SubSeq(text, Start(text, place) + 1, place))
  BY EditorsPosition
<1> HIDE DEF position
<1>2. PICK toLine, along :
        /\ ToLine(toLine, text, position.line)
        /\ Along(along, text, position.character)
        /\ Offset(text, position) =
             LET found == toLine[[passed |-> 0, place |-> 0]]
             IN  IF found.passed = position.line
                   THEN along[[passed |-> 0, place |-> found.place]]
                   ELSE NoPlace
  BY OffsetWalks
<1>3. toLine[[passed |-> 0, place |-> 0]] =
        [passed |-> position.line, place |-> Start(text, place)]
  BY <1>1, <1>2, WalkToTheLine
<1>4. along[[passed |-> 0, place |-> Start(text, place)]] = place
  BY <1>1, <1>2, WalkAlongTheLine
<1> QED BY <1>2, <1>3, <1>4 DEF position

\* Whatever position is sent, Offset gives a place of the text or refuses it.
LEMMA OffsetType ==
  ASSUME NEW text \in Seq(Chars), NEW position
  PROVE  Offset(text, position) \in 0 .. Len(text) \cup {NoPlace}
<1> DEFINE N == Len(text)
           Reach(k) == {w \in Walks : w.place = N - k}
<1>1. N \in Nat OBVIOUS
<1>2. PICK toLine, along :
        /\ ToLine(toLine, text, position.line)
        /\ Along(along, text, position.character)
        /\ Offset(text, position) =
             LET found == toLine[[passed |-> 0, place |-> 0]]
             IN  IF found.passed = position.line
                   THEN along[[passed |-> 0, place |-> found.place]]
                   ELSE NoPlace
  BY OffsetWalks
<1>3. ASSUME NEW w \in Walks, w.place < N
      PROVE  /\ toLine[w] = w \/ toLine[w] = toLine[LineStep(text, w)]
             /\ \/ along[w] \in {w.place, NoPlace}
                \/ along[w] = along[UnitStep(text, w)]
             /\ LineStep(text, w) \in Walks /\ LineStep(text, w).place = w.place + 1
             /\ UnitStep(text, w) \in Walks /\ UnitStep(text, w).place = w.place + 1
  BY <1>2, <1>3, Steps DEF ToLine, Along
<1>4. ASSUME NEW w \in Walks, w.place = N
      PROVE  toLine[w] = w /\ along[w] \in {w.place, NoPlace}
  BY <1>1, <1>2, <1>4 DEF ToLine, Along
<1> DEFINE T == {k \in Nat : \A w \in Walks : w.place = N - k =>
                    /\ toLine[w] \in Walks /\ toLine[w].place \in 0 .. N
                    /\ along[w] \in 0 .. N \cup {NoPlace}}
<1>5. 0 \in T
  BY <1>1, <1>4 DEF Walks
<1>6. \A k \in 0 .. N - 1 : k \in T => k + 1 \in T
  <2> SUFFICES ASSUME NEW k \in 0 .. N - 1, k \in T,
                      NEW w \in Walks, w.place = N - (k + 1)
               PROVE  /\ toLine[w] \in Walks /\ toLine[w].place \in 0 .. N
                      /\ along[w] \in 0 .. N \cup {NoPlace}
    OBVIOUS
  <2>1. w.place < N /\ w.place \in 0 .. N /\ w.place + 1 = N - k
    BY <1>1
  <2>2. \A v \in Walks : v.place = w.place + 1 =>
           /\ toLine[v] \in Walks /\ toLine[v].place \in 0 .. N
           /\ along[v] \in 0 .. N \cup {NoPlace}
    BY <2>1
  <2> HIDE DEF T
  <2> QED BY <1>3, <2>1, <2>2
<1> HIDE DEF T
<1>7. \A k \in 0 .. N : k \in T
  BY ONLY <1>1, <1>5, <1>6, UpwardInduction
<1>8. ASSUME NEW w \in Walks, w.place \in 0 .. N
      PROVE  /\ toLine[w] \in Walks /\ toLine[w].place \in 0 .. N
             /\ along[w] \in 0 .. N \cup {NoPlace}
  <2>1. N - w.place \in 0 .. N /\ w.place = N - (N - w.place)
    BY <1>1, <1>8
  <2> QED BY <1>7, <2>1 DEF T
<1>9. [passed |-> 0, place |-> 0] \in Walks
  BY DEF Walks
<1>10. toLine[[passed |-> 0, place |-> 0]].place \in 0 .. N
  BY <1>1, <1>8, <1>9
<1> DEFINE found == toLine[[passed |-> 0, place |-> 0]]
           v == [passed |-> 0, place |-> found.place]
<1>11. v \in Walks /\ v.place \in 0 .. N
  BY <1>1, <1>10 DEF Walks
<1>12. along[v] \in 0 .. N \cup {NoPlace}
  BY <1>8, <1>11
<1>13. Offset(text, position) \in {along[v], NoPlace}
  BY <1>2
<1> QED BY <1>12, <1>13

-----------------------------------------------------------------------------
\* edit.go, recovery.go: the tree kept after any changes is a parse of the source
\* kept with it, or of that source with masks, from a base with the right
\* coordinates, unless a change failed; so incremental trees are clean trees.
THEOREM IncrementalTreesAreClean == Spec => []TreeIsOfTheSource
<1>1. IInv => TreeIsOfTheSource
  BY DEF IInv, TreeTextIsTheSource, CoordinatesFit, TreeIsOfTheSource
<1> QED BY <1>1, Invariance, PTL

\* scopes.go: the scope graph in the cache is always the one of the tree, unless
\* a change failed.
THEOREM ScopeCache == Spec => []ScopesAreOfTheTree
<1>1. IInv => ScopesAreOfTheTree
  BY DEF IInv, GraphIsOfTheTree, ScopesAreOfTheTree
<1> QED BY <1>1, Invariance, PTL

\* recovery.go: when the candidates have been tried, a tree of masked text is in
\* place only if it beats the exact one, however the parser behaves.
THEOREM RecoveryGains == Spec => MaskedOnlyForGain
<1> DEFINE Gain == pc' = "idle" /\ pc \in Candidates /\ treeSource'.masks # {}
              => \/ tree'.errors < call.raw.errors
                 \/ tree'.errors = call.raw.errors /\ tree'.missing < call.raw.missing
<1>1. ASSUME IInv, Next PROVE Gain
  <2> SUFFICES ASSUME pc' = "idle", pc \in Candidates, treeSource'.masks # {}
               PROVE  Better(tree', call.raw)
    BY DEF Better
  <2>1. MaskBodies
    BY <1>1 DEF Next, FullChange, RangeChange, ParseFails, ParseReturns, ReturnError,
       Recover, BuildScopes, Candidates, MaskSyntax, MaskPaths,
       MaskPathsAfterSyntax, MaskConstructors, MaskComments, Candidate, Skip
  <2>2. CASE UNCHANGED <<tree, treeSource>>
    BY <1>1, <2>2 DEF IInv, BestIsNoWorse, Better
  <2>3. CASE ~UNCHANGED <<tree, treeSource>>
    <3>1. PICK r \in Results : Better(r, tree) /\ tree' = Parsed(r, TRUE)
      BY <2>1, <2>3 DEF MaskBodies, Candidate, document
    <3>2. /\ tree'.errors = r.errors /\ tree'.missing = r.missing
          /\ tree \in Trees /\ call.raw \in Results
      BY <1>1, <3>1, ParsedIsATree DEF IInv, CoordinatesFit, BestIsNoWorse
    <3>3. CASE treeSource.masks = {}
      BY <1>1, <3>1, <3>2, <3>3 DEF IInv, BestIsNoWorse, Better
    <3>4. CASE treeSource.masks # {}
      <4>1. Better(tree, call.raw)
        BY <1>1, <3>4 DEF IInv, BestIsNoWorse
      <4>2. Better(r, call.raw)
        BY <3>1, <3>2, <4>1, Numbers, BetterIsTransitive
      <4> QED BY <3>2, <4>2 DEF Better
    <3> QED BY <3>3, <3>4
  <2> QED BY <2>2, <2>3
<1>2. IInv /\ [Next]_vars => [Gain]_vars
  BY <1>1
<1>3. Spec => [][Gain]_vars
  BY <1>2, Invariance, PTL DEF Spec
<1> QED BY <1>3 DEF MaskedOnlyForGain

-----------------------------------------------------------------------------
(***************************************************************************)
(* The document and the editor's text.  While neither a change has failed  *)
(* nor the two disagree on a line end, every walk ends where the editor    *)
(* meant it to, so the two texts go through the same changes.              *)
(***************************************************************************)
FailureIsKnown == pc = "failed" => diverged

EditorInv == TypeOK /\ SourceIsTheEditors /\ FailureIsKnown

LEMMA SplicedType ==
  ASSUME NEW text \in Seq(Chars), NEW new \in Seq(Chars),
         NEW from \in 0 .. Len(text), NEW to \in 0 .. Len(text)
  PROVE  Spliced(text, from, to, new) \in Seq(Chars)
<1>1. SubSeq(text, 1, from) \in Seq(Chars) /\ SubSeq(text, to + 1, Len(text)) \in Seq(Chars)
  OBVIOUS
<1> QED BY <1>1 DEF Spliced

LEMMA Texts ==
  /\ \A text \in InitialTexts \cup Insertions : text \in Seq(Chars)
  /\ \A text \in Seq(Chars), masks \in SUBSET Masks : Text(text, masks) \in TreeTexts
BY InitialTextsAssumption, InsertionsAssumption DEF Text, TreeTexts

\* What an edit does to the variables of the editor.
LEMMA EditTypes ==
  ASSUME TypeOK, NEW next \in Seq(Chars), Edit(next)
  PROVE  client' \in Seq(Chars) /\ edits' \in 0 .. MaxEdits /\ batch' \in 0 .. 1
         /\ client' = next
BY BoundsAssumption DEF TypeOK, Edit

LEMMA InitEditorInv == Init => EditorInv
<1> SUFFICES ASSUME Init PROVE EditorInv OBVIOUS
<1>1. PICK r \in Results :
        /\ tree = Parsed(r, TRUE)
        /\ IF r.errors = 0 THEN pc = "idle" /\ call = NoCall
           ELSE pc = "syntax" /\ call = [raw |-> r, masked |-> {}]
  BY DEF Init
<1>2. client \in Seq(Chars) /\ source = client /\ treeSource \in TreeTexts
  BY Texts DEF Init
<1>3. tree \in Trees
  BY <1>1, ParsedIsATree
<1>4. \/ pc = "idle" /\ call = NoCall
      \/ pc \in Candidates /\ call \in Choosings
  BY <1>1 DEF Candidates, Choosings
<1>5. TypeOK
  <2>1. edits = 0 /\ batch = 0 /\ scopeGraph = NoGraph
    BY DEF Init
  <2>2. edits \in 0 .. MaxEdits /\ batch \in 0 .. 1
    BY <2>1, BoundsAssumption
  <2>3. astray \in BOOLEAN /\ diverged \in BOOLEAN
    BY Zenon DEF Init
  <2> QED BY <1>2, <1>3, <1>4, <2>1, <2>2, <2>3 DEF TypeOK
<1>6. SourceIsTheEditors /\ FailureIsKnown
  BY <1>2, <1>4 DEF SourceIsTheEditors, FailureIsKnown, Candidates
<1> QED BY <1>5, <1>6 DEF EditorInv

LEMMA FullChangeEditorInv ==
  ASSUME EditorInv, NEW new \in Insertions, FullChange(new)
  PROVE  EditorInv'
<1>1. TypeOK
  BY DEF EditorInv
<1>2. new \in Seq(Chars) /\ Text(new, {}) \in TreeTexts
  BY Texts
<1>3. client' \in Seq(Chars) /\ edits' \in 0 .. MaxEdits /\ batch' \in 0 .. 1 /\ client' = new
  BY <1>1, <1>2, EditTypes DEF FullChange
<1>4. /\ pc' = "parse" /\ call' \in Calls
      /\ call'.text = new /\ call'.full
  BY <1>2 DEF FullChange, Calls
<1>5. TypeOK'
  BY <1>1, <1>3, <1>4 DEF TypeOK, FullChange, document
<1>6. SourceIsTheEditors' /\ FailureIsKnown'
  BY <1>3, <1>4 DEF SourceIsTheEditors, FailureIsKnown
<1> QED BY <1>5, <1>6 DEF EditorInv

\* Where the walks of a change end, if the texts agree in front of it.
LEMMA RangeIsTheEditors ==
  ASSUME EditorInv, pc = "idle",
         NEW from \in EditorPlaces(client), NEW to \in EditorPlaces(client), from <= to,
         ~diverged, ~(astray \/ \E i \in LoneReturns(client) : i <= to)
  PROVE  /\ source = client
         /\ Offset(source, EditorPosition(client, from)) = from
         /\ Offset(source, EditorPosition(client, to)) = to
<1>1. source = client /\ client \in Seq(Chars)
  BY DEF EditorInv, SourceIsTheEditors, TypeOK
<1>2. from \in 0 .. Len(client) /\ to \in 0 .. Len(client)
  BY DEF EditorPlaces
<1>3. \A i \in LoneReturns(client) : i \in Int
  BY <1>1 DEF LoneReturns
<1>4. ~ \E i \in LoneReturns(client) : i <= from
  BY <1>2, <1>3
<1>5. ~ \E i \in LoneReturns(client) : i <= to
  OBVIOUS
<1> QED BY <1>1, <1>2, <1>4, <1>5, OffsetOfPosition

LEMMA RangeChangeEditorInv ==
  ASSUME EditorInv, NEW from \in EditorPlaces(client), NEW to \in EditorPlaces(client),
         NEW new \in Insertions, from <= to, RangeChange(from, to, new)
  PROVE  /\ EditorInv'
         /\ pc' = "failed" => diverged \/ astray'
<1> DEFINE start == Offset(source, EditorPosition(client, from))
           end == Offset(source, EditorPosition(client, to))
           next == Spliced(source, start, end, new)
           removed == SubSeq(source, start + 1, end)
           lone == \E i \in LoneReturns(client) : i <= to
<1>1. TypeOK /\ pc = "idle" /\ client \in Seq(Chars) /\ source \in Seq(Chars)
      /\ new \in Seq(Chars) /\ treeSource \in TreeTexts
  BY Texts DEF EditorInv, RangeChange, TypeOK
<1>2. from \in 0 .. Len(client) /\ to \in 0 .. Len(client)
  BY DEF EditorPlaces
<1>3. Spliced(client, from, to, new) \in Seq(Chars)
  BY <1>1, <1>2, SplicedType
<1>4. /\ client' \in Seq(Chars) /\ edits' \in 0 .. MaxEdits /\ batch' \in 0 .. 1
      /\ client' = Spliced(client, from, to, new)
  BY <1>1, <1>3, EditTypes DEF RangeChange
<1>5. start \in 0 .. Len(source) \cup {NoPlace} /\ end \in 0 .. Len(source) \cup {NoPlace}
  BY <1>1, OffsetType
<1>6. astray' = (astray \/ lone) /\ UNCHANGED document
  BY DEF RangeChange
<1>7. lone \in BOOLEAN OBVIOUS
<1>8. ~diverged /\ ~(astray \/ lone) => source = client /\ start = from /\ end = to
  BY <1>1, RangeIsTheEditors
<1>9. CASE NoPlace \in {start, end} \/ end < start
  <2>1. Fail
    BY <1>9 DEF RangeChange
  <2>2. TypeOK'
    BY <1>1, <1>4, <1>6, <2>1 DEF TypeOK, Fail, document
  <2>3. SourceIsTheEditors' /\ FailureIsKnown'
    BY <2>1 DEF SourceIsTheEditors, FailureIsKnown, Fail
  <2>4. diverged \/ astray \/ lone
    BY <1>2, <1>8, <1>9 DEF NoPlace
  <2> QED BY <1>6, <2>2, <2>3, <2>4 DEF EditorInv
<1>10. CASE ~(NoPlace \in {start, end} \/ end < start)
  <2>1. /\ pc' = "parse"
        /\ call' = [text |-> next,
                    parsed |-> IF FreshRequired THEN Text(next, {})
                               ELSE ReplaceBytes(start, end, new),
                    fresh |-> FreshRequired, full |-> FALSE,
                    shorter |-> Width(ByteWidth, new) < Width(ByteWidth, removed)]
        /\ UNCHANGED diverged
    BY <1>10 DEF RangeChange
  <2>2. start \in 0 .. Len(source) /\ end \in 0 .. Len(source)
    BY <1>5, <1>10
  <2>3. next \in Seq(Chars)
    BY <1>1, <2>2, SplicedType
  <2>4. FreshRequired \in BOOLEAN
    BY DEF FreshRequired, Recovered
  <2>5. ~FreshRequired => ReplaceBytes(start, end, new) \in TreeTexts
    <3> SUFFICES ASSUME ~FreshRequired PROVE ReplaceBytes(start, end, new) \in TreeTexts
      OBVIOUS
    <3>1. treeSource.text = source /\ treeSource.masks = {}
      BY DEF FreshRequired, Recovered, Exact
    <3> HIDE DEF start, end
    <3> QED BY <2>3, <3>1 DEF ReplaceBytes, TreeTexts
  <2>6. next \in Seq(Chars) => Text(next, {}) \in TreeTexts
    BY Texts
  <2> HIDE DEF next, start, end, removed
  <2>7. call' \in Calls /\ call'.text = next /\ call'.full = FALSE
    BY <2>1, <2>3, <2>4, <2>5, <2>6 DEF Calls
  <2>8. TypeOK'
    BY <1>1, <1>4, <1>6, <1>7, <2>1, <2>7 DEF TypeOK, document
  <2>9. ~diverged /\ ~(astray \/ lone) => next = client'
    BY <1>4, <1>8 DEF next
  <2>10. SourceIsTheEditors' /\ FailureIsKnown'
    BY <1>6, <2>1, <2>7, <2>9 DEF SourceIsTheEditors, FailureIsKnown
  <2> QED BY <2>1, <2>8, <2>10 DEF EditorInv
<1> QED BY <1>9, <1>10

LEMMA ParserEditorInv ==
  ASSUME EditorInv, ParseFails \/ \E r \in Results : ParseReturns(r)
  PROVE  EditorInv'
<1>1. TypeOK /\ pc = "parse" /\ call \in Calls /\ UNCHANGED editor
  BY DEF EditorInv, TypeOK, ParseFails, ParseReturns, Candidates
<1>2. CASE ParseFails
  <2>1. Fail /\ UNCHANGED <<source, treeSource, scopeGraph>>
    BY <1>2 DEF ParseFails
  <2>2. tree' \in Trees
    <3>1. 1 \in 0 .. MaxErrors
      BY BoundsAssumption
    <3>2. tree \in Trees
      BY <1>1 DEF TypeOK
    <3>3. "stopped" \in Kinds
      BY DEF Kinds
    <3>4. CASE call.fresh
      BY <1>2, <3>2, <3>4 DEF ParseFails
    <3>5. CASE ~call.fresh /\ call.shorter
      BY <1>2, <3>1, <3>2, <3>3, <3>5 DEF ParseFails, Trees
    <3>6. CASE ~call.fresh /\ ~call.shorter
      BY <1>2, <3>1, <3>2, <3>3, <3>6 DEF ParseFails, Trees
    <3> QED BY <3>4, <3>5, <3>6
  <2>3. TypeOK'
    BY <1>1, <2>1, <2>2 DEF TypeOK, Fail, editor
  <2>4. SourceIsTheEditors' /\ FailureIsKnown'
    BY <2>1 DEF SourceIsTheEditors, FailureIsKnown, Fail
  <2> QED BY <2>3, <2>4 DEF EditorInv
<1>3. CASE \E r \in Results : ParseReturns(r)
  <2>1. PICK r \in Results : ParseReturns(r)
    BY <1>3
  <2>2. /\ source' = call.text
        /\ tree' = Parsed(r, call.fresh \/ tree.fits)
        /\ treeSource' = call.parsed
        /\ scopeGraph' = NoGraph
        /\ IF r.errors = 0
             THEN pc' = "idle" /\ call' = NoCall
             ELSE pc' = "syntax" /\ call' = [raw |-> r, masked |-> {}]
        /\ diverged' = (diverged /\ ~call.full)
    BY <2>1 DEF ParseReturns, Choose
  <2>3. (call.fresh \/ tree.fits) \in BOOLEAN OBVIOUS
  <2>4. tree' \in Trees
    BY <2>2, <2>3, ParsedIsATree
  <2>5. source' \in Seq(Chars) /\ treeSource' \in TreeTexts
    BY <1>1, <2>2 DEF Calls
  <2>6. \/ pc' = "idle" /\ call' = NoCall
        \/ pc' \in Candidates /\ call' \in Choosings
    BY <2>2 DEF Candidates, Choosings
  <2>7. diverged' \in BOOLEAN
    BY <2>2
  <2>8. TypeOK'
    BY <1>1, <2>2, <2>4, <2>5, <2>6, <2>7 DEF TypeOK, editor
  <2>9. FailureIsKnown' /\ pc' \notin {"parse", "failed"}
    BY <2>6 DEF FailureIsKnown, Candidates
  <2>10. call.full \/ ~(diverged \/ astray) => call.text = client
    BY <1>1 DEF EditorInv, SourceIsTheEditors
  <2>11. ~diverged' /\ ~astray' => source' = client'
    BY <1>1, <2>2, <2>10 DEF editor
  <2> QED BY <2>8, <2>9, <2>11 DEF EditorInv, SourceIsTheEditors
<1> QED BY <1>2, <1>3

LEMMA ReturnErrorEditorInv ==
  ASSUME EditorInv, ReturnError
  PROVE  EditorInv'
<1>1. TypeOK /\ pc = "failed" /\ pc' = "idle" /\ diverged /\ UNCHANGED <<document, call, diverged>>
  BY DEF EditorInv, FailureIsKnown, ReturnError
<1>2. /\ client' \in Seq(Chars) /\ edits' \in 0 .. MaxEdits /\ batch' \in 0 .. 1
      /\ astray' \in BOOLEAN
  <2>1. CASE batch = 0
    BY <1>1, <2>1 DEF ReturnError, editor, TypeOK
  <2>2. CASE batch # 0
    <3>1. PICK from \in EditorPlaces(client), to \in EditorPlaces(client), new \in Insertions :
            /\ Edit(Spliced(client, from, to, new))
            /\ UNCHANGED astray
      BY <2>2 DEF ReturnError
    <3>2. from \in 0 .. Len(client) /\ to \in 0 .. Len(client) /\ new \in Seq(Chars)
          /\ client \in Seq(Chars)
      BY <1>1, Texts DEF EditorPlaces, TypeOK
    <3>3. Spliced(client, from, to, new) \in Seq(Chars)
      BY <3>2, SplicedType
    <3> QED BY <1>1, <3>1, <3>3, EditTypes DEF TypeOK
  <2> QED BY <2>1, <2>2
<1>3. TypeOK'
  BY <1>1, <1>2 DEF TypeOK, document, Candidates
<1>4. SourceIsTheEditors' /\ FailureIsKnown'
  BY <1>1 DEF SourceIsTheEditors, FailureIsKnown
<1> QED BY <1>3, <1>4 DEF EditorInv

\* A candidate is a tree of the source with some of the masks.
LEMMA CandidateEditorInv ==
  ASSUME EditorInv, pc \in Candidates, NEW next \in Candidates, NEW text \in TreeTexts,
         call' \in Choosings, Candidate(text, next)
  PROVE  EditorInv'
<1>1. TypeOK /\ pc' = next /\ UNCHANGED <<editor, source, scopeGraph, diverged>>
  BY DEF EditorInv, Candidate
<1>2. tree' \in Trees /\ treeSource' \in TreeTexts
  BY <1>1, ParsedIsATree DEF Candidate, TypeOK
<1>3. TypeOK'
  BY <1>1, <1>2 DEF TypeOK, editor
<1>4. pc \notin {"parse", "failed"} /\ pc' \notin {"parse", "failed"}
  BY <1>1 DEF Candidates
<1>5. SourceIsTheEditors' /\ FailureIsKnown'
  BY <1>1, <1>4 DEF EditorInv, SourceIsTheEditors, FailureIsKnown, editor
<1> QED BY <1>3, <1>5 DEF EditorInv

LEMMA SkipEditorInv ==
  ASSUME EditorInv, pc \in Candidates, NEW next \in Candidates, Skip(next)
  PROVE  EditorInv'
<1>1. TypeOK /\ pc' = next /\ UNCHANGED <<editor, document, call, diverged>>
  BY DEF EditorInv, Skip
<1>2. pc \notin {"parse", "failed", "idle"} /\ pc' \notin {"parse", "failed", "idle"}
  BY <1>1 DEF Candidates
<1>3. TypeOK'
  BY <1>1, <1>2 DEF TypeOK, editor, document
<1>4. SourceIsTheEditors' /\ FailureIsKnown'
  BY <1>1, <1>2 DEF EditorInv, SourceIsTheEditors, FailureIsKnown, editor, document
<1> QED BY <1>3, <1>4 DEF EditorInv

LEMMA RecoverEditorInv ==
  ASSUME EditorInv, Recover
  PROVE  EditorInv'
<1>1. TypeOK /\ pc \in Candidates
  BY DEF EditorInv, Recover, MaskSyntax, MaskPaths, MaskPathsAfterSyntax,
         MaskConstructors, MaskComments, MaskBodies, Candidates
<1>2. call \in Choosings /\ call.masked \subseteq {"syntax"} /\ source \in Seq(Chars)
      /\ treeSource \in TreeTexts
  BY <1>1 DEF TypeOK, Candidates, Choosings
<1>3. /\ \A masks \in SUBSET Masks : Text(source, masks) \in TreeTexts
      /\ \A m \in {"syntax", "constructors", "bodies"} : call.masked \cup {m} \in SUBSET Masks
  BY <1>2, Texts DEF Masks
<1>4. \A next \in {"paths", "both", "constructors", "comments", "bodies"} : next \in Candidates
  BY DEF Candidates
<1>5. CASE MaskSyntax
  <2>1. CASE Skip("paths")
    BY <1>1, <1>4, <2>1, SkipEditorInv
  <2>2. CASE /\ call' = [call EXCEPT !.masked = {"syntax"}]
             /\ Candidate(Text(source, {"syntax"}), "paths")
    <3>1. call' \in Choosings
      BY <1>2, <2>2 DEF Choosings
    <3>2. Text(source, {"syntax"}) \in TreeTexts
      BY <1>3 DEF Masks
    <3> QED BY <1>1, <1>4, <2>2, <3>1, <3>2, CandidateEditorInv
  <2> QED BY <1>5, <2>1, <2>2 DEF MaskSyntax
<1>6. CASE MaskPaths
  <2>1. Text(source, {"paths"}) \in TreeTexts
    BY <1>3 DEF Masks
  <2> QED BY <1>1, <1>2, <1>4, <1>6, <2>1, CandidateEditorInv DEF MaskPaths
<1>7. CASE MaskPathsAfterSyntax
  <2>1. CASE Skip("constructors")
    BY <1>1, <1>4, <2>1, SkipEditorInv
  <2>2. CASE Candidate(Text(source, {"syntax", "paths"}), "constructors") /\ UNCHANGED call
    <3>1. Text(source, {"syntax", "paths"}) \in TreeTexts
      BY <1>3 DEF Masks
    <3> QED BY <1>1, <1>2, <1>4, <2>2, <3>1, CandidateEditorInv
  <2> QED BY <1>7, <2>1, <2>2 DEF MaskPathsAfterSyntax
<1>8. CASE MaskConstructors
  <2>1. CASE Skip("comments")
    BY <1>1, <1>4, <2>1, SkipEditorInv
  <2>2. CASE /\ Candidate(Text(source, call.masked \cup {"constructors"}), "comments")
             /\ UNCHANGED call
    <3>1. Text(source, call.masked \cup {"constructors"}) \in TreeTexts
      BY <1>3
    <3> QED BY <1>1, <1>2, <1>4, <2>2, <3>1, CandidateEditorInv
  <2> QED BY <1>8, <2>1, <2>2 DEF MaskConstructors
<1>9. CASE MaskComments
  <2>1. CASE Skip("bodies")
    BY <1>1, <1>4, <2>1, SkipEditorInv
  <2>2. CASE /\ Candidate([treeSource EXCEPT !.masks = @ \cup {"comments"}], "bodies")
             /\ UNCHANGED call
    <3>1. [treeSource EXCEPT !.masks = @ \cup {"comments"}] \in TreeTexts
      BY <1>2 DEF TreeTexts, Masks
    <3> QED BY <1>1, <1>2, <1>4, <2>2, <3>1, CandidateEditorInv
  <2> QED BY <1>9, <2>1, <2>2 DEF MaskComments
<1>10. CASE MaskBodies
  <2>1. Text(source, call.masked \cup {"bodies"}) \in TreeTexts
    BY <1>3
  <2>2. /\ pc' = "idle" /\ call' = NoCall
        /\ UNCHANGED <<editor, source, scopeGraph, diverged>>
    BY <1>10 DEF MaskBodies, Candidate, document
  <2>3. tree' \in Trees /\ treeSource' \in TreeTexts
    BY <1>1, <1>10, <2>1, ParsedIsATree DEF MaskBodies, Candidate, document, TypeOK
  <2>4. TypeOK'
    BY <1>1, <2>2, <2>3 DEF TypeOK, editor
  <2>5. pc \notin {"parse", "failed"}
    BY <1>1 DEF Candidates
  <2>6. SourceIsTheEditors' /\ FailureIsKnown'
    BY <2>2, <2>5 DEF EditorInv, SourceIsTheEditors, FailureIsKnown, editor
  <2> QED BY <2>4, <2>6 DEF EditorInv
<1> QED BY <1>5, <1>6, <1>7, <1>8, <1>9, <1>10 DEF Recover

LEMMA NextEditorInv == EditorInv /\ [Next]_vars => EditorInv'
<1> SUFFICES ASSUME EditorInv, [Next]_vars PROVE EditorInv' OBVIOUS
<1>1. CASE \E new \in Insertions : FullChange(new)
  BY <1>1, FullChangeEditorInv
<1>2. CASE \E from, to \in EditorPlaces(client), new \in Insertions :
             from <= to /\ RangeChange(from, to, new)
  BY <1>2, RangeChangeEditorInv
<1>3. CASE ParseFails \/ \E r \in Results : ParseReturns(r)
  BY <1>3, ParserEditorInv
<1>4. CASE ReturnError
  BY <1>4, ReturnErrorEditorInv
<1>5. CASE Recover
  BY <1>5, RecoverEditorInv
<1>6. CASE BuildScopes
  <2>1. TypeOK /\ scopeGraph' = <<tree, treeSource>>
        /\ UNCHANGED <<client, edits, batch, astray, source, tree, treeSource, pc, call, diverged>>
    BY <1>6 DEF EditorInv, BuildScopes, editor
  <2>2. TypeOK'
    BY <2>1 DEF TypeOK
  <2> QED BY <2>1, <2>2 DEF EditorInv, SourceIsTheEditors, FailureIsKnown
<1>7. CASE UNCHANGED vars
  BY <1>7 DEF vars, EditorInv, TypeOK, SourceIsTheEditors, FailureIsKnown
<1> QED BY <1>1, <1>2, <1>3, <1>4, <1>5, <1>6, <1>7 DEF Next

LEMMA EditorInvariance == Spec => []EditorInv
BY InitEditorInv, NextEditorInv, PTL DEF Spec

\* document.go, edit.go: the document stays what its fields are declared to be,
\* wherever the positions an editor sends lead.
THEOREM DocumentTypes == Spec => []TypeOK
BY EditorInvariance, PTL DEF EditorInv

\* edit.go: the server applies the editor's changes where the editor made them,
\* for every text, whatever its characters weigh, and any number of changes, until
\* a change fails or comes behind a return that only ends a line for the editor.
THEOREM DocumentIsTheEditors == Spec => []SourceIsTheEditors
BY EditorInvariance, PTL DEF EditorInv

\* document.go: Offset refuses no position of an editor whose text the server has.
THEOREM PositionsAreAccepted == Spec => OnlyTheParserFails
<1> DEFINE Only == pc = "idle" /\ pc' = "failed" => diverged \/ astray'
<1>1. ASSUME EditorInv, Next PROVE Only
  <2> SUFFICES ASSUME pc = "idle", pc' = "failed" PROVE diverged \/ astray'
    OBVIOUS
  <2>1. PICK from \in EditorPlaces(client), to \in EditorPlaces(client), new \in Insertions :
          from <= to /\ RangeChange(from, to, new)
    BY <1>1 DEF Next, FullChange, ParseFails, ParseReturns, ReturnError, BuildScopes,
       Recover, MaskSyntax, MaskPaths, MaskPathsAfterSyntax, MaskConstructors,
       MaskComments, MaskBodies
  <2> QED BY <1>1, <2>1, RangeChangeEditorInv
<1>2. EditorInv /\ [Next]_vars => [Only]_vars
  BY <1>1
<1>3. Spec => [][Only]_vars
  BY <1>2, EditorInvariance, PTL DEF Spec
<1> QED BY <1>3 DEF OnlyTheParserFails
=============================================================================
