---------------------------- MODULE ScopesProofs ----------------------------
(***************************************************************************)
(* The scope graph, for programs of any number of phrases.  bindingAt      *)
(* compares ranges, sizes and the order of bindings; the argument is that  *)
(* each comparison says what the nesting of the tree says:                 *)
(*   - positions of nodes are in the order of the walk, so a range encloses*)
(*     an identifier's exactly if the identifier is below the node, and of *)
(*     two nodes one below the other the inner one is not larger;          *)
(*   - the graph BuildScopes leaves has the scopes of the nodes that open  *)
(*     one and the bindings of the identifiers that bind, in that order;   *)
(*   - so the climb from the best scope finds the last binder of the       *)
(*     innermost node around the name that has one (BindingAtIs);          *)
(*   - what is typed is a root and phrases below it (ProgramInv).          *)
(* Renaming leaves the tree's shape, so the same is said of the renamed    *)
(* tree, and a binder is bound by itself: one binder only changes its name.*)
(***************************************************************************)
EXTENDS AlgorithmsProofs

StartsBefore(a, b) == a.line < b.line \/ (a.line = b.line /\ a.character < b.character)

\* The nodes of a tree in the order of a walk: each comes while its parent is open, and
\* starts later in the text than those before it.
IsTree(tree) ==
  /\ Len(tree) \in Nat \ {0}
  /\ tree[1].parent = 0
  /\ \A n \in 2 .. Len(tree) : tree[n].parent \in 1 .. n - 1 /\ n \in Subtree(tree, tree[n].parent)
  /\ \A n \in 1 .. Len(tree) : tree[n].at \in Positions
  /\ \A m, n \in 1 .. Len(tree) : m < n => StartsBefore(tree[m].at, tree[n].at)

\* A subtree is an interval that starts with its node, and subtrees nest.
LEMMA SubtreeIs ==
  ASSUME NEW tree, IsTree(tree), NEW n \in Nodes(tree)
  PROVE  /\ n \in Subtree(tree, n)
         /\ Subtree(tree, n) \subseteq n .. Len(tree)
         /\ \A m \in Subtree(tree, n) : n .. m \subseteq Subtree(tree, n)
         /\ \A m \in Subtree(tree, n) : Subtree(tree, m) \subseteq Subtree(tree, n)
<1>1. Len(tree) \in Nat /\ n \in 1 .. Len(tree)
  BY DEF IsTree, Nodes
<1>2. ASSUME NEW m \in Subtree(tree, n), NEW k \in Subtree(tree, m)
      PROVE  k \in Subtree(tree, n)
  <2>1. /\ m \in n .. Len(tree) /\ \A j \in n + 1 .. m : tree[j].parent >= n
        /\ k \in m .. Len(tree) /\ \A j \in m + 1 .. k : tree[j].parent >= m
    BY DEF Subtree
  <2>2. k \in n .. Len(tree)
    BY <1>1, <2>1
  <2>3. ASSUME NEW j \in n + 1 .. k PROVE tree[j].parent >= n
    <3>1. CASE j <= m
      BY <1>1, <2>1, <3>1
    <3>2. CASE ~(j <= m)
      <4>1. j \in 2 .. Len(tree) /\ j \in m + 1 .. k
        BY <1>1, <2>1, <3>2
      <4>2. tree[j].parent \in 1 .. j - 1 /\ tree[j].parent >= m
        BY <2>1, <4>1 DEF IsTree
      <4> QED BY <1>1, <2>1, <4>2
    <3> QED BY <3>1, <3>2
  <2> QED BY <2>2, <2>3 DEF Subtree
<1>3. ASSUME NEW m \in Subtree(tree, n), NEW k \in n .. m
      PROVE  k \in Subtree(tree, n)
  BY <1>1, <1>3 DEF Subtree
<1>4. n \in Subtree(tree, n) /\ Subtree(tree, n) \subseteq n .. Len(tree)
  BY <1>1 DEF Subtree
<1> QED BY <1>2, <1>3, <1>4

\* A node is below another if its parent is it or below it.
LEMMA BelowParent ==
  ASSUME NEW tree, IsTree(tree), NEW n \in 2 .. Len(tree), NEW k \in 1 .. n - 1
  PROVE  n \in Subtree(tree, k) <=> tree[n].parent \in Subtree(tree, k)
<1> DEFINE p == tree[n].parent
<1>1. /\ Len(tree) \in Nat /\ k \in Nodes(tree) /\ n \in Nodes(tree)
      /\ p \in 1 .. n - 1 /\ p \in Nodes(tree) /\ n \in Subtree(tree, p)
  BY DEF IsTree, Nodes
<1>2. ASSUME n \in Subtree(tree, k) PROVE p \in Subtree(tree, k)
  <2>1. p >= k
    BY <1>1, <1>2 DEF Subtree
  <2>2. p \in k .. n
    BY <1>1, <2>1
  <2> QED BY <1>1, <1>2, <2>2, SubtreeIs
<1>3. ASSUME p \in Subtree(tree, k) PROVE n \in Subtree(tree, k)
  BY <1>1, <1>3, SubtreeIs
<1> QED BY <1>2, <1>3

LEMMA NothingBelow ==
  ASSUME NEW tree, IsTree(tree), NEW n \in Nodes(tree), NamedChildren(tree, n) = {}
  PROVE  Subtree(tree, n) = {n}
<1>1. Len(tree) \in Nat /\ n \in 1 .. Len(tree) /\ n \in Subtree(tree, n)
  BY SubtreeIs DEF IsTree, Nodes
<1>2. ASSUME NEW m \in Subtree(tree, n), m # n PROVE FALSE
  <2>1. m \in n .. Len(tree) /\ n + 1 \in n + 1 .. m /\ tree[n + 1].parent >= n
    BY <1>1, <1>2 DEF Subtree
  <2>2. n + 1 \in 2 .. Len(tree) /\ n + 1 \in Nodes(tree)
    BY <1>1, <2>1 DEF Nodes
  <2>3. tree[n + 1].parent \in 1 .. (n + 1) - 1
    BY <2>2 DEF IsTree
  <2>4. tree[n + 1].parent = n
    BY <1>1, <2>1, <2>3
  <2> QED BY <2>2, <2>4 DEF NamedChildren
<1> QED BY <1>1, <1>2

EndsWith(range, at) == range.end = [line |-> at.line, character |-> at.character + 1]

\* A node ends where the last one below it does.
LEMMA NodeRangeIs ==
  ASSUME NEW tree, IsTree(tree), NEW n \in Nodes(tree)
  PROVE  /\ NodeRange(tree, n).start = tree[n].at
         /\ \E last \in Subtree(tree, n) :
              /\ \A m \in Subtree(tree, n) : m <= last
              /\ EndsWith(NodeRange(tree, n), tree[last].at)
<1> DEFINE S == Subtree(tree, n)
<1>1. Len(tree) \in Nat /\ S \in SUBSET (1 .. Len(tree)) /\ n \in S
  BY SubtreeIs DEF IsTree, Nodes
<1> HIDE DEF S
<1>2. Max(S) \in S /\ \A m \in S : Max(S) >= m
  BY <1>1, GreatestIs
<1>3. tree[Max(S)].at \in Positions
  BY <1>1, <1>2 DEF IsTree
<1>4. [tree[Max(S)].at EXCEPT !.character = @ + 1]
        = [line |-> tree[Max(S)].at.line, character |-> tree[Max(S)].at.character + 1]
  BY <1>3 DEF Positions
<1>5. /\ NodeRange(tree, n).start = tree[n].at
      /\ NodeRange(tree, n).end = [tree[Max(S)].at EXCEPT !.character = @ + 1]
  BY DEF NodeRange, S
<1>6. \A m \in S : m <= Max(S)
  BY <1>1, <1>2
<1> QED BY <1>2, <1>4, <1>5, <1>6 DEF EndsWith, S

LEMMA StartsInOrder ==
  ASSUME NEW tree, IsTree(tree), NEW m \in Nodes(tree), NEW n \in Nodes(tree)
  PROVE  PositionLE(NodeRange(tree, m).start, NodeRange(tree, n).start) <=> m <= n
<1>1. /\ Len(tree) \in Nat /\ m \in 1 .. Len(tree) /\ n \in 1 .. Len(tree)
      /\ tree[m].at \in Positions /\ tree[n].at \in Positions
      /\ m < n => StartsBefore(tree[m].at, tree[n].at)
      /\ n < m => StartsBefore(tree[n].at, tree[m].at)
  BY DEF IsTree, Nodes
<1>2. m < n \/ m = n \/ n < m
  BY <1>1
<1>3. /\ NodeRange(tree, m).start = tree[m].at
      /\ NodeRange(tree, n).start = tree[n].at
  BY NodeRangeIs
<1> QED BY <1>1, <1>2, <1>3 DEF PositionLE, StartsBefore, Positions

\* bindingAt compares ranges; what it finds is what is below a node.
LEMMA EnclosesIs ==
  ASSUME NEW tree, IsTree(tree), NEW o \in Nodes(tree), NEW n \in Nodes(tree),
         Subtree(tree, n) = {n}
  PROVE  /\ PositionLE(NodeRange(tree, o).start, NodeRange(tree, n).start)
         /\ PositionLE(NodeRange(tree, n).end, NodeRange(tree, o).end)
         <=> n \in Subtree(tree, o)
<1>1. Len(tree) \in Nat /\ o \in 1 .. Len(tree) /\ n \in 1 .. Len(tree)
  BY DEF IsTree, Nodes
<1>2. PICK last \in Subtree(tree, o) : /\ \A m \in Subtree(tree, o) : m <= last
                                       /\ EndsWith(NodeRange(tree, o), tree[last].at)
  BY NodeRangeIs
<1>3. EndsWith(NodeRange(tree, n), tree[n].at)
  BY NodeRangeIs
<1>4. last \in o .. Len(tree) /\ last \in Nodes(tree) /\ o .. last \subseteq Subtree(tree, o)
  BY <1>1, <1>2, SubtreeIs DEF Nodes
<1>5. n \in Subtree(tree, o) <=> o <= n /\ n <= last
  <2>1. Subtree(tree, o) \subseteq o .. Len(tree)
    BY SubtreeIs
  <2> QED BY <1>1, <1>2, <1>4, <2>1
<1>6. PositionLE(NodeRange(tree, n).end, NodeRange(tree, o).end) <=> n <= last
  <2>1. /\ tree[n].at \in Positions /\ tree[last].at \in Positions
        /\ n < last => StartsBefore(tree[n].at, tree[last].at)
        /\ last < n => StartsBefore(tree[last].at, tree[n].at)
    BY <1>1, <1>4 DEF IsTree, Nodes
  <2>2. n < last \/ n = last \/ last < n
    BY <1>1, <1>4
  <2> DEFINE x == tree[n].at
             y == tree[last].at
  <2>3. PositionLE(NodeRange(tree, n).end, NodeRange(tree, o).end)
          <=> x.line < y.line \/ (x.line = y.line /\ x.character + 1 <= y.character + 1)
    BY <1>2, <1>3 DEF PositionLE, EndsWith
  <2>4. /\ x.line \in Nat /\ x.character \in Nat /\ y.line \in Nat /\ y.character \in Nat
    BY <2>1 DEF Positions
  <2>5. PositionLE(NodeRange(tree, n).end, NodeRange(tree, o).end)
          <=> x.line < y.line \/ (x.line = y.line /\ x.character <= y.character)
    BY <2>3, <2>4
  <2>6. /\ n < last => x.line < y.line \/ (x.line = y.line /\ x.character < y.character)
        /\ last < n => y.line < x.line \/ (y.line = x.line /\ y.character < x.character)
    BY <2>1 DEF StartsBefore
  <2>7. n = last => x.line = y.line /\ x.character = y.character
    OBVIOUS
  <2>8. n \in Nat /\ last \in Nat
    BY <1>1, <1>4
  <2> HIDE DEF x, y
  <2> QED BY <2>2, <2>4, <2>5, <2>6, <2>7, <2>8
<1> QED BY <1>5, <1>6, StartsInOrder

AreShort(tree) == \A n \in 1 .. Len(tree) : tree[n].at.character < 1000000

\* Of two nodes one below the other, the inner one is not larger.
LEMMA InnerIsSmaller ==
  ASSUME NEW tree, IsTree(tree), AreShort(tree), NEW o \in Nodes(tree),
         NEW p \in Subtree(tree, o), NEW a, NEW b,
         a.range = NodeRange(tree, p), b.range = NodeRange(tree, o)
  PROVE  ScopeSize(a) <= ScopeSize(b)
<1>1. /\ Len(tree) \in Nat /\ o \in 1 .. Len(tree) /\ p \in o .. Len(tree) /\ p \in Nodes(tree)
      /\ Subtree(tree, p) \subseteq Subtree(tree, o)
  BY SubtreeIs DEF IsTree, Nodes
<1>2. PICK last \in Subtree(tree, o) : /\ \A m \in Subtree(tree, o) : m <= last
                                       /\ EndsWith(NodeRange(tree, o), tree[last].at)
  BY NodeRangeIs
<1>3. PICK end \in Subtree(tree, p) : EndsWith(NodeRange(tree, p), tree[end].at)
  BY <1>1, NodeRangeIs
<1>4. end <= last /\ end \in 1 .. Len(tree) /\ last \in 1 .. Len(tree) /\ o <= p
  <2>1. Subtree(tree, o) \subseteq o .. Len(tree)
    BY SubtreeIs
  <2> QED BY <1>1, <1>2, <1>3, <2>1
<1>5. /\ tree[o].at \in Positions /\ tree[p].at \in Positions
      /\ tree[end].at \in Positions /\ tree[last].at \in Positions
      /\ o < p => StartsBefore(tree[o].at, tree[p].at)
      /\ end < last => StartsBefore(tree[end].at, tree[last].at)
      /\ tree[end].at.character < 1000000 /\ tree[last].at.character < 1000000
  BY <1>1, <1>4 DEF IsTree, AreShort
<1>6. NodeRange(tree, p).start = tree[p].at /\ NodeRange(tree, o).start = tree[o].at
  BY <1>1, NodeRangeIs
<1> DEFINE s == tree[o].at.line
           t == tree[p].at.line
           x == tree[last].at.line
           y == tree[end].at.line
           c == tree[last].at.character
           d == tree[end].at.character
<1>7. /\ s \in Nat /\ t \in Nat /\ x \in Nat /\ y \in Nat /\ c \in Nat /\ d \in Nat
      /\ s <= t /\ (y < x \/ (y = x /\ d <= c)) /\ c < 1000000 /\ d < 1000000
  <2>1. o = p \/ o < p
    BY <1>1, <1>4
  <2>2. end = last \/ end < last
    BY <1>4
  <2>3. s \in Nat /\ t \in Nat /\ s <= t
    BY <1>5, <2>1 DEF StartsBefore, Positions
  <2> QED BY <1>5, <2>2, <2>3 DEF StartsBefore, Positions
<1>8. ScopeSize(a) = (y - t) * 1000000 + (d + 1) /\ ScopeSize(b) = (x - s) * 1000000 + (c + 1)
  BY <1>2, <1>3, <1>6 DEF ScopeSize, EndsWith
<1> HIDE DEF s, t, x, y, c, d
<1> QED BY <1>7, <1>8
-----------------------------------------------------------------------------
LEMMA FirstIs == First({}) = NoNode /\ \A m \in Nat : First({m}) = m
<1>1. ASSUME NEW m \in Nat PROVE First({m}) = m
  <2>1. Min({m}) = m
    BY DEF Min
  <2> QED BY <2>1 DEF First
<1> QED BY <1>1 DEF First

LEMMA NoneInOrder == Len(InOrder({})) = 0 /\ DOMAIN InOrder({}) = {}
<1> DEFINE IsOrder(order) == \A i, j \in DOMAIN order : i < j => order[i] < order[j]
<1>1. Cardinality({}) = 0 /\ 1 .. 0 = {}
  BY FS_EmptySet
<1>2. <<>> \in [1 .. 0 -> {}] /\ IsOrder(<<>>)
  OBVIOUS
<1>3. InOrder({}) \in [1 .. 0 -> {}]
  <2>1. InOrder({}) = CHOOSE order \in [1 .. 0 -> {}] : IsOrder(order)
    BY <1>1 DEF InOrder
  <2> HIDE DEF IsOrder
  <2> QED BY <1>2, <2>1
<1>4. InOrder({}) \in Seq({}) /\ Len(InOrder({})) = 0 /\ DOMAIN InOrder({}) = 1 .. 0
  BY <1>3, FunctionIsSeq
<1> QED BY <1>1, <1>4

LEMMA OneInOrder ==
  ASSUME NEW m \in Nat
  PROVE  DOMAIN InOrder({m}) = 1 .. 1 /\ InOrder({m})[1] = m
<1> DEFINE IsOrder(order) == \A i, j \in DOMAIN order : i < j => order[i] < order[j]
<1>1. Cardinality({m}) = 1
  BY FS_Singleton
<1>2. [i \in 1 .. 1 |-> m] \in [1 .. 1 -> {m}] /\ IsOrder([i \in 1 .. 1 |-> m])
  OBVIOUS
<1>3. InOrder({m}) \in [1 .. 1 -> {m}]
  <2>1. InOrder({m}) = CHOOSE order \in [1 .. 1 -> {m}] : IsOrder(order)
    BY <1>1 DEF InOrder
  <2> HIDE DEF IsOrder
  <2> QED BY <1>2, <2>1
<1> QED BY <1>3

IsGraph(g) ==
  /\ g = [scopes |-> g.scopes, bindings |-> g.bindings, inside |-> g.inside]
  /\ \E S, B : g.scopes \in Seq(S) /\ g.bindings \in Seq(B)
  /\ g.inside \in Seq(Int)

\* A graph with another binding of the node m.
WithBinding(g, tree, m, kind, scope) ==
  [scopes |-> g.scopes,
   bindings |-> Append(g.bindings, [name |-> tree[m].name, kind |-> kind,
                                    range |-> NodeRange(tree, m), scope |-> scope]),
   inside |-> g.inside]

LEMMA AppendedIs ==
  ASSUME NEW S, NEW s \in Seq(S), NEW e, NEW t, DOMAIN t = 1 .. 1, t = [i \in 1 .. 1 |-> e]
  PROVE  s \o t = Append(s, e)
<1> DEFINE A == S \cup {e}
           n == Len(s)
<1>1. s \in Seq(A) /\ e \in A /\ n \in Nat
  OBVIOUS
<1>2. t \in Seq(A) /\ Len(t) = 1 /\ t[1] = e
  <2>1. t \in [1 .. 1 -> A] /\ 1 \in Nat /\ t[1] = e
    BY <1>1
  <2> HIDE DEF A
  <2> QED BY <2>1, FunctionIsSeq
<1> HIDE DEF A
<1>3. /\ s \o t \in Seq(A) /\ Len(s \o t) = n + 1
      /\ \A i \in 1 .. n + 1 : (s \o t)[i] = IF i <= n THEN s[i] ELSE t[i - n]
  BY <1>1, <1>2, ConcatProperties
<1>4. /\ Append(s, e) \in Seq(A) /\ Len(Append(s, e)) = n + 1
      /\ \A i \in 1 .. n : Append(s, e)[i] = s[i]
      /\ Append(s, e)[n + 1] = e
  BY <1>1, AppendProperties
<1>5. \A i \in 1 .. n + 1 : (s \o t)[i] = Append(s, e)[i]
  <2> SUFFICES ASSUME NEW i \in 1 .. n + 1 PROVE (s \o t)[i] = Append(s, e)[i]
    OBVIOUS
  <2>1. i <= n => i \in 1 .. n
    BY <1>1
  <2>2. ~(i <= n) => i = n + 1 /\ i - n = 1
    BY <1>1
  <2> QED BY <1>2, <1>3, <1>4, <2>1, <2>2
<1> QED BY <1>3, <1>4, <1>5, SeqEqual

LEMMA AddNoBinding ==
  ASSUME NEW g, IsGraph(g), NEW tree, NEW kind, NEW scope
  PROVE  AddBindings(g, tree, InOrder({}), kind, scope) = g
<1> DEFINE none == [i \in DOMAIN InOrder({}) |->
                      [name |-> tree[InOrder({})[i]].name, kind |-> kind,
                       range |-> NodeRange(tree, InOrder({})[i]), scope |-> scope]]
<1>1. PICK B : g.bindings \in Seq(B)
  BY DEF IsGraph
<1>2. none = <<>>
  <2>1. DOMAIN none = {}
    BY NoneInOrder
  <2> QED BY <2>1
<1>3. g.bindings \o <<>> = g.bindings
  BY <1>1, ConcatEmptySeq
<1>4. AddBindings(g, tree, InOrder({}), kind, scope)
        = [g EXCEPT !.bindings = g.bindings \o none]
  BY DEF AddBindings
<1> HIDE DEF none
<1>5. [g EXCEPT !.bindings = g.bindings] = g
  BY DEF IsGraph
<1> QED BY <1>2, <1>3, <1>4, <1>5

LEMMA AddOneBinding ==
  ASSUME NEW g, IsGraph(g), NEW tree, NEW m \in Nat, NEW kind, NEW scope, NEW names,
         DOMAIN names = 1 .. 1, names[1] = m
  PROVE  AddBindings(g, tree, names, kind, scope) = WithBinding(g, tree, m, kind, scope)
<1> DEFINE Binding(n) == [name |-> tree[n].name, kind |-> kind,
                          range |-> NodeRange(tree, n), scope |-> scope]
           new == [i \in DOMAIN names |-> Binding(names[i])]
<1>1. PICK B : g.bindings \in Seq(B)
  BY DEF IsGraph
<1>2. DOMAIN new = 1 .. 1 /\ new = [i \in 1 .. 1 |-> Binding(m)]
  OBVIOUS
<1>3. AddBindings(g, tree, names, kind, scope) = [g EXCEPT !.bindings = g.bindings \o new]
  BY DEF AddBindings
<1>4. WithBinding(g, tree, m, kind, scope)
        = [scopes |-> g.scopes, bindings |-> Append(g.bindings, Binding(m)), inside |-> g.inside]
  BY DEF WithBinding
<1> HIDE DEF new, Binding
<1>5. g.bindings \o new = Append(g.bindings, Binding(m))
  BY <1>1, <1>2, AppendedIs
<1>6. \A b : [g EXCEPT !.bindings = b] = [scopes |-> g.scopes, bindings |-> b, inside |-> g.inside]
  BY DEF IsGraph
<1> QED BY <1>3, <1>4, <1>5, <1>6

LEMMA WithBindingIsGraph ==
  ASSUME NEW g, IsGraph(g), NEW tree, NEW m, NEW kind, NEW scope
  PROVE  IsGraph(WithBinding(g, tree, m, kind, scope))
<1> DEFINE b == [name |-> tree[m].name, kind |-> kind, range |-> NodeRange(tree, m), scope |-> scope]
           h == WithBinding(g, tree, m, kind, scope)
<1>1. PICK S, B : g.scopes \in Seq(S) /\ g.bindings \in Seq(B)
  BY DEF IsGraph
<1>2. h = [scopes |-> g.scopes, bindings |-> Append(g.bindings, b), inside |-> g.inside]
  BY DEF WithBinding
<1> HIDE DEF b, h
<1>3. g.bindings \in Seq(B \cup {b}) /\ Append(g.bindings, b) \in Seq(B \cup {b})
  BY <1>1
<1>4. g.inside \in Seq(Int)
  BY DEF IsGraph
<1>5. /\ h.scopes = g.scopes /\ h.bindings = Append(g.bindings, b) /\ h.inside = g.inside
      /\ h = [scopes |-> h.scopes, bindings |-> h.bindings, inside |-> h.inside]
  BY <1>2
<1> QED BY <1>1, <1>3, <1>4, <1>5 DEF IsGraph, h

LEMMA OnePattern ==
  ASSUME NEW g, IsGraph(g), NEW tree, NEW n \in Nat \ {0}, NEW x \in Nat, NEW scope,
         {m \in Subtree(tree, n) : tree[m].type = "identifier"} = {x}
  PROVE  AddPatternBindings(g, tree, n, scope) = WithBinding(g, tree, x, "variable", scope)
<1>1. AddPatternBindings(g, tree, n, scope) = AddBindings(g, tree, InOrder({x}), "variable", scope)
  BY DEF AddPatternBindings, NoNode
<1>2. DOMAIN InOrder({x}) = 1 .. 1 /\ InOrder({x})[1] = x
  BY OneInOrder
<1> QED BY <1>1, <1>2, AddOneBinding

LEMMA OneParameter ==
  ASSUME NEW g, IsGraph(g), NEW tree, NEW n \in Nat \ {0}, NEW m, NEW x \in Nat \ {0}, NEW scope,
         NamedChildren(tree, n) = {m}, ParameterName(tree, m) = x
  PROVE  AddParameterBindings(g, tree, n, scope) = WithBinding(g, tree, x, "parameter", scope)
<1>1. {ParameterName(tree, k) : k \in NamedChildren(tree, n)} \ {NoNode} = {x}
  BY DEF NoNode
<1>2. AddParameterBindings(g, tree, n, scope) = AddBindings(g, tree, InOrder({x}), "parameter", scope)
  BY <1>1 DEF AddParameterBindings, NoNode
<1>3. DOMAIN InOrder({x}) = 1 .. 1 /\ InOrder({x})[1] = x
  BY OneInOrder
<1> QED BY <1>2, <1>3, AddOneBinding

LEMMA NoPatterns ==
  ASSUME NEW g, NEW tree, NEW scope
  PROVE  AddAllPatterns(g, tree, {}, scope) = g
<1> DEFINE q == InOrder({})
           Iter(h) == [s \in SUBSET {} |->
                         IF s = {} THEN g
                         ELSE AddPatternBindings(h[s \ {Max(s)}], tree, q[Max(s)], scope)]
           iter == CHOOSE h : h = Iter(h)
<1>1. DOMAIN q = {}
  BY NoneInOrder
<1> HIDE DEF q
<1>2. AddAllPatterns(g, tree, {}, scope) = iter[{}]
  BY <1>1 DEF AddAllPatterns, FoldLeft, MapThenFoldSet, q
<1>3. iter = Iter(iter)
  <2> DEFINE h == [s \in SUBSET {} |-> g]
  <2>1. h = Iter(h)
    OBVIOUS
  <2> HIDE DEF Iter, h
  <2> QED BY <2>1
<1> HIDE DEF iter
<1>4. iter[{}] = g
  BY <1>3
<1> QED BY <1>2, <1>4

LEMMA OneOfPatterns ==
  ASSUME NEW g, NEW tree, NEW scope, NEW p \in Nat
  PROVE  AddAllPatterns(g, tree, {p}, scope) = AddPatternBindings(g, tree, p, scope)
<1> DEFINE q == InOrder({p})
           Iter(h) == [s \in SUBSET (1 .. 1) |->
                         IF s = {} THEN g
                         ELSE AddPatternBindings(h[s \ {Max(s)}], tree, q[Max(s)], scope)]
           iter == CHOOSE h : h = Iter(h)
<1>1. DOMAIN q = 1 .. 1 /\ q[1] = p
  BY OneInOrder
<1> HIDE DEF q
<1>2. AddAllPatterns(g, tree, {p}, scope) = iter[1 .. 1]
  BY <1>1 DEF AddAllPatterns, FoldLeft, MapThenFoldSet, q
<1>3. /\ \A s \in SUBSET (1 .. 1) : s = {} \/ s = 1 .. 1
      /\ Max(1 .. 1) = 1 /\ (1 .. 1) \ {1} = {} /\ 1 .. 1 # {}
  <2>1. Max(1 .. 1) = 1 /\ (1 .. 1) \ {1} = 1 .. 1 - 1
    <3>1. \A k \in Nat : k # 0 => Max(1 .. k) = k /\ (1 .. k) \ {k} = 1 .. k - 1
      BY GreatestOfFirst
    <3>2. 1 \in Nat /\ 1 # 0
      OBVIOUS
    <3> QED BY ONLY <3>1, <3>2
  <2>2. 1 .. 1 = {1}
    OBVIOUS
  <2> QED BY <2>1, <2>2
<1>4. iter = Iter(iter)
  <2> DEFINE h == [s \in SUBSET (1 .. 1) |->
                     IF s = {} THEN g ELSE AddPatternBindings(g, tree, p, scope)]
  <2>1. ASSUME NEW s \in SUBSET (1 .. 1)
        PROVE  h[s] = IF s = {} THEN g
                      ELSE AddPatternBindings(h[s \ {Max(s)}], tree, q[Max(s)], scope)
    <3>1. CASE s = {}
      BY <3>1
    <3>2. CASE s = 1 .. 1
      <4>1. Max(s) = 1 /\ s \ {Max(s)} = {} /\ s # {} /\ q[Max(s)] = p
        BY <1>1, <1>3, <3>2
      <4>2. h[{}] = g /\ h[s] = AddPatternBindings(g, tree, p, scope)
        BY <4>1
      <4> QED BY <4>1, <4>2
    <3> QED BY <1>3, <3>1, <3>2
  <2>2. h = [s \in SUBSET (1 .. 1) |-> h[s]]
    OBVIOUS
  <2> HIDE DEF h
  <2>3. h = Iter(h)
    BY <2>1, <2>2, Zenon
  <2> HIDE DEF Iter
  <2> QED BY <2>3
<1> HIDE DEF iter
<1>5. iter[{}] = g
  BY <1>4
<1>6. iter[1 .. 1] = AddPatternBindings(iter[(1 .. 1) \ {Max(1 .. 1)}], tree, q[Max(1 .. 1)], scope)
  BY <1>3, <1>4
<1> QED BY <1>1, <1>2, <1>3, <1>5, <1>6

-----------------------------------------------------------------------------
(***************************************************************************)
(* Phrases.                                                                *)
(***************************************************************************)
Is(tree, n, type, field, parent) ==
  tree[n].type = type /\ tree[n].field = field /\ tree[n].parent = parent

IsBody(tree, s, n, m) == Is(tree, n, "body", "", s) /\ Is(tree, m, "identifier", "", n)

IsDefinition(tree, s, e) ==
  /\ e = s + 6 /\ tree[s].type = "imp_function_definition"
  /\ Is(tree, s + 1, "identifier", "name", s)
  /\ Is(tree, s + 2, "parameters", "parameters", s)
  /\ Is(tree, s + 3, "parameter", "", s + 2)
  /\ Is(tree, s + 4, "identifier", "name", s + 3)
  /\ IsBody(tree, s, s + 5, s + 6)
IsRule(tree, s, e) ==
  /\ e = s + 5 /\ tree[s].type = "fun_function_definition"
  /\ Is(tree, s + 1, "identifier", "name", s)
  /\ Is(tree, s + 2, "pattern", "", s)
  /\ Is(tree, s + 3, "identifier", "", s + 2)
  /\ IsBody(tree, s, s + 4, s + 5)
IsLambda(tree, s, e) ==
  /\ e = s + 5 /\ tree[s].type = "imp_lambda"
  /\ Is(tree, s + 1, "parameters", "", s)
  /\ Is(tree, s + 2, "expression_identifier", "", s + 1)
  /\ Is(tree, s + 3, "identifier", "", s + 2)
  /\ IsBody(tree, s, s + 4, s + 5)
IsFunLambda(tree, s, e) ==
  /\ e = s + 4 /\ tree[s].type = "fun_lambda"
  /\ Is(tree, s + 1, "pattern", "", s)
  /\ Is(tree, s + 2, "identifier", "", s + 1)
  /\ IsBody(tree, s, s + 3, s + 4)
IsCase(tree, s, e) ==
  /\ e = s + 4 /\ tree[s].type = "match_case"
  /\ Is(tree, s + 1, "match_pattern", "", s)
  /\ Is(tree, s + 2, "identifier", "", s + 1)
  /\ IsBody(tree, s, s + 3, s + 4)
IsBend(tree, s, e) ==
  /\ e = s + 2 /\ tree[s].type = "bend_statement"
  /\ IsBody(tree, s, s + 1, s + 2)
IsAssignment(tree, s, e) ==
  /\ e = s + 3 /\ tree[s].type = "assignment_statement"
  /\ Is(tree, s + 1, "identifier", "pat", s)
  /\ IsBody(tree, s, s + 2, s + 3)
IsPairAssignment(tree, s, e) ==
  /\ e = s + 4 /\ tree[s].type = "assignment_statement"
  /\ Is(tree, s + 1, "identifier", "pat", s)
  /\ Is(tree, s + 2, "identifier", "pat", s)
  /\ IsBody(tree, s, s + 3, s + 4)

\* The nodes from s to e are a phrase.
IsPhrase(tree, s, e) ==
  \/ IsDefinition(tree, s, e) \/ IsRule(tree, s, e) \/ IsLambda(tree, s, e)
  \/ IsFunLambda(tree, s, e) \/ IsCase(tree, s, e) \/ IsBend(tree, s, e)
  \/ IsAssignment(tree, s, e) \/ IsPairAssignment(tree, s, e)

StartTypes == {"imp_function_definition", "fun_function_definition", "imp_lambda", "fun_lambda",
               "match_case", "bend_statement", "assignment_statement"}
PartTypes == {"identifier", "parameters", "parameter", "pattern", "expression_identifier",
              "match_pattern", "body"}

IsPart(tree, s, n) ==
  /\ tree[n].type \in PartTypes
  /\ tree[n].parent \in s .. n - 1
  /\ tree[tree[n].parent].type # "identifier"

LEMMA PartOfPhrase ==
  ASSUME NEW tree, NEW s \in Nat, NEW n \in Nat, NEW type \in PartTypes, NEW field,
         NEW parent \in Nat, Is(tree, n, type, field, parent), s <= parent, parent < n,
         tree[parent].type # "identifier"
  PROVE  IsPart(tree, s, n)
  BY DEF Is, IsPart

LEMMA PhraseIs ==
  ASSUME NEW tree, NEW s \in Nat, NEW e, IsPhrase(tree, s, e)
  PROVE  /\ e \in Nat /\ s < e /\ tree[s].type \in StartTypes
         /\ \A n \in s + 1 .. e : IsPart(tree, s, n)
<1>0. PartTypes = {"identifier", "parameters", "parameter", "pattern", "expression_identifier",
                   "match_pattern", "body"}
  BY DEF PartTypes
<1>1. CASE IsDefinition(tree, s, e)
  <2>1. e = s + 6 /\ tree[s].type \in StartTypes
    BY <1>1 DEF IsDefinition, StartTypes
  <2>2. s + 1 .. s + 6 = {s + 1, s + 2, s + 3, s + 4, s + 5, s + 6}
    OBVIOUS
  <2>3. /\ Is(tree, s + 1, "identifier", "name", s)
        /\ Is(tree, s + 2, "parameters", "parameters", s)
        /\ Is(tree, s + 3, "parameter", "", s + 2)
        /\ Is(tree, s + 4, "identifier", "name", s + 3)
        /\ Is(tree, s + 5, "body", "", s)
        /\ Is(tree, s + 6, "identifier", "", s + 5)
        /\ tree[s].type # "identifier"
        /\ tree[s + 2].type # "identifier"
        /\ tree[s + 3].type # "identifier"
        /\ tree[s + 5].type # "identifier"
    BY <1>1 DEF IsDefinition, IsBody, Is
  <2>4. /\ s + 1 \in Nat /\ s <= s /\ s < s + 1
        /\ s + 2 \in Nat /\ s <= s /\ s < s + 2
        /\ s + 3 \in Nat /\ s <= s + 2 /\ s + 2 < s + 3
        /\ s + 4 \in Nat /\ s <= s + 3 /\ s + 3 < s + 4
        /\ s + 5 \in Nat /\ s <= s /\ s < s + 5
        /\ s + 6 \in Nat /\ s <= s + 5 /\ s + 5 < s + 6
    OBVIOUS
  <2>5. /\ IsPart(tree, s, s + 1)
        /\ IsPart(tree, s, s + 2)
        /\ IsPart(tree, s, s + 3)
        /\ IsPart(tree, s, s + 4)
        /\ IsPart(tree, s, s + 5)
        /\ IsPart(tree, s, s + 6)
    BY ONLY <1>0, <2>3, <2>4, PartOfPhrase, s \in Nat
  <2> QED BY <2>1, <2>2, <2>5
<1>2. CASE IsRule(tree, s, e)
  <2>1. e = s + 5 /\ tree[s].type \in StartTypes
    BY <1>2 DEF IsRule, StartTypes
  <2>2. s + 1 .. s + 5 = {s + 1, s + 2, s + 3, s + 4, s + 5}
    OBVIOUS
  <2>3. /\ Is(tree, s + 1, "identifier", "name", s)
        /\ Is(tree, s + 2, "pattern", "", s)
        /\ Is(tree, s + 3, "identifier", "", s + 2)
        /\ Is(tree, s + 4, "body", "", s)
        /\ Is(tree, s + 5, "identifier", "", s + 4)
        /\ tree[s].type # "identifier"
        /\ tree[s + 2].type # "identifier"
        /\ tree[s + 4].type # "identifier"
    BY <1>2 DEF IsRule, IsBody, Is
  <2>4. /\ s + 1 \in Nat /\ s <= s /\ s < s + 1
        /\ s + 2 \in Nat /\ s <= s /\ s < s + 2
        /\ s + 3 \in Nat /\ s <= s + 2 /\ s + 2 < s + 3
        /\ s + 4 \in Nat /\ s <= s /\ s < s + 4
        /\ s + 5 \in Nat /\ s <= s + 4 /\ s + 4 < s + 5
    OBVIOUS
  <2>5. /\ IsPart(tree, s, s + 1)
        /\ IsPart(tree, s, s + 2)
        /\ IsPart(tree, s, s + 3)
        /\ IsPart(tree, s, s + 4)
        /\ IsPart(tree, s, s + 5)
    BY ONLY <1>0, <2>3, <2>4, PartOfPhrase, s \in Nat
  <2> QED BY <2>1, <2>2, <2>5
<1>3. CASE IsLambda(tree, s, e)
  <2>1. e = s + 5 /\ tree[s].type \in StartTypes
    BY <1>3 DEF IsLambda, StartTypes
  <2>2. s + 1 .. s + 5 = {s + 1, s + 2, s + 3, s + 4, s + 5}
    OBVIOUS
  <2>3. /\ Is(tree, s + 1, "parameters", "", s)
        /\ Is(tree, s + 2, "expression_identifier", "", s + 1)
        /\ Is(tree, s + 3, "identifier", "", s + 2)
        /\ Is(tree, s + 4, "body", "", s)
        /\ Is(tree, s + 5, "identifier", "", s + 4)
        /\ tree[s].type # "identifier"
        /\ tree[s + 1].type # "identifier"
        /\ tree[s + 2].type # "identifier"
        /\ tree[s + 4].type # "identifier"
    BY <1>3 DEF IsLambda, IsBody, Is
  <2>4. /\ s + 1 \in Nat /\ s <= s /\ s < s + 1
        /\ s + 2 \in Nat /\ s <= s + 1 /\ s + 1 < s + 2
        /\ s + 3 \in Nat /\ s <= s + 2 /\ s + 2 < s + 3
        /\ s + 4 \in Nat /\ s <= s /\ s < s + 4
        /\ s + 5 \in Nat /\ s <= s + 4 /\ s + 4 < s + 5
    OBVIOUS
  <2>5. /\ IsPart(tree, s, s + 1)
        /\ IsPart(tree, s, s + 2)
        /\ IsPart(tree, s, s + 3)
        /\ IsPart(tree, s, s + 4)
        /\ IsPart(tree, s, s + 5)
    BY ONLY <1>0, <2>3, <2>4, PartOfPhrase, s \in Nat
  <2> QED BY <2>1, <2>2, <2>5
<1>4. CASE IsFunLambda(tree, s, e)
  <2>1. e = s + 4 /\ tree[s].type \in StartTypes
    BY <1>4 DEF IsFunLambda, StartTypes
  <2>2. s + 1 .. s + 4 = {s + 1, s + 2, s + 3, s + 4}
    OBVIOUS
  <2>3. /\ Is(tree, s + 1, "pattern", "", s)
        /\ Is(tree, s + 2, "identifier", "", s + 1)
        /\ Is(tree, s + 3, "body", "", s)
        /\ Is(tree, s + 4, "identifier", "", s + 3)
        /\ tree[s].type # "identifier"
        /\ tree[s + 1].type # "identifier"
        /\ tree[s + 3].type # "identifier"
    BY <1>4 DEF IsFunLambda, IsBody, Is
  <2>4. /\ s + 1 \in Nat /\ s <= s /\ s < s + 1
        /\ s + 2 \in Nat /\ s <= s + 1 /\ s + 1 < s + 2
        /\ s + 3 \in Nat /\ s <= s /\ s < s + 3
        /\ s + 4 \in Nat /\ s <= s + 3 /\ s + 3 < s + 4
    OBVIOUS
  <2>5. /\ IsPart(tree, s, s + 1)
        /\ IsPart(tree, s, s + 2)
        /\ IsPart(tree, s, s + 3)
        /\ IsPart(tree, s, s + 4)
    BY ONLY <1>0, <2>3, <2>4, PartOfPhrase, s \in Nat
  <2> QED BY <2>1, <2>2, <2>5
<1>5. CASE IsCase(tree, s, e)
  <2>1. e = s + 4 /\ tree[s].type \in StartTypes
    BY <1>5 DEF IsCase, StartTypes
  <2>2. s + 1 .. s + 4 = {s + 1, s + 2, s + 3, s + 4}
    OBVIOUS
  <2>3. /\ Is(tree, s + 1, "match_pattern", "", s)
        /\ Is(tree, s + 2, "identifier", "", s + 1)
        /\ Is(tree, s + 3, "body", "", s)
        /\ Is(tree, s + 4, "identifier", "", s + 3)
        /\ tree[s].type # "identifier"
        /\ tree[s + 1].type # "identifier"
        /\ tree[s + 3].type # "identifier"
    BY <1>5 DEF IsCase, IsBody, Is
  <2>4. /\ s + 1 \in Nat /\ s <= s /\ s < s + 1
        /\ s + 2 \in Nat /\ s <= s + 1 /\ s + 1 < s + 2
        /\ s + 3 \in Nat /\ s <= s /\ s < s + 3
        /\ s + 4 \in Nat /\ s <= s + 3 /\ s + 3 < s + 4
    OBVIOUS
  <2>5. /\ IsPart(tree, s, s + 1)
        /\ IsPart(tree, s, s + 2)
        /\ IsPart(tree, s, s + 3)
        /\ IsPart(tree, s, s + 4)
    BY ONLY <1>0, <2>3, <2>4, PartOfPhrase, s \in Nat
  <2> QED BY <2>1, <2>2, <2>5
<1>6. CASE IsBend(tree, s, e)
  <2>1. e = s + 2 /\ tree[s].type \in StartTypes
    BY <1>6 DEF IsBend, StartTypes
  <2>2. s + 1 .. s + 2 = {s + 1, s + 2}
    OBVIOUS
  <2>3. /\ Is(tree, s + 1, "body", "", s)
        /\ Is(tree, s + 2, "identifier", "", s + 1)
        /\ tree[s].type # "identifier"
        /\ tree[s + 1].type # "identifier"
    BY <1>6 DEF IsBend, IsBody, Is
  <2>4. /\ s + 1 \in Nat /\ s <= s /\ s < s + 1
        /\ s + 2 \in Nat /\ s <= s + 1 /\ s + 1 < s + 2
    OBVIOUS
  <2>5. /\ IsPart(tree, s, s + 1)
        /\ IsPart(tree, s, s + 2)
    BY ONLY <1>0, <2>3, <2>4, PartOfPhrase, s \in Nat
  <2> QED BY <2>1, <2>2, <2>5
<1>7. CASE IsAssignment(tree, s, e)
  <2>1. e = s + 3 /\ tree[s].type \in StartTypes
    BY <1>7 DEF IsAssignment, StartTypes
  <2>2. s + 1 .. s + 3 = {s + 1, s + 2, s + 3}
    OBVIOUS
  <2>3. /\ Is(tree, s + 1, "identifier", "pat", s)
        /\ Is(tree, s + 2, "body", "", s)
        /\ Is(tree, s + 3, "identifier", "", s + 2)
        /\ tree[s].type # "identifier"
        /\ tree[s + 2].type # "identifier"
    BY <1>7 DEF IsAssignment, IsBody, Is
  <2>4. /\ s + 1 \in Nat /\ s <= s /\ s < s + 1
        /\ s + 2 \in Nat /\ s <= s /\ s < s + 2
        /\ s + 3 \in Nat /\ s <= s + 2 /\ s + 2 < s + 3
    OBVIOUS
  <2>5. /\ IsPart(tree, s, s + 1)
        /\ IsPart(tree, s, s + 2)
        /\ IsPart(tree, s, s + 3)
    BY ONLY <1>0, <2>3, <2>4, PartOfPhrase, s \in Nat
  <2> QED BY <2>1, <2>2, <2>5
<1>8. CASE IsPairAssignment(tree, s, e)
  <2>1. e = s + 4 /\ tree[s].type \in StartTypes
    BY <1>8 DEF IsPairAssignment, StartTypes
  <2>2. s + 1 .. s + 4 = {s + 1, s + 2, s + 3, s + 4}
    OBVIOUS
  <2>3. /\ Is(tree, s + 1, "identifier", "pat", s)
        /\ Is(tree, s + 2, "identifier", "pat", s)
        /\ Is(tree, s + 3, "body", "", s)
        /\ Is(tree, s + 4, "identifier", "", s + 3)
        /\ tree[s].type # "identifier"
        /\ tree[s + 3].type # "identifier"
    BY <1>8 DEF IsPairAssignment, IsBody, Is
  <2>4. /\ s + 1 \in Nat /\ s <= s /\ s < s + 1
        /\ s + 2 \in Nat /\ s <= s /\ s < s + 2
        /\ s + 3 \in Nat /\ s <= s /\ s < s + 3
        /\ s + 4 \in Nat /\ s <= s + 3 /\ s + 3 < s + 4
    OBVIOUS
  <2>5. /\ IsPart(tree, s, s + 1)
        /\ IsPart(tree, s, s + 2)
        /\ IsPart(tree, s, s + 3)
        /\ IsPart(tree, s, s + 4)
    BY ONLY <1>0, <2>3, <2>4, PartOfPhrase, s \in Nat
  <2> QED BY <2>1, <2>2, <2>5
<1> QED BY <1>1, <1>2, <1>3, <1>4, <1>5, <1>6, <1>7, <1>8 DEF IsPhrase

LEMMA PhraseEnds ==
  ASSUME NEW tree, NEW s \in Nat, NEW e, IsPhrase(tree, s, e), NEW f, IsPhrase(tree, s, f)
  PROVE  e = f
<1> USE DEF IsPhrase, IsDefinition, IsRule, IsLambda, IsFunLambda, IsCase, IsBend, IsAssignment,
         IsPairAssignment, IsBody, Is
<1>1. CASE IsDefinition(tree, s, e)
  BY <1>1
<1>2. CASE IsRule(tree, s, e)
  BY <1>2
<1>3. CASE IsLambda(tree, s, e)
  BY <1>3
<1>4. CASE IsFunLambda(tree, s, e)
  BY <1>4
<1>5. CASE IsCase(tree, s, e)
  BY <1>5
<1>6. CASE IsBend(tree, s, e)
  BY <1>6
<1>7. CASE IsAssignment(tree, s, e)
  BY <1>7
<1>8. CASE IsPairAssignment(tree, s, e)
  BY <1>8
<1> QED BY <1>1, <1>2, <1>3, <1>4, <1>5, <1>6, <1>7, <1>8

\* A program is a root and phrases, each below the root or a body.
IsProgram(tree) ==
  /\ IsTree(tree)
  /\ tree[1].type = "source_file"
  /\ \A n \in 2 .. Len(tree) :
       \E s \in 2 .. n, e \in n .. Len(tree) :
         IsPhrase(tree, s, e) /\ tree[tree[s].parent].type \in {"source_file", "body"}

\* Only a body or the root has children outside of its phrase.
LEMMA ChildrenAreInPhrase ==
  ASSUME NEW tree, IsProgram(tree), NEW s \in 2 .. Len(tree), NEW e, IsPhrase(tree, s, e),
         NEW k \in s .. e, tree[k].type # "body", NEW m \in NamedChildren(tree, k)
  PROVE  m \in s + 1 .. e
<1>1. /\ Len(tree) \in Nat /\ m \in 1 .. Len(tree) /\ tree[m].parent = k /\ tree[1].parent = 0
      /\ s \in Nat /\ k \in Nat
  BY DEF NamedChildren, Nodes, IsProgram, IsTree
<1>2. m \in 2 .. Len(tree)
  BY <1>1
<1>3. PICK t \in 2 .. m, f \in m .. Len(tree) :
        IsPhrase(tree, t, f) /\ tree[tree[t].parent].type \in {"source_file", "body"}
  BY <1>2 DEF IsProgram
<1>4. /\ tree[s].type \in StartTypes /\ e \in Nat
      /\ \A n \in s + 1 .. e : tree[n].type \in PartTypes
  BY <1>1, PhraseIs DEF IsPart
<1>5. /\ t \in Nat /\ tree[t].type \in StartTypes
      /\ \A n \in t + 1 .. f : tree[n].type \in PartTypes /\ tree[n].parent \in t .. n - 1
  BY <1>2, <1>3, PhraseIs DEF IsPart
<1>6. m # t
  <2> SUFFICES ASSUME m = t PROVE FALSE OBVIOUS
  <2>1. tree[k].type \in {"source_file", "body"}
    BY <1>1, <1>3
  <2>2. k = s \/ k \in s + 1 .. e
    BY <1>1, <1>4
  <2>3. "source_file" \notin StartTypes \cup PartTypes
    BY DEF StartTypes, PartTypes
  <2>4. tree[k].type \in StartTypes \cup PartTypes
    BY <1>4, <2>2
  <2> QED BY <2>1, <2>3, <2>4
<1>7. k \in t .. m - 1 /\ m \in t + 1 .. f /\ k \in t .. f /\ f \in Nat
  BY <1>1, <1>2, <1>3, <1>5, <1>6
<1>8. s = t
  <2>1. StartTypes \cap PartTypes = {}
    BY DEF StartTypes, PartTypes
  <2>2. ~(s < t)
    BY <1>1, <1>4, <1>5, <1>7, <2>1, t \in s + 1 .. e \/ ~(s < t)
  <2>3. ~(t < s)
    BY <1>1, <1>4, <1>5, <1>7, <2>1, s \in t + 1 .. f \/ ~(t < s)
  <2> QED BY <1>1, <1>5, <2>2, <2>3
<1>9. e = f
  BY <1>1, <1>3, <1>8, PhraseEnds
<1> QED BY <1>7, <1>8, <1>9

LEMMA SubtreeUpTo ==
  ASSUME NEW tree, Len(tree) \in Nat, NEW n \in Nat, NEW q \in n .. Len(tree) - 1,
         \A j \in n + 1 .. q : tree[j].parent >= n, ~(tree[q + 1].parent >= n)
  PROVE  Subtree(tree, n) = n .. q
<1>1. ASSUME NEW m \in Subtree(tree, n) PROVE m \in n .. q
  <2>1. m \in n .. Len(tree) /\ \A j \in n + 1 .. m : tree[j].parent >= n
    BY DEF Subtree
  <2>2. ~(q < m)
    BY <2>1, q + 1 \in n + 1 .. m \/ ~(q < m)
  <2> QED BY <2>1, <2>2
<1>2. ASSUME NEW m \in n .. q PROVE m \in Subtree(tree, n)
  BY DEF Subtree
<1> QED BY <1>1, <1>2

LEMMA SubtreeOfTwo ==
  ASSUME NEW tree, Len(tree) \in Nat, NEW s \in Nat, NEW x \in Nat, NEW y, NEW z,
         y = x + 1, z = x + 2, z <= Len(tree), s < x,
         tree[y].parent = x, tree[z].parent = s
  PROVE  Subtree(tree, x) = x .. y
<1>1. /\ y \in x .. Len(tree) - 1 /\ z = y + 1
      /\ x + 1 .. y = {y} /\ x >= x /\ ~(s >= x)
  OBVIOUS
<1>2. \A j \in x + 1 .. y : tree[j].parent >= x
  BY <1>1
<1>3. ~(tree[y + 1].parent >= x)
  BY <1>1
<1> QED BY <1>1, <1>2, <1>3, SubtreeUpTo

Opens(tree, n) == n = 1 \/ tree[n].type \in Openers
Around(tree, n) == {k \in 1 .. n - 1 : Opens(tree, k) /\ n \in Subtree(tree, k)}
Encl(tree, n) == Max(Around(tree, n))

LEMMA EnclIs ==
  ASSUME NEW tree, IsTree(tree), NEW n \in 2 .. Len(tree)
  PROVE  /\ 1 \in Around(tree, n)
         /\ Encl(tree, n) \in Around(tree, n)
         /\ \A k \in Around(tree, n) : k <= Encl(tree, n)
         /\ Encl(tree, n) \in 1 .. n - 1
<1> DEFINE A == Around(tree, n)
<1>1. Len(tree) \in Nat /\ n \in Nat /\ n >= 2
  BY DEF IsTree
<1>2. n \in Subtree(tree, 1)
  <2>1. \A j \in 1 + 1 .. n : tree[j].parent >= 1
    <3> SUFFICES ASSUME NEW j \in 1 + 1 .. n PROVE tree[j].parent >= 1 OBVIOUS
    <3>1. j \in 2 .. Len(tree)
      BY <1>1
    <3>2. tree[j].parent \in 1 .. j - 1
      BY <3>1 DEF IsTree
    <3> QED BY <1>1, <3>2
  <2> QED BY <1>1, <2>1 DEF Subtree
<1>3. 1 \in A
  BY <1>1, <1>2 DEF Around, Opens
<1>4. n - 1 \in Nat /\ A \in SUBSET (1 .. n - 1) /\ A # {}
  BY <1>1, <1>3 DEF Around
<1> HIDE DEF A
<1>5. Max(A) \in A /\ \A k \in A : Max(A) >= k
  BY ONLY <1>4, GreatestIs
<1>6. \A k \in A : k <= Max(A)
  BY <1>4, <1>5
<1> QED BY <1>3, <1>4, <1>5, <1>6 DEF Encl, A

\* What is around a node is around its parent, or is its parent.
LEMMA AroundParent ==
  ASSUME NEW tree, IsTree(tree), NEW n \in 2 .. Len(tree)
  PROVE  Around(tree, n) = Around(tree, tree[n].parent)
                           \cup (IF Opens(tree, tree[n].parent) THEN {tree[n].parent} ELSE {})
<1> DEFINE p == tree[n].parent
<1>1. Len(tree) \in Nat /\ p \in 1 .. n - 1 /\ n \in Subtree(tree, p)
  BY DEF IsTree
<1>2. ASSUME NEW k \in 1 .. n - 1
      PROVE  n \in Subtree(tree, k) <=> k = p \/ (k < p /\ p \in Subtree(tree, k))
  <2>1. n \in Subtree(tree, k) <=> p \in Subtree(tree, k)
    BY BelowParent
  <2>2. k \in Nodes(tree)
    BY <1>1 DEF Nodes
  <2>3. k \in Subtree(tree, k) /\ Subtree(tree, k) \subseteq k .. Len(tree)
    BY <2>2, SubtreeIs
  <2> QED BY <1>1, <2>1, <2>3
<1>3. \A k \in Int : k \in 1 .. n - 1 /\ k < p <=> k \in 1 .. p - 1
  BY <1>1
<1>4. ASSUME NEW k
      PROVE  k \in Around(tree, n) <=> k \in Around(tree, p) \/ (Opens(tree, p) /\ k = p)
  <2>1. k \in Around(tree, n) => k \in Int
    BY DEF Around
  <2>2. k \in Around(tree, p) => k \in Int
    BY DEF Around
  <2>3. k = p => k \in Int /\ k \in 1 .. n - 1
    BY <1>1
  <2>4. k \in Around(tree, n) <=> k \in 1 .. n - 1 /\ Opens(tree, k) /\ n \in Subtree(tree, k)
    BY DEF Around
  <2>5. k \in Around(tree, p) <=> k \in 1 .. p - 1 /\ Opens(tree, k) /\ p \in Subtree(tree, k)
    BY DEF Around
  <2> HIDE DEF p
  <2> QED BY <1>2, <1>3, <2>1, <2>2, <2>3, <2>4, <2>5
<1> HIDE DEF p
<1>5. Around(tree, n) = Around(tree, p) \cup (IF Opens(tree, p) THEN {p} ELSE {})
  BY <1>4
<1> QED BY <1>5 DEF p

Near(tree, n) == IF Opens(tree, n) THEN n ELSE Encl(tree, n)

LEMMA EnclFrom ==
  ASSUME NEW tree, IsTree(tree), NEW n \in 2 .. Len(tree), NEW p \in 1 .. n - 1,
         Around(tree, n) = Around(tree, p) \cup (IF Opens(tree, p) THEN {p} ELSE {})
  PROVE  Encl(tree, n) = Near(tree, p)
<1>1. Len(tree) \in Nat /\ n \in Nat /\ p \in 1 .. n - 1
  BY DEF IsTree
<1>3. CASE Opens(tree, p)
  <2>1. p \in Around(tree, n) /\ \A k \in Around(tree, n) : k <= p
    BY <1>1, <1>3 DEF Around
  <2>2. Encl(tree, n) = p
    <3>1. Encl(tree, n) \in Around(tree, n) /\ p <= Encl(tree, n) /\ Encl(tree, n) \in 1 .. n - 1
      BY <2>1, EnclIs
    <3> QED BY <1>1, <2>1, <3>1
  <2> QED BY <1>3, <2>2 DEF Near
<1>4. CASE ~Opens(tree, p)
  <2>1. Around(tree, n) = Around(tree, p)
    BY <1>4
  <2> QED BY <1>4, <2>1 DEF Near, Encl
<1> QED BY <1>3, <1>4

LEMMA EnclOfChild ==
  ASSUME NEW tree, IsTree(tree), NEW n \in 2 .. Len(tree)
  PROVE  Encl(tree, n) = Near(tree, tree[n].parent)
<1>1. tree[n].parent \in 1 .. n - 1
  BY DEF IsTree
<1> QED BY <1>1, AroundParent, EnclFrom

\* Of the openers around a node, those before one of them are around that one.
LEMMA AroundOpener ==
  ASSUME NEW tree, IsTree(tree), NEW n \in 2 .. Len(tree), NEW o \in Around(tree, n)
  PROVE  Around(tree, o) = {k \in Around(tree, n) : k < o}
<1>1. Len(tree) \in Nat /\ n \in Nat /\ o \in 1 .. n - 1 /\ n \in Subtree(tree, o)
  BY DEF IsTree, Around
<1>2. ASSUME NEW k \in 1 .. o - 1
      PROVE  n \in Subtree(tree, k) <=> o \in Subtree(tree, k)
  <2>1. k \in Nodes(tree) /\ k \in Nat /\ k < o /\ o \in k .. n
    BY <1>1 DEF Nodes
  <2> QED BY <1>1, <2>1, SubtreeIs
<1>3. \A k \in Int : k \in 1 .. n - 1 /\ k < o <=> k \in 1 .. o - 1
  BY <1>1
<1>4. ASSUME NEW k PROVE k \in Around(tree, o) <=> k \in Around(tree, n) /\ k < o
  <2>1. (k \in Around(tree, n) => k \in Int) /\ (k \in Around(tree, o) => k \in Int)
    BY DEF Around
  <2>2. k \in Around(tree, n) <=> k \in 1 .. n - 1 /\ Opens(tree, k) /\ n \in Subtree(tree, k)
    BY DEF Around
  <2>3. k \in Around(tree, o) <=> k \in 1 .. o - 1 /\ Opens(tree, k) /\ o \in Subtree(tree, k)
    BY DEF Around
  <2> QED BY <1>2, <1>3, <2>1, <2>2, <2>3
<1> QED BY <1>4

\* All nodes of a phrase are below its start, which alone may open a scope.
LEMMA EnclInPhrase ==
  ASSUME NEW tree, IsTree(tree), NEW s \in 2 .. Len(tree), NEW e \in s .. Len(tree),
         IsPhrase(tree, s, e), NEW n \in s + 1 .. e
  PROVE  Encl(tree, n) = Near(tree, s)
<1>1. Len(tree) \in Nat /\ s \in Nat /\ n \in 2 .. Len(tree) /\ n \in Nat /\ s \in 1 .. n - 1 /\ s > 1
  BY DEF IsTree
<1>2. \A m \in s + 1 .. e : tree[m].type \in PartTypes /\ tree[m].parent \in s .. m - 1
  BY <1>1, PhraseIs DEF IsPart
<1>3. n \in Subtree(tree, s)
  <2>1. \A m \in s + 1 .. n : tree[m].parent >= s
    BY <1>1, <1>2
  <2> QED BY <1>1, <2>1 DEF Subtree
<1>4. ASSUME NEW k \in 1 .. s - 1 PROVE n \in Subtree(tree, k) <=> s \in Subtree(tree, k)
  <2>1. k \in Nodes(tree) /\ s \in Nodes(tree) /\ s \in k .. n
    BY <1>1 DEF Nodes
  <2> QED BY <1>3, <2>1, SubtreeIs
<1>5. ASSUME NEW k \in s + 1 .. n - 1 PROVE ~Opens(tree, k)
  <2>1. tree[k].type \in PartTypes /\ k # 1
    BY <1>1, <1>2
  <2>2. PartTypes \cap Openers = {}
    BY DEF PartTypes, Openers, FunctionTypes, LambdaTypes, ArmTypes
  <2> QED BY <2>1, <2>2 DEF Opens
<1>6. ASSUME NEW k
      PROVE  k \in Around(tree, n) <=> k \in Around(tree, s) \/ (Opens(tree, s) /\ k = s)
  <2>1. k \in Around(tree, n) => k \in Int
    BY DEF Around
  <2>2. k \in Around(tree, s) => k \in Int
    BY DEF Around
  <2>3. k \in Int => (k \in 1 .. n - 1 <=> k \in 1 .. s - 1 \/ k = s \/ k \in s + 1 .. n - 1)
    BY <1>1
  <2>4. k = s => k \in Int
    BY <1>1
  <2> QED BY <1>3, <1>4, <1>5, <2>1, <2>2, <2>3, <2>4 DEF Around
<1>7. Around(tree, n) = Around(tree, s) \cup (IF Opens(tree, s) THEN {s} ELSE {})
  BY <1>6
<1> QED BY <1>1, <1>7, EnclFrom

-----------------------------------------------------------------------------
(***************************************************************************)
(* What a visit adds.                                                      *)
(***************************************************************************)
LEMMA ChildrenInPhrase ==
  ASSUME NEW tree, IsProgram(tree), NEW s \in 2 .. Len(tree), NEW e \in s .. Len(tree),
         IsPhrase(tree, s, e), NEW k \in s .. e, tree[k].type # "body"
  PROVE  NamedChildren(tree, k) = {m \in s + 1 .. e : tree[m].parent = k}
<1>1. Len(tree) \in Nat /\ s \in Nat
  BY DEF IsProgram, IsTree
<1>2. ASSUME NEW m \in NamedChildren(tree, k) PROVE m \in s + 1 .. e /\ tree[m].parent = k
  BY ChildrenAreInPhrase DEF NamedChildren
<1>3. ASSUME NEW m \in s + 1 .. e, tree[m].parent = k PROVE m \in NamedChildren(tree, k)
  BY <1>1, <1>3 DEF NamedChildren, Nodes
<1> QED BY <1>2, <1>3

LEMMA FieldIs ==
  ASSUME NEW tree, NEW k, NEW field, NEW c \in Nat, c \in NamedChildren(tree, k),
         tree[c].field = field, \A m \in NamedChildren(tree, k) : m = c \/ tree[m].field # field
  PROVE  ChildByFieldName(tree, k, field) = c
<1>1. {m \in NamedChildren(tree, k) : tree[m].field = field} = {c}
  OBVIOUS
<1> QED BY <1>1, FirstIs DEF ChildByFieldName

LEMMA NoField ==
  ASSUME NEW tree, NEW k, NEW field, \A m \in NamedChildren(tree, k) : tree[m].field # field
  PROVE  ChildByFieldName(tree, k, field) = NoNode
<1>1. {m \in NamedChildren(tree, k) : tree[m].field = field} = {}
  OBVIOUS
<1> QED BY <1>1, FirstIs DEF ChildByFieldName

LEMMA TypeChildIs ==
  ASSUME NEW tree, NEW k, NEW type, NEW c \in Nat, c \in NamedChildren(tree, k),
         tree[c].type = type, \A m \in NamedChildren(tree, k) : m = c \/ tree[m].type # type
  PROVE  FirstNamedChildType(tree, k, type) = c
<1>1. {m \in NamedChildren(tree, k) : tree[m].type = type} = {c}
  OBVIOUS
<1> QED BY <1>1, FirstIs DEF FirstNamedChildType

LEMMA NoTypeChild ==
  ASSUME NEW tree, NEW k, NEW type, \A m \in NamedChildren(tree, k) : tree[m].type # type
  PROVE  FirstNamedChildType(tree, k, type) = NoNode
<1>1. {m \in NamedChildren(tree, k) : tree[m].type = type} = {}
  OBVIOUS
<1> QED BY <1>1, FirstIs DEF FirstNamedChildType

LEMMA DefinitionParts ==
  ASSUME NEW tree, IsProgram(tree), NEW s \in 2 .. Len(tree), NEW e \in s .. Len(tree),
         IsDefinition(tree, s, e)
  PROVE  /\ NamedChildren(tree, s) = {s + 1, s + 2, s + 5}
         /\ NamedChildren(tree, s + 2) = {s + 3}
         /\ NamedChildren(tree, s + 3) = {s + 4}
<1>1. IsPhrase(tree, s, e) /\ e = s + 6
  BY DEF IsPhrase, IsDefinition
<1>2. s \in Nat /\ Len(tree) \in Nat
  BY DEF IsProgram, IsTree
<1>3. /\ s \in s .. e /\ s + 2 \in s .. e /\ s + 3 \in s .. e
      /\ s + 1 .. e = {s + 1, s + 2, s + 3, s + 4, s + 5, s + 6}
  BY <1>1, <1>2
<1>4. /\ tree[s + 1].parent = s
      /\ tree[s + 2].parent = s
      /\ tree[s + 3].parent = s + 2
      /\ tree[s + 4].parent = s + 3
      /\ tree[s + 5].parent = s
      /\ tree[s + 6].parent = s + 5
      /\ tree[s].type # "body"
      /\ tree[s + 2].type # "body"
      /\ tree[s + 3].type # "body"
  BY DEF IsDefinition, IsBody, Is
<1>5. /\ NamedChildren(tree, s) = {m \in s + 1 .. e : tree[m].parent = s}
      /\ NamedChildren(tree, s + 2) = {m \in s + 1 .. e : tree[m].parent = s + 2}
      /\ NamedChildren(tree, s + 3) = {m \in s + 1 .. e : tree[m].parent = s + 3}
  BY <1>1, <1>3, <1>4, ChildrenInPhrase
<1>6. /\ NamedChildren(tree, s) = {s + 1, s + 2, s + 5}
      /\ NamedChildren(tree, s + 2) = {s + 3}
      /\ NamedChildren(tree, s + 3) = {s + 4}
  <2>1. NamedChildren(tree, s) = {s + 1, s + 2, s + 5}
    <3>1. s + 2 # s /\ s + 3 # s /\ s + 5 # s
      BY <1>2
    <3>2. s + 1 .. e = {s + 1, s + 2, s + 3, s + 4, s + 5, s + 6}
      BY <1>3
    <3> QED BY <1>4, <1>5, <3>1, <3>2, Zenon
  <2>2. NamedChildren(tree, s + 2) = {s + 3}
    <3>1. s # s + 2 /\ s + 3 # s + 2 /\ s + 5 # s + 2
      BY <1>2
    <3>2. s + 1 .. e = {s + 1, s + 2, s + 3, s + 4, s + 5, s + 6}
      BY <1>3
    <3> QED BY <1>4, <1>5, <3>1, <3>2, Zenon
  <2>3. NamedChildren(tree, s + 3) = {s + 4}
    <3>1. s # s + 3 /\ s + 2 # s + 3 /\ s + 5 # s + 3
      BY <1>2
    <3>2. s + 1 .. e = {s + 1, s + 2, s + 3, s + 4, s + 5, s + 6}
      BY <1>3
    <3> QED BY <1>4, <1>5, <3>1, <3>2, Zenon
  <2> QED BY <2>1, <2>2, <2>3
<1> QED BY <1>6

LEMMA RuleParts ==
  ASSUME NEW tree, IsProgram(tree), NEW s \in 2 .. Len(tree), NEW e \in s .. Len(tree),
         IsRule(tree, s, e)
  PROVE  /\ NamedChildren(tree, s) = {s + 1, s + 2, s + 4}
         /\ NamedChildren(tree, s + 2) = {s + 3}
         /\ {m \in Subtree(tree, s + 2) : tree[m].type = "identifier"} = {s + 3}
<1>1. IsPhrase(tree, s, e) /\ e = s + 5
  BY DEF IsPhrase, IsRule
<1>2. s \in Nat /\ Len(tree) \in Nat
  BY DEF IsProgram, IsTree
<1>3. /\ s \in s .. e /\ s + 2 \in s .. e
      /\ s + 1 .. e = {s + 1, s + 2, s + 3, s + 4, s + 5}
  BY <1>1, <1>2
<1>4. /\ tree[s + 1].parent = s
      /\ tree[s + 2].parent = s
      /\ tree[s + 3].parent = s + 2
      /\ tree[s + 4].parent = s
      /\ tree[s + 5].parent = s + 4
      /\ tree[s].type # "body"
      /\ tree[s + 2].type # "body"
  BY DEF IsRule, IsBody, Is
<1>5. /\ NamedChildren(tree, s) = {m \in s + 1 .. e : tree[m].parent = s}
      /\ NamedChildren(tree, s + 2) = {m \in s + 1 .. e : tree[m].parent = s + 2}
  BY <1>1, <1>3, <1>4, ChildrenInPhrase
<1>6. /\ NamedChildren(tree, s) = {s + 1, s + 2, s + 4}
      /\ NamedChildren(tree, s + 2) = {s + 3}
  <2>1. NamedChildren(tree, s) = {s + 1, s + 2, s + 4}
    <3>1. s + 2 # s /\ s + 4 # s
      BY <1>2
    <3>2. s + 1 .. e = {s + 1, s + 2, s + 3, s + 4, s + 5}
      BY <1>3
    <3> QED BY <1>4, <1>5, <3>1, <3>2, Zenon
  <2>2. NamedChildren(tree, s + 2) = {s + 3}
    <3>1. s # s + 2 /\ s + 4 # s + 2
      BY <1>2
    <3>2. s + 1 .. e = {s + 1, s + 2, s + 3, s + 4, s + 5}
      BY <1>3
    <3> QED BY <1>4, <1>5, <3>1, <3>2, Zenon
  <2> QED BY <2>1, <2>2
<1>7. Subtree(tree, s + 2) = s + 2 .. s + 3
  <2> DEFINE x == s + 2
             y == s + 3
             z == s + 4
  <2>1. x \in Nat /\ y = x + 1 /\ z = x + 2 /\ z <= Len(tree) /\ s < x
    BY <1>1, <1>2, e <= Len(tree)
  <2>2. tree[y].parent = x /\ tree[z].parent = s
    BY <1>4
  <2> HIDE DEF x, y, z
  <2>3. Subtree(tree, x) = x .. y
    BY <1>2, <2>1, <2>2, SubtreeOfTwo
  <2> QED BY <2>3 DEF x, y
<1>8. s + 2 .. s + 3 = {s + 2, s + 3}
  BY <1>2
<1>9. tree[s + 2].type # "identifier" /\ tree[s + 3].type = "identifier"
  BY DEF IsRule, Is
<1> QED BY <1>6, <1>7, <1>8, <1>9

LEMMA LambdaParts ==
  ASSUME NEW tree, IsProgram(tree), NEW s \in 2 .. Len(tree), NEW e \in s .. Len(tree),
         IsLambda(tree, s, e)
  PROVE  /\ NamedChildren(tree, s) = {s + 1, s + 4}
         /\ NamedChildren(tree, s + 1) = {s + 2}
         /\ NamedChildren(tree, s + 2) = {s + 3}
<1>1. IsPhrase(tree, s, e) /\ e = s + 5
  BY DEF IsPhrase, IsLambda
<1>2. s \in Nat /\ Len(tree) \in Nat
  BY DEF IsProgram, IsTree
<1>3. /\ s \in s .. e /\ s + 1 \in s .. e /\ s + 2 \in s .. e
      /\ s + 1 .. e = {s + 1, s + 2, s + 3, s + 4, s + 5}
  BY <1>1, <1>2
<1>4. /\ tree[s + 1].parent = s
      /\ tree[s + 2].parent = s + 1
      /\ tree[s + 3].parent = s + 2
      /\ tree[s + 4].parent = s
      /\ tree[s + 5].parent = s + 4
      /\ tree[s].type # "body"
      /\ tree[s + 1].type # "body"
      /\ tree[s + 2].type # "body"
  BY DEF IsLambda, IsBody, Is
<1>5. /\ NamedChildren(tree, s) = {m \in s + 1 .. e : tree[m].parent = s}
      /\ NamedChildren(tree, s + 1) = {m \in s + 1 .. e : tree[m].parent = s + 1}
      /\ NamedChildren(tree, s + 2) = {m \in s + 1 .. e : tree[m].parent = s + 2}
  BY <1>1, <1>3, <1>4, ChildrenInPhrase
<1>6. /\ NamedChildren(tree, s) = {s + 1, s + 4}
      /\ NamedChildren(tree, s + 1) = {s + 2}
      /\ NamedChildren(tree, s + 2) = {s + 3}
  <2>1. NamedChildren(tree, s) = {s + 1, s + 4}
    <3>1. s + 1 # s /\ s + 2 # s /\ s + 4 # s
      BY <1>2
    <3>2. s + 1 .. e = {s + 1, s + 2, s + 3, s + 4, s + 5}
      BY <1>3
    <3> QED BY <1>4, <1>5, <3>1, <3>2, Zenon
  <2>2. NamedChildren(tree, s + 1) = {s + 2}
    <3>1. s # s + 1 /\ s + 2 # s + 1 /\ s + 4 # s + 1
      BY <1>2
    <3>2. s + 1 .. e = {s + 1, s + 2, s + 3, s + 4, s + 5}
      BY <1>3
    <3> QED BY <1>4, <1>5, <3>1, <3>2, Zenon
  <2>3. NamedChildren(tree, s + 2) = {s + 3}
    <3>1. s # s + 2 /\ s + 1 # s + 2 /\ s + 4 # s + 2
      BY <1>2
    <3>2. s + 1 .. e = {s + 1, s + 2, s + 3, s + 4, s + 5}
      BY <1>3
    <3> QED BY <1>4, <1>5, <3>1, <3>2, Zenon
  <2> QED BY <2>1, <2>2, <2>3
<1> QED BY <1>6

LEMMA FunLambdaParts ==
  ASSUME NEW tree, IsProgram(tree), NEW s \in 2 .. Len(tree), NEW e \in s .. Len(tree),
         IsFunLambda(tree, s, e)
  PROVE  /\ NamedChildren(tree, s) = {s + 1, s + 3}
         /\ NamedChildren(tree, s + 1) = {s + 2}
         /\ {m \in Subtree(tree, s + 1) : tree[m].type = "identifier"} = {s + 2}
<1>1. IsPhrase(tree, s, e) /\ e = s + 4
  BY DEF IsPhrase, IsFunLambda
<1>2. s \in Nat /\ Len(tree) \in Nat
  BY DEF IsProgram, IsTree
<1>3. /\ s \in s .. e /\ s + 1 \in s .. e
      /\ s + 1 .. e = {s + 1, s + 2, s + 3, s + 4}
  BY <1>1, <1>2
<1>4. /\ tree[s + 1].parent = s
      /\ tree[s + 2].parent = s + 1
      /\ tree[s + 3].parent = s
      /\ tree[s + 4].parent = s + 3
      /\ tree[s].type # "body"
      /\ tree[s + 1].type # "body"
  BY DEF IsFunLambda, IsBody, Is
<1>5. /\ NamedChildren(tree, s) = {m \in s + 1 .. e : tree[m].parent = s}
      /\ NamedChildren(tree, s + 1) = {m \in s + 1 .. e : tree[m].parent = s + 1}
  BY <1>1, <1>3, <1>4, ChildrenInPhrase
<1>6. /\ NamedChildren(tree, s) = {s + 1, s + 3}
      /\ NamedChildren(tree, s + 1) = {s + 2}
  <2>1. NamedChildren(tree, s) = {s + 1, s + 3}
    <3>1. s + 1 # s /\ s + 3 # s
      BY <1>2
    <3>2. s + 1 .. e = {s + 1, s + 2, s + 3, s + 4}
      BY <1>3
    <3> QED BY <1>4, <1>5, <3>1, <3>2, Zenon
  <2>2. NamedChildren(tree, s + 1) = {s + 2}
    <3>1. s # s + 1 /\ s + 3 # s + 1
      BY <1>2
    <3>2. s + 1 .. e = {s + 1, s + 2, s + 3, s + 4}
      BY <1>3
    <3> QED BY <1>4, <1>5, <3>1, <3>2, Zenon
  <2> QED BY <2>1, <2>2
<1>7. Subtree(tree, s + 1) = s + 1 .. s + 2
  <2> DEFINE x == s + 1
             y == s + 2
             z == s + 3
  <2>1. x \in Nat /\ y = x + 1 /\ z = x + 2 /\ z <= Len(tree) /\ s < x
    BY <1>1, <1>2, e <= Len(tree)
  <2>2. tree[y].parent = x /\ tree[z].parent = s
    BY <1>4
  <2> HIDE DEF x, y, z
  <2>3. Subtree(tree, x) = x .. y
    BY <1>2, <2>1, <2>2, SubtreeOfTwo
  <2> QED BY <2>3 DEF x, y
<1>8. s + 1 .. s + 2 = {s + 1, s + 2}
  BY <1>2
<1>9. tree[s + 1].type # "identifier" /\ tree[s + 2].type = "identifier"
  BY DEF IsFunLambda, Is
<1> QED BY <1>6, <1>7, <1>8, <1>9

LEMMA CaseParts ==
  ASSUME NEW tree, IsProgram(tree), NEW s \in 2 .. Len(tree), NEW e \in s .. Len(tree),
         IsCase(tree, s, e)
  PROVE  /\ NamedChildren(tree, s) = {s + 1, s + 3}
         /\ NamedChildren(tree, s + 1) = {s + 2}
         /\ {m \in Subtree(tree, s + 1) : tree[m].type = "identifier"} = {s + 2}
<1>1. IsPhrase(tree, s, e) /\ e = s + 4
  BY DEF IsPhrase, IsCase
<1>2. s \in Nat /\ Len(tree) \in Nat
  BY DEF IsProgram, IsTree
<1>3. /\ s \in s .. e /\ s + 1 \in s .. e
      /\ s + 1 .. e = {s + 1, s + 2, s + 3, s + 4}
  BY <1>1, <1>2
<1>4. /\ tree[s + 1].parent = s
      /\ tree[s + 2].parent = s + 1
      /\ tree[s + 3].parent = s
      /\ tree[s + 4].parent = s + 3
      /\ tree[s].type # "body"
      /\ tree[s + 1].type # "body"
  BY DEF IsCase, IsBody, Is
<1>5. /\ NamedChildren(tree, s) = {m \in s + 1 .. e : tree[m].parent = s}
      /\ NamedChildren(tree, s + 1) = {m \in s + 1 .. e : tree[m].parent = s + 1}
  BY <1>1, <1>3, <1>4, ChildrenInPhrase
<1>6. /\ NamedChildren(tree, s) = {s + 1, s + 3}
      /\ NamedChildren(tree, s + 1) = {s + 2}
  <2>1. NamedChildren(tree, s) = {s + 1, s + 3}
    <3>1. s + 1 # s /\ s + 3 # s
      BY <1>2
    <3>2. s + 1 .. e = {s + 1, s + 2, s + 3, s + 4}
      BY <1>3
    <3> QED BY <1>4, <1>5, <3>1, <3>2, Zenon
  <2>2. NamedChildren(tree, s + 1) = {s + 2}
    <3>1. s # s + 1 /\ s + 3 # s + 1
      BY <1>2
    <3>2. s + 1 .. e = {s + 1, s + 2, s + 3, s + 4}
      BY <1>3
    <3> QED BY <1>4, <1>5, <3>1, <3>2, Zenon
  <2> QED BY <2>1, <2>2
<1>7. Subtree(tree, s + 1) = s + 1 .. s + 2
  <2> DEFINE x == s + 1
             y == s + 2
             z == s + 3
  <2>1. x \in Nat /\ y = x + 1 /\ z = x + 2 /\ z <= Len(tree) /\ s < x
    BY <1>1, <1>2, e <= Len(tree)
  <2>2. tree[y].parent = x /\ tree[z].parent = s
    BY <1>4
  <2> HIDE DEF x, y, z
  <2>3. Subtree(tree, x) = x .. y
    BY <1>2, <2>1, <2>2, SubtreeOfTwo
  <2> QED BY <2>3 DEF x, y
<1>8. s + 1 .. s + 2 = {s + 1, s + 2}
  BY <1>2
<1>9. tree[s + 1].type # "identifier" /\ tree[s + 2].type = "identifier"
  BY DEF IsCase, Is
<1> QED BY <1>6, <1>7, <1>8, <1>9

LEMMA AssignmentParts ==
  ASSUME NEW tree, IsProgram(tree), NEW s \in 2 .. Len(tree), NEW e \in s .. Len(tree),
         IsAssignment(tree, s, e)
  PROVE  /\ NamedChildren(tree, s) = {s + 1, s + 2}
         /\ {m \in Subtree(tree, s + 1) : tree[m].type = "identifier"} = {s + 1}
<1>1. IsPhrase(tree, s, e) /\ e = s + 3
  BY DEF IsPhrase, IsAssignment
<1>2. s \in Nat /\ Len(tree) \in Nat
  BY DEF IsProgram, IsTree
<1>3. /\ s \in s .. e
      /\ s + 1 .. e = {s + 1, s + 2, s + 3}
  BY <1>1, <1>2
<1>4. /\ tree[s + 1].parent = s
      /\ tree[s + 2].parent = s
      /\ tree[s + 3].parent = s + 2
      /\ tree[s].type # "body"
  BY DEF IsAssignment, IsBody, Is
<1>5. /\ NamedChildren(tree, s) = {m \in s + 1 .. e : tree[m].parent = s}
  BY <1>1, <1>3, <1>4, ChildrenInPhrase
<1>6. /\ NamedChildren(tree, s) = {s + 1, s + 2}
  BY <1>1, <1>2, <1>3, <1>4, <1>5
<1>7. Subtree(tree, s + 1) = s + 1 .. s + 1
  <2>1. /\ s + 1 \in Nat /\ s + 1 \in s + 1 .. Len(tree) - 1 /\ (s + 1) + 1 = s + 2
        /\ (s + 1) + 1 .. s + 1 = {} /\ ~(s >= s + 1)
    BY <1>1, <1>2, e <= Len(tree)
  <2> QED BY <1>2, <1>4, <2>1, SubtreeUpTo
<1>8. s + 1 .. s + 1 = {s + 1}
  BY <1>2
<1>9. tree[s + 1].type = "identifier"
  BY DEF IsAssignment, Is
<1> QED BY <1>6, <1>7, <1>8, <1>9

LEMMA PairAssignmentParts ==
  ASSUME NEW tree, IsProgram(tree), NEW s \in 2 .. Len(tree), NEW e \in s .. Len(tree),
         IsPairAssignment(tree, s, e)
  PROVE  /\ NamedChildren(tree, s) = {s + 1, s + 2, s + 3}
         /\ {m \in Subtree(tree, s + 1) : tree[m].type = "identifier"} = {s + 1}
<1>1. IsPhrase(tree, s, e) /\ e = s + 4
  BY DEF IsPhrase, IsPairAssignment
<1>2. s \in Nat /\ Len(tree) \in Nat
  BY DEF IsProgram, IsTree
<1>3. /\ s \in s .. e
      /\ s + 1 .. e = {s + 1, s + 2, s + 3, s + 4}
  BY <1>1, <1>2
<1>4. /\ tree[s + 1].parent = s
      /\ tree[s + 2].parent = s
      /\ tree[s + 3].parent = s
      /\ tree[s + 4].parent = s + 3
      /\ tree[s].type # "body"
  BY DEF IsPairAssignment, IsBody, Is
<1>5. /\ NamedChildren(tree, s) = {m \in s + 1 .. e : tree[m].parent = s}
  BY <1>1, <1>3, <1>4, ChildrenInPhrase
<1>6. /\ NamedChildren(tree, s) = {s + 1, s + 2, s + 3}
  BY <1>1, <1>2, <1>3, <1>4, <1>5
<1>7. Subtree(tree, s + 1) = s + 1 .. s + 1
  <2>1. /\ s + 1 \in Nat /\ s + 1 \in s + 1 .. Len(tree) - 1 /\ (s + 1) + 1 = s + 2
        /\ (s + 1) + 1 .. s + 1 = {} /\ ~(s >= s + 1)
    BY <1>1, <1>2, e <= Len(tree)
  <2> QED BY <1>2, <1>4, <2>1, SubtreeUpTo
<1>8. s + 1 .. s + 1 = {s + 1}
  BY <1>2
<1>9. tree[s + 1].type = "identifier"
  BY DEF IsPairAssignment, Is
<1> QED BY <1>6, <1>7, <1>8, <1>9

WithScope(g, tree, n, kind, parent) ==
  [scopes |-> Append(g.scopes, [kind |-> kind, range |-> NodeRange(tree, n), parent |-> parent]),
   bindings |-> g.bindings, inside |-> g.inside]

LEMMA WithScopeIsGraph ==
  ASSUME NEW g, IsGraph(g), NEW tree, NEW n, NEW kind, NEW parent
  PROVE  /\ AddScope(g, tree, n, kind, parent) = WithScope(g, tree, n, kind, parent)
         /\ IsGraph(WithScope(g, tree, n, kind, parent))
<1> DEFINE r == [kind |-> kind, range |-> NodeRange(tree, n), parent |-> parent]
           h == WithScope(g, tree, n, kind, parent)
<1>1. PICK S, B : g.scopes \in Seq(S) /\ g.bindings \in Seq(B)
  BY DEF IsGraph
<1>2. h = [scopes |-> Append(g.scopes, r), bindings |-> g.bindings, inside |-> g.inside]
  BY DEF WithScope
<1>3. AddScope(g, tree, n, kind, parent) = [g EXCEPT !.scopes = Append(g.scopes, r)]
  BY DEF AddScope
<1> HIDE DEF r, h
<1>4. g.scopes \in Seq(S \cup {r}) /\ Append(g.scopes, r) \in Seq(S \cup {r})
  BY <1>1
<1>5. g.inside \in Seq(Int)
  BY DEF IsGraph
<1>6. /\ h.scopes = Append(g.scopes, r) /\ h.bindings = g.bindings /\ h.inside = g.inside
      /\ h = [scopes |-> h.scopes, bindings |-> h.bindings, inside |-> h.inside]
  BY <1>2
<1>7. IsGraph(h)
  BY <1>1, <1>4, <1>5, <1>6 DEF IsGraph
<1>8. \A x : [g EXCEPT !.scopes = x] = [scopes |-> x, bindings |-> g.bindings, inside |-> g.inside]
  <2>1. g = [scopes |-> g.scopes, bindings |-> g.bindings, inside |-> g.inside]
    BY DEF IsGraph
  <2> QED BY <2>1
<1> QED BY <1>2, <1>3, <1>7, <1>8 DEF h

LEMMA VisitDefinition ==
  ASSUME NEW tree, IsProgram(tree), NEW s \in 2 .. Len(tree), NEW e \in s .. Len(tree),
         IsDefinition(tree, s, e), NEW g, IsGraph(g), NEW c
  PROVE  VisitFunction(g, tree, s, c)
           = WithBinding(WithScope(WithBinding(g, tree, s + 1, "function", c), tree, s, "function", c),
                         tree, s + 4, "parameter", Len(g.scopes))
<1> DEFINE g1 == WithBinding(g, tree, s + 1, "function", c)
           g2 == WithScope(g1, tree, s, "function", c)
           n == Len(g.scopes)
<1>0. Len(tree) \in Nat
  BY DEF IsProgram, IsTree
<1>1. s \in Nat /\ s + 1 \in Nat \ {0} /\ s + 2 \in Nat \ {0} /\ s + 4 \in Nat \ {0}
  BY <1>0
<1>2. /\ tree[s].type = "imp_function_definition"
      /\ tree[s + 1].field = "name" /\ tree[s + 2].field = "parameters" /\ tree[s + 5].field = ""
      /\ tree[s + 3].type = "parameter" /\ tree[s + 4].field = "name"
  BY DEF IsDefinition, IsBody, Is
<1>3. /\ NamedChildren(tree, s) = {s + 1, s + 2, s + 5}
      /\ NamedChildren(tree, s + 2) = {s + 3}
      /\ NamedChildren(tree, s + 3) = {s + 4}
  BY DefinitionParts
<1>4. ChildByFieldName(tree, s, "name") = s + 1
  <2>1. /\ s + 1 \in NamedChildren(tree, s) /\ tree[s + 1].field = "name"
        /\ \A m \in NamedChildren(tree, s) : m = s + 1 \/ tree[m].field # "name"
    BY <1>2, <1>3, Zenon
  <2>2. s + 1 \in Nat
    BY <1>1
  <2> QED BY ONLY <2>1, <2>2, FieldIs
<1>5. ChildByFieldName(tree, s, "parameters") = s + 2
  <2>1. /\ s + 2 \in NamedChildren(tree, s) /\ tree[s + 2].field = "parameters"
        /\ \A m \in NamedChildren(tree, s) : m = s + 2 \/ tree[m].field # "parameters"
    BY <1>2, <1>3, Zenon
  <2>2. s + 2 \in Nat
    BY <1>1
  <2> QED BY ONLY <2>1, <2>2, FieldIs
<1>6. ParameterName(tree, s + 3) = s + 4
  <2>1. ChildByFieldName(tree, s + 3, "name") = s + 4
    <3>1. /\ s + 4 \in NamedChildren(tree, s + 3) /\ tree[s + 4].field = "name"
          /\ \A m \in NamedChildren(tree, s + 3) : m = s + 4 \/ tree[m].field # "name"
      BY <1>2, <1>3, Zenon
    <3>2. s + 4 \in Nat
      BY <1>1
    <3> QED BY ONLY <3>1, <3>2, FieldIs
  <2> QED BY <1>2, <2>1 DEF ParameterName
<1>7. AddBindings(g, tree, <<s + 1>>, "function", c) = g1 /\ IsGraph(g1)
  <2>1. DOMAIN <<s + 1>> = 1 .. 1 /\ <<s + 1>>[1] = s + 1
    OBVIOUS
  <2> QED BY <1>1, <2>1, AddOneBinding, WithBindingIsGraph
<1>8. g1.scopes = g.scopes
  BY DEF WithBinding
<1> HIDE DEF g1
<1>9. AddScope(g1, tree, s, "function", c) = g2 /\ IsGraph(g2)
  BY <1>7, WithScopeIsGraph
<1> HIDE DEF g2, n
<1>10. AddParameterBindings(g2, tree, s + 2, n) = WithBinding(g2, tree, s + 4, "parameter", n)
  BY <1>1, <1>3, <1>6, <1>9, OneParameter
<1> DEFINE h == WithBinding(g2, tree, s + 4, "parameter", n)
<1> HIDE DEF h
<1>11. AddAllPatterns(h, tree, {}, n) = h
  BY NoPatterns
<1>12. VisitFunction(g, tree, s, c) = AddAllPatterns(h, tree, {}, n)
  BY <1>1, <1>2, <1>4, <1>5, <1>7, <1>9, <1>10 DEF VisitFunction, NoNode, h, n
<1> QED BY <1>11, <1>12 DEF h, g2, g1, n

LEMMA VisitRule ==
  ASSUME NEW tree, IsProgram(tree), NEW s \in 2 .. Len(tree), NEW e \in s .. Len(tree),
         IsRule(tree, s, e), NEW g, IsGraph(g), NEW c
  PROVE  VisitFunction(g, tree, s, c)
           = WithBinding(WithScope(WithBinding(g, tree, s + 1, "function", c), tree, s, "function", c),
                         tree, s + 3, "variable", Len(g.scopes))
<1> DEFINE g1 == WithBinding(g, tree, s + 1, "function", c)
           g2 == WithScope(g1, tree, s, "function", c)
           n == Len(g.scopes)
<1>0. Len(tree) \in Nat
  BY DEF IsProgram, IsTree
<1>1. s \in Nat /\ s + 1 \in Nat \ {0} /\ s + 2 \in Nat \ {0} /\ s + 3 \in Nat /\ s + 4 \in Nat
  BY <1>0
<1>2. /\ tree[s].type = "fun_function_definition"
      /\ tree[s + 1].field = "name" /\ tree[s + 2].field = "" /\ tree[s + 4].field = ""
      /\ tree[s + 1].type = "identifier" /\ tree[s + 2].type = "pattern" /\ tree[s + 4].type = "body"
  BY DEF IsRule, IsBody, Is
<1>3. /\ NamedChildren(tree, s) = {s + 1, s + 2, s + 4}
      /\ {m \in Subtree(tree, s + 2) : tree[m].type = "identifier"} = {s + 3}
  BY RuleParts
<1>4. ChildByFieldName(tree, s, "name") = s + 1
  <2>1. /\ s + 1 \in NamedChildren(tree, s) /\ tree[s + 1].field = "name"
        /\ \A m \in NamedChildren(tree, s) : m = s + 1 \/ tree[m].field # "name"
    BY <1>2, <1>3, Zenon
  <2>2. s + 1 \in Nat
    BY <1>1
  <2> QED BY ONLY <2>1, <2>2, FieldIs
<1>5. ChildByFieldName(tree, s, "parameters") = NoNode
  BY <1>2, <1>3, NoField
<1>6. {m \in NamedChildren(tree, s) : tree[m].type = "pattern"} = {s + 2}
  BY <1>2, <1>3
<1>7. AddBindings(g, tree, <<s + 1>>, "function", c) = g1 /\ IsGraph(g1)
  <2>1. DOMAIN <<s + 1>> = 1 .. 1 /\ <<s + 1>>[1] = s + 1
    OBVIOUS
  <2> QED BY <1>1, <2>1, AddOneBinding, WithBindingIsGraph
<1>8. g1.scopes = g.scopes
  BY DEF WithBinding
<1> HIDE DEF g1
<1>9. AddScope(g1, tree, s, "function", c) = g2 /\ IsGraph(g2)
  BY <1>7, WithScopeIsGraph
<1> HIDE DEF g2, n
<1>10. AddParameterBindings(g2, tree, NoNode, n) = g2
  BY DEF AddParameterBindings
<1>11. AddAllPatterns(g2, tree, {s + 2}, n) = AddPatternBindings(g2, tree, s + 2, n)
  BY <1>1, OneOfPatterns
<1>12. AddPatternBindings(g2, tree, s + 2, n) = WithBinding(g2, tree, s + 3, "variable", n)
  BY <1>1, <1>3, <1>9, OnePattern
<1>13. VisitFunction(g, tree, s, c) = AddAllPatterns(g2, tree, {s + 2}, n)
  <2>1. s + 1 # NoNode
    BY <1>1 DEF NoNode
  <2> QED BY <1>2, <1>4, <1>5, <1>6, <1>7, <1>9, <1>10, <2>1 DEF VisitFunction, n
<1> QED BY <1>11, <1>12, <1>13 DEF g2, g1, n

LEMMA VisitImpLambda ==
  ASSUME NEW tree, IsProgram(tree), NEW s \in 2 .. Len(tree), NEW e \in s .. Len(tree),
         IsLambda(tree, s, e), NEW g, IsGraph(g), NEW c
  PROVE  VisitLambda(g, tree, s, c)
           = WithBinding(WithScope(g, tree, s, "lambda", c), tree, s + 3, "parameter", Len(g.scopes))
<1> DEFINE g2 == WithScope(g, tree, s, "lambda", c)
           n == Len(g.scopes)
<1>0. Len(tree) \in Nat
  BY DEF IsProgram, IsTree
<1>1. s \in Nat /\ s + 1 \in Nat \ {0} /\ s + 3 \in Nat \ {0} /\ s + 4 \in Nat
  BY <1>0
<1>2. /\ tree[s].type = "imp_lambda"
      /\ tree[s + 1].type = "parameters" /\ tree[s + 1].field = ""
      /\ tree[s + 2].type = "expression_identifier" /\ tree[s + 3].type = "identifier"
      /\ tree[s + 4].type = "body" /\ tree[s + 4].field = ""
  BY DEF IsLambda, IsBody, Is
<1>3. /\ NamedChildren(tree, s) = {s + 1, s + 4}
      /\ NamedChildren(tree, s + 1) = {s + 2}
      /\ NamedChildren(tree, s + 2) = {s + 3}
  BY LambdaParts
<1>4. ChildByFieldName(tree, s, "parameters") = NoNode
  BY <1>2, <1>3, NoField
<1>5. ChildByFieldName(tree, s, "pattern") = NoNode /\ FirstNamedChildType(tree, s, "pattern") = NoNode
  BY <1>2, <1>3, NoField, NoTypeChild
<1>6. FirstNamedChildType(tree, s, "parameters") = s + 1
  <2>1. /\ s + 1 \in NamedChildren(tree, s) /\ tree[s + 1].type = "parameters"
        /\ \A m \in NamedChildren(tree, s) : m = s + 1 \/ tree[m].type # "parameters"
    BY <1>2, <1>3, Zenon
  <2>2. s + 1 \in Nat
    BY <1>1
  <2> QED BY ONLY <2>1, <2>2, TypeChildIs
<1>7. ParameterName(tree, s + 2) = s + 3
  <2>1. FirstNamedChildType(tree, s + 2, "identifier") = s + 3
    <3>1. /\ s + 3 \in NamedChildren(tree, s + 2) /\ tree[s + 3].type = "identifier"
          /\ \A m \in NamedChildren(tree, s + 2) : m = s + 3 \/ tree[m].type # "identifier"
      BY <1>2, <1>3, Zenon
    <3>2. s + 3 \in Nat
      BY <1>1
    <3> QED BY ONLY <3>1, <3>2, TypeChildIs
  <2> QED BY <1>2, <2>1 DEF ParameterName
<1>8. AddScope(g, tree, s, "lambda", c) = g2 /\ IsGraph(g2)
  BY WithScopeIsGraph
<1> HIDE DEF g2, n
<1>9. AddParameterBindings(g2, tree, s + 1, n) = WithBinding(g2, tree, s + 3, "parameter", n)
  BY <1>1, <1>3, <1>7, <1>8, OneParameter
<1> DEFINE h == WithBinding(g2, tree, s + 3, "parameter", n)
<1> HIDE DEF h
<1>10. AddPatternBindings(h, tree, NoNode, n) = h
  BY DEF AddPatternBindings
<1>11. VisitLambda(g, tree, s, c) = AddPatternBindings(h, tree, NoNode, n)
  BY <1>4, <1>5, <1>6, <1>8, <1>9 DEF VisitLambda, h, n
<1> QED BY <1>10, <1>11 DEF h, g2, n

LEMMA VisitFunLambda ==
  ASSUME NEW tree, IsProgram(tree), NEW s \in 2 .. Len(tree), NEW e \in s .. Len(tree),
         IsFunLambda(tree, s, e), NEW g, IsGraph(g), NEW c
  PROVE  VisitLambda(g, tree, s, c)
           = WithBinding(WithScope(g, tree, s, "lambda", c), tree, s + 2, "variable", Len(g.scopes))
<1> DEFINE g2 == WithScope(g, tree, s, "lambda", c)
           n == Len(g.scopes)
<1>0. Len(tree) \in Nat
  BY DEF IsProgram, IsTree
<1>1. s \in Nat /\ s + 1 \in Nat \ {0} /\ s + 2 \in Nat \ {0} /\ s + 3 \in Nat
  BY <1>0
<1>2. /\ tree[s].type = "fun_lambda"
      /\ tree[s + 1].type = "pattern" /\ tree[s + 1].field = ""
      /\ tree[s + 3].type = "body" /\ tree[s + 3].field = ""
  BY DEF IsFunLambda, IsBody, Is
<1>3. /\ NamedChildren(tree, s) = {s + 1, s + 3}
      /\ {m \in Subtree(tree, s + 1) : tree[m].type = "identifier"} = {s + 2}
  BY FunLambdaParts
<1>4. ChildByFieldName(tree, s, "pattern") = NoNode
  BY <1>2, <1>3, NoField
<1>5. ChildByFieldName(tree, s, "parameters") = NoNode /\ FirstNamedChildType(tree, s, "parameters") = NoNode
  BY <1>2, <1>3, NoField, NoTypeChild
<1>6. FirstNamedChildType(tree, s, "pattern") = s + 1
  <2>1. /\ s + 1 \in NamedChildren(tree, s) /\ tree[s + 1].type = "pattern"
        /\ \A m \in NamedChildren(tree, s) : m = s + 1 \/ tree[m].type # "pattern"
    BY <1>2, <1>3, Zenon
  <2>2. s + 1 \in Nat
    BY <1>1
  <2> QED BY ONLY <2>1, <2>2, TypeChildIs
<1>8. AddScope(g, tree, s, "lambda", c) = g2 /\ IsGraph(g2)
  BY WithScopeIsGraph
<1> HIDE DEF g2, n
<1>9. AddParameterBindings(g2, tree, NoNode, n) = g2
  BY DEF AddParameterBindings
<1>10. AddPatternBindings(g2, tree, s + 1, n) = WithBinding(g2, tree, s + 2, "variable", n)
  BY <1>1, <1>3, <1>8, OnePattern
<1>11. VisitLambda(g, tree, s, c) = AddPatternBindings(g2, tree, s + 1, n)
  BY <1>4, <1>5, <1>6, <1>8, <1>9 DEF VisitLambda, n
<1> QED BY <1>10, <1>11 DEF g2, n

LEMMA VisitCase ==
  ASSUME NEW tree, IsProgram(tree), NEW s \in 2 .. Len(tree), NEW e \in s .. Len(tree),
         IsCase(tree, s, e), NEW g, IsGraph(g), NEW c
  PROVE  VisitArm(g, tree, s, c)
           = WithBinding(WithScope(g, tree, s, "match-arm", c), tree, s + 2, "variable", Len(g.scopes))
<1> DEFINE g2 == WithScope(g, tree, s, "match-arm", c)
           n == Len(g.scopes)
<1>0. Len(tree) \in Nat
  BY DEF IsProgram, IsTree
<1>1. s \in Nat /\ s + 1 \in Nat \ {0} /\ s + 2 \in Nat \ {0} /\ s + 3 \in Nat
  BY <1>0
<1>2. /\ tree[s].type = "match_case" /\ ArmScopeKind[tree[s].type] = "match-arm"
      /\ tree[s + 1].type = "match_pattern" /\ tree[s + 3].type = "body"
  <2>1. /\ tree[s].type = "match_case"
        /\ tree[s + 1].type = "match_pattern" /\ tree[s + 3].type = "body"
    BY DEF IsCase, IsBody, Is
  <2> QED BY <2>1 DEF ArmScopeKind
<1>3. /\ NamedChildren(tree, s) = {s + 1, s + 3}
      /\ {m \in Subtree(tree, s + 1) : tree[m].type = "identifier"} = {s + 2}
  BY CaseParts
<1>4. {m \in NamedChildren(tree, s) : tree[m].type = "match_pattern"} = {s + 1}
  BY <1>2, <1>3
<1>8. AddScope(g, tree, s, "match-arm", c) = g2 /\ IsGraph(g2)
  BY WithScopeIsGraph
<1> HIDE DEF g2, n
<1>9. AddAllPatterns(g2, tree, {s + 1}, n) = AddPatternBindings(g2, tree, s + 1, n)
  BY <1>1, OneOfPatterns
<1>10. AddPatternBindings(g2, tree, s + 1, n) = WithBinding(g2, tree, s + 2, "variable", n)
  <2>1. s + 1 \in Nat \ {0} /\ s + 2 \in Nat
    BY <1>1
  <2> QED BY ONLY <1>3, <1>8, <2>1, OnePattern
<1>11. VisitArm(g, tree, s, c) = AddAllPatterns(g2, tree, {s + 1}, n)
  BY <1>2, <1>4, <1>8 DEF VisitArm, n
<1> QED BY <1>9, <1>10, <1>11 DEF g2, n

LEMMA VisitBend ==
  ASSUME NEW tree, IsProgram(tree), NEW s \in 2 .. Len(tree), NEW e \in s .. Len(tree),
         IsBend(tree, s, e), NEW g, IsGraph(g), NEW c
  PROVE  VisitArm(g, tree, s, c) = WithScope(g, tree, s, "bend", c)
<1>1. tree[s].type = "bend_statement" /\ ArmScopeKind[tree[s].type] = "bend"
  BY DEF IsBend, ArmScopeKind
<1>2. VisitArm(g, tree, s, c) = AddAllPatterns(AddScope(g, tree, s, "bend", c), tree, {}, Len(g.scopes))
  BY <1>1 DEF VisitArm
<1> QED BY <1>2, NoPatterns, WithScopeIsGraph

LEMMA VisitAssignment ==
  ASSUME NEW tree, IsProgram(tree), NEW s \in 2 .. Len(tree), NEW e \in s .. Len(tree),
         IsAssignment(tree, s, e), NEW g, IsGraph(g), NEW c
  PROVE  VisitOther(g, tree, s, c) = WithBinding(g, tree, s + 1, "variable", c)
<1>0. Len(tree) \in Nat
  BY DEF IsProgram, IsTree
<1>1. s \in Nat /\ s + 1 \in Nat \ {0}
  BY <1>0
<1>2. /\ tree[s].type = "assignment_statement"
      /\ tree[s + 1].field = "pat"
      /\ tree[s + 2].field = ""
  BY DEF IsAssignment, IsBody, Is
<1>3. /\ NamedChildren(tree, s) = {s + 1, s + 2}
      /\ {m \in Subtree(tree, s + 1) : tree[m].type = "identifier"} = {s + 1}
  BY AssignmentParts
<1>4. ChildByFieldName(tree, s, "pat") = s + 1
  <2>1. /\ s + 1 \in NamedChildren(tree, s) /\ tree[s + 1].field = "pat"
        /\ \A m \in NamedChildren(tree, s) : m = s + 1 \/ tree[m].field # "pat"
    BY <1>2, <1>3, Zenon
  <2>2. s + 1 \in Nat
    BY <1>1
  <2> QED BY ONLY <2>1, <2>2, FieldIs
<1>5. VisitOther(g, tree, s, c) = AddPatternBindings(g, tree, s + 1, c)
  BY <1>2, <1>4 DEF VisitOther
<1> QED BY <1>1, <1>3, <1>5, OnePattern

LEMMA VisitPairAssignment ==
  ASSUME NEW tree, IsProgram(tree), NEW s \in 2 .. Len(tree), NEW e \in s .. Len(tree),
         IsPairAssignment(tree, s, e), NEW g, IsGraph(g), NEW c
  PROVE  VisitOther(g, tree, s, c) = WithBinding(g, tree, s + 1, "variable", c)
<1>0. Len(tree) \in Nat
  BY DEF IsProgram, IsTree
<1>1. s \in Nat /\ s + 1 \in Nat \ {0}
  BY <1>0
<1>2. /\ tree[s].type = "assignment_statement"
      /\ tree[s + 1].field = "pat"
      /\ tree[s + 2].field = "pat"
      /\ tree[s + 3].field = ""
  BY DEF IsPairAssignment, IsBody, Is
<1>3. /\ NamedChildren(tree, s) = {s + 1, s + 2, s + 3}
      /\ {m \in Subtree(tree, s + 1) : tree[m].type = "identifier"} = {s + 1}
  BY PairAssignmentParts
<1>4. ChildByFieldName(tree, s, "pat") = s + 1
  <2>1. {m \in NamedChildren(tree, s) : tree[m].field = "pat"} = {s + 1, s + 2}
    BY <1>2, <1>3
  <2>2. Min({s + 1, s + 2}) = s + 1
    BY <1>1 DEF Min
  <2> QED BY <2>1, <2>2 DEF ChildByFieldName, First
<1>5. VisitOther(g, tree, s, c) = AddPatternBindings(g, tree, s + 1, c)
  BY <1>2, <1>4 DEF VisitOther
<1> QED BY <1>1, <1>3, <1>5, OnePattern

-----------------------------------------------------------------------------
(***************************************************************************)
(* The identifiers that bind their name, each in a scope of its phrase or  *)
(* in the one around it.                                                   *)
(***************************************************************************)
NamingTypes == FunctionTypes \cup {"assignment_statement"}
HoldingTypes == {"parameter", "expression_identifier", "pattern", "match_pattern"}

\* The name of a function or the pattern of an assignment is bound around its phrase.
IsOuter(tree, n) ==
  tree[n].type = "identifier" /\ tree[n].parent = n - 1 /\ tree[n - 1].type \in NamingTypes
IsInner(tree, n) ==
  tree[n].type = "identifier" /\ tree[tree[n].parent].type \in HoldingTypes
Binds(tree, n) == IsOuter(tree, n) \/ IsInner(tree, n)

BoundOf(tree, n) == IF IsOuter(tree, n) THEN Encl(tree, n - 1) ELSE Encl(tree, n)
BindingKind(tree, n) ==
  IF IsOuter(tree, n) THEN IF tree[n - 1].type \in FunctionTypes THEN "function" ELSE "variable"
  ELSE IF tree[tree[n].parent].type \in {"parameter", "expression_identifier"} THEN "parameter"
  ELSE "variable"

LEMMA OuterIs ==
  ASSUME NEW tree, NEW s \in Nat, NEW field, Is(tree, s + 1, "identifier", field, s),
         tree[s].type \in NamingTypes
  PROVE  /\ IsOuter(tree, s + 1) /\ Binds(tree, s + 1) /\ BoundOf(tree, s + 1) = Encl(tree, s)
         /\ BindingKind(tree, s + 1) = IF tree[s].type \in FunctionTypes THEN "function" ELSE "variable"
<1>1. (s + 1) - 1 = s
  OBVIOUS
<1> DEFINE n == s + 1
<1>2. n - 1 = s /\ Is(tree, n, "identifier", field, s)
  BY <1>1
<1> HIDE DEF n
<1>3. IsOuter(tree, n)
  BY <1>2 DEF IsOuter, Is
<1>4. Binds(tree, n) /\ BoundOf(tree, n) = Encl(tree, s)
      /\ BindingKind(tree, n) = IF tree[s].type \in FunctionTypes THEN "function" ELSE "variable"
  BY <1>2, <1>3 DEF Binds, BoundOf, BindingKind
<1> QED BY <1>3, <1>4 DEF n

LEMMA InnerIs ==
  ASSUME NEW tree, NEW n \in Nat, NEW p \in Nat, NEW field, Is(tree, n, "identifier", field, p),
         tree[p].type \in HoldingTypes
  PROVE  /\ ~IsOuter(tree, n) /\ Binds(tree, n) /\ BoundOf(tree, n) = Encl(tree, n)
         /\ BindingKind(tree, n) = IF tree[p].type \in {"parameter", "expression_identifier"}
                                   THEN "parameter" ELSE "variable"
<1>1. NamingTypes \cap HoldingTypes = {}
  BY DEF NamingTypes, FunctionTypes, HoldingTypes
<1>2. tree[n].type = "identifier" /\ tree[n].parent = p
  BY DEF Is
<1>3. ~IsOuter(tree, n) /\ IsInner(tree, n)
  BY <1>1, <1>2 DEF IsOuter, IsInner
<1> QED BY <1>2, <1>3 DEF Binds, BoundOf, BindingKind

LEMMA NoBinder ==
  ASSUME NEW tree, NEW n \in Nat, NEW type, NEW p \in Nat, NEW field, Is(tree, n, type, field, p),
         type # "identifier" \/ (tree[p].type \notin HoldingTypes
                                 /\ (tree[p].type \notin NamingTypes \/ p # n - 1))
  PROVE  ~Binds(tree, n)
  BY DEF Is, Binds, IsOuter, IsInner

LEMMA DefinitionBinds ==
  ASSUME NEW tree, NEW s \in Nat, NEW e, IsDefinition(tree, s, e)
  PROVE  /\ {m \in s + 1 .. e : Binds(tree, m)} = {s + 1, s + 4}
         /\ BoundOf(tree, s + 1) = Encl(tree, s)
         /\ BindingKind(tree, s + 1) = "function"
         /\ BoundOf(tree, s + 4) = Encl(tree, s + 4)
         /\ BindingKind(tree, s + 4) = "parameter"
<1>1. e = s + 6 /\ s + 1 .. s + 6 = {s + 1, s + 2, s + 3, s + 4, s + 5, s + 6}
  <2>1. s + 1 .. s + 6 = {s + 1, s + 2, s + 3, s + 4, s + 5, s + 6}
    OBVIOUS
  <2> QED BY <2>1 DEF IsDefinition
<1>2. /\ tree[s].type = "imp_function_definition"
      /\ Is(tree, s + 1, "identifier", "name", s)
      /\ Is(tree, s + 2, "parameters", "parameters", s)
      /\ Is(tree, s + 3, "parameter", "", s + 2)
      /\ Is(tree, s + 4, "identifier", "name", s + 3)
      /\ Is(tree, s + 5, "body", "", s)
      /\ Is(tree, s + 6, "identifier", "", s + 5)
  BY DEF IsDefinition, IsBody
<1>3. /\ s \in Nat
      /\ s + 1 \in Nat
      /\ s + 2 \in Nat
      /\ s + 3 \in Nat
      /\ s + 4 \in Nat
      /\ s + 5 \in Nat
      /\ s + 6 \in Nat
  OBVIOUS
<1>4. /\ tree[s].type \notin HoldingTypes
      /\ tree[s + 3].type = "parameter"
      /\ tree[s + 5].type = "body"
  BY <1>2 DEF Is, HoldingTypes
<1>5. Binds(tree, s + 1) /\ BoundOf(tree, s + 1) = Encl(tree, s) /\ BindingKind(tree, s + 1) = "function"
  <2>1. tree[s].type \in NamingTypes /\ tree[s].type \in FunctionTypes
    BY <1>2 DEF NamingTypes, FunctionTypes
  <2> QED BY <1>2, <1>3, <2>1, OuterIs
<1>6. ~Binds(tree, s + 2)
  BY <1>2, <1>3, NoBinder
<1>7. ~Binds(tree, s + 3)
  BY <1>2, <1>3, NoBinder
<1>8. Binds(tree, s + 4) /\ BoundOf(tree, s + 4) = Encl(tree, s + 4) /\ BindingKind(tree, s + 4) = "parameter"
  <2>1. tree[s + 3].type \in HoldingTypes
    BY <1>4 DEF HoldingTypes
  <2>2. Is(tree, s + 4, "identifier", "name", s + 3) /\ s + 4 \in Nat /\ s + 3 \in Nat
    BY <1>2, <1>3
  <2>3. BindingKind(tree, s + 4) = IF tree[s + 3].type \in {"parameter", "expression_identifier"}
                               THEN "parameter" ELSE "variable"
    BY ONLY <2>1, <2>2, InnerIs
  <2>4. Binds(tree, s + 4) /\ BoundOf(tree, s + 4) = Encl(tree, s + 4)
    BY ONLY <2>1, <2>2, InnerIs
  <2> QED BY <1>4, <2>3, <2>4
<1>9. ~Binds(tree, s + 5)
  BY <1>2, <1>3, NoBinder
<1>10. ~Binds(tree, s + 6)
  <2>1. tree[s + 5].type \notin HoldingTypes /\ tree[s + 5].type \notin NamingTypes
    BY <1>3, <1>4 DEF HoldingTypes, NamingTypes, FunctionTypes
  <2>2. Is(tree, s + 6, "identifier", "", s + 5) /\ s + 6 \in Nat /\ s + 5 \in Nat
    BY <1>2, <1>3
  <2> QED BY ONLY <2>1, <2>2, NoBinder
<1>11. {m \in s + 1 .. e : Binds(tree, m)} = {s + 1, s + 4}
  BY <1>1, <1>5, <1>6, <1>7, <1>8, <1>9, <1>10, Zenon
<1> QED BY <1>11, <1>5, <1>6, <1>7, <1>8, <1>9, <1>10

LEMMA RuleBinds ==
  ASSUME NEW tree, NEW s \in Nat, NEW e, IsRule(tree, s, e)
  PROVE  /\ {m \in s + 1 .. e : Binds(tree, m)} = {s + 1, s + 3}
         /\ BoundOf(tree, s + 1) = Encl(tree, s)
         /\ BindingKind(tree, s + 1) = "function"
         /\ BoundOf(tree, s + 3) = Encl(tree, s + 3)
         /\ BindingKind(tree, s + 3) = "variable"
<1>1. e = s + 5 /\ s + 1 .. s + 5 = {s + 1, s + 2, s + 3, s + 4, s + 5}
  <2>1. s + 1 .. s + 5 = {s + 1, s + 2, s + 3, s + 4, s + 5}
    OBVIOUS
  <2> QED BY <2>1 DEF IsRule
<1>2. /\ tree[s].type = "fun_function_definition"
      /\ Is(tree, s + 1, "identifier", "name", s)
      /\ Is(tree, s + 2, "pattern", "", s)
      /\ Is(tree, s + 3, "identifier", "", s + 2)
      /\ Is(tree, s + 4, "body", "", s)
      /\ Is(tree, s + 5, "identifier", "", s + 4)
  BY DEF IsRule, IsBody
<1>3. /\ s \in Nat
      /\ s + 1 \in Nat
      /\ s + 2 \in Nat
      /\ s + 3 \in Nat
      /\ s + 4 \in Nat
      /\ s + 5 \in Nat
  OBVIOUS
<1>4. /\ tree[s].type \notin HoldingTypes
      /\ tree[s + 2].type = "pattern"
      /\ tree[s + 4].type = "body"
  BY <1>2 DEF Is, HoldingTypes
<1>5. Binds(tree, s + 1) /\ BoundOf(tree, s + 1) = Encl(tree, s) /\ BindingKind(tree, s + 1) = "function"
  <2>1. tree[s].type \in NamingTypes /\ tree[s].type \in FunctionTypes
    BY <1>2 DEF NamingTypes, FunctionTypes
  <2> QED BY <1>2, <1>3, <2>1, OuterIs
<1>6. ~Binds(tree, s + 2)
  BY <1>2, <1>3, NoBinder
<1>7. Binds(tree, s + 3) /\ BoundOf(tree, s + 3) = Encl(tree, s + 3) /\ BindingKind(tree, s + 3) = "variable"
  <2>1. tree[s + 2].type \in HoldingTypes
    BY <1>4 DEF HoldingTypes
  <2>2. Is(tree, s + 3, "identifier", "", s + 2) /\ s + 3 \in Nat /\ s + 2 \in Nat
    BY <1>2, <1>3
  <2>3. BindingKind(tree, s + 3) = IF tree[s + 2].type \in {"parameter", "expression_identifier"}
                               THEN "parameter" ELSE "variable"
    BY ONLY <2>1, <2>2, InnerIs
  <2>4. Binds(tree, s + 3) /\ BoundOf(tree, s + 3) = Encl(tree, s + 3)
    BY ONLY <2>1, <2>2, InnerIs
  <2> QED BY <1>4, <2>3, <2>4
<1>8. ~Binds(tree, s + 4)
  BY <1>2, <1>3, NoBinder
<1>9. ~Binds(tree, s + 5)
  <2>1. tree[s + 4].type \notin HoldingTypes /\ tree[s + 4].type \notin NamingTypes
    BY <1>3, <1>4 DEF HoldingTypes, NamingTypes, FunctionTypes
  <2>2. Is(tree, s + 5, "identifier", "", s + 4) /\ s + 5 \in Nat /\ s + 4 \in Nat
    BY <1>2, <1>3
  <2> QED BY ONLY <2>1, <2>2, NoBinder
<1>10. {m \in s + 1 .. e : Binds(tree, m)} = {s + 1, s + 3}
  BY <1>1, <1>5, <1>6, <1>7, <1>8, <1>9, Zenon
<1> QED BY <1>10, <1>5, <1>6, <1>7, <1>8, <1>9

LEMMA LambdaBinds ==
  ASSUME NEW tree, NEW s \in Nat, NEW e, IsLambda(tree, s, e)
  PROVE  /\ {m \in s + 1 .. e : Binds(tree, m)} = {s + 3}
         /\ BoundOf(tree, s + 3) = Encl(tree, s + 3)
         /\ BindingKind(tree, s + 3) = "parameter"
<1>1. e = s + 5 /\ s + 1 .. s + 5 = {s + 1, s + 2, s + 3, s + 4, s + 5}
  <2>1. s + 1 .. s + 5 = {s + 1, s + 2, s + 3, s + 4, s + 5}
    OBVIOUS
  <2> QED BY <2>1 DEF IsLambda
<1>2. /\ tree[s].type = "imp_lambda"
      /\ Is(tree, s + 1, "parameters", "", s)
      /\ Is(tree, s + 2, "expression_identifier", "", s + 1)
      /\ Is(tree, s + 3, "identifier", "", s + 2)
      /\ Is(tree, s + 4, "body", "", s)
      /\ Is(tree, s + 5, "identifier", "", s + 4)
  BY DEF IsLambda, IsBody
<1>3. /\ s \in Nat
      /\ s + 1 \in Nat
      /\ s + 2 \in Nat
      /\ s + 3 \in Nat
      /\ s + 4 \in Nat
      /\ s + 5 \in Nat
  OBVIOUS
<1>4. /\ tree[s].type \notin HoldingTypes
      /\ tree[s + 2].type = "expression_identifier"
      /\ tree[s + 4].type = "body"
  BY <1>2 DEF Is, HoldingTypes
<1>5. ~Binds(tree, s + 1)
  BY <1>2, <1>3, NoBinder
<1>6. ~Binds(tree, s + 2)
  BY <1>2, <1>3, NoBinder
<1>7. Binds(tree, s + 3) /\ BoundOf(tree, s + 3) = Encl(tree, s + 3) /\ BindingKind(tree, s + 3) = "parameter"
  <2>1. tree[s + 2].type \in HoldingTypes
    BY <1>4 DEF HoldingTypes
  <2>2. Is(tree, s + 3, "identifier", "", s + 2) /\ s + 3 \in Nat /\ s + 2 \in Nat
    BY <1>2, <1>3
  <2>3. BindingKind(tree, s + 3) = IF tree[s + 2].type \in {"parameter", "expression_identifier"}
                               THEN "parameter" ELSE "variable"
    BY ONLY <2>1, <2>2, InnerIs
  <2>4. Binds(tree, s + 3) /\ BoundOf(tree, s + 3) = Encl(tree, s + 3)
    BY ONLY <2>1, <2>2, InnerIs
  <2> QED BY <1>4, <2>3, <2>4
<1>8. ~Binds(tree, s + 4)
  BY <1>2, <1>3, NoBinder
<1>9. ~Binds(tree, s + 5)
  <2>1. tree[s + 4].type \notin HoldingTypes /\ tree[s + 4].type \notin NamingTypes
    BY <1>3, <1>4 DEF HoldingTypes, NamingTypes, FunctionTypes
  <2>2. Is(tree, s + 5, "identifier", "", s + 4) /\ s + 5 \in Nat /\ s + 4 \in Nat
    BY <1>2, <1>3
  <2> QED BY ONLY <2>1, <2>2, NoBinder
<1>10. {m \in s + 1 .. e : Binds(tree, m)} = {s + 3}
  BY <1>1, <1>5, <1>6, <1>7, <1>8, <1>9, Zenon
<1> QED BY <1>10, <1>5, <1>6, <1>7, <1>8, <1>9

LEMMA FunLambdaBinds ==
  ASSUME NEW tree, NEW s \in Nat, NEW e, IsFunLambda(tree, s, e)
  PROVE  /\ {m \in s + 1 .. e : Binds(tree, m)} = {s + 2}
         /\ BoundOf(tree, s + 2) = Encl(tree, s + 2)
         /\ BindingKind(tree, s + 2) = "variable"
<1>1. e = s + 4 /\ s + 1 .. s + 4 = {s + 1, s + 2, s + 3, s + 4}
  <2>1. s + 1 .. s + 4 = {s + 1, s + 2, s + 3, s + 4}
    OBVIOUS
  <2> QED BY <2>1 DEF IsFunLambda
<1>2. /\ tree[s].type = "fun_lambda"
      /\ Is(tree, s + 1, "pattern", "", s)
      /\ Is(tree, s + 2, "identifier", "", s + 1)
      /\ Is(tree, s + 3, "body", "", s)
      /\ Is(tree, s + 4, "identifier", "", s + 3)
  BY DEF IsFunLambda, IsBody
<1>3. /\ s \in Nat
      /\ s + 1 \in Nat
      /\ s + 2 \in Nat
      /\ s + 3 \in Nat
      /\ s + 4 \in Nat
  OBVIOUS
<1>4. /\ tree[s].type \notin HoldingTypes
      /\ tree[s + 1].type = "pattern"
      /\ tree[s + 3].type = "body"
  BY <1>2 DEF Is, HoldingTypes
<1>5. ~Binds(tree, s + 1)
  BY <1>2, <1>3, NoBinder
<1>6. Binds(tree, s + 2) /\ BoundOf(tree, s + 2) = Encl(tree, s + 2) /\ BindingKind(tree, s + 2) = "variable"
  <2>1. tree[s + 1].type \in HoldingTypes
    BY <1>4 DEF HoldingTypes
  <2>2. Is(tree, s + 2, "identifier", "", s + 1) /\ s + 2 \in Nat /\ s + 1 \in Nat
    BY <1>2, <1>3
  <2>3. BindingKind(tree, s + 2) = IF tree[s + 1].type \in {"parameter", "expression_identifier"}
                               THEN "parameter" ELSE "variable"
    BY ONLY <2>1, <2>2, InnerIs
  <2>4. Binds(tree, s + 2) /\ BoundOf(tree, s + 2) = Encl(tree, s + 2)
    BY ONLY <2>1, <2>2, InnerIs
  <2> QED BY <1>4, <2>3, <2>4
<1>7. ~Binds(tree, s + 3)
  BY <1>2, <1>3, NoBinder
<1>8. ~Binds(tree, s + 4)
  <2>1. tree[s + 3].type \notin HoldingTypes /\ tree[s + 3].type \notin NamingTypes
    BY <1>3, <1>4 DEF HoldingTypes, NamingTypes, FunctionTypes
  <2>2. Is(tree, s + 4, "identifier", "", s + 3) /\ s + 4 \in Nat /\ s + 3 \in Nat
    BY <1>2, <1>3
  <2> QED BY ONLY <2>1, <2>2, NoBinder
<1>9. {m \in s + 1 .. e : Binds(tree, m)} = {s + 2}
  BY <1>1, <1>5, <1>6, <1>7, <1>8, Zenon
<1> QED BY <1>9, <1>5, <1>6, <1>7, <1>8

LEMMA CaseBinds ==
  ASSUME NEW tree, NEW s \in Nat, NEW e, IsCase(tree, s, e)
  PROVE  /\ {m \in s + 1 .. e : Binds(tree, m)} = {s + 2}
         /\ BoundOf(tree, s + 2) = Encl(tree, s + 2)
         /\ BindingKind(tree, s + 2) = "variable"
<1>1. e = s + 4 /\ s + 1 .. s + 4 = {s + 1, s + 2, s + 3, s + 4}
  <2>1. s + 1 .. s + 4 = {s + 1, s + 2, s + 3, s + 4}
    OBVIOUS
  <2> QED BY <2>1 DEF IsCase
<1>2. /\ tree[s].type = "match_case"
      /\ Is(tree, s + 1, "match_pattern", "", s)
      /\ Is(tree, s + 2, "identifier", "", s + 1)
      /\ Is(tree, s + 3, "body", "", s)
      /\ Is(tree, s + 4, "identifier", "", s + 3)
  BY DEF IsCase, IsBody
<1>3. /\ s \in Nat
      /\ s + 1 \in Nat
      /\ s + 2 \in Nat
      /\ s + 3 \in Nat
      /\ s + 4 \in Nat
  OBVIOUS
<1>4. /\ tree[s].type \notin HoldingTypes
      /\ tree[s + 1].type = "match_pattern"
      /\ tree[s + 3].type = "body"
  BY <1>2 DEF Is, HoldingTypes
<1>5. ~Binds(tree, s + 1)
  BY <1>2, <1>3, NoBinder
<1>6. Binds(tree, s + 2) /\ BoundOf(tree, s + 2) = Encl(tree, s + 2) /\ BindingKind(tree, s + 2) = "variable"
  <2>1. tree[s + 1].type \in HoldingTypes
    BY <1>4 DEF HoldingTypes
  <2>2. Is(tree, s + 2, "identifier", "", s + 1) /\ s + 2 \in Nat /\ s + 1 \in Nat
    BY <1>2, <1>3
  <2>3. BindingKind(tree, s + 2) = IF tree[s + 1].type \in {"parameter", "expression_identifier"}
                               THEN "parameter" ELSE "variable"
    BY ONLY <2>1, <2>2, InnerIs
  <2>4. Binds(tree, s + 2) /\ BoundOf(tree, s + 2) = Encl(tree, s + 2)
    BY ONLY <2>1, <2>2, InnerIs
  <2> QED BY <1>4, <2>3, <2>4
<1>7. ~Binds(tree, s + 3)
  BY <1>2, <1>3, NoBinder
<1>8. ~Binds(tree, s + 4)
  <2>1. tree[s + 3].type \notin HoldingTypes /\ tree[s + 3].type \notin NamingTypes
    BY <1>3, <1>4 DEF HoldingTypes, NamingTypes, FunctionTypes
  <2>2. Is(tree, s + 4, "identifier", "", s + 3) /\ s + 4 \in Nat /\ s + 3 \in Nat
    BY <1>2, <1>3
  <2> QED BY ONLY <2>1, <2>2, NoBinder
<1>9. {m \in s + 1 .. e : Binds(tree, m)} = {s + 2}
  BY <1>1, <1>5, <1>6, <1>7, <1>8, Zenon
<1> QED BY <1>9, <1>5, <1>6, <1>7, <1>8

LEMMA BendBinds ==
  ASSUME NEW tree, NEW s \in Nat, NEW e, IsBend(tree, s, e)
  PROVE  /\ {m \in s + 1 .. e : Binds(tree, m)} = {}
<1>1. e = s + 2 /\ s + 1 .. s + 2 = {s + 1, s + 2}
  <2>1. s + 1 .. s + 2 = {s + 1, s + 2}
    OBVIOUS
  <2> QED BY <2>1 DEF IsBend
<1>2. /\ tree[s].type = "bend_statement"
      /\ Is(tree, s + 1, "body", "", s)
      /\ Is(tree, s + 2, "identifier", "", s + 1)
  BY DEF IsBend, IsBody
<1>3. /\ s \in Nat
      /\ s + 1 \in Nat
      /\ s + 2 \in Nat
  OBVIOUS
<1>4. /\ tree[s].type \notin HoldingTypes
      /\ tree[s + 1].type = "body"
  BY <1>2 DEF Is, HoldingTypes
<1>5. ~Binds(tree, s + 1)
  BY <1>2, <1>3, NoBinder
<1>6. ~Binds(tree, s + 2)
  <2>1. tree[s + 1].type \notin HoldingTypes /\ tree[s + 1].type \notin NamingTypes
    BY <1>3, <1>4 DEF HoldingTypes, NamingTypes, FunctionTypes
  <2>2. Is(tree, s + 2, "identifier", "", s + 1) /\ s + 2 \in Nat /\ s + 1 \in Nat
    BY <1>2, <1>3
  <2> QED BY ONLY <2>1, <2>2, NoBinder
<1>7. {m \in s + 1 .. e : Binds(tree, m)} = {}
  BY <1>1, <1>5, <1>6, Zenon
<1> QED BY <1>7, <1>5, <1>6

LEMMA AssignmentBinds ==
  ASSUME NEW tree, NEW s \in Nat, NEW e, IsAssignment(tree, s, e)
  PROVE  /\ {m \in s + 1 .. e : Binds(tree, m)} = {s + 1}
         /\ BoundOf(tree, s + 1) = Encl(tree, s)
         /\ BindingKind(tree, s + 1) = "variable"
<1>1. e = s + 3 /\ s + 1 .. s + 3 = {s + 1, s + 2, s + 3}
  <2>1. s + 1 .. s + 3 = {s + 1, s + 2, s + 3}
    OBVIOUS
  <2> QED BY <2>1 DEF IsAssignment
<1>2. /\ tree[s].type = "assignment_statement"
      /\ Is(tree, s + 1, "identifier", "pat", s)
      /\ Is(tree, s + 2, "body", "", s)
      /\ Is(tree, s + 3, "identifier", "", s + 2)
  BY DEF IsAssignment, IsBody
<1>3. /\ s \in Nat
      /\ s + 1 \in Nat
      /\ s + 2 \in Nat
      /\ s + 3 \in Nat
  OBVIOUS
<1>4. /\ tree[s].type \notin HoldingTypes
      /\ tree[s + 2].type = "body"
  BY <1>2 DEF Is, HoldingTypes
<1>5. Binds(tree, s + 1) /\ BoundOf(tree, s + 1) = Encl(tree, s) /\ BindingKind(tree, s + 1) = "variable"
  <2>1. tree[s].type \in NamingTypes /\ tree[s].type \notin FunctionTypes
    BY <1>2 DEF NamingTypes, FunctionTypes
  <2> QED BY <1>2, <1>3, <2>1, OuterIs
<1>6. ~Binds(tree, s + 2)
  BY <1>2, <1>3, NoBinder
<1>7. ~Binds(tree, s + 3)
  <2>1. tree[s + 2].type \notin HoldingTypes /\ tree[s + 2].type \notin NamingTypes
    BY <1>3, <1>4 DEF HoldingTypes, NamingTypes, FunctionTypes
  <2>2. Is(tree, s + 3, "identifier", "", s + 2) /\ s + 3 \in Nat /\ s + 2 \in Nat
    BY <1>2, <1>3
  <2> QED BY ONLY <2>1, <2>2, NoBinder
<1>8. {m \in s + 1 .. e : Binds(tree, m)} = {s + 1}
  BY <1>1, <1>5, <1>6, <1>7, Zenon
<1> QED BY <1>8, <1>5, <1>6, <1>7

LEMMA PairAssignmentBinds ==
  ASSUME NEW tree, NEW s \in Nat, NEW e, IsPairAssignment(tree, s, e)
  PROVE  /\ {m \in s + 1 .. e : Binds(tree, m)} = {s + 1}
         /\ BoundOf(tree, s + 1) = Encl(tree, s)
         /\ BindingKind(tree, s + 1) = "variable"
<1>1. e = s + 4 /\ s + 1 .. s + 4 = {s + 1, s + 2, s + 3, s + 4}
  <2>1. s + 1 .. s + 4 = {s + 1, s + 2, s + 3, s + 4}
    OBVIOUS
  <2> QED BY <2>1 DEF IsPairAssignment
<1>2. /\ tree[s].type = "assignment_statement"
      /\ Is(tree, s + 1, "identifier", "pat", s)
      /\ Is(tree, s + 2, "identifier", "pat", s)
      /\ Is(tree, s + 3, "body", "", s)
      /\ Is(tree, s + 4, "identifier", "", s + 3)
  BY DEF IsPairAssignment, IsBody
<1>3. /\ s \in Nat
      /\ s + 1 \in Nat
      /\ s + 2 \in Nat
      /\ s + 3 \in Nat
      /\ s + 4 \in Nat
      /\ s # (s + 2) - 1
  OBVIOUS
<1>4. /\ tree[s].type \notin HoldingTypes
      /\ tree[s + 3].type = "body"
  BY <1>2 DEF Is, HoldingTypes
<1>5. Binds(tree, s + 1) /\ BoundOf(tree, s + 1) = Encl(tree, s) /\ BindingKind(tree, s + 1) = "variable"
  <2>1. tree[s].type \in NamingTypes /\ tree[s].type \notin FunctionTypes
    BY <1>2 DEF NamingTypes, FunctionTypes
  <2> QED BY <1>2, <1>3, <2>1, OuterIs
<1>6. ~Binds(tree, s + 2)
  <2>1. tree[s].type \notin HoldingTypes /\ s # (s + 2) - 1
    BY <1>3, <1>4 DEF HoldingTypes, NamingTypes, FunctionTypes
  <2>2. Is(tree, s + 2, "identifier", "pat", s) /\ s + 2 \in Nat /\ s \in Nat
    BY <1>2, <1>3
  <2> QED BY ONLY <2>1, <2>2, NoBinder
<1>7. ~Binds(tree, s + 3)
  BY <1>2, <1>3, NoBinder
<1>8. ~Binds(tree, s + 4)
  <2>1. tree[s + 3].type \notin HoldingTypes /\ tree[s + 3].type \notin NamingTypes
    BY <1>3, <1>4 DEF HoldingTypes, NamingTypes, FunctionTypes
  <2>2. Is(tree, s + 4, "identifier", "", s + 3) /\ s + 4 \in Nat /\ s + 3 \in Nat
    BY <1>2, <1>3
  <2> QED BY ONLY <2>1, <2>2, NoBinder
<1>9. {m \in s + 1 .. e : Binds(tree, m)} = {s + 1}
  BY <1>1, <1>5, <1>6, <1>7, <1>8, Zenon
<1> QED BY <1>9, <1>5, <1>6, <1>7, <1>8

-----------------------------------------------------------------------------
(***************************************************************************)
(* The graph of a program: its scopes are those of the nodes that open     *)
(* one, in the order of the walk, and so are its bindings.                 *)
(***************************************************************************)
OpenerNodes(tree) == {o \in 2 .. Len(tree) : tree[o].type \in Openers}
Rank(tree, n) == CountTo(OpenerNodes(tree), n)

\* Scopes are numbered in the order of the walk.
LEMMA RankIs ==
  ASSUME NEW tree, Len(tree) \in Nat, NEW n \in 0 .. Len(tree)
  PROVE  /\ Rank(tree, n) \in Nat
         /\ n <= 1 => Rank(tree, n) = 0
         /\ n > 1 /\ Opens(tree, n) => Rank(tree, n) = Rank(tree, n - 1) + 1
         /\ n > 1 /\ ~Opens(tree, n) => Rank(tree, n) = Rank(tree, n - 1)
         /\ \A m \in 0 .. Len(tree) : n < m /\ m > 1 /\ Opens(tree, m) => Rank(tree, n) < Rank(tree, m)
<1> DEFINE E == OpenerNodes(tree)
           k == Len(tree)
<1>1. k \in Nat /\ E \subseteq 1 .. k /\ n \in 0 .. k
  BY DEF OpenerNodes
<1>2. \A m \in 0 .. k : m > 1 => (m \in E <=> Opens(tree, m))
  BY <1>1 DEF OpenerNodes, Opens
<1>3. \A m \in E : m > 1
  BY <1>1 DEF OpenerNodes
<1> HIDE DEF E, k
<1>4. ASSUME NEW p \in 0 .. k
      PROVE  /\ CountTo(E, p) \in Nat
             /\ CountTo(E, 0) = 0
             /\ p < k /\ p + 1 \in E => CountTo(E, p + 1) = CountTo(E, p) + 1
             /\ p < k /\ p + 1 \notin E => CountTo(E, p + 1) = CountTo(E, p)
             /\ \A q \in 0 .. k : p < q /\ q \in E => CountTo(E, p) < CountTo(E, q)
  BY ONLY <1>1, <1>4, CountUpTo
<1>5. n <= 1 => CountTo(E, n) = 0
  <2>1. 0 \in 0 .. k
    BY <1>1
  <2>2. CountTo(E, 0) = 0 /\ (0 < k /\ 0 + 1 \notin E => CountTo(E, 0 + 1) = CountTo(E, 0))
    BY <1>4, <2>1
  <2>3. 1 \notin E
    BY <1>3
  <2>4. n <= 1 => n = 0 \/ (n = 1 /\ 0 < k)
    BY <1>1
  <2> QED BY <2>2, <2>3, <2>4
<1>6. ASSUME n > 1
      PROVE  /\ n \in E => CountTo(E, n) = CountTo(E, n - 1) + 1
             /\ n \notin E => CountTo(E, n) = CountTo(E, n - 1)
  <2>1. n - 1 \in 0 .. k /\ n - 1 < k /\ (n - 1) + 1 = n
    BY <1>1, <1>6
  <2> DEFINE p == n - 1
  <2>2. p \in 0 .. k /\ p < k /\ p + 1 = n
    BY <2>1
  <2> HIDE DEF p
  <2>3. /\ n \in E => CountTo(E, n) = CountTo(E, p) + 1
        /\ n \notin E => CountTo(E, n) = CountTo(E, p)
    BY <1>4, <2>2
  <2> QED BY <2>3 DEF p
<1>7. \A m \in 0 .. k : n < m /\ m > 1 /\ Opens(tree, m) => CountTo(E, n) < CountTo(E, m)
  BY <1>1, <1>2, <1>4
<1>8. CountTo(E, n) \in Nat /\ (n > 1 => (n \in E <=> Opens(tree, n)))
  BY <1>1, <1>2, <1>4
<1> QED BY <1>5, <1>6, <1>7, <1>8 DEF Rank, E, k

\* Nodes that open a scope are told apart by their rank.
LEMMA RanksDiffer ==
  ASSUME NEW tree, Len(tree) \in Nat, NEW a \in 1 .. Len(tree), NEW b \in 1 .. Len(tree),
         Opens(tree, a), Opens(tree, b)
  PROVE  Rank(tree, a) = Rank(tree, b) <=> a = b
<1>1. a \in 0 .. Len(tree) /\ b \in 0 .. Len(tree)
  OBVIOUS
<1>2. a < b => Rank(tree, a) < Rank(tree, b)
  BY <1>1, RankIs
<1>3. b < a => Rank(tree, b) < Rank(tree, a)
  BY <1>1, RankIs
<1>4. Rank(tree, a) \in Nat /\ Rank(tree, b) \in Nat
  BY <1>1, RankIs
<1>5. a < b \/ b < a \/ a = b
  OBVIOUS
<1> QED BY <1>2, <1>3, <1>4, <1>5

BindRec(tree, m) ==
  [name |-> tree[m].name, kind |-> BindingKind(tree, m),
   range |-> NodeRange(tree, m), scope |-> Rank(tree, BoundOf(tree, m))]

IsListOf(q, tree, bindings, M) ==
  /\ q \in Seq(Nat) /\ Len(bindings) = Len(q)
  /\ \A i, j \in 1 .. Len(q) : i < j => q[i] < q[j]
  /\ \A m : m \in M <=> \E i \in 1 .. Len(q) : q[i] = m
  /\ \A i \in 1 .. Len(q) : bindings[i] = BindRec(tree, q[i])

\* The bindings of the nodes in M, in the order of the walk.
Lists(tree, bindings, M) == \E q : IsListOf(q, tree, bindings, M)

\* The next binder's binding is appended.
LEMMA ListsMore ==
  ASSUME NEW tree, NEW S, NEW b \in Seq(S), NEW M, Lists(tree, b, M),
         NEW m \in Nat, \A k \in M : k < m
  PROVE  Lists(tree, Append(b, BindRec(tree, m)), M \cup {m})
<1> DEFINE r == BindRec(tree, m)
           c == Append(b, r)
<1>1. PICK q : IsListOf(q, tree, b, M)
  BY DEF Lists
<1> DEFINE p == Append(q, m)
           n == Len(q)
<1>2. /\ q \in Seq(Nat) /\ n \in Nat /\ Len(b) = n
      /\ \A i, j \in 1 .. n : i < j => q[i] < q[j]
      /\ \A k : k \in M <=> \E i \in 1 .. n : q[i] = k
      /\ \A i \in 1 .. n : b[i] = BindRec(tree, q[i])
  BY <1>1 DEF IsListOf
<1>3. /\ p \in Seq(Nat) /\ Len(p) = n + 1 /\ p[n + 1] = m
      /\ \A i \in 1 .. n : p[i] = q[i]
  BY <1>2
<1> HIDE DEF r
<1>4. /\ Len(c) = n + 1 /\ c[n + 1] = r /\ \A i \in 1 .. n : c[i] = b[i]
  <2>1. b \in Seq(S \cup {r}) /\ r \in S \cup {r}
    OBVIOUS
  <2> QED BY <1>2, <2>1, AppendProperties
<1> HIDE DEF p, c, n
<1>5. \A i \in 1 .. n + 1 : i \in 1 .. n \/ i = n + 1
  BY <1>2
<1>6. n + 1 \in 1 .. n + 1 /\ \A i \in 1 .. n : i \in 1 .. n + 1 /\ i < n + 1 /\ i # n + 1
  BY <1>2
<1>7. \A i \in 1 .. n : q[i] < m
  BY <1>2
<1>8. \A i, j \in 1 .. n + 1 : i < j => p[i] < p[j]
  <2> SUFFICES ASSUME NEW i \in 1 .. n + 1, NEW j \in 1 .. n + 1, i < j PROVE p[i] < p[j]
    OBVIOUS
  <2>1. i \in 1 .. n
    BY <1>2
  <2>2. CASE j \in 1 .. n
    BY <1>2, <1>3, <2>1, <2>2
  <2>3. CASE j = n + 1
    BY <1>3, <1>7, <2>1, <2>3
  <2> QED BY <1>5, <2>2, <2>3
<1>9. \A k : k \in M \cup {m} <=> \E i \in 1 .. n + 1 : p[i] = k
  BY <1>2, <1>3, <1>5, <1>6, Zenon
<1>10. \A i \in 1 .. n + 1 : c[i] = BindRec(tree, p[i])
  BY <1>2, <1>3, <1>4, <1>5 DEF r
<1>11. IsListOf(p, tree, c, M \cup {m})
  <2>1. Len(c) = Len(p)
    BY <1>3, <1>4
  <2> QED BY <1>3, <1>8, <1>9, <1>10, <2>1 DEF IsListOf
<1> QED BY <1>11 DEF Lists, c, r

LEMMA ListsBinding ==
  ASSUME NEW tree, NEW g, IsGraph(g), NEW M, Lists(tree, g.bindings, M),
         NEW m \in Nat, \A k \in M : k < m,
         NEW kind, NEW scope, kind = BindingKind(tree, m), scope = Rank(tree, BoundOf(tree, m))
  PROVE  Lists(tree, WithBinding(g, tree, m, kind, scope).bindings, M \cup {m})
<1>1. PICK B : g.bindings \in Seq(B)
  BY DEF IsGraph
<1>2. WithBinding(g, tree, m, kind, scope).bindings = Append(g.bindings, BindRec(tree, m))
  BY DEF WithBinding, BindRec
<1> QED BY <1>1, <1>2, ListsMore

\* What the visit of the start of a phrase makes of a graph, but for inside.
Adds(tree, s, e, g, c, h) ==
  /\ IsGraph(h) /\ h.inside = g.inside
  /\ IF Opens(tree, s)
       THEN \E kind : h.scopes = Append(g.scopes, [kind |-> kind, range |-> NodeRange(tree, s), parent |-> c])
       ELSE h.scopes = g.scopes
  /\ \A M \in SUBSET (1 .. s - 1) :
       Lists(tree, g.bindings, M)
         => Lists(tree, h.bindings, M \cup {m \in s + 1 .. e : Binds(tree, m)})

LEMMA WithScopeIs ==
  ASSUME NEW g, NEW tree, NEW n, NEW kind, NEW parent
  PROVE  LET h == WithScope(g, tree, n, kind, parent)
         IN  /\ h.bindings = g.bindings /\ h.inside = g.inside
             /\ h.scopes = Append(g.scopes, [kind |-> kind, range |-> NodeRange(tree, n), parent |-> parent])
  BY DEF WithScope

LEMMA WithBindingIs ==
  ASSUME NEW g, NEW tree, NEW n, NEW kind, NEW scope
  PROVE  LET h == WithBinding(g, tree, n, kind, scope)
         IN  h.scopes = g.scopes /\ h.inside = g.inside
  BY DEF WithBinding

LEMMA AddsOuterAndInner ==
  ASSUME NEW tree, NEW s \in Nat, s >= 2, NEW e, NEW x \in Nat, x > s + 1, Opens(tree, s),
         {m \in s + 1 .. e : Binds(tree, m)} = {s + 1, x},
         BoundOf(tree, s + 1) = Encl(tree, s), Encl(tree, x) = s, BoundOf(tree, x) = Encl(tree, x),
         NEW g, IsGraph(g), NEW c, c = Rank(tree, Encl(tree, s)), Len(g.scopes) = Rank(tree, s),
         NEW kind
  PROVE  Adds(tree, s, e, g, c,
              WithBinding(WithScope(WithBinding(g, tree, s + 1, BindingKind(tree, s + 1), c),
                                    tree, s, kind, c),
                          tree, x, BindingKind(tree, x), Len(g.scopes)))
<1> DEFINE y == s + 1
           k1 == BindingKind(tree, y)
           k2 == BindingKind(tree, x)
           n == Len(g.scopes)
           g1 == WithBinding(g, tree, y, k1, c)
           g2 == WithScope(g1, tree, s, kind, c)
           h == WithBinding(g2, tree, x, k2, n)
<1>1. y \in Nat /\ x > y /\ s \in Nat /\ s < y
  OBVIOUS
<1>2. IsGraph(g1) /\ g1.scopes = g.scopes /\ g1.inside = g.inside
  BY WithBindingIs, WithBindingIsGraph
<1>3. IsGraph(g2) /\ g2.inside = g1.inside /\ g2.bindings = g1.bindings
      /\ g2.scopes = Append(g1.scopes, [kind |-> kind, range |-> NodeRange(tree, s), parent |-> c])
  <2> HIDE DEF g1
  <2> QED BY <1>2, WithScopeIs, WithScopeIsGraph
<1>4. IsGraph(h) /\ h.inside = g2.inside /\ h.scopes = g2.scopes
  <2> HIDE DEF g2
  <2> QED BY <1>3, WithBindingIs, WithBindingIsGraph
<1>5. ASSUME NEW M \in SUBSET (1 .. s - 1), Lists(tree, g.bindings, M)
      PROVE  Lists(tree, h.bindings, (M \cup {y}) \cup {x})
  <2>1. \A k \in M : k < y
    BY <1>1
  <2>2. k1 = BindingKind(tree, y) /\ c = Rank(tree, BoundOf(tree, y))
    OBVIOUS
  <2>3. Lists(tree, g1.bindings, M \cup {y})
    <3> HIDE DEF y, k1
    <3> QED BY ONLY <1>1, <1>5, <2>1, <2>2, IsGraph(g), ListsBinding DEF g1
  <2>4. \A k \in M \cup {y} : k < x
    BY <1>1
  <2>5. k2 = BindingKind(tree, x) /\ n = Rank(tree, BoundOf(tree, x))
    OBVIOUS
  <2> HIDE DEF y, k1, g1, g2, k2, n
  <2>6. Lists(tree, g2.bindings, M \cup {y})
    BY <1>3, <2>3
  <2> QED BY ONLY <1>3, <2>4, <2>5, <2>6, x \in Nat, ListsBinding DEF h
<1>6. \A M : (M \cup {y}) \cup {x} = M \cup {m \in s + 1 .. e : Binds(tree, m)}
  OBVIOUS
<1>7. /\ IsGraph(h) /\ h.inside = g.inside
      /\ h.scopes = Append(g.scopes, [kind |-> kind, range |-> NodeRange(tree, s), parent |-> c])
  <2> HIDE DEF h, g2, g1
  <2> QED BY <1>2, <1>3, <1>4
<1> HIDE DEF h
<1>8. \A M \in SUBSET (1 .. s - 1) :
        Lists(tree, g.bindings, M)
          => Lists(tree, h.bindings, M \cup {m \in s + 1 .. e : Binds(tree, m)})
  BY <1>5, <1>6
<1>9. Adds(tree, s, e, g, c, h)
  BY <1>7, <1>8 DEF Adds
<1> QED BY <1>9 DEF h, g2, g1, n, k1, k2, y

LEMMA AddsInner ==
  ASSUME NEW tree, NEW s \in Nat, s >= 2, NEW e, NEW x \in Nat, x > s, Opens(tree, s),
         {m \in s + 1 .. e : Binds(tree, m)} = {x},
         Encl(tree, x) = s, BoundOf(tree, x) = Encl(tree, x),
         NEW g, IsGraph(g), NEW c, Len(g.scopes) = Rank(tree, s), NEW kind
  PROVE  Adds(tree, s, e, g, c,
              WithBinding(WithScope(g, tree, s, kind, c), tree, x, BindingKind(tree, x), Len(g.scopes)))
<1> DEFINE k2 == BindingKind(tree, x)
           n == Len(g.scopes)
           g2 == WithScope(g, tree, s, kind, c)
           h == WithBinding(g2, tree, x, k2, n)
<1>3. IsGraph(g2) /\ g2.inside = g.inside /\ g2.bindings = g.bindings
      /\ g2.scopes = Append(g.scopes, [kind |-> kind, range |-> NodeRange(tree, s), parent |-> c])
  BY WithScopeIs, WithScopeIsGraph
<1>4. IsGraph(h) /\ h.inside = g2.inside /\ h.scopes = g2.scopes
  <2> HIDE DEF g2
  <2> QED BY <1>3, WithBindingIs, WithBindingIsGraph
<1>5. ASSUME NEW M \in SUBSET (1 .. s - 1), Lists(tree, g.bindings, M)
      PROVE  Lists(tree, h.bindings, M \cup {x})
  <2>4. \A k \in M : k < x
    OBVIOUS
  <2>5. k2 = BindingKind(tree, x) /\ n = Rank(tree, BoundOf(tree, x))
    OBVIOUS
  <2> HIDE DEF g2, k2, n
  <2>6. Lists(tree, g2.bindings, M)
    BY <1>3, <1>5
  <2> QED BY ONLY <1>3, <2>4, <2>5, <2>6, x \in Nat, ListsBinding DEF h
<1>7. /\ IsGraph(h) /\ h.inside = g.inside
      /\ h.scopes = Append(g.scopes, [kind |-> kind, range |-> NodeRange(tree, s), parent |-> c])
  <2> HIDE DEF h, g2
  <2> QED BY <1>3, <1>4
<1> HIDE DEF h
<1>8. \A M \in SUBSET (1 .. s - 1) :
        Lists(tree, g.bindings, M)
          => Lists(tree, h.bindings, M \cup {m \in s + 1 .. e : Binds(tree, m)})
  BY <1>5
<1>9. Adds(tree, s, e, g, c, h)
  BY <1>7, <1>8 DEF Adds
<1> QED BY <1>9 DEF h, g2, n, k2

LEMMA AddsOuter ==
  ASSUME NEW tree, NEW s \in Nat, s >= 2, NEW e, ~Opens(tree, s),
         {m \in s + 1 .. e : Binds(tree, m)} = {s + 1},
         BoundOf(tree, s + 1) = Encl(tree, s),
         NEW g, IsGraph(g), NEW c, c = Rank(tree, Encl(tree, s))
  PROVE  Adds(tree, s, e, g, c, WithBinding(g, tree, s + 1, BindingKind(tree, s + 1), c))
<1> DEFINE y == s + 1
           k1 == BindingKind(tree, y)
           h == WithBinding(g, tree, y, k1, c)
<1>1. y \in Nat /\ s \in Nat /\ s < y
  OBVIOUS
<1>2. IsGraph(h) /\ h.scopes = g.scopes /\ h.inside = g.inside
  BY WithBindingIs, WithBindingIsGraph
<1>5. ASSUME NEW M \in SUBSET (1 .. s - 1), Lists(tree, g.bindings, M)
      PROVE  Lists(tree, h.bindings, M \cup {y})
  <2>1. \A k \in M : k < y
    BY <1>1
  <2>2. k1 = BindingKind(tree, y) /\ c = Rank(tree, BoundOf(tree, y))
    OBVIOUS
  <2> HIDE DEF y, k1
  <2> QED BY ONLY <1>1, <1>5, <2>1, <2>2, IsGraph(g), ListsBinding DEF h
<1> HIDE DEF h
<1>8. \A M \in SUBSET (1 .. s - 1) :
        Lists(tree, g.bindings, M)
          => Lists(tree, h.bindings, M \cup {m \in s + 1 .. e : Binds(tree, m)})
  BY <1>5
<1>9. Adds(tree, s, e, g, c, h)
  BY <1>2, <1>8 DEF Adds
<1> QED BY <1>9 DEF h, k1, y

LEMMA AddsScope ==
  ASSUME NEW tree, NEW s, NEW e, Opens(tree, s), {m \in s + 1 .. e : Binds(tree, m)} = {},
         NEW g, IsGraph(g), NEW c, NEW kind
  PROVE  Adds(tree, s, e, g, c, WithScope(g, tree, s, kind, c))
<1> DEFINE h == WithScope(g, tree, s, kind, c)
<1>3. IsGraph(h) /\ h.inside = g.inside /\ h.bindings = g.bindings
      /\ h.scopes = Append(g.scopes, [kind |-> kind, range |-> NodeRange(tree, s), parent |-> c])
  BY WithScopeIs, WithScopeIsGraph
<1> HIDE DEF h
<1>8. \A M \in SUBSET (1 .. s - 1) :
        Lists(tree, g.bindings, M)
          => Lists(tree, h.bindings, M \cup {m \in s + 1 .. e : Binds(tree, m)})
  BY <1>3
<1>9. Adds(tree, s, e, g, c, h)
  BY <1>3, <1>8 DEF Adds
<1> QED BY <1>9 DEF h

Visited(tree, g, n, c) ==
  CASE tree[n].type \in FunctionTypes -> VisitFunction(g, tree, n, c)
    [] tree[n].type \in LambdaTypes -> VisitLambda(g, tree, n, c)
    [] tree[n].type \in ArmTypes -> VisitArm(g, tree, n, c)
    [] OTHER -> VisitOther(g, tree, n, c)

LEMMA VisitedBy ==
  ASSUME NEW tree, NEW n, NEW g, NEW c
  PROVE  /\ tree[n].type \in FunctionTypes => Visited(tree, g, n, c) = VisitFunction(g, tree, n, c)
         /\ tree[n].type \in LambdaTypes => Visited(tree, g, n, c) = VisitLambda(g, tree, n, c)
         /\ tree[n].type \in ArmTypes => Visited(tree, g, n, c) = VisitArm(g, tree, n, c)
         /\ tree[n].type \notin Openers => Visited(tree, g, n, c) = VisitOther(g, tree, n, c)
<1>1. /\ FunctionTypes \cap LambdaTypes = {}
      /\ FunctionTypes \cap ArmTypes = {} /\ LambdaTypes \cap ArmTypes = {}
  BY DEF FunctionTypes, LambdaTypes, ArmTypes
<1> QED BY <1>1 DEF Visited, Openers

\* The visit of a phrase adds its scope and its bindings.
LEMMA VisitStart ==
  ASSUME NEW tree, IsProgram(tree), NEW s \in 2 .. Len(tree), NEW e \in s .. Len(tree),
         IsPhrase(tree, s, e), NEW g, IsGraph(g), NEW c, c = Rank(tree, Encl(tree, s)),
         Opens(tree, s) => Len(g.scopes) = Rank(tree, s)
  PROVE  Adds(tree, s, e, g, c, Visited(tree, g, s, c))
<1>1. Len(tree) \in Nat /\ IsTree(tree)
  BY DEF IsProgram, IsTree
<1>2. s \in Nat /\ s >= 2
  BY <1>1
<1>3. \A n \in s + 1 .. e : Encl(tree, n) = Near(tree, s)
  BY <1>1, EnclInPhrase
<1>4. CASE IsDefinition(tree, s, e)
  <2>1. tree[s].type = "imp_function_definition"
    BY <1>4 DEF IsDefinition
  <2>2. tree[s].type \in FunctionTypes /\ Opens(tree, s)
    <3>1. tree[s].type \in FunctionTypes
      BY <2>1 DEF FunctionTypes
    <3> QED BY <3>1 DEF Opens, Openers
  <2>3. Visited(tree, g, s, c) = VisitFunction(g, tree, s, c)
    BY <2>2, VisitedBy
  <2>4. {m \in s + 1 .. e : Binds(tree, m)} = {s + 1, s + 4}
        /\ BoundOf(tree, s + 1) = Encl(tree, s)
        /\ BoundOf(tree, s + 4) = Encl(tree, s + 4)
    BY <1>2, <1>4, DefinitionBinds
  <2>5. VisitFunction(g, tree, s, c)
          = WithBinding(WithScope(WithBinding(g, tree, s + 1, BindingKind(tree, s + 1), c),
                                      tree, s, "function", c),
                            tree, s + 4, BindingKind(tree, s + 4), Len(g.scopes))
    BY <1>2, <1>4, VisitDefinition, DefinitionBinds
  <2>6. s + 4 \in s + 1 .. e /\ s + 4 \in Nat /\ s + 4 > s + 1
    <3>1. e = s + 6
      BY <1>4 DEF IsDefinition
    <3> QED BY <1>2, <3>1
  <2>7. Encl(tree, s + 4) = s
    BY <1>3, <2>2, <2>6 DEF Near
  <2>8. Adds(tree, s, e, g, c,
             WithBinding(WithScope(WithBinding(g, tree, s + 1, BindingKind(tree, s + 1), c),
                                      tree, s, "function", c),
                            tree, s + 4, BindingKind(tree, s + 4), Len(g.scopes)))
    BY <1>2, <2>2, <2>4, <2>6, <2>7, AddsOuterAndInner
  <2> QED BY <2>3, <2>5, <2>8
<1>5. CASE IsRule(tree, s, e)
  <2>1. tree[s].type = "fun_function_definition"
    BY <1>5 DEF IsRule
  <2>2. tree[s].type \in FunctionTypes /\ Opens(tree, s)
    <3>1. tree[s].type \in FunctionTypes
      BY <2>1 DEF FunctionTypes
    <3> QED BY <3>1 DEF Opens, Openers
  <2>3. Visited(tree, g, s, c) = VisitFunction(g, tree, s, c)
    BY <2>2, VisitedBy
  <2>4. {m \in s + 1 .. e : Binds(tree, m)} = {s + 1, s + 3}
        /\ BoundOf(tree, s + 1) = Encl(tree, s)
        /\ BoundOf(tree, s + 3) = Encl(tree, s + 3)
    BY <1>2, <1>5, RuleBinds
  <2>5. VisitFunction(g, tree, s, c)
          = WithBinding(WithScope(WithBinding(g, tree, s + 1, BindingKind(tree, s + 1), c),
                                      tree, s, "function", c),
                            tree, s + 3, BindingKind(tree, s + 3), Len(g.scopes))
    BY <1>2, <1>5, VisitRule, RuleBinds
  <2>6. s + 3 \in s + 1 .. e /\ s + 3 \in Nat /\ s + 3 > s + 1
    <3>1. e = s + 5
      BY <1>5 DEF IsRule
    <3> QED BY <1>2, <3>1
  <2>7. Encl(tree, s + 3) = s
    BY <1>3, <2>2, <2>6 DEF Near
  <2>8. Adds(tree, s, e, g, c,
             WithBinding(WithScope(WithBinding(g, tree, s + 1, BindingKind(tree, s + 1), c),
                                      tree, s, "function", c),
                            tree, s + 3, BindingKind(tree, s + 3), Len(g.scopes)))
    BY <1>2, <2>2, <2>4, <2>6, <2>7, AddsOuterAndInner
  <2> QED BY <2>3, <2>5, <2>8
<1>6. CASE IsLambda(tree, s, e)
  <2>1. tree[s].type = "imp_lambda"
    BY <1>6 DEF IsLambda
  <2>2. tree[s].type \in LambdaTypes /\ Opens(tree, s)
    <3>1. tree[s].type \in LambdaTypes
      BY <2>1 DEF LambdaTypes
    <3> QED BY <3>1 DEF Opens, Openers
  <2>3. Visited(tree, g, s, c) = VisitLambda(g, tree, s, c)
    BY <2>2, VisitedBy
  <2>4. {m \in s + 1 .. e : Binds(tree, m)} = {s + 3}
        /\ BoundOf(tree, s + 3) = Encl(tree, s + 3)
    BY <1>2, <1>6, LambdaBinds
  <2>5. VisitLambda(g, tree, s, c)
          = WithBinding(WithScope(g, tree, s, "lambda", c),
                            tree, s + 3, BindingKind(tree, s + 3), Len(g.scopes))
    BY <1>2, <1>6, VisitImpLambda, LambdaBinds
  <2>6. s + 3 \in s + 1 .. e /\ s + 3 \in Nat /\ s + 3 > s
    <3>1. e = s + 5
      BY <1>6 DEF IsLambda
    <3> QED BY <1>2, <3>1
  <2>7. Encl(tree, s + 3) = s
    BY <1>3, <2>2, <2>6 DEF Near
  <2>8. Adds(tree, s, e, g, c,
             WithBinding(WithScope(g, tree, s, "lambda", c),
                            tree, s + 3, BindingKind(tree, s + 3), Len(g.scopes)))
    BY <1>2, <2>2, <2>4, <2>6, <2>7, AddsInner
  <2> QED BY <2>3, <2>5, <2>8
<1>7. CASE IsFunLambda(tree, s, e)
  <2>1. tree[s].type = "fun_lambda"
    BY <1>7 DEF IsFunLambda
  <2>2. tree[s].type \in LambdaTypes /\ Opens(tree, s)
    <3>1. tree[s].type \in LambdaTypes
      BY <2>1 DEF LambdaTypes
    <3> QED BY <3>1 DEF Opens, Openers
  <2>3. Visited(tree, g, s, c) = VisitLambda(g, tree, s, c)
    BY <2>2, VisitedBy
  <2>4. {m \in s + 1 .. e : Binds(tree, m)} = {s + 2}
        /\ BoundOf(tree, s + 2) = Encl(tree, s + 2)
    BY <1>2, <1>7, FunLambdaBinds
  <2>5. VisitLambda(g, tree, s, c)
          = WithBinding(WithScope(g, tree, s, "lambda", c),
                            tree, s + 2, BindingKind(tree, s + 2), Len(g.scopes))
    BY <1>2, <1>7, VisitFunLambda, FunLambdaBinds
  <2>6. s + 2 \in s + 1 .. e /\ s + 2 \in Nat /\ s + 2 > s
    <3>1. e = s + 4
      BY <1>7 DEF IsFunLambda
    <3> QED BY <1>2, <3>1
  <2>7. Encl(tree, s + 2) = s
    BY <1>3, <2>2, <2>6 DEF Near
  <2>8. Adds(tree, s, e, g, c,
             WithBinding(WithScope(g, tree, s, "lambda", c),
                            tree, s + 2, BindingKind(tree, s + 2), Len(g.scopes)))
    BY <1>2, <2>2, <2>4, <2>6, <2>7, AddsInner
  <2> QED BY <2>3, <2>5, <2>8
<1>8. CASE IsCase(tree, s, e)
  <2>1. tree[s].type = "match_case"
    BY <1>8 DEF IsCase
  <2>2. tree[s].type \in ArmTypes /\ Opens(tree, s)
    <3>1. tree[s].type \in ArmTypes
      BY <2>1 DEF ArmTypes
    <3> QED BY <3>1 DEF Opens, Openers
  <2>3. Visited(tree, g, s, c) = VisitArm(g, tree, s, c)
    BY <2>2, VisitedBy
  <2>4. {m \in s + 1 .. e : Binds(tree, m)} = {s + 2}
        /\ BoundOf(tree, s + 2) = Encl(tree, s + 2)
    BY <1>2, <1>8, CaseBinds
  <2>5. VisitArm(g, tree, s, c)
          = WithBinding(WithScope(g, tree, s, "match-arm", c),
                            tree, s + 2, BindingKind(tree, s + 2), Len(g.scopes))
    BY <1>2, <1>8, VisitCase, CaseBinds
  <2>6. s + 2 \in s + 1 .. e /\ s + 2 \in Nat /\ s + 2 > s
    <3>1. e = s + 4
      BY <1>8 DEF IsCase
    <3> QED BY <1>2, <3>1
  <2>7. Encl(tree, s + 2) = s
    BY <1>3, <2>2, <2>6 DEF Near
  <2>8. Adds(tree, s, e, g, c,
             WithBinding(WithScope(g, tree, s, "match-arm", c),
                            tree, s + 2, BindingKind(tree, s + 2), Len(g.scopes)))
    BY <1>2, <2>2, <2>4, <2>6, <2>7, AddsInner
  <2> QED BY <2>3, <2>5, <2>8
<1>9. CASE IsBend(tree, s, e)
  <2>1. tree[s].type = "bend_statement"
    BY <1>9 DEF IsBend
  <2>2. tree[s].type \in ArmTypes /\ Opens(tree, s)
    <3>1. tree[s].type \in ArmTypes
      BY <2>1 DEF ArmTypes
    <3> QED BY <3>1 DEF Opens, Openers
  <2>3. Visited(tree, g, s, c) = VisitArm(g, tree, s, c)
    BY <2>2, VisitedBy
  <2>4. {m \in s + 1 .. e : Binds(tree, m)} = {}
    BY <1>2, <1>9, BendBinds
  <2>5. VisitArm(g, tree, s, c)
          = WithScope(g, tree, s, "bend", c)
    BY <1>2, <1>9, VisitBend
  <2>8. Adds(tree, s, e, g, c,
             WithScope(g, tree, s, "bend", c))
    BY <1>2, <2>2, <2>4, AddsScope
  <2> QED BY <2>3, <2>5, <2>8
<1>10. CASE IsAssignment(tree, s, e)
  <2>1. tree[s].type = "assignment_statement"
    BY <1>10 DEF IsAssignment
  <2>2. tree[s].type \notin Openers /\ ~Opens(tree, s)
    <3>1. tree[s].type \notin Openers
      BY <2>1 DEF Openers, FunctionTypes, LambdaTypes, ArmTypes
    <3> QED BY <1>2, <3>1 DEF Opens
  <2>3. Visited(tree, g, s, c) = VisitOther(g, tree, s, c)
    BY <2>2, VisitedBy
  <2>4. {m \in s + 1 .. e : Binds(tree, m)} = {s + 1}
        /\ BoundOf(tree, s + 1) = Encl(tree, s)
    BY <1>2, <1>10, AssignmentBinds
  <2>5. VisitOther(g, tree, s, c)
          = WithBinding(g, tree, s + 1, BindingKind(tree, s + 1), c)
    BY <1>2, <1>10, VisitAssignment, AssignmentBinds
  <2>8. Adds(tree, s, e, g, c,
             WithBinding(g, tree, s + 1, BindingKind(tree, s + 1), c))
    BY <1>2, <2>2, <2>4, AddsOuter
  <2> QED BY <2>3, <2>5, <2>8
<1>11. CASE IsPairAssignment(tree, s, e)
  <2>1. tree[s].type = "assignment_statement"
    BY <1>11 DEF IsPairAssignment
  <2>2. tree[s].type \notin Openers /\ ~Opens(tree, s)
    <3>1. tree[s].type \notin Openers
      BY <2>1 DEF Openers, FunctionTypes, LambdaTypes, ArmTypes
    <3> QED BY <1>2, <3>1 DEF Opens
  <2>3. Visited(tree, g, s, c) = VisitOther(g, tree, s, c)
    BY <2>2, VisitedBy
  <2>4. {m \in s + 1 .. e : Binds(tree, m)} = {s + 1}
        /\ BoundOf(tree, s + 1) = Encl(tree, s)
    BY <1>2, <1>11, PairAssignmentBinds
  <2>5. VisitOther(g, tree, s, c)
          = WithBinding(g, tree, s + 1, BindingKind(tree, s + 1), c)
    BY <1>2, <1>11, VisitPairAssignment, PairAssignmentBinds
  <2>8. Adds(tree, s, e, g, c,
             WithBinding(g, tree, s + 1, BindingKind(tree, s + 1), c))
    BY <1>2, <2>2, <2>4, AddsOuter
  <2> QED BY <2>3, <2>5, <2>8
<1> QED BY <1>4, <1>5, <1>6, <1>7, <1>8, <1>9, <1>10, <1>11 DEF IsPhrase

LEMMA RankGrows ==
  ASSUME NEW tree, Len(tree) \in Nat, NEW m \in 0 .. Len(tree), NEW n \in m .. Len(tree)
  PROVE  Rank(tree, m) <= Rank(tree, n)
<1> DEFINE T == {k \in Nat : k <= Len(tree) => Rank(tree, m) <= Rank(tree, k)}
<1>1. m \in T
  <2>1. Rank(tree, m) \in Nat
    BY RankIs
  <2> QED BY <2>1
<1>2. ASSUME NEW k \in m .. n - 1, k \in T PROVE k + 1 \in T
  <2>1. k \in 0 .. Len(tree) /\ k + 1 \in 0 .. Len(tree) /\ (k + 1) - 1 = k /\ k <= Len(tree)
    OBVIOUS
  <2> DEFINE j == k + 1
  <2>2. k \in 0 .. Len(tree) /\ j \in 0 .. Len(tree) /\ j - 1 = k /\ j \in Nat /\ (j <= 1 => k <= 1)
    BY <2>1
  <2>3. Rank(tree, m) <= Rank(tree, k)
    BY <1>2, <2>1
  <2> HIDE DEF j
  <2>4. Rank(tree, j) \in Nat /\ Rank(tree, k) \in Nat /\ Rank(tree, m) \in Nat
    BY <2>2, RankIs
  <2>5. CASE j <= 1
    <3>1. Rank(tree, j) = 0 /\ Rank(tree, k) = 0
      BY <2>2, <2>5, RankIs
    <3> QED BY <2>2, <2>3, <2>4, <3>1
  <2>6. CASE ~(j <= 1)
    <3>1. j > 1
      BY <2>2, <2>6
    <3>2. Rank(tree, j) = Rank(tree, j - 1) + 1 \/ Rank(tree, j) = Rank(tree, j - 1)
      BY <2>2, <3>1, RankIs
    <3> QED BY <2>2, <2>3, <2>4, <3>2
  <2>7. j \in T
    BY <2>2, <2>5, <2>6
  <2> QED BY <2>7 DEF j
<1> HIDE DEF T
<1>3. m \in Int /\ n \in Int /\ n \in m .. n
  OBVIOUS
<1>4. n \in T
  BY <1>1, <1>2, <1>3, IntervalInduction
<1> QED BY <1>4 DEF T

\* The binders of the phrases that start up to a node.
BindersTo(tree, k) ==
  {m \in Nodes(tree) : /\ Binds(tree, m)
                       /\ \E s \in 2 .. k, e \in m .. Len(tree) : s < m /\ IsPhrase(tree, s, e)}

LEMMA BindersToStart ==
  ASSUME NEW tree, IsProgram(tree), NEW s \in 2 .. Len(tree), NEW e \in s .. Len(tree),
         IsPhrase(tree, s, e)
  PROVE  /\ BindersTo(tree, s - 1) \subseteq 1 .. s - 1
         /\ BindersTo(tree, s) = BindersTo(tree, s - 1) \cup {m \in s + 1 .. e : Binds(tree, m)}
<1>1. Len(tree) \in Nat
  BY DEF IsProgram, IsTree
<1>2. s \in Nat /\ s >= 2 /\ e \in Nat /\ e <= Len(tree)
  BY <1>1
<1>3. tree[s].type \in StartTypes
  BY <1>2, PhraseIs
<1>4. StartTypes \cap PartTypes = {}
  BY DEF StartTypes, PartTypes
<1>5. ASSUME NEW m \in BindersTo(tree, s - 1) PROVE m \in 1 .. s - 1
  <2>1. PICK t \in 2 .. s - 1, f \in m .. Len(tree) : t < m /\ IsPhrase(tree, t, f)
    BY DEF BindersTo
  <2>2. m \in 1 .. Len(tree) /\ t \in Nat /\ f \in Nat
    BY <1>1, <1>2, <2>1 DEF BindersTo, Nodes
  <2>3. \A n \in t + 1 .. f : tree[n].type \in PartTypes
    BY <2>1, <2>2, PhraseIs DEF IsPart
  <2>4. ~(s \in t + 1 .. f)
    BY <1>3, <1>4, <2>3
  <2> QED BY <1>2, <2>1, <2>2, <2>4
<1>6. ASSUME NEW m \in BindersTo(tree, s), m \notin BindersTo(tree, s - 1)
      PROVE  m \in s + 1 .. e /\ Binds(tree, m)
  <2>1. PICK t \in 2 .. s, f \in m .. Len(tree) : t < m /\ IsPhrase(tree, t, f)
    BY DEF BindersTo
  <2>2. m \in Nodes(tree) /\ m \in 1 .. Len(tree) /\ Binds(tree, m)
    BY DEF BindersTo, Nodes
  <2>3. ~(t \in 2 .. s - 1)
    BY <1>6, <2>1, <2>2 DEF BindersTo
  <2>4. t = s
    BY <1>2, <2>1, <2>3
  <2>5. f = e
    BY <1>2, <2>1, <2>4, PhraseEnds
  <2> QED BY <1>1, <1>2, <2>1, <2>2, <2>4, <2>5
<1>7. ASSUME NEW m \in s + 1 .. e, Binds(tree, m) PROVE m \in BindersTo(tree, s)
  <2>1. m \in Nodes(tree) /\ e \in m .. Len(tree) /\ s \in 2 .. s /\ s < m
    BY <1>1, <1>2 DEF Nodes
  <2> QED BY <1>7, <2>1 DEF BindersTo
<1>8. ASSUME NEW m \in BindersTo(tree, s - 1) PROVE m \in BindersTo(tree, s)
  <2>1. \A t \in 2 .. s - 1 : t \in 2 .. s
    BY <1>2
  <2> QED BY <2>1 DEF BindersTo
<1> QED BY <1>5, <1>6, <1>7, <1>8

LEMMA BindersToPart ==
  ASSUME NEW tree, NEW n \in Nat, n = 1 \/ tree[n].type \in PartTypes
  PROVE  BindersTo(tree, n) = BindersTo(tree, n - 1)
<1>1. StartTypes \cap PartTypes = {}
  BY DEF StartTypes, PartTypes
<1>2. ASSUME NEW s \in 2 .. n, NEW e, IsPhrase(tree, s, e) PROVE s \in 2 .. n - 1
  <2>1. tree[s].type \in StartTypes
    BY <1>2, PhraseIs
  <2>2. s # n
    BY <1>1, <2>1
  <2> QED BY <2>2
<1>3. \A s \in 2 .. n - 1 : s \in 2 .. n
  OBVIOUS
<1> QED BY <1>2, <1>3 DEF BindersTo

\* At the end, all identifiers that bind are met.
LEMMA BindersToEnd ==
  ASSUME NEW tree, IsProgram(tree)
  PROVE  BindersTo(tree, Len(tree)) = {m \in Identifiers(tree) : Binds(tree, m)}
<1>1. Len(tree) \in Nat /\ tree[1].type = "source_file"
  BY DEF IsProgram, IsTree
<1>2. ASSUME NEW m \in Nodes(tree), Binds(tree, m) PROVE m \in BindersTo(tree, Len(tree)) /\ m \in Identifiers(tree)
  <2>1. tree[m].type = "identifier"
    BY <1>2 DEF Binds, IsOuter, IsInner
  <2>2. m \in 2 .. Len(tree)
    <3>1. m # 1 /\ m \in 1 .. Len(tree)
      BY <1>1, <2>1 DEF Nodes
    <3> QED BY <1>1, <3>1
  <2>3. PICK s \in 2 .. m, e \in m .. Len(tree) : IsPhrase(tree, s, e)
    BY <2>2 DEF IsProgram
  <2>4. s \in Nat /\ s \in 2 .. Len(tree)
    BY <1>1, <2>2, <2>3
  <2>5. tree[s].type \in StartTypes
    BY <2>3, <2>4, PhraseIs
  <2>6. s # m
    BY <2>1, <2>5 DEF StartTypes
  <2>7. s < m
    BY <1>1, <2>2, <2>3, <2>6
  <2> QED BY <1>2, <2>1, <2>3, <2>4, <2>7 DEF BindersTo, Identifiers
<1>3. \A m : m \in BindersTo(tree, Len(tree)) => m \in Nodes(tree) /\ Binds(tree, m)
  BY DEF BindersTo
<1>4. \A m : m \in Identifiers(tree) => m \in Nodes(tree)
  BY DEF Identifiers
<1> QED BY <1>2, <1>3, <1>4

ScopeIs(tree, g, o) ==
  /\ g.scopes[Rank(tree, o) + 1].range = NodeRange(tree, o)
  /\ g.scopes[Rank(tree, o) + 1].parent = IF o = 1 THEN -1 ELSE Rank(tree, Encl(tree, o))

\* The graph once the first k nodes are visited.
Explored(tree, g, k) ==
  /\ IsGraph(g)
  /\ Len(g.inside) = k /\ \A j \in 1 .. k : g.inside[j] = Rank(tree, Near(tree, j))
  /\ Len(g.scopes) = Rank(tree, k) + 1
  /\ \A o \in Nodes(tree) : Opens(tree, o) /\ (o = 1 \/ o <= k) => ScopeIs(tree, g, o)
  /\ \A i \in 1 .. Len(g.scopes) :
       \E o \in Nodes(tree) : Opens(tree, o) /\ (o = 1 \/ o <= k) /\ i = Rank(tree, o) + 1
  /\ Lists(tree, g.bindings, BindersTo(tree, k))

LEMMA ExploredMore ==
  ASSUME NEW tree, IsProgram(tree), NEW n \in Nodes(tree), NEW g, Explored(tree, g, n - 1),
         NEW c, c = IF n = 1 THEN 0 ELSE Rank(tree, Encl(tree, n)),
         NEW h, IsGraph(h), h.inside = g.inside,
         IF n > 1 /\ Opens(tree, n)
           THEN \E kind : h.scopes = Append(g.scopes, [kind |-> kind, range |-> NodeRange(tree, n), parent |-> c])
           ELSE h.scopes = g.scopes,
         Lists(tree, h.bindings, BindersTo(tree, n))
  PROVE  Explored(tree, [h EXCEPT !.inside = Append(@, IF Len(h.scopes) > Len(g.scopes)
                                                         THEN Len(g.scopes) ELSE c)], n)
<1> DEFINE opens == n > 1 /\ Opens(tree, n)
           in == IF Len(h.scopes) > Len(g.scopes) THEN Len(g.scopes) ELSE c
           v == [h EXCEPT !.inside = Append(@, in)]
<1>1. /\ Len(tree) \in Nat /\ n \in 1 .. Len(tree) /\ n \in Nat /\ n - 1 \in Nat
      /\ n \in 0 .. Len(tree) /\ n - 1 \in 0 .. Len(tree) /\ IsTree(tree)
  <2>1. Len(tree) \in Nat /\ IsTree(tree)
    BY DEF IsProgram, IsTree
  <2> QED BY <2>1 DEF Nodes
<1>2. /\ IsGraph(g) /\ Len(g.inside) = n - 1
      /\ \A j \in 1 .. n - 1 : g.inside[j] = Rank(tree, Near(tree, j))
      /\ Len(g.scopes) = Rank(tree, n - 1) + 1
      /\ \A o \in Nodes(tree) : Opens(tree, o) /\ (o = 1 \/ o <= n - 1) => ScopeIs(tree, g, o)
      /\ \A i \in 1 .. Len(g.scopes) :
           \E o \in Nodes(tree) : Opens(tree, o) /\ (o = 1 \/ o <= n - 1) /\ i = Rank(tree, o) + 1
  BY DEF Explored
<1>3. PICK S : g.scopes \in Seq(S)
  BY <1>2 DEF IsGraph
<1>4. /\ Rank(tree, n) \in Nat /\ Rank(tree, n - 1) \in Nat
      /\ n <= 1 => Rank(tree, n) = 0 /\ Rank(tree, n - 1) = 0
      /\ opens => Rank(tree, n) = Rank(tree, n - 1) + 1
      /\ ~opens => Rank(tree, n) = Rank(tree, n - 1)
  <2>1. /\ Rank(tree, n) \in Nat /\ Rank(tree, n - 1) \in Nat
        /\ n <= 1 => Rank(tree, n) = 0
        /\ n - 1 <= 1 => Rank(tree, n - 1) = 0
        /\ n > 1 /\ Opens(tree, n) => Rank(tree, n) = Rank(tree, n - 1) + 1
        /\ n > 1 /\ ~Opens(tree, n) => Rank(tree, n) = Rank(tree, n - 1)
    BY <1>1, RankIs
  <2>2. n <= 1 => n - 1 <= 1
    BY <1>1
  <2> QED BY <1>1, <2>1, <2>2
<1>5. /\ opens => Len(h.scopes) = Len(g.scopes) + 1 /\ in = Len(g.scopes)
      /\ ~opens => h.scopes = g.scopes /\ in = c
  <2>1. CASE opens
    <3>1. PICK r : h.scopes = Append(g.scopes, r)
      BY <2>1
    <3>2. Len(h.scopes) = Len(g.scopes) + 1
      BY <1>3, <3>1
    <3> QED BY <1>2, <1>4, <2>1, <3>2
  <2>2. CASE ~opens
    BY <1>2, <1>4, <2>2
  <2> QED BY <2>1, <2>2
<1>6. in = Rank(tree, Near(tree, n))
  <2>1. CASE opens
    BY <1>2, <1>4, <1>5, <2>1 DEF Near
  <2>2. CASE ~opens /\ n = 1
    BY <1>4, <1>5, <2>2 DEF Near, Opens
  <2>3. CASE ~opens /\ n # 1
    BY <1>1, <1>5, <2>3 DEF Near
  <2> QED BY <2>1, <2>2, <2>3
<1>7. in \in Int
  <2>1. c \in Int
    <3>1. CASE n = 1
      BY <3>1
    <3>2. CASE n # 1
      <4>1. n \in 2 .. Len(tree)
        BY <1>1, <3>2
      <4>2. Encl(tree, n) \in 0 .. Len(tree)
        BY <1>1, <4>1, EnclIs
      <4> QED BY <1>1, <3>2, <4>2, RankIs
    <3> QED BY <3>1, <3>2
  <2> QED BY <1>2, <1>4, <1>5, <2>1
<1> HIDE DEF in
<1>8. /\ v.scopes = h.scopes /\ v.bindings = h.bindings /\ v.inside = Append(g.inside, in)
      /\ v = [scopes |-> h.scopes, bindings |-> h.bindings, inside |-> Append(g.inside, in)]
  <2>1. h = [scopes |-> h.scopes, bindings |-> h.bindings, inside |-> h.inside]
    BY DEF IsGraph
  <2>2. v = [h EXCEPT !.inside = Append(g.inside, in)]
    OBVIOUS
  <2> HIDE DEF v
  <2>3. \A x : [h EXCEPT !.inside = x] = [scopes |-> h.scopes, bindings |-> h.bindings, inside |-> x]
    BY <2>1
  <2> QED BY <2>2, <2>3
<1> HIDE DEF v
<1>9. /\ Append(g.inside, in) \in Seq(Int) /\ Len(Append(g.inside, in)) = n
      /\ \A j \in 1 .. n - 1 : Append(g.inside, in)[j] = g.inside[j]
      /\ Append(g.inside, in)[n] = in
  <2>1. g.inside \in Seq(Int)
    BY <1>2 DEF IsGraph
  <2> QED BY <1>1, <1>2, <1>7, <2>1
<1>10. IsGraph(v)
  <2>1. PICK T, B : h.scopes \in Seq(T) /\ h.bindings \in Seq(B)
    BY DEF IsGraph
  <2> QED BY <1>8, <1>9, <2>1 DEF IsGraph
<1>11. \A j \in 1 .. n : v.inside[j] = Rank(tree, Near(tree, j))
  <2>1. \A j \in 1 .. n : j \in 1 .. n - 1 \/ j = n
    BY <1>1
  <2> QED BY <1>2, <1>6, <1>8, <1>9, <2>1
<1>12. Len(v.scopes) = Rank(tree, n) + 1
  BY <1>2, <1>4, <1>5, <1>8
<1>13. \A o \in Nodes(tree) : o <= n /\ ~(o <= n - 1) => o = n
  BY <1>1 DEF Nodes
<1>14. \A o \in Nodes(tree) : o <= n - 1 => o <= n
  BY <1>1 DEF Nodes
<1>15. \A i \in 1 .. Len(g.scopes) : v.scopes[i] = g.scopes[i]
  <2>1. CASE opens
    <3>1. PICK r : h.scopes = Append(g.scopes, r)
      BY <2>1
    <3>2. g.scopes \in Seq(S \cup {r}) /\ r \in S \cup {r}
      BY <1>3
    <3> QED BY <1>8, <3>1, <3>2, AppendProperties
  <2>2. CASE ~opens
    BY <1>5, <1>8, <2>2
  <2> QED BY <2>1, <2>2
<1>16. opens => ScopeIs(tree, v, n)
  <2> SUFFICES ASSUME opens PROVE ScopeIs(tree, v, n)
    OBVIOUS
  <2>1. PICK kind : h.scopes = Append(g.scopes, [kind |-> kind, range |-> NodeRange(tree, n), parent |-> c])
    OBVIOUS
  <2> DEFINE r == [kind |-> kind, range |-> NodeRange(tree, n), parent |-> c]
  <2>2. r.range = NodeRange(tree, n) /\ r.parent = c
    OBVIOUS
  <2>3. h.scopes = Append(g.scopes, r)
    BY <2>1
  <2> HIDE DEF r
  <2>4. g.scopes \in Seq(S \cup {r}) /\ r \in S \cup {r}
    BY <1>3
  <2>5. v.scopes[Len(g.scopes) + 1] = r
    BY <1>8, <2>3, <2>4, AppendProperties
  <2>6. Len(g.scopes) + 1 = Rank(tree, n) + 1
    BY <1>2, <1>4
  <2>7. n # 1
    BY <1>1
  <2> QED BY <2>2, <2>5, <2>6, <2>7 DEF ScopeIs
<1>17. ASSUME NEW o \in Nodes(tree), Opens(tree, o), o = 1 \/ o <= n - 1 PROVE ScopeIs(tree, v, o)
  <2>1. ScopeIs(tree, g, o)
    BY <1>2, <1>17
  <2>2. Rank(tree, o) + 1 \in 1 .. Len(g.scopes)
    <3>1. o \in 0 .. Len(tree) /\ 1 \in 0 .. Len(tree)
      BY <1>1 DEF Nodes
    <3>2. Rank(tree, o) \in Nat /\ (o <= 1 => Rank(tree, o) = 0)
      BY <1>1, <3>1, RankIs
    <3>3. CASE o <= 1
      BY <1>2, <1>4, <3>2, <3>3
    <3>4. CASE ~(o <= 1)
      <4>1. n - 1 \in o .. Len(tree)
        BY <1>1, <1>17, <3>1, <3>4
      <4>2. Rank(tree, o) <= Rank(tree, n - 1)
        BY <1>1, <3>1, <4>1, RankGrows
      <4> QED BY <1>2, <1>4, <3>2, <4>2
    <3> QED BY <3>3, <3>4
  <2> QED BY <1>15, <2>1, <2>2 DEF ScopeIs
<1>18. \A o \in Nodes(tree) : Opens(tree, o) /\ (o = 1 \/ o <= n) => ScopeIs(tree, v, o)
  <2>1. n # 1 /\ Opens(tree, n) => opens
    BY <1>1
  <2> QED BY <1>13, <1>16, <1>17, <2>1
<1>19. ASSUME NEW i \in 1 .. Len(v.scopes)
       PROVE  \E o \in Nodes(tree) : Opens(tree, o) /\ (o = 1 \/ o <= n) /\ i = Rank(tree, o) + 1
  <2>1. CASE i \in 1 .. Len(g.scopes)
    BY <1>2, <1>14, <2>1
  <2>2. CASE i \notin 1 .. Len(g.scopes)
    <3>1. opens
      BY <1>5, <1>8, <2>2
    <3>2. i = Rank(tree, n) + 1
      BY <1>2, <1>4, <1>12, <2>2, <3>1
    <3>3. n <= n
      BY <1>1
    <3> QED BY <3>1, <3>2, <3>3
  <2> QED BY <2>1, <2>2
<1>20. Len(v.inside) = n /\ Lists(tree, v.bindings, BindersTo(tree, n))
  BY <1>8, <1>9
<1>21. Explored(tree, v, n)
  BY <1>10, <1>11, <1>12, <1>18, <1>19, <1>20 DEF Explored
<1> QED BY <1>21 DEF v, in

LEMMA NodeIs ==
  ASSUME NEW tree, IsProgram(tree), NEW n \in 2 .. Len(tree)
  PROVE  (\E e \in n .. Len(tree) : IsPhrase(tree, n, e)) \/ tree[n].type \in PartTypes
<1>1. Len(tree) \in Nat
  BY DEF IsProgram, IsTree
<1>2. PICK s \in 2 .. n, e \in n .. Len(tree) : IsPhrase(tree, s, e)
  BY DEF IsProgram
<1>3. CASE s = n
  BY <1>2, <1>3
<1>4. CASE s # n
  <2>1. s \in Nat /\ n \in s + 1 .. e
    BY <1>1, <1>2, <1>4
  <2> QED BY <1>2, <2>1, PhraseIs DEF IsPart
<1> QED BY <1>3, <1>4

LEMMA VisitOfPart ==
  ASSUME NEW tree, NEW n, tree[n].type \in PartTypes \cup {"source_file"}, NEW g, NEW c
  PROVE  Visited(tree, g, n, c) = g
<1>1. tree[n].type \notin Openers /\ tree[n].type # "assignment_statement"
  BY DEF PartTypes, Openers, FunctionTypes, LambdaTypes, ArmTypes
<1>2. Visited(tree, g, n, c) = VisitOther(g, tree, n, c)
  BY <1>1, VisitedBy
<1> QED BY <1>1, <1>2 DEF VisitOther

LEMMA ExploreNode ==
  ASSUME NEW tree, IsProgram(tree), NEW n \in Nodes(tree), NEW g, Explored(tree, g, n - 1)
  PROVE  Explored(tree, Visit(g, tree, n), n)
<1> DEFINE c == IF n = 1 THEN 0 ELSE g.inside[tree[n].parent]
           h == Visited(tree, g, n, c)
<1>1. /\ Len(tree) \in Nat /\ n \in 1 .. Len(tree) /\ n \in Nat /\ n - 1 \in 0 .. Len(tree) /\ IsTree(tree)
      /\ n # 1 => n \in 2 .. Len(tree)
  <2>1. Len(tree) \in Nat /\ IsTree(tree)
    BY DEF IsProgram, IsTree
  <2> QED BY <2>1 DEF Nodes
<1>2. Visit(g, tree, n) = [h EXCEPT !.inside = Append(@, IF Len(h.scopes) > Len(g.scopes)
                                                          THEN Len(g.scopes) ELSE c)]
  BY DEF Visit, Visited
<1>3. /\ IsGraph(g) /\ Len(g.scopes) = Rank(tree, n - 1) + 1
      /\ Lists(tree, g.bindings, BindersTo(tree, n - 1))
  BY DEF Explored
<1>4. c = IF n = 1 THEN 0 ELSE Rank(tree, Encl(tree, n))
  <2>1. CASE n = 1
    BY <2>1
  <2>2. CASE n # 1
    <3>1. tree[n].parent \in 1 .. n - 1
      BY <1>1, <2>2 DEF IsTree
    <3>2. g.inside[tree[n].parent] = Rank(tree, Near(tree, tree[n].parent))
      BY <3>1 DEF Explored
    <3> QED BY <1>1, <2>2, <3>2, EnclOfChild
  <2> QED BY <2>1, <2>2
<1> HIDE DEF c
<1>5. CASE n = 1 \/ tree[n].type \in PartTypes
  <2>1. h = g
    <3>1. tree[1].type = "source_file"
      BY DEF IsProgram
    <3> QED BY <1>5, <3>1, VisitOfPart
  <2>2. ~(n > 1 /\ Opens(tree, n))
    <3>1. PartTypes \cap Openers = {}
      BY DEF PartTypes, Openers, FunctionTypes, LambdaTypes, ArmTypes
    <3> QED BY <1>1, <1>5, <3>1 DEF Opens
  <2>3. BindersTo(tree, n) = BindersTo(tree, n - 1)
    BY <1>1, <1>5, BindersToPart
  <2> HIDE DEF h
  <2>4. Lists(tree, h.bindings, BindersTo(tree, n))
    BY <1>3, <2>1, <2>3
  <2>5. IsGraph(h) /\ h.inside = g.inside /\ h.scopes = g.scopes
    BY <1>3, <2>1
  <2> QED BY <1>2, <1>4, <2>2, <2>4, <2>5, ExploredMore
<1>6. CASE n # 1 /\ tree[n].type \notin PartTypes
  <2>1. n \in 2 .. Len(tree) /\ n > 1
    BY <1>1, <1>6
  <2>2. PICK e \in n .. Len(tree) : IsPhrase(tree, n, e)
    BY <1>6, <2>1, NodeIs
  <2>3. Opens(tree, n) => Len(g.scopes) = Rank(tree, n)
    <3>1. n \in 0 .. Len(tree)
      BY <1>1
    <3> QED BY <1>1, <1>3, <2>1, <3>1, RankIs
  <2>4. c = Rank(tree, Encl(tree, n))
    BY <1>4, <1>6
  <2>5. Adds(tree, n, e, g, c, h)
    BY <1>3, <2>1, <2>2, <2>3, <2>4, VisitStart
  <2> HIDE DEF h
  <2>6. /\ BindersTo(tree, n - 1) \in SUBSET (1 .. n - 1)
        /\ BindersTo(tree, n) = BindersTo(tree, n - 1) \cup {m \in n + 1 .. e : Binds(tree, m)}
    BY <2>1, <2>2, BindersToStart
  <2>7. Lists(tree, h.bindings, BindersTo(tree, n))
    BY <1>3, <2>5, <2>6 DEF Adds
  <2>8. /\ IsGraph(h) /\ h.inside = g.inside
        /\ IF n > 1 /\ Opens(tree, n)
             THEN \E kind : h.scopes = Append(g.scopes, [kind |-> kind, range |-> NodeRange(tree, n), parent |-> c])
             ELSE h.scopes = g.scopes
    BY <2>1, <2>5 DEF Adds
  <2>9. Explored(tree, [h EXCEPT !.inside = Append(@, IF Len(h.scopes) > Len(g.scopes)
                                                        THEN Len(g.scopes) ELSE c)], n)
    BY ONLY <1>4, <2>7, <2>8, IsProgram(tree), n \in Nodes(tree), Explored(tree, g, n - 1), ExploredMore, Zenon
  <2> QED BY <1>2, <2>9
<1> QED BY <1>5, <1>6

File(tree) == [kind |-> "file", range |-> NodeRange(tree, 1), parent |-> -1]
NoGraph(tree) == [scopes |-> <<File(tree)>>, bindings |-> <<>>, inside |-> <<>>]

LEMMA ExploreNothing ==
  ASSUME NEW tree, IsProgram(tree)
  PROVE  Explored(tree, NoGraph(tree), 0)
<1> DEFINE g == NoGraph(tree)
<1>1. Len(tree) \in Nat \ {0}
  BY DEF IsProgram, IsTree
<1>2. IsGraph(g)
  <2>1. /\ <<File(tree)>> \in Seq({File(tree)})
        /\ <<>> \in Seq({}) /\ <<>> \in Seq(Int)
    OBVIOUS
  <2>2. /\ g.scopes = <<File(tree)>> /\ g.bindings = <<>> /\ g.inside = <<>>
        /\ g = [scopes |-> g.scopes, bindings |-> g.bindings, inside |-> g.inside]
    BY DEF NoGraph
  <2> HIDE DEF g
  <2> QED BY <2>1, <2>2 DEF IsGraph
<1>3. /\ g.scopes = <<File(tree)>> /\ Len(g.scopes) = 1 /\ g.scopes[1] = File(tree)
      /\ g.bindings = <<>> /\ g.inside = <<>> /\ Len(g.inside) = 0
  BY DEF NoGraph
<1> HIDE DEF g
<1>4. Rank(tree, 0) = 0 /\ Rank(tree, 1) = 0
  <2>1. \A k \in 0 .. Len(tree) : k <= 1 => Rank(tree, k) = 0
    BY <1>1, RankIs
  <2>2. 0 \in 0 .. Len(tree) /\ 1 \in 0 .. Len(tree)
    BY <1>1
  <2> QED BY <2>1, <2>2
<1>5. BindersTo(tree, 0) = {}
  BY DEF BindersTo
<1>6. Lists(tree, g.bindings, {})
  <2>1. <<>> \in Seq(Nat) /\ Len(<<>>) = 0 /\ 1 .. 0 = {}
    OBVIOUS
  <2>2. IsListOf(<<>>, tree, <<>>, {})
    BY <2>1 DEF IsListOf
  <2> QED BY <1>3, <2>2 DEF Lists
<1>7. \A o \in Nodes(tree) : o = 1 \/ o <= 0 => o = 1
  BY DEF Nodes
<1>8. ScopeIs(tree, g, 1)
  <2>1. File(tree).range = NodeRange(tree, 1) /\ File(tree).parent = -1
    BY DEF File
  <2> QED BY <1>3, <1>4, <2>1 DEF ScopeIs
<1>9. Len(g.scopes) = Rank(tree, 0) + 1 /\ \A j \in 1 .. 0 : g.inside[j] = Rank(tree, Near(tree, j))
  BY <1>3, <1>4
<1>10. \A i \in 1 .. Len(g.scopes) :
         \E o \in Nodes(tree) : Opens(tree, o) /\ (o = 1 \/ o <= 0) /\ i = Rank(tree, o) + 1
  <2>1. 1 \in Nodes(tree) /\ Opens(tree, 1)
    BY <1>1 DEF Nodes, Opens
  <2>2. \A i \in 1 .. Len(g.scopes) : i = Rank(tree, 1) + 1
    BY <1>3, <1>4
  <2> QED BY <2>1, <2>2
<1> QED BY <1>2, <1>3, <1>5, <1>6, <1>7, <1>8, <1>9, <1>10 DEF Explored, g

\* The graph of a program is explored.
LEMMA ScopesAreBuilt ==
  ASSUME NEW tree, IsProgram(tree)
  PROVE  Explored(tree, BuildScopes(tree), Len(tree))
<1> DEFINE N == Len(tree)
           g0 == NoGraph(tree)
           Step(f, n) == IF n = 0 THEN g0 ELSE Visit(f[n - 1], tree, n)
           visited == CHOOSE f : f = [n \in 0 .. N |-> Step(f, n)]
<1>1. N \in Nat
  BY DEF IsProgram, IsTree
<1>2. BuildScopes(tree) = visited[N]
  BY DEF BuildScopes, NoGraph, File
<1> HIDE DEF N, g0
<1>3. \E f : f = [n \in 0 .. N |-> Step(f, n)]
  <2> DEFINE T == {k \in Nat : \E f : \A n \in 0 .. k : f[n] = Step(f, n)}
  <2>1. 0 \in T
    <3> DEFINE f == [n \in 0 .. 0 |-> g0]
    <3>1. \A n \in 0 .. 0 : f[n] = Step(f, n)
      OBVIOUS
    <3> HIDE DEF Step, f
    <3> QED BY <3>1
  <2>2. ASSUME NEW k \in Nat, k \in T PROVE k + 1 \in T
    <3>1. PICK f : \A n \in 0 .. k : f[n] = Step(f, n)
      BY <2>2
    <3> DEFINE h == [n \in 0 .. k + 1 |-> IF n = k + 1 THEN Visit(f[k], tree, k + 1) ELSE f[n]]
    <3>2. \A n \in 0 .. k : n \in 0 .. k + 1 /\ n # k + 1 /\ (n # 0 => n - 1 \in 0 .. k)
      OBVIOUS
    <3>3. \A n \in 0 .. k + 1 : n \in 0 .. k \/ n = k + 1
      OBVIOUS
    <3>4. k + 1 # 0 /\ (k + 1) - 1 = k /\ k \in 0 .. k /\ k + 1 \in 0 .. k + 1
      OBVIOUS
    <3>5. \A n \in 0 .. k : h[n] = f[n]
      BY <3>2
    <3>6. h[k + 1] = Visit(f[k], tree, k + 1)
      BY <3>4
    <3> HIDE DEF h
    <3>7. \A n \in 0 .. k : h[n] = Step(h, n)
      BY <3>1, <3>2, <3>5
    <3>8. h[k + 1] = Step(h, k + 1)
      BY <3>4, <3>5, <3>6
    <3>9. \A n \in 0 .. k + 1 : h[n] = Step(h, n)
      BY <3>3, <3>7, <3>8
    <3> HIDE DEF Step
    <3> QED BY <3>9
  <2> HIDE DEF T
  <2>3. N \in T
    BY <1>1, <2>1, <2>2, SetInduction
  <2>4. PICK f : \A n \in 0 .. N : f[n] = Step(f, n)
    BY <2>3 DEF T
  <2> DEFINE h == [n \in 0 .. N |-> f[n]]
  <2>5. \A n \in 0 .. N : n # 0 => n - 1 \in 0 .. N
    BY <1>1
  <2>6. \A n \in 0 .. N : h[n] = Step(h, n)
    BY <2>4, <2>5
  <2>7. h = [n \in 0 .. N |-> h[n]]
    OBVIOUS
  <2> HIDE DEF h
  <2>8. h = [n \in 0 .. N |-> Step(h, n)]
    BY <2>6, <2>7
  <2> HIDE DEF Step
  <2> QED BY <2>8
<1> HIDE DEF Step
<1>4. visited = [n \in 0 .. N |-> Step(visited, n)]
  BY <1>3
<1> HIDE DEF visited
<1> DEFINE U == {k \in Nat : Explored(tree, visited[k], k)}
<1>5. 0 \in U
  <2>1. 0 \in 0 .. N
    BY <1>1
  <2>2. visited[0] = g0
    BY <1>4, <2>1 DEF Step
  <2> QED BY <2>2, ExploreNothing DEF g0
<1>6. ASSUME NEW k \in 0 .. N - 1, k \in U PROVE k + 1 \in U
  <2>1. k + 1 \in 0 .. N /\ k + 1 \in Nodes(tree) /\ (k + 1) - 1 = k /\ k + 1 # 0 /\ k + 1 \in Nat
    BY <1>1 DEF Nodes, N
  <2> DEFINE n == k + 1
  <2>2. n \in 0 .. N /\ n \in Nodes(tree) /\ n - 1 = k /\ n # 0 /\ n \in Nat
    BY <2>1
  <2> HIDE DEF n
  <2>3. visited[n] = Visit(visited[k], tree, n)
    BY <1>4, <2>2 DEF Step
  <2>4. Explored(tree, visited[k], n - 1)
    BY <1>6, <2>2
  <2>5. Explored(tree, visited[n], n)
    BY <2>2, <2>3, <2>4, ExploreNode
  <2>6. n \in U
    BY <2>2, <2>5
  <2> QED BY <2>6 DEF n
<1> HIDE DEF U
<1>7. N \in U
  <2>1. 0 \in Int /\ N \in Int /\ N \in 0 .. N
    BY <1>1
  <2> QED BY <1>5, <1>6, <2>1, IntervalInduction
<1> QED BY <1>2, <1>7 DEF U, N

-----------------------------------------------------------------------------
(***************************************************************************)
(* bindingAt: the scope it starts in is that of the innermost opener.      *)
(***************************************************************************)
Better(graph, range, best, i) ==
  IF /\ Encloses(graph.scopes[i], range)
     /\ best = 0 \/ ScopeSize(graph.scopes[i]) <= ScopeSize(graph.scopes[best + 1])
    THEN i - 1 ELSE best

AreBests(f, graph, range, n) ==
  /\ f \in [0 .. n -> Nat]
  /\ f[0] = 0 /\ \A i \in 1 .. n : f[i] = Better(graph, range, f[i - 1], i)
  /\ BestScope(graph, range) = f[n]

LEMMA BestScopeIsAFold ==
  ASSUME NEW graph, NEW range, NEW n \in Nat, DOMAIN graph.scopes = 1 .. n
  PROVE  \E f : AreBests(f, graph, range, n)
<1> DEFINE q == [i \in DOMAIN graph.scopes |-> i]
           Iter(h) == [s \in SUBSET (1 .. n) |->
                         IF s = {} THEN 0 ELSE Better(graph, range, h[s \ {Max(s)}], q[Max(s)])]
           step == [z \in Nat \X (1 .. n) |-> Better(graph, range, z[1], q[z[2]])]
           iter == CHOOSE h : h = Iter(h)
<1>1. DOMAIN q = 1 .. n /\ \A i \in 1 .. n : q[i] = i
  OBVIOUS
<1> HIDE DEF q
<1>2. BestScope(graph, range) = iter[1 .. n]
  BY <1>1 DEF BestScope, FoldLeftDomain, FoldLeft, MapThenFoldSet, q, Better
<1>3. step \in [Nat \X (1 .. n) -> Nat] /\ 0 \in Nat
  <2>1. \A x \in Nat, i \in 1 .. n : Better(graph, range, x, q[i]) \in Nat
    BY <1>1 DEF Better
  <2> QED BY <2>1
<1>4. \A x \in Nat, i \in 1 .. n : step[<<x, i>>] = Better(graph, range, x, q[i])
  OBVIOUS
<1> HIDE DEF step
<1>5. \A s \in SUBSET (1 .. n) : s # {} => Max(s) \in 1 .. n /\ s \ {Max(s)} \in SUBSET (1 .. n)
  BY GreatestIs
<1>6. iter = Iter(iter)
  <2>1. PICK h \in [SUBSET (1 .. n) -> Nat] : IsSetFold(h, n, Nat, 0, step)
    BY <1>3, SetFoldExists
  <2>2. ASSUME NEW s \in SUBSET (1 .. n)
        PROVE  h[s] = IF s = {} THEN 0 ELSE Better(graph, range, h[s \ {Max(s)}], q[Max(s)])
    BY <1>4, <1>5, <2>1 DEF IsSetFold
  <2>3. h = [s \in SUBSET (1 .. n) |-> h[s]]
    BY <2>1 DEF IsSetFold
  <2>4. h = Iter(h)
    BY <2>2, <2>3, Zenon
  <2> HIDE DEF Iter
  <2> QED BY <2>4
<1> HIDE DEF iter
<1>7. IsSetFold(iter, n, Nat, 0, step)
  <2>1. iter = [s \in SUBSET (1 .. n) |-> iter[s]] /\ iter[{}] = 0
    BY <1>6
  <2>2. ASSUME NEW s \in SUBSET (1 .. n), s # {}, iter[s \ {Max(s)}] \in Nat
        PROVE  iter[s] = step[<<iter[s \ {Max(s)}], Max(s)>>]
    <3>1. iter[s] = Better(graph, range, iter[s \ {Max(s)}], q[Max(s)])
      BY <1>6, <2>2
    <3> HIDE DEF Iter
    <3> QED BY <1>4, <1>5, <2>2, <3>1
  <2> QED BY <2>1, <2>2 DEF IsSetFold
<1> HIDE DEF Iter
<1>8. PICK f : IsFold(f, n, Nat, 0, step) /\ f[n] = iter[1 .. n]
  <2>1. FoldsTo(iter[1 .. n], n, Nat, 0, step)
    BY <1>3, <1>7, SetFoldIsFold
  <2> QED BY <2>1 DEF FoldsTo
<1>9. f \in [0 .. n -> Nat] /\ f[0] = 0
  BY <1>8 DEF IsFold
<1>10. ASSUME NEW i \in 1 .. n PROVE f[i] = Better(graph, range, f[i - 1], i)
  <2>1. f[i] = step[<<f[i - 1], i>>] /\ f[i - 1] \in Nat
    BY <1>8, <1>9 DEF IsFold
  <2> QED BY <1>1, <1>4, <2>1
<1> QED BY <1>2, <1>8, <1>9, <1>10 DEF AreBests

LEMMA RanksInOrder ==
  ASSUME NEW tree, Len(tree) \in Nat, NEW a \in 1 .. Len(tree), NEW b \in 1 .. Len(tree),
         Opens(tree, a), Opens(tree, b)
  PROVE  /\ Rank(tree, a) \in Nat /\ Rank(tree, b) \in Nat
         /\ Rank(tree, a) < Rank(tree, b) <=> a < b
<1>1. a \in 0 .. Len(tree) /\ b \in 0 .. Len(tree)
  OBVIOUS
<1>2. a < b => Rank(tree, a) < Rank(tree, b)
  BY <1>1, RankIs
<1>3. b < a => Rank(tree, b) < Rank(tree, a)
  BY <1>1, RankIs
<1>4. Rank(tree, a) \in Nat /\ Rank(tree, b) \in Nat
  BY <1>1, RankIs
<1>5. a < b \/ b < a \/ a = b
  OBVIOUS
<1> QED BY <1>2, <1>3, <1>4, <1>5

\* The scope bindingAt starts in is that of the innermost node around an identifier.
LEMMA BestIsInnermost ==
  ASSUME NEW tree, IsProgram(tree), AreShort(tree), NEW g, Explored(tree, g, Len(tree)),
         NEW n \in 2 .. Len(tree), ~Opens(tree, n), Subtree(tree, n) = {n}
  PROVE  BestScope(g, NodeRange(tree, n)) = Rank(tree, Encl(tree, n))
<1> DEFINE A == Around(tree, n)
           range == NodeRange(tree, n)
           N == Len(g.scopes)
<1>1. IsTree(tree) /\ Len(tree) \in Nat /\ n \in 1 .. Len(tree) /\ n \in Nodes(tree)
  <2>1. IsTree(tree) /\ Len(tree) \in Nat
    BY DEF IsProgram, IsTree
  <2> QED BY <2>1 DEF Nodes
<1>2. /\ N = Rank(tree, Len(tree)) + 1 /\ N \in Nat /\ DOMAIN g.scopes = 1 .. N
      /\ \A o \in Nodes(tree) : Opens(tree, o) => ScopeIs(tree, g, o)
      /\ \A i \in 1 .. N : \E o \in Nodes(tree) : Opens(tree, o) /\ i = Rank(tree, o) + 1
  <2>1. PICK S : g.scopes \in Seq(S)
    BY DEF Explored, IsGraph
  <2>2. \A o \in Nodes(tree) : o <= Len(tree)
    BY <1>1 DEF Nodes
  <2> QED BY <2>1, <2>2 DEF Explored
<1>0. \E f : AreBests(f, g, range, N)
  <2> HIDE DEF N, range
  <2> QED BY ONLY <1>2, BestScopeIsAFold
<1>3. PICK f \in [0 .. N -> Nat] :
        /\ f[0] = 0 /\ \A i \in 1 .. N : f[i] = Better(g, range, f[i - 1], i)
        /\ BestScope(g, range) = f[N]
  BY <1>0 DEF AreBests
<1>4. /\ 1 \in A /\ Encl(tree, n) \in A /\ \A o \in A : o <= Encl(tree, n)
      /\ \A o \in A : o \in 1 .. n - 1 /\ o \in Nodes(tree) /\ o \in 1 .. Len(tree) /\ Opens(tree, o)
                      /\ n \in Subtree(tree, o)
  <2>1. \A o \in 1 .. n - 1 : o \in Nodes(tree)
    BY <1>1 DEF Nodes
  <2> QED BY <1>1, <2>1, EnclIs DEF Around, Nodes
<1>5. \A o \in Nodes(tree) : Opens(tree, o) /\ n \in Subtree(tree, o) => o \in A
  <2> SUFFICES ASSUME NEW o \in Nodes(tree), Opens(tree, o), n \in Subtree(tree, o) PROVE o \in A
    OBVIOUS
  <2>1. o # n /\ n \in o .. Len(tree) /\ o \in 1 .. Len(tree)
    BY DEF Subtree, Nodes
  <2>2. o \in 1 .. n - 1
    BY <1>1, <2>1
  <2> QED BY <2>2 DEF Around
<1>6. Rank(tree, 1) = 0
  <2>1. 1 \in 0 .. Len(tree)
    BY <1>1
  <2>2. \A k \in 0 .. Len(tree) : k <= 1 => Rank(tree, k) = 0
    BY <1>1, RankIs
  <2> QED BY <2>1, <2>2
<1>7. \A o, p \in Nodes(tree) :
        Opens(tree, o) /\ Opens(tree, p)
          => /\ Rank(tree, o) \in Nat /\ Rank(tree, p) \in Nat
             /\ Rank(tree, o) < Rank(tree, p) <=> o < p
             /\ Rank(tree, o) = Rank(tree, p) <=> o = p
  BY <1>1, RanksInOrder, RanksDiffer DEF Nodes
<1> HIDE DEF A, N
<1> DEFINE Innermost(w, i) == /\ w \in A /\ f[i] = Rank(tree, w) /\ Rank(tree, w) < i
                              /\ \A o \in A : Rank(tree, o) < i => o <= w
           T == {i \in Nat : \E w : Innermost(w, i)}
<1>8. 1 \in T
  <2>1. 1 \in 1 .. N /\ 1 - 1 = 0 /\ 1 \in Nodes(tree)
    <3>1. Rank(tree, Len(tree)) \in Nat
      BY <1>1, RankIs
    <3> QED BY <1>1, <1>2, <3>1 DEF Nodes
  <2>2. f[1] = Better(g, range, 0, 1)
    BY <1>3, <2>1
  <2>3. f[1] = 0
    BY <2>1, <2>2 DEF Better
  <2>4. ASSUME NEW o \in A, Rank(tree, o) < 1 PROVE o <= 1
    <3>1. o \in Nodes(tree) /\ Opens(tree, o) /\ Opens(tree, 1)
      BY <1>4 DEF Opens
    <3>2. Rank(tree, o) \in Nat
      BY <1>7, <3>1
    <3>3. Rank(tree, o) = Rank(tree, 1)
      BY <1>6, <2>4, <3>2
    <3> QED BY <1>7, <2>1, <3>1, <3>3
  <2>5. Innermost(1, 1)
    BY <1>4, <1>6, <2>3, <2>4
  <2> HIDE DEF Innermost
  <2> QED BY <2>5
<1>9. ASSUME NEW i \in 1 .. N - 1, i \in T PROVE i + 1 \in T
  <2> DEFINE j == i + 1
  <2>1. j \in 1 .. N /\ j - 1 = i /\ i \in Nat /\ j \in Nat /\ i < j
    BY <1>2
  <2>2. PICK w : Innermost(w, i)
    BY <1>9
  <2>3. PICK o \in Nodes(tree) : Opens(tree, o) /\ j = Rank(tree, o) + 1
    BY <1>2, <2>1
  <2>4. f[j] = Better(g, range, Rank(tree, w), j)
    BY <1>3, <2>1, <2>2
  <2>5. \A k \in Int : k < j <=> k < i \/ k = i
    BY <2>1
  <2> HIDE DEF j
  <2>6. w \in Nodes(tree) /\ Opens(tree, w) /\ w \in A
    BY <1>4, <2>2
  <2>7. Rank(tree, o) = i /\ Rank(tree, w) \in Nat /\ Rank(tree, o) \in Nat /\ w < o
    <3>1. Rank(tree, w) \in Nat /\ Rank(tree, o) \in Nat
      BY <1>7, <2>3, <2>6
    <3>2. Rank(tree, o) = i
      BY <2>1, <2>3, <3>1
    <3>3. Rank(tree, w) < Rank(tree, o)
      BY <2>2, <3>2
    <3> QED BY <1>7, <2>3, <2>6, <3>1, <3>2, <3>3
  <2>8. ScopeIs(tree, g, o) /\ ScopeIs(tree, g, w)
    BY <1>2, <2>3, <2>6
  <2>9. g.scopes[j].range = NodeRange(tree, o) /\ g.scopes[Rank(tree, w) + 1].range = NodeRange(tree, w)
    BY <2>3, <2>8 DEF ScopeIs
  <2>10. Encloses(g.scopes[j], range) <=> n \in Subtree(tree, o)
    BY <1>1, <2>3, <2>9, EnclosesIs DEF Encloses
  <2>11. CASE n \in Subtree(tree, o)
    <3>1. o \in A
      BY <1>5, <2>3, <2>11
    <3>2. o \in Subtree(tree, w)
      <4>1. o \in w .. n
        BY <1>4, <2>6, <2>7, <3>1
      <4> QED BY <1>1, <1>4, <2>6, <4>1, SubtreeIs
    <3>3. ScopeSize(g.scopes[j]) <= ScopeSize(g.scopes[Rank(tree, w) + 1])
      BY <1>1, <2>6, <2>9, <3>2, InnerIsSmaller
    <3>4. f[j] = j - 1
      BY <2>4, <2>10, <2>11, <3>3 DEF Better
    <3>5. ASSUME NEW p \in A, Rank(tree, p) < j PROVE p <= o
      <4>1. p \in Nodes(tree) /\ Opens(tree, p)
        BY <1>4
      <4>2. Rank(tree, p) \in Nat /\ (Rank(tree, o) < Rank(tree, p) <=> o < p)
        BY <1>7, <2>3, <4>1
      <4>3. ~(o < p)
        BY <2>5, <2>7, <3>5, <4>2
      <4> QED BY <4>1, <4>3 DEF Nodes
    <3>6. Innermost(o, j)
      BY <2>1, <2>7, <3>1, <3>4, <3>5
    <3> HIDE DEF Innermost
    <3> QED BY <2>1, <3>6 DEF j
  <2>12. CASE n \notin Subtree(tree, o)
    <3>1. f[j] = Rank(tree, w)
      BY <2>4, <2>10, <2>12 DEF Better
    <3>2. ASSUME NEW p \in A, Rank(tree, p) < j PROVE p <= w
      <4>1. p \in Nodes(tree) /\ Opens(tree, p) /\ n \in Subtree(tree, p)
        BY <1>4
      <4>2. Rank(tree, p) \in Nat /\ p # o
        BY <1>7, <2>12, <4>1
      <4>3. Rank(tree, p) # Rank(tree, o)
        BY <1>7, <2>3, <4>1, <4>2
      <4>4. Rank(tree, p) < i
        BY <2>5, <2>7, <3>2, <4>2, <4>3
      <4> QED BY <2>2, <4>4
    <3>3. Rank(tree, w) < j
      BY <2>1, <2>2, <2>5, <2>7
    <3>4. Innermost(w, j)
      BY <2>6, <3>1, <3>2, <3>3
    <3> HIDE DEF Innermost
    <3> QED BY <2>1, <3>4 DEF j
  <2> QED BY <2>11, <2>12
<1> HIDE DEF T
<1>10. N \in T
  <2>1. Rank(tree, Len(tree)) \in Nat
    BY <1>1, RankIs
  <2>2. 1 \in Int /\ N \in Int /\ N \in 1 .. N
    BY <1>2, <2>1
  <2> QED BY <1>8, <1>9, <2>2, IntervalInduction
<1>11. PICK w : Innermost(w, N)
  BY <1>10 DEF T
<1>12. \A o \in A : Rank(tree, o) < N
  <2> SUFFICES ASSUME NEW o \in A PROVE Rank(tree, o) < N
    OBVIOUS
  <2>1. o \in 0 .. Len(tree) /\ Len(tree) \in o .. Len(tree)
    BY <1>1, <1>4
  <2>2. Rank(tree, o) <= Rank(tree, Len(tree)) /\ Rank(tree, o) \in Nat /\ Rank(tree, Len(tree)) \in Nat
    BY <1>1, <2>1, RankGrows, RankIs
  <2> QED BY <1>2, <2>2
<1>13. w = Encl(tree, n)
  <2>1. Encl(tree, n) <= w /\ w <= Encl(tree, n)
    BY <1>4, <1>11, <1>12
  <2>2. w \in Int /\ Encl(tree, n) \in Int
    BY <1>4, <1>11
  <2> QED BY <2>1, <2>2
<1> QED BY <1>3, <1>11, <1>13

\* An identifier has no children.
LEMMA IdentifiersAre ==
  ASSUME NEW tree, IsProgram(tree), NEW n \in Identifiers(tree)
  PROVE  /\ n \in 2 .. Len(tree) /\ n \in Nodes(tree) /\ n \in Nat
         /\ ~Opens(tree, n) /\ Subtree(tree, n) = {n}
<1>1. IsTree(tree) /\ Len(tree) \in Nat /\ tree[1].type = "source_file" /\ tree[1].parent = 0
  BY DEF IsProgram, IsTree
<1>2. n \in Nodes(tree) /\ n \in 1 .. Len(tree) /\ tree[n].type = "identifier"
  BY DEF Identifiers, Nodes
<1>3. n # 1 /\ n \in 2 .. Len(tree) /\ n \in Nat
  BY <1>1, <1>2
<1>4. ~Opens(tree, n)
  <2>1. "identifier" \notin Openers
    BY DEF Openers, FunctionTypes, LambdaTypes, ArmTypes
  <2> QED BY <1>2, <1>3, <2>1 DEF Opens
<1>5. ASSUME NEW m \in NamedChildren(tree, n) PROVE FALSE
  <2>1. m \in 1 .. Len(tree) /\ tree[m].parent = n
    BY DEF NamedChildren, Nodes
  <2>2. m \in 2 .. Len(tree)
    BY <1>1, <1>3, <2>1
  <2>3. PICK s \in 2 .. m, e \in m .. Len(tree) :
          IsPhrase(tree, s, e) /\ tree[tree[s].parent].type \in {"source_file", "body"}
    BY <2>2 DEF IsProgram
  <2>4. CASE s = m
    BY <1>2, <2>1, <2>3, <2>4
  <2>5. CASE s # m
    <3>1. s \in Nat /\ m \in s + 1 .. e
      BY <1>1, <2>2, <2>3, <2>5
    <3>2. IsPart(tree, s, m)
      BY <2>3, <3>1, PhraseIs
    <3> QED BY <1>2, <2>1, <3>2 DEF IsPart
  <2> QED BY <2>4, <2>5
<1>6. Subtree(tree, n) = {n}
  BY <1>1, <1>2, <1>5, NothingBelow
<1> QED BY <1>2, <1>3, <1>4, <1>6

\* A name is bound in a scope opened before it.
LEMMA BoundOfIs ==
  ASSUME NEW tree, IsProgram(tree), NEW m \in Identifiers(tree), Binds(tree, m)
  PROVE  /\ BoundOf(tree, m) \in 1 .. m - 1 /\ BoundOf(tree, m) \in Nodes(tree)
         /\ Opens(tree, BoundOf(tree, m))
         /\ IsOuter(tree, m) => m - 1 \in 2 .. Len(tree)
<1>1. /\ IsTree(tree) /\ Len(tree) \in Nat /\ tree[1].type = "source_file"
      /\ m \in 2 .. Len(tree) /\ m \in Nat
  BY IdentifiersAre DEF IsProgram, IsTree
<1>2. IsOuter(tree, m) => m - 1 \in 2 .. Len(tree)
  <2> SUFFICES ASSUME IsOuter(tree, m) PROVE m - 1 \in 2 .. Len(tree)
    OBVIOUS
  <2>1. tree[m - 1].type \in NamingTypes /\ "source_file" \notin NamingTypes
    BY DEF IsOuter, NamingTypes, FunctionTypes
  <2>2. m - 1 # 1
    BY <1>1, <2>1
  <2> QED BY <1>1, <2>2
<1>3. \A k \in 2 .. Len(tree) : Encl(tree, k) \in 1 .. k - 1 /\ Opens(tree, Encl(tree, k))
  BY <1>1, EnclIs DEF Around
<1>4. CASE IsOuter(tree, m)
  <2> DEFINE k == m - 1
  <2>1. k \in 2 .. Len(tree) /\ BoundOf(tree, m) = Encl(tree, k) /\ \A j \in 1 .. k - 1 : j \in 1 .. m - 1
    BY <1>1, <1>2, <1>4 DEF BoundOf
  <2> HIDE DEF k
  <2>2. BoundOf(tree, m) \in 1 .. m - 1 /\ Opens(tree, BoundOf(tree, m))
    BY <1>3, <2>1
  <2> QED BY <1>1, <1>2, <2>2 DEF Nodes
<1>5. CASE ~IsOuter(tree, m)
  <2>1. BoundOf(tree, m) \in 1 .. m - 1 /\ Opens(tree, BoundOf(tree, m))
    BY <1>1, <1>3, <1>5 DEF BoundOf
  <2> QED BY <1>1, <1>2, <2>1 DEF Nodes
<1> QED BY <1>4, <1>5

\* The identifiers that bind the name of n, before it or at it.
Namesakes(tree, n) ==
  {m \in Identifiers(tree) : Binds(tree, m) /\ m <= n /\ tree[m].name = tree[n].name}

\* The last of the innermost of the binders.
IsLast(tree, m, M) ==
  \A k \in M : /\ BoundOf(tree, k) <= BoundOf(tree, m)
               /\ BoundOf(tree, k) = BoundOf(tree, m) => k <= m
IsFound(tree, M, found) ==
  \/ M = {} /\ found = NoBinding
  \/ \E m \in M : IsLast(tree, m, M) /\ found = BindRec(tree, m)

CandidatesIn(g, tree, n, scope) ==
  {i \in DOMAIN g.bindings :
     /\ g.bindings[i].scope = scope
     /\ g.bindings[i].name = tree[n].name
     /\ Visible(g.bindings[i], NodeRange(tree, n))}

\* The candidates of a scope are the binders of the name in it, the last of them last.
LEMMA CandidatesAre ==
  ASSUME NEW tree, IsProgram(tree), NEW g, Explored(tree, g, Len(tree)),
         NEW n \in Identifiers(tree), NEW o \in Nodes(tree), Opens(tree, o),
         NEW C, C = CandidatesIn(g, tree, n, Rank(tree, o)),
         NEW B, B = {m \in Namesakes(tree, n) : BoundOf(tree, m) = o}
  PROVE  /\ C = {} => B = {}
         /\ C # {} => \E m \in B : (\A k \in B : k <= m) /\ g.bindings[Max(C)] = BindRec(tree, m)
<1>1. IsTree(tree) /\ Len(tree) \in Nat /\ n \in Nodes(tree)
  BY IdentifiersAre DEF IsProgram, IsTree
<1>2. PICK q : IsListOf(q, tree, g.bindings, BindersTo(tree, Len(tree)))
  BY DEF Explored, Lists
<1>3. PICK S : g.bindings \in Seq(S)
  BY DEF Explored, IsGraph
<1> DEFINE N == Len(q)
<1>4. /\ N \in Nat /\ DOMAIN g.bindings = 1 .. N
      /\ \A i, j \in 1 .. N : i < j => q[i] < q[j]
      /\ \A m : m \in Identifiers(tree) /\ Binds(tree, m) <=> \E i \in 1 .. N : q[i] = m
      /\ \A i \in 1 .. N : g.bindings[i] = BindRec(tree, q[i])
  <2>1. \A m : m \in BindersTo(tree, Len(tree)) <=> m \in Identifiers(tree) /\ Binds(tree, m)
    BY BindersToEnd
  <2>2. /\ q \in Seq(Nat) /\ Len(g.bindings) = N
        /\ \A i, j \in 1 .. N : i < j => q[i] < q[j]
        /\ \A m : m \in BindersTo(tree, Len(tree)) <=> \E i \in 1 .. N : q[i] = m
        /\ \A i \in 1 .. N : g.bindings[i] = BindRec(tree, q[i])
    BY <1>2 DEF IsListOf
  <2>3. N \in Nat /\ DOMAIN g.bindings = 1 .. N
    BY <1>3, <2>2
  <2> HIDE DEF N
  <2>4. \A m : m \in Identifiers(tree) /\ Binds(tree, m) <=> \E i \in 1 .. N : q[i] = m
    BY <2>1, <2>2, Zenon
  <2> QED BY <2>2, <2>3, <2>4
<1> HIDE DEF N
<1>5. ASSUME NEW i \in 1 .. N
      PROVE  i \in C <=> q[i] \in B
  <2>1. q[i] \in Identifiers(tree) /\ Binds(tree, q[i])
    BY <1>4
  <2>2. /\ g.bindings[i].scope = Rank(tree, BoundOf(tree, q[i])) /\ g.bindings[i].name = tree[q[i]].name
        /\ g.bindings[i].range = NodeRange(tree, q[i])
    <3>1. g.bindings[i] = BindRec(tree, q[i])
      BY <1>4
    <3>2. /\ BindRec(tree, q[i]).scope = Rank(tree, BoundOf(tree, q[i]))
          /\ BindRec(tree, q[i]).name = tree[q[i]].name
          /\ BindRec(tree, q[i]).range = NodeRange(tree, q[i])
      BY DEF BindRec
    <3> QED BY <3>1, <3>2
  <2>3. BoundOf(tree, q[i]) \in Nodes(tree) /\ Opens(tree, BoundOf(tree, q[i])) /\ q[i] \in Nodes(tree)
    BY <2>1, BoundOfIs, IdentifiersAre
  <2>4. Rank(tree, BoundOf(tree, q[i])) = Rank(tree, o) <=> BoundOf(tree, q[i]) = o
    BY <1>1, <2>3, RanksDiffer DEF Nodes
  <2>5. Visible(g.bindings[i], NodeRange(tree, n)) <=> q[i] <= n
    BY <1>1, <2>2, <2>3, StartsInOrder DEF Visible
  <2> QED BY <1>4, <2>1, <2>2, <2>4, <2>5 DEF CandidatesIn, Namesakes
<1>6. C \in SUBSET (1 .. N)
  BY <1>4 DEF CandidatesIn
<1>7. \A m \in B : \E i \in 1 .. N : q[i] = m
  BY <1>4 DEF Namesakes
<1>8. C = {} => B = {}
  BY <1>5, <1>6, <1>7
<1>9. ASSUME C # {} PROVE \E m \in B : (\A k \in B : k <= m) /\ g.bindings[Max(C)] = BindRec(tree, m)
  <2>1. Max(C) \in C /\ \A i \in C : Max(C) >= i
    BY <1>4, <1>6, <1>9, GreatestIs
  <2> DEFINE j == Max(C)
  <2>2. j \in 1 .. N /\ \A i \in C : i <= j
    BY <1>4, <1>6, <2>1
  <2>3. q[j] \in B /\ g.bindings[j] = BindRec(tree, q[j])
    BY <1>4, <1>5, <2>1, <2>2
  <2> HIDE DEF j
  <2>4. ASSUME NEW k \in B PROVE k <= q[j]
    <3>1. PICK i \in 1 .. N : q[i] = k
      BY <1>7
    <3>2. i \in C
      BY <1>5, <2>4, <3>1
    <3>3. i < j \/ i = j
      BY <1>4, <2>2, <3>2
    <3>4. q[j] \in Nat /\ k \in Nat
      BY <2>2, <1>4, <3>1, IdentifiersAre
    <3> QED BY <1>4, <2>2, <3>1, <3>3, <3>4
  <2> QED BY <2>3, <2>4 DEF j
<1> QED BY <1>8, <1>9

\* How bindingAt climbs from scope to scope.
IsClimb(from, g, tree, n) ==
  /\ from[-1] = NoBinding
  /\ \A scope \in 0 .. Len(g.scopes) - 1 :
       LET C == CandidatesIn(g, tree, n, scope)
       IN from[scope] = IF C # {} THEN g.bindings[Max(C)] ELSE from[g.scopes[scope + 1].parent]

\* Its recursive function exists, and goes from a scope without a candidate to its parent.
LEMMA ClimbIs ==
  ASSUME NEW tree, IsProgram(tree), NEW g, Explored(tree, g, Len(tree)), NEW n \in Identifiers(tree)
  PROVE  \E from : IsClimb(from, g, tree, n) /\ BindingAt(g, tree, n) = from[BestScope(g, NodeRange(tree, n))]
<1> DEFINE k == Len(g.scopes) - 1
           D == -1 .. k
           Cands(s) == CandidatesIn(g, tree, n, s)
           Turn(f, s) == CASE s = -1 -> NoBinding
                           [] s >= 0 /\ Cands(s) # {} -> g.bindings[Max(Cands(s))]
                           [] OTHER -> f[g.scopes[s + 1].parent]
           from == CHOOSE f : f = [s \in D |-> Turn(f, s)]
           stop == {s \in D : s = -1 \/ Cands(s) # {}}
           out == [s \in D |-> IF s = -1 THEN NoBinding ELSE g.bindings[Max(Cands(s))]]
           next == [s \in D |-> g.scopes[s + 1].parent]
           m == [s \in D |-> s + 1]
<1>1. BindingAt(g, tree, n) = from[BestScope(g, NodeRange(tree, n))]
  BY DEF BindingAt, CandidatesIn
<1>2. /\ IsTree(tree) /\ Len(tree) \in Nat /\ Len(g.scopes) = k + 1 /\ k + 1 \in Nat /\ k \in Int
      /\ \A o \in Nodes(tree) : Opens(tree, o) => ScopeIs(tree, g, o)
      /\ \A i \in 1 .. k + 1 : \E o \in Nodes(tree) : Opens(tree, o) /\ i = Rank(tree, o) + 1
  <2>1. IsTree(tree) /\ Len(tree) \in Nat
    BY DEF IsProgram, IsTree
  <2>2. \A o \in Nodes(tree) : o <= Len(tree)
    BY <2>1 DEF Nodes
  <2>3. Len(g.scopes) = Rank(tree, Len(tree)) + 1 /\ Rank(tree, Len(tree)) \in Nat
    BY <2>1, RankIs DEF Explored
  <2>4. Len(g.scopes) = k + 1 /\ k + 1 \in Nat /\ k \in Int
    BY <2>3
  <2>5. /\ \A o \in Nodes(tree) : Opens(tree, o) => ScopeIs(tree, g, o)
        /\ \A i \in 1 .. Len(g.scopes) : \E o \in Nodes(tree) : Opens(tree, o) /\ i = Rank(tree, o) + 1
    BY <2>2 DEF Explored
  <2> HIDE DEF k
  <2> QED BY <2>1, <2>4, <2>5
<1> HIDE DEF k, Cands
<1>3. m \in [D -> 0 .. k + 1]
  BY <1>2
<1>4. ASSUME NEW s \in D \ stop PROVE next[s] \in D /\ m[next[s]] < m[s]
  <2>1. s \in 0 .. k /\ s + 1 \in 1 .. k + 1
    BY <1>2
  <2>2. PICK o \in Nodes(tree) : Opens(tree, o) /\ s + 1 = Rank(tree, o) + 1
    BY <1>2, <2>1
  <2>3. o \in 1 .. Len(tree) /\ Rank(tree, o) \in Nat
    BY <1>2, RankIs DEF Nodes
  <2>4. next[s] = IF o = 1 THEN -1 ELSE Rank(tree, Encl(tree, o))
    <3>1. ScopeIs(tree, g, o)
      BY <1>2, <2>2
    <3>2. g.scopes[s + 1].parent = IF o = 1 THEN -1 ELSE Rank(tree, Encl(tree, o))
      BY <2>2, <3>1 DEF ScopeIs
    <3> QED BY <3>2
  <2>5. next[s] \in -1 .. s - 1
    <3>1. CASE o = 1
      BY <2>1, <2>4, <3>1
    <3>2. CASE o # 1
      <4>1. o \in 2 .. Len(tree)
        BY <2>3, <3>2
      <4>2. Encl(tree, o) \in 1 .. o - 1 /\ Opens(tree, Encl(tree, o))
        BY <1>2, <4>1, EnclIs DEF Around
      <4>3. Encl(tree, o) \in 1 .. Len(tree) /\ Encl(tree, o) < o
        BY <1>2, <4>1, <4>2
      <4>4. Rank(tree, Encl(tree, o)) < Rank(tree, o) /\ Rank(tree, Encl(tree, o)) \in Nat
        BY <1>2, <2>2, <2>3, <4>2, <4>3, RanksInOrder
      <4> QED BY <2>1, <2>2, <2>3, <2>4, <3>2, <4>4
    <3> QED BY <3>1, <3>2
  <2> HIDE DEF next, stop
  <2> QED BY <1>2, <2>1, <2>5
<1>5. \E f : IsLoop(f, D, stop, out, next)
  <2> HIDE DEF D, stop, out, next, m
  <2> QED BY <1>2, <1>3, <1>4, LoopExists
<1>6. from = [s \in D |-> Turn(from, s)]
  <2>1. PICK f : IsLoop(f, D, stop, out, next)
    BY <1>5
  <2>2. f = [s \in D |-> IF s \in stop THEN out[s] ELSE f[next[s]]]
    BY <2>1 DEF IsLoop
  <2>3. \A s \in D : f[s] = Turn(f, s)
    <3> SUFFICES ASSUME NEW s \in D PROVE f[s] = Turn(f, s)
      OBVIOUS
    <3>1. f[s] = IF s \in stop THEN out[s] ELSE f[next[s]]
      BY <2>2
    <3>2. s = -1 \/ s >= 0
      BY <1>2
    <3>3. s \in stop <=> s = -1 \/ Cands(s) # {}
      OBVIOUS
    <3>4. out[s] = (IF s = -1 THEN NoBinding ELSE g.bindings[Max(Cands(s))]) /\ next[s] = g.scopes[s + 1].parent
      OBVIOUS
    <3>5. ~(-1 >= 0)
      OBVIOUS
    <3> HIDE DEF stop, out, next, D
    <3> QED BY <3>1, <3>2, <3>3, <3>4, <3>5
  <2>4. f = [s \in D |-> f[s]]
    BY <2>2
  <2>5. f = [s \in D |-> Turn(f, s)]
    <3> HIDE DEF Turn, D
    <3> QED BY <2>3, <2>4
  <2> HIDE DEF Turn, D
  <2> QED BY <2>5
<1> HIDE DEF from
<1>7. IsClimb(from, g, tree, n)
  <2>1. -1 \in D
    BY <1>2
  <2>2. from[-1] = NoBinding
    BY <1>6, <2>1
  <2>3. ASSUME NEW s \in 0 .. Len(g.scopes) - 1
        PROVE  from[s] = IF Cands(s) # {} THEN g.bindings[Max(Cands(s))] ELSE from[g.scopes[s + 1].parent]
    <3>1. s \in D /\ s # -1 /\ s >= 0
      BY <1>2 DEF k
    <3> QED BY <1>6, <3>1
  <2> QED BY <2>2, <2>3 DEF IsClimb, Cands
<1> QED BY <1>1, <1>7

\* What binds the name of n where it is.
BindersAround(tree, n) == {m \in Namesakes(tree, n) : BoundOf(tree, m) \in Around(tree, n)}

\* bindingAt finds the last of the innermost of the binders of a name.
LEMMA BindingAtIs ==
  ASSUME NEW tree, IsProgram(tree), AreShort(tree), NEW n \in Identifiers(tree)
  PROVE  IsFound(tree, BindersAround(tree, n), BindingAt(BuildScopes(tree), tree, n))
<1> DEFINE g == BuildScopes(tree)
           A == Around(tree, n)
           M(o) == {m \in BindersAround(tree, n) : BoundOf(tree, m) <= o}
<1>1. Explored(tree, g, Len(tree))
  BY ScopesAreBuilt
<1>2. /\ IsTree(tree) /\ Len(tree) \in Nat /\ n \in 2 .. Len(tree) /\ ~Opens(tree, n)
      /\ Subtree(tree, n) = {n}
  BY IdentifiersAre DEF IsProgram, IsTree
<1> HIDE DEF g
<1>3. BestScope(g, NodeRange(tree, n)) = Rank(tree, Encl(tree, n))
  BY <1>1, <1>2, BestIsInnermost
<1>4. PICK from : IsClimb(from, g, tree, n) /\ BindingAt(g, tree, n) = from[Rank(tree, Encl(tree, n))]
  BY <1>1, <1>3, ClimbIs
<1>5. /\ Encl(tree, n) \in A /\ \A o \in A : o <= Encl(tree, n)
      /\ \A o \in A : o \in 1 .. n - 1 /\ o \in Nodes(tree) /\ o \in 1 .. Len(tree) /\ Opens(tree, o)
  <2>1. \A o \in 1 .. n - 1 : o \in Nodes(tree) /\ o \in 1 .. Len(tree)
    BY <1>2 DEF Nodes
  <2> QED BY <1>2, <2>1, EnclIs DEF Around
<1> HIDE DEF A
<1>6. ASSUME NEW o \in A
      PROVE  LET C == CandidatesIn(g, tree, n, Rank(tree, o))
             IN from[Rank(tree, o)] = IF C # {} THEN g.bindings[Max(C)]
                                      ELSE from[IF o = 1 THEN -1 ELSE Rank(tree, Encl(tree, o))]
  <2>1. Rank(tree, o) \in 0 .. Len(g.scopes) - 1
    <3>1. o \in 0 .. Len(tree) /\ Len(tree) \in o .. Len(tree)
      BY <1>2, <1>5
    <3>2. Rank(tree, o) <= Rank(tree, Len(tree)) /\ Rank(tree, o) \in Nat /\ Rank(tree, Len(tree)) \in Nat
      BY <1>2, <3>1, RankGrows, RankIs
    <3>3. Len(g.scopes) = Rank(tree, Len(tree)) + 1
      BY <1>1 DEF Explored
    <3> QED BY <3>2, <3>3
  <2>2. g.scopes[Rank(tree, o) + 1].parent = IF o = 1 THEN -1 ELSE Rank(tree, Encl(tree, o))
    <3>1. o \in Nodes(tree) /\ Opens(tree, o) /\ o <= Len(tree)
      BY <1>2, <1>5
    <3>2. ScopeIs(tree, g, o)
      BY <1>1, <3>1 DEF Explored
    <3> QED BY <3>2 DEF ScopeIs
  <2> QED BY <1>4, <2>1, <2>2 DEF IsClimb
<1> DEFINE FoundFor(o) == IsFound(tree, M(o), from[Rank(tree, o)])
           T == {k \in Nat : \A o \in A : o <= k => FoundFor(o)}
<1>7. \A m \in BindersAround(tree, n) :
        /\ m \in Namesakes(tree, n) /\ BoundOf(tree, m) \in A /\ BoundOf(tree, m) \in Nat
        /\ m \in Identifiers(tree) /\ m \in Nat
  <2>1. \A m \in BindersAround(tree, n) :
          m \in Namesakes(tree, n) /\ BoundOf(tree, m) \in A /\ m \in Identifiers(tree)
    BY DEF BindersAround, Namesakes, A
  <2> QED BY <1>5, <2>1, IdentifiersAre
<1>8. 0 \in T
  <2>1. \A o \in A : ~(o <= 0)
    BY <1>5
  <2> HIDE DEF FoundFor
  <2> QED BY <2>1
<1>9. ASSUME NEW k \in Nat, k \in T PROVE k + 1 \in T
  <2> SUFFICES ASSUME NEW o \in A, o <= k + 1 PROVE FoundFor(o)
    <3> HIDE DEF FoundFor
    <3> QED OBVIOUS
  <2>1. \A p \in A : p < o => FoundFor(p)
    <3>1. \A p \in A : p < o => p <= k
      BY <1>5
    <3> HIDE DEF FoundFor
    <3> QED BY <1>9, <3>1
  <2> DEFINE C == CandidatesIn(g, tree, n, Rank(tree, o))
             B == {m \in Namesakes(tree, n) : BoundOf(tree, m) = o}
  <2>2. \A m : m \in B <=> m \in BindersAround(tree, n) /\ BoundOf(tree, m) = o
    BY <1>7 DEF BindersAround, A
  <2>3. /\ C = {} => B = {}
        /\ C # {} => \E m \in B : (\A j \in B : j <= m) /\ g.bindings[Max(C)] = BindRec(tree, m)
    <3>1. o \in Nodes(tree) /\ Opens(tree, o)
      BY <1>5
    <3> HIDE DEF C, B
    <3>2. C = CandidatesIn(g, tree, n, Rank(tree, o)) /\ B = {m \in Namesakes(tree, n) : BoundOf(tree, m) = o}
      BY DEF C, B
    <3> QED BY <1>1, <3>1, <3>2, CandidatesAre
  <2>4. from[Rank(tree, o)] = IF C # {} THEN g.bindings[Max(C)]
                              ELSE from[IF o = 1 THEN -1 ELSE Rank(tree, Encl(tree, o))]
    BY <1>6
  <2> HIDE DEF B, C
  <2>5. o \in Nat
    BY <1>5
  <2>6. CASE C # {}
    <3>1. PICK m \in B : (\A j \in B : j <= m) /\ g.bindings[Max(C)] = BindRec(tree, m)
      BY <2>3, <2>6
    <3>2. m \in M(o)
      BY <2>2, <2>5, <3>1
    <3>3. IsLast(tree, m, M(o))
      <4> SUFFICES ASSUME NEW j \in M(o)
                   PROVE  /\ BoundOf(tree, j) <= BoundOf(tree, m)
                          /\ BoundOf(tree, j) = BoundOf(tree, m) => j <= m
        BY DEF IsLast
      <4>1. BoundOf(tree, j) <= o /\ BoundOf(tree, m) = o
        BY <2>2, <3>1
      <4>2. BoundOf(tree, j) = o => j \in B
        BY <2>2
      <4> QED BY <3>1, <4>1, <4>2
    <3>4. from[Rank(tree, o)] = BindRec(tree, m)
      BY <2>4, <2>6, <3>1
    <3> QED BY <3>2, <3>3, <3>4 DEF IsFound
  <2>7. CASE C = {} /\ o = 1
    <3>1. M(o) = {}
      <4> SUFFICES ASSUME NEW m \in M(o) PROVE FALSE
        OBVIOUS
      <4>1. BoundOf(tree, m) \in 1 .. n - 1 /\ BoundOf(tree, m) <= 1
        BY <1>5, <1>7, <2>7
      <4>2. BoundOf(tree, m) = o
        BY <2>7, <4>1
      <4> QED BY <2>2, <2>3, <2>7, <4>2
    <3>2. from[Rank(tree, o)] = NoBinding
      BY <1>4, <2>4, <2>7 DEF IsClimb
    <3> QED BY <3>1, <3>2 DEF IsFound
  <2>8. CASE C = {} /\ o # 1
    <3> DEFINE p == Encl(tree, o)
    <3>1. o \in 2 .. Len(tree)
      BY <1>5, <2>8
    <3>2. p \in Around(tree, o) /\ (\A j \in Around(tree, o) : j <= p) /\ p \in 1 .. o - 1
      BY <1>2, <3>1, EnclIs
    <3>3. Around(tree, o) = {j \in A : j < o}
      BY <1>2, AroundOpener DEF A
    <3> HIDE DEF p
    <3>4. p \in A /\ p < o /\ p \in Nat
      BY <2>5, <3>2, <3>3
    <3>5. \A m \in BindersAround(tree, n) : BoundOf(tree, m) <= o <=> BoundOf(tree, m) <= p
      <4> SUFFICES ASSUME NEW m \in BindersAround(tree, n)
                   PROVE  BoundOf(tree, m) <= o <=> BoundOf(tree, m) <= p
        OBVIOUS
      <4>1. BoundOf(tree, m) # o
        BY <2>2, <2>3, <2>8
      <4>2. BoundOf(tree, m) < o => BoundOf(tree, m) <= p
        BY <1>7, <3>2, <3>3
      <4> QED BY <1>7, <2>5, <3>4, <4>1, <4>2
    <3>6. M(o) = M(p)
      BY <3>5
    <3>7. from[Rank(tree, o)] = from[Rank(tree, p)]
      BY <2>4, <2>8 DEF p
    <3>8. FoundFor(p)
      BY <2>1, <3>4
    <3> QED BY <3>6, <3>7, <3>8
  <2> QED BY <2>6, <2>7, <2>8
<1> HIDE DEF T
<1>10. Encl(tree, n) \in T
  <2>1. Encl(tree, n) \in Nat
    BY <1>5
  <2> QED BY <1>8, <1>9, <2>1, SetInduction
<1>11. FoundFor(Encl(tree, n))
  <2>1. Encl(tree, n) \in Nat /\ Encl(tree, n) <= Encl(tree, n)
    BY <1>5
  <2> HIDE DEF FoundFor
  <2> QED BY <1>5, <1>10, <2>1 DEF T
<1>12. M(Encl(tree, n)) = BindersAround(tree, n)
  BY <1>5, <1>7
<1> QED BY <1>4, <1>11, <1>12 DEF g

\* Where an identifier of a phrase is: the name of a function, in a list, mentioned in
\* the body, or what an assignment binds and what else is in its pattern.
ListTypes == {"parameters", "pattern", "match_pattern"}
Named(tree, s, n) ==
  n = s + 1 /\ tree[s].type \in FunctionTypes /\ Is(tree, s + 1, "identifier", "name", s)
Held(tree, s, n, list, p) ==
  /\ tree[list].type \in ListTypes /\ tree[list].parent = s
  /\ tree[n].parent = p /\ tree[p].type \in HoldingTypes /\ tree[n].field # "pat"
  /\ p = list \/ (tree[p].parent = list /\ tree[p].type \notin ListTypes)
Mentions(tree, s, n, body) == IsBody(tree, s, body, n)
Pat(tree, s, n) ==
  /\ n = s + 1
  /\ tree[s].type = "assignment_statement" /\ Is(tree, s + 1, "identifier", "pat", s)
Second(tree, s, n) ==
  /\ n = s + 2 /\ tree[s].type = "assignment_statement"
  /\ Is(tree, s + 1, "identifier", "pat", s) /\ Is(tree, s + 2, "identifier", "pat", s)
IsPlace(tree, s, e, n) ==
  \/ Named(tree, s, n) \/ Pat(tree, s, n) \/ Second(tree, s, n)
  \/ \E list, p \in s + 1 .. e : Held(tree, s, n, list, p)
  \/ \E body \in s + 1 .. e : Mentions(tree, s, n, body)

LEMMA DefinitionIdentifiers ==
  ASSUME NEW tree, NEW s \in Nat, NEW e, IsDefinition(tree, s, e), NEW n \in s + 1 .. e,
         tree[n].type = "identifier"
  PROVE  IsPlace(tree, s, e, n)
<1>1. e = s + 6
  BY DEF IsDefinition
<1>2. n = s + 1 \/ n = s + 2 \/ n = s + 3 \/ n = s + 4 \/ n = s + 5 \/ n = s + 6
  BY <1>1
<1>3. CASE n = s + 1
  <2>1. tree[s].type \in FunctionTypes /\ Is(tree, s + 1, "identifier", "name", s)
    BY DEF IsDefinition, FunctionTypes
  <2> QED BY <1>3, <2>1 DEF IsPlace, Named
<1>4. CASE n = s + 2
  <2>1. tree[s + 2].type # "identifier"
    BY DEF IsDefinition, Is, IsBody
  <2> QED BY <1>4, <2>1
<1>5. CASE n = s + 3
  <2>1. tree[s + 3].type # "identifier"
    BY DEF IsDefinition, Is, IsBody
  <2> QED BY <1>5, <2>1
<1>6. CASE n = s + 4
  <2>1. /\ s + 2 \in s + 1 .. e /\ s + 3 \in s + 1 .. e
    BY <1>1
  <2>2. /\ tree[s + 2].type \in ListTypes /\ tree[s + 2].parent = s
        /\ tree[s + 4].parent = s + 3 /\ tree[s + 3].type \in HoldingTypes
        /\ tree[s + 4].field # "pat"
        /\ tree[s + 3].parent = s + 2 /\ tree[s + 3].type \notin ListTypes
    BY DEF IsDefinition, Is, ListTypes, HoldingTypes
  <2> QED BY <1>6, <2>1, <2>2 DEF IsPlace, Held
<1>7. CASE n = s + 5
  <2>1. tree[s + 5].type # "identifier"
    BY DEF IsDefinition, Is, IsBody
  <2> QED BY <1>7, <2>1
<1>8. CASE n = s + 6
  <2>1. IsBody(tree, s, s + 5, s + 6)
    BY DEF IsDefinition
  <2>2. s + 5 \in s + 1 .. e
    BY <1>1
  <2> QED BY <1>8, <2>1, <2>2 DEF IsPlace, Mentions
<1> QED BY <1>2, <1>3, <1>4, <1>5, <1>6, <1>7, <1>8

LEMMA RuleIdentifiers ==
  ASSUME NEW tree, NEW s \in Nat, NEW e, IsRule(tree, s, e), NEW n \in s + 1 .. e,
         tree[n].type = "identifier"
  PROVE  IsPlace(tree, s, e, n)
<1>1. e = s + 5
  BY DEF IsRule
<1>2. n = s + 1 \/ n = s + 2 \/ n = s + 3 \/ n = s + 4 \/ n = s + 5
  BY <1>1
<1>3. CASE n = s + 1
  <2>1. tree[s].type \in FunctionTypes /\ Is(tree, s + 1, "identifier", "name", s)
    BY DEF IsRule, FunctionTypes
  <2> QED BY <1>3, <2>1 DEF IsPlace, Named
<1>4. CASE n = s + 2
  <2>1. tree[s + 2].type # "identifier"
    BY DEF IsRule, Is, IsBody
  <2> QED BY <1>4, <2>1
<1>5. CASE n = s + 3
  <2>1. /\ s + 2 \in s + 1 .. e /\ s + 2 \in s + 1 .. e
    BY <1>1
  <2>2. /\ tree[s + 2].type \in ListTypes /\ tree[s + 2].parent = s
        /\ tree[s + 3].parent = s + 2 /\ tree[s + 2].type \in HoldingTypes
        /\ tree[s + 3].field # "pat"
    BY DEF IsRule, Is, ListTypes, HoldingTypes
  <2> QED BY <1>5, <2>1, <2>2 DEF IsPlace, Held
<1>6. CASE n = s + 4
  <2>1. tree[s + 4].type # "identifier"
    BY DEF IsRule, Is, IsBody
  <2> QED BY <1>6, <2>1
<1>7. CASE n = s + 5
  <2>1. IsBody(tree, s, s + 4, s + 5)
    BY DEF IsRule
  <2>2. s + 4 \in s + 1 .. e
    BY <1>1
  <2> QED BY <1>7, <2>1, <2>2 DEF IsPlace, Mentions
<1> QED BY <1>2, <1>3, <1>4, <1>5, <1>6, <1>7

LEMMA LambdaIdentifiers ==
  ASSUME NEW tree, NEW s \in Nat, NEW e, IsLambda(tree, s, e), NEW n \in s + 1 .. e,
         tree[n].type = "identifier"
  PROVE  IsPlace(tree, s, e, n)
<1>1. e = s + 5
  BY DEF IsLambda
<1>2. n = s + 1 \/ n = s + 2 \/ n = s + 3 \/ n = s + 4 \/ n = s + 5
  BY <1>1
<1>3. CASE n = s + 1
  <2>1. tree[s + 1].type # "identifier"
    BY DEF IsLambda, Is, IsBody
  <2> QED BY <1>3, <2>1
<1>4. CASE n = s + 2
  <2>1. tree[s + 2].type # "identifier"
    BY DEF IsLambda, Is, IsBody
  <2> QED BY <1>4, <2>1
<1>5. CASE n = s + 3
  <2>1. /\ s + 1 \in s + 1 .. e /\ s + 2 \in s + 1 .. e
    BY <1>1
  <2>2. /\ tree[s + 1].type \in ListTypes /\ tree[s + 1].parent = s
        /\ tree[s + 3].parent = s + 2 /\ tree[s + 2].type \in HoldingTypes
        /\ tree[s + 3].field # "pat"
        /\ tree[s + 2].parent = s + 1 /\ tree[s + 2].type \notin ListTypes
    BY DEF IsLambda, Is, ListTypes, HoldingTypes
  <2> QED BY <1>5, <2>1, <2>2 DEF IsPlace, Held
<1>6. CASE n = s + 4
  <2>1. tree[s + 4].type # "identifier"
    BY DEF IsLambda, Is, IsBody
  <2> QED BY <1>6, <2>1
<1>7. CASE n = s + 5
  <2>1. IsBody(tree, s, s + 4, s + 5)
    BY DEF IsLambda
  <2>2. s + 4 \in s + 1 .. e
    BY <1>1
  <2> QED BY <1>7, <2>1, <2>2 DEF IsPlace, Mentions
<1> QED BY <1>2, <1>3, <1>4, <1>5, <1>6, <1>7

LEMMA FunLambdaIdentifiers ==
  ASSUME NEW tree, NEW s \in Nat, NEW e, IsFunLambda(tree, s, e), NEW n \in s + 1 .. e,
         tree[n].type = "identifier"
  PROVE  IsPlace(tree, s, e, n)
<1>1. e = s + 4
  BY DEF IsFunLambda
<1>2. n = s + 1 \/ n = s + 2 \/ n = s + 3 \/ n = s + 4
  BY <1>1
<1>3. CASE n = s + 1
  <2>1. tree[s + 1].type # "identifier"
    BY DEF IsFunLambda, Is, IsBody
  <2> QED BY <1>3, <2>1
<1>4. CASE n = s + 2
  <2>1. /\ s + 1 \in s + 1 .. e /\ s + 1 \in s + 1 .. e
    BY <1>1
  <2>2. /\ tree[s + 1].type \in ListTypes /\ tree[s + 1].parent = s
        /\ tree[s + 2].parent = s + 1 /\ tree[s + 1].type \in HoldingTypes
        /\ tree[s + 2].field # "pat"
    BY DEF IsFunLambda, Is, ListTypes, HoldingTypes
  <2> QED BY <1>4, <2>1, <2>2 DEF IsPlace, Held
<1>5. CASE n = s + 3
  <2>1. tree[s + 3].type # "identifier"
    BY DEF IsFunLambda, Is, IsBody
  <2> QED BY <1>5, <2>1
<1>6. CASE n = s + 4
  <2>1. IsBody(tree, s, s + 3, s + 4)
    BY DEF IsFunLambda
  <2>2. s + 3 \in s + 1 .. e
    BY <1>1
  <2> QED BY <1>6, <2>1, <2>2 DEF IsPlace, Mentions
<1> QED BY <1>2, <1>3, <1>4, <1>5, <1>6

LEMMA CaseIdentifiers ==
  ASSUME NEW tree, NEW s \in Nat, NEW e, IsCase(tree, s, e), NEW n \in s + 1 .. e,
         tree[n].type = "identifier"
  PROVE  IsPlace(tree, s, e, n)
<1>1. e = s + 4
  BY DEF IsCase
<1>2. n = s + 1 \/ n = s + 2 \/ n = s + 3 \/ n = s + 4
  BY <1>1
<1>3. CASE n = s + 1
  <2>1. tree[s + 1].type # "identifier"
    BY DEF IsCase, Is, IsBody
  <2> QED BY <1>3, <2>1
<1>4. CASE n = s + 2
  <2>1. /\ s + 1 \in s + 1 .. e /\ s + 1 \in s + 1 .. e
    BY <1>1
  <2>2. /\ tree[s + 1].type \in ListTypes /\ tree[s + 1].parent = s
        /\ tree[s + 2].parent = s + 1 /\ tree[s + 1].type \in HoldingTypes
        /\ tree[s + 2].field # "pat"
    BY DEF IsCase, Is, ListTypes, HoldingTypes
  <2> QED BY <1>4, <2>1, <2>2 DEF IsPlace, Held
<1>5. CASE n = s + 3
  <2>1. tree[s + 3].type # "identifier"
    BY DEF IsCase, Is, IsBody
  <2> QED BY <1>5, <2>1
<1>6. CASE n = s + 4
  <2>1. IsBody(tree, s, s + 3, s + 4)
    BY DEF IsCase
  <2>2. s + 3 \in s + 1 .. e
    BY <1>1
  <2> QED BY <1>6, <2>1, <2>2 DEF IsPlace, Mentions
<1> QED BY <1>2, <1>3, <1>4, <1>5, <1>6

LEMMA BendIdentifiers ==
  ASSUME NEW tree, NEW s \in Nat, NEW e, IsBend(tree, s, e), NEW n \in s + 1 .. e,
         tree[n].type = "identifier"
  PROVE  IsPlace(tree, s, e, n)
<1>1. e = s + 2
  BY DEF IsBend
<1>2. n = s + 1 \/ n = s + 2
  BY <1>1
<1>3. CASE n = s + 1
  <2>1. tree[s + 1].type # "identifier"
    BY DEF IsBend, Is, IsBody
  <2> QED BY <1>3, <2>1
<1>4. CASE n = s + 2
  <2>1. IsBody(tree, s, s + 1, s + 2)
    BY DEF IsBend
  <2>2. s + 1 \in s + 1 .. e
    BY <1>1
  <2> QED BY <1>4, <2>1, <2>2 DEF IsPlace, Mentions
<1> QED BY <1>2, <1>3, <1>4

LEMMA AssignmentIdentifiers ==
  ASSUME NEW tree, NEW s \in Nat, NEW e, IsAssignment(tree, s, e), NEW n \in s + 1 .. e,
         tree[n].type = "identifier"
  PROVE  IsPlace(tree, s, e, n)
<1>1. e = s + 3
  BY DEF IsAssignment
<1>2. n = s + 1 \/ n = s + 2 \/ n = s + 3
  BY <1>1
<1>3. CASE n = s + 1
  <2>1. tree[s].type = "assignment_statement" /\ Is(tree, s + 1, "identifier", "pat", s)
    BY DEF IsAssignment
  <2> QED BY <1>3, <2>1 DEF IsPlace, Pat
<1>4. CASE n = s + 2
  <2>1. tree[s + 2].type # "identifier"
    BY DEF IsAssignment, Is, IsBody
  <2> QED BY <1>4, <2>1
<1>5. CASE n = s + 3
  <2>1. IsBody(tree, s, s + 2, s + 3)
    BY DEF IsAssignment
  <2>2. s + 2 \in s + 1 .. e
    BY <1>1
  <2> QED BY <1>5, <2>1, <2>2 DEF IsPlace, Mentions
<1> QED BY <1>2, <1>3, <1>4, <1>5

LEMMA PairAssignmentIdentifiers ==
  ASSUME NEW tree, NEW s \in Nat, NEW e, IsPairAssignment(tree, s, e), NEW n \in s + 1 .. e,
         tree[n].type = "identifier"
  PROVE  IsPlace(tree, s, e, n)
<1>1. e = s + 4
  BY DEF IsPairAssignment
<1>2. n = s + 1 \/ n = s + 2 \/ n = s + 3 \/ n = s + 4
  BY <1>1
<1>3. CASE n = s + 1
  <2>1. tree[s].type = "assignment_statement" /\ Is(tree, s + 1, "identifier", "pat", s)
    BY DEF IsPairAssignment
  <2> QED BY <1>3, <2>1 DEF IsPlace, Pat
<1>4. CASE n = s + 2
  <2>1. /\ tree[s].type = "assignment_statement" /\ Is(tree, s + 1, "identifier", "pat", s)
        /\ Is(tree, s + 2, "identifier", "pat", s)
    BY DEF IsPairAssignment
  <2> QED BY <1>4, <2>1 DEF IsPlace, Second
<1>5. CASE n = s + 3
  <2>1. tree[s + 3].type # "identifier"
    BY DEF IsPairAssignment, Is, IsBody
  <2> QED BY <1>5, <2>1
<1>6. CASE n = s + 4
  <2>1. IsBody(tree, s, s + 3, s + 4)
    BY DEF IsPairAssignment
  <2>2. s + 3 \in s + 1 .. e
    BY <1>1
  <2> QED BY <1>6, <2>1, <2>2 DEF IsPlace, Mentions
<1> QED BY <1>2, <1>3, <1>4, <1>5, <1>6

LEMMA IdentifiersArePlaced ==
  ASSUME NEW tree, NEW s \in Nat, NEW e, IsPhrase(tree, s, e), NEW n \in s + 1 .. e,
         tree[n].type = "identifier"
  PROVE  IsPlace(tree, s, e, n)
BY DefinitionIdentifiers, RuleIdentifiers, LambdaIdentifiers, FunLambdaIdentifiers,
   CaseIdentifiers, BendIdentifiers, AssignmentIdentifiers, PairAssignmentIdentifiers
   DEF IsPhrase

\* The nodes a node is in, and the scope it is in, are those of BindingIsInnermost.
LEMMA AboveIs ==
  ASSUME IsTree(program), NEW n \in 2 .. Len(program)
  PROVE  /\ Above(n) = Above(program[n].parent) \cup {program[n].parent}
         /\ program[n].parent \in 1 .. n - 1
<1> DEFINE p == program[n].parent
<1>1. p \in 1 .. n - 1 /\ Len(program) \in Nat /\ n \in Nat
  BY DEF IsTree
<1>2. \A k \in Nodes(program) : k \in Subtree(program, k) /\ \A m \in Subtree(program, k) : k <= m
  BY SubtreeIs DEF Nodes
<1>3. \A k \in 1 .. n - 1 : n \in Subtree(program, k) <=> p \in Subtree(program, k)
  BY BelowParent
<1> HIDE DEF p
<1>4. \A k \in Nodes(program) : k < n <=> k \in 1 .. n - 1
  BY DEF Nodes
<1>5. p \in Nodes(program)
  BY <1>1 DEF Nodes
<1>6. \A k \in Nodes(program) : k \in Int
  BY DEF Nodes
<1>7. \A k : k \in Above(n) <=> k \in Above(p) \cup {p}
  <2> SUFFICES ASSUME NEW k \in Nodes(program)
               PROVE  k < n /\ n \in Subtree(program, k)
                        <=> (k < p /\ p \in Subtree(program, k)) \/ k = p
    BY <1>5 DEF Above
  <2>1. CASE k = p
    BY <1>1, <1>2, <1>3, <1>5, <2>1
  <2>2. CASE k # p
    BY <1>1, <1>2, <1>3, <1>4, <1>6, <2>2
  <2> QED BY <2>1, <2>2
<1> QED BY <1>1, <1>7 DEF p

LEMMA EnclosingIs ==
  ASSUME IsTree(program), NEW n \in 2 .. Len(program)
  PROVE  Enclosing(n) = Encl(program, n)
<1>1. 1 \in Around(program, n)
  BY EnclIs
<1>2. \A k : k \in Around(program, n) <=> k \in {1} \cup {j \in Above(n) : program[j].type \in Openers}
  <2>1. \A k : k \in 1 .. n - 1 <=> k \in Nodes(program) /\ k < n
    BY DEF IsTree, Nodes
  <2> QED BY <1>1, <2>1 DEF Around, Above, Opens
<1>3. Around(program, n) = {1} \cup {j \in Above(n) : program[j].type \in Openers}
  BY <1>2
<1> QED BY <1>3 DEF Enclosing, Encl

\* No phrase is in a list of parameters or in a pattern.
ListsAbove(n) == {k \in Above(n) : program[k].type \in ListTypes}

LEMMA ListsAboveIs ==
  ASSUME IsTree(program), NEW n \in 2 .. Len(program)
  PROVE  ListsAbove(n) = ListsAbove(program[n].parent)
                         \cup (IF program[program[n].parent].type \in ListTypes
                               THEN {program[n].parent} ELSE {})
BY AboveIs DEF ListsAbove

LEMMA NothingAboveRoot ==
  ASSUME IsTree(program)
  PROVE  ListsAbove(1) = {}
<1>1. \A k \in Nodes(program) : ~(k < 1)
  BY DEF Nodes, IsTree
<1> QED BY <1>1 DEF ListsAbove, Above

LEMMA BodyOfPhrase ==
  ASSUME NEW tree, NEW s \in Nat, NEW e, IsPhrase(tree, s, e), NEW n \in s .. e,
         tree[n].type = "body"
  PROVE  n # s /\ tree[n].parent = s
<1>1. n # s
  BY PhraseIs DEF StartTypes
<1>2. CASE IsDefinition(tree, s, e)
  <2>1. e = s + 6
    BY <1>2 DEF IsDefinition
  <2>2. n \in {s + 1, s + 2, s + 3, s + 4, s + 5, s + 6}
    BY <1>1, <2>1
  <2> QED BY <1>1, <1>2, <2>2 DEF IsDefinition, Is, IsBody
<1>3. CASE IsRule(tree, s, e)
  <2>1. e = s + 5
    BY <1>3 DEF IsRule
  <2>2. n \in {s + 1, s + 2, s + 3, s + 4, s + 5}
    BY <1>1, <2>1
  <2> QED BY <1>1, <1>3, <2>2 DEF IsRule, Is, IsBody
<1>4. CASE IsLambda(tree, s, e)
  <2>1. e = s + 5
    BY <1>4 DEF IsLambda
  <2>2. n \in {s + 1, s + 2, s + 3, s + 4, s + 5}
    BY <1>1, <2>1
  <2> QED BY <1>1, <1>4, <2>2 DEF IsLambda, Is, IsBody
<1>5. CASE IsFunLambda(tree, s, e)
  <2>1. e = s + 4
    BY <1>5 DEF IsFunLambda
  <2>2. n \in {s + 1, s + 2, s + 3, s + 4}
    BY <1>1, <2>1
  <2> QED BY <1>1, <1>5, <2>2 DEF IsFunLambda, Is, IsBody
<1>6. CASE IsCase(tree, s, e)
  <2>1. e = s + 4
    BY <1>6 DEF IsCase
  <2>2. n \in {s + 1, s + 2, s + 3, s + 4}
    BY <1>1, <2>1
  <2> QED BY <1>1, <1>6, <2>2 DEF IsCase, Is, IsBody
<1>7. CASE IsBend(tree, s, e)
  <2>1. e = s + 2
    BY <1>7 DEF IsBend
  <2>2. n \in {s + 1, s + 2}
    BY <1>1, <2>1
  <2> QED BY <1>1, <1>7, <2>2 DEF IsBend, Is, IsBody
<1>8. CASE IsAssignment(tree, s, e)
  <2>1. e = s + 3
    BY <1>8 DEF IsAssignment
  <2>2. n \in {s + 1, s + 2, s + 3}
    BY <1>1, <2>1
  <2> QED BY <1>1, <1>8, <2>2 DEF IsAssignment, Is, IsBody
<1>9. CASE IsPairAssignment(tree, s, e)
  <2>1. e = s + 4
    BY <1>9 DEF IsPairAssignment
  <2>2. n \in {s + 1, s + 2, s + 3, s + 4}
    BY <1>1, <2>1
  <2> QED BY <1>1, <1>9, <2>2 DEF IsPairAssignment, Is, IsBody
<1> QED BY <1>2, <1>3, <1>4, <1>5, <1>6, <1>7, <1>8, <1>9 DEF IsPhrase

LEMMA NoListAbovePhrase ==
  ASSUME IsProgram(program), NEW s \in 2 .. Len(program), NEW e \in s .. Len(program),
         IsPhrase(program, s, e)
  PROVE  ListsAbove(s) = {}
<1> DEFINE Fine(n) == \A f \in n .. Len(program) : IsPhrase(program, n, f) => ListsAbove(n) = {}
           T == {k \in Nat : \A n \in 2 .. Len(program) : n <= k => Fine(n)}
<1>1. 0 \in T
  OBVIOUS
<1>2. ASSUME NEW k \in Nat, k \in T PROVE k + 1 \in T
  <2> SUFFICES ASSUME NEW n \in 2 .. Len(program), n <= k + 1,
                      NEW f \in n .. Len(program), IsPhrase(program, n, f)
               PROVE  ListsAbove(n) = {}
    OBVIOUS
  <2> DEFINE p == program[n].parent
  <2>1. IsTree(program) /\ p \in 1 .. n - 1 /\ Len(program) \in Nat
    BY AboveIs DEF IsProgram, IsTree
  <2>2. program[p].type \in {"source_file", "body"}
    <3>1. PICK s1 \in 2 .. n, e1 \in n .. Len(program) :
            IsPhrase(program, s1, e1) /\ program[program[s1].parent].type \in {"source_file", "body"}
      BY DEF IsProgram
    <3>2. CASE s1 = n
      BY <3>1, <3>2
    <3>3. CASE s1 # n
      <4>1. s1 \in Nat /\ n \in s1 + 1 .. e1 /\ n \in Nat
        BY <3>1, <3>3
      <4>2. program[n].type \in PartTypes
        BY <3>1, <4>1, PhraseIs DEF IsPart
      <4>3. program[n].type \in StartTypes
        BY <4>1, PhraseIs
      <4> QED BY <4>2, <4>3 DEF StartTypes, PartTypes
    <3> QED BY <3>2, <3>3
  <2> HIDE DEF p
  <2>3. ListsAbove(n) = ListsAbove(p)
    <3>1. program[p].type \notin ListTypes
      BY <2>2 DEF ListTypes
    <3> QED BY <2>1, <3>1, ListsAboveIs DEF p
  <2>4. CASE p = 1
    BY <2>1, <2>3, <2>4, NothingAboveRoot
  <2>5. CASE p # 1
    <3>1. p \in 2 .. Len(program)
      BY <2>1, <2>5
    <3>2. PICK s1 \in 2 .. p, e1 \in p .. Len(program) :
            IsPhrase(program, s1, e1) /\ program[program[s1].parent].type \in {"source_file", "body"}
      BY <3>1 DEF IsProgram
    <3>3. s1 \in Nat /\ p \in s1 .. e1 /\ p \in Nat /\ s1 \in 2 .. Len(program) /\ e1 \in s1 .. Len(program)
      BY <2>1, <3>1
    <3>4. program[p].type # "source_file"
      <4>1. program[p].type \in PartTypes \cup StartTypes
        <5>1. CASE p = s1
          BY <3>2, <3>3, <5>1, PhraseIs
        <5>2. CASE p # s1
          <6>1. p \in s1 + 1 .. e1
            BY <3>3, <5>2
          <6> QED BY <3>2, <3>3, <6>1, PhraseIs DEF IsPart
        <5> QED BY <5>1, <5>2
      <4> QED BY <4>1 DEF PartTypes, StartTypes
    <3>5. p # s1 /\ program[p].parent = s1
      BY <2>2, <3>2, <3>3, <3>4, BodyOfPhrase
    <3>6. ListsAbove(p) = ListsAbove(s1)
      <4>1. program[s1].type \notin ListTypes
        BY <3>2, <3>3, PhraseIs DEF StartTypes, ListTypes
      <4> QED BY <2>1, <3>1, <3>5, <4>1, ListsAboveIs
    <3>7. s1 <= k
      BY <2>1, <3>3, <3>5
    <3>8. ListsAbove(s1) = {}
      BY <1>2, <3>2, <3>3, <3>7
    <3> QED BY <2>3, <3>6, <3>8
  <2> QED BY <2>4, <2>5
<1> HIDE DEF T
<1>3. s \in T
  <2>1. s \in Nat
    OBVIOUS
  <2> QED BY <1>1, <1>2, <2>1, SetInduction
<1> QED BY <1>3 DEF T

LEMMA BoundInCases ==
  ASSUME NEW n, NEW p, program[n].parent = p
  PROVE  LET isName == program[n].field = "name" /\ program[p].type \in FunctionTypes
             isPat == n = ChildByFieldName(program, p, "pat")
         IN /\ isName /\ ListsAbove(n) = {} /\ ~isPat => BoundIn(n) = Enclosing(p)
            /\ ~isName /\ ListsAbove(n) # {} /\ ~isPat => BoundIn(n) = Enclosing(Max(ListsAbove(n)))
            /\ ~isName /\ ListsAbove(n) = {} /\ isPat => BoundIn(n) = Enclosing(n)
            /\ ~isName /\ ListsAbove(n) = {} /\ ~isPat => BoundIn(n) = NoNode
<1>1. ListsAbove(n) = {k \in Above(n) : program[k].type \in {"parameters", "pattern", "match_pattern"}}
  BY DEF ListsAbove, ListTypes
<1>2. BoundIn(n)
        = CASE program[n].field = "name" /\ program[p].type \in FunctionTypes -> Enclosing(p)
            [] ListsAbove(n) # {} -> Enclosing(Max(ListsAbove(n)))
            [] n = ChildByFieldName(program, p, "pat") -> Enclosing(n)
            [] OTHER -> NoNode
  BY <1>1 DEF BoundIn
<1> QED BY <1>2

\* A child by a field has the field; the first of the children that have it is it.
LEMMA ByField ==
  ASSUME NEW tree, NEW p, NEW field, Len(tree) \in Nat,
         ChildByFieldName(tree, p, field) # NoNode
  PROVE  LET c == ChildByFieldName(tree, p, field)
         IN  c \in NamedChildren(tree, p) /\ tree[c].field = field
<1> DEFINE C == {m \in NamedChildren(tree, p) : tree[m].field = field}
<1>1. C # {} /\ ChildByFieldName(tree, p, field) = Min(C)
  BY DEF ChildByFieldName, First
<1>2. \A m \in C : m \in Nat
  BY DEF NamedChildren, Nodes
<1> HIDE DEF C
<1>3. PICK m \in C : \A k \in C : m <= k
  <2>1. C \subseteq Nat
    BY <1>2
  <2> QED BY <1>1, <2>1, SmallestOf
<1>4. Min(C) = m
  BY <1>2, <1>3 DEF Min
<1> QED BY <1>1, <1>3, <1>4 DEF C

LEMMA FirstByField ==
  ASSUME NEW tree, IsTree(tree), NEW s \in Nat, NEW field, s + 1 \in Nodes(tree),
         tree[s + 1].parent = s, tree[s + 1].field = field
  PROVE  ChildByFieldName(tree, s, field) = s + 1
<1> DEFINE C == {m \in NamedChildren(tree, s) : tree[m].field = field}
<1>1. s + 1 \in C
  BY DEF NamedChildren
<1>2. \A m \in C : m \in Nat /\ s + 1 <= m
  <2> SUFFICES ASSUME NEW m \in C PROVE m \in Nat /\ s + 1 <= m
    OBVIOUS
  <2>1. m \in 1 .. Len(tree) /\ tree[m].parent = s /\ Len(tree) \in Nat /\ 1 <= s + 1
    BY DEF NamedChildren, Nodes, IsTree
  <2>2. tree[s + 1].parent = s /\ (s + 1 \in 2 .. Len(tree) => s \in Nat)
    OBVIOUS
  <2>3. CASE m = 1
    <3>1. s = 0
      BY <2>1, <2>3 DEF IsTree
    <3> QED BY <2>3, <3>1
  <2>4. CASE m # 1
    <3>1. m \in 2 .. Len(tree)
      BY <2>1, <2>4
    <3>2. s \in 1 .. m - 1
      BY <2>1, <3>1 DEF IsTree
    <3> QED BY <2>1, <3>2
  <2> QED BY <2>3, <2>4
<1> DEFINE c == s + 1
<1>3. C # {} /\ ChildByFieldName(tree, s, field) = Min(C)
  BY <1>1 DEF ChildByFieldName, First
<1>4. c \in C /\ \A m \in C : m \in Nat /\ c <= m
  BY <1>1, <1>2
<1> HIDE DEF C, c
<1>5. Min(C) = c
  BY <1>4 DEF Min
<1> QED BY <1>3, <1>5 DEF c

\* What the shape of the tree says an identifier binds.
LEMMA BoundInIs ==
  ASSUME IsProgram(program), NEW n \in Identifiers(program)
  PROVE  BoundIn(n) = IF Binds(program, n) THEN BoundOf(program, n) ELSE NoNode
<1>1. /\ IsTree(program) /\ Len(program) \in Nat /\ n \in 2 .. Len(program)
      /\ program[n].type = "identifier"
  BY IdentifiersAre DEF IsProgram, IsTree, Identifiers
<1>2. PICK s \in 2 .. n, e \in n .. Len(program) : IsPhrase(program, s, e)
  BY <1>1 DEF IsProgram
<1>3. s \in Nat /\ s \in 2 .. Len(program) /\ e \in s .. Len(program)
  BY <1>1
<1>4. program[s].type \in StartTypes /\ program[s].type \notin ListTypes
  BY <1>2, <1>3, PhraseIs DEF StartTypes, ListTypes
<1>5. s # n
  BY <1>1, <1>4 DEF StartTypes
<1>6. n \in s + 1 .. e /\ n \in Nat
  BY <1>1, <1>3, <1>5
<1>7. IsPlace(program, s, e, n)
  BY <1>1, <1>2, <1>3, <1>6, IdentifiersArePlaced
<1>8. ListsAbove(s) = {}
  BY <1>2, <1>3, NoListAbovePhrase
<1>9. \A field : program[n].field # field => ChildByFieldName(program, program[n].parent, field) # n
  BY <1>1, <1>6, ByField DEF NoNode
<1>10. program[n].parent = s => ListsAbove(n) = {}
  BY <1>1, <1>4, <1>8, ListsAboveIs
<1>11. s + 1 \in Nodes(program) /\ s + 1 = n => n - 1 = s
  BY <1>1, <1>3, <1>6 DEF Nodes
<1>12. CASE Named(program, s, n)
  <2>1. n = s + 1 /\ Is(program, s + 1, "identifier", "name", s) /\ program[s].type \in FunctionTypes
    BY <1>12 DEF Named
  <2>2. program[n].field = "name" /\ program[n].parent = s
    BY <2>1 DEF Is
  <2>3. BoundIn(n) = Enclosing(s)
    <3>1. n # ChildByFieldName(program, s, "pat")
      BY <1>9, <2>2
    <3> QED BY <1>10, <2>1, <2>2, <3>1, BoundInCases
  <2>4. Binds(program, s + 1) /\ BoundOf(program, s + 1) = Encl(program, s)
    BY <1>3, <2>1, OuterIs DEF NamingTypes
  <2> QED BY <1>1, <1>3, <2>1, <2>3, <2>4, EnclosingIs
<1>13. CASE Pat(program, s, n)
  <2>1. n = s + 1 /\ Is(program, s + 1, "identifier", "pat", s) /\ program[s].type = "assignment_statement"
    BY <1>13 DEF Pat
  <2>2. program[n].field = "pat" /\ program[n].parent = s
    BY <2>1 DEF Is
  <2>3. n = ChildByFieldName(program, s, "pat")
    <3>1. s + 1 \in Nodes(program)
      BY <1>1, <2>1 DEF Nodes
    <3>2. program[s + 1].parent = s /\ program[s + 1].field = "pat"
      BY <2>1 DEF Is
    <3> QED BY <1>1, <1>3, <2>1, <3>1, <3>2, FirstByField
  <2>4. BoundIn(n) = Enclosing(n)
    BY <1>10, <2>2, <2>3, BoundInCases
  <2>5. Binds(program, s + 1) /\ BoundOf(program, s + 1) = Encl(program, s)
    BY <1>3, <2>1, OuterIs DEF NamingTypes
  <2>6. Encl(program, n) = Encl(program, s)
    <3>1. ~Opens(program, s)
      BY <1>3, <2>1 DEF Opens, Openers, FunctionTypes, LambdaTypes, ArmTypes
    <3>2. Encl(program, n) = Near(program, s)
      BY <1>1, <1>2, <1>3, <1>6, EnclInPhrase
    <3> QED BY <3>1, <3>2 DEF Near
  <2> QED BY <1>1, <2>1, <2>4, <2>5, <2>6, EnclosingIs
<1>14. CASE Second(program, s, n)
  <2>1. /\ n = s + 2 /\ program[s].type = "assignment_statement"
        /\ Is(program, s + 1, "identifier", "pat", s) /\ Is(program, s + 2, "identifier", "pat", s)
    BY <1>14 DEF Second
  <2>2. program[n].field = "pat" /\ program[n].parent = s
    BY <2>1 DEF Is
  <2>3. n # ChildByFieldName(program, s, "pat")
    <3>1. s + 1 \in Nodes(program) /\ s + 1 # n
      BY <1>1, <1>3, <2>1 DEF Nodes
    <3>2. program[s + 1].parent = s /\ program[s + 1].field = "pat"
      BY <2>1 DEF Is
    <3>3. ChildByFieldName(program, s, "pat") = s + 1
      BY <1>1, <1>3, <3>1, <3>2, FirstByField
    <3> QED BY <3>1, <3>3
  <2>4. BoundIn(n) = NoNode
    BY <1>10, <2>2, <2>3, BoundInCases
  <2>5. ~Binds(program, n)
    <3>1. Is(program, n, "identifier", "pat", s) /\ s # n - 1
      BY <1>3, <2>1
    <3>2. program[s].type \notin HoldingTypes
      BY <2>1 DEF HoldingTypes
    <3> QED BY <1>3, <1>6, <3>1, <3>2, NoBinder
  <2> QED BY <2>4, <2>5
<1>15. ASSUME NEW list \in s + 1 .. e, NEW p \in s + 1 .. e, Held(program, s, n, list, p)
       PROVE  BoundIn(n) = IF Binds(program, n) THEN BoundOf(program, n) ELSE NoNode
  <2>1. /\ program[list].type \in ListTypes /\ program[list].parent = s
        /\ program[n].parent = p /\ program[p].type \in HoldingTypes /\ program[n].field # "pat"
        /\ p = list \/ (program[p].parent = list /\ program[p].type \notin ListTypes)
    BY <1>15 DEF Held
  <2>2. list \in 2 .. Len(program) /\ p \in 2 .. Len(program) /\ list \in Nat /\ p \in Nat
    BY <1>1, <1>3
  <2>3. ListsAbove(list) = {}
    BY <1>1, <1>4, <1>8, <2>1, <2>2, ListsAboveIs
  <2>4. ListsAbove(n) = {list}
    <3>1. CASE p = list
      BY <1>1, <2>1, <2>3, <3>1, ListsAboveIs
    <3>2. CASE program[p].parent = list /\ program[p].type \notin ListTypes
      <4>1. ListsAbove(p) = {list}
        BY <1>1, <2>1, <2>2, <2>3, <3>2, ListsAboveIs
      <4> QED BY <1>1, <2>1, <3>2, <4>1, ListsAboveIs
    <3> QED BY <2>1, <3>1, <3>2
  <2>5. Max({list}) = list
    BY <2>2 DEF Max
  <2>6. BoundIn(n) = Enclosing(list)
    <3>1. n # ChildByFieldName(program, p, "pat")
      BY <1>9, <2>1
    <3>2. program[p].type \notin FunctionTypes
      BY <2>1 DEF HoldingTypes, FunctionTypes
    <3>3. ListsAbove(n) # {} /\ Max(ListsAbove(n)) = list
      BY <2>4, <2>5
    <3>4. BoundIn(n) = Enclosing(Max(ListsAbove(n)))
      BY <2>1, <3>1, <3>2, <3>3, BoundInCases
    <3> QED BY <3>3, <3>4
  <2>7. Encl(program, list) = Encl(program, n)
    BY <1>1, <1>2, <1>3, <1>6, EnclInPhrase
  <2>8. Binds(program, n) /\ BoundOf(program, n) = Encl(program, n)
    <3>1. Is(program, n, "identifier", program[n].field, p)
      BY <1>1, <2>1 DEF Is
    <3> QED BY <1>6, <2>1, <2>2, <3>1, InnerIs
  <2> QED BY <1>1, <2>2, <2>6, <2>7, <2>8, EnclosingIs
<1>16. ASSUME NEW body \in s + 1 .. e, Mentions(program, s, n, body)
       PROVE  BoundIn(n) = IF Binds(program, n) THEN BoundOf(program, n) ELSE NoNode
  <2>1. Is(program, body, "body", "", s) /\ Is(program, n, "identifier", "", body)
    BY <1>16 DEF Mentions, IsBody
  <2>2. body \in 2 .. Len(program) /\ body \in Nat
    BY <1>1, <1>3
  <2>3. ListsAbove(n) = {}
    <3>1. ListsAbove(body) = {}
      BY <1>1, <1>4, <1>8, <2>1, <2>2, ListsAboveIs DEF Is
    <3>2. program[body].type \notin ListTypes
      BY <2>1 DEF Is, ListTypes
    <3> QED BY <1>1, <2>1, <3>1, <3>2, ListsAboveIs DEF Is
  <2>4. program[n].field # "pat" /\ program[n].field # "name" /\ program[n].parent = body
    BY <2>1 DEF Is
  <2>5. BoundIn(n) = NoNode
    <3>1. n # ChildByFieldName(program, body, "pat")
      BY <1>9, <2>4
    <3> QED BY <2>3, <2>4, <3>1, BoundInCases
  <2>6. ~Binds(program, n)
    <3>1. program[body].type \notin HoldingTypes /\ program[body].type \notin NamingTypes
      BY <2>1 DEF Is, HoldingTypes, NamingTypes, FunctionTypes
    <3> QED BY <1>6, <2>1, <2>2, <3>1, NoBinder
  <2> QED BY <2>5, <2>6
<1> QED BY <1>7, <1>12, <1>13, <1>14, <1>15, <1>16 DEF IsPlace

\* The binders of BindingIsInnermost are those that bindingAt finds.
LEMMA BindersAre ==
  ASSUME IsProgram(program), NEW n \in Identifiers(program),
         NEW boundIn, boundIn = [m \in Identifiers(program) |-> BoundIn(m)]
  PROVE  /\ {m \in Identifiers(program) :
               m <= n /\ program[m].name = program[n].name /\ boundIn[m] \in Above(n)}
             = BindersAround(program, n)
         /\ \A m \in BindersAround(program, n) : boundIn[m] = BoundOf(program, m)
<1>1. n \in 2 .. Len(program) /\ n \in Nat /\ Len(program) \in Nat
  BY IdentifiersAre DEF IsProgram, IsTree
<1>2. \A k : k \in 1 .. n - 1 <=> k \in Nodes(program) /\ k < n
  BY <1>1 DEF Nodes
<1>3. ASSUME NEW m \in Identifiers(program)
      PROVE  boundIn[m] \in Above(n) <=> Binds(program, m) /\ BoundOf(program, m) \in Around(program, n)
  <2>1. boundIn[m] = IF Binds(program, m) THEN BoundOf(program, m) ELSE NoNode
    BY BoundInIs
  <2>2. NoNode \notin Above(n)
    BY DEF Above, Nodes, NoNode
  <2>3. Binds(program, m) => Opens(program, BoundOf(program, m))
    BY BoundOfIs
  <2> QED BY <1>2, <2>1, <2>2, <2>3 DEF Above, Around
<1>4. ASSUME NEW m \in Identifiers(program), Binds(program, m)
      PROVE  boundIn[m] = BoundOf(program, m)
  BY <1>4, BoundInIs
<1> QED BY <1>3, <1>4 DEF BindersAround, Namesakes

\* The binder of BindingIsInnermost is the last of the innermost.
LEMMA LexicalBinderIs ==
  ASSUME IsProgram(program), NEW n \in Identifiers(program),
         NEW boundIn, boundIn = [m \in Identifiers(program) |-> BoundIn(m)]
  PROVE  /\ BindersAround(program, n) = {} => LexicalBinder(boundIn, n) = NoNode
         /\ \A m \in BindersAround(program, n) :
              IsLast(program, m, BindersAround(program, n)) => LexicalBinder(boundIn, n) = m
<1> DEFINE B == BindersAround(program, n)
<1>1. LexicalBinder(boundIn, n)
        = IF B = {} THEN NoNode
          ELSE Max({m \in B : boundIn[m] = Max({boundIn[j] : j \in B})})
  <2> DEFINE C == {m \in Identifiers(program) :
                     m <= n /\ program[m].name = program[n].name /\ boundIn[m] \in Above(n)}
  <2>1. C = B
    BY BindersAre
  <2>2. LexicalBinder(boundIn, n)
          = IF C = {} THEN NoNode
            ELSE Max({m \in C : boundIn[m] = Max({boundIn[j] : j \in C})})
    BY Zenon DEF LexicalBinder
  <2> HIDE DEF B, C
  <2> QED BY <2>1, <2>2
<1>2. \A m \in B : boundIn[m] = BoundOf(program, m)
  BY BindersAre
<1>3. \A m \in B : m \in Nat /\ boundIn[m] \in Nat
  <2> SUFFICES ASSUME NEW m \in B PROVE m \in Nat /\ boundIn[m] \in Nat
    OBVIOUS
  <2>1. m \in Identifiers(program) /\ Binds(program, m)
    BY DEF BindersAround, Namesakes
  <2> QED BY <1>2, <2>1, IdentifiersAre, BoundOfIs
<1> SUFFICES ASSUME NEW m \in B, IsLast(program, m, B)
             PROVE  LexicalBinder(boundIn, n) = m
  BY <1>1
<1> HIDE DEF B
<1>4. \A k \in B : boundIn[k] <= boundIn[m] /\ (boundIn[k] = boundIn[m] => k <= m)
  BY <1>2 DEF IsLast
<1>5. Max({boundIn[j] : j \in B}) = boundIn[m]
  <2> DEFINE S == {boundIn[j] : j \in B}
  <2>1. boundIn[m] \in S /\ \A x \in S : x \in Nat /\ x <= boundIn[m]
    BY <1>3, <1>4
  <2> HIDE DEF S
  <2>2. Max(S) = boundIn[m]
    BY <2>1 DEF Max
  <2> QED BY <2>2 DEF S
<1>6. Max({k \in B : boundIn[k] = boundIn[m]}) = m
  <2> DEFINE S == {k \in B : boundIn[k] = boundIn[m]}
  <2>1. m \in S /\ \A x \in S : x \in Nat /\ x <= m
    BY <1>3, <1>4
  <2> HIDE DEF S
  <2>2. Max(S) = m
    BY <2>1 DEF Max
  <2> QED BY <2>2 DEF S
<1> QED BY <1>1, <1>5, <1>6

\* Both find the same binder, in every program with short lines.
LEMMA ProgramsBindInnermost ==
  ASSUME IsProgram(program), AreShort(program)
  PROVE  BindingIsInnermost
<1> DEFINE boundIn == [m \in Identifiers(program) |-> BoundIn(m)]
<1>1. ASSUME NEW n \in Identifiers(program), NEW f, f = boundIn
      PROVE  LET binder == LexicalBinder(f, n)
                 found == BindingAt(BuildScopes(program), program, n)
             IN IF binder = NoNode THEN found = NoBinding
                ELSE found.range = NodeRange(program, binder)
  <2> DEFINE found == BindingAt(BuildScopes(program), program, n)
             B == BindersAround(program, n)
  <2>1. IsFound(program, B, found)
    BY BindingAtIs
  <2>2. f = [m \in Identifiers(program) |-> BoundIn(m)]
    BY <1>1
  <2>3. /\ B = {} => LexicalBinder(f, n) = NoNode
        /\ \A m \in B : IsLast(program, m, B) => LexicalBinder(f, n) = m
    <3> HIDE DEF found
    <3> QED BY <2>2, LexicalBinderIs
  <2> HIDE DEF found, B
  <2>4. CASE B = {} /\ found = NoBinding
    BY <2>3, <2>4 DEF found
  <2>5. ASSUME NEW m \in B, IsLast(program, m, B), found = BindRec(program, m)
        PROVE  LexicalBinder(f, n) = m /\ m # NoNode /\ found.range = NodeRange(program, m)
    <3>1. m \in Identifiers(program)
      BY DEF B, BindersAround, Namesakes
    <3>2. m # NoNode
      BY <3>1, IdentifiersAre DEF NoNode
    <3> QED BY <2>3, <2>5, <3>2 DEF BindRec
  <2> QED BY <2>1, <2>4, <2>5 DEF IsFound, found
<1>2. boundIn = [m \in Identifiers(program) |-> BoundIn(m)]
  OBVIOUS
<1> HIDE DEF boundIn
<1>3. \A n \in Identifiers(program) :
        LET binder == LexicalBinder(boundIn, n)
            found == BindingAt(BuildScopes(program), program, n)
        IN IF binder = NoNode THEN found = NoBinding
           ELSE found.range = NodeRange(program, binder)
  BY <1>1
<1> QED BY <1>2, <1>3 DEF BindingIsInnermost

-----------------------------------------------------------------------------
(***************************************************************************)
(* A program that grows at its end remains one.                            *)
(***************************************************************************)
IsShaped(phrase, L) ==
  /\ L \in 1 .. 7 /\ DOMAIN phrase = 1 .. L
  /\ phrase[1].up = 0
  /\ \A i \in 2 .. L : /\ phrase[i].up \in 1 .. i - 1
                       /\ \A k \in 2 .. i : k > phrase[i].up => phrase[k].up >= phrase[i].up
  /\ \A i \in 1 .. L : phrase[i].name # "new"

IsSequence(s) == \E S : s \in Seq(S)

IsNode(node) == DOMAIN node = {"type", "field", "parent", "name", "at"}

LEMMA RecordIsNode ==
  ASSUME NEW type, NEW field, NEW name, NEW parent, NEW at
  PROVE  IsNode([type |-> type, field |-> field, name |-> name, parent |-> parent, at |-> at])
  BY DEF IsNode

IsRightOf(at, start, i) ==
  at \in Positions /\ at.line = start.line /\ at.character = start.character + i - 1

\* What a tree extended by a phrase is, node by node.
IsExtended(T, tree, phrase, L, parent, start) ==
  /\ IsSequence(T) /\ Len(T) = Len(tree) + L
  /\ \A n \in 1 .. Len(tree) : T[n] = tree[n]
  /\ \A i \in 1 .. L :
       /\ T[Len(tree) + i].type = phrase[i].type
       /\ T[Len(tree) + i].field = phrase[i].field
       /\ T[Len(tree) + i].name = phrase[i].name
       /\ T[Len(tree) + i].parent = IF phrase[i].up = 0 THEN parent ELSE Len(tree) + phrase[i].up
       /\ IsRightOf(T[Len(tree) + i].at, start, i)
       /\ IsNode(T[Len(tree) + i])

IsConcatenation(r, s, t, L) ==
  /\ IsSequence(r) /\ Len(r) = Len(s) + L
  /\ \A n \in 1 .. Len(s) : r[n] = s[n]
  /\ \A i \in 1 .. L : r[Len(s) + i] = t[i]

LEMMA ConcatenationIs ==
  ASSUME NEW s, IsSequence(s), NEW L \in Nat, NEW R, NEW t \in [1 .. L -> R]
  PROVE  IsConcatenation(s \o t, s, t, L)
<1>1. PICK S : s \in Seq(S)
  BY DEF IsSequence
<1> DEFINE S2 == S \cup R
<1>3. t \in [1 .. L -> S2]
  OBVIOUS
<1>5. s \in Seq(S2)
  BY <1>1
<1> HIDE DEF S2
<1>4. t \in Seq(S2) /\ Len(t) = L
  BY <1>3, FunctionIsSeq
<1>6. s \o t \in Seq(S2) /\ Len(s \o t) = Len(s) + L
  BY <1>4, <1>5
<1>7. ASSUME NEW i \in 1 .. L, NEW n, n = Len(s) + i PROVE (s \o t)[n] = t[i]
  <2>1. Len(s) \in Nat /\ n \in 1 .. Len(s) + Len(t) /\ n > Len(s) /\ n - Len(s) = i
    BY <1>4, <1>5, <1>7
  <2>2. (s \o t)[n] = t[n - Len(s)]
    BY <1>4, <1>5, <2>1
  <2> QED BY <2>1, <2>2
<1>9. \A i \in 1 .. L : (s \o t)[Len(s) + i] = t[i]
  BY <1>7
<1>8. ASSUME NEW n \in 1 .. Len(s) PROVE (s \o t)[n] = s[n]
  BY <1>4, <1>5
<1>10. IsSequence(s \o t)
  BY <1>6 DEF IsSequence
<1> QED BY <1>6, <1>8, <1>9, <1>10 DEF IsConcatenation

LEMMA ExtendedIs ==
  ASSUME NEW tree, IsSequence(tree), Len(tree) >= 1, tree[Len(tree)].at \in Positions,
         NEW phrase, NEW L \in Nat, DOMAIN phrase = 1 .. L, NEW parent, NEW newline \in BOOLEAN
  PROVE  \E start \in Positions :
           /\ IsExtended(Extended(tree, phrase, parent, newline), tree, phrase, L, parent, start)
           /\ StartsBefore(tree[Len(tree)].at, start)
           /\ start.character <= tree[Len(tree)].at.character + 2
<1> DEFINE last == tree[Len(tree)].at
           start == IF newline THEN [line |-> last.line + 1, character |-> 0]
                    ELSE [last EXCEPT !.character = @ + 2]
           t == [i \in DOMAIN phrase |->
                  [type |-> phrase[i].type, field |-> phrase[i].field, name |-> phrase[i].name,
                   parent |-> IF phrase[i].up = 0 THEN parent ELSE Len(tree) + phrase[i].up,
                   at |-> [start EXCEPT !.character = @ + i - 1]]]
<1>1. Extended(tree, phrase, parent, newline) = tree \o t
  BY DEF Extended
<1>2. /\ start \in Positions /\ StartsBefore(last, start)
      /\ start.character <= last.character + 2
  BY DEF Positions, StartsBefore
<1>3. PICK R : t \in [1 .. L -> R]
  <2> DEFINE R == {t[i] : i \in 1 .. L}
  <2> DOMAIN t = 1 .. L /\ t \in [1 .. L -> R]
    OBVIOUS
  <2> HIDE DEF R
  <2> QED OBVIOUS
<1>4. \A i \in 1 .. L :
        /\ t[i].type = phrase[i].type /\ t[i].field = phrase[i].field /\ t[i].name = phrase[i].name
        /\ t[i].parent = IF phrase[i].up = 0 THEN parent ELSE Len(tree) + phrase[i].up
        /\ t[i].at = [start EXCEPT !.character = @ + i - 1]
  OBVIOUS
<1>8. \A i \in 1 .. L : IsNode(t[i])
  BY RecordIsNode
<1> HIDE DEF t, start
<1>5. \A i \in 1 .. L : IsRightOf([start EXCEPT !.character = @ + i - 1], start, i)
  BY <1>2 DEF Positions, IsRightOf
<1> HIDE DEF last
<1>6. /\ IsSequence(tree \o t) /\ Len(tree \o t) = Len(tree) + L
      /\ \A n \in 1 .. Len(tree) : (tree \o t)[n] = tree[n]
      /\ \A i \in 1 .. L : (tree \o t)[Len(tree) + i] = t[i]
  <2>1. PICK u \in [1 .. L -> R] : u = t
    BY <1>3
  <2>2. IsConcatenation(tree \o u, tree, u, L)
    <3>1. IsSequence(tree) /\ L \in Nat /\ u \in [1 .. L -> R]
      OBVIOUS
    <3> QED BY <3>1, ConcatenationIs
  <2> QED BY <2>1, <2>2 DEF IsConcatenation
<1>7. IsExtended(tree \o t, tree, phrase, L, parent, start)
  BY <1>4, <1>5, <1>6, <1>8 DEF IsExtended
<1> QED BY <1>1, <1>2, <1>7 DEF last

LEMMA SubtreeBy ==
  ASSUME NEW tree, Len(tree) \in Nat, NEW n \in 1 .. Len(tree), NEW m \in n .. Len(tree)
  PROVE  m \in Subtree(tree, n) <=> \A k \in n + 1 .. m : tree[k].parent >= n
BY DEF Subtree

LEMMA ExtendedIsTree ==
  ASSUME NEW tree, IsTree(tree), NEW phrase, NEW L, IsShaped(phrase, L),
         NEW parent \in 1 .. Len(tree), Len(tree) \in Subtree(tree, parent),
         NEW start \in Positions, StartsBefore(tree[Len(tree)].at, start),
         NEW T, IsExtended(T, tree, phrase, L, parent, start)
  PROVE  IsTree(T)
<1> DEFINE N == Len(tree)
<1>1. N \in Nat \ {0} /\ L \in 1 .. 7 /\ Len(T) = N + L /\ Len(T) \in Nat \ {0}
  BY DEF IsTree, IsShaped, IsExtended
<1>2. /\ \A n \in 1 .. N : T[n] = tree[n]
      /\ \A i \in 1 .. L : /\ T[N + i].parent = IF phrase[i].up = 0 THEN parent ELSE N + phrase[i].up
                           /\ IsRightOf(T[N + i].at, start, i)
  BY DEF IsExtended
<1>13. ASSUME NEW n, NEW i \in 1 .. L, n = N + i
       PROVE  /\ T[n].parent = IF phrase[i].up = 0 THEN parent ELSE N + phrase[i].up
              /\ IsRightOf(T[n].at, start, i)
  BY <1>2, <1>13
<1>3. \A n \in 1 .. Len(T) : n \in 1 .. N \/ \E i \in 1 .. L : n = N + i
  <2> SUFFICES ASSUME NEW n \in 1 .. Len(T), ~(n \in 1 .. N) PROVE \E i \in 1 .. L : n = N + i
    OBVIOUS
  <2> n - N \in 1 .. L /\ n = N + (n - N)
    BY <1>1
  <2> QED OBVIOUS
<1>4. /\ \A n \in 2 .. N : tree[n].parent \in 1 .. n - 1 /\ n \in Subtree(tree, tree[n].parent)
      /\ \A n \in 1 .. N : tree[n].at \in Positions
      /\ \A m, n \in 1 .. N : m < n => StartsBefore(tree[m].at, tree[n].at)
      /\ tree[1].parent = 0
  BY DEF IsTree
<1>5. /\ phrase[1].up = 0
      /\ \A i \in 2 .. L : /\ phrase[i].up \in 1 .. i - 1
                           /\ \A k \in 2 .. i : k > phrase[i].up => phrase[k].up >= phrase[i].up
  BY DEF IsShaped
<1>6. ASSUME NEW m \in 1 .. N, NEW n \in m .. N PROVE n \in Subtree(T, m) <=> n \in Subtree(tree, m)
  <2>1. n \in m .. Len(T) /\ m \in 1 .. Len(T) /\ n \in m .. N /\ Len(tree) \in Nat
    BY <1>1
  <2>2. \A k \in m + 1 .. n : T[k] = tree[k]
    BY <1>1, <1>2
  <2> HIDE DEF N
  <2>3. N = Len(tree) /\ m + 1 .. n = m + 1 .. n
    BY DEF N
  <2>4. m \in 1 .. Len(tree) /\ n \in m .. Len(tree)
    BY <2>3
  <2>5. n \in Subtree(T, m) <=> \A k \in m + 1 .. n : T[k].parent >= m
    BY ONLY <1>1, <2>1, SubtreeBy
  <2>6. n \in Subtree(tree, m) <=> \A k \in m + 1 .. n : tree[k].parent >= m
    BY ONLY <2>1, <2>4, SubtreeBy
  <2> QED BY <2>2, <2>5, <2>6
<1>7. ASSUME NEW n \in 2 .. Len(T)
      PROVE  T[n].parent \in 1 .. n - 1 /\ n \in Subtree(T, T[n].parent)
  <2>1. CASE n \in 1 .. N
    <3>1. n \in 2 .. N /\ T[n].parent = tree[n].parent
      BY <1>2, <2>1
    <3>2. tree[n].parent \in 1 .. n - 1 /\ n \in Subtree(tree, tree[n].parent)
      BY <1>4, <3>1
    <3>3. tree[n].parent \in 1 .. N /\ n \in tree[n].parent .. N
      BY <1>1, <3>1, <3>2
    <3> QED BY <1>6, <3>1, <3>2, <3>3
  <2>2. ASSUME NEW i \in 1 .. L, n = N + i
        PROVE  T[n].parent \in 1 .. n - 1 /\ n \in Subtree(T, T[n].parent)
    <3>1. CASE i = 1
      <4>1. T[n].parent = parent /\ n = N + 1
        BY <1>2, <1>5, <2>2, <3>1
      <4>2. parent \in 1 .. n - 1 /\ parent \in 1 .. Len(T) /\ n \in parent .. Len(T) /\ N \in parent .. N
        BY <1>1, <4>1
      <4>3. \A k \in parent + 1 .. n : T[k].parent >= parent
        <5> SUFFICES ASSUME NEW k \in parent + 1 .. n PROVE T[k].parent >= parent
          OBVIOUS
        <5>1. CASE k = n
          BY <4>1, <5>1
        <5>2. CASE k # n
          <6>1. k \in parent + 1 .. N /\ k \in 1 .. N
            BY <1>1, <4>1, <5>2
          <6>2. tree[k].parent >= parent
            BY <1>1, <4>2, <6>1, SubtreeBy
          <6> QED BY <1>2, <6>1, <6>2
        <5> QED BY <5>1, <5>2
      <4> QED BY <1>1, <4>1, <4>2, <4>3, SubtreeBy
    <3>2. CASE i # 1
      <4> DEFINE u == phrase[i].up
      <4>1. i \in 2 .. L /\ u \in 1 .. i - 1 /\ \A k \in 2 .. i : k > u => phrase[k].up >= u
        BY <1>1, <1>5, <3>2
      <4>2. T[n].parent = N + u
        <5>1. phrase[i].up # 0
          BY <4>1
        <5> QED BY <1>13, <2>2, <5>1
      <4> HIDE DEF u
      <4>3. N + u \in 1 .. n - 1 /\ N + u \in 1 .. Len(T) /\ n \in N + u .. Len(T)
        BY <1>1, <2>2, <4>1
      <4>4. \A k \in (N + u) + 1 .. n : T[k].parent >= N + u
        <5> SUFFICES ASSUME NEW k \in (N + u) + 1 .. n PROVE T[k].parent >= N + u
          OBVIOUS
        <5> DEFINE j == k - N
        <5>4. N \in Nat /\ k \in Int /\ u \in Nat /\ u >= 1 /\ k >= (N + u) + 1 /\ k <= N + i
          BY <1>1, <2>2, <4>1
        <5>5. k = N + j /\ j \in Int /\ j > u /\ j <= i
          BY <5>4
        <5>1. k = N + j /\ j \in 2 .. i /\ j > u /\ j \in 1 .. L /\ j \in 2 .. L
          BY <1>1, <4>1, <5>4, <5>5
        <5> HIDE DEF j
        <5>2. phrase[j].up >= u /\ phrase[j].up \in 1 .. j - 1
          BY <1>5, <4>1, <5>1
        <5>3. T[k].parent = N + phrase[j].up
          <6>1. phrase[j].up # 0
            BY <5>1, <5>2
          <6> QED BY <1>13, <5>1, <6>1
        <5> QED BY <1>1, <4>1, <5>1, <5>2, <5>3
      <4> DEFINE q == N + u
      <4> HIDE DEF q
      <4>5. q \in 1 .. Len(T) /\ n \in q .. Len(T) /\ \A k \in q + 1 .. n : T[k].parent >= q
        BY <4>3, <4>4 DEF q
      <4>6. n \in Subtree(T, q)
        BY <1>1, <4>5, SubtreeBy
      <4> QED BY <4>2, <4>3, <4>6 DEF q
    <3> QED BY <3>1, <3>2
  <2> QED BY <1>3, <2>1, <2>2
<1>8. /\ start.line \in Nat /\ start.character \in Nat
      /\ \A i \in 1 .. L : start.character + i - 1 \in Nat
  BY <1>1 DEF Positions
<1>9. \A n \in 1 .. Len(T) : T[n].at \in Positions
  <2> SUFFICES ASSUME NEW n \in 1 .. Len(T) PROVE T[n].at \in Positions
    OBVIOUS
  <2>1. CASE n \in 1 .. N
    BY <1>2, <1>4, <2>1
  <2>2. ASSUME NEW i \in 1 .. L, n = N + i PROVE T[n].at \in Positions
    BY <1>13, <2>2 DEF IsRightOf
  <2> QED BY <1>3, <2>1, <2>2
<1>10. \A m \in 1 .. N : tree[m].at = tree[N].at \/ StartsBefore(tree[m].at, tree[N].at)
  <2> SUFFICES ASSUME NEW m \in 1 .. N, m # N PROVE StartsBefore(tree[m].at, tree[N].at)
    OBVIOUS
  <2> m < N /\ N \in 1 .. N
    BY <1>1
  <2> QED BY <1>4
<1>11. ASSUME NEW m \in 1 .. Len(T), NEW n \in 1 .. Len(T), m < n
       PROVE  StartsBefore(T[m].at, T[n].at)
  <2>1. CASE n \in 1 .. N
    <3> m \in 1 .. N
      BY <1>1, <1>11, <2>1
    <3> QED BY <1>2, <1>4, <1>11, <2>1
  <2>2. ASSUME NEW i \in 1 .. L, n = N + i, m \in 1 .. N PROVE StartsBefore(T[m].at, T[n].at)
    <3>1. T[m].at \in Positions /\ tree[N].at \in Positions
      BY <1>1, <1>4, <1>9
    <3>2. T[m].at = tree[N].at \/ StartsBefore(T[m].at, tree[N].at)
      BY <1>2, <1>10, <2>2
    <3>3. T[n].at.line = start.line /\ T[n].at.character = start.character + i - 1
      BY <1>13, <2>2 DEF IsRightOf
    <3>4. start.character <= start.character + i - 1
      BY <1>8
    <3>5. StartsBefore(tree[N].at, T[n].at)
      BY <1>8, <3>1, <3>3, <3>4 DEF StartsBefore, Positions
    <3>6. T[n].at \in Positions
      BY <1>9
    <3> DEFINE a == T[m].at
               b == tree[N].at
               c == T[n].at
    <3>7. a \in Positions /\ b \in Positions /\ c \in Positions
      BY <3>1, <3>6
    <3>8. a = b \/ StartsBefore(a, b)
      BY <3>2
    <3>9. StartsBefore(b, c)
      BY <3>5
    <3> HIDE DEF a, b, c
    <3>10. StartsBefore(a, c)
      BY ONLY <3>7, <3>8, <3>9 DEF StartsBefore, Positions
    <3> QED BY <3>10 DEF a, c
  <2>3. ASSUME NEW i \in 1 .. L, n = N + i, NEW j \in 1 .. L, m = N + j
        PROVE  StartsBefore(T[m].at, T[n].at)
    <3>1. /\ T[n].at.line = start.line /\ T[n].at.character = start.character + i - 1
          /\ T[m].at.line = start.line /\ T[m].at.character = start.character + j - 1
      BY <1>13, <2>3 DEF IsRightOf
    <3>2. j < i
      BY <1>1, <1>11, <2>3
    <3>3. start.character + j - 1 < start.character + i - 1
      BY <1>8, <3>2
    <3> QED BY <3>1, <3>3 DEF StartsBefore
  <2> QED BY <1>3, <2>1, <2>2, <2>3
<1>12. T[1].parent = 0
  BY <1>1, <1>2, <1>4
<1> QED BY <1>1, <1>7, <1>9, <1>11, <1>12 DEF IsTree

\* Trees whose nodes are alike, but for names and places, have the same phrases.
AreAlike(a, b) == a.type = b.type /\ a.field = b.field /\ a.parent = b.parent

LEMMA SameDefinition ==
  ASSUME NEW tree, NEW other, NEW s \in Nat, NEW e, IsDefinition(tree, s, e),
         \A n \in s .. e : AreAlike(other[n], tree[n])
  PROVE  IsDefinition(other, s, e)
<1>1. e = s + 6
  BY DEF IsDefinition
<1>2. /\ s \in s .. e
      /\ s + 1 \in s .. e
      /\ s + 2 \in s .. e
      /\ s + 3 \in s .. e
      /\ s + 4 \in s .. e
      /\ s + 5 \in s .. e
      /\ s + 6 \in s .. e
  BY <1>1
<1>3. /\ AreAlike(other[s], tree[s])
      /\ AreAlike(other[s + 1], tree[s + 1])
      /\ AreAlike(other[s + 2], tree[s + 2])
      /\ AreAlike(other[s + 3], tree[s + 3])
      /\ AreAlike(other[s + 4], tree[s + 4])
      /\ AreAlike(other[s + 5], tree[s + 5])
      /\ AreAlike(other[s + 6], tree[s + 6])
  BY <1>2
<1>4. IsBody(other, s, s + 5, s + 6)
  BY <1>3 DEF IsDefinition, Is, IsBody, AreAlike
<1>5. /\ Is(other, s + 1, "identifier", "name", s)
      /\ Is(other, s + 2, "parameters", "parameters", s)
      /\ Is(other, s + 3, "parameter", "", s + 2)
      /\ Is(other, s + 4, "identifier", "name", s + 3)
  BY <1>3 DEF IsDefinition, Is, AreAlike
<1>6. other[s].type = "imp_function_definition"
  BY <1>3 DEF IsDefinition, AreAlike
<1> QED BY <1>1, <1>4, <1>5, <1>6 DEF IsDefinition

LEMMA SameRule ==
  ASSUME NEW tree, NEW other, NEW s \in Nat, NEW e, IsRule(tree, s, e),
         \A n \in s .. e : AreAlike(other[n], tree[n])
  PROVE  IsRule(other, s, e)
<1>1. e = s + 5
  BY DEF IsRule
<1>2. /\ s \in s .. e
      /\ s + 1 \in s .. e
      /\ s + 2 \in s .. e
      /\ s + 3 \in s .. e
      /\ s + 4 \in s .. e
      /\ s + 5 \in s .. e
  BY <1>1
<1>3. /\ AreAlike(other[s], tree[s])
      /\ AreAlike(other[s + 1], tree[s + 1])
      /\ AreAlike(other[s + 2], tree[s + 2])
      /\ AreAlike(other[s + 3], tree[s + 3])
      /\ AreAlike(other[s + 4], tree[s + 4])
      /\ AreAlike(other[s + 5], tree[s + 5])
  BY <1>2
<1> QED BY <1>3 DEF IsRule, Is, IsBody, AreAlike

LEMMA SameLambda ==
  ASSUME NEW tree, NEW other, NEW s \in Nat, NEW e, IsLambda(tree, s, e),
         \A n \in s .. e : AreAlike(other[n], tree[n])
  PROVE  IsLambda(other, s, e)
<1>1. e = s + 5
  BY DEF IsLambda
<1>2. /\ s \in s .. e
      /\ s + 1 \in s .. e
      /\ s + 2 \in s .. e
      /\ s + 3 \in s .. e
      /\ s + 4 \in s .. e
      /\ s + 5 \in s .. e
  BY <1>1
<1>3. /\ AreAlike(other[s], tree[s])
      /\ AreAlike(other[s + 1], tree[s + 1])
      /\ AreAlike(other[s + 2], tree[s + 2])
      /\ AreAlike(other[s + 3], tree[s + 3])
      /\ AreAlike(other[s + 4], tree[s + 4])
      /\ AreAlike(other[s + 5], tree[s + 5])
  BY <1>2
<1> QED BY <1>3 DEF IsLambda, Is, IsBody, AreAlike

LEMMA SameFunLambda ==
  ASSUME NEW tree, NEW other, NEW s \in Nat, NEW e, IsFunLambda(tree, s, e),
         \A n \in s .. e : AreAlike(other[n], tree[n])
  PROVE  IsFunLambda(other, s, e)
<1>1. e = s + 4
  BY DEF IsFunLambda
<1>2. /\ s \in s .. e
      /\ s + 1 \in s .. e
      /\ s + 2 \in s .. e
      /\ s + 3 \in s .. e
      /\ s + 4 \in s .. e
  BY <1>1
<1>3. /\ AreAlike(other[s], tree[s])
      /\ AreAlike(other[s + 1], tree[s + 1])
      /\ AreAlike(other[s + 2], tree[s + 2])
      /\ AreAlike(other[s + 3], tree[s + 3])
      /\ AreAlike(other[s + 4], tree[s + 4])
  BY <1>2
<1> QED BY <1>3 DEF IsFunLambda, Is, IsBody, AreAlike

LEMMA SameCase ==
  ASSUME NEW tree, NEW other, NEW s \in Nat, NEW e, IsCase(tree, s, e),
         \A n \in s .. e : AreAlike(other[n], tree[n])
  PROVE  IsCase(other, s, e)
<1>1. e = s + 4
  BY DEF IsCase
<1>2. /\ s \in s .. e
      /\ s + 1 \in s .. e
      /\ s + 2 \in s .. e
      /\ s + 3 \in s .. e
      /\ s + 4 \in s .. e
  BY <1>1
<1>3. /\ AreAlike(other[s], tree[s])
      /\ AreAlike(other[s + 1], tree[s + 1])
      /\ AreAlike(other[s + 2], tree[s + 2])
      /\ AreAlike(other[s + 3], tree[s + 3])
      /\ AreAlike(other[s + 4], tree[s + 4])
  BY <1>2
<1> QED BY <1>3 DEF IsCase, Is, IsBody, AreAlike

LEMMA SameBend ==
  ASSUME NEW tree, NEW other, NEW s \in Nat, NEW e, IsBend(tree, s, e),
         \A n \in s .. e : AreAlike(other[n], tree[n])
  PROVE  IsBend(other, s, e)
<1>1. e = s + 2
  BY DEF IsBend
<1>2. /\ s \in s .. e
      /\ s + 1 \in s .. e
      /\ s + 2 \in s .. e
  BY <1>1
<1>3. /\ AreAlike(other[s], tree[s])
      /\ AreAlike(other[s + 1], tree[s + 1])
      /\ AreAlike(other[s + 2], tree[s + 2])
  BY <1>2
<1> QED BY <1>3 DEF IsBend, Is, IsBody, AreAlike

LEMMA SameAssignment ==
  ASSUME NEW tree, NEW other, NEW s \in Nat, NEW e, IsAssignment(tree, s, e),
         \A n \in s .. e : AreAlike(other[n], tree[n])
  PROVE  IsAssignment(other, s, e)
<1>1. e = s + 3
  BY DEF IsAssignment
<1>2. /\ s \in s .. e
      /\ s + 1 \in s .. e
      /\ s + 2 \in s .. e
      /\ s + 3 \in s .. e
  BY <1>1
<1>3. /\ AreAlike(other[s], tree[s])
      /\ AreAlike(other[s + 1], tree[s + 1])
      /\ AreAlike(other[s + 2], tree[s + 2])
      /\ AreAlike(other[s + 3], tree[s + 3])
  BY <1>2
<1> QED BY <1>3 DEF IsAssignment, Is, IsBody, AreAlike

LEMMA SamePairAssignment ==
  ASSUME NEW tree, NEW other, NEW s \in Nat, NEW e, IsPairAssignment(tree, s, e),
         \A n \in s .. e : AreAlike(other[n], tree[n])
  PROVE  IsPairAssignment(other, s, e)
<1>1. e = s + 4
  BY DEF IsPairAssignment
<1>2. /\ s \in s .. e
      /\ s + 1 \in s .. e
      /\ s + 2 \in s .. e
      /\ s + 3 \in s .. e
      /\ s + 4 \in s .. e
  BY <1>1
<1>3. /\ AreAlike(other[s], tree[s])
      /\ AreAlike(other[s + 1], tree[s + 1])
      /\ AreAlike(other[s + 2], tree[s + 2])
      /\ AreAlike(other[s + 3], tree[s + 3])
      /\ AreAlike(other[s + 4], tree[s + 4])
  BY <1>2
<1> QED BY <1>3 DEF IsPairAssignment, Is, IsBody, AreAlike

LEMMA SamePhrase ==
  ASSUME NEW tree, NEW other, NEW s \in Nat, NEW e, IsPhrase(tree, s, e),
         \A n \in s .. e : AreAlike(other[n], tree[n])
  PROVE  IsPhrase(other, s, e)
BY SameDefinition, SameRule, SameLambda, SameFunLambda, SameCase, SameBend, SameAssignment,
   SamePairAssignment DEF IsPhrase

\* Each phrase that is typed is one.
IsBeforeBody(r, front, k, n, first) ==
  /\ DOMAIN r = 1 .. n
  /\ \A i \in 1 .. k : r[i] = front[i]
  /\ \A i : i = k + 1 => r[i] = Node("body", "", 1)
  /\ \A i : i = k + 2 => r[i] = Identifier("", first, Mentioned)

Has(node, type, field, up, name) ==
  node.type = type /\ node.field = field /\ node.up = up /\ node.name = name

LEMMA NodeHas ==
  ASSUME NEW node, NEW type, NEW field, NEW up, node = Node(type, field, up)
  PROVE  Has(node, type, field, up, "")
BY DEF Node, Has

LEMMA IdentifierHas ==
  ASSUME NEW node, NEW field, NEW up, NEW name, node = Identifier(field, up, name)
  PROVE  Has(node, "identifier", field, up, name)
BY DEF Identifier, Has

LEMMA BeforeBody ==
  ASSUME NEW front, IsSequence(front), NEW k \in Nat, Len(front) = k,
         NEW n, n = k + 2, NEW first
  PROVE  IsBeforeBody(front \o Body(first), front, k, n, first)
<1>1. /\ DOMAIN Body(first) = 1 .. 2
      /\ Body(first)[1] = Node("body", "", 1) /\ Body(first)[2] = Identifier("", first, Mentioned)
  BY DEF Body
<1>2. PICK R : Body(first) \in [1 .. 2 -> R]
  <2> DEFINE a == Node("body", "", 1)
             b == Identifier("", first, Mentioned)
             R == {a, b}
  <2>1. Body(first) = <<a, b>>
    BY DEF Body
  <2> HIDE DEF a, b
  <2>2. <<a, b>> \in [1 .. 2 -> R]
    OBVIOUS
  <2> QED BY <2>1, <2>2
<1>3. IsConcatenation(front \o Body(first), front, Body(first), 2)
  BY <1>2, ConcatenationIs
<1> DEFINE r == front \o Body(first)
<1> HIDE DEF r
<1>4. DOMAIN r = 1 .. n /\ Len(r) = n
  BY <1>3 DEF IsConcatenation, IsSequence, r
<1>5. /\ \A i \in 1 .. k : r[i] = front[i]
      /\ \A i \in 1 .. 2 : \A j : j = k + i => r[j] = Body(first)[i]
  BY <1>3 DEF IsConcatenation, r
<1>6. /\ \A i : i = k + 1 => r[i] = Node("body", "", 1)
      /\ \A i : i = k + 2 => r[i] = Identifier("", first, Mentioned)
  <2>1. 1 \in 1 .. 2 /\ 2 \in 1 .. 2
    OBVIOUS
  <2>2. /\ \A i : i = k + 1 => r[i] = Body(first)[1]
        /\ \A i : i = k + 2 => r[i] = Body(first)[2]
    BY <1>5, <2>1
  <2> QED BY <1>1, <2>2
<1> QED BY <1>4, <1>5, <1>6 DEF IsBeforeBody, r

LEMMA NodeOfExtended ==
  ASSUME NEW T, NEW tree, NEW phrase, NEW L, NEW parent, NEW start,
         IsExtended(T, tree, phrase, L, parent, start),
         NEW i \in 1 .. L, NEW n, n = Len(tree) + i
  PROVE  /\ T[n].type = phrase[i].type /\ T[n].field = phrase[i].field
         /\ \A up \in Nat \ {0} : phrase[i].up = up => T[n].parent = Len(tree) + up
BY DEF IsExtended

LEMMA DefinitionNodes ==
  ASSUME NEW f, NEW x
  PROVE  LET p == Definition(f, x)
         IN  /\ DOMAIN p = 1 .. 7
             /\ p[1] = Node("imp_function_definition", "", 0)
             /\ p[2] = Identifier("name", 1, f)
             /\ p[3] = Node("parameters", "parameters", 1)
             /\ p[4] = Node("parameter", "", 3)
             /\ p[5] = Identifier("name", 4, x)
             /\ p[6] = Node("body", "", 1)
             /\ p[7] = Identifier("", 6, Mentioned)
<1> DEFINE front == <<Node("imp_function_definition", "", 0), Identifier("name", 1, f), Node("parameters", "parameters", 1), Node("parameter", "", 3), Identifier("name", 4, x)>>
<1>1. IsSequence(front) /\ Len(front) = 5
  <2> DEFINE S == {Node("imp_function_definition", "", 0), Identifier("name", 1, f), Node("parameters", "parameters", 1), Node("parameter", "", 3), Identifier("name", 4, x)}
  <2>1. front \in Seq(S)
    OBVIOUS
  <2> HIDE DEF S
  <2>2. IsSequence(front)
    BY <2>1 DEF IsSequence
  <2> QED BY <2>2
<1>2. /\ front[1] = Node("imp_function_definition", "", 0)
      /\ front[2] = Identifier("name", 1, f)
      /\ front[3] = Node("parameters", "parameters", 1)
      /\ front[4] = Node("parameter", "", 3)
      /\ front[5] = Identifier("name", 4, x)
  OBVIOUS
<1>3. Definition(f, x) = front \o Body(6)
  BY DEF Definition
<1> HIDE DEF front
<1>4. IsBeforeBody(front \o Body(6), front, 5, 7, 6)
  <2>1. \A k \in Nat : \A n, first :
          Len(front) = k /\ n = k + 2 => IsBeforeBody(front \o Body(first), front, k, n, first)
    BY <1>1, BeforeBody
  <2> QED BY <1>1, <2>1
<1> DEFINE c == Definition(f, x)
<1>6. IsBeforeBody(c, front, 5, 7, 6)
  BY <1>3, <1>4
<1> HIDE DEF c
<1>7. 1 \in 1 .. 5 /\ 2 \in 1 .. 5 /\ 3 \in 1 .. 5 /\ 4 \in 1 .. 5 /\ 5 \in 1 .. 5 /\ 6 = 5 + 1 /\ 7 = 5 + 2
  OBVIOUS
<1>5. /\ DOMAIN c = 1 .. 7
      /\ c[1] = front[1]
      /\ c[2] = front[2]
      /\ c[3] = front[3]
      /\ c[4] = front[4]
      /\ c[5] = front[5]
      /\ c[6] = Node("body", "", 1)
      /\ c[7] = Identifier("", 6, Mentioned)
  BY <1>6, <1>7 DEF IsBeforeBody
<1> QED BY <1>2, <1>5 DEF c

LEMMA DefinitionShape ==
  ASSUME NEW f, f # "new", NEW x, x # "new", Mentioned # "new"
  PROVE  /\ IsShaped(Definition(f, x), 7)
         /\ \A T, tree, parent, start :
              Len(tree) \in Nat /\ IsExtended(T, tree, Definition(f, x), 7, parent, start)
                => IsPhrase(T, Len(tree) + 1, Len(tree) + 7)
<1> DEFINE p == Definition(f, x)
<1>1. /\ DOMAIN p = 1 .. 7
      /\ p[1] = Node("imp_function_definition", "", 0)
      /\ p[2] = Identifier("name", 1, f)
      /\ p[3] = Node("parameters", "parameters", 1)
      /\ p[4] = Node("parameter", "", 3)
      /\ p[5] = Identifier("name", 4, x)
      /\ p[6] = Node("body", "", 1)
      /\ p[7] = Identifier("", 6, Mentioned)
  BY DefinitionNodes
<1> HIDE DEF p
<1>7. /\ Has(p[1], "imp_function_definition", "", 0, "")
      /\ Has(p[2], "identifier", "name", 1, f)
      /\ Has(p[3], "parameters", "parameters", 1, "")
      /\ Has(p[4], "parameter", "", 3, "")
      /\ Has(p[5], "identifier", "name", 4, x)
      /\ Has(p[6], "body", "", 1, "")
      /\ Has(p[7], "identifier", "", 6, Mentioned)
  BY <1>1, NodeHas, IdentifierHas
<1>2. p[1].up = 0 /\ p[2].up = 1 /\ p[3].up = 1 /\ p[4].up = 3 /\ p[5].up = 4 /\ p[6].up = 1 /\ p[7].up = 6
  BY <1>7 DEF Has
<1>3. /\ p[1].name # "new"
      /\ p[2].name # "new"
      /\ p[3].name # "new"
      /\ p[4].name # "new"
      /\ p[5].name # "new"
      /\ p[6].name # "new"
      /\ p[7].name # "new"
  BY <1>7 DEF Has
<1>4. \A i \in 1 .. 7 : i = 1 \/ i = 2 \/ i = 3 \/ i = 4 \/ i = 5 \/ i = 6 \/ i = 7
  OBVIOUS
<1>5. IsShaped(p, 7)
  <2>1. \A i \in 2 .. 7 : \A k \in 2 .. i : k > p[i].up => p[k].up >= p[i].up
    BY <1>2, <1>4
  <2>2. \A i \in 2 .. 7 : p[i].up \in 1 .. i - 1
    BY <1>2, <1>4
  <2>3. \A i \in 1 .. 7 : p[i].name # "new"
    BY <1>3, <1>4
  <2>4. 7 \in 1 .. 7 /\ p[1].up = 0
    BY <1>2
  <2> QED BY <1>1, <2>1, <2>2, <2>3, <2>4 DEF IsShaped
<1>6. ASSUME NEW T, NEW tree, NEW parent, NEW start, Len(tree) \in Nat,
             IsExtended(T, tree, p, 7, parent, start)
      PROVE  IsPhrase(T, Len(tree) + 1, Len(tree) + 7)
  <2> DEFINE s == Len(tree) + 1
  <2>0. \A i \in 1 .. 7 : \A n : n = Len(tree) + i =>
          /\ T[n].type = p[i].type /\ T[n].field = p[i].field
          /\ \A up \in Nat \ {0} : p[i].up = up => T[n].parent = Len(tree) + up
    BY <1>6, NodeOfExtended
  <2>1. T[s].type = "imp_function_definition"
    <3>1. 1 \in 1 .. 7 /\ s = Len(tree) + 1
      OBVIOUS
    <3>2. p[1].type = "imp_function_definition"
      BY <1>7 DEF Has
    <3> HIDE DEF s
    <3> QED BY <2>0, <3>1, <3>2
  <2>2. Is(T, s + 1, "identifier", "name", s)
    <3>1. s + 1 = Len(tree) + 2 /\ s = Len(tree) + 1
      BY <1>6
    <3>2. p[2].type = "identifier" /\ p[2].field = "name" /\ p[2].up = 1
      BY <1>7 DEF Has
    <3>3. 2 \in 1 .. 7 /\ 1 \in Nat \ {0}
      OBVIOUS
    <3> DEFINE n == s + 1
               q == s
    <3> HIDE DEF s
    <3>4. n = Len(tree) + 2 /\ q = Len(tree) + 1
      BY <3>1
    <3> HIDE DEF n, q
    <3>5. T[n].type = p[2].type /\ T[n].field = p[2].field /\ T[n].parent = q
      BY <2>0, <3>2, <3>3, <3>4
    <3>7. Is(T, n, "identifier", "name", q)
      BY <3>2, <3>5 DEF Is
    <3> QED BY <3>7 DEF n, q
  <2>3. Is(T, s + 2, "parameters", "parameters", s)
    <3>1. s + 2 = Len(tree) + 3 /\ s = Len(tree) + 1
      BY <1>6
    <3>2. p[3].type = "parameters" /\ p[3].field = "parameters" /\ p[3].up = 1
      BY <1>7 DEF Has
    <3>3. 3 \in 1 .. 7 /\ 1 \in Nat \ {0}
      OBVIOUS
    <3> DEFINE n == s + 2
               q == s
    <3> HIDE DEF s
    <3>4. n = Len(tree) + 3 /\ q = Len(tree) + 1
      BY <3>1
    <3> HIDE DEF n, q
    <3>5. T[n].type = p[3].type /\ T[n].field = p[3].field /\ T[n].parent = q
      BY <2>0, <3>2, <3>3, <3>4
    <3>7. Is(T, n, "parameters", "parameters", q)
      BY <3>2, <3>5 DEF Is
    <3> QED BY <3>7 DEF n, q
  <2>4. Is(T, s + 3, "parameter", "", s + 2)
    <3>1. s + 3 = Len(tree) + 4 /\ s + 2 = Len(tree) + 3
      BY <1>6
    <3>2. p[4].type = "parameter" /\ p[4].field = "" /\ p[4].up = 3
      BY <1>7 DEF Has
    <3>3. 4 \in 1 .. 7 /\ 3 \in Nat \ {0}
      OBVIOUS
    <3> DEFINE n == s + 3
               q == s + 2
    <3> HIDE DEF s
    <3>4. n = Len(tree) + 4 /\ q = Len(tree) + 3
      BY <3>1
    <3> HIDE DEF n, q
    <3>5. T[n].type = p[4].type /\ T[n].field = p[4].field /\ T[n].parent = q
      BY <2>0, <3>2, <3>3, <3>4
    <3>7. Is(T, n, "parameter", "", q)
      BY <3>2, <3>5 DEF Is
    <3> QED BY <3>7 DEF n, q
  <2>5. Is(T, s + 4, "identifier", "name", s + 3)
    <3>1. s + 4 = Len(tree) + 5 /\ s + 3 = Len(tree) + 4
      BY <1>6
    <3>2. p[5].type = "identifier" /\ p[5].field = "name" /\ p[5].up = 4
      BY <1>7 DEF Has
    <3>3. 5 \in 1 .. 7 /\ 4 \in Nat \ {0}
      OBVIOUS
    <3> DEFINE n == s + 4
               q == s + 3
    <3> HIDE DEF s
    <3>4. n = Len(tree) + 5 /\ q = Len(tree) + 4
      BY <3>1
    <3> HIDE DEF n, q
    <3>5. T[n].type = p[5].type /\ T[n].field = p[5].field /\ T[n].parent = q
      BY <2>0, <3>2, <3>3, <3>4
    <3>7. Is(T, n, "identifier", "name", q)
      BY <3>2, <3>5 DEF Is
    <3> QED BY <3>7 DEF n, q
  <2>6. Is(T, s + 5, "body", "", s)
    <3>1. s + 5 = Len(tree) + 6 /\ s = Len(tree) + 1
      BY <1>6
    <3>2. p[6].type = "body" /\ p[6].field = "" /\ p[6].up = 1
      BY <1>7 DEF Has
    <3>3. 6 \in 1 .. 7 /\ 1 \in Nat \ {0}
      OBVIOUS
    <3> DEFINE n == s + 5
               q == s
    <3> HIDE DEF s
    <3>4. n = Len(tree) + 6 /\ q = Len(tree) + 1
      BY <3>1
    <3> HIDE DEF n, q
    <3>5. T[n].type = p[6].type /\ T[n].field = p[6].field /\ T[n].parent = q
      BY <2>0, <3>2, <3>3, <3>4
    <3>7. Is(T, n, "body", "", q)
      BY <3>2, <3>5 DEF Is
    <3> QED BY <3>7 DEF n, q
  <2>7. Is(T, s + 6, "identifier", "", s + 5)
    <3>1. s + 6 = Len(tree) + 7 /\ s + 5 = Len(tree) + 6
      BY <1>6
    <3>2. p[7].type = "identifier" /\ p[7].field = "" /\ p[7].up = 6
      BY <1>7 DEF Has
    <3>3. 7 \in 1 .. 7 /\ 6 \in Nat \ {0}
      OBVIOUS
    <3> DEFINE n == s + 6
               q == s + 5
    <3> HIDE DEF s
    <3>4. n = Len(tree) + 7 /\ q = Len(tree) + 6
      BY <3>1
    <3> HIDE DEF n, q
    <3>5. T[n].type = p[7].type /\ T[n].field = p[7].field /\ T[n].parent = q
      BY <2>0, <3>2, <3>3, <3>4
    <3>7. Is(T, n, "identifier", "", q)
      BY <3>2, <3>5 DEF Is
    <3> QED BY <3>7 DEF n, q
  <2>8. Len(tree) + 7 = s + 6
    BY <1>6
  <2> HIDE DEF s
  <2>9. IsDefinition(T, s, s + 6)
    BY <2>1, <2>2, <2>3, <2>4, <2>5, <2>6, <2>7 DEF IsDefinition, IsBody
  <2> QED BY <2>8, <2>9 DEF IsPhrase, s
<1> QED BY <1>5, <1>6 DEF p

LEMMA RuleNodes ==
  ASSUME NEW f, NEW x
  PROVE  LET p == Rule(f, x)
         IN  /\ DOMAIN p = 1 .. 6
             /\ p[1] = Node("fun_function_definition", "", 0)
             /\ p[2] = Identifier("name", 1, f)
             /\ p[3] = Node("pattern", "", 1)
             /\ p[4] = Identifier("", 3, x)
             /\ p[5] = Node("body", "", 1)
             /\ p[6] = Identifier("", 5, Mentioned)
<1> DEFINE front == <<Node("fun_function_definition", "", 0), Identifier("name", 1, f), Node("pattern", "", 1), Identifier("", 3, x)>>
<1>1. IsSequence(front) /\ Len(front) = 4
  <2> DEFINE S == {Node("fun_function_definition", "", 0), Identifier("name", 1, f), Node("pattern", "", 1), Identifier("", 3, x)}
  <2>1. front \in Seq(S)
    OBVIOUS
  <2> HIDE DEF S
  <2>2. IsSequence(front)
    BY <2>1 DEF IsSequence
  <2> QED BY <2>2
<1>2. /\ front[1] = Node("fun_function_definition", "", 0)
      /\ front[2] = Identifier("name", 1, f)
      /\ front[3] = Node("pattern", "", 1)
      /\ front[4] = Identifier("", 3, x)
  OBVIOUS
<1>3. Rule(f, x) = front \o Body(5)
  BY DEF Rule
<1> HIDE DEF front
<1>4. IsBeforeBody(front \o Body(5), front, 4, 6, 5)
  <2>1. \A k \in Nat : \A n, first :
          Len(front) = k /\ n = k + 2 => IsBeforeBody(front \o Body(first), front, k, n, first)
    BY <1>1, BeforeBody
  <2> QED BY <1>1, <2>1
<1> DEFINE c == Rule(f, x)
<1>6. IsBeforeBody(c, front, 4, 6, 5)
  BY <1>3, <1>4
<1> HIDE DEF c
<1>7. 1 \in 1 .. 4 /\ 2 \in 1 .. 4 /\ 3 \in 1 .. 4 /\ 4 \in 1 .. 4 /\ 5 = 4 + 1 /\ 6 = 4 + 2
  OBVIOUS
<1>5. /\ DOMAIN c = 1 .. 6
      /\ c[1] = front[1]
      /\ c[2] = front[2]
      /\ c[3] = front[3]
      /\ c[4] = front[4]
      /\ c[5] = Node("body", "", 1)
      /\ c[6] = Identifier("", 5, Mentioned)
  BY <1>6, <1>7 DEF IsBeforeBody
<1> QED BY <1>2, <1>5 DEF c

LEMMA RuleShape ==
  ASSUME NEW f, f # "new", NEW x, x # "new", Mentioned # "new"
  PROVE  /\ IsShaped(Rule(f, x), 6)
         /\ \A T, tree, parent, start :
              Len(tree) \in Nat /\ IsExtended(T, tree, Rule(f, x), 6, parent, start)
                => IsPhrase(T, Len(tree) + 1, Len(tree) + 6)
<1> DEFINE p == Rule(f, x)
<1>1. /\ DOMAIN p = 1 .. 6
      /\ p[1] = Node("fun_function_definition", "", 0)
      /\ p[2] = Identifier("name", 1, f)
      /\ p[3] = Node("pattern", "", 1)
      /\ p[4] = Identifier("", 3, x)
      /\ p[5] = Node("body", "", 1)
      /\ p[6] = Identifier("", 5, Mentioned)
  BY RuleNodes
<1> HIDE DEF p
<1>7. /\ Has(p[1], "fun_function_definition", "", 0, "")
      /\ Has(p[2], "identifier", "name", 1, f)
      /\ Has(p[3], "pattern", "", 1, "")
      /\ Has(p[4], "identifier", "", 3, x)
      /\ Has(p[5], "body", "", 1, "")
      /\ Has(p[6], "identifier", "", 5, Mentioned)
  BY <1>1, NodeHas, IdentifierHas
<1>2. p[1].up = 0 /\ p[2].up = 1 /\ p[3].up = 1 /\ p[4].up = 3 /\ p[5].up = 1 /\ p[6].up = 5
  BY <1>7 DEF Has
<1>3. /\ p[1].name # "new"
      /\ p[2].name # "new"
      /\ p[3].name # "new"
      /\ p[4].name # "new"
      /\ p[5].name # "new"
      /\ p[6].name # "new"
  BY <1>7 DEF Has
<1>4. \A i \in 1 .. 6 : i = 1 \/ i = 2 \/ i = 3 \/ i = 4 \/ i = 5 \/ i = 6
  OBVIOUS
<1>5. IsShaped(p, 6)
  <2>1. \A i \in 2 .. 6 : \A k \in 2 .. i : k > p[i].up => p[k].up >= p[i].up
    BY <1>2, <1>4
  <2>2. \A i \in 2 .. 6 : p[i].up \in 1 .. i - 1
    BY <1>2, <1>4
  <2>3. \A i \in 1 .. 6 : p[i].name # "new"
    BY <1>3, <1>4
  <2>4. 6 \in 1 .. 7 /\ p[1].up = 0
    BY <1>2
  <2> QED BY <1>1, <2>1, <2>2, <2>3, <2>4 DEF IsShaped
<1>6. ASSUME NEW T, NEW tree, NEW parent, NEW start, Len(tree) \in Nat,
             IsExtended(T, tree, p, 6, parent, start)
      PROVE  IsPhrase(T, Len(tree) + 1, Len(tree) + 6)
  <2> DEFINE s == Len(tree) + 1
  <2>0. \A i \in 1 .. 6 : \A n : n = Len(tree) + i =>
          /\ T[n].type = p[i].type /\ T[n].field = p[i].field
          /\ \A up \in Nat \ {0} : p[i].up = up => T[n].parent = Len(tree) + up
    BY <1>6, NodeOfExtended
  <2>1. T[s].type = "fun_function_definition"
    <3>1. 1 \in 1 .. 6 /\ s = Len(tree) + 1
      OBVIOUS
    <3>2. p[1].type = "fun_function_definition"
      BY <1>7 DEF Has
    <3> HIDE DEF s
    <3> QED BY <2>0, <3>1, <3>2
  <2>2. Is(T, s + 1, "identifier", "name", s)
    <3>1. s + 1 = Len(tree) + 2 /\ s = Len(tree) + 1
      BY <1>6
    <3>2. p[2].type = "identifier" /\ p[2].field = "name" /\ p[2].up = 1
      BY <1>7 DEF Has
    <3>3. 2 \in 1 .. 6 /\ 1 \in Nat \ {0}
      OBVIOUS
    <3> DEFINE n == s + 1
               q == s
    <3> HIDE DEF s
    <3>4. n = Len(tree) + 2 /\ q = Len(tree) + 1
      BY <3>1
    <3> HIDE DEF n, q
    <3>5. T[n].type = p[2].type /\ T[n].field = p[2].field /\ T[n].parent = q
      BY <2>0, <3>2, <3>3, <3>4
    <3>7. Is(T, n, "identifier", "name", q)
      BY <3>2, <3>5 DEF Is
    <3> QED BY <3>7 DEF n, q
  <2>3. Is(T, s + 2, "pattern", "", s)
    <3>1. s + 2 = Len(tree) + 3 /\ s = Len(tree) + 1
      BY <1>6
    <3>2. p[3].type = "pattern" /\ p[3].field = "" /\ p[3].up = 1
      BY <1>7 DEF Has
    <3>3. 3 \in 1 .. 6 /\ 1 \in Nat \ {0}
      OBVIOUS
    <3> DEFINE n == s + 2
               q == s
    <3> HIDE DEF s
    <3>4. n = Len(tree) + 3 /\ q = Len(tree) + 1
      BY <3>1
    <3> HIDE DEF n, q
    <3>5. T[n].type = p[3].type /\ T[n].field = p[3].field /\ T[n].parent = q
      BY <2>0, <3>2, <3>3, <3>4
    <3>7. Is(T, n, "pattern", "", q)
      BY <3>2, <3>5 DEF Is
    <3> QED BY <3>7 DEF n, q
  <2>4. Is(T, s + 3, "identifier", "", s + 2)
    <3>1. s + 3 = Len(tree) + 4 /\ s + 2 = Len(tree) + 3
      BY <1>6
    <3>2. p[4].type = "identifier" /\ p[4].field = "" /\ p[4].up = 3
      BY <1>7 DEF Has
    <3>3. 4 \in 1 .. 6 /\ 3 \in Nat \ {0}
      OBVIOUS
    <3> DEFINE n == s + 3
               q == s + 2
    <3> HIDE DEF s
    <3>4. n = Len(tree) + 4 /\ q = Len(tree) + 3
      BY <3>1
    <3> HIDE DEF n, q
    <3>5. T[n].type = p[4].type /\ T[n].field = p[4].field /\ T[n].parent = q
      BY <2>0, <3>2, <3>3, <3>4
    <3>7. Is(T, n, "identifier", "", q)
      BY <3>2, <3>5 DEF Is
    <3> QED BY <3>7 DEF n, q
  <2>5. Is(T, s + 4, "body", "", s)
    <3>1. s + 4 = Len(tree) + 5 /\ s = Len(tree) + 1
      BY <1>6
    <3>2. p[5].type = "body" /\ p[5].field = "" /\ p[5].up = 1
      BY <1>7 DEF Has
    <3>3. 5 \in 1 .. 6 /\ 1 \in Nat \ {0}
      OBVIOUS
    <3> DEFINE n == s + 4
               q == s
    <3> HIDE DEF s
    <3>4. n = Len(tree) + 5 /\ q = Len(tree) + 1
      BY <3>1
    <3> HIDE DEF n, q
    <3>5. T[n].type = p[5].type /\ T[n].field = p[5].field /\ T[n].parent = q
      BY <2>0, <3>2, <3>3, <3>4
    <3>7. Is(T, n, "body", "", q)
      BY <3>2, <3>5 DEF Is
    <3> QED BY <3>7 DEF n, q
  <2>6. Is(T, s + 5, "identifier", "", s + 4)
    <3>1. s + 5 = Len(tree) + 6 /\ s + 4 = Len(tree) + 5
      BY <1>6
    <3>2. p[6].type = "identifier" /\ p[6].field = "" /\ p[6].up = 5
      BY <1>7 DEF Has
    <3>3. 6 \in 1 .. 6 /\ 5 \in Nat \ {0}
      OBVIOUS
    <3> DEFINE n == s + 5
               q == s + 4
    <3> HIDE DEF s
    <3>4. n = Len(tree) + 6 /\ q = Len(tree) + 5
      BY <3>1
    <3> HIDE DEF n, q
    <3>5. T[n].type = p[6].type /\ T[n].field = p[6].field /\ T[n].parent = q
      BY <2>0, <3>2, <3>3, <3>4
    <3>7. Is(T, n, "identifier", "", q)
      BY <3>2, <3>5 DEF Is
    <3> QED BY <3>7 DEF n, q
  <2>7. Len(tree) + 6 = s + 5
    BY <1>6
  <2> HIDE DEF s
  <2>8. IsRule(T, s, s + 5)
    BY <2>1, <2>2, <2>3, <2>4, <2>5, <2>6 DEF IsRule, IsBody
  <2> QED BY <2>7, <2>8 DEF IsPhrase, s
<1> QED BY <1>5, <1>6 DEF p

LEMMA LambdaNodes ==
  ASSUME NEW x
  PROVE  LET p == Lambda(x)
         IN  /\ DOMAIN p = 1 .. 6
             /\ p[1] = Node("imp_lambda", "", 0)
             /\ p[2] = Node("parameters", "", 1)
             /\ p[3] = Node("expression_identifier", "", 2)
             /\ p[4] = Identifier("", 3, x)
             /\ p[5] = Node("body", "", 1)
             /\ p[6] = Identifier("", 5, Mentioned)
<1> DEFINE front == <<Node("imp_lambda", "", 0), Node("parameters", "", 1), Node("expression_identifier", "", 2), Identifier("", 3, x)>>
<1>1. IsSequence(front) /\ Len(front) = 4
  <2> DEFINE S == {Node("imp_lambda", "", 0), Node("parameters", "", 1), Node("expression_identifier", "", 2), Identifier("", 3, x)}
  <2>1. front \in Seq(S)
    OBVIOUS
  <2> HIDE DEF S
  <2>2. IsSequence(front)
    BY <2>1 DEF IsSequence
  <2> QED BY <2>2
<1>2. /\ front[1] = Node("imp_lambda", "", 0)
      /\ front[2] = Node("parameters", "", 1)
      /\ front[3] = Node("expression_identifier", "", 2)
      /\ front[4] = Identifier("", 3, x)
  OBVIOUS
<1>3. Lambda(x) = front \o Body(5)
  BY DEF Lambda
<1> HIDE DEF front
<1>4. IsBeforeBody(front \o Body(5), front, 4, 6, 5)
  <2>1. \A k \in Nat : \A n, first :
          Len(front) = k /\ n = k + 2 => IsBeforeBody(front \o Body(first), front, k, n, first)
    BY <1>1, BeforeBody
  <2> QED BY <1>1, <2>1
<1> DEFINE c == Lambda(x)
<1>6. IsBeforeBody(c, front, 4, 6, 5)
  BY <1>3, <1>4
<1> HIDE DEF c
<1>7. 1 \in 1 .. 4 /\ 2 \in 1 .. 4 /\ 3 \in 1 .. 4 /\ 4 \in 1 .. 4 /\ 5 = 4 + 1 /\ 6 = 4 + 2
  OBVIOUS
<1>5. /\ DOMAIN c = 1 .. 6
      /\ c[1] = front[1]
      /\ c[2] = front[2]
      /\ c[3] = front[3]
      /\ c[4] = front[4]
      /\ c[5] = Node("body", "", 1)
      /\ c[6] = Identifier("", 5, Mentioned)
  BY <1>6, <1>7 DEF IsBeforeBody
<1> QED BY <1>2, <1>5 DEF c

LEMMA LambdaShape ==
  ASSUME NEW x, x # "new", Mentioned # "new"
  PROVE  /\ IsShaped(Lambda(x), 6)
         /\ \A T, tree, parent, start :
              Len(tree) \in Nat /\ IsExtended(T, tree, Lambda(x), 6, parent, start)
                => IsPhrase(T, Len(tree) + 1, Len(tree) + 6)
<1> DEFINE p == Lambda(x)
<1>1. /\ DOMAIN p = 1 .. 6
      /\ p[1] = Node("imp_lambda", "", 0)
      /\ p[2] = Node("parameters", "", 1)
      /\ p[3] = Node("expression_identifier", "", 2)
      /\ p[4] = Identifier("", 3, x)
      /\ p[5] = Node("body", "", 1)
      /\ p[6] = Identifier("", 5, Mentioned)
  BY LambdaNodes
<1> HIDE DEF p
<1>7. /\ Has(p[1], "imp_lambda", "", 0, "")
      /\ Has(p[2], "parameters", "", 1, "")
      /\ Has(p[3], "expression_identifier", "", 2, "")
      /\ Has(p[4], "identifier", "", 3, x)
      /\ Has(p[5], "body", "", 1, "")
      /\ Has(p[6], "identifier", "", 5, Mentioned)
  BY <1>1, NodeHas, IdentifierHas
<1>2. p[1].up = 0 /\ p[2].up = 1 /\ p[3].up = 2 /\ p[4].up = 3 /\ p[5].up = 1 /\ p[6].up = 5
  BY <1>7 DEF Has
<1>3. /\ p[1].name # "new"
      /\ p[2].name # "new"
      /\ p[3].name # "new"
      /\ p[4].name # "new"
      /\ p[5].name # "new"
      /\ p[6].name # "new"
  BY <1>7 DEF Has
<1>4. \A i \in 1 .. 6 : i = 1 \/ i = 2 \/ i = 3 \/ i = 4 \/ i = 5 \/ i = 6
  OBVIOUS
<1>5. IsShaped(p, 6)
  <2>1. \A i \in 2 .. 6 : \A k \in 2 .. i : k > p[i].up => p[k].up >= p[i].up
    BY <1>2, <1>4
  <2>2. \A i \in 2 .. 6 : p[i].up \in 1 .. i - 1
    BY <1>2, <1>4
  <2>3. \A i \in 1 .. 6 : p[i].name # "new"
    BY <1>3, <1>4
  <2>4. 6 \in 1 .. 7 /\ p[1].up = 0
    BY <1>2
  <2> QED BY <1>1, <2>1, <2>2, <2>3, <2>4 DEF IsShaped
<1>6. ASSUME NEW T, NEW tree, NEW parent, NEW start, Len(tree) \in Nat,
             IsExtended(T, tree, p, 6, parent, start)
      PROVE  IsPhrase(T, Len(tree) + 1, Len(tree) + 6)
  <2> DEFINE s == Len(tree) + 1
  <2>0. \A i \in 1 .. 6 : \A n : n = Len(tree) + i =>
          /\ T[n].type = p[i].type /\ T[n].field = p[i].field
          /\ \A up \in Nat \ {0} : p[i].up = up => T[n].parent = Len(tree) + up
    BY <1>6, NodeOfExtended
  <2>1. T[s].type = "imp_lambda"
    <3>1. 1 \in 1 .. 6 /\ s = Len(tree) + 1
      OBVIOUS
    <3>2. p[1].type = "imp_lambda"
      BY <1>7 DEF Has
    <3> HIDE DEF s
    <3> QED BY <2>0, <3>1, <3>2
  <2>2. Is(T, s + 1, "parameters", "", s)
    <3>1. s + 1 = Len(tree) + 2 /\ s = Len(tree) + 1
      BY <1>6
    <3>2. p[2].type = "parameters" /\ p[2].field = "" /\ p[2].up = 1
      BY <1>7 DEF Has
    <3>3. 2 \in 1 .. 6 /\ 1 \in Nat \ {0}
      OBVIOUS
    <3> DEFINE n == s + 1
               q == s
    <3> HIDE DEF s
    <3>4. n = Len(tree) + 2 /\ q = Len(tree) + 1
      BY <3>1
    <3> HIDE DEF n, q
    <3>5. T[n].type = p[2].type /\ T[n].field = p[2].field /\ T[n].parent = q
      BY <2>0, <3>2, <3>3, <3>4
    <3>7. Is(T, n, "parameters", "", q)
      BY <3>2, <3>5 DEF Is
    <3> QED BY <3>7 DEF n, q
  <2>3. Is(T, s + 2, "expression_identifier", "", s + 1)
    <3>1. s + 2 = Len(tree) + 3 /\ s + 1 = Len(tree) + 2
      BY <1>6
    <3>2. p[3].type = "expression_identifier" /\ p[3].field = "" /\ p[3].up = 2
      BY <1>7 DEF Has
    <3>3. 3 \in 1 .. 6 /\ 2 \in Nat \ {0}
      OBVIOUS
    <3> DEFINE n == s + 2
               q == s + 1
    <3> HIDE DEF s
    <3>4. n = Len(tree) + 3 /\ q = Len(tree) + 2
      BY <3>1
    <3> HIDE DEF n, q
    <3>5. T[n].type = p[3].type /\ T[n].field = p[3].field /\ T[n].parent = q
      BY <2>0, <3>2, <3>3, <3>4
    <3>7. Is(T, n, "expression_identifier", "", q)
      BY <3>2, <3>5 DEF Is
    <3> QED BY <3>7 DEF n, q
  <2>4. Is(T, s + 3, "identifier", "", s + 2)
    <3>1. s + 3 = Len(tree) + 4 /\ s + 2 = Len(tree) + 3
      BY <1>6
    <3>2. p[4].type = "identifier" /\ p[4].field = "" /\ p[4].up = 3
      BY <1>7 DEF Has
    <3>3. 4 \in 1 .. 6 /\ 3 \in Nat \ {0}
      OBVIOUS
    <3> DEFINE n == s + 3
               q == s + 2
    <3> HIDE DEF s
    <3>4. n = Len(tree) + 4 /\ q = Len(tree) + 3
      BY <3>1
    <3> HIDE DEF n, q
    <3>5. T[n].type = p[4].type /\ T[n].field = p[4].field /\ T[n].parent = q
      BY <2>0, <3>2, <3>3, <3>4
    <3>7. Is(T, n, "identifier", "", q)
      BY <3>2, <3>5 DEF Is
    <3> QED BY <3>7 DEF n, q
  <2>5. Is(T, s + 4, "body", "", s)
    <3>1. s + 4 = Len(tree) + 5 /\ s = Len(tree) + 1
      BY <1>6
    <3>2. p[5].type = "body" /\ p[5].field = "" /\ p[5].up = 1
      BY <1>7 DEF Has
    <3>3. 5 \in 1 .. 6 /\ 1 \in Nat \ {0}
      OBVIOUS
    <3> DEFINE n == s + 4
               q == s
    <3> HIDE DEF s
    <3>4. n = Len(tree) + 5 /\ q = Len(tree) + 1
      BY <3>1
    <3> HIDE DEF n, q
    <3>5. T[n].type = p[5].type /\ T[n].field = p[5].field /\ T[n].parent = q
      BY <2>0, <3>2, <3>3, <3>4
    <3>7. Is(T, n, "body", "", q)
      BY <3>2, <3>5 DEF Is
    <3> QED BY <3>7 DEF n, q
  <2>6. Is(T, s + 5, "identifier", "", s + 4)
    <3>1. s + 5 = Len(tree) + 6 /\ s + 4 = Len(tree) + 5
      BY <1>6
    <3>2. p[6].type = "identifier" /\ p[6].field = "" /\ p[6].up = 5
      BY <1>7 DEF Has
    <3>3. 6 \in 1 .. 6 /\ 5 \in Nat \ {0}
      OBVIOUS
    <3> DEFINE n == s + 5
               q == s + 4
    <3> HIDE DEF s
    <3>4. n = Len(tree) + 6 /\ q = Len(tree) + 5
      BY <3>1
    <3> HIDE DEF n, q
    <3>5. T[n].type = p[6].type /\ T[n].field = p[6].field /\ T[n].parent = q
      BY <2>0, <3>2, <3>3, <3>4
    <3>7. Is(T, n, "identifier", "", q)
      BY <3>2, <3>5 DEF Is
    <3> QED BY <3>7 DEF n, q
  <2>7. Len(tree) + 6 = s + 5
    BY <1>6
  <2> HIDE DEF s
  <2>8. IsLambda(T, s, s + 5)
    BY <2>1, <2>2, <2>3, <2>4, <2>5, <2>6 DEF IsLambda, IsBody
  <2> QED BY <2>7, <2>8 DEF IsPhrase, s
<1> QED BY <1>5, <1>6 DEF p

LEMMA FunLambdaNodes ==
  ASSUME NEW x
  PROVE  LET p == FunLambda(x)
         IN  /\ DOMAIN p = 1 .. 5
             /\ p[1] = Node("fun_lambda", "", 0)
             /\ p[2] = Node("pattern", "", 1)
             /\ p[3] = Identifier("", 2, x)
             /\ p[4] = Node("body", "", 1)
             /\ p[5] = Identifier("", 4, Mentioned)
<1> DEFINE front == <<Node("fun_lambda", "", 0), Node("pattern", "", 1), Identifier("", 2, x)>>
<1>1. IsSequence(front) /\ Len(front) = 3
  <2> DEFINE S == {Node("fun_lambda", "", 0), Node("pattern", "", 1), Identifier("", 2, x)}
  <2>1. front \in Seq(S)
    OBVIOUS
  <2> HIDE DEF S
  <2>2. IsSequence(front)
    BY <2>1 DEF IsSequence
  <2> QED BY <2>2
<1>2. /\ front[1] = Node("fun_lambda", "", 0)
      /\ front[2] = Node("pattern", "", 1)
      /\ front[3] = Identifier("", 2, x)
  OBVIOUS
<1>3. FunLambda(x) = front \o Body(4)
  BY DEF FunLambda
<1> HIDE DEF front
<1>4. IsBeforeBody(front \o Body(4), front, 3, 5, 4)
  <2>1. \A k \in Nat : \A n, first :
          Len(front) = k /\ n = k + 2 => IsBeforeBody(front \o Body(first), front, k, n, first)
    BY <1>1, BeforeBody
  <2> QED BY <1>1, <2>1
<1> DEFINE c == FunLambda(x)
<1>6. IsBeforeBody(c, front, 3, 5, 4)
  BY <1>3, <1>4
<1> HIDE DEF c
<1>7. 1 \in 1 .. 3 /\ 2 \in 1 .. 3 /\ 3 \in 1 .. 3 /\ 4 = 3 + 1 /\ 5 = 3 + 2
  OBVIOUS
<1>5. /\ DOMAIN c = 1 .. 5
      /\ c[1] = front[1]
      /\ c[2] = front[2]
      /\ c[3] = front[3]
      /\ c[4] = Node("body", "", 1)
      /\ c[5] = Identifier("", 4, Mentioned)
  BY <1>6, <1>7 DEF IsBeforeBody
<1> QED BY <1>2, <1>5 DEF c

LEMMA FunLambdaShape ==
  ASSUME NEW x, x # "new", Mentioned # "new"
  PROVE  /\ IsShaped(FunLambda(x), 5)
         /\ \A T, tree, parent, start :
              Len(tree) \in Nat /\ IsExtended(T, tree, FunLambda(x), 5, parent, start)
                => IsPhrase(T, Len(tree) + 1, Len(tree) + 5)
<1> DEFINE p == FunLambda(x)
<1>1. /\ DOMAIN p = 1 .. 5
      /\ p[1] = Node("fun_lambda", "", 0)
      /\ p[2] = Node("pattern", "", 1)
      /\ p[3] = Identifier("", 2, x)
      /\ p[4] = Node("body", "", 1)
      /\ p[5] = Identifier("", 4, Mentioned)
  BY FunLambdaNodes
<1> HIDE DEF p
<1>7. /\ Has(p[1], "fun_lambda", "", 0, "")
      /\ Has(p[2], "pattern", "", 1, "")
      /\ Has(p[3], "identifier", "", 2, x)
      /\ Has(p[4], "body", "", 1, "")
      /\ Has(p[5], "identifier", "", 4, Mentioned)
  BY <1>1, NodeHas, IdentifierHas
<1>2. p[1].up = 0 /\ p[2].up = 1 /\ p[3].up = 2 /\ p[4].up = 1 /\ p[5].up = 4
  BY <1>7 DEF Has
<1>3. /\ p[1].name # "new"
      /\ p[2].name # "new"
      /\ p[3].name # "new"
      /\ p[4].name # "new"
      /\ p[5].name # "new"
  BY <1>7 DEF Has
<1>4. \A i \in 1 .. 5 : i = 1 \/ i = 2 \/ i = 3 \/ i = 4 \/ i = 5
  OBVIOUS
<1>5. IsShaped(p, 5)
  <2>1. \A i \in 2 .. 5 : \A k \in 2 .. i : k > p[i].up => p[k].up >= p[i].up
    BY <1>2, <1>4
  <2>2. \A i \in 2 .. 5 : p[i].up \in 1 .. i - 1
    BY <1>2, <1>4
  <2>3. \A i \in 1 .. 5 : p[i].name # "new"
    BY <1>3, <1>4
  <2>4. 5 \in 1 .. 7 /\ p[1].up = 0
    BY <1>2
  <2> QED BY <1>1, <2>1, <2>2, <2>3, <2>4 DEF IsShaped
<1>6. ASSUME NEW T, NEW tree, NEW parent, NEW start, Len(tree) \in Nat,
             IsExtended(T, tree, p, 5, parent, start)
      PROVE  IsPhrase(T, Len(tree) + 1, Len(tree) + 5)
  <2> DEFINE s == Len(tree) + 1
  <2>0. \A i \in 1 .. 5 : \A n : n = Len(tree) + i =>
          /\ T[n].type = p[i].type /\ T[n].field = p[i].field
          /\ \A up \in Nat \ {0} : p[i].up = up => T[n].parent = Len(tree) + up
    BY <1>6, NodeOfExtended
  <2>1. T[s].type = "fun_lambda"
    <3>1. 1 \in 1 .. 5 /\ s = Len(tree) + 1
      OBVIOUS
    <3>2. p[1].type = "fun_lambda"
      BY <1>7 DEF Has
    <3> HIDE DEF s
    <3> QED BY <2>0, <3>1, <3>2
  <2>2. Is(T, s + 1, "pattern", "", s)
    <3>1. s + 1 = Len(tree) + 2 /\ s = Len(tree) + 1
      BY <1>6
    <3>2. p[2].type = "pattern" /\ p[2].field = "" /\ p[2].up = 1
      BY <1>7 DEF Has
    <3>3. 2 \in 1 .. 5 /\ 1 \in Nat \ {0}
      OBVIOUS
    <3> DEFINE n == s + 1
               q == s
    <3> HIDE DEF s
    <3>4. n = Len(tree) + 2 /\ q = Len(tree) + 1
      BY <3>1
    <3> HIDE DEF n, q
    <3>5. T[n].type = p[2].type /\ T[n].field = p[2].field /\ T[n].parent = q
      BY <2>0, <3>2, <3>3, <3>4
    <3>7. Is(T, n, "pattern", "", q)
      BY <3>2, <3>5 DEF Is
    <3> QED BY <3>7 DEF n, q
  <2>3. Is(T, s + 2, "identifier", "", s + 1)
    <3>1. s + 2 = Len(tree) + 3 /\ s + 1 = Len(tree) + 2
      BY <1>6
    <3>2. p[3].type = "identifier" /\ p[3].field = "" /\ p[3].up = 2
      BY <1>7 DEF Has
    <3>3. 3 \in 1 .. 5 /\ 2 \in Nat \ {0}
      OBVIOUS
    <3> DEFINE n == s + 2
               q == s + 1
    <3> HIDE DEF s
    <3>4. n = Len(tree) + 3 /\ q = Len(tree) + 2
      BY <3>1
    <3> HIDE DEF n, q
    <3>5. T[n].type = p[3].type /\ T[n].field = p[3].field /\ T[n].parent = q
      BY <2>0, <3>2, <3>3, <3>4
    <3>7. Is(T, n, "identifier", "", q)
      BY <3>2, <3>5 DEF Is
    <3> QED BY <3>7 DEF n, q
  <2>4. Is(T, s + 3, "body", "", s)
    <3>1. s + 3 = Len(tree) + 4 /\ s = Len(tree) + 1
      BY <1>6
    <3>2. p[4].type = "body" /\ p[4].field = "" /\ p[4].up = 1
      BY <1>7 DEF Has
    <3>3. 4 \in 1 .. 5 /\ 1 \in Nat \ {0}
      OBVIOUS
    <3> DEFINE n == s + 3
               q == s
    <3> HIDE DEF s
    <3>4. n = Len(tree) + 4 /\ q = Len(tree) + 1
      BY <3>1
    <3> HIDE DEF n, q
    <3>5. T[n].type = p[4].type /\ T[n].field = p[4].field /\ T[n].parent = q
      BY <2>0, <3>2, <3>3, <3>4
    <3>7. Is(T, n, "body", "", q)
      BY <3>2, <3>5 DEF Is
    <3> QED BY <3>7 DEF n, q
  <2>5. Is(T, s + 4, "identifier", "", s + 3)
    <3>1. s + 4 = Len(tree) + 5 /\ s + 3 = Len(tree) + 4
      BY <1>6
    <3>2. p[5].type = "identifier" /\ p[5].field = "" /\ p[5].up = 4
      BY <1>7 DEF Has
    <3>3. 5 \in 1 .. 5 /\ 4 \in Nat \ {0}
      OBVIOUS
    <3> DEFINE n == s + 4
               q == s + 3
    <3> HIDE DEF s
    <3>4. n = Len(tree) + 5 /\ q = Len(tree) + 4
      BY <3>1
    <3> HIDE DEF n, q
    <3>5. T[n].type = p[5].type /\ T[n].field = p[5].field /\ T[n].parent = q
      BY <2>0, <3>2, <3>3, <3>4
    <3>7. Is(T, n, "identifier", "", q)
      BY <3>2, <3>5 DEF Is
    <3> QED BY <3>7 DEF n, q
  <2>6. Len(tree) + 5 = s + 4
    BY <1>6
  <2> HIDE DEF s
  <2>7. IsFunLambda(T, s, s + 4)
    BY <2>1, <2>2, <2>3, <2>4, <2>5 DEF IsFunLambda, IsBody
  <2> QED BY <2>6, <2>7 DEF IsPhrase, s
<1> QED BY <1>5, <1>6 DEF p

LEMMA CaseNodes ==
  ASSUME NEW x
  PROVE  LET p == Case(x)
         IN  /\ DOMAIN p = 1 .. 5
             /\ p[1] = Node("match_case", "", 0)
             /\ p[2] = Node("match_pattern", "", 1)
             /\ p[3] = Identifier("", 2, x)
             /\ p[4] = Node("body", "", 1)
             /\ p[5] = Identifier("", 4, Mentioned)
<1> DEFINE front == <<Node("match_case", "", 0), Node("match_pattern", "", 1), Identifier("", 2, x)>>
<1>1. IsSequence(front) /\ Len(front) = 3
  <2> DEFINE S == {Node("match_case", "", 0), Node("match_pattern", "", 1), Identifier("", 2, x)}
  <2>1. front \in Seq(S)
    OBVIOUS
  <2> HIDE DEF S
  <2>2. IsSequence(front)
    BY <2>1 DEF IsSequence
  <2> QED BY <2>2
<1>2. /\ front[1] = Node("match_case", "", 0)
      /\ front[2] = Node("match_pattern", "", 1)
      /\ front[3] = Identifier("", 2, x)
  OBVIOUS
<1>3. Case(x) = front \o Body(4)
  BY DEF Case
<1> HIDE DEF front
<1>4. IsBeforeBody(front \o Body(4), front, 3, 5, 4)
  <2>1. \A k \in Nat : \A n, first :
          Len(front) = k /\ n = k + 2 => IsBeforeBody(front \o Body(first), front, k, n, first)
    BY <1>1, BeforeBody
  <2> QED BY <1>1, <2>1
<1> DEFINE c == Case(x)
<1>6. IsBeforeBody(c, front, 3, 5, 4)
  BY <1>3, <1>4
<1> HIDE DEF c
<1>7. 1 \in 1 .. 3 /\ 2 \in 1 .. 3 /\ 3 \in 1 .. 3 /\ 4 = 3 + 1 /\ 5 = 3 + 2
  OBVIOUS
<1>5. /\ DOMAIN c = 1 .. 5
      /\ c[1] = front[1]
      /\ c[2] = front[2]
      /\ c[3] = front[3]
      /\ c[4] = Node("body", "", 1)
      /\ c[5] = Identifier("", 4, Mentioned)
  BY <1>6, <1>7 DEF IsBeforeBody
<1> QED BY <1>2, <1>5 DEF c

LEMMA CaseShape ==
  ASSUME NEW x, x # "new", Mentioned # "new"
  PROVE  /\ IsShaped(Case(x), 5)
         /\ \A T, tree, parent, start :
              Len(tree) \in Nat /\ IsExtended(T, tree, Case(x), 5, parent, start)
                => IsPhrase(T, Len(tree) + 1, Len(tree) + 5)
<1> DEFINE p == Case(x)
<1>1. /\ DOMAIN p = 1 .. 5
      /\ p[1] = Node("match_case", "", 0)
      /\ p[2] = Node("match_pattern", "", 1)
      /\ p[3] = Identifier("", 2, x)
      /\ p[4] = Node("body", "", 1)
      /\ p[5] = Identifier("", 4, Mentioned)
  BY CaseNodes
<1> HIDE DEF p
<1>7. /\ Has(p[1], "match_case", "", 0, "")
      /\ Has(p[2], "match_pattern", "", 1, "")
      /\ Has(p[3], "identifier", "", 2, x)
      /\ Has(p[4], "body", "", 1, "")
      /\ Has(p[5], "identifier", "", 4, Mentioned)
  BY <1>1, NodeHas, IdentifierHas
<1>2. p[1].up = 0 /\ p[2].up = 1 /\ p[3].up = 2 /\ p[4].up = 1 /\ p[5].up = 4
  BY <1>7 DEF Has
<1>3. /\ p[1].name # "new"
      /\ p[2].name # "new"
      /\ p[3].name # "new"
      /\ p[4].name # "new"
      /\ p[5].name # "new"
  BY <1>7 DEF Has
<1>4. \A i \in 1 .. 5 : i = 1 \/ i = 2 \/ i = 3 \/ i = 4 \/ i = 5
  OBVIOUS
<1>5. IsShaped(p, 5)
  <2>1. \A i \in 2 .. 5 : \A k \in 2 .. i : k > p[i].up => p[k].up >= p[i].up
    BY <1>2, <1>4
  <2>2. \A i \in 2 .. 5 : p[i].up \in 1 .. i - 1
    BY <1>2, <1>4
  <2>3. \A i \in 1 .. 5 : p[i].name # "new"
    BY <1>3, <1>4
  <2>4. 5 \in 1 .. 7 /\ p[1].up = 0
    BY <1>2
  <2> QED BY <1>1, <2>1, <2>2, <2>3, <2>4 DEF IsShaped
<1>6. ASSUME NEW T, NEW tree, NEW parent, NEW start, Len(tree) \in Nat,
             IsExtended(T, tree, p, 5, parent, start)
      PROVE  IsPhrase(T, Len(tree) + 1, Len(tree) + 5)
  <2> DEFINE s == Len(tree) + 1
  <2>0. \A i \in 1 .. 5 : \A n : n = Len(tree) + i =>
          /\ T[n].type = p[i].type /\ T[n].field = p[i].field
          /\ \A up \in Nat \ {0} : p[i].up = up => T[n].parent = Len(tree) + up
    BY <1>6, NodeOfExtended
  <2>1. T[s].type = "match_case"
    <3>1. 1 \in 1 .. 5 /\ s = Len(tree) + 1
      OBVIOUS
    <3>2. p[1].type = "match_case"
      BY <1>7 DEF Has
    <3> HIDE DEF s
    <3> QED BY <2>0, <3>1, <3>2
  <2>2. Is(T, s + 1, "match_pattern", "", s)
    <3>1. s + 1 = Len(tree) + 2 /\ s = Len(tree) + 1
      BY <1>6
    <3>2. p[2].type = "match_pattern" /\ p[2].field = "" /\ p[2].up = 1
      BY <1>7 DEF Has
    <3>3. 2 \in 1 .. 5 /\ 1 \in Nat \ {0}
      OBVIOUS
    <3> DEFINE n == s + 1
               q == s
    <3> HIDE DEF s
    <3>4. n = Len(tree) + 2 /\ q = Len(tree) + 1
      BY <3>1
    <3> HIDE DEF n, q
    <3>5. T[n].type = p[2].type /\ T[n].field = p[2].field /\ T[n].parent = q
      BY <2>0, <3>2, <3>3, <3>4
    <3>7. Is(T, n, "match_pattern", "", q)
      BY <3>2, <3>5 DEF Is
    <3> QED BY <3>7 DEF n, q
  <2>3. Is(T, s + 2, "identifier", "", s + 1)
    <3>1. s + 2 = Len(tree) + 3 /\ s + 1 = Len(tree) + 2
      BY <1>6
    <3>2. p[3].type = "identifier" /\ p[3].field = "" /\ p[3].up = 2
      BY <1>7 DEF Has
    <3>3. 3 \in 1 .. 5 /\ 2 \in Nat \ {0}
      OBVIOUS
    <3> DEFINE n == s + 2
               q == s + 1
    <3> HIDE DEF s
    <3>4. n = Len(tree) + 3 /\ q = Len(tree) + 2
      BY <3>1
    <3> HIDE DEF n, q
    <3>5. T[n].type = p[3].type /\ T[n].field = p[3].field /\ T[n].parent = q
      BY <2>0, <3>2, <3>3, <3>4
    <3>7. Is(T, n, "identifier", "", q)
      BY <3>2, <3>5 DEF Is
    <3> QED BY <3>7 DEF n, q
  <2>4. Is(T, s + 3, "body", "", s)
    <3>1. s + 3 = Len(tree) + 4 /\ s = Len(tree) + 1
      BY <1>6
    <3>2. p[4].type = "body" /\ p[4].field = "" /\ p[4].up = 1
      BY <1>7 DEF Has
    <3>3. 4 \in 1 .. 5 /\ 1 \in Nat \ {0}
      OBVIOUS
    <3> DEFINE n == s + 3
               q == s
    <3> HIDE DEF s
    <3>4. n = Len(tree) + 4 /\ q = Len(tree) + 1
      BY <3>1
    <3> HIDE DEF n, q
    <3>5. T[n].type = p[4].type /\ T[n].field = p[4].field /\ T[n].parent = q
      BY <2>0, <3>2, <3>3, <3>4
    <3>7. Is(T, n, "body", "", q)
      BY <3>2, <3>5 DEF Is
    <3> QED BY <3>7 DEF n, q
  <2>5. Is(T, s + 4, "identifier", "", s + 3)
    <3>1. s + 4 = Len(tree) + 5 /\ s + 3 = Len(tree) + 4
      BY <1>6
    <3>2. p[5].type = "identifier" /\ p[5].field = "" /\ p[5].up = 4
      BY <1>7 DEF Has
    <3>3. 5 \in 1 .. 5 /\ 4 \in Nat \ {0}
      OBVIOUS
    <3> DEFINE n == s + 4
               q == s + 3
    <3> HIDE DEF s
    <3>4. n = Len(tree) + 5 /\ q = Len(tree) + 4
      BY <3>1
    <3> HIDE DEF n, q
    <3>5. T[n].type = p[5].type /\ T[n].field = p[5].field /\ T[n].parent = q
      BY <2>0, <3>2, <3>3, <3>4
    <3>7. Is(T, n, "identifier", "", q)
      BY <3>2, <3>5 DEF Is
    <3> QED BY <3>7 DEF n, q
  <2>6. Len(tree) + 5 = s + 4
    BY <1>6
  <2> HIDE DEF s
  <2>7. IsCase(T, s, s + 4)
    BY <2>1, <2>2, <2>3, <2>4, <2>5 DEF IsCase, IsBody
  <2> QED BY <2>6, <2>7 DEF IsPhrase, s
<1> QED BY <1>5, <1>6 DEF p

LEMMA BendNodes ==
         LET p == Bend
         IN  /\ DOMAIN p = 1 .. 3
             /\ p[1] = Node("bend_statement", "", 0)
             /\ p[2] = Node("body", "", 1)
             /\ p[3] = Identifier("", 2, Mentioned)
<1> DEFINE front == <<Node("bend_statement", "", 0)>>
<1>1. IsSequence(front) /\ Len(front) = 1
  <2> DEFINE S == {Node("bend_statement", "", 0)}
  <2>1. front \in Seq(S)
    OBVIOUS
  <2> HIDE DEF S
  <2>2. IsSequence(front)
    BY <2>1 DEF IsSequence
  <2> QED BY <2>2
<1>2. front[1] = Node("bend_statement", "", 0)
  OBVIOUS
<1>3. Bend = front \o Body(2)
  BY DEF Bend
<1> HIDE DEF front
<1>4. IsBeforeBody(front \o Body(2), front, 1, 3, 2)
  <2>1. \A k \in Nat : \A n, first :
          Len(front) = k /\ n = k + 2 => IsBeforeBody(front \o Body(first), front, k, n, first)
    BY <1>1, BeforeBody
  <2> QED BY <1>1, <2>1
<1> DEFINE c == Bend
<1>6. IsBeforeBody(c, front, 1, 3, 2)
  BY <1>3, <1>4
<1> HIDE DEF c
<1>7. 1 \in 1 .. 1 /\ 2 = 1 + 1 /\ 3 = 1 + 2
  OBVIOUS
<1>5. /\ DOMAIN c = 1 .. 3
      /\ c[1] = front[1]
      /\ c[2] = Node("body", "", 1)
      /\ c[3] = Identifier("", 2, Mentioned)
  BY <1>6, <1>7 DEF IsBeforeBody
<1> QED BY <1>2, <1>5 DEF c

LEMMA BendShape ==
  ASSUME Mentioned # "new"
  PROVE  /\ IsShaped(Bend, 3)
         /\ \A T, tree, parent, start :
              Len(tree) \in Nat /\ IsExtended(T, tree, Bend, 3, parent, start)
                => IsPhrase(T, Len(tree) + 1, Len(tree) + 3)
<1> DEFINE p == Bend
<1>1. /\ DOMAIN p = 1 .. 3
      /\ p[1] = Node("bend_statement", "", 0)
      /\ p[2] = Node("body", "", 1)
      /\ p[3] = Identifier("", 2, Mentioned)
  BY BendNodes
<1> HIDE DEF p
<1>7. /\ Has(p[1], "bend_statement", "", 0, "")
      /\ Has(p[2], "body", "", 1, "")
      /\ Has(p[3], "identifier", "", 2, Mentioned)
  BY <1>1, NodeHas, IdentifierHas
<1>2. p[1].up = 0 /\ p[2].up = 1 /\ p[3].up = 2
  BY <1>7 DEF Has
<1>3. /\ p[1].name # "new"
      /\ p[2].name # "new"
      /\ p[3].name # "new"
  BY <1>7 DEF Has
<1>4. \A i \in 1 .. 3 : i = 1 \/ i = 2 \/ i = 3
  OBVIOUS
<1>5. IsShaped(p, 3)
  <2>1. \A i \in 2 .. 3 : \A k \in 2 .. i : k > p[i].up => p[k].up >= p[i].up
    BY <1>2, <1>4
  <2>2. \A i \in 2 .. 3 : p[i].up \in 1 .. i - 1
    BY <1>2, <1>4
  <2>3. \A i \in 1 .. 3 : p[i].name # "new"
    BY <1>3, <1>4
  <2>4. 3 \in 1 .. 7 /\ p[1].up = 0
    BY <1>2
  <2> QED BY <1>1, <2>1, <2>2, <2>3, <2>4 DEF IsShaped
<1>6. ASSUME NEW T, NEW tree, NEW parent, NEW start, Len(tree) \in Nat,
             IsExtended(T, tree, p, 3, parent, start)
      PROVE  IsPhrase(T, Len(tree) + 1, Len(tree) + 3)
  <2> DEFINE s == Len(tree) + 1
  <2>0. \A i \in 1 .. 3 : \A n : n = Len(tree) + i =>
          /\ T[n].type = p[i].type /\ T[n].field = p[i].field
          /\ \A up \in Nat \ {0} : p[i].up = up => T[n].parent = Len(tree) + up
    BY <1>6, NodeOfExtended
  <2>1. T[s].type = "bend_statement"
    <3>1. 1 \in 1 .. 3 /\ s = Len(tree) + 1
      OBVIOUS
    <3>2. p[1].type = "bend_statement"
      BY <1>7 DEF Has
    <3> HIDE DEF s
    <3> QED BY <2>0, <3>1, <3>2
  <2>2. Is(T, s + 1, "body", "", s)
    <3>1. s + 1 = Len(tree) + 2 /\ s = Len(tree) + 1
      BY <1>6
    <3>2. p[2].type = "body" /\ p[2].field = "" /\ p[2].up = 1
      BY <1>7 DEF Has
    <3>3. 2 \in 1 .. 3 /\ 1 \in Nat \ {0}
      OBVIOUS
    <3> DEFINE n == s + 1
               q == s
    <3> HIDE DEF s
    <3>4. n = Len(tree) + 2 /\ q = Len(tree) + 1
      BY <3>1
    <3> HIDE DEF n, q
    <3>5. T[n].type = p[2].type /\ T[n].field = p[2].field /\ T[n].parent = q
      BY <2>0, <3>2, <3>3, <3>4
    <3>7. Is(T, n, "body", "", q)
      BY <3>2, <3>5 DEF Is
    <3> QED BY <3>7 DEF n, q
  <2>3. Is(T, s + 2, "identifier", "", s + 1)
    <3>1. s + 2 = Len(tree) + 3 /\ s + 1 = Len(tree) + 2
      BY <1>6
    <3>2. p[3].type = "identifier" /\ p[3].field = "" /\ p[3].up = 2
      BY <1>7 DEF Has
    <3>3. 3 \in 1 .. 3 /\ 2 \in Nat \ {0}
      OBVIOUS
    <3> DEFINE n == s + 2
               q == s + 1
    <3> HIDE DEF s
    <3>4. n = Len(tree) + 3 /\ q = Len(tree) + 2
      BY <3>1
    <3> HIDE DEF n, q
    <3>5. T[n].type = p[3].type /\ T[n].field = p[3].field /\ T[n].parent = q
      BY <2>0, <3>2, <3>3, <3>4
    <3>7. Is(T, n, "identifier", "", q)
      BY <3>2, <3>5 DEF Is
    <3> QED BY <3>7 DEF n, q
  <2>4. Len(tree) + 3 = s + 2
    BY <1>6
  <2> HIDE DEF s
  <2>5. IsBend(T, s, s + 2)
    BY <2>1, <2>2, <2>3 DEF IsBend, IsBody
  <2> QED BY <2>4, <2>5 DEF IsPhrase, s
<1> QED BY <1>5, <1>6 DEF p

LEMMA AssignmentNodes ==
  ASSUME NEW x
  PROVE  LET p == Assignment(x)
         IN  /\ DOMAIN p = 1 .. 4
             /\ p[1] = Node("assignment_statement", "", 0)
             /\ p[2] = Identifier("pat", 1, x)
             /\ p[3] = Node("body", "", 1)
             /\ p[4] = Identifier("", 3, Mentioned)
<1> DEFINE front == <<Node("assignment_statement", "", 0), Identifier("pat", 1, x)>>
<1>1. IsSequence(front) /\ Len(front) = 2
  <2> DEFINE S == {Node("assignment_statement", "", 0), Identifier("pat", 1, x)}
  <2>1. front \in Seq(S)
    OBVIOUS
  <2> HIDE DEF S
  <2>2. IsSequence(front)
    BY <2>1 DEF IsSequence
  <2> QED BY <2>2
<1>2. /\ front[1] = Node("assignment_statement", "", 0)
      /\ front[2] = Identifier("pat", 1, x)
  OBVIOUS
<1>3. Assignment(x) = front \o Body(3)
  BY DEF Assignment
<1> HIDE DEF front
<1>4. IsBeforeBody(front \o Body(3), front, 2, 4, 3)
  <2>1. \A k \in Nat : \A n, first :
          Len(front) = k /\ n = k + 2 => IsBeforeBody(front \o Body(first), front, k, n, first)
    BY <1>1, BeforeBody
  <2> QED BY <1>1, <2>1
<1> DEFINE c == Assignment(x)
<1>6. IsBeforeBody(c, front, 2, 4, 3)
  BY <1>3, <1>4
<1> HIDE DEF c
<1>7. 1 \in 1 .. 2 /\ 2 \in 1 .. 2 /\ 3 = 2 + 1 /\ 4 = 2 + 2
  OBVIOUS
<1>5. /\ DOMAIN c = 1 .. 4
      /\ c[1] = front[1]
      /\ c[2] = front[2]
      /\ c[3] = Node("body", "", 1)
      /\ c[4] = Identifier("", 3, Mentioned)
  BY <1>6, <1>7 DEF IsBeforeBody
<1> QED BY <1>2, <1>5 DEF c

LEMMA AssignmentShape ==
  ASSUME NEW x, x # "new", Mentioned # "new"
  PROVE  /\ IsShaped(Assignment(x), 4)
         /\ \A T, tree, parent, start :
              Len(tree) \in Nat /\ IsExtended(T, tree, Assignment(x), 4, parent, start)
                => IsPhrase(T, Len(tree) + 1, Len(tree) + 4)
<1> DEFINE p == Assignment(x)
<1>1. /\ DOMAIN p = 1 .. 4
      /\ p[1] = Node("assignment_statement", "", 0)
      /\ p[2] = Identifier("pat", 1, x)
      /\ p[3] = Node("body", "", 1)
      /\ p[4] = Identifier("", 3, Mentioned)
  BY AssignmentNodes
<1> HIDE DEF p
<1>7. /\ Has(p[1], "assignment_statement", "", 0, "")
      /\ Has(p[2], "identifier", "pat", 1, x)
      /\ Has(p[3], "body", "", 1, "")
      /\ Has(p[4], "identifier", "", 3, Mentioned)
  BY <1>1, NodeHas, IdentifierHas
<1>2. p[1].up = 0 /\ p[2].up = 1 /\ p[3].up = 1 /\ p[4].up = 3
  BY <1>7 DEF Has
<1>3. /\ p[1].name # "new"
      /\ p[2].name # "new"
      /\ p[3].name # "new"
      /\ p[4].name # "new"
  BY <1>7 DEF Has
<1>4. \A i \in 1 .. 4 : i = 1 \/ i = 2 \/ i = 3 \/ i = 4
  OBVIOUS
<1>5. IsShaped(p, 4)
  <2>1. \A i \in 2 .. 4 : \A k \in 2 .. i : k > p[i].up => p[k].up >= p[i].up
    BY <1>2, <1>4
  <2>2. \A i \in 2 .. 4 : p[i].up \in 1 .. i - 1
    BY <1>2, <1>4
  <2>3. \A i \in 1 .. 4 : p[i].name # "new"
    BY <1>3, <1>4
  <2>4. 4 \in 1 .. 7 /\ p[1].up = 0
    BY <1>2
  <2> QED BY <1>1, <2>1, <2>2, <2>3, <2>4 DEF IsShaped
<1>6. ASSUME NEW T, NEW tree, NEW parent, NEW start, Len(tree) \in Nat,
             IsExtended(T, tree, p, 4, parent, start)
      PROVE  IsPhrase(T, Len(tree) + 1, Len(tree) + 4)
  <2> DEFINE s == Len(tree) + 1
  <2>0. \A i \in 1 .. 4 : \A n : n = Len(tree) + i =>
          /\ T[n].type = p[i].type /\ T[n].field = p[i].field
          /\ \A up \in Nat \ {0} : p[i].up = up => T[n].parent = Len(tree) + up
    BY <1>6, NodeOfExtended
  <2>1. T[s].type = "assignment_statement"
    <3>1. 1 \in 1 .. 4 /\ s = Len(tree) + 1
      OBVIOUS
    <3>2. p[1].type = "assignment_statement"
      BY <1>7 DEF Has
    <3> HIDE DEF s
    <3> QED BY <2>0, <3>1, <3>2
  <2>2. Is(T, s + 1, "identifier", "pat", s)
    <3>1. s + 1 = Len(tree) + 2 /\ s = Len(tree) + 1
      BY <1>6
    <3>2. p[2].type = "identifier" /\ p[2].field = "pat" /\ p[2].up = 1
      BY <1>7 DEF Has
    <3>3. 2 \in 1 .. 4 /\ 1 \in Nat \ {0}
      OBVIOUS
    <3> DEFINE n == s + 1
               q == s
    <3> HIDE DEF s
    <3>4. n = Len(tree) + 2 /\ q = Len(tree) + 1
      BY <3>1
    <3> HIDE DEF n, q
    <3>5. T[n].type = p[2].type /\ T[n].field = p[2].field /\ T[n].parent = q
      BY <2>0, <3>2, <3>3, <3>4
    <3>7. Is(T, n, "identifier", "pat", q)
      BY <3>2, <3>5 DEF Is
    <3> QED BY <3>7 DEF n, q
  <2>3. Is(T, s + 2, "body", "", s)
    <3>1. s + 2 = Len(tree) + 3 /\ s = Len(tree) + 1
      BY <1>6
    <3>2. p[3].type = "body" /\ p[3].field = "" /\ p[3].up = 1
      BY <1>7 DEF Has
    <3>3. 3 \in 1 .. 4 /\ 1 \in Nat \ {0}
      OBVIOUS
    <3> DEFINE n == s + 2
               q == s
    <3> HIDE DEF s
    <3>4. n = Len(tree) + 3 /\ q = Len(tree) + 1
      BY <3>1
    <3> HIDE DEF n, q
    <3>5. T[n].type = p[3].type /\ T[n].field = p[3].field /\ T[n].parent = q
      BY <2>0, <3>2, <3>3, <3>4
    <3>7. Is(T, n, "body", "", q)
      BY <3>2, <3>5 DEF Is
    <3> QED BY <3>7 DEF n, q
  <2>4. Is(T, s + 3, "identifier", "", s + 2)
    <3>1. s + 3 = Len(tree) + 4 /\ s + 2 = Len(tree) + 3
      BY <1>6
    <3>2. p[4].type = "identifier" /\ p[4].field = "" /\ p[4].up = 3
      BY <1>7 DEF Has
    <3>3. 4 \in 1 .. 4 /\ 3 \in Nat \ {0}
      OBVIOUS
    <3> DEFINE n == s + 3
               q == s + 2
    <3> HIDE DEF s
    <3>4. n = Len(tree) + 4 /\ q = Len(tree) + 3
      BY <3>1
    <3> HIDE DEF n, q
    <3>5. T[n].type = p[4].type /\ T[n].field = p[4].field /\ T[n].parent = q
      BY <2>0, <3>2, <3>3, <3>4
    <3>7. Is(T, n, "identifier", "", q)
      BY <3>2, <3>5 DEF Is
    <3> QED BY <3>7 DEF n, q
  <2>5. Len(tree) + 4 = s + 3
    BY <1>6
  <2> HIDE DEF s
  <2>6. IsAssignment(T, s, s + 3)
    BY <2>1, <2>2, <2>3, <2>4 DEF IsAssignment, IsBody
  <2> QED BY <2>5, <2>6 DEF IsPhrase, s
<1> QED BY <1>5, <1>6 DEF p

LEMMA PairAssignmentNodes ==
  ASSUME NEW x, NEW y
  PROVE  LET p == PairAssignment(x, y)
         IN  /\ DOMAIN p = 1 .. 5
             /\ p[1] = Node("assignment_statement", "", 0)
             /\ p[2] = Identifier("pat", 1, x)
             /\ p[3] = Identifier("pat", 1, y)
             /\ p[4] = Node("body", "", 1)
             /\ p[5] = Identifier("", 4, Mentioned)
<1> DEFINE front == <<Node("assignment_statement", "", 0), Identifier("pat", 1, x), Identifier("pat", 1, y)>>
<1>1. IsSequence(front) /\ Len(front) = 3
  <2> DEFINE S == {Node("assignment_statement", "", 0), Identifier("pat", 1, x), Identifier("pat", 1, y)}
  <2>1. front \in Seq(S)
    OBVIOUS
  <2> HIDE DEF S
  <2>2. IsSequence(front)
    BY <2>1 DEF IsSequence
  <2> QED BY <2>2
<1>2. /\ front[1] = Node("assignment_statement", "", 0)
      /\ front[2] = Identifier("pat", 1, x)
      /\ front[3] = Identifier("pat", 1, y)
  OBVIOUS
<1>3. PairAssignment(x, y) = front \o Body(4)
  BY DEF PairAssignment
<1> HIDE DEF front
<1>4. IsBeforeBody(front \o Body(4), front, 3, 5, 4)
  <2>1. \A k \in Nat : \A n, first :
          Len(front) = k /\ n = k + 2 => IsBeforeBody(front \o Body(first), front, k, n, first)
    BY <1>1, BeforeBody
  <2> QED BY <1>1, <2>1
<1> DEFINE c == PairAssignment(x, y)
<1>6. IsBeforeBody(c, front, 3, 5, 4)
  BY <1>3, <1>4
<1> HIDE DEF c
<1>7. 1 \in 1 .. 3 /\ 2 \in 1 .. 3 /\ 3 \in 1 .. 3 /\ 4 = 3 + 1 /\ 5 = 3 + 2
  OBVIOUS
<1>5. /\ DOMAIN c = 1 .. 5
      /\ c[1] = front[1]
      /\ c[2] = front[2]
      /\ c[3] = front[3]
      /\ c[4] = Node("body", "", 1)
      /\ c[5] = Identifier("", 4, Mentioned)
  BY <1>6, <1>7 DEF IsBeforeBody
<1> QED BY <1>2, <1>5 DEF c

LEMMA PairAssignmentShape ==
  ASSUME NEW x, x # "new", NEW y, y # "new", Mentioned # "new"
  PROVE  /\ IsShaped(PairAssignment(x, y), 5)
         /\ \A T, tree, parent, start :
              Len(tree) \in Nat /\ IsExtended(T, tree, PairAssignment(x, y), 5, parent, start)
                => IsPhrase(T, Len(tree) + 1, Len(tree) + 5)
<1> DEFINE p == PairAssignment(x, y)
<1>1. /\ DOMAIN p = 1 .. 5
      /\ p[1] = Node("assignment_statement", "", 0)
      /\ p[2] = Identifier("pat", 1, x)
      /\ p[3] = Identifier("pat", 1, y)
      /\ p[4] = Node("body", "", 1)
      /\ p[5] = Identifier("", 4, Mentioned)
  BY PairAssignmentNodes
<1> HIDE DEF p
<1>7. /\ Has(p[1], "assignment_statement", "", 0, "")
      /\ Has(p[2], "identifier", "pat", 1, x)
      /\ Has(p[3], "identifier", "pat", 1, y)
      /\ Has(p[4], "body", "", 1, "")
      /\ Has(p[5], "identifier", "", 4, Mentioned)
  BY <1>1, NodeHas, IdentifierHas
<1>2. p[1].up = 0 /\ p[2].up = 1 /\ p[3].up = 1 /\ p[4].up = 1 /\ p[5].up = 4
  BY <1>7 DEF Has
<1>3. /\ p[1].name # "new"
      /\ p[2].name # "new"
      /\ p[3].name # "new"
      /\ p[4].name # "new"
      /\ p[5].name # "new"
  BY <1>7 DEF Has
<1>4. \A i \in 1 .. 5 : i = 1 \/ i = 2 \/ i = 3 \/ i = 4 \/ i = 5
  OBVIOUS
<1>5. IsShaped(p, 5)
  <2>1. \A i \in 2 .. 5 : \A k \in 2 .. i : k > p[i].up => p[k].up >= p[i].up
    BY <1>2, <1>4
  <2>2. \A i \in 2 .. 5 : p[i].up \in 1 .. i - 1
    BY <1>2, <1>4
  <2>3. \A i \in 1 .. 5 : p[i].name # "new"
    BY <1>3, <1>4
  <2>4. 5 \in 1 .. 7 /\ p[1].up = 0
    BY <1>2
  <2> QED BY <1>1, <2>1, <2>2, <2>3, <2>4 DEF IsShaped
<1>6. ASSUME NEW T, NEW tree, NEW parent, NEW start, Len(tree) \in Nat,
             IsExtended(T, tree, p, 5, parent, start)
      PROVE  IsPhrase(T, Len(tree) + 1, Len(tree) + 5)
  <2> DEFINE s == Len(tree) + 1
  <2>0. \A i \in 1 .. 5 : \A n : n = Len(tree) + i =>
          /\ T[n].type = p[i].type /\ T[n].field = p[i].field
          /\ \A up \in Nat \ {0} : p[i].up = up => T[n].parent = Len(tree) + up
    BY <1>6, NodeOfExtended
  <2>1. T[s].type = "assignment_statement"
    <3>1. 1 \in 1 .. 5 /\ s = Len(tree) + 1
      OBVIOUS
    <3>2. p[1].type = "assignment_statement"
      BY <1>7 DEF Has
    <3> HIDE DEF s
    <3> QED BY <2>0, <3>1, <3>2
  <2>2. Is(T, s + 1, "identifier", "pat", s)
    <3>1. s + 1 = Len(tree) + 2 /\ s = Len(tree) + 1
      BY <1>6
    <3>2. p[2].type = "identifier" /\ p[2].field = "pat" /\ p[2].up = 1
      BY <1>7 DEF Has
    <3>3. 2 \in 1 .. 5 /\ 1 \in Nat \ {0}
      OBVIOUS
    <3> DEFINE n == s + 1
               q == s
    <3> HIDE DEF s
    <3>4. n = Len(tree) + 2 /\ q = Len(tree) + 1
      BY <3>1
    <3> HIDE DEF n, q
    <3>5. T[n].type = p[2].type /\ T[n].field = p[2].field /\ T[n].parent = q
      BY <2>0, <3>2, <3>3, <3>4
    <3>7. Is(T, n, "identifier", "pat", q)
      BY <3>2, <3>5 DEF Is
    <3> QED BY <3>7 DEF n, q
  <2>3. Is(T, s + 2, "identifier", "pat", s)
    <3>1. s + 2 = Len(tree) + 3 /\ s = Len(tree) + 1
      BY <1>6
    <3>2. p[3].type = "identifier" /\ p[3].field = "pat" /\ p[3].up = 1
      BY <1>7 DEF Has
    <3>3. 3 \in 1 .. 5 /\ 1 \in Nat \ {0}
      OBVIOUS
    <3> DEFINE n == s + 2
               q == s
    <3> HIDE DEF s
    <3>4. n = Len(tree) + 3 /\ q = Len(tree) + 1
      BY <3>1
    <3> HIDE DEF n, q
    <3>5. T[n].type = p[3].type /\ T[n].field = p[3].field /\ T[n].parent = q
      BY <2>0, <3>2, <3>3, <3>4
    <3>7. Is(T, n, "identifier", "pat", q)
      BY <3>2, <3>5 DEF Is
    <3> QED BY <3>7 DEF n, q
  <2>4. Is(T, s + 3, "body", "", s)
    <3>1. s + 3 = Len(tree) + 4 /\ s = Len(tree) + 1
      BY <1>6
    <3>2. p[4].type = "body" /\ p[4].field = "" /\ p[4].up = 1
      BY <1>7 DEF Has
    <3>3. 4 \in 1 .. 5 /\ 1 \in Nat \ {0}
      OBVIOUS
    <3> DEFINE n == s + 3
               q == s
    <3> HIDE DEF s
    <3>4. n = Len(tree) + 4 /\ q = Len(tree) + 1
      BY <3>1
    <3> HIDE DEF n, q
    <3>5. T[n].type = p[4].type /\ T[n].field = p[4].field /\ T[n].parent = q
      BY <2>0, <3>2, <3>3, <3>4
    <3>7. Is(T, n, "body", "", q)
      BY <3>2, <3>5 DEF Is
    <3> QED BY <3>7 DEF n, q
  <2>5. Is(T, s + 4, "identifier", "", s + 3)
    <3>1. s + 4 = Len(tree) + 5 /\ s + 3 = Len(tree) + 4
      BY <1>6
    <3>2. p[5].type = "identifier" /\ p[5].field = "" /\ p[5].up = 4
      BY <1>7 DEF Has
    <3>3. 5 \in 1 .. 5 /\ 4 \in Nat \ {0}
      OBVIOUS
    <3> DEFINE n == s + 4
               q == s + 3
    <3> HIDE DEF s
    <3>4. n = Len(tree) + 5 /\ q = Len(tree) + 4
      BY <3>1
    <3> HIDE DEF n, q
    <3>5. T[n].type = p[5].type /\ T[n].field = p[5].field /\ T[n].parent = q
      BY <2>0, <3>2, <3>3, <3>4
    <3>7. Is(T, n, "identifier", "", q)
      BY <3>2, <3>5 DEF Is
    <3> QED BY <3>7 DEF n, q
  <2>6. Len(tree) + 5 = s + 4
    BY <1>6
  <2> HIDE DEF s
  <2>7. IsPairAssignment(T, s, s + 4)
    BY <2>1, <2>2, <2>3, <2>4, <2>5 DEF IsPairAssignment, IsBody
  <2> QED BY <2>6, <2>7 DEF IsPhrase, s
<1> QED BY <1>5, <1>6 DEF p

Fits(phrase, L) ==
  /\ IsShaped(phrase, L)
  /\ \A T, tree, parent, start :
       Len(tree) \in Nat /\ IsExtended(T, tree, phrase, L, parent, start)
         => IsPhrase(T, Len(tree) + 1, Len(tree) + L)

\* Each phrase that is typed is a phrase wherever it is put.
LEMMA PhrasesFit ==
  ASSUME NEW phrase \in Functions \cup Statements
  PROVE  \E L : Fits(phrase, L)
<1>1. "new" \notin Names /\ Mentioned # "new"
  BY NamesAssumption
<1>2. ASSUME NEW x \in Names
      PROVE  /\ Fits(Lambda(x), 6) /\ Fits(FunLambda(x), 5) /\ Fits(Case(x), 5)
             /\ Fits(Assignment(x), 4)
  <2>1. x # "new"
    BY <1>1
  <2> QED BY <1>1, <2>1, LambdaShape, FunLambdaShape, CaseShape, AssignmentShape DEF Fits
<1>3. ASSUME NEW f \in Names, NEW x \in Names
      PROVE  Fits(Definition(f, x), 7) /\ Fits(Rule(f, x), 6) /\ Fits(PairAssignment(f, x), 5)
  <2>1. f # "new" /\ x # "new"
    BY <1>1
  <2> QED BY <1>1, <2>1, DefinitionShape, RuleShape, PairAssignmentShape DEF Fits
<1>4. Fits(Bend, 3)
  BY <1>1, BendShape DEF Fits
<1>5. CASE phrase \in Functions
  <2>1. PICK f \in Names, x \in Names : phrase \in {Definition(f, x), Rule(f, x)}
    BY <1>5 DEF Functions
  <2> QED BY <1>3, <2>1
<1>6. CASE phrase \in Statements
  <2>1. \/ \E x \in Names : phrase \in {Lambda(x), FunLambda(x), Case(x), Assignment(x)}
        \/ \E p \in Names \X Names : phrase = PairAssignment(p[1], p[2])
        \/ phrase = Bend
    BY <1>6 DEF Statements
  <2>2. ASSUME NEW x \in Names, phrase \in {Lambda(x), FunLambda(x), Case(x), Assignment(x)}
        PROVE  \E L : Fits(phrase, L)
    BY <1>2, <2>2
  <2>3. ASSUME NEW p \in Names \X Names, phrase = PairAssignment(p[1], p[2])
        PROVE  \E L : Fits(phrase, L)
    <3>1. p[1] \in Names /\ p[2] \in Names
      OBVIOUS
    <3> QED BY <1>3, <2>3, <3>1
  <2> QED BY <1>4, <2>1, <2>2, <2>3
<1> QED BY <1>5, <1>6

\* A phrase put below a body that is still open leaves a program.
LEMMA ExtendedIsProgram ==
  ASSUME NEW tree, IsProgram(tree), NEW phrase, NEW L, Fits(phrase, L),
         NEW parent \in 1 .. Len(tree), Len(tree) \in Subtree(tree, parent),
         tree[parent].type \in {"source_file", "body"},
         NEW start \in Positions, StartsBefore(tree[Len(tree)].at, start),
         NEW T, IsExtended(T, tree, phrase, L, parent, start)
  PROVE  IsProgram(T)
<1> DEFINE N == Len(tree)
<1>1. IsTree(tree) /\ IsTree(T) /\ N \in Nat \ {0}
  BY ExtendedIsTree DEF IsProgram, Fits, IsTree
<1>2. /\ Len(T) = N + L /\ Len(T) \in Nat /\ L \in 1 .. 7
      /\ \A n \in 1 .. N : T[n] = tree[n]
  BY <1>1 DEF IsTree, IsExtended, Fits, IsShaped
<1>3. T[1].type = "source_file"
  BY <1>1, <1>2 DEF IsProgram
<1>4. ASSUME NEW n \in 2 .. N
      PROVE  \E s \in 2 .. n, e \in n .. Len(T) :
               IsPhrase(T, s, e) /\ T[T[s].parent].type \in {"source_file", "body"}
  <2>1. PICK s \in 2 .. n, e \in n .. N :
          IsPhrase(tree, s, e) /\ tree[tree[s].parent].type \in {"source_file", "body"}
    BY DEF IsProgram
  <2>2. s \in Nat /\ e \in n .. Len(T) /\ s \in 2 .. N /\ \A j \in s .. e : j \in 1 .. N
    BY <1>1, <1>2
  <2>3. IsPhrase(T, s, e)
    <3>1. \A j \in s .. e : AreAlike(T[j], tree[j])
      BY <1>2, <2>2 DEF AreAlike
    <3> QED BY <2>1, <2>2, <3>1, SamePhrase
  <2>4. tree[s].parent \in 1 .. N /\ s \in 1 .. N
    <3>1. tree[s].parent \in 1 .. s - 1
      BY <1>1, <2>2 DEF IsTree
    <3> QED BY <1>1, <2>2, <3>1
  <2>5. T[T[s].parent] = tree[tree[s].parent]
    BY <1>2, <2>4
  <2> QED BY <2>1, <2>2, <2>3, <2>5
<1>5. ASSUME NEW n \in N + 1 .. Len(T)
      PROVE  \E s \in 2 .. n, e \in n .. Len(T) :
               IsPhrase(T, s, e) /\ T[T[s].parent].type \in {"source_file", "body"}
  <2> DEFINE s == N + 1
             e == N + L
  <2>1. s \in 2 .. n /\ e \in n .. Len(T)
    BY <1>1, <1>2
  <2>2. IsPhrase(T, s, e)
    BY <1>1 DEF Fits
  <2>3. T[s].parent = parent
    <3>1. 1 \in 1 .. L /\ phrase[1].up = 0
      BY <1>2 DEF Fits, IsShaped
    <3> QED BY <3>1 DEF IsExtended
  <2>4. T[parent] = tree[parent]
    BY <1>2
  <2> HIDE DEF s, e
  <2> QED BY <2>1, <2>2, <2>3, <2>4
<1>6. \A n \in 2 .. Len(T) : n \in 2 .. N \/ n \in N + 1 .. Len(T)
  BY <1>1, <1>2
<1> QED BY <1>1, <1>3, <1>4, <1>5, <1>6 DEF IsProgram

\* What has been typed is a program, whose lines are short while it is; "new" is new.
ProgramInv ==
  /\ IsSequence(program) /\ IsProgram(program)
  /\ phrases \in Nat
  /\ \A n \in 1 .. Len(program) :
       /\ IsNode(program[n])
       /\ program[n].name # "new" /\ program[n].at.character <= 8 * phrases

LEMMA InitProgram == Init => ProgramInv
<1> SUFFICES ASSUME Init PROVE ProgramInv
  OBVIOUS
<1>1. Len(program) = 1 /\ program[1] = Root /\ phrases = 0 /\ program \in Seq({Root})
  BY DEF Init
<1>2. /\ Root.type = "source_file" /\ Root.parent = 0 /\ Root.name = ""
      /\ Root.at = [line |-> 0, character |-> 0]
  BY DEF Root
<1>3. Root.at \in Positions /\ Root.at.character = 0
  <2>1. [line |-> 0, character |-> 0] \in Positions
    BY DEF Positions
  <2>2. [line |-> 0, character |-> 0].character = 0
    OBVIOUS
  <2> QED BY <1>2, <2>1, <2>2
<1>4. \A n \in 1 .. Len(program) : n = 1
  BY <1>1
<1>5. \A n \in 2 .. Len(program) : FALSE
  BY <1>1
<1>6. IsTree(program)
  <2>1. \A n \in 1 .. Len(program) : program[n].at \in Positions
    BY <1>1, <1>3, <1>4
  <2>2. \A m, n \in 1 .. Len(program) : ~(m < n)
    BY <1>1
  <2>3. program[1].parent = 0
    BY <1>1, <1>2
  <2>4. Len(program) \in Nat \ {0}
    BY <1>1
  <2> QED BY <1>5, <2>1, <2>2, <2>3, <2>4 DEF IsTree
<1>7. IsProgram(program)
  BY <1>1, <1>2, <1>5, <1>6 DEF IsProgram
<1>8. IsSequence(program)
  BY <1>1 DEF IsSequence
<1>9. \A n \in 1 .. Len(program) :
        /\ IsNode(program[n])
        /\ program[n].name # "new" /\ program[n].at.character <= 8 * phrases
  <2>1. program[1].name # "new" /\ program[1].at.character = 0
    BY <1>1, <1>2, <1>3
  <2>2. IsNode(program[1])
    BY <1>1, RecordIsNode DEF Root
  <2> QED BY <1>1, <1>4, <2>1, <2>2
<1> QED BY <1>1, <1>7, <1>8, <1>9 DEF ProgramInv

LEMMA TypeKeepsProgram == ProgramInv /\ Type => ProgramInv'
<1> SUFFICES ASSUME ProgramInv, Type PROVE ProgramInv'
  OBVIOUS
<1> DEFINE N == Len(program)
<1>1. /\ IsSequence(program) /\ IsProgram(program) /\ IsTree(program)
      /\ phrases \in Nat /\ N \in Nat \ {0} /\ program[N].at \in Positions
      /\ \A n \in 1 .. N : /\ IsNode(program[n])
                           /\ program[n].name # "new" /\ program[n].at.character <= 8 * phrases
  <2>1. IsTree(program) /\ N \in Nat \ {0}
    BY DEF ProgramInv, IsProgram, IsTree
  <2>2. N \in 1 .. Len(program)
    BY <2>1
  <2> QED BY <2>1, <2>2 DEF ProgramInv, IsTree
<1>2. PICK parent \in Open(program), newline \in {FALSE, phrases > 0} :
        \E phrase \in IF parent = 1 THEN Functions ELSE Statements :
          program' = Extended(program, phrase, parent, newline)
  BY DEF Type
<1>3. PICK phrase \in Functions \cup Statements :
        program' = Extended(program, phrase, parent, newline)
  BY <1>2
<1>4. PICK L : Fits(phrase, L)
  BY PhrasesFit
<1>5. /\ parent \in 1 .. N /\ N \in Subtree(program, parent)
      /\ program[parent].type \in {"source_file", "body"}
  BY DEF Open, Nodes
<1>6. newline \in BOOLEAN /\ L \in 1 .. 7 /\ L \in Nat /\ DOMAIN phrase = 1 .. L
  <2>1. newline \in BOOLEAN
    <3>1. (phrases > 0) \in BOOLEAN
      OBVIOUS
    <3>2. newline = FALSE \/ newline = (phrases > 0)
      OBVIOUS
    <3> QED BY <3>1, <3>2
  <2>2. L \in 1 .. 7 /\ DOMAIN phrase = 1 .. L
    BY <1>4 DEF Fits, IsShaped
  <2>3. L \in Nat
    BY <2>2
  <2> QED BY <2>1, <2>2, <2>3
<1>7. PICK start \in Positions :
        /\ IsExtended(program', program, phrase, L, parent, start)
        /\ StartsBefore(program[N].at, start)
        /\ start.character <= program[N].at.character + 2
  <2>1. Len(program) >= 1
    BY <1>1
  <2> QED BY <1>1, <1>3, <1>6, <2>1, ExtendedIs
<1>8. IsProgram(program')
  BY <1>1, <1>4, <1>5, <1>7, ExtendedIsProgram
<1>9. IsSequence(program')
  BY <1>7 DEF IsExtended
<1>10. phrases' = phrases + 1 /\ phrases' \in Nat
  BY <1>1 DEF Type
<1>11. ASSUME NEW n \in 1 .. Len(program')
       PROVE  /\ IsNode(program'[n])
              /\ program'[n].name # "new" /\ program'[n].at.character <= 8 * phrases'
  <2>1. Len(program') = N + L
    BY <1>7 DEF IsExtended
  <2>2. CASE n \in 1 .. N
    <3>1. program'[n] = program[n]
      BY <1>7, <2>2 DEF IsExtended
    <3>2. /\ IsNode(program[n])
          /\ program[n].name # "new" /\ program[n].at.character <= 8 * phrases
      BY <1>1, <2>2
    <3>3. program[n].at.character \in Nat
      BY <1>1, <2>2 DEF IsTree, Positions
    <3> DEFINE c == program[n].at.character
    <3> HIDE DEF c
    <3>4. c <= 8 * phrases'
      <4>1. c \in Nat /\ c <= 8 * phrases
        BY <3>2, <3>3 DEF c
      <4> QED BY <1>1, <1>10, <4>1
    <3> QED BY <3>1, <3>2, <3>4 DEF c
  <2>3. CASE n \notin 1 .. N
    <3> DEFINE i == n - N
    <3>1. i \in 1 .. L /\ n = N + i
      BY <1>1, <1>6, <2>1, <2>3
    <3> HIDE DEF i
    <3>2. /\ program'[n].name = phrase[i].name /\ IsRightOf(program'[n].at, start, i)
          /\ IsNode(program'[n])
      BY <1>7, <3>1 DEF IsExtended
    <3>3. phrase[i].name # "new"
      BY <1>4, <3>1 DEF Fits, IsShaped
    <3> DEFINE c == program'[n].at.character
               d == start.character
               b == program[N].at.character
    <3>4. c = d + i - 1 /\ d <= b + 2
      BY <1>7, <3>2 DEF IsRightOf
    <3>5. b \in Nat /\ d \in Nat
      BY <1>1 DEF Positions
    <3>6. b <= 8 * phrases
      <4> N \in 1 .. N
        BY <1>1
      <4> QED BY <1>1
    <3> HIDE DEF b, c, d
    <3>7. c <= 8 * phrases'
      BY <1>1, <1>6, <1>10, <3>1, <3>4, <3>5, <3>6
    <3> QED BY <3>2, <3>3, <3>7 DEF c
  <2> QED BY <2>2, <2>3
<1> QED BY <1>8, <1>9, <1>10, <1>11 DEF ProgramInv

\* Only Type changes the program.
LEMMA InductiveProgram == Spec => []ProgramInv
<1>1. Init => ProgramInv
  BY InitProgram
<1>2. ProgramInv /\ [Next]_vars => ProgramInv'
  <2> SUFFICES ASSUME ProgramInv, [Next]_vars PROVE ProgramInv'
    OBVIOUS
  <2>1. CASE Type
    BY <2>1, TypeKeepsProgram
  <2>2. CASE UNCHANGED <<program, phrases>>
    BY <2>2 DEF ProgramInv
  <2>3. Request \/ Write \/ Highlight \/ UNCHANGED vars => UNCHANGED <<program, phrases>>
    BY DEF Request, Write, Highlight, vars, inputs
  <2> QED BY <2>1, <2>2, <2>3 DEF Next
<1> QED BY <1>1, <1>2, PTL DEF Spec

-----------------------------------------------------------------------------
(***************************************************************************)
(* Trees that differ in names only.                                        *)
(***************************************************************************)
DifferInNames(other, tree) ==
  /\ Len(other) = Len(tree)
  /\ \A n \in 1 .. Len(tree) : AreAlike(other[n], tree[n]) /\ other[n].at = tree[n].at

LEMMA SameTree ==
  ASSUME NEW tree, IsTree(tree), NEW other, DifferInNames(other, tree)
  PROVE  /\ Nodes(other) = Nodes(tree) /\ Identifiers(other) = Identifiers(tree)
         /\ \A n \in Nodes(tree) : Subtree(other, n) = Subtree(tree, n)
         /\ \A n \in Nodes(tree) : NodeRange(other, n) = NodeRange(tree, n)
<1>1. /\ Len(other) = Len(tree) /\ Len(tree) \in Nat
      /\ \A n \in 1 .. Len(tree) : /\ other[n].type = tree[n].type /\ other[n].parent = tree[n].parent
                                   /\ other[n].at = tree[n].at
  BY DEF DifferInNames, AreAlike, IsTree
<1>2. Nodes(other) = Nodes(tree) /\ Identifiers(other) = Identifiers(tree)
  BY <1>1 DEF Nodes, Identifiers
<1>3. ASSUME NEW n \in Nodes(tree) PROVE Subtree(other, n) = Subtree(tree, n)
  <2>1. \A m \in n .. Len(tree) : \A k \in n + 1 .. m : k \in 1 .. Len(tree)
    BY <1>1, <1>3 DEF Nodes
  <2>2. \A m \in n .. Len(tree) : \A k \in n + 1 .. m : other[k].parent = tree[k].parent
    BY <1>1, <2>1
  <2> QED BY <1>1, <2>2 DEF Subtree
<1>4. ASSUME NEW n \in Nodes(tree) PROVE NodeRange(other, n) = NodeRange(tree, n)
  <2> DEFINE S == Subtree(tree, n)
             last == Max(S)
  <2>1. PICK m \in S : \A k \in S : k <= m
    BY <1>4, NodeRangeIs
  <2>2. S \subseteq n .. Len(tree) /\ n \in 1 .. Len(tree)
    BY <1>4, SubtreeIs DEF Nodes
  <2> HIDE DEF S
  <2>3. last \in S
    <3>1. S \subseteq Int /\ m \in S /\ \A k \in S : m >= k
      BY <2>1, <2>2
    <3> QED BY <3>1 DEF Max
  <2>4. last \in 1 .. Len(tree)
    <3> HIDE DEF last
    <3> QED BY <1>1, <2>2, <2>3
  <2> HIDE DEF last
  <2>5. other[last].at = tree[last].at /\ other[n].at = tree[n].at
    BY <1>1, <2>2, <2>4
  <2>6. last = Max(Subtree(tree, n)) /\ last = Max(Subtree(other, n))
    BY <1>3, <1>4 DEF last, S
  <2> QED BY <2>5, <2>6 DEF NodeRange
<1> QED BY <1>2, <1>3, <1>4

\* What a program is does not depend on names.
LEMMA SameProgram ==
  ASSUME NEW tree, IsProgram(tree), NEW other, DifferInNames(other, tree)
  PROVE  IsProgram(other) /\ (AreShort(tree) => AreShort(other))
<1>1. IsTree(tree) /\ Len(tree) \in Nat \ {0} /\ tree[1].type = "source_file" /\ tree[1].parent = 0
  BY DEF IsProgram, IsTree
<1>2. /\ Len(other) = Len(tree) /\ 1 \in 1 .. Len(tree)
      /\ \A n \in 1 .. Len(tree) : /\ AreAlike(other[n], tree[n])
                                   /\ other[n].type = tree[n].type /\ other[n].parent = tree[n].parent
                                   /\ other[n].at = tree[n].at
  BY <1>1 DEF DifferInNames, AreAlike
<1>3. IsTree(other)
  <2>1. \A n \in 2 .. Len(tree) :
          other[n].parent \in 1 .. n - 1 /\ n \in Subtree(other, other[n].parent)
    <3> SUFFICES ASSUME NEW n \in 2 .. Len(tree)
                 PROVE  other[n].parent \in 1 .. n - 1 /\ n \in Subtree(other, other[n].parent)
      OBVIOUS
    <3>1. n \in 1 .. Len(tree) /\ tree[n].parent \in 1 .. n - 1 /\ n \in Subtree(tree, tree[n].parent)
      BY <1>1 DEF IsTree
    <3>2. other[n].parent = tree[n].parent
      BY <1>2, <3>1
    <3>3. tree[n].parent \in Nodes(tree)
      BY <1>1, <3>1 DEF Nodes
    <3>4. Subtree(other, tree[n].parent) = Subtree(tree, tree[n].parent)
      BY <1>1, <3>3, SameTree
    <3> QED BY <3>1, <3>2, <3>4
  <2>2. /\ \A n \in 1 .. Len(tree) : other[n].at \in Positions
        /\ \A m, n \in 1 .. Len(tree) : m < n => StartsBefore(other[m].at, other[n].at)
    BY <1>1, <1>2 DEF IsTree
  <2>3. other[1].parent = 0 /\ Len(other) \in Nat \ {0}
    BY <1>1, <1>2
  <2> QED BY <1>2, <2>1, <2>2, <2>3 DEF IsTree
<1>4. other[1].type = "source_file"
  BY <1>1, <1>2
<1>5. ASSUME NEW n \in 2 .. Len(tree)
      PROVE  \E s \in 2 .. n, e \in n .. Len(tree) :
               IsPhrase(other, s, e) /\ other[other[s].parent].type \in {"source_file", "body"}
  <2>1. PICK s \in 2 .. n, e \in n .. Len(tree) :
          IsPhrase(tree, s, e) /\ tree[tree[s].parent].type \in {"source_file", "body"}
    BY DEF IsProgram
  <2>2. s \in Nat /\ s \in 2 .. Len(tree) /\ s \in 1 .. Len(tree) /\ \A k \in s .. e : k \in 1 .. Len(tree)
    BY <1>1
  <2>3. IsPhrase(other, s, e)
    <3>1. \A k \in s .. e : AreAlike(other[k], tree[k])
      BY <1>2, <2>2
    <3> QED BY <2>1, <2>2, <3>1, SamePhrase
  <2>4. tree[s].parent \in 1 .. Len(tree)
    <3>1. tree[s].parent \in 1 .. s - 1
      BY <1>1, <2>2 DEF IsTree
    <3> QED BY <1>1, <2>2, <3>1
  <2>5. other[other[s].parent].type = tree[tree[s].parent].type
    BY <1>2, <2>2, <2>4
  <2> QED BY <2>1, <2>3, <2>5
<1>6. AreShort(tree) => AreShort(other)
  BY <1>2 DEF AreShort
<1> QED BY <1>2, <1>3, <1>4, <1>5, <1>6 DEF IsProgram

\* Nor which nodes open scopes, and around which others.
LEMMA SameScopes ==
  ASSUME NEW tree, IsProgram(tree), NEW other, DifferInNames(other, tree)
  PROVE  /\ \A n \in Nodes(tree) :
              /\ Opens(other, n) <=> Opens(tree, n)
              /\ Around(other, n) = Around(tree, n)
              /\ Encl(other, n) = Encl(tree, n)
         /\ \A n : Rank(other, n) = Rank(tree, n)
<1>1. /\ IsTree(tree) /\ Len(tree) \in Nat /\ Len(other) = Len(tree) /\ Nodes(tree) = 1 .. Len(tree)
      /\ \A n \in 1 .. Len(tree) : other[n].type = tree[n].type
  BY DEF IsProgram, IsTree, DifferInNames, AreAlike, Nodes
<1>2. \A n \in Nodes(tree) : Opens(other, n) <=> Opens(tree, n)
  BY <1>1 DEF Opens
<1>3. ASSUME NEW n \in Nodes(tree) PROVE Around(other, n) = Around(tree, n)
  <2>1. \A k \in 1 .. n - 1 : k \in Nodes(tree)
    BY <1>1, <1>3
  <2>2. \A k \in 1 .. n - 1 :
          (Opens(other, k) <=> Opens(tree, k)) /\ Subtree(other, k) = Subtree(tree, k)
    BY <1>1, <1>2, <2>1, SameTree
  <2> QED BY <2>2 DEF Around
<1>4. \A n \in Nodes(tree) : Encl(other, n) = Encl(tree, n)
  BY <1>3 DEF Encl
<1>5. OpenerNodes(other) = OpenerNodes(tree)
  <2>1. \A o \in 2 .. Len(tree) : other[o].type = tree[o].type
    BY <1>1
  <2> QED BY <1>1, <2>1 DEF OpenerNodes
<1>6. \A n : Rank(other, n) = Rank(tree, n)
  BY <1>5 DEF Rank
<1> QED BY <1>2, <1>3, <1>4, <1>6

\* Nor which identifiers bind, where and as what.
LEMMA SameBinders ==
  ASSUME NEW tree, IsProgram(tree), NEW other, DifferInNames(other, tree),
         NEW n \in Identifiers(tree)
  PROVE  /\ Binds(other, n) <=> Binds(tree, n)
         /\ Binds(tree, n) => /\ BoundOf(other, n) = BoundOf(tree, n)
                              /\ BindRec(other, n) = [BindRec(tree, n) EXCEPT !.name = other[n].name]
<1>1. /\ IsTree(tree) /\ Len(tree) \in Nat
      /\ \A m \in 1 .. Len(tree) : other[m].type = tree[m].type /\ other[m].parent = tree[m].parent
  BY DEF IsProgram, IsTree, DifferInNames, AreAlike
<1>2. n \in 2 .. Len(tree) /\ n \in 1 .. Len(tree) /\ n \in Nodes(tree) /\ n - 1 \in 1 .. Len(tree)
  <2>1. n \in 2 .. Len(tree) /\ n \in Nodes(tree)
    BY IdentifiersAre
  <2> QED BY <1>1, <2>1
<1>3. tree[n].parent \in 1 .. Len(tree)
  <2>1. tree[n].parent \in 1 .. n - 1
    BY <1>1, <1>2 DEF IsTree
  <2> QED BY <1>1, <1>2, <2>1
<1>4. /\ other[n].type = tree[n].type /\ other[n].parent = tree[n].parent
      /\ other[n - 1].type = tree[n - 1].type
      /\ other[tree[n].parent].type = tree[tree[n].parent].type
  BY <1>1, <1>2, <1>3
<1>5. (IsOuter(other, n) <=> IsOuter(tree, n)) /\ (IsInner(other, n) <=> IsInner(tree, n))
  BY <1>4 DEF IsOuter, IsInner
<1>6. BindingKind(other, n) = BindingKind(tree, n)
  BY <1>4, <1>5 DEF BindingKind
<1>7. BoundOf(other, n) = BoundOf(tree, n)
  <2>1. n - 1 \in Nodes(tree)
    BY <1>2 DEF Nodes
  <2>2. Encl(other, n) = Encl(tree, n) /\ Encl(other, n - 1) = Encl(tree, n - 1)
    BY <1>2, <2>1, SameScopes
  <2> QED BY <1>5, <2>2 DEF BoundOf
<1>8. NodeRange(other, n) = NodeRange(tree, n)
  BY <1>1, <1>2, SameTree
<1>9. Rank(other, BoundOf(tree, n)) = Rank(tree, BoundOf(tree, n))
  BY SameScopes
<1>10. BindRec(other, n) = [BindRec(tree, n) EXCEPT !.name = other[n].name]
  BY <1>6, <1>7, <1>8, <1>9 DEF BindRec
<1> QED BY <1>5, <1>7, <1>10 DEF Binds

\* Two identifiers do not share a binding.
LEMMA BindingsDiffer ==
  ASSUME NEW tree, IsProgram(tree), NEW a \in Identifiers(tree), NEW b \in Identifiers(tree),
         BindRec(tree, a).range = BindRec(tree, b).range
  PROVE  a = b
<1>1. IsTree(tree) /\ a \in Nodes(tree) /\ b \in Nodes(tree) /\ a \in Nat /\ b \in Nat
  BY IdentifiersAre DEF IsProgram
<1>2. NodeRange(tree, a).start = NodeRange(tree, b).start
  BY DEF BindRec
<1>3. PositionLE(NodeRange(tree, a).start, NodeRange(tree, a).start)
  BY <1>1, StartsInOrder
<1>4. a <= b /\ b <= a
  BY <1>1, <1>2, <1>3, StartsInOrder
<1> QED BY <1>1, <1>4

\* An identifier that binds a name is bound by itself.
LEMMA BinderIsItsOwn ==
  ASSUME NEW tree, IsProgram(tree), NEW b \in Identifiers(tree), Binds(tree, b)
  PROVE  b \in BindersAround(tree, b) /\ IsLast(tree, b, BindersAround(tree, b))
<1>1. IsTree(tree) /\ Len(tree) \in Nat /\ b \in 2 .. Len(tree) /\ b \in Nodes(tree) /\ b \in Nat
  BY IdentifiersAre DEF IsProgram, IsTree
<1>2. b \in Namesakes(tree, b)
  BY <1>1 DEF Namesakes
<1>3. /\ Encl(tree, b) \in Around(tree, b) /\ \A k \in Around(tree, b) : k <= Encl(tree, b)
  BY <1>1, EnclIs
<1>4. \A k \in BindersAround(tree, b) :
        /\ k \in Identifiers(tree) /\ Binds(tree, k) /\ k <= b /\ k \in Nat
        /\ BoundOf(tree, k) \in Around(tree, b) /\ BoundOf(tree, k) \in Nat
  <2> SUFFICES ASSUME NEW k \in BindersAround(tree, b)
               PROVE  /\ k \in Identifiers(tree) /\ Binds(tree, k) /\ k <= b /\ k \in Nat
                      /\ BoundOf(tree, k) \in Around(tree, b) /\ BoundOf(tree, k) \in Nat
    OBVIOUS
  <2>1. /\ k \in Identifiers(tree) /\ Binds(tree, k) /\ k <= b /\ BoundOf(tree, k) \in Around(tree, b)
    BY DEF BindersAround, Namesakes
  <2>2. k \in Nat /\ BoundOf(tree, k) \in 1 .. k - 1
    BY <2>1, IdentifiersAre, BoundOfIs
  <2> QED BY <2>1, <2>2
<1>5. CASE ~IsOuter(tree, b)
  <2>1. BoundOf(tree, b) = Encl(tree, b)
    BY <1>5 DEF BoundOf
  <2>2. b \in BindersAround(tree, b)
    BY <1>2, <1>3, <2>1 DEF BindersAround
  <2>3. IsLast(tree, b, BindersAround(tree, b))
    BY <1>3, <1>4, <2>1 DEF IsLast
  <2> QED BY <2>2, <2>3
<1>6. CASE IsOuter(tree, b)
  <2> DEFINE p == b - 1
  <2>1. p \in 2 .. Len(tree) /\ p \in Nat /\ p < b
    BY <1>1, <1>6, BoundOfIs
  <2>2. tree[b].parent = p
    BY <1>6 DEF IsOuter
  <2>3. BoundOf(tree, b) = Encl(tree, p)
    BY <1>6 DEF BoundOf
  <2>4. Around(tree, b) = Around(tree, p) \cup (IF Opens(tree, p) THEN {p} ELSE {})
    BY <1>1, <2>2, AroundParent
  <2>5. /\ Encl(tree, p) \in Around(tree, p) /\ Encl(tree, p) \in 1 .. p - 1
        /\ \A k \in Around(tree, p) : k <= Encl(tree, p)
    <3> HIDE DEF p
    <3> QED BY <1>1, <2>1, EnclIs
  <2>6. b \in BindersAround(tree, b)
    BY <1>2, <2>3, <2>4, <2>5 DEF BindersAround
  <2>7. ASSUME NEW k \in BindersAround(tree, b)
        PROVE  /\ BoundOf(tree, k) <= BoundOf(tree, b)
               /\ BoundOf(tree, k) = BoundOf(tree, b) => k <= b
    <3>1. k <= b /\ k \in Nat
      BY <1>4
    <3>2. BoundOf(tree, k) \in 1 .. k - 1
      BY <1>4, BoundOfIs
    <3>3. BoundOf(tree, k) # p
      <4> SUFFICES ASSUME BoundOf(tree, k) = p PROVE FALSE
        OBVIOUS
      <4>1. k = b
        BY <1>1, <2>1, <3>1, <3>2
      <4> QED BY <2>1, <2>3, <2>5, <4>1
    <3>4. BoundOf(tree, k) \in Around(tree, p)
      BY <1>4, <2>4, <3>3
    <3> QED BY <2>3, <2>5, <3>1, <3>4
  <2>8. IsLast(tree, b, BindersAround(tree, b))
    BY <2>7 DEF IsLast
  <2> QED BY <2>6, <2>8
<1> QED BY <1>5, <1>6

\* There is one last of the innermost.
LEMMA OneIsLast ==
  ASSUME NEW tree, IsProgram(tree), NEW n \in Identifiers(tree), NEW M,
         M \subseteq BindersAround(tree, n), NEW a \in M, NEW b \in M,
         IsLast(tree, a, M), IsLast(tree, b, M)
  PROVE  a = b
<1>1. \A k \in M : k \in Identifiers(tree) /\ Binds(tree, k)
  BY DEF BindersAround, Namesakes
<1>2. \A k \in M : k \in Nat /\ BoundOf(tree, k) \in 1 .. k - 1
  BY <1>1, IdentifiersAre, BoundOfIs
<1>3. BoundOf(tree, a) <= BoundOf(tree, b) /\ BoundOf(tree, b) <= BoundOf(tree, a)
  BY DEF IsLast
<1>4. BoundOf(tree, a) = BoundOf(tree, b)
  <2> DEFINE x == BoundOf(tree, a)
             y == BoundOf(tree, b)
  <2>1. x \in Int /\ y \in Int
    BY <1>2
  <2> HIDE DEF x, y
  <2>2. x <= y /\ y <= x => x = y
    BY <2>1
  <2> QED BY <1>3, <2>2 DEF x, y
<1>5. a <= b /\ b <= a
  BY <1>4 DEF IsLast
<1> QED BY <1>2, <1>5

\* What is found for an identifier, by the binder it is found for.
LEMMA FoundBy ==
  ASSUME NEW tree, IsProgram(tree), AreShort(tree), NEW n \in Identifiers(tree)
  PROVE  LET found == BindingAt(BuildScopes(tree), tree, n)
             M == BindersAround(tree, n)
         IN /\ M = {} => found = NoBinding
            /\ \A m \in M : IsLast(tree, m, M) => found = BindRec(tree, m)
            /\ M # {} => \E m \in M : IsLast(tree, m, M)
<1> DEFINE found == BindingAt(BuildScopes(tree), tree, n)
           M == BindersAround(tree, n)
<1>1. IsFound(tree, M, found)
  BY BindingAtIs
<1>2. M \subseteq BindersAround(tree, n)
  OBVIOUS
<1> HIDE DEF found, M
<1>3. ASSUME NEW m \in M, IsLast(tree, m, M) PROVE found = BindRec(tree, m)
  <2>1. PICK k \in M : IsLast(tree, k, M) /\ found = BindRec(tree, k)
    BY <1>1 DEF IsFound
  <2>2. k = m
    BY <1>2, <1>3, <2>1, OneIsLast
  <2> QED BY <2>1, <2>2
<1>4. (M = {} => found = NoBinding) /\ (M # {} => \E m \in M : IsLast(tree, m, M))
  BY <1>1 DEF IsFound
<1> QED BY <1>3, <1>4 DEF found, M

\* The tree in which the identifiers whose binding is that of t have the name new.
IsRenaming(other, tree, t, new) ==
  /\ DifferInNames(other, tree)
  /\ \A n \in Identifiers(tree) :
       other[n].name = IF /\ tree[n].name = tree[t].name
                          /\ BindingAt(BuildScopes(tree), tree, n) = BindRec(tree, t)
                         THEN new ELSE tree[n].name

PlaceOf(tree, n) == [BindingAt(BuildScopes(tree), tree, n) EXCEPT !.name = ""]

\* After renaming to a new name what t binds, each identifier is bound where it was.
LEMMA RenamingKeeps ==
  ASSUME NEW tree, IsProgram(tree), AreShort(tree), NEW t \in Identifiers(tree), Binds(tree, t),
         NEW new, \A n \in Identifiers(tree) : tree[n].name # new,
         NEW other, IsRenaming(other, tree, t, new), NEW x \in Identifiers(tree)
  PROVE  PlaceOf(other, x) = PlaceOf(tree, x)
<1> DEFINE found(n) == BindingAt(BuildScopes(tree), tree, n)
           then == BindingAt(BuildScopes(other), other, x)
           M == BindersAround(tree, x)
           N == BindersAround(other, x)
           IsRenamed(n) == tree[n].name = tree[t].name /\ found(n) = BindRec(tree, t)
<1>1. /\ DifferInNames(other, tree) /\ IsTree(tree) /\ IsProgram(other) /\ AreShort(other)
      /\ Identifiers(other) = Identifiers(tree) /\ x \in Identifiers(other)
  <2>1. DifferInNames(other, tree) /\ IsTree(tree)
    BY DEF IsRenaming, IsProgram
  <2> QED BY <2>1, SameProgram, SameTree
<1>2. /\ M = {} => found(x) = NoBinding
      /\ \A m \in M : IsLast(tree, m, M) => found(x) = BindRec(tree, m)
      /\ M # {} => \E m \in M : IsLast(tree, m, M)
  BY FoundBy
<1>3. /\ N = {} => then = NoBinding
      /\ \A m \in N : IsLast(other, m, N) => then = BindRec(other, m)
      /\ N # {} => \E m \in N : IsLast(other, m, N)
  BY <1>1, FoundBy
<1>4. \A n \in Identifiers(tree) : other[n].name = IF IsRenamed(n) THEN new ELSE tree[n].name
  BY DEF IsRenaming
<1>5. ASSUME NEW b \in Identifiers(tree), Binds(tree, b) PROVE IsRenamed(b) <=> b = t
  <2>1. found(b) = BindRec(tree, b)
    <3>1. b \in BindersAround(tree, b) /\ IsLast(tree, b, BindersAround(tree, b))
      BY <1>5, BinderIsItsOwn
    <3> QED BY <3>1, FoundBy
  <2> HIDE DEF found
  <2>2. found(b) = BindRec(tree, t) => b = t
    <3>1. BindRec(tree, b) = BindRec(tree, t) => BindRec(tree, b).range = BindRec(tree, t).range
      OBVIOUS
    <3> QED BY <2>1, <3>1, BindingsDiffer
  <2> QED BY <2>1, <2>2
<1>6. \A b \in Identifiers(tree) :
        Binds(tree, b) => /\ BoundOf(other, b) = BoundOf(tree, b)
                          /\ BindRec(other, b) = [BindRec(tree, b) EXCEPT !.name = other[b].name]
  BY <1>1, SameBinders
<1>7. \A b : b \in M <=> /\ b \in Identifiers(tree) /\ Binds(tree, b) /\ b <= x
                         /\ tree[b].name = tree[x].name /\ BoundOf(tree, b) \in Around(tree, x)
  BY DEF BindersAround, Namesakes
<1>8. \A b : b \in N <=> /\ b \in Identifiers(tree) /\ Binds(tree, b) /\ b <= x
                         /\ other[b].name = other[x].name /\ BoundOf(tree, b) \in Around(tree, x)
  <2>1. Around(other, x) = Around(tree, x)
    <3>1. x \in Nodes(tree)
      BY IdentifiersAre
    <3> QED BY <1>1, <3>1, SameScopes
  <2>2. \A b \in Identifiers(tree) : Binds(other, b) <=> Binds(tree, b)
    BY <1>1, SameBinders
  <2> QED BY <1>1, <1>6, <2>1, <2>2 DEF BindersAround, Namesakes
<1>9. ASSUME NEW S, S \subseteq N, NEW m \in N
      PROVE  IsLast(other, m, S) <=> IsLast(tree, m, S)
  <2>1. \A k \in S : BoundOf(other, k) = BoundOf(tree, k)
    BY <1>6, <1>8, <1>9
  <2>2. BoundOf(other, m) = BoundOf(tree, m)
    BY <1>6, <1>8
  <2> QED BY <2>1, <2>2 DEF IsLast
<1> HIDE DEF found, then, M, N
<1>10. ASSUME NEW b \in Identifiers(tree), Binds(tree, b)
       PROVE  [BindRec(other, b) EXCEPT !.name = ""] = [BindRec(tree, b) EXCEPT !.name = ""]
  BY <1>6, <1>10 DEF BindRec
<1>11. CASE IsRenamed(x)
  <2>1. M # {}
    <3>1. found(x) = NoBinding => FALSE
      <4>1. NoBinding.range.start = Nowhere /\ Nowhere.line = -1
        BY DEF NoBinding, Nowhere
      <4>2. BindRec(tree, t).range.start = tree[t].at /\ tree[t].at.line \in Nat
        <5>1. t \in Nodes(tree) /\ t \in 1 .. Len(tree)
          BY IdentifiersAre DEF Nodes
        <5>2. NodeRange(tree, t).start = tree[t].at
          BY <1>1, <5>1, NodeRangeIs
        <5>3. tree[t].at \in Positions
          BY <1>1, <5>1 DEF IsTree
        <5> QED BY <5>2, <5>3 DEF BindRec, Positions
      <4>3. NoBinding # BindRec(tree, t)
        BY <4>1, <4>2
      <4> QED BY <1>11, <4>3
    <3> QED BY <1>2, <3>1
  <2>2. t \in M
    <3>1. PICK k \in M : IsLast(tree, k, M)
      BY <1>2, <2>1
    <3>2. BindRec(tree, k) = BindRec(tree, t)
      BY <1>2, <1>11, <3>1
    <3>3. k \in Identifiers(tree)
      BY <1>7
    <3>4. BindRec(tree, k).range = BindRec(tree, t).range
      BY <3>2
    <3>5. k = t
      BY <3>3, <3>4, BindingsDiffer
    <3> QED BY <3>1, <3>5
  <2>3. other[x].name = new
    BY <1>4, <1>11
  <2>4. ASSUME NEW b \in Identifiers(tree), Binds(tree, b) PROVE other[b].name = new <=> b = t
    BY <1>4, <1>5, <2>4
  <2>5. N = {t}
    BY <1>7, <1>8, <2>2, <2>3, <2>4
  <2>6. then = BindRec(other, t)
    BY <1>3, <2>5
  <2> QED BY <1>10, <1>11, <2>6 DEF PlaceOf, then, found
<1>12. CASE ~IsRenamed(x)
  <2>1. other[x].name = tree[x].name /\ tree[x].name # new
    BY <1>4, <1>12
  <2>2. ASSUME NEW b \in Identifiers(tree), Binds(tree, b)
        PROVE  other[b].name = tree[x].name <=> tree[b].name = tree[x].name /\ b # t
    <3>1. other[b].name = IF b = t THEN new ELSE tree[b].name
      BY <1>4, <1>5, <2>2
    <3> QED BY <2>1, <3>1
  <2>3. N = M \ {t}
    BY <1>7, <1>8, <2>1, <2>2
  <2>4. CASE M = {}
    BY <1>2, <1>3, <2>3, <2>4 DEF PlaceOf, then, found
  <2>5. CASE M # {}
    <3>1. PICK k \in M : IsLast(tree, k, M)
      BY <1>2, <2>5
    <3>2. found(x) = BindRec(tree, k)
      BY <1>2, <3>1
    <3>3. k # t
      BY <1>7, <1>12, <3>1, <3>2
    <3>4. k \in N /\ IsLast(tree, k, N)
      BY <2>3, <3>1, <3>3 DEF IsLast
    <3>5. IsLast(other, k, N)
      BY <1>9, <3>4
    <3>6. then = BindRec(other, k)
      BY <1>3, <3>4, <3>5
    <3>7. k \in Identifiers(tree) /\ Binds(tree, k)
      BY <1>7
    <3> QED BY <1>10, <3>2, <3>6, <3>7 DEF PlaceOf, then, found
  <2> QED BY <2>4, <2>5
<1> QED BY <1>11, <1>12 DEF PlaceOf, then, found

LEMMA RenamedNode ==
  ASSUME NEW node, IsNode(node), NEW new, NEW r, r = [node EXCEPT !.name = new]
  PROVE  AreAlike(r, node) /\ r.at = node.at /\ r.name = new
  BY DEF IsNode, AreAlike

\* Renaming changes names only, and those of the renamed only.
LEMMA RenameIs ==
  ASSUME NEW graph, NEW tree, Len(tree) \in Nat, \A m \in 1 .. Len(tree) : IsNode(tree[m]),
         NEW n, NEW new
  PROVE  LET other == Rename(graph, tree, n, new)
         IN /\ DifferInNames(other, tree)
            /\ \A m \in Nodes(tree) :
                 other[m].name = IF m \in RenamedAt(graph, tree, n) THEN new ELSE tree[m].name
<1> DEFINE renamed == RenamedAt(graph, tree, n)
           R(m) == [tree[m] EXCEPT !.name = new]
           f == [m \in 1 .. Len(tree) |-> IF m \in renamed THEN R(m) ELSE tree[m]]
           S == {f[m] : m \in 1 .. Len(tree)}
<1>1. Rename(graph, tree, n, new) = f
  BY DEF Rename, Nodes
<1>2. \A m \in 1 .. Len(tree) : f[m] = IF m \in renamed THEN R(m) ELSE tree[m]
  OBVIOUS
<1>3. f \in [1 .. Len(tree) -> S]
  <2>1. DOMAIN f = 1 .. Len(tree) /\ f = [m \in 1 .. Len(tree) |-> f[m]]
    OBVIOUS
  <2> HIDE DEF f
  <2> QED BY <2>1
<1> HIDE DEF f, S, renamed
<1>4. Len(f) = Len(tree)
  BY <1>3, FunctionIsSeq
<1>5. ASSUME NEW m \in 1 .. Len(tree)
      PROVE  /\ AreAlike(f[m], tree[m]) /\ f[m].at = tree[m].at
             /\ f[m].name = IF m \in renamed THEN new ELSE tree[m].name
  <2>1. CASE m \in renamed
    <3>1. f[m] = R(m) /\ IsNode(tree[m])
      BY <1>2, <2>1
    <3> QED BY <2>1, <3>1, RenamedNode
  <2>2. CASE m \notin renamed
    BY <1>2, <2>2 DEF AreAlike
  <2> QED BY <2>1, <2>2
<1> QED BY <1>1, <1>4, <1>5 DEF DifferInNames, Nodes, renamed

\* The identifiers a rename renames are those its target's binder binds.
LEMMA ProgramsKeepBindings ==
  ASSUME ProgramInv, AreShort(program)
  PROVE  RenameKeepsBindings
<1> DEFINE graph == BuildScopes(program)
<1>1. /\ IsProgram(program) /\ Len(program) \in Nat
      /\ \A n \in 1 .. Len(program) : IsNode(program[n])
      /\ \A n \in Identifiers(program) : program[n].name # "new" /\ n \in Nodes(program)
  BY DEF ProgramInv, IsProgram, IsTree, Identifiers, Nodes
<1>2. ASSUME NEW n \in Identifiers(program), BindingAt(graph, program, n).scope > 0,
             NEW m \in Identifiers(program)
      PROVE  LET renamed == Rename(graph, program, n, "new")
             IN [BindingAt(BuildScopes(renamed), renamed, m) EXCEPT !.name = ""]
                  = [BindingAt(graph, program, m) EXCEPT !.name = ""]
  <2> DEFINE found == BindingAt(graph, program, n)
             renamed == Rename(graph, program, n, "new")
  <2>1. PICK t \in BindersAround(program, n) : found = BindRec(program, t)
    <3>1. IsFound(program, BindersAround(program, n), found)
      BY <1>1, BindingAtIs
    <3>2. found # NoBinding
      <4>1. NoBinding.scope = -1 /\ found.scope > 0
        BY <1>2 DEF NoBinding
      <4> HIDE DEF found
      <4> QED BY <4>1
    <3> HIDE DEF found
    <3> QED BY <3>1, <3>2 DEF IsFound
  <2>2. t \in Identifiers(program) /\ Binds(program, t) /\ program[t].name = program[n].name
    BY <2>1 DEF BindersAround, Namesakes
  <2>3. /\ DifferInNames(renamed, program)
        /\ \A k \in Nodes(program) :
             renamed[k].name = IF k \in RenamedAt(graph, program, n) THEN "new" ELSE program[k].name
    <3> HIDE DEF graph
    <3> QED BY <1>1, RenameIs
  <2> HIDE DEF renamed
  <2>4. \A k \in Identifiers(program) :
          k \in RenamedAt(graph, program, n)
            <=> /\ program[k].name = program[t].name
                /\ BindingAt(BuildScopes(program), program, k) = BindRec(program, t)
    BY <2>1, <2>2 DEF RenamedAt
  <2>5. IsRenaming(renamed, program, t, "new")
    <3> HIDE DEF graph
    <3> QED BY <1>1, <2>3, <2>4 DEF IsRenaming
  <2>6. \A k \in Identifiers(program) : program[k].name # "new"
    BY <1>1
  <2>7. PlaceOf(renamed, m) = PlaceOf(program, m)
    <3> SUFFICES ASSUME NEW new, new = "new" PROVE PlaceOf(renamed, m) = PlaceOf(program, m)
      OBVIOUS
    <3>1. IsRenaming(renamed, program, t, new) /\ \A k \in Identifiers(program) : program[k].name # new
      BY <2>5, <2>6
    <3> HIDE DEF found
    <3> QED BY <1>1, <2>2, <3>1, RenamingKeeps
  <2> QED BY <2>7 DEF renamed, PlaceOf
<1> QED BY <1>2 DEF RenameKeepsBindings

-----------------------------------------------------------------------------
(***************************************************************************)
(* A line is short if it has less than the 1,000,000 columns that          *)
(* sizeOfScope (src/intel/scopes.go) counts a line for; a phrase has eight *)
(* columns at most.                                                        *)
(***************************************************************************)
LinesAreShort == AreShort(program)

\* While lines are short, bindingAt finds the binding of the innermost scope around a
\* name, in programs of any shape and size.
THEOREM BindingsAreInnermost == Spec => [](LinesAreShort => BindingIsInnermost)
<1>1. ProgramInv => (LinesAreShort => BindingIsInnermost)
  BY ProgramsBindInnermost DEF ProgramInv, LinesAreShort
<1> QED BY <1>1, InductiveProgram, PTL

\* While lines are short, renaming a local name leaves each name bound where it was.
THEOREM RenamesKeepBindings == Spec => [](LinesAreShort => RenameKeepsBindings)
<1>1. ProgramInv => (LinesAreShort => RenameKeepsBindings)
  BY ProgramsKeepBindings DEF LinesAreShort
<1> QED BY <1>1, InductiveProgram, PTL

\* A bound on phrases by which no line can be longer.
NoLineIsLong == MaxPhrases \in Nat /\ 8 * MaxPhrases < 1000000
PhrasesInv == phrases \in 0 .. MaxPhrases

LEMMA ProgramsAreShort ==
  ASSUME NoLineIsLong
  PROVE  Spec => []LinesAreShort
<1> MaxPhrases \in Nat
  BY DEF NoLineIsLong
<1>1. Init => PhrasesInv
  BY DEF Init, PhrasesInv
<1>2. PhrasesInv /\ [Next]_vars => PhrasesInv'
  <2> SUFFICES ASSUME PhrasesInv, [Next]_vars PROVE PhrasesInv'
    OBVIOUS
  <2>1. CASE Type
    <3>1. phrases' = phrases + 1 /\ phrases < MaxPhrases
      BY <2>1 DEF Type
    <3> QED BY <3>1 DEF PhrasesInv
  <2>2. Request \/ Write \/ Highlight \/ UNCHANGED vars => phrases' = phrases
    BY DEF Request, Write, Highlight, vars, inputs
  <2> QED BY <2>1, <2>2 DEF Next, PhrasesInv
<1>3. ProgramInv /\ PhrasesInv => LinesAreShort
  <2> SUFFICES ASSUME ProgramInv, PhrasesInv, NEW n \in 1 .. Len(program)
               PROVE  program[n].at.character < 1000000
    BY SMT DEF LinesAreShort, AreShort
  <2> DEFINE c == program[n].at.character
  <2>1. c \in Nat /\ c <= 8 * phrases
    BY DEF ProgramInv, IsProgram, IsTree, Positions
  <2> HIDE DEF c
  <2>2. c < 1000000
    BY <2>1, SMT DEF PhrasesInv, NoLineIsLong
  <2> QED BY <2>2, SMT DEF c
<1> QED BY <1>1, <1>2, <1>3, InductiveProgram, PTL DEF Spec

\* In programs of so few phrases that no line can be longer, no premise is left.
COROLLARY BoundedBindingsAreInnermost ==
  ASSUME NoLineIsLong
  PROVE  Spec => []BindingIsInnermost
<1> QED BY ProgramsAreShort, BindingsAreInnermost, PTL

\* Nor for renaming.
COROLLARY BoundedRenamesKeepBindings ==
  ASSUME NoLineIsLong
  PROVE  Spec => []RenameKeepsBindings
<1> QED BY ProgramsAreShort, RenamesKeepBindings, PTL
=============================================================================
