------------------------------- MODULE Scopes -------------------------------
(***************************************************************************)
(* The scope graph of a document (src/intel/scopes.go): buildScopes and    *)
(* bindingAt, and the renaming of a local name that rests on them          *)
(* (sameBinding in document.go, candidateMatches in workspace.go).         *)
(*                                                                         *)
(* Data.  A tree is the sequence of its named nodes in the order of a      *)
(* walk: type, field, parent (an index), name (of an identifier) and the   *)
(* place where it starts.  Each node is taken to start with a token of one *)
(* column; it ends where its last descendant does.  Nodes that neither     *)
(* bind nor open a scope are bodies here.                                  *)
(***************************************************************************)
EXTENDS Integers, Sequences, SequencesExt

NoNode == 0
Nowhere == [line |-> -1, character |-> -1]
NoBinding == [name |-> "", kind |-> "", range |-> [start |-> Nowhere, end |-> Nowhere], scope |-> -1]

FunctionTypes == {"imp_function_definition", "fun_function_definition"}
LambdaTypes == {"imp_lambda", "fun_lambda"}
ArmTypes == {"match_case", "switch_case", "fold_statement", "bend_statement"}

-----------------------------------------------------------------------------
(***************************************************************************)
(* Nodes.                                                                  *)
(***************************************************************************)
Nodes(tree) == 1 .. Len(tree)
InOrder(nodes) ==
  CHOOSE order \in [1 .. Cardinality(nodes) -> nodes] :
    \A i, j \in DOMAIN order : i < j => order[i] < order[j]

Subtree(tree, n) == {m \in n .. Len(tree) : \A k \in n + 1 .. m : tree[k].parent >= n}

NamedChildren(tree, n) == {m \in Nodes(tree) : tree[m].parent = n}

First(nodes) == IF nodes = {} THEN NoNode ELSE Min(nodes)

ChildByFieldName(tree, n, field) ==
  First({m \in NamedChildren(tree, n) : tree[m].field = field})

FirstNamedChildType(tree, n, type) ==
  First({m \in NamedChildren(tree, n) : tree[m].type = type})

NodeRange(tree, n) ==
  LET last == tree[Max(Subtree(tree, n))].at
  IN [start |-> tree[n].at, end |-> [last EXCEPT !.character = @ + 1]]

PositionLE(a, b) == a.line < b.line \/ (a.line = b.line /\ a.character <= b.character)

-----------------------------------------------------------------------------
(***************************************************************************)
(* buildScopes.                                                            *)
(***************************************************************************)
AddBindings(graph, tree, names, kind, scope) ==
  LET Binding(n) == [name |-> tree[n].name, kind |-> kind,
                     range |-> NodeRange(tree, n), scope |-> scope]
  IN [graph EXCEPT !.bindings = @ \o [i \in DOMAIN names |-> Binding(names[i])]]

AddScope(graph, tree, n, kind, parent) ==
  [graph EXCEPT !.scopes = Append(@, [kind |-> kind, range |-> NodeRange(tree, n), parent |-> parent])]

\* The name a child of a parameter list binds.
ParameterName(tree, n) ==
  CASE tree[n].type = "parameter" -> ChildByFieldName(tree, n, "name")
    [] tree[n].type = "identifier" -> n
    [] tree[n].type = "expression_identifier" -> FirstNamedChildType(tree, n, "identifier")
    [] OTHER -> NoNode

AddParameterBindings(graph, tree, n, scope) ==
  LET names == {ParameterName(tree, m) : m \in NamedChildren(tree, n)} \ {NoNode}
  IN IF n = NoNode THEN graph
     ELSE AddBindings(graph, tree, InOrder(names), "parameter", scope)

\* All identifiers of a pattern.  (No pattern of the grammar has a name field.)
AddPatternBindings(graph, tree, n, scope) ==
  LET names == {m \in Subtree(tree, n) : tree[m].type = "identifier"}
  IN IF n = NoNode THEN graph
     ELSE AddBindings(graph, tree, InOrder(names), "variable", scope)

AddAllPatterns(graph, tree, patterns, scope) ==
  FoldLeft(LAMBDA g, p : AddPatternBindings(g, tree, p, scope), graph, InOrder(patterns))

ArmScopeKind ==
  [match_case |-> "match-arm", switch_case |-> "switch-arm",
   fold_statement |-> "fold-arm", bend_statement |-> "bend"]

\* A function: its name is bound outside, its parameters and patterns inside.
VisitFunction(graph, tree, n, current) ==
  LET name == ChildByFieldName(tree, n, "name")
      named == IF name = NoNode THEN graph
               ELSE AddBindings(graph, tree, <<name>>, "function", current)
      scope == Len(graph.scopes)
      patterns == IF tree[n].type = "fun_function_definition"
                    THEN {m \in NamedChildren(tree, n) : tree[m].type = "pattern"}
                    ELSE {}
  IN AddAllPatterns(
       AddParameterBindings(AddScope(named, tree, n, "function", current), tree,
                            ChildByFieldName(tree, n, "parameters"), scope),
       tree, patterns, scope)

VisitLambda(graph, tree, n, current) ==
  LET scope == Len(graph.scopes)
      Part(name) == IF ChildByFieldName(tree, n, name) # NoNode
                      THEN ChildByFieldName(tree, n, name)
                      ELSE FirstNamedChildType(tree, n, name)
  IN AddPatternBindings(
       AddParameterBindings(AddScope(graph, tree, n, "lambda", current), tree,
                            Part("parameters"), scope),
       tree, Part("pattern"), scope)

VisitArm(graph, tree, n, current) ==
  LET patterns == {m \in NamedChildren(tree, n) : tree[m].type = "match_pattern"}
  IN AddAllPatterns(AddScope(graph, tree, n, ArmScopeKind[tree[n].type], current), tree,
                    IF tree[n].type = "match_case" THEN patterns ELSE {},
                    Len(graph.scopes))

VisitOther(graph, tree, n, current) ==
  IF tree[n].type = "assignment_statement"
    THEN AddPatternBindings(graph, tree, ChildByFieldName(tree, n, "pat"), current)
    ELSE graph

\* Nodes are visited in the order of the walk; inside[n] is the scope that the
\* children of n are visited in.
Visit(graph, tree, n) ==
  LET current == IF n = 1 THEN 0 ELSE graph.inside[tree[n].parent]
      visited ==
        CASE tree[n].type \in FunctionTypes -> VisitFunction(graph, tree, n, current)
          [] tree[n].type \in LambdaTypes -> VisitLambda(graph, tree, n, current)
          [] tree[n].type \in ArmTypes -> VisitArm(graph, tree, n, current)
          [] OTHER -> VisitOther(graph, tree, n, current)
      opened == Len(visited.scopes) > Len(graph.scopes)
  IN [visited EXCEPT !.inside = Append(@, IF opened THEN Len(graph.scopes) ELSE current)]

BuildScopes(tree) ==
  LET file == [kind |-> "file", range |-> NodeRange(tree, 1), parent |-> -1]
      visited[n \in 0 .. Len(tree)] ==
        IF n = 0 THEN [scopes |-> <<file>>, bindings |-> <<>>, inside |-> <<>>]
        ELSE Visit(visited[n - 1], tree, n)
  IN visited[Len(tree)]

-----------------------------------------------------------------------------
(***************************************************************************)
(* bindingAt.  Scopes count from 0, the file's; sequences from 1.          *)
(***************************************************************************)
ScopeSize(scope) == (scope.range.end.line - scope.range.start.line) * 1000000
                    + scope.range.end.character

Encloses(scope, range) ==
  /\ PositionLE(scope.range.start, range.start)
  /\ PositionLE(range.end, scope.range.end)

\* Variant: of two scopes of one size the first is kept.
BestScopeFirst(graph, range) ==
  LET Better(best, i) ==
        LET scope == graph.scopes[i]
        IN  IF /\ Encloses(scope, range)
               /\ best = 0 \/ ScopeSize(scope) < ScopeSize(graph.scopes[best + 1])
              THEN i - 1 ELSE best
  IN FoldLeftDomain(Better, 0, graph.scopes)

BestScope(graph, range) ==
  LET Better(best, i) ==
        LET scope == graph.scopes[i]
        IN  IF /\ Encloses(scope, range)
               /\ best = 0 \/ ScopeSize(scope) <= ScopeSize(graph.scopes[best + 1])
              THEN i - 1 ELSE best
  IN FoldLeftDomain(Better, 0, graph.scopes)

\* Variant: a name is visible from its end on.
VisibleAfter(binding, range) == PositionLE(binding.range.end, range.start)

Visible(binding, range) == PositionLE(binding.range.start, range.start)

BindingAt(graph, tree, n) ==
  LET range == NodeRange(tree, n)
      Candidates(scope) ==
        {i \in DOMAIN graph.bindings :
           /\ graph.bindings[i].scope = scope
           /\ graph.bindings[i].name = tree[n].name
           /\ Visible(graph.bindings[i], range)}
      from[scope \in -1 .. Len(graph.scopes) - 1] ==
        CASE scope = -1 -> NoBinding
          [] scope >= 0 /\ Candidates(scope) # {} -> graph.bindings[Max(Candidates(scope))]
          [] OTHER -> from[graph.scopes[scope + 1].parent]
  IN from[BestScope(graph, range)]

-----------------------------------------------------------------------------
(***************************************************************************)
(* Rename, of a name that is bound below the file's scope.                 *)
(***************************************************************************)
Identifiers(tree) == {n \in Nodes(tree) : tree[n].type = "identifier"}

RenamedAt(graph, tree, n) ==
  LET target == BindingAt(graph, tree, n)
  IN {m \in Identifiers(tree) : /\ tree[m].name = tree[n].name
                                /\ BindingAt(graph, tree, m) = target}

Rename(graph, tree, n, name) ==
  LET renamed == RenamedAt(graph, tree, n)
  IN [m \in Nodes(tree) |-> IF m \in renamed THEN [tree[m] EXCEPT !.name = name] ELSE tree[m]]
=============================================================================
