----------------------------- MODULE ClaimsBuilder -----------------------------
(***************************************************************************)
(* The whole request in test-client/templates/home.html: the builder's     *)
(* nodes, which are cards and groups of nodes, and the Claim Request       *)
(* Object, with an expression of all_of and one_of over the methods.       *)
(*                                                                         *)
(* Both are trees of any depth.  A tree is a function from paths: a node's *)
(* path is that of its parent and its place among the siblings.  The root  *)
(* of an expression is at <<>>; the builder has a list of nodes there, the *)
(* first at <<1>>.  An array in an expression is Items, and its elements   *)
(* are the nodes below.                                                    *)
(***************************************************************************)
EXTENDS CardClaims

CONSTANT Items

ASSUME ItemsAssumption == Items \notin {null, Other}

Operators == {"all_of", "one_of"}
HasChildren(tree, path) == Append(path, 1) \in DOMAIN tree

Leaf(node) == [path \in {<<>>} |-> node]
Flat(nodes) == [path \in {<<i>> : i \in DOMAIN nodes} |-> nodes[path[1]]]

\* A tree with another one put at a path.
Graft(tree, at, nodes) ==
  [path \in DOMAIN tree \cup {at \o p : p \in DOMAIN nodes} |->
     IF path \in DOMAIN tree THEN tree[path]
     ELSE nodes[SubSeq(path, Len(at) + 1, Len(path))]]

\* addGroup: a group without children gets a default factor.
GroupNode(operator) == [type |-> "group", operator |-> operator]
NewGroup(metadata, operator) ==
  Graft(Leaf(GroupNode(operator)), <<1>>, Leaf(DefaultCard(metadata)))

-------------------------------------------------------------------------------
(* From the builder to JSON: nodeExpression, buildClaims *)

NodeOK(nodes, path) ==
  IF nodes[path].type = "factor" THEN FactorOK(nodes[path]) ELSE HasChildren(nodes, path)
NodeExpression(node) ==
  IF node.type = "factor" THEN FactorExpression(node) ELSE Member(node.operator, Items, TRUE)

\* form: the fields for the request as a whole.
BuildOK(nodes, form) ==
  form.deliveries # {} /\ \A path \in DOMAIN nodes : NodeOK(nodes, path)

\* A single node is the expression; of several the form says how they go together.
Single(nodes) == {path \in DOMAIN nodes : Len(path) = 1} = {<<1>>}
NodeExpressions(nodes, form) ==
  IF Single(nodes)
    THEN [path \in {Tail(p) : p \in DOMAIN nodes} |-> NodeExpression(nodes[<<1>> \o path])]
    ELSE [path \in DOMAIN nodes \cup {<<>>} |->
            IF path = <<>> THEN Member(form.operator, Items, DOMAIN nodes # {})
            ELSE NodeExpression(nodes[path])]

BuildDetails(nodes, form) ==
  LET expression == NodeExpressions(nodes, form)
      root == Member("essential", TRUE, form.essential) ++ expression[<<>>]
  IN  IF Empty(root) THEN null ELSE [expression EXCEPT ![<<>>] = root]

BuildClaims(nodes, form) ==
  [delivery \in form.deliveries |-> [amr_details |-> BuildDetails(nodes, form)]]

-------------------------------------------------------------------------------
(* From JSON to the builder: expressionModel, appendNode *)

IsArray(object, key) == Own(object, key) /\ object[key] = Items
IsGroup(object) == \E op \in Operators : IsArray(object, op)

ExpressionOK(expression) ==
  \A path \in DOMAIN expression :
    LET object == expression[path] IN
    object \notin {null, Other} /\ (IsGroup(object) \/ FactorModelOK(object))

NodeModel(object, metadata) ==
  IF IsGroup(object) THEN GroupNode(IF IsArray(object, "all_of") THEN "all_of" ELSE "one_of")
  ELSE FactorModel(object, metadata)
ExpressionModel(expression, metadata) ==
  LET groups == {path \in DOMAIN expression : IsGroup(expression[path])} IN
  [path \in DOMAIN expression \cup {Append(p, 1) : p \in groups} |->
     IF path \in DOMAIN expression THEN NodeModel(expression[path], metadata)
     ELSE DefaultCard(metadata)]

-------------------------------------------------------------------------------
(* Trees, and the JSON that the conversions are given *)

Path == Seq(Nat \ {0})

\* A node has a parent, or is in the list at the top, and its siblings are numbered.
Placed(tree, path) ==
  \A i \in 1 .. Last(path) : Append(Front(path), i) \in DOMAIN tree

\* The builder's nodes: cards, and groups with an operator.
IsForest(nodes) ==
  /\ DOMAIN nodes \subseteq Path \ {<<>>}
  /\ \A path \in DOMAIN nodes :
       /\ nodes[path].type # "factor" => \E op \in Operators : nodes[path] = GroupNode(op)
       /\ Len(path) > 1 => /\ Front(path) \in DOMAIN nodes
                           /\ nodes[Front(path)].type = "group"
       /\ Placed(nodes, path)

\* An expression in JSON.
IsExpression(expression) ==
  /\ DOMAIN expression \subseteq Path /\ <<>> \in DOMAIN expression
  /\ expression = [path \in DOMAIN expression |-> expression[path]]
  /\ \A path \in DOMAIN expression :
       expression[path] \notin {null, Other} => IsFactor(expression[path])
  /\ \A path \in DOMAIN expression \ {<<>>} :
       /\ Front(path) \in DOMAIN expression /\ expression[Front(path)] \notin {null, Other}
       /\ IsGroup(expression[Front(path)])
       /\ Placed(expression, path)

\* What amr_details can be.
IsDetails(details) ==
  details \notin {null, Other} =>
    IsExpression(details) /\ details[<<>>] \notin {null, Other}

-------------------------------------------------------------------------------
(* The requests that the builder can show *)

PlainExpression(expression) ==
  \A path \in DOMAIN expression :
    LET object == expression[path] IN
    /\ object \notin {null, Other}
    /\ \/ PlainFactor(object)
       \/ /\ \E op \in Operators : DOMAIN object = {op} /\ IsArray(object, op)
          /\ HasChildren(expression, path)

PlainDetails(details) ==
  \/ details = null
  \/ /\ details # Other /\ Written(details[<<>>], "essential") /\ ~Empty(details[<<>>])
     /\ LET rest == [key \in DOMAIN details[<<>>] \ {"essential"} |-> details[<<>>][key]]
        IN  Empty(rest) \/ PlainExpression([details EXCEPT ![<<>>] = rest])
===============================================================================
