---------------------------- MODULE WorkbenchProofs ----------------------------
(***************************************************************************)
(* Theorems about the request workbench, for any documents, texts, inputs  *)
(* and bounds, and builders of any size: what is loaded is shown, what is  *)
(* written can be loaded, and the cards keep the promise of SuggestedCards *)
(* wherever in the tree they stand.                                        *)
(***************************************************************************)
EXTENDS Workbench, CardClaimsProofs, SequenceTheorems

-------------------------------------------------------------------------------
(* Paths *)

Places == Nat \ {0}

\* A path is a sequence of places.
LEMMA PathIs ==
  ASSUME NEW p \in Path
  PROVE  /\ Len(p) \in Nat /\ DOMAIN p = 1 .. Len(p)
         /\ \A i \in 1 .. Len(p) : p[i] \in Nat /\ p[i] > 0
         /\ p = <<>> <=> Len(p) = 0
<1>1. p \in Seq(Places)
  BY DEF Path, Places
<1>2. Len(p) \in Nat /\ DOMAIN p = 1 .. Len(p) /\ \A i \in 1 .. Len(p) : p[i] \in Places
  BY <1>1, LenProperties, ElementOfSeq
<1>3. p = <<>> <=> Len(p) = 0
  BY <1>1, EmptySeq
<1> QED BY <1>2, <1>3 DEF Places

\* Paths with the same places are the same.
LEMMA SamePath ==
  ASSUME NEW p \in Path, NEW q \in Path, Len(p) = Len(q),
         \A i \in 1 .. Len(p) : p[i] = q[i]
  PROVE  p = q
BY SeqEqual DEF Path

\* The path of the parent of a node, and the node's place.
LEMMA FrontIs ==
  ASSUME NEW p \in Path, p # <<>>
  PROVE  /\ Front(p) \in Path /\ Len(Front(p)) = Len(p) - 1
         /\ \A i \in 1 .. Len(p) - 1 : Front(p)[i] = p[i]
         /\ Last(p) = p[Len(p)] /\ Last(p) \in Nat /\ Last(p) > 0
         /\ p = Append(Front(p), Last(p))
<1>1. Len(p) \in Nat /\ Len(p) # 0 /\ \A i \in 1 .. Len(p) : p[i] \in Nat /\ p[i] > 0
  BY PathIs
<1>2. \A i \in 1 .. Len(p) - 1 : p[i] \in Places
  BY <1>1 DEF Places
<1>3. 1 \in Int /\ Len(p) - 1 \in Int
  BY <1>1
<1>4. /\ Front(p) \in Seq(Places)
      /\ Len(Front(p)) = IF 1 <= Len(p) - 1 THEN Len(p) - 1 - 1 + 1 ELSE 0
      /\ \A i \in 1 .. Len(p) - 1 - 1 + 1 : Front(p)[i] = p[1 + i - 1]
  BY <1>2, <1>3, SubSeqProperties DEF Front
<1>5. Len(Front(p)) = Len(p) - 1
  <2> DEFINE n == Len(p)
             m == Len(Front(p))
  <2>1. n \in Nat /\ n # 0 /\ m = IF 1 <= n - 1 THEN n - 1 - 1 + 1 ELSE 0
    BY <1>1, <1>4
  <2> HIDE DEF n, m
  <2>2. m = n - 1
    BY <2>1
  <2> QED BY <2>2 DEF n, m
<1>6. \A i \in 1 .. Len(p) - 1 : Front(p)[i] = p[i]
  <2>1. \A i \in 1 .. Len(p) - 1 : 1 + i - 1 = i
    BY <1>1
  <2>2. Len(p) - 1 - 1 + 1 = Len(p) - 1
    BY <1>1
  <2> QED BY <1>4, <2>1, <2>2
<1>7. Last(p) = p[Len(p)] /\ Last(p) \in Nat /\ Last(p) > 0 /\ Last(p) \in Places
  BY <1>1 DEF Last, Places
<1>8. p = Append(Front(p), Last(p))
  <2> DEFINE q == Append(Front(p), Last(p))
  <2>1. /\ q \in Seq(Places) /\ Len(q) = Len(Front(p)) + 1
        /\ \A i \in 1 .. Len(Front(p)) : q[i] = Front(p)[i]
        /\ q[Len(Front(p)) + 1] = Last(p)
    BY <1>4, <1>7, AppendProperties
  <2> HIDE DEF q
  <2>2. Len(q) = Len(p)
    BY <1>1, <1>5, <2>1
  <2>3. \A i \in 1 .. Len(p) : q[i] = p[i]
    <3> TAKE i \in 1 .. Len(p)
    <3>1. CASE i = Len(p)
      BY <1>1, <1>5, <1>7, <2>1, <3>1
    <3>2. CASE i # Len(p)
      BY <1>1, <1>5, <1>6, <2>1, <3>2
    <3> QED BY <3>1, <3>2
  <2>4. q \in Path
    BY <2>1 DEF Path, Places
  <2>5. q = p
    BY <2>2, <2>3, <2>4, SamePath
  <2> QED BY <2>5 DEF q
<1> QED BY <1>4, <1>5, <1>6, <1>7, <1>8 DEF Path, Places

\* The path of a child.
LEMMA ChildIs ==
  ASSUME NEW p \in Path, NEW i \in Nat, i > 0
  PROVE  LET q == Append(p, i) IN
         /\ q \in Path /\ q # <<>> /\ Len(q) = Len(p) + 1
         /\ \A j \in 1 .. Len(p) : q[j] = p[j]
         /\ q[Len(p) + 1] = i
         /\ Front(q) = p /\ Last(q) = i
<1> DEFINE q == Append(p, i)
<1>1. i \in Places /\ p \in Seq(Places)
  BY DEF Places, Path
<1>2. /\ q \in Seq(Places) /\ q # <<>> /\ Len(q) = Len(p) + 1
      /\ \A j \in 1 .. Len(p) : q[j] = p[j]
      /\ q[Len(p) + 1] = i
  BY <1>1, AppendProperties
<1>3. q \in Path
  BY <1>2 DEF Path, Places
<1>4. Len(p) \in Nat
  BY PathIs
<1> HIDE DEF q
<1>5. /\ Front(q) \in Path /\ Len(Front(q)) = Len(p) /\ Last(q) = i
      /\ \A j \in 1 .. Len(p) : Front(q)[j] = p[j]
  BY <1>2, <1>3, <1>4, FrontIs
<1>6. Front(q) = p
  BY <1>5, SamePath
<1> QED BY <1>2, <1>3, <1>5, <1>6 DEF q

\* A path below another one.
LEMMA BelowIs ==
  ASSUME NEW a \in Path, NEW p \in Path
  PROVE  LET q == a \o p IN
         /\ q \in Path /\ Len(q) = Len(a) + Len(p)
         /\ \A i \in 1 .. Len(a) : q[i] = a[i]
         /\ \A i \in 1 .. Len(p) : q[Len(a) + i] = p[i]
<1> DEFINE q == a \o p
<1>1. /\ q \in Path /\ Len(q) = Len(a) + Len(p)
      /\ \A i \in 1 .. Len(a) + Len(p) : q[i] = IF i <= Len(a) THEN a[i] ELSE p[i - Len(a)]
  BY ConcatProperties DEF Path
<1>2. Len(a) \in Nat /\ Len(p) \in Nat
  BY PathIs
<1> HIDE DEF q
<1>3. \A i \in 1 .. Len(a) : q[i] = a[i]
  BY <1>1, <1>2
<1>4. \A i \in 1 .. Len(p) : q[Len(a) + i] = p[i]
  <2> TAKE i \in 1 .. Len(p)
  <2>1. Len(a) + i \in 1 .. Len(a) + Len(p) /\ ~(Len(a) + i <= Len(a)) /\ Len(a) + i - Len(a) = i
    BY <1>2
  <2> QED BY <1>1, <2>1
<1> QED BY <1>1, <1>3, <1>4 DEF q

\* ... is the path of a child there, if it is one in the tree below.
LEMMA BelowChild ==
  ASSUME NEW a \in Path, NEW p \in Path, NEW i \in Nat, i > 0
  PROVE  a \o Append(p, i) = Append(a \o p, i)
<1> DEFINE c == Append(p, i)
           l == a \o c
           b == a \o p
           r == Append(b, i)
<1>1. /\ c \in Path /\ Len(c) = Len(p) + 1 /\ c[Len(p) + 1] = i
      /\ \A j \in 1 .. Len(p) : c[j] = p[j]
  BY ChildIs
<1> HIDE DEF c
<1>2. /\ l \in Path /\ Len(l) = Len(a) + Len(c)
      /\ \A j \in 1 .. Len(a) : l[j] = a[j]
      /\ \A j \in 1 .. Len(c) : l[Len(a) + j] = c[j]
  BY <1>1, BelowIs
<1>3. /\ b \in Path /\ Len(b) = Len(a) + Len(p)
      /\ \A j \in 1 .. Len(a) : b[j] = a[j]
      /\ \A j \in 1 .. Len(p) : b[Len(a) + j] = p[j]
  BY BelowIs
<1> HIDE DEF l, b
<1>4. /\ r \in Path /\ Len(r) = Len(b) + 1 /\ r[Len(b) + 1] = i
      /\ \A j \in 1 .. Len(b) : r[j] = b[j]
  BY <1>3, ChildIs
<1> HIDE DEF r
<1>5. Len(a) \in Nat /\ Len(p) \in Nat
  BY PathIs
<1>6. Len(l) = Len(r)
  BY <1>1, <1>2, <1>3, <1>4, <1>5
<1>7. ASSUME NEW j \in 1 .. Len(l) PROVE l[j] = r[j]
  <2>1. CASE j <= Len(a)
    BY <1>1, <1>2, <1>3, <1>4, <1>5, <2>1
  <2>2. CASE j > Len(a)
    <3> DEFINE k == j - Len(a)
    <3>1. k \in 1 .. Len(p) + 1 /\ j = Len(a) + k
      BY <1>1, <1>2, <1>5, <2>2
    <3> HIDE DEF k
    <3>2. l[j] = c[k]
      BY <1>1, <1>2, <3>1
    <3>3. CASE k = Len(p) + 1
      BY <1>1, <1>3, <1>4, <1>5, <3>1, <3>2, <3>3
    <3>4. CASE k # Len(p) + 1
      <4>1. k \in 1 .. Len(p) /\ j \in 1 .. Len(b)
        BY <1>3, <1>5, <3>1, <3>4
      <4> QED BY <1>1, <1>3, <1>4, <3>1, <3>2, <4>1
    <3> QED BY <3>3, <3>4
  <2> QED BY <1>5, <2>1, <2>2
<1>8. l = r
  BY <1>2, <1>4, <1>6, <1>7, SamePath
<1> QED BY <1>8 DEF l, c, r, b

\* The path in the tree below, from that in the whole tree.
LEMMA BelowRest ==
  ASSUME NEW a \in Path, NEW p \in Path
  PROVE  SubSeq(a \o p, Len(a) + 1, Len(a \o p)) = p
<1> DEFINE q == a \o p
           r == SubSeq(q, Len(a) + 1, Len(q))
<1>1. /\ q \in Path /\ Len(q) = Len(a) + Len(p)
      /\ \A i \in 1 .. Len(p) : q[Len(a) + i] = p[i]
  BY BelowIs
<1>2. Len(a) \in Nat /\ Len(p) \in Nat
  BY PathIs
<1> HIDE DEF q
<1>3. Len(a) + 1 \in Int /\ Len(q) \in Int /\ \A i \in Len(a) + 1 .. Len(q) : q[i] \in Places
  BY <1>1, <1>2, PathIs DEF Places
<1>4. /\ r \in Seq(Places)
      /\ Len(r) = IF Len(a) + 1 <= Len(q) THEN Len(q) - (Len(a) + 1) + 1 ELSE 0
      /\ \A i \in 1 .. Len(q) - (Len(a) + 1) + 1 : r[i] = q[(Len(a) + 1) + i - 1]
  BY <1>3, SubSeqProperties
<1> HIDE DEF r
<1>5. Len(r) = Len(p)
  BY <1>1, <1>2, <1>4
<1>6. ASSUME NEW i \in 1 .. Len(p) PROVE r[i] = p[i]
  <2>1. i \in 1 .. Len(q) - (Len(a) + 1) + 1 /\ (Len(a) + 1) + i - 1 = Len(a) + i
    BY <1>1, <1>2
  <2> QED BY <1>1, <1>4, <2>1
<1>7. r \in Path
  BY <1>4 DEF Path, Places
<1>8. r = p
  BY <1>5, <1>6, <1>7, SamePath
<1> QED BY <1>8 DEF r, q

Replaced(q, p, n, i) ==
  /\ q \in Path /\ Len(q) = Len(p) /\ q[n] = i
  /\ \A j \in 1 .. Len(p) : j # n => q[j] = p[j]

\* A path with another place somewhere on the way.
LEMMA OtherPlace ==
  ASSUME NEW p \in Path, NEW n \in 1 .. Len(p), NEW i \in Nat, i > 0
  PROVE  Replaced([p EXCEPT ![n] = i], p, n, i)
<1>1. p \in Seq(Places) /\ i \in Places
  BY DEF Path, Places
<1> DEFINE q == [p EXCEPT ![n] = i]
<1>2. /\ q \in Seq(Places) /\ Len(q) = Len(p)
      /\ \A j \in 1 .. Len(p) : q[j] = IF j = n THEN i ELSE p[j]
  BY <1>1, ExceptSeq
<1> HIDE DEF q
<1> QED BY <1>2 DEF q, Path, Places, Replaced

-------------------------------------------------------------------------------
(* Trees: what is grafted, and what is moved *)

\* A node is a card, or a group with an operator.
Typed(node) == node.type # "factor" => \E op \in Operators : node = GroupNode(op)

\* A forest has with a node every node above it.
LEMMA Upwards ==
  ASSUME NEW tree, IsForest(tree), NEW a \in Path, a # <<>>, NEW p \in Path,
         a \o p \in DOMAIN tree
  PROVE  a \in DOMAIN tree
<1> DEFINE T == {Len(q) : q \in {r \in Path : a \o r \in DOMAIN tree}}
<1>1. T \subseteq Nat /\ T # {}
  BY PathIs
<1> HIDE DEF T
<1>2. PICK n \in T : \A m \in T : n <= m
  BY <1>1, Least
<1>3. PICK q \in Path : a \o q \in DOMAIN tree /\ Len(q) = n
  BY <1>2 DEF T
<1>4. CASE q = <<>>
  <2>1. a \o q = a
    BY <1>4, ConcatEmptySeq DEF Path
  <2> QED BY <1>3, <2>1
<1>5. CASE q # <<>>
  <2>1. /\ Front(q) \in Path /\ Len(Front(q)) = Len(q) - 1 /\ Last(q) \in Nat /\ Last(q) > 0
        /\ q = Append(Front(q), Last(q))
    BY <1>5, FrontIs
  <2>2. a \o q = Append(a \o Front(q), Last(q))
    <3>1. a \o Append(Front(q), Last(q)) = Append(a \o Front(q), Last(q))
      BY <2>1, BelowChild
    <3> QED BY <2>1, <3>1
  <2>3. a \o Front(q) \in Path /\ Len(a \o q) = Len(a) + Len(q)
    BY <2>1, BelowIs
  <2>4. Front(a \o q) = a \o Front(q)
    BY <2>1, <2>2, <2>3, ChildIs
  <2>5. Len(a) \in Nat /\ Len(a) # 0 /\ Len(q) \in Nat /\ Len(q) # 0
    BY <1>5, PathIs
  <2>6. Front(a \o q) \in DOMAIN tree
    <3>1. Len(a \o q) > 1
      BY <2>3, <2>5
    <3> QED BY <1>3, <3>1 DEF IsForest
  <2>7. Len(q) - 1 \in T
    BY <2>1, <2>4, <2>6 DEF T
  <2>8. Len(q) <= Len(q) - 1
    BY <1>2, <1>3, <2>7
  <2> QED BY <2>5, <2>8
<1> QED BY <1>4, <1>5

\* Nodes that can be put at a path of a tree: a node and what is below it, or what
\* is below a group that is there.
Fits(tree, at, nodes) ==
  /\ at \in Path \ {<<>>} /\ DOMAIN nodes \subseteq Path
  /\ \A p \in DOMAIN nodes : at \o p \notin DOMAIN tree /\ Typed(nodes[p])
  /\ <<>> \in DOMAIN nodes =>
       /\ Len(at) > 1 => Front(at) \in DOMAIN tree /\ tree[Front(at)].type = "group"
       /\ \A i \in 1 .. Last(at) : i < Last(at) => Append(Front(at), i) \in DOMAIN tree
  /\ \A p \in DOMAIN nodes \ {<<>>} :
       /\ IF Front(p) \in DOMAIN nodes THEN nodes[Front(p)].type = "group"
          ELSE Front(p) = <<>> /\ at \in DOMAIN tree /\ tree[at].type = "group"
       /\ Placed(nodes, p)

Grafted(new, tree, at, nodes) ==
  /\ DOMAIN new = DOMAIN tree \cup {at \o p : p \in DOMAIN nodes}
  /\ \A q \in DOMAIN tree : new[q] = tree[q]
  /\ \A p \in DOMAIN nodes : new[at \o p] = nodes[p]

\* The nodes of a tree with another one put at a path.
LEMMA GraftIs ==
  ASSUME NEW tree, NEW at, NEW nodes, Fits(tree, at, nodes)
  PROVE  Grafted(Graft(tree, at, nodes), tree, at, nodes)
<1> DEFINE new == Graft(tree, at, nodes)
<1>1. /\ DOMAIN new = DOMAIN tree \cup {at \o p : p \in DOMAIN nodes}
      /\ \A q \in DOMAIN tree : new[q] = tree[q]
  BY DEF Graft
<1>2. ASSUME NEW p \in DOMAIN nodes PROVE new[at \o p] = nodes[p]
  <2>1. at \o p \notin DOMAIN tree /\ at \in Path /\ p \in Path
    BY DEF Fits
  <2>2. SubSeq(at \o p, Len(at) + 1, Len(at \o p)) = p
    BY <2>1, BelowRest
  <2>3. at \o p \in DOMAIN tree \cup {at \o q : q \in DOMAIN nodes}
    OBVIOUS
  <2> QED BY <2>1, <2>2, <2>3 DEF Graft
<1> QED BY <1>1, <1>2 DEF Grafted

\* It is a forest as before.
LEMMA GraftForest ==
  ASSUME NEW tree, IsForest(tree), NEW at, NEW nodes, Fits(tree, at, nodes)
  PROVE  IsForest(Graft(tree, at, nodes))
<1> DEFINE new == Graft(tree, at, nodes)
<1>1. /\ DOMAIN new = DOMAIN tree \cup {at \o p : p \in DOMAIN nodes}
      /\ \A q \in DOMAIN tree : new[q] = tree[q]
      /\ \A p \in DOMAIN nodes : new[at \o p] = nodes[p]
  <2>1. Grafted(Graft(tree, at, nodes), tree, at, nodes)
    BY GraftIs
  <2> QED BY <2>1 DEF Grafted
<1> HIDE DEF new
<1>2. at \in Path /\ at # <<>> /\ DOMAIN nodes \subseteq Path
  BY DEF Fits
<1>3. Len(at) \in Nat /\ Len(at) # 0
  BY <1>2, PathIs
<1>4. DOMAIN new \subseteq Path \ {<<>>}
  <2>1. ASSUME NEW p \in DOMAIN nodes PROVE at \o p \in Path /\ at \o p # <<>>
    <3>1. p \in Path /\ Len(p) \in Nat
      BY <1>2, PathIs
    <3>2. at \o p \in Path /\ Len(at \o p) = Len(at) + Len(p)
      BY <1>2, <3>1, BelowIs
    <3> QED BY <1>3, <3>1, <3>2, PathIs
  <2> QED BY <1>1, <2>1 DEF IsForest
<1>5. ASSUME NEW q \in DOMAIN tree
      PROVE  /\ Typed(new[q])
             /\ Len(q) > 1 => Front(q) \in DOMAIN new /\ new[Front(q)].type = "group"
             /\ Placed(new, q)
  BY <1>1 DEF IsForest, Placed, Typed
<1>6. ASSUME NEW p \in DOMAIN nodes, p # <<>>
      PROVE  LET q == at \o p IN
             /\ Typed(new[q])
             /\ Len(q) > 1 => Front(q) \in DOMAIN new /\ new[Front(q)].type = "group"
             /\ Placed(new, q)
  <2> DEFINE q == at \o p
             f == Front(p)
             l == Last(p)
  <2>1. p \in Path
    BY <1>2
  <2>2. /\ f \in Path /\ l \in Nat /\ l > 0 /\ p = Append(f, l)
    BY <1>6, <2>1, FrontIs
  <2>3. \A i \in 1 .. l : at \o Append(f, i) = Append(at \o f, i)
    BY <1>2, <2>2, BelowChild
  <2>4. at \o f \in Path
    BY <1>2, <2>2, BelowIs
  <2>5. Front(q) = at \o f /\ Last(q) = l
    <3>1. q = Append(at \o f, l)
      BY <2>2, <2>3
    <3> HIDE DEF q, f, l
    <3> QED BY <2>2, <2>4, <3>1, ChildIs
  <2>6. /\ IF f \in DOMAIN nodes THEN nodes[f].type = "group"
           ELSE f = <<>> /\ at \in DOMAIN tree /\ tree[at].type = "group"
        /\ \A i \in 1 .. l : Append(f, i) \in DOMAIN nodes
        /\ Typed(nodes[p])
    BY <1>6 DEF Fits, Placed
  <2> HIDE DEF q, f, l
  <2>7. at \o f \in DOMAIN new /\ new[at \o f].type = "group"
    <3>1. CASE f \in DOMAIN nodes
      BY <1>1, <2>6, <3>1
    <3>2. CASE f \notin DOMAIN nodes
      <4>1. at \o f = at
        BY <1>2, <2>6, <3>2, ConcatEmptySeq DEF Path
      <4> QED BY <1>1, <2>6, <3>2, <4>1
    <3> QED BY <3>1, <3>2
  <2>8. Placed(new, q)
    <3>1. \A i \in 1 .. l : Append(at \o f, i) \in DOMAIN new
      BY <1>1, <2>3, <2>6
    <3> QED BY <2>5, <3>1 DEF Placed
  <2>9. Typed(new[q])
    BY <1>1, <2>6 DEF q
  <2> QED BY <2>5, <2>7, <2>8, <2>9 DEF q
<1>7. ASSUME <<>> \in DOMAIN nodes
      PROVE  /\ Typed(new[at])
             /\ Len(at) > 1 => Front(at) \in DOMAIN new /\ new[Front(at)].type = "group"
             /\ Placed(new, at)
  <2>1. at \o <<>> = at
    BY <1>2, ConcatEmptySeq DEF Path
  <2>2. at \in DOMAIN new /\ new[at] = nodes[<<>>]
    BY <1>1, <1>7, <2>1
  <2>3. Last(at) \in Nat /\ at = Append(Front(at), Last(at))
    BY <1>2, FrontIs
  <2>4. Placed(new, at)
    <3>1. \A i \in 1 .. Last(at) : i < Last(at) => Append(Front(at), i) \in DOMAIN new
      BY <1>1, <1>7 DEF Fits
    <3>2. \A i \in 1 .. Last(at) : i < Last(at) \/ i = Last(at)
      BY <2>3
    <3> QED BY <2>2, <2>3, <3>1, <3>2 DEF Placed
  <2> QED BY <1>1, <1>7, <2>2, <2>4 DEF Fits
<1>8. \A q \in DOMAIN new :
        /\ Typed(new[q])
        /\ Len(q) > 1 => Front(q) \in DOMAIN new /\ new[Front(q)].type = "group"
        /\ Placed(new, q)
  <2> TAKE q \in DOMAIN new
  <2>1. CASE q \in DOMAIN tree
    BY <1>5, <2>1
  <2>2. ASSUME NEW p \in DOMAIN nodes, q = at \o p
        PROVE  /\ Typed(new[q])
               /\ Len(q) > 1 => Front(q) \in DOMAIN new /\ new[Front(q)].type = "group"
               /\ Placed(new, q)
    <3>1. CASE p # <<>>
      BY <1>6, <2>2, <3>1
    <3>2. CASE p = <<>>
      <4>1. q = at
        BY <1>2, <2>2, <3>2, ConcatEmptySeq DEF Path
      <4> QED BY <1>7, <3>2, <4>1
    <3> QED BY <3>1, <3>2
  <2> QED BY <1>1, <2>1, <2>2
<1>9. IsForest(new)
  BY <1>4, <1>8 DEF IsForest, Typed
<1> QED BY <1>9 DEF new

\* Paths for the nodes that stay: no two of them the same, a child's below its
\* parent's, and siblings numbered without gaps.
Arranged(tree, to) ==
  /\ DOMAIN to \subseteq DOMAIN tree
  /\ \A p \in DOMAIN to : to[p] \in Path /\ Len(to[p]) = Len(p)
  /\ \A p, q \in DOMAIN to : to[p] = to[q] => p = q
  /\ \A p \in DOMAIN to : Len(p) > 1 => Front(p) \in DOMAIN to /\ to[Front(p)] = Front(to[p])
  /\ \A p \in DOMAIN to : \A i \in 1 .. Last(to[p]) :
       \E q \in DOMAIN to : to[q] = Append(Front(to[p]), i)

Rearranged(new, tree, to) ==
  /\ DOMAIN new = {to[p] : p \in DOMAIN to}
  /\ \A q \in DOMAIN new : \E p \in DOMAIN to : to[p] = q /\ new[q] = tree[p]

\* Nodes that are moved are the same nodes.
LEMMA MovedIs ==
  ASSUME NEW tree, NEW to
  PROVE  Rearranged(Moved(tree, to), tree, to)
<1>1. DOMAIN Moved(tree, to) = {to[p] : p \in DOMAIN to}
  BY DEF Moved, Range
<1>2. ASSUME NEW q \in DOMAIN Moved(tree, to)
      PROVE  \E p \in DOMAIN to : to[p] = q /\ Moved(tree, to)[q] = tree[p]
  <2> DEFINE p == CHOOSE r \in DOMAIN to : to[r] = q
  <2>1. \E r \in DOMAIN to : to[r] = q
    BY <1>1, <1>2
  <2>2. p \in DOMAIN to /\ to[p] = q
    BY <2>1
  <2>3. Moved(tree, to)[q] = tree[p]
    BY <1>1 DEF Moved, Range
  <2> QED BY <2>2, <2>3
<1> QED BY <1>1, <1>2 DEF Rearranged

\* They are a forest as before.
LEMMA MovedForest ==
  ASSUME NEW tree, IsForest(tree), NEW to, Arranged(tree, to)
  PROVE  IsForest(Moved(tree, to))
<1> DEFINE new == Moved(tree, to)
<1>1. /\ DOMAIN new = {to[p] : p \in DOMAIN to}
      /\ \A q \in DOMAIN new : \E p \in DOMAIN to : to[p] = q /\ new[q] = tree[p]
  <2>1. Rearranged(Moved(tree, to), tree, to)
    BY MovedIs
  <2> QED BY <2>1 DEF Rearranged
<1> HIDE DEF new
<1>2. \A p \in DOMAIN to : new[to[p]] = tree[p]
  BY <1>1 DEF Arranged
<1>3. DOMAIN new \subseteq Path \ {<<>>}
  <2>1. ASSUME NEW p \in DOMAIN to PROVE to[p] \in Path /\ to[p] # <<>>
    <3>1. p \in Path /\ p # <<>> /\ to[p] \in Path /\ Len(to[p]) = Len(p)
      BY DEF Arranged, IsForest
    <3> QED BY <3>1, PathIs
  <2> QED BY <1>1, <2>1
<1>4. ASSUME NEW p \in DOMAIN to
      PROVE  LET q == to[p] IN
             /\ Typed(new[q])
             /\ Len(q) > 1 => Front(q) \in DOMAIN new /\ new[Front(q)].type = "group"
             /\ Placed(new, q)
  <2>1. Typed(new[to[p]])
    BY <1>2 DEF Arranged, IsForest, Typed
  <2>2. ASSUME Len(to[p]) > 1
        PROVE  Front(to[p]) \in DOMAIN new /\ new[Front(to[p])].type = "group"
    <3>1. /\ Front(p) \in DOMAIN to /\ to[Front(p)] = Front(to[p])
          /\ tree[Front(p)].type = "group"
      BY <2>2 DEF Arranged, IsForest
    <3> QED BY <1>1, <1>2, <3>1
  <2>3. Placed(new, to[p])
    BY <1>1 DEF Arranged, Placed
  <2> QED BY <2>1, <2>2, <2>3
<1>5. IsForest(new)
  BY <1>1, <1>3, <1>4 DEF IsForest, Typed
<1> QED BY <1>5 DEF new

\* A path is of a node in the list below a parent, or of one further down.
Listed(parent, p) == Len(p) > Len(parent) /\ \A j \in 1 .. Len(parent) : p[j] = parent[j]
At(parent) == Len(parent) + 1

\* The nodes of the list below a parent have new places, and the others stay where
\* they are; a node without a place is gone, with all that is below it.
Renumbered(tree, parent, place, to) ==
  /\ parent \in Path
  /\ \A i \in DOMAIN place : /\ i \in Nat /\ i > 0 /\ Append(parent, i) \in DOMAIN tree
                             /\ place[i] \in Nat /\ place[i] > 0
  /\ \A i, j \in DOMAIN place : place[i] = place[j] => i = j
  /\ \A i \in DOMAIN place : \A k \in 1 .. place[i] : \E j \in DOMAIN place : place[j] = k
  /\ DOMAIN to = {p \in DOMAIN tree : Listed(parent, p) => p[At(parent)] \in DOMAIN place}
  /\ \A p \in DOMAIN to :
       to[p] = IF Listed(parent, p) THEN [p EXCEPT ![At(parent)] = place[p[At(parent)]]] ELSE p

\* The new path, place by place.
LEMMA RenumberedPath ==
  ASSUME NEW tree, IsForest(tree), NEW parent, NEW place, NEW to,
         Renumbered(tree, parent, place, to), NEW p \in DOMAIN to
  PROVE  LET q == to[p]
             n == At(parent)
         IN  /\ p \in Path /\ p # <<>> /\ q \in Path /\ q # <<>> /\ Len(q) = Len(p)
             /\ Listed(parent, q) <=> Listed(parent, p)
             /\ Listed(parent, p) => /\ n \in 1 .. Len(p) /\ p[n] \in DOMAIN place
                                     /\ q[n] = place[p[n]]
             /\ ~Listed(parent, p) => q = p
             /\ \A j \in 1 .. Len(p) : j # n => q[j] = p[j]
<1> DEFINE q == to[p]
           n == At(parent)
<1>1. /\ p \in Path /\ p # <<>> /\ parent \in Path
      /\ Listed(parent, p) => p[n] \in DOMAIN place /\ q = [p EXCEPT ![n] = place[p[n]]]
      /\ ~Listed(parent, p) => q = p
      /\ \A i \in DOMAIN place : place[i] \in Nat /\ place[i] > 0
  BY DEF Renumbered, IsForest
<1>2. Len(p) \in Nat /\ Len(parent) \in Nat /\ n = Len(parent) + 1
  BY <1>1, PathIs DEF At
<1> HIDE DEF q, n
<1>3. CASE Listed(parent, p)
  <2>1. n \in 1 .. Len(p)
    BY <1>2, <1>3 DEF Listed
  <2>2. /\ q \in Path /\ Len(q) = Len(p) /\ q[n] = place[p[n]]
        /\ \A j \in 1 .. Len(p) : j # n => q[j] = p[j]
    <3> DEFINE v == place[p[n]]
    <3>1. v \in Nat /\ v > 0 /\ q = [p EXCEPT ![n] = v]
      BY <1>1, <1>3
    <3> HIDE DEF v
    <3>2. Replaced([p EXCEPT ![n] = v], p, n, v)
      BY <1>1, <2>1, <3>1, OtherPlace
    <3> QED BY <3>1, <3>2 DEF v, Replaced
  <2>3. Listed(parent, q)
    <3>1. \A j \in 1 .. Len(parent) : j \in 1 .. Len(p) /\ j # n
      BY <1>2, <2>1
    <3> QED BY <1>3, <2>2, <3>1 DEF Listed
  <2>4. q # <<>>
    BY <1>1, <2>2, PathIs
  <2> QED BY <1>1, <1>3, <2>1, <2>2, <2>3, <2>4 DEF q, n
<1>4. CASE ~Listed(parent, p)
  BY <1>1, <1>4 DEF q, n
<1> QED BY <1>3, <1>4

\* New places for the nodes of a list arrange the tree.
LEMMA RenumberedNodes ==
  ASSUME NEW tree, IsForest(tree), NEW parent, NEW place, NEW to,
         Renumbered(tree, parent, place, to)
  PROVE  Arranged(tree, to)
<1> DEFINE n == At(parent)
<1>1. /\ parent \in Path /\ Len(parent) \in Nat /\ n = Len(parent) + 1
      /\ \A i, j \in DOMAIN place : place[i] = place[j] => i = j
      /\ DOMAIN to \subseteq DOMAIN tree
  BY PathIs DEF Renumbered, At
<1>2. \A p \in DOMAIN to :
        /\ p \in Path /\ p # <<>> /\ to[p] \in Path /\ to[p] # <<>> /\ Len(to[p]) = Len(p)
        /\ Listed(parent, to[p]) <=> Listed(parent, p)
        /\ Listed(parent, p) => /\ n \in 1 .. Len(p) /\ p[n] \in DOMAIN place
                                /\ to[p][n] = place[p[n]]
        /\ ~Listed(parent, p) => to[p] = p
        /\ \A j \in 1 .. Len(p) : j # n => to[p][j] = p[j]
  BY RenumberedPath
<1> HIDE DEF n
<1>3. ASSUME NEW p \in DOMAIN to, NEW q \in DOMAIN to, to[p] = to[q] PROVE p = q
  <2>1. /\ p \in Path /\ q \in Path /\ Len(p) = Len(q) /\ Len(p) \in Nat
        /\ Listed(parent, p) <=> Listed(parent, q)
    BY <1>2, <1>3, PathIs
  <2>2. CASE ~Listed(parent, p)
    BY <1>2, <1>3, <2>1, <2>2
  <2>3. CASE Listed(parent, p)
    <3>1. p[n] = q[n]
      BY <1>1, <1>2, <1>3, <2>1, <2>3
    <3>2. \A j \in 1 .. Len(p) : p[j] = q[j]
      BY <1>2, <1>3, <2>1, <3>1
    <3> QED BY <2>1, <3>2, SamePath
  <2> QED BY <2>2, <2>3
\* A node of the tree that is as far as the list one that stays, stays.
<1>4. ASSUME NEW p \in DOMAIN tree, Listed(parent, p) => p[n] \in DOMAIN place
      PROVE  p \in DOMAIN to
  BY <1>4 DEF Renumbered, n
<1>5. ASSUME NEW p \in DOMAIN to, Len(p) > 1
      PROVE  Front(p) \in DOMAIN to /\ to[Front(p)] = Front(to[p])
  <2> DEFINE f == Front(p)
             q == to[p]
  <2>1. /\ p \in Path /\ p # <<>> /\ q \in Path /\ q # <<>> /\ Len(q) = Len(p)
        /\ Len(p) \in Nat
    BY <1>2, PathIs
  <2>2. /\ f \in Path /\ Len(f) = Len(p) - 1
        /\ \A j \in 1 .. Len(p) - 1 : f[j] = p[j]
        /\ Front(q) \in Path /\ Len(Front(q)) = Len(p) - 1
        /\ \A j \in 1 .. Len(p) - 1 : Front(q)[j] = q[j]
    BY <2>1, FrontIs
  <2>3. f \in DOMAIN tree
    BY <1>1, <1>5 DEF IsForest
  <2> HIDE DEF f, q
  <2>4. ASSUME Listed(parent, f) PROVE Listed(parent, p) /\ n \in 1 .. Len(f) /\ f[n] = p[n]
    <3>1. Len(f) > Len(parent) /\ \A j \in 1 .. Len(parent) : f[j] = parent[j]
      BY <2>4 DEF Listed
    <3>2. n \in 1 .. Len(f) /\ \A j \in 1 .. Len(parent) : j \in 1 .. Len(p) - 1
      BY <1>1, <2>1, <2>2, <3>1
    <3>3. Listed(parent, p)
      BY <1>1, <2>1, <2>2, <3>1, <3>2 DEF Listed
    <3> QED BY <2>2, <3>2, <3>3
  <2>5. f \in DOMAIN to
    BY <1>2, <1>4, <2>3, <2>4
  <2>6. to[f] = Front(q)
    <3>1. to[f] \in Path /\ Len(to[f]) = Len(Front(q))
      BY <1>2, <2>2, <2>5
    <3>2. ASSUME NEW j \in 1 .. Len(p) - 1 PROVE to[f][j] = Front(q)[j]
      <4>1. j \in 1 .. Len(f) /\ j \in 1 .. Len(p) /\ Front(q)[j] = q[j] /\ f[j] = p[j]
        BY <2>1, <2>2
      <4>2. CASE j # n
        <5>1. q[j] = p[j]
          BY <1>2, <4>1, <4>2 DEF q
        <5> QED BY <1>2, <2>5, <4>1, <4>2, <5>1
      <4>3. CASE j = n /\ Listed(parent, p)
        <5>1. Listed(parent, f)
          <6>1. Len(f) > Len(parent) /\ \A k \in 1 .. Len(parent) : k \in 1 .. Len(p) - 1
            BY <1>1, <2>1, <2>2, <4>1, <4>3
          <6> QED BY <2>2, <4>3, <6>1 DEF Listed
        <5>2. q[n] = place[p[n]] /\ to[f][n] = place[f[n]]
          BY <1>2, <2>5, <4>3, <5>1 DEF q
        <5> QED BY <4>1, <4>3, <5>2
      <4>4. CASE ~Listed(parent, p)
        <5>1. q = p /\ to[f] = f
          BY <1>2, <2>4, <2>5, <4>4 DEF q
        <5> QED BY <4>1, <5>1
      <4> QED BY <4>2, <4>3, <4>4
    <3> QED BY <2>2, <3>1, <3>2, SamePath
  <2> QED BY <2>5, <2>6 DEF f, q
<1>6. ASSUME NEW p \in DOMAIN to, NEW i \in 1 .. Last(to[p])
      PROVE  \E q \in DOMAIN to : to[q] = Append(Front(to[p]), i)
  <2> DEFINE f == Front(p)
             g == Front(to[p])
             m == Len(p)
  <2>1. /\ p \in Path /\ p # <<>> /\ to[p] \in Path /\ to[p] # <<>> /\ Len(to[p]) = m
        /\ m \in Nat /\ m # 0
    BY <1>2, PathIs
  <2>2. /\ f \in Path /\ Len(f) = m - 1 /\ \A j \in 1 .. m - 1 : f[j] = p[j]
        /\ Last(p) = p[m] /\ p = Append(f, Last(p))
    BY <2>1, FrontIs
  <2>3. /\ g \in Path /\ Len(g) = m - 1 /\ \A j \in 1 .. m - 1 : g[j] = to[p][j]
        /\ Last(to[p]) = to[p][m] /\ Last(to[p]) \in Nat /\ i \in Nat /\ i > 0
    BY <2>1, FrontIs
  <2>4. \A k \in 1 .. p[m] : Append(f, k) \in DOMAIN tree
    BY <1>1, <2>2 DEF IsForest, Placed
  <2> HIDE DEF f, g, m
  <2>5. CASE Listed(parent, p) /\ m = n
    <3>1. f = parent
      <4>1. \A j \in 1 .. Len(parent) : f[j] = parent[j]
        BY <1>1, <2>2, <2>5 DEF Listed
      <4>2. Len(f) = Len(parent)
        BY <1>1, <2>2, <2>5
      <4> QED BY <1>1, <2>2, <4>1, <4>2, SamePath
    <3>2. g = parent
      <4>1. \A j \in 1 .. m - 1 : g[j] = f[j]
        <5>1. \A j \in 1 .. m - 1 : j \in 1 .. Len(p) /\ j # n
          BY <2>1, <2>5 DEF m
        <5> QED BY <1>2, <2>2, <2>3, <5>1
      <4>2. Len(f) = Len(g)
        BY <2>2, <2>3
      <4>3. f = g
        BY <2>2, <2>3, <4>1, <4>2, SamePath
      <4> QED BY <3>1, <4>3
    <3>3. p[n] \in DOMAIN place /\ to[p][n] = place[p[n]]
      BY <1>2, <2>5
    <3>4. PICK k \in DOMAIN place : place[k] = i
      BY <2>3, <2>5, <3>3 DEF Renumbered
    <3>5. k \in Nat /\ k > 0 /\ Append(parent, k) \in DOMAIN tree
      BY DEF Renumbered
    <3> DEFINE q == Append(parent, k)
    <3>6. /\ q \in Path /\ Len(q) = n /\ q[n] = k /\ Front(q) = parent
          /\ \A j \in 1 .. Len(parent) : q[j] = parent[j]
      BY <1>1, <3>5, ChildIs
    <3> HIDE DEF q
    <3>7. Listed(parent, q)
      BY <1>1, <3>6 DEF Listed
    <3>8. q \in DOMAIN to
      BY <1>4, <3>4, <3>5, <3>6 DEF q
    <3>9. /\ to[q] \in Path /\ Len(to[q]) = n /\ to[q][n] = i
          /\ \A j \in 1 .. Len(parent) : to[q][j] = parent[j]
      <4>1. \A j \in 1 .. Len(parent) : j \in 1 .. Len(q) /\ j # n
        BY <1>1, <3>6
      <4> QED BY <1>2, <3>4, <3>6, <3>7, <3>8, <4>1
    <3> DEFINE r == Append(g, i)
    <3>10. /\ r \in Path /\ Len(r) = n /\ r[n] = i
           /\ \A j \in 1 .. Len(parent) : r[j] = parent[j]
      BY <1>1, <2>3, <3>2, ChildIs
    <3> HIDE DEF r
    <3>11. \A j \in 1 .. Len(r) : to[q][j] = r[j]
      <4>1. \A j \in 1 .. n : j \in 1 .. Len(parent) \/ j = n
        BY <1>1
      <4> QED BY <3>9, <3>10, <4>1
    <3>12. to[q] = r
      BY <3>9, <3>10, <3>11, SamePath
    <3> QED BY <3>8, <3>12 DEF r, g
  <2>6. CASE ~(Listed(parent, p) /\ m = n)
    <3>1. to[p][m] = p[m]
      BY <1>2, <2>1, <2>6 DEF m
    <3>2. Append(f, i) \in DOMAIN tree
      BY <2>3, <2>4, <3>1
    <3> DEFINE q == Append(f, i)
    <3>3. /\ q \in Path /\ Len(q) = m /\ q[m] = i /\ \A j \in 1 .. m - 1 : q[j] = p[j]
      BY <2>1, <2>2, <2>3, ChildIs
    <3> HIDE DEF q
    <3>4. ASSUME Listed(parent, q)
          PROVE  Listed(parent, p) /\ n \in 1 .. m - 1 /\ q[n] = p[n]
      <4>1. Len(parent) < m /\ \A j \in 1 .. Len(parent) : j \in 1 .. m - 1 /\ q[j] = parent[j]
        BY <1>1, <2>1, <3>3, <3>4 DEF Listed
      <4>2. Listed(parent, p)
        BY <3>3, <4>1 DEF Listed, m
      <4>3. n \in 1 .. m - 1
        BY <1>1, <2>1, <2>6, <4>1, <4>2
      <4> QED BY <3>3, <4>2, <4>3
    <3>5. q \in DOMAIN to
      BY <1>2, <1>4, <3>2, <3>4 DEF q
    <3>6. ASSUME Listed(parent, p), n \in 1 .. m - 1 PROVE Listed(parent, q)
      <4>1. Len(parent) < m /\ \A j \in 1 .. Len(parent) : j \in 1 .. m - 1 /\ p[j] = parent[j]
        BY <1>1, <2>1, <3>6 DEF Listed
      <4> QED BY <3>3, <4>1 DEF Listed
    <3> DEFINE r == Append(g, i)
    <3>7. /\ r \in Path /\ Len(r) = m /\ r[m] = i
          /\ \A j \in 1 .. m - 1 : r[j] = to[p][j]
      BY <2>1, <2>3, ChildIs
    <3> HIDE DEF r
    <3>8. to[q] \in Path /\ Len(to[q]) = m
      BY <1>2, <3>3, <3>5
    <3>9. ASSUME NEW j \in 1 .. m PROVE to[q][j] = r[j]
      <4>1. CASE j = m
        <5>1. to[q][m] = q[m]
          <6>1. m \in 1 .. Len(q)
            BY <2>1, <3>3
          <6>2. CASE m # n
            BY <1>2, <3>5, <6>1, <6>2
          <6>3. CASE ~Listed(parent, q)
            BY <1>2, <3>5, <6>3
          <6>4. m = n => ~Listed(parent, q)
            <7>1. ~(m \in 1 .. m - 1)
              BY <2>1
            <7> QED BY <3>4, <7>1
          <6> QED BY <6>2, <6>3, <6>4
        <5> QED BY <3>3, <3>7, <4>1, <5>1
      <4>2. CASE j # m
        <5>1. j \in 1 .. m - 1 /\ j \in 1 .. Len(p) /\ j \in 1 .. Len(q)
          BY <2>1, <3>3, <4>2 DEF m
        <5>2. r[j] = to[p][j] /\ q[j] = p[j]
          BY <3>3, <3>7, <5>1
        <5>3. CASE j # n
          BY <1>2, <3>5, <5>1, <5>2, <5>3
        <5>4. CASE j = n /\ Listed(parent, p)
          <6>1. Listed(parent, q)
            BY <3>6, <5>1, <5>4
          <6> QED BY <1>2, <3>5, <5>2, <5>4, <6>1
        <5>5. CASE j = n /\ ~Listed(parent, p)
          <6>1. ~Listed(parent, q)
            BY <3>4, <5>5
          <6> QED BY <1>2, <3>5, <5>2, <5>5, <6>1
        <5> QED BY <5>3, <5>4, <5>5
      <4> QED BY <4>1, <4>2
    <3>10. to[q] = r
      BY <3>7, <3>8, <3>9, SamePath
    <3> QED BY <3>5, <3>10 DEF r, g
  <2> QED BY <2>5, <2>6
<1> QED BY <1>1, <1>2, <1>3, <1>5, <1>6 DEF Arranged

\* A path is a prefix of another one place by place.
LEMMA PrefixIs ==
  ASSUME NEW s \in Path, NEW t \in Path
  PROVE  IsPrefix(s, t) <=> Len(s) <= Len(t) /\ \A i \in 1 .. Len(s) : s[i] = t[i]
<1> DEFINE n == Len(s)
           a == SubSeq(s, 1, n)
           b == SubSeq(t, 1, n)
<1>1. n \in Nat /\ Len(t) \in Nat
  BY PathIs
<1>3. IsPrefix(s, t) <=> n <= Len(t) /\ a = b
  BY DEF IsPrefix
<1>2. ASSUME n <= Len(t) PROVE a = b <=> \A i \in 1 .. n : s[i] = t[i]
  <2>1. \A i \in 1 .. n : s[i] \in Places
    BY PathIs DEF Places
  <2>0. \A i \in 1 .. n : t[i] \in Places
    <3>1. \A i \in 1 .. Len(t) : t[i] \in Places
      BY PathIs DEF Places
    <3>2. \A i \in 1 .. n : i \in 1 .. Len(t)
      <4> HIDE DEF n
      <4> QED BY <1>1, <1>2
    <3> HIDE DEF n
    <3> QED BY <3>1, <3>2
  <2> HIDE DEF n
  <2>2. /\ a \in Seq(Places) /\ Len(a) = IF 1 <= n THEN n - 1 + 1 ELSE 0
        /\ \A i \in 1 .. n - 1 + 1 : a[i] = s[1 + i - 1]
    BY <1>1, <2>1, SubSeqProperties
  <2>3. /\ b \in Seq(Places) /\ Len(b) = IF 1 <= n THEN n - 1 + 1 ELSE 0
        /\ \A i \in 1 .. n - 1 + 1 : b[i] = t[1 + i - 1]
    BY <1>1, <2>0, SubSeqProperties
  <2> HIDE DEF a, b
  <2>4. Len(a) = n /\ Len(b) = n
    BY <1>1, <2>2, <2>3
  <2>5. \A i \in 1 .. n : i \in 1 .. n - 1 + 1 /\ 1 + i - 1 = i
    BY <1>1
  <2>6. \A i \in 1 .. n : a[i] = s[i] /\ b[i] = t[i]
    BY <2>2, <2>3, <2>5
  <2>7. (\A i \in 1 .. n : s[i] = t[i]) => a = b
    BY <2>2, <2>3, <2>4, <2>6, SeqEqual
  <2> QED BY <2>6, <2>7
<1> QED BY <1>2, <1>3

\* The place of a node in the list that a path is in.
LEMMA NthIs ==
  ASSUME NEW path \in Path, path # <<>>, NEW p \in Path
  PROVE  /\ At(Front(path)) = Len(path)
         /\ Nth(path, p) = IF Listed(Front(path), p) THEN p[Len(path)] ELSE 0
         /\ IsPrefix(path, p) <=> Listed(Front(path), p) /\ p[Len(path)] = Last(path)
<1> DEFINE f == Front(path)
           n == Len(path)
<1>1. /\ f \in Path /\ Len(f) = n - 1 /\ \A j \in 1 .. n - 1 : f[j] = path[j]
      /\ Last(path) = path[n]
  BY FrontIs
<1>2. n \in Nat /\ n # 0 /\ Len(p) \in Nat
  BY PathIs
<1>3. IsPrefix(f, p) <=> Len(f) <= Len(p) /\ \A i \in 1 .. Len(f) : f[i] = p[i]
  BY <1>1, PrefixIs
<1>4. IsPrefix(path, p) <=> n <= Len(p) /\ \A i \in 1 .. n : path[i] = p[i]
  BY PrefixIs
<1>5. Nth(path, p) = IF Len(p) >= n /\ IsPrefix(f, p) THEN p[n] ELSE 0
  BY DEF Nth
<1> HIDE DEF f, n
<1>6. At(f) = n
  BY <1>1, <1>2 DEF At
<1>7. Listed(f, p) <=> Len(p) >= n /\ IsPrefix(f, p)
  BY <1>1, <1>2, <1>3 DEF Listed
<1>8. IsPrefix(path, p) <=> Listed(f, p) /\ p[n] = Last(path)
  <2>1. 1 .. n = 1 .. n - 1 \cup {n}
    BY <1>2
  <2>2. (\A i \in 1 .. n : path[i] = p[i])
          <=> (\A i \in 1 .. n - 1 : path[i] = p[i]) /\ path[n] = p[n]
    BY <2>1
  <2>3. (\A i \in 1 .. n - 1 : path[i] = p[i]) <=> \A i \in 1 .. n - 1 : p[i] = f[i]
    BY <1>1
  <2>4. n <= Len(p) <=> Len(p) > n - 1
    BY <1>2
  <2> QED BY <1>1, <1>4, <2>2, <2>3, <2>4 DEF Listed
<1> QED BY <1>5, <1>6, <1>7, <1>8 DEF f, n

\* A node that is listed is at, or below, a node of the list.
LEMMA ListedIs ==
  ASSUME NEW tree, IsForest(tree), NEW parent \in Path, NEW p \in DOMAIN tree,
         Listed(parent, p)
  PROVE  p[At(parent)] \in Nat /\ p[At(parent)] > 0 /\ Append(parent, p[At(parent)]) \in DOMAIN tree
<1> DEFINE n == At(parent)
           a == Append(parent, p[n])
           r == SubSeq(p, n + 1, Len(p))
<1>1. /\ p \in Path /\ Len(p) \in Nat /\ Len(parent) \in Nat /\ n = Len(parent) + 1
      /\ \A i \in 1 .. Len(p) : p[i] \in Nat /\ p[i] > 0
  BY PathIs DEF At, IsForest
<1>2. /\ Len(p) > Len(parent) /\ \A j \in 1 .. Len(parent) : p[j] = parent[j]
  BY DEF Listed
<1> HIDE DEF n
<1>3. n \in 1 .. Len(p) /\ p[n] \in Nat /\ p[n] > 0
  BY <1>1, <1>2
<1>4. /\ a \in Path /\ a # <<>> /\ Len(a) = n /\ a[n] = p[n]
      /\ \A j \in 1 .. Len(parent) : a[j] = parent[j]
  BY <1>1, <1>3, ChildIs
<1> HIDE DEF a
<1>5. a = SubSeq(p, 1, n)
  <2> DEFINE b == SubSeq(p, 1, n)
  <2>1. \A i \in 1 .. n : p[i] \in Places
    BY <1>1, <1>3 DEF Places
  <2>2. /\ b \in Seq(Places) /\ Len(b) = IF 1 <= n THEN n - 1 + 1 ELSE 0
        /\ \A i \in 1 .. n - 1 + 1 : b[i] = p[1 + i - 1]
    BY <1>3, <2>1, SubSeqProperties
  <2> HIDE DEF b
  <2>3. Len(b) = n
    BY <1>3, <2>2
  <2>4. \A i \in 1 .. n : i \in 1 .. n - 1 + 1 /\ 1 + i - 1 = i
    BY <1>3
  <2>5. \A i \in 1 .. n : i = n \/ i \in 1 .. Len(parent)
    BY <1>1
  <2>6. \A i \in 1 .. Len(a) : a[i] = b[i]
    BY <1>2, <1>4, <2>2, <2>4, <2>5
  <2>7. b \in Path
    BY <2>2 DEF Path, Places
  <2> QED BY <1>4, <2>3, <2>6, <2>7, SamePath DEF b
<1>6. a \o r = p
  <2>1. p \in Seq(Places)
    BY <1>1 DEF Path, Places
  <2>2. SubSeq(p, 1, n) \o SubSeq(p, n + 1, Len(p)) = SubSeq(p, 1, Len(p))
    <3>1. 1 \in 1 .. Len(p) + 1 /\ n \in 1 - 1 .. Len(p) /\ Len(p) \in n .. Len(p)
      BY <1>1, <1>3
    <3> QED BY <2>1, <3>1, ConcatAdjacentSubSeq
  <2>3. SubSeq(p, 1, Len(p)) = p
    BY <2>1, SubSeqFull
  <2> QED BY <1>5, <2>2, <2>3
<1>7. r \in Path
  <2>1. \A i \in n + 1 .. Len(p) : p[i] \in Places
    BY <1>1, <1>3 DEF Places
  <2>2. n + 1 \in Int /\ Len(p) \in Int
    BY <1>1, <1>3
  <2>3. r \in Seq(Places)
    BY <2>1, <2>2, SubSeqProperties
  <2> QED BY <2>3 DEF Path, Places
<1> HIDE DEF r
<1>8. a \in DOMAIN tree
  BY <1>4, <1>6, <1>7, Upwards
<1> QED BY <1>3, <1>8 DEF a, n

\* Where removeNode leaves the nodes that stay.
RemovedTo(path, p) ==
  IF Nth(path, p) > Last(path) THEN Renumber(path, p, Nth(path, p) - 1) ELSE p

\* That arranges the tree.
LEMMA RemovedNodes ==
  ASSUME NEW tree, IsForest(tree), NEW path \in DOMAIN tree
  PROVE  Arranged(tree, [p \in {p \in DOMAIN tree : ~IsPrefix(path, p)} |-> RemovedTo(path, p)])
<1> DEFINE f == Front(path)
           k == Last(path)
           n == Len(path)
           S == {i \in Places : Append(f, i) \in DOMAIN tree} \ {k}
           place == [i \in S |-> IF i > k THEN i - 1 ELSE i]
           to == [p \in {p \in DOMAIN tree : ~IsPrefix(path, p)} |-> RemovedTo(path, p)]
<1>1. path \in Path /\ path # <<>>
  BY DEF IsForest
<1>2. f \in Path /\ k \in Nat /\ k > 0 /\ path = Append(f, k)
  BY <1>1, FrontIs
<1>3. \A p \in DOMAIN tree :
        /\ At(f) = n
        /\ Nth(path, p) = IF Listed(f, p) THEN p[n] ELSE 0
        /\ IsPrefix(path, p) <=> Listed(f, p) /\ p[n] = k
        /\ Listed(f, p) => p[n] \in Nat /\ p[n] > 0 /\ Append(f, p[n]) \in DOMAIN tree
  <2>1. \A p \in DOMAIN tree : p \in Path
    BY DEF IsForest
  <2>2. \A p \in DOMAIN tree :
          /\ At(f) = n
          /\ Nth(path, p) = IF Listed(f, p) THEN p[n] ELSE 0
          /\ IsPrefix(path, p) <=> Listed(f, p) /\ p[n] = k
    BY <1>1, <2>1, NthIs
  <2>3. \A p \in DOMAIN tree : Listed(f, p) =>
          p[At(f)] \in Nat /\ p[At(f)] > 0 /\ Append(f, p[At(f)]) \in DOMAIN tree
    BY <1>2, ListedIs
  <2> QED BY <2>2, <2>3
<1>4. At(f) = n
  BY <1>3
<1>5. DOMAIN to = {p \in DOMAIN tree : Listed(f, p) => p[n] \in S}
  BY <1>3 DEF Places
<1>6. \A p \in DOMAIN to :
        to[p] = IF Listed(f, p) THEN [p EXCEPT ![n] = place[p[n]]] ELSE p
  <2> TAKE p \in DOMAIN to
  <2>1. p \in DOMAIN tree /\ to[p] = RemovedTo(path, p)
    OBVIOUS
  <2>2. CASE Listed(f, p)
    <3>1. p[n] \in S /\ p[n] \in Nat /\ Nth(path, p) = p[n]
      BY <1>3, <1>5, <2>1, <2>2
    <3>2. CASE p[n] > k
      <4>1. to[p] = [p EXCEPT ![n] = p[n] - 1]
        BY <2>1, <3>1, <3>2 DEF RemovedTo, Renumber
      <4>2. place[p[n]] = p[n] - 1
        BY <3>1, <3>2
      <4> QED BY <2>2, <4>1, <4>2
    <3>3. CASE ~(p[n] > k)
      <4>1. to[p] = p
        BY <2>1, <3>1, <3>3 DEF RemovedTo
      <4>2. place[p[n]] = p[n]
        BY <3>1, <3>3
      <4>3. [p EXCEPT ![n] = p[n]] = p
        <5>1. p = [i \in DOMAIN p |-> p[i]]
          <6>1. p \in Seq(Places)
            BY <2>1 DEF IsForest, Path, Places
          <6>2. p \in [1 .. Len(p) -> Places]
            BY <6>1, LenProperties
          <6> QED BY <6>2
        <5> HIDE DEF n
        <5> QED BY <5>1
      <4> HIDE DEF to, place
      <4> QED BY <2>2, <4>1, <4>2, <4>3
    <3> QED BY <3>2, <3>3
  <2>3. CASE ~Listed(f, p)
    <3>1. Nth(path, p) = 0 /\ ~(0 > k)
      BY <1>2, <1>3, <2>1, <2>3
    <3>2. to[p] = p
      BY <2>1, <3>1 DEF RemovedTo
    <3> QED BY <2>3, <3>2
  <2> QED BY <2>2, <2>3
<1>7. \A i \in S : /\ i \in Nat /\ i > 0 /\ Append(f, i) \in DOMAIN tree
                   /\ place[i] \in Nat /\ place[i] > 0
  BY <1>2 DEF Places
<1>8. \A i, j \in S : place[i] = place[j] => i = j
  BY <1>2 DEF Places
<1>9. ASSUME NEW i \in S, NEW m \in 1 .. place[i] PROVE \E j \in S : place[j] = m
  <2>1. /\ i \in Nat /\ i > 0 /\ i # k /\ m \in Nat /\ m > 0
        /\ place[i] = IF i > k THEN i - 1 ELSE i
    BY <1>7
  <2>2. \A j \in 1 .. i : Append(f, j) \in DOMAIN tree
    <3> DEFINE c == Append(f, i)
    <3>1. c \in DOMAIN tree /\ Front(c) = f /\ Last(c) = i
      BY <1>2, <1>7, ChildIs
    <3> HIDE DEF c, f
    <3> QED BY <3>1 DEF IsForest, Placed
  <2>3. CASE m < k
    <3>1. m \in 1 .. i
      BY <1>2, <2>1, <2>3
    <3>2. m \in S /\ place[m] = m
      BY <1>2, <2>1, <2>2, <2>3, <3>1 DEF Places
    <3> QED BY <3>2
  <2>4. CASE ~(m < k)
    <3>1. i > k
      <4>1. CASE i < k
        BY <1>2, <2>1, <2>4, <4>1
      <4> QED BY <1>2, <2>1, <4>1
    <3>2. m + 1 \in 1 .. i /\ m + 1 > k /\ m + 1 - 1 = m
      BY <1>2, <2>1, <2>4, <3>1
    <3>3. m + 1 \in S /\ place[m + 1] = m
      BY <1>2, <2>1, <2>2, <3>2 DEF Places
    <3> QED BY <3>3
  <2> QED BY <2>3, <2>4
<1>10. DOMAIN place = S
  OBVIOUS
<1> HIDE DEF place, to, f, k, n, S
<1>11. Renumbered(tree, f, place, to)
  BY <1>2, <1>4, <1>5, <1>6, <1>7, <1>8, <1>9, <1>10 DEF Renumbered
<1>12. Arranged(tree, to)
  BY <1>11, RenumberedNodes
<1> QED BY <1>12 DEF to

\* Where moveUp leaves the nodes: two neighbours of a list change places.
MovedUpTo(path, p) ==
  CASE Nth(path, p) = Last(path) -> Renumber(path, p, Last(path) - 1)
    [] Nth(path, p) = Last(path) - 1 -> Renumber(path, p, Last(path))
    [] OTHER -> p

\* That arranges the tree.
LEMMA MovedUpNodes ==
  ASSUME NEW tree, IsForest(tree), NEW path \in DOMAIN tree, Last(path) > 1
  PROVE  Arranged(tree, [p \in DOMAIN tree |-> MovedUpTo(path, p)])
<1> DEFINE f == Front(path)
           k == Last(path)
           n == Len(path)
           S == {i \in Places : Append(f, i) \in DOMAIN tree}
           place == [i \in S |-> CASE i = k -> k - 1 [] i = k - 1 -> k [] OTHER -> i]
           to == [p \in DOMAIN tree |-> MovedUpTo(path, p)]
<1>1. path \in Path /\ path # <<>>
  BY DEF IsForest
<1>2. f \in Path /\ k \in Nat /\ k > 1 /\ path = Append(f, k)
  BY <1>1, FrontIs
<1>3. \A p \in DOMAIN tree :
        /\ At(f) = n
        /\ Nth(path, p) = IF Listed(f, p) THEN p[n] ELSE 0
        /\ Listed(f, p) => p[n] \in S
  <2>1. \A p \in DOMAIN tree : p \in Path
    BY DEF IsForest
  <2>2. \A p \in DOMAIN tree :
          /\ At(f) = n
          /\ Nth(path, p) = IF Listed(f, p) THEN p[n] ELSE 0
    BY <1>1, <2>1, NthIs
  <2>3. \A p \in DOMAIN tree : Listed(f, p) =>
          p[At(f)] \in Nat /\ p[At(f)] > 0 /\ Append(f, p[At(f)]) \in DOMAIN tree
    BY <1>2, ListedIs
  <2> QED BY <2>2, <2>3 DEF Places
<1>4. At(f) = n
  BY <1>3
<1>5. DOMAIN to = {p \in DOMAIN tree : Listed(f, p) => p[n] \in S}
  BY <1>3
<1>6. \A p \in DOMAIN to :
        to[p] = IF Listed(f, p) THEN [p EXCEPT ![n] = place[p[n]]] ELSE p
  <2> TAKE p \in DOMAIN to
  <2>1. p \in DOMAIN tree /\ to[p] = MovedUpTo(path, p)
    OBVIOUS
  <2>2. CASE Listed(f, p)
    <3>1. p[n] \in S /\ p[n] \in Nat /\ Nth(path, p) = p[n]
      BY <1>3, <2>1, <2>2 DEF Places
    <3>2. CASE p[n] = k
      <4>1. to[p] = [p EXCEPT ![n] = k - 1]
        BY <2>1, <3>1, <3>2 DEF MovedUpTo, Renumber
      <4>2. place[p[n]] = k - 1
        BY <3>1, <3>2
      <4> QED BY <2>2, <4>1, <4>2
    <3>3. CASE p[n] = k - 1
      <4>1. k - 1 # k
        BY <1>2
      <4>2. to[p] = [p EXCEPT ![n] = k]
        BY <2>1, <3>1, <3>3, <4>1 DEF MovedUpTo, Renumber
      <4>3. place[p[n]] = k
        BY <3>1, <3>3, <4>1
      <4> QED BY <2>2, <4>2, <4>3
    <3>4. CASE p[n] # k /\ p[n] # k - 1
      <4>1. to[p] = p
        BY <2>1, <3>1, <3>4 DEF MovedUpTo
      <4>2. place[p[n]] = p[n]
        BY <3>1, <3>4
      <4>3. [p EXCEPT ![n] = p[n]] = p
        <5>1. p \in Seq(Places)
          BY <2>1 DEF IsForest, Path, Places
        <5>2. p \in [1 .. Len(p) -> Places]
          BY <5>1, LenProperties
        <5> HIDE DEF n
        <5> QED BY <5>2
      <4> HIDE DEF to, place
      <4> QED BY <2>2, <4>1, <4>2, <4>3
    <3> QED BY <3>2, <3>3, <3>4
  <2>3. CASE ~Listed(f, p)
    <3>1. Nth(path, p) = 0 /\ 0 # k /\ 0 # k - 1
      BY <1>2, <1>3, <2>1, <2>3
    <3>2. to[p] = p
      BY <2>1, <3>1 DEF MovedUpTo
    <3> QED BY <2>3, <3>2
  <2> QED BY <2>2, <2>3
<1>7. k \in S /\ \A i \in S : \A j \in 1 .. i : j \in S
  <2>1. path \in DOMAIN tree /\ k \in Places
    BY <1>2 DEF Places
  <2>2. k \in S
    <3> HIDE DEF f, k
    <3> QED BY <1>2, <2>1
  <2>3. ASSUME NEW i \in S, NEW j \in 1 .. i PROVE j \in S
    <3> DEFINE c == Append(f, i)
    <3>1. i \in Nat /\ i > 0 /\ c \in DOMAIN tree
      BY DEF Places
    <3>2. Front(c) = f /\ Last(c) = i
      BY <1>2, <3>1, ChildIs
    <3> HIDE DEF c, f
    <3>3. Append(f, j) \in DOMAIN tree
      BY <2>3, <3>1, <3>2 DEF IsForest, Placed
    <3> QED BY <3>1, <3>3 DEF Places
  <2> QED BY <2>2, <2>3
<1>8. k - 1 \in S /\ k - 1 # k /\ k - 1 > 0
  BY <1>2, <1>7
<1>9. \A i \in S : /\ i \in Nat /\ i > 0 /\ Append(f, i) \in DOMAIN tree
                   /\ place[i] \in S
  BY <1>7, <1>8 DEF Places
<1>10. \A i \in S : place[i] \in Nat /\ place[i] > 0
  <2> HIDE DEF place, S
  <2> QED BY <1>9
<1>11. \A i \in S : place[place[i]] = i
  BY <1>7, <1>8
<1>12. DOMAIN place = S
  OBVIOUS
<1>13. \A i, j \in S : place[i] = place[j] => i = j
  <2> HIDE DEF place, S
  <2> QED BY <1>11
<1>14. ASSUME NEW i \in S, NEW m \in 1 .. place[i] PROVE \E j \in S : place[j] = m
  <2> HIDE DEF place, S
  <2>1. m \in S
    BY <1>7, <1>9
  <2>2. place[m] \in S /\ place[place[m]] = m
    BY <1>9, <1>11, <2>1
  <2> QED BY <2>2
<1> HIDE DEF place, to, f, k, n, S
<1>15. Renumbered(tree, f, place, to)
  BY <1>2, <1>4, <1>5, <1>6, <1>9, <1>10, <1>12, <1>13, <1>14 DEF Renumbered
<1>16. Arranged(tree, to)
  BY <1>15, RenumberedNodes
<1> QED BY <1>16 DEF to

-------------------------------------------------------------------------------
(* Trees that are put together *)

\* Without nodes there is nothing to say.
LEMMA NoNodes == DOMAIN <<>> = {} /\ IsForest(<<>>)
BY DEF IsForest

\* The path of one of the nodes at the top.
LEMMA TopIs ==
  ASSUME NEW i \in Nat, i > 0
  PROVE  /\ <<>> \in Path /\ <<i>> \in Path /\ <<i>> # <<>> /\ Len(<<i>>) = 1
         /\ Front(<<i>>) = <<>> /\ Last(<<i>>) = i /\ <<i>> = Append(<<>>, i)
         /\ <<i>>[1] = i
<1>1. <<>> \in Path /\ <<>> \in Seq(Places)
  BY EmptySeq DEF Path
<1>2. <<i>> = Append(<<>>, i)
  OBVIOUS
<1>3. /\ Append(<<>>, i) \in Path /\ Append(<<>>, i) # <<>>
      /\ Front(Append(<<>>, i)) = <<>> /\ Last(Append(<<>>, i)) = i
  BY <1>1, ChildIs
<1> QED BY <1>1, <1>2, <1>3

\* A list of nodes.
LEMMA FlatForest ==
  ASSUME NEW nodes, NEW n \in Nat, DOMAIN nodes = 1 .. n, \A i \in 1 .. n : Typed(nodes[i])
  PROVE  /\ IsForest(Flat(nodes))
         /\ DOMAIN Flat(nodes) = {<<i>> : i \in 1 .. n}
         /\ \A i \in 1 .. n : Flat(nodes)[<<i>>] = nodes[i]
<1> DEFINE new == Flat(nodes)
<1>1. DOMAIN new = {<<i>> : i \in 1 .. n} /\ \A i \in 1 .. n : new[<<i>>] = nodes[i]
  BY TopIs DEF Flat
<1> HIDE DEF new
<1>2. ASSUME NEW i \in 1 .. n
      PROVE  LET q == <<i>> IN
             /\ q \in Path \ {<<>>} /\ Len(q) = 1 /\ Typed(new[q]) /\ Placed(new, q)
  <2>1. i \in Nat /\ i > 0
    OBVIOUS
  <2>2. /\ <<i>> \in Path \ {<<>>} /\ Len(<<i>>) = 1
        /\ Front(<<i>>) = <<>> /\ Last(<<i>>) = i
    BY <2>1, TopIs
  <2>3. \A j \in 1 .. i : Append(<<>>, j) = <<j>> /\ <<j>> \in DOMAIN new
    BY <1>1
  <2>4. Placed(new, <<i>>)
    BY <2>2, <2>3 DEF Placed
  <2> QED BY <1>1, <2>2, <2>4
<1>3. \A q \in DOMAIN new :
        q \in Path \ {<<>>} /\ Len(q) = 1 /\ Typed(new[q]) /\ Placed(new, q)
  BY <1>1, <1>2
<1>4. ASSUME NEW q \in DOMAIN new PROVE ~(Len(q) > 1)
  <2> DEFINE m == Len(q)
  <2>1. m = 1
    BY <1>3
  <2> HIDE DEF m
  <2>2. ~(m > 1)
    BY <2>1
  <2> QED BY <2>2 DEF m
<1>5. IsForest(new)
  <2>1. DOMAIN new \subseteq Path \ {<<>>}
    BY <1>3
  <2> QED BY <1>3, <1>4, <2>1 DEF IsForest, Typed
<1> QED BY <1>1, <1>5 DEF new

-------------------------------------------------------------------------------
(* Cards: what their fields hold *)

\* A row as it may be given to a card, and as it is in one.
RowGiven(row) == IsRow(row) /\ FilledRow(row)
RowOK(row) == RowGiven(row) /\ row.id \in Places

ListGiven(rows) == IsSequence(rows) /\ \A i \in DOMAIN rows : RowGiven(rows[i])
ListOK(rows) == IsSequence(rows) /\ \A i \in DOMAIN rows : RowOK(rows[i])

CardOK(card) ==
  /\ DOMAIN card = {"type", "identifier", "time", "rows", "names", "removed"}
  /\ DOMAIN card.rows = Kinds
  /\ card.type = "factor" /\ FilledName(card.identifier) /\ FilledTime(card.time)
  /\ \A kind \in Kinds : ListOK(card.rows[kind])

\* A list is what is at its places.
LEMMA ListIs ==
  ASSUME NEW rows, IsSequence(rows)
  PROVE  /\ Len(rows) \in Nat /\ DOMAIN rows = 1 .. Len(rows)
         /\ rows = [i \in 1 .. Len(rows) |-> rows[i]]
<1> DEFINE T == ToSet(rows)
<1>1. rows \in Seq(T)
  BY DEF IsSequence
<1> HIDE DEF T
<1> QED BY <1>1

\* ... and the other way round.
LEMMA SequenceOf ==
  ASSUME NEW n \in Nat, NEW rows, rows = [i \in 1 .. n |-> rows[i]]
  PROVE  IsSequence(rows) /\ DOMAIN rows = 1 .. n /\ Len(rows) = n
<1> DEFINE T == ToSet(rows)
<1>1. rows \in [1 .. n -> T] /\ DOMAIN rows = 1 .. n
  BY DEF ToSet
<1> HIDE DEF T
<1>2. rows \in Seq(T)
  BY <1>1
<1> QED BY <1>1, <1>2 DEF IsSequence, T

\* A list without elements.
LEMMA EmptyList == IsSequence(<<>>)
<1>1. <<>> \in Seq({})
  OBVIOUS
<1> QED BY <1>1, SeqIs

\* A row that is numbered keeps its fields.
LEMMA NumberedIs ==
  ASSUME NEW row, RowGiven(row), NEW n
  PROVE  LET new == [row EXCEPT !.id = n] IN
         RowGiven(new) /\ new.id = n /\ SameFields(new, row)
BY DEF RowGiven, IsRow, FilledRow, SameFields

\* The fields of a row may be given to a card.
LEMMA GivenRow ==
  ASSUME NEW name, FilledName(name), NEW mode, NEW value, IsWords(value), Trim(value) = value,
         NEW min, FilledNumber(min), NEW max, FilledNumber(max), NEW essential \in BOOLEAN
  PROVE  RowGiven(Row(name, mode, value, min, max, essential))
<1> DEFINE row == Row(name, mode, value, min, max, essential)
<1>1. /\ IsRow(row) /\ row.name = name /\ row.value = value
      /\ row.min = min /\ row.max = max /\ row.essential = essential
  BY DEF Row, IsRow
<1> HIDE DEF row
<1>2. RowGiven(row)
  BY <1>1 DEF RowGiven, FilledRow
<1> QED BY <1>2 DEF row

\* A row that only requests a name.
LEMMA GivenRequest ==
  ASSUME NEW name, FilledName(name)
  PROVE  RowGiven(RequestedRow(name))
<1>1. IsWords(NoText) /\ Trim(NoText) = NoText
  BY NothingTyped
<1>2. FilledNumber(NoText)
  BY DEF FilledNumber
<1> QED BY <1>1, <1>2, GivenRow DEF RequestedRow

\* A row whose suggestions are drawn keeps its number and its fields.
LEMMA DrawnIs ==
  ASSUME NEW row, RowGiven(row), NEW metadata, NEW identifier, NEW kind
  PROVE  LET new == RefreshRow(row, metadata, identifier, kind) IN
         RowGiven(new) /\ new.id = row.id /\ SameFields(new, row)
BY DEF RowGiven, IsRow, FilledRow, SameFields, RefreshRow

\* The list of one kind, when the suggestions of the card are drawn.
Drawn(rows, metadata, identifier, kind) ==
  [i \in DOMAIN rows |-> RefreshRow(rows[i], metadata, identifier, kind)]

\* It is the same list but for the suggestions.
LEMMA DrawnList ==
  ASSUME NEW rows, ListOK(rows), NEW metadata, NEW identifier, NEW kind
  PROVE  LET new == Drawn(rows, metadata, identifier, kind) IN
         /\ ListOK(new) /\ DOMAIN new = DOMAIN rows
         /\ \A i \in DOMAIN rows : SameFields(new[i], rows[i])
<1> DEFINE new == Drawn(rows, metadata, identifier, kind)
           n == Len(rows)
<1>1. n \in Nat /\ DOMAIN rows = 1 .. n
  BY ListIs DEF ListOK
<1>2. new = [i \in 1 .. n |-> RefreshRow(rows[i], metadata, identifier, kind)]
  BY <1>1 DEF Drawn
<1> HIDE DEF new, n
<1>3. new = [i \in 1 .. n |-> new[i]] /\ DOMAIN new = 1 .. n
  BY <1>2
<1>4. IsSequence(new)
  BY <1>1, <1>3, SequenceOf
<1>5. ASSUME NEW i \in 1 .. n PROVE RowOK(new[i]) /\ SameFields(new[i], rows[i])
  <2>1. RowGiven(rows[i]) /\ rows[i].id \in Places
    BY <1>1 DEF ListOK, RowOK
  <2>2. new[i] = RefreshRow(rows[i], metadata, identifier, kind)
    BY <1>2
  <2> QED BY <2>1, <2>2, DrawnIs DEF RowOK
<1> QED BY <1>1, <1>3, <1>4, <1>5 DEF ListOK, new

\* The same card, but for its suggestions.
SameCard(new, card) ==
  /\ new.identifier = card.identifier /\ new.time = card.time
  /\ \A kind \in Kinds : /\ DOMAIN new.rows[kind] = DOMAIN card.rows[kind]
                         /\ \A i \in DOMAIN card.rows[kind] :
                              SameFields(new.rows[kind][i], card.rows[kind][i])

\* refreshFactorSuggestions, field by field.
RefreshedTo(new, card, metadata) ==
  /\ DOMAIN new = DOMAIN card /\ new.type = card.type
  /\ new.identifier = card.identifier /\ new.time = card.time /\ new.removed = card.removed
  /\ DOMAIN new.rows = Kinds
  /\ \A kind \in Kinds :
       new.rows[kind] = Drawn(card.rows[kind], metadata, card.identifier, kind)

\* That is what it does.
LEMMA RefreshedIs ==
  ASSUME NEW card, {"type", "identifier", "time", "rows", "names", "removed"} = DOMAIN card,
         NEW metadata
  PROVE  RefreshedTo(RefreshFactor(card, metadata), card, metadata)
<1> DEFINE named == RefreshNames(card, metadata)
           rows == [kind \in Kinds |-> [i \in DOMAIN card.rows[kind] |->
                      RefreshRow(card.rows[kind][i], metadata, card.identifier, kind)]]
           new == RefreshFactor(card, metadata)
<1>1. /\ DOMAIN named = DOMAIN card /\ named.type = card.type /\ named.time = card.time
      /\ named.removed = card.removed /\ named.identifier = card.identifier
  BY DEF RefreshNames
<1>2. new = [named EXCEPT !.rows = rows]
  BY DEF RefreshFactor
<1>3. \A kind \in Kinds : rows[kind] = Drawn(card.rows[kind], metadata, card.identifier, kind)
  BY DEF Drawn
<1>4. DOMAIN rows = Kinds
  OBVIOUS
<1> HIDE DEF named, rows, new
<1>5. /\ DOMAIN new = DOMAIN card /\ new.type = card.type /\ new.time = card.time
      /\ new.removed = card.removed /\ new.identifier = card.identifier /\ new.rows = rows
  BY <1>1, <1>2
<1>6. RefreshedTo(new, card, metadata)
  BY <1>3, <1>4, <1>5 DEF RefreshedTo
<1> QED BY <1>6 DEF new

\* The fields of a card stay as they are when its suggestions are drawn.
LEMMA RefreshOK ==
  ASSUME NEW card, CardOK(card), NEW metadata
  PROVE  CardOK(RefreshFactor(card, metadata)) /\ SameCard(RefreshFactor(card, metadata), card)
<1> DEFINE new == RefreshFactor(card, metadata)
<1>1. RefreshedTo(new, card, metadata)
  BY RefreshedIs DEF CardOK
<1> HIDE DEF new
<1>2. ASSUME NEW kind \in Kinds
      PROVE  /\ ListOK(new.rows[kind]) /\ DOMAIN new.rows[kind] = DOMAIN card.rows[kind]
             /\ \A i \in DOMAIN card.rows[kind] :
                  SameFields(new.rows[kind][i], card.rows[kind][i])
  <2>1. ListOK(card.rows[kind])
    BY DEF CardOK
  <2>2. new.rows[kind] = Drawn(card.rows[kind], metadata, card.identifier, kind)
    BY <1>1 DEF RefreshedTo
  <2> QED BY <2>1, <2>2, DrawnList
<1>3. CardOK(new)
  BY <1>1, <1>2 DEF CardOK, RefreshedTo
<1>4. SameCard(new, card)
  BY <1>1, <1>2 DEF SameCard, RefreshedTo
<1> QED BY <1>3, <1>4 DEF new

\* A card that addFactor makes, field by field.
LEMMA CardFields ==
  ASSUME NEW metadata, NEW identifier, NEW time, NEW rows
  PROVE  Card(metadata, identifier, time, rows) =
           [type |-> "factor", identifier |-> identifier, time |-> time,
            rows |-> [kind \in Kinds |->
                        Drawn(NumberedRows(rows[kind]), metadata, identifier, kind)],
            names |-> [kind \in Kinds |-> DOMAIN MethodOf(metadata, identifier)[kind]],
            removed |-> FALSE]
<1> DEFINE Numbered(kind) == NumberedRows(rows[kind])
           List(kind) == Drawn(Numbered(kind), metadata, identifier, kind)
           names == [kind \in Kinds |-> DOMAIN MethodOf(metadata, identifier)[kind]]
           none == [kind \in Kinds |-> {}]
           blankrows == [kind \in Kinds |-> Numbered(kind)]
           newrows == [kind \in Kinds |-> List(kind)]
           blank == [type |-> "factor", identifier |-> identifier, time |-> time,
                     rows |-> blankrows, names |-> none, removed |-> FALSE]
<1>1. Card(metadata, identifier, time, rows) = RefreshFactor(blank, metadata)
  BY DEF Card
<1>2. \A kind \in Kinds : blankrows[kind] = Numbered(kind)
  OBVIOUS
<1> HIDE DEF Numbered, blankrows, none
<1>3. RefreshNames(blank, metadata) = [blank EXCEPT !.names = names]
  BY DEF RefreshNames
<1>4. RefreshFactor(blank, metadata) =
        [[blank EXCEPT !.names = names] EXCEPT !.rows =
           [kind \in Kinds |-> Drawn(blankrows[kind], metadata, identifier, kind)]]
  BY <1>3 DEF RefreshFactor, Drawn
<1>5. newrows = [kind \in Kinds |-> Drawn(blankrows[kind], metadata, identifier, kind)]
  BY <1>2
<1> HIDE DEF names, newrows
<1>6. RefreshFactor(blank, metadata) =
        [type |-> "factor", identifier |-> identifier, time |-> time,
         rows |-> newrows, names |-> names, removed |-> FALSE]
  BY <1>4, <1>5
<1> QED BY <1>1, <1>6 DEF newrows, names, Numbered

\* A list given to a card, numbered and with its suggestions.
MadeList(new, rows, metadata, identifier, kind) ==
  /\ ListOK(new) /\ DOMAIN new = DOMAIN rows
  /\ \A i \in DOMAIN rows : SameFields(new[i], rows[i])
  /\ Drawn(NumberedRows(new), metadata, identifier, kind) = new

\* Numbered and drawn, the list has the fields it was given; once more changes nothing.
LEMMA ListMade ==
  ASSUME NEW rows, ListGiven(rows), NEW metadata, NEW identifier, NEW kind
  PROVE  MadeList(Drawn(NumberedRows(rows), metadata, identifier, kind),
                  rows, metadata, identifier, kind)
<1> DEFINE n == Len(rows)
           numbered == NumberedRows(rows)
           new == Drawn(numbered, metadata, identifier, kind)
<1>1. n \in Nat /\ DOMAIN rows = 1 .. n
  BY ListIs DEF ListGiven
<1> HIDE DEF n
<1>2. DOMAIN numbered = 1 .. n /\ \A i \in 1 .. n : numbered[i] = [rows[i] EXCEPT !.id = i]
  BY <1>1 DEF NumberedRows
<1> HIDE DEF numbered
<1>3. /\ DOMAIN new = 1 .. n /\ new = [i \in 1 .. n |-> new[i]]
      /\ \A i \in 1 .. n : new[i] = RefreshRow(numbered[i], metadata, identifier, kind)
  BY <1>2 DEF Drawn
<1> HIDE DEF new
<1>4. ASSUME NEW i \in 1 .. n
      PROVE  RowGiven(new[i]) /\ new[i].id = i /\ SameFields(new[i], rows[i])
  <2> DEFINE given == [rows[i] EXCEPT !.id = i]
  <2>1. RowGiven(given) /\ given.id = i /\ SameFields(given, rows[i])
    BY <1>1, NumberedIs DEF ListGiven
  <2>2. numbered[i] = given
    BY <1>2
  <2> HIDE DEF given
  <2>3. RowGiven(new[i]) /\ new[i].id = given.id /\ SameFields(new[i], given)
    BY <1>3, <2>1, <2>2, DrawnIs
  <2> QED BY <2>1, <2>3 DEF SameFields
<1>5. ListOK(new)
  <2>1. IsSequence(new)
    BY <1>1, <1>3, SequenceOf
  <2> QED BY <1>1, <1>3, <1>4, <2>1 DEF ListOK, RowOK, Places
\* Numbered and drawn again, nothing changes.
<1>6. ASSUME NEW i \in 1 .. n
      PROVE  RefreshRow([new[i] EXCEPT !.id = i], metadata, identifier, kind) = new[i]
  <2> DEFINE row == new[i]
             old == numbered[i]
  <2>1. row = [old EXCEPT !.options = OptionsOf(metadata, identifier, kind, old.name)]
    BY <1>3 DEF RefreshRow
  <2>2. row.id = i /\ IsRow(row)
    BY <1>4 DEF RowGiven
  <2>3. row.name = old.name /\ DOMAIN row = DOMAIN old
    BY <2>1, <2>2 DEF IsRow
  <2>4. row.options = OptionsOf(metadata, identifier, kind, row.name)
    BY <2>1, <2>2, <2>3 DEF IsRow
  <2>5. row = [key \in DOMAIN row |-> row[key]]
    BY <2>1
  <2> HIDE DEF row, old
  <2>6. [row EXCEPT !.id = i] = row
    BY <2>2, <2>5
  <2>7. [row EXCEPT !.options = OptionsOf(metadata, identifier, kind, row.name)] = row
    BY <2>4, <2>5
  <2>8. RefreshRow(row, metadata, identifier, kind) = row
    BY <2>7 DEF RefreshRow
  <2>9. RefreshRow([row EXCEPT !.id = i], metadata, identifier, kind) = row
    BY <2>6, <2>8
  <2> QED BY <2>9 DEF row
<1>7. Drawn(NumberedRows(new), metadata, identifier, kind) = new
  <2>1. /\ DOMAIN NumberedRows(new) = 1 .. n
        /\ \A i \in 1 .. n : NumberedRows(new)[i] = [new[i] EXCEPT !.id = i]
    BY <1>3 DEF NumberedRows
  <2>2. Drawn(NumberedRows(new), metadata, identifier, kind) =
          [i \in 1 .. n |-> RefreshRow(NumberedRows(new)[i], metadata, identifier, kind)]
    BY <2>1 DEF Drawn
  <2>3. \A i \in 1 .. n : RefreshRow(NumberedRows(new)[i], metadata, identifier, kind) = new[i]
    BY <1>6, <2>1
  <2> QED BY <1>3, <2>2, <2>3
<1>8. MadeList(new, rows, metadata, identifier, kind)
  BY <1>1, <1>3, <1>4, <1>5, <1>7 DEF MadeList
<1> QED BY <1>8 DEF new, numbered

\* A card as addFactor leaves it: made from its own fields and the metadata.
Made(card, metadata) ==
  /\ DOMAIN card.rows = Kinds /\ \A kind \in Kinds : ListGiven(card.rows[kind])
  /\ card = Card(metadata, card.identifier, card.time, card.rows)

\* addFactor with any identifier, time and rows leaves such a card, with what its
\* fields can hold.
LEMMA CardMade ==
  ASSUME NEW metadata, NEW identifier, FilledName(identifier),
         NEW time, FilledTime(time),
         NEW rows, \A kind \in Kinds : ListGiven(rows[kind])
  PROVE  LET card == Card(metadata, identifier, time, rows) IN
         CardOK(card) /\ Made(card, metadata)
<1> DEFINE List(kind) == Drawn(NumberedRows(rows[kind]), metadata, identifier, kind)
           lists == [kind \in Kinds |-> List(kind)]
           names == [kind \in Kinds |-> DOMAIN MethodOf(metadata, identifier)[kind]]
           card == Card(metadata, identifier, time, rows)
<1>1. card = [type |-> "factor", identifier |-> identifier, time |-> time,
              rows |-> lists, names |-> names, removed |-> FALSE]
  BY CardFields
<1>2. \A kind \in Kinds : MadeList(List(kind), rows[kind], metadata, identifier, kind)
  BY ListMade
<1>3. DOMAIN lists = Kinds /\ \A kind \in Kinds : lists[kind] = List(kind)
  OBVIOUS
<1>4. lists = [kind \in Kinds |-> lists[kind]]
  OBVIOUS
<1> HIDE DEF lists, List
<1>5. CardOK(card)
  BY <1>1, <1>2, <1>3 DEF CardOK, MadeList
<1>6. lists = [kind \in Kinds |-> Drawn(NumberedRows(lists[kind]), metadata, identifier, kind)]
  BY <1>2, <1>3, <1>4 DEF MadeList
<1>7. Card(metadata, identifier, time, lists) =
        [type |-> "factor", identifier |-> identifier, time |-> time,
         rows |-> [kind \in Kinds |-> Drawn(NumberedRows(lists[kind]), metadata, identifier, kind)],
         names |-> names, removed |-> FALSE]
  BY CardFields
<1> HIDE DEF names
<1>8. card = Card(metadata, identifier, time, lists)
  BY <1>1, <1>6, <1>7
<1>9. card.identifier = identifier /\ card.time = time /\ card.rows = lists
  BY <1>1
<1>10. \A kind \in Kinds : ListGiven(lists[kind])
  BY <1>2, <1>3 DEF MadeList, ListOK, RowOK, ListGiven
<1> HIDE DEF card
<1>11. Made(card, metadata)
  BY <1>3, <1>8, <1>9, <1>10 DEF Made
<1> QED BY <1>5, <1>11 DEF card

-------------------------------------------------------------------------------
(* Edits of a card *)

P == INSTANCE SuggestedCardsProofs WITH cards <- Cards

\* What SuggestedCards assumes of the constants.
LEMMA SameConstants ==
  /\ \A input \in RowInputs : P!IsRow(input)
  /\ NameOrder \in Seq(P!Names) /\ Other \notin P!Names /\ None \notin Documents
  /\ \A document \in Documents : P!IsDocument(document)
<1>1. \A input \in RowInputs : P!IsRow(input)
  BY BuilderAssumption DEF P!IsRow, IsRow
<1>2. P!Names = Names
  BY DEF P!Names, Names, P!ToSet, ToSet
<1>3. \A document : P!IsDocument(document) <=> IsDocument(document)
  BY <1>2 DEF P!IsDocument, IsDocument
<1> QED BY <1>1, <1>2, <1>3, DiscoveryAssumption

\* SuggestedCards has the same lists.
LEMMA SameLists ==
  ASSUME NEW rows
  PROVE  /\ P!IsList(rows) <=> IsSequence(rows) /\ \A i \in DOMAIN rows : IsRow(rows[i])
         /\ \A row : P!IsRow(row) <=> IsRow(row)
         /\ \A row : P!AppendRow(rows, row) = AppendRow(rows, row)
         /\ \A i : P!RemoveAt(rows, i) = RemoveAt(rows, i)
<1>1. P!IsList(rows) <=> IsSequence(rows) /\ \A i \in DOMAIN rows : IsRow(rows[i])
  BY DEF P!IsList, P!IsRow, IsRow, IsSequence, ToSet, P!ToSet
<1>2. \A row : P!IsRow(row) <=> IsRow(row)
  BY DEF P!IsRow, IsRow
<1>3. \A row : P!AppendRow(rows, row) = AppendRow(rows, row)
  BY DEF P!AppendRow, AppendRow
<1>4. \A i : P!RemoveAt(rows, i) = RemoveAt(rows, i)
  BY DEF P!RemoveAt, RemoveAt
<1> QED BY <1>1, <1>2, <1>3, <1>4

\* A row at the end of a list.
LEMMA AppendedOK ==
  ASSUME NEW rows, ListOK(rows), NEW row, RowGiven(row)
  PROVE  ListOK(AppendRow(rows, row))
<1> DEFINE n == Len(rows)
           last == [row EXCEPT !.id = Len(rows) + 1]
           new == AppendRow(rows, row)
<1>1. n \in Nat /\ DOMAIN rows = 1 .. n
  BY ListIs DEF ListOK
<1>2. P!IsList(rows) /\ P!IsRow(row)
  BY SameLists DEF ListOK, RowOK, RowGiven
<1>3. /\ P!IsList(new) /\ DOMAIN new = 1 .. n + 1
      /\ \A i \in 1 .. n : new[i] = rows[i]
      /\ new[n + 1] = last
  <2> DEFINE q == P!AppendRow(rows, row)
  <2>1. /\ P!IsList(q) /\ DOMAIN q = 1 .. n + 1
        /\ \A i \in 1 .. n : q[i] = rows[i]
        /\ q[n + 1] = last
    BY <1>2, SameConstants, P!AppendedList
  <2>2. q = new
    BY SameLists
  <2> QED BY <2>1, <2>2
<1>4. RowGiven(last) /\ last.id = n + 1
  BY NumberedIs
<1> HIDE DEF last, new, n
<1>5. IsSequence(new)
  BY <1>3, SameLists
<1>6. ASSUME NEW i \in 1 .. n + 1 PROVE RowOK(new[i])
  <2>1. CASE i = n + 1
    BY <1>1, <1>3, <1>4, <2>1 DEF RowOK, Places
  <2>2. CASE i # n + 1
    <3>1. i \in 1 .. n
      BY <1>1, <2>2
    <3> QED BY <1>1, <1>3, <3>1 DEF ListOK
  <2> QED BY <2>1, <2>2
<1> QED BY <1>3, <1>5, <1>6 DEF ListOK, new

\* A list without one of its rows.
LEMMA RemovedOK ==
  ASSUME NEW rows, ListOK(rows), NEW i \in DOMAIN rows
  PROVE  ListOK(RemoveAt(rows, i))
<1> DEFINE n == Len(rows)
           new == RemoveAt(rows, i)
<1>1. n \in Nat /\ DOMAIN rows = 1 .. n
  BY ListIs DEF ListOK
<1>2. P!IsList(rows)
  BY SameLists DEF ListOK, RowOK, RowGiven
<1>3. /\ P!IsList(new) /\ DOMAIN new = 1 .. n - 1
      /\ \A j \in 1 .. n - 1 : new[j] = IF j < i THEN rows[j] ELSE rows[j + 1]
  <2> DEFINE q == P!RemoveAt(rows, i)
  <2>1. /\ P!IsList(q) /\ DOMAIN q = 1 .. n - 1
        /\ \A j \in 1 .. n - 1 : q[j] = IF j < i THEN rows[j] ELSE rows[j + 1]
    BY <1>2, SameConstants, P!RemovedList
  <2>2. q = new
    BY SameLists
  <2> QED BY <2>1, <2>2
<1> HIDE DEF new, n
<1>4. IsSequence(new)
  BY <1>3, SameLists
<1>5. ASSUME NEW j \in 1 .. n - 1 PROVE RowOK(new[j])
  <2>1. j \in DOMAIN rows /\ j + 1 \in DOMAIN rows
    BY <1>1
  <2> QED BY <1>3, <2>1 DEF ListOK
<1> QED BY <1>3, <1>4, <1>5 DEF ListOK, new

\* A list with another row in place of one.
LEMMA ReplacedOK ==
  ASSUME NEW rows, ListOK(rows), NEW i \in DOMAIN rows, NEW row, RowOK(row)
  PROVE  ListOK([rows EXCEPT ![i] = row])
<1> DEFINE n == Len(rows)
           new == [rows EXCEPT ![i] = row]
<1>1. n \in Nat /\ DOMAIN rows = 1 .. n
  BY ListIs DEF ListOK
<1> HIDE DEF n
<1>2. \A j \in 1 .. n : RowOK(new[j])
  BY <1>1 DEF ListOK
<1>3. DOMAIN new = 1 .. n /\ new = [j \in 1 .. n |-> new[j]]
  BY <1>1
<1> HIDE DEF new
<1>4. IsSequence(new)
  BY <1>1, <1>3, SequenceOf
<1> QED BY <1>2, <1>3, <1>4 DEF ListOK, new

\* One list of a card is exchanged for another.
LEMMA ExchangedOK ==
  ASSUME NEW card, CardOK(card), NEW kind \in Kinds, NEW rows, ListOK(rows), NEW new,
         DOMAIN new = DOMAIN card, new.type = card.type, new.identifier = card.identifier,
         new.time = card.time, new.rows = [card.rows EXCEPT ![kind] = rows]
  PROVE  CardOK(new)
<1>1. DOMAIN new.rows = Kinds /\ \A k \in Kinds : ListOK(new.rows[k])
  BY DEF CardOK
<1> QED BY <1>1 DEF CardOK

\* One edit of a card.
Edited(card, new, metadata) ==
  \/ \E identifier \in Ids : new = WithIdentifier(card, identifier, metadata)
  \/ \E time \in Times : new = WithTime(card, time)
  \/ \E kind \in Kinds :
       \/ new = WithNewRow(card, metadata, kind)
       \/ \E i \in DOMAIN card.rows[kind] :
            \/ new = WithoutRow(card, kind, i)
            \/ \E input \in RowInputs : new = WithRow(card, metadata, kind, i, input)

\* Its fields still hold what they can.
LEMMA EditedOK ==
  ASSUME NEW card, CardOK(card), NEW metadata, NEW new, Edited(card, new, metadata)
  PROVE  CardOK(new)
<1>1. ASSUME NEW identifier \in Ids PROVE CardOK(WithIdentifier(card, identifier, metadata))
  <2> DEFINE other == [card EXCEPT !.identifier = identifier]
  <2>1. FilledName(identifier)
    BY WorkbenchAssumption
  <2>2. CardOK(other)
    BY <2>1 DEF CardOK
  <2> HIDE DEF other
  <2>3. CardOK(RefreshFactor(other, metadata))
    BY <2>2, RefreshOK
  <2> QED BY <2>3 DEF WithIdentifier, other
<1>2. ASSUME NEW time \in Times PROVE CardOK(WithTime(card, time))
  BY WorkbenchAssumption DEF WithTime, CardOK
<1>3. ASSUME NEW kind \in Kinds PROVE CardOK(WithNewRow(card, metadata, kind))
  <2> DEFINE names == SortedNames(DOMAIN MethodOf(metadata, card.identifier)[kind])
             name == IF names = <<>> THEN "" ELSE names[1]
             blank == RequestedRow(name)
             row == NewRow(card, metadata, kind)
             rows == card.rows[kind]
             more == AppendRow(rows, row)
  <2>1. RowGiven(blank)
    <3>1. name \in Names \cup {""}
      <4>1. IsSequence(names) /\ ToSet(names) \subseteq Names
        BY SortedAreNames
      <4> HIDE DEF names
      <4>2. names # <<>> => names[1] \in ToSet(names)
        BY <4>1 DEF IsSequence
      <4> QED BY <4>1, <4>2
    <3> HIDE DEF name
    <3>2. FilledName(name)
      BY <3>1, ScalarsAssumption DEF FilledName, Own
    <3> QED BY <3>2, GivenRequest
  <2> HIDE DEF blank
  <2>2. row = RefreshRow(blank, metadata, card.identifier, kind)
    BY DEF NewRow, blank
  <2> HIDE DEF row
  <2>3. RowGiven(row)
    BY <2>1, <2>2, DrawnIs
  <2>4. ListOK(rows)
    BY DEF CardOK
  <2> HIDE DEF rows
  <2>5. ListOK(more)
    BY <2>3, <2>4, AppendedOK
  <2> HIDE DEF more
  <2>6. LET made == WithNewRow(card, metadata, kind) IN
        /\ DOMAIN made = DOMAIN card /\ made.type = card.type /\ made.identifier = card.identifier
        /\ made.time = card.time /\ made.rows = [card.rows EXCEPT ![kind] = more]
    BY DEF WithNewRow, CardOK, more, rows, row
  <2> QED BY <2>5, <2>6, ExchangedOK
<1>4. ASSUME NEW kind \in Kinds, NEW i \in DOMAIN card.rows[kind]
      PROVE  CardOK(WithoutRow(card, kind, i))
  <2> DEFINE rows == card.rows[kind]
             fewer == RemoveAt(rows, i)
  <2>1. ListOK(rows)
    BY DEF CardOK
  <2>2. ListOK(fewer)
    BY <2>1, RemovedOK
  <2>3. LET made == WithoutRow(card, kind, i) IN
        /\ DOMAIN made = DOMAIN card /\ made.type = card.type /\ made.identifier = card.identifier
        /\ made.time = card.time /\ made.rows = [card.rows EXCEPT ![kind] = fewer]
    BY DEF WithoutRow, CardOK
  <2> HIDE DEF fewer, rows
  <2> QED BY <2>2, <2>3, ExchangedOK
<1>5. ASSUME NEW kind \in Kinds, NEW i \in DOMAIN card.rows[kind], NEW input \in RowInputs
      PROVE  CardOK(WithRow(card, metadata, kind, i, input))
  <2> DEFINE rows == card.rows[kind]
             row == [input EXCEPT !.id = rows[i].id]
             drawn == RefreshRow(row, metadata, card.identifier, kind)
             edited == [rows EXCEPT ![i] = drawn]
  <2>1. ListOK(rows)
    BY DEF CardOK
  <2>2. RowGiven(input)
    BY BuilderAssumption, WorkbenchAssumption DEF RowGiven
  <2>3. RowGiven(row) /\ row.id = rows[i].id
    BY <2>2, NumberedIs
  <2> HIDE DEF row
  <2>4. RowOK(drawn)
    BY <2>1, <2>3, DrawnIs DEF RowOK, ListOK
  <2> HIDE DEF drawn, rows
  <2>5. ListOK(edited)
    BY <2>1, <2>4, ReplacedOK DEF rows
  <2> HIDE DEF edited
  <2>6. LET made == WithRow(card, metadata, kind, i, input) IN
        /\ DOMAIN made = DOMAIN card /\ made.type = card.type /\ made.identifier = card.identifier
        /\ made.time = card.time /\ made.rows = [card.rows EXCEPT ![kind] = edited]
    BY DEF WithRow, CardOK, edited, rows, drawn, row
  <2> QED BY <2>5, <2>6, ExchangedOK
<1> QED BY <1>1, <1>2, <1>3, <1>4, <1>5 DEF Edited

-------------------------------------------------------------------------------
(* Cards that are made *)

\* The identifiers of a page's metadata are names.
NamesKnown(metadata) ==
  IsSequence(metadata.identifiers) /\ ToSet(metadata.identifiers) \subseteq Names

\* builder_discovery_metadata gives names, and so does a page without an answer.
LEMMA KnownNames ==
  /\ NamesKnown(NoMetadata)
  /\ \A document : NamesKnown(BuilderMetadata(document))
<1>1. NamesKnown(NoMetadata)
  <2>1. NoMetadata.identifiers = <<>>
    BY DEF NoMetadata
  <2>2. ToSet(<<>>) = {}
    BY DEF ToSet
  <2> QED BY <2>1, <2>2, EmptyList DEF NamesKnown
<1>2. ASSUME NEW document PROVE NamesKnown(BuilderMetadata(document))
  <2> DEFINE ids == Strings(ListAt(document, Identifiers))
  <2>1. BuilderMetadata(document).identifiers = SortedNames(ids)
    BY DEF BuilderMetadata
  <2> HIDE DEF ids
  <2> QED BY <2>1, SortedAreNames DEF NamesKnown
<1> QED BY <1>1, <1>2

\* Rows without any.
LEMMA NoRowsGiven == \A kind \in Kinds : ListGiven(NoRows[kind])
<1> SUFFICES ASSUME NEW kind \in Kinds PROVE ListGiven(NoRows[kind])
  OBVIOUS
<1>1. NoRows[kind] = <<>>
  BY DEF NoRows
<1>2. DOMAIN <<>> = {}
  BY NoNodes
<1> QED BY <1>1, <1>2, EmptyList DEF ListGiven

\* A card on its own: addFactor without a model.
LEMMA DefaultMade ==
  ASSUME NEW metadata, NamesKnown(metadata)
  PROVE  CardOK(DefaultCard(metadata)) /\ Made(DefaultCard(metadata), metadata)
<1>1. FilledTime(AnyTime)
  BY DEF FilledTime, AnyTime, FilledNumber
<1>2. FilledName(DefaultIdentifier(metadata))
  BY DefaultIsName DEF NamesKnown
<1> QED BY <1>1, <1>2, NoRowsGiven, CardMade DEF DefaultCard

\* The texts of scalars, put together, are a text.
LEMMA JoinedWords ==
  ASSUME NEW values, IsSequence(values), \A i \in DOMAIN values : IsScalar(values[i])
  PROVE  IsWords(Join(values))
<1> DEFINE texts == [i \in DOMAIN values |-> values[i].text]
<1>1. Join(values) = IF values = <<>> THEN NoText ELSE FlattenSeq(texts)
  BY DEF Join
<1>2. PICK n \in Nat : DOMAIN values = 1 .. n
  BY LengthIs
<1>3. DOMAIN texts = 1 .. n /\ \A i \in 1 .. n : IsWords(texts[i])
  BY <1>2 DEF IsScalar
<1>4. texts = [i \in 1 .. n |-> texts[i]]
  BY <1>2
<1> HIDE DEF texts
<1>5. IsSequence(texts) /\ Len(texts) = n
  BY <1>4, SequenceOf
<1>6. n = 0 => values = <<>>
  BY <1>2 DEF IsSequence
<1>7. n # 0 => IsWords(FlattenSeq(texts))
  BY <1>3, <1>5, FlattenedWords
<1> QED BY <1>1, <1>6, <1>7, NothingTyped

\* propertyModel makes a row that a card can be given.
LEMMA ModelGiven ==
  ASSUME NEW name, NEW c, IsConstraint(c), PropertyOK(c)
  PROVE  RowGiven(PropertyModel(name, c))
<1> DEFINE called == TrimWord(name)
           essential == IsTrue(c, "essential")
           one == c.value.text
           many == Join(c.values)
           Text(mode, text) == Row(called, mode, Trim(text), NoText, NoText, essential)
<1>1. FilledName(called)
  BY TrimmedName DEF FilledName
<1>2. CASE c = null
  <2>1. PropertyModel(name, c) = RequestedRow(called)
    BY <1>2 DEF PropertyModel
  <2> QED BY <1>1, <2>1, GivenRequest
<1>3. CASE c # null
  <2>1. c # Other
    BY <1>3 DEF PropertyOK
  <2>2. essential \in BOOLEAN
    BY DEF IsTrue, Own
  <2>3. \/ Own(c, "value") /\ PropertyModel(name, c) = Text("value", one)
        \/ ~Own(c, "value") /\ Own(c, "values") /\ PropertyModel(name, c) = Text("values", many)
        \/ PropertyModel(name, c) =
             Row(called, "range", Trim(NoText), NumberField(c, "min"), NumberField(c, "max"),
                 essential)
        \/ PropertyModel(name, c) = Text("presence", NoText)
    BY <1>3 DEF PropertyModel
  <2>4. /\ IsWords(NoText)
        /\ Own(c, "value") => IsWords(one)
        /\ ~Own(c, "value") /\ Own(c, "values") => IsWords(many)
    <3>1. IsWords(NoText)
      BY NothingTyped
    <3>2. Own(c, "value") => IsWords(one)
      BY <1>3, <2>1 DEF IsConstraint, IsScalar
    <3>3. ASSUME ~Own(c, "value"), Own(c, "values") PROVE IsWords(many)
      <4>1. c.values # Other
        BY <1>3, <3>3 DEF PropertyOK
      <4>2. IsSequence(c.values) /\ \A i \in DOMAIN c.values : IsScalar(c.values[i])
        BY <1>3, <2>1, <3>3, <4>1 DEF IsConstraint
      <4> QED BY <3>1, <4>2, JoinedWords
    <3> QED BY <3>1, <3>2, <3>3
  <2>5. FilledNumber(NoText)
    BY DEF FilledNumber
  <2> HIDE DEF called, essential, one, many
  <2>6. ASSUME NEW mode, NEW text, IsWords(text) PROVE RowGiven(Text(mode, text))
    <3>1. IsWords(Trim(text)) /\ Trim(Trim(text)) = Trim(text)
      BY <2>6, TrimIs
    <3> QED BY <1>1, <2>2, <2>5, <3>1, GivenRow
  <2>7. RowGiven(Row(called, "range", Trim(NoText), NumberField(c, "min"),
                     NumberField(c, "max"), essential))
    <3>1. FilledNumber(NumberField(c, "min")) /\ FilledNumber(NumberField(c, "max"))
      BY NumberReturns
    <3>2. IsWords(Trim(NoText)) /\ Trim(Trim(NoText)) = Trim(NoText)
      BY <2>4, TrimIs
    <3> QED BY <1>1, <2>2, <3>1, <3>2, GivenRow
  <2> HIDE DEF Text
  <2> QED BY <2>3, <2>4, <2>6, <2>7
<1> QED BY <1>2, <1>3

\* The rows of an object are given to a card.
LEMMA ModelsGiven ==
  ASSUME NEW object, NEW names, IsFiniteSet(names),
         \A n \in names : IsConstraint(object[n]) /\ PropertyOK(object[n])
  PROVE  ListGiven(RowModels(object, names))
<1> DEFINE entries == SetToSeq(names)
           rows == RowModels(object, names)
<1>1. IsSequence(rows)
  BY ModelsAreSequences
<1>2. \A i \in DOMAIN entries : entries[i] \in names
  BY EntriesOf
<1>3. rows = [i \in DOMAIN entries |-> PropertyModel(entries[i], object[entries[i]])]
  BY DEF RowModels
<1> HIDE DEF rows, entries
<1>4. ASSUME NEW i \in DOMAIN rows PROVE RowGiven(rows[i])
  <2> DEFINE n == entries[i]
  <2>1. n \in names /\ rows[i] = PropertyModel(n, object[n])
    BY <1>2, <1>3
  <2> HIDE DEF n
  <2> QED BY <2>1, ModelGiven
<1>5. ListGiven(rows)
  BY <1>1, <1>4 DEF ListGiven
<1> QED BY <1>5 DEF rows

\* The time section that is loaded can be held by a card.
LEMMA TimeFilled ==
  ASSUME NEW e, IsFactor(e)
  PROVE  FilledTime(TimeModel(e))
<1> DEFINE metadata == ObjectAt(e, "amr_metadata")
           time == ObjectAt(metadata, "time")
           t == TimeModel(e)
<1>1. /\ t.requested = (\/ Own(metadata, "time")
                        \/ Own(e, "amr_metadata") /\ e.amr_metadata = null)
      /\ t.essential = IsTrue(time, "essential")
      /\ t.max_age = NumberField(time, "max_age")
  BY TimeModelled
<1> HIDE DEF metadata, time, t
<1>2. t.requested \in BOOLEAN
  BY <1>1 DEF Own
<1>3. t.essential \in BOOLEAN
  BY <1>1 DEF Own, IsTrue
<1>4. FilledNumber(t.max_age)
  BY <1>1, NumberReturns
<1> QED BY <1>2, <1>3, <1>4 DEF t, FilledTime

\* factorModel, through addFactor: the card of an expression in JSON.
LEMMA ModelMade ==
  ASSUME NEW e, IsFactor(e), FactorModelOK(e), NEW metadata, NamesKnown(metadata)
  PROVE  CardOK(FactorModel(e, metadata)) /\ Made(FactorModel(e, metadata), metadata)
<1> DEFINE own == ObjectAt(e, "amr_metadata")
           properties == ObjectAt(e, "amr_properties")
           value == e.amr_identifier.value
           identifier == IF value = Null THEN DefaultIdentifier(metadata)
                         ELSE TrimWord(value.string[1])
           ofMetadata == RowModels(own, DOMAIN own \ {"time"})
           ofProperties == RowModels(properties, DOMAIN properties)
           rows == [kind \in Kinds |-> IF kind = "metadata" THEN ofMetadata ELSE ofProperties]
           time == TimeModel(e)
<1>1. /\ IsFiniteSet(DOMAIN own) /\ IsFiniteSet(DOMAIN properties)
      /\ \A n \in DOMAIN own \ {"time"} : IsConstraint(own[n])
      /\ \A n \in DOMAIN properties : IsConstraint(properties[n])
  BY ObjectsTyped
<1>2. /\ \A n \in DOMAIN own \ {"time"} : PropertyOK(own[n])
      /\ \A n \in DOMAIN properties : PropertyOK(properties[n])
  BY DEF FactorModelOK
<1>3. FilledName(identifier)
  BY DefaultIsName, TrimmedName DEF NamesKnown, FilledName
<1>4. FilledTime(time)
  BY TimeFilled
<1>5. FactorModel(e, metadata) = Card(metadata, identifier, time, rows)
  BY DEF FactorModel
<1> HIDE DEF own, properties, value, identifier, time
<1>6. ListGiven(ofMetadata)
  <2> DEFINE names == DOMAIN own \ {"time"}
  <2>1. IsFiniteSet(names)
    BY <1>1, FS_Difference
  <2>2. \A n \in names : IsConstraint(own[n]) /\ PropertyOK(own[n])
    BY <1>1, <1>2
  <2> HIDE DEF names
  <2>3. ListGiven(RowModels(own, names))
    BY <2>1, <2>2, ModelsGiven
  <2> QED BY <2>3 DEF names
<1>7. ListGiven(ofProperties)
  <2> DEFINE names == DOMAIN properties
  <2>1. IsFiniteSet(names)
    BY <1>1
  <2>2. \A n \in names : IsConstraint(properties[n]) /\ PropertyOK(properties[n])
    BY <1>1, <1>2
  <2> HIDE DEF names
  <2>3. ListGiven(RowModels(properties, names))
    BY <2>1, <2>2, ModelsGiven
  <2> QED BY <2>3 DEF names
<1> HIDE DEF ofMetadata, ofProperties
<1>8. \A kind \in Kinds : ListGiven(rows[kind])
  BY <1>6, <1>7
<1> HIDE DEF rows
<1>9. CardOK(Card(metadata, identifier, time, rows)) /\ Made(Card(metadata, identifier, time, rows), metadata)
  BY <1>3, <1>4, <1>8, CardMade
<1> QED BY <1>5, <1>9

-------------------------------------------------------------------------------
(* Nodes that are made *)

\* The cards among the nodes are made for the metadata.
MadeNode(node, metadata) ==
  Typed(node) /\ (node.type = "factor" => CardOK(node) /\ Made(node, metadata))
Fresh(nodes, metadata) == \A path \in DOMAIN nodes : MadeNode(nodes[path], metadata)

\* A group with an operator is such a node.
LEMMA GroupMade ==
  ASSUME NEW operator \in Operators, NEW metadata
  PROVE  /\ MadeNode(GroupNode(operator), metadata)
         /\ GroupNode(operator).type = "group" /\ GroupNode(operator).type # "factor"
BY DEF MadeNode, Typed, GroupNode

\* A card that was made is such a node.
LEMMA CardNode ==
  ASSUME NEW card, NEW metadata, CardOK(card), Made(card, metadata)
  PROVE  MadeNode(card, metadata) /\ card.type = "factor"
BY DEF MadeNode, Typed, CardOK

\* appendNode for one object of an expression.
LEMMA NodeMade ==
  ASSUME NEW object, IsFactor(object), IsGroup(object) \/ FactorModelOK(object),
         NEW metadata, NamesKnown(metadata)
  PROVE  LET node == NodeModel(object, metadata) IN
         /\ MadeNode(node, metadata)
         /\ IsGroup(object) => node.type = "group"
         /\ ~IsGroup(object) => node = FactorModel(object, metadata) /\ node.type = "factor"
<1> DEFINE node == NodeModel(object, metadata)
<1>1. CASE IsGroup(object)
  <2> DEFINE operator == IF IsArray(object, "all_of") THEN "all_of" ELSE "one_of"
  <2>1. node = GroupNode(operator) /\ operator \in Operators
    BY <1>1 DEF NodeModel, Operators
  <2> HIDE DEF node, operator
  <2>2. MadeNode(node, metadata) /\ node.type = "group"
    BY <2>1, GroupMade
  <2> QED BY <1>1, <2>2 DEF node
<1>2. CASE ~IsGroup(object)
  <2>1. node = FactorModel(object, metadata)
    BY <1>2 DEF NodeModel
  <2>2. CardOK(FactorModel(object, metadata)) /\ Made(FactorModel(object, metadata), metadata)
    BY <1>2, ModelMade
  <2> HIDE DEF node
  <2>3. MadeNode(node, metadata) /\ node.type = "factor"
    BY <2>1, <2>2, CardNode
  <2> QED BY <1>2, <2>1, <2>3 DEF node
<1> QED BY <1>1, <1>2

\* The nodes of an expression that can be converted.
Converted(nodes, e, metadata) ==
  LET groups == {path \in DOMAIN e : IsGroup(e[path])} IN
  /\ DOMAIN nodes = DOMAIN e \cup {Append(p, 1) : p \in groups}
  /\ \A p \in DOMAIN e : nodes[p] = NodeModel(e[p], metadata)
  /\ \A p \in DOMAIN nodes \ DOMAIN e : nodes[p] = DefaultCard(metadata)

\* That is what expressionModel and appendNode leave.
LEMMA ConvertedIs ==
  ASSUME NEW e, NEW metadata
  PROVE  Converted(ExpressionModel(e, metadata), e, metadata)
<1> DEFINE nodes == ExpressionModel(e, metadata)
           groups == {path \in DOMAIN e : IsGroup(e[path])}
           more == {Append(p, 1) : p \in groups}
<1>1. nodes = [path \in DOMAIN e \cup more |->
                 IF path \in DOMAIN e THEN NodeModel(e[path], metadata) ELSE DefaultCard(metadata)]
  BY DEF ExpressionModel
<1> HIDE DEF nodes, more
<1>2. DOMAIN nodes = DOMAIN e \cup more
  BY <1>1
<1>3. \A p \in DOMAIN e : nodes[p] = NodeModel(e[p], metadata)
  BY <1>1
<1>4. \A p \in DOMAIN nodes \ DOMAIN e : nodes[p] = DefaultCard(metadata)
  BY <1>1
<1> QED BY <1>2, <1>3, <1>4 DEF Converted, nodes, more

\* appendNode for all of it: the nodes can be put at any free path.
LEMMA ModelFits ==
  ASSUME NEW e, IsExpression(e), ExpressionOK(e), NEW metadata, NamesKnown(metadata)
  PROVE  LET nodes == ExpressionModel(e, metadata) IN
         Fits(<<>>, <<1>>, nodes) /\ Fresh(nodes, metadata)
<1> DEFINE nodes == ExpressionModel(e, metadata)
           groups == {path \in DOMAIN e : IsGroup(e[path])}
           more == {Append(p, 1) : p \in groups}
<1>1. Converted(nodes, e, metadata)
  BY ConvertedIs
<1> HIDE DEF nodes
<1>2. /\ DOMAIN nodes = DOMAIN e \cup more
      /\ \A p \in DOMAIN e : nodes[p] = NodeModel(e[p], metadata)
      /\ \A p \in DOMAIN nodes \ DOMAIN e : nodes[p] = DefaultCard(metadata)
  BY <1>1 DEF Converted
<1>3. DOMAIN e \subseteq Path /\ <<>> \in DOMAIN e
  BY DEF IsExpression
<1>4. ASSUME NEW p \in DOMAIN e
      PROVE  /\ MadeNode(nodes[p], metadata)
             /\ IsGroup(e[p]) => nodes[p].type = "group"
  <2>1. e[p] \notin {null, Other} /\ (IsGroup(e[p]) \/ FactorModelOK(e[p]))
    BY DEF ExpressionOK
  <2>2. IsFactor(e[p])
    BY <2>1 DEF IsExpression
  <2> DEFINE object == e[p]
  <2> HIDE DEF object
  <2>3. MadeNode(NodeModel(object, metadata), metadata)
        /\ (IsGroup(object) => NodeModel(object, metadata).type = "group")
    BY <2>1, <2>2, NodeMade DEF object
  <2> QED BY <1>2, <2>3 DEF object
<1>5. Fresh(nodes, metadata)
  <2> SUFFICES ASSUME NEW p \in DOMAIN nodes PROVE MadeNode(nodes[p], metadata)
    BY DEF Fresh
  <2>1. CASE p \in DOMAIN e
    BY <1>4, <2>1
  <2>2. CASE p \notin DOMAIN e
    BY <1>2, <2>2, DefaultMade, CardNode
  <2> QED BY <2>1, <2>2
<1>6. \A q \in more : \E p \in DOMAIN e : IsGroup(e[p]) /\ q = Append(p, 1)
  OBVIOUS
<1> HIDE DEF more
<1>7. \A p \in DOMAIN e : p \in Path
  BY <1>3
<1>8. DOMAIN nodes \subseteq Path
  <2>1. ASSUME NEW q \in more PROVE q \in Path
    <3>1. PICK p \in DOMAIN e : q = Append(p, 1)
      BY <1>6
    <3> QED BY <1>7, <3>1, ChildIs
  <2> QED BY <1>2, <1>3, <2>1
<1>9. ASSUME NEW p \in DOMAIN nodes, p # <<>>
      PROVE  /\ Front(p) \in DOMAIN nodes /\ nodes[Front(p)].type = "group"
             /\ Placed(nodes, p)
  <2>1. CASE p \in DOMAIN e
    <3>1. Front(p) \in DOMAIN e /\ IsGroup(e[Front(p)]) /\ Placed(e, p)
      BY <1>9, <2>1 DEF IsExpression
    <3>2. nodes[Front(p)].type = "group"
      BY <1>4, <3>1
    <3>3. Placed(nodes, p)
      BY <1>2, <3>1 DEF Placed
    <3> QED BY <1>2, <3>1, <3>2, <3>3
  <2>2. CASE p \in more
    <3>1. PICK q \in DOMAIN e : IsGroup(e[q]) /\ p = Append(q, 1)
      BY <1>6, <2>2
    <3>2. q \in Path
      BY <1>7
    <3>3. Front(p) = q /\ Last(p) = 1
      BY <3>1, <3>2, ChildIs
    <3>4. nodes[q].type = "group"
      BY <1>4, <3>1
    <3>5. Placed(nodes, p)
      <4> SUFFICES ASSUME NEW i \in 1 .. Last(p) PROVE Append(Front(p), i) \in DOMAIN nodes
        BY DEF Placed
      <4>1. i = 1
        BY <3>3
      <4> QED BY <3>1, <3>3, <4>1
    <3> QED BY <1>2, <3>3, <3>4, <3>5
  <2> QED BY <1>2, <2>1, <2>2
<1>10. \A p \in DOMAIN nodes : Typed(nodes[p])
  BY <1>5 DEF Fresh, MadeNode
<1>11. Fits(<<>>, <<1>>, nodes)
  <2>1. <<1>> \in Path /\ <<1>> # <<>> /\ Len(<<1>>) = 1 /\ Last(<<1>>) = 1
    BY TopIs
  <2>2. DOMAIN <<>> = {}
    BY NoNodes
  <2>3. \A p \in DOMAIN nodes : <<1>> \o p \notin DOMAIN <<>>
    BY <2>2
  <2>4. \A i \in 1 .. Last(<<1>>) : ~(i < Last(<<1>>))
    BY <2>1
  <2>5. ~(Len(<<1>>) > 1)
    BY <2>1
  <2> DEFINE top == <<1>>
             none == <<>>
  <2> HIDE DEF top
  <2>6. top \in Path /\ top # <<>>
    BY <2>1 DEF top
  <2>7. /\ \A p \in DOMAIN nodes : top \o p \notin DOMAIN <<>>
        /\ \A i \in 1 .. Last(top) : ~(i < Last(top))
        /\ ~(Len(top) > 1)
    BY <2>3, <2>4, <2>5 DEF top
  <2>8. Fits(<<>>, top, nodes)
    BY <1>8, <1>9, <1>10, <2>6, <2>7 DEF Fits
  <2> QED BY <2>8 DEF top
<1> QED BY <1>5, <1>11 DEF nodes

\* Nodes made for the metadata, put among such nodes.
LEMMA FreshGraft ==
  ASSUME NEW tree, NEW at, NEW nodes, Fits(tree, at, nodes), NEW metadata,
         Fresh(tree, metadata), Fresh(nodes, metadata)
  PROVE  Fresh(Graft(tree, at, nodes), metadata)
<1> DEFINE new == Graft(tree, at, nodes)
<1>1. Grafted(new, tree, at, nodes)
  BY GraftIs
<1> HIDE DEF new
<1> SUFFICES ASSUME NEW q \in DOMAIN new PROVE MadeNode(new[q], metadata)
  BY DEF Fresh, new
<1>2. CASE q \in DOMAIN tree
  BY <1>1, <1>2 DEF Grafted, Fresh
<1>3. CASE q \notin DOMAIN tree
  <2>1. PICK p \in DOMAIN nodes : q = at \o p
    BY <1>1, <1>3 DEF Grafted
  <2> QED BY <1>1, <2>1 DEF Grafted, Fresh
<1> QED BY <1>2, <1>3

\* A node, or a group with one node.
NewTree(nodes) ==
  /\ DOMAIN nodes \subseteq {<<>>, <<1>>} /\ <<>> \in DOMAIN nodes
  /\ <<1>> \in DOMAIN nodes => nodes[<<>>].type = "group"

\* A node on its own.
LEMMA LeafIs ==
  ASSUME NEW node
  PROVE  DOMAIN Leaf(node) = {<<>>} /\ Leaf(node)[<<>>] = node
BY DEF Leaf

\* A leaf fits below a group on its own.
LEMMA LeafFits ==
  ASSUME NEW group, group.type = "group", NEW node, Typed(node)
  PROVE  Fits(Leaf(group), <<1>>, Leaf(node)) /\ <<1>> \o <<>> = <<1>>
<1> DEFINE top == <<1>>
           leaf == Leaf(node)
           tree == Leaf(group)
<1>1. top \in Path /\ top # <<>> /\ Len(top) = 1 /\ Last(top) = 1 /\ <<>> \in Path
  BY TopIs
<1>2. DOMAIN leaf = {<<>>} /\ leaf[<<>>] = node /\ DOMAIN tree = {<<>>}
  BY LeafIs
<1>3. top \o <<>> = top
  <2> HIDE DEF top
  <2>1. top \in Seq(Nat \ {0})
    BY <1>1 DEF Path
  <2> QED BY <2>1
<1> HIDE DEF leaf, tree, top
<1>4. Fits(tree, top, leaf)
  BY <1>1, <1>2, <1>3 DEF Fits
<1> QED BY <1>3, <1>4 DEF top, leaf, tree

\* addFactor and addGroup make such nodes.
LEMMA NewIs ==
  ASSUME NEW metadata, NamesKnown(metadata), NEW nodes,
         nodes \in {Leaf(DefaultCard(metadata))} \cup {NewGroup(metadata, op) : op \in Operators}
  PROVE  NewTree(nodes) /\ Fresh(nodes, metadata)
<1> DEFINE card == DefaultCard(metadata)
<1>1. MadeNode(card, metadata) /\ card.type = "factor"
  BY DefaultMade, CardNode
<1>2. CASE nodes = Leaf(card)
  BY <1>1, <1>2, LeafIs, TopIs DEF NewTree, Fresh
<1>3. ASSUME NEW op \in Operators, nodes = NewGroup(metadata, op)
      PROVE  NewTree(nodes) /\ Fresh(nodes, metadata)
  <2> DEFINE group == GroupNode(op)
             tree == Leaf(group)
             leaf == Leaf(card)
             top == <<1>>
  <2>1. MadeNode(group, metadata) /\ group.type = "group"
    BY GroupMade
  <2>2. nodes = Graft(tree, top, leaf)
    BY <1>3 DEF NewGroup
  <2>3. Fits(tree, top, leaf) /\ top \o <<>> = top
    BY <1>1, <2>1, LeafFits DEF MadeNode
  <2>4. DOMAIN leaf = {<<>>} /\ leaf[<<>>] = card /\ DOMAIN tree = {<<>>} /\ tree[<<>>] = group
    BY LeafIs
  <2> HIDE DEF tree, leaf, group, card
  <2>5. Grafted(nodes, tree, top, leaf)
    BY <2>2, <2>3, GraftIs
  <2>6. Fresh(tree, metadata) /\ Fresh(leaf, metadata)
    BY <1>1, <2>1, <2>4 DEF Fresh
  <2>7. Fresh(nodes, metadata)
    BY <2>2, <2>3, <2>6, FreshGraft
  <2>8. DOMAIN nodes = {<<>>, top} /\ nodes[<<>>] = group
    BY <2>3, <2>4, <2>5 DEF Grafted
  <2> QED BY <2>1, <2>7, <2>8 DEF NewTree
<1> QED BY <1>2, <1>3

\* They fit at the end of a list, at the top or in a group.
LEMMA NewFits ==
  ASSUME NEW tree, IsForest(tree), NEW parent, parent \in {<<>>} \cup DOMAIN tree,
         parent \in DOMAIN tree => tree[parent].type = "group",
         NEW n \in Nat, n > 0, \A i \in 1 .. n : Append(parent, i) \in DOMAIN tree <=> i < n,
         NEW nodes, NewTree(nodes), NEW metadata, Fresh(nodes, metadata)
  PROVE  Fits(tree, Append(parent, n), nodes)
<1> DEFINE at == Append(parent, n)
           top == <<1>>
<1>1. parent \in Path
  BY TopIs DEF IsForest
<1>2. /\ at \in Path /\ at # <<>> /\ Len(at) = Len(parent) + 1
      /\ Front(at) = parent /\ Last(at) = n
  BY <1>1, ChildIs
<1>3. at \notin DOMAIN tree
  OBVIOUS
<1>4. Len(at) > 1 => parent \in DOMAIN tree
  <2> SUFFICES ASSUME parent = <<>> PROVE ~(Len(at) > 1)
    OBVIOUS
  <2>1. Len(parent) = 0
    BY <1>1, PathIs
  <2> QED BY <1>2, <2>1
<1>5. \A i \in 1 .. n : i < n => Append(parent, i) \in DOMAIN tree
  OBVIOUS
<1> HIDE DEF at
<1>6. top \in Path /\ top # <<>> /\ Front(top) = <<>> /\ Last(top) = 1 /\ <<>> \in Path
      /\ Append(<<>>, 1) = top
  BY TopIs
<1>7. \A p \in Path : at \o p \notin DOMAIN tree
  BY <1>2, <1>3, Upwards
<1>8. Placed(nodes, top) \/ top \notin DOMAIN nodes
  BY <1>6 DEF Placed
<1> HIDE DEF top
<1>9. /\ DOMAIN nodes \subseteq {<<>>, top} /\ <<>> \in DOMAIN nodes
      /\ top \in DOMAIN nodes => nodes[<<>>].type = "group"
  BY DEF NewTree, top
<1>10. \A p \in DOMAIN nodes : Typed(nodes[p])
  BY DEF Fresh, MadeNode
<1>11. /\ Len(at) > 1 => Front(at) \in DOMAIN tree /\ tree[Front(at)].type = "group"
       /\ \A i \in 1 .. Last(at) : i < Last(at) => Append(Front(at), i) \in DOMAIN tree
  BY <1>2, <1>4, <1>5
<1>12. DOMAIN nodes \subseteq Path /\ \A p \in DOMAIN nodes : at \o p \notin DOMAIN tree
  BY <1>6, <1>7, <1>9
<1>13. \A p \in DOMAIN nodes \ {<<>>} :
         Front(p) \in DOMAIN nodes /\ nodes[Front(p)].type = "group" /\ Placed(nodes, p)
  BY <1>6, <1>8, <1>9
<1>14. Fits(tree, at, nodes)
  BY <1>2, <1>10, <1>11, <1>12, <1>13 DEF Fits
<1> QED BY <1>14 DEF at

-------------------------------------------------------------------------------
(* Presets *)

\* A card that nodeExpression writes.
WrittenCard(card, metadata) ==
  MadeNode(card, metadata) /\ card.type = "factor" /\ FactorOK(card)

\* A row that a preset gives, and its cards.
PresetRow(row, kind) ==
  /\ RowGiven(row) /\ row.name # "" /\ ~(kind = "metadata" /\ row.name = "time")
  /\ ConstraintOK(row)

\* A card and what it was made from.
Kept(card, identifier, time, rows) ==
  /\ card.identifier = identifier /\ card.time = time
  /\ \A kind \in Kinds :
       /\ DOMAIN card.rows[kind] = DOMAIN rows[kind]
       /\ \A i \in DOMAIN rows[kind] : SameFields(card.rows[kind][i], rows[kind][i])

\* addFactor keeps what a card is made from.
LEMMA CardKept ==
  ASSUME NEW metadata, NEW identifier, NEW time, NEW rows,
         \A kind \in Kinds : /\ IsSequence(rows[kind])
                             /\ \A i \in DOMAIN rows[kind] : IsRow(rows[kind][i])
  PROVE  Kept(Card(metadata, identifier, time, rows), identifier, time, rows)
BY CardKeeps DEF Kept

\* The time of a card of a preset.
TimeGiven(time) ==
  FilledTime(time) /\ (time.max_age # NoText => Numbers[time.max_age] \in Ages)

\* A card of a preset can be written.
LEMMA PresetCard ==
  ASSUME NEW metadata, NEW identifier, identifier # "", FilledName(identifier),
         NEW time, TimeGiven(time),
         NEW rows,
         \A kind \in Kinds : /\ IsSequence(rows[kind])
                             /\ \A i \in DOMAIN rows[kind] : PresetRow(rows[kind][i], kind)
  PROVE  WrittenCard(Card(metadata, identifier, time, rows), metadata)
<1> DEFINE card == Card(metadata, identifier, time, rows)
<1>1. \A kind \in Kinds : ListGiven(rows[kind])
  BY DEF ListGiven, PresetRow
<1>2. CardOK(card) /\ Made(card, metadata)
  BY <1>1, CardMade DEF TimeGiven
<1>0. card = Card(metadata, identifier, time, rows)
  OBVIOUS
<1> HIDE DEF card
<1>3. /\ card.identifier = identifier /\ card.time = time
      /\ \A kind \in Kinds :
           /\ DOMAIN card.rows[kind] = DOMAIN rows[kind]
           /\ \A i \in DOMAIN rows[kind] : SameFields(card.rows[kind][i], rows[kind][i])
  <2>1. \A kind \in Kinds : /\ IsSequence(rows[kind])
                            /\ \A i \in DOMAIN rows[kind] : IsRow(rows[kind][i])
    BY DEF PresetRow, RowGiven
  <2>2. Kept(card, identifier, time, rows)
    BY <1>0, <2>1, CardKept
  <2> QED BY <2>2 DEF Kept
<1>4. ASSUME NEW kind \in Kinds, NEW i \in DOMAIN card.rows[kind]
      PROVE  LET row == card.rows[kind][i] IN
             /\ row.name # "" /\ ~(kind = "metadata" /\ row.name = "time")
             /\ ConstraintOK(row)
  <2> DEFINE row == card.rows[kind][i]
             given == rows[kind][i]
  <2>1. SameFields(row, given) /\ PresetRow(given, kind)
    BY <1>3
  <2> HIDE DEF row, given
  <2>2. row.name # "" /\ ~(kind = "metadata" /\ row.name = "time")
    BY <2>1 DEF SameFields, PresetRow
  <2>3. ConstraintOK(row)
    BY <2>1, SameConstraint DEF PresetRow
  <2> QED BY <2>2, <2>3 DEF row
<1>5. FactorOK(card)
  BY <1>3, <1>4 DEF FactorOK, TimeGiven
<1>6. WrittenCard(card, metadata)
  BY <1>2, <1>5, CardNode DEF WrittenCard
<1> QED BY <1>6 DEF card

\* Nodes that can be written, made for the metadata.
WrittenNodes(nodes, metadata) ==
  IsForest(nodes) /\ Fresh(nodes, metadata) /\ \A path \in DOMAIN nodes : NodeOK(nodes, path)

\* A list of cards.
LEMMA FlatWritten ==
  ASSUME NEW nodes, NEW n \in Nat, DOMAIN nodes = 1 .. n, NEW metadata,
         \A i \in 1 .. n : WrittenCard(nodes[i], metadata)
  PROVE  WrittenNodes(Flat(nodes), metadata)
<1> DEFINE flat == Flat(nodes)
<1>1. \A i \in 1 .. n : Typed(nodes[i])
  BY DEF WrittenCard, MadeNode
<1>2. IsForest(flat) /\ DOMAIN flat = {<<i>> : i \in 1 .. n} /\ \A i \in 1 .. n : flat[<<i>>] = nodes[i]
  BY <1>1, FlatForest
<1> HIDE DEF flat
<1>3. ASSUME NEW p \in DOMAIN flat PROVE WrittenCard(flat[p], metadata)
  BY <1>2
<1>4. \A p \in DOMAIN flat : MadeNode(flat[p], metadata) /\ NodeOK(flat, p)
  BY <1>3 DEF WrittenCard, NodeOK
<1> QED BY <1>2, <1>4 DEF WrittenNodes, Fresh, flat

\* The time of a preset.
LEMMA PresetTime ==
  ASSUME NEW essential \in BOOLEAN, NEW max_age, max_age = NoText \/ max_age = <<"60">>
  PROVE  /\ TimeGiven(Time(essential, max_age))
         /\ TimeGiven([Time(essential, max_age) EXCEPT !.requested = FALSE])
<1>1. FilledNumber(max_age) /\ (max_age # NoText => Numbers[max_age] \in Ages)
  BY WorkbenchAssumption DEF FilledNumber
<1> DEFINE time == Time(essential, max_age)
           other == [time EXCEPT !.requested = FALSE]
<1>2. /\ time.requested = TRUE /\ time.essential = essential /\ time.max_age = max_age
      /\ other.requested = FALSE /\ other.essential = essential /\ other.max_age = max_age
  BY DEF Time
<1> HIDE DEF time, other
<1>3. TimeGiven(time) /\ TimeGiven(other)
  BY <1>1, <1>2 DEF TimeGiven, FilledTime
<1> QED BY <1>3 DEF time, other

\* A card without rows, and one with a row.
LEMMA PlainPreset ==
  ASSUME NEW metadata, NEW id, id # "", FilledName(id), NEW time, TimeGiven(time)
  PROVE  WrittenCard(Card(metadata, id, time, NoRows), metadata)
<1>1. ASSUME NEW kind \in Kinds
      PROVE  IsSequence(NoRows[kind]) /\ \A i \in DOMAIN NoRows[kind] : PresetRow(NoRows[kind][i], kind)
  <2>1. NoRows[kind] = <<>>
    BY DEF NoRows
  <2> QED BY <2>1, NoNodes, EmptyList
<1> QED BY <1>1, PresetCard

\* It has one place.
LEMMA OnlyOne == \A i \in 1 .. 1 : i = 1
OBVIOUS

\* A list with one element.
LEMMA Singleton ==
  ASSUME NEW x
  PROVE  IsSequence(<<x>>) /\ DOMAIN <<x>> = 1 .. 1 /\ <<x>>[1] = x
<1>1. <<>> \in Seq({x}) /\ Len(<<>>) = 0
  BY EmptySeq
<1>2. <<x>> = Append(<<>>, x)
  OBVIOUS
<1> DEFINE S == {x}
           empty == <<>>
           list == Append(empty, x)
<1>3. x \in S /\ empty \in Seq(S) /\ Len(empty) = 0
  BY <1>1
<1> HIDE DEF S, empty
<1>4. list \in Seq(S) /\ Len(list) = 1 /\ list[1] = x /\ DOMAIN list = 1 .. Len(list)
  BY <1>3
<1> HIDE DEF list
<1>5. IsSequence(list) /\ DOMAIN list = 1 .. 1 /\ list[1] = x
  BY <1>4, SeqIs
<1> QED BY <1>2, <1>5 DEF list, empty

\* ... and one with a row.
LEMMA RowPreset ==
  ASSUME NEW metadata, NEW id, id # "", FilledName(id),
         NEW row, PresetRow(row, "properties"), NEW time, TimeGiven(time)
  PROVE  WrittenCard(Card(metadata, id, time, [NoRows EXCEPT !["properties"] = <<row>>]), metadata)
<1> DEFINE rows == [NoRows EXCEPT !["properties"] = <<row>>]
           list == <<row>>
<1>1. rows["properties"] = list /\ rows["metadata"] = <<>>
  BY DEF NoRows, Kinds
<1>2. IsSequence(list) /\ DOMAIN list = 1 .. 1 /\ list[1] = row
  BY Singleton
<1> HIDE DEF rows, list
<1>3. ASSUME NEW kind \in Kinds
      PROVE  IsSequence(rows[kind]) /\ \A i \in DOMAIN rows[kind] : PresetRow(rows[kind][i], kind)
  <2>1. CASE kind = "properties"
    <3>1. rows[kind] = list
      BY <1>1, <2>1
    <3>2. ASSUME NEW i \in DOMAIN list PROVE list[i] = row
      <4>1. i \in 1 .. 1
        BY <1>2
      <4>2. i = 1
        BY <4>1, OnlyOne
      <4> QED BY <1>2, <4>2
    <3> QED BY <1>2, <2>1, <3>1, <3>2
  <2>2. CASE kind = "metadata"
    BY <1>1, <2>2, NoNodes, EmptyList
  <2> QED BY <2>1, <2>2 DEF Kinds
<1>4. WrittenCard(Card(metadata, id, time, rows), metadata)
  BY <1>3, PresetCard
<1> QED BY <1>4 DEF rows, list

\* A list with one or two cards.
LEMMA OneCard ==
  ASSUME NEW a, NEW metadata, WrittenCard(a, metadata)
  PROVE  WrittenNodes(Flat(<<a>>), metadata)
<1> DEFINE nodes == <<a>>
<1>1. DOMAIN nodes = 1 .. 1 /\ nodes[1] = a
  BY Singleton
<1> HIDE DEF nodes
<1>2. \A i \in 1 .. 1 : WrittenCard(nodes[i], metadata)
  BY <1>1, OnlyOne
<1>3. WrittenNodes(Flat(nodes), metadata)
  BY <1>1, <1>2, FlatWritten
<1> QED BY <1>3 DEF nodes

\* A list with two elements.
LEMMA TwoIs ==
  ASSUME NEW a, NEW b
  PROVE  DOMAIN <<a, b>> = 1 .. 2 /\ <<a, b>>[1] = a /\ <<a, b>>[2] = b
OBVIOUS

\* It has two places.
LEMMA OnlyTwo == \A i \in 1 .. 2 : i = 1 \/ i = 2
OBVIOUS

\* Two cards in a list can be written.
LEMMA TwoCards ==
  ASSUME NEW a, NEW b, NEW metadata, WrittenCard(a, metadata), WrittenCard(b, metadata)
  PROVE  WrittenNodes(Flat(<<a, b>>), metadata)
<1> DEFINE nodes == <<a, b>>
<1>1. DOMAIN nodes = 1 .. 2 /\ nodes[1] = a /\ nodes[2] = b
  BY TwoIs
<1> HIDE DEF nodes
<1>2. \A i \in 1 .. 2 : WrittenCard(nodes[i], metadata)
  BY <1>1, OnlyTwo
<1>3. WrittenNodes(Flat(nodes), metadata)
  BY <1>1, <1>2, FlatWritten
<1> QED BY <1>3 DEF nodes

\* A list without cards.
LEMMA NoCards ==
  ASSUME NEW metadata
  PROVE  WrittenNodes(Flat(<<>>), metadata)
<1>1. DOMAIN <<>> = 1 .. 0
  OBVIOUS
<1>2. \A i \in 1 .. 0 : FALSE
  OBVIOUS
<1> DEFINE nodes == <<>>
           n == 0
<1>3. n \in Nat /\ DOMAIN nodes = 1 .. n /\ \A i \in 1 .. n : WrittenCard(nodes[i], metadata)
  BY <1>1, <1>2
<1> HIDE DEF nodes, n
<1>4. WrittenNodes(Flat(nodes), metadata)
  BY <1>3, FlatWritten
<1> QED BY <1>4 DEF nodes

\* A group with cards below it, and a card beside it.
LEMMA NestedCards ==
  ASSUME NEW op \in Operators, NEW metadata, NEW beside, WrittenCard(beside, metadata),
         NEW a, NEW b, WrittenCard(a, metadata), WrittenCard(b, metadata)
  PROVE  WrittenNodes(Graft(Flat(<<GroupNode(op), beside>>), <<1>>, Flat(<<a, b>>)), metadata)
<1> DEFINE group == GroupNode(op)
           list == <<group, beside>>
           tree == Flat(list)
           below == <<a, b>>
           nodes == Flat(below)
           at == <<1>>
           new == Graft(tree, at, nodes)
<1>1. MadeNode(group, metadata) /\ group.type = "group" /\ group.type # "factor"
  BY GroupMade
<1>2. DOMAIN list = 1 .. 2 /\ list[1] = group /\ list[2] = beside
      /\ DOMAIN below = 1 .. 2 /\ below[1] = a /\ below[2] = b
  BY TwoIs
<1>3. /\ at \in Path /\ at # <<>> /\ Len(at) = 1 /\ Last(at) = 1 /\ at[1] = 1
      /\ at = Append(<<>>, 1) /\ <<>> \in Path
  BY TopIs
<1>4. <<1>> = at
  OBVIOUS
<1> HIDE DEF group, list, below, at
<1>5. \A i \in 1 .. 2 : MadeNode(list[i], metadata) /\ Typed(list[i]) /\ Typed(below[i])
                        /\ WrittenCard(below[i], metadata)
  BY <1>1, <1>2, OnlyTwo DEF WrittenCard, MadeNode
<1>6. /\ IsForest(tree) /\ DOMAIN tree = {<<i>> : i \in 1 .. 2}
      /\ \A i \in 1 .. 2 : tree[<<i>>] = list[i]
  <2>1. \A i \in 1 .. 2 : Typed(list[i])
    BY <1>5
  <2> QED BY <1>2, <2>1, FlatForest
<1>7. /\ IsForest(nodes) /\ DOMAIN nodes = {<<i>> : i \in 1 .. 2}
      /\ \A i \in 1 .. 2 : nodes[<<i>>] = below[i]
  <2>1. \A i \in 1 .. 2 : Typed(below[i])
    BY <1>5
  <2> QED BY <1>2, <2>1, FlatForest
<1>8. WrittenNodes(nodes, metadata)
  <2>1. \A i \in 1 .. 2 : WrittenCard(below[i], metadata)
    BY <1>5
  <2> QED BY <1>2, <2>1, FlatWritten
<1> HIDE DEF tree, nodes
<1>9. Fresh(tree, metadata) /\ Fresh(nodes, metadata)
  BY <1>5, <1>6, <1>8 DEF Fresh, WrittenNodes
<1>10. at \in DOMAIN tree /\ tree[at] = group
  BY <1>2, <1>4, <1>6
<1>11. \A p \in DOMAIN nodes : p \in Path /\ p # <<>> /\ Len(p) = 1 /\ Front(p) = <<>>
  BY <1>7, TopIs
<1>12. \A p \in DOMAIN nodes : at \o p \notin DOMAIN tree
  <2> SUFFICES ASSUME NEW p \in DOMAIN nodes PROVE at \o p \notin DOMAIN tree
    OBVIOUS
  <2> DEFINE q == at \o p
  <2>1. Len(q) = Len(at) + Len(p)
    BY <1>3, <1>11, BelowIs
  <2> HIDE DEF q
  <2>2. Len(at) = 1 /\ Len(p) = 1
    BY <1>3, <1>11
  <2>3. Len(q) # 1
    BY <2>1, <2>2
  <2>4. \A path \in DOMAIN tree : Len(path) = 1
    BY <1>6, TopIs
  <2>5. q \notin DOMAIN tree
    BY <2>3, <2>4
  <2> QED BY <2>5 DEF q
<1>13. \A p \in DOMAIN nodes : Typed(nodes[p]) /\ Placed(nodes, p)
  BY <1>7, <1>9 DEF Fresh, MadeNode, IsForest
<1>14. Fits(tree, at, nodes)
  BY <1>1, <1>3, <1>10, <1>11, <1>12, <1>13 DEF Fits
<1>15. Grafted(new, tree, at, nodes)
  BY <1>14, GraftIs
<1>16. IsForest(new) /\ Fresh(new, metadata)
  BY <1>6, <1>9, <1>14, GraftForest, FreshGraft
<1> HIDE DEF new
<1>17. ASSUME NEW p \in DOMAIN new PROVE NodeOK(new, p)
  <2>1. CASE p \in DOMAIN tree
    <3>1. PICK i \in 1 .. 2 : p = <<i>>
      BY <1>6, <2>1
    <3>2. CASE i = 2
      <4>1. new[p] = beside
        BY <1>2, <1>6, <1>15, <2>1, <3>1, <3>2 DEF Grafted
      <4> QED BY <4>1 DEF NodeOK, WrittenCard
    <3>3. CASE i = 1
      <4>1. p = at
        BY <1>4, <3>1, <3>3
      <4>2. new[at] = group
        BY <1>10, <1>15 DEF Grafted
      <4>3. at \o at \in DOMAIN new
        <5>1. at \in DOMAIN nodes
          BY <1>4, <1>7
        <5> QED BY <1>15, <5>1 DEF Grafted
      <4>4. at \o Append(<<>>, 1) = Append(at \o <<>>, 1)
        BY <1>3, BelowChild
      <4>5. at \o <<>> = at
        BY <1>3 DEF Path
      <4>6. HasChildren(new, at)
        BY <1>3, <4>3, <4>4, <4>5 DEF HasChildren
      <4> QED BY <1>1, <4>1, <4>2, <4>6 DEF NodeOK
    <3> QED BY <3>2, <3>3, OnlyTwo
  <2>2. CASE p \notin DOMAIN tree
    <3>1. PICK q \in DOMAIN nodes : p = at \o q
      BY <1>15, <2>2 DEF Grafted
    <3>2. new[p] = nodes[q]
      BY <1>15, <3>1 DEF Grafted
    <3>3. WrittenCard(nodes[q], metadata)
      BY <1>5, <1>7
    <3> QED BY <3>2, <3>3 DEF NodeOK, WrittenCard
  <2> QED BY <2>1, <2>2
<1>18. WrittenNodes(new, metadata)
  BY <1>16, <1>17 DEF WrittenNodes
<1> QED BY <1>18 DEF new, tree, nodes, list, below, group, at

\* Rows of presets.
LEMMA PresetRows ==
  /\ PresetRow(RequestedRow("pwd_derivation_algorithm"), "properties")
  /\ PresetRow(Row("email_verification_method", "value", <<"code">>, NoText, NoText, TRUE), "properties")
<1>1. PresetRow(RequestedRow("pwd_derivation_algorithm"), "properties")
  <2> DEFINE row == RequestedRow("pwd_derivation_algorithm")
  <2>1. FilledName("pwd_derivation_algorithm")
    BY WorkbenchAssumption DEF PresetWords
  <2>2. row.mode = "requested" /\ row.name = "pwd_derivation_algorithm"
    BY DEF RequestedRow, Row
  <2>3. RowGiven(row)
    BY <2>1, GivenRequest
  <2> HIDE DEF row
  <2>4. ConstraintOK(row)
    BY <2>2 DEF ConstraintOK
  <2>5. PresetRow(row, "properties")
    BY <2>2, <2>3, <2>4 DEF PresetRow
  <2> QED BY <2>5 DEF row
<1>2. PresetRow(Row("email_verification_method", "value", <<"code">>, NoText, NoText, TRUE), "properties")
  <2> DEFINE text == <<"code">>
             row == Row("email_verification_method", "value", text, NoText, NoText, TRUE)
  <2>1. IsWords(text) /\ Trim(text) = text /\ text # NoText
    <3>1. IsWords(text) /\ Trim(text) = <<TrimWord("code")>>
      BY OneWord
    <3>2. TrimWord("code") = "code"
      BY WorkbenchAssumption DEF PresetWords, FilledName, TrimWord
    <3>3. <<"code">> # <<"">>
      OBVIOUS
    <3> QED BY <3>1, <3>2, <3>3 DEF NoText
  <2> HIDE DEF text
  <2>2. FilledName("email_verification_method") /\ FilledNumber(NoText)
    BY WorkbenchAssumption DEF PresetWords, FilledNumber
  <2>3. row.value = text /\ row.mode = "value" /\ row.name = "email_verification_method"
    BY DEF Row
  <2>4. RowGiven(row)
    BY <2>1, <2>2, GivenRow
  <2> HIDE DEF row
  <2>5. ConstraintOK(row)
    BY <2>1, <2>3 DEF ConstraintOK
  <2>6. PresetRow(row, "properties")
    BY <2>3, <2>4, <2>5 DEF PresetRow
  <2> QED BY <2>6 DEF row, text
<1> QED BY <1>1, <1>2

\* Every preset is nodes that can be written, made for the page's metadata.
LEMMA PresetsWritten ==
  ASSUME NEW name \in PresetNames, NEW metadata
  PROVE  WrittenNodes(PresetNodes(name, metadata), metadata)
<1> DEFINE factor(id) == Card(metadata, id, Time(TRUE, NoText), NoRows)
           with(id, row) == Card(metadata, id, Time(TRUE, NoText),
                                 [NoRows EXCEPT !["properties"] = <<row>>])
           good(card) == WrittenCard(card, metadata)
<1>1. FilledName("pwd") /\ FilledName("otp") /\ FilledName("pop")
      /\ FilledName("email") /\ FilledName("face")
  BY ScalarsAssumption, WorkbenchAssumption DEF PresetWords, FilledName, Own
<1>2. TimeGiven(Time(TRUE, NoText)) /\ TimeGiven(Time(TRUE, <<"60">>))
  BY PresetTime
<1>3. good(factor("pwd")) /\ good(factor("otp")) /\ good(factor("pop"))
  BY <1>1, <1>2, PlainPreset
<1>4. good(with("pwd", RequestedRow("pwd_derivation_algorithm")))
  BY <1>1, <1>2, PresetRows, RowPreset
<1>5. good(with("email", Row("email_verification_method", "value", <<"code">>, NoText, NoText, TRUE)))
  BY <1>1, <1>2, PresetRows, RowPreset
<1>6. good(Card(metadata, "pwd", Time(TRUE, <<"60">>), NoRows))
  BY <1>1, <1>2, PlainPreset
<1>7. good(Card(metadata, "face", [Time(FALSE, NoText) EXCEPT !.requested = FALSE], NoRows))
  <2> DEFINE time == [Time(FALSE, NoText) EXCEPT !.requested = FALSE]
  <2>1. TimeGiven(time)
    BY PresetTime
  <2> HIDE DEF time
  <2>2. good(Card(metadata, "face", time, NoRows))
    BY <1>1, <2>1, PlainPreset
  <2> QED BY <2>2 DEF time
<1> HIDE DEF factor, with, good
<1>8. CASE name = "informational"
  <2>1. PresetNodes(name, metadata) = Flat(<<>>)
    BY <1>8 DEF PresetNodes
  <2> QED BY <2>1, NoCards
<1>9. CASE name = "essential-password"
  <2> DEFINE card == with("pwd", RequestedRow("pwd_derivation_algorithm"))
  <2>1. PresetNodes(name, metadata) = Flat(<<card>>)
    BY <1>9 DEF PresetNodes, with
  <2> HIDE DEF card
  <2> QED BY <1>4, <2>1, OneCard DEF good, card
<1>10. CASE name = "fresh-password"
  <2> DEFINE card == Card(metadata, "pwd", Time(TRUE, <<"60">>), NoRows)
  <2>1. PresetNodes(name, metadata) = Flat(<<card>>)
    BY <1>10 DEF PresetNodes
  <2> HIDE DEF card
  <2> QED BY <1>6, <2>1, OneCard DEF good, card
<1>11. CASE name = "password-or-otp"
  <2> DEFINE a == factor("pwd")
             b == factor("otp")
  <2>1. PresetNodes(name, metadata) = Flat(<<a, b>>)
    BY <1>11 DEF PresetNodes, factor
  <2> HIDE DEF a, b
  <2> QED BY <1>3, <2>1, TwoCards DEF good, a, b
<1>12. CASE name = "nested-methods"
  <2> DEFINE a == factor("pwd")
             b == factor("otp")
             beside == factor("pop")
  <2>1. PresetNodes(name, metadata) = Graft(Flat(<<GroupNode("all_of"), beside>>), <<1>>, Flat(<<a, b>>))
    BY <1>12 DEF PresetNodes, factor
  <2>2. "all_of" \in Operators
    BY DEF Operators
  <2>3. WrittenCard(a, metadata) /\ WrittenCard(b, metadata) /\ WrittenCard(beside, metadata)
    BY <1>3 DEF good
  <2> HIDE DEF a, b, beside
  <2>4. WrittenNodes(Graft(Flat(<<GroupNode("all_of"), beside>>), <<1>>, Flat(<<a, b>>)), metadata)
    BY <2>2, <2>3, NestedCards
  <2> QED BY <2>1, <2>4
<1>13. CASE name = "email-property"
  <2> DEFINE card == with("email", Row("email_verification_method", "value", <<"code">>,
                                       NoText, NoText, TRUE))
  <2>1. PresetNodes(name, metadata) = Flat(<<card>>)
    BY <1>13 DEF PresetNodes, with
  <2> HIDE DEF card
  <2> QED BY <1>5, <2>1, OneCard DEF good, card
<1>14. CASE name = "unsupported"
  <2> DEFINE card == Card(metadata, "face", [Time(FALSE, NoText) EXCEPT !.requested = FALSE], NoRows)
  <2>1. PresetNodes(name, metadata) = Flat(<<card>>)
    BY <1>14 DEF PresetNodes
  <2> HIDE DEF card
  <2> QED BY <1>7, <2>1, OneCard DEF good, card
<1> QED BY <1>8, <1>9, <1>10, <1>11, <1>12, <1>13, <1>14 DEF PresetNames

-------------------------------------------------------------------------------
(* The cards, as SuggestedCards has them *)

\* What the cards are made of is the same there.
LEMMA SameMethod ==
  ASSUME NEW metadata, NEW identifier
  PROVE  /\ P!MethodOf(metadata, identifier) = MethodOf(metadata, identifier)
         /\ SC!MethodOf(metadata, identifier) = MethodOf(metadata, identifier)
BY DEF MethodOf, P!MethodOf, SC!MethodOf, Kinds, P!Kinds, SC!Kinds

\* The values for a name ...
LEMMA SameOptions ==
  ASSUME NEW metadata, NEW identifier, NEW kind, NEW name
  PROVE  /\ P!OptionsOf(metadata, identifier, kind, name) = OptionsOf(metadata, identifier, kind, name)
         /\ SC!OptionsOf(metadata, identifier, kind, name) = OptionsOf(metadata, identifier, kind, name)
BY SameMethod DEF OptionsOf, P!OptionsOf, SC!OptionsOf, Own, P!Own, SC!Own,
                  ToSet, P!ToSet, SC!ToSet

\* ... the row whose suggestions are drawn ...
LEMMA SameRefreshRow ==
  ASSUME NEW row, NEW metadata, NEW identifier, NEW kind
  PROVE  /\ P!RefreshRow(row, metadata, identifier, kind) = RefreshRow(row, metadata, identifier, kind)
         /\ SC!RefreshRow(row, metadata, identifier, kind) = RefreshRow(row, metadata, identifier, kind)
BY SameOptions DEF RefreshRow, P!RefreshRow, SC!RefreshRow

\* ... the card whose suggestions are drawn ...
LEMMA SameRefresh ==
  ASSUME NEW card, NEW metadata
  PROVE  /\ P!RefreshFactor(card, metadata) = RefreshFactor(card, metadata)
         /\ SC!RefreshFactor(card, metadata) = RefreshFactor(card, metadata)
<1>1. P!RefreshFactor(card, metadata) = RefreshFactor(card, metadata)
  <2>1. P!Kinds = Kinds
    BY DEF P!Kinds, Kinds
  <2>2. P!RefreshNames(card, metadata) = RefreshNames(card, metadata)
    BY <2>1, SameMethod DEF P!RefreshNames, RefreshNames
  <2>3. \A kind, i : P!RefreshRow(card.rows[kind][i], metadata, card.identifier, kind)
                       = RefreshRow(card.rows[kind][i], metadata, card.identifier, kind)
    BY SameRefreshRow
  <2> DEFINE new == RefreshNames(card, metadata)
             theirs(kind) == [i \in DOMAIN card.rows[kind] |->
                P!RefreshRow(card.rows[kind][i], metadata, card.identifier, kind)]
             ours(kind) == [i \in DOMAIN card.rows[kind] |->
                RefreshRow(card.rows[kind][i], metadata, card.identifier, kind)]
  <2>4. \A kind : theirs(kind) = ours(kind)
    BY <2>3
  <2>5. P!RefreshFactor(card, metadata) = [new EXCEPT !.rows = [kind \in Kinds |-> theirs(kind)]]
    BY <2>1, <2>2 DEF P!RefreshFactor
  <2>6. RefreshFactor(card, metadata) = [new EXCEPT !.rows = [kind \in Kinds |-> ours(kind)]]
    BY DEF RefreshFactor
  <2> HIDE DEF theirs, ours, new
  <2>7. [kind \in Kinds |-> theirs(kind)] = [kind \in Kinds |-> ours(kind)]
    BY <2>4
  <2> QED BY <2>5, <2>6, <2>7
<1>2. SC!RefreshFactor(card, metadata) = RefreshFactor(card, metadata)
  <2>1. SC!Kinds = Kinds
    BY DEF SC!Kinds, Kinds
  <2>2. SC!RefreshNames(card, metadata) = RefreshNames(card, metadata)
    BY <2>1, SameMethod DEF SC!RefreshNames, RefreshNames
  <2>3. \A kind, i : SC!RefreshRow(card.rows[kind][i], metadata, card.identifier, kind)
                       = RefreshRow(card.rows[kind][i], metadata, card.identifier, kind)
    BY SameRefreshRow
  <2> DEFINE new == RefreshNames(card, metadata)
             theirs(kind) == [i \in DOMAIN card.rows[kind] |->
                SC!RefreshRow(card.rows[kind][i], metadata, card.identifier, kind)]
             ours(kind) == [i \in DOMAIN card.rows[kind] |->
                RefreshRow(card.rows[kind][i], metadata, card.identifier, kind)]
  <2>4. \A kind : theirs(kind) = ours(kind)
    BY <2>3
  <2>5. SC!RefreshFactor(card, metadata) = [new EXCEPT !.rows = [kind \in Kinds |-> theirs(kind)]]
    BY <2>1, <2>2 DEF SC!RefreshFactor
  <2>6. RefreshFactor(card, metadata) = [new EXCEPT !.rows = [kind \in Kinds |-> ours(kind)]]
    BY DEF RefreshFactor
  <2> HIDE DEF theirs, ours, new
  <2>7. [kind \in Kinds |-> theirs(kind)] = [kind \in Kinds |-> ours(kind)]
    BY <2>4
  <2> QED BY <2>5, <2>6, <2>7
<1> QED BY <1>1, <1>2

\* ... a card that addFactor makes ...
LEMMA SameCards ==
  ASSUME NEW metadata, NEW identifier, NEW time, NEW rows
  PROVE  /\ P!Card(metadata, identifier, time, rows) = Card(metadata, identifier, time, rows)
         /\ SC!Card(metadata, identifier, time, rows) = Card(metadata, identifier, time, rows)
BY SameRefresh DEF Card, P!Card, SC!Card, Kinds, P!Kinds, SC!Kinds,
                   NumberedRows, P!NumberedRows, SC!NumberedRows

\* ... the names in order ...
LEMMA SameSorted ==
  ASSUME NEW names
  PROVE  P!SortedNames(names) = SortedNames(names) /\ SC!SortedNames(names) = SortedNames(names)
BY DEF SortedNames, P!SortedNames, SC!SortedNames

\* ... and the row that a button adds.
LEMMA SameNewRow ==
  ASSUME NEW card, NEW metadata, NEW kind
  PROVE  /\ P!NewRow(card, metadata, kind) = NewRow(card, metadata, kind)
         /\ SC!NewRow(card, metadata, kind) = NewRow(card, metadata, kind)
BY SameSorted, SameMethod, SameRefreshRow
   DEF NewRow, P!NewRow, SC!NewRow, RequestedRow, P!RequestedRow, SC!RequestedRow,
       Row, P!Row, SC!Row, NoText, P!NoText, SC!NoText

\* The edits are the same too.
LEMMA SameIdentifier ==
  ASSUME NEW card, NEW metadata, NEW identifier
  PROVE  /\ P!WithIdentifier(card, identifier, metadata) = WithIdentifier(card, identifier, metadata)
         /\ SC!WithIdentifier(card, identifier, metadata) = WithIdentifier(card, identifier, metadata)
BY SameRefresh DEF WithIdentifier, P!WithIdentifier, SC!WithIdentifier

\* The time section.
LEMMA SameTime ==
  ASSUME NEW card, NEW time
  PROVE  P!WithTime(card, time) = WithTime(card, time) /\ SC!WithTime(card, time) = WithTime(card, time)
BY DEF WithTime, P!WithTime, SC!WithTime

\* A row more.
LEMMA SameMoreRows ==
  ASSUME NEW card, NEW metadata, NEW kind
  PROVE  /\ P!WithNewRow(card, metadata, kind) = WithNewRow(card, metadata, kind)
         /\ SC!WithNewRow(card, metadata, kind) = WithNewRow(card, metadata, kind)
BY SameNewRow DEF WithNewRow, P!WithNewRow, SC!WithNewRow, AppendRow, P!AppendRow, SC!AppendRow

\* A row less.
LEMMA SameFewerRows ==
  ASSUME NEW card, NEW kind, NEW i
  PROVE  /\ P!WithoutRow(card, kind, i) = WithoutRow(card, kind, i)
         /\ SC!WithoutRow(card, kind, i) = WithoutRow(card, kind, i)
BY DEF WithoutRow, P!WithoutRow, SC!WithoutRow, RemoveAt, P!RemoveAt, SC!RemoveAt

\* The fields of a row.
LEMMA SameRow ==
  ASSUME NEW card, NEW metadata, NEW kind, NEW i, NEW input
  PROVE  /\ P!WithRow(card, metadata, kind, i, input) = WithRow(card, metadata, kind, i, input)
         /\ SC!WithRow(card, metadata, kind, i, input) = WithRow(card, metadata, kind, i, input)
BY SameRefreshRow DEF WithRow, P!WithRow, SC!WithRow

\* A card that was made is a new card there.
LEMMA SameMade ==
  ASSUME NEW card, NEW metadata, Made(card, metadata)
  PROVE  P!NewCard(card, metadata) /\ SC!NewCard(card, metadata)
<1>1. \A kind \in Kinds : /\ IsSequence(card.rows[kind])
                          /\ \A i \in DOMAIN card.rows[kind] : IsRow(card.rows[kind][i])
  BY DEF Made, ListGiven, RowGiven
<1>2. \A kind \in Kinds : P!IsList(card.rows[kind])
  BY <1>1 DEF P!IsList, IsSequence, ToSet, P!ToSet, IsRow, P!IsRow
<1>3. \A kind \in Kinds : SC!IsList(card.rows[kind])
  BY <1>1 DEF SC!IsList, IsSequence, ToSet, SC!ToSet, IsRow, SC!IsRow
<1>4. DOMAIN card.rows = Kinds /\ card = Card(metadata, card.identifier, card.time, card.rows)
  BY DEF Made
<1>5. Kinds = P!Kinds /\ Kinds = SC!Kinds
  BY DEF Kinds, P!Kinds, SC!Kinds
<1>6. P!NewCard(card, metadata)
  BY <1>2, <1>4, <1>5, SameCards DEF P!NewCard
<1>7. SC!NewCard(card, metadata)
  BY <1>3, <1>4, <1>5, SameCards DEF SC!NewCard
<1> QED BY <1>6, <1>7

\* An edit is an edit there.
LEMMA SameEdit ==
  ASSUME NEW card, NEW new, Edited(card, new, discovery)
  PROVE  P!EditedCard(card, new) /\ SC!EditedCard(card, new)
<1>1. Kinds = P!Kinds /\ Kinds = SC!Kinds
  BY DEF Kinds, P!Kinds, SC!Kinds
<1>2. ASSUME NEW identifier \in Ids, new = WithIdentifier(card, identifier, discovery)
      PROVE  P!EditedCard(card, new) /\ SC!EditedCard(card, new)
  BY <1>2, SameIdentifier DEF P!EditedCard, SC!EditedCard
<1>3. ASSUME NEW time \in Times, new = WithTime(card, time)
      PROVE  P!EditedCard(card, new) /\ SC!EditedCard(card, new)
  BY <1>3, SameTime DEF P!EditedCard, SC!EditedCard
<1>4. ASSUME NEW kind \in Kinds, new = WithNewRow(card, discovery, kind)
      PROVE  P!EditedCard(card, new) /\ SC!EditedCard(card, new)
  BY <1>1, <1>4, SameMoreRows DEF P!EditedCard, SC!EditedCard
<1>5. ASSUME NEW kind \in Kinds, NEW i \in DOMAIN card.rows[kind], new = WithoutRow(card, kind, i)
      PROVE  P!EditedCard(card, new) /\ SC!EditedCard(card, new)
  BY <1>1, <1>5, SameFewerRows DEF P!EditedCard, SC!EditedCard
<1>6. ASSUME NEW kind \in Kinds, NEW i \in DOMAIN card.rows[kind], NEW input \in RowInputs,
             new = WithRow(card, discovery, kind, i, input)
      PROVE  P!EditedCard(card, new) /\ SC!EditedCard(card, new)
  BY <1>1, <1>6, SameRow DEF P!EditedCard, SC!EditedCard
<1> QED BY <1>2, <1>3, <1>4, <1>5, <1>6 DEF Edited

\* The metadata of a page is the same there ...
LEMMA SameMetadata ==
  /\ P!NoMetadata = NoMetadata /\ SC!NoMetadata = NoMetadata
  /\ \A document : /\ P!BuilderMetadata(document) = BuilderMetadata(document)
                   /\ SC!BuilderMetadata(document) = BuilderMetadata(document)
<1>1. P!NoMetadata = NoMetadata /\ SC!NoMetadata = NoMetadata
  BY DEF NoMetadata, P!NoMetadata, SC!NoMetadata
<1>2. ASSUME NEW document
      PROVE  /\ P!BuilderMetadata(document) = BuilderMetadata(document)
             /\ SC!BuilderMetadata(document) = BuilderMetadata(document)
  <2>1. \A m : /\ P!Strings(P!ListAt(document, m)) = Strings(ListAt(document, m))
               /\ SC!Strings(SC!ListAt(document, m)) = Strings(ListAt(document, m))
    BY DEF Strings, P!Strings, SC!Strings, ListAt, P!ListAt, SC!ListAt, ToSet, P!ToSet, SC!ToSet
  <2>2. \A m : /\ P!ValuesFor(document, m) = ValuesFor(document, m)
               /\ SC!ValuesFor(document, m) = ValuesFor(document, m)
    BY DEF ValuesFor, P!ValuesFor, SC!ValuesFor, ListAt, P!ListAt, SC!ListAt,
           MemberOf, P!MemberOf, SC!MemberOf
  <2>3. \A i : /\ P!MethodMetadata(document, i) = MethodMetadata(document, i)
               /\ SC!MethodMetadata(document, i) = MethodMetadata(document, i)
    BY <2>1, <2>2 DEF MethodMetadata, P!MethodMetadata, SC!MethodMetadata,
           Kinds, P!Kinds, SC!Kinds, MemberOf, P!MemberOf, SC!MemberOf
  <2>4. P!Identifiers = Identifiers /\ SC!Identifiers = Identifiers
    BY DEF Identifiers, P!Identifiers, SC!Identifiers
  <2>5. P!BuilderMetadata(document) = BuilderMetadata(document)
    BY <2>1, <2>3, <2>4, SameSorted DEF BuilderMetadata, P!BuilderMetadata
  <2>6. SC!BuilderMetadata(document) = BuilderMetadata(document)
    BY <2>1, <2>3, <2>4, SameSorted DEF BuilderMetadata, SC!BuilderMetadata
  <2> QED BY <2>5, <2>6
<1> QED BY <1>1, <1>2

\* ... and so is what it should suggest.
LEMMA SamePromise ==
  ASSUME NEW card, NEW document, P!FollowsMethod(card, document)
  PROVE  FollowsMethod(card, document)
<1>1. P!Kinds = Kinds /\ P!Names = Names /\ P!Identifiers = Identifiers
  BY DEF Kinds, P!Kinds, Names, P!Names, Identifiers, P!Identifiers, ToSet, P!ToSet
<1>2. \A m, x : P!Lists(document, m, x) <=> Lists(document, m, x)
  BY DEF Lists, P!Lists, ToSet, P!ToSet
<1>3. \A i, kind : P!AdvertisedNames(document, i, kind) = AdvertisedNames(document, i, kind)
  BY <1>1, <1>2 DEF AdvertisedNames, P!AdvertisedNames, MemberOf, P!MemberOf
<1>4. \A i, kind, n : P!AdvertisedValues(document, i, kind, n) = AdvertisedValues(document, i, kind, n)
  BY <1>1, <1>2, <1>3 DEF AdvertisedValues, P!AdvertisedValues, MemberOf, P!MemberOf
<1>5. \A rows, i : P!ListOf(rows, i) = ListOf(rows, i)
  BY DEF ListOf, P!ListOf, SelectInSeq, P!SelectInSeq, Min, P!Min
<1> QED BY <1>1, <1>3, <1>4, <1>5 DEF FollowsMethod, P!FollowsMethod

-------------------------------------------------------------------------------
(* Edits of the builder *)

\* The builder's nodes: their cards have what their fields can hold.
NodesOK(nodes) ==
  /\ IsForest(nodes)
  /\ \A path \in DOMAIN nodes : nodes[path].type = "factor" => CardOK(nodes[path])

\* After an edit: a card was there before, is a new one, or was edited.
CardChanged(new) ==
  \/ new \in Cards
  \/ CardOK(new) /\ Made(new, discovery)
  \/ \E card \in Cards : Edited(card, new, discovery)
Changed(nodes) ==
  /\ IsForest(nodes)
  /\ \A path \in DOMAIN nodes : nodes[path].type = "factor" => CardChanged(nodes[path])

\* A node is a card if it says so.
LEMMA CardsAre ==
  /\ \A p \in DOMAIN root : root[p].type = "factor" => root[p] \in Cards
  /\ \A card \in Cards : \E p \in DOMAIN root : card = root[p] /\ root[p].type = "factor"
BY DEF Cards, CardPaths, NodeAt, Paths

\* Cards that were changed still have what their fields can hold.
LEMMA ChangedOK ==
  ASSUME NodesOK(root), NEW nodes, Changed(nodes)
  PROVE  NodesOK(nodes)
<1> SUFFICES ASSUME NEW p \in DOMAIN nodes, nodes[p].type = "factor"
             PROVE  CardOK(nodes[p])
  BY DEF NodesOK, Changed
<1> DEFINE new == nodes[p]
<1>1. CardChanged(new)
  BY DEF Changed
<1> HIDE DEF new
<1>2. \A card \in Cards : CardOK(card)
  BY CardsAre DEF NodesOK
<1>3. CardOK(new)
  <2>1. CASE new \in Cards
    BY <1>2, <2>1
  <2>2. CASE CardOK(new)
    BY <2>2
  <2>3. CASE \E card \in Cards : Edited(card, new, discovery)
    BY <1>2, <2>3, EditedOK
  <2> QED BY <1>1, <2>1, <2>2, <2>3 DEF CardChanged
<1> QED BY <1>3 DEF new

\* Nodes made for the page's metadata.
LEMMA FreshChanged ==
  ASSUME NEW nodes, IsForest(nodes), Fresh(nodes, discovery)
  PROVE  Changed(nodes)
BY DEF Changed, Fresh, MadeNode, CardChanged

\* Nodes that are moved, or taken away.
LEMMA MovedChanged ==
  ASSUME NodesOK(root), NEW to, Arranged(root, to)
  PROVE  Changed(Moved(root, to))
<1> DEFINE new == Moved(root, to)
<1>1. IsForest(new)
  BY MovedForest DEF NodesOK
<1>2. Rearranged(new, root, to)
  BY MovedIs
<1> HIDE DEF new
<1>3. ASSUME NEW q \in DOMAIN new, new[q].type = "factor" PROVE CardChanged(new[q])
  <2>1. PICK p \in DOMAIN to : new[q] = root[p]
    BY <1>2 DEF Rearranged
  <2>2. p \in DOMAIN root
    BY DEF Arranged
  <2>3. new[q] \in Cards
    BY <1>3, <2>1, <2>2, CardsAre
  <2> QED BY <2>3 DEF CardChanged
<1> QED BY <1>1, <1>3 DEF Changed, new

\* One node is exchanged for another of its type.
LEMMA PutChanged ==
  ASSUME NodesOK(root), NEW path \in DOMAIN root, NEW node,
         node.type = root[path].type, Typed(node), node.type = "factor" => CardChanged(node)
  PROVE  Changed(Put(path, node))
<1> DEFINE new == Put(path, node)
<1>1. DOMAIN new = DOMAIN root /\ new[path] = node /\ \A p \in DOMAIN root : p # path => new[p] = root[p]
  BY DEF Put
<1> HIDE DEF new
<1>2. \A p \in DOMAIN root : new[p].type = root[p].type
  BY <1>1
<1>3. IsForest(root)
  BY DEF NodesOK
<1>4. IsForest(new)
  <2>1. DOMAIN new \subseteq Path \ {<<>>}
    BY <1>1, <1>3 DEF IsForest
  <2>2. ASSUME NEW p \in DOMAIN new
        PROVE  /\ new[p].type # "factor" => \E op \in Operators : new[p] = GroupNode(op)
               /\ Len(p) > 1 => Front(p) \in DOMAIN new /\ new[Front(p)].type = "group"
               /\ Placed(new, p)
    <3>1. new[p].type # "factor" => \E op \in Operators : new[p] = GroupNode(op)
      <4>1. CASE p = path
        BY <1>1, <4>1 DEF Typed
      <4>2. CASE p # path
        BY <1>1, <1>3, <4>2 DEF IsForest
      <4> QED BY <4>1, <4>2
    <3>2. Len(p) > 1 => Front(p) \in DOMAIN new /\ new[Front(p)].type = "group"
      BY <1>1, <1>2, <1>3 DEF IsForest
    <3>3. Placed(new, p)
      BY <1>1, <1>3 DEF IsForest, Placed
    <3> QED BY <3>1, <3>2, <3>3
  <2> QED BY <2>1, <2>2 DEF IsForest
<1>5. ASSUME NEW p \in DOMAIN new, new[p].type = "factor" PROVE CardChanged(new[p])
  <2>1. CASE p = path
    BY <1>1, <1>5, <2>1
  <2>2. CASE p # path
    BY <1>1, <1>5, <2>2, CardsAre DEF CardChanged
  <2> QED BY <2>1, <2>2
<1> QED BY <1>4, <1>5 DEF Changed, new

\* addFactor and addGroup.
LEMMA AddNodeChanged ==
  ASSUME NodesOK(root), NamesKnown(discovery), AddNode
  PROVE  Changed(root')
<1>1. PICK nodes \in NewNodes, n \in 1 .. MaxNodes,
          parent \in {<<>>} \cup {p \in Paths : NodeAt(p).type = "group"} :
        /\ \A i \in 1 .. n : Append(parent, i) \in Paths <=> i < n
        /\ root' = Graft(root, Append(parent, n), nodes)
  BY DEF AddNode, Edit
<1>2. NewTree(nodes) /\ Fresh(nodes, discovery)
  BY NewIs DEF NewNodes
<1>3. n \in Nat /\ n > 0
  OBVIOUS
<1>4. /\ parent \in {<<>>} \cup DOMAIN root
      /\ parent \in DOMAIN root => root[parent].type = "group"
  <2>1. <<>> \notin DOMAIN root
    BY DEF NodesOK, IsForest
  <2> QED BY <2>1 DEF Paths, NodeAt
<1>5. \A i \in 1 .. n : Append(parent, i) \in DOMAIN root <=> i < n
  BY <1>1 DEF Paths
<1>6. IsForest(root)
  BY DEF NodesOK
<1> DEFINE at == Append(parent, n)
           new == Graft(root, at, nodes)
<1>7. Fits(root, at, nodes)
  BY <1>2, <1>3, <1>4, <1>5, <1>6, NewFits
<1> HIDE DEF at
<1>8. IsForest(new)
  BY <1>6, <1>7, GraftForest
<1>9. Grafted(new, root, at, nodes)
  BY <1>7, GraftIs
<1> HIDE DEF new
<1>10. ASSUME NEW q \in DOMAIN new, new[q].type = "factor" PROVE CardChanged(new[q])
  <2>1. CASE q \in DOMAIN root
    BY <1>9, <1>10, <2>1, CardsAre DEF Grafted, CardChanged
  <2>2. CASE q \notin DOMAIN root
    <3>1. PICK p \in DOMAIN nodes : q = at \o p
      BY <1>9, <2>2 DEF Grafted
    <3>2. new[q] = nodes[p]
      BY <1>9, <3>1 DEF Grafted
    <3> QED BY <1>2, <1>10, <3>2 DEF Fresh, MadeNode, CardChanged
  <2> QED BY <2>1, <2>2
<1>11. Changed(new)
  BY <1>8, <1>10 DEF Changed
<1> QED BY <1>1, <1>11 DEF new, at

\* removeNode.
LEMMA RemoveNodeChanged ==
  ASSUME NodesOK(root), RemoveNode
  PROVE  Changed(root')
<1>1. PICK path \in Paths :
        root' = Moved(root, [p \in {p \in Paths : ~IsPrefix(path, p)} |-> RemovedTo(path, p)])
  BY DEF RemoveNode, Edit, RemovedTo
<1> DEFINE to == [p \in {p \in DOMAIN root : ~IsPrefix(path, p)} |-> RemovedTo(path, p)]
<1>2. Arranged(root, to)
  BY RemovedNodes DEF NodesOK, Paths
<1>3. root' = Moved(root, to)
  BY <1>1 DEF Paths
<1> HIDE DEF to
<1> QED BY <1>2, <1>3, MovedChanged

\* moveUp.
LEMMA MoveUpChanged ==
  ASSUME NodesOK(root), MoveUp
  PROVE  Changed(root')
<1>1. PICK path \in Paths :
        Last(path) > 1 /\ root' = Moved(root, [p \in Paths |-> MovedUpTo(path, p)])
  BY DEF MoveUp, Edit, MovedUpTo
<1> DEFINE to == [p \in DOMAIN root |-> MovedUpTo(path, p)]
<1>2. Arranged(root, to)
  BY <1>1, MovedUpNodes DEF NodesOK, Paths
<1>3. root' = Moved(root, to)
  BY <1>1 DEF Paths
<1> HIDE DEF to
<1> QED BY <1>2, <1>3, MovedChanged

\* The operator of a group.
LEMMA SetOperatorChanged ==
  ASSUME NodesOK(root), SetOperator
  PROVE  Changed(root')
<1>1. PICK p \in Paths, op \in Operators :
        NodeAt(p).type = "group" /\ root' = Put(p, [NodeAt(p) EXCEPT !.operator = op])
  BY DEF SetOperator, Edit
<1>2. p \in DOMAIN root /\ root[p].type = "group" /\ root[p].type # "factor"
  BY <1>1 DEF Paths, NodeAt
<1>3. PICK old \in Operators : root[p] = GroupNode(old)
  BY <1>2 DEF NodesOK, IsForest
<1> DEFINE node == [NodeAt(p) EXCEPT !.operator = op]
<1>4. node = GroupNode(op)
  BY <1>3 DEF NodeAt, GroupNode
<1>5. node.type = "group" /\ Typed(node)
  BY <1>4 DEF GroupNode, Typed
<1> HIDE DEF node
<1>6. Changed(Put(p, node))
  BY <1>2, <1>5, PutChanged
<1> QED BY <1>1, <1>6 DEF node

\* One edit of a card.
LEMMA CardEdited ==
  ASSUME NodesOK(root), NEW p \in CardPaths, NEW new, Edited(NodeAt(p), new, discovery)
  PROVE  Changed(Put(p, new))
<1>1. p \in DOMAIN root /\ root[p].type = "factor" /\ NodeAt(p) = root[p]
  BY DEF CardPaths, NodeAt, Paths
<1>2. CardOK(root[p]) /\ root[p] \in Cards
  BY <1>1, CardsAre DEF NodesOK
<1>3. CardOK(new) /\ CardChanged(new)
  BY <1>1, <1>2, EditedOK DEF CardChanged
<1>4. new.type = "factor" /\ Typed(new)
  BY <1>3 DEF CardOK, Typed
<1> QED BY <1>1, <1>3, <1>4, PutChanged

\* The fields of a card, and its rows.
LEMMA CardsEdited ==
  ASSUME NodesOK(root), SetIdentifier \/ SetTime \/ AddRow \/ RemoveRow \/ SetRow
  PROVE  Changed(root')
<1>1. CASE SetIdentifier
  <2>1. PICK p \in CardPaths, id \in Ids : root' = Put(p, WithIdentifier(NodeAt(p), id, discovery))
    BY <1>1 DEF SetIdentifier, Edit
  <2> QED BY <2>1, CardEdited DEF Edited
<1>2. CASE SetTime
  <2>1. PICK p \in CardPaths, time \in Times : root' = Put(p, WithTime(NodeAt(p), time))
    BY <1>2 DEF SetTime, Edit
  <2> QED BY <2>1, CardEdited DEF Edited
<1>3. CASE AddRow
  <2>1. PICK p \in CardPaths, kind \in Kinds : root' = Put(p, WithNewRow(NodeAt(p), discovery, kind))
    BY <1>3 DEF AddRow, Edit
  <2> QED BY <2>1, CardEdited DEF Edited
<1>4. CASE RemoveRow
  <2>1. PICK p \in CardPaths, kind \in Kinds : \E i \in DOMAIN NodeAt(p).rows[kind] :
          root' = Put(p, WithoutRow(NodeAt(p), kind, i))
    BY <1>4 DEF RemoveRow, Edit
  <2> QED BY <2>1, CardEdited DEF Edited
<1>5. CASE SetRow
  <2>1. PICK p \in CardPaths, kind \in Kinds :
          \E i \in DOMAIN NodeAt(p).rows[kind] : \E input \in RowInputs :
            root' = Put(p, WithRow(NodeAt(p), discovery, kind, i, input))
    BY <1>5 DEF SetRow, Edit
  <2> QED BY <2>1, CardEdited DEF Edited
<1> QED BY <1>1, <1>2, <1>3, <1>4, <1>5

\* The answer of /discovery: the same nodes, with their suggestions drawn again.
Redrawn(nodes, metadata) ==
  /\ DOMAIN nodes = DOMAIN root
  /\ \A p \in DOMAIN root :
       nodes[p] = IF root[p].type = "factor" THEN RefreshFactor(root[p], metadata) ELSE root[p]

\* That is what loadDiscovery leaves.
LEMMA RedrawnIs ==
  ASSUME NEW metadata
  PROVE  Redrawn(RefreshAll(metadata), metadata)
BY DEF Redrawn, RefreshAll, NodeAt, Paths

\* The types stay, and the fields hold what they can.
LEMMA RedrawnOK ==
  ASSUME NodesOK(root), NEW metadata, NEW nodes, Redrawn(nodes, metadata)
  PROVE  /\ NodesOK(nodes)
         /\ \A p \in DOMAIN root : nodes[p].type = root[p].type
<1>1. ASSUME NEW p \in DOMAIN root, root[p].type = "factor"
      PROVE  CardOK(nodes[p]) /\ nodes[p].type = "factor"
  <2>1. CardOK(root[p])
    BY <1>1 DEF NodesOK
  <2>2. nodes[p] = RefreshFactor(root[p], metadata)
    BY <1>1 DEF Redrawn
  <2> DEFINE card == root[p]
             new == nodes[p]
  <2> HIDE DEF card, new
  <2>3. CardOK(RefreshFactor(card, metadata))
    BY <2>1, RefreshOK DEF card
  <2>4. CardOK(new)
    BY <2>2, <2>3 DEF card, new
  <2> QED BY <2>4 DEF CardOK, new
<1>2. \A p \in DOMAIN root : root[p].type # "factor" => nodes[p] = root[p]
  BY DEF Redrawn
<1>3. \A p \in DOMAIN root : nodes[p].type = root[p].type
  BY <1>1, <1>2
<1>4. DOMAIN nodes = DOMAIN root
  BY DEF Redrawn
<1>5. IsForest(root)
  BY DEF NodesOK
<1>6. IsForest(nodes)
  <2>1. DOMAIN nodes \subseteq Path \ {<<>>}
    BY <1>4, <1>5 DEF IsForest
  <2>2. ASSUME NEW p \in DOMAIN nodes
        PROVE  /\ nodes[p].type # "factor" => \E op \in Operators : nodes[p] = GroupNode(op)
               /\ Len(p) > 1 => Front(p) \in DOMAIN nodes /\ nodes[Front(p)].type = "group"
               /\ Placed(nodes, p)
    <3>1. nodes[p].type # "factor" => \E op \in Operators : nodes[p] = GroupNode(op)
      BY <1>2, <1>3, <1>4, <1>5 DEF IsForest
    <3>2. Len(p) > 1 => Front(p) \in DOMAIN nodes /\ nodes[Front(p)].type = "group"
      BY <1>3, <1>4, <1>5 DEF IsForest
    <3>3. Placed(nodes, p)
      BY <1>4, <1>5 DEF IsForest, Placed
    <3> QED BY <3>1, <3>2, <3>3
  <2> QED BY <2>1, <2>2 DEF IsForest
<1>7. NodesOK(nodes)
  BY <1>1, <1>3, <1>4, <1>6 DEF NodesOK
<1> QED BY <1>3, <1>7

\* What amr_details of a request can be.
LEMMA DetailsTyped ==
  ASSUME NEW claims, IsClaims(claims), RequestedIn(claims) # {}
  PROVE  IsDetails(DetailsOf(claims))
<1> DEFINE l == IF "id_token" \in RequestedIn(claims) THEN "id_token" ELSE "userinfo"
<1>1. l \in RequestedIn(claims)
  BY DEF RequestedIn, Locations
<1>2. l \in Locations /\ l \in DOMAIN claims /\ claims[l] \notin {null, Other}
      /\ Own(claims[l], "amr_details")
  BY <1>1 DEF RequestedIn, Own
<1>3. DetailsOf(claims) = claims[l].amr_details
  BY DEF DetailsOf
<1> HIDE DEF l
<1>4. IsDetails(claims[l].amr_details)
  BY <1>2 DEF IsClaims
<1> QED BY <1>3, <1>4

\* loadJson: nodes for an expression, or none.
LEMMA NodesLoaded ==
  ASSUME NEW details, IsDetails(details), Convertible(details),
         NEW metadata, NamesKnown(metadata)
  PROVE  LET nodes == NodesOf(details, metadata) IN
         IsForest(nodes) /\ Fresh(nodes, metadata)
<1>1. CASE HasExpression(details)
  <2>1. details \notin {null, Other} /\ ExpressionOK(details)
    BY <1>1 DEF Convertible, HasExpression
  <2>2. IsExpression(details)
    BY <2>1 DEF IsDetails
  <2> DEFINE nodes == ExpressionModel(details, metadata)
             none == <<>>
             at == <<1>>
             new == Graft(none, at, nodes)
  <2>3. Fits(none, at, nodes) /\ Fresh(nodes, metadata)
    BY <2>1, <2>2, ModelFits
  <2>4. IsForest(none) /\ DOMAIN none = {}
    BY NoNodes
  <2>5. NodesOf(details, metadata) = new
    BY <1>1 DEF NodesOf
  <2> HIDE DEF nodes, none, at
  <2>6. IsForest(new)
    BY <2>3, <2>4, GraftForest
  <2>7. Fresh(none, metadata)
    BY <2>4 DEF Fresh
  <2>8. Fresh(new, metadata)
    BY <2>3, <2>7, FreshGraft
  <2> QED BY <2>5, <2>6, <2>8
<1>2. CASE ~HasExpression(details)
  <2>1. NodesOf(details, metadata) = <<>>
    BY <1>2 DEF NodesOf
  <2> QED BY <2>1, NoNodes DEF Fresh
<1> QED BY <1>1, <1>2

\* Nodes made for the metadata have what their fields can hold.
LEMMA FreshOK ==
  ASSUME NEW nodes, IsForest(nodes), NEW metadata, Fresh(nodes, metadata)
  PROVE  NodesOK(nodes)
BY DEF NodesOK, Fresh, MadeNode

-------------------------------------------------------------------------------
(* The object at the root: an expression, and essential *)

RequestKeys == {"amr_identifier", "amr_metadata", "amr_properties"}

\* Two objects with the same request for a method.
SameRequest(a, b) ==
  \A key \in RequestKeys : /\ Own(a, key) <=> Own(b, key)
                           /\ Own(b, key) => a[key] = b[key]

\* factorModel does not look at anything else.
LEMMA SameObjects ==
  ASSUME NEW a, NEW b, SameRequest(a, b)
  PROVE  /\ ObjectAt(a, "amr_metadata") = ObjectAt(b, "amr_metadata")
         /\ ObjectAt(a, "amr_properties") = ObjectAt(b, "amr_properties")
         /\ IsObject(a) /\ IsFactor(b) => IsFactor(a)
         /\ FactorModelOK(a) <=> FactorModelOK(b)
<1>1. /\ Own(a, "amr_identifier") <=> Own(b, "amr_identifier")
      /\ Own(a, "amr_metadata") <=> Own(b, "amr_metadata")
      /\ Own(a, "amr_properties") <=> Own(b, "amr_properties")
      /\ Own(b, "amr_identifier") => a["amr_identifier"] = b["amr_identifier"]
      /\ Own(b, "amr_metadata") => a["amr_metadata"] = b["amr_metadata"]
      /\ Own(b, "amr_properties") => a["amr_properties"] = b["amr_properties"]
  BY DEF SameRequest, RequestKeys
<1>2. /\ ObjectAt(a, "amr_metadata") = ObjectAt(b, "amr_metadata")
      /\ ObjectAt(a, "amr_properties") = ObjectAt(b, "amr_properties")
  BY <1>1 DEF ObjectAt
<1>3. ASSUME IsObject(a), IsFactor(b) PROVE IsFactor(a)
  BY <1>1, <1>2, <1>3 DEF IsFactor
<1>4. FactorModelOK(a) <=> FactorModelOK(b)
  BY <1>1, <1>2 DEF FactorModelOK
<1> QED BY <1>2, <1>3, <1>4

\* So the card is the same.
LEMMA SameModel ==
  ASSUME NEW a, NEW b, SameRequest(a, b), Own(b, "amr_identifier"), NEW metadata
  PROVE  FactorModel(a, metadata) = FactorModel(b, metadata)
<1>1. a["amr_identifier"] = b["amr_identifier"]
  BY DEF SameRequest, RequestKeys
<1>2. /\ ObjectAt(a, "amr_metadata") = ObjectAt(b, "amr_metadata")
      /\ ObjectAt(a, "amr_properties") = ObjectAt(b, "amr_properties")
  BY SameObjects
<1>3. /\ Own(a, "amr_metadata") <=> Own(b, "amr_metadata")
      /\ Own(b, "amr_metadata") => a["amr_metadata"] = b["amr_metadata"]
  BY DEF SameRequest, RequestKeys
<1>4. TimeModel(a) = TimeModel(b)
  <2>1. PresentTime(a) = PresentTime(b)
    BY <1>2 DEF PresentTime
  <2>2. (\/ Own(ObjectAt(a, "amr_metadata"), "time")
         \/ Own(a, "amr_metadata") /\ a.amr_metadata = null)
          = (\/ Own(ObjectAt(b, "amr_metadata"), "time")
             \/ Own(b, "amr_metadata") /\ b.amr_metadata = null)
    BY <1>2, <1>3 DEF Own
  <2> QED BY <2>1, <2>2 DEF TimeModel
<1> QED BY <1>1, <1>2, <1>4 DEF FactorModel

\* An object without essential.
Rest(object) == [key \in DOMAIN object \ {"essential"} |-> object[key]]

\* It has the same request.
LEMMA RestIs ==
  ASSUME NEW object
  PROVE  LET rest == Rest(object) IN
         /\ IsObject(rest) /\ DOMAIN rest = DOMAIN object \ {"essential"}
         /\ \A key \in DOMAIN rest : rest[key] = object[key]
         /\ SameRequest(rest, object)
BY DEF Rest, IsObject, SameRequest, RequestKeys, Own

\* An object put together with essential.
RootIs(root1, b, object) ==
  /\ IsObject(root1)
  /\ DOMAIN root1 = DOMAIN object \cup (IF b THEN {"essential"} ELSE {})
  /\ b => root1["essential"] = TRUE
  /\ \A key \in DOMAIN object \ {"essential"} : root1[key] = object[key]

\* buildClaims puts them together so.
LEMMA RootMade ==
  ASSUME NEW b \in BOOLEAN, NEW object
  PROVE  RootIs(Member("essential", TRUE, b) ++ object, b, object)
<1> DEFINE m == Member("essential", TRUE, b)
           new == m ++ object
<1>1. DOMAIN m = (IF b THEN {"essential"} ELSE {}) /\ (b => m["essential"] = TRUE)
  BY MemberIs
<1> HIDE DEF m
<1>2. /\ IsObject(new) /\ DOMAIN new = DOMAIN m \cup DOMAIN object
      /\ \A k \in DOMAIN m : new[k] = m[k]
      /\ \A k \in DOMAIN object \ DOMAIN m : new[k] = object[k]
  BY Together
<1> HIDE DEF new
<1>3. RootIs(new, b, object)
  BY <1>1, <1>2 DEF RootIs
<1> QED BY <1>3 DEF new, m

\* Essential and the rest are the object, exactly if a member essential is true.
LEMMA RootReturns ==
  ASSUME NEW object, IsObject(object),
         NEW b \in BOOLEAN, b <=> IsTrue(object, "essential"),
         NEW rest, IsObject(rest), "essential" \notin DOMAIN rest, NEW root1, RootIs(root1, b, rest)
  PROVE  root1 = object <=> Written(object, "essential") /\ rest = Rest(object)
<1>1. IsObject(Rest(object)) /\ DOMAIN Rest(object) = DOMAIN object \ {"essential"}
      /\ \A key \in DOMAIN Rest(object) : Rest(object)[key] = object[key]
  BY RestIs
<1>2. ASSUME root1 = object PROVE Written(object, "essential") /\ rest = Rest(object)
  <2>1. Written(object, "essential")
    BY <1>2 DEF RootIs, Written, Own, IsTrue
  <2>2. DOMAIN rest = DOMAIN Rest(object)
    BY <1>1, <1>2 DEF RootIs
  <2>3. \A key \in DOMAIN rest : rest[key] = Rest(object)[key]
    BY <1>1, <1>2, <2>2 DEF RootIs
  <2>4. rest = Rest(object)
    BY <1>1, <2>2, <2>3 DEF IsObject
  <2> QED BY <2>1, <2>4
<1>3. ASSUME Written(object, "essential"), rest = Rest(object) PROVE root1 = object
  <2>1. b <=> Own(object, "essential")
    BY <1>3 DEF Written, IsTrue
  <2>2. DOMAIN root1 = DOMAIN object
    BY <1>1, <1>3, <2>1 DEF RootIs, Own
  <2>3. \A key \in DOMAIN object : root1[key] = object[key]
    BY <1>1, <1>3, <2>1 DEF RootIs, Own, IsTrue
  <2> QED BY <2>2, <2>3 DEF IsObject, RootIs
<1> QED BY <1>2, <1>3

-------------------------------------------------------------------------------
(* One node, and its object *)

\* What an operator is written as.
IsOperator(object) == \E op \in Operators : DOMAIN object = {op} /\ IsArray(object, op)
PlainNode(object) == PlainFactor(object) \/ IsOperator(object)

\* A group is written as an array, and a card as its expression.
LEMMA GroupWritten ==
  ASSUME NEW op \in Operators
  PROVE  LET object == NodeExpression(GroupNode(op)) IN
         /\ IsObject(object) /\ DOMAIN object = {op} /\ object[op] = Items
         /\ IsOperator(object) /\ IsGroup(object) /\ IsFactor(object)
         /\ ~PlainFactor(object)
<1> DEFINE object == NodeExpression(GroupNode(op))
<1>1. object = Member(op, Items, TRUE)
  BY DEF NodeExpression, GroupNode
<1> HIDE DEF object
<1>2. IsObject(object) /\ DOMAIN object = {op} /\ object[op] = Items
  BY <1>1, MemberIs
<1>3. IsOperator(object) /\ IsGroup(object)
  BY <1>2 DEF IsOperator, IsGroup, IsArray, Own
<1>4. op \notin {"amr_identifier", "amr_metadata", "amr_properties", "essential"}
  BY DEF Operators
<1>5. IsFactor(object)
  BY <1>2, <1>4 DEF IsFactor, Own
<1>6. ~PlainFactor(object)
  BY <1>2, <1>4 DEF PlainFactor, Own
<1> QED BY <1>2, <1>3, <1>5, <1>6 DEF object

\* A card is written with an identifier, and as an object of one method.
LEMMA CardWritten ==
  ASSUME NEW card, card.type = "factor"
  PROVE  LET object == NodeExpression(card) IN
         /\ object = FactorExpression(card) /\ IsObject(object)
         /\ Own(object, "amr_identifier")
         /\ DOMAIN object \subseteq {"amr_identifier", "amr_metadata", "amr_properties"}
<1> DEFINE object == FactorExpression(card)
<1>1. /\ IsObject(object)
      /\ DOMAIN object = {"amr_identifier"}
           \cup (IF Empty(MetadataMembers(card)) THEN {} ELSE {"amr_metadata"})
           \cup (IF Empty(RowMembers(card.rows["properties"])) THEN {} ELSE {"amr_properties"})
  BY ExpressionIs
<1>2. NodeExpression(card) = object
  BY DEF NodeExpression
<1> HIDE DEF object
<1>3. Own(object, "amr_identifier")
      /\ DOMAIN object \subseteq {"amr_identifier", "amr_metadata", "amr_properties"}
  BY <1>1 DEF Own
<1> QED BY <1>1, <1>2, <1>3 DEF object

\* An object becomes a node that is written as the object, without an error,
\* exactly if it is plain.
LEMMA NodeReturns ==
  ASSUME NEW object, IsFactor(object), IsGroup(object) \/ FactorModelOK(object),
         NEW metadata, NamesKnown(metadata), NEW node, node = NodeModel(object, metadata)
  PROVE  (node.type = "factor" => FactorOK(node)) /\ NodeExpression(node) = object
           <=> PlainNode(object)
<1>1. CASE IsGroup(object)
  <2> DEFINE op == IF IsArray(object, "all_of") THEN "all_of" ELSE "one_of"
  <2>1. node = GroupNode(op) /\ op \in Operators /\ IsArray(object, op)
    BY <1>1 DEF NodeModel, IsGroup, Operators
  <2>2. DOMAIN object = {"all_of"} => op = "all_of"
    BY <2>1 DEF IsArray, Own
  <2> HIDE DEF op
  <2>3. node.type # "factor"
    BY <2>1 DEF GroupNode
  <2> DEFINE x == NodeExpression(node)
  <2>4. /\ IsObject(x) /\ DOMAIN x = {op} /\ x[op] = Items
        /\ IsOperator(x) /\ ~PlainFactor(x)
    BY <2>1, GroupWritten
  <2> HIDE DEF x
  <2>5. ASSUME IsOperator(object) PROVE x = object
    <3>1. PICK other \in Operators : DOMAIN object = {other} /\ IsArray(object, other)
      BY <2>5 DEF IsOperator
    <3>2. other = op
      BY <2>1, <3>1 DEF IsArray, Own
    <3>3. DOMAIN object = {op} /\ object[op] = Items
      BY <3>1, <3>2 DEF IsArray
    <3>4. IsObject(object)
      BY DEF IsFactor
    <3>5. DOMAIN x = DOMAIN object /\ \A key \in DOMAIN object : x[key] = object[key]
      BY <2>4, <3>3
    <3> QED BY <2>4, <3>4, <3>5 DEF IsObject
  <2>6. ~PlainFactor(object)
    <3>1. op \notin {"amr_identifier", "amr_metadata", "amr_properties"} /\ op \in DOMAIN object
      BY <2>1 DEF Operators, IsArray, Own
    <3> QED BY <3>1 DEF PlainFactor, Only
  <2> QED BY <2>3, <2>4, <2>5, <2>6 DEF x, PlainNode
<1>2. CASE ~IsGroup(object)
  <2>1. node = FactorModel(object, metadata) /\ node.type = "factor"
    BY <1>2, NodeMade
  <2>2. FactorModelOK(object)
    BY <1>2
  <2>3. (/\ FactorModelOK(object)
         /\ FactorOK(FactorModel(object, metadata))
         /\ FactorExpression(FactorModel(object, metadata)) = object)
          <=> PlainFactor(object)
    BY FactorsReturn DEF NamesKnown
  <2>4. NodeExpression(node) = FactorExpression(node)
    BY <2>1, CardWritten
  <2>5. ~IsOperator(object)
    BY <1>2 DEF IsOperator, IsGroup
  <2> QED BY <2>1, <2>2, <2>3, <2>4, <2>5 DEF PlainNode
<1> QED BY <1>1, <1>2

\* No row of a card has quotes in quotes.
CardUnrequoted(card) == \A kind \in Kinds : Unrequoted(card.rows[kind])

\* A node without an error is written as an object of JSON, and one that can be
\* shown.
LEMMA NodeWritten ==
  ASSUME NoObjects, NEW node, Typed(node),
         node.type = "factor" => CardOK(node) /\ FactorOK(node)
  PROVE  LET object == NodeExpression(node) IN
         /\ IsObject(object) /\ IsFactor(object) /\ ~Empty(object) /\ ~Own(object, "essential")
         /\ node.type # "factor" => IsGroup(object)
         /\ (node.type = "factor" => CardUnrequoted(node)) => PlainNode(object)
         /\ node.type = "factor" => ~IsGroup(object) /\ Own(object, "amr_identifier")
<1> DEFINE object == NodeExpression(node)
<1>1. CASE node.type = "factor"
  <2>1. /\ object = FactorExpression(node) /\ IsObject(object) /\ Own(object, "amr_identifier")
        /\ DOMAIN object \subseteq {"amr_identifier", "amr_metadata", "amr_properties"}
    BY <1>1, CardWritten
  <2>2. Filled(node)
    <3>1. /\ FilledName(node.identifier) /\ FilledTime(node.time)
          /\ \A kind \in Kinds : ListOK(node.rows[kind])
      BY <1>1 DEF CardOK
    <3>2. \A kind \in Kinds : /\ IsSequence(node.rows[kind])
                              /\ \A i \in DOMAIN node.rows[kind] : FilledRow(node.rows[kind][i])
      BY <3>1 DEF ListOK, RowOK, RowGiven
    <3> QED BY <3>1, <3>2 DEF Filled
  <2>3. /\ IsFactor(FactorExpression(node))
        /\ CardUnrequoted(node) => PlainFactor(FactorExpression(node))
    BY <1>1, <2>2, CardIsPlain DEF CardUnrequoted
  <2> HIDE DEF object
  <2>4. ~Empty(object) /\ ~Own(object, "essential")
    BY <2>1 DEF Empty, Own
  <2>5. ~IsGroup(object)
    BY <2>1 DEF IsGroup, IsArray, Own, Operators
  <2> QED BY <1>1, <2>1, <2>3, <2>4, <2>5 DEF object, PlainNode
<1>2. CASE node.type # "factor"
  <2>1. PICK op \in Operators : node = GroupNode(op)
    BY <1>2 DEF Typed
  <2>2. /\ IsObject(object) /\ DOMAIN object = {op} /\ object[op] = Items
        /\ IsOperator(object) /\ IsGroup(object) /\ IsFactor(object)
    BY <2>1, GroupWritten
  <2> HIDE DEF object
  <2>3. ~Empty(object) /\ ~Own(object, "essential")
    BY <2>2 DEF Empty, Own, Operators
  <2> QED BY <1>2, <2>2, <2>3 DEF object, PlainNode
<1> QED BY <1>1, <1>2

-------------------------------------------------------------------------------
(* Paths below the first node, and below the root of an expression *)

\* The parent and the place of a path below another one.
LEMMA BelowFront ==
  ASSUME NEW a \in Path, NEW q \in Path, q # <<>>
  PROVE  a \o q \in Path /\ a \o q # <<>> /\ Front(a \o q) = a \o Front(q) /\ Last(a \o q) = Last(q)
<1> DEFINE f == Front(q)
           l == Last(q)
           p == a \o f
<1>1. f \in Path /\ l \in Nat /\ l > 0 /\ q = Append(f, l)
  BY FrontIs
<1> HIDE DEF f, l
<1>2. a \o q = Append(p, l)
  BY <1>1, BelowChild
<1>3. p \in Path
  BY <1>1, BelowIs
<1> HIDE DEF p
<1>4. /\ Append(p, l) \in Path /\ Append(p, l) # <<>>
      /\ Front(Append(p, l)) = p /\ Last(Append(p, l)) = l
  BY <1>1, <1>3, ChildIs
<1> QED BY <1>2, <1>4 DEF p, f, l

\* A path without its first place.
LEMMA TailIs ==
  ASSUME NEW p \in Path, p # <<>>
  PROVE  Tail(p) \in Path /\ p[1] \in Nat /\ p[1] > 0 /\ p = <<p[1]>> \o Tail(p)
<1> DEFINE t == Tail(p)
           i == p[1]
           top == <<i>>
           q == top \o t
<1>1. Len(p) \in Nat /\ Len(p) > 0 /\ \A j \in 1 .. Len(p) : p[j] \in Nat /\ p[j] > 0
  BY PathIs
<1>2. i \in Nat /\ i > 0
  BY <1>1
<1>3. t \in Path /\ Len(t) = Len(p) - 1 /\ \A j \in 1 .. Len(p) - 1 : t[j] = p[j + 1]
  BY <1>1 DEF Path
<1>4. top \in Path /\ Len(top) = 1 /\ top[1] = i
  BY <1>2, TopIs
<1> HIDE DEF t, top
<1>5. /\ q \in Path /\ Len(q) = Len(top) + Len(t)
      /\ \A j \in 1 .. Len(top) : q[j] = top[j]
      /\ \A j \in 1 .. Len(t) : q[Len(top) + j] = t[j]
  BY <1>3, <1>4, BelowIs
<1> HIDE DEF q
<1>6. Len(q) = Len(p)
  BY <1>1, <1>3, <1>4, <1>5
<1>7. ASSUME NEW j \in 1 .. Len(p) PROVE q[j] = p[j]
  <2>1. CASE j = 1
    BY <1>4, <1>5, <2>1
  <2>2. CASE j # 1
    <3>1. j - 1 \in 1 .. Len(t) /\ j - 1 \in 1 .. Len(p) - 1
      BY <1>1, <1>3, <2>2
    <3>2. q[1 + (j - 1)] = t[j - 1] /\ t[j - 1] = p[(j - 1) + 1]
      BY <1>3, <1>4, <1>5, <3>1
    <3>3. 1 + (j - 1) = j /\ (j - 1) + 1 = j
      BY <1>1
    <3> QED BY <3>2, <3>3
  <2> QED BY <2>1, <2>2
<1>8. q = p
  BY <1>5, <1>6, <1>7, SamePath
<1> QED BY <1>2, <1>3, <1>8 DEF q, top, t

\* Below the first node there are the paths of an expression.
LEMMA TailBelow ==
  ASSUME NEW q \in Path
  PROVE  Tail(<<1>> \o q) = q
<1> DEFINE top == <<1>>
           p == top \o q
           t == Tail(p)
<1>1. top \in Path /\ Len(top) = 1 /\ top[1] = 1
  BY TopIs
<1> HIDE DEF top
<1>2. /\ p \in Path /\ Len(p) = Len(top) + Len(q)
      /\ \A j \in 1 .. Len(q) : p[Len(top) + j] = q[j]
  BY <1>1, BelowIs
<1>3. Len(q) \in Nat
  BY PathIs
<1> HIDE DEF p
<1>4. t \in Path /\ Len(t) = Len(p) - 1 /\ \A j \in 1 .. Len(p) - 1 : t[j] = p[j + 1]
  BY <1>1, <1>2, <1>3 DEF Path
<1> HIDE DEF t
<1>5. Len(t) = Len(q)
  BY <1>1, <1>2, <1>3, <1>4
<1>6. \A j \in 1 .. Len(q) : t[j] = q[j]
  <2> SUFFICES ASSUME NEW j \in 1 .. Len(q) PROVE t[j] = q[j]
    OBVIOUS
  <2>1. j \in 1 .. Len(p) - 1
    BY <1>1, <1>2, <1>3
  <2>2. t[j] = p[j + 1] /\ p[1 + j] = q[j]
    BY <1>1, <1>2, <1>4, <2>1
  <2>3. j + 1 = 1 + j
    BY <1>3
  <2> QED BY <2>2, <2>3
<1>7. t = q
  BY <1>4, <1>5, <1>6, SamePath
<1> QED BY <1>7 DEF t, p, top

\* If there is a node there is a first one, and it is above all if it is single.
LEMMA FirstIs ==
  ASSUME NEW nodes, IsForest(nodes), NEW p \in DOMAIN nodes
  PROVE  /\ <<1>> \in DOMAIN nodes
         /\ Single(nodes) => p = <<1>> \o Tail(p) /\ Tail(p) \in Path
<1>1. p \in Path /\ p # <<>>
  BY DEF IsForest
<1> DEFINE t == Tail(p)
           i == p[1]
           top == <<i>>
<1>2. t \in Path /\ i \in Nat /\ i > 0 /\ p = top \o t
  BY <1>1, TailIs
<1>3. top \in Path /\ top # <<>> /\ Len(top) = 1 /\ Front(top) = <<>> /\ Last(top) = i
  BY <1>2, TopIs
<1>4. top \in DOMAIN nodes
  <2> HIDE DEF top, t
  <2> QED BY <1>1, <1>2, <1>3, Upwards
<1>5. <<1>> \in DOMAIN nodes
  <2>1. Placed(nodes, top)
    BY <1>4 DEF IsForest
  <2>2. 1 \in 1 .. Last(top)
    BY <1>2, <1>3
  <2>3. Append(Front(top), 1) \in DOMAIN nodes
    BY <2>1, <2>2 DEF Placed
  <2>4. Append(<<>>, 1) = <<1>>
    BY TopIs
  <2> QED BY <1>3, <2>3, <2>4
<1>6. Single(nodes) => top = <<1>>
  BY <1>3, <1>4 DEF Single
<1> QED BY <1>2, <1>5, <1>6

-------------------------------------------------------------------------------
(* From the builder to JSON *)

\* An expression of JSON before essential is put to its root.
TreeOK(x) ==
  /\ IsObject(x) /\ DOMAIN x \subseteq Path /\ <<>> \in DOMAIN x
  /\ \A q \in DOMAIN x : /\ IsObject(x[q]) /\ IsFactor(x[q]) /\ ~Own(x[q], "essential")
                         /\ Empty(x[q]) => q = <<>> /\ DOMAIN x = {<<>>}
  /\ \A q \in DOMAIN x \ {<<>>} :
       Front(q) \in DOMAIN x /\ IsGroup(x[Front(q)]) /\ Placed(x, q)
TreePlain(x) ==
  \A q \in DOMAIN x : \/ Empty(x[q])
                      \/ PlainFactor(x[q])
                      \/ IsOperator(x[q]) /\ HasChildren(x, q)

\* The nodes of the builder, when each can be written.
Writable(nodes) == NodesOK(nodes) /\ \A path \in DOMAIN nodes : NodeOK(nodes, path)
NodesUnrequoted(nodes) ==
  \A path \in DOMAIN nodes : nodes[path].type = "factor" => CardUnrequoted(nodes[path])

\* Each is written as an object, a group with what is below it.
LEMMA EachWritten ==
  ASSUME NoObjects, NEW nodes, Writable(nodes), NEW p \in DOMAIN nodes
  PROVE  LET object == NodeExpression(nodes[p]) IN
         /\ IsObject(object) /\ IsFactor(object) /\ ~Empty(object) /\ ~Own(object, "essential")
         /\ nodes[p].type = "group" => IsGroup(object)
         /\ NodesUnrequoted(nodes) =>
              PlainFactor(object) \/ (IsOperator(object) /\ HasChildren(nodes, p))
<1> DEFINE node == nodes[p]
           object == NodeExpression(node)
<1>1. Typed(node)
  BY DEF Writable, NodesOK, IsForest, Typed
<1>2. node.type = "factor" => CardOK(node) /\ FactorOK(node)
  BY DEF Writable, NodesOK, NodeOK
<1>3. node.type # "factor" => HasChildren(nodes, p)
  BY DEF Writable, NodeOK
<1>4. NodesUnrequoted(nodes) => (node.type = "factor" => CardUnrequoted(node))
  BY DEF NodesUnrequoted
<1> HIDE DEF node
<1>5. /\ IsObject(object) /\ IsFactor(object) /\ ~Empty(object) /\ ~Own(object, "essential")
      /\ node.type # "factor" => IsGroup(object)
      /\ (node.type = "factor" => CardUnrequoted(node)) => PlainNode(object)
      /\ node.type = "factor" => ~IsGroup(object)
  BY <1>1, <1>2, NodeWritten
<1> HIDE DEF object
<1>6. IsOperator(object) => IsGroup(object)
  BY DEF IsOperator, IsGroup
<1>7. node.type = "group" => node.type # "factor"
  OBVIOUS
<1>8. NodesUnrequoted(nodes) =>
        PlainFactor(object) \/ (IsOperator(object) /\ HasChildren(nodes, p))
  BY <1>3, <1>4, <1>5, <1>6 DEF PlainNode
<1> QED BY <1>5, <1>7, <1>8 DEF object, node

\* A single node is the expression.
LEMMA SingleWritten ==
  ASSUME NoObjects, NEW nodes, Writable(nodes), Single(nodes), NEW form1
  PROVE  LET x == NodeExpressions(nodes, form1) IN
         TreeOK(x) /\ (NodesUnrequoted(nodes) => TreePlain(x)) /\ ~Empty(x[<<>>])
<1> DEFINE x == NodeExpressions(nodes, form1)
           top == <<1>>
           paths == {Tail(p) : p \in DOMAIN nodes}
<1>1. x = [q \in paths |-> NodeExpression(nodes[top \o q])]
  BY DEF NodeExpressions
<1>2. IsForest(nodes)
  BY DEF Writable, NodesOK
<1>3. top \in Path /\ top # <<>> /\ Len(top) = 1 /\ <<>> \in Path
  BY TopIs
<1>4. top \in DOMAIN nodes
  BY DEF Single
<1>5. \A p \in DOMAIN nodes : p = top \o Tail(p) /\ Tail(p) \in Path
  BY <1>2, FirstIs
<1>6. \A q \in Path : Tail(top \o q) = q
  BY TailBelow
<1> HIDE DEF x, top
<1>7. \A q \in Path : q \in paths <=> top \o q \in DOMAIN nodes
  <2> SUFFICES ASSUME NEW q \in Path PROVE q \in paths <=> top \o q \in DOMAIN nodes
    OBVIOUS
  <2>1. ASSUME q \in paths PROVE top \o q \in DOMAIN nodes
    <3>1. PICK p \in DOMAIN nodes : q = Tail(p)
      BY <2>1
    <3> QED BY <1>5, <3>1
  <2>2. ASSUME top \o q \in DOMAIN nodes PROVE q \in paths
    <3>1. q = Tail(top \o q)
      BY <1>6
    <3> QED BY <2>2, <3>1
  <2> QED BY <2>1, <2>2
<1>8. paths \subseteq Path
  BY <1>5
<1> HIDE DEF paths
<1>9. top \o <<>> = top
  BY <1>3 DEF Path
<1>10. <<>> \in paths
  BY <1>3, <1>4, <1>7, <1>9
<1>11. IsObject(x) /\ DOMAIN x = paths /\ \A q \in paths : x[q] = NodeExpression(nodes[top \o q])
  BY <1>1 DEF IsObject
<1>12. ASSUME NEW q \in paths
       PROVE  LET object == x[q] IN
              /\ IsObject(object) /\ IsFactor(object) /\ ~Empty(object) /\ ~Own(object, "essential")
              /\ nodes[top \o q].type = "group" => IsGroup(object)
              /\ NodesUnrequoted(nodes) =>
                   PlainFactor(object) \/ (IsOperator(object) /\ HasChildren(nodes, top \o q))
  <2> DEFINE p == top \o q
  <2>1. p \in DOMAIN nodes
    BY <1>7, <1>8
  <2>2. x[q] = NodeExpression(nodes[p])
    BY <1>11
  <2> HIDE DEF p
  <2> DEFINE object == NodeExpression(nodes[p])
  <2>3. /\ IsObject(object) /\ IsFactor(object) /\ ~Empty(object) /\ ~Own(object, "essential")
        /\ nodes[p].type = "group" => IsGroup(object)
        /\ NodesUnrequoted(nodes) =>
             PlainFactor(object) \/ (IsOperator(object) /\ HasChildren(nodes, p))
    BY <2>1, EachWritten
  <2> HIDE DEF object
  <2>4. x[q] = object
    BY <2>2 DEF object
  <2> QED BY <2>3, <2>4 DEF p
<1>13. ASSUME NEW q \in paths, q # <<>>
       PROVE  Front(q) \in paths /\ IsGroup(x[Front(q)]) /\ Placed(x, q)
  <2> DEFINE p == top \o q
             f == Front(q)
  <2>1. p \in DOMAIN nodes /\ q \in Path
    BY <1>7, <1>8
  <2>2. f \in Path /\ Last(q) \in Nat
    BY <1>13, <2>1, FrontIs
  <2>3. Front(p) = top \o f /\ Last(p) = Last(q) /\ p \in Path
    BY <1>3, <1>13, <2>1, BelowFront
  <2>4. Len(p) > 1
    <3>1. Len(p) = Len(top) + Len(q)
      BY <1>3, <2>1, BelowIs
    <3>2. Len(q) \in Nat /\ Len(q) # 0
      BY <1>13, <2>1, PathIs
    <3> HIDE DEF p
    <3> QED BY <1>3, <3>1, <3>2
  <2> HIDE DEF p, f
  <2>5. Front(p) \in DOMAIN nodes /\ nodes[Front(p)].type = "group" /\ Placed(nodes, p)
    BY <1>2, <2>1, <2>4 DEF IsForest
  <2>6. f \in paths
    BY <1>7, <2>2, <2>3, <2>5
  <2>7. IsGroup(x[f])
    BY <1>12, <2>3, <2>5, <2>6
  <2>8. ASSUME NEW i \in 1 .. Last(q) PROVE Append(f, i) \in paths
    <3>1. Append(top \o f, i) \in DOMAIN nodes
      BY <2>3, <2>5 DEF Placed
    <3>2. i \in Nat /\ i > 0
      BY <2>2
    <3>3. top \o Append(f, i) = Append(top \o f, i)
      BY <1>3, <2>2, <3>2, BelowChild
    <3>4. Append(f, i) \in Path
      BY <2>2, <3>2, ChildIs
    <3> QED BY <1>7, <3>1, <3>3, <3>4
  <2>9. Placed(x, q)
    BY <1>11, <2>8 DEF Placed, f
  <2> QED BY <2>6, <2>7, <2>9 DEF f
<1>14. ASSUME NEW q \in paths, HasChildren(nodes, top \o q) PROVE HasChildren(x, q)
  <2>1. q \in Path
    BY <1>8
  <2>2. top \o Append(q, 1) = Append(top \o q, 1)
    BY <1>3, <2>1, BelowChild
  <2>3. Append(q, 1) \in Path
    BY <2>1, ChildIs
  <2>4. Append(q, 1) \in paths
    BY <1>7, <1>14, <2>2, <2>3 DEF HasChildren
  <2> QED BY <1>11, <2>4 DEF HasChildren
<1>15. TreeOK(x)
  BY <1>8, <1>10, <1>11, <1>12, <1>13 DEF TreeOK
<1>16. NodesUnrequoted(nodes) => TreePlain(x)
  BY <1>11, <1>12, <1>14 DEF TreePlain
<1>17. ~Empty(x[<<>>])
  BY <1>10, <1>12
<1> QED BY <1>15, <1>16, <1>17 DEF x

\* Several nodes are an array of the form's operator, and none is nothing.
LEMMA ListWritten ==
  ASSUME NoObjects, NEW nodes, Writable(nodes), ~Single(nodes),
         NEW form1, form1.operator \in Operators
  PROVE  LET x == NodeExpressions(nodes, form1) IN
         TreeOK(x) /\ (NodesUnrequoted(nodes) => TreePlain(x))
<1> DEFINE x == NodeExpressions(nodes, form1)
           some == DOMAIN nodes # {}
           op == form1.operator
           array == Member(op, Items, some)
<1>1. x = [q \in DOMAIN nodes \cup {<<>>} |-> IF q = <<>> THEN array ELSE NodeExpression(nodes[q])]
  BY DEF NodeExpressions
<1>2. IsForest(nodes)
  BY DEF Writable, NodesOK
<1>3. <<>> \notin DOMAIN nodes /\ DOMAIN nodes \subseteq Path /\ <<>> \in Path
  <2>1. <<>> \in Path
    BY EmptySeq DEF Path
  <2> QED BY <1>2, <2>1 DEF IsForest
<1>4. /\ IsObject(array) /\ DOMAIN array = (IF some THEN {op} ELSE {})
      /\ some => array[op] = Items
  BY MemberIs
<1> HIDE DEF x, array
<1>5. /\ IsObject(x) /\ DOMAIN x = DOMAIN nodes \cup {<<>>} /\ x[<<>>] = array
      /\ \A q \in DOMAIN nodes : x[q] = NodeExpression(nodes[q])
  BY <1>1, <1>3 DEF IsObject
<1>6. op \notin {"amr_identifier", "amr_metadata", "amr_properties", "essential"}
  BY DEF Operators
<1>7. /\ IsFactor(array) /\ ~Own(array, "essential")
      /\ some => IsGroup(array) /\ IsOperator(array)
      /\ ~some => Empty(array)
  <2> HIDE DEF op, some
  <2>1. ~Own(array, "essential")
    BY <1>4, <1>6 DEF Own
  <2>2. IsFactor(array)
    BY <1>4, <1>6 DEF IsFactor, Own
  <2>3. op \in Operators
    BY DEF op
  <2>4. some => IsGroup(array) /\ IsOperator(array)
    BY <1>4, <2>3 DEF IsGroup, IsOperator, IsArray, Own
  <2> QED BY <1>4, <2>1, <2>2, <2>4 DEF Empty
<1>8. ASSUME some PROVE HasChildren(x, <<>>) /\ ~Empty(array)
  <2>1. PICK p : p \in DOMAIN nodes
    BY <1>8
  <2>2. <<1>> \in DOMAIN nodes
    BY <1>2, <2>1, FirstIs
  <2>3. Append(<<>>, 1) = <<1>>
    BY TopIs
  <2>4. ~Empty(array)
    BY <1>4, <1>8 DEF Empty
  <2> QED BY <1>5, <2>2, <2>3, <2>4 DEF HasChildren
<1>9. ASSUME NEW q \in DOMAIN nodes
      PROVE  LET object == x[q] IN
             /\ IsObject(object) /\ IsFactor(object) /\ ~Empty(object) /\ ~Own(object, "essential")
             /\ nodes[q].type = "group" => IsGroup(object)
             /\ NodesUnrequoted(nodes) =>
                  PlainFactor(object) \/ (IsOperator(object) /\ HasChildren(nodes, q))
  BY <1>5, EachWritten
<1>10. ASSUME NEW q \in DOMAIN nodes
       PROVE  Front(q) \in DOMAIN x /\ IsGroup(x[Front(q)]) /\ Placed(x, q)
  <2> DEFINE f == Front(q)
  <2>1. q \in Path /\ q # <<>>
    BY <1>3
  <2>2. f \in Path /\ Len(f) = Len(q) - 1 /\ Len(q) \in Nat
    BY <2>1, FrontIs, PathIs
  <2>3. Placed(x, q)
    BY <1>2, <1>5 DEF IsForest, Placed
  <2>4. Len(q) > 1 => f \in DOMAIN nodes /\ nodes[f].type = "group"
    BY <1>2 DEF IsForest
  <2> HIDE DEF f
  <2>5. CASE f = <<>>
    BY <1>5, <1>7, <2>3, <2>5 DEF f
  <2>6. CASE f # <<>>
    <3>1. Len(f) # 0 /\ Len(f) \in Nat
      BY <2>2, <2>6, PathIs
    <3>2. Len(q) > 1
      BY <2>2, <3>1
    <3> QED BY <1>5, <1>9, <2>3, <2>4, <3>2 DEF f
  <2> QED BY <2>5, <2>6
<1>11. DOMAIN x \subseteq Path
  BY <1>3, <1>5
<1>12. ASSUME NEW q \in DOMAIN x
       PROVE  /\ IsObject(x[q]) /\ IsFactor(x[q]) /\ ~Own(x[q], "essential")
              /\ Empty(x[q]) => q = <<>> /\ DOMAIN x = {<<>>}
  <2>1. CASE q = <<>>
    <3>1. Empty(array) => DOMAIN x = {<<>>}
      BY <1>5, <1>8
    <3> QED BY <1>4, <1>5, <1>7, <2>1, <3>1
  <2>2. CASE q # <<>>
    BY <1>5, <1>9, <2>2
  <2> QED BY <2>1, <2>2
<1>13. TreeOK(x)
  <2>1. \A q \in DOMAIN x \ {<<>>} : Front(q) \in DOMAIN x /\ IsGroup(x[Front(q)]) /\ Placed(x, q)
    BY <1>5, <1>10
  <2> QED BY <1>5, <1>11, <1>12, <2>1 DEF TreeOK
<1>14. ASSUME NodesUnrequoted(nodes) PROVE TreePlain(x)
  <2> SUFFICES ASSUME NEW q \in DOMAIN x
               PROVE  \/ Empty(x[q])
                      \/ PlainFactor(x[q])
                      \/ IsOperator(x[q]) /\ HasChildren(x, q)
    BY DEF TreePlain
  <2>1. CASE q = <<>>
    BY <1>5, <1>7, <1>8, <2>1
  <2>2. CASE q # <<>>
    <3>1. q \in DOMAIN nodes
      BY <1>5, <2>2
    <3>2. HasChildren(nodes, q) => HasChildren(x, q)
      BY <1>5 DEF HasChildren
    <3> QED BY <1>9, <1>14, <3>1, <3>2
  <2> QED BY <2>1, <2>2
<1> QED BY <1>13, <1>14 DEF x

\* What is written of the nodes.
LEMMA NodesWritten ==
  ASSUME NoObjects, NEW nodes, Writable(nodes), NEW form1, form1.operator \in Operators
  PROVE  LET x == NodeExpressions(nodes, form1) IN
         TreeOK(x) /\ (NodesUnrequoted(nodes) => TreePlain(x))
BY SingleWritten, ListWritten

\* buildClaims: essential is put to the root, and nothing at all is null.
DetailsFrom(b, x) ==
  LET r == Member("essential", TRUE, b) ++ x[<<>>] IN
  IF Empty(r) THEN null ELSE [x EXCEPT ![<<>>] = r]

\* That is what buildClaims writes.
LEMMA BuildIs ==
  ASSUME NEW nodes, NEW form1
  PROVE  BuildDetails(nodes, form1) = DetailsFrom(form1.essential, NodeExpressions(nodes, form1))
BY DEF BuildDetails, DetailsFrom

\* It is amr_details as JSON has it, and plain if the expression is.
LEMMA DetailsWritten ==
  ASSUME NoObjects, NEW x, TreeOK(x), NEW b \in BOOLEAN
  PROVE  LET details == DetailsFrom(b, x) IN
         IsDetails(details) /\ (TreePlain(x) => PlainDetails(details))
<1> DEFINE top == x[<<>>]
           r == Member("essential", TRUE, b) ++ top
           d == [x EXCEPT ![<<>>] = r]
           details == DetailsFrom(b, x)
<1>1. /\ IsObject(x) /\ DOMAIN x \subseteq Path /\ <<>> \in DOMAIN x
      /\ \A q \in DOMAIN x : /\ IsObject(x[q]) /\ IsFactor(x[q]) /\ ~Own(x[q], "essential")
                             /\ Empty(x[q]) => q = <<>> /\ DOMAIN x = {<<>>}
      /\ \A q \in DOMAIN x \ {<<>>} :
           Front(q) \in DOMAIN x /\ IsGroup(x[Front(q)]) /\ Placed(x, q)
  BY DEF TreeOK
<1>2. IsObject(top) /\ IsFactor(top) /\ ~Own(top, "essential")
  BY <1>1
<1>3. RootIs(r, b, top)
  BY RootMade
<1>4. details = IF Empty(r) THEN null ELSE d
  BY DEF DetailsFrom
<1> HIDE DEF r, top
<1>5. /\ IsObject(r) /\ DOMAIN r = DOMAIN top \cup (IF b THEN {"essential"} ELSE {})
      /\ b => r["essential"] = TRUE
      /\ \A key \in DOMAIN top : r[key] = top[key]
  BY <1>2, <1>3 DEF RootIs, Own
<1>6. SameRequest(r, top)
  BY <1>5 DEF SameRequest, RequestKeys, Own
<1>7. IsFactor(r)
  BY <1>2, <1>5, <1>6, SameObjects
<1>8. \A object : IsObject(object) => object \notin {null, Other}
  BY DEF NoObjects
<1>9. IsObject(d) /\ DOMAIN d = DOMAIN x /\ d[<<>>] = r /\ \A q \in DOMAIN x \ {<<>>} : d[q] = x[q]
  BY <1>1 DEF IsObject
<1> HIDE DEF d, details
<1>10. IsGroup(top) => IsGroup(r)
  BY <1>5 DEF IsGroup, IsArray, Own
<1>11. \A q \in DOMAIN x : IsGroup(x[q]) => IsGroup(d[q])
  BY <1>9, <1>10 DEF top
<1>12. \A q \in DOMAIN x : IsObject(d[q]) /\ IsFactor(d[q]) /\ d[q] \notin {null, Other}
  <2> SUFFICES ASSUME NEW q \in DOMAIN x
               PROVE  IsObject(d[q]) /\ IsFactor(d[q]) /\ d[q] \notin {null, Other}
    OBVIOUS
  <2>1. IsObject(d[q]) /\ IsFactor(d[q])
    BY <1>1, <1>5, <1>7, <1>9
  <2> QED BY <1>8, <2>1
<1>13. IsExpression(d)
  <2>1. d = [path \in DOMAIN d |-> d[path]]
    BY <1>9 DEF IsObject
  <2>2. \A path \in DOMAIN d \ {<<>>} :
          /\ Front(path) \in DOMAIN d /\ d[Front(path)] \notin {null, Other}
          /\ IsGroup(d[Front(path)])
          /\ Placed(d, path)
    BY <1>1, <1>9, <1>11, <1>12 DEF Placed
  <2> QED BY <1>1, <1>9, <1>12, <2>1, <2>2 DEF IsExpression
<1>14. IsDetails(details)
  <2>1. CASE Empty(r)
    BY <1>4, <2>1 DEF IsDetails
  <2>2. CASE ~Empty(r)
    BY <1>1, <1>4, <1>12, <1>13, <2>2 DEF IsDetails
  <2> QED BY <2>1, <2>2
<1>15. ASSUME TreePlain(x) PROVE PlainDetails(details)
  <2>1. CASE Empty(r)
    BY <1>4, <2>1 DEF PlainDetails
  <2>2. CASE ~Empty(r)
    <3>1. details = d /\ d # Other
      BY <1>4, <1>8, <1>9, <2>2
    <3>2. Written(r, "essential")
      BY <1>2, <1>5 DEF Written, Own
    <3>3. Rest(r) = top
      <4> DEFINE rest == Rest(r)
      <4>1. IsObject(rest) /\ DOMAIN rest = DOMAIN r \ {"essential"}
            /\ \A key \in DOMAIN rest : rest[key] = r[key]
        BY RestIs
      <4> HIDE DEF rest
      <4>2. DOMAIN rest = DOMAIN top
        BY <1>2, <1>5, <4>1 DEF Own
      <4>3. \A key \in DOMAIN top : rest[key] = top[key]
        BY <1>5, <4>1, <4>2
      <4>4. rest = top
        BY <1>2, <4>1, <4>2, <4>3 DEF IsObject
      <4> QED BY <4>4 DEF rest
    <3>4. [d EXCEPT ![<<>>] = top] = x
      <4> DEFINE again == [d EXCEPT ![<<>>] = top]
      <4>1. IsObject(again) /\ DOMAIN again = DOMAIN d /\ again[<<>>] = top
            /\ \A q \in DOMAIN d \ {<<>>} : again[q] = d[q]
        BY <1>1, <1>9 DEF IsObject
      <4> HIDE DEF again
      <4>2. \A q \in DOMAIN x : again[q] = x[q]
        BY <1>9, <4>1 DEF top
      <4>3. again = x
        BY <1>1, <1>9, <4>1, <4>2 DEF IsObject
      <4> QED BY <4>3 DEF again
    <3>5. Empty(top) \/ PlainExpression(x)
      <4> SUFFICES ASSUME ~Empty(top) PROVE PlainExpression(x)
        OBVIOUS
      <4>1. ASSUME NEW q \in DOMAIN x
            PROVE  /\ x[q] \notin {null, Other}
                   /\ \/ PlainFactor(x[q])
                      \/ /\ \E op \in Operators : DOMAIN x[q] = {op} /\ IsArray(x[q], op)
                         /\ HasChildren(x, q)
        <5>1. ~Empty(x[q])
          BY <1>1 DEF top
        <5>2. x[q] \notin {null, Other}
          BY <1>1, <1>8
        <5> QED BY <1>15, <5>1, <5>2 DEF TreePlain, IsOperator
      <4> QED BY <4>1 DEF PlainExpression
    <3>6. Rest(d[<<>>]) = top /\ Written(d[<<>>], "essential") /\ ~Empty(d[<<>>])
      BY <1>9, <2>2, <3>2, <3>3
    <3>7. LET rest == Rest(d[<<>>]) IN Empty(rest) \/ PlainExpression([d EXCEPT ![<<>>] = rest])
      BY <3>4, <3>5, <3>6
    <3>8. PlainDetails(d)
      BY <3>1, <3>6, <3>7 DEF PlainDetails, Rest
    <3> QED BY <3>1, <3>8
  <2> QED BY <2>1, <2>2
<1> QED BY <1>14, <1>15 DEF details

\* buildClaims writes amr_details as JSON has it, and what the builder can show.
LEMMA BuiltIs ==
  ASSUME NoObjects, NEW nodes, Writable(nodes),
         NEW form1, form1.operator \in Operators, form1.essential \in BOOLEAN
  PROVE  LET details == BuildDetails(nodes, form1) IN
         IsDetails(details) /\ (NodesUnrequoted(nodes) => PlainDetails(details))
<1> DEFINE x == NodeExpressions(nodes, form1)
           b == form1.essential
<1>1. TreeOK(x) /\ (NodesUnrequoted(nodes) => TreePlain(x))
  BY NodesWritten
<1>2. BuildDetails(nodes, form1) = DetailsFrom(b, x) /\ b \in BOOLEAN
  BY BuildIs
<1> HIDE DEF x, b
<1>3. IsDetails(DetailsFrom(b, x)) /\ (TreePlain(x) => PlainDetails(DetailsFrom(b, x)))
  BY <1>1, <1>2, DetailsWritten
<1> QED BY <1>1, <1>2, <1>3

-------------------------------------------------------------------------------
(* From JSON to the builder and back *)

\* Nothing but essential, if it is set.
OnlyEssential(details, b) ==
  /\ ~b => details = null
  /\ b => /\ IsObject(details) /\ DOMAIN details = {<<>>}
          /\ IsObject(details[<<>>]) /\ DOMAIN details[<<>>] = {"essential"}
          /\ details[<<>>]["essential"] = TRUE

\* That is written of no nodes.
LEMMA NothingWritten ==
  ASSUME NEW form1, form1.essential \in BOOLEAN, NEW none, none = <<>>
  PROVE  OnlyEssential(BuildDetails(none, form1), form1.essential)
<1> DEFINE x == NodeExpressions(none, form1)
           b == form1.essential
           array == Member(form1.operator, Items, FALSE)
           r == Member("essential", TRUE, b) ++ array
           d == [x EXCEPT ![<<>>] = r]
<1>1. DOMAIN none = {}
  BY NoNodes
<1>2. ~Single(none)
  BY <1>1 DEF Single
<1>3. x = [q \in {<<>>} |-> array]
  <2>1. x = [q \in DOMAIN none \cup {<<>>} |-> IF q = <<>> THEN Member(form1.operator, Items, DOMAIN none # {})
                                               ELSE NodeExpression(none[q])]
    BY <1>2 DEF NodeExpressions
  <2>2. DOMAIN none \cup {<<>>} = {<<>>}
    BY <1>1
  <2>3. Member(form1.operator, Items, DOMAIN none # {}) = array
    BY <1>1
  <2> HIDE DEF x, array
  <2> QED BY <2>1, <2>2, <2>3
<1>4. IsObject(array) /\ DOMAIN array = {}
  BY MemberIs
<1>5. RootIs(r, b, array)
  BY RootMade
<1> HIDE DEF array, r
<1>6. IsObject(r) /\ DOMAIN r = (IF b THEN {"essential"} ELSE {}) /\ (b => r["essential"] = TRUE)
  BY <1>4, <1>5 DEF RootIs
<1>7. x[<<>>] = array
  BY <1>3
<1>8. BuildDetails(none, form1) = IF Empty(r) THEN null ELSE d
  BY <1>7, BuildIs DEF DetailsFrom, r
<1>9. IsObject(d) /\ DOMAIN d = {<<>>} /\ d[<<>>] = r
  <2> HIDE DEF x
  <2> QED BY <1>3 DEF IsObject
<1> HIDE DEF d
<1>10. CASE b
  BY <1>6, <1>8, <1>9, <1>10 DEF Empty, OnlyEssential
<1>11. CASE ~b
  BY <1>6, <1>8, <1>11 DEF Empty, OnlyEssential
<1> QED BY <1>10, <1>11

\* An expression whose root is no array has nothing below it.
LEMMA RootOnly ==
  ASSUME NEW e, IsExpression(e), ~IsGroup(e[<<>>])
  PROVE  DOMAIN e = {<<>>}
<1>1. DOMAIN e \subseteq Path /\ <<>> \in DOMAIN e
  BY DEF IsExpression
<1> SUFFICES ASSUME DOMAIN e # {<<>>} PROVE FALSE
  OBVIOUS
<1> DEFINE paths == DOMAIN e \ {<<>>}
           lengths == {Len(p) : p \in paths}
<1>2. paths # {} /\ \A p \in paths : p \in Path /\ p # <<>> /\ Len(p) \in Nat
  BY <1>1, PathIs
<1> HIDE DEF paths
<1>3. lengths \subseteq Nat /\ lengths # {}
  BY <1>2
<1>4. PICK n \in lengths : \A k \in lengths : n <= k
  BY <1>3, Least
<1>5. PICK p \in paths : n = Len(p)
  BY <1>4
<1>6. \A q \in paths : Len(p) <= Len(q)
  BY <1>4, <1>5
<1>7. Front(p) \in DOMAIN e /\ IsGroup(e[Front(p)])
  BY <1>5 DEF IsExpression, paths
<1>8. Len(Front(p)) = Len(p) - 1 /\ Len(p) \in Nat
  BY <1>2, <1>5, FrontIs
<1>9. Front(p) = <<>>
  <2> SUFFICES ASSUME Front(p) # <<>> PROVE FALSE
    OBVIOUS
  <2>1. Front(p) \in paths
    BY <1>7 DEF paths
  <2>2. Len(p) <= Len(Front(p))
    BY <1>6, <2>1
  <2> QED BY <1>8, <2>2
<1> QED BY <1>7, <1>9

\* amr_details without an expression comes back exactly if it is plain.
LEMMA NoExpressionReturns ==
  ASSUME NoObjects, NEW d, IsDetails(d), d # Other, ~HasExpression(d),
         NEW form1, form1.essential \in BOOLEAN,
         form1.essential <=> d # null /\ IsTrue(d[<<>>], "essential"),
         NEW none, none = <<>>
  PROVE  BuildDetails(none, form1) = d <=> PlainDetails(d)
<1> DEFINE D == BuildDetails(none, form1)
           b == form1.essential
<1>1. b \in BOOLEAN
  OBVIOUS
<1>2. OnlyEssential(D, b)
  BY <1>1, NothingWritten
<1>3. b <=> d # null /\ IsTrue(d[<<>>], "essential")
  OBVIOUS
<1> HIDE DEF D, b
<1>4. CASE d = null
  <2>1. ~b
    BY <1>3, <1>4
  <2> QED BY <1>2, <1>4, <2>1 DEF PlainDetails, D, OnlyEssential
<1>5. CASE d # null
  <2> DEFINE o == d[<<>>]
             rest == Rest(o)
  <2>1. IsExpression(d) /\ o \notin {null, Other}
    BY <1>5 DEF IsDetails
  <2>2. \A key \in Operators \cup {"amr_identifier"} : ~Own(o, key)
    BY <1>5 DEF HasExpression
  <2>3. ~IsGroup(o)
    BY <2>2 DEF IsGroup, IsArray
  <2>4. DOMAIN d = {<<>>} /\ IsObject(d)
    BY <2>1, <2>3, RootOnly DEF IsExpression, IsObject
  <2>5. IsObject(o)
    BY <2>1, <2>4 DEF IsExpression, IsFactor
  <2>6. b <=> IsTrue(o, "essential")
    BY <1>3, <1>5
  <2>7. /\ IsObject(rest) /\ DOMAIN rest = DOMAIN o \ {"essential"}
        /\ SameRequest(rest, o)
    BY RestIs
  <2>8. PlainDetails(d) <=> /\ Written(o, "essential") /\ ~Empty(o)
                            /\ Empty(rest) \/ PlainExpression([d EXCEPT ![<<>>] = rest])
    BY <1>5 DEF PlainDetails, Rest
  <2>9. ~PlainExpression([d EXCEPT ![<<>>] = rest])
    <3> DEFINE again == [d EXCEPT ![<<>>] = rest]
    <3>1. <<>> \in DOMAIN again /\ again[<<>>] = rest
      BY <2>4
    <3> HIDE DEF again, rest
    <3>2. \A key \in Operators \cup {"amr_identifier"} : ~Own(rest, key)
      BY <2>2, <2>7 DEF Own
    <3>3. ~PlainFactor(rest)
      BY <3>2 DEF PlainFactor
    <3>4. ~\E op \in Operators : DOMAIN rest = {op} /\ IsArray(rest, op)
      BY <3>2 DEF IsArray
    <3>5. ~PlainExpression(again)
      BY <3>1, <3>3, <3>4 DEF PlainExpression
    <3> QED BY <3>5 DEF again
  <2> HIDE DEF o, rest
  <2>10. PlainDetails(d) <=> Written(o, "essential") /\ ~Empty(o) /\ Empty(rest)
    BY <2>8, <2>9
  <2>11. PlainDetails(d) <=> DOMAIN o = {"essential"} /\ o["essential"] = TRUE
    BY <2>7, <2>10 DEF Written, Empty, Own
  <2>12. ASSUME D = d PROVE PlainDetails(d)
    <3>1. b
      BY <1>2, <1>5, <2>12 DEF OnlyEssential
    <3> QED BY <1>2, <2>11, <2>12, <3>1 DEF o, OnlyEssential
  <2>13. ASSUME PlainDetails(d) PROVE D = d
    <3>1. DOMAIN o = {"essential"} /\ o["essential"] = TRUE
      BY <2>11, <2>13
    <3>2. b
      BY <2>6, <3>1 DEF IsTrue, Own
    <3>3. IsObject(D) /\ DOMAIN D = {<<>>} /\ IsObject(D[<<>>])
          /\ DOMAIN D[<<>>] = {"essential"} /\ D[<<>>]["essential"] = TRUE
      BY <1>2, <3>2 DEF OnlyEssential
    <3>4. D[<<>>] = o
      <4> DEFINE p == D[<<>>]
      <4> HIDE DEF p
      <4>1. IsObject(p) /\ DOMAIN p = DOMAIN o /\ \A key \in DOMAIN o : p[key] = o[key]
        BY <3>1, <3>3 DEF p
      <4>2. p = o
        BY <2>5, <4>1 DEF IsObject
      <4> QED BY <4>2 DEF p
    <3>5. DOMAIN D = DOMAIN d /\ \A q \in DOMAIN d : D[q] = d[q]
      BY <2>4, <3>3, <3>4 DEF o
    <3> QED BY <2>4, <3>3, <3>5 DEF IsObject
  <2> QED BY <2>12, <2>13 DEF D
<1> QED BY <1>4, <1>5

\* The nodes of one node at the top.
Lifted(nodes, tree) ==
  /\ DOMAIN tree \subseteq Path /\ <<>> \in DOMAIN tree
  /\ DOMAIN nodes = {<<1>> \o p : p \in DOMAIN tree}
  /\ \A p \in DOMAIN tree : nodes[<<1>> \o p] = tree[p]

\* They are written node by node.
LiftedWritten(nodes, tree, x) ==
  /\ IsObject(x) /\ DOMAIN x = DOMAIN tree
  /\ \A q \in DOMAIN tree : x[q] = NodeExpression(tree[q])
  /\ (\A path \in DOMAIN nodes : NodeOK(nodes, path)) <=> \A q \in DOMAIN tree : NodeOK(tree, q)

\* A single node at the top stands for the whole expression.
LEMMA LiftedIsWritten ==
  ASSUME NEW nodes, NEW tree, Lifted(nodes, tree), NEW form1
  PROVE  LiftedWritten(nodes, tree, NodeExpressions(nodes, form1))
<1> DEFINE x == NodeExpressions(nodes, form1)
           top == <<1>>
<1>1. top \in Path /\ Len(top) = 1 /\ <<>> \in Path
  BY TopIs
<1>2. /\ DOMAIN tree \subseteq Path /\ <<>> \in DOMAIN tree
      /\ DOMAIN nodes = {top \o p : p \in DOMAIN tree}
      /\ \A p \in DOMAIN tree : nodes[top \o p] = tree[p]
  BY DEF Lifted
<1>3. \A q \in Path : Tail(top \o q) = q
  BY TailBelow
<1>4. top \o <<>> = top
  BY <1>1 DEF Path
<1>5. Single(nodes)
  <2>1. ASSUME NEW path \in DOMAIN nodes, Len(path) = 1 PROVE path = top
    <3>1. PICK p \in DOMAIN tree : path = top \o p
      BY <1>2
    <3>2. p \in Path
      BY <1>2
    <3>3. Len(path) = Len(top) + Len(p)
      BY <1>1, <3>1, <3>2, BelowIs
    <3>4. Len(p) \in Nat /\ (p = <<>> <=> Len(p) = 0)
      BY <3>2, PathIs
    <3> HIDE DEF top
    <3> DEFINE n == Len(p)
    <3>5. 1 = 1 + n /\ n \in Nat
      BY <1>1, <2>1, <3>3, <3>4
    <3> HIDE DEF n
    <3>6. n = 0
      BY <3>5
    <3>7. p = <<>>
      BY <3>4, <3>6 DEF n
    <3> QED BY <1>4, <3>1, <3>7
  <2>2. top \in DOMAIN nodes
    BY <1>2, <1>4
  <2> HIDE DEF top
  <2>3. {path \in DOMAIN nodes : Len(path) = 1} = {top}
    BY <1>1, <2>1, <2>2
  <2> QED BY <2>3 DEF Single, top
<1>6. x = [q \in {Tail(p) : p \in DOMAIN nodes} |-> NodeExpression(nodes[top \o q])]
  BY <1>5 DEF NodeExpressions
<1> HIDE DEF x, top
<1>7. {Tail(p) : p \in DOMAIN nodes} = DOMAIN tree
  <2>1. ASSUME NEW p \in DOMAIN nodes PROVE Tail(p) \in DOMAIN tree
    <3>1. PICK q \in DOMAIN tree : p = top \o q
      BY <1>2
    <3>2. Tail(p) = q
      BY <1>2, <1>3, <3>1
    <3> QED BY <3>2
  <2>2. ASSUME NEW q \in DOMAIN tree PROVE \E p \in DOMAIN nodes : q = Tail(p)
    <3>1. top \o q \in DOMAIN nodes /\ Tail(top \o q) = q
      BY <1>2, <1>3
    <3> QED BY <3>1
  <2> QED BY <2>1, <2>2
<1>8. x = [q \in DOMAIN tree |-> NodeExpression(nodes[top \o q])]
  BY <1>6, <1>7
<1>9. /\ IsObject(x) /\ DOMAIN x = DOMAIN tree
      /\ \A q \in DOMAIN tree : x[q] = NodeExpression(tree[q])
  BY <1>2, <1>8 DEF IsObject
<1>10. ASSUME NEW p \in Path, NEW q \in Path, top \o p = top \o q PROVE p = q
  <2>1. Tail(top \o p) = p /\ Tail(top \o q) = q
    BY <1>3
  <2> QED BY <1>10, <2>1
<1>11. ASSUME NEW q \in DOMAIN tree PROVE NodeOK(nodes, top \o q) <=> NodeOK(tree, q)
  <2>1. q \in Path /\ Append(q, 1) \in Path
    BY <1>2, ChildIs
  <2>2. top \o Append(q, 1) = Append(top \o q, 1)
    BY <1>1, <2>1, BelowChild
  <2>3. HasChildren(nodes, top \o q) <=> HasChildren(tree, q)
    <3>1. ASSUME HasChildren(nodes, top \o q) PROVE HasChildren(tree, q)
      <4>1. top \o Append(q, 1) \in DOMAIN nodes
        BY <2>2, <3>1 DEF HasChildren
      <4>2. PICK p \in DOMAIN tree : top \o Append(q, 1) = top \o p
        BY <1>2, <4>1
      <4>3. Append(q, 1) = p
        BY <1>2, <1>10, <2>1, <4>2
      <4> QED BY <4>3 DEF HasChildren
    <3>2. ASSUME HasChildren(tree, q) PROVE HasChildren(nodes, top \o q)
      BY <1>2, <2>2, <3>2 DEF HasChildren
    <3> QED BY <3>1, <3>2
  <2>4. nodes[top \o q] = tree[q]
    BY <1>2
  <2> QED BY <2>3, <2>4 DEF NodeOK
<1>12. (\A path \in DOMAIN nodes : NodeOK(nodes, path)) <=> \A q \in DOMAIN tree : NodeOK(tree, q)
  BY <1>2, <1>11
<1> QED BY <1>9, <1>12 DEF LiftedWritten, x

\* The request without essential becomes the same node.
LEMMA SameNode ==
  ASSUME NEW a, NEW b, SameRequest(a, b),
         \A op \in Operators : IsArray(a, op) <=> IsArray(b, op),
         IsGroup(b) \/ Own(b, "amr_identifier"), NEW metadata
  PROVE  (IsGroup(a) <=> IsGroup(b)) /\ NodeModel(a, metadata) = NodeModel(b, metadata)
<1>1. IsGroup(a) <=> IsGroup(b)
  BY DEF IsGroup
<1>2. CASE IsGroup(b)
  <2>1. IsArray(a, "all_of") <=> IsArray(b, "all_of")
    BY DEF Operators
  <2> QED BY <1>1, <1>2, <2>1 DEF NodeModel
<1>3. CASE ~IsGroup(b)
  <2>1. FactorModel(a, metadata) = FactorModel(b, metadata)
    BY <1>3, SameModel
  <2> QED BY <1>1, <1>3, <2>1 DEF NodeModel
<1> QED BY <1>1, <1>2, <1>3

\* An expression whose objects can be converted, as it is given to appendNode.
Objects(e) ==
  /\ DOMAIN e \subseteq Path /\ <<>> \in DOMAIN e
  /\ \A q \in DOMAIN e : /\ e[q] \notin {null, Other} /\ IsFactor(e[q])
                         /\ IsGroup(e[q]) \/ FactorModelOK(e[q])

\* The nodes are written as the expression they were made from, object by object.
TreeReturns(tree, e) ==
  /\ DOMAIN tree = DOMAIN e
  /\ \A q \in DOMAIN tree : NodeOK(tree, q)
  /\ \A q \in DOMAIN e : NodeExpression(tree[q]) = e[q]

\* That is so exactly if the expression is plain: a group of nothing gets a default
\* card, and what no card shows is lost.
LEMMA NodesReturn ==
  ASSUME NEW e, Objects(e), NEW metadata, NamesKnown(metadata),
         NEW tree, Converted(tree, e, metadata)
  PROVE  TreeReturns(tree, e) <=> PlainExpression(e)
<1> DEFINE groups == {p \in DOMAIN e : IsGroup(e[p])}
<1>1. /\ DOMAIN tree = DOMAIN e \cup {Append(p, 1) : p \in groups}
      /\ \A p \in DOMAIN e : tree[p] = NodeModel(e[p], metadata)
  BY DEF Converted
<1>2. ASSUME NEW q \in DOMAIN e
      PROVE  /\ (tree[q].type = "factor" => FactorOK(tree[q])) /\ NodeExpression(tree[q]) = e[q]
                  <=> PlainNode(e[q])
             /\ IsGroup(e[q]) <=> tree[q].type # "factor"
             /\ e[q] \notin {null, Other}
  <2>1. IsFactor(e[q]) /\ (IsGroup(e[q]) \/ FactorModelOK(e[q])) /\ e[q] \notin {null, Other}
    BY DEF Objects
  <2>2. tree[q] = NodeModel(e[q], metadata)
    BY <1>1
  <2>3. (tree[q].type = "factor" => FactorOK(tree[q])) /\ NodeExpression(tree[q]) = e[q]
          <=> PlainNode(e[q])
    BY <2>1, <2>2, NodeReturns
  <2>4. /\ IsGroup(e[q]) => tree[q].type = "group"
        /\ ~IsGroup(e[q]) => tree[q].type = "factor"
    BY <2>1, <2>2, NodeMade
  <2> QED BY <2>1, <2>3, <2>4
<1>3. ASSUME NEW object, IsGroup(object) PROVE ~PlainFactor(object)
  <2>1. PICK op \in Operators : op \in DOMAIN object
    BY <1>3 DEF IsGroup, IsArray, Own
  <2>2. op \notin {"amr_identifier", "amr_metadata", "amr_properties"}
    BY DEF Operators
  <2> QED BY <2>1, <2>2 DEF PlainFactor, Only
<1>4. ASSUME NEW object, IsOperator(object) PROVE IsGroup(object)
  BY <1>4 DEF IsOperator, IsGroup
<1>5. PlainExpression(e) <=> \A q \in DOMAIN e : \/ PlainFactor(e[q])
                                                 \/ IsOperator(e[q]) /\ HasChildren(e, q)
  BY <1>2 DEF PlainExpression, IsOperator
<1>6. ASSUME TreeReturns(tree, e) PROVE PlainExpression(e)
  <2>1. ASSUME NEW q \in DOMAIN e
        PROVE  PlainFactor(e[q]) \/ (IsOperator(e[q]) /\ HasChildren(e, q))
    <3>1. DOMAIN tree = DOMAIN e /\ NodeOK(tree, q) /\ NodeExpression(tree[q]) = e[q]
      BY <1>6 DEF TreeReturns
    <3>2. tree[q].type = "factor" => FactorOK(tree[q])
      BY <3>1 DEF NodeOK
    <3>3. PlainNode(e[q])
      BY <1>2, <3>1, <3>2
    <3>4. CASE IsOperator(e[q])
      <4>1. q \in groups
        BY <1>4, <3>4
      <4>2. Append(q, 1) \in DOMAIN e
        BY <1>1, <3>1, <4>1
      <4> QED BY <3>4, <4>2 DEF HasChildren
    <3> QED BY <3>3, <3>4 DEF PlainNode
  <2> QED BY <1>5, <2>1
<1>7. ASSUME PlainExpression(e) PROVE TreeReturns(tree, e)
  <2>1. \A q \in DOMAIN e : PlainFactor(e[q]) \/ (IsOperator(e[q]) /\ HasChildren(e, q))
    BY <1>5, <1>7
  <2>2. \A q \in DOMAIN e : PlainNode(e[q])
    BY <2>1 DEF PlainNode
  <2>3. \A q \in groups : Append(q, 1) \in DOMAIN e
    BY <1>3, <2>1 DEF HasChildren
  <2>4. DOMAIN tree = DOMAIN e
    BY <1>1, <2>3
  <2>5. \A q \in DOMAIN e : NodeExpression(tree[q]) = e[q]
    BY <1>2, <2>2
  <2>6. ASSUME NEW q \in DOMAIN e PROVE NodeOK(tree, q)
    <3>1. CASE tree[q].type = "factor"
      BY <1>2, <2>2, <3>1 DEF NodeOK
    <3>2. CASE tree[q].type # "factor"
      <4>1. q \in groups
        BY <1>2, <3>2
      <4>2. HasChildren(tree, q)
        BY <2>3, <2>4, <4>1 DEF HasChildren
      <4> QED BY <3>2, <4>2 DEF NodeOK
    <3> QED BY <3>1, <3>2
  <2> QED BY <2>4, <2>5, <2>6 DEF TreeReturns
<1> QED BY <1>6, <1>7

\* A node is written as an object with something in it, and without essential.
LEMMA NodeGives ==
  ASSUME NEW node, Typed(node)
  PROVE  LET object == NodeExpression(node) IN
         IsObject(object) /\ ~Empty(object) /\ "essential" \notin DOMAIN object
<1>1. CASE node.type = "factor"
  <2> DEFINE object == NodeExpression(node)
  <2>1. /\ IsObject(object) /\ Own(object, "amr_identifier")
        /\ DOMAIN object \subseteq {"amr_identifier", "amr_metadata", "amr_properties"}
    BY <1>1, CardWritten
  <2> HIDE DEF object
  <2>2. ~Empty(object) /\ "essential" \notin DOMAIN object
    BY <2>1 DEF Own, Empty
  <2> QED BY <2>1, <2>2 DEF object
<1>2. CASE node.type # "factor"
  <2>1. PICK op \in Operators : node = GroupNode(op)
    BY <1>2 DEF Typed
  <2> DEFINE object == NodeExpression(GroupNode(op))
  <2>2. IsObject(object) /\ DOMAIN object = {op}
    BY GroupWritten
  <2> HIDE DEF object
  <2>3. op # "essential"
    BY DEF Operators
  <2>4. ~Empty(object) /\ "essential" \notin DOMAIN object
    BY <2>2, <2>3 DEF Empty
  <2> QED BY <2>1, <2>2, <2>4 DEF object
<1> QED BY <1>1, <1>2

\* The expression of amr_details without the essential at its root.
Bare(d) == [d EXCEPT ![<<>>] = Rest(d[<<>>])]

\* It can be converted as amr_details can, and to the same nodes.
LEMMA BareConverted ==
  ASSUME NoObjects, NEW d, IsExpression(d), ExpressionOK(d), NEW metadata,
         NEW tree, Converted(tree, d, metadata)
  PROVE  Objects(Bare(d)) /\ Converted(tree, Bare(d), metadata)
<1> DEFINE e == Bare(d)
           o == d[<<>>]
           rest == Rest(o)
<1>1. DOMAIN d \subseteq Path /\ <<>> \in DOMAIN d
  BY DEF IsExpression
<1>2. DOMAIN e = DOMAIN d /\ e[<<>>] = rest /\ \A q \in DOMAIN d : q # <<>> => e[q] = d[q]
  BY <1>1 DEF Bare
<1>3. \A q \in DOMAIN d : /\ d[q] \notin {null, Other} /\ IsFactor(d[q])
                          /\ IsGroup(d[q]) \/ FactorModelOK(d[q])
  BY DEF IsExpression, ExpressionOK
<1>4. IsFactor(o) /\ (IsGroup(o) \/ FactorModelOK(o))
  BY <1>1, <1>3
<1>5. /\ IsObject(rest) /\ DOMAIN rest = DOMAIN o \ {"essential"}
      /\ \A key \in DOMAIN rest : rest[key] = o[key]
      /\ SameRequest(rest, o)
  BY RestIs
<1> HIDE DEF e, rest, o
<1>6. \A op \in Operators : IsArray(rest, op) <=> IsArray(o, op)
  <2> SUFFICES ASSUME NEW op \in Operators PROVE IsArray(rest, op) <=> IsArray(o, op)
    OBVIOUS
  <2>1. op # "essential"
    BY DEF Operators
  <2>2. Own(rest, op) <=> Own(o, op)
    BY <1>5, <2>1 DEF Own
  <2> QED BY <1>5, <2>2 DEF IsArray, Own
<1>7. IsGroup(o) \/ Own(o, "amr_identifier")
  BY <1>4 DEF FactorModelOK
<1>8. (IsGroup(rest) <=> IsGroup(o)) /\ NodeModel(rest, metadata) = NodeModel(o, metadata)
  BY <1>5, <1>6, <1>7, SameNode
<1>9. IsFactor(rest) /\ (FactorModelOK(rest) <=> FactorModelOK(o))
  BY <1>4, <1>5, SameObjects
<1>10. rest \notin {null, Other}
  BY <1>5 DEF NoObjects
<1>11. \A q \in DOMAIN d : /\ e[q] \notin {null, Other} /\ IsFactor(e[q])
                           /\ IsGroup(e[q]) \/ FactorModelOK(e[q])
                           /\ IsGroup(e[q]) <=> IsGroup(d[q])
                           /\ NodeModel(e[q], metadata) = NodeModel(d[q], metadata)
  BY <1>2, <1>3, <1>4, <1>8, <1>9, <1>10 DEF o
<1>12. Objects(e)
  BY <1>1, <1>2, <1>11 DEF Objects
<1>13. {p \in DOMAIN e : IsGroup(e[p])} = {p \in DOMAIN d : IsGroup(d[p])}
  BY <1>2, <1>11
<1>14. Converted(tree, e, metadata)
  BY <1>2, <1>11, <1>13 DEF Converted
<1> QED BY <1>12, <1>14 DEF e

\* Put together with essential, the expression is amr_details exactly if essential is
\* absent or true, and everything else has come back.
LEMMA PutTogether ==
  ASSUME NEW d, IsExpression(d), NEW b \in BOOLEAN, b <=> IsTrue(d[<<>>], "essential"),
         IsObject(d[<<>>]),
         NEW x, IsObject(x), <<>> \in DOMAIN x, IsObject(x[<<>>]), ~Empty(x[<<>>]),
         "essential" \notin DOMAIN x[<<>>]
  PROVE  DetailsFrom(b, x) = d <=> /\ Written(d[<<>>], "essential")
                                   /\ DOMAIN x = DOMAIN d
                                   /\ \A q \in DOMAIN d : x[q] = Bare(d)[q]
<1> DEFINE top == x[<<>>]
           o == d[<<>>]
           r == Member("essential", TRUE, b) ++ top
           y == [x EXCEPT ![<<>>] = r]
           e == Bare(d)
<1>1. RootIs(r, b, top)
  BY RootMade
<1>2. <<>> \in DOMAIN d /\ IsObject(d)
  BY DEF IsExpression, IsObject
<1>3. DetailsFrom(b, x) = IF Empty(r) THEN null ELSE y
  BY DEF DetailsFrom
<1> HIDE DEF r
<1>4. DOMAIN y = DOMAIN x /\ IsObject(y) /\ y[<<>>] = r /\ \A q \in DOMAIN x : q # <<>> => y[q] = x[q]
  BY DEF IsObject
<1>5. DOMAIN e = DOMAIN d /\ e[<<>>] = Rest(o) /\ \A q \in DOMAIN d : q # <<>> => e[q] = d[q]
  BY <1>2 DEF Bare
<1> HIDE DEF y, e, o
<1>6. ~Empty(r)
  <2>1. DOMAIN r = DOMAIN top \cup (IF b THEN {"essential"} ELSE {})
    BY <1>1 DEF RootIs
  <2> QED BY <2>1 DEF Empty
<1>7. DetailsFrom(b, x) = y
  BY <1>3, <1>6
<1>8. r = o <=> Written(o, "essential") /\ top = Rest(o)
  BY <1>1, RootReturns DEF o
<1> HIDE DEF top
<1>9. ASSUME y = d
      PROVE  /\ Written(o, "essential") /\ DOMAIN x = DOMAIN d
             /\ \A q \in DOMAIN d : x[q] = e[q]
  <2>1. r = o
    BY <1>4, <1>9 DEF o
  <2>2. DOMAIN x = DOMAIN d
    BY <1>4, <1>9
  <2>3. \A q \in DOMAIN d : q # <<>> => x[q] = e[q]
    BY <1>4, <1>5, <1>9, <2>2
  <2>4. x[<<>>] = e[<<>>]
    BY <1>5, <1>8, <2>1 DEF top
  <2> QED BY <1>8, <2>1, <2>2, <2>3, <2>4
<1>10. ASSUME /\ Written(o, "essential") /\ DOMAIN x = DOMAIN d
              /\ \A q \in DOMAIN d : x[q] = e[q]
       PROVE  y = d
  <2>1. top = Rest(o)
    BY <1>2, <1>5, <1>10 DEF top
  <2>2. r = o
    BY <1>8, <1>10, <2>1
  <2>3. y[<<>>] = d[<<>>]
    BY <1>4, <2>2 DEF o
  <2>4. \A q \in DOMAIN d : q # <<>> => y[q] = d[q]
    BY <1>4, <1>5, <1>10
  <2>5. DOMAIN y = DOMAIN d /\ \A q \in DOMAIN d : y[q] = d[q]
    BY <1>4, <1>10, <2>3, <2>4
  <2> QED BY <1>2, <1>4, <2>5 DEF IsObject
<1> QED BY <1>7, <1>9, <1>10 DEF o, e

\* amr_details with an expression comes back from the builder, with no error, exactly
\* if it is plain.
LEMMA ExpressionReturns ==
  ASSUME NoObjects, NEW d, IsDetails(d), d # Other, HasExpression(d), ExpressionOK(d),
         NEW metadata, NamesKnown(metadata), NEW form1, form1.essential \in BOOLEAN,
         form1.essential <=> IsTrue(d[<<>>], "essential"),
         NEW nodes, nodes = NodesOf(d, metadata)
  PROVE  (\A path \in DOMAIN nodes : NodeOK(nodes, path)) /\ BuildDetails(nodes, form1) = d
           <=> PlainDetails(d)
<1> DEFINE tree == ExpressionModel(d, metadata)
           x == NodeExpressions(nodes, form1)
           b == form1.essential
           o == d[<<>>]
           e == Bare(d)
           OK == \A path \in DOMAIN nodes : NodeOK(nodes, path)
<1> nodes = Graft(<<>>, <<1>>, ExpressionModel(d, metadata))
  BY DEF NodesOf
<1>1. d # null /\ IsExpression(d) /\ o \notin {null, Other}
  BY DEF HasExpression, IsDetails
<1>2. PICK key \in Operators \cup {"amr_identifier"} : Own(o, key)
  BY DEF HasExpression
<1>3. IsFactor(o) /\ <<>> \in DOMAIN d
  BY <1>1 DEF IsExpression
<1>4. IsObject(o)
  BY <1>3 DEF IsFactor
<1>5. Fits(<<>>, <<1>>, tree) /\ Fresh(tree, metadata)
  BY <1>1, ModelFits
<1>6. Converted(tree, d, metadata)
  BY ConvertedIs
<1> HIDE DEF tree
<1>7. Grafted(nodes, <<>>, <<1>>, tree)
  BY <1>5, GraftIs DEF tree
<1>8. <<>> \in DOMAIN tree /\ DOMAIN tree \subseteq Path
  BY <1>3, <1>5, <1>6 DEF Converted, Fits
<1>9. Lifted(nodes, tree)
  <2>1. DOMAIN <<>> = {}
    BY NoNodes
  <2>2. DOMAIN nodes = {<<1>> \o p : p \in DOMAIN tree}
    BY <1>7, <2>1 DEF Grafted
  <2>3. \A p \in DOMAIN tree : nodes[<<1>> \o p] = tree[p]
    BY <1>7 DEF Grafted
  <2> QED BY <1>8, <2>2, <2>3 DEF Lifted
<1>10. LiftedWritten(nodes, tree, x)
  BY <1>9, LiftedIsWritten
<1>11. BuildDetails(nodes, form1) = DetailsFrom(b, x)
  BY BuildIs
<1> HIDE DEF x, b
<1>12. Objects(e) /\ Converted(tree, e, metadata)
  BY <1>1, <1>6, BareConverted
<1>13. TreeReturns(tree, e) <=> PlainExpression(e)
  BY <1>12, NodesReturn
<1>14. IsObject(x[<<>>]) /\ ~Empty(x[<<>>]) /\ "essential" \notin DOMAIN x[<<>>]
  <2>1. Typed(tree[<<>>])
    BY <1>5, <1>8 DEF Fresh, MadeNode
  <2> DEFINE object == NodeExpression(tree[<<>>])
  <2>2. IsObject(object) /\ ~Empty(object) /\ "essential" \notin DOMAIN object
    BY <2>1, NodeGives
  <2> HIDE DEF object
  <2>3. x[<<>>] = object
    BY <1>8, <1>10 DEF LiftedWritten, object
  <2> QED BY <2>2, <2>3
<1>15. IsObject(x) /\ DOMAIN x = DOMAIN tree
  BY <1>10 DEF LiftedWritten
<1>16. DetailsFrom(b, x) = d <=> /\ Written(o, "essential") /\ DOMAIN x = DOMAIN d
                                 /\ \A q \in DOMAIN d : x[q] = e[q]
  <2>1. b \in BOOLEAN /\ (b <=> IsTrue(d[<<>>], "essential"))
    BY DEF b
  <2> QED BY <1>1, <1>4, <1>8, <1>14, <1>15, <2>1, PutTogether
<1>17. DOMAIN e = DOMAIN d
  BY DEF Bare
<1>18. OK /\ DOMAIN x = DOMAIN d /\ (\A q \in DOMAIN d : x[q] = e[q]) <=> TreeReturns(tree, e)
  BY <1>10, <1>17 DEF LiftedWritten, TreeReturns
<1>19. PlainDetails(d) <=> Written(o, "essential") /\ PlainExpression(e)
  <2>1. key # "essential"
    BY DEF Operators
  <2>2. ~Empty(o) /\ ~Empty(Rest(o))
    BY <1>2, <2>1 DEF Own, Empty, Rest
  <2> QED BY <1>1, <2>2 DEF PlainDetails, Bare, Rest
<1> QED BY <1>11, <1>13, <1>16, <1>18, <1>19

\* amr_details that is loaded and built again, whatever it is.
DetailsBack(nodes, form1, d) ==
  (\A path \in DOMAIN nodes : NodeOK(nodes, path)) /\ BuildDetails(nodes, form1) = d

\* It is as it was exactly if it is plain.
LEMMA DetailsReturn ==
  ASSUME NoObjects, NEW d, IsDetails(d), Convertible(d),
         NEW metadata, NamesKnown(metadata), NEW form1, form1.essential \in BOOLEAN,
         form1.essential <=> d # null /\ IsTrue(d[<<>>], "essential")
  PROVE  DetailsBack(NodesOf(d, metadata), form1, d) <=> PlainDetails(d)
<1> DEFINE nodes == NodesOf(d, metadata)
           b == form1.essential
<1>1. d # Other /\ (HasExpression(d) => ExpressionOK(d))
  BY DEF Convertible
<1>2. CASE HasExpression(d)
  <2>1. nodes = NodesOf(d, metadata)
    OBVIOUS
  <2>2. d # null
    BY <1>2 DEF HasExpression
  <2>3. b \in BOOLEAN /\ (b <=> IsTrue(d[<<>>], "essential"))
    BY <2>2
  <2> HIDE DEF nodes
  <2>4. (\A path \in DOMAIN nodes : NodeOK(nodes, path)) /\ BuildDetails(nodes, form1) = d
          <=> PlainDetails(d)
    BY <1>1, <1>2, <2>1, <2>3, ExpressionReturns
  <2> QED BY <2>4 DEF nodes, DetailsBack
<1>3. CASE ~HasExpression(d)
  <2>1. nodes = <<>>
    BY <1>3 DEF NodesOf
  <2> HIDE DEF nodes
  <2>2. DOMAIN nodes = {}
    BY <2>1, NoNodes
  <2>3. BuildDetails(nodes, form1) = d <=> PlainDetails(d)
    BY <1>1, <1>3, <2>1, NoExpressionReturns
  <2> QED BY <2>2, <2>3 DEF nodes, DetailsBack
<1> QED BY <1>2, <1>3

\* The claims that are written: amr_details at each of the locations.
Claims(deliveries, details) == [l \in deliveries |-> [amr_details |-> details]]

\* They are the claims that were read exactly if those are one projection of the
\* builder's shapes for every location.
LEMMA ClaimsReturn ==
  ASSUME NEW claims, IsClaims(claims), RequestedIn(claims) # {}, NEW details, NEW ok \in BOOLEAN,
         ok /\ details = DetailsOf(claims) <=> PlainDetails(DetailsOf(claims))
  PROVE  ok /\ Claims(RequestedIn(claims), details) = claims <=> Expressible(claims)
<1> DEFINE locations == RequestedIn(claims)
           d == DetailsOf(claims)
           written == Claims(locations, details)
           l0 == IF "id_token" \in locations THEN "id_token" ELSE "userinfo"
<1>1. /\ locations \subseteq Locations
      /\ \A l \in Locations : l \in locations <=>
           Own(claims, l) /\ claims[l] \notin {null, Other} /\ Own(claims[l], "amr_details")
  BY DEF RequestedIn
<1>2. l0 \in locations
  BY <1>1 DEF Locations
<1>3. d = claims[l0].amr_details
  BY DEF DetailsOf
<1>4. IsObject(claims) /\ \A l \in locations : IsObject(claims[l])
  BY <1>1 DEF IsClaims, Own
<1>5. /\ DOMAIN written = locations /\ IsObject(written)
      /\ \A l \in locations : written[l] = [amr_details |-> details]
  BY DEF Claims, IsObject
<1> HIDE DEF locations, d, written, l0
<1>6. ASSUME ok, written = claims PROVE Expressible(claims)
  <2>1. DOMAIN claims = locations /\ \A l \in locations : claims[l] = [amr_details |-> details]
    BY <1>5, <1>6
  <2>2. \A l \in locations : DOMAIN claims[l] = {"amr_details"} /\ claims[l].amr_details = details
    BY <2>1
  <2>3. details = d
    BY <1>2, <1>3, <2>2
  <2>4. PlainDetails(details)
    BY <1>6, <2>3 DEF d
  <2>5. \A l, k \in locations : claims[l] = claims[k]
    BY <2>1
  <2>6. Only(claims, Locations) /\ ~Empty(claims)
    BY <1>1, <1>2, <2>1 DEF Only, Empty
  <2> QED BY <1>1, <2>1, <2>2, <2>4, <2>5, <2>6 DEF Expressible
<1>7. ASSUME Expressible(claims) PROVE ok /\ written = claims
  <2>1. DOMAIN claims \subseteq Locations
    BY <1>7 DEF Expressible, Only
  <2>2. \A l \in DOMAIN claims : /\ claims[l] \notin {null, Other}
                                 /\ DOMAIN claims[l] = {"amr_details"}
                                 /\ \A k \in DOMAIN claims : claims[k] = claims[l]
                                 /\ PlainDetails(claims[l].amr_details)
    BY <1>7 DEF Expressible
  <2>3. DOMAIN claims = locations
    BY <1>1, <2>1, <2>2 DEF Own
  <2>4. PlainDetails(d)
    BY <1>2, <1>3, <2>2, <2>3
  <2>5. ok /\ details = d
    BY <2>4 DEF d
  <2>6. ASSUME NEW l \in locations PROVE claims[l] = written[l]
    <3> DEFINE c == claims[l]
               w == [amr_details |-> details]
    <3>1. DOMAIN c = {"amr_details"} /\ IsObject(c)
      BY <1>4, <2>2, <2>3
    <3>2. c = claims[l0]
      BY <1>2, <2>2, <2>3
    <3> HIDE DEF c
    <3>3. c["amr_details"] = details
      BY <1>3, <2>5, <3>2
    <3>4. DOMAIN w = {"amr_details"} /\ w["amr_details"] = details /\ IsObject(w)
      BY DEF IsObject
    <3> HIDE DEF w
    <3>5. DOMAIN c = DOMAIN w /\ \A key \in DOMAIN w : c[key] = w[key]
      BY <3>1, <3>3, <3>4
    <3>6. c = w
      BY <3>1, <3>4, <3>5 DEF IsObject
    <3> QED BY <1>5, <3>6 DEF c, w
  <2>7. written = claims
    BY <1>4, <1>5, <2>3, <2>6 DEF IsObject
  <2> QED BY <2>5, <2>7
<1> QED BY <1>6, <1>7 DEF written, locations

-------------------------------------------------------------------------------
(* Suggestions do not reach the JSON *)

\* Rows with the same fields are written the same.
SameRows(a, b) ==
  IsSequence(a) /\ DOMAIN a = DOMAIN b /\ \A i \in DOMAIN b : SameFields(a[i], b[i])

\* Whatever their numbers and suggestions.
LEMMA SameMembers ==
  ASSUME NEW a, NEW b, IsSequence(b), SameRows(a, b)
  PROVE  RowMembers(a) = RowMembers(b)
<1>1. DOMAIN a = DOMAIN b /\ IsSequence(a) /\ \A i \in DOMAIN b : SameFields(a[i], b[i])
  BY DEF SameRows
<1>2. \A i \in DOMAIN b : a[i].name = b[i].name /\ ConstraintValue(a[i]) = ConstraintValue(b[i])
  BY <1>1, SameConstraint DEF SameFields
<1> DEFINE names == {b[i].name : i \in DOMAIN b}
<1>3. {a[i].name : i \in DOMAIN a} = names
  BY <1>1, <1>2
<1>4. ASSUME NEW n \in names
      PROVE  ConstraintValue(a[LastRow(a, n)]) = ConstraintValue(b[LastRow(b, n)])
  <2> DEFINE i == LastRow(a, n)
             j == LastRow(b, n)
  <2>1. \E k \in DOMAIN b : b[k].name = n
    OBVIOUS
  <2>2. \E k \in DOMAIN a : a[k].name = n
    BY <1>1, <1>2, <2>1
  <2>3. LastOne(a, n, i)
    BY <1>1, <2>2, LastIs
  <2>4. LastOne(b, n, j)
    BY <2>1, LastIs
  <2> HIDE DEF i, j
  <2>5. DOMAIN b = 1 .. Len(b) /\ Len(b) \in Nat
    BY ListIs
  <2>6. j <= i /\ i <= j
    BY <1>1, <1>2, <2>3, <2>4 DEF LastOne
  <2>7. i \in Nat /\ j \in DOMAIN b /\ j \in Nat
    BY <1>1, <2>3, <2>4, <2>5 DEF LastOne
  <2>8. i = j
    BY <2>6, <2>7
  <2> QED BY <1>2, <2>7, <2>8 DEF i, j
<1> HIDE DEF names
<1>5. RowMembers(a) = [n \in names |-> ConstraintValue(a[LastRow(a, n)])]
  BY <1>3 DEF RowMembers, LastRow
<1>6. RowMembers(b) = [n \in names |-> ConstraintValue(b[LastRow(b, n)])]
  BY DEF RowMembers, names, LastRow
<1> QED BY <1>4, <1>5, <1>6

\* A card with the same fields is written the same, and is in error for the same
\* reasons.
LEMMA SameWritten ==
  ASSUME NEW card, CardOK(card), NEW new, CardOK(new), SameCard(new, card)
  PROVE  (FactorOK(new) <=> FactorOK(card)) /\ NodeExpression(new) = NodeExpression(card)
<1>1. /\ new.identifier = card.identifier /\ new.time = card.time
      /\ new.type = "factor" /\ card.type = "factor"
  BY DEF SameCard, CardOK
<1>2. ASSUME NEW kind \in Kinds
      PROVE  /\ IsSequence(card.rows[kind]) /\ SameRows(new.rows[kind], card.rows[kind])
             /\ DOMAIN new.rows[kind] = DOMAIN card.rows[kind]
             /\ \A i \in DOMAIN card.rows[kind] :
                  SameFields(new.rows[kind][i], card.rows[kind][i])
  BY DEF SameCard, SameRows, CardOK, ListOK
<1>3. ASSUME NEW kind \in Kinds PROVE RowMembers(new.rows[kind]) = RowMembers(card.rows[kind])
  BY <1>2, SameMembers
<1>4. "metadata" \in Kinds /\ "properties" \in Kinds
  BY DEF Kinds
<1>5. MetadataMembers(new) = MetadataMembers(card)
  BY <1>1, <1>3, <1>4 DEF MetadataMembers
<1>6. FactorExpression(new) = FactorExpression(card)
  BY <1>1, <1>3, <1>4, <1>5 DEF FactorExpression
<1>7. \A kind \in Kinds : \A i \in DOMAIN card.rows[kind] :
        /\ new.rows[kind][i].name = card.rows[kind][i].name
        /\ ConstraintOK(new.rows[kind][i]) = ConstraintOK(card.rows[kind][i])
  BY <1>2, SameConstraint DEF SameFields
<1>8. FactorOK(new) <=> FactorOK(card)
  BY <1>1, <1>2, <1>7 DEF FactorOK
<1> QED BY <1>1, <1>6, <1>8 DEF NodeExpression

\* So a builder whose suggestions are drawn again is written as it was.
SameBuild(a, b) ==
  /\ DOMAIN a = DOMAIN b
  /\ \A path \in DOMAIN b : /\ NodeOK(a, path) <=> NodeOK(b, path)
                            /\ NodeExpression(a[path]) = NodeExpression(b[path])

\* Drawing suggestions changes nothing that is written.
LEMMA RedrawnSame ==
  ASSUME NodesOK(root), NEW metadata, NEW nodes, Redrawn(nodes, metadata)
  PROVE  SameBuild(nodes, root)
<1>1. DOMAIN nodes = DOMAIN root
  BY DEF Redrawn
<1>2. ASSUME NEW p \in DOMAIN root
      PROVE  (NodeOK(nodes, p) <=> NodeOK(root, p)) /\ NodeExpression(nodes[p]) = NodeExpression(root[p])
  <2>1. CASE root[p].type = "factor"
    <3> DEFINE card == root[p]
               new == RefreshFactor(card, metadata)
    <3>1. CardOK(card)
      BY <2>1 DEF NodesOK
    <3>2. CardOK(new) /\ SameCard(new, card)
      BY <3>1, RefreshOK
    <3>3. nodes[p] = new
      BY <2>1 DEF Redrawn
    <3> HIDE DEF new, card
    <3>4. (FactorOK(new) <=> FactorOK(card)) /\ NodeExpression(new) = NodeExpression(card)
      BY <3>1, <3>2, SameWritten
    <3>5. new.type = "factor" /\ card.type = "factor"
      BY <3>1, <3>2 DEF CardOK
    <3> QED BY <3>3, <3>4, <3>5 DEF NodeOK, card
  <2>2. CASE root[p].type # "factor"
    <3>1. nodes[p] = root[p]
      BY <2>2 DEF Redrawn
    <3> QED BY <1>1, <2>2, <3>1 DEF NodeOK, HasChildren
  <2> QED BY <2>1, <2>2
<1> QED BY <1>1, <1>2 DEF SameBuild

\* And a tree node by node that is written the same is written the same as a whole.
LEMMA SameBuilt ==
  ASSUME NEW a, NEW b, SameBuild(a, b), IsForest(b), NEW form1
  PROVE  (BuildOK(a, form1) <=> BuildOK(b, form1)) /\ BuildClaims(a, form1) = BuildClaims(b, form1)
<1>1. DOMAIN a = DOMAIN b
  BY DEF SameBuild
<1>2. Single(a) <=> Single(b)
  BY <1>1 DEF Single
<1>3. \A path \in DOMAIN b : NodeExpression(a[path]) = NodeExpression(b[path])
  BY DEF SameBuild
<1>4. NodeExpressions(a, form1) = NodeExpressions(b, form1)
  <2>1. CASE Single(b)
    <3> DEFINE paths == {Tail(p) : p \in DOMAIN b}
    <3>1. NodeExpressions(a, form1) = [path \in paths |-> NodeExpression(a[<<1>> \o path])]
      BY <1>1, <1>2, <2>1 DEF NodeExpressions
    <3>2. NodeExpressions(b, form1) = [path \in paths |-> NodeExpression(b[<<1>> \o path])]
      BY <2>1 DEF NodeExpressions
    <3>3. \A path \in paths : <<1>> \o path \in DOMAIN b
      BY <2>1, FirstIs
    <3> QED BY <1>3, <3>1, <3>2, <3>3
  <2>2. CASE ~Single(b)
    BY <1>1, <1>2, <1>3, <2>2 DEF NodeExpressions
  <2> QED BY <2>1, <2>2
<1>5. BuildDetails(a, form1) = BuildDetails(b, form1)
  BY <1>4, BuildIs
<1>6. BuildClaims(a, form1) = BuildClaims(b, form1)
  BY <1>5 DEF BuildClaims
<1>7. BuildOK(a, form1) <=> BuildOK(b, form1)
  BY <1>1 DEF BuildOK, SameBuild
<1> QED BY <1>6, <1>7

-------------------------------------------------------------------------------
(* The inductive invariant *)

FormOK(f) == f \in [essential : BOOLEAN, operator : Operators, deliveries : SUBSET Locations]

\* Types, the cards as SuggestedCards has them, and what is loaded.
WorkbenchInv ==
  /\ fetch \in {"loading", "done"}
  /\ fetch = "loading" => served = None
  /\ FormOK(form) /\ NodesOK(root) /\ IsText(editor)
  /\ P!Inv
  /\ LoadedIsShown

\* What applyBuilder writes is a text of JSON.
LEMMA TextBuilt ==
  ASSUME NoObjects, NEW nodes, Writable(nodes), NEW f, FormOK(f)
  PROVE  IsText(Object(BuildClaims(nodes, f)))
<1> DEFINE details == BuildDetails(nodes, f)
           claims == BuildClaims(nodes, f)
           text == Object(claims)
<1>1. f.essential \in BOOLEAN /\ f.operator \in Operators
  BY DEF FormOK
<1>2. IsDetails(details)
  BY <1>1, BuiltIs
<1>3. claims = [l \in f.deliveries |-> [amr_details |-> details]]
  BY DEF BuildClaims
<1> HIDE DEF details, claims
<1>4. DOMAIN claims = f.deliveries /\ \A l \in f.deliveries : claims[l] = [amr_details |-> details]
  BY <1>3
<1>5. IsObject([amr_details |-> details]) /\ [amr_details |-> details].amr_details = details
  BY DEF IsObject
<1>6. IsClaims(claims)
  <2>1. IsObject(claims)
    BY <1>3, <1>4 DEF IsObject
  <2>2. \A l \in DOMAIN claims : IsObject(claims[l]) /\ IsDetails(claims[l].amr_details)
    BY <1>2, <1>4, <1>5
  <2> QED BY <2>1, <2>2 DEF IsClaims
<1>7. text = [form |-> "object", long |-> FALSE, claims |-> claims]
  BY DEF Object
<1> QED BY <1>6, <1>7 DEF IsText, Forms, claims

\* loadPreset: whatever the preset and the metadata.
Shown(nodes, metadata, f, text) ==
  FormOK(f) /\ NodesOK(nodes) /\ Fresh(nodes, metadata) /\ IsText(text)

\* Its nodes, fields and text are what they can be.
LEMMA PresetShown ==
  ASSUME NoObjects, NEW name \in PresetNames, NEW metadata,
         NEW nodes, nodes = PresetNodes(name, metadata), NEW f, f = PresetForm(name)
  PROVE  Shown(nodes, metadata, f, Object(BuildClaims(nodes, f)))
<1>1. FormOK(f)
  BY DEF FormOK, PresetForm, Operators, Locations
<1>2. WrittenNodes(nodes, metadata)
  BY PresetsWritten
<1>3. IsForest(nodes) /\ Fresh(nodes, metadata) /\ \A path \in DOMAIN nodes : NodeOK(nodes, path)
  BY <1>2 DEF WrittenNodes
<1>4. NodesOK(nodes)
  BY <1>3, FreshOK
<1>5. Writable(nodes)
  BY <1>3, <1>4 DEF Writable
<1>6. IsText(Object(BuildClaims(nodes, f)))
  BY <1>1, <1>5, TextBuilt
<1> QED BY <1>1, <1>3, <1>4, <1>6 DEF Shown

-------------------------------------------------------------------------------
(* Each step, as SuggestedCards has it *)

\* The cards of a page that was just opened.
LEMMA InitCards ==
  ASSUME Fresh(root, NoMetadata), served = None, discovery = NoMetadata
  PROVE  P!Init /\ SC!Init
<1>1. ASSUME NEW card \in Cards PROVE P!NewCard(card, NoMetadata) /\ SC!NewCard(card, NoMetadata)
  <2>1. PICK p \in DOMAIN root : card = root[p] /\ root[p].type = "factor"
    BY CardsAre
  <2>2. Made(card, NoMetadata)
    BY <2>1 DEF Fresh, MadeNode
  <2> QED BY <2>2, SameMade
<1>2. P!NoMetadata = NoMetadata /\ SC!NoMetadata = NoMetadata
  BY SameMetadata
<1>3. P!Init
  BY <1>1, <1>2 DEF P!Init, P!Opened
<1>4. SC!Init
  BY <1>1, <1>2 DEF SC!Init, SC!Opened
<1> QED BY <1>3, <1>4

\* Cards after a step.
LEMMA NextCards ==
  /\ \A p \in DOMAIN root' : root'[p].type = "factor" => root'[p] \in Cards'
  /\ \A card \in Cards' : \E p \in DOMAIN root' : card = root'[p] /\ root'[p].type = "factor"
BY DEF Cards, CardPaths, NodeAt, Paths

\* The page is opened again.
LEMMA ReopenedCards ==
  ASSUME Fresh(root', NoMetadata), served' = None, discovery' = NoMetadata
  PROVE  P!Reopen /\ SC!Reopen
<1>1. ASSUME NEW card \in Cards' PROVE P!NewCard(card, NoMetadata) /\ SC!NewCard(card, NoMetadata)
  <2>1. PICK p \in DOMAIN root' : card = root'[p] /\ root'[p].type = "factor"
    BY NextCards
  <2>2. Made(card, NoMetadata)
    BY <2>1 DEF Fresh, MadeNode
  <2> QED BY <2>2, SameMade
<1>2. P!NoMetadata = NoMetadata /\ SC!NoMetadata = NoMetadata
  BY SameMetadata
<1>3. P!Reopen
  BY <1>1, <1>2 DEF P!Reopen, P!Opened
<1>4. SC!Reopen
  BY <1>1, <1>2 DEF SC!Reopen, SC!Opened
<1> QED BY <1>3, <1>4

\* Cards that come, go and are edited.
LEMMA ChangedCards ==
  ASSUME Changed(root'), UNCHANGED <<served, discovery>>
  PROVE  P!Change /\ SC!Change
<1>1. ASSUME NEW new \in Cards' \ Cards
      PROVE  /\ P!NewCard(new, discovery) \/ \E card \in Cards : P!EditedCard(card, new)
             /\ SC!NewCard(new, discovery) \/ \E card \in Cards : SC!EditedCard(card, new)
  <2>1. PICK p \in DOMAIN root' : new = root'[p] /\ root'[p].type = "factor"
    BY NextCards
  <2>2. CardChanged(new)
    BY <2>1 DEF Changed
  <2>3. CASE Made(new, discovery)
    BY <2>3, SameMade
  <2>4. CASE \E card \in Cards : Edited(card, new, discovery)
    <3>1. PICK card \in Cards : Edited(card, new, discovery)
      BY <2>4
    <3>2. P!EditedCard(card, new) /\ SC!EditedCard(card, new)
      BY <3>1, SameEdit
    <3> QED BY <3>2
  <2> QED BY <1>1, <2>2, <2>3, <2>4 DEF CardChanged
<1>2. P!Change
  BY <1>1 DEF P!Change
<1>3. SC!Change
  BY <1>1 DEF SC!Change
<1> QED BY <1>2, <1>3

\* The answer of /discovery.
LEMMA AnsweredCards ==
  ASSUME served = None, NEW document \in Documents, served' = document,
         discovery' = BuilderMetadata(document), Redrawn(root', discovery'), NodesOK(root)
  PROVE  P!Answer /\ SC!Answer
<1> DEFINE refreshed == {RefreshFactor(card, discovery') : card \in Cards}
<1>1. DOMAIN root' = DOMAIN root /\ \A p \in DOMAIN root : root'[p].type = root[p].type
  BY RedrawnOK DEF Redrawn
<1>2. \A p \in DOMAIN root : root[p].type = "factor" => root'[p] = RefreshFactor(root[p], discovery')
  BY DEF Redrawn
<1>3. Cards' \subseteq refreshed
  BY <1>1, <1>2, CardsAre, NextCards
<1>4. refreshed \subseteq Cards'
  BY <1>1, <1>2, CardsAre, NextCards
<1>5. Cards' = refreshed
  BY <1>3, <1>4
<1> HIDE DEF refreshed
<1>6. /\ P!BuilderMetadata(document) = BuilderMetadata(document)
      /\ SC!BuilderMetadata(document) = BuilderMetadata(document)
  BY SameMetadata
<1>7. /\ {P!RefreshFactor(card, discovery') : card \in Cards} = refreshed
      /\ {SC!RefreshFactor(card, discovery') : card \in Cards} = refreshed
  BY SameRefresh DEF refreshed
<1>8. P!Answer
  BY <1>5, <1>6, <1>7 DEF P!Answer
<1>9. SC!Answer
  BY <1>5, <1>6, <1>7 DEF SC!Answer
<1> QED BY <1>8, <1>9

-------------------------------------------------------------------------------
(* Each step keeps the invariant *)

\* A step that is one of SuggestedCards.
StepOK == WorkbenchInv' /\ SC!Next

\* The names a page knows.
LEMMA PageNames ==
  ASSUME WorkbenchInv
  PROVE  NamesKnown(discovery)
<1>1. P!MetadataInv
  BY DEF WorkbenchInv, P!Inv
<1>2. discovery = NoMetadata \/ discovery = BuilderMetadata(served)
  BY <1>1, SameMetadata DEF P!MetadataInv
<1> QED BY <1>2, KnownNames

\* The page when it is opened.
LEMMA OpenedInv ==
  ASSUME NoObjects
  PROVE  Init => WorkbenchInv /\ SC!Init
<1> SUFFICES ASSUME Init PROVE WorkbenchInv /\ SC!Init
  OBVIOUS
<1>1. Shown(root, NoMetadata, form, Object(BuildClaims(root, form)))
  <2>1. "essential-password" \in PresetNames
    BY DEF PresetNames
  <2>2. root = PresetNodes("essential-password", NoMetadata) /\ form = PresetForm("essential-password")
    BY DEF Init
  <2> QED BY <2>1, <2>2, PresetShown
<1>2. /\ served = None /\ fetch = "loading" /\ discovery = NoMetadata /\ loaded = None
      /\ editor = Object(BuildClaims(root, form))
  BY DEF Init
<1>3. Fresh(root, NoMetadata)
  BY <1>1 DEF Shown
<1>4. P!Init /\ SC!Init
  BY <1>2, <1>3, InitCards
<1>5. P!Inv
  BY <1>4, SameConstants, P!InitInv
<1>6. LoadedIsShown
  BY <1>2 DEF LoadedIsShown
<1> QED BY <1>1, <1>2, <1>4, <1>5, <1>6 DEF WorkbenchInv, Shown

\* The page when it is opened again, with another text or the same.
LEMMA ReopenedInv ==
  ASSUME NoObjects, OpenedPage
  PROVE  StepOK
<1>1. Shown(root', NoMetadata, form', Object(BuildClaims(root', form')))
  <2>1. "essential-password" \in PresetNames
    BY DEF PresetNames
  <2>2. /\ root' = PresetNodes("essential-password", NoMetadata)
        /\ form' = PresetForm("essential-password")
    BY DEF OpenedPage, ShowPreset
  <2> QED BY <2>1, <2>2, PresetShown
<1>2. /\ served' = None /\ fetch' = "loading" /\ discovery' = NoMetadata /\ loaded' = None
      /\ editor' = Object(BuildClaims(root', form'))
  BY DEF OpenedPage, ShowPreset
<1>3. Fresh(root', NoMetadata)
  BY <1>1 DEF Shown
<1>4. P!Reopen /\ SC!Reopen
  BY <1>2, <1>3, ReopenedCards
<1>5. P!Inv'
  BY <1>4, SameConstants, P!ReopenInv
<1>6. LoadedIsShown'
  BY <1>2 DEF LoadedIsShown
<1> QED BY <1>1, <1>2, <1>4, <1>5, <1>6 DEF WorkbenchInv, Shown, StepOK, SC!Next

\* A step on the page, with cards that come, go and are edited.
LEMMA ChangedInv ==
  ASSUME WorkbenchInv, Changed(root'), served' = served, discovery' = discovery,
         fetch' = "loading" => fetch = "loading", fetch' \in {"loading", "done"},
         FormOK(form'), IsText(editor'), LoadedIsShown'
  PROVE  StepOK
<1>1. P!Change /\ SC!Change
  BY ChangedCards
<1>2. P!Inv'
  <2>1. P!Inv
    BY DEF WorkbenchInv
  <2> QED BY <1>1, <2>1, SameConstants, P!ChangeInv
<1>3. NodesOK(root)
  BY DEF WorkbenchInv
<1>4. NodesOK(root')
  BY <1>3, ChangedOK
<1> QED BY <1>1, <1>2, <1>4 DEF WorkbenchInv, StepOK, SC!Next

\* The same nodes, or none.
LEMMA SameChanged ==
  ASSUME NodesOK(root)
  PROVE  Changed(root) /\ Changed(<<>>)
<1>1. Changed(root)
  BY CardsAre DEF Changed, CardChanged, NodesOK
<1>2. Changed(<<>>)
  BY NoNodes DEF Changed
<1> QED BY <1>1, <1>2

\* Nothing of the builder changes but the text.
LEMMA TextInv ==
  ASSUME WorkbenchInv, UNCHANGED <<page, root, form, loaded>>, IsText(editor')
  PROVE  StepOK
<1>1. NodesOK(root)
  BY DEF WorkbenchInv
<1>2. Changed(root')
  BY <1>1, SameChanged
<1>3. LoadedIsShown'
  BY DEF WorkbenchInv, LoadedIsShown
<1>4. FormOK(form') /\ fetch' = fetch /\ served' = served /\ discovery' = discovery
  BY DEF WorkbenchInv, page
<1>5. fetch' \in {"loading", "done"}
  BY <1>4 DEF WorkbenchInv
<1> QED BY <1>2, <1>3, <1>4, <1>5, ChangedInv

\* An edit of the builder, after which it does not show what was loaded.
LEMMA EditInv ==
  ASSUME WorkbenchInv, Changed(root'), UNCHANGED page, FormOK(form'), IsText(editor'),
         loaded' = None
  PROVE  StepOK
<1>1. LoadedIsShown'
  BY DEF LoadedIsShown
<1>2. fetch' = fetch /\ served' = served /\ discovery' = discovery
  BY DEF page
<1>3. fetch' \in {"loading", "done"}
  BY <1>2 DEF WorkbenchInv
<1> QED BY <1>1, <1>2, <1>3, ChangedInv

\* loadDiscovery: the cards draw their suggestions, and what was loaded is still shown.
LEMMA AnswersInv ==
  ASSUME WorkbenchInv, DiscoveryAnswers
  PROVE  StepOK
<1>1. fetch = "loading" /\ fetch' = "done" /\ UNCHANGED <<form, editor, loaded>>
  BY DEF DiscoveryAnswers
<1>2. PICK document \in Documents : served' = document /\ discovery' = BuilderMetadata(document)
  BY DEF DiscoveryAnswers
<1>3. served = None /\ NodesOK(root) /\ P!Inv
  BY <1>1 DEF WorkbenchInv
<1>4. Redrawn(root', discovery')
  <2>1. root' = RefreshAll(discovery')
    BY DEF DiscoveryAnswers
  <2>2. Redrawn(RefreshAll(discovery'), discovery')
    BY RedrawnIs
  <2> QED BY <2>1, <2>2
<1>5. P!Answer /\ SC!Answer
  BY <1>2, <1>3, <1>4, AnsweredCards
<1>6. P!Inv'
  BY <1>3, <1>5, SameConstants, P!AnswerInv
<1>7. NodesOK(root')
  BY <1>3, <1>4, RedrawnOK
<1>8. LoadedIsShown'
  <2>1. SameBuild(root', root)
    BY <1>3, <1>4, RedrawnSame
  <2>2. IsForest(root)
    BY <1>3 DEF NodesOK
  <2>3. /\ BuildOK(root', form) <=> BuildOK(root, form)
        /\ BuildClaims(root', form) = BuildClaims(root, form)
    BY <2>1, <2>2, SameBuilt
  <2>4. LoadedIsShown
    BY DEF WorkbenchInv
  <2> QED BY <1>1, <2>3, <2>4 DEF LoadedIsShown
<1>9. FormOK(form') /\ IsText(editor')
  BY <1>1 DEF WorkbenchInv
<1> QED BY <1>1, <1>5, <1>6, <1>7, <1>8, <1>9 DEF WorkbenchInv, StepOK, SC!Next

\* loadPreset replaces all the nodes, and the text.
LEMMA PresetInv ==
  ASSUME NoObjects, WorkbenchInv, LoadPreset
  PROVE  StepOK
<1>1. PICK name \in PresetNames : ShowPreset(name, discovery)
  BY DEF LoadPreset
<1>2. /\ root' = PresetNodes(name, discovery) /\ form' = PresetForm(name)
      /\ editor' = Object(BuildClaims(root', form')) /\ loaded' = None
  BY <1>1 DEF ShowPreset
<1>3. Shown(root', discovery, form', Object(BuildClaims(root', form')))
  BY <1>2, PresetShown
<1>4. FormOK(form') /\ IsText(editor') /\ IsForest(root') /\ Fresh(root', discovery)
  BY <1>2, <1>3 DEF Shown, NodesOK
<1>5. Changed(root')
  BY <1>4, FreshChanged
<1>6. UNCHANGED page
  BY DEF LoadPreset
<1> QED BY <1>2, <1>4, <1>5, <1>6, EditInv

\* The user types, or applyBuilder writes.
LEMMA TypeInv ==
  ASSUME WorkbenchInv, Type
  PROVE  StepOK
<1>1. UNCHANGED <<page, root, form, loaded>> /\ editor' \in Texts
  BY DEF Type
<1>2. IsText(editor')
  BY <1>1, WorkbenchAssumption
<1> QED BY <1>1, <1>2, TextInv

\* applyBuilder writes a text of JSON.
LEMMA ApplyInv ==
  ASSUME NoObjects, WorkbenchInv, ApplyBuilder
  PROVE  StepOK
<1>1. /\ UNCHANGED <<page, root, form, loaded>> /\ editor' = Object(BuildClaims(root, form))
      /\ BuildOK(root, form)
  BY DEF ApplyBuilder
<1>2. Writable(root) /\ FormOK(form)
  BY <1>1 DEF WorkbenchInv, Writable, BuildOK
<1>3. IsText(editor')
  BY <1>1, <1>2, TextBuilt
<1> QED BY <1>1, <1>3, TextInv

\* The request that is in the editor, if it has one.
LEMMA EditorIs ==
  ASSUME WorkbenchInv, Loadable
  PROVE  LET claims == editor.claims IN
         /\ IsClaims(claims) /\ RequestedIn(claims) # {} /\ RequestedIn(claims) \subseteq Locations
         /\ IsDetails(DetailsOf(claims))
<1>1. IsText(editor) /\ editor.form = "object" /\ RequestedIn(editor.claims) # {}
  BY DEF WorkbenchInv, Loadable
<1>2. IsClaims(editor.claims)
  BY <1>1 DEF IsText
<1>3. IsDetails(DetailsOf(editor.claims))
  BY <1>1, <1>2, DetailsTyped
<1>4. RequestedIn(editor.claims) \subseteq Locations
  BY DEF RequestedIn
<1> QED BY <1>1, <1>2, <1>3, <1>4

\* What loadJson leaves in the fields for the request as a whole.
Loaded(f, claims) ==
  /\ FormOK(f) /\ f.deliveries = RequestedIn(claims)
  /\ f.essential <=> DetailsOf(claims) # null /\ IsTrue(DetailsOf(claims)[<<>>], "essential")

\* The operator stays as it was.
LEMMA FormLoaded ==
  ASSUME FormOK(form), NEW claims
  PROVE  Loaded(FormOf(claims), claims)
<1> DEFINE b == DetailsOf(claims) # null /\ IsTrue(DetailsOf(claims)[<<>>], "essential")
           locations == RequestedIn(claims)
           f == FormOf(claims)
<1>1. b \in BOOLEAN /\ locations \subseteq Locations
  BY DEF RequestedIn
<1>2. f = [form EXCEPT !.essential = b, !.deliveries = locations]
  BY DEF FormOf
<1> HIDE DEF b, locations, f
<1>3. f \in [essential : BOOLEAN, operator : Operators, deliveries : SUBSET Locations]
      /\ f.essential = b /\ f.deliveries = locations
  BY <1>1, <1>2 DEF FormOK
<1> QED BY <1>3 DEF FormOK, Loaded, b, locations, f

\* buildClaims writes what was loaded exactly if the builder can show it.
LEMMA LoadedReturns ==
  ASSUME NoObjects, NEW claims, IsClaims(claims), RequestedIn(claims) # {},
         Convertible(DetailsOf(claims)), NEW metadata, NamesKnown(metadata),
         NEW f, Loaded(f, claims), NEW nodes, nodes = NodesOf(DetailsOf(claims), metadata)
  PROVE  BuildOK(nodes, f) /\ BuildClaims(nodes, f) = claims <=> Expressible(claims)
<1> DEFINE d == DetailsOf(claims)
           details == BuildDetails(nodes, f)
           ok == \A path \in DOMAIN nodes : NodeOK(nodes, path)
<1>1. IsDetails(d)
  BY DetailsTyped
<1>2. f.essential \in BOOLEAN /\ (f.essential <=> d # null /\ IsTrue(d[<<>>], "essential"))
  BY DEF Loaded, FormOK
<1>3. DetailsBack(NodesOf(d, metadata), f, d) <=> PlainDetails(d)
  <2> HIDE DEF d
  <2>1. Convertible(d)
    BY DEF d
  <2> QED BY <1>1, <1>2, <2>1, DetailsReturn
<1>4. ok /\ details = d <=> PlainDetails(d)
  BY <1>3 DEF DetailsBack
<1>5. BuildOK(nodes, f) <=> ok
  BY DEF Loaded, BuildOK
<1>6. BuildClaims(nodes, f) = Claims(RequestedIn(claims), details)
  BY DEF Loaded, BuildClaims, Claims
<1>7. ok \in BOOLEAN
  OBVIOUS
<1> HIDE DEF details, ok, d
<1>8. ok /\ Claims(RequestedIn(claims), details) = claims <=> Expressible(claims)
  BY <1>4, <1>7, ClaimsReturn DEF d
<1> QED BY <1>5, <1>6, <1>8

\* loadJson: what is loaded is shown.
LEMMA LoadInv ==
  ASSUME NoObjects, WorkbenchInv, LoadJson
  PROVE  StepOK
<1> DEFINE claims == editor.claims
           d == DetailsOf(claims)
<1>1. /\ Loadable /\ Convertible(d) /\ root' = NodesOf(d, discovery) /\ form' = FormOf(claims)
      /\ loaded' = claims /\ UNCHANGED <<page, editor>>
  BY DEF LoadJson
<1>2. IsClaims(claims) /\ RequestedIn(claims) # {} /\ IsDetails(d)
  BY <1>1, EditorIs
<1>3. NamesKnown(discovery)
  BY PageNames
<1>4. Loaded(FormOf(claims), claims)
  <2>1. FormOK(form)
    BY DEF WorkbenchInv
  <2> QED BY <2>1, FormLoaded
<1>5. IsForest(NodesOf(d, discovery)) /\ Fresh(NodesOf(d, discovery), discovery)
  BY <1>1, <1>2, <1>3, NodesLoaded
<1>6. Changed(root')
  <2>1. IsForest(root') /\ Fresh(root', discovery)
    BY <1>1, <1>5
  <2> QED BY <2>1, FreshChanged
<1>7. BuildOK(root', form') /\ BuildClaims(root', form') = claims <=> Expressible(claims)
  <2> HIDE DEF claims
  <2>1. Loaded(form', claims)
    BY <1>1, <1>4
  <2> QED BY <1>1, <1>2, <1>3, <2>1, LoadedReturns
<1>8. LoadedIsShown'
  BY <1>1, <1>7 DEF LoadedIsShown
<1>9. FormOK(form')
  BY <1>1, <1>4 DEF Loaded
<1>10. fetch' = fetch /\ served' = served /\ discovery' = discovery /\ editor' = editor
  BY <1>1 DEF page
<1>11. fetch' \in {"loading", "done"} /\ IsText(editor')
  BY <1>10 DEF WorkbenchInv
<1> QED BY <1>6, <1>8, <1>9, <1>10, <1>11, ChangedInv

\* ... and if it cannot be converted, the builder is empty.
LEMMA LoadFailsInv ==
  ASSUME WorkbenchInv, LoadJsonFails
  PROVE  StepOK
<1>1. root' = <<>> /\ loaded' = None /\ UNCHANGED <<page, form, editor>>
  BY DEF LoadJsonFails
<1>2. NodesOK(root) /\ FormOK(form') /\ IsText(editor')
  BY <1>1 DEF WorkbenchInv
<1>3. Changed(root')
  BY <1>1, <1>2, SameChanged
<1> QED BY <1>1, <1>2, <1>3, EditInv

\* The edits of the nodes.
LEMMA EditsInv ==
  ASSUME WorkbenchInv,
         \/ AddNode \/ RemoveNode \/ MoveUp \/ SetOperator
         \/ SetIdentifier \/ SetTime \/ AddRow \/ RemoveRow \/ SetRow
  PROVE  StepOK
<1>1. NodesOK(root)
  BY DEF WorkbenchInv
<1>2. NamesKnown(discovery)
  BY PageNames
<1>3. Changed(root')
  BY <1>1, <1>2, AddNodeChanged, RemoveNodeChanged, MoveUpChanged, SetOperatorChanged, CardsEdited
<1>4. loaded' = None /\ UNCHANGED <<page, form, editor>>
  BY DEF AddNode, RemoveNode, MoveUp, SetOperator, SetIdentifier, SetTime, AddRow, RemoveRow,
         SetRow, Edit
<1>5. FormOK(form') /\ IsText(editor')
  BY <1>4 DEF WorkbenchInv
<1> QED BY <1>3, <1>4, <1>5, EditInv

\* The fields for the request as a whole.
LEMMA FormInv ==
  ASSUME WorkbenchInv, SetForm
  PROVE  StepOK
<1>1. loaded' = None /\ UNCHANGED <<page, root, editor>>
  BY DEF SetForm
<1>2. FormOK(form) /\ NodesOK(root) /\ IsText(editor')
  BY <1>1 DEF WorkbenchInv
<1>3. FormOK(form')
  <2>1. CASE form' = [form EXCEPT !.essential = ~@]
    BY <1>2, <2>1 DEF FormOK
  <2>2. CASE \E op \in Operators \ {form.operator} : form' = [form EXCEPT !.operator = op]
    BY <1>2, <2>2 DEF FormOK
  <2>3. CASE \E l \in Locations :
               form' = [form EXCEPT !.deliveries = IF l \in @ THEN @ \ {l} ELSE @ \cup {l}]
    BY <1>2, <2>3 DEF FormOK
  <2> QED BY <2>1, <2>2, <2>3 DEF SetForm
<1>4. Changed(root')
  BY <1>1, <1>2, SameChanged
<1> QED BY <1>1, <1>2, <1>3, <1>4, EditInv

\* Whatever happens, a step of the workbench is one of SuggestedCards.
LEMMA NextInv ==
  ASSUME NoObjects, WorkbenchInv, [Next]_vars
  PROVE  StepOK
<1>1. CASE OpenedPage
  BY <1>1, ReopenedInv
<1>2. CASE SubmitRejected
  BY <1>2, ReopenedInv DEF SubmitRejected
<1>3. CASE Event
  <2>1. CASE DiscoveryAnswers
    BY <2>1, AnswersInv
  <2>2. CASE DiscoveryUnavailable
    <3>1. /\ fetch' = "done"
          /\ UNCHANGED <<served, discovery, root, form, editor, loaded>>
      BY <2>2 DEF DiscoveryUnavailable
    <3>2. NodesOK(root) /\ FormOK(form') /\ IsText(editor') /\ LoadedIsShown'
      BY <3>1 DEF WorkbenchInv, LoadedIsShown
    <3>3. Changed(root')
      BY <3>1, <3>2, SameChanged
    <3> QED BY <3>1, <3>2, <3>3, ChangedInv
  <2>3. CASE LoadPreset
    BY <2>3, PresetInv
  <2>4. CASE Type
    BY <2>4, TypeInv
  <2>5. CASE ApplyBuilder
    BY <2>5, ApplyInv
  <2>6. CASE LoadJson
    BY <2>6, LoadInv
  <2>7. CASE LoadJsonFails
    BY <2>7, LoadFailsInv
  <2>8. CASE \/ AddNode \/ RemoveNode \/ MoveUp \/ SetOperator
             \/ SetIdentifier \/ SetTime \/ AddRow \/ RemoveRow \/ SetRow
    BY <2>8, EditsInv
  <2>9. CASE SetForm
    BY <2>9, FormInv
  <2> QED BY <1>3, <2>1, <2>2, <2>3, <2>4, <2>5, <2>6, <2>7, <2>8, <2>9 DEF Event
<1>4. CASE UNCHANGED vars
  <2>1. UNCHANGED <<page, root, form, loaded>> /\ editor' = editor
    BY <1>4 DEF vars, page
  <2>2. IsText(editor')
    BY <2>1 DEF WorkbenchInv
  <2> QED BY <2>1, <2>2, TextInv
<1> QED BY <1>1, <1>2, <1>3, <1>4 DEF Next

-------------------------------------------------------------------------------
(* What the builder writes can be loaded *)

\* What is plain can be converted.
LEMMA PlainConverts ==
  ASSUME NEW d, IsDetails(d), PlainDetails(d), NEW metadata, NamesKnown(metadata)
  PROVE  Convertible(d)
<1>1. d # Other
  BY ScalarsAssumption DEF PlainDetails
<1> SUFFICES ASSUME HasExpression(d) PROVE ExpressionOK(d)
  BY <1>1 DEF Convertible
<1> DEFINE o == d[<<>>]
           rest == Rest(o)
           e == Bare(d)
<1>2. d # null /\ IsExpression(d) /\ o \notin {null, Other}
  BY <1>1 DEF HasExpression, IsDetails
<1>3. PICK key \in Operators \cup {"amr_identifier"} : Own(o, key)
  BY DEF HasExpression
<1>4. /\ IsObject(rest) /\ DOMAIN rest = DOMAIN o \ {"essential"}
      /\ \A k \in DOMAIN rest : rest[k] = o[k]
      /\ SameRequest(rest, o)
  BY RestIs
<1>5. <<>> \in DOMAIN d
  BY <1>2 DEF IsExpression
<1>6. DOMAIN e = DOMAIN d /\ e[<<>>] = rest /\ \A q \in DOMAIN d : q # <<>> => e[q] = d[q]
  BY <1>5 DEF Bare
<1>7. PlainExpression(e)
  <2>1. key # "essential"
    BY DEF Operators
  <2>2. ~Empty(rest)
    BY <1>3, <1>4, <2>1 DEF Own, Empty
  <2> QED BY <1>2, <2>2 DEF PlainDetails, Bare, Rest
<1>8. \A q \in DOMAIN d : /\ e[q] \notin {null, Other}
                          /\ PlainFactor(e[q]) \/ IsOperator(e[q])
  BY <1>6, <1>7 DEF PlainExpression, IsOperator
<1> HIDE DEF e, rest, o
<1>9. ASSUME NEW object, IsFactor(object), PlainFactor(object) PROVE FactorModelOK(object)
  BY <1>9, FactorsReturn DEF NamesKnown
<1>10. ASSUME NEW object, IsOperator(object) PROVE IsGroup(object)
  BY <1>10 DEF IsOperator, IsGroup
<1>11. ASSUME NEW q \in DOMAIN d, q # <<>>
       PROVE  d[q] \notin {null, Other} /\ (IsGroup(d[q]) \/ FactorModelOK(d[q]))
  <2>1. d[q] \notin {null, Other} /\ (PlainFactor(d[q]) \/ IsOperator(d[q]))
    BY <1>6, <1>8, <1>11
  <2>2. IsFactor(d[q])
    BY <1>2, <2>1 DEF IsExpression
  <2> QED BY <1>9, <1>10, <2>1, <2>2
<1>12. IsGroup(o) \/ FactorModelOK(o)
  <2>1. IsFactor(o)
    BY <1>2, <1>5 DEF IsExpression, o
  <2>2. IsFactor(rest) /\ (FactorModelOK(rest) <=> FactorModelOK(o))
    BY <1>4, <2>1, SameObjects
  <2>3. CASE PlainFactor(rest)
    BY <1>9, <2>2, <2>3
  <2>4. CASE IsOperator(rest)
    <3>1. IsGroup(rest)
      BY <1>10, <2>4
    <3>2. PICK op \in Operators : op \in DOMAIN rest /\ rest[op] = Items
      BY <3>1 DEF IsGroup, IsArray, Own
    <3>3. op \in DOMAIN o /\ o[op] = Items
      BY <1>4, <3>2
    <3> QED BY <3>2, <3>3 DEF IsGroup, IsArray, Own
  <2> QED BY <1>5, <1>6, <1>8, <2>3, <2>4
<1>13. o \notin {null, Other}
  BY <1>2 DEF o
<1> QED BY <1>11, <1>12, <1>13 DEF ExpressionOK, o

\* What is written at every location.
LEMMA WrittenClaims ==
  ASSUME NoObjects, NEW f, FormOK(f), f.deliveries # {}, NEW nodes,
         NEW claims, claims = BuildClaims(nodes, f)
  PROVE  LET details == BuildDetails(nodes, f) IN
         /\ RequestedIn(claims) = f.deliveries /\ DetailsOf(claims) = details
         /\ PlainDetails(details) => Expressible(claims)
<1> DEFINE details == BuildDetails(nodes, f)
           written == [amr_details |-> details]
<1>1. claims = [l \in f.deliveries |-> written]
  BY DEF BuildClaims
<1>2. f.deliveries \subseteq Locations
  BY DEF FormOK
<1>3. IsObject(written) /\ DOMAIN written = {"amr_details"} /\ written.amr_details = details
  BY DEF IsObject
<1> HIDE DEF written, details
<1>4. written \notin {null, Other}
  BY <1>3 DEF NoObjects
<1>5. DOMAIN claims = f.deliveries /\ \A l \in f.deliveries : claims[l] = written
  BY <1>1
<1>6. RequestedIn(claims) = f.deliveries
  BY <1>2, <1>3, <1>4, <1>5 DEF RequestedIn, Own
<1>7. DetailsOf(claims) = details
  <2> DEFINE l0 == IF "id_token" \in RequestedIn(claims) THEN "id_token" ELSE "userinfo"
  <2>1. l0 \in f.deliveries
    BY <1>2, <1>6 DEF Locations
  <2>2. DetailsOf(claims) = claims[l0].amr_details
    BY DEF DetailsOf
  <2> HIDE DEF l0
  <2> QED BY <1>3, <1>5, <2>1, <2>2
<1>8. ASSUME PlainDetails(details) PROVE Expressible(claims)
  BY <1>2, <1>3, <1>4, <1>5, <1>8 DEF Expressible, Only, Empty
<1> QED BY <1>6, <1>7, <1>8 DEF details

\* So what the builder writes can be loaded and written again.
LEMMA WrittenLoadsBack ==
  ASSUME NoObjects, WorkbenchInv
  PROVE  AppliedLoadsBack
<1> DEFINE claims == BuildClaims(root, form)
           written == BuildDetails(root, form)
           nodes == NodesOf(DetailsOf(claims), discovery)
<1> SUFFICES ASSUME BuildOK(root, form),
                    \A card \in Cards, kind \in Kinds : \A i \in DOMAIN card.rows[kind] :
                      ~Requoted(card.rows[kind][i])
             PROVE  /\ ParseClaims(Object(claims)) /\ Convertible(DetailsOf(claims))
                    /\ BuildOK(nodes, FormOf(claims)) /\ BuildClaims(nodes, FormOf(claims)) = claims
  BY DEF AppliedLoadsBack
<1>1. FormOK(form) /\ form.deliveries # {} /\ Writable(root)
  BY DEF WorkbenchInv, Writable, BuildOK
<1>2. NodesUnrequoted(root)
  BY CardsAre DEF NodesUnrequoted, CardUnrequoted, Unrequoted
<1>3. form.essential \in BOOLEAN /\ form.operator \in Operators
  BY <1>1 DEF FormOK
<1>4. IsDetails(written) /\ PlainDetails(written)
  BY <1>1, <1>2, <1>3, BuiltIs
<1>5. /\ RequestedIn(claims) = form.deliveries /\ DetailsOf(claims) = written
      /\ PlainDetails(written) => Expressible(claims)
  BY <1>1, WrittenClaims
<1>6. IsText(Object(claims))
  BY <1>1, TextBuilt
<1> HIDE DEF claims, written
<1>7. Object(claims) = [form |-> "object", long |-> FALSE, claims |-> claims]
  BY DEF Object
<1>8. ParseClaims(Object(claims))
  BY <1>7 DEF ParseClaims
<1>9. IsClaims(claims)
  BY <1>6, <1>7 DEF IsText
<1>10. NamesKnown(discovery)
  BY PageNames
<1>11. Convertible(DetailsOf(claims))
  BY <1>4, <1>5, <1>10, PlainConverts
<1>12. Loaded(FormOf(claims), claims)
  BY <1>1, FormLoaded
<1>13. BuildOK(nodes, FormOf(claims)) /\ BuildClaims(nodes, FormOf(claims)) = claims
         <=> Expressible(claims)
  <2> DEFINE f == FormOf(claims)
  <2>1. Loaded(f, claims)
    BY <1>12
  <2> HIDE DEF f, nodes
  <2>2. nodes = NodesOf(DetailsOf(claims), discovery) /\ RequestedIn(claims) # {}
    BY <1>1, <1>5 DEF nodes
  <2>3. BuildOK(nodes, f) /\ BuildClaims(nodes, f) = claims <=> Expressible(claims)
    BY <1>9, <1>10, <1>11, <2>1, <2>2, LoadedReturns
  <2> QED BY <2>3 DEF f
<1> QED BY <1>4, <1>5, <1>8, <1>11, <1>13

-------------------------------------------------------------------------------
(* Theorems *)

\* The inductive invariant holds in every state of every behaviour.
LEMMA WorkbenchInvariance ==
  ASSUME NoObjects
  PROVE  Spec => []WorkbenchInv
<1>1. Init => WorkbenchInv
  BY OpenedInv
<1>2. WorkbenchInv /\ [Next]_vars => WorkbenchInv'
  BY NextInv DEF StepOK
<1> QED BY <1>1, <1>2, PTL DEF Spec

\* Whatever is typed, loaded and edited, in whatever order, the builder's nodes are
\* numbered without gaps, cards and editor have what their fields can hold, and a page
\* without an answer has no metadata.
THEOREM TypesHold ==
  ASSUME NoObjects
  PROVE  Spec => []TypeOK
<1>1. WorkbenchInv => TypeOK
  <2> SUFFICES ASSUME WorkbenchInv PROVE TypeOK
    OBVIOUS
  <2>1. fetch \in {"loading", "done"} /\ IsText(editor) /\ IsForest(root) /\ FormOK(form)
    BY DEF WorkbenchInv, NodesOK
  <2>2. form.essential \in BOOLEAN /\ form.operator \in Operators /\ form.deliveries \subseteq Locations
    BY <2>1 DEF FormOK
  <2>3. served = None => discovery = NoMetadata
    <3>1. P!MetadataInv
      BY DEF WorkbenchInv, P!Inv
    <3>2. P!NoMetadata = NoMetadata
      BY SameMetadata
    <3>3. None \notin Documents
      BY SameConstants
    <3> QED BY <3>1, <3>2, <3>3 DEF P!MetadataInv
  <2>4. ASSUME NEW card \in Cards
        PROVE  /\ Filled(card)
               /\ \A kind \in Kinds : \A i \in DOMAIN card.rows[kind] :
                    card.rows[kind][i].id \in Nat \ {0}
    <3>1. PICK p \in DOMAIN root : card = root[p] /\ root[p].type = "factor"
      BY CardsAre
    <3>2. CardOK(card)
      BY <3>1 DEF WorkbenchInv, NodesOK
    <3>3. \A kind \in Kinds :
            /\ IsSequence(card.rows[kind])
            /\ \A i \in DOMAIN card.rows[kind] :
                 FilledRow(card.rows[kind][i]) /\ card.rows[kind][i].id \in Nat \ {0}
      BY <3>2 DEF CardOK, ListOK, RowOK, RowGiven, Places
    <3> QED BY <3>2, <3>3 DEF Filled, CardOK
  <2> QED BY <2>1, <2>2, <2>3, <2>4 DEF TypeOK
<1> QED BY <1>1, WorkbenchInvariance, PTL

\* loadJson and applyBuilder: until it is edited, the builder shows what was loaded,
\* for requests of any depth and size and whatever /discovery answers meanwhile: it is
\* written as it was read exactly if it is a request that the builder can show.
THEOREM LoadedStaysShown ==
  ASSUME NoObjects
  PROVE  Spec => []LoadedIsShown
<1>1. WorkbenchInv => LoadedIsShown
  BY DEF WorkbenchInv
<1> QED BY <1>1, WorkbenchInvariance, PTL

\* buildClaims and loadJson: in every state that can be reached, what the builder
\* writes can be loaded and is then written again as it was.
THEOREM AppliedReturns ==
  ASSUME NoObjects
  PROVE  Spec => []AppliedLoadsBack
<1>1. WorkbenchInv => AppliedLoadsBack
  BY WrittenLoadsBack
<1> QED BY <1>1, WorkbenchInvariance, PTL

\* The workbench implements SuggestedCards: whatever the tree, the presets and the
\* editor do, cards are only made, edited and refreshed as it says, and an answer of
\* /discovery reaches every card at any depth.
THEOREM WorkbenchImplementsCards ==
  ASSUME NoObjects
  PROVE  Spec => ImplementsSuggestedCards
<1>1. Init => SC!Init
  BY OpenedInv
<1>2. WorkbenchInv /\ [Next]_vars => SC!Next
  BY NextInv DEF StepOK
<1>3. WorkbenchInv /\ [Next]_vars => [SC!Next]_(SC!scVars)
  BY <1>2
<1> QED BY <1>1, <1>3, WorkbenchInvariance, PTL DEF Spec, ImplementsSuggestedCards, SC!Spec

\* "Property suggestions now follow the selected method", in the whole page: every
\* card, wherever in the tree it stands, suggests what the document on the page says
\* about its method.
THEOREM SuggestionsFollowInTree ==
  ASSUME NoObjects
  PROVE  Spec => []SuggestionsFollowMethod
<1>1. WorkbenchInv => SuggestionsFollowMethod
  <2> SUFFICES ASSUME WorkbenchInv, NEW card \in Cards
               PROVE  FollowsMethod(card, IF served = None THEN <<>> ELSE served)
    BY DEF SuggestionsFollowMethod
  <2>1. P!MetadataInv /\ P!CardInv(card)
    BY DEF WorkbenchInv, P!Inv
  <2>2. P!FollowsMethod(card, P!Document)
    BY <2>1, SameConstants, P!CardFollows
  <2>3. P!Document = IF served = None THEN <<>> ELSE served
    BY DEF P!Document
  <2> QED BY <2>2, <2>3, SamePromise
<1> QED BY <1>1, WorkbenchInvariance, PTL
===============================================================================
