--------------------------- MODULE Fusion_proofs ----------------------------
(***************************************************************************)
(* Proofs about Fusion: whatever the families of modules that are traced,  *)
(* a graph stays sound while it is traced and rewritten (nodes once in the *)
(* order, operands before their users), the programs of the pointwise pass *)
(* are accepted, no pass leaves a useless node, erase_node raises only for *)
(* the sum of an mm with itself, and the compiled graph returns what the   *)
(* traced one did.                                                         *)
(*                                                                         *)
(* Both passes rewrite in the same way: a new node takes the users of      *)
(* another (Placed), then nodes that have become useless are erased        *)
(* (Without). Together that is Rewritten, from which the rest follows.     *)
(*                                                                         *)
(* What a graph returns is proved from values of its nodes (Values): a     *)
(* graph returns if it has values, and returns what they say. A rewrite    *)
(* relates the values before and after it (Back, Forwards). That linear    *)
(* and linear_act differ in the shapes they take is settled by the shapes  *)
(* of the graph alone (Shapes, ShapedBy); and that no new graph throws, by *)
(* where the sums are that the gemm pass is still to fuse (UniformSums,    *)
(* SumVisits).                                                             *)
(***************************************************************************)
EXTENDS Fusion, InductionLemmas, FiniteSetTheorems, SequenceTheorems

-----------------------------------------------------------------------------
(* Orders: a sequence that names nothing twice.                            *)
Distinct(s) == \A p, q \in DOMAIN s : s[p] = s[q] => p = q

(* a comes before b.                                                       *)
Before(s, a, b) == \E p, q \in DOMAIN s : p < q /\ s[p] = a /\ s[q] = b

(* It orders what it names.                                                *)
LEMMA BeforeOrders ==
  ASSUME NEW S, NEW s \in Seq(S), Distinct(s)
  PROVE  /\ \A a, b : Before(s, a, b) => a \in ToSet(s) /\ b \in ToSet(s) /\ a # b
         /\ \A a, b : Before(s, a, b) => ~Before(s, b, a)
         /\ \A a, b, c : Before(s, a, b) /\ Before(s, b, c) => Before(s, a, c)
<1>1. DOMAIN s \subseteq Nat
  OBVIOUS
<1>2. \A a, b : Before(s, a, b) => a \in ToSet(s) /\ b \in ToSet(s) /\ a # b
  BY <1>1 DEF Before, ToSet, Distinct
<1>3. \A a, b : Before(s, a, b) => ~Before(s, b, a)
  BY <1>1 DEF Before, Distinct
<1>4. ASSUME NEW a, NEW b, NEW c, Before(s, a, b), Before(s, b, c)
      PROVE  Before(s, a, c)
  <2>1. PICK p \in DOMAIN s, q \in DOMAIN s : p < q /\ s[p] = a /\ s[q] = b
    BY <1>4 DEF Before
  <2>2. PICK u \in DOMAIN s, v \in DOMAIN s : u < v /\ s[u] = b /\ s[v] = c
    BY <1>4 DEF Before
  <2>3. q = u
    BY <2>1, <2>2 DEF Distinct
  <2>4. p < v
    BY <1>1, <2>1, <2>2, <2>3
  <2> QED
    BY <2>1, <2>2, <2>4 DEF Before
<1> QED
  BY <1>2, <1>3, <1>4

(* Position finds the one place of a node.                                 *)
LEMMA PositionFound ==
  ASSUME NEW g, Distinct(g.order)
  PROVE  /\ \A i \in Ids(g) : Position(g, i) \in DOMAIN g.order /\ g.order[Position(g, i)] = i
         /\ \A p \in DOMAIN g.order : Position(g, g.order[p]) = p
<1>1. ASSUME NEW i \in Ids(g)
      PROVE  Position(g, i) \in DOMAIN g.order /\ g.order[Position(g, i)] = i
  <2>1. \E p \in DOMAIN g.order : g.order[p] = i
    BY DEF Ids, ToSet
  <2> QED
    BY <2>1 DEF Position
<1>2. ASSUME NEW p \in DOMAIN g.order PROVE Position(g, g.order[p]) = p
  <2>1. g.order[p] \in Ids(g)
    BY DEF Ids, ToSet
  <2> QED
    BY <1>1, <2>1 DEF Distinct
<1> QED
  BY <1>1, <1>2

(* What comes before what, for nodes by their positions.                   *)
LEMMA BeforeByPosition ==
  ASSUME NEW g, Distinct(g.order), NEW i, NEW j
  PROVE  Before(g.order, i, j) <=> /\ i \in Ids(g) /\ j \in Ids(g)
                                   /\ Position(g, i) < Position(g, j)
<1>1. ASSUME Before(g.order, i, j)
      PROVE  i \in Ids(g) /\ j \in Ids(g) /\ Position(g, i) < Position(g, j)
  <2>1. PICK p \in DOMAIN g.order, q \in DOMAIN g.order :
          p < q /\ g.order[p] = i /\ g.order[q] = j
    BY <1>1 DEF Before
  <2> QED
    BY <2>1, PositionFound DEF Ids, ToSet
<1>2. ASSUME i \in Ids(g), j \in Ids(g), Position(g, i) < Position(g, j)
      PROVE  Before(g.order, i, j)
  BY <1>2, PositionFound DEF Before
<1> QED
  BY <1>1, <1>2

(* A new node is inserted before the one at a position.                    *)
LEMMA InsertedBefore ==
  ASSUME NEW S, NEW s \in Seq(S), Distinct(s), NEW x \in S, x \notin ToSet(s), NEW p \in DOMAIN s,
         NEW t, t = InsertAt(s, p, x)
  PROVE  /\ t \in Seq(S) /\ Distinct(t) /\ ToSet(t) = ToSet(s) \cup {x}
         /\ \A a, b : Before(s, a, b) => Before(t, a, b)
         /\ \A a : Before(s, a, s[p]) => Before(t, a, x)
         /\ \A b : b = s[p] \/ Before(s, s[p], b) => Before(t, x, b)
<1> DEFINE n == Len(s)
           at(q) == IF q < p THEN q ELSE q + 1
<1>1. n \in Nat /\ DOMAIN s = 1..n /\ p \in 1..n
  OBVIOUS
<1>2. /\ t \in Seq(S) /\ Len(t) = n + 1
      /\ \A q \in 1..(n + 1) :
           t[q] = IF q < p THEN s[q] ELSE IF q = p THEN x ELSE s[q - 1]
  <2> DEFINE u == SubSeq(s, 1, p - 1)
             v == SubSeq(s, p, n)
  <2>1. u \in Seq(S) /\ Len(u) = p - 1 /\ \A q \in 1..(p - 1) : u[q] = s[q]
    OBVIOUS
  <2>2. v \in Seq(S) /\ Len(v) = n - p + 1 /\ \A q \in 1..(n - p + 1) : v[q] = s[p + q - 1]
    OBVIOUS
  <2>3. t = u \o <<x>> \o v
    BY DEF InsertAt
  <2> HIDE DEF u, v, n
  <2>4. /\ u \o <<x>> \in Seq(S) /\ Len(u \o <<x>>) = p
        /\ \A q \in 1..p : (u \o <<x>>)[q] = IF q < p THEN s[q] ELSE x
    BY <1>1, <2>1
  <2> DEFINE w == u \o <<x>>
  <2> HIDE DEF w
  <2>5. t = w \o v /\ w \in Seq(S) /\ Len(w) = p
        /\ \A q \in 1..p : w[q] = IF q < p THEN s[q] ELSE x
    BY <2>3, <2>4 DEF w
  <2>6. t \in Seq(S) /\ Len(t) = n + 1
    <3>1. w \in Seq(S) /\ v \in Seq(S) /\ Len(w) = p /\ Len(v) = n - p + 1 /\ t = w \o v
      BY <2>2, <2>5
    <3>2. t \in Seq(S) /\ Len(t) = Len(w) + Len(v)
      BY <3>1, ConcatProperties
    <3>3. t \in Seq(S) /\ Len(t) = p + (n - p + 1)
      BY <3>1, <3>2
    <3>4. p \in Nat /\ n \in Nat
      BY <1>1
    <3> QED
      BY <3>3, <3>4
  <2>7. ASSUME NEW q \in 1..(n + 1)
        PROVE  t[q] = IF q < p THEN s[q] ELSE IF q = p THEN x ELSE s[q - 1]
    <3>1. CASE q <= p
      <4>1. q \in 1..p /\ t[q] = w[q]
        BY <1>1, <2>2, <2>5, <3>1
      <4> QED
        BY <1>1, <2>5, <4>1
    <3>2. CASE q > p
      <4>1. t[q] = v[q - p] /\ q - p \in 1..(n - p + 1)
        BY <1>1, <2>2, <2>5, <3>2
      <4>2. v[q - p] = s[p + (q - p) - 1] /\ p + (q - p) - 1 = q - 1
        BY <1>1, <2>2, <4>1
      <4> QED
        BY <1>1, <3>2, <4>1, <4>2
    <3> QED
      BY <1>1, <3>1, <3>2
  <2> QED
    BY <2>6, <2>7
<1> HIDE DEF n
<1>3. DOMAIN t = 1..(n + 1) /\ p \in DOMAIN t /\ t[p] = x
  BY <1>1, <1>2
<1>4. \A q \in 1..n : at(q) \in DOMAIN t /\ at(q) # p /\ t[at(q)] = s[q]
  BY <1>1, <1>2, <1>3
<1>5. \A q \in DOMAIN t : q # p => \E r \in 1..n : q = at(r)
  <2> SUFFICES ASSUME NEW q \in DOMAIN t, q # p PROVE \E r \in 1..n : q = at(r)
    OBVIOUS
  <2>1. CASE q < p
    BY <1>1, <1>3, <2>1
  <2>2. CASE q > p
    <3>1. q - 1 \in 1..n /\ q = at(q - 1)
      BY <1>1, <1>3, <2>2
    <3> QED
      BY <3>1
  <2> QED
    BY <1>1, <1>3, <2>1, <2>2
<1>6. \A q, r \in 1..n : q < r => at(q) < at(r)
  BY <1>1
<1>7. \A q \in 1..n : (q < p => at(q) < p) /\ (q >= p => p < at(q))
  BY <1>1
<1> HIDE DEF at
<1>8. ToSet(t) = ToSet(s) \cup {x}
  BY <1>1, <1>3, <1>4, <1>5 DEF ToSet
<1>9. Distinct(t)
  <2> SUFFICES ASSUME NEW q \in DOMAIN t, NEW r \in DOMAIN t, t[q] = t[r] PROVE q = r
    BY DEF Distinct
  <2>1. \A y \in DOMAIN t : y # p => t[y] # x
    BY <1>1, <1>4, <1>5 DEF ToSet
  <2>2. CASE q = p \/ r = p
    BY <1>3, <2>1, <2>2
  <2>3. CASE q # p /\ r # p
    BY <1>1, <1>4, <1>5, <2>3 DEF Distinct
  <2> QED
    BY <2>2, <2>3
<1>10. \A a, b : Before(s, a, b) => Before(t, a, b)
  BY <1>1, <1>4, <1>6 DEF Before
<1>11. ASSUME NEW a, Before(s, a, s[p]) PROVE Before(t, a, x)
  <2>1. PICK q \in 1..n, r \in 1..n : q < r /\ s[q] = a /\ s[r] = s[p]
    BY <1>1, <1>11 DEF Before
  <2>2. q < p
    BY <1>1, <2>1 DEF Distinct
  <2> QED
    BY <1>3, <1>4, <1>7, <2>1, <2>2 DEF Before
<1>12. ASSUME NEW b, b = s[p] \/ Before(s, s[p], b) PROVE Before(t, x, b)
  <2>1. PICK r \in 1..n : r >= p /\ s[r] = b
    <3>1. CASE b = s[p]
      BY <1>1, <3>1
    <3>2. CASE Before(s, s[p], b)
      <4>1. PICK q \in 1..n, r \in 1..n : q < r /\ s[q] = s[p] /\ s[r] = b
        BY <1>1, <3>2 DEF Before
      <4>2. q = p
        BY <1>1, <4>1 DEF Distinct
      <4>3. r >= p
        BY <1>1, <4>1, <4>2
      <4> QED
        BY <4>1, <4>3
    <3> QED
      BY <1>12, <3>1, <3>2
  <2> QED
    BY <1>3, <1>4, <1>7, <2>1 DEF Before
<1> QED
  BY <1>2, <1>8, <1>9, <1>10, <1>11, <1>12

(* The node at a position is removed.                                      *)
LEMMA RemovedBefore ==
  ASSUME NEW S, NEW s \in Seq(S), Distinct(s), NEW p \in DOMAIN s, NEW t, t = RemoveAt(s, p)
  PROVE  /\ t \in Seq(S) /\ Distinct(t) /\ ToSet(t) = ToSet(s) \ {s[p]}
         /\ \A a, b : Before(s, a, b) /\ a # s[p] /\ b # s[p] => Before(t, a, b)
<1> DEFINE n == Len(s)
           at(q) == IF q < p THEN q ELSE q - 1
<1>1. n \in Nat /\ DOMAIN s = 1..n /\ p \in 1..n
  OBVIOUS
<1>2. /\ t \in Seq(S) /\ Len(t) = n - 1
      /\ \A q \in 1..(n - 1) : t[q] = IF q < p THEN s[q] ELSE s[q + 1]
  <2> DEFINE u == SubSeq(s, 1, p - 1)
             v == SubSeq(s, p + 1, n)
  <2>1. u \in Seq(S) /\ Len(u) = p - 1 /\ \A q \in 1..(p - 1) : u[q] = s[q]
    OBVIOUS
  <2>2. v \in Seq(S) /\ Len(v) = n - p /\ \A q \in 1..(n - p) : v[q] = s[p + q]
    OBVIOUS
  <2>3. t = u \o v
    BY DEF RemoveAt
  <2> HIDE DEF u, v, n
  <2>4. t \in Seq(S) /\ Len(t) = n - 1
    <3>1. t \in Seq(S) /\ Len(t) = Len(u) + Len(v)
      BY <2>1, <2>2, <2>3
    <3> QED
      BY <1>1, <2>1, <2>2, <3>1
  <2>5. ASSUME NEW q \in 1..(n - 1) PROVE t[q] = IF q < p THEN s[q] ELSE s[q + 1]
    <3>1. CASE q < p
      BY <1>1, <2>1, <2>2, <2>3, <3>1
    <3>2. CASE q >= p
      <4>1. t[q] = v[q - (p - 1)] /\ q - (p - 1) \in 1..(n - p)
        BY <1>1, <2>1, <2>2, <2>3, <3>2
      <4>2. v[q - (p - 1)] = s[p + (q - (p - 1))] /\ p + (q - (p - 1)) = q + 1
        BY <1>1, <2>2, <4>1
      <4> QED
        BY <1>1, <3>2, <4>1, <4>2
    <3> QED
      BY <1>1, <3>1, <3>2
  <2> QED
    BY <2>4, <2>5
<1> HIDE DEF n
<1>3. DOMAIN t = 1..(n - 1)
  BY <1>1, <1>2
<1>4. \A q \in 1..n : q # p => at(q) \in DOMAIN t /\ t[at(q)] = s[q]
  BY <1>1, <1>2, <1>3
<1>5. \A q \in DOMAIN t : \E r \in 1..n : r # p /\ q = at(r)
  <2> SUFFICES ASSUME NEW q \in DOMAIN t PROVE \E r \in 1..n : r # p /\ q = at(r)
    OBVIOUS
  <2>1. CASE q < p
    BY <1>1, <1>3, <2>1
  <2>2. CASE q >= p
    <3>1. q + 1 \in 1..n /\ q + 1 # p /\ q = at(q + 1)
      BY <1>1, <1>3, <2>2
    <3> QED
      BY <3>1
  <2> QED
    BY <1>1, <1>3, <2>1, <2>2
<1>6. \A q, r \in 1..n : q < r /\ q # p /\ r # p => at(q) < at(r)
  BY <1>1
<1> HIDE DEF at
<1>7. ToSet(t) = ToSet(s) \ {s[p]}
  BY <1>1, <1>4, <1>5 DEF ToSet, Distinct
<1>8. Distinct(t)
  BY <1>1, <1>4, <1>5 DEF Distinct
<1>9. \A a, b : Before(s, a, b) /\ a # s[p] /\ b # s[p] => Before(t, a, b)
  BY <1>1, <1>4, <1>6 DEF Before
<1> QED
  BY <1>2, <1>7, <1>8, <1>9
-----------------------------------------------------------------------------
(* Graphs.                                                                 *)
PointwiseOps == {"add", "mul", "relu_"} \cup Jit!Unary
Operators    == {"in", "output", "mm", "linear", "addmm", "linear_act", "pointwise"}
                  \cup PointwiseOps

(* The numbers that the tracer and the compiler write down are literals.   *)
LEMMA LiteralsUsed == One \in Jit!Literals /\ Two \in Jit!Literals /\ Jit!Zero \in Jit!Literals
<1>1. Jit!MaxWhole \in Nat /\ 2 <= Jit!MaxWhole
  BY DEF Jit!MaxWhole
<1>2. Jit!Parts \in Nat /\ 1 <= Jit!Parts
  BY DEF Jit!Parts
<1>3. 0 \in 0..Jit!MaxWhole /\ 1 \in 0..Jit!MaxWhole /\ 2 \in 0..Jit!MaxWhole
  BY <1>1
<1>4. 0 \in 0..(Jit!Parts - 1)
  BY <1>2
<1> QED
  BY <1>3, <1>4, SMT DEF One, Two, Jit!One, Jit!Zero, Jit!Number, Jit!Literals

(* Nodes and graphs: the order is of nodes, each at most once.             *)
Nodes ==
  [op : Operators, args : Seq(Nat), alpha : Jit!Literals, c : Jit!Literals,
   shape : {"none", "mat", "row"}, act : {"none", "relu", "silu"}, transB : BOOLEAN,
   prog : Seq(Jit!Nodes)]

Graph(g) ==
  /\ g = [nodes |-> g.nodes, order |-> g.order]
  /\ g.nodes \in Seq(Nodes) /\ g.order \in Seq(DOMAIN g.nodes) /\ Distinct(g.order)

(* Erased nodes use nothing, the others what comes before them.            *)
Sound(g) ==
  /\ Graph(g)
  /\ \A i \in DOMAIN g.nodes \ Ids(g) : g.nodes[i].args = <<>>
  /\ \A i \in Ids(g) : \A j \in Operands(g.nodes[i]) : Before(g.order, j, i)

(* What both passes do: a node comes before another and takes its users.   *)
Put(g, n, i) == ReplaceUses(Insert(g, n, i), i, Len(g.nodes) + 1)

(* A node after replace_all_uses_with.                                     *)
Renamed(n, old, new) == [n EXCEPT !.args = ReplaceAll(n.args, old, new)]

(* The nodes of the order are nodes.                                       *)
LEMMA IdsOfGraph ==
  ASSUME NEW g, Graph(g)
  PROVE  /\ Ids(g) \subseteq DOMAIN g.nodes /\ DOMAIN g.nodes = 1..Len(g.nodes)
         /\ Len(g.nodes) \in Nat /\ Len(g.nodes) + 1 \notin DOMAIN g.nodes
         /\ \A i \in DOMAIN g.nodes : g.nodes[i] \in Nodes /\ g.nodes[i].args \in Seq(Nat)
<1>1. g.nodes \in Seq(Nodes) /\ g.order \in Seq(DOMAIN g.nodes)
  BY DEF Graph
<1>2. Ids(g) \subseteq DOMAIN g.nodes
  BY <1>1 DEF Ids, ToSet
<1>3. DOMAIN g.nodes = 1..Len(g.nodes) /\ Len(g.nodes) \in Nat
  BY <1>1
<1>4. \A i \in DOMAIN g.nodes : g.nodes[i] \in Nodes
  BY <1>1
<1>5. \A n \in Nodes : n.args \in Seq(Nat)
  BY DEF Nodes
<1> QED
  BY <1>2, <1>3, <1>4, <1>5

(* A node with other operands.                                             *)
LEMMA WithOperands ==
  ASSUME NEW n \in Nodes, NEW args \in Seq(Nat), NEW m, m = [n EXCEPT !.args = args]
  PROVE  /\ m \in Nodes /\ m.args = args
         /\ m.op = n.op /\ m.alpha = n.alpha /\ m.c = n.c /\ m.shape = n.shape /\ m.act = n.act
         /\ m.transB = n.transB /\ m.prog = n.prog
         /\ args = n.args => m = n
BY DEF Nodes

(* A function on 1..n is a sequence.                                       *)
LEMMA SequenceOf ==
  ASSUME NEW S, NEW n \in Nat, NEW f, f = [j \in 1..n |-> f[j]], \A j \in 1..n : f[j] \in S
  PROVE  f \in Seq(S) /\ Len(f) = n
<1>1. f \in [1..n -> S]
  OBVIOUS
<1> QED
  BY <1>1

(* A sound graph is linted.                                                *)
LEMMA SoundOrdered ==
  ASSUME NEW g, Sound(g)
  PROVE  Ordered(g)
BY BeforeByPosition DEF Sound, Graph, Ordered

(* Operands after one is replaced.                                         *)
LEMMA ReplacedOperands ==
  ASSUME NEW args \in Seq(Nat), NEW old \in Nat \ {0}, NEW new \in Nat \ {0},
         NEW r, r = ReplaceAll(args, old, new)
  PROVE  /\ r \in Seq(Nat) /\ Len(r) = Len(args) /\ DOMAIN r = DOMAIN args
         /\ \A k \in DOMAIN args : r[k] = IF args[k] = old THEN new ELSE args[k]
         /\ ToSet(r) \ {0} = ((ToSet(args) \ {0}) \ {old})
                                \cup (IF old \in ToSet(args) THEN {new} ELSE {})
         /\ old \notin ToSet(args) => r = args
<1>1. /\ r \in Seq(Nat) /\ Len(r) = Len(args) /\ DOMAIN r = DOMAIN args
      /\ \A k \in DOMAIN args : r[k] = IF args[k] = old THEN new ELSE args[k]
  BY DEF ReplaceAll
<1>2. ToSet(r) \ {0} = ((ToSet(args) \ {0}) \ {old})
                          \cup (IF old \in ToSet(args) THEN {new} ELSE {})
  BY <1>1 DEF ToSet
<1>3. ASSUME old \notin ToSet(args) PROVE r = args
  <2>1. \A k \in DOMAIN args : args[k] # old
    BY <1>3 DEF ToSet
  <2>2. \A k \in DOMAIN args : r[k] = args[k]
    BY <1>1, <2>1
  <2>3. \A k \in 1..Len(args) : r[k] = args[k]
    BY <2>2
  <2> QED
    BY <1>1, <2>3, SeqEqual
<1> QED
  BY <1>1, <1>2, <1>3

(* It is a node, and uses new where it used old.                           *)
LEMMA RenamedNode ==
  ASSUME NEW n \in Nodes, NEW old \in Nat \ {0}, NEW new \in Nat \ {0}, NEW m, m = Renamed(n, old, new)
  PROVE  /\ m \in Nodes /\ m.args = ReplaceAll(n.args, old, new)
         /\ m.op = n.op /\ m.alpha = n.alpha /\ m.c = n.c /\ m.shape = n.shape /\ m.act = n.act
         /\ m.transB = n.transB /\ m.prog = n.prog
         /\ Len(m.args) = Len(n.args) /\ DOMAIN m.args = DOMAIN n.args
         /\ \A k \in DOMAIN n.args : m.args[k] = IF n.args[k] = old THEN new ELSE n.args[k]
         /\ Operands(m) = (Operands(n) \ {old})
                             \cup (IF old \in Operands(n) THEN {new} ELSE {})
         /\ old \notin Operands(n) => m = n
<1>1. n.args \in Seq(Nat)
  BY DEF Nodes
<1> DEFINE a == ReplaceAll(n.args, old, new)
<1>2. /\ a \in Seq(Nat) /\ Len(a) = Len(n.args) /\ DOMAIN a = DOMAIN n.args
      /\ \A k \in DOMAIN n.args : a[k] = IF n.args[k] = old THEN new ELSE n.args[k]
      /\ ToSet(a) \ {0} = ((ToSet(n.args) \ {0}) \ {old})
                                \cup (IF old \in ToSet(n.args) THEN {new} ELSE {})
      /\ old \notin ToSet(n.args) => a = n.args
  <2> DEFINE o == n.args
  <2>1. o \in Seq(Nat) /\ a = ReplaceAll(o, old, new)
    BY <1>1
  <2> HIDE DEF o, a
  <2>2. /\ a \in Seq(Nat) /\ Len(a) = Len(o) /\ DOMAIN a = DOMAIN o
        /\ \A k \in DOMAIN o : a[k] = IF o[k] = old THEN new ELSE o[k]
        /\ ToSet(a) \ {0} = ((ToSet(o) \ {0}) \ {old})
                                  \cup (IF old \in ToSet(o) THEN {new} ELSE {})
        /\ old \notin ToSet(o) => a = o
    BY <2>1, ReplacedOperands
  <2> QED
    BY <2>2 DEF o
<1>3. m = [n EXCEPT !.args = a]
  BY DEF Renamed
<1> HIDE DEF a
<1>4. /\ m \in Nodes /\ m.args = a
      /\ m.op = n.op /\ m.alpha = n.alpha /\ m.c = n.c /\ m.shape = n.shape /\ m.act = n.act
      /\ m.transB = n.transB /\ m.prog = n.prog
      /\ a = n.args => m = n
  BY <1>2, <1>3, WithOperands
<1>5. m.args = ReplaceAll(n.args, old, new)
  BY <1>4 DEF a
<1>6. Operands(m) = (Operands(n) \ {old}) \cup (IF old \in Operands(n) THEN {new} ELSE {})
  BY <1>2, <1>4 DEF Operands
<1> QED
  BY <1>2, <1>4, <1>5, <1>6 DEF Operands

(* h is g with the node n, of number new, in place of node i for its users.*)
Placed(g, n, i, new, h) ==
  /\ Sound(h)
  /\ h.nodes = [j \in 1..new |-> h.nodes[j]] /\ Len(h.nodes) = new
  /\ Ids(h) = Ids(g) \cup {new} /\ new \notin Ids(g)
  /\ \A j \in DOMAIN g.nodes : h.nodes[j] = Renamed(g.nodes[j], i, new)
  /\ h.nodes[new] = n
  /\ Users(h, i) = {} /\ Users(h, new) = Users(g, i)
  /\ \A x \in Ids(g) \ {i} :
       Users(h, x) = Users(g, x) \cup (IF x \in Operands(n) THEN {new} ELSE {})
  /\ \A a, b : Before(g.order, a, b) => Before(h.order, a, b)
  /\ Before(h.order, new, i)

(* Put does this for a node whose operands come before node i.             *)
LEMMA PutKeeps ==
  ASSUME NEW g, Sound(g), NEW i \in Ids(g), NEW n \in Nodes,
         \A j \in Operands(n) : Before(g.order, j, i),
         NEW h, h = Put(g, n, i), NEW new, new = Len(g.nodes) + 1
  PROVE  Placed(g, n, i, new, h)
<1> DEFINE p == Position(g, i)
<1>1. /\ Graph(g) /\ Ids(g) \subseteq DOMAIN g.nodes /\ DOMAIN g.nodes = 1..Len(g.nodes)
      /\ Len(g.nodes) \in Nat /\ new \in Nat \ {0} /\ new \notin DOMAIN g.nodes
      /\ i \in Nat \ {0}
  BY IdsOfGraph DEF Sound
<1>2. p \in DOMAIN g.order /\ g.order[p] = i
  BY <1>1, PositionFound DEF Graph
<1>3. /\ h = [nodes |-> h.nodes, order |-> h.order]
      /\ h.order = InsertAt(g.order, p, new)
      /\ h.nodes = [j \in 1..new |-> h.nodes[j]]
      /\ \A j \in 1..new : h.nodes[j] = Renamed(IF j = new THEN n ELSE g.nodes[j], i, new)
  <2> DEFINE G == Insert(g, n, i)
  <2>1. G.nodes = Append(g.nodes, n) /\ G.order = InsertAt(g.order, p, new)
        /\ G = [nodes |-> G.nodes, order |-> G.order]
    BY DEF Insert
  <2>2. /\ DOMAIN G.nodes = 1..new
        /\ \A j \in 1..new : G.nodes[j] = IF j = new THEN n ELSE g.nodes[j]
    BY <1>1, <2>1 DEF Graph
  <2> HIDE DEF G
  <2> DEFINE H == [j \in DOMAIN G.nodes |->
                     Renamed(G.nodes[j], i, new)]
  <2>3. h = [G EXCEPT !.nodes = H]
    BY DEF Put, ReplaceUses, Renamed, G
  <2>4. /\ H = [j \in 1..new |-> H[j]]
        /\ \A j \in 1..new : H[j] = Renamed(G.nodes[j], i, new)
    BY <2>2
  <2> HIDE DEF H
  <2>5. h.nodes = H /\ h.order = G.order /\ h = [nodes |-> h.nodes, order |-> h.order]
    BY <2>1, <2>3
  <2>6. h.nodes = [j \in 1..new |-> h.nodes[j]]
    BY <2>4, <2>5
  <2>7. ASSUME NEW j \in 1..new
        PROVE  h.nodes[j] = Renamed(IF j = new THEN n ELSE g.nodes[j], i, new)
    <3>1. h.nodes[j] = Renamed(G.nodes[j], i, new)
      BY <2>4, <2>5
    <3>2. G.nodes[j] = IF j = new THEN n ELSE g.nodes[j]
      BY <2>2
    <3> QED
      BY <3>1, <3>2
  <2> QED
    BY <2>1, <2>5, <2>6, <2>7
<1>4. i \notin Operands(n)
  BY <1>1, BeforeOrders DEF Graph
<1>5. h.nodes[new] = n
  <2>1. h.nodes[new] = Renamed(n, i, new)
    <3>1. new \in 1..new
      BY <1>1
    <3> QED
      BY <1>3, <3>1
  <2> QED
    BY <1>1, <1>4, <2>1, RenamedNode
<1>6. \A j \in DOMAIN g.nodes : h.nodes[j] = Renamed(g.nodes[j], i, new) /\ h.nodes[j] \in Nodes
  <2> SUFFICES ASSUME NEW j \in DOMAIN g.nodes
               PROVE  h.nodes[j] = Renamed(g.nodes[j], i, new) /\ h.nodes[j] \in Nodes
    OBVIOUS
  <2>1. j \in 1..new /\ j # new
    BY <1>1
  <2>2. h.nodes[j] = Renamed(g.nodes[j], i, new)
    BY <1>3, <2>1
  <2>3. g.nodes[j] \in Nodes
    BY <1>1, IdsOfGraph
  <2> QED
    BY <1>1, <2>2, <2>3, RenamedNode
<1>7. /\ h.nodes \in Seq(Nodes) /\ Len(h.nodes) = new
  <2>1. \A j \in 1..new : j = new \/ j \in DOMAIN g.nodes
    BY <1>1
  <2>2. \A j \in 1..new : h.nodes[j] \in Nodes
    BY <1>5, <1>6, <2>1
  <2>3. h.nodes = [j \in 1..new |-> h.nodes[j]] /\ new \in Nat
    BY <1>1, <1>3
  <2> QED
    BY <2>2, <2>3, SequenceOf
<1>8. /\ h.order \in Seq(DOMAIN h.nodes) /\ Distinct(h.order) /\ Ids(h) = Ids(g) \cup {new}
      /\ \A a, b : Before(g.order, a, b) => Before(h.order, a, b)
      /\ \A a : Before(g.order, a, i) => Before(h.order, a, new)
      /\ \A b : b = i \/ Before(g.order, i, b) => Before(h.order, new, b)
  <2>1. g.order \in Seq(1..new) /\ Distinct(g.order) /\ new \in 1..new /\ new \notin ToSet(g.order)
    BY <1>1 DEF Graph, Ids
  <2> QED
    BY <1>2, <1>3, <2>1, InsertedBefore DEF Ids
<1>9. Graph(h)
  BY <1>3, <1>7, <1>8 DEF Graph
<1>10. \A j \in DOMAIN g.nodes :
         Operands(h.nodes[j]) = (Operands(g.nodes[j]) \ {i})
                                   \cup (IF i \in Operands(g.nodes[j]) THEN {new} ELSE {})
  <2> SUFFICES ASSUME NEW j \in DOMAIN g.nodes
               PROVE  Operands(h.nodes[j]) = (Operands(g.nodes[j]) \ {i})
                                   \cup (IF i \in Operands(g.nodes[j]) THEN {new} ELSE {})
    OBVIOUS
  <2>1. g.nodes[j] \in Nodes
    BY <1>1, IdsOfGraph
  <2> QED
    BY <1>1, <1>6, <2>1, RenamedNode
<1>11. \A j \in DOMAIN g.nodes : Operands(g.nodes[j]) \subseteq Ids(g)
  <2>1. \A j \in Ids(g) : Operands(g.nodes[j]) \subseteq Ids(g)
    BY BeforeOrders DEF Sound, Graph, Ids
  <2>2. \A j \in DOMAIN g.nodes \ Ids(g) : Operands(g.nodes[j]) = {}
    BY DEF Sound, Operands, ToSet
  <2> QED
    BY <2>1, <2>2
<1>12. Operands(n) \subseteq Ids(g) \ {i}
  BY <1>1, BeforeOrders DEF Graph, Ids
<1>13. Sound(h)
  <2>1. ASSUME NEW j \in DOMAIN h.nodes \ Ids(h) PROVE h.nodes[j].args = <<>>
    <3>1. j \in DOMAIN g.nodes \ Ids(g)
      <4>1. DOMAIN h.nodes = 1..new
        BY <1>7
      <4>2. j \in 1..new /\ j # new /\ j \notin Ids(g)
        BY <1>8, <2>1, <4>1
      <4> QED
        BY <1>1, <4>2
    <3>2. g.nodes[j].args = <<>> /\ g.nodes[j] \in Nodes
      BY <1>1, <3>1, IdsOfGraph DEF Sound
    <3>3. i \notin Operands(g.nodes[j])
      BY <3>2 DEF Operands, ToSet
    <3>4. h.nodes[j] = g.nodes[j]
      <4>1. h.nodes[j] = Renamed(g.nodes[j], i, new)
        BY <1>6, <3>1
      <4> QED
        BY <1>1, <3>2, <3>3, <4>1, RenamedNode
    <3> QED
      BY <3>2, <3>4
  <2>2. ASSUME NEW j \in Ids(h), NEW k \in Operands(h.nodes[j]) PROVE Before(h.order, k, j)
    <3>1. CASE j = new
      BY <1>5, <1>8, <2>2, <3>1
    <3>2. CASE j \in Ids(g)
      <4>1. CASE k \in Operands(g.nodes[j])
        BY <1>8, <3>2, <4>1 DEF Sound
      <4>2. CASE k = new /\ i \in Operands(g.nodes[j])
        BY <1>8, <3>2, <4>2 DEF Sound
      <4> QED
        BY <1>1, <1>10, <2>2, <3>2, <4>1, <4>2
    <3> QED
      BY <1>8, <3>1, <3>2
  <2> QED
    BY <1>9, <2>1, <2>2 DEF Sound
<1>14. Users(h, i) = {}
  <2> SUFFICES ASSUME NEW j \in Ids(h), i \in Operands(h.nodes[j]) PROVE FALSE
    BY DEF Users
  <2> QED
    BY <1>1, <1>5, <1>8, <1>10, <1>12
<1>15. Users(h, new) = Users(g, i)
  <2>1. new \notin Ids(g)
    BY <1>1
  <2>2. ASSUME NEW j \in Ids(g)
        PROVE  new \in Operands(h.nodes[j]) <=> i \in Operands(g.nodes[j])
    <3>1. j \in DOMAIN g.nodes
      BY <1>1
    <3>2. new \notin Operands(g.nodes[j])
      BY <1>11, <2>1, <3>1
    <3> QED
      BY <1>10, <3>1, <3>2
  <2>3. new \notin Operands(h.nodes[new])
    BY <1>5, <1>12, <2>1
  <2> QED
    BY <1>8, <2>2, <2>3 DEF Users
<1>16. ASSUME NEW x \in Ids(g) \ {i}
       PROVE  Users(h, x) = Users(g, x) \cup (IF x \in Operands(n) THEN {new} ELSE {})
  <2>1. x # new /\ x # i
    BY <1>1
  <2>2. \A j \in Ids(g) : x \in Operands(h.nodes[j]) <=> x \in Operands(g.nodes[j])
    BY <1>1, <1>10, <2>1
  <2>3. new \notin Ids(g)
    BY <1>1
  <2> QED
    BY <1>5, <1>8, <2>2, <2>3 DEF Users
<1> QED
  BY <1>1, <1>3, <1>5, <1>6, <1>7, <1>8, <1>13, <1>14, <1>15, <1>16 DEF Placed

-----------------------------------------------------------------------------
(* The recursions of the passes, step by step.                             *)

(* f is the graph after each erase_node.                                   *)
EraseAllSteps(f, g, is) ==
  /\ f[0] = g
  /\ \A k \in 1..Len(is) : f[k] = Erase(f[k - 1], is[k])
  /\ EraseAll(g, is) = f[Len(is)]

(* erase_node, one after the other.                                          *)
LEMMA EraseAllRun ==
  ASSUME NEW g, NEW is, Len(is) \in Nat
  PROVE  \E f : EraseAllSteps(f, g, is)
<1> DEFINE n == Len(is)
           Rec(f, m) == f = [k \in 0..m |-> IF k = 0 THEN g ELSE Erase(f[k - 1], is[k])]
           S == {m \in Nat : \E f : Rec(f, m)}
<1>1. 0 \in S
  <2>1. Rec([k \in 0..0 |-> g], 0)
    OBVIOUS
  <2> QED
    BY <2>1
<1>2. ASSUME NEW m \in Nat, m \in S PROVE m + 1 \in S
  <2>1. PICK f : Rec(f, m)
    BY <1>2
  <2> DEFINE h == [k \in 0..(m + 1) |-> IF k = m + 1 THEN Erase(f[k - 1], is[k]) ELSE f[k]]
  <2>2. \A k \in 0..m : h[k] = f[k]
    OBVIOUS
  <2>3. \A k \in 0..(m + 1) : h[k] = IF k = 0 THEN g ELSE Erase(h[k - 1], is[k])
    <3>1. h[m + 1] = Erase(h[(m + 1) - 1], is[(m + 1)])
      BY <2>2
    <3>2. \A k \in 0..m : f[k] = IF k = 0 THEN g ELSE Erase(f[k - 1], is[k])
      BY <2>1
    <3>4. ASSUME NEW k \in 1..m PROVE h[k] = Erase(h[k - 1], is[k])
      <4>1. k \in 0..m /\ k # 0 /\ k - 1 \in 0..m
        OBVIOUS
      <4>2. h[k] = f[k] /\ h[k - 1] = f[k - 1]
        BY <2>2, <4>1
      <4>3. f[k] = Erase(f[k - 1], is[k])
        BY <3>2, <4>1
      <4> HIDE DEF h
      <4> QED
        BY <4>2, <4>3
    <3>5. h[0] = g
      BY <2>2, <3>2
    <3> HIDE DEF h
    <3> SUFFICES ASSUME NEW k \in 0..(m + 1) PROVE h[k] = IF k = 0 THEN g ELSE Erase(h[k - 1], is[k])
      OBVIOUS
    <3>6. k = 0 \/ k \in 1..m \/ k = m + 1
      OBVIOUS
    <3>7. k \in 1..m \/ k = m + 1 => k # 0
      OBVIOUS
    <3>8. CASE k = 0
      BY <3>5, <3>8
    <3>9. CASE k \in 1..m
      BY <3>4, <3>7, <3>9
    <3>10. CASE k = m + 1
      BY <3>1, <3>7, <3>10
    <3> QED
      BY <3>6, <3>8, <3>9, <3>10
  <2>4. Rec(h, m + 1)
    BY <2>3
  <2> HIDE DEF h, Rec
  <2>5. \E F : Rec(F, m + 1)
    BY <2>4
  <2> QED
    BY <2>5
<1>3. n \in S
  <2> HIDE DEF S
  <2> QED
    BY <1>1, <1>2, SetInduction
<1> DEFINE F == CHOOSE f : Rec(f, n)
<1>4. Rec(F, n)
  BY <1>3
<1>5. EraseAll(g, is) = F[n]
  BY DEF EraseAll
<1> HIDE DEF F
<1>6. F[0] = g /\ \A k \in 1..n : F[k] = Erase(F[k - 1], is[k])
  <2>1. \A k \in 0..n : F[k] = IF k = 0 THEN g ELSE Erase(F[k - 1], is[k])
    BY <1>4
  <2>2. 0 \in 0..n /\ \A k \in 1..n : k \in 0..n /\ k # 0
    OBVIOUS
  <2> QED
    BY <2>1, <2>2
<1> QED
  BY <1>5, <1>6 DEF EraseAllSteps

(* f is the graph after each node of the sweep.                            *)
SweptSteps(f, g, group, order) ==
  /\ f[0] = g
  /\ \A k \in 1..Len(order) : f[k] = EraseUnused(f[k - 1], group, order[Len(order) + 1 - k])
  /\ Swept(g, group, order) = f[Len(order)]

(* The sweep of a group, from the last node of the order.                    *)
LEMMA SweptRun ==
  ASSUME NEW g, NEW group, NEW order, Len(order) \in Nat
  PROVE  \E f : SweptSteps(f, g, group, order)
<1> DEFINE n == Len(order)
           Rec(f, m) == f = [k \in 0..m |-> IF k = 0 THEN g ELSE EraseUnused(f[k - 1], group, order[Len(order) + 1 - k])]
           S == {m \in Nat : \E f : Rec(f, m)}
<1>1. 0 \in S
  <2>1. Rec([k \in 0..0 |-> g], 0)
    OBVIOUS
  <2> QED
    BY <2>1
<1>2. ASSUME NEW m \in Nat, m \in S PROVE m + 1 \in S
  <2>1. PICK f : Rec(f, m)
    BY <1>2
  <2> DEFINE h == [k \in 0..(m + 1) |-> IF k = m + 1 THEN EraseUnused(f[k - 1], group, order[Len(order) + 1 - k]) ELSE f[k]]
  <2>2. \A k \in 0..m : h[k] = f[k]
    OBVIOUS
  <2>3. \A k \in 0..(m + 1) : h[k] = IF k = 0 THEN g ELSE EraseUnused(h[k - 1], group, order[Len(order) + 1 - k])
    <3>1. h[m + 1] = EraseUnused(h[(m + 1) - 1], group, order[Len(order) + 1 - (m + 1)])
      BY <2>2
    <3>2. \A k \in 0..m : f[k] = IF k = 0 THEN g ELSE EraseUnused(f[k - 1], group, order[Len(order) + 1 - k])
      BY <2>1
    <3>4. ASSUME NEW k \in 1..m PROVE h[k] = EraseUnused(h[k - 1], group, order[Len(order) + 1 - k])
      <4>1. k \in 0..m /\ k # 0 /\ k - 1 \in 0..m
        OBVIOUS
      <4>2. h[k] = f[k] /\ h[k - 1] = f[k - 1]
        BY <2>2, <4>1
      <4>3. f[k] = EraseUnused(f[k - 1], group, order[Len(order) + 1 - k])
        BY <3>2, <4>1
      <4> HIDE DEF h
      <4> QED
        BY <4>2, <4>3
    <3>5. h[0] = g
      BY <2>2, <3>2
    <3> HIDE DEF h
    <3> SUFFICES ASSUME NEW k \in 0..(m + 1) PROVE h[k] = IF k = 0 THEN g ELSE EraseUnused(h[k - 1], group, order[Len(order) + 1 - k])
      OBVIOUS
    <3>6. k = 0 \/ k \in 1..m \/ k = m + 1
      OBVIOUS
    <3>7. k \in 1..m \/ k = m + 1 => k # 0
      OBVIOUS
    <3>8. CASE k = 0
      BY <3>5, <3>8
    <3>9. CASE k \in 1..m
      BY <3>4, <3>7, <3>9
    <3>10. CASE k = m + 1
      BY <3>1, <3>7, <3>10
    <3> QED
      BY <3>6, <3>8, <3>9, <3>10
  <2>4. Rec(h, m + 1)
    BY <2>3
  <2> HIDE DEF h, Rec
  <2>5. \E F : Rec(F, m + 1)
    BY <2>4
  <2> QED
    BY <2>5
<1>3. n \in S
  <2> HIDE DEF S
  <2> QED
    BY <1>1, <1>2, SetInduction
<1> DEFINE F == CHOOSE f : Rec(f, n)
<1>4. Rec(F, n)
  BY <1>3
<1>5. Swept(g, group, order) = F[n]
  BY DEF Swept
<1> HIDE DEF F
<1>6. F[0] = g /\ \A k \in 1..n : F[k] = EraseUnused(F[k - 1], group, order[Len(order) + 1 - k])
  <2>1. \A k \in 0..n : F[k] = IF k = 0 THEN g ELSE EraseUnused(F[k - 1], group, order[Len(order) + 1 - k])
    BY <1>4
  <2>2. 0 \in 0..n /\ \A k \in 1..n : k \in 0..n /\ k # 0
    OBVIOUS
  <2> QED
    BY <2>1, <2>2
<1> QED
  BY <1>5, <1>6 DEF SweptSteps

(* A round of the loop that collects a group.                              *)
Grown(g, S) ==
  S \cup {i \in PointwiseIds(g) : Users(g, i) # {} /\ Users(g, i) \subseteq S}

GroupSteps(f, g, root) ==
  /\ f[0] = {root}
  /\ \A k \in 1..Len(g.order) : f[k] = Grown(g, f[k - 1])
  /\ Group(g, root) = f[Len(g.order)]

(* A group grows.                                                            *)
LEMMA GroupRun ==
  ASSUME NEW g, NEW root, Len(g.order) \in Nat
  PROVE  \E f : GroupSteps(f, g, root)
<1> DEFINE n == Len(g.order)
           Rec(f, m) == f = [k \in 0..m |-> IF k = 0 THEN {root} ELSE Grown(g, f[k - 1])]
           S == {m \in Nat : \E f : Rec(f, m)}
<1>1. 0 \in S
  <2>1. Rec([k \in 0..0 |-> {root}], 0)
    OBVIOUS
  <2> QED
    BY <2>1
<1>2. ASSUME NEW m \in Nat, m \in S PROVE m + 1 \in S
  <2>1. PICK f : Rec(f, m)
    BY <1>2
  <2> DEFINE h == [k \in 0..(m + 1) |-> IF k = m + 1 THEN Grown(g, f[k - 1]) ELSE f[k]]
  <2>2. \A k \in 0..m : h[k] = f[k]
    OBVIOUS
  <2>3. \A k \in 0..(m + 1) : h[k] = IF k = 0 THEN {root} ELSE Grown(g, h[k - 1])
    <3>1. h[m + 1] = Grown(g, h[(m + 1) - 1])
      BY <2>2
    <3>2. \A k \in 0..m : f[k] = IF k = 0 THEN {root} ELSE Grown(g, f[k - 1])
      BY <2>1
    <3>4. ASSUME NEW k \in 1..m PROVE h[k] = Grown(g, h[k - 1])
      <4>1. k \in 0..m /\ k # 0 /\ k - 1 \in 0..m
        OBVIOUS
      <4>2. h[k] = f[k] /\ h[k - 1] = f[k - 1]
        BY <2>2, <4>1
      <4>3. f[k] = Grown(g, f[k - 1])
        BY <3>2, <4>1
      <4> HIDE DEF h
      <4> QED
        BY <4>2, <4>3
    <3>5. h[0] = {root}
      BY <2>2, <3>2
    <3> HIDE DEF h
    <3> SUFFICES ASSUME NEW k \in 0..(m + 1) PROVE h[k] = IF k = 0 THEN {root} ELSE Grown(g, h[k - 1])
      OBVIOUS
    <3>6. k = 0 \/ k \in 1..m \/ k = m + 1
      OBVIOUS
    <3>7. k \in 1..m \/ k = m + 1 => k # 0
      OBVIOUS
    <3>8. CASE k = 0
      BY <3>5, <3>8
    <3>9. CASE k \in 1..m
      BY <3>4, <3>7, <3>9
    <3>10. CASE k = m + 1
      BY <3>1, <3>7, <3>10
    <3> QED
      BY <3>6, <3>8, <3>9, <3>10
  <2>4. Rec(h, m + 1)
    BY <2>3
  <2> HIDE DEF h, Rec
  <2>5. \E F : Rec(F, m + 1)
    BY <2>4
  <2> QED
    BY <2>5
<1>3. n \in S
  <2> HIDE DEF S
  <2> QED
    BY <1>1, <1>2, SetInduction
<1> DEFINE F == CHOOSE f : Rec(f, n)
<1>4. Rec(F, n)
  BY <1>3
<1>5. Group(g, root) = F[n]
  BY DEF Group, Grown
<1> HIDE DEF F
<1>6. F[0] = {root} /\ \A k \in 1..n : F[k] = Grown(g, F[k - 1])
  <2>1. \A k \in 0..n : F[k] = IF k = 0 THEN {root} ELSE Grown(g, F[k - 1])
    BY <1>4
  <2>2. 0 \in 0..n /\ \A k \in 1..n : k \in 0..n /\ k # 0
    OBVIOUS
  <2> QED
    BY <2>1, <2>2
<1> QED
  BY <1>5, <1>6 DEF GroupSteps

(* The loop that emits a program, step by step.                            *)
Translated(g, group, acc, i) == IF i \in group THEN Translate(g, acc, i) ELSE acc

ProgramSteps(f, g, group) ==
  /\ f[0] = NoProgram
  /\ \A k \in 1..Len(g.order) : f[k] = Translated(g, group, f[k - 1], g.order[k])
  /\ Program(g, group) = f[Len(g.order)]

(* A program grows with the nodes of the group.                              *)
LEMMA ProgramRun ==
  ASSUME NEW g, NEW group, Len(g.order) \in Nat
  PROVE  \E f : ProgramSteps(f, g, group)
<1> DEFINE n == Len(g.order)
           Rec(f, m) == f = [k \in 0..m |-> IF k = 0 THEN NoProgram ELSE Translated(g, group, f[k - 1], g.order[k])]
           S == {m \in Nat : \E f : Rec(f, m)}
<1>1. 0 \in S
  <2>1. Rec([k \in 0..0 |-> NoProgram], 0)
    OBVIOUS
  <2> QED
    BY <2>1
<1>2. ASSUME NEW m \in Nat, m \in S PROVE m + 1 \in S
  <2>1. PICK f : Rec(f, m)
    BY <1>2
  <2> DEFINE h == [k \in 0..(m + 1) |-> IF k = m + 1 THEN Translated(g, group, f[k - 1], g.order[k]) ELSE f[k]]
  <2>2. \A k \in 0..m : h[k] = f[k]
    OBVIOUS
  <2>3. \A k \in 0..(m + 1) : h[k] = IF k = 0 THEN NoProgram ELSE Translated(g, group, h[k - 1], g.order[k])
    <3>1. h[m + 1] = Translated(g, group, h[(m + 1) - 1], g.order[(m + 1)])
      BY <2>2
    <3>2. \A k \in 0..m : f[k] = IF k = 0 THEN NoProgram ELSE Translated(g, group, f[k - 1], g.order[k])
      BY <2>1
    <3>4. ASSUME NEW k \in 1..m PROVE h[k] = Translated(g, group, h[k - 1], g.order[k])
      <4>1. k \in 0..m /\ k # 0 /\ k - 1 \in 0..m
        OBVIOUS
      <4>2. h[k] = f[k] /\ h[k - 1] = f[k - 1]
        BY <2>2, <4>1
      <4>3. f[k] = Translated(g, group, f[k - 1], g.order[k])
        BY <3>2, <4>1
      <4> HIDE DEF h
      <4> QED
        BY <4>2, <4>3
    <3>5. h[0] = NoProgram
      BY <2>2, <3>2
    <3> HIDE DEF h
    <3> SUFFICES ASSUME NEW k \in 0..(m + 1) PROVE h[k] = IF k = 0 THEN NoProgram ELSE Translated(g, group, h[k - 1], g.order[k])
      OBVIOUS
    <3>6. k = 0 \/ k \in 1..m \/ k = m + 1
      OBVIOUS
    <3>7. k \in 1..m \/ k = m + 1 => k # 0
      OBVIOUS
    <3>8. CASE k = 0
      BY <3>5, <3>8
    <3>9. CASE k \in 1..m
      BY <3>4, <3>7, <3>9
    <3>10. CASE k = m + 1
      BY <3>1, <3>7, <3>10
    <3> QED
      BY <3>6, <3>8, <3>9, <3>10
  <2>4. Rec(h, m + 1)
    BY <2>3
  <2> HIDE DEF h, Rec
  <2>5. \E F : Rec(F, m + 1)
    BY <2>4
  <2> QED
    BY <2>5
<1>3. n \in S
  <2> HIDE DEF S
  <2> QED
    BY <1>1, <1>2, SetInduction
<1> DEFINE F == CHOOSE f : Rec(f, n)
<1>4. Rec(F, n)
  BY <1>3
<1>5. Program(g, group) = F[n]
  BY DEF Program, Translated
<1> HIDE DEF F
<1>6. F[0] = NoProgram /\ \A k \in 1..n : F[k] = Translated(g, group, F[k - 1], g.order[k])
  <2>1. \A k \in 0..n : F[k] = IF k = 0 THEN NoProgram ELSE Translated(g, group, F[k - 1], g.order[k])
    BY <1>4
  <2>2. 0 \in 0..n /\ \A k \in 1..n : k \in 0..n /\ k # 0
    OBVIOUS
  <2> QED
    BY <2>1, <2>2
<1> QED
  BY <1>5, <1>6 DEF ProgramSteps

-----------------------------------------------------------------------------
(* What is left of a graph after nodes have been erased.                   *)
Without(g, h, gone) ==
  /\ Sound(h) /\ Len(h.nodes) = Len(g.nodes)
  /\ Ids(h) = Ids(g) \ gone
  /\ \A j \in Ids(h) : h.nodes[j] = g.nodes[j]
  /\ \A a, b : Before(g.order, a, b) /\ a \notin gone /\ b \notin gone => Before(h.order, a, b)

(* A sound graph is left as it is when nothing is erased.                  *)
LEMMA WithoutNothing ==
  ASSUME NEW g, Sound(g)
  PROVE  Without(g, g, {})
BY DEF Without

(* The users left are those that were not erased.                          *)
LEMMA UsersLeft ==
  ASSUME NEW g, NEW h, NEW gone, Without(g, h, gone), NEW x
  PROVE  Users(h, x) = Users(g, x) \ gone
BY DEF Without, Users

(* erase_node of a node without users takes away this node alone.          *)
LEMMA ErasedNode ==
  ASSUME NEW g, Sound(g), NEW i \in Ids(g), Users(g, i) = {}, NEW h, h = Erase(g, i)
  PROVE  Without(g, h, {i})
<1> DEFINE p == Position(g, i)
           n == [g.nodes[i] EXCEPT !.args = <<>>]
           s == RemoveAt(g.order, p)
<1>1. /\ Graph(g) /\ Ids(g) \subseteq DOMAIN g.nodes /\ DOMAIN g.nodes = 1..Len(g.nodes)
      /\ Len(g.nodes) \in Nat
      /\ \A j \in DOMAIN g.nodes : g.nodes[j] \in Nodes
  BY IdsOfGraph DEF Sound
<1>2. p \in DOMAIN g.order /\ g.order[p] = i
  BY <1>1, PositionFound DEF Graph
<1>3. g = [nodes |-> g.nodes, order |-> g.order] /\ g.nodes \in Seq(Nodes)
      /\ g.order \in Seq(DOMAIN g.nodes) /\ Distinct(g.order)
  BY <1>1 DEF Graph
<1>4. n \in Nodes /\ n.args = <<>>
  <2> DEFINE m == g.nodes[i]
             o == <<>>
  <2>1. o \in Seq(Nat) /\ m \in Nodes
    BY <1>1
  <2>2. n = [m EXCEPT !.args = o]
    OBVIOUS
  <2> HIDE DEF m, n, o
  <2>3. n \in Nodes /\ n.args = o
    BY <2>1, <2>2, WithOperands
  <2> QED
    BY <2>3 DEF o
<1>5. /\ h = [nodes |-> h.nodes, order |-> h.order]
      /\ h.order = s
      /\ h.nodes = [g.nodes EXCEPT ![i] = n]
  <2> HIDE DEF s, p
  <2>1. h = [g EXCEPT !.order = s, !.nodes[i].args = <<>>]
    BY DEF Erase, s, p
  <2> QED
    BY <1>3, <2>1
<1> HIDE DEF n
<1>6. i \in DOMAIN g.nodes
  BY <1>1
<1>7. h.nodes \in Seq(Nodes) /\ Len(h.nodes) = Len(g.nodes) /\ DOMAIN h.nodes = DOMAIN g.nodes
      /\ h.nodes[i] = n /\ \A j \in DOMAIN g.nodes : j # i => h.nodes[j] = g.nodes[j]
  BY <1>3, <1>4, <1>5, <1>6
<1>8. /\ s \in Seq(DOMAIN g.nodes) /\ Distinct(s) /\ ToSet(s) = Ids(g) \ {i}
      /\ \A a, b : Before(g.order, a, b) /\ a # i /\ b # i => Before(s, a, b)
  <2> HIDE DEF s
  <2>1. s = RemoveAt(g.order, p)
    BY DEF s
  <2> HIDE DEF p
  <2> QED
    BY <1>2, <1>3, <2>1, RemovedBefore DEF Ids
<1>9. Ids(h) = Ids(g) \ {i}
  BY <1>5, <1>8 DEF Ids
<1>10. Graph(h)
  BY <1>5, <1>7, <1>8 DEF Graph
<1>11. \A j \in DOMAIN h.nodes \ Ids(h) : h.nodes[j].args = <<>>
  <2> SUFFICES ASSUME NEW j \in DOMAIN h.nodes \ Ids(h) PROVE h.nodes[j].args = <<>>
    OBVIOUS
  <2>1. CASE j = i
    BY <1>4, <1>7, <2>1
  <2>2. CASE j # i
    BY <1>7, <1>9, <2>2 DEF Sound
  <2> QED
    BY <2>1, <2>2
<1>12. \A j \in Ids(h) : j # i /\ j \in DOMAIN g.nodes /\ h.nodes[j] = g.nodes[j]
  BY <1>1, <1>7, <1>9
<1>13. \A j \in Ids(h) : \A k \in Operands(h.nodes[j]) : Before(h.order, k, j)
  <2> SUFFICES ASSUME NEW j \in Ids(h), NEW k \in Operands(h.nodes[j]) PROVE Before(h.order, k, j)
    OBVIOUS
  <2>1. j \in Ids(g) /\ j # i /\ k \in Operands(g.nodes[j])
    BY <1>9, <1>12
  <2>2. Before(g.order, k, j) /\ k # i
    BY <2>1 DEF Sound, Users
  <2> QED
    BY <1>5, <1>8, <2>1, <2>2
<1> QED
  BY <1>5, <1>7, <1>8, <1>9, <1>10, <1>11, <1>12, <1>13 DEF Without, Sound

(* ... after others have been erased.                                      *)
LEMMA ErasedToo ==
  ASSUME NEW g, NEW h, NEW gone, Without(g, h, gone),
         NEW i \in Ids(h), Users(h, i) = {}, NEW f, f = Erase(h, i)
  PROVE  Without(g, f, gone \cup {i})
<1>1. Without(h, f, {i})
  BY ErasedNode DEF Without
<1> QED
  BY <1>1 DEF Without

-----------------------------------------------------------------------------
(* Groups, and how they are erased.                                        *)

(* A set of pointwise nodes that only the root connects to the others.     *)
Closed(g, root, S) ==
  /\ root \in S /\ S \subseteq PointwiseIds(g)
  /\ \A i \in S \ {root} : /\ Users(g, i) # {} /\ Users(g, i) \subseteq S
                           /\ Before(g.order, i, root)

(* A group is one.                                                         *)
LEMMA GroupClosed ==
  ASSUME NEW g, Sound(g), NEW root, IsRoot(g, root)
  PROVE  Closed(g, root, Group(g, root))
<1>1. Len(g.order) \in Nat /\ g.order \in Seq(DOMAIN g.nodes) /\ Distinct(g.order)
  BY DEF Sound, Graph
<1>2. PICK f : GroupSteps(f, g, root)
  BY <1>1, GroupRun
<1> DEFINE S == {k \in Nat : k <= Len(g.order) => Closed(g, root, f[k])}
<1>3. 0 \in S
  BY <1>2 DEF Closed, IsRoot, GroupSteps
<1>4. ASSUME NEW k \in Nat, k \in S PROVE k + 1 \in S
  <2> SUFFICES ASSUME k + 1 <= Len(g.order) PROVE Closed(g, root, f[k + 1])
    OBVIOUS
  <2>1. k + 1 \in 1..Len(g.order) /\ (k + 1) - 1 = k /\ Closed(g, root, f[k])
    BY <1>1, <1>4
  <2>2. f[k + 1] = Grown(g, f[k])
    BY <1>2, <2>1 DEF GroupSteps
  <2> DEFINE T == f[k]
             U == f[k + 1]
  <2>3. Closed(g, root, T) /\ U = Grown(g, T)
    BY <2>1, <2>2
  <2> HIDE DEF T
  <2>4. root \in U /\ U \subseteq PointwiseIds(g)
    BY <2>3 DEF Closed, Grown
  <2>5. ASSUME NEW i \in U \ {root}
        PROVE  Users(g, i) # {} /\ Users(g, i) \subseteq T /\ Before(g.order, i, root)
    <3>1. CASE i \in T
      BY <2>3, <2>5, <3>1 DEF Closed
    <3>2. CASE i \notin T
      <4>1. Users(g, i) # {} /\ Users(g, i) \subseteq T
        BY <2>3, <2>5, <3>2 DEF Grown
      <4>2. PICK u \in Users(g, i) : TRUE
        BY <4>1
      <4>3. Before(g.order, i, u)
        BY <4>2 DEF Users, Sound
      <4>4. u = root \/ Before(g.order, u, root)
        BY <2>3, <4>1, <4>2 DEF Closed
      <4> QED
        BY <1>1, <4>1, <4>3, <4>4, BeforeOrders
    <3> QED
      BY <3>1, <3>2
  <2>6. T \subseteq U
    BY <2>3 DEF Grown
  <2> QED
    BY <2>4, <2>5, <2>6 DEF Closed
<1>5. Len(g.order) \in S
  <2> HIDE DEF S
  <2> QED
    BY <1>1, <1>3, <1>4, SetInduction
<1> QED
  BY <1>1, <1>2, <1>5 DEF GroupSteps

(* Nodes whose users are among them, and come after them in the order of   *)
(* the sweep, are erased.                                                  *)
LEMMA SweptNodes ==
  ASSUME NEW g, Sound(g), NEW group, group \subseteq Ids(g),
         NEW R, NEW order \in Seq(R), Distinct(order), group \subseteq ToSet(order),
         \A i \in group : \A u \in Users(g, i) : u \in group /\ Before(order, i, u)
  PROVE  Without(g, Swept(g, group, order), group)
<1> DEFINE n == Len(order)
           gone(k) == {i \in group : \E q \in (n + 1 - k)..n : order[q] = i}
<1>1. n \in Nat /\ DOMAIN order = 1..n
  OBVIOUS
<1>2. PICK f : SweptSteps(f, g, group, order)
  BY <1>1, SweptRun
<1>7. /\ f[0] = g
      /\ \A k \in 1..n : f[k] = EraseUnused(f[k - 1], group, order[n + 1 - k])
      /\ Swept(g, group, order) = f[n]
  BY <1>2 DEF SweptSteps
<1> HIDE DEF n
<1> DEFINE S == {k \in Nat : k <= n => Without(g, f[k], gone(k))}
<1>3. 0 \in S
  <2>1. gone(0) = {}
    BY <1>1
  <2> QED
    BY <1>7, <2>1, WithoutNothing
<1>4. ASSUME NEW k \in Nat, k \in S PROVE k + 1 \in S
  <2> SUFFICES ASSUME k + 1 <= n PROVE Without(g, f[k + 1], gone(k + 1))
    OBVIOUS
  <2> DEFINE p == n - k
             i == order[p]
  <2>1. k + 1 \in 1..n /\ (k + 1) - 1 = k /\ n + 1 - (k + 1) = p /\ p \in 1..n
    BY <1>1
  <2>2. Without(g, f[k], gone(k))
    BY <1>1, <1>4
  <2>3. f[k + 1] = EraseUnused(f[k], group, i)
    BY <1>7, <2>1
  <2>4. \A q \in 1..n : q \in (n + 1 - k)..n <=> q > p
    BY <1>1
  <2>5. \A q \in 1..n : q \in (n + 1 - (k + 1))..n <=> q = p \/ q > p
    BY <1>1
  <2>6. (n + 1 - k)..n \subseteq 1..n /\ (n + 1 - (k + 1))..n \subseteq 1..n
    BY <1>1, <2>1
  <2>7. gone(k + 1) = gone(k) \cup (IF i \in group THEN {i} ELSE {})
    BY <2>1, <2>4, <2>5, <2>6
  <2>8. CASE i \notin group
    BY <2>2, <2>3, <2>7, <2>8 DEF EraseUnused
  <2>9. CASE i \in group
    <3>1. i \notin gone(k)
      BY <1>1, <2>1, <2>4, <2>6 DEF Distinct
    <3>2. Users(g, i) \subseteq gone(k)
      <4> SUFFICES ASSUME NEW u \in Users(g, i) PROVE u \in gone(k)
        OBVIOUS
      <4>1. u \in group /\ Before(order, i, u)
        BY <2>9
      <4>2. PICK a \in 1..n, b \in 1..n : a < b /\ order[a] = i /\ order[b] = u
        BY <1>1, <4>1 DEF Before
      <4>3. a = p
        BY <1>1, <2>1, <4>2 DEF Distinct
      <4>4. b \in (n + 1 - k)..n
        BY <2>4, <4>2, <4>3
      <4> QED
        BY <4>1, <4>2, <4>4
    <3> DEFINE G == gone(k)
               h == f[k]
    <3> HIDE DEF gone
    <3>3. Without(g, h, G) /\ i \in Ids(g) /\ i \notin G /\ Users(g, i) \subseteq G
      BY <2>2, <2>9, <3>1, <3>2
    <3> HIDE DEF G, h
    <3>4. i \in Ids(h)
      BY <3>3 DEF Without
    <3>5. Users(h, i) = {}
      BY <3>3, UsersLeft
    <3>6. Without(g, Erase(h, i), G \cup {i})
      BY <3>3, <3>4, <3>5, ErasedToo
    <3>7. f[k + 1] = Erase(h, i)
      BY <2>3, <2>9, <3>5 DEF EraseUnused, h
    <3> QED
      BY <2>7, <2>9, <3>6, <3>7 DEF G
  <2> QED
    BY <2>8, <2>9
<1>5. n \in S
  <2> HIDE DEF S
  <2> QED
    BY <1>1, <1>3, <1>4, SetInduction
<1>6. gone(n) = group
  <2>1. \A i \in group : \E q \in 1..n : order[q] = i
    BY <1>1 DEF ToSet
  <2>2. n + 1 - n = 1
    BY <1>1
  <2> QED
    BY <2>1, <2>2
<1>8. Without(g, f[n], gone(n))
  BY <1>1, <1>5
<1> HIDE DEF gone
<1> QED
  BY <1>6, <1>7, <1>8

(* A node that takes over the users of a root, and reads what comes before *)
(* it, takes the place of the root's group.                                *)
LEMMA GroupReplaced ==
  ASSUME NEW g, Sound(g), NEW root, IsRoot(g, root), NEW n \in Nodes,
         \A j \in Operands(n) : j \notin Group(g, root) /\ Before(g.order, j, root)
  PROVE  Without(Put(g, n, root), Swept(Put(g, n, root), Group(g, root), g.order), Group(g, root))
<1> DEFINE group == Group(g, root)
           P == Put(g, n, root)
           new == Len(g.nodes) + 1
<1>1. Closed(g, root, group)
  BY GroupClosed
<1>2. /\ g.order \in Seq(DOMAIN g.nodes) /\ Distinct(g.order) /\ ToSet(g.order) = Ids(g)
  BY DEF Sound, Graph, Ids
<1> HIDE DEF P, new, group
<1>3. root \in Ids(g) /\ group \subseteq Ids(g)
  BY <1>1 DEF Closed, PointwiseIds
<1>6. /\ \A j \in Operands(n) : Before(g.order, j, root)
      /\ P = Put(g, n, root) /\ new = Len(g.nodes) + 1
  BY DEF P, new
<1>4. /\ Sound(P) /\ Ids(P) = Ids(g) \cup {new}
      /\ Users(P, root) = {}
      /\ \A x \in Ids(g) \ {root} :
           Users(P, x) = Users(g, x) \cup (IF x \in Operands(n) THEN {new} ELSE {})
  <2>1. Placed(g, n, root, new, P)
    BY <1>3, <1>6, PutKeeps
  <2> QED
    BY <2>1 DEF Placed
<1>5. ASSUME NEW i \in group, NEW u \in Users(P, i)
      PROVE  u \in group /\ Before(g.order, i, u)
  <2>1. i # root
    BY <1>4, <1>5
  <2>2. i \notin Operands(n)
    BY <1>5 DEF group
  <2>3. u \in Users(g, i)
    BY <1>3, <1>4, <1>5, <2>1, <2>2
  <2> QED
    BY <1>1, <1>5, <2>1, <2>3 DEF Closed, Sound, Users
<1> QED
  BY <1>2, <1>3, <1>4, <1>5, SweptNodes DEF P, group

-----------------------------------------------------------------------------
(* Programs under construction.                                            *)

(* A program that may be run: operands are earlier registers, loads are of *)
(* inputs there are, and ssa tells positions of the program.               *)
Acc(acc) ==
  /\ acc = [prog |-> acc.prog, inputs |-> acc.inputs, ssa |-> acc.ssa]
  /\ acc.prog \in Seq(Jit!Nodes) /\ acc.inputs \in Seq(Nat \ {0})
  /\ ToSet(acc.inputs) \subseteq DOMAIN acc.ssa
  /\ \A j \in DOMAIN acc.ssa : acc.ssa[j] \in 0..(Len(acc.prog) - 1)
  /\ \A v \in DOMAIN acc.prog :
       /\ Jit!Reads(acc.prog[v]) \subseteq 0..(v - 2)
       /\ acc.prog[v].op = "load" => acc.prog[v].id \in 0..(Len(acc.inputs) - 1)

(* What is there stays.                                                    *)
Grows(acc, new) ==
  /\ Len(acc.prog) <= Len(new.prog) /\ Len(acc.inputs) <= Len(new.inputs)
  /\ \A v \in DOMAIN acc.prog : new.prog[v] = acc.prog[v]
  /\ \A k \in DOMAIN acc.inputs : new.inputs[k] = acc.inputs[k]
  /\ DOMAIN acc.ssa \subseteq DOMAIN new.ssa
  /\ \A j \in DOMAIN acc.ssa : new.ssa[j] = acc.ssa[j]

(* ... for one step after the other.                                       *)
LEMMA GrowsOn ==
  ASSUME NEW a, Acc(a), NEW b, Acc(b), NEW c, Acc(c), Grows(a, b), Grows(b, c)
  PROVE  Grows(a, c)
<1>1. /\ Len(a.prog) \in Nat /\ Len(b.prog) \in Nat /\ Len(c.prog) \in Nat
      /\ Len(a.inputs) \in Nat /\ Len(b.inputs) \in Nat /\ Len(c.inputs) \in Nat
      /\ DOMAIN a.prog = 1..Len(a.prog) /\ DOMAIN b.prog = 1..Len(b.prog)
      /\ DOMAIN a.inputs = 1..Len(a.inputs) /\ DOMAIN b.inputs = 1..Len(b.inputs)
  BY DEF Acc
<1>2. DOMAIN a.prog \subseteq DOMAIN b.prog /\ DOMAIN a.inputs \subseteq DOMAIN b.inputs
  BY <1>1 DEF Grows
<1> QED
  BY <1>1, <1>2 DEF Grows

(* One more instruction.                                                   *)
LEMMA ExtendedProgram ==
  ASSUME NEW acc, Acc(acc), NEW nd \in Jit!Nodes, Jit!Reads(nd) \subseteq 0..(Len(acc.prog) - 1),
         nd.op # "load", NEW new, new = Extend(acc, nd)
  PROVE  /\ Acc(new) /\ Grows(acc, new)
         /\ new.prog = Append(acc.prog, nd) /\ new.inputs = acc.inputs /\ new.ssa = acc.ssa
         /\ LastPosition(new) = Len(acc.prog) /\ Len(new.prog) = Len(acc.prog) + 1
         /\ new.prog[Len(acc.prog) + 1] = nd
<1>1. /\ new = [prog |-> new.prog, inputs |-> new.inputs, ssa |-> new.ssa]
      /\ new.prog = Append(acc.prog, nd) /\ new.inputs = acc.inputs /\ new.ssa = acc.ssa
  BY DEF Extend, Acc
<1>2. acc.prog \in Seq(Jit!Nodes) /\ Len(acc.prog) \in Nat /\ DOMAIN acc.prog = 1..Len(acc.prog)
  BY DEF Acc
<1>3. /\ new.prog \in Seq(Jit!Nodes) /\ Len(new.prog) = Len(acc.prog) + 1
      /\ DOMAIN new.prog = 1..(Len(acc.prog) + 1)
      /\ new.prog[Len(acc.prog) + 1] = nd
      /\ \A v \in DOMAIN acc.prog : new.prog[v] = acc.prog[v]
  BY <1>1, <1>2
<1>4. \A v \in DOMAIN new.prog :
        /\ Jit!Reads(new.prog[v]) \subseteq 0..(v - 2)
        /\ new.prog[v].op = "load" => new.prog[v].id \in 0..(Len(new.inputs) - 1)
  <2> SUFFICES ASSUME NEW v \in DOMAIN new.prog
               PROVE  /\ Jit!Reads(new.prog[v]) \subseteq 0..(v - 2)
                      /\ new.prog[v].op = "load" => new.prog[v].id \in 0..(Len(new.inputs) - 1)
    OBVIOUS
  <2>1. CASE v = Len(acc.prog) + 1
    <3>1. v - 2 = Len(acc.prog) - 1
      BY <1>2, <2>1
    <3> QED
      BY <1>3, <2>1, <3>1
  <2>2. CASE v \in DOMAIN acc.prog
    BY <1>1, <1>3, <2>2 DEF Acc
  <2> QED
    BY <1>2, <1>3, <2>1, <2>2
<1>5. Acc(new)
  <2>1. \A j \in DOMAIN new.ssa : new.ssa[j] \in 0..(Len(new.prog) - 1)
    BY <1>1, <1>2, <1>3 DEF Acc
  <2>2. new.inputs \in Seq(Nat \ {0}) /\ ToSet(new.inputs) \subseteq DOMAIN new.ssa
    BY <1>1 DEF Acc
  <2> QED
    BY <1>1, <1>3, <1>4, <2>1, <2>2 DEF Acc
<1>6. Len(acc.inputs) \in Nat
  BY DEF Acc
<1>7. Grows(acc, new)
  BY <1>1, <1>2, <1>3, <1>6 DEF Grows
<1> QED
  BY <1>1, <1>2, <1>3, <1>5, <1>7 DEF LastPosition

(* The instructions rec_input adds.                                        *)
Load(id) == [Instruction("load", -1, -1) EXCEPT !.id = id]
Const(c) == [Instruction("const", -1, -1) EXCEPT !.c = c]

(* They read no register.                                                  *)
LEMMA LeafInstructions ==
  /\ \A id \in Nat : /\ Load(id) \in Jit!Nodes /\ Load(id).op = "load" /\ Load(id).id = id
                     /\ Jit!Reads(Load(id)) = {}
  /\ \A c \in Jit!Literals : /\ Const(c) \in Jit!Nodes /\ Const(c).op = "const" /\ Const(c).c = c
                    /\ Jit!Reads(Const(c)) = {}
BY LiteralsUsed DEF Load, Const, Instruction, Jit!Nodes, Jit!Ops, Jit!Unary, Jit!Binary, Jit!Reads

(* One more input, and its load.                                           *)
LEMMA LoadedInput ==
  ASSUME NEW acc, Acc(acc), NEW src \in Nat \ {0}, src \notin DOMAIN acc.ssa, NEW c,
         NEW new, new = RecInput(acc, src, c)
  PROVE  /\ Acc(new) /\ Grows(acc, new)
         /\ DOMAIN new.ssa = DOMAIN acc.ssa \cup {src} /\ new.ssa[src] = Len(acc.prog)
         /\ new.prog = Append(acc.prog, Load(Len(acc.inputs)))
         /\ new.inputs = Append(acc.inputs, src)
<1> DEFINE nd == Load(Len(acc.inputs))
           more == Extend(acc, nd)
           ssa == [j \in DOMAIN acc.ssa \cup {src} |->
                     IF j = src THEN LastPosition(more) ELSE acc.ssa[j]]
<1>1. /\ acc.prog \in Seq(Jit!Nodes) /\ Len(acc.prog) \in Nat /\ DOMAIN acc.prog = 1..Len(acc.prog)
      /\ acc.inputs \in Seq(Nat \ {0}) /\ Len(acc.inputs) \in Nat
      /\ DOMAIN acc.inputs = 1..Len(acc.inputs)
      /\ acc = [prog |-> acc.prog, inputs |-> acc.inputs, ssa |-> acc.ssa]
  BY DEF Acc
<1>2. /\ more = [prog |-> more.prog, inputs |-> more.inputs, ssa |-> more.ssa]
      /\ more.prog = Append(acc.prog, nd) /\ more.inputs = acc.inputs /\ more.ssa = acc.ssa
  <2> HIDE DEF nd
  <2>1. more = [acc EXCEPT !.prog = Append(acc.prog, nd)]
    BY DEF Extend
  <2> HIDE DEF more
  <2>2. acc = [prog |-> acc.prog, inputs |-> acc.inputs, ssa |-> acc.ssa]
    BY <1>1
  <2> QED
    BY <2>1, <2>2
<1>3. new = [more EXCEPT !.inputs = Append(acc.inputs, src), !.ssa = ssa]
  BY <1>2 DEF RecInput, Load
<1>4. nd \in Jit!Nodes /\ nd.op = "load" /\ nd.id = Len(acc.inputs) /\ Jit!Reads(nd) = {}
  BY <1>1, LeafInstructions
<1> HIDE DEF more, nd
<1>5. LastPosition(more) = Len(acc.prog)
  BY <1>1, <1>2, <1>4 DEF LastPosition
<1>6. /\ DOMAIN ssa = DOMAIN acc.ssa \cup {src} /\ ssa[src] = Len(acc.prog)
      /\ \A j \in DOMAIN acc.ssa : ssa[j] = acc.ssa[j]
  BY <1>5
<1> HIDE DEF ssa
<1>7. /\ new = [prog |-> new.prog, inputs |-> new.inputs, ssa |-> new.ssa]
      /\ new.prog = Append(acc.prog, nd) /\ new.inputs = Append(acc.inputs, src) /\ new.ssa = ssa
  BY <1>2, <1>3
<1>8. /\ new.prog \in Seq(Jit!Nodes) /\ Len(new.prog) = Len(acc.prog) + 1
      /\ DOMAIN new.prog = 1..(Len(acc.prog) + 1)
      /\ new.prog[Len(acc.prog) + 1] = nd
      /\ \A v \in DOMAIN acc.prog : new.prog[v] = acc.prog[v]
  BY <1>1, <1>4, <1>7
<1>9. /\ new.inputs \in Seq(Nat \ {0}) /\ Len(new.inputs) = Len(acc.inputs) + 1
      /\ \A k \in DOMAIN acc.inputs : new.inputs[k] = acc.inputs[k]
      /\ ToSet(new.inputs) = ToSet(acc.inputs) \cup {src}
  <2>1. /\ new.inputs \in Seq(Nat \ {0}) /\ Len(new.inputs) = Len(acc.inputs) + 1
        /\ DOMAIN new.inputs = 1..(Len(acc.inputs) + 1)
        /\ new.inputs[Len(acc.inputs) + 1] = src
        /\ \A k \in DOMAIN acc.inputs : new.inputs[k] = acc.inputs[k]
    BY <1>1, <1>7
  <2>2. \A k \in 1..(Len(acc.inputs) + 1) : k = Len(acc.inputs) + 1 \/ k \in 1..Len(acc.inputs)
    BY <1>1
  <2>3. Len(acc.inputs) + 1 \in 1..(Len(acc.inputs) + 1)
        /\ 1..Len(acc.inputs) \subseteq 1..(Len(acc.inputs) + 1)
    BY <1>1
  <2>4. \A x : x \in ToSet(new.inputs) <=> x \in ToSet(acc.inputs) \cup {src}
    BY <1>1, <2>1, <2>2, <2>3 DEF ToSet
  <2> QED
    BY <2>1, <2>4
<1>10. \A v \in DOMAIN new.prog :
         /\ Jit!Reads(new.prog[v]) \subseteq 0..(v - 2)
         /\ new.prog[v].op = "load" => new.prog[v].id \in 0..(Len(new.inputs) - 1)
  <2> SUFFICES ASSUME NEW v \in DOMAIN new.prog
               PROVE  /\ Jit!Reads(new.prog[v]) \subseteq 0..(v - 2)
                      /\ new.prog[v].op = "load" => new.prog[v].id \in 0..(Len(new.inputs) - 1)
    OBVIOUS
  <2>1. CASE v = Len(acc.prog) + 1
    <3>1. nd.id \in 0..(Len(new.inputs) - 1)
      BY <1>1, <1>4, <1>9
    <3> QED
      BY <1>4, <1>8, <2>1, <3>1
  <2>2. CASE v \in DOMAIN acc.prog
    <3>1. /\ Jit!Reads(new.prog[v]) \subseteq 0..(v - 2)
          /\ new.prog[v].op = "load" => new.prog[v].id \in 0..(Len(acc.inputs) - 1)
      BY <1>8, <2>2 DEF Acc
    <3>2. 0..(Len(acc.inputs) - 1) \subseteq 0..(Len(new.inputs) - 1)
      BY <1>1, <1>9
    <3> QED
      BY <3>1, <3>2
  <2> QED
    BY <1>1, <1>8, <2>1, <2>2
<1>11. \A j \in DOMAIN new.ssa : new.ssa[j] \in 0..(Len(new.prog) - 1)
  <2>1. Len(acc.prog) \in 0..(Len(new.prog) - 1)
        /\ 0..(Len(acc.prog) - 1) \subseteq 0..(Len(new.prog) - 1)
    BY <1>1, <1>8
  <2>2. \A j \in DOMAIN acc.ssa : acc.ssa[j] \in 0..(Len(acc.prog) - 1)
    BY DEF Acc
  <2> QED
    BY <1>6, <1>7, <2>1, <2>2
<1>12. ToSet(new.inputs) \subseteq DOMAIN new.ssa
  BY <1>6, <1>7, <1>9 DEF Acc
<1>13. Acc(new)
  BY <1>7, <1>8, <1>9, <1>10, <1>11, <1>12 DEF Acc
<1>14. Grows(acc, new)
  BY <1>1, <1>6, <1>7, <1>8, <1>9 DEF Grows
<1> QED
  BY <1>6, <1>7, <1>13, <1>14 DEF nd

(* What rec_input leaves, for any source.                                  *)
Recorded(acc, src, c, new) ==
  /\ Acc(new) /\ Grows(acc, new)
  /\ DOMAIN new.ssa = DOMAIN acc.ssa \cup ({src} \ {0})
  /\ ToSet(new.inputs) = ToSet(acc.inputs) \cup (({src} \ {0}) \ DOMAIN acc.ssa)
  /\ PositionOf(new, src) \in 0..(Len(new.prog) - 1)

(* rec_input keeps a program one that may be run, with what it recorded.   *)
LEMMA RecInputKeeps ==
  ASSUME NEW acc, Acc(acc), NEW src \in Nat, NEW c \in Jit!Literals, NEW new, new = RecInput(acc, src, c)
  PROVE  Recorded(acc, src, c, new)
<1>1. /\ Len(acc.prog) \in Nat /\ Len(acc.inputs) \in Nat /\ acc.inputs \in Seq(Nat \ {0})
  BY DEF Acc
<1>2. CASE src = 0
  <2>1. new = Extend(acc, Const(c))
    BY <1>2 DEF RecInput, Const
  <2>2. Const(c) \in Jit!Nodes /\ Const(c).op # "load" /\ Jit!Reads(Const(c)) = {}
    BY LeafInstructions
  <2>3. /\ Acc(new) /\ Grows(acc, new) /\ new.inputs = acc.inputs /\ new.ssa = acc.ssa
        /\ LastPosition(new) = Len(acc.prog) /\ Len(new.prog) = Len(acc.prog) + 1
    BY <2>1, <2>2, ExtendedProgram
  <2>4. PositionOf(new, src) \in 0..(Len(new.prog) - 1)
    BY <1>1, <1>2, <2>3 DEF PositionOf
  <2> QED
    BY <1>2, <2>3, <2>4 DEF Recorded
<1>3. CASE src # 0 /\ src \in DOMAIN acc.ssa
  <2>1. new = acc
    BY <1>3 DEF RecInput
  <2>2. Grows(acc, acc)
    BY <1>1 DEF Grows
  <2>3. PositionOf(new, src) \in 0..(Len(new.prog) - 1)
    BY <1>3, <2>1 DEF PositionOf, Acc
  <2> QED
    BY <1>3, <2>1, <2>2, <2>3 DEF Recorded
<1>4. CASE src # 0 /\ src \notin DOMAIN acc.ssa
  <2>1. /\ Acc(new) /\ Grows(acc, new)
        /\ DOMAIN new.ssa = DOMAIN acc.ssa \cup {src}
        /\ new.inputs = Append(acc.inputs, src)
    BY <1>4, LoadedInput
  <2>2. ToSet(new.inputs) = ToSet(acc.inputs) \cup {src}
    <3>1. /\ DOMAIN acc.inputs = 1..Len(acc.inputs)
          /\ DOMAIN new.inputs = 1..(Len(acc.inputs) + 1)
          /\ new.inputs[Len(acc.inputs) + 1] = src
          /\ \A k \in 1..Len(acc.inputs) : new.inputs[k] = acc.inputs[k]
      BY <1>1, <2>1
    <3>2. \A k \in 1..(Len(acc.inputs) + 1) : k = Len(acc.inputs) + 1 \/ k \in 1..Len(acc.inputs)
      BY <1>1
    <3>3. Len(acc.inputs) + 1 \in 1..(Len(acc.inputs) + 1)
          /\ 1..Len(acc.inputs) \subseteq 1..(Len(acc.inputs) + 1)
      BY <1>1
    <3> QED
      BY <3>1, <3>2, <3>3 DEF ToSet
  <2>3. PositionOf(new, src) \in 0..(Len(new.prog) - 1)
    BY <1>4, <2>1 DEF PositionOf, Acc
  <2> QED
    BY <1>4, <2>1, <2>2, <2>3 DEF Recorded
<1> QED
  BY <1>2, <1>3, <1>4

-----------------------------------------------------------------------------
(* Nodes and what they are translated to.                                  *)
(* The operands an operator has, and where a scalar may be one.            *)
Shaped(n) ==
  /\ n.op \in {"mm", "add", "mul"} => Len(n.args) = 2
  /\ n.op \in {"linear", "linear_act"} => Len(n.args) \in {2, 3}
  /\ n.op = "addmm" => Len(n.args) = 3
  /\ n.op \in {"relu_"} \cup Jit!Unary => Len(n.args) = 1
  /\ \A k \in DOMAIN n.args : n.args[k] = 0 =>
       \/ k = 2 /\ n.op \in {"add", "mul"}
       \/ k = 3 /\ n.op = "linear_act"
  /\ n.op = "in" => n.shape \in {"mat", "row"}
  /\ n.op = "pointwise" =>
       /\ Len(n.args) # 0
       /\ Jit!Accepted([n |-> Len(n.args), nodes |-> n.prog])
       /\ \A v \in DOMAIN n.prog : Jit!Reads(n.prog[v]) \subseteq 0..(v - 2)

(* The instruction of a node whose operands are at a and b.                *)
InstructionOf(n, a, b) ==
  IF IsScale(n) THEN [Instruction("scale", a, -1) EXCEPT !.alpha = n.c]
  ELSE IF n.op = "relu_" THEN Instruction("relu", a, -1)
  ELSE IF Len(n.args) = 1 THEN Instruction(n.op, a, -1)
  ELSE BinaryInstruction(n, a, b)

(* It is one that both backends accept, reading a and b.                   *)
LEMMA InstructionTyped ==
  ASSUME NEW n \in Nodes, IsPointwise(n), Shaped(n), NEW m \in Nat, NEW a \in 0..(m - 1), NEW b,
         ~IsScale(n) /\ Len(n.args) # 1 => b \in 0..(m - 1),
         NEW nd, nd = InstructionOf(n, a, b)
  PROVE  nd \in Jit!Nodes /\ Jit!Reads(nd) \subseteq 0..(m - 1) /\ nd.op # "load"
<1>1. n.op \in {"add", "mul", "relu_"} \cup Jit!Unary /\ n.c \in Jit!Literals /\ n.alpha \in Jit!Literals /\ a \in Int
  BY DEF IsPointwise, Nodes
<1>2. CASE IsScale(n)
  <2>1. nd = [op |-> "scale", a |-> a, b |-> -1, id |-> -1, alpha |-> n.c, c |-> Jit!Zero]
    BY <1>2 DEF InstructionOf, Instruction
  <2> QED
    BY <1>1, <2>1, LiteralsUsed DEF Jit!Nodes, Jit!Ops, Jit!Unary, Jit!Binary, Jit!Reads
<1>3. CASE ~IsScale(n) /\ Len(n.args) = 1
  <2> DEFINE o == IF n.op = "relu_" THEN "relu" ELSE n.op
  <2>1. nd = [op |-> o, a |-> a, b |-> -1, id |-> -1, alpha |-> One, c |-> Jit!Zero]
    BY <1>3 DEF InstructionOf, Instruction
  <2>2. n.op \notin {"add", "mul"}
    BY <1>3 DEF Shaped
  <2>3. o \in Jit!Unary /\ One \in Jit!Literals
    BY <1>1, <2>2, LiteralsUsed DEF Jit!Unary
  <2> HIDE DEF o
  <2> QED
    BY <1>1, <2>1, <2>3, LiteralsUsed DEF Jit!Nodes, Jit!Ops, Jit!Unary, Jit!Binary, Jit!Reads
<1>4. CASE ~IsScale(n) /\ Len(n.args) # 1
  <2>1. n.op \in {"add", "mul"}
    BY <1>1, <1>4 DEF Shaped
  <2>2. nd = [op |-> n.op, a |-> a, b |-> b, id |-> -1, alpha |-> n.alpha, c |-> Jit!Zero]
    BY <1>4, <2>1 DEF InstructionOf, Instruction, BinaryInstruction
  <2>3. b \in 0..(m - 1) /\ b \in Int
    BY <1>4
  <2> QED
    BY <1>1, <2>1, <2>2, <2>3, LiteralsUsed DEF Jit!Nodes, Jit!Ops, Jit!Unary, Jit!Binary, Jit!Reads
<1> QED
  BY <1>2, <1>3, <1>4

(* What the pass does to translate the node n, of number i.                *)
TranslateNode(n, acc, i) ==
  LET first  == RecInput(acc, n.args[1], n.c)
      second == IF IsScale(n) \/ Len(n.args) = 1 THEN first ELSE RecInput(first, n.args[2], n.c)
      whole  == Extend(second, InstructionOf(n, PositionOf(first, n.args[1]),
                                                PositionOf(second, n.args[2])))
  IN  [whole EXCEPT !.ssa = [j \in DOMAIN whole.ssa \cup {i} |->
                               IF j = i THEN LastPosition(whole) ELSE whole.ssa[j]]]

(* ... as the loop over the group does.                                    *)
LEMMA TranslateIsOfNode ==
  ASSUME NEW g, NEW acc, NEW i
  PROVE  Translate(g, acc, i) = TranslateNode(g.nodes[i], acc, i)
BY DEF Translate, TranslateNode, InstructionOf

(* The inputs of a node are recorded, then its instruction.                *)
TranslateSteps(acc, n, i, first, second, new) ==
  /\ first = RecInput(acc, n.args[1], n.c) /\ Recorded(acc, n.args[1], n.c, first)
  /\ IF IsScale(n) \/ Len(n.args) = 1 THEN second = first
     ELSE second = RecInput(first, n.args[2], n.c) /\ Recorded(first, n.args[2], n.c, second)
  /\ LET nd == InstructionOf(n, PositionOf(first, n.args[1]), PositionOf(second, n.args[2]))
     IN  /\ nd \in Jit!Nodes /\ Jit!Reads(nd) \subseteq 0..(Len(second.prog) - 1)
         /\ new.prog = Append(second.prog, nd)
  /\ new.inputs = second.inputs
  /\ DOMAIN new.ssa = DOMAIN second.ssa \cup {i} /\ new.ssa[i] = Len(second.prog)
  /\ Acc(second) /\ Acc(new) /\ Grows(acc, second) /\ Grows(second, new)

(* Operands are numbers of nodes, or 0.                                    *)
LEMMA NaturalSequence ==
  \A s \in Seq(Nat) : DOMAIN s = 1..Len(s) /\ Len(s) \in Nat /\ \A k \in 1..Len(s) : s[k] \in Nat
OBVIOUS

(* A node whose operands are outside of the group, or translated, is       *)
(* translated to one more instruction.                                     *)
LEMMA TranslateKeeps ==
  ASSUME NEW acc, Acc(acc), NEW g, NEW i \in Nat \ {0}, NEW n \in Nodes, n = g.nodes[i],
         IsPointwise(n), Shaped(n), i \notin DOMAIN acc.ssa, i \notin Operands(n),
         NEW new, new = Translate(g, acc, i)
  PROVE  /\ \E first, second : TranslateSteps(acc, n, i, first, second, new)
         /\ DOMAIN new.ssa = DOMAIN acc.ssa \cup Operands(n) \cup {i}
         /\ ToSet(new.inputs) = ToSet(acc.inputs) \cup (Operands(n) \ DOMAIN acc.ssa)
         /\ new.prog # <<>>
<1>1. n.args \in Seq(Nat) /\ n.c \in Jit!Literals
  BY DEF Nodes
<1>2. /\ Len(n.args) \in {1, 2} /\ n.args[1] \in Nat /\ DOMAIN n.args = 1..Len(n.args)
      /\ IsScale(n) => Len(n.args) = 2 /\ n.args[2] = 0
      /\ Len(n.args) = 2 => n.args[2] \in Nat
  <2>1. Len(n.args) \in {1, 2} /\ (IsScale(n) => Len(n.args) = 2)
    BY DEF IsPointwise, Shaped, IsScale
  <2>2. DOMAIN n.args = 1..Len(n.args) /\ \A k \in 1..Len(n.args) : n.args[k] \in Nat
    BY <1>1, NaturalSequence
  <2>3. 1 \in 1..Len(n.args) /\ (Len(n.args) = 2 => 2 \in 1..Len(n.args))
    <3> DEFINE l == Len(n.args)
    <3>1. l = 1 \/ l = 2
      BY <2>1
    <3> HIDE DEF l
    <3>2. 1 \in 1..l /\ (l = 2 => 2 \in 1..l)
      BY <3>1
    <3> QED
      BY <3>2 DEF l
  <2>4. IsScale(n) => n.args[2] = 0
    BY DEF IsScale
  <2> QED
    BY <2>1, <2>2, <2>3, <2>4
<1> DEFINE first == RecInput(acc, n.args[1], n.c)
           single == IsScale(n) \/ Len(n.args) = 1
           second == IF single THEN first ELSE RecInput(first, n.args[2], n.c)
           a == PositionOf(first, n.args[1])
           b == PositionOf(second, n.args[2])
           nd == InstructionOf(n, a, b)
           whole == Extend(second, nd)
           ssa == [j \in DOMAIN whole.ssa \cup {i} |->
                     IF j = i THEN LastPosition(whole) ELSE whole.ssa[j]]
<1>3. new = [whole EXCEPT !.ssa = ssa]
  <2>1. new = TranslateNode(n, acc, i)
    BY TranslateIsOfNode
  <2> QED
    BY <2>1 DEF TranslateNode
<1>4. Recorded(acc, n.args[1], n.c, first)
  BY <1>1, <1>2, RecInputKeeps
<1>5. Acc(first) /\ Grows(acc, first) /\ a \in 0..(Len(first.prog) - 1)
  BY <1>4 DEF Recorded
<1>6. ~single => Recorded(first, n.args[2], n.c, second)
  <2> SUFFICES ASSUME ~single PROVE Recorded(first, n.args[2], n.c, second)
    OBVIOUS
  <2>1. n.args[2] \in Nat /\ second = RecInput(first, n.args[2], n.c)
    BY <1>2
  <2> HIDE DEF first, second
  <2> QED
    BY <1>1, <1>5, <2>1, RecInputKeeps
<1>7. /\ first = RecInput(acc, n.args[1], n.c)
      /\ IF single THEN second = first ELSE second = RecInput(first, n.args[2], n.c)
      /\ a = PositionOf(first, n.args[1]) /\ b = PositionOf(second, n.args[2])
      /\ nd = InstructionOf(n, a, b)
      /\ whole = Extend(second, nd)
  OBVIOUS
<1> HIDE DEF first, second, a, b, nd
<1>8. Acc(second) /\ Grows(first, second) /\ Grows(acc, second)
  <2>1. CASE single
    <3>1. Len(first.prog) \in Nat /\ Len(first.inputs) \in Nat
      BY <1>5 DEF Acc
    <3>2. Grows(first, first)
      BY <3>1 DEF Grows
    <3> QED
      BY <1>5, <1>7, <2>1, <3>2
  <2>2. CASE ~single
    BY <1>5, <1>6, <2>2, GrowsOn DEF Recorded
  <2> QED
    BY <2>1, <2>2
<1>9. Len(second.prog) \in Nat /\ Len(first.prog) \in Nat /\ Len(first.prog) <= Len(second.prog)
  BY <1>5, <1>8 DEF Acc, Grows
<1>10. nd \in Jit!Nodes /\ Jit!Reads(nd) \subseteq 0..(Len(second.prog) - 1) /\ nd.op # "load"
  <2>1. a \in 0..(Len(second.prog) - 1)
    BY <1>5, <1>9
  <2>2. ~IsScale(n) /\ Len(n.args) # 1 => b \in 0..(Len(second.prog) - 1)
    BY <1>6, <1>7 DEF Recorded
  <2>3. nd = InstructionOf(n, a, b) /\ Len(second.prog) \in Nat
    BY <1>7, <1>9
  <2> HIDE DEF single, whole, ssa
  <2> QED
    BY <2>1, <2>2, <2>3, InstructionTyped
<1>11. /\ Acc(whole) /\ Grows(second, whole)
       /\ whole.prog = Append(second.prog, nd) /\ whole.inputs = second.inputs
       /\ whole.ssa = second.ssa /\ LastPosition(whole) = Len(second.prog)
       /\ Len(whole.prog) = Len(second.prog) + 1
  BY <1>8, <1>10, ExtendedProgram
<1> HIDE DEF whole
<1>12. i \notin DOMAIN second.ssa
  <2>1. n.args[1] # i /\ (Len(n.args) = 2 => n.args[2] # i)
    BY <1>2 DEF Operands, ToSet
  <2>2. i \notin DOMAIN first.ssa
    BY <1>4, <2>1 DEF Recorded
  <2>3. CASE single
    BY <1>7, <2>2, <2>3
  <2>4. CASE ~single
    BY <1>2, <1>6, <2>1, <2>2, <2>4 DEF Recorded
  <2> QED
    BY <2>3, <2>4
<1>13. /\ DOMAIN ssa = DOMAIN second.ssa \cup {i} /\ ssa[i] = Len(second.prog)
       /\ \A j \in DOMAIN second.ssa : ssa[j] = second.ssa[j]
  BY <1>11, <1>12
<1> HIDE DEF ssa
<1>14. /\ new = [prog |-> new.prog, inputs |-> new.inputs, ssa |-> new.ssa]
       /\ new.prog = whole.prog /\ new.inputs = whole.inputs /\ new.ssa = ssa
  <2>1. whole = [prog |-> whole.prog, inputs |-> whole.inputs, ssa |-> whole.ssa]
    BY <1>11 DEF Acc
  <2> QED
    BY <1>3, <2>1
<1>15. Acc(new)
  <2>1. \A j \in DOMAIN new.ssa : new.ssa[j] \in 0..(Len(new.prog) - 1)
    <3>1. \A j \in DOMAIN second.ssa : ssa[j] \in 0..(Len(whole.prog) - 1)
      BY <1>11, <1>13 DEF Acc
    <3>2. Len(second.prog) \in 0..(Len(whole.prog) - 1)
      BY <1>9, <1>11
    <3> QED
      BY <1>13, <1>14, <3>1, <3>2
  <2>2. ToSet(new.inputs) \subseteq DOMAIN new.ssa
    BY <1>11, <1>13, <1>14 DEF Acc
  <2> QED
    BY <1>11, <1>14, <2>1, <2>2 DEF Acc
<1>16. Grows(second, new)
  BY <1>11, <1>13, <1>14 DEF Grows
<1>17. TranslateSteps(acc, n, i, first, second, new)
  BY <1>4, <1>6, <1>7, <1>8, <1>10, <1>11, <1>13, <1>14, <1>15, <1>16 DEF TranslateSteps
<1>18. Operands(n) = ({n.args[1]} \ {0}) \cup (IF single THEN {} ELSE {n.args[2]} \ {0})
  <2>1. CASE Len(n.args) = 1
    <3>1. DOMAIN n.args = {1}
      BY <1>2, <2>1
    <3> QED
      BY <2>1, <3>1 DEF Operands, ToSet
  <2>2. CASE Len(n.args) = 2
    <3>1. DOMAIN n.args = {1, 2}
      BY <1>2, <2>2
    <3> QED
      BY <1>2, <2>2, <3>1 DEF Operands, ToSet
  <2> QED
    BY <1>2, <2>1, <2>2
<1>19. /\ DOMAIN second.ssa = DOMAIN acc.ssa \cup Operands(n)
       /\ ToSet(second.inputs) = ToSet(acc.inputs) \cup (Operands(n) \ DOMAIN acc.ssa)
  <2>1. CASE single
    BY <1>4, <1>7, <1>18, <2>1 DEF Recorded
  <2>2. CASE ~single
    <3>1. /\ DOMAIN second.ssa = DOMAIN first.ssa \cup ({n.args[2]} \ {0})
          /\ ToSet(second.inputs) = ToSet(first.inputs) \cup (({n.args[2]} \ {0}) \ DOMAIN first.ssa)
      BY <1>6, <2>2 DEF Recorded
    <3>2. /\ DOMAIN first.ssa = DOMAIN acc.ssa \cup ({n.args[1]} \ {0})
          /\ ToSet(first.inputs) = ToSet(acc.inputs) \cup (({n.args[1]} \ {0}) \ DOMAIN acc.ssa)
      BY <1>4 DEF Recorded
    <3> QED
      BY <1>18, <2>2, <3>1, <3>2
  <2> QED
    BY <2>1, <2>2
<1>20. new.prog # <<>>
  <2>1. Len(new.prog) # 0
    BY <1>9, <1>11, <1>14
  <2> QED
    BY <2>1
<1> QED
  BY <1>11, <1>13, <1>14, <1>17, <1>19, <1>20

-----------------------------------------------------------------------------
(* The program of a group.                                                 *)

(* The members translated after k nodes of the order.                      *)
Done(g, group, k) == {i \in group : \E p \in 1..k : g.order[p] = i}

(* What the nodes M use.                                                   *)
OperandsOf(g, M) == UNION {Operands(g.nodes[m]) : m \in M}

(* The program after k nodes of the order.                                 *)
PartialProgram(g, group, k, acc) ==
  /\ Acc(acc)
  /\ DOMAIN acc.ssa = Done(g, group, k) \cup ToSet(acc.inputs)
  /\ ToSet(acc.inputs) = OperandsOf(g, Done(g, group, k)) \ group
  /\ Done(g, group, k) # {} => acc.prog # <<>>

(* A group is in order before its root; its nodes are shaped.              *)
Translatable(g, group) ==
  /\ Sound(g) /\ group \subseteq Ids(g)
  /\ \A i \in group : IsPointwise(g.nodes[i]) /\ Shaped(g.nodes[i])

(* The program the pass begins with.                                       *)
LEMMA NoProgramPartial ==
  ASSUME NEW g, NEW group
  PROVE  PartialProgram(g, group, 0, NoProgram)
<1>1. Done(g, group, 0) = {} /\ OperandsOf(g, {}) = {}
  BY DEF Done, OperandsOf
<1>2. /\ NoProgram.prog = <<>> /\ NoProgram.inputs = <<>> /\ DOMAIN NoProgram.ssa = {}
      /\ NoProgram = [prog |-> NoProgram.prog, inputs |-> NoProgram.inputs, ssa |-> NoProgram.ssa]
  BY DEF NoProgram
<1>3. ToSet(<<>>) = {} /\ <<>> \in Seq(Nat \ {0}) /\ <<>> \in Seq(Jit!Nodes) /\ DOMAIN <<>> = {}
  BY DEF ToSet
<1> QED
  BY <1>1, <1>2, <1>3 DEF PartialProgram, Acc

(* The operands of the next member that are members have been translated.  *)
Follows(g, group, k, i) ==
  /\ i \notin Done(g, group, k) /\ Done(g, group, k + 1) = Done(g, group, k) \cup {i}
  /\ Operands(g.nodes[i]) \cap group \subseteq Done(g, group, k)
  /\ i \notin Operands(g.nodes[i]) /\ g.nodes[i] \in Nodes /\ i \in Nat \ {0}

(* ... and the next member of it follows what is done.                     *)
LEMMA NextMember ==
  ASSUME NEW g, NEW group, Translatable(g, group), NEW k \in Nat, k + 1 <= Len(g.order),
         NEW i, i = g.order[k + 1], i \in group
  PROVE  Follows(g, group, k, i)
<1>1. /\ Distinct(g.order) /\ g.order \in Seq(DOMAIN g.nodes) /\ DOMAIN g.order = 1..Len(g.order)
      /\ Len(g.order) \in Nat /\ k + 1 \in DOMAIN g.order
  BY DEF Translatable, Sound, Graph
<1>2. i \notin Done(g, group, k)
  <2>1. \A p \in 1..k : p \in DOMAIN g.order /\ p # k + 1
    BY <1>1
  <2> QED
    BY <1>1, <2>1 DEF Done, Distinct
<1>3. Done(g, group, k + 1) = Done(g, group, k) \cup {i}
  <2>1. \A p \in 1..(k + 1) : p \in 1..k \/ p = k + 1
    OBVIOUS
  <2>2. 1..k \subseteq 1..(k + 1) /\ k + 1 \in 1..(k + 1)
    OBVIOUS
  <2> QED
    BY <2>1, <2>2 DEF Done
<1>4. ASSUME NEW j \in Operands(g.nodes[i]) PROVE j # i /\ (j \in group => j \in Done(g, group, k))
  <2>1. Before(g.order, j, i)
    BY <1>4 DEF Translatable, Sound
  <2>2. PICK p \in DOMAIN g.order, q \in DOMAIN g.order : p < q /\ g.order[p] = j /\ g.order[q] = i
    BY <2>1 DEF Before
  <2>3. q = k + 1
    BY <1>1, <2>2 DEF Distinct
  <2>4. p \in 1..k
    BY <1>1, <2>2, <2>3
  <2>5. j # i
    BY <1>1, <2>1, BeforeOrders
  <2> QED
    BY <2>2, <2>4, <2>5 DEF Done
<1>5. g.nodes[i] \in Nodes /\ i \in Nat \ {0}
  <2>1. Graph(g) /\ i \in Ids(g)
    BY DEF Translatable, Sound
  <2> QED
    BY <2>1, IdsOfGraph
<1> QED
  BY <1>2, <1>3, <1>4, <1>5 DEF Follows

(* A member is translated, with what is recorded on the way.               *)
LEMMA NextTranslated ==
  ASSUME NEW g, NEW group, Translatable(g, group), NEW k \in Nat, k + 1 <= Len(g.order),
         NEW i, i = g.order[k + 1], i \in group,
         NEW acc, PartialProgram(g, group, k, acc), NEW new, new = Translate(g, acc, i)
  PROVE  /\ \E first, second : TranslateSteps(acc, g.nodes[i], i, first, second, new)
         /\ PartialProgram(g, group, k + 1, new)
<1> DEFINE n == g.nodes[i]
           D == Done(g, group, k)
<1>1. /\ i \notin D /\ Done(g, group, k + 1) = D \cup {i}
      /\ Operands(n) \cap group \subseteq D
      /\ i \notin Operands(n) /\ n \in Nodes /\ i \in Nat \ {0}
  <2>1. Follows(g, group, k, i)
    BY NextMember
  <2> QED
    BY <2>1 DEF Follows
<1>2. IsPointwise(n) /\ Shaped(n) /\ D \subseteq group
  BY DEF Translatable, Done
<1>3. /\ Acc(acc) /\ DOMAIN acc.ssa = D \cup ToSet(acc.inputs)
      /\ ToSet(acc.inputs) = OperandsOf(g, D) \ group
  BY DEF PartialProgram
<1>4. n = g.nodes[i]
  OBVIOUS
<1> HIDE DEF D, n
<1>5. i \notin DOMAIN acc.ssa
  BY <1>1, <1>3
<1>6. /\ \E first, second : TranslateSteps(acc, n, i, first, second, new)
      /\ DOMAIN new.ssa = DOMAIN acc.ssa \cup Operands(n) \cup {i}
      /\ ToSet(new.inputs) = ToSet(acc.inputs) \cup (Operands(n) \ DOMAIN acc.ssa)
      /\ new.prog # <<>>
  BY <1>1, <1>2, <1>3, <1>4, <1>5, TranslateKeeps
<1>7. Acc(new)
  BY <1>6 DEF TranslateSteps
<1>8. OperandsOf(g, D \cup {i}) = OperandsOf(g, D) \cup Operands(n)
  BY <1>4 DEF OperandsOf
<1>9. ToSet(new.inputs) = OperandsOf(g, D \cup {i}) \ group
  BY <1>1, <1>2, <1>3, <1>6, <1>8
<1>10. DOMAIN new.ssa = (D \cup {i}) \cup ToSet(new.inputs)
  BY <1>1, <1>3, <1>6, <1>9
<1> QED
  BY <1>1, <1>4, <1>6, <1>7, <1>9, <1>10 DEF PartialProgram

(* The program of a group has the operands from outside as inputs.         *)
LEMMA ProgramOfGroup ==
  ASSUME NEW g, NEW group, Translatable(g, group), group # {},
         NEW p, p = Program(g, group)
  PROVE  Acc(p) /\ ToSet(p.inputs) = OperandsOf(g, group) \ group /\ p.prog # <<>>
<1> DEFINE n == Len(g.order)
<1>1. n \in Nat /\ DOMAIN g.order = 1..n /\ ToSet(g.order) = Ids(g)
  BY DEF Translatable, Sound, Graph, Ids
<1>2. PICK f : ProgramSteps(f, g, group)
  BY <1>1, ProgramRun
<1>3. /\ f[0] = NoProgram
      /\ \A k \in 1..n : f[k] = Translated(g, group, f[k - 1], g.order[k])
      /\ p = f[n]
  BY <1>2 DEF ProgramSteps
<1> DEFINE S == {k \in Nat : k <= n => PartialProgram(g, group, k, f[k])}
<1>4. 0 \in S
  BY <1>3, NoProgramPartial
<1>5. ASSUME NEW k \in Nat, k \in S PROVE k + 1 \in S
  <2> SUFFICES ASSUME k + 1 <= n PROVE PartialProgram(g, group, k + 1, f[k + 1])
    OBVIOUS
  <2> DEFINE i == g.order[k + 1]
  <2>1. k + 1 \in 1..n /\ (k + 1) - 1 = k /\ PartialProgram(g, group, k, f[k])
    BY <1>1, <1>5
  <2>2. f[k + 1] = Translated(g, group, f[k], i)
    BY <1>3, <2>1
  <2>3. CASE i \in group
    <3>1. f[k + 1] = Translate(g, f[k], i)
      BY <2>2, <2>3 DEF Translated
    <3> QED
      BY <2>1, <2>3, <3>1, NextTranslated
  <2>4. CASE i \notin group
    <3>1. f[k + 1] = f[k]
      BY <2>2, <2>4 DEF Translated
    <3>2. Done(g, group, k + 1) = Done(g, group, k)
      <4>1. \A q \in 1..(k + 1) : q \in 1..k \/ q = k + 1
        OBVIOUS
      <4>2. 1..k \subseteq 1..(k + 1)
        OBVIOUS
      <4> QED
        BY <2>4, <4>1, <4>2 DEF Done
    <3> QED
      BY <2>1, <3>1, <3>2 DEF PartialProgram
  <2> QED
    BY <2>3, <2>4
<1>6. n \in S
  <2> HIDE DEF S
  <2> QED
    BY <1>1, <1>4, <1>5, SetInduction
<1>7. Done(g, group, n) = group
  BY <1>1 DEF Done, Translatable, ToSet
<1> QED
  BY <1>1, <1>3, <1>6, <1>7 DEF PartialProgram

-----------------------------------------------------------------------------
(* Tracing.                                                                *)

(* An order of distinct nodes has as many as its length.                   *)
LEMMA DistinctCounts ==
  ASSUME NEW S, NEW s \in Seq(S), Distinct(s)
  PROVE  Cardinality(ToSet(s)) = Len(s)
<1> DEFINE n == Len(s)
           T == ToSet(s)
<1>1. n \in Nat /\ s \in [1..n -> T]
  BY DEF ToSet
<1>2. \A p, q \in 1..n : s[p] = s[q] => p = q
  BY <1>1 DEF Distinct
<1>3. \A t \in T : \E p \in 1..n : s[p] = t
  BY <1>1 DEF ToSet
<1> HIDE DEF n, T
<1>4. s \in Injection(1..n, T) /\ s \in Surjection(1..n, T)
  BY <1>1, <1>2, <1>3 DEF Injection, Surjection, IsInjective
<1>5. ExistsBijection(1..n, T)
  BY <1>4 DEF ExistsBijection, Bijection
<1>6. IsFiniteSet(1..n) /\ Cardinality(1..n) = n
  <2>1. /\ IsFiniteSet(1..n)
        /\ Cardinality(1..n) = IF 1 <= n THEN n - 1 + 1 ELSE 0
    BY <1>1, FS_Interval
  <2> QED
    BY <1>1, <2>1
<1>7. Cardinality(T) = n
  BY <1>5, <1>6, FS_Bijection
<1> QED
  BY <1>7 DEF n, T

(* Nodes the tracer makes.                                                 *)
LEMMA NewNodeTyped ==
  ASSUME NEW op \in Operators, NEW args \in Seq(Nat), NEW n, n = NewNode(op, args)
  PROVE  n \in Nodes /\ n.op = op /\ n.args = args
<1>1. <<>> \in Seq(Jit!Nodes) /\ One \in Jit!Literals
  BY LiteralsUsed
<1>2. n = [op |-> op, args |-> args, alpha |-> One, c |-> One, shape |-> "none",
           act |-> "none", transB |-> FALSE, prog |-> <<>>]
  BY DEF NewNode
<1>3. n.op = op /\ n.args = args
  BY <1>2
<1>4. n \in Nodes
  <2> DEFINE p == <<>>
  <2>1. p \in Seq(Jit!Nodes)
    BY <1>1
  <2>2. n = [op |-> op, args |-> args, alpha |-> One, c |-> One, shape |-> "none",
             act |-> "none", transB |-> FALSE, prog |-> p]
    BY <1>2
  <2> HIDE DEF p
  <2> QED
    BY <1>1, <2>1, <2>2 DEF Nodes
<1> QED
  BY <1>3, <1>4

(* Sets of operands.                                                       *)
LEMMA ShortOperands ==
  /\ \A x \in Nat : <<x>> \in Seq(Nat) /\ Len(<<x>>) = 1 /\ DOMAIN <<x>> = {1} /\ ToSet(<<x>>) = {x}
  /\ \A x, y \in Nat : /\ <<x, y>> \in Seq(Nat) /\ Len(<<x, y>>) = 2 /\ DOMAIN <<x, y>> = {1, 2}
                       /\ ToSet(<<x, y>>) = {x, y}
  /\ \A x, y, z \in Nat : /\ <<x, y, z>> \in Seq(Nat) /\ Len(<<x, y, z>>) = 3
                          /\ DOMAIN <<x, y, z>> = {1, 2, 3} /\ ToSet(<<x, y, z>>) = {x, y, z}
<1>1. ASSUME NEW x \in Nat
      PROVE  <<x>> \in Seq(Nat) /\ Len(<<x>>) = 1 /\ DOMAIN <<x>> = {1} /\ ToSet(<<x>>) = {x}
  <2>1. <<x>> \in Seq(Nat) /\ Len(<<x>>) = 1 /\ DOMAIN <<x>> = {1} /\ <<x>>[1] = x
    OBVIOUS
  <2> QED
    BY <2>1 DEF ToSet
<1>2. ASSUME NEW x \in Nat, NEW y \in Nat
      PROVE  /\ <<x, y>> \in Seq(Nat) /\ Len(<<x, y>>) = 2 /\ DOMAIN <<x, y>> = {1, 2}
             /\ ToSet(<<x, y>>) = {x, y}
  <2>1. <<x, y>> \in Seq(Nat) /\ Len(<<x, y>>) = 2 /\ DOMAIN <<x, y>> = {1, 2}
        /\ <<x, y>>[1] = x /\ <<x, y>>[2] = y
    OBVIOUS
  <2> QED
    BY <2>1 DEF ToSet
<1>3. ASSUME NEW x \in Nat, NEW y \in Nat, NEW z \in Nat
      PROVE  /\ <<x, y, z>> \in Seq(Nat) /\ Len(<<x, y, z>>) = 3
             /\ DOMAIN <<x, y, z>> = {1, 2, 3} /\ ToSet(<<x, y, z>>) = {x, y, z}
  <2>1. <<x, y, z>> \in Seq(Nat) /\ Len(<<x, y, z>>) = 3 /\ DOMAIN <<x, y, z>> = {1, 2, 3}
        /\ <<x, y, z>>[1] = x /\ <<x, y, z>>[2] = y /\ <<x, y, z>>[3] = z
    OBVIOUS
  <2> QED
    BY <2>1 DEF ToSet
<1> QED
  BY <1>1, <1>2, <1>3

(* A node that may be traced next.                                         *)
Traceable(g, n) ==
  /\ n \in Nodes /\ Shaped(n) /\ Operands(n) \subseteq Ids(g)
  /\ n.op \in {"mm", "linear", "addmm"} \cup PointwiseOps

(* The operands the tracer gives an operator.                              *)
Takes(g, op, args) ==
  \/ op \in {"mm", "linear"} /\ \E x, w \in Ids(g) : args = <<x, w>>
  \/ op \in {"linear", "addmm"} /\ \E x, w, y \in Ids(g) : args = <<x, w, y>>
  \/ op \in {"add", "mul"} /\ \E x \in Ids(g), y \in Ids(g) \cup {0} : args = <<x, y>>
  \/ op \in {"relu_"} \cup Jit!Unary /\ \E x \in Ids(g) : args = <<x>>

(* Such a node may be traced.                                              *)
LEMMA TakenTraceable ==
  ASSUME NEW g, Ids(g) \subseteq Nat \ {0}, NEW op, NEW args, Takes(g, op, args),
         NEW n, args \in Seq(Nat) /\ op \in Operators => n \in Nodes /\ n.op = op /\ n.args = args
  PROVE  Traceable(g, n)
<1>2. 0 \notin Ids(g) /\ Ids(g) \subseteq Nat
  OBVIOUS
<1>3. /\ op \in {"mm", "linear", "addmm"} \cup PointwiseOps
      /\ op \in Operators
      /\ op \notin {"pointwise", "linear_act", "in", "output"}
  <2>1. op \in {"mm", "linear", "addmm", "add", "mul", "relu_"} \cup Jit!Unary
    BY DEF Takes
  <2> QED
    BY <2>1 DEF PointwiseOps, Operators, Jit!Unary
<1>4. /\ args \in Seq(Nat) /\ ToSet(args) \ {0} \subseteq Ids(g)
      /\ op \in {"mm", "add", "mul"} => Len(args) = 2
      /\ op = "linear" => Len(args) \in {2, 3}
      /\ op = "addmm" => Len(args) = 3
      /\ op \in {"relu_"} \cup Jit!Unary => Len(args) = 1
      /\ \A k \in DOMAIN args : args[k] = 0 => k = 2 /\ op \in {"add", "mul"}
  <2>1. CASE \E x, w \in Ids(g) : args = <<x, w>> /\ op \in {"mm", "linear"}
    <3>1. PICK x, w \in Ids(g) : args = <<x, w>> /\ op \in {"mm", "linear"}
      BY <2>1
    <3>2. x # 0 /\ w # 0 /\ x \in Nat /\ w \in Nat
      BY <1>2
    <3>3. args \in Seq(Nat) /\ Len(args) = 2 /\ DOMAIN args = {1, 2} /\ ToSet(args) = {x, w}
          /\ args[1] = x /\ args[2] = w
      BY <3>1, <3>2, ShortOperands
    <3> QED
      BY <3>1, <3>2, <3>3 DEF Jit!Unary
  <2>2. CASE \E x, w, y \in Ids(g) : args = <<x, w, y>> /\ op \in {"addmm", "linear"}
    <3>1. PICK x, w, y \in Ids(g) : args = <<x, w, y>> /\ op \in {"addmm", "linear"}
      BY <2>2
    <3>2. x # 0 /\ w # 0 /\ y # 0 /\ x \in Nat /\ w \in Nat /\ y \in Nat
      BY <1>2
    <3>3. args \in Seq(Nat) /\ Len(args) = 3 /\ DOMAIN args = {1, 2, 3} /\ ToSet(args) = {x, w, y}
          /\ args[1] = x /\ args[2] = w /\ args[3] = y
      BY <3>1, <3>2, ShortOperands
    <3> QED
      BY <3>1, <3>2, <3>3 DEF Jit!Unary
  <2>3. CASE \E x \in Ids(g), y \in Ids(g) \cup {0} : args = <<x, y>> /\ op \in {"add", "mul"}
    <3>1. PICK x \in Ids(g), y \in Ids(g) \cup {0} : args = <<x, y>> /\ op \in {"add", "mul"}
      BY <2>3
    <3>2. x # 0 /\ x \in Nat /\ y \in Nat
      BY <1>2
    <3>3. args \in Seq(Nat) /\ Len(args) = 2 /\ DOMAIN args = {1, 2} /\ ToSet(args) = {x, y}
          /\ args[1] = x /\ args[2] = y
      BY <3>1, <3>2, ShortOperands
    <3> QED
      BY <3>1, <3>2, <3>3 DEF Jit!Unary
  <2>4. CASE \E x \in Ids(g) : args = <<x>> /\ op \in {"relu_"} \cup Jit!Unary
    <3>1. PICK x \in Ids(g) : args = <<x>> /\ op \in {"relu_"} \cup Jit!Unary
      BY <2>4
    <3>2. x # 0 /\ x \in Nat
      BY <1>2
    <3>3. args \in Seq(Nat) /\ Len(args) = 1 /\ DOMAIN args = {1} /\ ToSet(args) = {x} /\ args[1] = x
      BY <3>1, <3>2, ShortOperands
    <3> QED
      BY <3>1, <3>2, <3>3 DEF Jit!Unary
  <2> QED
    BY <2>1, <2>2, <2>3, <2>4 DEF Takes
<1>5. n \in Nodes /\ n.op = op /\ n.args = args
  BY <1>3, <1>4
<1> QED
  BY <1>3, <1>4, <1>5 DEF Traceable, Shaped, Operands, PointwiseOps

(* Nodes by their operands.                                                *)
Of2(op, x, w)    == NewNode(op, <<x, w>>)
Of3(op, x, w, y) == NewNode(op, <<x, w, y>>)

(* A node of two operands, from sets of them.                              *)
LEMMA PairsOf ==
  ASSUME NEW op, NEW E, NEW W, NEW n \in {NewNode(op, <<x, w>>) : x \in E, w \in W}
  PROVE  \E x \in E, w \in W : n = NewNode(op, <<x, w>>)
<1>1. n \in {Of2(op, x, w) : x \in E, w \in W}
  BY DEF Of2
<1>2. \E x \in E, w \in W : n = Of2(op, x, w)
  BY <1>1
<1> QED
  BY <1>2 DEF Of2

(* A node of three operands, from sets of them.                            *)
LEMMA TriplesOf ==
  ASSUME NEW op, NEW E, NEW W, NEW B,
         NEW n \in {NewNode(op, <<x, w, y>>) : x \in E, w \in W, y \in B}
  PROVE  \E x \in E, w \in W, y \in B : n = NewNode(op, <<x, w, y>>)
<1>1. n \in {Of3(op, x, w, y) : x \in E, w \in W, y \in B}
  BY SMTT(30) DEF Of3
<1>2. \E x \in E, w \in W, y \in B : n = Of3(op, x, w, y)
  BY <1>1
<1> QED
  BY <1>2 DEF Of3

(* What the tracer calls linear with.                                      *)
LinearForm(g, B, n) ==
  \/ \E x \in Ids(g), w \in Weights : n = Of2("linear", x, w)
  \/ \E x \in Ids(g), w \in Weights, y \in B : n = Of3("linear", x, w, y)

(* linear with a bias and without one.                                     *)
LEMMA LinearNodes ==
  ASSUME NEW g, NEW B, B = 1..NInputs \ Weights, NEW n, n \in NewNodes(g, "linear")
  PROVE  LinearForm(g, B, n)
<1>1. n \in {Of2("linear", x, w) : x \in Ids(g), w \in Weights}
               \cup {Of3("linear", x, w, y) : x \in Ids(g), w \in Weights, y \in 1..NInputs \ Weights}
  BY DEF NewNodes, Of2, Of3
<1>2. \/ n \in {Of2("linear", x, w) : x \in Ids(g), w \in Weights}
      \/ n \in {Of3("linear", x, w, y) : x \in Ids(g), w \in Weights, y \in B}
  BY <1>1
<1>3. \/ \E x \in Ids(g), w \in Weights : n = Of2("linear", x, w)
      \/ \E x \in Ids(g), w \in Weights, y \in B : n = Of3("linear", x, w, y)
  BY <1>2
<1> QED
  BY <1>3 DEF LinearForm

(* Every node the tracer may meet may be traced.                           *)
LEMMA Traced ==
  ASSUME NEW g, Ids(g) \subseteq Nat \ {0}, 1..NInputs \subseteq Ids(g), family \in Families,
         NEW kind \in family.kinds, NEW n \in NewNodes(g, kind)
  PROVE  Traceable(g, n)
<1>1. /\ kind \in {"mm", "linear", "addmm", "add", "mul", "scale", "relu_"} \cup Jit!Unary
      /\ family.alphas["add"] \subseteq Jit!Literals /\ family.alphas["addmm"] \subseteq Jit!Literals
  BY FamiliesAssumption
<1>2. Weights \subseteq Ids(g) /\ 1..NInputs \ Weights \subseteq Ids(g)
  BY DEF Weights
<1>4. One \in Jit!Literals /\ Two \in Jit!Literals
  BY LiteralsUsed
<1>5. ASSUME NEW op, NEW args, Takes(g, op, args), n = NewNode(op, args)
      PROVE  Traceable(g, n)
  <2>1. ASSUME args \in Seq(Nat), op \in Operators PROVE n \in Nodes /\ n.op = op /\ n.args = args
    BY <1>5, <2>1, NewNodeTyped
  <2> QED
    BY <1>5, <2>1, TakenTraceable
<1>6. ASSUME NEW op, NEW args, NEW a \in Jit!Literals, Takes(g, op, args), NEW m, m = NewNode(op, args),
             n = [m EXCEPT !.alpha = a] \/ n = [m EXCEPT !.c = a]
      PROVE  Traceable(g, n)
  <2>1. ASSUME m \in Nodes PROVE n \in Nodes /\ n.op = m.op /\ n.args = m.args
    BY <1>6, <2>1 DEF Nodes
  <2>2. ASSUME args \in Seq(Nat), op \in Operators PROVE m \in Nodes /\ m.op = op /\ m.args = args
    BY <1>6, <2>2, NewNodeTyped
  <2> QED
    BY <1>6, <2>1, <2>2, TakenTraceable
<1>7. CASE kind = "mm"
  <2>3. n \in {NewNode("mm", <<x, w>>) : x \in Ids(g), w \in Weights}
    BY <1>7 DEF NewNodes
  <2>1. PICK x \in Ids(g), w \in Weights : n = NewNode("mm", <<x, w>>)
    BY <2>3, PairsOf
  <2>2. Takes(g, "mm", <<x, w>>)
    BY <1>2 DEF Takes
  <2> QED
    BY <1>5, <2>1, <2>2
<1>8. CASE kind = "linear"
  <2> DEFINE B == 1..NInputs \ Weights
  <2>0. B = 1..NInputs \ Weights /\ n \in NewNodes(g, "linear")
    BY <1>8
  <2> HIDE DEF B
  <2>1. LinearForm(g, B, n)
    BY <2>0, LinearNodes
  <2>2. \/ \E x \in Ids(g), w \in Weights : n = Of2("linear", x, w)
        \/ \E x \in Ids(g), w \in Weights, y \in B : n = Of3("linear", x, w, y)
    BY <2>1 DEF LinearForm
  <2>5. B \subseteq Ids(g)
    BY <1>2, <2>0
  <2>3. CASE \E x \in Ids(g), w \in Weights : n = Of2("linear", x, w)
    <3>1. PICK x \in Ids(g), w \in Weights : n = NewNode("linear", <<x, w>>)
      BY <2>3 DEF Of2
    <3>2. Takes(g, "linear", <<x, w>>)
      BY <1>2 DEF Takes
    <3> QED
      BY <1>5, <3>1, <3>2
  <2>4. CASE \E x \in Ids(g), w \in Weights, y \in B : n = Of3("linear", x, w, y)
    <3>1. PICK x \in Ids(g), w \in Weights, y \in B : n = NewNode("linear", <<x, w, y>>)
      BY <2>4 DEF Of3
    <3>2. Takes(g, "linear", <<x, w, y>>)
      BY <1>2, <2>5 DEF Takes
    <3> QED
      BY <1>5, <3>1, <3>2
  <2> QED
    BY <2>2, <2>3, <2>4
<1>9. CASE kind = "addmm"
  <2> DEFINE M == {NewNode("addmm", <<b, x, w>>) : b \in Ids(g), x \in Ids(g), w \in Weights}
             F(m) == {[m EXCEPT !.alpha = a] : a \in family.alphas[m.op]}
  <2>1. n \in UNION {F(m) : m \in M}
    BY <1>9 DEF NewNodes
  <2> HIDE DEF M
  <2>2. PICK m \in M : n \in F(m)
    BY <2>1
  <2>3. PICK b \in Ids(g), x \in Ids(g), w \in Weights : m = NewNode("addmm", <<b, x, w>>)
    BY <2>2, TriplesOf DEF M
  <2>4. m.op = "addmm"
    BY <2>3 DEF NewNode
  <2>5. PICK a \in Jit!Literals : n = [m EXCEPT !.alpha = a]
    BY <1>1, <2>2, <2>4
  <2>6. Takes(g, "addmm", <<b, x, w>>)
    BY <1>2 DEF Takes
  <2> QED
    BY <1>6, <2>3, <2>5, <2>6
<1>10. CASE kind = "add"
  <2> DEFINE M == {NewNode("add", <<x, y>>) : x \in Ids(g), y \in Ids(g) \cup {0}}
             F(m) == {[m EXCEPT !.alpha = a] : a \in family.alphas[m.op]}
  <2>1. n \in UNION {F(m) : m \in M}
    BY <1>10 DEF NewNodes
  <2> HIDE DEF M
  <2>2. PICK m \in M : n \in F(m)
    BY <2>1
  <2>3. PICK x \in Ids(g), y \in Ids(g) \cup {0} : m = NewNode("add", <<x, y>>)
    <3> DEFINE W == Ids(g) \cup {0}
    <3>1. m \in {Of2("add", x, y) : x \in Ids(g), y \in W}
      BY <2>2 DEF M, Of2
    <3> HIDE DEF W, M
    <3>2. \E x \in Ids(g), y \in W : m = Of2("add", x, y)
      BY <3>1
    <3> QED
      BY <3>2 DEF W, Of2
  <2>4. m.op = "add"
    BY <2>3 DEF NewNode
  <2>5. PICK a \in Jit!Literals : n = [m EXCEPT !.alpha = a]
    BY <1>1, <2>2, <2>4
  <2>6. Takes(g, "add", <<x, y>>)
    BY DEF Takes
  <2> QED
    BY <1>6, <2>3, <2>5, <2>6
<1>11. CASE kind = "mul"
  <2>3. n \in {NewNode("mul", <<x, y>>) : x \in Ids(g), y \in Ids(g)}
    BY SMTT(30), <1>11 DEF NewNodes
  <2>1. PICK x \in Ids(g), y \in Ids(g) : n = NewNode("mul", <<x, y>>)
    BY SMTT(30), <2>3, PairsOf
  <2>2. Takes(g, "mul", <<x, y>>)
    BY DEF Takes
  <2> QED
    BY <1>5, <2>1, <2>2
<1>12. CASE kind = "scale"
  <2>1. PICK x \in Ids(g) : n = [NewNode("mul", <<x, 0>>) EXCEPT !.c = Two]
    BY <1>12 DEF NewNodes
  <2>2. Takes(g, "mul", <<x, 0>>)
    BY DEF Takes
  <2> QED
    BY <1>4, <1>6, <2>1, <2>2
<1>13. CASE kind \in {"relu_"} \cup Jit!Unary
  <2>1. ASSUME kind = "relu_" PROVE \E x \in Ids(g) : n = NewNode(kind, <<x>>)
    <3>1. n \in {NewNode("relu_", <<x>>) : x \in Ids(g) \ 1..NInputs}
      BY <2>1 DEF NewNodes
    <3> QED
      BY <2>1, <3>1
  <2>4. ASSUME kind \in Jit!Unary PROVE \E x \in Ids(g) : n = NewNode(kind, <<x>>)
    <3>1. kind \notin {"mm", "linear", "addmm", "add", "mul", "scale", "relu_"}
      BY <2>4 DEF Jit!Unary
    <3>2. n \in {NewNode(kind, <<x>>) : x \in Ids(g)}
      BY <3>1 DEF NewNodes
    <3> QED
      BY <3>2
  <2>2. PICK x \in Ids(g) : n = NewNode(kind, <<x>>)
    BY <1>13, <2>1, <2>4
  <2>3. Takes(g, kind, <<x>>)
    BY <1>13 DEF Takes
  <2> QED
    BY <1>5, <2>2, <2>3
<1> QED
  BY <1>1, <1>7, <1>8, <1>9, <1>10, <1>11, <1>12, <1>13

(* h is g with one more node, n, at the end.                               *)
AppendedTo(g, n, h) ==
  /\ Sound(h) /\ Len(h.nodes) = Len(g.nodes) + 1 /\ Ids(h) = DOMAIN h.nodes
  /\ \A j \in DOMAIN g.nodes : h.nodes[j] = g.nodes[j]
  /\ h.nodes[Len(g.nodes) + 1] = n

(* A graph stays sound as it is traced; what was used is used.             *)
LEMMA AppendedKeeps ==
  ASSUME NEW g, Sound(g), Ids(g) = DOMAIN g.nodes, NEW n \in Nodes, Operands(n) \subseteq Ids(g),
         NEW h, h = Appended(g, n)
  PROVE  AppendedTo(g, n, h)
<1> DEFINE new == Len(g.nodes) + 1
           l   == Len(g.order)
<1>1. Graph(g)
  BY DEF Sound
<1>2. /\ DOMAIN g.nodes = 1..Len(g.nodes) /\ Len(g.nodes) \in Nat /\ new \notin DOMAIN g.nodes
  BY <1>1, IdsOfGraph
<1>3. g.nodes \in Seq(Nodes) /\ g.order \in Seq(DOMAIN g.nodes) /\ Distinct(g.order)
  BY <1>1 DEF Graph
<1>4. h = [nodes |-> Append(g.nodes, n), order |-> Append(g.order, new)]
  BY DEF Appended
<1>5. /\ h.nodes = Append(g.nodes, n) /\ h.order = Append(g.order, new)
      /\ h = [nodes |-> h.nodes, order |-> h.order]
  BY <1>4
<1>6. /\ h.nodes \in Seq(Nodes) /\ Len(h.nodes) = new /\ DOMAIN h.nodes = 1..new
      /\ \A j \in DOMAIN g.nodes : h.nodes[j] = g.nodes[j]
      /\ h.nodes[new] = n
  BY <1>2, <1>3, <1>5
<1>7. /\ l \in Nat /\ DOMAIN g.order = 1..l /\ DOMAIN h.order = 1..(l + 1)
      /\ \A p \in 1..l : h.order[p] = g.order[p] /\ g.order[p] \in DOMAIN g.nodes
      /\ h.order[l + 1] = new
  BY <1>3, <1>5
<1>8. h.order \in Seq(DOMAIN h.nodes)
  <2>1. g.order \in Seq(1..new)
    <3>1. DOMAIN g.nodes \subseteq 1..new
      BY <1>2
    <3> QED
      BY <1>3, <3>1
  <2>2. new \in 1..new
    BY <1>2
  <2> QED
    BY <1>5, <1>6, <2>1, <2>2, AppendProperties
<1>9. Distinct(h.order)
  <2> SUFFICES ASSUME NEW p \in 1..(l + 1), NEW q \in 1..(l + 1), h.order[p] = h.order[q]
               PROVE  p = q
    BY <1>7 DEF Distinct
  <2>1. CASE p \in 1..l /\ q \in 1..l
    BY <1>3, <1>7, <2>1 DEF Distinct
  <2>2. CASE p = l + 1 \/ q = l + 1
    <3>1. p \in 1..l => h.order[p] # new
      BY <1>2, <1>7
    <3>2. q \in 1..l => h.order[q] # new
      BY <1>2, <1>7
    <3> QED
      BY <1>7, <2>2, <3>1, <3>2
  <2> QED
    BY <1>7, <2>1, <2>2
<1>10. Ids(h) = Ids(g) \cup {new}
  <2>1. Ids(h) = {h.order[p] : p \in 1..(l + 1)} /\ Ids(g) = {g.order[p] : p \in 1..l}
    BY <1>7 DEF Ids, ToSet
  <2>2. \A p \in 1..(l + 1) : h.order[p] \in Ids(g) \cup {new}
    <3>1. \A p \in 1..l : h.order[p] \in Ids(g)
      BY <1>7, <2>1
    <3>2. \A p \in 1..(l + 1) : p \in 1..l \/ p = l + 1
      BY <1>7
    <3> QED
      BY <1>7, <3>1, <3>2
  <2>3. \A p \in 1..l : g.order[p] \in Ids(h)
    <3>1. \A p \in 1..l : p \in 1..(l + 1) /\ g.order[p] = h.order[p]
      BY <1>7
    <3> QED
      BY <2>1, <3>1
  <2>4. new \in Ids(h)
    <3>1. l + 1 \in 1..(l + 1)
      BY <1>7
    <3> QED
      BY <1>7, <2>1, <3>1
  <2>5. \A a \in Ids(h) : a \in Ids(g) \/ a = new
    BY <2>1, <2>2
  <2>6. \A a \in Ids(g) : a \in Ids(h)
    BY <2>1, <2>3
  <2> HIDE DEF new
  <2> QED
    BY <2>4, <2>5, <2>6
<1>11. Ids(h) = DOMAIN h.nodes
  BY <1>2, <1>6, <1>10
<1>12. \A a, b : Before(g.order, a, b) => Before(h.order, a, b)
  <2> SUFFICES ASSUME NEW a, NEW b, Before(g.order, a, b) PROVE Before(h.order, a, b)
    OBVIOUS
  <2>1. PICK p, q \in 1..l : p < q /\ g.order[p] = a /\ g.order[q] = b
    BY <1>7 DEF Before
  <2>2. p \in 1..(l + 1) /\ q \in 1..(l + 1) /\ h.order[p] = a /\ h.order[q] = b
    BY <1>7, <2>1
  <2> QED
    BY <1>7, <2>1, <2>2 DEF Before
<1>13. \A a \in Ids(g) : Before(h.order, a, new)
  <2> SUFFICES ASSUME NEW a \in Ids(g) PROVE Before(h.order, a, new)
    OBVIOUS
  <2>1. PICK p \in 1..l : g.order[p] = a
    BY <1>7 DEF Ids, ToSet
  <2>2. p \in 1..(l + 1) /\ l + 1 \in 1..(l + 1) /\ p < l + 1 /\ h.order[p] = a /\ h.order[l + 1] = new
    BY <1>7, <2>1
  <2> QED
    BY <1>7, <2>2 DEF Before
<1>14. \A i \in Ids(h) : \A j \in Operands(h.nodes[i]) : Before(h.order, j, i)
  <2> SUFFICES ASSUME NEW i \in Ids(h), NEW j \in Operands(h.nodes[i]) PROVE Before(h.order, j, i)
    OBVIOUS
  <2>1. CASE i = new
    BY <1>6, <1>13, <2>1
  <2>2. CASE i \in Ids(g)
    <3>1. h.nodes[i] = g.nodes[i]
      BY <1>6, <2>2
    <3> QED
      BY <1>12, <2>2, <3>1 DEF Sound
  <2> QED
    BY <1>10, <2>1, <2>2
<1> HIDE DEF new, l
<1>15. Sound(h)
  BY <1>5, <1>6, <1>8, <1>9, <1>11, <1>14 DEF Sound, Graph
<1> QED
  BY <1>6, <1>11, <1>15 DEF AppendedTo, new

-----------------------------------------------------------------------------
(* Rewriting.                                                              *)

(* What every graph is that the compiler handles.                          *)
WellFormed(g) == Sound(g) /\ \A i \in Ids(g) : Shaped(g.nodes[i])

(* ... and well-formed.                                                    *)
LEMMA WellFormedAppended ==
  ASSUME NEW g, WellFormed(g), Ids(g) = DOMAIN g.nodes, NEW n \in Nodes, Shaped(n),
         Operands(n) \subseteq Ids(g), NEW h, h = Appended(g, n)
  PROVE  WellFormed(h) /\ AppendedTo(g, n, h)
<1>1. AppendedTo(g, n, h)
  BY AppendedKeeps DEF WellFormed
<1>2. DOMAIN g.nodes = 1..Len(g.nodes) /\ Len(g.nodes) \in Nat
  BY IdsOfGraph DEF WellFormed, Sound
<1>3. DOMAIN h.nodes = 1..(Len(g.nodes) + 1)
  BY <1>1, <1>2, IdsOfGraph DEF AppendedTo, Sound
<1>4. \A i \in Ids(h) : i \in Ids(g) \/ i = Len(g.nodes) + 1
  BY <1>1, <1>2, <1>3 DEF AppendedTo
<1>5. \A i \in Ids(h) : Shaped(h.nodes[i])
  BY <1>1, <1>4 DEF AppendedTo, WellFormed
<1> QED
  BY <1>1, <1>5 DEF AppendedTo, WellFormed

(* The graph the tracer begins with.                                       *)
LEMMA InputsWellFormed ==
  ASSUME family \in Families
  PROVE  WellFormed(InputGraph) /\ Ids(InputGraph) = DOMAIN InputGraph.nodes
         /\ Len(InputGraph.nodes) = NInputs /\ NInputs \in Nat
<1> DEFINE g == InputGraph
           N == NInputs
           In(i) == [NewNode("in", <<>>) EXCEPT !.shape = family.shapes[i]]
<1>1. N \in Nat /\ \A i \in 1..N : family.shapes[i] \in {"mat", "row"}
  <2>1. family.shapes \in Seq({"mat", "row"})
    BY FamiliesAssumption
  <2> QED
    BY <2>1 DEF NInputs
<1>2. g.nodes = [i \in 1..N |-> In(i)] /\ g.order = [i \in 1..N |-> i]
      /\ g = [nodes |-> g.nodes, order |-> g.order]
  BY DEF InputGraph
<1>3. \A i \in 1..N : /\ In(i) \in Nodes /\ In(i).args = <<>> /\ In(i).op = "in"
                     /\ In(i).shape \in {"mat", "row"}
  <2> SUFFICES ASSUME NEW i \in 1..N
               PROVE  /\ In(i) \in Nodes /\ In(i).args = <<>> /\ In(i).op = "in"
                      /\ In(i).shape \in {"mat", "row"}
    OBVIOUS
  <2>1. PICK n : n = NewNode("in", <<>>)
    OBVIOUS
  <2>2. <<>> \in Seq(Nat) /\ "in" \in Operators
    BY DEF Operators
  <2>3. n \in Nodes /\ n.op = "in" /\ n.args = <<>>
    BY <2>1, <2>2, NewNodeTyped
  <2>4. PICK m : m = [n EXCEPT !.shape = family.shapes[i]]
    OBVIOUS
  <2>5. m \in Nodes /\ m.op = n.op /\ m.args = n.args /\ m.shape = family.shapes[i]
    BY <1>1, <2>3, <2>4 DEF Nodes
  <2> QED
    BY <1>1, <2>1, <2>3, <2>4, <2>5
<1> HIDE DEF In
<1>4. \A i \in 1..N : g.nodes[i] = In(i) /\ g.order[i] = i
  BY <1>2
<1>5. DOMAIN g.nodes = 1..N /\ DOMAIN g.order = 1..N
  BY <1>2
<1> HIDE DEF g, N
<1>6. g.nodes \in Seq(Nodes) /\ Len(g.nodes) = N
  <2> DEFINE f == g.nodes
  <2>1. f = [j \in 1..N |-> f[j]]
    BY <1>2
  <2>2. \A j \in 1..N : f[j] \in Nodes
    BY <1>3, <1>4
  <2> HIDE DEF f
  <2>3. f \in Seq(Nodes) /\ Len(f) = N
    BY <1>1, <2>1, <2>2, SequenceOf
  <2> QED
    BY <2>3 DEF f
<1>7. g.order \in Seq(DOMAIN g.nodes)
  <2> DEFINE f == g.order
             D == DOMAIN g.nodes
  <2>1. f = [j \in 1..N |-> f[j]]
    BY <1>2
  <2>2. \A j \in 1..N : f[j] \in D
    BY <1>4, <1>5
  <2> HIDE DEF f, D
  <2>3. f \in Seq(D)
    BY <1>1, <2>1, <2>2, SequenceOf
  <2> QED
    BY <2>3 DEF f, D
<1>8. Distinct(g.order)
  BY <1>4, <1>5 DEF Distinct
<1>9. Ids(g) = 1..N
  <2>1. Ids(g) = {g.order[p] : p \in 1..N}
    BY <1>5 DEF Ids, ToSet
  <2> QED
    BY <1>4, <2>1
<1>10. \A i \in Ids(g) : /\ g.nodes[i].args = <<>> /\ g.nodes[i].op = "in"
                         /\ g.nodes[i].shape \in {"mat", "row"}
  BY <1>3, <1>4, <1>9
<1>11. \A i \in Ids(g) : Operands(g.nodes[i]) = {}
  <2>1. ToSet(<<>>) = {}
    BY DEF ToSet
  <2> QED
    BY <1>10, <2>1 DEF Operands
<1>12. Sound(g)
  BY <1>2, <1>5, <1>6, <1>7, <1>8, <1>9, <1>11 DEF Sound, Graph
<1>13. \A i \in Ids(g) : Shaped(g.nodes[i])
  <2>1. DOMAIN <<>> = {}
    OBVIOUS
  <2> QED
    BY <1>10, <2>1 DEF Shaped, Jit!Unary
<1>14. WellFormed(g) /\ Ids(g) = DOMAIN g.nodes /\ Len(g.nodes) = N /\ N \in Nat
  BY <1>1, <1>5, <1>6, <1>9, <1>12, <1>13 DEF WellFormed
<1> QED
  BY <1>14 DEF g, N

(* A node with another operand is shaped as before.                        *)
LEMMA ShapedRenamed ==
  ASSUME NEW n \in Nodes, Shaped(n), NEW old \in Nat \ {0}, NEW new \in Nat \ {0},
         NEW m, m = Renamed(n, old, new)
  PROVE  Shaped(m)
<1>1. /\ m.op = n.op /\ m.prog = n.prog /\ m.shape = n.shape
      /\ Len(m.args) = Len(n.args) /\ DOMAIN m.args = DOMAIN n.args
      /\ \A k \in DOMAIN n.args : m.args[k] = IF n.args[k] = old THEN new ELSE n.args[k]
  BY RenamedNode
<1>2. \A k \in DOMAIN m.args : m.args[k] = 0 => k \in DOMAIN n.args /\ n.args[k] = 0
  BY <1>1
<1> QED
  BY <1>1, <1>2 DEF Shaped

(* h is g with a new node, n, in place of the nodes gone, of which i was   *)
(* the last.                                                               *)
Rewritten(g, n, i, gone, h) ==
  /\ WellFormed(h) /\ Len(h.nodes) = Len(g.nodes) + 1
  /\ Ids(h) = (Ids(g) \cup {Len(g.nodes) + 1}) \ gone
  /\ h.nodes[Len(g.nodes) + 1] = n
  /\ \A j \in Ids(g) \ gone : h.nodes[j] = Renamed(g.nodes[j], i, Len(g.nodes) + 1)
  /\ \A x \in Ids(g) \ gone :
       Users(h, x) = (Users(g, x) \cup (IF x \in Operands(n) THEN {Len(g.nodes) + 1} ELSE {})) \ gone

(* Both passes rewrite in this way: put, then erase.                       *)
LEMMA PlacedRewrites ==
  ASSUME NEW g, WellFormed(g), NEW i \in Ids(g), NEW n, Shaped(n),
         NEW new, new = Len(g.nodes) + 1, NEW f, Placed(g, n, i, new, f),
         NEW gone, gone \subseteq Ids(g), i \in gone, NEW h, Without(f, h, gone)
  PROVE  Rewritten(g, n, i, gone, h)
<1>1. /\ Ids(g) \subseteq DOMAIN g.nodes /\ DOMAIN g.nodes = 1..Len(g.nodes)
      /\ Len(g.nodes) \in Nat /\ new \notin DOMAIN g.nodes
      /\ \A j \in DOMAIN g.nodes : g.nodes[j] \in Nodes
  BY IdsOfGraph DEF WellFormed, Sound
<1>2. Sound(h) /\ Len(h.nodes) = new /\ Ids(h) = (Ids(g) \cup {new}) \ gone
  BY DEF Placed, Without
<1>3. new \in Ids(h) /\ h.nodes[new] = n
  BY <1>1, <1>2 DEF Placed, Without
<1>4. \A j \in Ids(g) \ gone : h.nodes[j] = Renamed(g.nodes[j], i, new)
  <2> SUFFICES ASSUME NEW j \in Ids(g) \ gone PROVE h.nodes[j] = Renamed(g.nodes[j], i, new)
    OBVIOUS
  <2>1. j \in Ids(h) /\ j \in DOMAIN g.nodes
    BY <1>1, <1>2
  <2>2. h.nodes[j] = f.nodes[j]
    BY <2>1 DEF Without
  <2> QED
    BY <2>1, <2>2 DEF Placed
<1>5. \A j \in Ids(h) : Shaped(h.nodes[j])
  <2> SUFFICES ASSUME NEW j \in Ids(h) PROVE Shaped(h.nodes[j])
    OBVIOUS
  <2>1. CASE j = new
    BY <1>3, <2>1
  <2>2. CASE j \in Ids(g) \ gone
    <3>1. g.nodes[j] \in Nodes /\ Shaped(g.nodes[j]) /\ i \in Nat \ {0} /\ new \in Nat \ {0}
      BY <1>1, <2>2 DEF WellFormed
    <3> QED
      BY <1>4, <2>2, <3>1, ShapedRenamed
  <2> QED
    BY <1>2, <2>1, <2>2
<1>6. \A x \in Ids(g) \ gone :
        Users(h, x) = (Users(g, x) \cup (IF x \in Operands(n) THEN {new} ELSE {})) \ gone
  <2> SUFFICES ASSUME NEW x \in Ids(g) \ gone
               PROVE  Users(h, x) = (Users(g, x) \cup (IF x \in Operands(n) THEN {new} ELSE {})) \ gone
    OBVIOUS
  <2>1. x \in Ids(g) \ {i}
    OBVIOUS
  <2>2. Users(f, x) = Users(g, x) \cup (IF x \in Operands(n) THEN {new} ELSE {})
    BY <2>1 DEF Placed
  <2>3. Users(h, x) = Users(f, x) \ gone
    BY UsersLeft
  <2> QED
    BY <2>2, <2>3
<1>7. WellFormed(h)
  BY <1>2, <1>5 DEF WellFormed
<1> QED
  BY <1>2, <1>3, <1>4, <1>6, <1>7 DEF Rewritten

(* A node of the graph g that was used in the graph d still is.            *)
KeepsUsers(d, g) == \A x \in Ids(g) : Users(d, x) # {} => Users(g, x) # {}

(* The operands of the nodes gone are those of the new node, but for those *)
(* that are gone themselves.                                               *)
LEMMA RewrittenKeepsUsers ==
  ASSUME NEW d, WellFormed(d), NEW g, WellFormed(g), Len(d.nodes) <= Len(g.nodes), KeepsUsers(d, g),
         NEW n, NEW i, NEW gone, gone \subseteq Ids(g),
         \A u \in gone : Operands(g.nodes[u]) \subseteq gone \cup Operands(n),
         NEW h, Rewritten(g, n, i, gone, h)
  PROVE  KeepsUsers(d, h)
<1> SUFFICES ASSUME NEW x \in Ids(h), Users(d, x) # {} PROVE Users(h, x) # {}
  BY DEF KeepsUsers
<1> DEFINE new == Len(g.nodes) + 1
<1>1. /\ Ids(g) \subseteq DOMAIN g.nodes /\ Len(g.nodes) \in Nat /\ new \notin DOMAIN g.nodes
      /\ Ids(d) \subseteq 1..Len(d.nodes) /\ Len(d.nodes) \in Nat
  BY IdsOfGraph DEF WellFormed, Sound
<1>2. x # new
  <2>1. PICK u \in Ids(d) : x \in Operands(d.nodes[u])
    BY DEF Users
  <2>2. Before(d.order, x, u)
    BY <2>1 DEF WellFormed, Sound
  <2>3. x \in Ids(d)
    BY <2>2, BeforeByPosition DEF WellFormed, Sound, Graph
  <2> QED
    BY <1>1, <2>3
<1>3. x \in Ids(g) \ gone
  BY <1>2 DEF Rewritten
<1>4. PICK u \in Users(g, x) : TRUE
  BY <1>3 DEF KeepsUsers
<1>5. Users(h, x) = (Users(g, x) \cup (IF x \in Operands(n) THEN {new} ELSE {})) \ gone
  BY <1>3 DEF Rewritten
<1>6. CASE u \notin gone
  BY <1>4, <1>5, <1>6
<1>7. CASE u \in gone
  <2>1. x \in Operands(g.nodes[u])
    BY <1>4 DEF Users
  <2>2. x \in Operands(n)
    BY <1>3, <1>7, <2>1
  <2>3. new \notin gone
    BY <1>1
  <2> QED
    BY <1>5, <2>2, <2>3
<1> QED
  BY <1>6, <1>7

-----------------------------------------------------------------------------
(* The gemm pass.                                                          *)

(* A node of the traced graph keeps its operator; an operand changes into  *)
(* a new node only. New nodes are linear_act.                              *)
OldNode(d, n, m) ==
  /\ m.op = n.op /\ Len(m.args) = Len(n.args)
  /\ \A k \in DOMAIN m.args : m.args[k] = n.args[k] \/ m.args[k] > Len(d.nodes)

(* How far the gemm pass has rewritten the traced graph d.                 *)
GemmRewrites(d, g) ==
  \A x \in Ids(g) : IF x <= Len(d.nodes) THEN OldNode(d, d.nodes[x], g.nodes[x])
                                         ELSE g.nodes[x].op = "linear_act"

(* One more rewrite by the gemm pass.                                      *)
LEMMA RewrittenAgain ==
  ASSUME NEW d, Len(d.nodes) \in Nat, NEW g, WellFormed(g), Len(d.nodes) <= Len(g.nodes),
         GemmRewrites(d, g), NEW n, n.op = "linear_act", NEW i \in Ids(g),
         NEW gone, NEW h, Rewritten(g, n, i, gone, h)
  PROVE  GemmRewrites(d, h)
<1> DEFINE new == Len(g.nodes) + 1
<1>1. /\ Ids(g) \subseteq DOMAIN g.nodes /\ Len(g.nodes) \in Nat /\ new \notin DOMAIN g.nodes
      /\ DOMAIN g.nodes = 1..Len(g.nodes) /\ \A j \in DOMAIN g.nodes : g.nodes[j] \in Nodes
  BY IdsOfGraph DEF WellFormed, Sound
<1> SUFFICES ASSUME NEW x \in Ids(h)
             PROVE  IF x <= Len(d.nodes) THEN OldNode(d, d.nodes[x], h.nodes[x])
                                         ELSE h.nodes[x].op = "linear_act"
  BY DEF GemmRewrites
<1>2. CASE x = new
  <2>1. ~ x <= Len(d.nodes) /\ h.nodes[x] = n
    BY <1>1, <1>2 DEF Rewritten
  <2> QED
    BY <2>1
<1>3. CASE x # new
  <2>1. x \in Ids(g) \ gone
    BY <1>3 DEF Rewritten
  <2> DEFINE m == g.nodes[x]
             r == h.nodes[x]
  <2>2. r = Renamed(m, i, new) /\ m \in Nodes /\ i \in Nat \ {0} /\ new \in Nat \ {0}
    BY <1>1, <2>1 DEF Rewritten
  <2>3. IF x <= Len(d.nodes) THEN OldNode(d, d.nodes[x], m) ELSE m.op = "linear_act"
    BY <2>1 DEF GemmRewrites
  <2>6. new > Len(d.nodes)
    BY <1>1
  <2> HIDE DEF m, r, new
  <2>4. /\ r.op = m.op /\ Len(r.args) = Len(m.args) /\ DOMAIN r.args = DOMAIN m.args
        /\ \A k \in DOMAIN m.args : r.args[k] = IF m.args[k] = i THEN new ELSE m.args[k]
    BY <2>2, RenamedNode
  <2>5. ASSUME OldNode(d, d.nodes[x], m) PROVE OldNode(d, d.nodes[x], r)
    BY <2>4, <2>5, <2>6 DEF OldNode
  <2>7. IF x <= Len(d.nodes) THEN OldNode(d, d.nodes[x], r) ELSE r.op = "linear_act"
    BY <2>3, <2>4, <2>5
  <2> QED
    BY <2>7 DEF r
<1> QED
  BY <1>2, <1>3

(* An activation i, the node pid it is applied to, and the operands and    *)
(* the nodes to erase that an epilogue names.                              *)
Activation(g, i, pid) ==
  /\ i \in Ids(g) /\ pid \in Ids(g) /\ g.nodes[i].args = <<pid>> /\ Operands(g.nodes[i]) = {pid}
  /\ Users(g, pid) = {i} /\ ActName(g.nodes[i]) \in {"relu", "silu"}

(* ... of a node mm, linear or addmm,                                      *)
OfGemm(g, pid, e) ==
  /\ e.erased = <<pid>> /\ Len(e.operands) \in {2, 3}
  /\ ToSet(e.operands) = ToSet(g.nodes[pid].args) /\ 0 \notin ToSet(e.operands)

(* ... or of an add of an mm, j, and another operand.                      *)
OfAdd(g, pid, j, other, e) ==
  /\ g.nodes[pid].op = "add" /\ {j, other} = ToSet(g.nodes[pid].args) /\ Len(g.nodes[pid].args) = 2
  /\ j \in Ids(g) /\ g.nodes[j].op = "mm" /\ Users(g, j) = {pid}
  /\ e.erased = <<pid, j>> /\ Len(e.operands) = 3
  /\ ToSet(e.operands) = ToSet(g.nodes[j].args) \cup {other}
  /\ e.operands[1] # 0 /\ e.operands[2] # 0 /\ e.operands[3] = other

(* The operands and the nodes to erase of an epilogue.                     *)
EpilogueTyped(e) ==
  /\ e = Epilogue(e.operands, e.c, e.transB, e.erased)
  /\ e.operands \in Seq(Nat) /\ e.c \in Jit!Literals /\ e.transB \in BOOLEAN

(* The test at the top of the gemm pass's loop finds activations.          *)
LEMMA ActivationFound ==
  ASSUME NEW g, WellFormed(g), NEW i \in DOMAIN g.nodes, EpiloguesOf(g, i) # {}
  PROVE  \E pid : /\ Activation(g, i, pid)
                  /\ EpiloguesOf(g, i) = GemmEpilogue(g.nodes[pid], pid)
                                            \cup AddEpilogue(g, g.nodes[pid], pid)
<1> DEFINE n   == g.nodes[i]
           pid == n.args[1]
<1>1. ActName(n) # "none" /\ n.args # <<>> /\ SoleUser(g, pid, i)
      /\ EpiloguesOf(g, i) = GemmEpilogue(g.nodes[pid], pid) \cup AddEpilogue(g, g.nodes[pid], pid)
  BY DEF EpiloguesOf
<1>2. i \in Ids(g)
  BY <1>1 DEF WellFormed, Sound
<1>3. n \in Nodes /\ Shaped(n) /\ n.args \in Seq(Nat)
  BY <1>2, IdsOfGraph DEF WellFormed, Sound
<1>4. n.op \in {"silu", "relu", "relu_"} /\ ActName(n) \in {"relu", "silu"}
  BY <1>1 DEF ActName
<1>5. Len(n.args) = 1 /\ n.args[1] # 0
  <2>1. Len(n.args) = 1
    BY <1>3, <1>4 DEF Shaped, Jit!Unary
  <2>2. 1 \in DOMAIN n.args
    BY <1>3, <2>1
  <2> QED
    BY <1>3, <1>4, <2>1, <2>2 DEF Shaped
<1> HIDE DEF n
<1>6. n.args = <<pid>> /\ pid \in Nat
  BY <1>3, <1>5
<1>7. Operands(n) = {pid}
  BY <1>5, <1>6, ShortOperands DEF Operands
<1>8. Before(g.order, pid, i)
  BY <1>2, <1>7 DEF WellFormed, Sound, n
<1>9. pid \in Ids(g)
  BY <1>8, BeforeByPosition DEF WellFormed, Sound, Graph
<1> QED
  BY <1>1, <1>2, <1>4, <1>6, <1>7, <1>9 DEF Activation, SoleUser, n

(* Sequences of one, two and three elements, and their sets.               *)
LEMMA ShortSequences ==
  /\ \A s \in Seq(Nat) : Len(s) = 3 =>
       s[1] \in Nat /\ s[2] \in Nat /\ s[3] \in Nat /\ s = <<s[1], s[2], s[3]>>
  /\ \A a, b, c \in Nat : <<a, b>> \o <<c>> = <<a, b, c>>
<1>1. ASSUME NEW s \in Seq(Nat), Len(s) = 3
      PROVE  s[1] \in Nat /\ s[2] \in Nat /\ s[3] \in Nat /\ s = <<s[1], s[2], s[3]>>
  <2>1. 1 \in 1..Len(s) /\ 2 \in 1..Len(s) /\ 3 \in 1..Len(s)
    BY <1>1
  <2>2. s[1] \in Nat /\ s[2] \in Nat /\ s[3] \in Nat
    BY <2>1, ElementOfSeq
  <2> QED
    BY <1>1, <2>2
<1>2. ASSUME NEW a \in Nat, NEW b \in Nat, NEW c \in Nat PROVE <<a, b>> \o <<c>> = <<a, b, c>>
  <2> DEFINE t == <<a, b>> \o <<c>>
             u == <<a, b>>
             v == <<c>>
  <2>1. /\ u \in Seq(Nat) /\ Len(u) = 2 /\ u[1] = a /\ u[2] = b
        /\ v \in Seq(Nat) /\ Len(v) = 1 /\ v[1] = c
    OBVIOUS
  <2>2. t = u \o v
    OBVIOUS
  <2> HIDE DEF t, u, v
  <2>3. t \in Seq(Nat) /\ Len(t) = 3 /\ t[1] = a /\ t[2] = b /\ t[3] = c
    <3>1. /\ t \in Seq(Nat) /\ Len(t) = 3
          /\ \A k \in 1..3 : t[k] = IF k <= 2 THEN u[k] ELSE v[k - 2]
      <4>1. /\ u \o v \in Seq(Nat) /\ Len(u \o v) = Len(u) + Len(v)
            /\ \A k \in 1..(Len(u) + Len(v)) :
                 (u \o v)[k] = IF k <= Len(u) THEN u[k] ELSE v[k - Len(u)]
        BY <2>1, ConcatProperties
      <4>2. Len(u) + Len(v) = 3 /\ Len(u) = 2
        BY <2>1
      <4> QED
        BY <2>2, <4>1, <4>2
    <3>2. t[1] = u[1] /\ t[2] = u[2] /\ t[3] = v[1]
      BY <3>1
    <3> QED
      BY <2>1, <3>1, <3>2
  <2>4. t = <<t[1], t[2], t[3]>>
    BY <1>1, <2>3
  <2> QED
    BY <2>3, <2>4 DEF t
<1> QED
  BY <1>1, <1>2

(* What the pass makes of a producer that is a product.                    *)
LEMMA OfGemmFound ==
  ASSUME NEW g, WellFormed(g), NEW pid \in Ids(g), NEW e \in GemmEpilogue(g.nodes[pid], pid)
  PROVE  OfGemm(g, pid, e) /\ EpilogueTyped(e)
<1> DEFINE p == g.nodes[pid]
<1>1. p \in Nodes /\ Shaped(p) /\ p.args \in Seq(Nat)
  BY IdsOfGraph DEF WellFormed, Sound
<1>2. One \in Jit!Literals
  BY LiteralsUsed
<1> HIDE DEF p
<1>3. CASE p.op \in {"mm", "linear"}
  <2>1. e \in {Epilogue(p.args, One, p.op = "linear", <<pid>>)}
    BY <1>3 DEF GemmEpilogue, p
  <2>2. e = [operands |-> p.args, c |-> One, transB |-> (p.op = "linear"), erased |-> <<pid>>]
    BY <2>1 DEF Epilogue
  <2>3. Len(p.args) \in {2, 3} /\ 0 \notin ToSet(p.args)
    BY <1>1, <1>3 DEF Shaped, ToSet
  <2>4. e.operands = p.args /\ e.erased = <<pid>> /\ e.c = One /\ e.transB = (p.op = "linear")
    BY <2>2
  <2> QED
    BY <1>1, <1>2, <2>2, <2>3, <2>4 DEF OfGemm, EpilogueTyped, Epilogue, p
<1>4. CASE p.op = "addmm"
  <2>1. e \in {Epilogue(<<p.args[2], p.args[3], p.args[1]>>, One, FALSE, <<pid>>)}
    BY <1>4 DEF GemmEpilogue, p
  <2>2. e = [operands |-> <<p.args[2], p.args[3], p.args[1]>>, c |-> One, transB |-> FALSE,
             erased |-> <<pid>>]
    BY <2>1 DEF Epilogue
  <2>3. Len(p.args) = 3 /\ 0 \notin ToSet(p.args)
    BY <1>1, <1>4 DEF Shaped, ToSet
  <2>4. PICK a, b, c \in Nat : p.args = <<a, b, c>>
    <3>1. p.args[1] \in Nat /\ p.args[2] \in Nat /\ p.args[3] \in Nat
          /\ p.args = <<p.args[1], p.args[2], p.args[3]>>
      BY <1>1, <2>3, ShortSequences
    <3> QED
      BY <3>1
  <2>5. ToSet(p.args) = {a, b, c} /\ ToSet(<<b, c, a>>) = {b, c, a} /\ <<b, c, a>> \in Seq(Nat)
        /\ Len(<<b, c, a>>) = 3
    BY <2>4, ShortOperands
  <2>6. p.args[1] = a /\ p.args[2] = b /\ p.args[3] = c
    BY <2>4
  <2>7. e.operands = <<b, c, a>> /\ e.c = One /\ e.transB = FALSE /\ e.erased = <<pid>>
    BY <2>2, <2>6
  <2>8. {b, c, a} = {a, b, c}
    OBVIOUS
  <2> QED
    BY <1>2, <2>2, <2>3, <2>5, <2>7, <2>8 DEF OfGemm, EpilogueTyped, Epilogue, p
<1>5. p.op \in {"mm", "linear", "addmm"}
  BY DEF GemmEpilogue, p
<1> QED
  BY <1>3, <1>4, <1>5

(* What it makes of an add: the first operand that is an mm nobody else    *)
(* uses.                                                                   *)
LEMMA OfAddFound ==
  ASSUME NEW g, WellFormed(g), NEW pid \in Ids(g), NEW e \in AddEpilogue(g, g.nodes[pid], pid)
  PROVE  (\E j, other : OfAdd(g, pid, j, other, e)) /\ EpilogueTyped(e)
<1> DEFINE p == g.nodes[pid]
<1>1. p \in Nodes /\ Shaped(p) /\ p.args \in Seq(Nat) /\ p.c \in Jit!Literals
  BY IdsOfGraph DEF WellFormed, Sound, Nodes
<1>2. PICK j, other : /\ {j, other} = {p.args[1], p.args[2]} /\ p.op = "add"
                      /\ j # 0 /\ g.nodes[j].op = "mm" /\ SoleUser(g, j, pid)
                      /\ e = Epilogue(g.nodes[j].args \o <<other>>, p.c, FALSE, <<pid, j>>)
  BY DEF AddEpilogue
<1> HIDE DEF p
<1>3. Len(p.args) = 2
  BY <1>1, <1>2 DEF Shaped
<1>4. /\ p.args[1] \in Nat /\ p.args[2] \in Nat /\ p.args = <<p.args[1], p.args[2]>>
  BY <1>1, <1>3
<1>5. ToSet(p.args) = {j, other} /\ j \in Nat /\ other \in Nat
  <2>2. PICK x, y \in Nat : x = p.args[1] /\ y = p.args[2] /\ p.args = <<x, y>>
    BY <1>4
  <2>1. ToSet(p.args) = {x, y}
    BY <2>2, ShortOperands
  <2> QED
    BY <1>2, <1>4, <2>1, <2>2
<1>6. j \in Ids(g)
  <2>1. j \in Operands(p)
    BY <1>2, <1>5 DEF Operands
  <2>2. Before(g.order, j, pid)
    BY <2>1 DEF WellFormed, Sound, p
  <2> QED
    BY <2>2, BeforeByPosition DEF WellFormed, Sound, Graph
<1> DEFINE q == g.nodes[j]
<1>7. q \in Nodes /\ Shaped(q) /\ q.args \in Seq(Nat)
  BY <1>6, IdsOfGraph DEF WellFormed, Sound
<1>8. q.op = "mm"
  BY <1>2
<1> HIDE DEF q
<1>9. Len(q.args) = 2 /\ 0 \notin ToSet(q.args)
  BY <1>7, <1>8 DEF Shaped, ToSet
<1>10. PICK a, b \in Nat : q.args = <<a, b>>
  <2>1. q.args[1] \in Nat /\ q.args[2] \in Nat /\ q.args = <<q.args[1], q.args[2]>>
    BY <1>7, <1>9
  <2> QED
    BY <2>1
<1>11. ToSet(q.args) = {a, b} /\ a # 0 /\ b # 0
  BY <1>9, <1>10, ShortOperands
<1>12. q.args \o <<other>> = <<a, b, other>>
  BY <1>5, <1>10, ShortSequences
<1>13. e = [operands |-> <<a, b, other>>, c |-> p.c, transB |-> FALSE, erased |-> <<pid, j>>]
  BY <1>2, <1>12 DEF Epilogue, q
<1>14. /\ <<a, b, other>> \in Seq(Nat) /\ Len(<<a, b, other>>) = 3
       /\ ToSet(<<a, b, other>>) = {a, b, other}
  BY <1>5, ShortOperands
<1>15. e.operands = <<a, b, other>> /\ e.c = p.c /\ e.transB = FALSE /\ e.erased = <<pid, j>>
  BY <1>13
<1>16. {a, b, other} = {a, b} \cup {other}
  OBVIOUS
<1>17. EpilogueTyped(e)
  BY <1>1, <1>13, <1>14, <1>15 DEF EpilogueTyped, Epilogue
<1>18. e.operands[1] # 0 /\ e.operands[2] # 0 /\ e.operands[3] = other
  BY <1>11, <1>15
<1>19. OfAdd(g, pid, j, other, e)
  <2>1. p.op = "add" /\ {j, other} = ToSet(p.args) /\ Len(p.args) = 2
    BY <1>2, <1>3, <1>5
  <2>2. Users(g, j) = {pid}
    BY <1>2 DEF SoleUser
  <2>3. e.erased = <<pid, j>> /\ Len(e.operands) = 3
    BY <1>14, <1>15
  <2>4. ToSet(e.operands) = ToSet(q.args) \cup {other}
    BY <1>11, <1>14, <1>15, <1>16
  <2> QED
    BY <1>6, <1>8, <1>18, <2>1, <2>2, <2>3, <2>4 DEF OfAdd, p, q
<1> QED
  BY <1>17, <1>19

(* erase_node called once, and twice.                                      *)
LEMMA EraseOne ==
  ASSUME NEW g, NEW a
  PROVE  EraseAll(g, <<a>>) = Erase(g, a)
<1> DEFINE is == <<a>>
<1>1. Len(is) = 1 /\ is[1] = a
  OBVIOUS
<1> HIDE DEF is
<1>2. PICK f : EraseAllSteps(f, g, is)
  BY <1>1, EraseAllRun
<1>3. f[0] = g /\ f[1] = Erase(f[1 - 1], is[1]) /\ EraseAll(g, is) = f[1]
  BY <1>1, <1>2 DEF EraseAllSteps
<1> QED
  BY <1>1, <1>3 DEF is

(* ... so that two nodes are erased one after the other.                   *)
LEMMA EraseTwo ==
  ASSUME NEW g, NEW a, NEW b
  PROVE  EraseAll(g, <<a, b>>) = Erase(Erase(g, a), b)
<1> DEFINE is == <<a, b>>
<1>1. Len(is) = 2 /\ is[1] = a /\ is[2] = b
  OBVIOUS
<1>5. Len(is) \in Nat
  BY <1>1
<1> HIDE DEF is
<1>2. PICK f : EraseAllSteps(f, g, is)
  BY <1>5, EraseAllRun
<1>3. /\ f[0] = g /\ f[1] = Erase(f[1 - 1], is[1]) /\ f[2] = Erase(f[2 - 1], is[2])
        /\ EraseAll(g, is) = f[2]
  BY <1>1, <1>2 DEF EraseAllSteps
<1>4. 1 - 1 = 0 /\ 2 - 1 = 1
  OBVIOUS
<1> QED
  BY <1>1, <1>3, <1>4 DEF is

(* The linear_act that emit inserts for an activation and an epilogue.     *)
FusedNode(g, i, e) ==
  [NewNode("linear_act", e.operands) EXCEPT
     !.act = ActName(g.nodes[i]), !.transB = e.transB, !.c = e.c]

(* It is a node of two or three operands.                                  *)
LEMMA FusedNodeTyped ==
  ASSUME NEW g, NEW i, ActName(g.nodes[i]) \in {"relu", "silu"}, NEW e, EpilogueTyped(e),
         Len(e.operands) \in {2, 3}, \A k \in DOMAIN e.operands : e.operands[k] = 0 => k = 3,
         NEW n, n = FusedNode(g, i, e)
  PROVE  /\ n \in Nodes /\ Shaped(n) /\ n.op = "linear_act" /\ n.args = e.operands
         /\ n.act = ActName(g.nodes[i]) /\ n.transB = e.transB /\ n.c = e.c
<1>1. e.operands \in Seq(Nat) /\ e.c \in Jit!Literals /\ e.transB \in BOOLEAN
  BY DEF EpilogueTyped
<1>2. "linear_act" \in Operators
  BY DEF Operators
<1>3. PICK m : m = NewNode("linear_act", e.operands)
  OBVIOUS
<1>4. m \in Nodes /\ m.op = "linear_act" /\ m.args = e.operands
  BY <1>1, <1>2, <1>3, NewNodeTyped
<1> DEFINE act == ActName(g.nodes[i])
<1>5. act \in {"none", "relu", "silu"}
  OBVIOUS
<1>6. n = [m EXCEPT !.act = act, !.transB = e.transB, !.c = e.c]
  BY <1>3 DEF FusedNode
<1> HIDE DEF act
<1>7. /\ n \in Nodes /\ n.op = m.op /\ n.args = m.args /\ n.act = act
      /\ n.transB = e.transB /\ n.c = e.c
  BY <1>1, <1>4, <1>5, <1>6 DEF Nodes
<1>8. Shaped(n)
  <2>1. n.op = "linear_act" /\ n.args = e.operands
    BY <1>4, <1>7
  <2> QED
    BY <2>1 DEF Shaped, Jit!Unary
<1> QED
  BY <1>4, <1>7, <1>8 DEF act

(* What emit does: the new node is placed, the activation erased.          *)
LEMMA Emitted ==
  ASSUME NEW g, WellFormed(g), NEW i \in Ids(g), NEW e, NEW n, n = FusedNode(g, i, e),
         n \in Nodes, Shaped(n), \A j \in Operands(n) : Before(g.order, j, i),
         NEW new, new = Len(g.nodes) + 1,
         NEW f, f = Emit(g, i, e.operands, e.c, e.transB)
  PROVE  \E f0 : Placed(g, n, i, new, f0) /\ Without(f0, f, {i})
<1> DEFINE f0 == Put(g, n, i)
<1>1. f = Erase(f0, i)
  BY DEF Emit, Put, FusedNode
<1>2. f0 = Put(g, n, i)
  OBVIOUS
<1> HIDE DEF f0
<1>3. Placed(g, n, i, new, f0)
  BY <1>2, PutKeeps DEF WellFormed
<1>4. Sound(f0) /\ i \in Ids(f0) /\ Users(f0, i) = {}
  BY <1>3 DEF Placed
<1>5. Without(f0, f, {i})
  BY <1>1, <1>4, ErasedNode
<1> QED
  BY <1>3, <1>5

(* The operands of a node that comes before another come before it.        *)
LEMMA OperandsBefore ==
  ASSUME NEW g, WellFormed(g), NEW p \in Ids(g), NEW i, Before(g.order, p, i),
         NEW x \in Operands(g.nodes[p])
  PROVE  x # p /\ Before(g.order, x, i)
<1>1. Before(g.order, x, p)
  BY DEF WellFormed, Sound
<1>2. g.order \in Seq(DOMAIN g.nodes) /\ Distinct(g.order)
  BY DEF WellFormed, Sound, Graph
<1> QED
  BY <1>1, <1>2, BeforeOrders

(* What the gemm pass makes of an activation: it is rewritten, or the call *)
(* of erase_node raises.                                                   *)
GemmErases(g, i, pid, n, gone, h) ==
  /\ Activation(g, i, pid) /\ n \in Nodes /\ n.op = "linear_act"
  /\ gone \subseteq Ids(g) /\ i \in gone
  /\ \A u \in gone : Operands(g.nodes[u]) \subseteq gone \cup Operands(n)
  /\ Rewritten(g, n, i, gone, h)

(* ... with one node to erase besides the activation,                      *)
OneErases(g, i, pid, e, n, f) ==
  /\ WellFormed(f) /\ Len(f.nodes) = Len(g.nodes) + 1 /\ Erasable(f, e.erased)
  /\ GemmErases(g, i, pid, n, {i, pid}, EraseAll(f, e.erased))

(* A product that only the activation uses can be erased after it.         *)
LEMMA GemmErased ==
  ASSUME NEW g, WellFormed(g), NEW i, NEW pid, Activation(g, i, pid), NEW e, EpilogueTyped(e),
         OfGemm(g, pid, e),
         NEW f, f = Emit(g, i, e.operands, e.c, e.transB), NEW n, n = FusedNode(g, i, e)
  PROVE  OneErases(g, i, pid, e, n, f)
<1> DEFINE new == Len(g.nodes) + 1
<1>1. i \in Ids(g) /\ pid \in Ids(g) /\ Operands(g.nodes[i]) = {pid} /\ Users(g, pid) = {i}
      /\ ActName(g.nodes[i]) \in {"relu", "silu"}
  BY DEF Activation
<1>2. e.operands \in Seq(Nat) /\ Len(e.operands) \in {2, 3}
      /\ \A k \in DOMAIN e.operands : e.operands[k] # 0
  BY DEF EpilogueTyped, OfGemm, ToSet
<1>3. n \in Nodes /\ Shaped(n) /\ n.op = "linear_act" /\ n.args = e.operands
  BY <1>1, <1>2, FusedNodeTyped
<1>4. Operands(n) = Operands(g.nodes[pid])
  BY <1>3 DEF OfGemm, Operands
<1>5. Before(g.order, pid, i)
  BY <1>1 DEF WellFormed, Sound
<1>6. \A j \in Operands(n) : j # pid /\ Before(g.order, j, i)
  BY <1>1, <1>4, <1>5, OperandsBefore
<1>7. new = Len(g.nodes) + 1
  OBVIOUS
<1> HIDE DEF new
<1>8. PICK f0 : Placed(g, n, i, new, f0) /\ Without(f0, f, {i})
  BY <1>1, <1>3, <1>6, <1>7, Emitted
<1>9. pid # i
  BY <1>5, BeforeOrders DEF WellFormed, Sound, Graph
<1>10. Users(f, pid) = {} /\ pid \in Ids(f)
  <2>1. Users(f0, pid) = {i}
    <3>1. pid \in Ids(g) \ {i}
      BY <1>1, <1>9
    <3>2. Users(f0, pid) = Users(g, pid) \cup (IF pid \in Operands(n) THEN {new} ELSE {})
      BY <1>8, <3>1 DEF Placed
    <3> QED
      BY <1>1, <1>6, <3>2
  <2>2. Users(f, pid) = Users(f0, pid) \ {i}
    BY <1>8, UsersLeft
  <2>3. pid \in Ids(f)
    BY <1>1, <1>8, <1>9 DEF Placed, Without
  <2> QED
    BY <2>1, <2>2, <2>3
<1>11. e.erased = <<pid>>
  BY DEF OfGemm
<1>12. Erasable(f, e.erased)
  <2>1. \A k \in DOMAIN <<pid>> : <<pid>>[k] = pid
    OBVIOUS
  <2> QED
    BY <1>10, <1>11, <2>1 DEF Erasable
<1>13. EraseAll(f, e.erased) = Erase(f, pid)
  BY <1>11, EraseOne
<1>14. Without(f0, Erase(f, pid), {i} \cup {pid})
  <2> DEFINE h == Erase(f, pid)
  <2>1. h = Erase(f, pid)
    OBVIOUS
  <2> HIDE DEF h
  <2>2. Without(f0, h, {i} \cup {pid})
    BY <1>8, <1>10, <2>1, ErasedToo
  <2> QED
    BY <2>2 DEF h
<1>15. {i} \cup {pid} = {i, pid}
  OBVIOUS
<1>16. Rewritten(g, n, i, {i, pid}, EraseAll(f, e.erased))
  <2> DEFINE h    == Erase(f, pid)
             gone == {i, pid}
  <2>1. gone \subseteq Ids(g) /\ i \in gone
    BY <1>1
  <2>2. Without(f0, h, gone)
    BY <1>14, <1>15
  <2> HIDE DEF h, gone
  <2>3. Rewritten(g, n, i, gone, h)
    BY <1>1, <1>3, <1>7, <1>8, <2>1, <2>2, PlacedRewrites
  <2> QED
    BY <1>13, <2>3 DEF h, gone
<1>17. WellFormed(f) /\ Len(f.nodes) = Len(g.nodes) + 1
  <2>1. Rewritten(g, n, i, {i}, f)
    BY <1>1, <1>3, <1>7, <1>8, PlacedRewrites
  <2> QED
    BY <2>1 DEF Rewritten
<1>18. \A u \in {i, pid} : Operands(g.nodes[u]) \subseteq {i, pid} \cup Operands(n)
  BY <1>1, <1>4
<1> QED
  BY <1>1, <1>3, <1>12, <1>16, <1>17, <1>18 DEF GemmErases, OneErases

(* ... with two: the erasure raises only when the mm is the other operand  *)
(* too.                                                                    *)
AddErases(g, i, pid, j, other, e, n, f) ==
  /\ WellFormed(f) /\ Len(f.nodes) = Len(g.nodes) + 1
  /\ other = j => ~ Erasable(f, e.erased)
  /\ other # j => /\ Erasable(f, e.erased)
                  /\ GemmErases(g, i, pid, n, {i, pid, j}, EraseAll(f, e.erased))

(* A sum and its product can be erased after the activation, unless the    *)
(* product is added to itself.                                             *)
LEMMA GemmErasedAdd ==
  ASSUME NEW g, WellFormed(g), NEW i, NEW pid, Activation(g, i, pid), NEW e, EpilogueTyped(e),
         NEW j, NEW other, OfAdd(g, pid, j, other, e),
         NEW f, f = Emit(g, i, e.operands, e.c, e.transB), NEW n, n = FusedNode(g, i, e)
  PROVE  AddErases(g, i, pid, j, other, e, n, f)
<1> DEFINE new == Len(g.nodes) + 1
<1>1. i \in Ids(g) /\ pid \in Ids(g) /\ Operands(g.nodes[i]) = {pid} /\ Users(g, pid) = {i}
      /\ ActName(g.nodes[i]) \in {"relu", "silu"}
  BY DEF Activation
<1>2. /\ e.operands \in Seq(Nat) /\ Len(e.operands) \in {2, 3}
      /\ \A k \in DOMAIN e.operands : e.operands[k] = 0 => k = 3
  <2>1. e.operands \in Seq(Nat) /\ Len(e.operands) = 3 /\ e.operands[1] # 0 /\ e.operands[2] # 0
    BY DEF EpilogueTyped, OfAdd
  <2>2. \A k \in DOMAIN e.operands : k = 1 \/ k = 2 \/ k = 3
    BY <2>1
  <2> QED
    BY <2>1, <2>2
<1>3. n \in Nodes /\ Shaped(n) /\ n.op = "linear_act" /\ n.args = e.operands
  BY <1>1, <1>2, FusedNodeTyped
<1>19. j \in Ids(g) /\ Users(g, j) = {pid} /\ e.erased = <<pid, j>>
  BY DEF OfAdd
<1>4. Operands(n) = Operands(g.nodes[j]) \cup ({other} \ {0})
  <2>1. ToSet(n.args) = ToSet(g.nodes[j].args) \cup {other}
    BY <1>3 DEF OfAdd
  <2> QED
    BY <2>1 DEF Operands
<1>20. Operands(g.nodes[pid]) = {j} \cup ({other} \ {0})
  <2>1. j # 0
    BY <1>19, IdsOfGraph DEF WellFormed, Sound
  <2> QED
    BY <2>1 DEF OfAdd, Operands
<1>5. Before(g.order, pid, i)
  BY <1>1 DEF WellFormed, Sound
<1>6. \A x \in Operands(g.nodes[pid]) : x # pid /\ Before(g.order, x, i)
  BY <1>1, <1>5, OperandsBefore
<1>21. \A x \in Operands(g.nodes[j]) : x # j /\ x # pid /\ Before(g.order, x, i)
  <2>1. Before(g.order, j, i) /\ Before(g.order, j, pid)
    BY <1>1, <1>6, <1>20 DEF WellFormed, Sound
  <2>2. \A x \in Operands(g.nodes[j]) : x # j /\ Before(g.order, x, i) /\ Before(g.order, x, pid)
    BY <1>19, <2>1, OperandsBefore
  <2>3. g.order \in Seq(DOMAIN g.nodes) /\ Distinct(g.order)
    BY DEF WellFormed, Sound, Graph
  <2>4. \A x : Before(g.order, x, pid) => x # pid
    BY <2>3, BeforeOrders
  <2> QED
    BY <2>2, <2>4
<1>22. \A x \in Operands(n) : x # pid /\ Before(g.order, x, i)
  BY <1>4, <1>6, <1>20, <1>21
<1>7. new = Len(g.nodes) + 1
  OBVIOUS
<1> HIDE DEF new
<1>8. PICK f0 : Placed(g, n, i, new, f0) /\ Without(f0, f, {i})
  BY <1>1, <1>3, <1>7, <1>22, Emitted
<1>17. WellFormed(f) /\ Len(f.nodes) = Len(g.nodes) + 1
  <2>1. Rewritten(g, n, i, {i}, f)
    BY <1>1, <1>3, <1>7, <1>8, PlacedRewrites
  <2> QED
    BY <2>1 DEF Rewritten
<1>27. ASSUME other = j PROVE ~ Erasable(f, e.erased)
  <2>1. j \in Ids(g) \ {i} /\ new \notin Ids(g)
    <3>1. Before(g.order, j, i)
      BY <1>6, <1>20
    <3>2. j # i
      BY <3>1, BeforeOrders DEF WellFormed, Sound, Graph
    <3> QED
      BY <1>8, <1>19, <3>2 DEF Placed
  <2>2. j \in Operands(n)
    <3>1. j # 0
      BY <1>19, IdsOfGraph DEF WellFormed, Sound
    <3> QED
      BY <1>4, <1>27, <3>1
  <2>3. Users(f0, j) = Users(g, j) \cup (IF j \in Operands(n) THEN {new} ELSE {})
    BY <1>8, <2>1 DEF Placed
  <2>4. Users(f, j) = Users(f0, j) \ {i}
    BY <1>8, UsersLeft
  <2>5. new \in Users(f, j) /\ new # pid /\ new # j
    BY <1>1, <2>1, <2>2, <2>3, <2>4
  <2>6. 2 \in DOMAIN <<pid, j>> /\ <<pid, j>>[2] = j /\ ToSet(<<pid, j>>) = {pid, j}
    <3>1. DOMAIN <<pid, j>> = {1, 2} /\ <<pid, j>>[1] = pid /\ <<pid, j>>[2] = j
      OBVIOUS
    <3> QED
      BY <3>1 DEF ToSet
  <2>7. new \notin ToSet(e.erased) /\ 2 \in DOMAIN e.erased /\ e.erased[2] = j
    BY <1>19, <2>5, <2>6
  <2> QED
    BY <2>5, <2>7 DEF Erasable
<1> SUFFICES ASSUME other # j
             PROVE  /\ Erasable(f, e.erased)
                    /\ GemmErases(g, i, pid, n, {i, pid, j}, EraseAll(f, e.erased))
  BY <1>17, <1>27 DEF AddErases
<1>23. j \notin Operands(n)
  BY <1>4, <1>21
<1>9. pid # i /\ j # i /\ j # pid
  <2>1. g.order \in Seq(DOMAIN g.nodes) /\ Distinct(g.order)
    BY DEF WellFormed, Sound, Graph
  <2>2. Before(g.order, j, i) /\ j # pid
    BY <1>6, <1>20
  <2> QED
    BY <1>5, <2>1, <2>2, BeforeOrders
<1>10. /\ Users(f, pid) = {} /\ pid \in Ids(f)
       /\ Users(f, j) = {pid} /\ j \in Ids(f)
  <2>1. Users(f0, pid) = {i} /\ Users(f0, j) = {pid}
    <3>1. pid \in Ids(g) \ {i} /\ j \in Ids(g) \ {i}
      BY <1>1, <1>9, <1>19
    <3>2. Users(f0, pid) = Users(g, pid) \cup (IF pid \in Operands(n) THEN {new} ELSE {})
      BY <1>8, <3>1 DEF Placed
    <3>3. Users(f0, j) = Users(g, j) \cup (IF j \in Operands(n) THEN {new} ELSE {})
      BY <1>8, <3>1 DEF Placed
    <3> QED
      BY <1>1, <1>19, <1>22, <1>23, <3>2, <3>3
  <2>2. Users(f, pid) = Users(f0, pid) \ {i} /\ Users(f, j) = Users(f0, j) \ {i}
    BY <1>8, UsersLeft
  <2>3. pid \in Ids(f) /\ j \in Ids(f)
    BY <1>1, <1>8, <1>9, <1>19 DEF Placed, Without
  <2> QED
    BY <1>9, <2>1, <2>2, <2>3
<1>12. Erasable(f, e.erased)
  <2>1. /\ \A k \in DOMAIN <<pid, j>> : <<pid, j>>[k] = pid \/ <<pid, j>>[k] = j
        /\ ToSet(<<pid, j>>) = {pid, j}
    <3>1. DOMAIN <<pid, j>> = {1, 2} /\ <<pid, j>>[1] = pid /\ <<pid, j>>[2] = j
      OBVIOUS
    <3> QED
      BY <3>1 DEF ToSet
  <2> QED
    BY <1>10, <1>19, <2>1 DEF Erasable
<1> DEFINE h1 == Erase(f, pid)
           h  == Erase(h1, j)
<1>13. EraseAll(f, e.erased) = h
  BY <1>19, EraseTwo
<1>24. h1 = Erase(f, pid) /\ h = Erase(h1, j)
  OBVIOUS
<1> HIDE DEF h1, h
<1>14. Without(f0, h1, {i} \cup {pid}) /\ Without(f, h1, {pid})
  <2>1. Without(f0, h1, {i} \cup {pid})
    BY <1>8, <1>10, <1>24, ErasedToo
  <2>2. Without(f, h1, {pid})
    BY <1>10, <1>17, <1>24, ErasedNode DEF WellFormed
  <2> QED
    BY <2>1, <2>2
<1>25. Users(h1, j) = {} /\ j \in Ids(h1)
  <2>1. Users(h1, j) = Users(f, j) \ {pid}
    BY <1>14, UsersLeft
  <2> QED
    BY <1>9, <1>10, <1>14, <2>1 DEF Without
<1>26. Without(f0, h, ({i} \cup {pid}) \cup {j})
  BY <1>14, <1>24, <1>25, ErasedToo
<1>15. ({i} \cup {pid}) \cup {j} = {i, pid, j}
  OBVIOUS
<1>16. Rewritten(g, n, i, {i, pid, j}, h)
  <2> DEFINE gone == {i, pid, j}
  <2>1. gone \subseteq Ids(g) /\ i \in gone
    BY <1>1, <1>19
  <2>2. Without(f0, h, gone)
    BY <1>15, <1>26
  <2> HIDE DEF gone
  <2>3. Rewritten(g, n, i, gone, h)
    BY <1>1, <1>3, <1>7, <1>8, <2>1, <2>2, PlacedRewrites
  <2> QED
    BY <2>3 DEF gone
<1>18. \A u \in {i, pid, j} : Operands(g.nodes[u]) \subseteq {i, pid, j} \cup Operands(n)
  BY <1>1, <1>4, <1>20
<1> QED
  BY <1>1, <1>3, <1>12, <1>13, <1>16, <1>18, <1>19 DEF GemmErases

(* What a visit of the gemm pass makes of the graph.                       *)
GemmVisited(g, i, e, f) ==
  /\ WellFormed(f) /\ Len(f.nodes) = Len(g.nodes) + 1 /\ i \in Ids(g)
  /\ \/ /\ Erasable(f, e.erased)
        /\ \E pid, n, gone : GemmErases(g, i, pid, n, gone, EraseAll(f, e.erased))
     \/ ~ Erasable(f, e.erased) /\
        \E pid, j : /\ pid \in Ids(g) /\ j \in Ids(g) /\ g.nodes[j].op = "mm"
                    /\ g.nodes[pid].op = "add" /\ Len(g.nodes[pid].args) = 2
                    /\ ToSet(g.nodes[pid].args) = {j}

(* Every visit of the gemm pass that does something does this.             *)
LEMMA GemmVisit ==
  ASSUME NEW g, WellFormed(g), NEW i \in DOMAIN g.nodes, NEW e \in EpiloguesOf(g, i),
         NEW f, f = Emit(g, i, e.operands, e.c, e.transB)
  PROVE  GemmVisited(g, i, e, f)
<1>1. PICK pid : /\ Activation(g, i, pid)
                 /\ EpiloguesOf(g, i) = GemmEpilogue(g.nodes[pid], pid)
                                           \cup AddEpilogue(g, g.nodes[pid], pid)
  BY ActivationFound
<1>2. i \in Ids(g) /\ pid \in Ids(g)
  BY <1>1 DEF Activation
<1>3. PICK n : n = FusedNode(g, i, e)
  OBVIOUS
<1>4. CASE e \in GemmEpilogue(g.nodes[pid], pid)
  <2>1. OfGemm(g, pid, e) /\ EpilogueTyped(e)
    BY <1>2, <1>4, OfGemmFound
  <2>2. OneErases(g, i, pid, e, n, f)
    BY <1>1, <1>3, <2>1, GemmErased
  <2> QED
    BY <1>2, <2>2 DEF GemmVisited, OneErases
<1>5. CASE e \in AddEpilogue(g, g.nodes[pid], pid)
  <2>1. (\E j, other : OfAdd(g, pid, j, other, e)) /\ EpilogueTyped(e)
    BY <1>2, <1>5, OfAddFound
  <2>2. PICK j, other : OfAdd(g, pid, j, other, e)
    BY <2>1
  <2>6. EpilogueTyped(e) /\ Activation(g, i, pid)
    BY <1>1, <2>1
  <2>7. AddErases(g, i, pid, j, other, e, n, f)
    BY <1>3, <2>2, <2>6, GemmErasedAdd
  <2>3. /\ WellFormed(f) /\ Len(f.nodes) = Len(g.nodes) + 1
        /\ other = j => ~ Erasable(f, e.erased)
        /\ other # j => /\ Erasable(f, e.erased)
                        /\ GemmErases(g, i, pid, n, {i, pid, j}, EraseAll(f, e.erased))
    BY <2>7 DEF AddErases
  <2>4. CASE other # j
    BY <1>2, <2>3, <2>4 DEF GemmVisited
  <2>5. CASE other = j
    <3>1. j \in Ids(g) /\ g.nodes[j].op = "mm" /\ g.nodes[pid].op = "add"
          /\ Len(g.nodes[pid].args) = 2 /\ ToSet(g.nodes[pid].args) = {j}
      BY <2>2, <2>5 DEF OfAdd
    <3> QED
      BY <1>2, <2>3, <2>5, <3>1 DEF GemmVisited
  <2> QED
    BY <2>4, <2>5
<1> QED
  BY <1>1, <1>4, <1>5

-----------------------------------------------------------------------------
(* The pointwise pass.                                                     *)
CallOf(p) == [NewNode("pointwise", p.inputs) EXCEPT !.prog = p.prog]

(* It is a node with a program that both backends accept.                  *)
LEMMA CallTyped ==
  ASSUME NEW p, Acc(p), p.prog # <<>>, p.inputs # <<>>, NEW n, n = CallOf(p)
  PROVE  /\ n \in Nodes /\ Shaped(n) /\ n.op = "pointwise" /\ n.args = p.inputs /\ n.prog = p.prog
         /\ Operands(n) = ToSet(p.inputs)
<1>1. /\ p.prog \in Seq(Jit!Nodes) /\ p.inputs \in Seq(Nat)
      /\ \A k \in DOMAIN p.inputs : p.inputs[k] # 0
  <2>1. p.inputs \in Seq(Nat \ {0}) /\ p.prog \in Seq(Jit!Nodes)
    BY DEF Acc
  <2> DEFINE s == p.inputs
  <2>2. s \in Seq(Nat \ {0})
    BY <2>1
  <2> HIDE DEF s
  <2>3. s \in Seq(Nat) /\ \A k \in DOMAIN s : s[k] # 0
    BY <2>2
  <2> QED
    BY <2>1, <2>3 DEF s
<1>2. "pointwise" \in Operators
  BY DEF Operators
<1>3. PICK m : m = NewNode("pointwise", p.inputs)
  OBVIOUS
<1>4. m \in Nodes /\ m.op = "pointwise" /\ m.args = p.inputs
  BY <1>1, <1>2, <1>3, NewNodeTyped
<1>5. n = [m EXCEPT !.prog = p.prog]
  BY <1>3 DEF CallOf
<1>6. n \in Nodes /\ n.op = "pointwise" /\ n.args = p.inputs /\ n.prog = p.prog
  BY <1>1, <1>4, <1>5 DEF Nodes
<1>7. \A v \in DOMAIN p.prog : /\ Jit!Reads(p.prog[v]) \subseteq 0..(v - 2)
                               /\ p.prog[v].op = "load" => p.prog[v].id \in 0..(Len(p.inputs) - 1)
  BY DEF Acc
<1>8. Jit!Accepted([n |-> Len(n.args), nodes |-> n.prog])
  <2> DEFINE r == [n |-> Len(n.args), nodes |-> n.prog]
  <2>1. r.n = Len(p.inputs) /\ r.nodes = p.prog
    BY <1>6
  <2> HIDE DEF r
  <2>2. Jit!Accepted(r)
    BY <1>7, <2>1 DEF Jit!Accepted
  <2> QED
    BY <2>2 DEF r
<1>11. Len(n.args) # 0
  BY <1>1, <1>6
<1>9. Shaped(n)
  BY <1>1, <1>6, <1>7, <1>8, <1>11 DEF Shaped, Jit!Unary
<1>10. Operands(n) = ToSet(p.inputs)
  BY <1>1, <1>6 DEF Operands, ToSet
<1> QED
  BY <1>6, <1>9, <1>10

(* A call of pointwise takes the place of a group.                         *)
GroupErases(g, root, n, h) ==
  /\ Group(g, root) \subseteq Ids(g) /\ root \in Group(g, root) /\ n \in Nodes
  /\ \A u \in Group(g, root) : Operands(g.nodes[u]) \subseteq Group(g, root) \cup Operands(n)
  /\ Rewritten(g, n, root, Group(g, root), h)

(* A visit of the pointwise pass to a root with inputs rewrites the graph: *)
(* the call replaces the whole group.                                      *)
LEMMA PointwiseVisit ==
  ASSUME NEW g, WellFormed(g), NEW root, IsRoot(g, root), NEW p, p = Program(g, Group(g, root)),
         p.inputs # <<>>, NEW n, n = CallOf(p)
  PROVE  GroupErases(g, root, n, FusesTo(g, root))
<1> DEFINE group == Group(g, root)
           h     == FusesTo(g, root)
           f     == Put(g, n, root)
           new   == Len(g.nodes) + 1
<1>1. Closed(g, root, group)
  BY GroupClosed DEF WellFormed
<1>2. /\ root \in group /\ group \subseteq Ids(g) /\ root \in Ids(g)
      /\ \A i \in group : IsPointwise(g.nodes[i]) /\ Shaped(g.nodes[i])
      /\ \A i \in group : i = root \/ Before(g.order, i, root)
  BY <1>1 DEF Closed, PointwiseIds, WellFormed
<1>3. h = Swept(f, group, g.order)
  BY DEF FusesTo, Put, CallOf
<1>4. f = Put(g, n, root) /\ new = Len(g.nodes) + 1 /\ p = Program(g, group)
  OBVIOUS
<1>5. Translatable(g, group) /\ group # {}
  BY <1>2 DEF Translatable, WellFormed
<1>14. GroupErases(g, root, n, h) <=>
         /\ group \subseteq Ids(g) /\ root \in group /\ n \in Nodes
         /\ \A u \in group : Operands(g.nodes[u]) \subseteq group \cup Operands(n)
         /\ Rewritten(g, n, root, group, h)
  BY DEF GroupErases
<1> HIDE DEF group, h, f, new
<1>6. Acc(p) /\ ToSet(p.inputs) = OperandsOf(g, group) \ group /\ p.prog # <<>>
  BY <1>4, <1>5, ProgramOfGroup
<1>7. n \in Nodes /\ Shaped(n) /\ Operands(n) = OperandsOf(g, group) \ group
  BY <1>6, CallTyped
<1>8. \A j \in Operands(n) : j \notin group /\ Before(g.order, j, root)
  <2> SUFFICES ASSUME NEW j \in Operands(n) PROVE j \notin group /\ Before(g.order, j, root)
    OBVIOUS
  <2>1. PICK m \in group : j \in Operands(g.nodes[m])
    BY <1>7 DEF OperandsOf
  <2>2. CASE m = root
    BY <1>2, <1>7, <2>1, <2>2 DEF WellFormed, Sound
  <2>3. CASE Before(g.order, m, root)
    BY <1>2, <1>7, <2>1, <2>3, OperandsBefore
  <2> QED
    BY <1>2, <2>2, <2>3
<1>9. Without(f, h, group)
  <2>1. \A j \in Operands(n) : j \notin Group(g, root) /\ Before(g.order, j, root)
    BY <1>8 DEF group
  <2>2. Sound(g)
    BY DEF WellFormed
  <2>3. Without(Put(g, n, root), Swept(Put(g, n, root), Group(g, root), g.order), Group(g, root))
    BY <1>7, <2>1, <2>2, GroupReplaced
  <2> QED
    BY <1>3, <2>3 DEF group, f
<1>10. Placed(g, n, root, new, f)
  BY <1>2, <1>4, <1>7, <1>8, PutKeeps DEF WellFormed
<1>11. Rewritten(g, n, root, group, h)
  BY <1>2, <1>4, <1>7, <1>9, <1>10, PlacedRewrites
<1>12. \A u \in group : Operands(g.nodes[u]) \subseteq group \cup Operands(n)
  BY <1>7 DEF OperandsOf
<1>13. GroupErases(g, root, n, h)
  BY <1>2, <1>7, <1>11, <1>12, <1>14
<1> QED
  BY <1>13 DEF h

-----------------------------------------------------------------------------
(* The inductive invariant.                                                *)

(* Before the passes every node there is is in the order.                  *)
Untouched(g) == Ids(g) = DOMAIN g.nodes

(* The one reason for which erase_node raises.                             *)
Doubles(d) ==
  \E i \in DOMAIN d.nodes :
    d.nodes[i].op = "add" /\ d.nodes[i].args[1] = d.nodes[i].args[2]
      /\ d.nodes[d.nodes[i].args[1]].op = "mm"

(* The graph is well-formed at all times; what the phases add makes the    *)
(* invariants below inductive.                                             *)
IndInv ==
  /\ family \in Families /\ phase \in Phases
  /\ WellFormed(graph) /\ WellFormed(given)
  /\ phase = "trace" => Untouched(graph) /\ NInputs <= Len(graph.nodes)
  /\ phase # "trace" => Len(given.nodes) <= Len(graph.nodes)
  /\ phase = "gemm" => /\ todo \in Seq(DOMAIN graph.nodes) /\ GemmRewrites(given, graph)
                       /\ Untouched(given)
  /\ Compiling => KeepsUsers(given, graph)
  /\ phase = "raised" => Doubles(given)

(* What the invariant says of a phase.                                     *)
InPhase(f, g, d, ph, td) ==
  /\ f \in Families /\ ph \in Phases
  /\ WellFormed(g) /\ WellFormed(d)
  /\ ph = "trace" => Untouched(g) /\ Len(f.shapes) <= Len(g.nodes)
  /\ ph # "trace" => Len(d.nodes) <= Len(g.nodes)
  /\ ph = "gemm" => td \in Seq(DOMAIN g.nodes) /\ GemmRewrites(d, g) /\ Untouched(d)
  /\ ph \in {"gemm", "pointwise", "done"} => KeepsUsers(d, g)
  /\ ph = "raised" => Doubles(d)

(* ... now, and after a step.                                              *)
LEMMA InvInPhase ==
  /\ IndInv <=> InPhase(family, graph, given, phase, todo)
  /\ IndInv' <=> InPhase(family', graph', given', phase', todo')
BY DEF IndInv, InPhase, NInputs, Compiling

(* The graph of the inputs satisfies it.                                   *)
LEMMA InitInd == Init => IndInv
<1> SUFFICES ASSUME Init PROVE IndInv
  OBVIOUS
<1>1. /\ family \in Families /\ graph = InputGraph /\ given = InputGraph /\ phase = "trace"
  BY DEF Init
<1>2. WellFormed(InputGraph) /\ Ids(InputGraph) = DOMAIN InputGraph.nodes
      /\ Len(InputGraph.nodes) = NInputs /\ NInputs \in Nat
  BY <1>1, InputsWellFormed
<1> QED
  BY <1>1, <1>2 DEF IndInv, Phases, Untouched, Compiling

(* The rest of a snapshot.                                                 *)
LEMMA RestOfTodo ==
  ASSUME NEW S, NEW s \in Seq(S), NEW p \in DOMAIN s
  PROVE  SubSeq(s, p + 1, Len(s)) \in Seq(S) /\ s[p] \in S
OBVIOUS

(* Tracing one more operator keeps it.                                     *)
LEMMA TraceNodeInd == IndInv /\ TraceNode => IndInv'
<1> SUFFICES ASSUME IndInv, TraceNode PROVE IndInv'
  OBVIOUS
<1>1. /\ phase = "trace" /\ UNCHANGED <<family, given, phase, todo>>
      /\ family \in Families /\ WellFormed(graph) /\ WellFormed(given)
      /\ Untouched(graph) /\ NInputs <= Len(graph.nodes)
  BY DEF IndInv, TraceNode
<1>2. PICK kind \in family.kinds : \E n \in NewNodes(graph, kind) : graph' = Appended(graph, n)
  BY DEF TraceNode
<1>3. PICK n \in NewNodes(graph, kind) : graph' = Appended(graph, n)
  BY <1>2
<1>4. /\ Ids(graph) \subseteq Nat \ {0} /\ 1..NInputs \subseteq Ids(graph)
      /\ Len(graph.nodes) \in Nat
  <2>1. DOMAIN graph.nodes = 1..Len(graph.nodes) /\ Len(graph.nodes) \in Nat
    BY <1>1, IdsOfGraph DEF WellFormed, Sound
  <2>2. NInputs \in Nat
    BY <1>1, InputsWellFormed
  <2> QED
    BY <1>1, <2>1, <2>2 DEF Untouched
<1>5. n \in Nodes /\ Shaped(n) /\ Operands(n) \subseteq Ids(graph)
  BY <1>1, <1>3, <1>4, Traced DEF Traceable
<1>6. WellFormed(graph') /\ AppendedTo(graph, n, graph')
  BY <1>1, <1>3, <1>5, WellFormedAppended DEF Untouched
<1>7. Untouched(graph') /\ NInputs <= Len(graph'.nodes)
  <2>1. NInputs \in Nat
    BY <1>1, InputsWellFormed
  <2> QED
    BY <1>1, <1>4, <1>6, <2>1 DEF Untouched, AppendedTo
<1> QED
  BY <1>1, <1>6, <1>7 DEF IndInv, Phases, Compiling, NInputs

(* So does naming the results.                                             *)
LEMMA TraceEndsInd == IndInv /\ TraceEnds => IndInv'
<1> SUFFICES ASSUME IndInv, TraceEnds PROVE IndInv'
  OBVIOUS
<1>1. /\ phase = "trace" /\ phase' = "gemm" /\ UNCHANGED family
      /\ family \in Families /\ WellFormed(graph) /\ Untouched(graph)
  BY DEF IndInv, TraceEnds
<1>2. PICK y, z \in Ids(graph) \ 1..NInputs :
        LET g == Appended(graph, NewNode("output", IF y = z THEN <<y>> ELSE <<y, z>>))
        IN  graph' = g /\ given' = g /\ todo' = g.order
  BY DEF TraceEnds
<1>3. PICK args : args = IF y = z THEN <<y>> ELSE <<y, z>>
  OBVIOUS
<1>4. PICK n : n = NewNode("output", args)
  OBVIOUS
<1>5. graph' = Appended(graph, n) /\ given' = graph' /\ todo' = graph'.order
  BY <1>2, <1>3, <1>4
<1>6. y \in Nat \ {0} /\ z \in Nat \ {0}
  BY <1>1, <1>2, IdsOfGraph DEF WellFormed, Sound
<1>7. args \in Seq(Nat) /\ ToSet(args) \subseteq {y, z}
  BY <1>3, <1>6, ShortOperands
<1>8. "output" \in Operators
  BY DEF Operators
<1>9. n \in Nodes /\ n.op = "output" /\ n.args = args
  BY <1>4, <1>7, <1>8, NewNodeTyped
<1>10. Operands(n) \subseteq Ids(graph)
  BY <1>2, <1>7, <1>9 DEF Operands
<1>11. Shaped(n)
  <2>1. \A k \in DOMAIN args : args[k] # 0
    BY <1>6, <1>7 DEF ToSet
  <2> QED
    BY <1>9, <2>1 DEF Shaped, Jit!Unary
<1>12. WellFormed(graph') /\ AppendedTo(graph, n, graph')
  BY <1>1, <1>5, <1>9, <1>10, <1>11, WellFormedAppended DEF Untouched
<1>13. Untouched(given') /\ todo' \in Seq(DOMAIN graph'.nodes) /\ Len(graph'.nodes) \in Nat
  BY <1>5, <1>12, IdsOfGraph DEF AppendedTo, WellFormed, Sound, Graph, Untouched
<1>14. GemmRewrites(given', graph')
  <2>1. \A x \in Ids(graph') : x <= Len(graph'.nodes)
    BY <1>12, IdsOfGraph DEF WellFormed, Sound
  <2>2. \A x \in Ids(graph') : OldNode(graph', graph'.nodes[x], graph'.nodes[x])
    BY DEF OldNode
  <2>3. GemmRewrites(graph', graph')
    BY <2>1, <2>2 DEF GemmRewrites
  <2> QED
    BY <1>5, <2>3
<1>15. KeepsUsers(given', graph')
  BY <1>5 DEF KeepsUsers
<1>16. InPhase(family', graph', given', phase', todo')
  BY <1>1, <1>5, <1>12, <1>13, <1>14, <1>15 DEF InPhase, Phases
<1> QED
  BY <1>16, InvInPhase

(* If the gemm pass raises, the sum of an mm with itself was traced.       *)
LEMMA DoublingTraced ==
  ASSUME NEW d, WellFormed(d), Untouched(d), NEW g, WellFormed(g), GemmRewrites(d, g),
         NEW pid \in Ids(g), NEW j \in Ids(g), g.nodes[j].op = "mm", g.nodes[pid].op = "add",
         Len(g.nodes[pid].args) = 2, ToSet(g.nodes[pid].args) = {j}
  PROVE  Doubles(d)
<1>1. /\ Len(d.nodes) \in Nat /\ Ids(d) = 1..Len(d.nodes) /\ DOMAIN d.nodes = 1..Len(d.nodes)
      /\ pid \in Nat \ {0} /\ j \in Nat \ {0}
      /\ d.nodes \in Seq(Nodes) /\ \A i \in DOMAIN d.nodes : d.nodes[i].args \in Seq(Nat)
      /\ g.nodes[pid].args \in Seq(Nat)
  <2>1. /\ Len(d.nodes) \in Nat /\ DOMAIN d.nodes = 1..Len(d.nodes)
        /\ d.nodes \in Seq(Nodes) /\ \A i \in DOMAIN d.nodes : d.nodes[i].args \in Seq(Nat)
    BY IdsOfGraph DEF WellFormed, Sound, Graph
  <2>2. pid \in Nat \ {0} /\ j \in Nat \ {0} /\ g.nodes[pid].args \in Seq(Nat)
    BY IdsOfGraph DEF WellFormed, Sound
  <2> QED
    BY <2>1, <2>2 DEF Untouched
<1>2. pid <= Len(d.nodes) /\ j <= Len(d.nodes)
  <2>1. g.nodes[pid].op # "linear_act" /\ g.nodes[j].op # "linear_act"
    OBVIOUS
  <2> QED
    BY <2>1 DEF GemmRewrites
<1> DEFINE n == d.nodes[pid]
           m == g.nodes[pid]
<1>3. OldNode(d, n, m) /\ OldNode(d, d.nodes[j], g.nodes[j])
  BY <1>2 DEF GemmRewrites
<1>4. pid \in DOMAIN d.nodes /\ j \in DOMAIN d.nodes
  BY <1>1, <1>2
<1>5. m.op = "add" /\ Len(m.args) = 2 /\ ToSet(m.args) = {j} /\ m.args \in Seq(Nat) /\ n.args \in Seq(Nat)
  BY <1>1, <1>4
<1> HIDE DEF n, m
<1>6. n.op = "add" /\ Len(n.args) = 2 /\ \A k \in DOMAIN m.args : m.args[k] = n.args[k] \/ m.args[k] > Len(d.nodes)
  BY <1>3, <1>5 DEF OldNode
<1>7. m.args[1] = j /\ m.args[2] = j /\ 1 \in DOMAIN m.args /\ 2 \in DOMAIN m.args
  <2>1. 1 \in DOMAIN m.args /\ 2 \in DOMAIN m.args
    BY <1>5
  <2> QED
    BY <1>5, <2>1 DEF ToSet
<1>8. n.args[1] = j /\ n.args[2] = j
  <2>1. ~ (j > Len(d.nodes))
    BY <1>1, <1>2
  <2>2. (j = n.args[1] \/ j > Len(d.nodes)) /\ (j = n.args[2] \/ j > Len(d.nodes))
    BY <1>6, <1>7
  <2> QED
    BY <2>1, <2>2
<1>9. d.nodes[j].op = "mm"
  BY <1>3 DEF OldNode
<1> QED
  BY <1>4, <1>6, <1>8, <1>9 DEF Doubles, n

(* A visit of the gemm pass keeps it, whether erase_node raises or not.    *)
LEMMA GemmFuseInd ==
  ASSUME IndInv, phase = "gemm", NEW i \in GemmVisits, GemmFuse(i)
  PROVE  IndInv'
<1>1. /\ family \in Families /\ WellFormed(graph) /\ WellFormed(given) /\ Untouched(given)
      /\ Len(given.nodes) <= Len(graph.nodes)
      /\ todo \in Seq(DOMAIN graph.nodes) /\ GemmRewrites(given, graph)
      /\ KeepsUsers(given, graph)
      /\ UNCHANGED <<family, given>>
  BY DEF IndInv, Compiling, GemmFuse
<1>2. /\ DOMAIN graph.nodes = 1..Len(graph.nodes) /\ Len(graph.nodes) \in Nat
      /\ Len(given.nodes) \in Nat
  BY <1>1, IdsOfGraph DEF WellFormed, Sound
<1>3. i \in DOMAIN graph.nodes /\ EpiloguesOf(graph, i) # {}
  BY <1>1 DEF GemmVisits, ToSet
<1>4. PICK e \in EpiloguesOf(graph, i) :
        LET g == Emit(graph, i, e.operands, e.c, e.transB)
        IN  IF Erasable(g, e.erased)
              THEN graph' = EraseAll(g, e.erased) /\ UNCHANGED phase
              ELSE graph' = g /\ phase' = "raised"
  BY DEF GemmFuse
<1>5. PICK f : f = Emit(graph, i, e.operands, e.c, e.transB)
  OBVIOUS
<1>6. IF Erasable(f, e.erased) THEN graph' = EraseAll(f, e.erased) /\ UNCHANGED phase
                               ELSE graph' = f /\ phase' = "raised"
  BY <1>4, <1>5
<1>7. GemmVisited(graph, i, e, f)
  BY <1>1, <1>3, <1>5, GemmVisit
<1>8. todo' \in Seq(DOMAIN graph.nodes)
  <2>1. PICK p \in DOMAIN todo : todo' = SubSeq(todo, p + 1, Len(todo))
    BY DEF GemmFuse, NextVisit
  <2> QED
    BY <1>1, <2>1, RestOfTodo
<1>9. CASE Erasable(f, e.erased) /\ \E pid, n, gone : GemmErases(graph, i, pid, n, gone, EraseAll(f, e.erased))
  <2>1. graph' = EraseAll(f, e.erased) /\ phase' = "gemm"
    BY <1>6, <1>9
  <2>2. PICK pid, n, gone : GemmErases(graph, i, pid, n, gone, graph')
    BY <1>9, <2>1
  <2>3. /\ n.op = "linear_act" /\ i \in Ids(graph) /\ gone \subseteq Ids(graph)
        /\ \A u \in gone : Operands(graph.nodes[u]) \subseteq gone \cup Operands(n)
        /\ Rewritten(graph, n, i, gone, graph')
    BY <2>2 DEF GemmErases, Activation
  <2>4. WellFormed(graph') /\ Len(graph'.nodes) = Len(graph.nodes) + 1
    BY <2>3 DEF Rewritten
  <2>5. KeepsUsers(given, graph')
    BY <1>1, <2>3, RewrittenKeepsUsers
  <2>6. GemmRewrites(given, graph')
    BY <1>1, <1>2, <2>3, RewrittenAgain
  <2>7. DOMAIN graph.nodes \subseteq DOMAIN graph'.nodes
    <3>1. DOMAIN graph'.nodes = 1..Len(graph'.nodes)
      BY <2>4, IdsOfGraph DEF WellFormed, Sound
    <3> QED
      BY <1>2, <2>4, <3>1
  <2>8. todo' \in Seq(DOMAIN graph'.nodes)
    BY <1>8, <2>7
  <2>9. Len(given.nodes) <= Len(graph'.nodes)
    BY <1>1, <1>2, <2>4
  <2>10. InPhase(family', graph', given', phase', todo')
    BY <1>1, <2>1, <2>4, <2>5, <2>6, <2>8, <2>9 DEF InPhase, Phases
  <2> QED
    BY <2>10, InvInPhase
<1>10. CASE ~ Erasable(f, e.erased)
  <2>1. graph' = f /\ phase' = "raised" /\ WellFormed(f)
    BY <1>6, <1>7, <1>10 DEF GemmVisited
  <2>2. PICK pid, j : /\ pid \in Ids(graph) /\ j \in Ids(graph) /\ graph.nodes[j].op = "mm"
                      /\ graph.nodes[pid].op = "add" /\ Len(graph.nodes[pid].args) = 2
                      /\ ToSet(graph.nodes[pid].args) = {j}
    BY <1>7, <1>10 DEF GemmVisited
  <2>3. Doubles(given)
    BY <1>1, <2>2, DoublingTraced
  <2>4. Len(given.nodes) <= Len(graph'.nodes)
    <3>1. Len(f.nodes) = Len(graph.nodes) + 1
      BY <1>7 DEF GemmVisited
    <3> QED
      BY <1>1, <1>2, <2>1, <3>1
  <2>10. InPhase(family', graph', given', phase', todo')
    BY <1>1, <2>1, <2>3, <2>4 DEF InPhase, Phases
  <2> QED
    BY <2>10, InvInPhase
<1> QED
  BY <1>7, <1>9, <1>10 DEF GemmVisited

(* So does the end of the gemm pass,                                       *)
LEMMA GemmEndsInd == IndInv /\ GemmEnds => IndInv'
<1> SUFFICES ASSUME IndInv, GemmEnds PROVE IndInv'
  OBVIOUS
<1>1. /\ phase = "gemm" /\ phase' = "pointwise" /\ UNCHANGED <<family, graph, given>>
      /\ InPhase(family, graph, given, phase, todo)
  BY InvInPhase DEF GemmEnds
<1>2. InPhase(family', graph', given', phase', todo')
  BY <1>1 DEF InPhase, Phases
<1> QED
  BY <1>2, InvInPhase

(* the end of the pointwise pass,                                          *)
LEMMA PointwiseEndsInd == IndInv /\ PointwiseEnds => IndInv'
<1> SUFFICES ASSUME IndInv, PointwiseEnds PROVE IndInv'
  OBVIOUS
<1>1. /\ phase = "pointwise" /\ phase' = "done" /\ UNCHANGED <<family, graph, given>>
      /\ InPhase(family, graph, given, phase, todo)
  BY InvInPhase DEF PointwiseEnds
<1>2. InPhase(family', graph', given', phase', todo')
  BY <1>1 DEF InPhase, Phases
<1> QED
  BY <1>2, InvInPhase

(* and a visit of it.                                                      *)
LEMMA PointwiseFuseInd ==
  ASSUME IndInv, phase = "pointwise", NEW i \in PointwiseVisits, PointwiseFuse(i)
  PROVE  IndInv'
<1>1. /\ family \in Families /\ WellFormed(graph) /\ WellFormed(given)
      /\ Len(given.nodes) <= Len(graph.nodes) /\ KeepsUsers(given, graph)
      /\ UNCHANGED <<family, phase, given>> /\ graph' = FusesTo(graph, i)
  BY DEF IndInv, Compiling, PointwiseFuse
<1>2. IsRoot(graph, i) /\ Program(graph, Group(graph, i)).inputs # <<>>
  BY DEF PointwiseVisits, Collapses
<1>3. PICK p : p = Program(graph, Group(graph, i)) /\ p.inputs # <<>>
  BY <1>2
<1>4. PICK n : n = CallOf(p)
  OBVIOUS
<1>5. GroupErases(graph, i, n, graph')
  BY <1>1, <1>2, <1>3, <1>4, PointwiseVisit
<1> DEFINE gone == Group(graph, i)
<1>6. /\ gone \subseteq Ids(graph)
      /\ \A u \in gone : Operands(graph.nodes[u]) \subseteq gone \cup Operands(n)
      /\ Rewritten(graph, n, i, gone, graph')
  BY <1>5 DEF GroupErases
<1> HIDE DEF gone
<1>7. WellFormed(graph') /\ Len(graph'.nodes) = Len(graph.nodes) + 1
  BY <1>6 DEF Rewritten
<1>8. KeepsUsers(given, graph')
  BY <1>1, <1>6, RewrittenKeepsUsers
<1>9. Len(given.nodes) <= Len(graph'.nodes)
  <2>1. Len(graph.nodes) \in Nat /\ Len(given.nodes) \in Nat
    BY <1>1, IdsOfGraph DEF WellFormed, Sound
  <2> QED
    BY <1>1, <1>7, <2>1
<1>10. phase' = "pointwise"
  BY <1>1
<1>11. InPhase(family', graph', given', phase', todo')
  BY <1>1, <1>7, <1>8, <1>9, <1>10 DEF InPhase, Phases
<1> QED
  BY <1>11, InvInPhase

(* Every step keeps it.                                                    *)
LEMMA StepInd == IndInv /\ [Next]_vars => IndInv'
<1> SUFFICES ASSUME IndInv, [Next]_vars PROVE IndInv'
  OBVIOUS
<1>1. CASE TraceNode
  BY <1>1, TraceNodeInd
<1>2. CASE TraceEnds
  BY <1>2, TraceEndsInd
<1>3. CASE GemmEnds
  BY <1>3, GemmEndsInd
<1>4. CASE PointwiseEnds
  BY <1>4, PointwiseEndsInd
<1>5. CASE phase = "gemm" /\ \E i \in GemmVisits : GemmFuse(i)
  BY <1>5, GemmFuseInd
<1>6. CASE phase = "pointwise" /\ \E i \in PointwiseVisits : PointwiseFuse(i)
  BY <1>6, PointwiseFuseInd
<1>7. CASE UNCHANGED vars
  <2>1. /\ family' = family /\ graph' = graph /\ given' = given /\ phase' = phase /\ todo' = todo
    BY <1>7 DEF vars
  <2>2. InPhase(family, graph, given, phase, todo)
    BY InvInPhase
  <2>3. InPhase(family', graph', given', phase', todo')
    BY <2>1, <2>2
  <2> QED
    BY <2>3, InvInPhase
<1> QED
  BY <1>1, <1>2, <1>3, <1>4, <1>5, <1>6, <1>7 DEF Next

(* The invariant holds of every graph compile_fx handles, whatever the     *)
(* families of modules it is given.                                        *)
THEOREM Invariant == Spec => []IndInv
<1>1. Init => IndInv
  BY InitInd
<1>2. IndInv /\ [Next]_vars => IndInv'
  BY StepInd
<1> QED
  BY <1>1, <1>2, PTL DEF Spec

(* The order never names a node twice, and every program the pointwise     *)
(* pass emits is one that both backends accept (compiler.py:237-302).      *)
THEOREM Types == Spec => []TypeOK
<1>1. IndInv => TypeOK
  <2> SUFFICES ASSUME IndInv PROVE TypeOK
    OBVIOUS
  <2>1. WellFormed(graph) /\ phase \in Phases
    BY DEF IndInv
  <2>2. Cardinality(Ids(graph)) = Len(graph.order)
    <3>1. graph.order \in Seq(DOMAIN graph.nodes) /\ Distinct(graph.order)
      BY <2>1 DEF WellFormed, Sound, Graph
    <3> QED
      BY <3>1, DistinctCounts DEF Ids
  <2>3. Ids(graph) \subseteq DOMAIN graph.nodes
    BY <2>1, IdsOfGraph DEF WellFormed, Sound
  <2>4. \A i \in Ids(graph) :
          LET n == graph.nodes[i]
          IN  n.op = "pointwise" =>
                /\ Jit!Accepted([n |-> Len(n.args), nodes |-> n.prog])
                /\ \A v \in DOMAIN n.prog : Jit!Reads(n.prog[v]) \subseteq 0..(v - 2)
    BY <2>1 DEF WellFormed, Shaped
  <2> QED
    BY <2>1, <2>2, <2>3, <2>4 DEF TypeOK
<1> QED
  BY <1>1, Invariant, PTL

(* graph.lint() passes after every visit of both passes: no rewrite moves  *)
(* a use before its definition, none leaves a use of an erased node.       *)
THEOREM Linted == Spec => []Lint
<1>1. IndInv => Lint
  BY SoundOrdered DEF IndInv, WellFormed, Lint
<1> QED
  BY <1>1, Invariant, PTL

(* No pass leaves a node that was used in the traced graph and that        *)
(* nothing uses any more.                                                  *)
THEOREM LeavesNothing == Spec => []NoLeftovers
<1>1. IndInv => NoLeftovers
  BY DEF IndInv, KeepsUsers, NoLeftovers
<1> QED
  BY <1>1, Invariant, PTL

(* erase_node raises in one case only: the sum of an mm with itself is     *)
(* activated.                                                              *)
THEOREM RaisesOnDoubling == Spec => []RaisesOnlyOnDoubling
<1>1. IndInv => RaisesOnlyOnDoubling
  BY DEF IndInv, Doubles, RaisesOnlyOnDoubling
<1> QED
  BY <1>1, Invariant, PTL

-----------------------------------------------------------------------------
(* Execution, and the registers of a program, step by step.                *)

EvaluatedSteps(f, g) ==
  /\ f[0] = Started(g)
  /\ \A k \in 1..Len(g.order) : f[k] = Execute(g, f[k - 1], g.order[k])
  /\ Evaluated(g) = f[Len(g.order)]

(* The nodes are executed in order.                                          *)
LEMMA EvaluatedRun ==
  ASSUME NEW g, Len(g.order) \in Nat
  PROVE  \E f : EvaluatedSteps(f, g)
<1> DEFINE n == Len(g.order)
           Rec(f, m) == f = [k \in 0..m |-> IF k = 0 THEN Started(g) ELSE Execute(g, f[k - 1], g.order[k])]
           S == {m \in Nat : \E f : Rec(f, m)}
<1>1. 0 \in S
  <2>1. Rec([k \in 0..0 |-> Started(g)], 0)
    OBVIOUS
  <2> QED
    BY <2>1
<1>2. ASSUME NEW m \in Nat, m \in S PROVE m + 1 \in S
  <2>1. PICK f : Rec(f, m)
    BY <1>2
  <2> DEFINE h == [k \in 0..(m + 1) |-> IF k = m + 1 THEN Execute(g, f[k - 1], g.order[k]) ELSE f[k]]
  <2>2. \A k \in 0..m : h[k] = f[k]
    OBVIOUS
  <2>3. \A k \in 0..(m + 1) : h[k] = IF k = 0 THEN Started(g) ELSE Execute(g, h[k - 1], g.order[k])
    <3>1. h[m + 1] = Execute(g, h[(m + 1) - 1], g.order[(m + 1)])
      BY <2>2
    <3>2. \A k \in 0..m : f[k] = IF k = 0 THEN Started(g) ELSE Execute(g, f[k - 1], g.order[k])
      BY <2>1
    <3>4. ASSUME NEW k \in 1..m PROVE h[k] = Execute(g, h[k - 1], g.order[k])
      <4>1. k \in 0..m /\ k # 0 /\ k - 1 \in 0..m
        OBVIOUS
      <4>2. h[k] = f[k] /\ h[k - 1] = f[k - 1]
        BY <2>2, <4>1
      <4>3. f[k] = Execute(g, f[k - 1], g.order[k])
        BY <3>2, <4>1
      <4> HIDE DEF h
      <4> QED
        BY <4>2, <4>3
    <3>5. h[0] = Started(g)
      BY <2>2, <3>2
    <3> HIDE DEF h
    <3> SUFFICES ASSUME NEW k \in 0..(m + 1) PROVE h[k] = IF k = 0 THEN Started(g) ELSE Execute(g, h[k - 1], g.order[k])
      OBVIOUS
    <3>6. k = 0 \/ k \in 1..m \/ k = m + 1
      OBVIOUS
    <3>7. k \in 1..m \/ k = m + 1 => k # 0
      OBVIOUS
    <3>8. CASE k = 0
      BY <3>5, <3>8
    <3>9. CASE k \in 1..m
      BY <3>4, <3>7, <3>9
    <3>10. CASE k = m + 1
      BY <3>1, <3>7, <3>10
    <3> QED
      BY <3>6, <3>8, <3>9, <3>10
  <2>4. Rec(h, m + 1)
    BY <2>3
  <2> HIDE DEF h, Rec
  <2>5. \E F : Rec(F, m + 1)
    BY <2>4
  <2> QED
    BY <2>5
<1>3. n \in S
  <2> HIDE DEF S
  <2> QED
    BY <1>1, <1>2, SetInduction
<1> DEFINE F == CHOOSE f : Rec(f, n)
<1>4. Rec(F, n)
  BY <1>3
<1>5. Evaluated(g) = F[n]
  BY DEF Evaluated
<1> HIDE DEF F
<1>6. F[0] = Started(g) /\ \A k \in 1..n : F[k] = Execute(g, F[k - 1], g.order[k])
  <2>1. \A k \in 0..n : F[k] = IF k = 0 THEN Started(g) ELSE Execute(g, F[k - 1], g.order[k])
    BY <1>4
  <2>2. 0 \in 0..n /\ \A k \in 1..n : k \in 0..n /\ k # 0
    OBVIOUS
  <2> QED
    BY <2>1, <2>2
<1> QED
  BY <1>5, <1>6 DEF EvaluatedSteps

(* f is the register file after each instruction.                          *)
RunSteps(f, prog, inputs) ==
  /\ f[0] = <<>>
  /\ \A k \in 1..Len(prog) : f[k] = WithRegister(f[k - 1], prog[k], inputs)
  /\ Run(prog, inputs) = Last(f[Len(prog)])

(* The instructions of a program.                                            *)
LEMMA RunRun ==
  ASSUME NEW prog, NEW inputs, Len(prog) \in Nat
  PROVE  \E f : RunSteps(f, prog, inputs)
<1> DEFINE n == Len(prog)
           Rec(f, m) == f = [k \in 0..m |-> IF k = 0 THEN <<>> ELSE WithRegister(f[k - 1], prog[k], inputs)]
           S == {m \in Nat : \E f : Rec(f, m)}
<1>1. 0 \in S
  <2>1. Rec([k \in 0..0 |-> <<>>], 0)
    OBVIOUS
  <2> QED
    BY <2>1
<1>2. ASSUME NEW m \in Nat, m \in S PROVE m + 1 \in S
  <2>1. PICK f : Rec(f, m)
    BY <1>2
  <2> DEFINE h == [k \in 0..(m + 1) |-> IF k = m + 1 THEN WithRegister(f[k - 1], prog[k], inputs) ELSE f[k]]
  <2>2. \A k \in 0..m : h[k] = f[k]
    OBVIOUS
  <2>3. \A k \in 0..(m + 1) : h[k] = IF k = 0 THEN <<>> ELSE WithRegister(h[k - 1], prog[k], inputs)
    <3>1. h[m + 1] = WithRegister(h[(m + 1) - 1], prog[(m + 1)], inputs)
      BY <2>2
    <3>2. \A k \in 0..m : f[k] = IF k = 0 THEN <<>> ELSE WithRegister(f[k - 1], prog[k], inputs)
      BY <2>1
    <3>4. ASSUME NEW k \in 1..m PROVE h[k] = WithRegister(h[k - 1], prog[k], inputs)
      <4>1. k \in 0..m /\ k # 0 /\ k - 1 \in 0..m
        OBVIOUS
      <4>2. h[k] = f[k] /\ h[k - 1] = f[k - 1]
        BY <2>2, <4>1
      <4>3. f[k] = WithRegister(f[k - 1], prog[k], inputs)
        BY <3>2, <4>1
      <4> HIDE DEF h
      <4> QED
        BY <4>2, <4>3
    <3>5. h[0] = <<>>
      BY <2>2, <3>2
    <3> HIDE DEF h
    <3> SUFFICES ASSUME NEW k \in 0..(m + 1) PROVE h[k] = IF k = 0 THEN <<>> ELSE WithRegister(h[k - 1], prog[k], inputs)
      OBVIOUS
    <3>6. k = 0 \/ k \in 1..m \/ k = m + 1
      OBVIOUS
    <3>7. k \in 1..m \/ k = m + 1 => k # 0
      OBVIOUS
    <3>8. CASE k = 0
      BY <3>5, <3>8
    <3>9. CASE k \in 1..m
      BY <3>4, <3>7, <3>9
    <3>10. CASE k = m + 1
      BY <3>1, <3>7, <3>10
    <3> QED
      BY <3>6, <3>8, <3>9, <3>10
  <2>4. Rec(h, m + 1)
    BY <2>3
  <2> HIDE DEF h, Rec
  <2>5. \E F : Rec(F, m + 1)
    BY <2>4
  <2> QED
    BY <2>5
<1>3. n \in S
  <2> HIDE DEF S
  <2> QED
    BY <1>1, <1>2, SetInduction
<1> DEFINE F == CHOOSE f : Rec(f, n)
<1>4. Rec(F, n)
  BY <1>3
<1>5. Run(prog, inputs) = Last(F[n])
  BY DEF Run
<1> HIDE DEF F
<1>6. F[0] = <<>> /\ \A k \in 1..n : F[k] = WithRegister(F[k - 1], prog[k], inputs)
  <2>1. \A k \in 0..n : F[k] = IF k = 0 THEN <<>> ELSE WithRegister(F[k - 1], prog[k], inputs)
    BY <1>4
  <2>2. 0 \in 0..n /\ \A k \in 1..n : k \in 0..n /\ k # 0
    OBVIOUS
  <2> QED
    BY <2>1, <2>2
<1> QED
  BY <1>5, <1>6 DEF RunSteps

(* Values of nodes: what an operand is worth, the arguments of a node, and *)
(* the node's value, computed from them without an exception.              *)
Worth(W, a, c) == IF a = 0 THEN Scalar(c) ELSE W[a]
ArgsOf(n, W)   == [k \in DOMAIN n.args |-> Worth(W, n.args[k], n.c)]

(* W says of node i what its operator computes, and that it does not       *)
(* throw.                                                                  *)
Computed(n, i, W) ==
  /\ n.op = "in" => W[i] = InputValue(i, n)
  /\ n.op = "output" => W[i] = Throws
  /\ n.op \notin {"in", "output"} => W[i] = Compute(n, ArgsOf(n, W)) /\ W[i] # Throws

Values(g, W) == \A i \in Ids(g) : Computed(g.nodes[i], i, W)

(* They depend on the operands only.                                       *)
Agree(n, V, W) == \A a \in Operands(n) : V[a] = W[a]

(* ... so do the arguments,                                                *)
LEMMA ArgsSame ==
  ASSUME NEW n \in Nodes, NEW V, NEW W, Agree(n, V, W)
  PROVE  ArgsOf(n, V) = ArgsOf(n, W)
<1>1. n.args \in Seq(Nat)
  BY DEF Nodes
<1>2. \A k \in DOMAIN n.args : n.args[k] = 0 \/ n.args[k] \in Operands(n)
  BY <1>1 DEF Operands, ToSet
<1>3. \A k \in DOMAIN n.args : Worth(V, n.args[k], n.c) = Worth(W, n.args[k], n.c)
  BY <1>2 DEF Worth, Agree
<1> QED
  BY <1>3 DEF ArgsOf

(* ... and whether a value is the one computed.                            *)
LEMMA ComputedSame ==
  ASSUME NEW n \in Nodes, NEW i, NEW V, NEW W, V[i] = W[i], Agree(n, V, W),
         Computed(n, i, V)
  PROVE  Computed(n, i, W)
<1>1. ArgsOf(n, V) = ArgsOf(n, W)
  BY ArgsSame
<1> QED
  BY <1>1 DEF Computed

(* A state of the execution of a graph without operators in place.         *)
Given(g, val) ==
  \A i \in DOMAIN g.nodes : /\ g.nodes[i].op = "in" => val[i] = InputValue(i, g.nodes[i])
                            /\ g.nodes[i].op = "output" => val[i] = Throws

(* No tensor is shared by two nodes.                                       *)
Env(g, e) ==
  /\ e = [at |-> e.at, val |-> e.val, result |-> e.result]
  /\ e.at = [i \in DOMAIN g.nodes |-> i]
  /\ e.val = [i \in DOMAIN g.nodes |-> e.val[i]]
  /\ Given(g, e.val)

(* One step of it.                                                         *)
Executed(g, e, i, f) ==
  LET n == g.nodes[i]
      v == Compute(n, ArgsOf(n, e.val))
  IN  /\ Env(g, f)
      /\ e.result = Refusal => f.result = Refusal
      /\ e.result # Refusal =>
           /\ n.op = "in" => f = e
           /\ n.op = "output" => f.val = e.val /\ f.result = ArgsOf(n, e.val)
           /\ n.op \notin {"in", "output"} =>
                IF v = Throws THEN f.result = Refusal
                ELSE f.val = [e.val EXCEPT ![i] = v] /\ f.result = e.result

(* Execute does this, without relu_.                                       *)
LEMMA ExecuteStep ==
  ASSUME NEW g, Sound(g), NEW i \in Ids(g), g.nodes[i].op # "relu_", NEW e, Env(g, e),
         NEW f, f = Execute(g, e, i)
  PROVE  Executed(g, e, i, f)
<1> DEFINE n  == g.nodes[i]
           vs == [k \in DOMAIN n.args |-> ValueOf(e, n.args[k], n.c)]
           v  == Compute(n, vs)
<1>1. n \in Nodes /\ i \in DOMAIN g.nodes /\ n.args \in Seq(Nat)
  BY IdsOfGraph DEF Sound
<1>2. Operands(n) \subseteq DOMAIN g.nodes
  <2>1. \A j \in Operands(n) : Before(g.order, j, i)
    BY DEF Sound
  <2>2. Operands(n) \subseteq Ids(g)
    BY <2>1, BeforeByPosition DEF Sound, Graph
  <2> QED
    BY <2>2, IdsOfGraph DEF Sound
<1>3. \A k \in DOMAIN n.args : n.args[k] = 0 \/ n.args[k] \in DOMAIN g.nodes
  BY <1>1, <1>2 DEF Operands, ToSet
<1>4. vs = ArgsOf(n, e.val)
  <2>1. \A k \in DOMAIN n.args : ValueOf(e, n.args[k], n.c) = Worth(e.val, n.args[k], n.c)
    BY <1>3 DEF ValueOf, Worth, Env
  <2> QED
    BY <2>1 DEF ArgsOf
<1>5. f = IF e.result = Refusal \/ n.op = "in" THEN e
          ELSE IF n.op = "output" THEN [e EXCEPT !.result = vs]
          ELSE IF v = Throws THEN [e EXCEPT !.result = Refusal]
          ELSE [e EXCEPT !.at[i] = i, !.val[i] = v]
  BY DEF Execute
<1>6. e = [at |-> e.at, val |-> e.val, result |-> e.result]
  BY DEF Env
<1>9. g.nodes[i] = n /\ v = Compute(n, vs)
  OBVIOUS
<1> HIDE DEF n, vs, v
<1>7. CASE e.result = Refusal
  <2>1. f = e
    BY <1>5, <1>7
  <2> QED
    BY <1>7, <2>1 DEF Executed
<1>8. CASE e.result # Refusal
  <2>1. CASE n.op = "in"
    <3>1. f = e
      BY <1>5, <2>1
    <3> QED
      BY <1>8, <1>9, <2>1, <3>1 DEF Executed
  <2>2. CASE n.op = "output"
    <3>1. f = [e EXCEPT !.result = vs]
      BY <1>5, <1>8, <2>2
    <3>2. f = [at |-> e.at, val |-> e.val, result |-> vs]
      BY <1>6, <3>1
    <3>3. f.at = e.at /\ f.val = e.val /\ f.result = vs
          /\ f = [at |-> f.at, val |-> f.val, result |-> f.result]
      BY <3>2
    <3>4. Env(g, f)
      BY <3>3 DEF Env
    <3> QED
      BY <1>4, <1>8, <1>9, <2>2, <3>3, <3>4 DEF Executed
  <2>3. CASE n.op \notin {"in", "output"} /\ v = Throws
    <3>1. f = [e EXCEPT !.result = Refusal]
      BY <1>5, <1>8, <2>3
    <3>2. f = [at |-> e.at, val |-> e.val, result |-> Refusal]
      BY <1>6, <3>1
    <3>3. f.at = e.at /\ f.val = e.val /\ f.result = Refusal
          /\ f = [at |-> f.at, val |-> f.val, result |-> f.result]
      BY <3>2
    <3>4. Env(g, f)
      BY <3>3 DEF Env
    <3> QED
      BY <1>4, <1>8, <1>9, <2>3, <3>3, <3>4 DEF Executed
  <2>4. CASE n.op \notin {"in", "output"} /\ v # Throws
    <3>1. f = [e EXCEPT !.at[i] = i, !.val[i] = v]
      BY <1>5, <1>8, <2>4
    <3>2. f = [at |-> [e.at EXCEPT ![i] = i], val |-> [e.val EXCEPT ![i] = v], result |-> e.result]
      BY <1>6, <3>1
    <3>3. [e.at EXCEPT ![i] = i] = e.at
      BY <1>1 DEF Env
    <3>4. /\ f.at = e.at /\ f.val = [e.val EXCEPT ![i] = v] /\ f.result = e.result
          /\ f = [at |-> f.at, val |-> f.val, result |-> f.result]
      BY <3>2, <3>3
    <3>5. Env(g, f)
      <4>1. e.val = [j \in DOMAIN g.nodes |-> e.val[j]]
        BY DEF Env
      <4>2. /\ f.val = [j \in DOMAIN g.nodes |-> f.val[j]]
            /\ \A j \in DOMAIN g.nodes : j # i => f.val[j] = e.val[j]
        BY <1>1, <3>4, <4>1
      <4>3. \A j \in DOMAIN g.nodes : g.nodes[j].op \in {"in", "output"} => j # i
        BY <1>9, <2>4
      <4>4. e.at = [j \in DOMAIN g.nodes |-> j] /\ Given(g, e.val)
        BY DEF Env
      <4>5. Given(g, f.val)
        BY <4>2, <4>3, <4>4 DEF Given
      <4> QED
        BY <3>4, <4>2, <4>4, <4>5 DEF Env
    <3>6. v = Compute(n, ArgsOf(n, e.val))
      BY <1>4, <1>9
    <3> QED
      BY <1>8, <1>9, <2>4, <3>4, <3>5, <3>6 DEF Executed
  <2> QED
    BY <2>1, <2>2, <2>3, <2>4
<1> QED
  BY <1>7, <1>8

(* No operator in place; at most one output.                               *)
Pure(g)       == \A i \in Ids(g) : g.nodes[i].op # "relu_"
SoleOutput(g) == \A i, j \in Ids(g) : g.nodes[i].op = "output" /\ g.nodes[j].op = "output" => i = j

(* The values of inputs and outputs are there from the beginning.          *)
LEMMA GivenComputed ==
  ASSUME NEW g, NEW val, Given(g, val), NEW i \in DOMAIN g.nodes, NEW n, n = g.nodes[i],
         n.op \in {"in", "output"}
  PROVE  Computed(n, i, val)
<1>1. /\ n.op = "in" => val[i] = InputValue(i, n)
      /\ n.op = "output" => val[i] = Throws
  BY DEF Given
<1> QED
  BY <1>1 DEF Computed

(* The state execution begins in.                                          *)
LEMMA StartedEnv ==
  ASSUME NEW g
  PROVE  Env(g, Started(g)) /\ Started(g).result = <<>>
<1> DEFINE e == Started(g)
           V(i) == IF g.nodes[i].op = "in" THEN InputValue(i, g.nodes[i]) ELSE Throws
<1>1. e = [at |-> [i \in DOMAIN g.nodes |-> i], val |-> [i \in DOMAIN g.nodes |-> V(i)], result |-> <<>>]
  BY DEF Started
<1>2. e.at = [i \in DOMAIN g.nodes |-> i] /\ e.val = [i \in DOMAIN g.nodes |-> V(i)] /\ e.result = <<>>
      /\ e = [at |-> e.at, val |-> e.val, result |-> e.result]
  BY <1>1
<1> HIDE DEF e
<1>3. \A i \in DOMAIN g.nodes : e.val[i] = V(i)
  BY <1>2
<1>4. e.val = [i \in DOMAIN g.nodes |-> e.val[i]]
  BY <1>2
<1>5. Given(g, e.val)
  BY <1>3 DEF Given
<1> QED
  BY <1>2, <1>4, <1>5 DEF Env, e

(* The result <<>> is no refusal, nor are values none of which is one.     *)
LEMMA NoRefusal ==
  /\ <<>> # Refusal
  /\ \A r : r = Refusal => 1 \in DOMAIN r /\ r[1] = Throws
BY DEF Refusal

(* The k-th node to be executed, and those it uses.                        *)
AfterNodes(g, k, i) ==
  /\ i \in Ids(g) /\ i \in DOMAIN g.nodes /\ g.nodes[i] \in Nodes
  /\ \A p \in 1..k : g.order[p] \in Ids(g) /\ g.order[p] # i
  /\ \A a \in Operands(g.nodes[i]) : \E p \in 1..k : g.order[p] = a
  /\ \A p \in 1..k : i \notin Operands(g.nodes[g.order[p]])

(* In a sound graph, a node comes after its operands, and once.            *)
LEMMA NextExecuted ==
  ASSUME NEW g, Sound(g), NEW k \in Nat, k + 1 <= Len(g.order), NEW i, i = g.order[k + 1]
  PROVE  AfterNodes(g, k, i)
<1>1. /\ g.order \in Seq(DOMAIN g.nodes) /\ Distinct(g.order)
      /\ DOMAIN g.order = 1..Len(g.order) /\ Len(g.order) \in Nat
  BY DEF Sound, Graph
<1>2. k + 1 \in DOMAIN g.order /\ \A p \in 1..k : p \in DOMAIN g.order /\ p # k + 1
  BY <1>1
<1>3. \A p \in DOMAIN g.order : g.order[p] \in Ids(g)
  BY DEF Ids, ToSet
<1>4. i \in Ids(g) /\ \A p \in 1..k : g.order[p] \in Ids(g) /\ g.order[p] # i
  BY <1>1, <1>2, <1>3 DEF Distinct
<1>5. i \in DOMAIN g.nodes /\ g.nodes[i] \in Nodes
  BY <1>4, IdsOfGraph DEF Sound
<1>6. ASSUME NEW a \in Operands(g.nodes[i]) PROVE \E p \in 1..k : g.order[p] = a
  <2>1. PICK p \in DOMAIN g.order, q \in DOMAIN g.order : p < q /\ g.order[p] = a /\ g.order[q] = i
    BY <1>4 DEF Sound, Before
  <2>2. q = k + 1
    BY <1>1, <1>2, <2>1 DEF Distinct
  <2> QED
    BY <1>1, <2>1, <2>2
<1>7. ASSUME NEW p \in 1..k, i \in Operands(g.nodes[g.order[p]]) PROVE FALSE
  <2>1. PICK q \in DOMAIN g.order, r \in DOMAIN g.order :
          q < r /\ g.order[q] = i /\ g.order[r] = g.order[p]
    BY <1>4, <1>7 DEF Sound, Before
  <2>2. q = k + 1 /\ r = p
    BY <1>1, <1>2, <2>1 DEF Distinct
  <2> QED
    BY <1>1, <2>1, <2>2
<1> QED
  BY <1>4, <1>5, <1>6, <1>7 DEF AfterNodes

(* Once computed, a node is as it was when another is.                     *)
Kept(g, x, W, r) ==
  /\ Computed(g.nodes[x], x, W)
  /\ g.nodes[x].op = "output" => r = ArgsOf(g.nodes[x], W)

(* An execution that has not thrown has computed the nodes so far.         *)
Ran(g, k, e) ==
  /\ Env(g, e)
  /\ e.result # Refusal => \A p \in 1..k : Kept(g, g.order[p], e.val, e.result)

(* What a node computed is kept by the next step,                          *)
LEMMA KeptOn ==
  ASSUME NEW g, NEW x, g.nodes[x] \in Nodes, NEW V, NEW W, NEW r, Kept(g, x, V, r),
         V[x] = W[x], Agree(g.nodes[x], V, W)
  PROVE  Kept(g, x, W, r)
<1>1. PICK n : n = g.nodes[x]
  OBVIOUS
<1>2. n \in Nodes /\ Computed(n, x, V) /\ V[x] = W[x] /\ Agree(n, V, W)
  BY <1>1 DEF Kept
<1>3. Computed(n, x, W)
  BY <1>2, ComputedSame
<1>4. ArgsOf(n, V) = ArgsOf(n, W)
  BY <1>2, ArgsSame
<1>5. n.op = "output" => r = ArgsOf(n, V)
  BY <1>1 DEF Kept
<1> QED
  BY <1>1, <1>3, <1>4, <1>5 DEF Kept

(* ... and the next node's value is added.                                 *)
LEMMA RanOn ==
  ASSUME NEW g, Sound(g), Pure(g), SoleOutput(g), NEW k \in Nat, k + 1 <= Len(g.order),
         NEW e, Ran(g, k, e), NEW f, f = Execute(g, e, g.order[k + 1])
  PROVE  Ran(g, k + 1, f)
<1>0. PICK i : i = g.order[k + 1]
  OBVIOUS
<1>1. /\ i \in Ids(g) /\ i \in DOMAIN g.nodes /\ g.nodes[i] \in Nodes
      /\ \A p \in 1..k : g.order[p] \in Ids(g) /\ g.order[p] # i
      /\ \A a \in Operands(g.nodes[i]) : \E p \in 1..k : g.order[p] = a
      /\ \A p \in 1..k : i \notin Operands(g.nodes[g.order[p]])
  <2>1. AfterNodes(g, k, i)
    BY <1>0, NextExecuted
  <2> QED
    BY <2>1 DEF AfterNodes
<1>2. Env(g, e) /\ g.nodes[i].op # "relu_"
  BY <1>1 DEF Ran, Pure
<1>4. Executed(g, e, i, f)
  BY <1>0, <1>1, <1>2, ExecuteStep
<1>5. Env(g, f)
  BY <1>4 DEF Executed
<1>13. PICK n, V, W : n = g.nodes[i] /\ V = e.val /\ W = f.val
  OBVIOUS
<1>14. /\ e.result = Refusal => f.result = Refusal
       /\ e.result # Refusal =>
            /\ n.op = "in" => f = e
            /\ n.op = "output" => W = V /\ f.result = ArgsOf(n, V)
            /\ n.op \notin {"in", "output"} =>
                 IF Compute(n, ArgsOf(n, V)) = Throws THEN f.result = Refusal
                 ELSE W = [V EXCEPT ![i] = Compute(n, ArgsOf(n, V))] /\ f.result = e.result
  BY <1>4, <1>13 DEF Executed
<1> SUFFICES ASSUME f.result # Refusal, NEW p \in 1..(k + 1)
             PROVE  Kept(g, g.order[p], W, f.result)
  BY <1>5, <1>13 DEF Ran, Kept
<1>6. e.result # Refusal
  BY <1>14
<1>7. i \notin Operands(n)
  BY <1>1, <1>13
<1>8. p \in 1..k \/ (p = k + 1 /\ g.order[p] = i)
  BY <1>0
<1>9. ASSUME NEW q \in 1..k
      PROVE  /\ Kept(g, g.order[q], V, e.result) /\ g.nodes[g.order[q]] \in Nodes
             /\ g.order[q] \in Ids(g) /\ g.order[q] # i /\ i \notin Operands(g.nodes[g.order[q]])
  <2>1. g.nodes[g.order[q]] \in Nodes
    BY <1>1, IdsOfGraph DEF Sound
  <2>2. Kept(g, g.order[q], V, e.result)
    BY <1>6, <1>13 DEF Ran, Kept
  <2> QED
    BY <1>1, <2>1, <2>2
<1>15. Given(g, V)
  BY <1>2, <1>13 DEF Env
<1>10. CASE n.op = "in"
  <2>1. f = e /\ W = V
    BY <1>6, <1>10, <1>13, <1>14
  <2>2. Computed(n, i, V)
    BY <1>1, <1>10, <1>13, <1>15, GivenComputed
  <2>3. Kept(g, i, W, f.result)
    BY <1>10, <1>13, <2>1, <2>2 DEF Kept
  <2> QED
    BY <1>8, <1>9, <2>1, <2>3
<1>11. CASE n.op = "output"
  <2>1. W = V /\ f.result = ArgsOf(n, V)
    BY <1>6, <1>11, <1>14
  <2>2. Computed(n, i, V)
    BY <1>1, <1>11, <1>13, <1>15, GivenComputed
  <2>3. \A q \in 1..k : g.nodes[g.order[q]].op # "output"
    BY <1>1, <1>11, <1>13 DEF SoleOutput
  <2>4. Kept(g, i, W, f.result)
    BY <1>13, <2>1, <2>2 DEF Kept
  <2>5. CASE p \in 1..k
    <3>1. Kept(g, g.order[p], V, e.result) /\ g.nodes[g.order[p]].op # "output"
      BY <1>9, <2>3, <2>5
    <3> QED
      BY <2>1, <3>1 DEF Kept
  <2> QED
    BY <1>8, <2>4, <2>5
<1>12. CASE n.op \notin {"in", "output"}
  <2>0. PICK v : v = Compute(n, ArgsOf(n, V))
    OBVIOUS
  <2>1. v # Throws /\ W = [V EXCEPT ![i] = v] /\ f.result = e.result
    BY <1>6, <1>12, <1>14, <2>0
  <2>2. W[i] = v /\ \A a : a # i /\ a \in DOMAIN g.nodes => W[a] = V[a]
    <3>1. V = [j \in DOMAIN g.nodes |-> V[j]]
      BY <1>2, <1>13 DEF Env
    <3> QED
      BY <1>1, <2>1, <3>1
  <2>6. \A x \in Ids(g) : x \in DOMAIN g.nodes /\ Operands(g.nodes[x]) \subseteq DOMAIN g.nodes
    <3>1. \A x \in Ids(g) : \A a \in Operands(g.nodes[x]) : a \in Ids(g)
      BY BeforeByPosition DEF Sound, Graph
    <3> QED
      BY <3>1, IdsOfGraph DEF Sound
  <2>3. Kept(g, i, W, f.result)
    <3>1. Agree(n, W, V) /\ n \in Nodes
      BY <1>1, <1>7, <1>13, <2>2, <2>6 DEF Agree
    <3>2. ArgsOf(n, W) = ArgsOf(n, V)
      BY <3>1, ArgsSame
    <3>3. Computed(n, i, W)
      BY <1>12, <2>0, <2>1, <2>2, <3>2 DEF Computed
    <3> QED
      BY <1>12, <1>13, <3>3 DEF Kept
  <2>4. ASSUME NEW q \in 1..k
        PROVE  Kept(g, g.order[q], W, f.result)
    <3>0. PICK x : x = g.order[q]
      OBVIOUS
    <3>1. /\ Kept(g, x, V, e.result) /\ x \in Ids(g) /\ x # i
          /\ i \notin Operands(g.nodes[x]) /\ g.nodes[x] \in Nodes
      BY <1>9, <3>0
    <3>2. x \in DOMAIN g.nodes /\ Operands(g.nodes[x]) \subseteq DOMAIN g.nodes
      BY <2>6, <3>1
    <3>3. V[x] = W[x] /\ Agree(g.nodes[x], V, W)
      BY <2>2, <3>1, <3>2 DEF Agree
    <3>4. Kept(g, x, W, e.result)
      BY <3>1, <3>3, KeptOn
    <3> QED
      BY <2>1, <3>0, <3>4
  <2> QED
    BY <1>8, <2>3, <2>4
<1> QED
  BY <1>10, <1>11, <1>12

(* What a graph returns is what the values say, if it does not throw.      *)
Meant(g, W) ==
  /\ Values(g, W)
  /\ \A o \in Ids(g) : g.nodes[o].op = "output" => Meaning(g) = ArgsOf(g.nodes[o], W)

(* A graph that returns has values: the contents of the tensors at the     *)
(* end.                                                                    *)
LEMMA MeantWhenReturned ==
  ASSUME NEW g, Sound(g), Pure(g), SoleOutput(g), Meaning(g) # Refusal
  PROVE  Meant(g, Evaluated(g).val) /\ Env(g, Evaluated(g))
<1>1. Len(g.order) \in Nat /\ DOMAIN g.order = 1..Len(g.order)
  BY DEF Sound, Graph
<1>2. PICK f : EvaluatedSteps(f, g)
  BY <1>1, EvaluatedRun
<1>3. /\ f[0] = Started(g)
      /\ \A k \in 1..Len(g.order) : f[k] = Execute(g, f[k - 1], g.order[k])
      /\ Meaning(g) = f[Len(g.order)].result /\ Evaluated(g) = f[Len(g.order)]
  BY <1>2 DEF EvaluatedSteps, Meaning
<1> DEFINE S == {k \in Nat : k <= Len(g.order) => Ran(g, k, f[k])}
<1>4. 0 \in S
  <2>1. Env(g, f[0])
    BY <1>3, StartedEnv
  <2> QED
    BY <2>1 DEF Ran
<1>5. ASSUME NEW k \in Nat, k \in S PROVE k + 1 \in S
  <2> SUFFICES ASSUME k + 1 <= Len(g.order) PROVE Ran(g, k + 1, f[k + 1])
    OBVIOUS
  <2>1. PICK e, h : e = f[k] /\ h = f[k + 1]
    OBVIOUS
  <2>2. k + 1 \in 1..Len(g.order) /\ (k + 1) - 1 = k
    BY <1>1
  <2>3. Ran(g, k, e) /\ h = Execute(g, e, g.order[k + 1])
    BY <1>1, <1>3, <1>5, <2>1, <2>2
  <2>4. Ran(g, k + 1, h)
    BY <2>3, RanOn
  <2> QED
    BY <2>1, <2>4
<1>6. \A k \in Nat : k \in S
  <2> HIDE DEF S
  <2> QED
    BY <1>4, <1>5, SetInduction
<1>7. PICK e : e = f[Len(g.order)]
  OBVIOUS
<1>8. Ran(g, Len(g.order), e) /\ e.result = Meaning(g) /\ e = Evaluated(g)
  BY <1>1, <1>3, <1>6, <1>7
<1>9. \A p \in 1..Len(g.order) : Kept(g, g.order[p], e.val, e.result)
  BY <1>8 DEF Ran
<1>10. \A i \in Ids(g) : Kept(g, i, e.val, e.result)
  BY <1>1, <1>9 DEF Ids, ToSet
<1>11. Values(g, e.val)
  BY <1>10 DEF Values, Kept
<1>12. Meant(g, e.val)
  BY <1>8, <1>10, <1>11 DEF Meant, Kept
<1> QED
  BY <1>8, <1>12 DEF Ran

(* The other way round: values there are, are those that are computed.     *)
Tracked(g, W, k, e) ==
  /\ Env(g, e) /\ e.result # Refusal
  /\ \A p \in 1..k :
       /\ e.val[g.order[p]] = W[g.order[p]]
       /\ g.nodes[g.order[p]].op = "output" => e.result = ArgsOf(g.nodes[g.order[p]], W)

(* Results are no refusal.                                                 *)
Returned(g, W, o) == ArgsOf(g.nodes[o], W) # Refusal

(* What the output returns is not taken for an exception.                  *)
LEMMA ResultReturned ==
  ASSUME NEW g, WellFormed(g), SoleOutput(g), NEW W, Values(g, W), NEW o \in Ids(g),
         g.nodes[o].op = "output"
  PROVE  Returned(g, W, o)
<1>1. PICK n : n = g.nodes[o]
  OBVIOUS
<1>2. n \in Nodes /\ n.args \in Seq(Nat)
  BY <1>1, IdsOfGraph DEF WellFormed, Sound
<1> SUFFICES ASSUME ArgsOf(n, W) = Refusal PROVE FALSE
  BY <1>1 DEF Returned
<1>3. 1 \in DOMAIN n.args /\ Worth(W, n.args[1], n.c) = Throws
  BY NoRefusal DEF ArgsOf
<1>4. PICK a : a = n.args[1]
  OBVIOUS
<1>5. CASE a = 0
  <2>1. Scalar(n.c) = Throws
    BY <1>3, <1>4, <1>5 DEF Worth
  <2>2. Scalar(n.c).shape = "scalar" /\ Throws.shape = "none"
    BY DEF Scalar, Throws
  <2> QED
    BY <2>1, <2>2
<1>6. CASE a # 0
  <2>1. W[a] = Throws /\ a \in Operands(n)
    BY <1>2, <1>3, <1>4, <1>6 DEF Worth, Operands, ToSet
  <2>2. Before(g.order, a, o)
    BY <1>1, <2>1 DEF WellFormed, Sound
  <2>3. a \in Ids(g) /\ a # o
    BY <2>2, BeforeOrders DEF WellFormed, Sound, Graph, Ids
  <2>4. g.nodes[a].op # "output"
    BY <2>3 DEF SoleOutput
  <2>5. PICK m : m = g.nodes[a]
    OBVIOUS
  <2>6. Computed(m, a, W) /\ Shaped(m) /\ m.op # "output"
    BY <2>3, <2>4, <2>5 DEF Values, WellFormed
  <2>7. CASE m.op = "in"
    <3>1. W[a].shape = m.shape /\ m.shape \in {"mat", "row"}
      BY <2>6, <2>7 DEF Computed, InputValue, Shaped
    <3>2. Throws.shape = "none"
      BY DEF Throws
    <3> QED
      BY <2>1, <3>1, <3>2
  <2>8. CASE m.op # "in"
    BY <2>1, <2>6, <2>8 DEF Computed
  <2> QED
    BY <2>7, <2>8
<1> QED
  BY <1>5, <1>6

(* A step computes the values there are.                                   *)
LEMMA TrackedOn ==
  ASSUME NEW g, WellFormed(g), Pure(g), SoleOutput(g), NEW W, Values(g, W),
         NEW k \in Nat, k + 1 <= Len(g.order),
         NEW e, Tracked(g, W, k, e), NEW f, f = Execute(g, e, g.order[k + 1])
  PROVE  Tracked(g, W, k + 1, f)
<1>1. PICK i, n : i = g.order[k + 1] /\ n = g.nodes[i]
  OBVIOUS
<1>2. Sound(g)
  BY DEF WellFormed
<1>3. /\ i \in Ids(g) /\ i \in DOMAIN g.nodes /\ n \in Nodes
      /\ \A p \in 1..k : g.order[p] \in Ids(g) /\ g.order[p] # i
      /\ \A a \in Operands(n) : \E p \in 1..k : g.order[p] = a
  <2>1. AfterNodes(g, k, i)
    BY <1>1, <1>2, NextExecuted
  <2> QED
    BY <1>1, <2>1 DEF AfterNodes
<1>4. Env(g, e) /\ e.result # Refusal /\ n.op # "relu_"
  BY <1>1, <1>3 DEF Tracked, Pure
<1>5. Executed(g, e, i, f)
  BY <1>1, <1>2, <1>3, <1>4, ExecuteStep
<1>6. PICK V, U : V = e.val /\ U = f.val
  OBVIOUS
<1>7. Agree(n, V, W) /\ \A p \in 1..k : V[g.order[p]] = W[g.order[p]]
  BY <1>3, <1>6 DEF Agree, Tracked
<1>8. PICK args : args = ArgsOf(n, W) /\ args = ArgsOf(n, V)
  <2>1. ArgsOf(n, V) = ArgsOf(n, W)
    BY <1>3, <1>7, ArgsSame
  <2> QED
    BY <2>1
<1>9. /\ Env(g, f)
      /\ n.op = "in" => f = e
      /\ n.op = "output" => U = V /\ f.result = args
      /\ n.op \notin {"in", "output"} =>
           IF Compute(n, args) = Throws THEN f.result = Refusal
           ELSE U = [V EXCEPT ![i] = Compute(n, args)] /\ f.result = e.result
  BY <1>1, <1>4, <1>5, <1>6, <1>8 DEF Executed
<1>10. Computed(n, i, W)
  BY <1>1, <1>3 DEF Values
<1>11. V = [j \in DOMAIN g.nodes |-> V[j]] /\ Given(g, V)
  BY <1>4, <1>6 DEF Env
<1>12. \A p \in 1..k : g.nodes[g.order[p]].op = "output" => e.result = ArgsOf(g.nodes[g.order[p]], W)
  BY DEF Tracked
<1>13. \A p \in 1..(k + 1) : p \in 1..k \/ (p = k + 1 /\ g.order[p] = i)
  BY <1>1
<1>14. CASE n.op = "in"
  <2>1. V[i] = InputValue(i, n) /\ W[i] = InputValue(i, n)
    BY <1>1, <1>3, <1>10, <1>11, <1>14 DEF Given, Computed
  <2> QED
    BY <1>1, <1>4, <1>6, <1>7, <1>9, <1>12, <1>13, <1>14, <2>1 DEF Tracked
<1>15. CASE n.op = "output"
  <2>1. V[i] = Throws /\ W[i] = Throws
    BY <1>1, <1>3, <1>10, <1>11, <1>15 DEF Given, Computed
  <2>2. \A p \in 1..k : g.nodes[g.order[p]].op # "output"
    BY <1>1, <1>3, <1>15 DEF SoleOutput
  <2>3. args # Refusal
    <3>1. Returned(g, W, i)
      BY <1>1, <1>3, <1>15, ResultReturned
    <3> QED
      BY <1>1, <1>8, <3>1 DEF Returned
  <2>4. U = V /\ f.result = args /\ Env(g, f)
    BY <1>9, <1>15
  <2>5. \A p \in 1..(k + 1) : U[g.order[p]] = W[g.order[p]]
    BY <1>7, <1>13, <2>1, <2>4
  <2>6. \A p \in 1..(k + 1) : g.nodes[g.order[p]].op = "output" =>
                                f.result = ArgsOf(g.nodes[g.order[p]], W)
    BY <1>1, <1>8, <1>13, <2>2, <2>4
  <2> QED
    BY <1>6, <2>3, <2>4, <2>5, <2>6 DEF Tracked
<1>16. CASE n.op \notin {"in", "output"}
  <2>1. PICK v : v = Compute(n, args)
    OBVIOUS
  <2>2. W[i] = v /\ v # Throws
    BY <1>8, <1>10, <1>16, <2>1 DEF Computed
  <2>3. U = [V EXCEPT ![i] = v] /\ f.result = e.result /\ Env(g, f)
    BY <1>9, <1>16, <2>1, <2>2
  <2>4. U[i] = W[i] /\ \A p \in 1..k : U[g.order[p]] = V[g.order[p]]
    <3>1. \A p \in 1..k : g.order[p] \in DOMAIN g.nodes /\ g.order[p] # i
      BY <1>2, <1>3, IdsOfGraph DEF Sound
    <3> QED
      BY <1>3, <1>11, <2>2, <2>3, <3>1
  <2>5. \A p \in 1..(k + 1) : U[g.order[p]] = W[g.order[p]]
    BY <1>7, <1>13, <2>4
  <2>6. \A p \in 1..(k + 1) : g.nodes[g.order[p]].op = "output" =>
                                f.result = ArgsOf(g.nodes[g.order[p]], W)
    BY <1>1, <1>12, <1>13, <1>16, <2>3
  <2> QED
    BY <1>4, <1>6, <2>3, <2>5, <2>6 DEF Tracked
<1> QED
  BY <1>14, <1>15, <1>16

(* A graph that has values returns, and what they say: values are unique   *)
(* at the output.                                                          *)
LEMMA MeantByValues ==
  ASSUME NEW g, WellFormed(g), Pure(g), SoleOutput(g), NEW W, Values(g, W)
  PROVE  Meant(g, W) /\ Meaning(g) # Refusal
<1>1. Len(g.order) \in Nat /\ DOMAIN g.order = 1..Len(g.order)
  BY DEF WellFormed, Sound, Graph
<1>2. PICK f : EvaluatedSteps(f, g)
  BY <1>1, EvaluatedRun
<1>3. /\ f[0] = Started(g)
      /\ \A k \in 1..Len(g.order) : f[k] = Execute(g, f[k - 1], g.order[k])
      /\ Meaning(g) = f[Len(g.order)].result
  BY <1>2 DEF EvaluatedSteps, Meaning
<1> DEFINE S == {k \in Nat : k <= Len(g.order) => Tracked(g, W, k, f[k])}
<1>4. 0 \in S
  <2>1. Env(g, f[0]) /\ f[0].result # Refusal
    BY <1>3, StartedEnv, NoRefusal
  <2> QED
    BY <2>1 DEF Tracked
<1>5. ASSUME NEW k \in Nat, k \in S PROVE k + 1 \in S
  <2> SUFFICES ASSUME k + 1 <= Len(g.order) PROVE Tracked(g, W, k + 1, f[k + 1])
    OBVIOUS
  <2>1. PICK e, h : e = f[k] /\ h = f[k + 1]
    OBVIOUS
  <2>2. k + 1 \in 1..Len(g.order) /\ (k + 1) - 1 = k
    BY <1>1
  <2>3. Tracked(g, W, k, e) /\ h = Execute(g, e, g.order[k + 1])
    BY <1>1, <1>3, <1>5, <2>1, <2>2
  <2>4. Tracked(g, W, k + 1, h)
    BY <2>3, TrackedOn
  <2> QED
    BY <2>1, <2>4
<1>6. \A k \in Nat : k \in S
  <2> HIDE DEF S
  <2> QED
    BY <1>4, <1>5, SetInduction
<1>7. PICK e : e = f[Len(g.order)]
  OBVIOUS
<1>8. Tracked(g, W, Len(g.order), e) /\ e.result = Meaning(g)
  BY <1>1, <1>3, <1>6, <1>7
<1>9. \A o \in Ids(g) : g.nodes[o].op = "output" => Meaning(g) = ArgsOf(g.nodes[o], W)
  BY <1>1, <1>8 DEF Tracked, Ids, ToSet
<1> QED
  BY <1>8, <1>9 DEF Meant, Tracked

-----------------------------------------------------------------------------
(* What a rewrite does to the values.                                      *)

(* A node computes the same from other operands of the same value.         *)
SameFunction(n, m) ==
  /\ m.op = n.op /\ m.shape = n.shape
  /\ \A vs : Compute(m, vs) = Compute(n, vs)

(* replace_all_uses_with changes no operator.                              *)
LEMMA RenamedComputes ==
  ASSUME NEW n \in Nodes, Shaped(n), NEW old \in Nat \ {0}, NEW new \in Nat \ {0},
         NEW m, m = Renamed(n, old, new)
  PROVE  SameFunction(n, m)
<1>1. /\ m.op = n.op /\ m.alpha = n.alpha /\ m.c = n.c /\ m.act = n.act /\ m.shape = n.shape
      /\ m.transB = n.transB /\ m.prog = n.prog
      /\ \A k \in DOMAIN n.args : m.args[k] = IF n.args[k] = old THEN new ELSE n.args[k]
  BY RenamedNode
<1>2. n.op = "mul" => (m.args[2] = 0 <=> n.args[2] = 0)
  <2> SUFFICES ASSUME n.op = "mul" PROVE m.args[2] = 0 <=> n.args[2] = 0
    OBVIOUS
  <2>1. Len(n.args) = 2 /\ n.args \in Seq(Nat)
    BY DEF Shaped, Nodes
  <2>2. 2 \in DOMAIN n.args
    BY <2>1
  <2> QED
    BY <1>1, <2>2
<1>3. ASSUME NEW vs PROVE Compute(m, vs) = Compute(n, vs)
  BY <1>1, <1>2 DEF Compute
<1> QED
  BY <1>1, <1>3 DEF SameFunction

(* V and W agree on the operands of a node before and after it is renamed. *)
RenamedAgree(n, old, new, V, W) ==
  \A a \in Operands(n) : V[a] = IF a = old THEN W[new] ELSE W[a]

(* Its arguments are the same,                                             *)
LEMMA RenamedArgs ==
  ASSUME NEW n \in Nodes, NEW old \in Nat \ {0}, NEW new \in Nat \ {0},
         NEW m, m = Renamed(n, old, new), NEW V, NEW W, RenamedAgree(n, old, new, V, W)
  PROVE  ArgsOf(n, V) = ArgsOf(m, W)
<1>1. /\ m.c = n.c /\ DOMAIN m.args = DOMAIN n.args
      /\ \A k \in DOMAIN n.args : m.args[k] = IF n.args[k] = old THEN new ELSE n.args[k]
  BY RenamedNode
<1>2. n.args \in Seq(Nat)
  BY DEF Nodes
<1>3. \A k \in DOMAIN n.args : n.args[k] = 0 \/ n.args[k] \in Operands(n)
  BY <1>2 DEF Operands, ToSet
<1>4. ASSUME NEW k \in DOMAIN n.args
      PROVE  Worth(V, n.args[k], n.c) = Worth(W, m.args[k], m.c)
  <2>1. CASE n.args[k] = 0
    BY <1>1, <2>1 DEF Worth
  <2>2. CASE n.args[k] \in Operands(n)
    <3>1. n.args[k] # 0 /\ m.args[k] # 0
      BY <1>1, <2>2 DEF Operands
    <3> QED
      BY <1>1, <2>2, <3>1 DEF Worth, RenamedAgree
  <2> QED
    BY <1>3, <2>1, <2>2
<1> QED
  BY <1>1, <1>4 DEF ArgsOf

(* ... and so is its value.                                                *)
LEMMA RenamedComputed ==
  ASSUME NEW n \in Nodes, Shaped(n), NEW old \in Nat \ {0}, NEW new \in Nat \ {0},
         NEW m, m = Renamed(n, old, new), NEW V, NEW W, RenamedAgree(n, old, new, V, W),
         NEW j, V[j] = W[j]
  PROVE  Computed(m, j, W) <=> Computed(n, j, V)
<1>1. ArgsOf(n, V) = ArgsOf(m, W)
  BY RenamedArgs
<1>2. SameFunction(n, m)
  BY RenamedComputes
<1>3. Compute(m, ArgsOf(m, W)) = Compute(n, ArgsOf(n, V)) /\ m.op = n.op /\ m.shape = n.shape
  BY <1>1, <1>2 DEF SameFunction
<1>4. InputValue(j, m) = InputValue(j, n)
  BY <1>3 DEF InputValue
<1> QED
  BY <1>3, <1>4 DEF Computed

(* Values V of g and W of h, where h is g with n in place of the nodes gone. *)
Transfer(g, i, gone, V, W) ==
  /\ i \in gone /\ gone \subseteq Ids(g) /\ V[i] = W[Len(g.nodes) + 1]
  /\ \A j \in Ids(g) \ gone : V[j] = W[j]

(* Node j is one of both graphs, and its operands have the same values.    *)
Stays(g, i, h, V, W, j) ==
  /\ j \in Ids(h) /\ g.nodes[j] \in Nodes /\ Shaped(g.nodes[j])
  /\ i \in Nat \ {0} /\ Len(g.nodes) + 1 \in Nat \ {0}
  /\ h.nodes[j] = Renamed(g.nodes[j], i, Len(g.nodes) + 1)
  /\ RenamedAgree(g.nodes[j], i, Len(g.nodes) + 1, V, W)

(* A node that stays has the same operands' values before and after.       *)
LEMMA StaysInAgreement ==
  ASSUME NEW g, WellFormed(g), NEW n, NEW i, NEW gone, NEW h, Rewritten(g, n, i, gone, h),
         NEW V, NEW W, Transfer(g, i, gone, V, W), NEW j \in Ids(g) \ gone
  PROVE  Stays(g, i, h, V, W, j)
<1>1. PICK new : new = Len(g.nodes) + 1
  OBVIOUS
<1>2. /\ Ids(h) = (Ids(g) \cup {new}) \ gone /\ WellFormed(h)
      /\ h.nodes[j] = Renamed(g.nodes[j], i, new)
  BY <1>1 DEF Rewritten
<1>3. /\ g.nodes[j] \in Nodes /\ Shaped(g.nodes[j]) /\ DOMAIN g.nodes = 1..Len(g.nodes)
      /\ Len(g.nodes) \in Nat /\ Ids(g) \subseteq DOMAIN g.nodes
  BY IdsOfGraph DEF WellFormed, Sound
<1>4. i \in Nat \ {0} /\ new \in Nat \ {0} /\ new \notin Ids(g)
  BY <1>1, <1>3 DEF Transfer
<1>5. j \in Ids(h)
  BY <1>2
<1>6. ASSUME NEW a \in Operands(g.nodes[j]), a # i PROVE V[a] = W[a]
  <2>1. Operands(h.nodes[j]) = (Operands(g.nodes[j]) \ {i})
                                  \cup (IF i \in Operands(g.nodes[j]) THEN {new} ELSE {})
    BY <1>2, <1>3, <1>4, RenamedNode
  <2>2. a \in Operands(h.nodes[j])
    BY <1>6, <2>1
  <2>3. Before(h.order, a, j)
    BY <1>2, <1>5, <2>2 DEF WellFormed, Sound
  <2>4. a \in Ids(h)
    BY <1>2, <2>3, BeforeOrders DEF WellFormed, Sound, Graph, Ids
  <2>5. a \in Ids(g)
    <3>1. Before(g.order, a, j)
      BY <1>6 DEF WellFormed, Sound
    <3> QED
      BY <3>1, BeforeOrders DEF WellFormed, Sound, Graph, Ids
  <2> QED
    BY <1>2, <1>4, <2>4, <2>5 DEF Transfer
<1>7. RenamedAgree(g.nodes[j], i, new, V, W)
  BY <1>1, <1>6 DEF RenamedAgree, Transfer
<1> QED
  BY <1>1, <1>2, <1>3, <1>4, <1>5, <1>7 DEF Stays

(* It has the value it had.                                                *)
LEMMA StaysComputed ==
  ASSUME NEW g, NEW i, NEW h, NEW V, NEW W, NEW j, Stays(g, i, h, V, W, j), V[j] = W[j]
  PROVE  /\ Computed(h.nodes[j], j, W) <=> Computed(g.nodes[j], j, V)
         /\ ArgsOf(g.nodes[j], V) = ArgsOf(h.nodes[j], W)
         /\ h.nodes[j].op = g.nodes[j].op
<1>1. PICK n, m, new : n = g.nodes[j] /\ m = h.nodes[j] /\ new = Len(g.nodes) + 1
  OBVIOUS
<1>2. /\ n \in Nodes /\ Shaped(n) /\ i \in Nat \ {0} /\ new \in Nat \ {0}
      /\ m = Renamed(n, i, new) /\ RenamedAgree(n, i, new, V, W)
  BY <1>1 DEF Stays
<1>3. Computed(m, j, W) <=> Computed(n, j, V)
  BY <1>2, RenamedComputed
<1>4. ArgsOf(n, V) = ArgsOf(m, W)
  BY <1>2, RenamedArgs
<1>5. m.op = n.op
  BY <1>2, RenamedNode
<1> QED
  BY <1>1, <1>3, <1>4, <1>5

(* Values of the graph after the rewrite are values of the one before, if  *)
(* the nodes gone have values, with the same results.                      *)
SameResults(g, V, h, W) ==
  /\ Values(g, V)
  /\ \A o \in Ids(g) : g.nodes[o].op = "output" =>
       /\ o \in Ids(h) /\ h.nodes[o].op = "output"
       /\ ArgsOf(g.nodes[o], V) = ArgsOf(h.nodes[o], W)

(* V has the results of W.                                                 *)
LEMMA ValuesBack ==
  ASSUME NEW g, WellFormed(g), NEW n, NEW i, NEW gone, NEW h, Rewritten(g, n, i, gone, h),
         NEW V, NEW W, Transfer(g, i, gone, V, W), Values(h, W),
         \A j \in gone : Computed(g.nodes[j], j, V) /\ g.nodes[j].op # "output"
  PROVE  SameResults(g, V, h, W)
<1>1. ASSUME NEW j \in Ids(g) \ gone
      PROVE  /\ Computed(g.nodes[j], j, V) /\ j \in Ids(h) /\ h.nodes[j].op = g.nodes[j].op
             /\ ArgsOf(g.nodes[j], V) = ArgsOf(h.nodes[j], W)
  <2>1. Stays(g, i, h, V, W, j)
    BY StaysInAgreement
  <2>2. V[j] = W[j] /\ j \in Ids(h)
    BY <2>1 DEF Transfer, Stays
  <2>3. /\ Computed(h.nodes[j], j, W) <=> Computed(g.nodes[j], j, V)
        /\ ArgsOf(g.nodes[j], V) = ArgsOf(h.nodes[j], W)
        /\ h.nodes[j].op = g.nodes[j].op
    BY <2>1, <2>2, StaysComputed
  <2> QED
    BY <2>2, <2>3 DEF Values
<1>2. Values(g, V)
  BY <1>1 DEF Values
<1> QED
  BY <1>1, <1>2 DEF SameResults

(* The other way round: the new node must compute what the last one gone did. *)
LEMMA ValuesForth ==
  ASSUME NEW g, WellFormed(g), NEW n, NEW i, NEW gone, NEW h, Rewritten(g, n, i, gone, h),
         NEW V, NEW W, Transfer(g, i, gone, V, W), Values(g, V),
         Computed(n, Len(g.nodes) + 1, W)
  PROVE  Values(h, W)
<1>1. ASSUME NEW j \in Ids(g) \ gone PROVE Computed(h.nodes[j], j, W)
  <2>1. Stays(g, i, h, V, W, j)
    BY StaysInAgreement
  <2>2. V[j] = W[j]
    BY DEF Transfer
  <2>3. Computed(h.nodes[j], j, W) <=> Computed(g.nodes[j], j, V)
    BY <2>1, <2>2, StaysComputed
  <2> QED
    BY <2>3 DEF Values
<1>2. Ids(h) = (Ids(g) \cup {Len(g.nodes) + 1}) \ gone /\ h.nodes[Len(g.nodes) + 1] = n
  BY DEF Rewritten
<1> QED
  BY <1>1, <1>2 DEF Values

-----------------------------------------------------------------------------
(* Values are tensors: a shape and a term.                                 *)
Tensor(v) == v = [shape |-> v.shape, term |-> v.term] /\ v.shape \in {"mat", "row"}

(* Matrices are tensors;                                                   *)
LEMMA MatrixTensor ==
  ASSUME NEW term
  PROVE  /\ Tensor(Matrix(term)) /\ Matrix(term) # Throws
         /\ Matrix(term).shape = "mat" /\ Matrix(term).term = term
BY DEF Tensor, Matrix, Throws

(* no tensor is an exception.                                              *)
LEMMA TensorNotThrows ==
  ASSUME NEW v, Tensor(v)
  PROVE  v # Throws
<1>1. Throws.shape = "none"
  BY DEF Throws
<1> QED
  BY <1>1 DEF Tensor

(* Another term for a tensor.                                              *)
LEMMA TermChanged ==
  ASSUME NEW v, Tensor(v), NEW t, NEW w, w = [v EXCEPT !.term = t]
  PROVE  /\ Tensor(w) /\ w.shape = v.shape /\ w.term = t /\ w = [shape |-> v.shape, term |-> t]
<1>1. w = [shape |-> v.shape, term |-> t]
  <2>1. PICK a, b : v = [shape |-> a, term |-> b]
    BY DEF Tensor
  <2> QED
    BY <2>1
<1> QED
  BY <1>1 DEF Tensor

(* An activation keeps the shape.                                          *)
LEMMA ActivatedTensor ==
  ASSUME NEW act, NEW v, Tensor(v), NEW w, w = Activated(act, v)
  PROVE  /\ Tensor(w) /\ w.shape = v.shape /\ w = [shape |-> v.shape, term |-> <<act, v.term>>]
<1>1. w = [v EXCEPT !.term = <<act, v.term>>]
  BY TensorNotThrows DEF Activated
<1> QED
  BY <1>1, TermChanged

(* a shape of a tensor and a term make one.                                *)
LEMMA TensorMade ==
  ASSUME NEW x, x.shape \in {"mat", "row"}, NEW t, NEW v, v = [shape |-> x.shape, term |-> t]
  PROVE  Tensor(v) /\ v.shape = x.shape
BY DEF Tensor

(* A product of matrices is a matrix, one of linear has the shape of its   *)
(* first operand; or there is an exception.                                *)
LEMMA GemmTensor ==
  ASSUME NEW x, NEW w, NEW t
  PROVE  /\ Gemm(x, w, t) # Throws => x.shape = "mat" /\ Gemm(x, w, t) = Matrix(GemmTerm(x, w, t))
         /\ Linear(x, w, t) # Throws =>
              /\ x.shape \in {"mat", "row"}
              /\ Linear(x, w, t) = [shape |-> x.shape, term |-> GemmTerm(x, w, t)]
         /\ x.shape = "mat" => Linear(x, w, t) = Gemm(x, w, t)
BY DEF Gemm, Linear, Matrix

(* A bias is a row.                                                        *)
LEMMA BiasTensor ==
  ASSUME NEW x, NEW w, NEW t, NEW b
  PROVE  /\ LinearBias(x, w, t, b) # Throws =>
              /\ Linear(x, w, t) # Throws /\ b.shape = "row"
              /\ LinearBias(x, w, t, b) = [shape |-> x.shape, term |-> Sum(b.term, One, GemmTerm(x, w, t))]
         /\ x.shape = "mat" =>
              /\ LinearBias(x, w, t, b) # Throws <=> Gemm(x, w, t) # Throws /\ b.shape = "row"
              /\ LinearBias(x, w, t, b) # Throws =>
                   LinearBias(x, w, t, b) = Matrix(Sum(b.term, One, GemmTerm(x, w, t)))
<1> DEFINE v == Sum(b.term, One, GemmTerm(x, w, t))
           r == [shape |-> x.shape, term |-> v]
<1>1. LinearBias(x, w, t, b) = IF Linear(x, w, t) # Throws /\ b.shape = "row" THEN r ELSE Throws
  BY DEF LinearBias
<1>2. x.shape = "mat" => r = Matrix(v) /\ r # Throws
  BY MatrixTensor DEF Matrix
<1> HIDE DEF r
<1>3. LinearBias(x, w, t, b) # Throws =>
        Linear(x, w, t) # Throws /\ b.shape = "row" /\ LinearBias(x, w, t, b) = r
  BY <1>1
<1>4. x.shape = "mat" =>
        /\ LinearBias(x, w, t, b) # Throws <=> Gemm(x, w, t) # Throws /\ b.shape = "row"
        /\ LinearBias(x, w, t, b) # Throws => LinearBias(x, w, t, b) = Matrix(v)
  BY <1>1, <1>2, GemmTensor
<1> QED
  BY <1>3, <1>4 DEF r

(* What linear computes, with a bias or without,                           *)
LinearOf(vs, transB) ==
  IF Len(vs) = 2 THEN Linear(vs[1], vs[2], transB) ELSE LinearBias(vs[1], vs[2], transB, vs[3])

(* ... and linear_act activates.                                           *)
Product(n, vs) == LinearOf(vs, n.transB)

(* It has the shape of the first operand.                                  *)
LEMMA LinearTensor ==
  ASSUME NEW vs, NEW t, NEW v, v = LinearOf(vs, t), v # Throws
  PROVE  Tensor(v) /\ v.shape = vs[1].shape
<1>1. CASE Len(vs) = 2
  <2>1. v = Linear(vs[1], vs[2], t)
    BY <1>1 DEF LinearOf
  <2>2. vs[1].shape \in {"mat", "row"} /\ v = [shape |-> vs[1].shape, term |-> GemmTerm(vs[1], vs[2], t)]
    BY <2>1, GemmTensor
  <2> QED
    BY <2>2, TensorMade
<1>2. CASE Len(vs) # 2
  <2>1. v = LinearBias(vs[1], vs[2], t, vs[3])
    BY <1>2 DEF LinearOf
  <2>2. v = [shape |-> vs[1].shape, term |-> Sum(vs[3].term, One, GemmTerm(vs[1], vs[2], t))]
    BY <2>1, BiasTensor
  <2>3. vs[1].shape \in {"mat", "row"}
    BY <2>1, BiasTensor, GemmTensor
  <2> QED
    BY <2>2, <2>3, TensorMade
<1> QED
  BY <1>1, <1>2

(* Every operator computes a tensor from tensors.                          *)
LEMMA TensorComputed ==
  ASSUME NEW n \in Nodes, Shaped(n), n.op \notin {"in", "output"}, NEW W,
         \A a \in Operands(n) : Tensor(W[a]),
         NEW v, v = Compute(n, ArgsOf(n, W)), v # Throws
  PROVE  Tensor(v)
<1>1. PICK vs : vs = ArgsOf(n, W)
  OBVIOUS
<1>2. v = Compute(n, vs) /\ n.args \in Seq(Nat) /\ n.op \in Operators
  BY <1>1 DEF Nodes
<1>3. CASE n.op \in {"mm", "linear"}
  <2>1. v = Gemm(vs[1], vs[2], FALSE) \/ v = LinearOf(vs, TRUE)
    BY <1>2, <1>3 DEF Compute, LinearOf, Jit!Unary
  <2>2. CASE v = Gemm(vs[1], vs[2], FALSE)
    <3>1. v = Matrix(GemmTerm(vs[1], vs[2], FALSE))
      BY <2>2, GemmTensor
    <3> QED
      BY <3>1, MatrixTensor
  <2>3. CASE v = LinearOf(vs, TRUE)
    BY <2>3, LinearTensor
  <2> QED
    BY <2>1, <2>2, <2>3
<1>4. CASE n.op = "addmm"
  <2>1. \E t : v = Matrix(t)
    BY <1>2, <1>4 DEF Compute, Jit!Unary
  <2> QED
    BY <2>1, MatrixTensor
<1>5. CASE n.op \in {"add", "mul"}
  <2>1. PICK t : v = [shape |-> Joined(vs[1], vs[2]), term |-> t]
    BY <1>2, <1>5 DEF Compute, Jit!Unary
  <2> QED
    BY <2>1 DEF Tensor, Joined
<1>6. CASE n.op = "linear_act"
  <2>1. v = Activated(n.act, Product(n, vs))
    BY <1>2, <1>6 DEF Compute, Product, LinearOf, Jit!Unary
  <2>2. Product(n, vs) # Throws
    BY <2>1 DEF Activated
  <2>3. Tensor(Product(n, vs))
    BY <2>2, LinearTensor DEF Product
  <2> QED
    BY <2>1, <2>3, ActivatedTensor
<1>7. CASE n.op \in {"pointwise", "relu_"} \cup Jit!Unary
  <2>1. 1 \in DOMAIN n.args /\ n.args[1] # 0
    BY <1>2, <1>7 DEF Shaped, Jit!Unary
  <2>2. PICK a : a = n.args[1]
    OBVIOUS
  <2>3. vs[1] = W[a] /\ a \in Operands(n)
    BY <1>1, <1>2, <2>1, <2>2 DEF ArgsOf, Worth, Operands, ToSet
  <2>4. Tensor(vs[1])
    BY <2>3
  <2>5. CASE n.op = "pointwise"
    <3>1. v = PointwiseCall(n.prog, vs)
      BY <1>2, <2>5 DEF Compute, Jit!Unary
    <3>2. v = [vs[1] EXCEPT !.term = Run(n.prog, vs)]
      BY <3>1 DEF PointwiseCall
    <3> QED
      BY <2>4, <3>2, TermChanged
  <2>6. CASE n.op # "pointwise"
    <3>1. PICK act : v = Activated(act, vs[1])
      BY <1>2, <1>7, <2>6 DEF Compute, Jit!Unary
    <3> QED
      BY <2>4, <3>1, ActivatedTensor
  <2> QED
    BY <2>5, <2>6
<1> QED
  BY <1>2, <1>3, <1>4, <1>5, <1>6, <1>7 DEF Operators, PointwiseOps

(* Nothing uses the output.                                                *)
Terminal(g) == \A o \in Ids(g) : g.nodes[o].op = "output" => Users(g, o) = {}

(* All values but the output's are tensors.                                *)
LEMMA TensorValues ==
  ASSUME NEW g, WellFormed(g), Terminal(g), NEW W, Values(g, W)
  PROVE  \A i \in Ids(g) : g.nodes[i].op # "output" => Tensor(W[i])
<1>1. Len(g.order) \in Nat /\ DOMAIN g.order = 1..Len(g.order) /\ Sound(g)
  BY DEF WellFormed, Sound, Graph
<1> DEFINE OK(p) == g.nodes[g.order[p]].op # "output" => Tensor(W[g.order[p]])
           S == {k \in Nat : k <= Len(g.order) => \A p \in 1..k : OK(p)}
<1>2. 0 \in S
  OBVIOUS
<1>3. ASSUME NEW k \in Nat, k \in S PROVE k + 1 \in S
  <2> SUFFICES ASSUME k + 1 <= Len(g.order) PROVE OK(k + 1)
    <3>1. \A p \in 1..(k + 1) : p \in 1..k \/ p = k + 1
      OBVIOUS
    <3>2. k + 1 <= Len(g.order) => k <= Len(g.order)
      BY <1>1
    <3> HIDE DEF OK
    <3> QED
      BY <1>3, <3>1, <3>2
  <2>1. PICK i, n : i = g.order[k + 1] /\ n = g.nodes[i]
    OBVIOUS
  <2>2. /\ i \in Ids(g) /\ n \in Nodes
        /\ \A a \in Operands(n) : \E p \in 1..k : g.order[p] = a
        /\ \A p \in 1..k : g.order[p] \in Ids(g)
    <3>1. AfterNodes(g, k, i)
      BY <1>1, <2>1, NextExecuted
    <3> QED
      BY <2>1, <3>1 DEF AfterNodes
  <2>3. ASSUME NEW a \in Operands(n) PROVE Tensor(W[a])
    <3>1. PICK p \in 1..k : g.order[p] = a
      BY <2>2
    <3>2. OK(p)
      <4>1. k <= Len(g.order)
        BY <1>1
      <4> HIDE DEF OK
      <4> QED
        BY <1>3, <3>1, <4>1
    <3>3. i \in Users(g, a) /\ a \in Ids(g)
      BY <2>1, <2>2, <2>3, <3>1 DEF Users
    <3> QED
      BY <3>1, <3>2, <3>3 DEF Terminal
  <2>4. Computed(n, i, W) /\ Shaped(n)
    BY <2>1, <2>2 DEF Values, WellFormed
  <2> SUFFICES ASSUME n.op # "output" PROVE Tensor(W[i])
    BY <2>1
  <2>5. CASE n.op = "in"
    BY <2>4, <2>5 DEF Computed, InputValue, Tensor, Shaped
  <2>6. CASE n.op # "in"
    <3>1. PICK v : v = W[i] /\ v = Compute(n, ArgsOf(n, W)) /\ v # Throws
      BY <2>4, <2>6 DEF Computed
    <3>2. Tensor(v)
      BY <2>2, <2>3, <2>4, <2>6, <3>1, TensorComputed
    <3> QED
      BY <3>1, <3>2
  <2> QED
    BY <2>5, <2>6
<1>4. \A k \in Nat : k \in S
  <2> HIDE DEF S
  <2> QED
    BY <1>2, <1>3, SetInduction
<1>5. \A p \in 1..Len(g.order) : OK(p)
  BY <1>1, <1>4
<1> QED
  BY <1>1, <1>5 DEF Ids, ToSet

-----------------------------------------------------------------------------
(* linear_act computes what the nodes it stands for did.                   *)
LEMMA ArgsOfNode ==
  ASSUME NEW n \in Nodes, NEW W, NEW vs, vs = ArgsOf(n, W)
  PROVE  /\ Len(vs) = Len(n.args)
         /\ \A k \in 1..Len(n.args) : vs[k] = Worth(W, n.args[k], n.c)
<1>1. n.args \in Seq(Nat) /\ DOMAIN n.args = 1..Len(n.args) /\ Len(n.args) \in Nat
  BY DEF Nodes
<1>2. vs = [k \in 1..Len(n.args) |-> Worth(W, n.args[k], n.c)]
  BY <1>1 DEF ArgsOf
<1>3. PICK T, m : T = {Worth(W, n.args[k], n.c) : k \in 1..Len(n.args)} /\ m = Len(n.args)
  OBVIOUS
<1>5. m \in Nat /\ \A k \in 1..m : vs[k] \in T
  BY <1>1, <1>2, <1>3
<1>6. vs = [k \in 1..m |-> vs[k]]
  BY <1>2, <1>3
<1>4. Len(vs) = Len(n.args)
  BY <1>3, <1>5, <1>6, SequenceOf
<1> QED
  BY <1>2, <1>4

(* linear_act activates a product.                                         *)
LEMMA ProductOfArgs ==
  ASSUME NEW n \in Nodes, n.op = "linear_act", NEW W
  PROVE  Compute(n, ArgsOf(n, W)) = Activated(n.act, Product(n, ArgsOf(n, W)))
BY DEF Compute, Product, LinearOf, Jit!Unary

(* mm and addmm multiply a matrix.                                         *)
OfMatrix(p, W) ==
  /\ p.op = "mm" => W[p.args[1]].shape = "mat"
  /\ p.op = "addmm" => W[p.args[2]].shape = "mat"

(* The product that a node p computes, and the one that n activates.       *)
SameProduct(p, n, W) ==
  LET v == Compute(p, ArgsOf(p, W))
      r == Product(n, ArgsOf(n, W))
  IN  /\ r # Throws /\ OfMatrix(p, W) => v = r
      /\ v # Throws /\ (p.op = "addmm" => W[p.args[1]].shape = "row") => r = v

(* An epilogue of mm, linear or addmm is of the product it had, but for    *)
(* the bias's shape.                                                       *)
LEMMA GemmProduct ==
  ASSUME NEW p \in Nodes, Shaped(p), NEW pid, NEW e \in GemmEpilogue(p, pid),
         NEW n \in Nodes, n.args = e.operands, n.transB = e.transB, NEW W
  PROVE  SameProduct(p, n, W)
<1>1. PICK vs, us, v, r : /\ vs = ArgsOf(p, W) /\ us = ArgsOf(n, W)
                          /\ v = Compute(p, vs) /\ r = Product(n, us)
  OBVIOUS
<1>2. /\ Len(vs) = Len(p.args) /\ \A k \in 1..Len(p.args) : vs[k] = Worth(W, p.args[k], p.c)
      /\ Len(us) = Len(n.args) /\ \A k \in 1..Len(n.args) : us[k] = Worth(W, n.args[k], n.c)
  BY <1>1, ArgsOfNode
<1>3. p.args \in Seq(Nat) /\ n.args \in Seq(Nat) /\ DOMAIN p.args = 1..Len(p.args)
  BY DEF Nodes
<1>4. SUFFICES /\ r # Throws /\ OfMatrix(p, W) => v = r
               /\ v # Throws /\ (p.op = "addmm" => W[p.args[1]].shape = "row") => r = v
  BY <1>1 DEF SameProduct
<1>5. ASSUME p.op = "linear" \/ p.op = "mm", n.args = p.args, Len(p.args) \in {2, 3}
      PROVE  Len(us) = Len(vs) /\ \A k \in 1..Len(vs) : us[k] = vs[k]
  <2>1. \A k \in 1..Len(p.args) : p.args[k] # 0
    BY <1>3, <1>5 DEF Shaped
  <2> QED
    BY <1>2, <1>5, <2>1 DEF Worth
<1>6. CASE p.op = "linear"
  <2>1. n.args = p.args /\ n.transB = TRUE /\ Len(p.args) \in {2, 3}
    BY <1>6 DEF GemmEpilogue, Epilogue, Shaped
  <2>2. Len(us) = Len(vs) /\ Len(vs) \in {2, 3} /\ \A k \in 1..Len(vs) : us[k] = vs[k]
    BY <1>2, <1>5, <1>6, <2>1
  <2>3. us[1] = vs[1] /\ us[2] = vs[2] /\ (Len(vs) # 2 => us[3] = vs[3])
    BY <2>2
  <2>4. v = LinearOf(vs, TRUE)
    BY <1>1, <1>6 DEF Compute, LinearOf, Jit!Unary
  <2>5. v = r
    BY <1>1, <2>1, <2>2, <2>3, <2>4 DEF Product, LinearOf
  <2> QED
    BY <2>5
<1>7. CASE p.op = "mm"
  <2>1. n.args = p.args /\ n.transB = FALSE /\ Len(p.args) = 2
    BY <1>7 DEF GemmEpilogue, Epilogue, Shaped
  <2>2. Len(us) = 2 /\ us[1] = vs[1] /\ us[2] = vs[2]
    BY <1>2, <1>5, <1>7, <2>1
  <2>3. vs[1] = W[p.args[1]]
    <3>1. p.args[1] # 0
      BY <1>3, <1>7, <2>1 DEF Shaped
    <3> QED
      BY <1>2, <2>1, <3>1 DEF Worth
  <2>4. v = Gemm(vs[1], vs[2], FALSE)
    BY <1>1, <1>7 DEF Compute, Jit!Unary
  <2>5. r = Linear(vs[1], vs[2], FALSE)
    BY <1>1, <2>1, <2>2 DEF Product, LinearOf
  <2>6. OfMatrix(p, W) \/ v # Throws => vs[1].shape = "mat"
    BY <1>7, <2>3, <2>4, GemmTensor DEF OfMatrix
  <2>7. OfMatrix(p, W) \/ v # Throws => v = r
    BY <2>4, <2>5, <2>6, GemmTensor
  <2> QED
    BY <2>7
<1>8. CASE p.op = "addmm"
  <2>1. n.args = <<p.args[2], p.args[3], p.args[1]>> /\ n.transB = FALSE /\ Len(p.args) = 3
        /\ p.alpha = One
    BY <1>8 DEF GemmEpilogue, Epilogue, Shaped
  <2>2. /\ Len(n.args) = 3 /\ n.args[1] = p.args[2] /\ n.args[2] = p.args[3]
        /\ n.args[3] = p.args[1] /\ p.args[1] # 0 /\ p.args[2] # 0 /\ p.args[3] # 0
    BY <1>3, <1>8, <2>1 DEF Shaped
  <2>3. /\ Len(us) = 3 /\ us[1] = vs[2] /\ us[2] = vs[3] /\ us[3] = vs[1]
        /\ vs[1] = W[p.args[1]] /\ vs[2] = W[p.args[2]]
    BY <1>2, <2>1, <2>2 DEF Worth
  <2>4. v = IF Gemm(vs[2], vs[3], FALSE) = Throws THEN Throws
            ELSE Matrix(Sum(vs[1].term, One, GemmTerm(vs[2], vs[3], FALSE)))
    BY <1>1, <1>8, <2>1 DEF Compute, Jit!Unary
  <2>5. r = LinearBias(vs[2], vs[3], FALSE, vs[1])
    <3>1. r = LinearBias(us[1], us[2], n.transB, us[3])
      BY <1>1, <2>3 DEF Product, LinearOf
    <3> QED
      BY <2>1, <2>3, <3>1
  <2>6. vs[2].shape = "mat" =>
          /\ r # Throws <=> Gemm(vs[2], vs[3], FALSE) # Throws /\ vs[1].shape = "row"
          /\ r # Throws => r = Matrix(Sum(vs[1].term, One, GemmTerm(vs[2], vs[3], FALSE)))
    <3>1. PICK t : t = FALSE
      OBVIOUS
    <3>2. r = LinearBias(vs[2], vs[3], t, vs[1])
      BY <2>5, <3>1
    <3>3. vs[2].shape = "mat" =>
            /\ r # Throws <=> Gemm(vs[2], vs[3], t) # Throws /\ vs[1].shape = "row"
            /\ r # Throws => r = Matrix(Sum(vs[1].term, One, GemmTerm(vs[2], vs[3], t)))
      BY <3>2, BiasTensor
    <3> QED
      BY <3>1, <3>3
  <2>7. ASSUME OfMatrix(p, W) \/ v # Throws PROVE vs[2].shape = "mat"
    <3>1. CASE OfMatrix(p, W)
      BY <1>8, <2>3, <3>1 DEF OfMatrix
    <3>2. CASE v # Throws
      <4>1. Gemm(vs[2], vs[3], FALSE) # Throws
        BY <2>4, <3>2
      <4> QED
        BY <4>1, GemmTensor
    <3> QED
      BY <2>7, <3>1, <3>2
  <2> QED
    BY <1>8, <2>3, <2>4, <2>6, <2>7
<1> QED
  BY <1>6, <1>7, <1>8 DEF GemmEpilogue

(* A sequence of three operands.                                           *)
LEMMA TripleOf ==
  \A a, b, c \in Nat : \A s : s = <<a, b, c>> =>
    s \in Seq(Nat) /\ Len(s) = 3 /\ s[1] = a /\ s[2] = b /\ s[3] = c
OBVIOUS

(* A sequence of two operands.                                             *)
LEMMA PairSequence ==
  \A s \in Seq(Nat) : Len(s) = 2 => s[1] \in Nat /\ s[2] \in Nat /\ s = <<s[1], s[2]>>
<1>1. SUFFICES ASSUME NEW s \in Seq(Nat), Len(s) = 2
               PROVE  s[1] \in Nat /\ s[2] \in Nat /\ s = <<s[1], s[2]>>
  OBVIOUS
<1>2. DOMAIN s = 1..2 /\ \A k \in 1..2 : s[k] \in Nat
  BY <1>1, NaturalSequence
<1>3. s[1] \in Nat /\ s[2] \in Nat
  BY <1>2
<1>4. s = [k \in 1..2 |-> s[k]]
  BY <1>1, <1>2
<1>5. s = <<s[1], s[2]>>
  BY <1>1, <1>2, <1>3
<1> QED
  BY <1>3, <1>5

(* What the pass makes of a sum: j is the mm, whose operands come first.   *)
SumEpilogue(p, q, j, other, e) ==
  /\ Len(p.args) = 2
  /\ (p.args[1] = j /\ p.args[2] = other) \/ (p.args[1] = other /\ p.args[2] = j)
  /\ e.operands = q.args \o <<other>> /\ e.c = p.c /\ e.transB = FALSE

(* An epilogue of an add is of an mm and of the add's other operand.       *)
LEMMA SumFound ==
  ASSUME NEW g, NEW pid, NEW p, p = g.nodes[pid], NEW e \in AddEpilogue(g, p, pid),
         NEW j, NEW other, OfAdd(g, pid, j, other, e),
         NEW q, q = g.nodes[j], Len(q.args) = 2, q.args \in Seq(Nat), p.args \in Seq(Nat)
  PROVE  SumEpilogue(p, q, j, other, e)
<1>1. PICK k, o : /\ (p.args[1] = k /\ p.args[2] = o) \/ (p.args[1] = o /\ p.args[2] = k)
                  /\ e = Epilogue(g.nodes[k].args \o <<o>>, p.c, FALSE, <<pid, k>>)
  BY DEF AddEpilogue
<1>2. /\ e.operands = g.nodes[k].args \o <<o>> /\ e.c = p.c /\ e.transB = FALSE
      /\ e.erased = <<pid, k>>
  BY <1>1 DEF Epilogue
<1>3. Len(p.args) = 2 /\ e.erased = <<pid, j>> /\ e.operands[3] = other
  BY DEF OfAdd
<1>4. k = j
  <2>1. <<pid, k>> = <<pid, j>>
    BY <1>2, <1>3
  <2> QED
    BY <2>1
<1>5. o \in Nat
  <2>1. p.args[1] \in Nat /\ p.args[2] \in Nat
    BY <1>3, PairSequence
  <2> QED
    BY <1>1, <2>1
<1>6. (q.args \o <<o>>)[3] = o
  <2>1. PICK x, y \in Nat : q.args = <<x, y>>
    <3>1. q.args[1] \in Nat /\ q.args[2] \in Nat /\ q.args = <<q.args[1], q.args[2]>>
      BY PairSequence
    <3> QED
      BY <3>1
  <2>2. PICK s : s = q.args \o <<o>>
    OBVIOUS
  <2>3. s = <<x, y, o>>
    BY <1>5, <2>1, <2>2, ShortSequences
  <2>4. s[3] = o
    BY <1>5, <2>3, TripleOf
  <2> QED
    BY <2>2, <2>4
<1>7. e.operands = q.args \o <<o>>
  BY <1>2, <1>4
<1>8. o = other
  BY <1>3, <1>6, <1>7
<1>9. (p.args[1] = j /\ p.args[2] = other) \/ (p.args[1] = other /\ p.args[2] = j)
  BY <1>1, <1>4, <1>8
<1>10. e.operands = q.args \o <<other>> /\ e.c = p.c /\ e.transB = FALSE
  BY <1>2, <1>7, <1>8
<1> QED
  BY <1>3, <1>9, <1>10 DEF SumEpilogue

(* The sum of a product and a row, in either order.                        *)
LEMMA SumCommutes ==
  ASSUME NEW x, NEW y
  PROVE  Sum(x, One, y) = Sum(y, One, x)
<1>1. {x, y} = {y, x}
  OBVIOUS
<1> QED
  BY <1>1 DEF Sum

(* The add of an mm is the product with a bias, if that bias is a row.     *)
SumComputed(p, q, n, j, V) ==
  /\ V[j] # Throws /\ V[j] = Compute(q, ArgsOf(q, V))
  /\ Compute(p, ArgsOf(p, V)) = Product(n, ArgsOf(n, V))

(* Addition commutes, and the alpha of a benign add is 1.                  *)
LEMMA SumProduct ==
  ASSUME NEW p \in Nodes, p.op = "add", p.alpha = One, NEW q \in Nodes, q.op = "mm", Shaped(q),
         NEW j \in Nat \ {0}, NEW other \in Nat, NEW e, SumEpilogue(p, q, j, other, e),
         NEW n \in Nodes, n.args = e.operands, n.transB = e.transB, n.c = e.c,
         NEW V, V[q.args[1]].shape = "mat", V[j] = Gemm(V[q.args[1]], V[q.args[2]], FALSE),
         Product(n, ArgsOf(n, V)) # Throws
  PROVE  SumComputed(p, q, n, j, V)
<1>1. PICK a, b : q.args = <<a, b>> /\ a \in Nat /\ b \in Nat /\ a # 0 /\ b # 0
  <2>1. Len(q.args) = 2 /\ q.args \in Seq(Nat)
    BY DEF Shaped, Nodes
  <2>2. q.args[1] \in Nat /\ q.args[2] \in Nat /\ q.args = <<q.args[1], q.args[2]>>
    BY <2>1, PairSequence
  <2>3. q.args[1] # 0 /\ q.args[2] # 0
    <3>1. 1 \in DOMAIN q.args /\ 2 \in DOMAIN q.args
      BY <2>1
    <3> QED
      BY <3>1 DEF Shaped
  <2> QED
    BY <2>2, <2>3
<1>2. n.args = <<a, b, other>>
  BY <1>1, ShortSequences DEF SumEpilogue
<1>3. PICK us, ws, vs : us = ArgsOf(n, V) /\ ws = ArgsOf(q, V) /\ vs = ArgsOf(p, V)
  OBVIOUS
<1>4. Len(us) = 3 /\ us[1] = V[a] /\ us[2] = V[b] /\ us[3] = Worth(V, other, p.c)
  <2>1. /\ Len(us) = Len(n.args) /\ \A k \in 1..Len(n.args) : us[k] = Worth(V, n.args[k], n.c)
    BY <1>3, ArgsOfNode
  <2>2. Len(n.args) = 3 /\ n.args[1] = a /\ n.args[2] = b /\ n.args[3] = other
    BY <1>1, <1>2, TripleOf
  <2>3. n.c = p.c
    BY DEF SumEpilogue
  <2>4. us[1] = Worth(V, a, n.c) /\ us[2] = Worth(V, b, n.c) /\ us[3] = Worth(V, other, n.c)
    BY <2>1, <2>2
  <2> QED
    BY <1>1, <2>1, <2>2, <2>3, <2>4 DEF Worth
<1>5. Len(ws) = 2 /\ ws[1] = V[a] /\ ws[2] = V[b]
  <2>1. /\ Len(ws) = Len(q.args) /\ \A k \in 1..Len(q.args) : ws[k] = Worth(V, q.args[k], q.c)
    BY <1>3, ArgsOfNode
  <2>2. Len(q.args) = 2 /\ q.args[1] = a /\ q.args[2] = b
    BY <1>1
  <2> QED
    BY <1>1, <2>1, <2>2 DEF Worth
<1>6. PICK x, w, c : x = V[a] /\ w = V[b] /\ c = Worth(V, other, p.c)
  OBVIOUS
<1>7. Product(n, us) = LinearBias(x, w, FALSE, c) /\ x.shape = "mat"
  <2>1. Product(n, us) = LinearBias(us[1], us[2], n.transB, us[3])
    BY <1>4 DEF Product, LinearOf
  <2>3. q.args[1] = a
    BY <1>1
  <2>2. n.transB = FALSE
    BY DEF SumEpilogue
  <2> QED
    BY <1>4, <1>6, <2>1, <2>2, <2>3
<1>8. /\ Gemm(x, w, FALSE) # Throws /\ c.shape = "row"
      /\ Product(n, us) = Matrix(Sum(c.term, One, GemmTerm(x, w, FALSE)))
  <2>1. PICK r, t : t = FALSE /\ r = LinearBias(x, w, t, c)
    OBVIOUS
  <2>2. /\ r # Throws <=> Gemm(x, w, t) # Throws /\ c.shape = "row"
        /\ r # Throws => r = Matrix(Sum(c.term, One, GemmTerm(x, w, t)))
    BY <1>7, <2>1, BiasTensor
  <2>3. r # Throws /\ r = Product(n, us)
    BY <1>3, <1>7, <2>1
  <2> QED
    BY <2>1, <2>2, <2>3
<1>9. V[j] = Gemm(x, w, FALSE) /\ V[j] = Matrix(GemmTerm(x, w, FALSE))
  <2>1. q.args[1] = a /\ q.args[2] = b
    BY <1>1
  <2> QED
    BY <1>6, <1>8, <2>1 DEF Gemm
<1>10. Compute(q, ws) = V[j]
  BY <1>5, <1>6, <1>9 DEF Compute, Jit!Unary
<1>11. V[j].shape = "mat" /\ V[j].term = GemmTerm(x, w, FALSE)
  BY <1>9, MatrixTensor
<1>12. (vs[1] = V[j] /\ vs[2] = c) \/ (vs[1] = c /\ vs[2] = V[j])
  <2>1. /\ Len(p.args) = 2 /\ \A k \in 1..Len(p.args) : vs[k] = Worth(V, p.args[k], p.c)
    BY <1>3, ArgsOfNode DEF SumEpilogue
  <2>2. Worth(V, j, p.c) = V[j]
    BY DEF Worth
  <2>3. vs[1] = Worth(V, p.args[1], p.c) /\ vs[2] = Worth(V, p.args[2], p.c)
    BY <2>1
  <2>4. (p.args[1] = j /\ p.args[2] = other) \/ (p.args[1] = other /\ p.args[2] = j)
    BY DEF SumEpilogue
  <2> QED
    BY <1>6, <2>2, <2>3, <2>4
<1>13. Compute(p, vs) = [shape |-> Joined(vs[1], vs[2]), term |-> Sum(vs[1].term, One, vs[2].term)]
  BY DEF Compute, Jit!Unary
<1>14. Joined(vs[1], vs[2]) = "mat"
  BY <1>11, <1>12 DEF Joined
<1>15. Sum(vs[1].term, One, vs[2].term) = Sum(c.term, One, GemmTerm(x, w, FALSE))
  <2>1. Sum(GemmTerm(x, w, FALSE), One, c.term) = Sum(c.term, One, GemmTerm(x, w, FALSE))
    BY SumCommutes
  <2>2. CASE vs[1] = V[j] /\ vs[2] = c
    BY <1>11, <2>1, <2>2
  <2>3. CASE vs[1] = c /\ vs[2] = V[j]
    BY <1>11, <2>3
  <2> QED
    BY <1>12, <2>2, <2>3
<1>16. Compute(p, vs) = Product(n, us)
  BY <1>8, <1>13, <1>14, <1>15 DEF Matrix
<1> QED
  BY <1>3, <1>8, <1>9, <1>10, <1>16 DEF SumComputed

-----------------------------------------------------------------------------
(* The gemm pass: what the nodes it erases computed can be told from the   *)
(* values of the graph it makes, and the other way round.                  *)
FusedFrom(g, i, e, n) ==
  /\ n \in Nodes /\ Shaped(n) /\ n.op = "linear_act" /\ n.args = e.operands
  /\ n.act = ActName(g.nodes[i]) /\ n.transB = e.transB /\ n.c = e.c

(* The new node is one of the new graph.                                   *)
LEMMA NewComputed ==
  ASSUME NEW g, WellFormed(g), NEW n, NEW i, NEW gone, gone \subseteq Ids(g), NEW h,
         Rewritten(g, n, i, gone, h), NEW W, Values(h, W)
  PROVE  Computed(n, Len(g.nodes) + 1, W)
<1>1. Len(g.nodes) + 1 \notin Ids(g)
  BY IdsOfGraph DEF WellFormed, Sound
<1>2. Len(g.nodes) + 1 \in Ids(h) /\ h.nodes[Len(g.nodes) + 1] = n
  BY <1>1 DEF Rewritten
<1> QED
  BY <1>2 DEF Values

(* Nodes, and the nodes they use, of a well-formed graph.                  *)
LEMMA NodesOf ==
  ASSUME NEW g, WellFormed(g), NEW x \in Ids(g)
  PROVE  /\ g.nodes[x] \in Nodes /\ Shaped(g.nodes[x]) /\ x \in Nat \ {0}
         /\ x # Len(g.nodes) + 1 /\ Len(g.nodes) + 1 \in Nat \ {0}
         /\ \A a \in Operands(g.nodes[x]) : a \in Ids(g) /\ a # x /\ a \in Nat \ {0}
<1>1. Graph(g) /\ x \in DOMAIN g.nodes /\ DOMAIN g.nodes = 1..Len(g.nodes) /\ Len(g.nodes) \in Nat
      /\ Ids(g) \subseteq DOMAIN g.nodes
  BY IdsOfGraph DEF WellFormed, Sound
<1>2. g.nodes[x] \in Nodes /\ Shaped(g.nodes[x])
  BY <1>1, IdsOfGraph DEF WellFormed, Sound
<1>3. \A a \in Operands(g.nodes[x]) : a \in Ids(g) /\ a # x
  <2>1. \A a \in Operands(g.nodes[x]) : Before(g.order, a, x)
    BY DEF WellFormed, Sound
  <2>2. \A a, b : Before(g.order, a, b) => a \in ToSet(g.order) /\ a # b
    BY <1>1, BeforeOrders DEF Graph
  <2> QED
    BY <2>1, <2>2 DEF Ids
<1>4. \A a \in Ids(g) : a \in Nat \ {0}
  BY <1>1
<1>5. Len(g.nodes) + 1 \in Nat \ {0} /\ x # Len(g.nodes) + 1
  BY <1>1
<1> QED
  BY <1>2, <1>3, <1>4, <1>5

(* An activation activates the value of its operand.                       *)
ActivationComputes(a, pid, V) ==
  /\ Compute(a, ArgsOf(a, V)) = Activated(ActName(a), V[pid])
  /\ a.op \notin {"in", "output"}

(* ... as they do, but for relu_.                                          *)
LEMMA ActivationOf ==
  ASSUME NEW a \in Nodes, NEW pid \in Nat \ {0}, a.args = <<pid>>, ActName(a) \in {"relu", "silu"},
         a.op # "relu_", NEW V
  PROVE  ActivationComputes(a, pid, V)
<1>1. (a.op = "relu" \/ a.op = "silu") /\ ActName(a) = a.op
  BY DEF ActName
<1>2. PICK vs : vs = ArgsOf(a, V)
  OBVIOUS
<1>3. vs[1] = V[pid]
  <2>1. Len(a.args) = 1 /\ a.args[1] = pid
    OBVIOUS
  <2>2. 1 \in 1..Len(a.args) /\ vs[1] = Worth(V, a.args[1], a.c)
    BY <1>2, <2>1, ArgsOfNode
  <2> QED
    BY <2>1, <2>2 DEF Worth
<1>4. Compute(a, vs) = Activated(a.op, vs[1])
  BY <1>1 DEF Compute, Jit!Unary
<1> QED
  BY <1>1, <1>2, <1>3, <1>4 DEF ActivationComputes

(* The product is there if it has been activated.                          *)
LEMMA Activates ==
  ASSUME NEW n \in Nodes, n.op = "linear_act", NEW x, NEW W, Computed(n, x, W),
         NEW r, r = Product(n, ArgsOf(n, W))
  PROVE  W[x] = Activated(n.act, r) /\ W[x] # Throws /\ r # Throws
<1>1. W[x] = Compute(n, ArgsOf(n, W)) /\ W[x] # Throws
  BY DEF Computed
<1>2. W[x] = Activated(n.act, r)
  BY <1>1, ProductOfArgs
<1>3. r = Throws => Activated(n.act, r) = Throws
  BY DEF Activated
<1> QED
  BY <1>1, <1>2, <1>3

(* The value of the new node tells those of the nodes gone.                *)
Told(g, i, gone, W) ==
  \E V : /\ Transfer(g, i, gone, V, W)
         /\ \A x \in gone : Computed(g.nodes[x], x, V) /\ g.nodes[x].op # "output"

(* A product and its activation: linear_act tells both.                    *)
LEMMA OneTold ==
  ASSUME NEW g, WellFormed(g), NEW i, NEW pid, Activation(g, i, pid), g.nodes[i].op # "relu_",
         NEW e \in GemmEpilogue(g.nodes[pid], pid), NEW n, FusedFrom(g, i, e, n),
         NEW W, Computed(n, Len(g.nodes) + 1, W), OfMatrix(g.nodes[pid], W)
  PROVE  Told(g, i, {i, pid}, W)
<1>1. PICK a, p, new, r : /\ a = g.nodes[i] /\ p = g.nodes[pid] /\ new = Len(g.nodes) + 1
                          /\ r = Product(n, ArgsOf(n, W))
  OBVIOUS
<1>2. i \in Ids(g) /\ pid \in Ids(g) /\ a.args = <<pid>> /\ Operands(a) = {pid} /\ {i, pid} \subseteq Ids(g)
      /\ ActName(a) \in {"relu", "silu"} /\ a.op # "relu_"
  BY <1>1 DEF Activation
<1>3. n \in Nodes /\ n.op = "linear_act" /\ n.act = ActName(a)
  BY <1>1 DEF FusedFrom
<1>4. W[new] = Activated(n.act, r) /\ W[new] # Throws /\ r # Throws
  BY <1>1, <1>3, Activates
<1>5. a \in Nodes /\ p \in Nodes /\ Shaped(p) /\ pid # i /\ pid \in Nat \ {0}
  BY <1>1, <1>2, NodesOf
<1>6. PICK V : V = [x \in Ids(g) |-> IF x = i THEN W[new] ELSE IF x = pid THEN r ELSE W[x]]
  OBVIOUS
<1>7. /\ V[i] = W[new] /\ V[pid] = r
      /\ \A x \in Ids(g) \ {i, pid} : V[x] = W[x]
  BY <1>2, <1>5, <1>6
<1>8. Compute(p, ArgsOf(p, V)) = r
  <2>1. \A x \in Operands(p) : x \in Ids(g) \ {i, pid}
    <3>1. Before(g.order, pid, i)
      BY <1>1, <1>2 DEF WellFormed, Sound
    <3>2. \A x \in Operands(p) : x # pid /\ Before(g.order, x, i)
      BY <1>1, <1>2, <3>1, OperandsBefore
    <3>3. \A x : Before(g.order, x, i) => x # i
      BY BeforeOrders DEF WellFormed, Sound, Graph
    <3> QED
      BY <1>1, <1>2, <3>2, <3>3, NodesOf
  <2>2. Agree(p, V, W)
    BY <1>7, <2>1 DEF Agree
  <2>3. ArgsOf(p, V) = ArgsOf(p, W)
    BY <1>5, <2>2, ArgsSame
  <2>4. SameProduct(p, n, W)
    BY <1>1, <1>5, <1>3, GemmProduct DEF FusedFrom
  <2>5. OfMatrix(p, W)
    BY <1>1
  <2> QED
    BY <1>1, <1>4, <2>3, <2>4, <2>5 DEF SameProduct
<1>9. p.op \notin {"in", "output"}
  BY <1>1 DEF GemmEpilogue
<1>10. Computed(p, pid, V)
  BY <1>4, <1>7, <1>8, <1>9 DEF Computed
<1>11. ActivationComputes(a, pid, V)
  BY <1>2, <1>5, ActivationOf
<1>12. Computed(a, i, V) /\ a.op \notin {"in", "output"}
  BY <1>3, <1>4, <1>7, <1>11 DEF Computed, ActivationComputes
<1>13. Transfer(g, i, {i, pid}, V, W)
  BY <1>1, <1>2, <1>7 DEF Transfer
<1>14. \A j \in {i, pid} : Computed(g.nodes[j], j, V) /\ g.nodes[j].op # "output"
  BY <1>1, <1>9, <1>10, <1>12
<1> QED
  BY <1>13, <1>14 DEF Told

(* The values V of g are values of h, in which the new node has the value  *)
(* of i.                                                                   *)
Forth(g, V, h, i) ==
  \E W : /\ Values(h, W) /\ W[Len(g.nodes) + 1] = V[i] /\ \A x \in Ids(g) : W[x] = V[x]

(* ... and they tell linear_act, if addmm added a row.                     *)
LEMMA OneForth ==
  ASSUME NEW g, WellFormed(g), NEW i, NEW pid, Activation(g, i, pid), g.nodes[i].op # "relu_",
         NEW e \in GemmEpilogue(g.nodes[pid], pid), OfGemm(g, pid, e), NEW n, FusedFrom(g, i, e, n),
         NEW h, Rewritten(g, n, i, {i, pid}, h), NEW V, Values(g, V),
         g.nodes[pid].op = "addmm" => V[g.nodes[pid].args[1]].shape = "row"
  PROVE  Forth(g, V, h, i)
<1>1. PICK a, p, new : a = g.nodes[i] /\ p = g.nodes[pid] /\ new = Len(g.nodes) + 1
  OBVIOUS
<1>2. i \in Ids(g) /\ pid \in Ids(g) /\ a.args = <<pid>> /\ Operands(a) = {pid} /\ {i, pid} \subseteq Ids(g)
      /\ ActName(a) \in {"relu", "silu"} /\ a.op # "relu_"
  BY <1>1 DEF Activation
<1>3. n \in Nodes /\ n.op = "linear_act" /\ n.act = ActName(a) /\ n.args = e.operands
  BY <1>1 DEF FusedFrom
<1>4. a \in Nodes /\ p \in Nodes /\ Shaped(p) /\ pid \in Nat \ {0} /\ new \notin Ids(g)
  BY <1>1, <1>2, NodesOf
<1>5. PICK W : W = [x \in Ids(g) \cup {new} |-> IF x = new THEN V[i] ELSE V[x]]
  OBVIOUS
<1>6. W[new] = V[i] /\ \A x \in Ids(g) : W[x] = V[x]
  BY <1>4, <1>5
<1>7. p.op \notin {"in", "output"}
  BY <1>1 DEF GemmEpilogue
<1>8. V[pid] = Compute(p, ArgsOf(p, V)) /\ V[pid] # Throws
  BY <1>1, <1>2, <1>7 DEF Values, Computed
<1>9. V[i] = Activated(n.act, V[pid]) /\ V[i] # Throws
  <2>1. ActivationComputes(a, pid, V)
    BY <1>2, <1>4, ActivationOf
  <2> QED
    BY <1>1, <1>2, <1>3, <2>1 DEF Values, Computed, ActivationComputes
<1>10. Product(n, ArgsOf(n, V)) = V[pid]
  <2>1. SameProduct(p, n, V)
    BY <1>1, <1>4, <1>3, GemmProduct DEF FusedFrom
  <2> QED
    BY <1>1, <1>8, <2>1 DEF SameProduct
<1>11. ArgsOf(n, W) = ArgsOf(n, V)
  <2>1. Operands(n) = Operands(p)
    BY <1>1, <1>3 DEF Operands, OfGemm
  <2>2. Agree(n, W, V)
    BY <1>1, <1>2, <1>6, <2>1, NodesOf DEF Agree
  <2> QED
    BY <1>3, <2>2, ArgsSame
<1>12. Computed(n, new, W)
  <2>1. Compute(n, ArgsOf(n, V)) = Activated(n.act, V[pid])
    BY <1>3, <1>10, ProductOfArgs
  <2> QED
    BY <1>3, <1>6, <1>9, <1>11, <2>1 DEF Computed
<1>13. Transfer(g, i, {i, pid}, V, W)
  BY <1>1, <1>2, <1>6 DEF Transfer
<1>14. Values(h, W)
  BY <1>1, <1>12, <1>13, ValuesForth
<1> QED
  BY <1>1, <1>6, <1>14 DEF Forth

(* A product, an add and its activation: linear_act tells all three.       *)
LEMMA AddTold ==
  ASSUME NEW g, WellFormed(g), NEW i, NEW pid, Activation(g, i, pid), g.nodes[i].op # "relu_",
         NEW e \in AddEpilogue(g, g.nodes[pid], pid), NEW j, NEW other, OfAdd(g, pid, j, other, e),
         other # j, g.nodes[pid].alpha = One, NEW n, FusedFrom(g, i, e, n),
         NEW W, Computed(n, Len(g.nodes) + 1, W), OfMatrix(g.nodes[j], W)
  PROVE  Told(g, i, {i, pid, j}, W)
<1>1. PICK a, p, q, new, r : /\ a = g.nodes[i] /\ p = g.nodes[pid] /\ q = g.nodes[j]
                             /\ new = Len(g.nodes) + 1 /\ r = Product(n, ArgsOf(n, W))
  OBVIOUS
<1>2. i \in Ids(g) /\ pid \in Ids(g) /\ a.args = <<pid>> /\ Operands(a) = {pid}
      /\ ActName(a) \in {"relu", "silu"} /\ a.op # "relu_"
  BY <1>1 DEF Activation
<1>20. j \in Ids(g) /\ q.op = "mm" /\ p.op = "add" /\ {j, other} = ToSet(p.args) /\ Len(p.args) = 2
       /\ {i, pid, j} \subseteq Ids(g) /\ ToSet(e.operands) = ToSet(q.args) \cup {other}
  BY <1>1, <1>2 DEF OfAdd
<1>3. n \in Nodes /\ n.op = "linear_act" /\ n.act = ActName(a) /\ n.args = e.operands
      /\ n.transB = e.transB /\ n.c = e.c
  BY <1>1 DEF FusedFrom
<1>4. W[new] = Activated(n.act, r) /\ W[new] # Throws /\ r # Throws
  BY <1>1, <1>3, Activates
<1>5. a \in Nodes /\ p \in Nodes /\ Shaped(p) /\ q \in Nodes /\ Shaped(q) /\ pid # i
      /\ pid \in Nat \ {0} /\ j \in Nat \ {0}
  BY <1>1, <1>2, <1>20, NodesOf
<1>21. Before(g.order, pid, i)
  BY <1>1, <1>2 DEF WellFormed, Sound
<1>22. \A x : Before(g.order, x, i) => x # i
  BY BeforeOrders DEF WellFormed, Sound, Graph
<1>23. \A x \in Operands(p) : x # pid /\ x # i /\ Before(g.order, x, i) /\ x \in Ids(g)
  BY <1>1, <1>2, <1>21, <1>22, OperandsBefore, NodesOf
<1>24. j # pid /\ j # i /\ Before(g.order, j, i) /\ j \in Operands(p)
  BY <1>5, <1>20, <1>23 DEF Operands
<1>25. \A x \in Operands(q) : x # j /\ x # i /\ x # pid /\ x \in Ids(g)
  <2>1. \A x \in Operands(q) : x # j /\ x # i /\ x \in Ids(g)
    BY <1>1, <1>20, <1>22, <1>24, OperandsBefore, NodesOf
  <2>2. Before(g.order, j, pid)
    BY <1>1, <1>2, <1>24 DEF WellFormed, Sound
  <2>3. \A x \in Operands(q) : Before(g.order, x, pid)
    BY <1>1, <1>20, <2>2, OperandsBefore
  <2>4. \A x : Before(g.order, x, pid) => x # pid
    BY BeforeOrders DEF WellFormed, Sound, Graph
  <2> QED
    BY <2>1, <2>3, <2>4
<1>26. SumEpilogue(p, q, j, other, e)
  <2>1. Len(q.args) = 2 /\ q.args \in Seq(Nat) /\ p.args \in Seq(Nat)
    BY <1>5, <1>20 DEF Shaped, Nodes
  <2> QED
    BY <1>1, <2>1, SumFound
<1>6. PICK V : V = [x \in Ids(g) |-> IF x = i THEN W[new] ELSE IF x = pid THEN r
                                     ELSE IF x = j THEN Gemm(W[q.args[1]], W[q.args[2]], FALSE)
                                     ELSE W[x]]
  OBVIOUS
<1>7. /\ V[i] = W[new] /\ V[pid] = r /\ V[j] = Gemm(W[q.args[1]], W[q.args[2]], FALSE)
      /\ \A x \in Ids(g) \ {i, pid, j} : V[x] = W[x]
  BY <1>2, <1>5, <1>6, <1>20, <1>24
<1>9. Product(n, ArgsOf(n, V)) = r
  <2>1. ArgsOf(n, V) = ArgsOf(n, W)
    <3>1. \A x \in Operands(n) : x \in Ids(g) \ {i, pid, j}
      <4>1. ASSUME NEW x \in Operands(n) PROVE x \in Ids(g) \ {i, pid, j}
        <5>1. x # 0 /\ (x \in ToSet(q.args) \/ x = other)
          BY <1>3, <1>20 DEF Operands
        <5>2. CASE x \in ToSet(q.args)
          BY <1>25, <5>1, <5>2 DEF Operands
        <5>3. CASE x = other
          <6>1. x \in Operands(p)
            BY <1>20, <5>1, <5>3 DEF Operands
          <6> QED
            BY <1>23, <5>3, <6>1
        <5> QED
          BY <5>1, <5>2, <5>3
      <4> QED
        BY <4>1
    <3>2. Agree(n, V, W)
      BY <1>7, <3>1 DEF Agree
    <3> QED
      BY <1>3, <3>2, ArgsSame
  <2> QED
    BY <1>1, <2>1
<1>8. SumComputed(p, q, n, j, V)
  <2>2. V[q.args[1]] = W[q.args[1]] /\ V[q.args[2]] = W[q.args[2]]
    <3>1. 1 \in DOMAIN q.args /\ 2 \in DOMAIN q.args
      <4>1. q.args \in Seq(Nat) /\ Len(q.args) = 2
        BY <1>5, <1>20 DEF Shaped, Nodes
      <4> QED
        BY <4>1
    <3>2. q.args[1] # 0 /\ q.args[2] # 0
      BY <1>5, <1>20, <3>1 DEF Shaped
    <3>3. q.args[1] \in Operands(q) /\ q.args[2] \in Operands(q)
      BY <3>1, <3>2 DEF Operands, ToSet
    <3> QED
      BY <1>7, <1>25, <3>3
  <2>3. V[j] = Gemm(V[q.args[1]], V[q.args[2]], FALSE) /\ V[q.args[1]].shape = "mat"
    <3>1. W[q.args[1]].shape = "mat"
      BY <1>1, <1>20 DEF OfMatrix
    <3> QED
      BY <1>7, <2>2, <3>1
  <2>4. other \in Nat
    <3>1. p.args \in Seq(Nat)
      BY <1>5 DEF Nodes
    <3>2. p.args[1] \in Nat /\ p.args[2] \in Nat
      BY <1>20, <3>1, PairSequence
    <3> QED
      BY <1>26, <3>2 DEF SumEpilogue
  <2>5. Product(n, ArgsOf(n, V)) # Throws /\ p.alpha = One
    BY <1>1, <1>4, <1>9
  <2> QED
    BY <1>3, <1>5, <1>20, <1>26, <2>3, <2>4, <2>5, SumProduct
<1>10. Computed(p, pid, V) /\ Computed(q, j, V)
  BY <1>4, <1>7, <1>8, <1>9, <1>20 DEF Computed, SumComputed
<1>11. ActivationComputes(a, pid, V)
  BY <1>2, <1>5, ActivationOf
<1>12. Computed(a, i, V) /\ a.op \notin {"in", "output"}
  BY <1>3, <1>4, <1>7, <1>11 DEF Computed, ActivationComputes
<1>13. Transfer(g, i, {i, pid, j}, V, W)
  BY <1>1, <1>7, <1>20 DEF Transfer
<1>14. \A x \in {i, pid, j} : Computed(g.nodes[x], x, V) /\ g.nodes[x].op # "output"
  BY <1>1, <1>10, <1>12, <1>20
<1> QED
  BY <1>13, <1>14 DEF Told

(* The values of h are values of g, with the same results.                 *)
Back(g, h) == \A W : Values(h, W) => \E V : SameResults(g, V, h, W)

(* The same way round: V is worth what the new node computes of it, if a   *)
(* row is added to the product.                                            *)
LEMMA AddForth ==
  ASSUME NEW g, WellFormed(g), NEW i, NEW pid, Activation(g, i, pid), g.nodes[i].op # "relu_",
         NEW e \in AddEpilogue(g, g.nodes[pid], pid), NEW j, NEW other, OfAdd(g, pid, j, other, e),
         other # j, g.nodes[pid].alpha = One, NEW n, FusedFrom(g, i, e, n),
         NEW h, Rewritten(g, n, i, {i, pid, j}, h), NEW V, Values(g, V),
         other # 0, V[other].shape = "row"
  PROVE  Forth(g, V, h, i)
<1>1. PICK a, p, q, new : /\ a = g.nodes[i] /\ p = g.nodes[pid] /\ q = g.nodes[j]
                          /\ new = Len(g.nodes) + 1
  OBVIOUS
<1>2. i \in Ids(g) /\ pid \in Ids(g) /\ a.args = <<pid>> /\ Operands(a) = {pid}
      /\ ActName(a) \in {"relu", "silu"} /\ a.op # "relu_"
  BY <1>1 DEF Activation
<1>3. j \in Ids(g) /\ q.op = "mm" /\ p.op = "add" /\ {j, other} = ToSet(p.args) /\ Len(p.args) = 2
       /\ {i, pid, j} \subseteq Ids(g) /\ ToSet(e.operands) = ToSet(q.args) \cup {other}
  BY <1>1, <1>2 DEF OfAdd
<1>4. n \in Nodes /\ n.op = "linear_act" /\ n.act = ActName(a) /\ n.args = e.operands
      /\ n.transB = e.transB /\ n.c = e.c
  BY <1>1 DEF FusedFrom
<1>5. a \in Nodes /\ p \in Nodes /\ Shaped(p) /\ q \in Nodes /\ Shaped(q)
      /\ pid \in Nat \ {0} /\ j \in Nat \ {0} /\ new \notin Ids(g)
  BY <1>1, <1>2, <1>3, NodesOf
<1>6. SumEpilogue(p, q, j, other, e)
  <2>1. Len(q.args) = 2 /\ q.args \in Seq(Nat) /\ p.args \in Seq(Nat)
    BY <1>3, <1>5 DEF Shaped, Nodes
  <2> QED
    BY <1>1, <2>1, SumFound
<1>7. other \in Nat
  <2>1. p.args \in Seq(Nat)
    BY <1>5 DEF Nodes
  <2>2. p.args[1] \in Nat /\ p.args[2] \in Nat
    BY <1>3, <2>1, PairSequence
  <2> QED
    BY <1>6, <2>2 DEF SumEpilogue
<1>8. PICK x, w : q.args = <<x, w>> /\ x \in Operands(q) /\ w \in Operands(q) /\ x # 0 /\ w # 0
  <2>1. q.args \in Seq(Nat) /\ Len(q.args) = 2
    BY <1>3, <1>5 DEF Shaped, Nodes
  <2>2. q.args = <<q.args[1], q.args[2]>> /\ 1 \in DOMAIN q.args /\ 2 \in DOMAIN q.args
    BY <2>1, PairSequence
  <2>3. q.args[1] # 0 /\ q.args[2] # 0
    BY <1>3, <1>5, <2>2 DEF Shaped
  <2>4. q.args[1] \in Operands(q) /\ q.args[2] \in Operands(q)
    BY <2>2, <2>3 DEF Operands, ToSet
  <2> QED
    BY <2>2, <2>3, <2>4
<1>9. V[j] = Gemm(V[x], V[w], FALSE) /\ V[j] # Throws
  <2>1. V[j] = Compute(q, ArgsOf(q, V)) /\ V[j] # Throws
    BY <1>1, <1>3 DEF Values, Computed
  <2>2. PICK us : us = ArgsOf(q, V)
    OBVIOUS
  <2>3. us[1] = V[x] /\ us[2] = V[w]
    BY <1>8, <2>2 DEF ArgsOf, Worth
  <2>4. Compute(q, us) = Gemm(us[1], us[2], FALSE)
    <3>1. q.op = "mm"
      BY <1>3
    <3> QED
      BY ONLY <3>1 DEF Compute, Jit!Unary
  <2> QED
    BY <2>1, <2>2, <2>3, <2>4
<1>10. PICK t, r : t = FALSE /\ r = Product(n, ArgsOf(n, V))
  OBVIOUS
<1>11. V[x].shape = "mat" /\ V[j] = Gemm(V[x], V[w], t)
  BY <1>9, <1>10, GemmTensor
<1>12. r # Throws
  <2>1. n.args = <<x, w, other>>
    <3>1. x \in Nat /\ w \in Nat
      BY <1>1, <1>3, <1>8, NodesOf
    <3> QED
      BY <1>4, <1>6, <1>7, <1>8, <3>1, ShortSequences DEF SumEpilogue
  <2>2. PICK us : us = ArgsOf(n, V)
    OBVIOUS
  <2>3. Len(us) = 3 /\ us[1] = V[x] /\ us[2] = V[w] /\ us[3] = V[other]
    <3>1. Len(n.args) = 3 /\ n.args[1] = x /\ n.args[2] = w /\ n.args[3] = other
      BY <2>1
    <3>2. /\ Len(us) = Len(n.args) /\ \A k \in 1..Len(n.args) : us[k] = Worth(V, n.args[k], n.c)
      BY <1>4, <2>2, ArgsOfNode
    <3>3. 1 \in 1..Len(n.args) /\ 2 \in 1..Len(n.args) /\ 3 \in 1..Len(n.args)
      BY <3>1
    <3> QED
      BY <1>8, <3>1, <3>2, <3>3 DEF Worth
  <2>4. r = LinearBias(V[x], V[w], t, V[other])
    <3>1. Len(us) # 2
      BY <2>3
    <3>2. n.transB = t
      BY <1>4, <1>6, <1>10 DEF SumEpilogue
    <3>3. r = LinearBias(us[1], us[2], n.transB, us[3])
      BY <1>10, <2>2, <3>1 DEF Product, LinearOf
    <3> QED
      BY <2>3, <3>2, <3>3
  <2>5. PICK y, z, b : y = V[x] /\ z = V[w] /\ b = V[other]
    OBVIOUS
  <2>6. y.shape = "mat" /\ b.shape = "row" /\ Gemm(y, z, t) # Throws
    BY <1>9, <1>11, <2>5
  <2>7. LinearBias(y, z, t, b) # Throws
    BY <2>6, BiasTensor
  <2> QED
    BY <2>4, <2>5, <2>7
<1>13. SumComputed(p, q, n, j, V)
  <2>1. V[q.args[1]] = V[x] /\ V[q.args[2]] = V[w]
    BY <1>8
  <2>2. V[q.args[1]].shape = "mat" /\ V[j] = Gemm(V[q.args[1]], V[q.args[2]], FALSE)
    BY <1>9, <1>11, <2>1
  <2>3. p.alpha = One /\ Product(n, ArgsOf(n, V)) # Throws
    BY <1>1, <1>10, <1>12
  <2> QED
    BY <1>3, <1>4, <1>5, <1>6, <1>7, <2>2, <2>3, SumProduct
<1>14. V[pid] = r
  <2>1. V[pid] = Compute(p, ArgsOf(p, V))
    BY <1>1, <1>2, <1>3 DEF Values, Computed
  <2> QED
    BY <1>10, <1>13, <2>1 DEF SumComputed
<1>15. V[i] = Activated(n.act, r) /\ V[i] # Throws
  <2>1. ActivationComputes(a, pid, V)
    BY <1>2, <1>5, ActivationOf
  <2> QED
    BY <1>1, <1>2, <1>4, <1>14, <2>1 DEF Values, Computed, ActivationComputes
<1>16. PICK W : W = [y \in Ids(g) \cup {new} |-> IF y = new THEN V[i] ELSE V[y]]
  OBVIOUS
<1>17. W[new] = V[i] /\ \A y \in Ids(g) : W[y] = V[y]
  BY <1>5, <1>16
<1>18. ArgsOf(n, W) = ArgsOf(n, V)
  <2>1. \A y \in Operands(n) : y \in Ids(g)
    <3>1. \A y \in Operands(n) : y \in Operands(q) \/ y \in Operands(p)
      BY <1>3, <1>4 DEF Operands
    <3> QED
      BY <1>1, <1>2, <1>3, <3>1, NodesOf
  <2>2. Agree(n, W, V)
    BY <1>17, <2>1 DEF Agree
  <2> QED
    BY <1>4, <2>2, ArgsSame
<1>19. Computed(n, new, W)
  <2>1. Compute(n, ArgsOf(n, V)) = Activated(n.act, r)
    BY <1>4, <1>10, ProductOfArgs
  <2> QED
    BY <1>4, <1>15, <1>17, <1>18, <2>1 DEF Computed
<1>20. Transfer(g, i, {i, pid, j}, V, W)
  BY <1>1, <1>3, <1>17 DEF Transfer
<1>21. Values(h, W)
  BY <1>1, <1>19, <1>20, ValuesForth
<1> QED
  BY <1>1, <1>17, <1>21 DEF Forth

-----------------------------------------------------------------------------
(* Shapes are static: s tells those of a graph's values. A product is of a *)
(* matrix, and a node makes a tensor of its shape from operands of theirs. *)
OperandsShaped(n, s, W) == \A a \in Operands(n) : Tensor(W[a]) /\ W[a].shape = s[a]

ShapedBy(n, i, s) ==
  /\ n.op = "mm" => s[n.args[1]] = "mat"
  /\ n.op = "addmm" => s[n.args[2]] = "mat"
  /\ n.op # "output" =>
       \A W : OperandsShaped(n, s, W) /\ Computed(n, i, W) => Tensor(W[i]) /\ W[i].shape = s[i]

Shapes(g, s) == \A x \in Ids(g) : ShapedBy(g.nodes[x], x, s)
Shapable(g)  == \E s : Shapes(g, s)

(* The nodes of M have values, and what else they use has its shape.       *)
Fed(g, M, s, W) ==
  \A x \in M :
    /\ x \in Ids(g) /\ g.nodes[x].op # "output" /\ Computed(g.nodes[x], x, W)
    /\ \A a \in Operands(g.nodes[x]) : a \in M \/ (Tensor(W[a]) /\ W[a].shape = s[a])

(* They have theirs.                                                       *)
LEMMA ShapesForced ==
  ASSUME NEW g, WellFormed(g), NEW s, Shapes(g, s), NEW M, NEW W, Fed(g, M, s, W)
  PROVE  \A x \in M : Tensor(W[x]) /\ W[x].shape = s[x]
<1>1. Len(g.order) \in Nat /\ DOMAIN g.order = 1..Len(g.order) /\ Sound(g)
  BY DEF WellFormed, Sound, Graph
<1> DEFINE OK(p) == g.order[p] \in M => Tensor(W[g.order[p]]) /\ W[g.order[p]].shape = s[g.order[p]]
           S == {k \in Nat : k <= Len(g.order) => \A p \in 1..k : OK(p)}
<1>2. 0 \in S
  OBVIOUS
<1>3. ASSUME NEW k \in Nat, k \in S PROVE k + 1 \in S
  <2> SUFFICES ASSUME k + 1 <= Len(g.order) PROVE OK(k + 1)
    <3>1. \A p \in 1..(k + 1) : p \in 1..k \/ p = k + 1
      OBVIOUS
    <3>2. k + 1 <= Len(g.order) => k <= Len(g.order)
      BY <1>1
    <3> HIDE DEF OK
    <3> QED
      BY <1>3, <3>1, <3>2
  <2>1. PICK i, n : i = g.order[k + 1] /\ n = g.nodes[i]
    OBVIOUS
  <2>2. i \in Ids(g) /\ \A a \in Operands(n) : \E p \in 1..k : g.order[p] = a
    <3>1. AfterNodes(g, k, i)
      BY <1>1, <2>1, NextExecuted
    <3> QED
      BY <2>1, <3>1 DEF AfterNodes
  <2> SUFFICES ASSUME i \in M PROVE Tensor(W[i]) /\ W[i].shape = s[i]
    BY <2>1
  <2>3. ASSUME NEW a \in Operands(n) PROVE Tensor(W[a]) /\ W[a].shape = s[a]
    <3>1. PICK p \in 1..k : g.order[p] = a
      BY <2>2
    <3>2. OK(p)
      <4>1. k <= Len(g.order)
        BY <1>1
      <4> HIDE DEF OK
      <4> QED
        BY <1>3, <3>1, <4>1
    <3> QED
      BY <2>1, <3>1, <3>2 DEF Fed
  <2>4. OperandsShaped(n, s, W)
    BY <2>3 DEF OperandsShaped
  <2>5. n.op # "output" /\ Computed(n, i, W)
    BY <2>1 DEF Fed
  <2> QED
    BY <2>1, <2>2, <2>4, <2>5 DEF Shapes, ShapedBy
<1>4. \A k \in Nat : k \in S
  <2> HIDE DEF S
  <2> QED
    BY <1>2, <1>3, SetInduction
<1>5. \A p \in 1..Len(g.order) : OK(p)
  BY <1>1, <1>4
<1>6. \A x \in M : \E p \in 1..Len(g.order) : g.order[p] = x
  BY <1>1 DEF Fed, Ids, ToSet
<1> QED
  BY <1>5, <1>6

(* So have all the values of a graph.                                      *)
LEMMA ShapesOfValues ==
  ASSUME NEW g, WellFormed(g), Terminal(g), NEW s, Shapes(g, s), NEW W, Values(g, W)
  PROVE  \A x \in Ids(g) : g.nodes[x].op # "output" => Tensor(W[x]) /\ W[x].shape = s[x]
<1>1. PICK M : M = {x \in Ids(g) : g.nodes[x].op # "output"}
  OBVIOUS
<1>2. Fed(g, M, s, W)
  <2> SUFFICES ASSUME NEW x \in M
               PROVE  /\ x \in Ids(g) /\ g.nodes[x].op # "output" /\ Computed(g.nodes[x], x, W)
                      /\ \A a \in Operands(g.nodes[x]) : a \in M
    BY DEF Fed
  <2>1. x \in Ids(g) /\ g.nodes[x].op # "output" /\ Computed(g.nodes[x], x, W)
    BY <1>1 DEF Values
  <2>2. ASSUME NEW a \in Operands(g.nodes[x]) PROVE a \in M
    <3>1. x \in Users(g, a) /\ a \in Ids(g)
      BY <2>1, NodesOf DEF Users
    <3> QED
      BY <1>1, <3>1 DEF Terminal
  <2> QED
    BY <2>1, <2>2
<1>3. \A x \in M : Tensor(W[x]) /\ W[x].shape = s[x]
  BY <1>2, ShapesForced
<1> QED
  BY <1>1, <1>3

-----------------------------------------------------------------------------
(* What both rewrites keep.                                                *)
BenignNow(g) ==
  \A x \in Ids(g) :
    LET n == g.nodes[x]
    IN  /\ n.op # "relu_"
        /\ n.op = "add" /\ n.alpha # One => \A j \in Operands(n) : g.nodes[j].op # "mm"

(* The form that both passes keep.                                         *)
Formed(g) == SoleOutput(g) /\ Terminal(g) /\ BenignNow(g)

(* The operands that give a node its shape.                                *)
LEMMA ShapingOperand ==
  ASSUME NEW n \in Nodes, Shaped(n), NEW k \in {1, 2},
         \/ k = 1 /\ n.op \in {"mm", "linear", "linear_act", "add", "mul", "pointwise", "relu_"} \cup Jit!Unary
         \/ k = 2 /\ n.op = "addmm"
  PROVE  k \in DOMAIN n.args /\ n.args[k] # 0 /\ n.args[k] \in Operands(n)
<1>1. PICK l : l = Len(n.args)
  OBVIOUS
<1>2. DOMAIN n.args = 1..l /\ l \in Nat
  BY <1>1, NaturalSequence DEF Nodes
<1>3. n.op # "addmm" => k = 1 /\ l # 0
  <2>1. n.op \in {"relu_"} \cup Jit!Unary => l = 1
    BY <1>1 DEF Shaped
  <2>2. n.op \in {"mm", "add", "mul"} => l = 2
    BY <1>1 DEF Shaped
  <2>3. n.op \in {"linear", "linear_act"} => l = 2 \/ l = 3
    BY <1>1 DEF Shaped
  <2>4. n.op = "pointwise" => l # 0
    BY <1>1 DEF Shaped
  <2> QED
    BY <2>1, <2>2, <2>3, <2>4
<1>4. n.op = "addmm" => k = 2 /\ l = 3
  BY <1>1 DEF Shaped, Jit!Unary
<1>5. k \in DOMAIN n.args
  <2>1. (k = 1 /\ l # 0) \/ (k = 2 /\ l = 3)
    BY <1>3, <1>4
  <2>2. k \in 1..l
    BY <1>2, <2>1
  <2> QED
    BY <1>2, <2>2
<1>6. n.args[k] # 0
  BY <1>5 DEF Shaped, Jit!Unary
<1> QED
  BY <1>5, <1>6 DEF Operands, ToSet

(* Every result linear_act can have tells what the nodes gone computed.    *)
Tells(g, i, gone, n, s) ==
  \A W : Computed(n, Len(g.nodes) + 1, W) /\ OperandsShaped(n, s, W) => Told(g, i, gone, W)

(* A node that is not rewritten keeps its shape.                           *)
LEMMA ShapeRenamed ==
  ASSUME NEW n \in Nodes, Shaped(n), NEW x, NEW s, ShapedBy(n, x, s),
         NEW old \in Nat \ {0}, NEW new \in Nat \ {0}, NEW m, m = Renamed(n, old, new),
         NEW t, t[new] = s[old], t[x] = s[x], x # old, x # new, old # new,
         \A a \in Operands(n) : a # new /\ (a # old => t[a] = s[a])
  PROVE  ShapedBy(m, x, t)
<1>1. /\ m.op = n.op /\ DOMAIN m.args = DOMAIN n.args
      /\ \A k \in DOMAIN n.args : m.args[k] = IF n.args[k] = old THEN new ELSE n.args[k]
      /\ Operands(m) = (Operands(n) \ {old}) \cup (IF old \in Operands(n) THEN {new} ELSE {})
  BY RenamedNode
<1>2. n.args \in Seq(Nat)
  BY DEF Nodes
<1>3. ASSUME NEW k \in {1, 2}, (n.op = "mm" /\ k = 1) \/ (n.op = "addmm" /\ k = 2)
      PROVE  t[m.args[k]] = s[n.args[k]]
  <2>1. k \in DOMAIN n.args /\ n.args[k] \in Operands(n)
    BY <1>3, ShapingOperand
  <2>2. CASE n.args[k] = old
    BY <1>1, <2>1, <2>2
  <2>3. CASE n.args[k] # old
    BY <1>1, <2>1, <2>3
  <2> QED
    BY <2>2, <2>3
<1>4. m.op = "mm" => t[m.args[1]] = "mat"
  <2> SUFFICES ASSUME n.op = "mm" PROVE t[m.args[1]] = "mat"
    BY <1>1
  <2>1. PICK k \in {1, 2} : k = 1
    OBVIOUS
  <2>2. t[m.args[k]] = s[n.args[k]]
    BY <1>3, <2>1
  <2>3. s[n.args[1]] = "mat"
    BY DEF ShapedBy
  <2> QED
    BY <2>1, <2>2, <2>3
<1>5. m.op = "addmm" => t[m.args[2]] = "mat"
  <2> SUFFICES ASSUME n.op = "addmm" PROVE t[m.args[2]] = "mat"
    BY <1>1
  <2>1. PICK k \in {1, 2} : k = 2
    OBVIOUS
  <2>2. t[m.args[k]] = s[n.args[k]]
    BY <1>3, <2>1
  <2>3. s[n.args[2]] = "mat"
    BY DEF ShapedBy
  <2> QED
    BY <2>1, <2>2, <2>3
<1>6. ASSUME m.op # "output", NEW W, OperandsShaped(m, t, W), Computed(m, x, W)
      PROVE  Tensor(W[x]) /\ W[x].shape = t[x]
  <2>1. PICK V : V = [a \in Operands(n) \cup {x} |-> IF a = old THEN W[new] ELSE W[a]]
    OBVIOUS
  <2>2. V[x] = W[x] /\ RenamedAgree(n, old, new, V, W)
    BY <2>1 DEF RenamedAgree
  <2>3. Computed(n, x, V)
    BY <1>6, <2>2, RenamedComputed
  <2>4. OperandsShaped(n, s, V)
    <3> SUFFICES ASSUME NEW a \in Operands(n) PROVE Tensor(V[a]) /\ V[a].shape = s[a]
      BY DEF OperandsShaped
    <3>1. CASE a = old
      <4>1. new \in Operands(m) /\ V[a] = W[new]
        BY <1>1, <2>2, <3>1 DEF RenamedAgree
      <4> QED
        BY <1>6, <3>1, <4>1 DEF OperandsShaped
    <3>2. CASE a # old
      <4>1. a \in Operands(m) /\ V[a] = W[a]
        BY <1>1, <2>2, <3>2 DEF RenamedAgree
      <4> QED
        BY <1>6, <3>2, <4>1 DEF OperandsShaped
    <3> QED
      BY <3>1, <3>2
  <2> QED
    BY <1>1, <1>6, <2>2, <2>3, <2>4 DEF ShapedBy
<1> QED
  BY <1>4, <1>5, <1>6 DEF ShapedBy

(* The operands of a new node are nodes that stay.                         *)
LEMMA NewOperands ==
  ASSUME NEW g, WellFormed(g), NEW n, NEW i, NEW gone, gone \subseteq Ids(g), NEW h,
         Rewritten(g, n, i, gone, h)
  PROVE  \A a \in Operands(n) : a \in Ids(g) \ gone /\ a \in Ids(h) /\ h.nodes[a].op = g.nodes[a].op
<1>1. PICK new : new = Len(g.nodes) + 1
  OBVIOUS
<1>2. new \notin Ids(g) /\ new \in Nat \ {0}
  BY <1>1, IdsOfGraph DEF WellFormed, Sound
<1>3. WellFormed(h) /\ h.nodes[new] = n /\ Ids(h) = (Ids(g) \cup {new}) \ gone
  BY <1>1 DEF Rewritten
<1>4. new \in Ids(h)
  BY <1>2, <1>3
<1>5. \A a \in Operands(n) : a \in Ids(h) /\ a # new
  BY <1>3, <1>4, NodesOf
<1>6. \A a \in Operands(n) : a \in Ids(g) \ gone
  BY <1>3, <1>5
<1>7. \A a \in Ids(g) \ gone : h.nodes[a] = Renamed(g.nodes[a], i, new)
  BY <1>1 DEF Rewritten
<1>8. ASSUME NEW a \in Ids(g) \ gone PROVE h.nodes[a].op = g.nodes[a].op
  <2>1. h.nodes[a] = [g.nodes[a] EXCEPT !.args = ReplaceAll(g.nodes[a].args, i, new)]
    BY <1>7 DEF Renamed
  <2>2. g.nodes[a] \in Nodes
    BY NodesOf
  <2> QED
    BY <2>1, <2>2 DEF Nodes
<1> QED
  BY <1>5, <1>6, <1>8

(* Shapes of g are shapes of h, the new node having that of i.             *)
LEMMA ShapesKept ==
  ASSUME NEW g, WellFormed(g), NEW s, Shapes(g, s), NEW i, NEW pid, NEW n, NEW gone, NEW h,
         GemmErases(g, i, pid, n, gone, h), Tells(g, i, gone, n, s)
  PROVE  \E t : Shapes(h, t) /\ \A a \in Operands(n) : t[a] = s[a]
<1>1. PICK new : new = Len(g.nodes) + 1
  OBVIOUS
<1>2. /\ n \in Nodes /\ n.op = "linear_act" /\ gone \subseteq Ids(g) /\ i \in gone /\ i \in Ids(g)
      /\ \A u \in gone : Operands(g.nodes[u]) \subseteq gone \cup Operands(n)
      /\ Rewritten(g, n, i, gone, h)
  BY DEF GemmErases
<1>3. /\ WellFormed(h) /\ h.nodes[new] = n /\ Ids(h) = (Ids(g) \cup {new}) \ gone
      /\ \A x \in Ids(g) \ gone : h.nodes[x] = Renamed(g.nodes[x], i, new)
  BY <1>1, <1>2 DEF Rewritten
<1>4. new \notin Ids(g) /\ new \in Nat \ {0} /\ i \in Nat \ {0}
  BY <1>1, <1>2, NodesOf, IdsOfGraph DEF WellFormed, Sound
<1>5. PICK t : t = [x \in Ids(g) \cup {new} |-> IF x = new THEN s[i] ELSE s[x]]
  OBVIOUS
<1>6. t[new] = s[i] /\ \A x \in Ids(g) : t[x] = s[x]
  BY <1>4, <1>5
<1>7. \A a \in Operands(n) : a \in Ids(g) \ gone /\ t[a] = s[a]
  BY <1>2, <1>6, NewOperands
<1>8. ASSUME NEW W, OperandsShaped(n, t, W), Computed(n, new, W)
      PROVE  Tensor(W[new]) /\ W[new].shape = t[new]
  <2>1. OperandsShaped(n, s, W)
    BY <1>7, <1>8 DEF OperandsShaped
  <2>2. Told(g, i, gone, W)
    BY <1>1, <1>8, <2>1 DEF Tells
  <2>3. PICK V : /\ Transfer(g, i, gone, V, W)
                 /\ \A x \in gone : Computed(g.nodes[x], x, V) /\ g.nodes[x].op # "output"
    BY <2>2 DEF Told
  <2>4. Fed(g, gone, s, V)
    <3> SUFFICES ASSUME NEW x \in gone, NEW a \in Operands(g.nodes[x])
                 PROVE  a \in gone \/ (Tensor(V[a]) /\ V[a].shape = s[a])
      BY <1>2, <2>3 DEF Fed
    <3>1. CASE a \in gone
      BY <3>1
    <3>2. CASE a \notin gone
      <4>1. a \in Operands(n) /\ a \in Ids(g) \ gone
        BY <1>2, <1>7, <3>2
      <4>2. V[a] = W[a]
        BY <2>3, <4>1 DEF Transfer
      <4> QED
        BY <2>1, <4>1, <4>2 DEF OperandsShaped
    <3> QED
      BY <3>1, <3>2
  <2>5. Tensor(V[i]) /\ V[i].shape = s[i]
    BY <1>2, <2>4, ShapesForced
  <2>6. V[i] = W[new]
    BY <1>1, <2>3 DEF Transfer
  <2> QED
    BY <1>6, <2>5, <2>6
<1>9. ShapedBy(n, new, t)
  BY <1>2, <1>8 DEF ShapedBy
<1>10. ASSUME NEW x \in Ids(g) \ gone PROVE ShapedBy(h.nodes[x], x, t)
  <2>1. PICK m : m = g.nodes[x]
    OBVIOUS
  <2>2. m \in Nodes /\ Shaped(m) /\ x # new /\ x # i /\ i # new
        /\ \A a \in Operands(m) : a # new /\ a \in Ids(g)
    BY <1>2, <1>4, <2>1, NodesOf
  <2>3. ShapedBy(m, x, s) /\ t[x] = s[x] /\ h.nodes[x] = Renamed(m, i, new)
    BY <1>3, <1>6, <2>1 DEF Shapes
  <2>4. \A a \in Operands(m) : a # new /\ (a # i => t[a] = s[a])
    BY <1>6, <2>2
  <2> QED
    BY <1>4, <1>6, <2>2, <2>3, <2>4, ShapeRenamed
<1>11. Shapes(h, t)
  BY <1>3, <1>9, <1>10 DEF Shapes
<1> QED
  BY <1>7, <1>11

(* What linear_act tells relates the graphs before and after.              *)
LEMMA GemmBack ==
  ASSUME NEW g, WellFormed(g), NEW s, Shapes(g, s), NEW i, NEW pid, NEW n, NEW gone, NEW h,
         GemmErases(g, i, pid, n, gone, h), Tells(g, i, gone, n, s), Formed(h)
  PROVE  Back(g, h) /\ Shapable(h)
<1>1. PICK t : Shapes(h, t) /\ \A a \in Operands(n) : t[a] = s[a]
  BY ShapesKept
<1>2. Rewritten(g, n, i, gone, h) /\ gone \subseteq Ids(g) /\ WellFormed(h)
  BY DEF GemmErases, Rewritten
<1>3. ASSUME NEW W, Values(h, W) PROVE \E V : SameResults(g, V, h, W)
  <2>1. Computed(n, Len(g.nodes) + 1, W)
    BY <1>2, <1>3, NewComputed
  <2>2. OperandsShaped(n, s, W)
    <3> SUFFICES ASSUME NEW a \in Operands(n) PROVE Tensor(W[a]) /\ W[a].shape = s[a]
      BY DEF OperandsShaped
    <3>1. a \in Ids(h) /\ h.nodes[a].op # "output"
      <4>1. a \in Ids(h) /\ Len(g.nodes) + 1 \in Ids(h) /\ h.nodes[Len(g.nodes) + 1] = n
        <5>1. Len(g.nodes) + 1 \notin Ids(g)
          BY IdsOfGraph DEF WellFormed, Sound
        <5>2. Len(g.nodes) + 1 \in Ids(h) /\ h.nodes[Len(g.nodes) + 1] = n
          BY <1>2, <5>1 DEF Rewritten
        <5>3. a \in Ids(h)
          BY <1>2, NewOperands
        <5> QED
          BY <5>2, <5>3
      <4>2. Users(h, a) # {}
        BY <4>1 DEF Users
      <4> QED
        BY <4>1, <4>2 DEF Formed, Terminal
    <3> QED
      BY <1>1, <1>2, <1>3, <3>1, ShapesOfValues DEF Formed
  <2>3. Told(g, i, gone, W)
    BY <2>1, <2>2 DEF Tells
  <2>4. PICK V : /\ Transfer(g, i, gone, V, W)
                 /\ \A x \in gone : Computed(g.nodes[x], x, V) /\ g.nodes[x].op # "output"
    BY <2>3 DEF Told
  <2>5. SameResults(g, V, h, W)
    BY <1>2, <1>3, <2>4, ValuesBack
  <2> QED
    BY <2>5
<1> QED
  BY <1>1, <1>3 DEF Back, Shapable

(* The shape of what an operator makes depends on its operands' shapes.    *)
SameShapes(n, V, W) ==
  \A a \in Operands(n) : Tensor(V[a]) /\ Tensor(W[a]) /\ V[a].shape = W[a].shape

(* ... so that a node's arguments have.                                    *)
LEMMA ArgumentShapes ==
  ASSUME NEW n \in Nodes, NEW V, NEW W, SameShapes(n, V, W),
         NEW vs, vs = ArgsOf(n, V), NEW ws, ws = ArgsOf(n, W)
  PROVE  /\ Len(vs) = Len(ws)
         /\ \A k \in DOMAIN n.args : vs[k].shape = ws[k].shape
         /\ \A k \in DOMAIN n.args : n.args[k] # 0 => Tensor(vs[k]) /\ Tensor(ws[k])
<1>1. n.args \in Seq(Nat) /\ DOMAIN n.args = 1..Len(n.args)
  BY DEF Nodes
<1>2. Len(vs) = Len(n.args) /\ Len(ws) = Len(n.args)
  BY ArgsOfNode
<1>3. ASSUME NEW k \in DOMAIN n.args
      PROVE  vs[k].shape = ws[k].shape /\ (n.args[k] # 0 => Tensor(vs[k]) /\ Tensor(ws[k]))
  <2>1. vs[k] = Worth(V, n.args[k], n.c) /\ ws[k] = Worth(W, n.args[k], n.c)
    BY <1>1, ArgsOfNode
  <2>2. CASE n.args[k] = 0
    BY <2>1, <2>2 DEF Worth
  <2>3. CASE n.args[k] # 0
    <3>1. n.args[k] \in Operands(n)
      BY <2>3 DEF Operands, ToSet
    <3>2. vs[k] = V[n.args[k]] /\ ws[k] = W[n.args[k]]
      BY <2>1, <2>3 DEF Worth
    <3> QED
      BY <3>1, <3>2 DEF SameShapes
  <2> QED
    BY <2>2, <2>3
<1> QED
  BY <1>2, <1>3

(* ... and what a node computes has the shape that its arguments' shapes   *)
(* fix.                                                                    *)
LEMMA ShapeDetermined ==
  ASSUME NEW n \in Nodes, Shaped(n), n.op # "output", NEW V, NEW W, SameShapes(n, V, W),
         NEW i, Computed(n, i, V), Computed(n, i, W)
  PROVE  Tensor(W[i]) /\ W[i].shape = V[i].shape
<1>1. PICK vs, ws : vs = ArgsOf(n, V) /\ ws = ArgsOf(n, W)
  OBVIOUS
<1>2. CASE n.op = "in"
  BY <1>2 DEF Computed, InputValue, Tensor, Shaped
<1>3. CASE n.op # "in"
  <2>1. PICK v, w : v = V[i] /\ w = W[i]
    OBVIOUS
  <2>2. /\ v = Compute(n, vs) /\ v # Throws /\ w = Compute(n, ws) /\ w # Throws
        /\ n.op \notin {"in", "output"}
    BY <1>1, <1>3, <2>1 DEF Computed
  <2>3. (\A a \in Operands(n) : Tensor(V[a])) /\ (\A a \in Operands(n) : Tensor(W[a]))
    BY DEF SameShapes
  <2>4. Tensor(v) /\ Tensor(w)
    BY <1>1, <2>2, <2>3, TensorComputed
  <2>5. /\ Len(vs) = Len(ws)
        /\ \A k \in DOMAIN n.args : vs[k].shape = ws[k].shape
        /\ \A k \in DOMAIN n.args : n.args[k] # 0 => Tensor(vs[k]) /\ Tensor(ws[k])
    BY <1>1, ArgumentShapes
  <2>6. PICK l : l = Len(n.args) /\ DOMAIN n.args = 1..l /\ l \in Nat
    BY NaturalSequence DEF Nodes
  <2>7. CASE n.op \in {"mm", "addmm"}
    <3>1. (\E t : v = Matrix(t)) /\ (\E t : w = Matrix(t))
      <4>1. CASE n.op = "mm"
        <5>1. PICK t : t = FALSE
          OBVIOUS
        <5>2. v = Gemm(vs[1], vs[2], t) /\ w = Gemm(ws[1], ws[2], t)
          <6>1. \A us : Compute(n, us) = Gemm(us[1], us[2], t)
            BY ONLY <4>1, <5>1 DEF Compute, Jit!Unary
          <6> QED
            BY <2>2, <6>1
        <5> QED
          BY <2>2, <5>2, GemmTensor
      <4>2. CASE n.op = "addmm"
        BY <2>2, <4>2 DEF Compute, Jit!Unary
      <4> QED
        BY <2>7, <4>1, <4>2
    <3> QED
      BY <2>1, <2>4, <3>1, MatrixTensor
  <2>8. CASE n.op \in {"linear", "linear_act"}
    <3>1. 1 \in DOMAIN n.args /\ vs[1].shape = ws[1].shape
      <4>1. 1 \in DOMAIN n.args
        BY <2>8, ShapingOperand
      <4> QED
        BY <2>5, <4>1
    <3>2. CASE n.op = "linear"
      <4>1. PICK t : t = TRUE
        OBVIOUS
      <4>2. v = LinearOf(vs, t) /\ w = LinearOf(ws, t)
        BY <2>2, <3>2, <4>1 DEF Compute, LinearOf, Jit!Unary
      <4>3. v.shape = vs[1].shape /\ w.shape = ws[1].shape
        BY <2>2, <4>2, LinearTensor
      <4> QED
        BY <2>1, <2>4, <3>1, <4>3
    <3>3. CASE n.op = "linear_act"
      <4>1. PICK x, y : x = Product(n, vs) /\ y = Product(n, ws)
        OBVIOUS
      <4>2. v = Activated(n.act, x) /\ w = Activated(n.act, y)
        BY <1>1, <2>2, <3>3, <4>1, ProductOfArgs
      <4>3. x # Throws /\ y # Throws
        BY <2>2, <4>2 DEF Activated
      <4>4. Tensor(x) /\ x.shape = vs[1].shape /\ Tensor(y) /\ y.shape = ws[1].shape
        BY <4>1, <4>3, LinearTensor DEF Product
      <4>5. v.shape = x.shape /\ w.shape = y.shape
        BY <4>2, <4>4, ActivatedTensor
      <4> QED
        BY <2>1, <2>4, <3>1, <4>4, <4>5
    <3> QED
      BY <2>8, <3>2, <3>3
  <2>9. CASE n.op \in {"add", "mul"}
    <3>1. v.shape = Joined(vs[1], vs[2]) /\ w.shape = Joined(ws[1], ws[2])
      <4>1. CASE n.op = "add"
        BY <2>2, <4>1 DEF Compute, Jit!Unary
      <4>2. CASE n.op = "mul"
        BY <2>2, <4>2 DEF Compute, Jit!Unary
      <4> QED
        BY <2>9, <4>1, <4>2
    <3>2. vs[1].shape = ws[1].shape /\ vs[2].shape = ws[2].shape
      <4>1. l = 2
        BY <2>6, <2>9 DEF Shaped
      <4> QED
        BY <2>5, <2>6, <4>1
    <3>3. Joined(vs[1], vs[2]) = Joined(ws[1], ws[2])
      BY <3>2 DEF Joined
    <3> QED
      BY <2>1, <2>4, <3>1, <3>3
  <2>10. CASE n.op \in {"pointwise", "relu_"} \cup Jit!Unary
    <3>1. 1 \in DOMAIN n.args /\ n.args[1] # 0
      BY <2>10, ShapingOperand
    <3>2. Tensor(vs[1]) /\ Tensor(ws[1]) /\ vs[1].shape = ws[1].shape
      BY <2>5, <3>1
    <3>3. PICK x, y : x = vs[1] /\ y = ws[1]
      OBVIOUS
    <3>4. CASE n.op = "pointwise"
      <4>1. v = PointwiseCall(n.prog, vs) /\ w = PointwiseCall(n.prog, ws)
        BY <2>2, <3>4 DEF Compute, Jit!Unary
      <4>2. PICK t, u : v = [x EXCEPT !.term = t] /\ w = [y EXCEPT !.term = u]
        BY <2>2, <3>3, <4>1 DEF PointwiseCall
      <4>3. v.shape = x.shape /\ w.shape = y.shape
        BY <3>2, <3>3, <4>2, TermChanged
      <4> QED
        BY <2>1, <2>4, <3>2, <3>3, <4>3
    <3>5. CASE n.op # "pointwise"
      <4>1. PICK act : v = Activated(act, x) /\ w = Activated(act, y)
        BY <2>2, <2>10, <3>3, <3>5 DEF Compute, Jit!Unary
      <4>2. v.shape = x.shape /\ w.shape = y.shape
        BY <3>2, <3>3, <4>1, ActivatedTensor
      <4> QED
        BY <2>1, <2>4, <3>2, <3>3, <4>2
    <3> QED
      BY <3>4, <3>5
  <2> QED
    BY <1>3, <2>2, <2>7, <2>8, <2>9, <2>10 DEF Nodes, Operators, PointwiseOps
<1> QED
  BY <1>2, <1>3

(* A graph that has values has shapes: those of the values.                *)
LEMMA ShapesMade ==
  ASSUME NEW g, WellFormed(g), Terminal(g), NEW V, Values(g, V)
  PROVE  Shapable(g)
<1>1. PICK s : s = [x \in Ids(g) |-> V[x].shape]
  OBVIOUS
<1>2. \A x \in Ids(g) : s[x] = V[x].shape
  BY <1>1
<1>3. ASSUME NEW x \in Ids(g) PROVE ShapedBy(g.nodes[x], x, s)
  <2>1. PICK n, vs : n = g.nodes[x] /\ vs = ArgsOf(n, V)
    OBVIOUS
  <2>2. n \in Nodes /\ Shaped(n) /\ Computed(n, x, V)
        /\ \A a \in Operands(n) : a \in Ids(g)
    BY <2>1, NodesOf DEF Values
  <2>3. \A a \in Operands(n) : Tensor(V[a]) /\ V[a].shape = s[a]
    <3>1. \A a \in Operands(n) : g.nodes[a].op # "output"
      BY <2>1, <2>2 DEF Terminal, Users
    <3> QED
      BY <1>2, <2>2, <3>1, TensorValues
  <2>4. n.op # "output" =>
          \A W : OperandsShaped(n, s, W) /\ Computed(n, x, W) => Tensor(W[x]) /\ W[x].shape = s[x]
    <3> SUFFICES ASSUME n.op # "output", NEW W, OperandsShaped(n, s, W), Computed(n, x, W)
                 PROVE  Tensor(W[x]) /\ W[x].shape = s[x]
      OBVIOUS
    <3>1. SameShapes(n, V, W)
      BY <2>3 DEF SameShapes, OperandsShaped
    <3> QED
      BY <1>2, <2>2, <3>1, ShapeDetermined
  <2>5. ASSUME NEW k, (n.op = "mm" /\ k = 1) \/ (n.op = "addmm" /\ k = 2) PROVE s[n.args[k]] = "mat"
    <3>1. k \in {1, 2}
      BY <2>5
    <3>2. k \in DOMAIN n.args /\ n.args[k] # 0 /\ n.args[k] \in Operands(n)
      BY <2>2, <2>5, <3>1, ShapingOperand
    <3>6. vs[k] = V[n.args[k]]
      BY <2>1, <3>2 DEF ArgsOf, Worth
    <3>7. V[x] = Compute(n, vs) /\ V[x] # Throws
      BY <2>1, <2>2, <2>5 DEF Computed
    <3>8. vs[k].shape = "mat"
      <4>1. CASE n.op = "mm"
        <5>1. PICK t : t = FALSE
          OBVIOUS
        <5>2. Compute(n, vs) = Gemm(vs[1], vs[2], t)
          BY ONLY <4>1, <5>1 DEF Compute, Jit!Unary
        <5> QED
          BY <2>5, <3>7, <4>1, <5>2, GemmTensor
      <4>2. CASE n.op = "addmm"
        <5>1. PICK t : t = FALSE
          OBVIOUS
        <5>2. Gemm(vs[2], vs[3], t) = Throws => Compute(n, vs) = Throws
          BY ONLY <4>2, <5>1 DEF Compute, Jit!Unary
        <5> QED
          BY <2>5, <3>7, <4>2, <5>2, GemmTensor
      <4> QED
        BY <2>5, <4>1, <4>2
    <3> QED
      BY <2>3, <3>2, <3>6, <3>8
  <2>6. n.op = "mm" => s[n.args[1]] = "mat"
    BY <2>5
  <2>7. n.op = "addmm" => s[n.args[2]] = "mat"
    BY <2>5
  <2> QED
    BY <2>1, <2>4, <2>6, <2>7 DEF ShapedBy
<1> QED
  BY <1>3 DEF Shapes, Shapable

(* A node of the new graph: the new one, or one of the old graph.          *)
Renewed(g, i, h, m, n) ==
  LET new == Len(g.nodes) + 1
  IN  \/ m = new /\ h.nodes[m] = n
      \/ /\ m \in Ids(g) /\ m # new /\ h.nodes[m] = Renamed(g.nodes[m], i, new)
         /\ h.nodes[m] \in Nodes /\ Shaped(g.nodes[m])
         /\ h.nodes[m].op = g.nodes[m].op /\ h.nodes[m].alpha = g.nodes[m].alpha
         /\ Len(h.nodes[m].args) = Len(g.nodes[m].args)
         /\ \A k \in DOMAIN g.nodes[m].args :
              h.nodes[m].args[k] = IF g.nodes[m].args[k] = i THEN new ELSE g.nodes[m].args[k]
         /\ \A a \in Operands(h.nodes[m]) :
              \/ a = new /\ i \in Operands(g.nodes[m])
              \/ a # new /\ a \in Operands(g.nodes[m]) /\ a \in Ids(g) /\ a \in Ids(h)
                         /\ h.nodes[a].op = g.nodes[a].op

(* Every node of the new graph is one of these.                            *)
LEMMA RenewedNodes ==
  ASSUME NEW g, WellFormed(g), NEW n, NEW i \in Ids(g), NEW gone, NEW h,
         Rewritten(g, n, i, gone, h), NEW m \in Ids(h)
  PROVE  Renewed(g, i, h, m, n)
<1>1. PICK new : new = Len(g.nodes) + 1
  OBVIOUS
<1>2. WellFormed(h) /\ h.nodes[new] = n /\ Ids(h) = (Ids(g) \cup {new}) \ gone
      /\ \A j \in Ids(g) \ gone : h.nodes[j] = Renamed(g.nodes[j], i, new)
  BY <1>1 DEF Rewritten
<1>3. CASE m = new
  BY <1>1, <1>2, <1>3 DEF Renewed
<1>4. CASE m # new
  <2>1. m \in Ids(g) \ gone
    BY <1>2, <1>4
  <2>2. i \in Nat \ {0} /\ new \in Nat \ {0}
    BY <1>1, NodesOf
  <2>3. \A x \in Ids(g) \ gone : h.nodes[x].op = g.nodes[x].op
    BY <1>2, <2>2, NodesOf, RenamedNode
  <2>4. PICK a, b : a = g.nodes[m] /\ b = h.nodes[m]
    OBVIOUS
  <2>5. a \in Nodes /\ Shaped(a) /\ b = Renamed(a, i, new)
    BY <1>2, <2>1, <2>4, NodesOf
  <2>6. /\ b \in Nodes /\ b.op = a.op /\ b.alpha = a.alpha /\ Len(b.args) = Len(a.args)
        /\ \A k \in DOMAIN a.args : b.args[k] = IF a.args[k] = i THEN new ELSE a.args[k]
        /\ Operands(b) = (Operands(a) \ {i}) \cup (IF i \in Operands(a) THEN {new} ELSE {})
    BY <2>2, <2>5, RenamedNode
  <2>7. \A x \in Operands(a) : x \in Ids(g) /\ x # new
    BY <1>1, <2>1, <2>4, NodesOf
  <2>8. \A x \in Operands(b) : x \in Ids(h)
    BY <1>2, <2>4, NodesOf
  <2>9. ASSUME NEW x \in Operands(b)
        PROVE  \/ x = new /\ i \in Operands(a)
               \/ x # new /\ x \in Operands(a) /\ x \in Ids(g) /\ x \in Ids(h)
                          /\ h.nodes[x].op = g.nodes[x].op
    <3>1. CASE x = new
      BY <2>6, <2>7, <3>1
    <3>2. CASE x # new
      <4>1. x \in Operands(a)
        BY <2>6, <3>2
      <4>2. x \in Ids(h) /\ x \in Ids(g) /\ x \in Ids(g) \ gone
        BY <1>2, <2>7, <2>8, <3>2, <4>1
      <4> QED
        BY <2>3, <3>2, <4>1, <4>2
    <3> QED
      BY <3>1, <3>2
  <2>10. m \in Ids(g) /\ m # new /\ h.nodes[m] = Renamed(g.nodes[m], i, new)
    BY <1>2, <1>4, <2>1
  <2> QED
    BY <1>1, <2>4, <2>5, <2>6, <2>9, <2>10 DEF Renewed
<1> QED
  BY <1>3, <1>4

(* A rewrite that uses what the nodes gone used keeps the form.            *)
LEMMA RewrittenFormed ==
  ASSUME NEW g, WellFormed(g), Formed(g), NEW n, n.op \in {"linear_act", "pointwise"},
         NEW i \in Ids(g), NEW gone, gone \subseteq Ids(g), NEW h, Rewritten(g, n, i, gone, h),
         Operands(n) \subseteq OperandsOf(g, gone)
  PROVE  Formed(h)
<1>1. PICK new : new = Len(g.nodes) + 1
  OBVIOUS
<1>2. h.nodes[new] = n /\ Ids(h) = (Ids(g) \cup {new}) \ gone
  BY <1>1 DEF Rewritten
<1>3. \A m \in Ids(h) : Renewed(g, i, h, m, n)
  BY RenewedNodes
<1>4. \A m \in Ids(h) : h.nodes[m].op = "output" => m \in Ids(g) /\ g.nodes[m].op = "output"
  BY <1>3 DEF Renewed
<1>5. SoleOutput(h)
  BY <1>4 DEF SoleOutput, Formed
<1>6. Terminal(h)
  <2> SUFFICES ASSUME NEW o \in Ids(h), h.nodes[o].op = "output", NEW u \in Users(h, o) PROVE FALSE
    BY DEF Terminal
  <2>1. o \in Ids(g) /\ g.nodes[o].op = "output" /\ Users(g, o) = {} /\ o # new
    BY <1>1, <1>4, NodesOf DEF Formed, Terminal
  <2>2. u \in Ids(h) /\ o \in Operands(h.nodes[u])
    BY DEF Users
  <2>3. CASE u = new
    <3>1. o \in OperandsOf(g, gone)
      BY <1>2, <2>2, <2>3
    <3>2. PICK x \in gone : o \in Operands(g.nodes[x])
      BY <3>1 DEF OperandsOf
    <3> QED
      BY <2>1, <3>2 DEF Users
  <2>4. CASE u # new
    <3>1. u \in Ids(g) /\ o \in Operands(g.nodes[u])
      BY <1>1, <1>3, <2>1, <2>2, <2>4 DEF Renewed
    <3> QED
      BY <2>1, <3>1 DEF Users
  <2> QED
    BY <2>3, <2>4
<1>7. BenignNow(h)
  <2> SUFFICES ASSUME NEW x \in Ids(h)
               PROVE  /\ h.nodes[x].op # "relu_"
                      /\ h.nodes[x].op = "add" /\ h.nodes[x].alpha # One =>
                           \A j \in Operands(h.nodes[x]) : h.nodes[j].op # "mm"
    BY DEF BenignNow
  <2>1. CASE x = new
    BY <1>2, <2>1
  <2>2. CASE x # new
    <3>1. /\ x \in Ids(g) /\ h.nodes[x].op = g.nodes[x].op /\ h.nodes[x].alpha = g.nodes[x].alpha
          /\ \A a \in Operands(h.nodes[x]) :
               a = new \/ (a \in Operands(g.nodes[x]) /\ h.nodes[a].op = g.nodes[a].op)
      BY <1>1, <1>3, <2>2 DEF Renewed
    <3>2. /\ g.nodes[x].op # "relu_"
          /\ g.nodes[x].op = "add" /\ g.nodes[x].alpha # One =>
               \A j \in Operands(g.nodes[x]) : g.nodes[j].op # "mm"
      BY <3>1 DEF Formed, BenignNow
    <3> QED
      BY <1>2, <3>1, <3>2
  <2> QED
    BY <2>1, <2>2
<1> QED
  BY <1>5, <1>6, <1>7 DEF Formed

(* Uniform, with the values as they are now, for a graph without sums that *)
(* the gemm pass fuses.                                                    *)
UniformNode(n, W) ==
  /\ n.op \in {"add", "mul"} => \A j, k \in Operands(n) : W[j].shape = W[k].shape
  /\ n.op = "addmm" => W[n.args[1]].shape = "row"

UniformNow(g, W) == \A x \in Ids(g) : UniformNode(g.nodes[x], W)

(* If g has values and is uniform, so is h.                                *)
Forwards(g, h) ==
  \A V : Values(g, V) /\ UniformNow(g, V) => \E W : Values(h, W) /\ UniformNow(h, W)

(* A rewrite keeps the shapes that meet.                                   *)
LEMMA RewrittenUniform ==
  ASSUME NEW g, WellFormed(g), NEW n, n.op \in {"linear_act", "pointwise"},
         NEW i \in Ids(g), NEW gone, NEW h, Rewritten(g, n, i, gone, h),
         NEW V, UniformNow(g, V), NEW W, W[Len(g.nodes) + 1] = V[i], \A x \in Ids(g) : W[x] = V[x]
  PROVE  UniformNow(h, W)
<1>1. PICK new : new = Len(g.nodes) + 1
  OBVIOUS
<1>2. h.nodes[new] = n
  BY <1>1 DEF Rewritten
<1> SUFFICES ASSUME NEW x \in Ids(h) PROVE UniformNode(h.nodes[x], W)
  BY DEF UniformNow
<1>3. Renewed(g, i, h, x, n)
  BY RenewedNodes
<1>4. CASE x = new
  BY <1>2, <1>4 DEF UniformNode
<1>5. CASE x # new
  <2>1. PICK a, b : a = g.nodes[x] /\ b = h.nodes[x]
    OBVIOUS
  <2>2. /\ x \in Ids(g) /\ b.op = a.op /\ Shaped(a)
        /\ \A k \in DOMAIN a.args : b.args[k] = IF a.args[k] = i THEN new ELSE a.args[k]
        /\ \A y \in Operands(b) :
             \/ y = new /\ i \in Operands(a)
             \/ y # new /\ y \in Operands(a) /\ y \in Ids(g) /\ h.nodes[y].op = g.nodes[y].op
    BY <1>1, <1>3, <1>5, <2>1 DEF Renewed
  <2>3. a \in Nodes /\ UniformNode(a, V)
    BY <2>1, <2>2, NodesOf DEF UniformNow
  <2>4. \A y \in Operands(b) : \E z \in Operands(a) : W[y] = V[z]
    BY <1>1, <2>2
  <2>5. b.op \in {"add", "mul"} => \A y, z \in Operands(b) : W[y].shape = W[z].shape
    BY <2>2, <2>3, <2>4 DEF UniformNode
  <2>7. b.op = "addmm" => W[b.args[1]].shape = "row"
    <3> SUFFICES ASSUME a.op = "addmm" PROVE W[b.args[1]].shape = "row"
      BY <2>2
    <3>1. a.args \in Seq(Nat) /\ Len(a.args) = 3
      BY <2>2, <2>3 DEF Shaped, Nodes
    <3>2. 1 \in DOMAIN a.args
      BY <3>1
    <3>3. a.args[1] # 0
      BY <2>2, <3>2 DEF Shaped
    <3>4. a.args[1] \in Operands(a)
      BY <3>2, <3>3 DEF Operands, ToSet
    <3>5. a.args[1] \in Ids(g)
      BY <2>1, <2>2, <3>4, NodesOf
    <3>6. W[b.args[1]] = V[a.args[1]]
      BY <1>1, <2>2, <3>2, <3>5
    <3> QED
      BY <2>3, <3>6 DEF UniformNode
  <2> QED
    BY <2>1, <2>5, <2>7 DEF UniformNode
<1> QED
  BY <1>4, <1>5

(* What a rewrite of the pointwise pass keeps: the form, and what the      *)
(* graphs compute.                                                         *)
Computes(g, h) == Formed(h) /\ Back(g, h) /\ Forwards(g, h)

-----------------------------------------------------------------------------
(* The sums that the gemm pass fuses. Erasing an activation and what only  *)
(* it used leaves the others as they were: node i stands for no product    *)
(* and no sum, and is what no other node gone is, an activation.           *)
SafelyGone(g, n, i, gone) ==
  /\ i \in gone /\ i \in Ids(g) /\ gone \subseteq Ids(g) /\ n.op = "linear_act"
  /\ g.nodes[i].op \in {"relu", "silu"} /\ Operands(g.nodes[i]) \subseteq gone
  /\ \A y \in gone \ {i} : Users(g, y) \subseteq gone /\ ActName(g.nodes[y]) = "none"
  /\ \A y \in gone : Operands(g.nodes[y]) \subseteq gone \cup Operands(n)
  /\ Operands(n) \subseteq OperandsOf(g, gone)

(* A node that stays has the sole user it had.                             *)
LEMMA SoleKept ==
  ASSUME NEW g, WellFormed(g), NEW n, NEW i, NEW gone, SafelyGone(g, n, i, gone),
         NEW h, Rewritten(g, n, i, gone, h), NEW y \in Ids(g) \ gone, NEW z \in Ids(g) \ gone
  PROVE  Users(g, y) = {z} <=> Users(h, y) = {z}
<1>1. PICK new : new = Len(g.nodes) + 1
  OBVIOUS
<1>2. new \notin Ids(g)
  BY <1>1, IdsOfGraph DEF WellFormed, Sound
<1>3. Users(h, y) = (Users(g, y) \cup (IF y \in Operands(n) THEN {new} ELSE {})) \ gone
  BY <1>1 DEF Rewritten
<1>4. ASSUME NEW u \in gone, u \in Users(g, y) PROVE y \in Operands(n)
  <2>1. y \in Operands(g.nodes[u])
    BY <1>4 DEF Users
  <2> QED
    BY <2>1 DEF SafelyGone
<1>5. ASSUME y \in Operands(n) PROVE \E u \in gone : u \in Users(g, y)
  BY <1>5 DEF SafelyGone, OperandsOf, Users
<1>6. ASSUME Users(g, y) = {z} PROVE Users(h, y) = {z}
  <2>1. y \notin Operands(n)
    BY <1>5, <1>6
  <2> QED
    BY <1>3, <1>6, <2>1
<1>7. ASSUME Users(h, y) = {z} PROVE Users(g, y) = {z}
  <2>1. new \notin gone /\ new # z
    BY <1>2 DEF SafelyGone
  <2>2. y \notin Operands(n)
    BY <1>3, <1>7, <2>1
  <2>3. Users(g, y) \cap gone = {}
    BY <1>4, <2>2
  <2> QED
    BY <1>3, <1>7, <2>2, <2>3
<1> QED
  BY <1>6, <1>7

(* So the sums that are left are the ones there were.                      *)
LEMMA NodesKept ==
  ASSUME NEW g, WellFormed(g), NEW n, NEW i, NEW gone, SafelyGone(g, n, i, gone),
         NEW h, Rewritten(g, n, i, gone, h)
  PROVE  /\ \A x \in Ids(g) \ gone : x \in Ids(h) /\ h.nodes[x].op = g.nodes[x].op
         /\ \A x \in Ids(h) : x \in Ids(g) \ gone \/ h.nodes[x].op = "linear_act"
         /\ \A x, y : Users(h, y) = {x} => x \in Ids(h) /\ y \in Ids(h)
         /\ \A x, y : Users(g, y) = {x} => x \in Ids(g) /\ y \in Ids(g)
<1>1. PICK new : new = Len(g.nodes) + 1
  OBVIOUS
<1>2. new \notin Ids(g) /\ new \in Nat \ {0} /\ i \in Nat \ {0}
  BY <1>1, NodesOf, IdsOfGraph DEF WellFormed, Sound, SafelyGone
<1>3. /\ WellFormed(h) /\ h.nodes[new] = n /\ Ids(h) = (Ids(g) \cup {new}) \ gone
      /\ \A x \in Ids(g) \ gone : h.nodes[x] = Renamed(g.nodes[x], i, new)
  BY <1>1 DEF Rewritten
<1>4. ASSUME NEW x \in Ids(g) \ gone PROVE x \in Ids(h) /\ h.nodes[x].op = g.nodes[x].op
  BY <1>2, <1>3, NodesOf, RenamedNode
<1>5. ASSUME NEW x \in Ids(h) PROVE x \in Ids(g) \ gone \/ h.nodes[x].op = "linear_act"
  BY <1>3 DEF SafelyGone
<1>6. ASSUME NEW x, NEW y, Users(h, y) = {x} PROVE x \in Ids(h) /\ y \in Ids(h)
  <2>1. x \in Ids(h) /\ y \in Operands(h.nodes[x])
    BY <1>6 DEF Users
  <2> QED
    BY <1>3, <2>1, NodesOf
<1>7. ASSUME NEW x, NEW y, Users(g, y) = {x} PROVE x \in Ids(g) /\ y \in Ids(g)
  <2>1. x \in Ids(g) /\ y \in Operands(g.nodes[x])
    BY <1>7 DEF Users
  <2> QED
    BY <2>1, NodesOf
<1> QED
  BY <1>4, <1>5, <1>6, <1>7

(* ... no activated sum is new,                                            *)
LEMMA SumsLeft ==
  ASSUME NEW g, WellFormed(g), NEW n, NEW i, NEW gone, SafelyGone(g, n, i, gone),
         NEW h, Rewritten(g, n, i, gone, h), NEW x, NEW j, ActivatedSum(h, x, j)
  PROVE  /\ x \in Ids(g) \ gone /\ ActivatedSum(g, x, j)
         /\ \A u : Users(h, x) = {u} => u \in Ids(g) \ gone /\ Users(g, x) = {u}
<1>1. /\ \A y \in Ids(g) \ gone : y \in Ids(h) /\ h.nodes[y].op = g.nodes[y].op
      /\ \A y \in Ids(h) : y \in Ids(g) \ gone \/ h.nodes[y].op = "linear_act"
      /\ \A y, z : Users(h, z) = {y} => y \in Ids(h) /\ z \in Ids(h)
  BY NodesKept
<1>2. PICK u \in Ids(h) : Users(h, x) = {u} /\ ActName(h.nodes[u]) # "none"
  BY DEF ActivatedSum
<1>3. h.nodes[x].op = "add" /\ h.nodes[j].op = "mm" /\ Users(h, j) = {x}
  BY DEF ActivatedSum
<1>4. x \in Ids(g) \ gone /\ j \in Ids(g) \ gone
  BY <1>1, <1>3
<1>5. u \in Ids(g) \ gone
  BY <1>1, <1>2 DEF ActName
<1>6. Users(g, j) = {x} /\ Users(g, x) = {u}
  BY <1>2, <1>3, <1>4, <1>5, SoleKept
<1>7. ActName(g.nodes[u]) # "none"
  BY <1>1, <1>2, <1>5 DEF ActName
<1>8. ActivatedSum(g, x, j)
  BY <1>1, <1>3, <1>4, <1>5, <1>6, <1>7 DEF ActivatedSum
<1>9. \A v : Users(h, x) = {v} => v = u
  BY <1>2
<1> QED
  BY <1>4, <1>5, <1>6, <1>8, <1>9

(* ... and one whose nodes stay is still one.                              *)
LEMMA SumsStay ==
  ASSUME NEW g, WellFormed(g), NEW n, NEW i, NEW gone, SafelyGone(g, n, i, gone),
         NEW h, Rewritten(g, n, i, gone, h), NEW x \in Ids(g) \ gone, NEW j, ActivatedSum(g, x, j)
  PROVE  ActivatedSum(h, x, j)
<1>1. /\ \A y \in Ids(g) \ gone : y \in Ids(h) /\ h.nodes[y].op = g.nodes[y].op
      /\ \A y, z : Users(g, z) = {y} => y \in Ids(g) /\ z \in Ids(g)
  <2>1. \A y \in Ids(g) \ gone : y \in Ids(h) /\ h.nodes[y].op = g.nodes[y].op
    BY NodesKept
  <2>2. ASSUME NEW y, NEW z, Users(g, z) = {y} PROVE y \in Ids(g) /\ z \in Ids(g)
    BY <2>2, NodesKept
  <2> QED
    BY <2>1, <2>2
<1>2. PICK u \in Ids(g) : Users(g, x) = {u} /\ ActName(g.nodes[u]) # "none"
  BY DEF ActivatedSum
<1>3. g.nodes[x].op = "add" /\ g.nodes[j].op = "mm" /\ Users(g, j) = {x}
  BY DEF ActivatedSum
<1>4. j \in Ids(g) \ gone
  <2>1. j \in Ids(g) /\ j # i
    BY <1>1, <1>3 DEF SafelyGone
  <2>2. ASSUME j \in gone PROVE FALSE
    BY <1>3, <2>1, <2>2 DEF SafelyGone
  <2> QED
    BY <2>1, <2>2
<1>5. u \notin gone
  <2>1. u # i
    <3>1. x \in Operands(g.nodes[u])
      BY <1>2 DEF Users
    <3> QED
      BY <3>1 DEF SafelyGone
  <2> QED
    BY <1>2, <2>1 DEF SafelyGone
<1>6. Users(h, j) = {x} /\ Users(h, x) = {u}
  BY <1>2, <1>3, <1>4, <1>5, SoleKept
<1>7. ActName(h.nodes[u]) # "none"
  BY <1>1, <1>2, <1>5 DEF ActName
<1> QED
  BY <1>1, <1>3, <1>4, <1>5, <1>6, <1>7 DEF ActivatedSum

(* Uniform, for the gemm pass: tensors meet tensors of their shape, but a  *)
(* row is added to a product where the sum is activated.                   *)
SumsNode(g, x, W) ==
  LET n == g.nodes[x]
  IN  /\ n.op \in {"add", "mul"} /\ (\A j : ~ ActivatedSum(g, x, j)) =>
           \A j, k \in Operands(n) : W[j].shape = W[k].shape
      /\ \A j : ActivatedSum(g, x, j) => \E k \in Operands(n) \ {j} : W[k].shape = "row"
      /\ n.op = "addmm" => W[n.args[1]].shape = "row"

UniformSums(g, W) == \A x \in Ids(g) : SumsNode(g, x, W)

(* A rewrite keeps these too.                                              *)
LEMMA RewrittenSums ==
  ASSUME NEW g, WellFormed(g), NEW n, NEW i, NEW gone, SafelyGone(g, n, i, gone),
         NEW h, Rewritten(g, n, i, gone, h), NEW V, UniformSums(g, V),
         NEW W, W[Len(g.nodes) + 1] = V[i], \A x \in Ids(g) : W[x] = V[x]
  PROVE  UniformSums(h, W)
<1>1. PICK new : new = Len(g.nodes) + 1
  OBVIOUS
<1>2. h.nodes[new] = n /\ n.op = "linear_act" /\ i \in Ids(g) /\ i \in gone /\ new \notin Ids(g)
  BY <1>1, IdsOfGraph DEF Rewritten, SafelyGone, WellFormed, Sound
<1> SUFFICES ASSUME NEW x \in Ids(h) PROVE SumsNode(h, x, W)
  BY DEF UniformSums
<1>3. Renewed(g, i, h, x, n)
  BY <1>2, RenewedNodes
<1>4. CASE x = new
  <2>1. h.nodes[x].op \notin {"add", "mul", "addmm"}
    BY <1>2, <1>4
  <2>2. \A j : ~ ActivatedSum(h, x, j)
    BY <2>1 DEF ActivatedSum
  <2> QED
    BY <2>1, <2>2 DEF SumsNode
<1>5. CASE x # new
  <2>1. PICK a, b : a = g.nodes[x] /\ b = h.nodes[x]
    OBVIOUS
  <2>2. /\ x \in Ids(g) /\ b.op = a.op /\ Shaped(a)
        /\ \A k \in DOMAIN a.args : b.args[k] = IF a.args[k] = i THEN new ELSE a.args[k]
        /\ \A y \in Operands(b) :
             \/ y = new /\ i \in Operands(a)
             \/ y # new /\ y \in Operands(a) /\ y \in Ids(g)
    BY <1>1, <1>3, <1>5, <2>1 DEF Renewed
  <2>3. x \in Ids(g) \ gone
    BY <1>1, <1>5, <2>2 DEF Rewritten
  <2>4. /\ a \in Nodes /\ \A y \in Operands(a) : y \in Ids(g)
        /\ Operands(b) = (Operands(a) \ {i}) \cup (IF i \in Operands(a) THEN {new} ELSE {})
    <3>1. a \in Nodes /\ (\A y \in Operands(a) : y \in Ids(g)) /\ i \in Nat \ {0} /\ new \in Nat \ {0}
      BY <1>1, <1>2, <2>1, <2>2, NodesOf
    <3>2. b = Renamed(a, i, new)
      BY <1>1, <2>1, <2>3 DEF Rewritten
    <3> QED
      BY <3>1, <3>2, RenamedNode
  <2>5. SumsNode(g, x, V)
    BY <2>2 DEF UniformSums
  <2>6. \A j : ActivatedSum(h, x, j) <=> ActivatedSum(g, x, j)
    BY <2>3, SumsLeft, SumsStay
  <2>7. \A y \in Operands(b) : \E z \in Operands(a) : W[y] = V[z]
    BY <1>1, <2>2
  <2>8. b.op \in {"add", "mul"} /\ (\A j : ~ ActivatedSum(h, x, j)) =>
          \A j, k \in Operands(b) : W[j].shape = W[k].shape
    <3> SUFFICES ASSUME b.op \in {"add", "mul"}, \A j : ~ ActivatedSum(h, x, j)
                 PROVE  \A j, k \in Operands(b) : W[j].shape = W[k].shape
      OBVIOUS
    <3>1. \A j, k \in Operands(a) : V[j].shape = V[k].shape
      BY <2>1, <2>2, <2>5, <2>6 DEF SumsNode
    <3> QED
      BY <2>7, <3>1
  <2>9. ASSUME NEW j, ActivatedSum(h, x, j) PROVE \E k \in Operands(b) \ {j} : W[k].shape = "row"
    <3>1. ActivatedSum(g, x, j)
      BY <2>6, <2>9
    <3>2. PICK k \in Operands(a) \ {j} : V[k].shape = "row"
      BY <2>1, <2>5, <3>1 DEF SumsNode
    <3>3. j # new
      BY <1>2, <2>9 DEF ActivatedSum
    <3>4. CASE k = i
      BY <1>1, <2>4, <3>2, <3>3, <3>4
    <3>5. CASE k # i
      BY <2>4, <3>2, <3>5
    <3> QED
      BY <3>4, <3>5
  <2>10. b.op = "addmm" => W[b.args[1]].shape = "row"
    <3> SUFFICES ASSUME a.op = "addmm" PROVE W[b.args[1]].shape = "row"
      BY <2>2
    <3>1. a.args \in Seq(Nat) /\ Len(a.args) = 3
      BY <2>2, <2>4 DEF Shaped, Nodes
    <3>2. 1 \in DOMAIN a.args
      BY <3>1
    <3>3. a.args[1] # 0
      BY <2>2, <3>2 DEF Shaped
    <3>4. a.args[1] \in Ids(g)
      BY <2>4, <3>2, <3>3 DEF Operands, ToSet
    <3>5. W[b.args[1]] = V[a.args[1]]
      BY <1>1, <2>2, <3>2, <3>4
    <3> QED
      BY <2>1, <2>5, <3>5 DEF SumsNode
  <2> QED
    BY <2>1, <2>8, <2>9, <2>10 DEF SumsNode
<1> QED
  BY <1>4, <1>5

(* The activations of such sums.                                           *)
SumVisits(g) == {u \in Ids(g) : \E x, j : ActivatedSum(g, x, j) /\ Users(g, x) = {u}}

(* The pass would rewrite each of them,                                    *)
LEMMA SumVisited ==
  ASSUME NEW g, WellFormed(g), NEW u \in SumVisits(g)
  PROVE  EpiloguesOf(g, u) # {}
<1>1. PICK x, j : ActivatedSum(g, x, j) /\ Users(g, x) = {u} /\ u \in Ids(g)
  BY DEF SumVisits
<1>2. g.nodes[x].op = "add" /\ g.nodes[j].op = "mm" /\ Users(g, j) = {x} /\ ActName(g.nodes[u]) # "none"
  BY <1>1 DEF ActivatedSum
<1>3. PICK a, p : a = g.nodes[u] /\ p = g.nodes[x]
  OBVIOUS
<1>4. x \in Operands(a) /\ x \in Ids(g) /\ j \in Operands(p)
  BY <1>1, <1>2, <1>3 DEF Users
<1>5. a \in Nodes /\ Shaped(a) /\ p \in Nodes /\ Shaped(p)
  BY <1>1, <1>3, <1>4, NodesOf
<1>6. a.args # <<>> /\ a.args[1] = x
  <2>1. PICK l : l = Len(a.args) /\ DOMAIN a.args = 1..l
    BY <1>5, NaturalSequence DEF Nodes
  <2>2. l = 1
    <3>1. a.op \in {"relu_"} \cup Jit!Unary
      BY <1>2, <1>3 DEF ActName, Jit!Unary
    <3> QED
      BY <1>5, <2>1, <3>1 DEF Shaped
  <2>3. PICK k \in DOMAIN a.args : a.args[k] = x
    BY <1>4 DEF Operands, ToSet
  <2>4. k = 1
    BY <2>1, <2>2
  <2> QED
    BY <2>3, <2>4
<1>7. j # 0 /\ (j = p.args[1] \/ j = p.args[2])
  <2>1. PICK l : l = Len(p.args) /\ DOMAIN p.args = 1..l
    BY <1>5, NaturalSequence DEF Nodes
  <2>2. l = 2
    BY <1>2, <1>3, <1>5, <2>1 DEF Shaped
  <2>3. PICK k \in DOMAIN p.args : p.args[k] = j
    BY <1>4 DEF Operands, ToSet
  <2>4. k = 1 \/ k = 2
    BY <2>1, <2>2
  <2> QED
    BY <1>4, <2>3, <2>4 DEF Operands
<1>8. AddEpilogue(g, p, x) # {}
  <2> DEFINE IsGemm(k) == k # 0 /\ g.nodes[k].op = "mm" /\ SoleUser(g, k, x)
             F(k, o) == Epilogue(g.nodes[k].args \o <<o>>, p.c, FALSE, <<x, k>>)
  <2>1. IsGemm(p.args[1]) \/ IsGemm(p.args[2])
    BY <1>2, <1>3, <1>7 DEF SoleUser
  <2>2. AddEpilogue(g, p, x) = IF IsGemm(p.args[1]) THEN {F(p.args[1], p.args[2])}
                               ELSE IF IsGemm(p.args[2]) THEN {F(p.args[2], p.args[1])} ELSE {}
    BY <1>2, <1>3 DEF AddEpilogue
  <2> HIDE DEF IsGemm, F
  <2> QED
    BY <2>1, <2>2
<1>9. EpiloguesOf(g, u) = GemmEpilogue(p, x) \cup AddEpilogue(g, p, x)
  BY <1>1, <1>2, <1>3, <1>6 DEF EpiloguesOf, SoleUser
<1> QED
  BY <1>8, <1>9

(* ... and a visit makes no new ones.                                      *)
LEMMA SumVisitsLeft ==
  ASSUME NEW g, WellFormed(g), NEW n, NEW i, NEW gone, SafelyGone(g, n, i, gone),
         NEW h, Rewritten(g, n, i, gone, h)
  PROVE  SumVisits(h) \subseteq SumVisits(g) \ gone
BY SumsLeft DEF SumVisits

(* When there are none left, only tensors of one shape meet.               *)
LEMMA SumsGone ==
  ASSUME NEW g, WellFormed(g), SumVisits(g) = {}, NEW W, UniformSums(g, W)
  PROVE  UniformNow(g, W)
<1>1. \A x, j : ~ ActivatedSum(g, x, j)
  BY DEF SumVisits, ActivatedSum
<1> QED
  BY <1>1 DEF UniformSums, SumsNode, UniformNow, UniformNode

(* If g has values and is uniform, so is h.                                *)
ForwardsSums(g, h) ==
  \A V : Values(g, V) /\ UniformSums(g, V) => \E W : Values(h, W) /\ UniformSums(h, W)

(* The visits to come of h are of g, but for those that have become h.     *)
Passes(g, i, h) == SumVisits(h) \subseteq SumVisits(g) \ {i}

(* What a rewrite of the gemm pass keeps.                                  *)
GemmKeeps(g, i, h) ==
  /\ Formed(h) /\ Back(g, h) /\ Shapable(h) /\ ForwardsSums(g, h) /\ Passes(g, i, h)

(* mm, linear and addmm;                                                   *)
LEMMA OneTells ==
  ASSUME NEW g, WellFormed(g), NEW s, Shapes(g, s), NEW i, NEW pid, Activation(g, i, pid),
         g.nodes[i].op # "relu_", NEW e \in GemmEpilogue(g.nodes[pid], pid), OfGemm(g, pid, e),
         NEW n, FusedFrom(g, i, e, n)
  PROVE  Tells(g, i, {i, pid}, n, s)
<1> SUFFICES ASSUME NEW W, Computed(n, Len(g.nodes) + 1, W), OperandsShaped(n, s, W)
             PROVE  Told(g, i, {i, pid}, W)
  BY DEF Tells
<1>1. PICK p : p = g.nodes[pid]
  OBVIOUS
<1>2. pid \in Ids(g) /\ Operands(n) = Operands(p)
  BY <1>1 DEF Activation, Operands, FusedFrom, OfGemm
<1>3. p \in Nodes /\ Shaped(p) /\ ShapedBy(p, pid, s)
  BY <1>1, <1>2, NodesOf DEF Shapes
<1>4. ASSUME NEW k \in {1, 2}, (k = 1 /\ p.op = "mm") \/ (k = 2 /\ p.op = "addmm")
      PROVE  W[p.args[k]].shape = "mat"
  <2>1. p.args[k] \in Operands(p)
    BY <1>3, <1>4, ShapingOperand
  <2>2. W[p.args[k]].shape = s[p.args[k]]
    BY <1>2, <2>1 DEF OperandsShaped
  <2>3. s[p.args[k]] = "mat"
    BY <1>3, <1>4 DEF ShapedBy
  <2> QED
    BY <2>2, <2>3
<1>5. OfMatrix(p, W)
  <2>1. p.op = "mm" => W[p.args[1]].shape = "mat"
    BY <1>4
  <2>2. p.op = "addmm" => W[p.args[2]].shape = "mat"
    BY <1>4
  <2> QED
    BY <2>1, <2>2 DEF OfMatrix
<1> QED
  BY <1>1, <1>5, OneTold

(* An mm, addmm or linear that is activated: it keeps what is returned.    *)
LEMMA OneComputes ==
  ASSUME NEW g, WellFormed(g), Formed(g), Shapable(g), NEW i, NEW pid, Activation(g, i, pid),
         NEW e \in GemmEpilogue(g.nodes[pid], pid), OfGemm(g, pid, e), NEW n, FusedFrom(g, i, e, n),
         NEW h, GemmErases(g, i, pid, n, {i, pid}, h)
  PROVE  GemmKeeps(g, i, h)
<1>1. i \in Ids(g) /\ pid \in Ids(g) /\ {i, pid} \subseteq Ids(g) /\ Rewritten(g, n, i, {i, pid}, h)
  BY DEF Activation, GemmErases
<1>2. g.nodes[i].op # "relu_"
  BY <1>1 DEF Formed, BenignNow
<1>3. Operands(n) \subseteq OperandsOf(g, {i, pid}) /\ n.op = "linear_act"
  <2>1. Operands(n) = Operands(g.nodes[pid])
    BY DEF Operands, FusedFrom, OfGemm
  <2> QED
    BY <2>1 DEF OperandsOf, FusedFrom
<1>4. Formed(h)
  BY <1>1, <1>3, RewrittenFormed
<1>5. Back(g, h) /\ Shapable(h)
  <2>1. PICK s : Shapes(g, s)
    BY DEF Shapable
  <2>2. Tells(g, i, {i, pid}, n, s)
    BY <1>2, <2>1, OneTells
  <2>3. PICK gone : gone = {i, pid}
    OBVIOUS
  <2>4. GemmErases(g, i, pid, n, gone, h) /\ Tells(g, i, gone, n, s)
    BY <2>2, <2>3
  <2> QED
    BY <1>4, <2>1, <2>4, GemmBack
<1>6. PICK gone : gone = {i, pid}
  OBVIOUS
<1>7. SafelyGone(g, n, i, gone)
  <2>1. /\ g.nodes[i].op \in {"relu", "silu"} /\ Operands(g.nodes[i]) = {pid} /\ Users(g, pid) = {i}
    BY <1>2 DEF Activation, ActName
  <2>2. ActName(g.nodes[pid]) = "none"
    BY DEF GemmEpilogue, ActName
  <2>3. \A u \in gone : Operands(g.nodes[u]) \subseteq gone \cup Operands(n)
    BY <1>6 DEF GemmErases
  <2> QED
    BY <1>1, <1>3, <1>6, <2>1, <2>2, <2>3 DEF SafelyGone
<1>8. Rewritten(g, n, i, gone, h)
  BY <1>1, <1>6
<1>9. Passes(g, i, h)
  BY <1>6, <1>7, <1>8, SumVisitsLeft DEF Passes
<1>10. ASSUME NEW V, Values(g, V), UniformSums(g, V) PROVE \E W : Values(h, W) /\ UniformSums(h, W)
  <2>1. g.nodes[pid].op = "addmm" => V[g.nodes[pid].args[1]].shape = "row"
    BY <1>1, <1>10 DEF UniformSums, SumsNode
  <2>2. Forth(g, V, h, i)
    BY <1>1, <1>2, <1>10, <2>1, OneForth
  <2>3. PICK W : Values(h, W) /\ W[Len(g.nodes) + 1] = V[i] /\ \A x \in Ids(g) : W[x] = V[x]
    BY <2>2 DEF Forth
  <2>4. UniformSums(h, W)
    BY <1>7, <1>8, <1>10, <2>3, RewrittenSums
  <2> QED
    BY <2>3, <2>4
<1> QED
  BY <1>4, <1>5, <1>9, <1>10 DEF GemmKeeps, ForwardsSums

(* mm and add.                                                             *)
LEMMA AddTells ==
  ASSUME NEW g, WellFormed(g), NEW s, Shapes(g, s), NEW i, NEW pid, Activation(g, i, pid),
         g.nodes[i].op # "relu_", NEW e \in AddEpilogue(g, g.nodes[pid], pid), NEW j, NEW other,
         OfAdd(g, pid, j, other, e), other # j, g.nodes[pid].alpha = One, NEW n, FusedFrom(g, i, e, n)
  PROVE  Tells(g, i, {i, pid, j}, n, s)
<1> SUFFICES ASSUME NEW W, Computed(n, Len(g.nodes) + 1, W), OperandsShaped(n, s, W)
             PROVE  Told(g, i, {i, pid, j}, W)
  BY DEF Tells
<1>1. PICK q : q = g.nodes[j]
  OBVIOUS
<1>2. j \in Ids(g) /\ q.op = "mm" /\ Operands(q) \subseteq Operands(n)
  BY <1>1 DEF Operands, FusedFrom, OfAdd
<1>3. q \in Nodes /\ Shaped(q) /\ ShapedBy(q, j, s)
  BY <1>1, <1>2, NodesOf DEF Shapes
<1>4. PICK k \in {1, 2} : k = 1
  OBVIOUS
<1>5. q.args[k] \in Operands(q)
  BY <1>2, <1>3, <1>4, ShapingOperand
<1>6. W[q.args[k]].shape = s[q.args[k]]
  BY <1>2, <1>5 DEF OperandsShaped
<1>7. s[q.args[k]] = "mat"
  BY <1>2, <1>3, <1>4 DEF ShapedBy
<1>8. OfMatrix(q, W)
  BY <1>2, <1>4, <1>6, <1>7 DEF OfMatrix
<1> QED
  BY <1>1, <1>8, AddTold

(* The activated sum of an mm: it keeps what is returned.                  *)
LEMMA AddComputes ==
  ASSUME NEW g, WellFormed(g), Formed(g), Shapable(g), NEW i, NEW pid, Activation(g, i, pid),
         NEW e \in AddEpilogue(g, g.nodes[pid], pid), NEW j, NEW other, OfAdd(g, pid, j, other, e),
         other # j, NEW n, FusedFrom(g, i, e, n), NEW h, GemmErases(g, i, pid, n, {i, pid, j}, h)
  PROVE  GemmKeeps(g, i, h)
<1>1. /\ i \in Ids(g) /\ pid \in Ids(g) /\ j \in Ids(g) /\ {i, pid, j} \subseteq Ids(g)
      /\ g.nodes[pid].op = "add" /\ g.nodes[j].op = "mm" /\ {j, other} = ToSet(g.nodes[pid].args)
      /\ ToSet(e.operands) = ToSet(g.nodes[j].args) \cup {other}
      /\ Rewritten(g, n, i, {i, pid, j}, h)
  BY DEF Activation, OfAdd, GemmErases
<1>2. j \in Operands(g.nodes[pid])
  <2>1. j # 0
    BY <1>1, NodesOf
  <2> QED
    BY <1>1, <2>1 DEF Operands
<1>3. g.nodes[i].op # "relu_" /\ g.nodes[pid].alpha = One
  BY <1>1, <1>2 DEF Formed, BenignNow
<1>4. Operands(n) \subseteq OperandsOf(g, {i, pid, j}) /\ n.op = "linear_act"
  <2>1. Operands(n) \subseteq Operands(g.nodes[pid]) \cup Operands(g.nodes[j])
    BY <1>1 DEF Operands, FusedFrom
  <2> QED
    BY <2>1 DEF OperandsOf, FusedFrom
<1>6. PICK gone : gone = {i, pid, j}
  OBVIOUS
<1>5. Formed(h)
  <2>1. /\ gone \subseteq Ids(g) /\ Rewritten(g, n, i, gone, h)
        /\ n.op \in {"linear_act", "pointwise"} /\ Operands(n) \subseteq OperandsOf(g, gone)
    BY <1>1, <1>4, <1>6
  <2> QED
    BY <1>1, <2>1, RewrittenFormed
<1>7. Back(g, h) /\ Shapable(h)
  <2>1. PICK s : Shapes(g, s)
    BY DEF Shapable
  <2>2. Tells(g, i, {i, pid, j}, n, s)
    BY <1>3, <2>1, AddTells
  <2>3. GemmErases(g, i, pid, n, gone, h) /\ Tells(g, i, gone, n, s)
    BY <1>6, <2>2
  <2> QED
    BY <1>5, <2>1, <2>3, GemmBack
<1>8. Users(g, j) = {pid} /\ Users(g, pid) = {i} /\ g.nodes[i].op \in {"relu", "silu"}
      /\ ActName(g.nodes[i]) \in {"relu", "silu"} /\ Operands(g.nodes[i]) = {pid}
  BY <1>3 DEF Activation, ActName, OfAdd
<1>9. SafelyGone(g, n, i, gone)
  <2>1. ActName(g.nodes[pid]) = "none" /\ ActName(g.nodes[j]) = "none"
    BY <1>1 DEF ActName
  <2>2. \A u \in gone : Operands(g.nodes[u]) \subseteq gone \cup Operands(n)
    BY <1>6 DEF GemmErases
  <2> QED
    BY <1>1, <1>4, <1>6, <1>8, <2>1, <2>2 DEF SafelyGone
<1>10. Rewritten(g, n, i, gone, h)
  BY <1>1, <1>6
<1>11. Passes(g, i, h)
  BY <1>6, <1>9, <1>10, SumVisitsLeft DEF Passes
<1>12. ActivatedSum(g, pid, j)
  BY <1>1, <1>8 DEF ActivatedSum
<1>13. ASSUME NEW V, Values(g, V), UniformSums(g, V) PROVE \E W : Values(h, W) /\ UniformSums(h, W)
  <2>1. PICK k \in Operands(g.nodes[pid]) \ {j} : V[k].shape = "row"
    BY <1>1, <1>12, <1>13 DEF UniformSums, SumsNode
  <2>2. k = other /\ other # 0
    BY <1>1, <2>1 DEF Operands
  <2>3. Forth(g, V, h, i)
    BY <1>1, <1>3, <1>13, <2>1, <2>2, AddForth
  <2>4. PICK W : Values(h, W) /\ W[Len(g.nodes) + 1] = V[i] /\ \A x \in Ids(g) : W[x] = V[x]
    BY <2>3 DEF Forth
  <2>5. UniformSums(h, W)
    BY <1>9, <1>10, <1>13, <2>4, RewrittenSums
  <2> QED
    BY <2>4, <2>5
<1> QED
  BY <1>5, <1>7, <1>11, <1>13 DEF GemmKeeps, ForwardsSums

(* every visit of the gemm pass that erase_node lets through.              *)
LEMMA GemmComputes ==
  ASSUME NEW g, WellFormed(g), Formed(g), Shapable(g), NEW i \in DOMAIN g.nodes, NEW e \in EpiloguesOf(g, i),
         NEW f, f = Emit(g, i, e.operands, e.c, e.transB), Erasable(f, e.erased),
         NEW h, h = EraseAll(f, e.erased)
  PROVE  GemmKeeps(g, i, h)
<1>1. PICK pid : /\ Activation(g, i, pid)
                 /\ EpiloguesOf(g, i) = GemmEpilogue(g.nodes[pid], pid)
                                           \cup AddEpilogue(g, g.nodes[pid], pid)
  BY ActivationFound
<1>2. i \in Ids(g) /\ pid \in Ids(g) /\ ActName(g.nodes[i]) \in {"relu", "silu"}
  BY <1>1 DEF Activation
<1>3. PICK n : n = FusedNode(g, i, e)
  OBVIOUS
<1>4. ASSUME EpilogueTyped(e), Len(e.operands) \in {2, 3},
             \A k \in DOMAIN e.operands : e.operands[k] = 0 => k = 3
      PROVE  FusedFrom(g, i, e, n)
  BY <1>2, <1>3, <1>4, FusedNodeTyped DEF FusedFrom
<1>5. CASE e \in GemmEpilogue(g.nodes[pid], pid)
  <2>1. OfGemm(g, pid, e) /\ EpilogueTyped(e)
    BY <1>2, <1>5, OfGemmFound
  <2>2. OneErases(g, i, pid, e, n, f)
    BY <1>1, <1>3, <2>1, GemmErased
  <2>3. GemmErases(g, i, pid, n, {i, pid}, h)
    BY <2>2 DEF OneErases
  <2>4. FusedFrom(g, i, e, n)
    <3>1. Len(e.operands) \in {2, 3} /\ 0 \notin ToSet(e.operands)
      BY <2>1 DEF OfGemm
    <3>2. \A k \in DOMAIN e.operands : e.operands[k] # 0
      BY <3>1 DEF ToSet
    <3> QED
      BY <1>4, <2>1, <3>1, <3>2
  <2> QED
    BY <1>1, <1>5, <2>1, <2>3, <2>4, OneComputes
<1>6. CASE e \in AddEpilogue(g, g.nodes[pid], pid)
  <2>1. (\E j, other : OfAdd(g, pid, j, other, e)) /\ EpilogueTyped(e)
    BY <1>2, <1>6, OfAddFound
  <2>2. PICK j, other : OfAdd(g, pid, j, other, e)
    BY <2>1
  <2>3. EpilogueTyped(e) /\ Activation(g, i, pid)
    BY <1>1, <2>1
  <2>4. AddErases(g, i, pid, j, other, e, n, f)
    BY <1>3, <2>2, <2>3, GemmErasedAdd
  <2>5. other # j /\ GemmErases(g, i, pid, n, {i, pid, j}, h)
    BY <2>4 DEF AddErases
  <2>6. FusedFrom(g, i, e, n)
    <3>1. Len(e.operands) = 3 /\ e.operands[1] # 0 /\ e.operands[2] # 0 /\ e.operands \in Seq(Nat)
      BY <2>2, <2>3 DEF OfAdd, EpilogueTyped
    <3>2. DOMAIN e.operands = 1..3
      BY <3>1
    <3>3. \A k \in DOMAIN e.operands : e.operands[k] = 0 => k = 3
      BY <3>1, <3>2
    <3> QED
      BY <1>4, <2>3, <3>1, <3>3
  <2> QED
    BY <1>6, <2>2, <2>3, <2>5, <2>6, AddComputes
<1> QED
  BY <1>1, <1>5, <1>6

-----------------------------------------------------------------------------
(* What a program's instructions are: a load for each input, and for each  *)
(* member one that reads where its operands have been computed before.     *)
Place(acc, x, c, a) ==
  /\ a \in 0..(Len(acc.prog) - 1)
  /\ IF x = 0 THEN acc.prog[a + 1] = Const(c) ELSE x \in DOMAIN acc.ssa /\ acc.ssa[x] = a

(* Every input is loaded into its register.                                *)
Loads(acc) == \A q \in DOMAIN acc.inputs : acc.prog[acc.ssa[acc.inputs[q]] + 1] = Load(q - 1)

Single(n) == IsScale(n) \/ Len(n.args) = 1

(* The instruction v is the node's, on the positions of its operands.      *)
MemberAt(acc, n, v, a, b) ==
  /\ v \in 0..(Len(acc.prog) - 1) /\ acc.prog[v + 1] = InstructionOf(n, a, b)
  /\ Place(acc, n.args[1], n.c, a) /\ a < v
  /\ ~Single(n) => Place(acc, n.args[2], n.c, b) /\ b < v

Member(acc, n, m) == m \in DOMAIN acc.ssa /\ \E a, b : MemberAt(acc, n, acc.ssa[m], a, b)

(* More instructions leave positions,                                      *)
LEMMA PlaceKept ==
  ASSUME NEW acc, Acc(acc), NEW new, Acc(new), Grows(acc, new), NEW x, NEW c, NEW a, Place(acc, x, c, a)
  PROVE  Place(new, x, c, a)
<1>1. /\ Len(acc.prog) \in Nat /\ Len(new.prog) \in Nat /\ Len(acc.prog) <= Len(new.prog)
      /\ DOMAIN acc.prog = 1..Len(acc.prog) /\ \A v \in DOMAIN acc.prog : new.prog[v] = acc.prog[v]
      /\ DOMAIN acc.ssa \subseteq DOMAIN new.ssa /\ \A j \in DOMAIN acc.ssa : new.ssa[j] = acc.ssa[j]
  BY DEF Acc, Grows
<1>2. a \in 0..(Len(acc.prog) - 1)
  BY DEF Place
<1>3. a \in 0..(Len(new.prog) - 1) /\ a + 1 \in DOMAIN acc.prog
  BY <1>1, <1>2
<1>4. new.prog[a + 1] = acc.prog[a + 1]
  BY <1>1, <1>3
<1>5. IF x = 0 THEN acc.prog[a + 1] = Const(c) ELSE x \in DOMAIN acc.ssa /\ acc.ssa[x] = a
  BY DEF Place
<1> QED
  BY <1>1, <1>3, <1>4, <1>5 DEF Place

(* members                                                                 *)
LEMMA MemberKept ==
  ASSUME NEW acc, Acc(acc), NEW new, Acc(new), Grows(acc, new), NEW n, NEW m, Member(acc, n, m)
  PROVE  Member(new, n, m)
<1>1. PICK a, b, v : v = acc.ssa[m] /\ m \in DOMAIN acc.ssa /\ MemberAt(acc, n, v, a, b)
  BY DEF Member
<1>2. /\ Len(acc.prog) \in Nat /\ Len(new.prog) \in Nat /\ Len(acc.prog) <= Len(new.prog)
      /\ DOMAIN acc.prog = 1..Len(acc.prog) /\ \A w \in DOMAIN acc.prog : new.prog[w] = acc.prog[w]
      /\ DOMAIN acc.ssa \subseteq DOMAIN new.ssa /\ \A j \in DOMAIN acc.ssa : new.ssa[j] = acc.ssa[j]
  BY DEF Acc, Grows
<1>3. v \in 0..(Len(acc.prog) - 1) /\ acc.prog[v + 1] = InstructionOf(n, a, b)
  BY <1>1 DEF MemberAt
<1>4. v \in 0..(Len(new.prog) - 1) /\ v + 1 \in DOMAIN acc.prog
  BY <1>2, <1>3
<1>5. new.prog[v + 1] = InstructionOf(n, a, b) /\ new.ssa[m] = v /\ m \in DOMAIN new.ssa
  BY <1>1, <1>2, <1>3, <1>4
<1>6. Place(new, n.args[1], n.c, a) /\ a < v /\ (~Single(n) => Place(new, n.args[2], n.c, b) /\ b < v)
  BY <1>1, PlaceKept DEF MemberAt
<1>7. MemberAt(new, n, v, a, b)
  BY <1>4, <1>5, <1>6 DEF MemberAt
<1> QED
  BY <1>5, <1>7 DEF Member

(* and loads as they were.                                                 *)
LEMMA LoadsKept ==
  ASSUME NEW acc, Acc(acc), NEW new, Acc(new), Grows(acc, new), new.inputs = acc.inputs, Loads(acc)
  PROVE  Loads(new)
<1> SUFFICES ASSUME NEW q \in DOMAIN acc.inputs
             PROVE  new.prog[new.ssa[acc.inputs[q]] + 1] = Load(q - 1)
  BY DEF Loads
<1>1. PICK x, v : x = acc.inputs[q] /\ v = acc.ssa[x]
  OBVIOUS
<1>2. x \in DOMAIN acc.ssa
  BY <1>1 DEF Acc, ToSet
<1>3. v \in 0..(Len(acc.prog) - 1) /\ DOMAIN acc.prog = 1..Len(acc.prog) /\ Len(acc.prog) \in Nat
  BY <1>1, <1>2 DEF Acc
<1>4. v + 1 \in DOMAIN acc.prog
  BY <1>3
<1>5. new.ssa[x] = v /\ new.prog[v + 1] = acc.prog[v + 1]
  BY <1>1, <1>2, <1>4 DEF Grows
<1>6. acc.prog[v + 1] = Load(q - 1)
  BY <1>1 DEF Loads
<1> QED
  BY <1>1, <1>5, <1>6

(* rec_input leaves the operand at its position.                           *)
Recording(acc, src, c, new) == Loads(new) /\ Place(new, src, c, PositionOf(new, src))

(* It does, for scalars, inputs and members.                               *)
LEMMA RecInputPlaces ==
  ASSUME NEW acc, Acc(acc), Loads(acc), NEW src \in Nat, NEW c \in Jit!Literals,
         NEW new, new = RecInput(acc, src, c)
  PROVE  Recording(acc, src, c, new)
<1>1. Recorded(acc, src, c, new)
  BY RecInputKeeps
<1>2. Acc(new) /\ Grows(acc, new) /\ PositionOf(new, src) \in 0..(Len(new.prog) - 1)
  BY <1>1 DEF Recorded
<1>3. CASE src = 0
  <2>1. new = Extend(acc, Const(c))
    BY <1>3 DEF RecInput, Const
  <2>2. Const(c) \in Jit!Nodes /\ Const(c).op # "load" /\ Jit!Reads(Const(c)) = {}
    BY LeafInstructions
  <2>3. /\ new.inputs = acc.inputs /\ LastPosition(new) = Len(acc.prog)
        /\ new.prog[Len(acc.prog) + 1] = Const(c)
    BY <2>1, <2>2, ExtendedProgram
  <2>4. Loads(new)
    BY <1>2, <2>3, LoadsKept
  <2>5. PositionOf(new, src) = Len(acc.prog)
    BY <1>3, <2>3 DEF PositionOf
  <2> QED
    BY <1>2, <1>3, <2>3, <2>4, <2>5 DEF Recording, Place
<1>4. CASE src # 0 /\ src \in DOMAIN acc.ssa
  <2>1. new = acc
    BY <1>4 DEF RecInput
  <2>2. PositionOf(new, src) = new.ssa[src]
    BY <1>4 DEF PositionOf
  <2> QED
    BY <1>2, <1>4, <2>1, <2>2 DEF Recording, Place
<1>5. CASE src # 0 /\ src \notin DOMAIN acc.ssa
  <2>1. /\ DOMAIN new.ssa = DOMAIN acc.ssa \cup {src} /\ new.ssa[src] = Len(acc.prog)
        /\ new.prog = Append(acc.prog, Load(Len(acc.inputs)))
        /\ new.inputs = Append(acc.inputs, src)
    BY <1>5, LoadedInput
  <2>2. PositionOf(new, src) = new.ssa[src] /\ src \in DOMAIN new.ssa
    BY <1>5, <2>1 DEF PositionOf
  <2>3. Place(new, src, c, PositionOf(new, src))
    BY <1>2, <1>5, <2>2 DEF Place
  <2>4. ASSUME NEW q \in DOMAIN new.inputs
        PROVE  new.prog[new.ssa[new.inputs[q]] + 1] = Load(q - 1)
    <3>1. acc.inputs \in Seq(Nat \ {0}) /\ acc.prog \in Seq(Jit!Nodes)
      BY DEF Acc
    <3>2. /\ Len(acc.inputs) \in Nat /\ DOMAIN acc.inputs = 1..Len(acc.inputs)
          /\ DOMAIN new.inputs = 1..(Len(acc.inputs) + 1)
          /\ new.inputs[Len(acc.inputs) + 1] = src
          /\ \A k \in 1..Len(acc.inputs) : new.inputs[k] = acc.inputs[k]
      BY <2>1, <3>1
    <3>3. /\ Len(acc.prog) \in Nat /\ DOMAIN acc.prog = 1..Len(acc.prog)
          /\ new.prog[Len(acc.prog) + 1] = Load(Len(acc.inputs))
      BY <2>1, <3>1
    <3>4. CASE q = Len(acc.inputs) + 1
      <4>1. new.inputs[q] = src /\ q - 1 = Len(acc.inputs)
        BY <3>2, <3>4
      <4> QED
        BY <2>1, <3>3, <4>1
    <3>5. CASE q \in DOMAIN acc.inputs
      <4>1. PICK x, v : x = acc.inputs[q] /\ v = acc.ssa[x]
        OBVIOUS
      <4>2. x \in DOMAIN acc.ssa /\ new.inputs[q] = x
        BY <3>2, <3>5, <4>1 DEF Acc, ToSet
      <4>3. v \in 0..(Len(acc.prog) - 1)
        BY <4>1, <4>2 DEF Acc
      <4>4. v + 1 \in DOMAIN acc.prog
        BY <3>3, <4>3
      <4>5. new.ssa[x] = v /\ new.prog[v + 1] = acc.prog[v + 1]
        BY <1>2, <4>1, <4>2, <4>4 DEF Grows
      <4>6. acc.prog[v + 1] = Load(q - 1)
        BY <3>5, <4>1 DEF Loads
      <4> QED
        BY <4>2, <4>5, <4>6
    <3> QED
      BY <3>2, <3>4, <3>5
  <2> QED
    BY <2>3, <2>4 DEF Recording, Loads
<1> QED
  BY <1>3, <1>4, <1>5

(* A node that is translated becomes a member.                             *)
LEMMA TranslatedMember ==
  ASSUME NEW acc, Acc(acc), Loads(acc), NEW n \in Nodes, Shaped(n), IsPointwise(n), NEW i,
         NEW first, NEW second, NEW new, TranslateSteps(acc, n, i, first, second, new)
  PROVE  Loads(new) /\ Member(new, n, i)
<1>1. n.args \in Seq(Nat) /\ n.c \in Jit!Literals /\ DOMAIN n.args = 1..Len(n.args)
  BY NaturalSequence DEF Nodes
<1>2. n.args[1] \in Nat /\ (~Single(n) => n.args[2] \in Nat)
  <2>1. Len(n.args) \in {1, 2} /\ (~Single(n) => Len(n.args) = 2)
    BY DEF IsPointwise, Shaped, Single
  <2>2. 1 \in DOMAIN n.args /\ (~Single(n) => 2 \in DOMAIN n.args)
    <3> DEFINE l == Len(n.args)
    <3>1. (l = 1 \/ l = 2) /\ (~Single(n) => l = 2) /\ DOMAIN n.args = 1..l
      BY <1>1, <2>1
    <3> HIDE DEF l
    <3> QED
      BY <3>1
  <2> QED
    BY <1>1, <2>2, ElementOfSeq
<1>3. PICK a, b : a = PositionOf(first, n.args[1]) /\ b = PositionOf(second, n.args[2])
  OBVIOUS
<1>4. /\ first = RecInput(acc, n.args[1], n.c) /\ Recorded(acc, n.args[1], n.c, first)
      /\ IF Single(n) THEN second = first
         ELSE second = RecInput(first, n.args[2], n.c) /\ Recorded(first, n.args[2], n.c, second)
      /\ new.prog = Append(second.prog, InstructionOf(n, a, b))
      /\ new.inputs = second.inputs
      /\ DOMAIN new.ssa = DOMAIN second.ssa \cup {i} /\ new.ssa[i] = Len(second.prog)
      /\ Acc(second) /\ Acc(new) /\ Grows(acc, second) /\ Grows(second, new)
  BY <1>3 DEF TranslateSteps, Single
<1>5. Acc(first) /\ Recording(acc, n.args[1], n.c, first)
  BY <1>1, <1>2, <1>4, RecInputPlaces DEF Recorded
<1>6. Loads(first) /\ Place(first, n.args[1], n.c, a)
  BY <1>3, <1>5 DEF Recording
<1>7. Loads(second) /\ Place(second, n.args[1], n.c, a) /\ (~Single(n) => Place(second, n.args[2], n.c, b))
  <2>1. CASE Single(n)
    BY <1>4, <1>6, <2>1
  <2>2. CASE ~Single(n)
    <3>1. second = RecInput(first, n.args[2], n.c) /\ Grows(first, second)
      BY <1>4, <2>2 DEF Recorded
    <3>2. Recording(first, n.args[2], n.c, second)
      BY <1>1, <1>2, <1>5, <1>6, <2>2, <3>1, RecInputPlaces
    <3>3. Place(second, n.args[1], n.c, a)
      BY <1>4, <1>5, <1>6, <3>1, PlaceKept
    <3> QED
      BY <1>3, <3>2, <3>3 DEF Recording
  <2> QED
    BY <2>1, <2>2
<1>8. Loads(new)
  BY <1>4, <1>7, LoadsKept
<1>9. PICK v : v = Len(second.prog)
  OBVIOUS
<1>10. v \in 0..(Len(new.prog) - 1) /\ new.prog[v + 1] = InstructionOf(n, a, b)
  <2>1. second.prog \in Seq(Jit!Nodes)
    BY <1>4 DEF Acc
  <2> QED
    BY <1>4, <1>9, <2>1
<1>11. Place(new, n.args[1], n.c, a) /\ (~Single(n) => Place(new, n.args[2], n.c, b))
  BY <1>4, <1>7, PlaceKept
<1>12. a < v /\ (~Single(n) => b < v)
  <2>1. v \in Nat
    BY <1>4, <1>9 DEF Acc
  <2>2. a \in 0..(v - 1) /\ (~Single(n) => b \in 0..(v - 1))
    BY <1>7, <1>9 DEF Place
  <2> QED
    BY <2>1, <2>2
<1>13. MemberAt(new, n, v, a, b)
  BY <1>10, <1>11, <1>12 DEF MemberAt
<1> QED
  BY <1>4, <1>8, <1>9, <1>13 DEF Member

(* All members so far, and the root at the end.                            *)
Filled(g, group, root, k, acc) ==
  /\ PartialProgram(g, group, k, acc) /\ Loads(acc)
  /\ \A m \in Done(g, group, k) : Member(acc, g.nodes[m], m)
  /\ root \in Done(g, group, k) => acc.ssa[root] = Len(acc.prog) - 1

(* The root comes last.                                                    *)
Ending(g, group, root) ==
  /\ Translatable(g, group) /\ root \in group
  /\ \A i \in group \ {root} : Before(g.order, i, root)

(* The program the pass begins with is one.                                *)
LEMMA NoProgramFilled ==
  ASSUME NEW g, NEW group, NEW root
  PROVE  Filled(g, group, root, 0, NoProgram)
<1>1. Done(g, group, 0) = {}
  BY DEF Done
<1>2. DOMAIN NoProgram.inputs = {}
  BY DEF NoProgram
<1> QED
  BY <1>1, <1>2, NoProgramPartial DEF Filled, Loads

(* The last instruction is the one of the node translated last.            *)
LastIs(acc, second, i, new) ==
  /\ Acc(second) /\ Acc(new) /\ Grows(acc, second) /\ Grows(second, new)
  /\ new.ssa[i] = Len(second.prog) /\ Len(new.prog) = Len(second.prog) + 1

(* It is.                                                                  *)
LEMMA TranslatedLast ==
  ASSUME NEW acc, NEW n, NEW i, NEW first, NEW second, NEW new,
         TranslateSteps(acc, n, i, first, second, new)
  PROVE  LastIs(acc, second, i, new)
<1>1. PICK a, b : a = PositionOf(first, n.args[1]) /\ b = PositionOf(second, n.args[2])
  OBVIOUS
<1>2. PICK nd : nd = InstructionOf(n, a, b)
  OBVIOUS
<1>3. /\ nd \in Jit!Nodes /\ new.prog = Append(second.prog, nd)
      /\ new.ssa[i] = Len(second.prog)
      /\ Acc(second) /\ Acc(new) /\ Grows(acc, second) /\ Grows(second, new)
  BY <1>1, <1>2 DEF TranslateSteps
<1>4. second.prog \in Seq(Jit!Nodes)
  BY <1>3 DEF Acc
<1>5. Len(new.prog) = Len(second.prog) + 1
  BY <1>3, <1>4
<1> QED
  BY <1>3, <1>5 DEF LastIs

(* One more node of the order.                                             *)
LEMMA NextFilled ==
  ASSUME NEW g, NEW group, NEW root, Ending(g, group, root), NEW k \in Nat, k + 1 <= Len(g.order),
         NEW i, i = g.order[k + 1], i \in group,
         NEW acc, Filled(g, group, root, k, acc), NEW new, new = Translate(g, acc, i)
  PROVE  Filled(g, group, root, k + 1, new)
<1>1. Follows(g, group, k, i)
  BY NextMember DEF Ending
<1>2. Done(g, group, k + 1) = Done(g, group, k) \cup {i} /\ g.nodes[i] \in Nodes
  BY <1>1 DEF Follows
<1>3. (\E first, second : TranslateSteps(acc, g.nodes[i], i, first, second, new))
      /\ PartialProgram(g, group, k + 1, new)
  BY NextTranslated DEF Ending, Filled
<1>4. PICK first, second : TranslateSteps(acc, g.nodes[i], i, first, second, new)
  BY <1>3
<1>5. Acc(acc) /\ Loads(acc) /\ Shaped(g.nodes[i]) /\ IsPointwise(g.nodes[i])
  BY DEF Filled, PartialProgram, Ending, Translatable
<1>6. Loads(new) /\ Member(new, g.nodes[i], i)
  BY <1>2, <1>4, <1>5, TranslatedMember
<1>7. Acc(second) /\ Acc(new) /\ Grows(acc, second) /\ Grows(second, new)
      /\ new.ssa[i] = Len(second.prog) /\ Len(new.prog) = Len(second.prog) + 1
  BY <1>4, TranslatedLast DEF LastIs
<1>8. Grows(acc, new)
  BY <1>5, <1>7, GrowsOn
<1>9. \A m \in Done(g, group, k + 1) : Member(new, g.nodes[m], m)
  <2>1. ASSUME NEW m \in Done(g, group, k) PROVE Member(new, g.nodes[m], m)
    <3>1. Member(acc, g.nodes[m], m)
      BY DEF Filled
    <3> QED
      BY <1>5, <1>7, <1>8, <3>1, MemberKept
  <2> QED
    BY <1>2, <1>6, <2>1
<1>10. ASSUME root \in Done(g, group, k + 1) PROVE new.ssa[root] = Len(new.prog) - 1
  <2>1. CASE i = root
    <3>1. Len(second.prog) \in Nat
      BY <1>7 DEF Acc
    <3> QED
      BY <1>7, <2>1, <3>1
  <2>2. CASE i # root
    <3>1. /\ Distinct(g.order) /\ DOMAIN g.order = 1..Len(g.order)
          /\ Len(g.order) \in Nat /\ k + 1 \in DOMAIN g.order
      BY DEF Ending, Translatable, Sound, Graph
    <3>2. Before(g.order, i, root)
      BY <2>2 DEF Ending
    <3>3. PICK p, q \in DOMAIN g.order : p < q /\ g.order[p] = i /\ g.order[q] = root
      BY <3>2 DEF Before
    <3>4. p = k + 1
      BY <3>1, <3>3 DEF Distinct
    <3>5. PICK r \in 1..(k + 1) : g.order[r] = root
      BY <1>10 DEF Done
    <3>6. r \in DOMAIN g.order
      BY <3>1, <3>5
    <3>7. r = q
      BY <3>1, <3>3, <3>5, <3>6 DEF Distinct
    <3> QED
      BY <3>1, <3>3, <3>4, <3>5, <3>7
  <2> QED
    BY <2>1, <2>2
<1> QED
  BY <1>3, <1>6, <1>9, <1>10 DEF Filled

(* The program of a group: all members, and the root last.                 *)
Whole(g, group, root, p) ==
  /\ Acc(p) /\ Loads(p)
  /\ ToSet(p.inputs) = OperandsOf(g, group) \ group /\ DOMAIN p.ssa = group \cup ToSet(p.inputs)
  /\ \A m \in group : Member(p, g.nodes[m], m)
  /\ p.ssa[root] = Len(p.prog) - 1

(* Program makes such a program of every group.                            *)
LEMMA ProgramWhole ==
  ASSUME NEW g, NEW group, NEW root, Ending(g, group, root), NEW p, p = Program(g, group)
  PROVE  Whole(g, group, root, p)
<1> DEFINE n == Len(g.order)
<1>1. n \in Nat /\ DOMAIN g.order = 1..n /\ ToSet(g.order) = Ids(g) /\ group \subseteq Ids(g)
  BY DEF Ending, Translatable, Sound, Graph, Ids
<1>2. PICK f : ProgramSteps(f, g, group)
  BY <1>1, ProgramRun
<1>3. /\ f[0] = NoProgram
      /\ \A k \in 1..n : f[k] = Translated(g, group, f[k - 1], g.order[k])
      /\ p = f[n]
  BY <1>2 DEF ProgramSteps
<1> DEFINE S == {k \in Nat : k <= n => Filled(g, group, root, k, f[k])}
<1>4. 0 \in S
  BY <1>3, NoProgramFilled
<1>5. ASSUME NEW k \in Nat, k \in S PROVE k + 1 \in S
  <2> SUFFICES ASSUME k + 1 <= n PROVE Filled(g, group, root, k + 1, f[k + 1])
    OBVIOUS
  <2>0. PICK i, a, b : i = g.order[k + 1] /\ a = f[k] /\ b = f[k + 1]
    OBVIOUS
  <2>1. k + 1 \in 1..n /\ (k + 1) - 1 = k /\ Filled(g, group, root, k, a)
    BY <1>1, <1>5, <2>0
  <2>2. b = Translated(g, group, a, i)
    BY <1>3, <2>0, <2>1
  <2>3. CASE i \in group
    <3>1. b = Translate(g, a, i)
      BY <2>2, <2>3 DEF Translated
    <3>2. Filled(g, group, root, k + 1, b)
      BY <2>0, <2>1, <2>3, <3>1, NextFilled
    <3> QED
      BY <2>0, <3>2
  <2>4. CASE i \notin group
    <3>1. b = a
      BY <2>2, <2>4 DEF Translated
    <3>2. Done(g, group, k + 1) = Done(g, group, k)
      <4>1. \A q \in 1..(k + 1) : q \in 1..k \/ q = k + 1
        OBVIOUS
      <4>2. 1..k \subseteq 1..(k + 1)
        OBVIOUS
      <4> QED
        BY <2>0, <2>4, <4>1, <4>2 DEF Done
    <3>3. Filled(g, group, root, k + 1, b)
      BY <2>1, <3>1, <3>2 DEF Filled, PartialProgram
    <3> QED
      BY <2>0, <3>3
  <2> QED
    BY <2>3, <2>4
<1>6. n \in S
  <2> HIDE DEF S
  <2> QED
    BY <1>1, <1>4, <1>5, SetInduction
<1>7. Done(g, group, n) = group
  BY <1>1 DEF Done, ToSet
<1>8. Filled(g, group, root, n, p) /\ root \in group
  BY <1>1, <1>3, <1>6 DEF Ending
<1> QED
  BY <1>7, <1>8 DEF Whole, Filled, PartialProgram

-----------------------------------------------------------------------------
(* The registers a program leaves: each is the one of its instruction.     *)
Listed(r, k) == r = [j \in 1..k |-> r[j]]

(* t is r and x.                                                           *)
Longer(r, k, x, t) ==
  Listed(t, k + 1) /\ (\A j \in 1..k : t[j] = r[j]) /\ t[k + 1] = x /\ Last(t) = x

(* Append makes it.                                                        *)
LEMMA SequenceExtended ==
  ASSUME NEW k \in Nat, NEW r, Listed(r, k), NEW x
  PROVE  Longer(r, k, x, Append(r, x))
<1>0. PICK t : t = Append(r, x)
  OBVIOUS
<1>1. PICK S : S = {r[j] : j \in 1..k} \cup {x}
  OBVIOUS
<1>2. (\A j \in 1..k : r[j] \in S) /\ x \in S
  BY <1>1
<1>3. r \in Seq(S) /\ Len(r) = k
  <2>1. r = [j \in 1..k |-> r[j]]
    BY DEF Listed
  <2> QED
    BY <1>2, <2>1, SequenceOf
<1>4. /\ t \in Seq(S) /\ Len(t) = k + 1 /\ DOMAIN t = 1..(k + 1) /\ t[k + 1] = x
      /\ \A j \in 1..k : t[j] = r[j]
  BY <1>0, <1>2, <1>3
<1>5. Listed(t, k + 1)
  BY <1>4 DEF Listed
<1>6. Last(t) = x
  BY <1>4 DEF Last
<1> QED
  BY <1>0, <1>4, <1>5, <1>6 DEF Longer

(* An instruction depends on the registers it reads only.                  *)
LEMMA RegisterSame ==
  ASSUME NEW nd \in Jit!Nodes, NEW r, NEW s, \A a \in Jit!Reads(nd) : r[a + 1] = s[a + 1], NEW inputs
  PROVE  Register(nd, r, inputs) = Register(nd, s, inputs)
<1>1. nd.op \in {"load", "const", "scale", "add", "mul"} \cup Jit!Unary
  BY DEF Jit!Nodes, Jit!Ops, Jit!Binary
<1>2. CASE nd.op = "load"
  BY <1>2 DEF Register
<1>3. CASE nd.op = "const"
  BY <1>3 DEF Register
<1>4. CASE nd.op = "scale"
  <2>1. r[nd.a + 1] = s[nd.a + 1]
    BY <1>4 DEF Jit!Reads, Jit!Unary, Jit!Binary
  <2> QED
    BY <1>4, <2>1 DEF Register
<1>5. CASE nd.op \in {"add", "mul"}
  <2>1. r[nd.a + 1] = s[nd.a + 1] /\ r[nd.b + 1] = s[nd.b + 1]
    BY <1>5 DEF Jit!Reads, Jit!Unary, Jit!Binary
  <2> QED
    BY <1>5, <2>1 DEF Register
<1>6. CASE nd.op \in Jit!Unary
  <2>1. r[nd.a + 1] = s[nd.a + 1]
    BY <1>6 DEF Jit!Reads, Jit!Unary, Jit!Binary
  <2> QED
    BY <1>6, <2>1 DEF Register, Jit!Unary
<1> QED
  BY <1>1, <1>2, <1>3, <1>4, <1>5, <1>6

(* No instruction reads a later one.                                       *)
Readable(prog) ==
  prog \in Seq(Jit!Nodes) /\ \A v \in DOMAIN prog : Jit!Reads(prog[v]) \subseteq 0..(v - 2)

(* The registers after k instructions.                                     *)
FileAfter(R, prog, inputs, k) ==
  /\ Listed(R, k)
  /\ \A v \in 1..k : R[v] = Register(prog[v], R, inputs)

(* One more instruction.                                                   *)
LEMMA NextRegister ==
  ASSUME NEW prog, Readable(prog), NEW inputs, NEW k \in Nat, k + 1 <= Len(prog),
         NEW R, FileAfter(R, prog, inputs, k), NEW T, T = WithRegister(R, prog[k + 1], inputs)
  PROVE  FileAfter(T, prog, inputs, k + 1) /\ Last(T) = T[k + 1]
<1>1. Listed(R, k) /\ \A v \in 1..k : R[v] = Register(prog[v], R, inputs)
  BY DEF FileAfter
<1>2. PICK x : x = Register(prog[k + 1], R, inputs)
  OBVIOUS
<1>3. T = Append(R, x)
  BY <1>2 DEF WithRegister
<1>4. /\ Listed(T, k + 1) /\ \A v \in 1..k : T[v] = R[v]
      /\ T[k + 1] = x /\ Last(T) = x
  <2>1. Listed(R, k)
    BY <1>1
  <2>2. Longer(R, k, x, Append(R, x))
    BY <2>1, SequenceExtended
  <2> QED
    BY <1>3, <2>2 DEF Longer
<1>5. ASSUME NEW v \in 1..(k + 1)
      PROVE  Register(prog[v], R, inputs) = Register(prog[v], T, inputs)
  <2>1. v \in DOMAIN prog
    BY DEF Readable
  <2>5. PICK nd : nd = prog[v]
    OBVIOUS
  <2>2. nd \in Jit!Nodes /\ Jit!Reads(nd) \subseteq 0..(v - 2)
    BY <2>1, <2>5, ElementOfSeq DEF Readable
  <2>3. \A a \in 0..(v - 2) : a + 1 \in 1..k
    OBVIOUS
  <2>4. \A a \in Jit!Reads(nd) : R[a + 1] = T[a + 1]
    BY <1>4, <2>2, <2>3
  <2>6. Register(nd, R, inputs) = Register(nd, T, inputs)
    BY <2>2, <2>4, RegisterSame
  <2> QED
    BY <2>5, <2>6
<1>6. \A v \in 1..(k + 1) : v \in 1..k \/ v = k + 1
  OBVIOUS
<1>7. ASSUME NEW v \in 1..(k + 1) PROVE T[v] = Register(prog[v], T, inputs)
  <2>1. CASE v \in 1..k
    BY <1>1, <1>4, <1>5, <2>1
  <2>2. CASE v = k + 1
    BY <1>2, <1>4, <1>5, <2>2
  <2> QED
    BY <1>6, <2>1, <2>2
<1> QED
  BY <1>4, <1>7 DEF FileAfter

(* The registers at the end: each holds what its instruction computes from *)
(* them, the last one the result.                                          *)
RegisterFile(R, prog, inputs) ==
  /\ \A v \in 1..Len(prog) : R[v] = Register(prog[v], R, inputs)
  /\ Run(prog, inputs) = R[Len(prog)]

(* There are such registers.                                               *)
LEMMA RegistersLeft ==
  ASSUME NEW prog, Readable(prog), prog # <<>>, NEW inputs
  PROVE  \E R : RegisterFile(R, prog, inputs)
<1> DEFINE n == Len(prog)
<1>1. n \in Nat /\ n # 0
  <2>1. prog \in Seq(Jit!Nodes)
    BY DEF Readable
  <2> QED
    BY <2>1
<1>2. PICK f : RunSteps(f, prog, inputs)
  BY <1>1, RunRun
<1>3. /\ f[0] = <<>> /\ \A k \in 1..n : f[k] = WithRegister(f[k - 1], prog[k], inputs)
      /\ Run(prog, inputs) = Last(f[n])
  BY <1>2 DEF RunSteps
<1> DEFINE S == {k \in Nat : k <= n => FileAfter(f[k], prog, inputs, k)
                                       /\ (k # 0 => Last(f[k]) = f[k][k])}
<1>4. 0 \in S
  <2>1. FileAfter(<<>>, prog, inputs, 0)
    BY DEF FileAfter, Listed
  <2> QED
    BY <1>3, <2>1
<1>5. ASSUME NEW k \in Nat, k \in S PROVE k + 1 \in S
  <2> SUFFICES ASSUME k + 1 <= n
               PROVE  FileAfter(f[k + 1], prog, inputs, k + 1) /\ Last(f[k + 1]) = f[k + 1][k + 1]
    OBVIOUS
  <2>1. PICK R, T : R = f[k] /\ T = f[k + 1]
    OBVIOUS
  <2>2. FileAfter(R, prog, inputs, k) /\ k + 1 \in 1..n /\ (k + 1) - 1 = k
    BY <1>1, <1>5, <2>1
  <2>3. T = WithRegister(R, prog[k + 1], inputs)
    BY <1>3, <2>1, <2>2
  <2>4. FileAfter(T, prog, inputs, k + 1) /\ Last(T) = T[k + 1]
    BY <2>2, <2>3, NextRegister
  <2> QED
    BY <2>1, <2>4
<1>6. n \in S
  <2> HIDE DEF S
  <2> QED
    BY <1>1, <1>4, <1>5, SetInduction
<1>7. FileAfter(f[n], prog, inputs, n) /\ Last(f[n]) = f[n][n]
  BY <1>1, <1>6
<1>8. RegisterFile(f[n], prog, inputs)
  BY <1>3, <1>7 DEF RegisterFile, FileAfter
<1> QED
  BY <1>8

-----------------------------------------------------------------------------
(* The register of a member is what the member computes.                   *)
Shape(s) == s \in {"mat", "row"}

(* The values of the operands are in the registers, and have the shape s.  *)
OperandsRead(n, vs, R, a, b, s) ==
  /\ R[a + 1] = vs[1].term /\ vs[1] = [shape |-> s, term |-> vs[1].term]
  /\ ~Single(n) => R[b + 1] = vs[2].term
  /\ Len(n.args) = 2 => vs[2].shape \in {s, "scalar"}

(* An instruction computes what its node does, on operands of one shape.   *)
LEMMA InstructionComputes ==
  ASSUME NEW n \in Nodes, IsPointwise(n), Shaped(n), n.op # "relu_", NEW vs, NEW R, NEW a, NEW b,
         NEW s, Shape(s), OperandsRead(n, vs, R, a, b, s), NEW nd, nd = InstructionOf(n, a, b), NEW inputs
  PROVE  Compute(n, vs) = [shape |-> s, term |-> Register(nd, R, inputs)]
<1>1. n.op \in {"add", "mul"} \cup Jit!Unary
  BY DEF IsPointwise
<1>2. PICK t : t = vs[1].term
  OBVIOUS
<1>3. vs[1].shape = s /\ vs[1].term = t /\ vs[1] = [shape |-> s, term |-> t] /\ R[a + 1] = t
  BY <1>2 DEF OperandsRead
<1>4. Len(n.args) = 2 => Joined(vs[1], vs[2]) = s
  BY <1>3 DEF Joined, OperandsRead, Shape
<1>5. CASE IsScale(n)
  <2>1. n.op = "mul" /\ n.args[2] = 0 /\ Len(n.args) = 2
    BY <1>5 DEF IsScale, Shaped
  <2>2. nd.op = "scale" /\ nd.a = a /\ nd.alpha = n.c
    BY <1>5 DEF InstructionOf, Instruction
  <2>3. Register(nd, R, inputs) = <<"scale", n.c, t>>
    BY <1>3, <2>2 DEF Register
  <2>4. Compute(n, vs) = [shape |-> Joined(vs[1], vs[2]), term |-> <<"scale", n.c, vs[1].term>>]
    BY <2>1 DEF Compute, Jit!Unary
  <2> QED
    BY <1>3, <1>4, <2>1, <2>3, <2>4
<1>6. CASE n.op \in Jit!Unary
  <2>1. Len(n.args) = 1 /\ ~IsScale(n)
    BY <1>6 DEF Shaped, IsScale, Jit!Unary
  <2>2. nd.op = n.op /\ nd.a = a
    BY <1>6, <2>1 DEF InstructionOf, Instruction
  <2>3. Register(nd, R, inputs) = <<n.op, t>>
    BY <1>3, <1>6, <2>2 DEF Register, Jit!Unary
  <2>4. Compute(n, vs) = Activated(n.op, vs[1])
    BY <1>6 DEF Compute, Jit!Unary
  <2>5. Tensor(vs[1])
    BY <1>3 DEF Tensor, Shape
  <2>6. Activated(n.op, vs[1]) = [shape |-> s, term |-> <<n.op, t>>]
    BY <1>3, <2>5, ActivatedTensor
  <2> QED
    BY <2>3, <2>4, <2>6
<1>7. CASE n.op = "add"
  <2>1. Len(n.args) = 2 /\ ~IsScale(n) /\ ~Single(n)
    BY <1>7 DEF Shaped, IsScale, Single
  <2>2. nd.op = "add" /\ nd.a = a /\ nd.b = b /\ nd.alpha = n.alpha
    BY <1>7, <2>1 DEF InstructionOf, Instruction, BinaryInstruction
  <2>3. R[b + 1] = vs[2].term
    BY <2>1 DEF OperandsRead
  <2>4. Register(nd, R, inputs) = Sum(t, n.alpha, vs[2].term)
    BY <1>3, <2>2, <2>3 DEF Register
  <2>5. Compute(n, vs) = [shape |-> Joined(vs[1], vs[2]), term |-> Sum(vs[1].term, n.alpha, vs[2].term)]
    BY <1>7 DEF Compute, Jit!Unary
  <2> QED
    BY <1>3, <1>4, <2>1, <2>4, <2>5
<1>8. CASE n.op = "mul" /\ ~IsScale(n)
  <2>1. Len(n.args) = 2 /\ ~Single(n) /\ n.args[2] # 0
    BY <1>8 DEF Shaped, IsScale, Single
  <2>2. nd.op = "mul" /\ nd.a = a /\ nd.b = b
    BY <1>8, <2>1 DEF InstructionOf, Instruction, BinaryInstruction
  <2>3. R[b + 1] = vs[2].term
    BY <2>1 DEF OperandsRead
  <2>4. Register(nd, R, inputs) = <<"mul", t, vs[2].term>>
    BY <1>3, <2>2, <2>3 DEF Register
  <2>5. Compute(n, vs) = [shape |-> Joined(vs[1], vs[2]), term |-> <<"mul", vs[1].term, vs[2].term>>]
    BY <1>8, <2>1 DEF Compute, Jit!Unary
  <2> QED
    BY <1>3, <1>4, <2>1, <2>4, <2>5
<1> QED
  BY <1>1, <1>5, <1>6, <1>7, <1>8

(* A constant is in its register.                                          *)
LEMMA ConstantRead ==
  ASSUME NEW R, NEW prog, NEW inputs, RegisterFile(R, prog, inputs), NEW c, NEW v \in 1..Len(prog),
         prog[v] = Const(c)
  PROVE  R[v] = Scalar(c).term
<1>1. PICK nd : nd = prog[v]
  OBVIOUS
<1>2. nd.op = "const" /\ nd.c = c
  BY <1>1 DEF Const, Instruction
<1>3. R[v] = Register(nd, R, inputs)
  BY <1>1 DEF RegisterFile
<1>4. R[v] = <<"literal", c>>
  BY <1>2, <1>3 DEF Register
<1> QED
  BY <1>4 DEF Scalar

(* So is an input.                                                         *)
LEMMA InputRead ==
  ASSUME NEW p, Acc(p), Loads(p), NEW inputs, NEW R, RegisterFile(R, p.prog, inputs),
         NEW q \in DOMAIN p.inputs, NEW x, x = p.inputs[q]
  PROVE  R[p.ssa[x] + 1] = inputs[q].term
<1>1. x \in DOMAIN p.ssa
  BY DEF Acc, ToSet
<1>2. PICK v : v = p.ssa[x] + 1
  OBVIOUS
<1>3. v \in 1..Len(p.prog)
  <2>1. p.ssa[x] \in 0..(Len(p.prog) - 1) /\ Len(p.prog) \in Nat
    BY <1>1 DEF Acc
  <2> QED
    BY <1>2, <2>1
<1>4. PICK nd : nd = p.prog[v]
  OBVIOUS
<1>5. nd = Load(q - 1)
  BY <1>2, <1>4 DEF Loads
<1>6. nd.op = "load" /\ nd.id = q - 1
  BY <1>5 DEF Load, Instruction
<1>7. R[v] = Register(nd, R, inputs)
  BY <1>3, <1>4 DEF RegisterFile
<1>8. R[v] = inputs[nd.id + 1].term
  BY <1>6, <1>7 DEF Register
<1>9. nd.id + 1 = q
  <2>1. q \in Nat
    BY DEF Acc
  <2> QED
    BY <1>6, <2>1
<1> QED
  BY <1>2, <1>8, <1>9

(* The values of the operands have the shape s, and are in their registers.*)
Known(n, p, R, V, s) ==
  \A x \in Operands(n) : /\ V[x] = [shape |-> s, term |-> V[x].term]
                         /\ x \in DOMAIN p.ssa => R[p.ssa[x] + 1] = V[x].term

(* The node computes a tensor of shape s, of the term r.                   *)
HasValue(n, V, s, r) == Compute(n, ArgsOf(n, V)) = [shape |-> s, term |-> r]

(* The register of a member is the term the member computes.               *)
LEMMA MemberComputes ==
  ASSUME NEW p, Acc(p), NEW inputs, NEW R, RegisterFile(R, p.prog, inputs),
         NEW n \in Nodes, IsPointwise(n), Shaped(n), n.op # "relu_",
         NEW v, NEW a, NEW b, MemberAt(p, n, v, a, b), NEW V, NEW s, Shape(s),
         Known(n, p, R, V, s)
  PROVE  HasValue(n, V, s, R[v + 1])
<1>1. PICK vs : vs = ArgsOf(n, V)
  OBVIOUS
<1>2. Len(vs) = Len(n.args) /\ \A k \in 1..Len(n.args) : vs[k] = Worth(V, n.args[k], n.c)
  BY <1>1, ArgsOfNode
<1>3. /\ v \in 0..(Len(p.prog) - 1) /\ p.prog[v + 1] = InstructionOf(n, a, b)
      /\ Place(p, n.args[1], n.c, a) /\ (~Single(n) => Place(p, n.args[2], n.c, b))
  BY DEF MemberAt
<1>4. Len(p.prog) \in Nat
  BY DEF Acc
<1>5. n.args \in Seq(Nat) /\ DOMAIN n.args = 1..Len(n.args) /\ Len(n.args) \in Nat
  BY NaturalSequence DEF Nodes
<1>6. Len(n.args) \in {1, 2} /\ (~Single(n) => Len(n.args) = 2)
  BY DEF IsPointwise, Shaped, Single
<1>7. 1 \in 1..Len(n.args) /\ (Len(n.args) = 2 => 2 \in 1..Len(n.args))
  <2> DEFINE l == Len(n.args)
  <2>1. l = 1 \/ l = 2
    BY <1>6
  <2> HIDE DEF l
  <2>2. 1 \in 1..l /\ (l = 2 => 2 \in 1..l)
    BY <2>1
  <2> QED
    BY <2>2 DEF l
<1>8. ASSUME NEW k \in 1..Len(n.args), NEW c, Place(p, n.args[k], n.c, c)
      PROVE  R[c + 1] = vs[k].term
  <2>1. vs[k] = Worth(V, n.args[k], n.c)
    BY <1>2
  <2>2. CASE n.args[k] = 0
    <3>1. p.prog[c + 1] = Const(n.c) /\ c \in 0..(Len(p.prog) - 1)
      BY <1>8, <2>2 DEF Place
    <3>2. c + 1 \in 1..Len(p.prog)
      BY <1>4, <3>1
    <3>3. R[c + 1] = Scalar(n.c).term
      BY <3>1, <3>2, ConstantRead
    <3> QED
      BY <2>1, <2>2, <3>3 DEF Worth
  <2>3. CASE n.args[k] # 0
    <3>1. PICK x : x = n.args[k]
      OBVIOUS
    <3>2. x \in Operands(n) /\ x \in DOMAIN p.ssa /\ p.ssa[x] = c
      BY <1>5, <1>8, <2>3, <3>1 DEF Operands, ToSet, Place
    <3> QED
      BY <2>1, <2>3, <3>1, <3>2 DEF Worth, Known
  <2> QED
    BY <2>2, <2>3
<1>9. R[a + 1] = vs[1].term /\ (~Single(n) => R[b + 1] = vs[2].term)
  BY <1>3, <1>6, <1>7, <1>8
<1>10. vs[1] = [shape |-> s, term |-> vs[1].term]
  <2>1. n.args[1] # 0
    BY <1>5, <1>7 DEF IsPointwise, Shaped
  <2>2. n.args[1] \in Operands(n)
    BY <1>5, <1>7, <2>1 DEF Operands, ToSet
  <2>3. vs[1] = V[n.args[1]]
    BY <1>2, <1>7, <2>1 DEF Worth
  <2> QED
    BY <2>2, <2>3 DEF Known
<1>11. ASSUME Len(n.args) = 2 PROVE vs[2].shape \in {s, "scalar"}
  <2>1. vs[2] = Worth(V, n.args[2], n.c) /\ 2 \in DOMAIN n.args
    BY <1>2, <1>5, <1>7, <1>11
  <2>2. CASE n.args[2] = 0
    BY <2>1, <2>2 DEF Worth, Scalar
  <2>3. CASE n.args[2] # 0
    <3>1. n.args[2] \in Operands(n)
      BY <2>1, <2>3 DEF Operands, ToSet
    <3>2. vs[2] = V[n.args[2]]
      BY <2>1, <2>3 DEF Worth
    <3>3. PICK x, t : x = n.args[2] /\ t = V[x].term
      OBVIOUS
    <3>4. V[x] = [shape |-> s, term |-> t]
      BY <3>1, <3>3 DEF Known
    <3>5. V[x].shape = s
      BY <3>4
    <3> QED
      BY <3>2, <3>3, <3>5
  <2> QED
    BY <2>2, <2>3
<1>12. OperandsRead(n, vs, R, a, b, s)
  BY <1>9, <1>10, <1>11 DEF OperandsRead
<1>13. PICK nd : nd = InstructionOf(n, a, b)
  OBVIOUS
<1>14. Compute(n, vs) = [shape |-> s, term |-> Register(nd, R, inputs)]
  BY <1>12, <1>13, InstructionComputes
<1>15. v + 1 \in 1..Len(p.prog)
  BY <1>3, <1>4
<1>16. R[v + 1] = Register(nd, R, inputs)
  BY <1>3, <1>13, <1>15 DEF RegisterFile
<1> QED
  BY <1>1, <1>14, <1>16 DEF HasValue

-----------------------------------------------------------------------------
(* The pointwise pass: from the values of the call to those of the group.  *)
LEMMA GroupEnding ==
  ASSUME NEW g, WellFormed(g), NEW root, IsRoot(g, root), NEW S, S = Group(g, root)
  PROVE  /\ Ending(g, S, root) /\ S \subseteq Ids(g)
         /\ \A m \in S : m \in Ids(g) /\ g.nodes[m] \in Nodes /\ IsPointwise(g.nodes[m]) /\ Shaped(g.nodes[m])
<1>1. Closed(g, root, S)
  BY GroupClosed DEF WellFormed
<1>2. root \in S /\ S \subseteq PointwiseIds(g) /\ \A i \in S \ {root} : Before(g.order, i, root)
  BY <1>1 DEF Closed
<1>3. S \subseteq Ids(g) /\ \A m \in S : IsPointwise(g.nodes[m])
  BY <1>2 DEF PointwiseIds
<1>4. \A m \in S : Shaped(g.nodes[m]) /\ g.nodes[m] \in Nodes
  BY <1>3, NodesOf
<1> QED
  BY <1>2, <1>3, <1>4 DEF Ending, Translatable, WellFormed

(* The call's arguments are the values of the program's inputs.            *)
CallArguments(p, W, vs) ==
  /\ DOMAIN vs = DOMAIN p.inputs /\ \A q \in DOMAIN p.inputs : vs[q] = W[p.inputs[q]]
  /\ 1 \in DOMAIN p.inputs

(* There is at least one of them.                                          *)
LEMMA ArgumentsOfCall ==
  ASSUME NEW p, Acc(p), p.inputs # <<>>, NEW n, n.args = p.inputs, NEW W, NEW vs, vs = ArgsOf(n, W)
  PROVE  CallArguments(p, W, vs)
<1>1. PICK s : s = p.inputs
  OBVIOUS
<1>2. s \in Seq(Nat \ {0}) /\ s # <<>>
  BY <1>1 DEF Acc
<1>3. DOMAIN s = 1..Len(s) /\ Len(s) \in Nat /\ Len(s) # 0 /\ \A q \in DOMAIN s : s[q] # 0
  BY <1>2
<1>4. vs = [q \in DOMAIN s |-> Worth(W, s[q], n.c)]
  BY <1>1 DEF ArgsOf
<1>5. \A q \in DOMAIN s : vs[q] = W[s[q]]
  BY <1>3, <1>4 DEF Worth
<1>6. DOMAIN vs = DOMAIN s /\ 1 \in DOMAIN s
  BY <1>3, <1>4
<1> QED
  BY <1>1, <1>5, <1>6 DEF CallArguments

(* The programs the pass emits can be run.                                 *)
LEMMA ProgramReadable ==
  ASSUME NEW p, Acc(p)
  PROVE  Readable(p.prog)
BY DEF Acc, Readable

(* What the call returns.                                                  *)
Called(p, vs, w, s) ==
  /\ Shape(s) /\ w = [shape |-> s, term |-> Run(p.prog, vs)]
  /\ \A q \in DOMAIN vs : vs[q].shape = s

(* If it does not throw, its inputs have one shape.                        *)
LEMMA CallReturned ==
  ASSUME NEW n, n.op = "pointwise", NEW p, n.prog = p.prog, NEW vs, 1 \in DOMAIN vs, Tensor(vs[1]),
         NEW w, w = Compute(n, vs), w # Throws
  PROVE  Called(p, vs, w, vs[1].shape)
<1>1. w = PointwiseCall(p.prog, vs)
  BY DEF Compute, Jit!Unary
<1>2. /\ \A i \in DOMAIN vs : vs[i].shape = vs[1].shape
      /\ w = [vs[1] EXCEPT !.term = Run(p.prog, vs)]
  BY <1>1 DEF PointwiseCall
<1>3. PICK v, t : v = vs[1] /\ t = Run(p.prog, vs)
  OBVIOUS
<1>4. w = [shape |-> v.shape, term |-> t]
  BY <1>2, <1>3, TermChanged
<1>5. Shape(vs[1].shape)
  BY DEF Tensor, Shape
<1> QED
  BY <1>2, <1>3, <1>4, <1>5 DEF Called

(* The registers of the call are the values of the group.                  *)
LEMMA GroupBack ==
  ASSUME NEW g, WellFormed(g), Formed(g), NEW root, IsRoot(g, root), NEW S, S = Group(g, root),
         NEW p, p = Program(g, S), p.inputs # <<>>, NEW n, n = CallOf(p),
         NEW h, Rewritten(g, n, root, S, h), Formed(h)
  PROVE  Back(g, h)
<1> SUFFICES ASSUME NEW W, Values(h, W) PROVE \E V : SameResults(g, V, h, W)
  BY DEF Back
<1>1. /\ Ending(g, S, root) /\ S \subseteq Ids(g) /\ root \in S
      /\ \A m \in S : m \in Ids(g) /\ g.nodes[m] \in Nodes /\ IsPointwise(g.nodes[m]) /\ Shaped(g.nodes[m])
  BY GroupEnding DEF Ending
<1>2. /\ Acc(p) /\ Loads(p) /\ ToSet(p.inputs) = OperandsOf(g, S) \ S
      /\ DOMAIN p.ssa = S \cup ToSet(p.inputs)
      /\ \A m \in S : Member(p, g.nodes[m], m)
      /\ p.ssa[root] = Len(p.prog) - 1
  <2>1. Whole(g, S, root, p)
    BY <1>1, ProgramWhole
  <2> QED
    BY <2>1 DEF Whole
<1>3. p.prog # <<>>
  BY <1>1, ProgramOfGroup DEF Ending
<1>4. n \in Nodes /\ n.op = "pointwise" /\ n.args = p.inputs /\ n.prog = p.prog /\ Operands(n) = ToSet(p.inputs)
  BY <1>2, <1>3, CallTyped
<1>5. PICK new, vs : new = Len(g.nodes) + 1 /\ vs = ArgsOf(n, W)
  OBVIOUS
<1>6. CallArguments(p, W, vs)
  BY <1>2, <1>4, <1>5, ArgumentsOfCall
<1>7. new \notin Ids(g) /\ new \in Ids(h) /\ h.nodes[new] = n /\ WellFormed(h)
  BY <1>1, <1>5, NodesOf DEF Rewritten
<1>8. \A x \in ToSet(p.inputs) : Tensor(W[x]) /\ x \in Ids(g) \ S
  <2>1. ASSUME NEW x \in ToSet(p.inputs) PROVE Tensor(W[x])
    <3>1. x \in Operands(h.nodes[new])
      BY <1>4, <1>7
    <3>2. x \in Ids(h) /\ new \in Users(h, x)
      BY <1>7, <3>1, NodesOf DEF Users
    <3>3. h.nodes[x].op # "output"
      BY <3>2 DEF Formed, Terminal
    <3> QED
      BY <1>7, <3>2, <3>3, TensorValues DEF Formed
  <2>2. \A x \in OperandsOf(g, S) : x \in Ids(g)
    BY <1>1, NodesOf DEF OperandsOf
  <2> QED
    BY <1>2, <2>1, <2>2
<1>9. W[new] = Compute(n, vs) /\ W[new] # Throws
  <2>1. Computed(n, new, W)
    BY <1>7 DEF Values
  <2> QED
    BY <1>4, <1>5, <2>1 DEF Computed
<1>10. 1 \in DOMAIN vs /\ Tensor(vs[1])
  <2>1. 1 \in DOMAIN p.inputs /\ vs[1] = W[p.inputs[1]] /\ DOMAIN vs = DOMAIN p.inputs
    BY <1>6 DEF CallArguments
  <2>2. p.inputs[1] \in ToSet(p.inputs)
    BY <2>1 DEF ToSet
  <2> QED
    BY <1>8, <2>1, <2>2
<1>11. PICK s : s = vs[1].shape
  OBVIOUS
<1>12. Called(p, vs, W[new], s)
  BY <1>4, <1>9, <1>10, <1>11, CallReturned
<1>13. Shape(s) /\ W[new] = [shape |-> s, term |-> Run(p.prog, vs)]
       /\ \A q \in DOMAIN vs : vs[q].shape = s
  BY <1>12 DEF Called
<1>14. PICK R : RegisterFile(R, p.prog, vs)
  BY <1>2, <1>3, RegistersLeft, ProgramReadable
<1>15. PICK V : V = [x \in Ids(g) |-> IF x \in S THEN [shape |-> s, term |-> R[p.ssa[x] + 1]] ELSE W[x]]
  OBVIOUS
<1>16. /\ \A x \in S : V[x] = [shape |-> s, term |-> R[p.ssa[x] + 1]]
       /\ \A x \in Ids(g) \ S : V[x] = W[x]
  BY <1>1, <1>15
<1>17. ASSUME NEW x \in DOMAIN p.ssa
       PROVE  V[x] = [shape |-> s, term |-> V[x].term] /\ R[p.ssa[x] + 1] = V[x].term
  <2>1. CASE x \in S
    <3>1. PICK t : t = R[p.ssa[x] + 1]
      OBVIOUS
    <3>2. V[x] = [shape |-> s, term |-> t]
      BY <1>16, <2>1, <3>1
    <3>3. V[x].term = t
      BY <3>2
    <3> QED
      BY <3>1, <3>2, <3>3
  <2>2. CASE x \in ToSet(p.inputs)
    <3>1. PICK q \in DOMAIN p.inputs : x = p.inputs[q]
      BY <2>2 DEF ToSet
    <3>2. vs[q] = W[x] /\ q \in DOMAIN vs /\ V[x] = W[x] /\ Tensor(W[x])
      BY <1>6, <1>8, <1>16, <2>2, <3>1 DEF CallArguments
    <3>3. R[p.ssa[x] + 1] = vs[q].term
      BY <1>2, <1>14, <3>1, InputRead
    <3>4. W[x] = [shape |-> W[x].shape, term |-> W[x].term] /\ W[x].shape = s
      BY <1>13, <3>2 DEF Tensor
    <3> QED
      BY <3>2, <3>3, <3>4
  <2> QED
    BY <1>2, <2>1, <2>2
<1>18. ASSUME NEW m \in S PROVE Computed(g.nodes[m], m, V) /\ g.nodes[m].op # "output"
  <2>1. PICK k, a, b, v : k = g.nodes[m] /\ v = p.ssa[m] /\ MemberAt(p, k, v, a, b)
    BY <1>2 DEF Member
  <2>2. \A x \in Operands(k) : x \in DOMAIN p.ssa
    BY <1>2, <2>1 DEF OperandsOf
  <2>3. k.op # "relu_" /\ k \in Nodes /\ IsPointwise(k) /\ Shaped(k)
    BY <1>1, <2>1 DEF Formed, BenignNow
  <2>4. Known(k, p, R, V, s)
    BY <1>17, <2>2 DEF Known
  <2>5. Acc(p) /\ Shape(s)
    BY <1>2, <1>13
  <2>6. PICK t : t = R[v + 1]
    OBVIOUS
  <2>7. Compute(k, ArgsOf(k, V)) = [shape |-> s, term |-> t]
    <3>1. HasValue(k, V, s, R[v + 1])
      BY <1>14, <2>1, <2>3, <2>4, <2>5, MemberComputes
    <3> QED
      BY <2>6, <3>1 DEF HasValue
  <2>8. V[m] = [shape |-> s, term |-> t]
    BY <1>16, <2>1, <2>6
  <2>9. V[m] # Throws
    <3>1. V[m].shape = s
      BY <2>8
    <3> QED
      BY <2>5, <3>1 DEF Throws, Shape
  <2>10. k.op \notin {"in", "output"}
    BY <2>3 DEF IsPointwise, Jit!Unary
  <2> QED
    BY <2>1, <2>7, <2>8, <2>9, <2>10 DEF Computed
<1>19. V[root] = W[new]
  <2>1. p.ssa[root] + 1 = Len(p.prog)
    <3>1. Len(p.prog) \in Nat
      BY <1>2 DEF Acc
    <3> QED
      BY <1>2, <3>1
  <2>2. R[p.ssa[root] + 1] = Run(p.prog, vs)
    BY <1>14, <2>1 DEF RegisterFile
  <2> QED
    BY <1>1, <1>13, <1>16, <2>2
<1>20. Transfer(g, root, S, V, W)
  BY <1>1, <1>5, <1>16, <1>19 DEF Transfer
<1>21. SameResults(g, V, h, W)
  BY <1>18, <1>20, ValuesBack
<1> QED
  BY <1>21

(* ... and from the values of the group to that of the call, when tensors  *)
(* meet tensors of their shape only.                                       *)
SameShape(g, V, m) == \A x \in Operands(g.nodes[m]) : V[x].shape = V[m].shape

(* A pointwise operator that meets one shape returns it.                   *)
LEMMA MemberShape ==
  ASSUME NEW g, WellFormed(g), Formed(g), NEW V, Values(g, V), UniformNow(g, V),
         NEW m \in Ids(g), IsPointwise(g.nodes[m])
  PROVE  SameShape(g, V, m)
<1>1. PICK n, vs, x : n = g.nodes[m] /\ vs = ArgsOf(n, V) /\ x = n.args[1]
  OBVIOUS
<1>2. /\ n \in Nodes /\ Shaped(n) /\ IsPointwise(n) /\ n.op # "relu_" /\ UniformNode(n, V)
      /\ \A a \in Operands(n) : a \in Ids(g)
  BY <1>1, NodesOf DEF Formed, BenignNow, UniformNow
<1>3. n.op \in {"add", "mul"} \cup Jit!Unary /\ n.op \notin {"in", "output"}
  BY <1>2 DEF IsPointwise, Jit!Unary
<1>4. V[m] = Compute(n, vs)
  BY <1>1, <1>3 DEF Values, Computed
<1>5. n.args \in Seq(Nat) /\ DOMAIN n.args = 1..Len(n.args) /\ Len(n.args) \in Nat
  BY <1>2, NaturalSequence DEF Nodes
<1>6. (n.op \in Jit!Unary => Len(n.args) = 1) /\ (n.op \in {"add", "mul"} => Len(n.args) = 2)
  BY <1>2 DEF Shaped
<1>7. 1 \in DOMAIN n.args /\ (Len(n.args) = 2 => 2 \in DOMAIN n.args)
  <2> DEFINE l == Len(n.args)
  <2>1. (l = 1 \/ l = 2) /\ DOMAIN n.args = 1..l
    BY <1>3, <1>5, <1>6
  <2> HIDE DEF l
  <2>2. 1 \in DOMAIN n.args /\ (l = 2 => 2 \in DOMAIN n.args)
    BY <2>1
  <2> QED
    BY <2>2 DEF l
<1>8. /\ \A k \in 1..Len(n.args) : vs[k] = Worth(V, n.args[k], n.c)
  BY <1>1, <1>2, ArgsOfNode
<1>9. x # 0 /\ x \in Operands(n)
  <2>1. x # 0
    BY <1>1, <1>2, <1>7 DEF Shaped
  <2> QED
    BY <1>1, <1>7, <2>1 DEF Operands, ToSet
<1>10. vs[1] = V[x]
  BY <1>1, <1>5, <1>7, <1>8, <1>9 DEF Worth
<1>11. ASSUME NEW a \in Operands(n) PROVE Tensor(V[a])
  <2>1. m \in Users(g, a)
    BY <1>1, <1>11 DEF Users
  <2>2. a \in Ids(g) /\ g.nodes[a].op # "output"
    BY <1>2, <2>1 DEF Formed, Terminal
  <2> QED
    BY <2>2, TensorValues DEF Formed
<1>12. CASE n.op \in Jit!Unary
  <2>1. V[m] = Activated(n.op, vs[1])
    BY <1>4, <1>12 DEF Compute, Jit!Unary
  <2>2. V[m].shape = V[x].shape
    BY <1>9, <1>10, <1>11, <2>1, ActivatedTensor
  <2>3. \A a \in Operands(n) : a = x
    <3>1. PICK l : l = Len(n.args)
      OBVIOUS
    <3>2. l = 1 /\ DOMAIN n.args = 1..l
      BY <1>5, <1>6, <1>12, <3>1
    <3>3. \A k \in DOMAIN n.args : k = 1
      BY <3>2
    <3> QED
      BY <1>1, <3>3 DEF Operands, ToSet
  <2> QED
    BY <1>1, <2>2, <2>3 DEF SameShape
<1>13. CASE n.op \in {"add", "mul"}
  <2>1. PICK s : s = V[x].shape
    OBVIOUS
  <2>2. Shape(s)
    BY <1>9, <1>11, <2>1 DEF Tensor, Shape
  <2>3. \A a \in Operands(n) : V[a].shape = s
    BY <1>2, <1>9, <1>13, <2>1 DEF UniformNode
  <2>4. vs[2].shape \in {s, "scalar"}
    <3>1. 2 \in DOMAIN n.args /\ vs[2] = Worth(V, n.args[2], n.c)
      BY <1>5, <1>6, <1>7, <1>8, <1>13
    <3>2. CASE n.args[2] = 0
      BY <3>1, <3>2 DEF Worth, Scalar
    <3>3. CASE n.args[2] # 0
      <4>1. n.args[2] \in Operands(n)
        BY <3>1, <3>3 DEF Operands, ToSet
      <4> QED
        BY <2>3, <3>1, <3>3, <4>1 DEF Worth
    <3> QED
      BY <3>2, <3>3
  <2>5. Joined(vs[1], vs[2]) = s
    BY <1>10, <2>1, <2>2, <2>4 DEF Joined, Shape
  <2>6. V[m].shape = Joined(vs[1], vs[2])
    <3>1. CASE n.op = "add"
      BY <1>4, <3>1 DEF Compute, Jit!Unary
    <3>2. CASE n.op = "mul"
      BY <1>4, <3>2 DEF Compute, Jit!Unary
    <3> QED
      BY <1>13, <3>1, <3>2
  <2> QED
    BY <1>1, <2>3, <2>5, <2>6 DEF SameShape
<1> QED
  BY <1>3, <1>12, <1>13

(* All of a group has the shape of its root.                               *)
GroupShaped(g, V, S, root) == \A m \in S : V[m].shape = V[root].shape

(* Every member has a user in the group, but the root.                     *)
LEMMA GroupShape ==
  ASSUME NEW g, WellFormed(g), Formed(g), NEW V, Values(g, V), UniformNow(g, V),
         NEW root, IsRoot(g, root)
  PROVE  GroupShaped(g, V, Group(g, root), root)
<1>1. Len(g.order) \in Nat
  BY DEF WellFormed, Sound, Graph
<1>2. PICK f : GroupSteps(f, g, root)
  BY <1>1, GroupRun
<1>3. /\ f[0] = {root} /\ \A k \in 1..Len(g.order) : f[k] = Grown(g, f[k - 1])
      /\ Group(g, root) = f[Len(g.order)]
  BY <1>2 DEF GroupSteps
<1>4. root \in PointwiseIds(g)
  BY DEF IsRoot
<1> DEFINE OK(S) == S \subseteq PointwiseIds(g) /\ GroupShaped(g, V, S, root)
           T == {k \in Nat : k <= Len(g.order) => OK(f[k])}
<1>5. OK({root})
  BY <1>4 DEF GroupShaped
<1>6. ASSUME NEW S, OK(S) PROVE OK(Grown(g, S))
  <2>1. Grown(g, S) \subseteq PointwiseIds(g)
    BY <1>6 DEF Grown
  <2>2. ASSUME NEW m \in Grown(g, S) PROVE V[m].shape = V[root].shape
    <3>1. CASE m \in S
      BY <1>6, <3>1 DEF GroupShaped
    <3>2. CASE m \notin S
      <4>1. PICK u \in Users(g, m) : u \in S
        BY <3>2 DEF Grown
      <4>2. u \in Ids(g) /\ m \in Operands(g.nodes[u]) /\ IsPointwise(g.nodes[u])
        BY <1>6, <4>1 DEF Users, PointwiseIds
      <4>3. SameShape(g, V, u)
        BY <4>2, MemberShape
      <4>4. V[m].shape = V[u].shape /\ V[u].shape = V[root].shape
        BY <1>6, <4>1, <4>2, <4>3 DEF SameShape, GroupShaped
      <4> QED
        BY <4>4
    <3> QED
      BY <3>1, <3>2
  <2> QED
    BY <2>1, <2>2 DEF GroupShaped
<1> HIDE DEF OK
<1>7. 0 \in T
  BY <1>3, <1>5
<1>8. ASSUME NEW k \in Nat, k \in T PROVE k + 1 \in T
  <2> SUFFICES ASSUME k + 1 <= Len(g.order) PROVE OK(f[k + 1])
    OBVIOUS
  <2>1. k + 1 \in 1..Len(g.order) /\ (k + 1) - 1 = k /\ OK(f[k])
    BY <1>1, <1>8
  <2>2. f[k + 1] = Grown(g, f[k])
    BY <1>3, <2>1
  <2> QED
    BY <1>6, <2>1, <2>2
<1>9. Len(g.order) \in T
  <2> HIDE DEF T
  <2> QED
    BY <1>1, <1>7, <1>8, SetInduction
<1>10. OK(Group(g, root))
  BY <1>1, <1>3, <1>9
<1> QED
  BY <1>10 DEF OK

(* All registers of the program hold what the nodes compute.               *)
Computing(g, S, p, R, V, s) ==
  /\ Acc(p) /\ DOMAIN p.ssa = S \cup ToSet(p.inputs) /\ Shape(s)
  /\ \A m \in S : /\ g.nodes[m] \in Nodes /\ IsPointwise(g.nodes[m]) /\ Shaped(g.nodes[m])
                  /\ g.nodes[m].op # "relu_" /\ Member(p, g.nodes[m], m)
                  /\ V[m] = Compute(g.nodes[m], ArgsOf(g.nodes[m], V))
                  /\ \A x \in Operands(g.nodes[m]) :
                       x \in DOMAIN p.ssa /\ V[x] = [shape |-> s, term |-> V[x].term]
  /\ \A x \in ToSet(p.inputs) : R[p.ssa[x] + 1] = V[x].term

(* The registers hold the values of the nodes.                             *)
Held(p, R, V) == \A x \in DOMAIN p.ssa : R[p.ssa[x] + 1] = V[x].term

(* ... by induction on their positions.                                    *)
LEMMA RegistersComputed ==
  ASSUME NEW g, NEW S, NEW p, NEW inputs, NEW R, RegisterFile(R, p.prog, inputs), NEW V, NEW s,
         Computing(g, S, p, R, V, s)
  PROVE  Held(p, R, V)
<1>1. /\ Acc(p) /\ DOMAIN p.ssa = S \cup ToSet(p.inputs) /\ Shape(s)
      /\ \A x \in ToSet(p.inputs) : R[p.ssa[x] + 1] = V[x].term
  BY DEF Computing
<1>2. Len(p.prog) \in Nat /\ \A x \in DOMAIN p.ssa : p.ssa[x] \in 0..(Len(p.prog) - 1)
  BY <1>1 DEF Acc
<1> DEFINE OK(x) == R[p.ssa[x] + 1] = V[x].term
           T == {k \in Nat : \A x \in DOMAIN p.ssa : p.ssa[x] < k => OK(x)}
<1>3. 0 \in T
  BY <1>2
<1>4. ASSUME NEW k \in Nat, \A x \in DOMAIN p.ssa : p.ssa[x] < k => OK(x),
             NEW x \in DOMAIN p.ssa, p.ssa[x] = k
      PROVE  OK(x)
  <2>1. CASE x \in ToSet(p.inputs)
    BY <1>1, <2>1
  <2>2. CASE x \in S
    <3>1. PICK n : n = g.nodes[x]
      OBVIOUS
    <3>2. /\ n \in Nodes /\ IsPointwise(n) /\ Shaped(n) /\ n.op # "relu_"
          /\ Member(p, n, x) /\ V[x] = Compute(n, ArgsOf(n, V))
          /\ \A y \in Operands(n) :
               y \in DOMAIN p.ssa /\ V[y] = [shape |-> s, term |-> V[y].term]
      BY <2>2, <3>1 DEF Computing
    <3>3. PICK a, b : MemberAt(p, n, k, a, b)
      BY <1>4, <3>2 DEF Member
    <3>4. ASSUME NEW y \in Operands(n) PROVE y \in DOMAIN p.ssa /\ p.ssa[y] < k
      <4>1. n.args \in Seq(Nat) /\ DOMAIN n.args = 1..Len(n.args)
        BY <3>2, NaturalSequence DEF Nodes
      <4>2. PICK l : l = Len(n.args)
        OBVIOUS
      <4>3. (l = 1 \/ l = 2) /\ (~Single(n) <=> l = 2 /\ ~IsScale(n))
        <5>1. Single(n) <=> IsScale(n) \/ l = 1
          BY <4>2 DEF Single
        <5>2. CASE n.op \in {"add", "mul"}
          <6>1. l = 2
            BY <3>2, <4>2, <5>2 DEF Shaped
          <6> QED
            BY ONLY <5>1, <6>1
        <5>3. CASE n.op \in {"relu_"} \cup Jit!Unary
          <6>1. l = 1
            BY <3>2, <4>2, <5>3 DEF Shaped
          <6> QED
            BY ONLY <5>1, <6>1
        <5> QED
          BY <3>2, <5>2, <5>3 DEF IsPointwise
      <4>4. PICK q \in 1..l : y = n.args[q] /\ y # 0
        BY <4>1, <4>2 DEF Operands, ToSet
      <4>5. CASE q = 1
        <5>1. Place(p, y, n.c, a) /\ a < k
          BY <3>3, <4>4, <4>5 DEF MemberAt
        <5> QED
          BY <4>4, <5>1 DEF Place
      <4>6. CASE q = 2 /\ l = 2
        <5>1. ~IsScale(n)
          BY <4>4, <4>6 DEF IsScale
        <5>2. Place(p, y, n.c, b) /\ b < k
          BY <3>3, <4>3, <4>4, <4>6, <5>1 DEF MemberAt
        <5> QED
          BY <4>4, <5>2 DEF Place
      <4>7. q = 1 \/ (q = 2 /\ l = 2)
        BY <4>3
      <4> QED
        BY <4>5, <4>6, <4>7
    <3>5. Known(n, p, R, V, s)
      BY <1>4, <3>2, <3>4 DEF Known
    <3>6. HasValue(n, V, s, R[k + 1])
      BY <1>1, <3>2, <3>3, <3>5, MemberComputes
    <3>7. PICK t : t = R[k + 1]
      OBVIOUS
    <3>8. V[x] = [shape |-> s, term |-> t]
      BY <3>2, <3>6, <3>7 DEF HasValue
    <3>9. V[x].term = t
      BY <3>8
    <3> QED
      BY <1>4, <3>7, <3>9
  <2> QED
    BY <1>1, <2>1, <2>2
<1>5. ASSUME NEW k \in Nat, k \in T PROVE k + 1 \in T
  <2> SUFFICES ASSUME NEW x \in DOMAIN p.ssa, p.ssa[x] < k + 1 PROVE OK(x)
    OBVIOUS
  <2>1. \A y \in DOMAIN p.ssa : p.ssa[y] < k => OK(y)
    BY <1>5
  <2> HIDE DEF OK
  <2>2. p.ssa[x] < k \/ p.ssa[x] = k
    <3>1. p.ssa[x] \in Nat
      BY <1>2
    <3> QED
      BY <3>1
  <2> QED
    BY <1>4, <2>1, <2>2
<1>6. Len(p.prog) \in T
  <2> HIDE DEF T
  <2> QED
    BY <1>2, <1>3, <1>5, SetInduction
<1>7. ASSUME NEW x \in DOMAIN p.ssa PROVE OK(x)
  <2>1. p.ssa[x] < Len(p.prog)
    BY <1>2
  <2> HIDE DEF OK
  <2> QED
    BY <1>6, <2>1
<1> QED
  BY <1>7 DEF Held

(* The call computes what the root did.                                    *)
LEMMA CallComputes ==
  ASSUME NEW n, n.op = "pointwise", NEW W, NEW vs, vs = ArgsOf(n, W), 1 \in DOMAIN vs, Tensor(vs[1]),
         NEW s, \A q \in DOMAIN vs : vs[q].shape = s, NEW t, t = Run(n.prog, vs)
  PROVE  HasValue(n, W, s, t)
<1>1. Compute(n, vs) = PointwiseCall(n.prog, vs)
  BY DEF Compute, Jit!Unary
<1>2. PointwiseCall(n.prog, vs) = [vs[1] EXCEPT !.term = t]
  BY DEF PointwiseCall
<1>3. PICK v : v = vs[1]
  OBVIOUS
<1>4. [v EXCEPT !.term = t] = [shape |-> v.shape, term |-> t]
  BY <1>3, TermChanged
<1> QED
  BY <1>1, <1>2, <1>3, <1>4 DEF HasValue

(* What a group has read is of the root's shape, as its members are.       *)
Alike(g, V, S, p, s) ==
  /\ \A m \in S : /\ g.nodes[m].op \notin {"relu_", "in", "output"}
                  /\ V[m] = Compute(g.nodes[m], ArgsOf(g.nodes[m], V))
                  /\ \A x \in Operands(g.nodes[m]) : x \in DOMAIN p.ssa
  /\ \A x \in DOMAIN p.ssa : V[x] = [shape |-> s, term |-> V[x].term] /\ Tensor(V[x]) /\ V[x].shape = s

(* It follows from the shapes that meet in the graph.                      *)
LEMMA GroupAlike ==
  ASSUME NEW g, WellFormed(g), Formed(g), NEW root, IsRoot(g, root), NEW S, S = Group(g, root),
         NEW p, DOMAIN p.ssa = S \cup ToSet(p.inputs), ToSet(p.inputs) = OperandsOf(g, S) \ S,
         NEW V, Values(g, V), UniformNow(g, V), NEW s, s = V[root].shape
  PROVE  Alike(g, V, S, p, s)
<1>1. /\ root \in S
      /\ \A m \in S : m \in Ids(g) /\ g.nodes[m] \in Nodes /\ IsPointwise(g.nodes[m]) /\ Shaped(g.nodes[m])
  BY GroupEnding DEF Ending
<1>2. \A m \in S : V[m].shape = s
  BY GroupShape DEF GroupShaped
<1>3. ASSUME NEW m \in S
      PROVE  /\ g.nodes[m].op \notin {"relu_", "in", "output"}
             /\ V[m] = Compute(g.nodes[m], ArgsOf(g.nodes[m], V))
             /\ \A x \in Operands(g.nodes[m]) : x \in DOMAIN p.ssa
  <2>1. PICK k : k = g.nodes[m]
    OBVIOUS
  <2>2. k.op # "relu_" /\ k.op \notin {"in", "output"}
    BY <1>1, <2>1 DEF Formed, BenignNow, IsPointwise, Jit!Unary
  <2>3. V[m] = Compute(k, ArgsOf(k, V))
    BY <1>1, <2>1, <2>2 DEF Values, Computed
  <2>4. \A x \in Operands(k) : x \in DOMAIN p.ssa
    BY <2>1 DEF OperandsOf
  <2> QED
    BY <2>1, <2>2, <2>3, <2>4
<1>4. ASSUME NEW x \in DOMAIN p.ssa
      PROVE  x \in Ids(g) /\ g.nodes[x].op # "output" /\ V[x].shape = s
  <2>1. CASE x \in S
    BY <1>1, <1>2, <1>3, <2>1
  <2>2. CASE x \notin S
    <3>1. PICK m \in S : x \in Operands(g.nodes[m])
      BY <2>2 DEF OperandsOf
    <3>2. m \in Ids(g) /\ x \in Ids(g) /\ m \in Users(g, x)
      BY <1>1, <3>1, NodesOf DEF Users
    <3>3. g.nodes[x].op # "output"
      BY <3>2 DEF Formed, Terminal
    <3>4. SameShape(g, V, m)
      BY <1>1, <3>2, MemberShape
    <3> QED
      BY <1>2, <3>1, <3>2, <3>3, <3>4 DEF SameShape
  <2> QED
    BY <2>1, <2>2
<1>5. ASSUME NEW x \in DOMAIN p.ssa
      PROVE  V[x] = [shape |-> s, term |-> V[x].term] /\ Tensor(V[x]) /\ V[x].shape = s
  <2>1. Tensor(V[x])
    BY <1>4, TensorValues DEF Formed
  <2> QED
    BY <1>4, <2>1 DEF Tensor
<1> QED
  BY <1>3, <1>5 DEF Alike

(* The value of the root is what the call computes.                        *)
LEMMA GroupForth ==
  ASSUME NEW g, WellFormed(g), Formed(g), NEW root, IsRoot(g, root), NEW S, S = Group(g, root),
         NEW p, p = Program(g, S), p.inputs # <<>>, NEW n, n = CallOf(p),
         NEW h, Rewritten(g, n, root, S, h), NEW V, Values(g, V), UniformNow(g, V)
  PROVE  Forth(g, V, h, root)
<1>1. /\ Ending(g, S, root) /\ S \subseteq Ids(g) /\ root \in S
      /\ \A m \in S : m \in Ids(g) /\ g.nodes[m] \in Nodes /\ IsPointwise(g.nodes[m]) /\ Shaped(g.nodes[m])
  BY GroupEnding DEF Ending
<1>2. /\ Acc(p) /\ Loads(p) /\ ToSet(p.inputs) = OperandsOf(g, S) \ S
      /\ DOMAIN p.ssa = S \cup ToSet(p.inputs)
      /\ \A m \in S : Member(p, g.nodes[m], m)
      /\ p.ssa[root] = Len(p.prog) - 1
  <2>1. Whole(g, S, root, p)
    BY <1>1, ProgramWhole
  <2> QED
    BY <2>1 DEF Whole
<1>3. p.prog # <<>>
  BY <1>1, ProgramOfGroup DEF Ending
<1>4. n \in Nodes /\ n.op = "pointwise" /\ n.args = p.inputs /\ n.prog = p.prog
  BY <1>2, <1>3, CallTyped
<1>5. PICK s, new : s = V[root].shape /\ new = Len(g.nodes) + 1
  OBVIOUS
<1>6. Alike(g, V, S, p, s)
  BY <1>2, <1>5, GroupAlike
<1>7. /\ \A m \in S : /\ g.nodes[m].op \notin {"relu_", "in", "output"}
                      /\ V[m] = Compute(g.nodes[m], ArgsOf(g.nodes[m], V))
                      /\ \A x \in Operands(g.nodes[m]) : x \in DOMAIN p.ssa
      /\ \A x \in DOMAIN p.ssa : V[x] = [shape |-> s, term |-> V[x].term] /\ Tensor(V[x]) /\ V[x].shape = s
  BY <1>6 DEF Alike
<1>8. new \notin Ids(g)
  BY <1>1, <1>5, NodesOf
<1>9. PICK W : W = [x \in Ids(g) \cup {new} |-> IF x = new THEN V[root] ELSE V[x]]
  OBVIOUS
<1>10. W[new] = V[root] /\ \A x \in Ids(g) : W[x] = V[x]
  BY <1>8, <1>9
<1>11. PICK vs : vs = ArgsOf(n, W)
  OBVIOUS
<1>12. CallArguments(p, W, vs)
  BY <1>2, <1>4, <1>11, ArgumentsOfCall
<1>13. \A q \in DOMAIN p.inputs : p.inputs[q] \in DOMAIN p.ssa /\ p.inputs[q] \in Ids(g)
  <2>1. \A q \in DOMAIN p.inputs : p.inputs[q] \in ToSet(p.inputs)
    BY DEF ToSet
  <2>2. \A x \in OperandsOf(g, S) : x \in Ids(g)
    BY <1>1, NodesOf DEF OperandsOf
  <2> QED
    BY <1>2, <2>1, <2>2
<1>14. /\ DOMAIN vs = DOMAIN p.inputs /\ 1 \in DOMAIN vs
       /\ \A q \in DOMAIN vs : vs[q] = V[p.inputs[q]]
  BY <1>10, <1>12, <1>13 DEF CallArguments
<1>15. Tensor(vs[1]) /\ \A q \in DOMAIN vs : vs[q].shape = s
  <2>1. \A x \in DOMAIN p.ssa : Tensor(V[x]) /\ V[x].shape = s
    BY <1>7
  <2>2. ASSUME NEW q \in DOMAIN vs PROVE Tensor(vs[q]) /\ vs[q].shape = s
    BY <1>13, <1>14, <2>1
  <2> QED
    BY <1>14, <2>2
<1>16. PICK R : RegisterFile(R, p.prog, vs)
  BY <1>2, <1>3, RegistersLeft, ProgramReadable
<1>17. \A x \in ToSet(p.inputs) : R[p.ssa[x] + 1] = V[x].term
  <2> SUFFICES ASSUME NEW x \in ToSet(p.inputs) PROVE R[p.ssa[x] + 1] = V[x].term
    OBVIOUS
  <2>1. PICK q \in DOMAIN p.inputs : x = p.inputs[q]
    BY DEF ToSet
  <2>2. R[p.ssa[x] + 1] = vs[q].term
    BY <1>2, <1>16, <2>1, InputRead
  <2> QED
    BY <1>14, <2>1, <2>2
<1>18. Shape(s)
  BY <1>1, <1>2, <1>7 DEF Tensor, Shape
<1>19. Computing(g, S, p, R, V, s)
  <2>1. \A m \in S : \A x \in Operands(g.nodes[m]) :
          x \in DOMAIN p.ssa /\ V[x] = [shape |-> s, term |-> V[x].term]
    BY <1>7
  <2> QED
    BY <1>1, <1>2, <1>7, <1>17, <1>18, <2>1 DEF Computing
<1>20. PICK t : t = Run(p.prog, vs)
  OBVIOUS
<1>21. t = V[root].term
  <2>1. R[p.ssa[root] + 1] = V[root].term
    <3>1. Held(p, R, V)
      BY <1>16, <1>19, RegistersComputed
    <3>2. root \in DOMAIN p.ssa
      BY <1>1, <1>2
    <3> QED
      BY <3>1, <3>2 DEF Held
  <2>2. p.ssa[root] + 1 = Len(p.prog)
    <3>1. Len(p.prog) \in Nat
      BY <1>2 DEF Acc
    <3> QED
      BY <1>2, <3>1
  <2> QED
    BY <1>16, <1>20, <2>1, <2>2 DEF RegisterFile
<1>22. Compute(n, vs) = [shape |-> s, term |-> t]
  <2>1. t = Run(n.prog, vs)
    BY <1>4, <1>20
  <2>2. HasValue(n, W, s, t)
    BY <1>4, <1>11, <1>14, <1>15, <2>1, CallComputes
  <2> QED
    BY <1>11, <2>2 DEF HasValue
<1>23. Compute(n, vs) = V[root] /\ V[root] # Throws
  <2>1. V[root] = [shape |-> s, term |-> V[root].term] /\ Tensor(V[root])
    BY <1>1, <1>2, <1>7
  <2> QED
    BY <1>21, <1>22, <2>1, TensorNotThrows
<1>24. Computed(n, new, W)
  BY <1>4, <1>10, <1>11, <1>23 DEF Computed
<1>25. Transfer(g, root, S, V, W)
  BY <1>1, <1>5, <1>10 DEF Transfer
<1>26. Values(h, W)
  BY <1>5, <1>24, <1>25, ValuesForth
<1> QED
  BY <1>5, <1>10, <1>26 DEF Forth

(* A group and its call compute the same,                                  *)
LEMMA GroupRewrites ==
  ASSUME NEW g, WellFormed(g), Formed(g), NEW root, IsRoot(g, root), NEW S, S = Group(g, root),
         NEW p, p = Program(g, S), p.inputs # <<>>, NEW n, n = CallOf(p),
         NEW h, Rewritten(g, n, root, S, h)
  PROVE  Computes(g, h)
<1>1. Ending(g, S, root) /\ S \subseteq Ids(g)
  BY GroupEnding
<1>2. root \in Ids(g)
  BY <1>1 DEF Ending
<1>3. Acc(p) /\ ToSet(p.inputs) = OperandsOf(g, S) \ S /\ p.prog # <<>>
  BY <1>1, ProgramOfGroup DEF Ending
<1>4. n.op = "pointwise" /\ Operands(n) = ToSet(p.inputs)
  BY <1>3, CallTyped
<1>5. n.op \in {"linear_act", "pointwise"} /\ Operands(n) \subseteq OperandsOf(g, S)
  BY <1>3, <1>4
<1>6. Formed(h)
  <2>1. PICK i, gone : i = root /\ gone = S
    OBVIOUS
  <2>2. /\ i \in Ids(g) /\ gone \subseteq Ids(g) /\ Rewritten(g, n, i, gone, h)
        /\ n.op \in {"linear_act", "pointwise"} /\ Operands(n) \subseteq OperandsOf(g, gone)
    BY <1>1, <1>2, <1>5, <2>1
  <2> HIDE <2>1
  <2>3. Formed(h)
    BY ONLY <2>2, RewrittenFormed, WellFormed(g), Formed(g)
  <2> QED
    BY <2>3
<1>7. Back(g, h)
  BY <1>6, GroupBack
<1>8. ASSUME NEW V, Values(g, V), UniformNow(g, V) PROVE \E W : Values(h, W) /\ UniformNow(h, W)
  <2>1. Forth(g, V, h, root)
    BY <1>8, GroupForth
  <2>2. PICK W : Values(h, W) /\ W[Len(g.nodes) + 1] = V[root] /\ \A x \in Ids(g) : W[x] = V[x]
    BY <2>1 DEF Forth
  <2>3. UniformNow(h, W)
    BY <1>2, <1>5, <1>8, <2>2, RewrittenUniform
  <2> QED
    BY <2>2, <2>3
<1> QED
  BY <1>6, <1>7, <1>8 DEF Computes, Forwards

(* whatever root the pointwise pass visits.                                *)
LEMMA GroupComputes ==
  ASSUME NEW g, WellFormed(g), Formed(g), NEW root, IsRoot(g, root),
         Program(g, Group(g, root)).inputs # <<>>, NEW h, h = FusesTo(g, root)
  PROVE  Computes(g, h)
<1>1. PICK S, p, n : S = Group(g, root) /\ p = Program(g, S) /\ n = CallOf(p)
  OBVIOUS
<1>2. GroupErases(g, root, n, h)
  BY <1>1, PointwiseVisit
<1>3. Rewritten(g, n, root, S, h)
  BY <1>1, <1>2 DEF GroupErases
<1> QED
  BY <1>1, <1>3, GroupRewrites

-----------------------------------------------------------------------------

(* What the compiled graph returns: the invariant.                         *)
NoOutput(g)  == \A i \in Ids(g) : g.nodes[i].op # "output"
HasOutput(g) == \E o \in Ids(g) : g.nodes[o].op = "output"

(* The values of g are those of d,                                         *)
Explains(d, g) ==
  /\ Pure(d) /\ SoleOutput(d) /\ HasOutput(d)
  /\ Formed(g) /\ Back(d, g)

(* ... and there are some if d is uniform: in the gemm pass, while the     *)
(* sums that it fuses are still to be visited,                             *)
Fits(d, g, td) ==
  /\ Shapable(g) /\ SumVisits(g) \subseteq ToSet(td)
  /\ Uniform(d) => \E W : Values(g, W) /\ UniformSums(g, W)

(* ... and after it, when there are none left.                             *)
Meets(d, g) == Uniform(d) => \E W : Values(g, W) /\ UniformNow(g, W)

(* While the module is traced it returns; after that the graph explains    *)
(* the one traced.                                                         *)
MeaningInv ==
  /\ phase = "trace" => NoOutput(graph) /\ Meaning(graph) # Refusal
  /\ Compiling /\ Benign(given) => Explains(given, graph)
  /\ phase = "gemm" /\ Benign(given) => Fits(given, graph, todo)
  /\ phase \in {"pointwise", "done"} /\ Benign(given) => Meets(given, graph)

(* ... and what it says of a phase.                                        *)
MeaningIn(g, d, ph, td) ==
  /\ ph = "trace" => NoOutput(g) /\ Meaning(g) # Refusal
  /\ ph \in {"gemm", "pointwise", "done"} /\ Benign(d) => Explains(d, g)
  /\ ph = "gemm" /\ Benign(d) => Fits(d, g, td)
  /\ ph \in {"pointwise", "done"} /\ Benign(d) => Meets(d, g)

(* ... now, and after a step.                                              *)
LEMMA InvMeaningIn ==
  /\ MeaningInv <=> MeaningIn(graph, given, phase, todo)
  /\ MeaningInv' <=> MeaningIn(graph', given', phase', todo')
BY DEF MeaningInv, MeaningIn, Compiling

(* The inputs of a graph are values.                                       *)
LEMMA InputsMeant ==
  ASSUME family \in Families
  PROVE  NoOutput(InputGraph) /\ Meaning(InputGraph) # Refusal
<1>1. PICK g : g = InputGraph
  OBVIOUS
<1>2. WellFormed(g) /\ Ids(g) = DOMAIN g.nodes
  BY <1>1, InputsWellFormed
<1>3. \A i \in DOMAIN g.nodes : g.nodes[i].op = "in"
  <2>1. g.nodes = [i \in 1..NInputs |-> [NewNode("in", <<>>) EXCEPT !.shape = family.shapes[i]]]
    BY <1>1 DEF InputGraph
  <2>2. \A s : [NewNode("in", <<>>) EXCEPT !.shape = s].op = "in"
    BY DEF NewNode
  <2> QED
    BY <2>1, <2>2
<1>4. Pure(g) /\ SoleOutput(g) /\ NoOutput(g)
  BY <1>2, <1>3 DEF Pure, SoleOutput, NoOutput
<1>5. PICK W : W = [i \in Ids(g) |-> InputValue(i, g.nodes[i])]
  OBVIOUS
<1>6. Values(g, W)
  BY <1>2, <1>3, <1>5 DEF Values, Computed
<1>7. Meaning(g) # Refusal
  BY <1>2, <1>4, <1>6, MeantByValues
<1> QED
  BY <1>1, <1>4, <1>7

(* The traced graph, and its values.                                       *)
Concluded(g, n, d) ==
  /\ WellFormed(g) /\ Untouched(g) /\ NoOutput(g) /\ Meaning(g) # Refusal
  /\ WellFormed(d) /\ AppendedTo(g, n, d) /\ n.op = "output" /\ Benign(d)

(* Its nodes are those of g, and the output.                               *)
Outcome(g, n, d) ==
  LET new == Len(g.nodes) + 1
  IN  /\ new \in Ids(d) /\ d.nodes[new] = n /\ new \notin Ids(g)
      /\ \A x \in Ids(g) : x \in Ids(d) /\ d.nodes[x] = g.nodes[x]
      /\ \A x \in Ids(d) : x = new \/ x \in Ids(g)

(* Nothing else changes when the results are named.                        *)
LEMMA ConcludedNodes ==
  ASSUME NEW g, NEW n, NEW d, Concluded(g, n, d)
  PROVE  Outcome(g, n, d)
<1>1. /\ DOMAIN g.nodes = 1..Len(g.nodes) /\ Len(g.nodes) \in Nat /\ Ids(g) = DOMAIN g.nodes
      /\ DOMAIN d.nodes = 1..Len(d.nodes) /\ Len(d.nodes) = Len(g.nodes) + 1 /\ Ids(d) = DOMAIN d.nodes
      /\ \A j \in DOMAIN g.nodes : d.nodes[j] = g.nodes[j]
      /\ d.nodes[Len(g.nodes) + 1] = n
  BY IdsOfGraph DEF Concluded, WellFormed, Sound, Untouched, AppendedTo
<1> QED
  BY <1>1 DEF Outcome

(* It has the form that the passes keep,                                   *)
LEMMA ConcludedFormed ==
  ASSUME NEW g, NEW n, NEW d, Concluded(g, n, d)
  PROVE  Pure(d) /\ SoleOutput(d) /\ HasOutput(d) /\ Formed(d) /\ Pure(g) /\ SoleOutput(g)
<1>1. PICK new : new = Len(g.nodes) + 1
  OBVIOUS
<1>2. /\ new \in Ids(d) /\ d.nodes[new] = n /\ new \notin Ids(g)
      /\ \A x \in Ids(g) : x \in Ids(d) /\ d.nodes[x] = g.nodes[x]
      /\ \A x \in Ids(d) : x = new \/ x \in Ids(g)
  BY <1>1, ConcludedNodes DEF Outcome
<1>3. WellFormed(g) /\ WellFormed(d) /\ NoOutput(g) /\ n.op = "output" /\ Benign(d) /\ Ids(d) = DOMAIN d.nodes
  BY DEF Concluded, AppendedTo
<1>4. \A x \in Ids(d) : d.nodes[x].op = "output" <=> x = new
  BY <1>2, <1>3 DEF NoOutput
<1>5. SoleOutput(d) /\ HasOutput(d) /\ SoleOutput(g)
  BY <1>2, <1>3, <1>4 DEF SoleOutput, HasOutput, NoOutput
<1>6. BenignNow(d) /\ Pure(d)
  BY <1>3 DEF Benign, BenignNow, Pure
<1>7. Pure(g)
  BY <1>2, <1>6 DEF Pure
<1>8. Terminal(d)
  <2> SUFFICES ASSUME NEW u \in Users(d, new) PROVE FALSE
    BY <1>4 DEF Terminal
  <2>1. u \in Ids(d) /\ new \in Operands(d.nodes[u])
    BY DEF Users
  <2>2. u # new
    BY <2>1, <1>3, NodesOf
  <2>3. u \in Ids(g) /\ new \in Operands(g.nodes[u])
    BY <1>2, <2>1, <2>2
  <2>4. new \in Ids(g)
    BY <1>3, <2>3, NodesOf
  <2> QED
    BY <1>2, <2>4
<1> QED
  BY <1>5, <1>6, <1>7, <1>8 DEF Formed

(* it returns, as the graph did before the results were named,             *)
LEMMA ConcludedValues ==
  ASSUME NEW g, NEW n, NEW d, Concluded(g, n, d)
  PROVE  Meaning(d) # Refusal
<1>1. PICK new : new = Len(g.nodes) + 1
  OBVIOUS
<1>2. /\ new \in Ids(d) /\ d.nodes[new] = n /\ new \notin Ids(g)
      /\ \A x \in Ids(g) : x \in Ids(d) /\ d.nodes[x] = g.nodes[x]
      /\ \A x \in Ids(d) : x = new \/ x \in Ids(g)
  BY <1>1, ConcludedNodes DEF Outcome
<1>3. WellFormed(g) /\ WellFormed(d) /\ Sound(g) /\ Meaning(g) # Refusal /\ n.op = "output"
  BY DEF Concluded, WellFormed
<1>4. Pure(d) /\ SoleOutput(d) /\ Pure(g) /\ SoleOutput(g)
  BY ConcludedFormed
<1>5. PICK V : Values(g, V)
  <2>1. Meant(g, Evaluated(g).val)
    BY <1>3, <1>4, MeantWhenReturned
  <2> QED
    BY <2>1 DEF Meant
<1>6. PICK W : W = [x \in Ids(d) |-> IF x = new THEN Throws ELSE V[x]]
  OBVIOUS
<1>7. W[new] = Throws /\ \A x \in Ids(g) : W[x] = V[x]
  BY <1>2, <1>6
<1>8. ASSUME NEW x \in Ids(g) PROVE Computed(d.nodes[x], x, W)
  <2>1. PICK m : m = g.nodes[x]
    OBVIOUS
  <2>2. m \in Nodes /\ \A a \in Operands(m) : a \in Ids(g)
    BY <1>3, <2>1, NodesOf
  <2>3. Agree(m, V, W) /\ V[x] = W[x]
    BY <1>7, <2>2 DEF Agree
  <2>4. Computed(m, x, V)
    BY <1>5, <2>1 DEF Values
  <2>5. Computed(m, x, W)
    BY <2>2, <2>3, <2>4, ComputedSame
  <2> QED
    BY <1>2, <2>1, <2>5
<1>9. Computed(d.nodes[new], new, W)
  BY <1>2, <1>3, <1>7 DEF Computed
<1>10. Values(d, W)
  BY <1>2, <1>8, <1>9 DEF Values
<1> QED
  BY <1>3, <1>4, <1>10, MeantByValues

(* and explains itself: it has shapes, the pass is to visit all of it, and *)
(* if it is uniform then so are its values.                                *)
LEMMA ConcludedExplains ==
  ASSUME NEW g, NEW n, NEW d, Concluded(g, n, d)
  PROVE  Explains(d, d) /\ Fits(d, d, d.order)
<1>1. Pure(d) /\ SoleOutput(d) /\ HasOutput(d) /\ Formed(d) /\ Terminal(d)
  BY ConcludedFormed DEF Formed
<1>2. Back(d, d)
  BY DEF Back, SameResults
<1>3. SumVisits(d) \subseteq ToSet(d.order)
  BY DEF SumVisits, Ids
<1>4. PICK e, W : e = Evaluated(d) /\ W = e.val
  OBVIOUS
<1>5. WellFormed(d) /\ Sound(d) /\ Ids(d) = DOMAIN d.nodes
  BY DEF Concluded, WellFormed, AppendedTo
<1>6. Meant(d, W) /\ Env(d, e)
  BY <1>1, <1>4, <1>5, ConcludedValues, MeantWhenReturned
<1>7. Shapable(d)
  BY <1>1, <1>5, <1>6, ShapesMade DEF Meant
<1>8. \A x \in DOMAIN d.nodes : ShapeIn(d, x) = W[x].shape
  <2>1. e.at = [i \in DOMAIN d.nodes |-> i]
    BY <1>6 DEF Env
  <2> QED
    BY <1>4, <2>1 DEF ShapeIn
<1>9. ASSUME Uniform(d), NEW x \in Ids(d) PROVE SumsNode(d, x, W)
  <2>1. PICK m, sums : m = d.nodes[x] /\ sums = {j \in Operands(m) : ActivatedSum(d, x, j)}
    OBVIOUS
  <2>2. m \in Nodes /\ Shaped(m) /\ \A a \in Operands(m) : a \in DOMAIN d.nodes
    BY <1>5, <2>1, NodesOf
  <2>3. \A a \in Operands(m) : ShapeIn(d, a) = W[a].shape
    BY <1>8, <2>2
  <2>4. \A j : ActivatedSum(d, x, j) => j \in sums
    BY <2>1 DEF ActivatedSum, Users
  <2>5. /\ m.op \in {"add", "mul"} /\ sums = {} =>
             \A j, k \in Operands(m) : ShapeIn(d, j) = ShapeIn(d, k)
        /\ \A j \in sums : \E k \in Operands(m) \ {j} : ShapeIn(d, k) = "row"
        /\ m.op = "addmm" => ShapeIn(d, m.args[1]) = "row"
    BY <1>5, <1>9, <2>1 DEF Uniform
  <2>6. m.op \in {"add", "mul"} /\ (\A j : ~ ActivatedSum(d, x, j)) =>
          \A j, k \in Operands(m) : W[j].shape = W[k].shape
    BY <2>1, <2>3, <2>5
  <2>7. \A j : ActivatedSum(d, x, j) => \E k \in Operands(m) \ {j} : W[k].shape = "row"
    BY <2>3, <2>4, <2>5
  <2>8. m.op = "addmm" => W[m.args[1]].shape = "row"
    <3> SUFFICES ASSUME m.op = "addmm" PROVE W[m.args[1]].shape = "row"
      OBVIOUS
    <3>1. m.args \in Seq(Nat) /\ Len(m.args) = 3
      BY <2>2 DEF Shaped, Nodes
    <3>2. 1 \in DOMAIN m.args
      BY <3>1
    <3>3. m.args[1] # 0
      BY <2>2, <3>2 DEF Shaped
    <3>4. m.args[1] \in Operands(m)
      BY <3>2, <3>3 DEF Operands, ToSet
    <3> QED
      BY <2>3, <2>5, <3>4
  <2> QED
    BY <2>1, <2>6, <2>7, <2>8 DEF SumsNode
<1>10. Uniform(d) => \E U : Values(d, U) /\ UniformSums(d, U)
  BY <1>6, <1>9 DEF Meant, UniformSums
<1> QED
  BY <1>1, <1>2, <1>3, <1>7, <1>10 DEF Explains, Fits

(* Another rewrite.                                                        *)
LEMMA SameResultsAgain ==
  ASSUME NEW d, NEW V, NEW g, NEW U, SameResults(d, V, g, U), NEW h, NEW W, SameResults(g, U, h, W)
  PROVE  SameResults(d, V, h, W)
<1>1. Values(d, V)
  BY DEF SameResults
<1>2. ASSUME NEW o \in Ids(d), d.nodes[o].op = "output"
      PROVE  /\ o \in Ids(h) /\ h.nodes[o].op = "output"
             /\ ArgsOf(d.nodes[o], V) = ArgsOf(h.nodes[o], W)
  <2>1. o \in Ids(g) /\ g.nodes[o].op = "output" /\ ArgsOf(d.nodes[o], V) = ArgsOf(g.nodes[o], U)
    BY <1>2 DEF SameResults
  <2>2. o \in Ids(h) /\ h.nodes[o].op = "output" /\ ArgsOf(g.nodes[o], U) = ArgsOf(h.nodes[o], W)
    BY <2>1 DEF SameResults
  <2> QED
    BY <2>1, <2>2
<1> QED
  BY <1>1, <1>2 DEF SameResults

(* What explains the traced graph still does after a rewrite.              *)
LEMMA BackAgain ==
  ASSUME NEW d, NEW g, Back(d, g), NEW h, Back(g, h)
  PROVE  Back(d, h)
<1>1. ASSUME NEW W, Values(h, W) PROVE \E V : SameResults(d, V, h, W)
  <2>1. PICK U : SameResults(g, U, h, W)
    BY <1>1 DEF Back
  <2>2. Values(g, U)
    BY <2>1 DEF SameResults
  <2>3. PICK V : SameResults(d, V, g, U)
    BY <2>2 DEF Back
  <2>4. SameResults(d, V, h, W)
    BY <2>1, <2>3, SameResultsAgain
  <2> QED
    BY <2>4
<1> QED
  BY <1>1 DEF Back

(* The steps.                                                              *)
LEMMA InitMeant == Init => MeaningInv
<1> SUFFICES ASSUME Init PROVE MeaningInv
  OBVIOUS
<1>1. family \in Families /\ graph = InputGraph /\ phase = "trace"
  BY DEF Init
<1>2. NoOutput(graph) /\ Meaning(graph) # Refusal
  BY <1>1, InputsMeant
<1> QED
  BY <1>1, <1>2 DEF MeaningInv, Compiling

(* The tracer runs the operator it meets, and goes on only if it did not   *)
(* throw.                                                                  *)
LEMMA TraceNodeMeant ==
  ASSUME IndInv, MeaningInv, TraceNode
  PROVE  MeaningInv'
<1>1. /\ phase = "trace" /\ phase' = "trace" /\ family \in Families /\ WellFormed(graph)
      /\ Untouched(graph) /\ NInputs <= Len(graph.nodes) /\ NoOutput(graph)
  BY DEF IndInv, TraceNode, MeaningInv
<1>2. PICK kind \in family.kinds :
        \E n \in NewNodes(graph, kind) : Meaning(Appended(graph, n)) # Refusal /\ graph' = Appended(graph, n)
  BY DEF TraceNode
<1>3. PICK n \in NewNodes(graph, kind) : Meaning(Appended(graph, n)) # Refusal /\ graph' = Appended(graph, n)
  BY <1>2
<1>4. /\ Ids(graph) \subseteq Nat \ {0} /\ 1..NInputs \subseteq Ids(graph)
      /\ Len(graph.nodes) \in Nat /\ DOMAIN graph.nodes = 1..Len(graph.nodes)
  <2>1. DOMAIN graph.nodes = 1..Len(graph.nodes) /\ Len(graph.nodes) \in Nat
    BY <1>1, IdsOfGraph DEF WellFormed, Sound
  <2>2. NInputs \in Nat
    BY <1>1, InputsWellFormed
  <2> QED
    BY <1>1, <2>1, <2>2 DEF Untouched
<1>5. n \in Nodes /\ Shaped(n) /\ Operands(n) \subseteq Ids(graph) /\ n.op # "output"
  <2>1. Traceable(graph, n)
    BY <1>1, <1>3, <1>4, Traced
  <2> QED
    BY <2>1 DEF Traceable, PointwiseOps, Jit!Unary
<1>6. WellFormed(graph') /\ AppendedTo(graph, n, graph')
  BY <1>1, <1>3, <1>5, WellFormedAppended DEF Untouched
<1>7. /\ Ids(graph') = DOMAIN graph'.nodes /\ Len(graph'.nodes) = Len(graph.nodes) + 1
      /\ \A j \in DOMAIN graph.nodes : graph'.nodes[j] = graph.nodes[j]
      /\ graph'.nodes[Len(graph.nodes) + 1] = n
  BY <1>6 DEF AppendedTo
<1>8. DOMAIN graph'.nodes = 1..Len(graph'.nodes)
  BY <1>6, IdsOfGraph DEF WellFormed, Sound
<1>9. \A j \in Ids(graph') : j \in DOMAIN graph.nodes \/ j = Len(graph.nodes) + 1
  BY <1>4, <1>7, <1>8
<1>10. NoOutput(graph')
  BY <1>1, <1>5, <1>7, <1>9 DEF NoOutput, Untouched
<1>11. Meaning(graph') # Refusal
  BY <1>3
<1>12. MeaningIn(graph', given', phase', todo')
  BY <1>1, <1>10, <1>11 DEF MeaningIn
<1> QED
  BY <1>12, InvMeaningIn

(* The results are named.                                                  *)
LEMMA TraceEndsMeant ==
  ASSUME IndInv, MeaningInv, TraceEnds
  PROVE  MeaningInv'
<1>1. /\ phase = "trace" /\ phase' = "gemm" /\ WellFormed(graph) /\ Untouched(graph)
      /\ NoOutput(graph) /\ Meaning(graph) # Refusal
  BY DEF IndInv, TraceEnds, MeaningInv
<1>2. PICK y, z \in Ids(graph) \ 1..NInputs :
        LET g == Appended(graph, NewNode("output", IF y = z THEN <<y>> ELSE <<y, z>>))
        IN  graph' = g /\ given' = g
  BY DEF TraceEnds
<1>3. PICK args, n : args = (IF y = z THEN <<y>> ELSE <<y, z>>) /\ n = NewNode("output", args)
  OBVIOUS
<1>4. graph' = Appended(graph, n) /\ given' = graph'
  BY <1>2, <1>3
<1>5. y \in Nat \ {0} /\ z \in Nat \ {0}
  BY <1>1, <1>2, IdsOfGraph DEF WellFormed, Sound
<1>6. args \in Seq(Nat) /\ ToSet(args) \subseteq {y, z}
  BY <1>3, <1>5, ShortOperands
<1>7. n \in Nodes /\ n.op = "output" /\ n.args = args
  <2>1. "output" \in Operators
    BY DEF Operators
  <2> QED
    BY <1>3, <1>6, <2>1, NewNodeTyped
<1>8. Operands(n) \subseteq Ids(graph)
  BY <1>2, <1>6, <1>7 DEF Operands
<1>9. AppendedTo(graph, n, graph')
  BY <1>1, <1>4, <1>7, <1>8, AppendedKeeps DEF WellFormed, Untouched
<1>10. WellFormed(graph')
  <2>1. IndInv'
    BY TraceEndsInd
  <2> QED
    BY <2>1 DEF IndInv
<1>11. todo' = graph'.order
  BY DEF TraceEnds
<1>12. ASSUME Benign(given') PROVE Explains(given', graph') /\ Fits(given', graph', todo')
  <2>1. PICK d : d = graph'
    OBVIOUS
  <2>2. Concluded(graph, n, d)
    BY <1>1, <1>4, <1>7, <1>9, <1>10, <1>12, <2>1 DEF Concluded
  <2>3. Explains(d, d) /\ Fits(d, d, d.order)
    BY <2>2, ConcludedExplains
  <2> QED
    BY <1>4, <1>11, <2>1, <2>3
<1>13. MeaningIn(graph', given', phase', todo')
  BY <1>1, <1>12 DEF MeaningIn
<1> QED
  BY <1>13, InvMeaningIn

(* What the rest of a snapshot reads.                                      *)
LEMMA RestRead ==
  ASSUME NEW S, NEW s \in Seq(S), NEW p \in DOMAIN s
  PROVE  /\ DOMAIN SubSeq(s, p + 1, Len(s)) = 1..(Len(s) - p)
         /\ \A k \in 1..(Len(s) - p) : SubSeq(s, p + 1, Len(s))[k] = s[p + k]
<1>1. PICK n, b : n = Len(s) /\ b = p + 1
  OBVIOUS
<1>2. n \in Nat /\ p \in 1..n /\ b \in 2..(n + 1) /\ n - b + 1 = n - p
  BY <1>1
<1>3. /\ SubSeq(s, b, n) \in Seq(S) /\ Len(SubSeq(s, b, n)) = n - b + 1
      /\ \A k \in 1..(n - b + 1) : SubSeq(s, b, n)[k] = s[b + k - 1]
  <2>1. b \in Int /\ n \in Int /\ \A k \in b..n : s[k] \in S
    BY <1>1, <1>2
  <2>2. /\ SubSeq(s, b, n) \in Seq(S)
        /\ Len(SubSeq(s, b, n)) = IF b <= n THEN n - b + 1 ELSE 0
        /\ \A k \in 1..(n - b + 1) : SubSeq(s, b, n)[k] = s[b + k - 1]
    BY <2>1, SubSeqProperties
  <2>3. (IF b <= n THEN n - b + 1 ELSE 0) = n - b + 1
    BY <1>2
  <2> QED
    BY <2>2, <2>3
<1>4. DOMAIN SubSeq(s, b, n) = 1..(n - p)
  <2>1. PICK v : v = SubSeq(s, b, n)
    OBVIOUS
  <2>2. v \in Seq(S) /\ Len(v) = n - p
    BY <1>2, <1>3, <2>1
  <2>3. DOMAIN v = 1..Len(v)
    BY <2>2
  <2> QED
    BY <2>1, <2>2, <2>3
<1>5. ASSUME NEW k \in 1..(n - p) PROVE SubSeq(s, b, n)[k] = s[p + k]
  <2>1. b + k - 1 = p + k
    BY <1>1, <1>2
  <2> QED
    BY <1>2, <1>3, <2>1
<1> QED
  BY <1>1, <1>4, <1>5

(* A visit to come is not lost: the pass goes on after node i, before      *)
(* which it rewrites nothing.                                              *)
LEMMA VisitToCome ==
  ASSUME NEW D, todo \in Seq(D), NEW S, NEW i, NextVisit(i, S), NEW u \in S, u # i, u \in ToSet(todo)
  PROVE  u \in ToSet(todo')
<1>1. PICK p \in DOMAIN todo : /\ todo[p] = i /\ \A q \in 1..(p - 1) : todo[q] \notin S
                               /\ todo' = SubSeq(todo, p + 1, Len(todo))
  BY DEF NextVisit
<1>2. PICK q \in DOMAIN todo : todo[q] = u
  BY DEF ToSet
<1>3. PICK l : l = Len(todo)
  OBVIOUS
<1>4. l \in Nat /\ DOMAIN todo = 1..l /\ p \in 1..l /\ q \in 1..l
  BY <1>3
<1>5. p < q
  <2>1. q \notin 1..(p - 1) /\ q # p
    BY <1>1, <1>2
  <2> QED
    BY <1>4, <2>1
<1>6. DOMAIN todo' = 1..(l - p) /\ \A k \in 1..(l - p) : todo'[k] = todo[p + k]
  BY <1>1, <1>3, RestRead
<1>7. q - p \in 1..(l - p) /\ p + (q - p) = q
  BY <1>4, <1>5
<1>8. todo'[q - p] = u /\ q - p \in DOMAIN todo'
  BY <1>2, <1>6, <1>7
<1> QED
  BY <1>8 DEF ToSet

(* A visit of the gemm pass keeps what is returned, or raises.             *)
LEMMA GemmFuseMeant ==
  ASSUME IndInv, MeaningInv, phase = "gemm", NEW i \in GemmVisits, GemmFuse(i)
  PROVE  MeaningInv'
<1>1. /\ WellFormed(graph) /\ given' = given
      /\ Benign(given) => Explains(given, graph) /\ Fits(given, graph, todo)
  BY DEF IndInv, MeaningInv, Compiling, GemmFuse
<1>2. i \in DOMAIN graph.nodes /\ todo \in Seq(DOMAIN graph.nodes)
  <2>1. todo \in Seq(DOMAIN graph.nodes)
    BY DEF IndInv
  <2> QED
    BY <2>1 DEF GemmVisits, ToSet
<1>3. PICK e \in EpiloguesOf(graph, i) :
        LET g == Emit(graph, i, e.operands, e.c, e.transB)
        IN  IF Erasable(g, e.erased)
              THEN graph' = EraseAll(g, e.erased) /\ UNCHANGED phase
              ELSE graph' = g /\ phase' = "raised"
  BY DEF GemmFuse
<1>4. PICK f : f = Emit(graph, i, e.operands, e.c, e.transB)
  OBVIOUS
<1>5. IF Erasable(f, e.erased) THEN graph' = EraseAll(f, e.erased) /\ phase' = phase
                               ELSE graph' = f /\ phase' = "raised"
  BY <1>3, <1>4
<1>6. CASE Erasable(f, e.erased)
  <2>1. graph' = EraseAll(f, e.erased) /\ phase' = "gemm"
    BY <1>5, <1>6
  <2>2. ASSUME Benign(given') PROVE Explains(given', graph') /\ Fits(given', graph', todo')
    <3>1. Explains(given, graph) /\ Fits(given, graph, todo) /\ Formed(graph) /\ Shapable(graph)
      BY <1>1, <2>2 DEF Explains, Fits
    <3>2. PICK h : h = EraseAll(f, e.erased)
      OBVIOUS
    <3>3. GemmKeeps(graph, i, h)
      BY <1>1, <1>2, <1>4, <1>6, <3>1, <3>2, GemmComputes
    <3>4. Explains(given, h)
      BY <3>1, <3>3, BackAgain DEF Explains, GemmKeeps
    <3>5. Uniform(given) => \E W : Values(h, W) /\ UniformSums(h, W)
      BY <3>1, <3>3 DEF Fits, GemmKeeps, ForwardsSums
    <3>6. SumVisits(h) \subseteq ToSet(todo')
      <4> SUFFICES ASSUME NEW u \in SumVisits(h) PROVE u \in ToSet(todo')
        OBVIOUS
      <4>1. u \in SumVisits(graph) /\ u # i /\ u \in ToSet(todo)
        BY <3>1, <3>3 DEF GemmKeeps, Passes, Fits
      <4>2. u \in GemmVisits
        BY <1>1, <4>1, SumVisited DEF GemmVisits
      <4>3. NextVisit(i, GemmVisits)
        BY DEF GemmFuse
      <4> QED
        BY <1>2, <4>1, <4>2, <4>3, VisitToCome
    <3>7. Fits(given, h, todo')
      BY <3>3, <3>5, <3>6 DEF Fits, GemmKeeps
    <3> QED
      BY <1>1, <2>1, <3>2, <3>4, <3>7
  <2>3. MeaningIn(graph', given', phase', todo')
    BY <2>1, <2>2 DEF MeaningIn
  <2> QED
    BY <2>3, InvMeaningIn
<1>7. CASE ~ Erasable(f, e.erased)
  <2>1. MeaningIn(graph', given', phase', todo')
    BY <1>5, <1>7 DEF MeaningIn
  <2> QED
    BY <2>1, InvMeaningIn
<1> QED
  BY <1>6, <1>7

(* At its end there are no such sums left.                                 *)
LEMMA GemmEndsMeant ==
  ASSUME IndInv, MeaningInv, GemmEnds
  PROVE  MeaningInv'
<1>1. /\ phase = "gemm" /\ GemmVisits = {} /\ phase' = "pointwise" /\ graph' = graph /\ given' = given
      /\ WellFormed(graph)
      /\ Benign(given) => Explains(given, graph) /\ Fits(given, graph, todo)
  BY DEF IndInv, MeaningInv, Compiling, GemmEnds
<1>2. ASSUME Benign(given) PROVE Meets(given, graph)
  <2>1. SumVisits(graph) \subseteq ToSet(todo)
    BY <1>1, <1>2 DEF Fits
  <2>2. SumVisits(graph) = {}
    BY <1>1, <2>1, SumVisited DEF GemmVisits
  <2> QED
    BY <1>1, <1>2, <2>2, SumsGone DEF Fits, Meets
<1>3. MeaningIn(graph', given', phase', todo')
  BY <1>1, <1>2 DEF MeaningIn
<1> QED
  BY <1>3, InvMeaningIn

(* A visit of the pointwise pass keeps it, too.                            *)
LEMMA PointwiseFuseMeant ==
  ASSUME IndInv, MeaningInv, phase = "pointwise", NEW i \in PointwiseVisits, PointwiseFuse(i)
  PROVE  MeaningInv'
<1>1. /\ WellFormed(graph) /\ given' = given /\ phase' = "pointwise" /\ graph' = FusesTo(graph, i)
      /\ Benign(given) => Explains(given, graph) /\ Meets(given, graph)
  BY DEF IndInv, MeaningInv, Compiling, PointwiseFuse
<1>2. IsRoot(graph, i) /\ Program(graph, Group(graph, i)).inputs # <<>>
  BY DEF PointwiseVisits, Collapses
<1>3. ASSUME Benign(given') PROVE Explains(given', graph') /\ Meets(given', graph')
  <2>1. Explains(given, graph) /\ Meets(given, graph) /\ Formed(graph)
    BY <1>1, <1>3 DEF Explains
  <2>2. PICK h : h = FusesTo(graph, i)
    OBVIOUS
  <2>3. Computes(graph, h)
    BY <1>1, <1>2, <2>1, <2>2, GroupComputes
  <2>4. Explains(given, h)
    BY <2>1, <2>3, BackAgain DEF Explains, Computes
  <2>5. Meets(given, h)
    BY <2>1, <2>3 DEF Meets, Computes, Forwards
  <2> QED
    BY <1>1, <2>2, <2>4, <2>5
<1>4. MeaningIn(graph', given', phase', todo')
  BY <1>1, <1>3 DEF MeaningIn
<1> QED
  BY <1>4, InvMeaningIn

(* Every step keeps the invariant.                                         *)
LEMMA StepMeant == IndInv /\ MeaningInv /\ [Next]_vars => MeaningInv'
<1> SUFFICES ASSUME IndInv, MeaningInv, [Next]_vars PROVE MeaningInv'
  OBVIOUS
<1>1. CASE TraceNode
  BY <1>1, TraceNodeMeant
<1>2. CASE TraceEnds
  BY <1>2, TraceEndsMeant
<1>3. CASE phase = "gemm" /\ \E i \in GemmVisits : GemmFuse(i)
  BY <1>3, GemmFuseMeant
<1>4. CASE phase = "pointwise" /\ \E i \in PointwiseVisits : PointwiseFuse(i)
  BY <1>4, PointwiseFuseMeant
<1>6. CASE GemmEnds
  BY <1>6, GemmEndsMeant
<1>5. CASE PointwiseEnds \/ UNCHANGED vars
  <2>1. /\ graph' = graph /\ given' = given
        /\ (phase' = phase /\ todo' = todo) \/ (phase = "pointwise" /\ phase' = "done")
    BY <1>5 DEF PointwiseEnds, vars
  <2>2. MeaningIn(graph, given, phase, todo)
    BY InvMeaningIn
  <2>3. MeaningIn(graph', given', phase', todo')
    BY <2>1, <2>2 DEF MeaningIn
  <2> QED
    BY <2>3, InvMeaningIn
<1> QED
  BY <1>1, <1>2, <1>3, <1>4, <1>5, <1>6 DEF Next

(* After each rewrite of both passes, of whatever benign graph, the values *)
(* of the graph are those of the traced one (compiler.py:136-322).         *)
THEOREM Meanings == Spec => []MeaningInv
<1>1. Init => MeaningInv
  BY InitMeant
<1>2. IndInv /\ MeaningInv /\ [Next]_vars => MeaningInv'
  BY StepMeant
<1> QED
  BY <1>1, <1>2, Invariant, PTL DEF Spec

(* What two graphs with the same values return.                            *)
LEMMA ExplainedMeaning ==
  ASSUME NEW d, WellFormed(d), NEW g, WellFormed(g), Explains(d, g)
  PROVE  /\ Meaning(g) \in {Meaning(d), Refusal}
         /\ \A W : Values(g, W) => Meaning(g) # Refusal
<1>1. /\ Pure(d) /\ SoleOutput(d) /\ HasOutput(d) /\ Back(d, g)
      /\ Pure(g) /\ SoleOutput(g) /\ Sound(g)
  BY DEF Explains, Formed, BenignNow, Pure, WellFormed
<1>2. ASSUME Meaning(g) # Refusal PROVE Meaning(g) = Meaning(d)
  <2>1. PICK W : W = Evaluated(g).val
    OBVIOUS
  <2>2. Meant(g, W)
    BY <1>1, <1>2, <2>1, MeantWhenReturned
  <2>3. PICK V : SameResults(d, V, g, W)
    BY <1>1, <2>2 DEF Meant, Back
  <2>4. Meant(d, V)
    BY <1>1, <2>3, MeantByValues DEF SameResults
  <2>5. PICK o \in Ids(d) : d.nodes[o].op = "output"
    BY <1>1 DEF HasOutput
  <2>6. Meaning(d) = ArgsOf(d.nodes[o], V)
    BY <2>4, <2>5 DEF Meant
  <2>7. o \in Ids(g) /\ g.nodes[o].op = "output" /\ ArgsOf(d.nodes[o], V) = ArgsOf(g.nodes[o], W)
    BY <2>3, <2>5 DEF SameResults
  <2>8. Meaning(g) = ArgsOf(g.nodes[o], W)
    BY <2>2, <2>7 DEF Meant
  <2> QED
    BY <2>6, <2>7, <2>8
<1>3. \A W : Values(g, W) => Meaning(g) # Refusal
  BY <1>1, MeantByValues
<1> QED
  BY <1>2, <1>3

(* The compiled graph of a benign module returns what the module returned  *)
(* or throws, whatever the families of modules, their sizes and the order  *)
(* of the visits (compiler.py:136-322).                                    *)
THEOREM ReturnsTheSame == Spec => []NeverWrong
<1>1. IndInv /\ MeaningInv => NeverWrong
  <2> SUFFICES ASSUME IndInv, MeaningInv, Compiling, Benign(given)
               PROVE  Meaning(graph) \in {Meaning(given), Refusal}
    BY DEF NeverWrong
  <2>1. WellFormed(given) /\ WellFormed(graph) /\ Explains(given, graph)
    BY DEF IndInv, MeaningInv
  <2> QED
    BY <2>1, ExplainedMeaning
<1> QED
  BY <1>1, Invariant, Meanings, PTL

(* ... and it does not throw if tensors meet only tensors of their shape,  *)
(* and biases are rows: those of addmm, and what is added to an mm where   *)
(* the sum is activated, neither the mm nor the sum having another user    *)
(* (compiler.py:136-322).                                                  *)
THEOREM NoNewRefusal == Spec => []NeverRefused
<1>1. IndInv /\ MeaningInv => NeverRefused
  <2> SUFFICES ASSUME IndInv, MeaningInv, Compiling, Benign(given), Uniform(given)
               PROVE  Meaning(graph) # Refusal
    BY DEF NeverRefused
  <2>1. WellFormed(given) /\ WellFormed(graph) /\ Explains(given, graph)
    BY DEF IndInv, MeaningInv
  <2>2. phase = "gemm" \/ phase \in {"pointwise", "done"}
    BY DEF Compiling
  <2>3. \E W : Values(graph, W)
    BY <2>2 DEF MeaningInv, Fits, Meets
  <2> QED
    BY <2>1, <2>3, ExplainedMeaning
<1> QED
  BY <1>1, Invariant, Meanings, PTL

=============================================================================
