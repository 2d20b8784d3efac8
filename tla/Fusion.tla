------------------------------- MODULE Fusion -------------------------------
(***************************************************************************)
(* The graph compiler, torch_tvarant/compiler.py: a module is traced to an *)
(* FX graph, fuse_gemm_epilogue and then fuse_pointwise walk over the      *)
(* nodes there were when the pass began, and each visit may rewrite the    *)
(* graph. A step is the next iteration of a pass's loop that does; the     *)
(* iterations before it continue without an effect.                        *)
(*                                                                         *)
(* Weights are inputs of the graph; an add or a mul may have a Python      *)
(* scalar as its second operand. A family of graphs says which operators   *)
(* and inputs its graphs are made of, and how many operators they have.    *)
(***************************************************************************)
EXTENDS FxGraph, FiniteSets

CONSTANT
  Families  \* records of: kinds, the operators the tracer meets ("scale" is a
            \* mul by a number); shapes, of the inputs; alphas, the values of
            \* alpha by operator; maxNodes, the bound on the operators

ASSUME FamiliesAssumption ==
  \A f \in Families :
    /\ f.kinds \subseteq {"mm", "linear", "addmm", "add", "mul", "scale", "relu_"} \cup Jit!Unary
    /\ f.shapes \in Seq({"mat", "row"}) /\ f.maxNodes \in Nat
    /\ \A op \in {"add", "addmm"} : f.alphas[op] \subseteq Jit!Literals

VARIABLES
  family,       \* the family of the graph
  graph,        \* the graph being traced, then rewritten
  given,        \* the graph as it was traced
  phase,        \* where compile_fx is
  todo          \* nodes of the pass's snapshot not yet visited

vars == <<family, graph, given, phase, todo>>

Phases == {"trace", "gemm", "pointwise", "done", "raised"}

NInputs == Len(family.shapes)

InputGraph ==
  [nodes |-> [i \in 1..NInputs |-> [NewNode("in", <<>>) EXCEPT !.shape = family.shapes[i]]],
   order |-> [i \in 1..NInputs |-> i]]

Init ==
  /\ family \in Families
  /\ graph = InputGraph /\ given = InputGraph
  /\ phase = "trace" /\ todo = <<>>

-----------------------------------------------------------------------------
(* The tracer, outside of the code modelled: any operator that runs on     *)
(* earlier nodes, until the results are named.                             *)
Weights == {i \in 1..NInputs : family.shapes[i] = "mat"}

NewNodes(g, kind) ==
  LET E == Ids(g)
      Scaled(ns) == UNION {{[n EXCEPT !.alpha = a] : a \in family.alphas[n.op]} : n \in ns}
  IN  CASE kind = "mm"     -> {NewNode("mm", <<x, w>>) : x \in E, w \in Weights}
        [] kind = "linear" ->
             {NewNode("linear", <<x, w>>) : x \in E, w \in Weights}
               \cup {NewNode("linear", <<x, w, b>>) :
                        x \in E, w \in Weights, b \in 1..NInputs \ Weights}
        [] kind = "addmm"  ->
             Scaled({NewNode("addmm", <<b, x, w>>) : b \in E, x \in E, w \in Weights})
        [] kind = "add"    -> Scaled({NewNode("add", <<x, y>>) : x \in E, y \in E \cup {0}})
        [] kind = "mul"    -> {NewNode("mul", <<x, y>>) : x \in E, y \in E}
        [] kind = "scale"  -> {[NewNode("mul", <<x, 0>>) EXCEPT !.c = Two] : x \in E}
        [] kind = "relu_"  -> {NewNode("relu_", <<x>>) : x \in E \ 1..NInputs}
        [] OTHER           -> {NewNode(kind, <<x>>) : x \in E}

Appended(g, n) ==
  [nodes |-> Append(g.nodes, n), order |-> Append(g.order, Len(g.nodes) + 1)]

TraceNode ==
  /\ phase = "trace" /\ Len(graph.nodes) < NInputs + family.maxNodes
  /\ \E kind \in family.kinds : \E n \in NewNodes(graph, kind) :
       /\ Meaning(Appended(graph, n)) # Refusal
       /\ graph' = Appended(graph, n)
  /\ UNCHANGED <<family, given, phase, todo>>

(* One or two results; every operator is used, or has an effect.           *)
Live(g) ==
  \A i \in Ids(g) : g.nodes[i].op \in {"in", "output", "relu_"} \/ Users(g, i) # {}

TraceEnds ==
  /\ phase = "trace"
  /\ \E y, z \in Ids(graph) \ 1..NInputs :
       LET g == Appended(graph, NewNode("output", IF y = z THEN <<y>> ELSE <<y, z>>))
       IN  /\ y <= z /\ Live(g)
           /\ graph' = g /\ given' = g /\ todo' = g.order
  /\ phase' = "gemm"
  /\ UNCHANGED family

-----------------------------------------------------------------------------
ActName(n) == CASE n.op = "silu" -> "silu"
                [] n.op \in {"relu", "relu_"} -> "relu"
                [] OTHER -> "none"

(* len(node.users) == 1, for a node that has node i as a user.             *)
SoleUser(g, j, i) == Users(g, j) = {i}

(* emit: linear_act before the activation i, in whose place it comes.      *)
Emit(g, i, operands, c, transB) ==
  LET fusedNode == [NewNode("linear_act", operands) EXCEPT
                      !.act = ActName(g.nodes[i]), !.transB = transB, !.c = c]
      new == Len(g.nodes) + 1
  IN  Erase(ReplaceUses(Insert(g, fusedNode, i), i, new), i)

(* What the pass makes of the producer of an activation: the operands of   *)
(* linear_act, whether the weight is transposed, the nodes to erase.       *)
Epilogue(operands, c, transB, erased) ==
  [operands |-> operands, c |-> c, transB |-> transB, erased |-> erased]

UnguardedEpilogue(p, pid) ==             \* faulty: addmm's alpha is not looked at
  CASE p.op \in {"mm", "linear"} ->
         {Epilogue(p.args, One, p.op = "linear", <<pid>>)}
    [] p.op = "addmm" ->
         {Epilogue(<<p.args[2], p.args[3], p.args[1]>>, One, FALSE, <<pid>>)}
    [] OTHER -> {}
GemmEpilogue(p, pid) ==
  CASE p.op = "linear" -> {Epilogue(p.args, One, TRUE, <<pid>>)}
    [] p.op = "mm"     -> {Epilogue(p.args, One, FALSE, <<pid>>)}
    [] p.op = "addmm" /\ p.alpha = One ->
         {Epilogue(<<p.args[2], p.args[3], p.args[1]>>, One, FALSE, <<pid>>)}
    [] OTHER -> {}

FirstMmEpilogue(g, p, pid) ==            \* faulty: an mm with other users is fused
  LET IsGemm(j) == j # 0 /\ g.nodes[j].op = "mm"
  IN  IF p.op = "add" /\ IsGemm(p.args[1])
        THEN {Epilogue(g.nodes[p.args[1]].args \o <<p.args[2]>>, p.c, FALSE,
                       <<pid, p.args[1]>>)} ELSE {}

BiasFirstEpilogue(g, p, pid) ==          \* faulty: linear_act's operands as addmm's
  LET IsGemm(j) == j # 0 /\ g.nodes[j].op = "mm" /\ SoleUser(g, j, pid)
      Fused(j, other) == {Epilogue(<<other>> \o g.nodes[j].args, p.c, FALSE, <<pid, j>>)}
  IN  IF p.op # "add" THEN {}
      ELSE IF IsGemm(p.args[1]) THEN Fused(p.args[1], p.args[2])
      ELSE IF IsGemm(p.args[2]) THEN Fused(p.args[2], p.args[1])
      ELSE {}

(* mm + bias, in either order: the first operand that is an mm nobody else *)
(* uses. The alpha of the add is not looked at.                            *)
AddEpilogue(g, p, pid) ==
  LET IsGemm(j) == j # 0 /\ g.nodes[j].op = "mm" /\ SoleUser(g, j, pid)
      Fused(j, other) == {Epilogue(g.nodes[j].args \o <<other>>, p.c, FALSE, <<pid, j>>)}
  IN  IF p.op # "add" THEN {}
      ELSE IF IsGemm(p.args[1]) THEN Fused(p.args[1], p.args[2])
      ELSE IF IsGemm(p.args[2]) THEN Fused(p.args[2], p.args[1])
      ELSE {}

EpiloguesOf(g, i) ==
  LET n == g.nodes[i]
  IN  IF ActName(n) = "none" \/ n.args = <<>> THEN {}
      ELSE LET pid == n.args[1]  p == g.nodes[pid]
           IN  IF SoleUser(g, pid, i) THEN GemmEpilogue(p, pid) \cup AddEpilogue(g, p, pid)
                                      ELSE {}

(* A pass visits the nodes of its snapshot in order: i is the first one    *)
(* left that it rewrites.                                                  *)
NextVisit(i, rewritten) ==
  \E p \in DOMAIN todo :
    /\ todo[p] = i /\ \A q \in 1..(p - 1) : todo[q] \notin rewritten
    /\ todo' = SubSeq(todo, p + 1, Len(todo))

(* erase_node raises when linear_act has one of the nodes to erase as bias.*)
Erasable(g, is) == \A k \in DOMAIN is : Users(g, is[k]) \subseteq ToSet(is)

GemmVisits == {i \in ToSet(todo) : EpiloguesOf(graph, i) # {}}

GemmFuse(i) ==
  /\ NextVisit(i, GemmVisits)
  /\ \E e \in EpiloguesOf(graph, i) :
       LET g == Emit(graph, i, e.operands, e.c, e.transB)
       IN  IF Erasable(g, e.erased)
             THEN graph' = EraseAll(g, e.erased) /\ UNCHANGED phase
             ELSE graph' = g /\ phase' = "raised"
  /\ UNCHANGED <<family, given>>

(* compile_fx: the second pass takes its own snapshot.                     *)
GemmEnds ==
  /\ phase = "gemm" /\ GemmVisits = {}
  /\ phase' = "pointwise" /\ todo' = graph.order
  /\ UNCHANGED <<family, graph, given>>

-----------------------------------------------------------------------------
IsPointwise(n)  == n.op \in {"add", "mul", "relu_"} \cup Jit!Unary
PointwiseIds(g) == {i \in Ids(g) : IsPointwise(g.nodes[i])}

IsRoot(g, i) == i \in PointwiseIds(g) /\ Users(g, i) \cap PointwiseIds(g) = {}

(* The group of a root: pointwise nodes all of whose users are in it.      *)
Group(g, root) ==
  LET grown[k \in 0..Len(g.order)] ==
        IF k = 0 THEN {root}
        ELSE LET S == grown[k - 1]
             IN  S \cup {i \in PointwiseIds(g) :
                           Users(g, i) # {} /\ Users(g, i) \subseteq S}
  IN  grown[Len(g.order)]

(* The program under construction: its nodes, its inputs, and ssa, the     *)
(* position of the nodes that have one.                                    *)
Instruction(op, a, b) ==
  [op |-> op, a |-> a, b |-> b, id |-> -1, alpha |-> One, c |-> Jit!Zero]

Extend(acc, nd) == [acc EXCEPT !.prog = Append(@, nd)]

LastPosition(acc) == Len(acc.prog) - 1

(* rec_input: a scalar is a const, a node outside of the group a load, and *)
(* a node that has a position keeps it.                                    *)
RecInput(acc, src, c) ==
  IF src = 0 THEN Extend(acc, [Instruction("const", -1, -1) EXCEPT !.c = c])
  ELSE IF src \in DOMAIN acc.ssa THEN acc
  ELSE LET more == Extend(acc, [Instruction("load", -1, -1) EXCEPT !.id = Len(acc.inputs)])
       IN  [more EXCEPT !.inputs = Append(@, src),
                        !.ssa = [j \in DOMAIN @ \cup {src} |->
                                   IF j = src THEN LastPosition(more) ELSE @[j]]]

PositionUnlessShifted(acc, src) ==       \* faulty: one too high for a constant
  IF src = 0 THEN Len(acc.prog) ELSE acc.ssa[src]
PositionOf(acc, src) == IF src = 0 THEN LastPosition(acc) ELSE acc.ssa[src]

(* The instruction of a node of the group, given its operands' positions.  *)
BinaryInstruction(n, a, b) == [Instruction(n.op, a, b) EXCEPT !.alpha = n.alpha]

IsScale(n) == n.op = "mul" /\ n.args[2] = 0

Translate(g, acc, i) ==
  LET n      == g.nodes[i]
      first  == RecInput(acc, n.args[1], n.c)
      a      == PositionOf(first, n.args[1])
      second == IF IsScale(n) \/ Len(n.args) = 1 THEN first
                                                 ELSE RecInput(first, n.args[2], n.c)
      nd == IF IsScale(n) THEN [Instruction("scale", a, -1) EXCEPT !.alpha = n.c]
            ELSE IF n.op = "relu_" THEN Instruction("relu", a, -1)
            ELSE IF Len(n.args) = 1 THEN Instruction(n.op, a, -1)
            ELSE BinaryInstruction(n, a, PositionOf(second, n.args[2]))
      whole == Extend(second, nd)
  IN  [whole EXCEPT !.ssa = [j \in DOMAIN @ \cup {i} |->
                               IF j = i THEN LastPosition(whole) ELSE @[j]]]

(* The nodes of the group are translated in the order of the graph.        *)
NoProgram == [prog |-> <<>>, inputs |-> <<>>, ssa |-> [j \in {} |-> 0]]

Program(g, group) ==
  LET acc[k \in 0..Len(g.order)] ==
        IF k = 0 THEN NoProgram
        ELSE IF g.order[k] \in group THEN Translate(g, acc[k - 1], g.order[k])
        ELSE acc[k - 1]
  IN  acc[Len(g.order)]

(* The nodes of the group that nobody uses any more, last one first.       *)
EraseUnused(g, group, i) ==
  IF i \in group /\ Users(g, i) = {} THEN Erase(g, i) ELSE g

SweptForwards(g, group, order) ==        \* faulty: users are erased after operands
  FoldLeft(LAMBDA h, i : EraseUnused(h, group, i), g, order)
Swept(g, group, order) ==
  LET after[k \in 0..Len(order)] ==
        IF k = 0 THEN g
        ELSE EraseUnused(after[k - 1], group, order[Len(order) + 1 - k])
  IN  after[Len(order)]

FusesEarly(g, root) ==                   \* faulty: the call before the group
  LET group   == Group(g, root)
      program == Program(g, group)
      call    == [NewNode("pointwise", program.inputs) EXCEPT !.prog = program.prog]
      first   == CHOOSE i \in group : \A j \in group : Position(g, i) <= Position(g, j)
  IN  Swept(ReplaceUses(Insert(g, call, first), root, Len(g.nodes) + 1), group, g.order)
FusesTo(g, root) ==
  LET group   == Group(g, root)
      program == Program(g, group)
      call    == [NewNode("pointwise", program.inputs) EXCEPT !.prog = program.prog]
  IN  Swept(ReplaceUses(Insert(g, call, root), root, Len(g.nodes) + 1), group, g.order)

Collapses(i) ==
  IsRoot(graph, i) /\ Cardinality(Group(graph, i)) >= 2
                   /\ Program(graph, Group(graph, i)).inputs # <<>>

PointwiseVisits == {i \in ToSet(todo) : Collapses(i)}

PointwiseFuse(i) ==
  /\ NextVisit(i, PointwiseVisits)
  /\ graph' = FusesTo(graph, i)
  /\ UNCHANGED <<family, phase, given>>

PointwiseEnds ==
  /\ phase = "pointwise" /\ PointwiseVisits = {}
  /\ phase' = "done" /\ todo' = <<>>
  /\ UNCHANGED <<family, graph, given>>

Next ==
  \/ TraceNode \/ TraceEnds \/ GemmEnds \/ PointwiseEnds
  \/ phase = "gemm" /\ \E i \in GemmVisits : GemmFuse(i)
  \/ phase = "pointwise" /\ \E i \in PointwiseVisits : PointwiseFuse(i)

Spec == Init /\ [][Next]_vars

-----------------------------------------------------------------------------
Compiling == phase \in {"gemm", "pointwise", "done"}

(* The order names each node once, and the programs emitted are ones both  *)
(* backends accept: a node reads earlier nodes only, a load names an input *)
(* of the call (compiler.py:237-302).                                      *)
TypeOK ==
  /\ phase \in Phases
  /\ Cardinality(Ids(graph)) = Len(graph.order) /\ Ids(graph) \subseteq DOMAIN graph.nodes
  /\ \A i \in Ids(graph) :
       LET n == graph.nodes[i]
       IN  n.op = "pointwise" =>
             /\ Jit!Accepted([n |-> Len(n.args), nodes |-> n.prog])
             /\ \A v \in DOMAIN n.prog : Jit!Reads(n.prog[v]) \subseteq 0..(v - 2)

(* graph.lint() at the end of each pass passes: no rewrite moves a use     *)
(* before its definition or leaves a use of an erased node.                *)
Lint == Compiling => Ordered(graph)

(* Graphs without in-place operators, whose sums over an mm have alpha 1.  *)
Benign(g) ==
  \A i \in DOMAIN g.nodes :
    LET n == g.nodes[i]
    IN  /\ n.op # "relu_"
        /\ n.op = "add" /\ n.alpha # One =>
             \A j \in Operands(n) : g.nodes[j].op # "mm"

(* The compiled graph returns what the module returned, or it throws       *)
(* (compiler.py:136-322).                                                  *)
NeverWrong ==
  Compiling /\ graph # given /\ Benign(given) =>
    Meaning(graph) \in {Meaning(given), Refusal}

(* ... and it does not throw if tensors meet only tensors of their shape,  *)
(* and biases are rows: those of addmm, and what is added to an mm where   *)
(* the sum is activated, neither the mm nor the sum having another user.   *)
ShapeIn(g, i) == Evaluated(g).val[Evaluated(g).at[i]].shape
ActivatedSum(g, i, j) ==
  /\ g.nodes[i].op = "add" /\ g.nodes[j].op = "mm" /\ Users(g, j) = {i}
  /\ \E u \in Ids(g) : Users(g, i) = {u} /\ ActName(g.nodes[u]) # "none"
Uniform(g) ==
  \A i \in DOMAIN g.nodes :
    LET n == g.nodes[i]
        sums == {j \in Operands(n) : ActivatedSum(g, i, j)}
    IN  /\ n.op \in {"add", "mul"} /\ sums = {} =>
             \A j, k \in Operands(n) : ShapeIn(g, j) = ShapeIn(g, k)
        /\ \A j \in sums : \E k \in Operands(n) \ {j} : ShapeIn(g, k) = "row"
        /\ n.op = "addmm" => ShapeIn(g, n.args[1]) = "row"
NeverRefused ==
  Compiling /\ graph # given /\ Benign(given) /\ Uniform(given) =>
    Meaning(graph) # Refusal

(* A pass leaves nothing to execute that has become useless: a node        *)
(* without users had none when the graph was traced.                       *)
NoLeftovers ==
  phase # "raised" => \A i \in Ids(graph) :
    Users(graph, i) = {} /\ Compiling => Users(given, i) = {}

(* The gemm pass raises for one reason only: the sum of an mm with itself  *)
(* is activated, and the mm becomes the bias of its own linear_act.        *)
RaisesOnlyOnDoubling ==
  phase = "raised" =>
    \E i \in DOMAIN given.nodes :
      LET n == given.nodes[i]
      IN  n.op = "add" /\ n.args[1] = n.args[2] /\ given.nodes[n.args[1]].op = "mm"

(* What compile() says of its result (compiler.py:388): the same outputs   *)
(* as the module, here at the least when it returns any.                   *)
SameOutputs ==
  phase = "done" /\ graph # given => Meaning(graph) \in {Meaning(given), Refusal}
=============================================================================
