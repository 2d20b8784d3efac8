------------------------------ MODULE FxGraph ------------------------------
(***************************************************************************)
(* FX graphs and what they compute on the tvarant device, symbolically: a  *)
(* value is a shape and the term that computes it. Pointwise programs are  *)
(* those of PointwiseJit.                                                  *)
(*                                                                         *)
(* Shapes are matrices of one size, rows of a matrix and Python scalars.   *)
(* Node 0 stands for a scalar operand, whose value is in the node's c.     *)
(***************************************************************************)
EXTENDS Integers, Sequences, SequencesExt

Jit == INSTANCE PointwiseJit
         WITH Programs <- {}, Numel <- 1, MaxCached <- 0, cache <- <<>>, last <- <<>>

One == Jit!One
Two == Jit!Number(2, 0)

NewNode(op, operands) ==
  [op |-> op, args |-> operands, alpha |-> One, c |-> One, shape |-> "none",
   act |-> "none", transB |-> FALSE, prog |-> <<>>]

-----------------------------------------------------------------------------
(* torch.fx.Graph: nodes by number, and the order they are executed in.    *)
Ids(g)      == ToSet(g.order)
Operands(n) == ToSet(n.args) \ {0}
Users(g, i) == {j \in Ids(g) : i \in Operands(g.nodes[j])}

Position(g, i) == CHOOSE p \in DOMAIN g.order : g.order[p] = i

(* A new node before node i; its number is the last one.                   *)
Insert(g, n, i) ==
  [nodes |-> Append(g.nodes, n),
   order |-> InsertAt(g.order, Position(g, i), Len(g.nodes) + 1)]

ReplaceUses(g, old, new) ==
  [g EXCEPT !.nodes = [j \in DOMAIN g.nodes |->
     [g.nodes[j] EXCEPT !.args = ReplaceAll(g.nodes[j].args, old, new)]]]

(* erase_node: the node leaves the order and uses nothing any more. It     *)
(* raises when the node has users.                                         *)
Erase(g, i) ==
  [g EXCEPT !.order = RemoveAt(g.order, Position(g, i)), !.nodes[i].args = <<>>]

EraseAll(g, is) ==
  LET after[k \in 0..Len(is)] == IF k = 0 THEN g ELSE Erase(after[k - 1], is[k])
  IN  after[Len(is)]

-----------------------------------------------------------------------------
(* What an operator computes from the values of its operands.              *)
Throws       == [shape |-> "none", term |-> <<"throws">>]
Scalar(c)    == [shape |-> "scalar", term |-> <<"literal", c>>]
Matrix(term) == [shape |-> "mat", term |-> term]

(* Floating-point addition commutes; it does not associate.                *)
Sum(l, alpha, r) ==
  IF alpha = One THEN <<"sum", {l, r}>> ELSE <<"add", l, alpha, r>>

(* infer_size, for the shapes there are.                                   *)
Joined(v, w) == IF "mat" \in {v.shape, w.shape} THEN "mat" ELSE "row"

(* mm and addmm multiply matrices; linear and linear_act make a matrix of  *)
(* one row of a row, and a row of the result. gemm_bias_act takes a bias   *)
(* with one element per column.                                            *)
GemmTerm(x, w, transB) == <<"gemm", x.term, w.term, transB>>
Gemm(x, w, transB) ==
  IF x.shape = "mat" /\ w.shape = "mat" THEN Matrix(GemmTerm(x, w, transB)) ELSE Throws
Linear(x, w, transB) ==
  IF x.shape \in {"mat", "row"} /\ w.shape = "mat"
    THEN [shape |-> x.shape, term |-> GemmTerm(x, w, transB)] ELSE Throws
LinearBias(x, w, transB, bias) ==
  IF Linear(x, w, transB) # Throws /\ bias.shape = "row"
    THEN [shape |-> x.shape, term |-> Sum(bias.term, One, GemmTerm(x, w, transB))]
    ELSE Throws

Activated(act, v) == IF v = Throws THEN v ELSE [v EXCEPT !.term = <<act, @>>]

(* The register of a pointwise program's node, in the terms of the         *)
(* operators above; that both backends compute it is PointwiseJit's.       *)
Register(nd, regs, inputs) ==
  CASE nd.op = "load"  -> inputs[nd.id + 1].term
    [] nd.op = "const" -> <<"literal", nd.c>>
    [] nd.op = "add"   -> Sum(regs[nd.a + 1], nd.alpha, regs[nd.b + 1])
    [] nd.op = "mul"   -> <<"mul", regs[nd.a + 1], regs[nd.b + 1]>>
    [] nd.op = "scale" -> <<"scale", nd.alpha, regs[nd.a + 1]>>
    [] OTHER           -> <<nd.op, regs[nd.a + 1]>>

WithRegister(regs, nd, inputs) == Append(regs, Register(nd, regs, inputs))

Run(prog, inputs) ==
  LET regs[k \in 0..Len(prog)] ==
        IF k = 0 THEN <<>> ELSE WithRegister(regs[k - 1], prog[k], inputs)
  IN  Last(regs[Len(prog)])

(* pointwise(): the inputs must have equally many elements.                *)
PointwiseCall(prog, inputs) ==
  IF \A i \in DOMAIN inputs : inputs[i].shape = inputs[1].shape
    THEN [inputs[1] EXCEPT !.term = Run(prog, inputs)] ELSE Throws

Compute(n, vs) ==
  CASE n.op = "mm"     -> Gemm(vs[1], vs[2], FALSE)
    [] n.op = "linear" -> IF Len(vs) = 2 THEN Linear(vs[1], vs[2], TRUE)
                                         ELSE LinearBias(vs[1], vs[2], TRUE, vs[3])
    [] n.op = "addmm"  -> IF Gemm(vs[2], vs[3], FALSE) = Throws THEN Throws
                          ELSE Matrix(Sum(vs[1].term, n.alpha, GemmTerm(vs[2], vs[3], FALSE)))
    [] n.op = "add"    -> [shape |-> Joined(vs[1], vs[2]),
                           term  |-> Sum(vs[1].term, n.alpha, vs[2].term)]
    [] n.op = "mul"    -> [shape |-> Joined(vs[1], vs[2]),
                           term  |-> IF n.args[2] = 0
                                       THEN <<"scale", n.c, vs[1].term>>
                                       ELSE <<"mul", vs[1].term, vs[2].term>>]
    [] n.op = "linear_act" ->
         Activated(n.act, IF Len(vs) = 2 THEN Linear(vs[1], vs[2], n.transB)
                                         ELSE LinearBias(vs[1], vs[2], n.transB, vs[3]))
    [] n.op = "pointwise"  -> PointwiseCall(n.prog, vs)
    [] n.op \in Jit!Unary \cup {"relu_"} ->
         Activated(IF n.op = "relu_" THEN "relu" ELSE n.op, vs[1])

-----------------------------------------------------------------------------
(* Execution in order. relu_ writes the tensor it is given and returns it: *)
(* at[i] is the node whose tensor node i returned, val the content of the  *)
(* tensors. An operator that throws ends the execution.                    *)
Refusal == <<Throws>>

InputValue(i, n) == [shape |-> n.shape, term |-> <<"in", i>>]

ValueOf(env, i, c) == IF i = 0 THEN Scalar(c) ELSE env.val[env.at[i]]

Execute(g, env, i) ==
  LET n  == g.nodes[i]
      vs == [k \in DOMAIN n.args |-> ValueOf(env, n.args[k], n.c)]
      v  == Compute(n, vs)
  IN  IF env.result = Refusal \/ n.op = "in" THEN env
      ELSE IF n.op = "output" THEN [env EXCEPT !.result = vs]
      ELSE IF v = Throws THEN [env EXCEPT !.result = Refusal]
      ELSE LET cell == IF n.op = "relu_" THEN env.at[n.args[1]] ELSE i
           IN  [env EXCEPT !.at[i] = cell, !.val[cell] = v]

Started(g) ==
  [at     |-> [i \in DOMAIN g.nodes |-> i],
   val    |-> [i \in DOMAIN g.nodes |->
                 IF g.nodes[i].op = "in" THEN InputValue(i, g.nodes[i]) ELSE Throws],
   result |-> <<>>]

(* What a call of the graph returns, or Refusal.                           *)
Evaluated(g) ==
  LET env[k \in 0..Len(g.order)] ==
        IF k = 0 THEN Started(g) ELSE Execute(g, env[k - 1], g.order[k])
  IN  env[Len(g.order)]
Meaning(g)   == Evaluated(g).result

(* torch.fx's lint: every operand comes before its user.                   *)
Ordered(g) ==
  \A i \in Ids(g) : \A j \in Operands(g.nodes[i]) :
    j \in Ids(g) /\ Position(g, j) < Position(g, i)
=============================================================================
