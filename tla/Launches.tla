----------------------------- MODULE Launches ------------------------------
(***************************************************************************)
(* How the operators of Ops.cpp, LlmOps.cpp and CustomOps.cpp turn the     *)
(* shapes of their tensors into a launch, or refuse them.                  *)
(*                                                                         *)
(* A call is a record of the operator, the shapes x, y, z and w of up to   *)
(* four tensors, a dim and ids, and which of the tensors are contiguous    *)
(* views with an offset: contiguous() keeps these, and copies what is not  *)
(* contiguous as TensorStorage does. Scalars (alpha, eps, the number of an *)
(* activation) are handed through and left out.                            *)
(***************************************************************************)
EXTENDS Kernels, FiniteSetsExt

Absent == <<-1>>  \* the shape of an optional tensor that is not given

-----------------------------------------------------------------------------
Numel(s) ==
  LET product[d \in 0..Len(s)] == IF d = 0 THEN 1 ELSE product[d - 1] * s[d]
  IN  product[Len(s)]
Front1(s)    == SubSeq(s, 1, Len(s) - 1)
WithLast(s, n) == Append(Front1(s), n)
Size(s, fromEnd) == s[Len(s) + 1 - fromEnd]

(* Row-major positions.                                                    *)
Stride(s, d) == Numel(SubSeq(s, d + 1, Len(s)))
Flat(s, I) ==
  LET at[d \in 0..Len(s)] == IF d = 0 THEN 0 ELSE at[d - 1] * s[d] + I[d]
  IN  at[Len(s)]
Unflat(s, f) == [d \in DOMAIN s |-> (f \div Stride(s, d)) % s[d]]
Element(name, s, I) == <<name, Flat(s, I)>>

Contiguous(name, s) == [i \in 0..(Numel(s) - 1) |-> <<name, i>>]
Optional(name, s)   == IF s = Absent THEN <<>> ELSE Contiguous(name, s)

(* at::infer_size and expand().contiguous().                               *)
Dims(s, n) == [d \in 1..n |-> IF d <= n - Len(s) THEN 1 ELSE s[d - (n - Len(s))]]
Longer(s, t) == IF Len(s) > Len(t) THEN Len(s) ELSE Len(t)
Joins(s, t) ==
  LET n == Longer(s, t)
  IN  \A d \in 1..n : \/ Dims(s, n)[d] = Dims(t, n)[d]
                      \/ 1 \in {Dims(s, n)[d], Dims(t, n)[d]}
Join(s, t) ==
  LET n == Longer(s, t)
  IN  [d \in 1..n |-> IF Dims(s, n)[d] = 1 THEN Dims(t, n)[d] ELSE Dims(s, n)[d]]
Clip(s, I) ==
  [d \in DOMAIN s |-> IF s[d] = 1 THEN 0 ELSE I[d + Len(I) - Len(s)]]
Expanded(name, s, to) ==
  [i \in 0..(Numel(to) - 1) |-> Element(name, s, Clip(s, Unflat(to, i)))]

-----------------------------------------------------------------------------
(* What an operator comes to: a launch, an exception (refused), a return   *)
(* without a launch (empty), or an integer division by zero (crashed).     *)
NoParams == [kernel |-> "none", src |-> <<>>, numel |-> 0, m |-> 0, n |-> 0, k |-> 0,
             batch |-> 1, transB |-> FALSE, ids |-> <<>>, shape |-> <<>>]

Ends(stage_)  == [stage |-> stage_, params |-> NoParams]
Refused == Ends("refused")
Crashed == Ends("crashed")
Empty   == Ends("empty")
Ready(p) == [stage |-> "ready", params |-> p]

Launch1(kernel, src, shape) ==
  Ready([NoParams EXCEPT !.kernel = kernel, !.src = src, !.shape = shape,
                         !.numel = Numel(shape)])

Filled(c) == IF Numel(c.x) = 0 THEN Empty ELSE Launch1("fill", <<>>, c.x)

Unary(c)  == Launch1("unary", <<Contiguous("x", c.x)>>, c.x)

Binary(c) ==
  IF ~Joins(c.x, c.y) THEN Refused
  ELSE LET s == Join(c.x, c.y)
       IN  Launch1("binary", <<Expanded("x", c.x, s), Expanded("y", c.y, s)>>, s)

(* The operands need as many elements as the first, whatever their shape.  *)
PointwiseOp(c) ==
  IF Numel(c.y) # Numel(c.x) THEN Refused
  ELSE Launch1("pointwise", <<Contiguous("x", c.x), Contiguous("y", c.y)>>, c.x)

(* gemm_bias_act, for two matrices; shape is what the caller makes of the  *)
(* result.                                                                 *)
BiasPerRow(m, n, z) == z = Absent \/ Numel(z) = m  \* faulty
BiasFits(m, n, z) == z = Absent \/ Numel(z) = n

GemmBiasAct(xs, ys, z, transB, shape) ==
  LET m == xs[1]  k == xs[2]
      n == IF transB THEN ys[1] ELSE ys[2]
  IN  IF (IF transB THEN ys[2] ELSE ys[1]) # k \/ ~BiasFits(m, n, z) THEN Refused
      ELSE IF m = 0 \/ n = 0 THEN Empty
      ELSE Ready([NoParams EXCEPT
             !.kernel = "gemm_bias_act", !.transB = transB, !.shape = shape,
             !.src = <<Contiguous("x", xs), Contiguous("y", ys), Optional("z", z)>>,
             !.numel = m * n, !.m = m, !.n = n, !.k = k])

Mm(c) ==
  IF Len(c.x) # 2 \/ Len(c.y) # 2 THEN Refused
  ELSE GemmBiasAct(c.x, c.y, Absent, FALSE, <<c.x[1], c.y[2]>>)

(* x.numel() / in_f, after the check of in_f.                              *)
Linear(c) ==
  IF Len(c.y) # 2 \/ c.x = <<>> THEN Refused
  ELSE IF Size(c.x, 1) # c.y[2] THEN Refused
  ELSE IF Size(c.x, 1) = 0 THEN Crashed
  ELSE GemmBiasAct(<<Numel(c.x) \div Size(c.x, 1), Size(c.x, 1)>>, c.y, c.z, TRUE,
                   WithLast(c.x, c.y[1]))

(* linear_act divides first, and is told whether its weight is transposed. *)
LinearAct(c, transB) ==
  IF c.x = <<>> THEN Refused
  ELSE IF Size(c.x, 1) = 0 THEN Crashed
  ELSE IF Len(c.y) # 2 THEN Refused
  ELSE GemmBiasAct(<<Numel(c.x) \div Size(c.x, 1), Size(c.x, 1)>>, c.y, c.z, transB,
                   WithLast(c.x, c.y[IF transB THEN 1 ELSE 2]))

(* matmul: batches are counted, by division, and their number compared.    *)
(* Only a matrix as second operand is expanded.                            *)
Batched(x, y, aBatch, expands) ==
  Ready([NoParams EXCEPT
    !.kernel = "bmm", !.shape = WithLast(x, Size(y, 1)),
    !.src = <<Contiguous("x", x),
              IF expands THEN Expanded("y", y, <<aBatch>> \o y) ELSE Contiguous("y", y), <<>>>>,
    !.numel = (Numel(x) \div Size(x, 1)) * Size(y, 1), !.batch = aBatch,
    !.m = Size(x, 2), !.n = Size(y, 1), !.k = Size(x, 1)])

Matmul2D(x, y) ==
  GemmBiasAct(x, y, Absent, FALSE, <<x[1], y[2]>>)

AnyBatches(a, b) == TRUE                 \* faulty: the check is missing
SameBatches(a, b) == a = b

Matmul(x, y) ==
  IF Len(x) < 2 \/ Len(y) < 2 THEN Refused
  ELSE IF Len(x) = 2 /\ Len(y) = 2 THEN Matmul2D(x, y)
  ELSE IF Size(x, 1) # Size(y, 2) THEN Refused
  ELSE IF 0 \in {Size(x, 1), Size(x, 2), Size(y, 1)} THEN Crashed
  ELSE LET aBatch  == Numel(x) \div (Size(x, 2) * Size(x, 1))
           expands == Len(y) = 2 /\ aBatch > 1
           bBatch  == IF expands THEN aBatch ELSE Numel(y) \div (Size(x, 1) * Size(y, 1))
       IN  IF SameBatches(aBatch, bBatch) THEN Batched(x, y, aBatch, expands) ELSE Refused

Bmm(c) == IF Len(c.x) # 3 \/ Len(c.y) # 3 THEN Refused ELSE Matmul(c.x, c.y)

Softmax(c) ==
  LET dim == IF c.dim < 0 THEN c.dim + Len(c.x) ELSE c.dim
  IN  IF Len(c.x) = 0 \/ dim \notin 0..(Len(c.x) - 1) THEN Refused
      ELSE Ready([NoParams EXCEPT
             !.kernel = "softmax", !.src = <<Contiguous("x", c.x)>>, !.shape = c.x,
             !.m = Numel(SubSeq(c.x, 1, dim)), !.n = c.x[dim + 1],
             !.k = Numel(SubSeq(c.x, dim + 2, Len(c.x))), !.numel = Numel(c.x)])

(* y is normalized_shape, z the shape of the weight and w that of the      *)
(* bias: any are taken.                                                    *)
LayerNorm(c) ==
  LET n == Numel(c.y)
  IN  IF n = 0 \/ Numel(c.x) % n # 0 THEN Refused
      ELSE Ready([NoParams EXCEPT
             !.kernel = "layernorm", !.shape = c.x, !.m = Numel(c.x) \div n, !.n = n,
             !.src = <<Contiguous("x", c.x), Optional("z", c.z), Optional("w", c.w)>>])

(* x is the shape of the ids, y that of the table. The ids become int32.   *)
AsGiven(ids) == ids                      \* faulty: kept as they are
AsInt32(ids) == [i \in DOMAIN ids |-> AsInt(ids[i])]

Embedding(c) ==
  IF Len(c.y) # 2 THEN Refused
  ELSE IF Numel(c.x) = 0 \/ c.y[2] = 0 THEN Empty
  ELSE Ready([NoParams EXCEPT
         !.kernel = "embedding", !.shape = Append(c.x, c.y[2]),
         !.src = <<Contiguous("y", c.y)>>, !.ids = AsInt32(c.ids),
         !.numel = Numel(c.x), !.n = c.y[2], !.k = c.y[1]])

Prepared(c) ==
  CASE c.op = "fill"       -> Filled(c)
    [] c.op = "unary"      -> Unary(c)
    [] c.op = "binary"     -> Binary(c)
    [] c.op = "pointwise"  -> PointwiseOp(c)
    [] c.op = "mm"         -> Mm(c)
    [] c.op = "linear"     -> Linear(c)
    [] c.op = "linear_act"   -> LinearAct(c, FALSE)
    [] c.op = "linear_act_t" -> LinearAct(c, TRUE)
    [] c.op = "matmul"     -> Matmul(c.x, c.y)
    [] c.op = "bmm"        -> Bmm(c)
    [] c.op = "softmax"    -> Softmax(c)
    [] c.op = "layer_norm" -> LayerNorm(c)
    [] c.op = "embedding"  -> Embedding(c)
=============================================================================
