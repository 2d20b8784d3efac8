---------------------------- MODULE KernelGrid -----------------------------
(***************************************************************************)
(* An operator call on its way: it is prepared, launched on the simulator  *)
(* or on OpenCL, run and returned. What it has written is compared with a  *)
(* definition of the operator by indices.                                  *)
(***************************************************************************)
EXTENDS Launches

CONSTANT Calls  \* calls to make

Operators ==
  {"fill", "unary", "binary", "pointwise", "mm", "linear", "linear_act", "linear_act_t",
   "matmul", "bmm", "softmax", "layer_norm", "embedding"}

(* Sizes are natural numbers, the ids of an embedding are the elements of  *)
(* its first operand, and offset names the operands that are contiguous    *)
(* views with an offset into their storage.                                *)
Operands == {"x", "y", "z", "w"}

ASSUME CallsAssumption ==
  \A c \in Calls :
    /\ c.op \in Operators /\ c.x \in Seq(Nat) /\ c.z \in Seq(Nat) \cup {Absent}
    /\ c.w \in Seq(Nat) \cup {Absent} /\ c.offset \subseteq Operands
    /\ c.op \notin {"fill", "unary", "softmax"} => c.y \in Seq(Nat)
    /\ c.dim \in Int /\ c.ids \in Seq(Int)
    /\ c.op = "embedding" => Len(c.ids) = Numel(c.x)

VARIABLES
  call, backend,
  stage,    \* called, ready, running, ran, returned; or how it ended otherwise
  params,   \* the LaunchParams
  written,  \* what the launch wrote, ...
  again,    \* ... where it wrote more than once,
  reads     \* and the elements it read

vars == <<call, backend, stage, params, written, again, reads>>

Init ==
  /\ call \in Calls /\ backend \in {"sim", "opencl"}
  /\ stage = "called" /\ params = NoParams
  /\ written = {} /\ again = {} /\ reads = {}

Prepare ==
  /\ stage = "called"
  /\ stage' = Prepared(call).stage /\ params' = Prepared(call).params
  /\ UNCHANGED <<call, backend, written, again, reads>>

(* as_mem throws for a pointer at which no buffer starts. Null is one;     *)
(* launch() takes null for a weight and a bias only.                       *)
Buffers(p) ==
  CASE p.kernel \in {"gemm_bias_act", "bmm"} -> {1, 2}
    [] p.kernel = "layernorm"                -> {1}
    [] OTHER                                 -> DOMAIN p.src
HasNull(p) == Numel(p.shape) = 0 \/ \E s \in Buffers(p) : DOMAIN p.src[s] = {}

(* A pointer behind an offset is another. A launch gets it for an operand  *)
(* that is neither copied to the host nor by expanding it; fill writes its *)
(* operand.                                                                *)
PassedAsIs(c, p) ==
  {o \in Operands :
     \/ c.op = "fill" /\ o = "x"
     \/ \E s \in DOMAIN p.src : DOMAIN p.src[s] # {} /\ p.src[s] = Contiguous(o, c[o])}

NotABuffer(c, p) == HasNull(p) \/ c.offset \cap PassedAsIs(c, p) # {}

LaunchThrows ==
  /\ stage = "ready" /\ backend = "opencl" /\ NotABuffer(call, params)
  /\ stage' = "threw"
  /\ UNCHANGED <<call, backend, params, written, again, reads>>

Launch ==
  /\ stage = "ready" /\ (backend = "opencl" => ~NotABuffer(call, params))
  /\ stage' = "running"
  /\ UNCHANGED <<call, backend, params, written, again, reads>>

(* Every array has at most MaxInt elements. Beyond that ints wrap in the   *)
(* kernels, and nothing is said of what OpenCL does.                       *)
FitsInt(p) ==
  /\ Numel(p.shape) <= MaxInt /\ Len(p.ids) <= MaxInt
  /\ \A s \in DOMAIN p.src : Cardinality(DOMAIN p.src[s]) <= MaxInt

Items == IF backend = "sim" THEN HostItems(params) ELSE DeviceItems(params)

(* What items write and read together, and where two of their writes meet. *)
Targets(writes)   == {w.to : w \in writes}
AllWrites(items)  == UNION {items[i].writes : i \in DOMAIN items}
AllReads(items)   == UNION {items[i].reads : i \in DOMAIN items}
Pairs(items) == UNION {{i} \X items[i].writes : i \in DOMAIN items}
Meeting(items) ==
  {e \in Targets(AllWrites(items)) :
     \E a, b \in {x \in Pairs(items) : x[2].to = e} : a # b}

RunItems ==
  /\ stage = "running" /\ (backend = "opencl" => FitsInt(params))
  /\ LET items == Items
     IN  /\ written' = AllWrites(items) /\ again' = Meeting(items)
         /\ reads' = AllReads(items)
  /\ stage' = "ran"
  /\ UNCHANGED <<call, backend, params>>

RunBeyondInt ==
  /\ stage = "running" /\ backend = "opencl" /\ ~FitsInt(params)
  /\ stage' = "unknown"
  /\ UNCHANGED <<call, backend, params, written, again, reads>>

(* native_layer_norm shapes its statistics after the launch; that throws   *)
(* when normalized_shape is no suffix of the sizes, as far as it can tell. *)
StatsFit ==
  call.op = "layer_norm" =>
    /\ Len(call.y) <= Len(call.x)
    /\ Numel(SubSeq(call.x, 1, Len(call.x) - Len(call.y))) = params.m

Return ==
  /\ stage = "ran" /\ stage' = IF StatsFit THEN "returned" ELSE "refused"
  /\ UNCHANGED <<call, backend, params, written, again, reads>>

Next == Prepare \/ Launch \/ LaunchThrows \/ RunItems \/ RunBeyondInt \/ Return

Spec == Init /\ [][Next]_vars

-----------------------------------------------------------------------------
(* The operators by indices.                                               *)
Indices(s) ==
  IF s = <<>> THEN {<<>>}
  ELSE {I \in [DOMAIN s -> 0..Max(ToSet(s))] : \A d \in DOMAIN s : I[d] < s[d]}

Shape(c) ==
  CASE c.op \in {"fill", "unary", "pointwise", "softmax", "layer_norm"} -> c.x
    [] c.op = "binary"                   -> Join(c.x, c.y)
    [] c.op \in {"linear", "linear_act_t"} -> WithLast(c.x, c.y[1])
    [] c.op = "embedding"                -> Append(c.x, c.y[2])
    [] c.op \in {"mm", "matmul", "bmm", "linear_act"} -> WithLast(c.x, Size(c.y, 1))

(* Matrix and row of an index, and the batch before them.                  *)
BatchOf(I)  == SubSeq(I, 1, Len(I) - 2)
LastOf(I)   == I[Len(I)]
SumOver(name, s, n, At) == [q \in 1..n |-> Element(name, s, At[q - 1])]

Dot(c, I, n, xAt, yAt, z) ==
  <<SumOver("x", c.x, n, xAt), SumOver("y", c.y, n, yAt), z>>

BiasElement(c, I) ==
  IF c.op = "mm" \/ c.z = Absent THEN <<>> ELSE <<<<"z", LastOf(I)>>>>

(* What element I of the result is computed from.                          *)
From(c, I) ==
  LET X == Element("x", c.x, I)
      Steps == 0..(Size(c.x, 1) - 1)
      n == Size(c.x, 1)
      xRow == [q \in Steps |-> WithLast(I, q)]
  IN  CASE c.op = "fill"      -> <<>>
        [] c.op = "unary"     -> <<<<X>>>>
        [] c.op = "binary"    -> <<<<Element("x", c.x, Clip(c.x, I))>>,
                                   <<Element("y", c.y, Clip(c.y, I))>>>>
        [] c.op = "pointwise" -> <<<<X>>, <<Element("y", c.y, I)>>>>
        [] c.op \in {"linear", "linear_act_t"} ->
             Dot(c, I, n, xRow, [q \in Steps |-> <<LastOf(I), q>>], BiasElement(c, I))
        [] c.op \in {"mm", "linear_act"} ->
             Dot(c, I, n, xRow, [q \in Steps |-> <<q, LastOf(I)>>], BiasElement(c, I))
        [] c.op \in {"matmul", "bmm"} ->
             Dot(c, I, n, xRow,
                 [q \in Steps |-> (IF Len(c.y) = 2 THEN <<>> ELSE BatchOf(I)) \o <<q, LastOf(I)>>],
                 <<>>)
        [] c.op = "softmax"   ->
             LET d == IF c.dim < 0 THEN c.dim + Len(c.x) + 1 ELSE c.dim + 1
             IN  <<<<X>>, [q \in 1..c.x[d] |-> Element("x", c.x, [I EXCEPT ![d] = q - 1])]>>
        [] c.op = "layer_norm" ->
             LET kept   == Len(c.x) - Len(c.y)
                 prefix == SubSeq(I, 1, kept)
                 J      == SubSeq(I, kept + 1, Len(I))
                 Affine(name) == IF c[name] = Absent THEN <<>> ELSE <<Element(name, c.y, J)>>
             IN  <<[q \in 1..Numel(c.y) |-> Element("x", c.x, prefix \o Unflat(c.y, q - 1))],
                   <<X>>, Affine("z"), Affine("w")>>
        [] c.op = "embedding" ->
             LET id == c.ids[Flat(c.x, Front1(I)) + 1]
             IN  IF id \in 0..(c.y[1] - 1) THEN <<<<Element("y", c.y, <<id, LastOf(I)>>)>>>>
                                           ELSE <<>>

(* Calls the operators are meant for: shapes that fit each other, ids that *)
(* are int32. Batches of matmul are equal, or there is only one matrix to  *)
(* multiply all of them with.                                              *)
Regular(c) ==
  CASE c.op \in {"fill", "unary"} -> TRUE
    [] c.op = "binary"     -> Joins(c.x, c.y)
    [] c.op = "pointwise"  -> c.x = c.y
    [] c.op = "mm"         -> Len(c.x) = 2 /\ Len(c.y) = 2 /\ c.x[2] = c.y[1]
    [] c.op \in {"linear", "linear_act_t"} ->
                              /\ c.x # <<>> /\ Len(c.y) = 2
                              /\ Size(c.x, 1) = c.y[2] /\ c.y[2] # 0
                              /\ c.z \in {Absent, <<c.y[1]>>}
    [] c.op = "linear_act" -> /\ c.x # <<>> /\ Len(c.y) = 2
                              /\ Size(c.x, 1) = c.y[1] /\ c.y[1] # 0
                              /\ c.z \in {Absent, <<c.y[2]>>}
    [] c.op = "matmul"     -> /\ Len(c.x) >= 2 /\ Len(c.y) >= 2 /\ Size(c.x, 1) = Size(c.y, 2)
                              /\ \/ Len(c.x) = 2 /\ Len(c.y) = 2
                                 \/ /\ \/ Len(c.y) = 2
                                       \/ BatchOf(c.x) = BatchOf(c.y)
                                    /\ 0 \notin {Size(c.x, 1), Size(c.x, 2), Size(c.y, 1)}
    [] c.op = "bmm"        -> /\ Len(c.x) = 3 /\ Len(c.y) = 3 /\ c.x[1] = c.y[1]
                              /\ c.x[3] = c.y[2] /\ 0 \notin {c.x[2], c.x[3], c.y[3]}
    [] c.op = "softmax"    -> c.x # <<>> /\ c.dim \in (-Len(c.x))..(Len(c.x) - 1)
    [] c.op = "layer_norm" -> /\ Len(c.y) <= Len(c.x) /\ Numel(c.y) # 0
                              /\ c.y = SubSeq(c.x, Len(c.x) - Len(c.y) + 1, Len(c.x))
                              /\ c.z \in {Absent, c.y} /\ c.w \in {Absent, c.y}
    [] c.op = "embedding"  -> /\ Len(c.y) = 2
                              /\ \A i \in DOMAIN c.ids : c.ids[i] = AsInt(c.ids[i])

Statistics(c) ==
  IF c.op # "layer_norm" THEN {}
  ELSE LET n == Numel(c.y)
       IN  {Write(array, r, <<[q \in 1..n |-> <<"x", r * n + q - 1>>]>>) :
              array \in {"mean", "rstd"}, r \in 0..((Numel(c.x) \div n) - 1)}

Reference(c) ==
  {Write("out", Flat(Shape(c), I), From(c, I)) : I \in Indices(Shape(c))} \cup Statistics(c)

-----------------------------------------------------------------------------
Outputs(p) ==
  {<<"out", i>> : i \in 0..(Numel(p.shape) - 1)}
    \cup IF p.kernel = "layernorm" THEN {"mean", "rstd"} \X (0..(p.m - 1)) ELSE {}

TypeOK ==
  /\ call \in Calls /\ backend \in {"sim", "opencl"}
  /\ stage \in {"called", "ready", "running", "ran", "returned",
                "refused", "threw", "crashed", "empty", "unknown"}
  /\ stage \in {"called", "crashed", "empty"} => params = NoParams
  /\ \A i \in DOMAIN params.ids : params.ids[i] \in -(MaxInt + 1)..MaxInt

(* The iterations or work-items of a launch write each element of the      *)
(* result once, and nothing else, whatever the grid was rounded up to:     *)
(* no two write the same element, so their order does not matter           *)
(* (OpenCLRuntime.cpp:402-507, HostKernels.cpp:113-147).                   *)
EachOnce ==
  stage = "ran" => Targets(written) = Outputs(params) /\ again = {}

(* They read elements that exist, except for a layer_norm whose weight or  *)
(* bias is shorter than a row, and a softmax over no elements.             *)
ReadsInBounds ==
  stage = "ran" /\ Wild \in reads =>
    \/ /\ call.op = "layer_norm"
       /\ \E s \in {call.z, call.w} : s # Absent /\ Numel(s) < params.n
    \/ call.op = "softmax" /\ params.n = 0

(* A regular call returns what the operator is by its definition, element  *)
(* by element and in the order of the sum, on both backends                *)
(* (LlmOps.cpp:68-264, AtenCommon.h:35-86, CustomOps.cpp:14-89).           *)
RightResult ==
  Regular(call) /\ stage \in {"ran", "returned", "empty"} =>
    /\ written = Reference(call)
    /\ stage # "empty" => params.shape = Shape(call)

(* Whatever the call, the device writes what the host writes.              *)
BackendsAgree ==
  stage = "ran" /\ backend = "opencl" =>
    written = AllWrites(HostItems(params))

(* A product of no matrices with one matrix: it is not expanded, and       *)
(* counted as a batch of one (LlmOps.cpp:121-127).                         *)
NoMatrices(c) ==
  c.op = "matmul" /\ Len(c.x) > 2 /\ Len(c.y) = 2 /\ 0 \in ToSet(BatchOf(c.x))

(* The operands that an operator copies though they are contiguous: ids go *)
(* to the host, and expanding repeats the elements of the smaller operand. *)
Copied(c) ==
  CASE c.op = "binary"    -> {o \in {"x", "y"} : Numel(c[o]) # Numel(Join(c.x, c.y))}
    [] c.op = "matmul"    -> {o \in {"y"} : Len(c.y) = 2 /\ Numel(BatchOf(c.x)) > 1}
    [] c.op = "embedding" -> {"x"}
    [] OTHER              -> {}

(* A regular call is not refused, but for a product of no matrices, and    *)
(* divides by no zero (LlmOps.cpp:120-163, CustomOps.cpp:26). OpenCL       *)
(* throws only if an operand has no elements or is a view with an offset   *)
(* that is not copied (OpenCLRuntime.cpp:568-573, ExtendedOps.cpp:131-134).*)
RegularServed ==
  Regular(call) => /\ stage = "refused" => NoMatrices(call)
                   /\ stage # "crashed"
                   /\ stage = "threw" =>
                        \/ \E o \in Operands : 0 \in ToSet(call[o])
                        \/ call.offset \ Copied(call) # {}
=============================================================================
