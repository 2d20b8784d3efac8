------------------------------ MODULE Kernels ------------------------------
(***************************************************************************)
(* Which elements the kernels read and write: the loops of HostKernels.cpp *)
(* the simulator runs, and the OpenCL kernels embedded in                  *)
(* OpenCLRuntime.cpp, over the grid launch() enqueues.                     *)
(*                                                                         *)
(* An array is a function from indices to the elements of tensors, which   *)
(* are pairs of a tensor and a position; the empty array is the null       *)
(* pointer of an empty tensor. A write says where to and from which        *)
(* elements, in the order they are used; zeros come from none. What one    *)
(* iteration of a host loop, or one work-item, does is its writes and      *)
(* reads.                                                                  *)
(***************************************************************************)
EXTENDS Integers, Sequences, SequencesExt

CONSTANTS
  LocalWorkSize,  \* kLocalWorkSize, 32
  Tile,           \* kTile of the host gemm, 32
  MaxInt          \* the largest int of OpenCL C, 2^31 - 1

ASSUME WidthsAssumption ==
  /\ LocalWorkSize \in Nat \ {0} /\ Tile \in Nat \ {0} /\ MaxInt \in Nat
  /\ (MaxInt + 1) % LocalWorkSize = 0

(* static_cast<int>, and the arithmetic on ints.                           *)
AsInt(x) == ((x + MaxInt + 1) % (2 * (MaxInt + 1))) - (MaxInt + 1)

Wild        == <<"wild", 0>>
Fetch(a, i) == IF i \in DOMAIN a THEN a[i] ELSE Wild
Line(a, first, step, count) == [q \in 1..count |-> Fetch(a, first + (q - 1) * step)]

Write(array, i, from) == [to |-> <<array, i>>, from |-> from]

Item(writes) ==
  [writes |-> writes,
   reads  |-> UNION {UNION {ToSet(w.from[s]) : s \in DOMAIN w.from} : w \in writes}]
Nothing == Item({})

Elementwise == {"fill", "unary", "binary", "pointwise"}

-----------------------------------------------------------------------------
(* One element, row or line: the same text in both languages.              *)
ElementItem(p, i) ==
  Item({Write("out", i, [s \in DOMAIN p.src |-> <<Fetch(p.src[s], i)>>])})

(* The first element is read before the loop asks whether there is one.    *)
SoftmaxItem(p, o, i) ==
  LET At(d) == (o * p.n + d) * p.k + i
      line  == Line(p.src[1], At(0), p.k, p.n)
      body  == Item({Write("out", At(d), <<<<Fetch(p.src[1], At(d))>>, line>>) :
                       d \in 0..(p.n - 1)})
  IN  [body EXCEPT !.reads = @ \cup {Fetch(p.src[1], At(0))}]

LayerNormItem(p, r) ==
  LET row       == Line(p.src[1], r * p.n, 1, p.n)
      Affine(a, j) == IF a = <<>> THEN <<>> ELSE <<Fetch(a, j)>>
      From(j)   == <<row, <<Fetch(p.src[1], r * p.n + j)>>,
                     Affine(p.src[2], j), Affine(p.src[3], j)>>
  IN  Item({Write("out", r * p.n + j, From(j)) : j \in 0..(p.n - 1)}
             \cup {Write("mean", r, <<row>>), Write("rstd", r, <<row>>)})

(* An id outside of the table gives zeros.                                 *)
EmbeddingWrite(p, r, j) ==
  LET id == p.ids[r + 1]
  IN  IF id \in 0..(p.k - 1)
        THEN Write("out", r * p.n + j, <<<<Fetch(p.src[1], id * p.n + j)>>>>)
        ELSE Write("out", r * p.n + j, <<>>)

(* The element of column j of the second operand in step q of the sum.     *)
Operand(p, j, q) == IF p.transB THEN j * p.k + q ELSE q * p.n + j

BiasOf(p, j) == IF p.src[3] = <<>> THEN <<>> ELSE <<Fetch(p.src[3], j)>>

-----------------------------------------------------------------------------
(* The host: a function from the iterations of the loops to items.         *)
TilesFrom(n) == {t \in 0..n : t % Tile = 0 /\ t < n}
Least(a, b)  == IF a < b THEN a ELSE b

OpenTile(t, n)  == t..Least(t + Tile, n)  \* faulty: <= instead of <
InTile(t, n) == t..(Least(t + Tile, n) - 1)
Tiled(n)     == UNION {{<<t, i>> : i \in InTile(t, n)} : t \in TilesFrom(n)}

(* The order in which the tiled loops add up 0..k - 1.                     *)
WholeTiles(k)  ==                        \* faulty: the last, short tile is left out
  FlattenSeq([t \in 1..(k \div Tile) |-> [q \in 1..Tile |-> (t - 1) * Tile + q - 1]])
TiledOrder(k) ==
  FlattenSeq([t \in 1..((k + Tile - 1) \div Tile) |->
                [q \in 1..(Least(t * Tile, k) - (t - 1) * Tile) |-> (t - 1) * Tile + q - 1]])

(* gemm_bias_act_f32, and bmm_f32, which calls it once per matrix.         *)
HostDot(p, b, i, j) ==
  LET order == TiledOrder(p.k)
  IN  Item({Write("out", b * p.m * p.n + i * p.n + j,
        <<[q \in DOMAIN order |-> Fetch(p.src[1], b * p.m * p.k + i * p.k + order[q])],
          [q \in DOMAIN order |-> Fetch(p.src[2], b * p.k * p.n + Operand(p, j, order[q]))],
          BiasOf(p, j)>>)})

HostGemm(p) ==
  [it \in (0..(p.batch - 1)) \X Tiled(p.m) \X Tiled(p.n) |->
     HostDot(p, it[1], it[2][2], it[3][2])]

HostItems(p) ==
  CASE p.kernel \in Elementwise -> [i \in 0..(p.numel - 1) |-> ElementItem(p, i)]
    [] p.kernel \in {"gemm_bias_act", "bmm"} -> HostGemm(p)
    [] p.kernel = "softmax" ->
         [it \in (0..(p.m - 1)) \X (0..(p.k - 1)) |-> SoftmaxItem(p, it[1], it[2])]
    [] p.kernel = "layernorm" -> [r \in 0..(p.m - 1) |-> LayerNormItem(p, r)]
    [] p.kernel = "embedding" ->
         [r \in 0..(p.numel - 1) |-> Item({EmbeddingWrite(p, r, j) : j \in 0..(p.n - 1)})]

-----------------------------------------------------------------------------
(* The device: work-item gid of the grid. The dimensions are the ints that *)
(* launch() casts them to.                                                 *)
DeviceElement(p, gid) == IF gid < p.numel THEN ElementItem(p, gid) ELSE Nothing

OneMatrixDot(p, b, i, j) ==              \* faulty: b_off is left out
  Item({Write("out", b * p.m * p.n + i * p.n + j,
    <<Line(p.src[1], b * p.m * p.k + i * p.k, 1, p.k),
      [q \in 1..p.k |-> Fetch(p.src[2], Operand(p, j, q - 1))],
      BiasOf(p, j)>>)})
DeviceDot(p, b, i, j) ==
  Item({Write("out", b * p.m * p.n + i * p.n + j,
    <<Line(p.src[1], b * p.m * p.k + i * p.k, 1, p.k),
      [q \in 1..p.k |-> Fetch(p.src[2], b * p.k * p.n + Operand(p, j, q - 1))],
      BiasOf(p, j)>>)})

DeviceGemm(p, gid) ==
  LET i == gid \div p.n  j == gid - i * p.n
  IN  IF i >= p.m \/ j >= p.n THEN Nothing ELSE DeviceDot(p, 0, i, j)

DeviceBmm(p, gid) ==
  IF gid >= AsInt(p.batch * p.m * p.n) THEN Nothing
  ELSE DeviceDot(p, (gid \div p.n) \div p.m, (gid \div p.n) % p.m, gid % p.n)

DeviceSoftmax(p, gid) ==
  IF gid >= AsInt(p.m * p.k) THEN Nothing
  ELSE LET o == gid \div p.k IN SoftmaxItem(p, o, gid - o * p.k)

DeviceLayerNorm(p, row) == IF row >= p.m THEN Nothing ELSE LayerNormItem(p, row)

DeviceEmbedding(p, gid) ==
  LET row == gid \div p.n
  IN  IF row >= p.numel THEN Nothing ELSE Item({EmbeddingWrite(p, row, gid - row * p.n)})

DeviceItem(p, gid) ==
  CASE p.kernel \in Elementwise     -> DeviceElement(p, gid)
    [] p.kernel = "gemm_bias_act" -> DeviceGemm(p, gid)
    [] p.kernel = "bmm"           -> DeviceBmm(p, gid)
    [] p.kernel = "softmax"       -> DeviceSoftmax(p, gid)
    [] p.kernel = "layernorm"     -> DeviceLayerNorm(p, gid)
    [] p.kernel = "embedding"     -> DeviceEmbedding(p, gid)

(* round_up_lws, and at least one work-group.                              *)
RoundUp(n) == ((n + LocalWorkSize - 1) \div LocalWorkSize) * LocalWorkSize

Total(p) ==
  CASE p.kernel \in Elementwise     -> p.numel
    [] p.kernel = "gemm_bias_act" -> p.m * p.n
    [] p.kernel = "bmm"           -> p.batch * p.m * p.n
    [] p.kernel = "softmax"       -> p.m * p.k
    [] p.kernel = "layernorm"     -> p.m
    [] p.kernel = "embedding"     -> p.numel * p.n

Grid(p) == IF RoundUp(Total(p)) > LocalWorkSize THEN RoundUp(Total(p)) ELSE LocalWorkSize

DeviceItems(p) ==
  LET cast == [p EXCEPT !.numel = AsInt(@), !.m = AsInt(@), !.n = AsInt(@),
                        !.k = AsInt(@), !.batch = AsInt(@)]
  IN  [gid \in 0..(Grid(p) - 1) |-> DeviceItem(cast, AsInt(gid))]
=============================================================================
