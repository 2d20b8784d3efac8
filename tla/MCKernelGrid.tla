---------------------------- MODULE MCKernelGrid ----------------------------
(* Calls with every way to fit, broadcast, be refused, be empty or be        *)
(* larger than MaxInt.                                                       *)
EXTENDS KernelGrid

Request(op, x, y, z, dim, ids) ==
  [op |-> op, x |-> x, y |-> y, z |-> z, w |-> Absent, offset |-> {},
   dim |-> dim, ids |-> ids]
Plain(op, x, y) == Request(op, x, y, Absent, 0, <<>>)

Vectors  == {<<>>, <<0>>, <<1>>, <<3>>, <<15>>, <<17>>}
Matrices == {<<a, b>> : a \in 0..3, b \in 0..3}
Batches  == {<<1, 2, 1>>, <<2, 1, 2>>, <<2, 2, 1>>, <<1, 1, 2>>, <<2, 0, 1>>, <<0, 2, 1>>,
             <<3, 1, 1>>, <<2, 1, 1, 2>>, <<1, 2, 2, 1>>, <<1, 2, 1, 2>>}

OneOperand == {Plain(op, s, Absent) : op \in {"fill", "unary"}, s \in Vectors \cup {<<2, 3>>}}
TwoOperands ==
  {Plain(op, s, t) : op \in {"binary", "pointwise"},
                     s \in {<<>>, <<0>>, <<3>>, <<1, 3>>, <<2, 1>>, <<2, 3>>},
                     t \in {<<>>, <<0>>, <<3>>, <<3, 1>>, <<2, 3>>, <<2>>}}

Products ==
  {Plain("mm", x, y) : x \in Matrices, y \in Matrices}
    \cup {Plain("mm", <<3>>, <<3, 1>>)}
    \cup {Plain(op, x, y) : op \in {"matmul", "bmm"}, x \in Batches \cup {<<2, 1>>, <<1, 2>>},
                            y \in Batches \cup {<<2, 1>>, <<1, 2>>, <<2, 0>>}}

Layers ==
  {Request(op, x, w, b, 0, <<>>) :
     op \in {"linear", "linear_act", "linear_act_t"},
     x \in {<<2>>, <<0, 2>>, <<3, 0>>, <<3, 2>>, <<2, 1, 2>>, <<1, 3>>},
     w \in {<<2, 2>>, <<1, 2>>, <<2, 1>>, <<3, 0>>, <<0, 2>>, <<0, 3>>},
     b \in {Absent, <<1>>, <<2>>}}

Rows ==
  {Request("softmax", x, Absent, Absent, d, <<>>) :
     x \in {<<>>, <<3>>, <<2, 3>>, <<2, 0>>, <<0, 2>>, <<1, 3, 2>>}, d \in -2..2}
    \cup {[Request("layer_norm", x, n, w, 0, <<>>) EXCEPT !.w = b] :
             x \in {<<3>>, <<2, 3>>, <<3, 2>>, <<0, 2>>, <<2, 1, 3>>},
             n \in {<<3>>, <<2>>, <<1, 3>>, <<0>>, <<2, 1, 1, 3>>},
             w \in {Absent, <<3>>, <<2>>, <<1, 3>>},
             b \in {Absent, <<3>>, <<2>>}}

Tables ==
  {Request("embedding", x, w, Absent, 0, ids) :
     x \in {<<2>>, <<1, 2>>, <<2, 1>>}, w \in {<<2, 3>>, <<3, 2>>, <<2, 0>>, <<0, 2>>, <<2>>},
     ids \in {<<0, 1>>, <<1, 1>>, <<2, -1>>, <<33, 0>>}}
    \cup {Request("embedding", <<0>>, <<2, 2>>, Absent, 0, <<>>)}

(* Contiguous views with an offset, expanded or not.                         *)
Few ==
  {Plain(op, <<3>>, Absent) : op \in {"fill", "unary", "softmax"}}
    \cup {Plain("binary", s, t) : s \in {<<>>, <<3>>, <<1, 3>>, <<2, 3>>},
                                 t \in {<<3>>, <<3, 1>>, <<2, 3>>}}
    \cup {Plain("pointwise", <<3>>, <<3>>), Plain("mm", <<2, 1>>, <<1, 2>>)}
    \cup {Plain("matmul", x, y) : x \in {<<1, 2, 1>>, <<2, 2, 1>>},
                                 y \in {<<1, 2>>, <<2, 1, 2>>, <<1, 1, 2>>}}
    \cup {Plain("bmm", <<2, 2, 1>>, <<2, 1, 2>>)}
    \cup {Request(op, <<1, 2>>, <<2, 2>>, b, 0, <<>>) :
             op \in {"linear", "linear_act", "linear_act_t"}, b \in {Absent, <<2>>}}
    \cup {[Request("layer_norm", <<2, 3>>, <<3>>, w, 0, <<>>) EXCEPT !.w = b] :
             w \in {Absent, <<0>>, <<3>>}, b \in {Absent, <<3>>}}
    \cup {Request("embedding", <<2>>, <<3, 2>>, Absent, 0, <<2, 0>>)}

Offsets == {{o} : o \in Operands} \cup {{"x", "y"}, Operands}

Views == {[c EXCEPT !.offset = o] : c \in Few, o \in Offsets}

SmallCalls ==
  OneOperand \cup TwoOperands \cup Products \cup Layers \cup Rows \cup Tables \cup Views
=============================================================================
