--------------------------- MODULE MCPointwiseJit ---------------------------
(* Programs for PointwiseJit: each operator, and literals on both sides of *)
(* what six decimals and six digits can tell.                              *)
EXTENDS PointwiseJit, TLC

Node(op, a, b) ==
  [op |-> op, a |-> a, b |-> b, id |-> -1, alpha |-> One, c |-> Zero]
Load(k)        == [Node("load", -1, -1) EXCEPT !.id = k]
Const(x)       == [Node("const", -1, -1) EXCEPT !.c = x]
Scale(x, a)    == [Node("scale", a, -1) EXCEPT !.alpha = x]
Add(a, x, b)   == [Node("add", a, b) EXCEPT !.alpha = x]
Prog(n, nodes) == [n |-> n, nodes |-> nodes]

(* 0.5, 0.5000003, 2e-7, 3e-7, 0.100001, 0.0999995 and 0.1; -12.3456; a    *)
(* million, which is printed with an exponent, and two that lose digits.   *)
Fractions == {Number(0, f) : f \in {5000000, 5000003, 2, 3, 1000010, 999995, 1000000}}
Big       == {Number(1000000, 0), Number(12345678, 0), Number(999999, 5000000)}
Numbers   == Fractions \cup Big \cup {[Number(12, 3456000) EXCEPT !.sign = -1]}
Half      == Number(0, 5000000)

(* relu(a) * b + 1, the program of tests/test_compiler.py                  *)
TestProgram ==
  Prog(2, <<Load(0), Node("relu", 0, -1), Load(1), Node("mul", 1, 2),
            Const(One), Add(3, One, 4)>>)

Scaled     == {Prog(1, <<Load(0), Scale(x, 0)>>) : x \in Numbers}
Added      == {Prog(2, <<Load(0), Load(1), Add(0, x, 1)>>) : x \in {Half, Number(0, 2)}}
Shifted    == {Prog(1, <<Load(0), Const(x), Node("mul", 0, 1)>>) :
                 x \in {Number(1, 5000000), Number(1, 5000003)}}
Activation == {Prog(1, <<Load(0), Node(op, 0, -1)>>) : op \in Unary}
Swapped    == {Prog(2, <<Load(1), Load(0), Add(0, Half, 1)>>)}
Forward    == Prog(1, <<Load(0), Node("mul", 0, 2), Node("neg", 1, -1)>>)
Refusals   == {Prog(9, <<Load(8)>>), Prog(1, <<Load(1)>>), Prog(1, <<>>), Forward}

MCPrograms  == Scaled \cup Added \cup Shifted \cup Activation \cup Swapped
                 \cup Refusals \cup {TestProgram}
MCSupported == {TestProgram} \cup Activation \cup Scaled
=============================================================================
