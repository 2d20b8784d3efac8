---------------------------- MODULE PointwiseJit ----------------------------
(***************************************************************************)
(* The pointwise JIT: programs in SSA form, run by an interpreter on the   *)
(* simulator (run_pointwise_host) and by a compiled, cached kernel on      *)
(* OpenCL (cache_key, codegen_opencl, OpenCLRuntime::launch_pointwise).    *)
(*                                                                         *)
(* Float arithmetic is symbolic: a register holds the term of C operators  *)
(* that computes it, so equal terms are equal floats whatever exp() does.  *)
(* Literals are numbers with seven decimals, because what cache_key and    *)
(* codegen_opencl do to them is to print them with few digits.             *)
(***************************************************************************)
EXTENDS Integers, Sequences, FiniteSets, SequencesExt

CONSTANTS
  Programs,     \* the programs that are run
  Numel,        \* elements of each tensor
  MaxCached     \* bound: kernels in the cache

ASSUME NumelAssumption == Numel \in Nat \ {0} /\ MaxCached \in Nat

VARIABLES
  cache,        \* jit_kernels_: key -> the program the kernel was compiled from
  last          \* the last call: program, outcome on OpenCL, program that ran

vars == <<cache, last>>

(* A literal: its sign, its whole part and its fraction, in units of 10^-7.*)
(* Left out: infinities, and numbers from MaxWhole + 1 up.                 *)
Parts    == 10000000
MaxWhole == 999999999                   \* bound
Literals == [sign : {1, -1}, whole : 0..MaxWhole, frac : 0..(Parts - 1)]
Number(w, f) == [sign |-> 1, whole |-> w, frac |-> f]
Like(x, w, f) == [sign |-> x.sign, whole |-> w, frac |-> f]
Zero     == Number(0, 0)
One      == Number(1, 0)

Unary    == {"relu", "silu", "neg", "sigmoid"}
Binary   == {"add", "mul"}
Ops      == {"load", "const", "scale"} \cup Unary \cup Binary
None     == [n |-> 0, nodes |-> <<>>]
Throws   == <<"throws">>

(* PointwiseProgram: what the capture or a caller may hand over.           *)
Nodes == [op : Ops, a : Int, b : Int, id : Int, alpha : Literals, c : Literals]
ASSUME ProgramsAssumption == Programs \subseteq [n : Nat, nodes : Seq(Nodes)]

Literal(nd)  == IF nd.op = "const" THEN nd.c ELSE nd.alpha
HasLiteral(nd) == nd.op \in {"const", "add", "scale"}

(* The operands a node reads, as 0-based node indices.                     *)
Reads(nd) == CASE nd.op \in Binary -> {nd.a, nd.b}
               [] nd.op \in Unary \cup {"scale"} -> {nd.a}
               [] OTHER -> {}

-----------------------------------------------------------------------------
(* Printing rounds to the nearest number with the digits shown, and half-  *)
(* way to the even one, as the C library does with what it holds exactly.  *)
RoundsUp(rest, unit, lastDigit) ==
  2 * rest > unit \/ (2 * rest = unit /\ lastDigit % 2 = 1)

(* To a multiple of u in the fraction, which may become a whole.           *)
Carried(x, f) ==
  IF f = Parts THEN Like(x, x.whole + 1, 0) ELSE Like(x, x.whole, f)
RoundFrac(x, u) ==
  LET kept == x.frac \div u
      up   == RoundsUp(x.frac % u, u, IF u = Parts THEN x.whole ELSE kept)
  IN  Carried(x, (IF up THEN kept + 1 ELSE kept) * u)

(* To a multiple of u, ten or more, in the whole part.                     *)
RoundWhole(x, u) ==
  LET kept == x.whole \div u
      up   == RoundsUp(x.whole % u, u, IF x.frac > 0 THEN 1 ELSE kept)
  IN  Like(x, (IF up THEN kept + 1 ELSE kept) * u, 0)

(* std::to_string(float): six decimals.                                    *)
SixDecimals(x) == RoundFrac(x, 10)

(* The place of the sixth digit: in the fraction, or, from 10^6 up, in the *)
(* whole part, which is then followed by an exponent.                      *)
Million == 1000000
Between(n, low, next) == low <= n /\ n < next
FracUnit(x) ==
  CASE x.whole >= 100000 -> Parts
    [] Between(x.whole, 10000, 100000) -> 1000000
    [] Between(x.whole, 1000, 10000) -> 100000
    [] Between(x.whole, 100, 1000) -> 10000
    [] Between(x.whole, 10, 100) -> 1000
    [] Between(x.whole, 1, 10) -> 100
    [] x.whole = 0 /\ x.frac >= Million -> 10
    [] OTHER -> 1
WholeUnit(x) ==
  CASE x.whole < 10 * Million -> 10
    [] Between(x.whole, 10 * Million, 100 * Million) -> 100
    [] OTHER -> 1000

(* oss << float: six significant digits.                                   *)
SixDigits(x) ==
  IF x.whole < Million THEN RoundFrac(x, FracUnit(x)) ELSE RoundWhole(x, WholeUnit(x))

(* Followed by "f" the number is a literal of OpenCL C if it is printed    *)
(* with a point or an exponent: not if it is whole and below a million.    *)
ValidLiteral(x) == SixDigits(x).frac # 0 \/ SixDigits(x).whole >= Million

(* PointwiseProgram::cache_key: every field of every node.                 *)
KeyWithoutAlpha(nd) == [nd EXCEPT !.alpha = Zero, !.c = SixDecimals(@)]    \* faulty
KeyOfNode(nd)       == [nd EXCEPT !.alpha = SixDecimals(@), !.c = SixDecimals(@)]
Key(p) == <<p.n, [v \in DOMAIN p.nodes |-> KeyOfNode(p.nodes[v])]>>

-----------------------------------------------------------------------------
(* The operators of C that both translations of a node are made of.        *)
Value(x)      == <<"literal", x>>
Plus(t, u)    == <<"+", t, u>>
Times(t, u)   == <<"*", t, u>>
Over(t, u)    == <<"/", t, u>>
Minus(t)      == <<"-", t>>
Exp(t)        == <<"exp", t>>
IfPositive(t, u, v) == <<"> 0 ?", t, u, v>>

(* run_pointwise_host: what a node computes from the registers, for        *)
(* element i.                                                              *)
Term(nd, regs, i) ==
  LET x == regs[nd.a + 1]  y == regs[nd.b + 1]
  IN  CASE nd.op = "load"    -> <<"in", nd.id, i>>
        [] nd.op = "const"   -> Value(nd.c)
        [] nd.op = "add"     -> Plus(x, Times(Value(nd.alpha), y))
        [] nd.op = "mul"     -> Times(x, y)
        [] nd.op = "relu"    -> IfPositive(x, x, Value(Zero))
        [] nd.op = "silu"    -> Over(x, Plus(Value(One), Exp(Minus(x))))
        [] nd.op = "neg"     -> Minus(x)
        [] nd.op = "scale"   -> Times(Value(nd.alpha), x)
        [] nd.op = "sigmoid" -> Over(Value(One), Plus(Value(One), Exp(Minus(x))))

(* The registers after all nodes; they were regs.                          *)
Assign(p, r, v, i) == [r EXCEPT ![v] = Term(p.nodes[v], r, i)]
Registers(p, regs, i) ==
  LET R[v \in 0..Len(p.nodes)] == IF v = 0 THEN regs ELSE Assign(p, R[v - 1], v, i)
  IN  R[Len(p.nodes)]

(* TORCH_CHECKs of both backends: there are nodes, and inputs to load.     *)
Accepted(p) ==
  /\ p.nodes # <<>>
  /\ \A v \in DOMAIN p.nodes : p.nodes[v].op = "load" => p.nodes[v].id \in 0..(p.n - 1)

(* run_pointwise_host: one register file for all elements, never cleared.  *)
HostRegs(p) ==
  LET R[i \in 0..Numel] ==
        IF i = 0 THEN [v \in DOMAIN p.nodes |-> Value(Zero)]
                 ELSE Registers(p, R[i - 1], i)
  IN  R

Host(p) ==
  IF Accepted(p) THEN [i \in 1..Numel |-> Last(HostRegs(p)[i])] ELSE Throws

(* codegen_opencl and clBuildProgram: each node declares a variable, so it *)
(* reads only earlier ones; in<k> exists for the inputs only.              *)
Builds(p) ==
  /\ Accepted(p)
  /\ \A v \in DOMAIN p.nodes :
       /\ Reads(p.nodes[v]) \subseteq 0..(v - 2)
       /\ HasLiteral(p.nodes[v]) => ValidLiteral(Literal(p.nodes[v]))

(* The source codegen_opencl prints for a node, as the term it computes    *)
(* from the variables v0, v1, ... of the work-item.                        *)
Printed(x)              == Value(SixDigits(x))
SumSourceSwapped(u, lit, w) == Plus(w, Times(lit, u))          \* faulty
SumSource(u, lit, w)    == Plus(u, Times(lit, w))
ReluSource(u)           == IfPositive(u, u, Value(Zero))
SigmoidSource(num, u)   == Over(num, Plus(Value(One), Exp(Minus(u))))

Source(nd, declared, i) ==
  LET u == declared[nd.a + 1]  w == declared[nd.b + 1]
  IN  CASE nd.op = "load"    -> <<"in", nd.id, i>>
        [] nd.op = "const"   -> Printed(nd.c)
        [] nd.op = "add"     -> SumSource(u, Printed(nd.alpha), w)
        [] nd.op = "mul"     -> Times(u, w)
        [] nd.op = "relu"    -> ReluSource(u)
        [] nd.op = "silu"    -> SigmoidSource(u, u)
        [] nd.op = "neg"     -> Minus(u)
        [] nd.op = "scale"   -> Times(Printed(nd.alpha), u)
        [] nd.op = "sigmoid" -> SigmoidSource(Value(One), u)

(* The compiled kernel: a work-item per element, whose variables are       *)
(* declared one by one; the last one is stored.                            *)
Undeclared(p)       == [v \in DOMAIN p.nodes |-> <<"undeclared">>]
Declare(p, r, v, i) == [r EXCEPT ![v] = Source(p.nodes[v], r, i)]
Variables(p, i) ==
  LET R[v \in 0..Len(p.nodes)] ==
        IF v = 0 THEN Undeclared(p) ELSE Declare(p, R[v - 1], v, i)
  IN  R[Len(p.nodes)]

Kernel(p) == [i \in 1..Numel |-> Last(Variables(p, i))]

-----------------------------------------------------------------------------
Init == cache = <<>> /\ last = [prog |-> None, out |-> Throws, ran |-> None]

Cached(p)      == Key(p) \in DOMAIN cache

Ran(p, q) == last' = [prog |-> p, out |-> Kernel(q), ran |-> q]

With(key, q) == [k \in DOMAIN cache \cup {key} |-> IF k = key THEN q ELSE cache[k]]

NullEntry(p) == None                    \* faulty: inserted before clCreateKernel
Entry(p)     == p

(* launch_pointwise when the kernel is in the cache, and when it is not.   *)
Hit(p) ==
  /\ p.n <= 8 /\ Cached(p)
  /\ Ran(p, cache[Key(p)])
  /\ UNCHANGED cache

Miss(p) ==
  /\ p.n <= 8 /\ ~Cached(p) /\ Builds(p) /\ Cardinality(DOMAIN cache) < MaxCached
  /\ cache' = With(Key(p), Entry(p))
  /\ Ran(p, p)

RefusedButCached(p) ==                  \* faulty: inserted before clBuildProgram
  /\ p.n > 8 \/ (~Cached(p) /\ ~Builds(p))
  /\ last' = [prog |-> p, out |-> Throws, ran |-> None]
  /\ cache' = With(Key(p), p)

(* Too many inputs, or the build fails: an exception, nothing is cached.   *)
Refused(p) ==
  /\ p.n > 8 \/ (~Cached(p) /\ ~Builds(p))
  /\ last' = [prog |-> p, out |-> Throws, ran |-> None]
  /\ UNCHANGED cache

Next == \E p \in Programs : Hit(p) \/ Miss(p) \/ Refused(p)

Spec == Init /\ [][Next]_vars

-----------------------------------------------------------------------------
(* Every cached kernel was compiled from a program that is run, under its  *)
(* own key.                                                                *)
TypeOK ==
  /\ \A k \in DOMAIN cache : cache[k] \in Programs /\ Key(cache[k]) = k
  /\ last.prog \in Programs \cup {None} /\ last.ran \in Programs \cup {None}

(* The cache never holds a kernel whose build failed.                      *)
CachedBuilt == \A k \in DOMAIN cache : Builds(cache[k])

(* Literals at most a millionth apart.                                     *)
Abs(n) == IF n < 0 THEN -n ELSE n
Near(x, y) ==
  /\ x.sign = y.sign /\ x.whole - y.whole \in -1..1
  /\ Abs((x.whole - y.whole) * Parts + (x.frac - y.frac)) <= 10

(* A kernel found in the cache does the operations of the program asked    *)
(* for, on the same inputs and registers, with literals that differ by     *)
(* less than what six decimals can tell.                                   *)
SameShape(p, q) ==
  /\ p.n = q.n /\ Len(p.nodes) = Len(q.nodes)
  /\ \A v \in DOMAIN p.nodes :
       LET x == p.nodes[v]  y == q.nodes[v]
       IN  /\ x.op = y.op /\ Reads(x) = Reads(y)
           /\ x.op = "load" => x.id = y.id
           /\ x.op \in Binary => x.a = y.a
           /\ HasLiteral(x) => Near(Literal(x), Literal(y))

NearKernel == last.out # Throws => SameShape(last.prog, last.ran)

(* Literals above 0.1 with at most six digits: those the key and the       *)
(* generated source both keep. 0.1 itself shares its key with 0.0999995.   *)
PlainLiteral(x) ==
  /\ x.whole > 0 \/ x.frac > Million
  /\ SixDecimals(x) = x /\ SixDigits(x) = x
Plain(p) ==
  \A v \in DOMAIN p.nodes : HasLiteral(p.nodes[v]) => PlainLiteral(Literal(p.nodes[v]))

(* The two backends agree on programs with plain literals, whatever was    *)
(* compiled before: the kernel computes, element by element, what the      *)
(* interpreter computes.                                                   *)
BackendsAgree ==
  Plain(last.prog) /\ last.out # Throws => last.out = Host(last.prog)

(* What the documentation says of the operators: a program over them, with *)
(* at most eight inputs that exist, runs.                                  *)
SupportedRuns ==
  /\ last.prog # None /\ last.prog.n <= 8 /\ Accepted(last.prog)
  => last.out # Throws
=============================================================================
