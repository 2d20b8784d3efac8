------------------------ MODULE PointwiseJit_proofs ------------------------
(***************************************************************************)
(* What is proved of PointwiseJit, for every set of programs and every     *)
(* size of tensor: the cache, which kernel answers a call (KernelNear),    *)
(* and that it computes what the interpreter computes (SameResult). The    *)
(* argument of the last has two halves: PlainKept, that the key and the    *)
(* generated source keep a plain literal, and SameRegisters, that what a   *)
(* register held before does not matter when nodes read earlier ones.      *)
(***************************************************************************)
EXTENDS PointwiseJit, InductionLemmas

(* The sizes literals are made of.                                         *)
LEMMA Sizes == Parts = 10000000 /\ MaxWhole = 999999999 /\ Million = 1000000
BY DEF Parts, MaxWhole, Million

(* Where intervals are concerned a prover is told less, or it enumerates   *)
(* them.                                                                   *)
LEMMA SizesNat == Parts \in Nat /\ MaxWhole \in Nat /\ Million \in Nat /\ Parts > 0
BY DEF Parts, MaxWhole, Million

(* The parts of a literal.                                                 *)
LEMMA LiteralFacts ==
  ASSUME NEW x \in Literals
  PROVE  x.whole \in Nat /\ x.frac \in Nat /\ x.frac < Parts
BY SizesNat, SMT DEF Literals

(* A literal is made of its parts.                                         *)
LEMMA LikeItself ==
  ASSUME NEW x \in Literals
  PROVE  x = Like(x, x.whole, x.frac)
BY SMT DEF Literals, Like

(* The parts of a changed literal.                                         *)
LEMMA LikeParts ==
  ASSUME NEW x, NEW w, NEW m
  PROVE  Like(x, w, m).sign = x.sign /\ Like(x, w, m).whole = w /\ Like(x, w, m).frac = m
BY SMT DEF Like

(* What is printed with six decimals is at most half a unit of the sixth   *)
(* decimal off.                                                            *)
LEMMA PrintingError ==
  ASSUME NEW x \in Literals
  PROVE  LET y == SixDecimals(x)
         IN  /\ y.sign = x.sign /\ y.whole \in Nat /\ y.frac \in Nat /\ y.frac < Parts
             /\ \/ y.whole = x.whole /\ Abs(x.frac - y.frac) <= 5
                \/ y.whole = x.whole + 1 /\ y.frac = 0 /\ x.frac >= Parts - 5
<1>1. x.whole \in Nat /\ x.frac \in Nat /\ x.frac < Parts
  BY LiteralFacts
<1> DEFINE q == x.frac \div 10
           up == RoundsUp(x.frac % 10, 10, q)
           f == (IF up THEN q + 1 ELSE q) * 10
<1>2. /\ f \in Nat /\ f <= Parts /\ Abs(x.frac - f) <= 5
  <2>1. CASE up
    BY <1>1, <2>1, Sizes, SMT DEF RoundsUp, Abs
  <2>2. CASE ~up
    BY <1>1, <2>2, Sizes, SMT DEF RoundsUp, Abs
  <2> QED
    BY <2>1, <2>2, SMT
<1>3. SixDecimals(x) = Carried(x, f)
  <2>1. (10 = Parts) = FALSE
    BY Sizes, SMT
  <2> QED
    BY <2>1, SMT DEF SixDecimals, RoundFrac
<1> HIDE DEF f
<1>4. CASE f = Parts
  <2>1. SixDecimals(x) = Like(x, x.whole + 1, 0)
    BY <1>3, <1>4, SMT DEF Carried
  <2>2. x.frac >= Parts - 5
    BY <1>1, <1>2, <1>4, Sizes, SMT DEF Abs
  <2>3. 0 \in Nat /\ 0 < Parts
    BY Sizes, SMT
  <2> QED
    BY <1>1, <2>1, <2>2, <2>3, LikeParts, SMT
<1>5. CASE f # Parts
  <2>1. SixDecimals(x) = Like(x, x.whole, f)
    BY <1>3, <1>5, SMT DEF Carried
  <2>2. f \in Nat /\ f < Parts
    BY <1>2, <1>5, Sizes, SMT
  <2> QED
    BY <1>1, <1>2, <2>1, <2>2, LikeParts, SMT
<1> QED
  BY <1>4, <1>5, SMT

(* Literals the key does not tell apart differ by one millionth at most.   *)
LEMMA NearLiterals ==
  ASSUME NEW x \in Literals, NEW y \in Literals, SixDecimals(x) = SixDecimals(y)
  PROVE  Near(x, y)
<1> DEFINE z == SixDecimals(x)
<1>1. /\ x.whole \in Nat /\ x.frac \in Nat /\ x.frac < Parts
      /\ y.whole \in Nat /\ y.frac \in Nat /\ y.frac < Parts
  BY LiteralFacts
<1>2. /\ z.sign = x.sign /\ z.whole \in Nat /\ z.frac \in Nat /\ z.frac < Parts
      /\ \/ z.whole = x.whole /\ Abs(x.frac - z.frac) <= 5
         \/ z.whole = x.whole + 1 /\ z.frac = 0 /\ x.frac >= Parts - 5
  BY PrintingError
<1>3. /\ z.sign = y.sign
      /\ \/ z.whole = y.whole /\ Abs(y.frac - z.frac) <= 5
         \/ z.whole = y.whole + 1 /\ z.frac = 0 /\ y.frac >= Parts - 5
  BY PrintingError
<1> HIDE DEF z
<1> QED
  BY <1>1, <1>2, <1>3, Sizes DEF Near, Abs

(* The key of a program: the number of its inputs, the number of its nodes *)
(* and every field of each node.                                           *)
LEMMA KeyFields ==
  ASSUME NEW p \in Programs, NEW q \in Programs, Key(p) = Key(q)
  PROVE  /\ p.n = q.n /\ Len(p.nodes) = Len(q.nodes)
         /\ DOMAIN p.nodes = 1..Len(p.nodes) /\ DOMAIN q.nodes = DOMAIN p.nodes
         /\ \A v \in DOMAIN p.nodes :
              LET x == p.nodes[v]  y == q.nodes[v]
              IN  /\ x \in Nodes /\ y \in Nodes
                  /\ x.op = y.op /\ x.a = y.a /\ x.b = y.b /\ x.id = y.id
                  /\ SixDecimals(x.alpha) = SixDecimals(y.alpha)
                  /\ SixDecimals(x.c) = SixDecimals(y.c)
<1>1. /\ p.nodes \in Seq(Nodes) /\ q.nodes \in Seq(Nodes)
      /\ p.n \in Nat /\ q.n \in Nat
  BY ProgramsAssumption
<1> DEFINE f == [v \in DOMAIN p.nodes |-> KeyOfNode(p.nodes[v])]
           g == [v \in DOMAIN q.nodes |-> KeyOfNode(q.nodes[v])]
<1>2. p.n = q.n /\ f = g
  BY DEF Key
<1>3. DOMAIN p.nodes = DOMAIN q.nodes
  BY <1>2
<1>4. /\ Len(p.nodes) = Len(q.nodes)
      /\ DOMAIN p.nodes = 1..Len(p.nodes)
  BY <1>1, <1>3
<1>5. ASSUME NEW v \in DOMAIN p.nodes
      PROVE  LET x == p.nodes[v]  y == q.nodes[v]
             IN  /\ x \in Nodes /\ y \in Nodes
                 /\ x.op = y.op /\ x.a = y.a /\ x.b = y.b /\ x.id = y.id
                 /\ SixDecimals(x.alpha) = SixDecimals(y.alpha)
                 /\ SixDecimals(x.c) = SixDecimals(y.c)
  <2> DEFINE x == p.nodes[v]  y == q.nodes[v]
  <2>1. x \in Nodes /\ y \in Nodes
    BY <1>1, <1>3, <1>4
  <2>2. KeyOfNode(x) = KeyOfNode(y)
    <3>1. f[v] = g[v]
      BY <1>2
    <3> QED
      BY <1>3, <3>1
  <2>3. \A z \in Nodes :
          LET k == KeyOfNode(z)
          IN  /\ k.op = z.op /\ k.a = z.a /\ k.b = z.b /\ k.id = z.id
              /\ k.alpha = SixDecimals(z.alpha) /\ k.c = SixDecimals(z.c)
    BY DEF KeyOfNode, Nodes
  <2> HIDE DEF x, y
  <2> QED
    BY <2>1, <2>2, <2>3 DEF x, y
<1> QED
  BY <1>2, <1>3, <1>4, <1>5

(* Programs with the same key do the same operations.                      *)
LEMMA SameKeySameShape ==
  ASSUME NEW p \in Programs, NEW q \in Programs, Key(p) = Key(q)
  PROVE  SameShape(p, q)
<1>1. ASSUME NEW v \in DOMAIN p.nodes
      PROVE  LET x == p.nodes[v]  y == q.nodes[v]
             IN  /\ x.op = y.op /\ Reads(x) = Reads(y)
                 /\ x.op = "load" => x.id = y.id
                 /\ x.op \in Binary => x.a = y.a
                 /\ HasLiteral(x) => Near(Literal(x), Literal(y))
  <2> DEFINE x == p.nodes[v]  y == q.nodes[v]
  <2>1. /\ x \in Nodes /\ y \in Nodes
        /\ x.op = y.op /\ x.a = y.a /\ x.b = y.b /\ x.id = y.id
        /\ SixDecimals(x.alpha) = SixDecimals(y.alpha)
        /\ SixDecimals(x.c) = SixDecimals(y.c)
    BY KeyFields
  <2>2. Reads(x) = Reads(y)
    BY <2>1 DEF Reads
  <2>3. Near(Literal(x), Literal(y))
    BY <2>1, NearLiterals DEF Literal, Nodes
  <2> QED
    BY <2>1, <2>2, <2>3
<1> QED
  BY <1>1, KeyFields DEF SameShape

-----------------------------------------------------------------------------
(* TypeOK and CachedBuilt are inductive together.                          *)
CacheInv == TypeOK /\ CachedBuilt

(* No call has been made: nothing is cached.                               *)
LEMMA InitCacheInv == Init => CacheInv /\ NearKernel
BY DEF Init, CacheInv, TypeOK, CachedBuilt, NearKernel

(* A call keeps what is cached under its own key, and adds only a kernel   *)
(* that builds.                                                            *)
LEMMA StepCacheInv == CacheInv /\ [Next]_vars => CacheInv'
<1> SUFFICES ASSUME CacheInv, [Next]_vars PROVE CacheInv'
  OBVIOUS
<1> USE DEF CacheInv, TypeOK, CachedBuilt
<1>1. ASSUME NEW p \in Programs, Hit(p) PROVE CacheInv'
  BY <1>1 DEF Hit, Cached, Ran
<1>2. ASSUME NEW p \in Programs, Miss(p) PROVE CacheInv'
  <2>1. /\ cache' = [k \in DOMAIN cache \cup {Key(p)} |-> IF k = Key(p) THEN p ELSE cache[k]]
        /\ Builds(p) /\ last'.prog = p /\ last'.ran = p
    BY <1>2 DEF Miss, With, Entry, Ran
  <2> QED
    BY <2>1
<1>3. ASSUME NEW p \in Programs, Refused(p) PROVE CacheInv'
  BY <1>3 DEF Refused
<1>4. CASE UNCHANGED vars
  BY <1>4 DEF vars
<1> QED
  BY <1>1, <1>2, <1>3, <1>4 DEF Next

(* Every step leaves behind a kernel that is near the program asked for.   *)
LEMMA StepNearKernel == CacheInv /\ NearKernel /\ [Next]_vars => NearKernel'
<1> SUFFICES ASSUME CacheInv, NearKernel, [Next]_vars PROVE NearKernel'
  OBVIOUS
<1>1. ASSUME NEW p \in Programs, Hit(p) PROVE NearKernel'
  <2>1. cache[Key(p)] \in Programs /\ Key(cache[Key(p)]) = Key(p)
    BY <1>1 DEF Hit, Cached, CacheInv, TypeOK
  <2>2. last'.prog = p /\ last'.ran = cache[Key(p)]
    BY <1>1 DEF Hit, Ran
  <2> QED
    BY <2>1, <2>2, SameKeySameShape DEF NearKernel
<1>2. ASSUME NEW p \in Programs, Miss(p) PROVE NearKernel'
  BY <1>2, SameKeySameShape DEF NearKernel, Miss, Ran
<1>3. ASSUME NEW p \in Programs, Refused(p) PROVE NearKernel'
  BY <1>3 DEF NearKernel, Refused
<1>4. CASE UNCHANGED vars
  BY <1>4 DEF vars, NearKernel
<1> QED
  BY <1>1, <1>2, <1>3, <1>4 DEF Next

(* Cached kernels keep their types and their keys, for any set of programs *)
(* and any calls.                                                          *)
THEOREM Types == Spec => []TypeOK
<1>1. CacheInv => TypeOK
  BY DEF CacheInv
<1>2. Init => CacheInv
  BY InitCacheInv
<1> QED
  BY <1>1, <1>2, StepCacheInv, PTL DEF Spec

(* jit_kernels_ never holds a kernel whose build failed, however often and *)
(* with whatever programs launch_pointwise was called.                     *)
THEOREM OnlyBuiltCached == Spec => []CachedBuilt
<1>1. CacheInv => CachedBuilt
  BY DEF CacheInv
<1>2. Init => CacheInv
  BY InitCacheInv
<1> QED
  BY <1>1, <1>2, StepCacheInv, PTL DEF Spec

(* A kernel taken from the cache does the operations of the program asked  *)
(* for, on literals at most a millionth apart.                             *)
THEOREM KernelNear == Spec => []NearKernel
<1>1. Init => CacheInv /\ NearKernel
  BY InitCacheInv
<1>2. (CacheInv /\ NearKernel) /\ [Next]_vars => (CacheInv /\ NearKernel)'
  BY StepCacheInv, StepNearKernel
<1> QED
  BY <1>1, <1>2, PTL DEF Spec

-----------------------------------------------------------------------------
(* R[v] are the registers after v nodes, of the interpreter and of a       *)
(* work-item.                                                              *)
HostRun(R, p, regs, i) ==
  /\ R[0] = regs
  /\ \A v \in 1..Len(p.nodes) : R[v] = Assign(p, R[v - 1], v, i)
  /\ Registers(p, regs, i) = R[Len(p.nodes)]
KernelRun(R, p, i) ==
  /\ R[0] = Undeclared(p)
  /\ \A v \in 1..Len(p.nodes) : R[v] = Declare(p, R[v - 1], v, i)
  /\ Variables(p, i) = R[Len(p.nodes)]

(* The registers are what the nodes assign one after the other.            *)
LEMMA HostRuns ==
  ASSUME NEW p, Len(p.nodes) \in Nat, NEW regs, NEW i
  PROVE  \E R : HostRun(R, p, regs, i)
<1> DEFINE n == Len(p.nodes)
           Rec(f, k) == f = [v \in 0..k |-> IF v = 0 THEN regs ELSE Assign(p, f[v - 1], v, i)]
           S == {k \in Nat : \E f : Rec(f, k)}
<1>1. 0 \in S
  <2>1. Rec([v \in 0..0 |-> regs], 0)
    OBVIOUS
  <2> QED
    BY <2>1
<1>2. ASSUME NEW k \in Nat, k \in S PROVE k + 1 \in S
  <2>1. PICK f : Rec(f, k)
    BY <1>2
  <2> DEFINE g == [v \in 0..(k + 1) |-> IF v = k + 1 THEN Assign(p, f[k], k + 1, i) ELSE f[v]]
  <2>2. \A v \in 0..k : g[v] = f[v]
    OBVIOUS
  <2>3. \A v \in 0..(k + 1) : g[v] = IF v = 0 THEN regs ELSE Assign(p, g[v - 1], v, i)
    BY <2>1, <2>2
  <2>4. Rec(g, k + 1)
    BY <2>3
  <2> HIDE DEF g, Rec
  <2>5. \E h : Rec(h, k + 1)
    BY <2>4
  <2> QED
    BY <2>5
<1>3. n \in S
  <2> HIDE DEF S
  <2> QED
    BY <1>1, <1>2, SetInduction
<1> DEFINE R == CHOOSE f : Rec(f, n)
<1>4. Rec(R, n)
  BY <1>3
<1>5. Registers(p, regs, i) = R[n]
  BY DEF Registers
<1> HIDE DEF R
<1>6. R[0] = regs /\ \A v \in 1..n : R[v] = Assign(p, R[v - 1], v, i)
  <2>1. \A v \in 0..n : R[v] = IF v = 0 THEN regs ELSE Assign(p, R[v - 1], v, i)
    BY <1>4
  <2>2. 0 \in 0..n /\ \A v \in 1..n : v \in 0..n /\ v # 0
    OBVIOUS
  <2> QED
    BY <2>1, <2>2
<1> QED
  BY <1>5, <1>6 DEF HostRun

(* The variables are what the nodes declare one after the other.           *)
LEMMA KernelRuns ==
  ASSUME NEW p, Len(p.nodes) \in Nat, NEW i
  PROVE  \E R : KernelRun(R, p, i)
<1> DEFINE n == Len(p.nodes)
           none == Undeclared(p)
           Rec(f, k) == f = [v \in 0..k |-> IF v = 0 THEN none ELSE Declare(p, f[v - 1], v, i)]
           S == {k \in Nat : \E f : Rec(f, k)}
<1> HIDE DEF none
<1>1. 0 \in S
  <2>1. Rec([v \in 0..0 |-> none], 0)
    OBVIOUS
  <2> QED
    BY <2>1
<1>2. ASSUME NEW k \in Nat, k \in S PROVE k + 1 \in S
  <2>1. PICK f : Rec(f, k)
    BY <1>2
  <2> DEFINE g == [v \in 0..(k + 1) |-> IF v = k + 1 THEN Declare(p, f[k], k + 1, i) ELSE f[v]]
  <2>2. \A v \in 0..k : g[v] = f[v]
    OBVIOUS
  <2>3. \A v \in 0..(k + 1) : g[v] = IF v = 0 THEN none ELSE Declare(p, g[v - 1], v, i)
    BY <2>1, <2>2
  <2>4. Rec(g, k + 1)
    BY <2>3
  <2> HIDE DEF g, Rec
  <2>5. \E h : Rec(h, k + 1)
    BY <2>4
  <2> QED
    BY <2>5
<1>3. n \in S
  <2> HIDE DEF S
  <2> QED
    BY <1>1, <1>2, SetInduction
<1> DEFINE R == CHOOSE f : Rec(f, n)
<1>4. Rec(R, n)
  BY <1>3
<1>5. Variables(p, i) = R[n]
  BY DEF Variables, none
<1> HIDE DEF R
<1>6. R[0] = none /\ \A v \in 1..n : R[v] = Declare(p, R[v - 1], v, i)
  <2>1. \A v \in 0..n : R[v] = IF v = 0 THEN none ELSE Declare(p, R[v - 1], v, i)
    BY <1>4
  <2>2. 0 \in 0..n /\ \A v \in 1..n : v \in 0..n /\ v # 0
    OBVIOUS
  <2> QED
    BY <2>1, <2>2
<1> QED
  BY <1>5, <1>6 DEF KernelRun, none

-----------------------------------------------------------------------------
(* The units six digits are rounded to, from two decimals shown fewer than *)
(* the key keeps.                                                          *)
Units == {100, 1000, 10000, 100000, Million, Parts}

(* Rounding goes down below half a unit and up above it.                   *)
LEMMA Rounds ==
  ASSUME NEW rest \in Nat, NEW unit \in Nat, NEW digit
  PROVE  /\ 2 * rest < unit => ~RoundsUp(rest, unit, digit)
         /\ 2 * rest > unit => RoundsUp(rest, unit, digit)
BY DEF RoundsUp

(* A fraction near a multiple of the unit is rounded to it.                *)
LEMMA RoundFracNear ==
  ASSUME NEW y \in Literals, NEW u \in Units, NEW a \in Nat, a <= Parts, a % u = 0,
         y.frac - a \in -5..5
  PROVE  RoundFrac(y, u) = Carried(y, a)
<1>1. y.frac \in Nat /\ y.frac < Parts /\ a \in Nat
  BY LiteralFacts, Sizes
<1> DEFINE b == y.frac
           kept == b \div u
           up == RoundsUp(b % u, u, IF u = Parts THEN y.whole ELSE kept)
<1>2. RoundFrac(y, u) = Carried(y, (IF up THEN kept + 1 ELSE kept) * u)
  BY DEF RoundFrac
<1>3. b \in Nat /\ b - a \in -5..5
  BY <1>1
<1>4. CASE b >= a
  <2>1. kept * u = a /\ b % u <= 5 /\ b % u \in Nat
    <3> HIDE DEF b
    <3> QED
      BY <1>1, <1>3, <1>4, Sizes DEF Units
  <2>2. ~up
    <3> HIDE DEF b, kept
    <3> QED
      BY <2>1, Sizes DEF RoundsUp, Units
  <2> QED
    BY <1>2, <2>1, <2>2
<1>5. CASE b < a
  <2>1. (kept + 1) * u = a /\ b % u >= u - 5 /\ b % u \in Nat
    <3> HIDE DEF b
    <3> QED
      BY <1>1, <1>3, <1>5, Sizes DEF Units
  <2>2. up
    <3> HIDE DEF b, kept
    <3> QED
      BY <2>1, Sizes DEF RoundsUp, Units
  <2> QED
    BY <1>2, <2>1, <2>2
<1> QED
  BY <1>1, <1>4, <1>5

(* What rounding to six digits leaves as it was is a multiple of the unit. *)
LEMMA FracMultiple ==
  ASSUME NEW x \in Literals, NEW u \in Units \cup {10}, RoundFrac(x, u) = x
  PROVE  x.frac % u = 0
<1> DEFINE kept == x.frac \div u
           up == RoundsUp(x.frac % u, u, IF u = Parts THEN x.whole ELSE kept)
           f == (IF up THEN kept + 1 ELSE kept) * u
<1>1. RoundFrac(x, u) = Carried(x, f)
  BY DEF RoundFrac
<1>2. f % u = 0
  <2>1. kept \in Nat
    BY LiteralFacts, Sizes DEF Units
  <2> DEFINE m == IF up THEN kept + 1 ELSE kept
  <2>2. m \in Nat
    BY <2>1
  <2> HIDE DEF kept, m
  <2>3. (m * u) % u = 0
    BY <2>2, Sizes DEF Units
  <2> QED
    BY <2>3 DEF m
<1> HIDE DEF f
<1>3. CASE f = Parts
  <2>1. RoundFrac(x, u) = Like(x, x.whole + 1, 0)
    BY <1>1, <1>3, SMT DEF Carried
  <2>2. RoundFrac(x, u).whole = x.whole + 1 /\ x.whole \in Nat
    BY <2>1, LikeParts, LiteralFacts, SMT
  <2> QED
    BY <2>2, SMT
<1>4. CASE f # Parts
  <2>1. RoundFrac(x, u) = Like(x, x.whole, f)
    BY <1>1, <1>4, SMT DEF Carried
  <2> QED
    BY <1>2, <2>1, LikeParts, SMT
<1> QED
  BY <1>3, <1>4

(* The place of the sixth digit below a million.                           *)
LEMMA FracUnits ==
  ASSUME NEW x \in Literals
  PROVE  /\ x.whole > 0 => FracUnit(x) \in Units
         /\ x.whole = 0 /\ x.frac >= Million => FracUnit(x) = 10
         /\ \A y \in Literals : x.whole > 0 /\ y.whole = x.whole => FracUnit(y) = FracUnit(x)
<1>1. x.whole \in Nat
  BY LiteralFacts
<1>2. x.whole > 0 => FracUnit(x) \in Units
  BY <1>1, Sizes DEF FracUnit, Between, Units
<1>3. x.whole = 0 /\ x.frac >= Million => FracUnit(x) = 10
  BY LiteralFacts, Sizes DEF FracUnit, Between
<1>4. \A y \in Literals : x.whole > 0 /\ y.whole = x.whole => FracUnit(y) = FracUnit(x)
  BY <1>1 DEF FracUnit, Between
<1> QED
  BY <1>2, <1>3, <1>4

(* From a million up: a whole that is a multiple of the unit stays, and    *)
(* what is a little less than it becomes it.                               *)
LEMMA WholeKept ==
  ASSUME NEW x \in Literals, NEW y \in Literals, y.whole >= Million, y.sign = x.sign,
         SixDigits(x) = x,
         \/ x.whole = y.whole
         \/ x.whole = y.whole + 1 /\ x.frac = 0
  PROVE  SixDigits(y) = x
<1>a. /\ x.whole \in Nat /\ y.whole \in Nat /\ x.whole >= Million
      /\ x.whole >= y.whole
  BY LiteralFacts, Sizes, SMT
<1>1. /\ x.whole \in Nat /\ y.whole \in Nat /\ x.whole >= Million
      /\ WholeUnit(x) \in {10, 100, 1000} /\ WholeUnit(y) \in {10, 100, 1000}
      /\ WholeUnit(y) <= WholeUnit(x)
  BY <1>a, Sizes, SMT DEF WholeUnit, Between
<1> DEFINE u == WholeUnit(x)
           w == WholeUnit(y)
<1>2. RoundWhole(x, u) = x /\ SixDigits(y) = RoundWhole(y, w)
  BY <1>1, Sizes DEF SixDigits
<1> HIDE DEF u, w
<1>3. x.frac = 0 /\ x.whole % u = 0
  <2> DEFINE kept == x.whole \div u
             up == RoundsUp(x.whole % u, u, IF x.frac > 0 THEN 1 ELSE kept)
             m == IF up THEN kept + 1 ELSE kept
  <2>1. x = Like(x, m * u, 0)
    BY <1>2, SMT DEF RoundWhole
  <2>2. x.whole = m * u /\ x.frac = 0
    <3> HIDE DEF m
    <3> QED
      BY <2>1, LikeParts, SMT
  <2>3. m \in Nat
    BY <1>1 DEF u
  <2> HIDE DEF m
  <2> QED
    BY <1>1, <2>2, <2>3 DEF u
<1>4. x.whole % w = 0
  <2>1. x.whole \in Nat /\ u \in {10, 100, 1000} /\ w \in {10, 100, 1000} /\ w <= u
    BY <1>1 DEF u, w
  <2>2. CASE u = w
    BY <1>3, <2>2
  <2>3. CASE w = 10
    BY <1>3, <2>1, <2>3
  <2>4. CASE w = 100 /\ u = 1000
    BY <1>3, <2>1, <2>4
  <2> QED
    BY <2>1, <2>2, <2>3, <2>4
<1> DEFINE kept == y.whole \div w
           up == RoundsUp(y.whole % w, w, IF y.frac > 0 THEN 1 ELSE kept)
           m == IF up THEN kept + 1 ELSE kept
<1>5. m * w = x.whole
  <2>1. CASE x.whole = y.whole
    <3>1. y.whole % w = 0 /\ kept * w = y.whole
      BY <1>1, <1>4, <2>1 DEF w
    <3>2. ~up
      BY <1>1, <3>1, Rounds DEF w
    <3> QED
      BY <2>1, <3>1, <3>2
  <2>2. CASE x.whole = y.whole + 1
    <3>1. y.whole % w = w - 1 /\ (kept + 1) * w = x.whole
      BY <1>1, <1>4, <2>2 DEF w
    <3>2. up
      BY <1>1, <3>1, Rounds DEF w
    <3> QED
      BY <2>2, <3>1, <3>2
  <2> QED
    BY <2>1, <2>2
<1>6. SixDigits(y) = Like(y, m * w, 0)
  BY <1>2, SMT DEF RoundWhole
<1> HIDE DEF m
<1>7. Like(y, x.whole, 0) = Like(x, x.whole, 0)
  BY DEF Like
<1> QED
  BY <1>3, <1>5, <1>6, <1>7, LikeItself, SMT

(* A plain literal survives: any literal with its key is printed as it.    *)
LEMMA PlainKept ==
  ASSUME NEW x \in Literals, NEW y \in Literals, PlainLiteral(x),
         SixDecimals(x) = SixDecimals(y)
  PROVE  SixDigits(y) = x
<1>1. /\ x.whole > 0 \/ x.frac > Million
      /\ SixDecimals(x) = x /\ SixDigits(x) = x /\ SixDecimals(y) = x
  BY DEF PlainLiteral
<1>2. /\ x.whole \in Nat /\ x.frac \in Nat /\ x.frac < Parts
      /\ y.whole \in Nat /\ y.frac \in Nat /\ y.frac < Parts
  BY LiteralFacts
<1>3. /\ x.sign = y.sign
      /\ \/ x.whole = y.whole /\ Abs(y.frac - x.frac) <= 5
         \/ x.whole = y.whole + 1 /\ x.frac = 0 /\ y.frac >= Parts - 5
  BY <1>1, PrintingError
<1>4. x.frac % 10 = 0
  BY <1>1, FracMultiple DEF SixDecimals
<1>5. CASE y.whole >= Million
  BY <1>1, <1>3, <1>5, WholeKept
<1>6. CASE y.whole < Million
  <2>1. SixDigits(y) = RoundFrac(y, FracUnit(y))
    BY <1>6 DEF SixDigits
  <2>2. CASE y.whole = 0
    <3>1. y.frac >= Million
      BY <1>1, <1>2, <1>3, <1>4, <2>2, Sizes DEF Abs
    <3>2. FracUnit(y) = 10
      BY <2>2, <3>1, FracUnits
    <3> QED
      BY <1>1, <2>1, <3>2 DEF SixDecimals
  <2>3. CASE y.whole > 0
    <3> DEFINE u == FracUnit(y)
    <3>1. u \in Units
      BY <2>3, FracUnits
    <3> HIDE DEF u
    <3>2. CASE x.whole = y.whole
      <4>1. RoundFrac(x, u) = x
        BY <1>1, <1>6, <2>3, <3>2, FracUnits DEF SixDigits, u
      <4>2. x.frac % u = 0
        BY <3>1, <4>1, FracMultiple
      <4>3. y.frac - x.frac \in -5..5 /\ x.frac <= Parts
        <5>1. Abs(y.frac - x.frac) <= 5
          BY <1>2, <1>3, <3>2
        <5>2. x.frac <= Parts
          BY <1>2, SizesNat
        <5> DEFINE d == y.frac - x.frac
        <5>3. d \in Int
          BY <1>2
        <5>4. Abs(d) <= 5
          BY <5>1
        <5> HIDE DEF d
        <5>5. d \in -5..5
          BY <5>3, <5>4 DEF Abs
        <5> QED
          BY <5>2, <5>5 DEF d
      <4>4. RoundFrac(y, u) = Carried(y, x.frac)
        BY <1>2, <3>1, <4>2, <4>3, RoundFracNear
      <4>5. Carried(y, x.frac) = Like(y, y.whole, x.frac)
        BY <1>2, SMT DEF Carried
      <4>6. Like(y, y.whole, x.frac) = Like(x, x.whole, x.frac)
        BY <1>3, <3>2 DEF Like
      <4> QED
        BY <2>1, <4>4, <4>5, <4>6, LikeItself DEF u
    <3>3. CASE x.whole = y.whole + 1
      <4>1. x.frac = 0 /\ y.frac - Parts \in -5..5 /\ Parts <= Parts /\ Parts \in Nat
        BY <1>2, <1>3, <3>3, Sizes
      <4>2. Parts % u = 0
        BY <3>1, Sizes DEF Units
      <4>3. RoundFrac(y, u) = Carried(y, Parts)
        BY <3>1, <4>1, <4>2, RoundFracNear
      <4>4. Carried(y, Parts) = Like(y, y.whole + 1, 0)
        BY DEF Carried
      <4>5. Like(y, y.whole + 1, 0) = Like(x, x.whole, x.frac)
        BY <1>3, <3>3, <4>1 DEF Like
      <4> QED
        BY <2>1, <4>3, <4>4, <4>5, LikeItself DEF u
    <3> QED
      BY <1>3, <3>2, <3>3
  <2> QED
    BY <1>2, <2>2, <2>3
<1> QED
  BY <1>2, <1>5, <1>6, Sizes

-----------------------------------------------------------------------------
(* The operands a node reads.                                              *)
LEMMA ReadsFacts ==
  ASSUME NEW x
  PROVE  /\ x.op \in Unary \cup {"scale"} => Reads(x) = {x.a}
         /\ x.op \in Binary => Reads(x) = {x.a, x.b}
<1>1. x.op \in Unary \cup {"scale"} => ~(x.op \in Binary)
  BY DEF Unary, Binary
<1> QED
  BY <1>1 DEF Reads

(* A function changed at one argument.                                     *)
LEMMA Update ==
  ASSUME NEW f, NEW g, NEW w, w \in DOMAIN f, NEW e, g = [f EXCEPT ![w] = e]
  PROVE  g[w] = e /\ \A u \in DOMAIN f : u # w => g[u] = f[u]
OBVIOUS

(* A node is printed as what the interpreter computes, if the operands and *)
(* the literal are the same.                                               *)
LEMMA TermAgrees ==
  ASSUME NEW x \in Nodes, NEW y \in Nodes,
         x.op = y.op, x.a = y.a, x.b = y.b, x.id = y.id,
         HasLiteral(x) => SixDigits(Literal(y)) = Literal(x),
         NEW r, NEW s, NEW i, \A j \in Reads(x) : r[j + 1] = s[j + 1]
  PROVE  Term(x, r, i) = Source(y, s, i)
<1>1. x.op \in Ops
  BY DEF Nodes
<1>2. CASE x.op = "load"
  BY <1>2 DEF Term, Source
<1>3. CASE x.op = "const"
  <2>1. SixDigits(y.c) = x.c
    BY <1>3 DEF HasLiteral, Literal
  <2>2. Term(x, r, i) = Value(x.c) /\ Source(y, s, i) = Value(SixDigits(y.c))
    BY <1>3 DEF Term, Source, Printed
  <2> QED
    BY <2>1, <2>2
<1>4. CASE x.op = "add"
  <2>1. Reads(x) = {x.a, x.b}
    BY <1>4, ReadsFacts DEF Binary
  <2>2. r[x.a + 1] = s[y.a + 1] /\ r[x.b + 1] = s[y.b + 1] /\ SixDigits(y.alpha) = x.alpha
    BY <1>4, <2>1 DEF HasLiteral, Literal
  <2>3. /\ Term(x, r, i) = Plus(r[x.a + 1], Times(Value(x.alpha), r[x.b + 1]))
        /\ Source(y, s, i)
             = Plus(s[y.a + 1], Times(Value(SixDigits(y.alpha)), s[y.b + 1]))
    BY <1>4 DEF Term, Source, SumSource, Printed
  <2> QED
    BY <2>2, <2>3
<1>5. CASE x.op = "mul"
  <2>1. Reads(x) = {x.a, x.b}
    BY <1>5, ReadsFacts DEF Binary
  <2>2. r[x.a + 1] = s[y.a + 1] /\ r[x.b + 1] = s[y.b + 1]
    BY <2>1
  <2>3. /\ Term(x, r, i) = Times(r[x.a + 1], r[x.b + 1])
        /\ Source(y, s, i) = Times(s[y.a + 1], s[y.b + 1])
    BY <1>5 DEF Term, Source
  <2> QED
    BY <2>2, <2>3
<1>6. CASE x.op = "scale"
  <2>1. Reads(x) = {x.a}
    BY <1>6, ReadsFacts
  <2>2. r[x.a + 1] = s[y.a + 1] /\ SixDigits(y.alpha) = x.alpha
    BY <1>6, <2>1 DEF HasLiteral, Literal
  <2>3. /\ Term(x, r, i) = Times(Value(x.alpha), r[x.a + 1])
        /\ Source(y, s, i) = Times(Value(SixDigits(y.alpha)), s[y.a + 1])
    BY <1>6 DEF Term, Source, Printed
  <2> QED
    BY <2>2, <2>3
<1>7. CASE x.op \in Unary
  <2>1. Reads(x) = {x.a}
    BY <1>7, ReadsFacts
  <2>2. r[x.a + 1] = s[y.a + 1]
    BY <2>1
  <2> DEFINE u == r[x.a + 1]
             w == s[y.a + 1]
  <2>3. CASE x.op = "relu"
    <3>1. Term(x, r, i) = IfPositive(u, u, Value(Zero))
      BY <2>3 DEF Term
    <3>2. Source(y, s, i) = IfPositive(w, w, Value(Zero))
      BY <2>3 DEF Source, ReluSource
    <3> QED
      BY <2>2, <3>1, <3>2
  <2>4. CASE x.op = "silu"
    <3>1. Term(x, r, i) = Over(u, Plus(Value(One), Exp(Minus(u))))
      BY <2>4 DEF Term
    <3>2. Source(y, s, i) = Over(w, Plus(Value(One), Exp(Minus(w))))
      BY <2>4 DEF Source, SigmoidSource
    <3> QED
      BY <2>2, <3>1, <3>2
  <2>5. CASE x.op = "neg"
    <3>1. Term(x, r, i) = Minus(u) /\ Source(y, s, i) = Minus(w)
      BY <2>5 DEF Term, Source
    <3> QED
      BY <2>2, <3>1
  <2>6. CASE x.op = "sigmoid"
    <3>1. Term(x, r, i) = Over(Value(One), Plus(Value(One), Exp(Minus(u))))
      BY <2>6 DEF Term
    <3>2. Source(y, s, i) = Over(Value(One), Plus(Value(One), Exp(Minus(w))))
      BY <2>6 DEF Source, SigmoidSource
    <3> QED
      BY <2>2, <3>1, <3>2
  <2> QED
    BY <1>7, <2>3, <2>4, <2>5, <2>6 DEF Unary
<1> QED
  BY <1>1, <1>2, <1>3, <1>4, <1>5, <1>6, <1>7 DEF Ops, Binary

(* A register file of n registers.                                         *)
File(r, n) == r = [v \in 1..n |-> r[v]]

(* The literals printed in the kernel of q are those of p.                 *)
LiteralsKept(p, q) ==
  \A v \in DOMAIN p.nodes :
    HasLiteral(p.nodes[v]) => SixDigits(Literal(q.nodes[v])) = Literal(p.nodes[v])

(* When each node reads only earlier ones, what the registers held before  *)
(* does not matter: the interpreter leaves in them what a work-item leaves *)
(* in its variables.                                                       *)
LEMMA SameRegisters ==
  ASSUME NEW p \in Programs, NEW q \in Programs, Key(p) = Key(q), Builds(q),
         LiteralsKept(p, q), NEW regs, File(regs, Len(p.nodes)), NEW i
  PROVE  /\ Registers(p, regs, i) = Variables(q, i)
         /\ File(Registers(p, regs, i), Len(p.nodes))
<1> DEFINE n == Len(p.nodes)
<1>1. n \in Nat /\ Len(q.nodes) = n /\ DOMAIN p.nodes = 1..n /\ DOMAIN q.nodes = 1..n
  BY KeyFields, ProgramsAssumption
<1> HIDE DEF n
<1>2. PICK R : HostRun(R, p, regs, i)
  BY <1>1, HostRuns, SMTT(20) DEF n
<1>3. PICK S : KernelRun(S, q, i)
  BY <1>1, KernelRuns
<1> DEFINE Agree(k) == File(R[k], n) /\ File(S[k], n) /\ \A u \in 1..k : R[k][u] = S[k][u]
           K == {k \in Nat : k <= n => Agree(k)}
<1>4. Agree(0)
  <2>1. R[0] = regs /\ S[0] = Undeclared(q)
    BY <1>2, <1>3 DEF HostRun, KernelRun
  <2>2. File(Undeclared(q), n)
    BY <1>1 DEF File, Undeclared
  <2> QED
    BY <2>1, <2>2 DEF n
<1>5. ASSUME NEW k \in Nat, k + 1 <= n, Agree(k) PROVE Agree(k + 1)
  <2> DEFINE x == p.nodes[k + 1]
             y == q.nodes[k + 1]
  <2>1. k + 1 \in 1..n /\ (k + 1) - 1 = k
    BY <1>1, <1>5
  <2>2. /\ R[k + 1] = [R[k] EXCEPT ![k + 1] = Term(x, R[k], i)]
        /\ S[k + 1] = [S[k] EXCEPT ![k + 1] = Source(y, S[k], i)]
    <3>1. R[k + 1] = Assign(p, R[(k + 1) - 1], k + 1, i)
      BY <1>2, <2>1 DEF HostRun, n
    <3>2. S[k + 1] = Declare(q, S[(k + 1) - 1], k + 1, i)
      BY <1>1, <1>3, <2>1 DEF KernelRun
    <3> QED
      BY <2>1, <3>1, <3>2 DEF Assign, Declare
  <2>3. /\ x \in Nodes /\ y \in Nodes
        /\ x.op = y.op /\ x.a = y.a /\ x.b = y.b /\ x.id = y.id
    BY <1>1, <2>1, KeyFields
  <2>4. Reads(x) = Reads(y) /\ Reads(y) \subseteq 0..((k + 1) - 2)
    BY <1>1, <2>1, <2>3 DEF Builds, Reads
  <2>5. \A j \in Reads(x) : R[k][j + 1] = S[k][j + 1]
    BY <1>5, <2>4
  <2>6. HasLiteral(x) => SixDigits(Literal(y)) = Literal(x)
    BY <1>1, <2>1 DEF LiteralsKept
  <2> HIDE DEF x, y
  <2>7. Term(x, R[k], i) = Source(y, S[k], i)
    BY <2>3, <2>5, <2>6, TermAgrees
  <2>8. File(R[k + 1], n) /\ File(S[k + 1], n)
    BY <1>5, <2>2 DEF File
  <2>9. ASSUME NEW u \in 1..(k + 1) PROVE R[k + 1][u] = S[k + 1][u]
    <3>1. u \in 1..n /\ (u # k + 1 => u \in 1..k)
      BY <1>1, <2>1
    <3>2. DOMAIN R[k] = 1..n /\ DOMAIN S[k] = 1..n
      BY <1>5 DEF File
    <3>3. k + 1 \in DOMAIN R[k] /\ k + 1 \in DOMAIN S[k]
      BY <2>1, <3>2
    <3>4. R[k + 1][k + 1] = S[k + 1][k + 1]
      BY <2>2, <2>7, <3>3, Update
    <3>5. u # k + 1 => R[k + 1][u] = R[k][u] /\ S[k + 1][u] = S[k][u]
      BY <2>2, <3>1, <3>2, <3>3, Update
    <3>6. u # k + 1 => R[k][u] = S[k][u]
      BY <1>5, <3>1
    <3> QED
      BY <3>4, <3>5, <3>6
  <2> QED
    BY <2>8, <2>9
<1> HIDE DEF Agree
<1>6. n \in K
  <2>1. 0 \in K
    BY <1>4
  <2>2. \A k \in Nat : k \in K => k + 1 \in K
    BY <1>1, <1>5
  <2> HIDE DEF K
  <2> QED
    BY <1>1, <2>1, <2>2, SetInduction
<1>7. Agree(n)
  BY <1>1, <1>6
<1>8. R[n] = S[n] /\ File(R[n], n)
  BY <1>7 DEF Agree, File
<1>9. Registers(p, regs, i) = R[n] /\ Variables(q, i) = S[n]
  BY <1>1, <1>2, <1>3 DEF n, HostRun, KernelRun
<1> QED
  BY <1>8, <1>9 DEF n

(* The interpreter's register file after each element.                     *)
LEMMA HostElements ==
  ASSUME NEW p
  PROVE  /\ HostRegs(p)[0] = [v \in DOMAIN p.nodes |-> Value(Zero)]
         /\ \A i \in 1..Numel :
              HostRegs(p)[i] = Registers(p, HostRegs(p)[i - 1], i)
<1> DEFINE first == [v \in DOMAIN p.nodes |-> Value(Zero)]
           Rec(f, k) == f = [i \in 0..k |-> IF i = 0 THEN first
                                   ELSE Registers(p, f[i - 1], i)]
           S == {k \in Nat : \E f : Rec(f, k)}
<1> HIDE DEF first
<1>1. 0 \in S
  <2>1. Rec([i \in 0..0 |-> first], 0)
    OBVIOUS
  <2> QED
    BY <2>1
<1>2. ASSUME NEW k \in Nat, k \in S PROVE k + 1 \in S
  <2>1. PICK f : Rec(f, k)
    BY <1>2
  <2> DEFINE g == [i \in 0..(k + 1) |->
                     IF i = k + 1 THEN Registers(p, f[k], k + 1) ELSE f[i]]
  <2>2. \A i \in 0..k : g[i] = f[i]
    OBVIOUS
  <2>3. \A i \in 0..(k + 1) :
          g[i] = IF i = 0 THEN first ELSE Registers(p, g[i - 1], i)
    BY <2>1, <2>2
  <2>4. Rec(g, k + 1)
    BY <2>3
  <2> HIDE DEF g, Rec
  <2>5. \E h : Rec(h, k + 1)
    BY <2>4
  <2> QED
    BY <2>5
<1>3. Numel \in S
  <2> HIDE DEF S
  <2> QED
    BY <1>1, <1>2, SetInduction, NumelAssumption
<1> DEFINE R == CHOOSE f : Rec(f, Numel)
<1>4. Rec(R, Numel)
  BY <1>3
<1>5. HostRegs(p) = R
  BY DEF HostRegs, first
<1> HIDE DEF R
<1>6. R[0] = first /\ \A i \in 1..Numel : R[i] = Registers(p, R[i - 1], i)
  <2>1. \A i \in 0..Numel :
          R[i] = IF i = 0 THEN first ELSE Registers(p, R[i - 1], i)
    BY <1>4
  <2>2. 0 \in 0..Numel /\ \A i \in 1..Numel : i \in 0..Numel /\ i # 0
    BY NumelAssumption
  <2> QED
    BY <2>1, <2>2
<1> QED
  BY <1>5, <1>6 DEF first

-----------------------------------------------------------------------------
(* The literals the kernel of q was printed with are those of p, if p has  *)
(* q's key and plain literals.                                             *)
LEMMA SameLiterals ==
  ASSUME NEW p \in Programs, NEW q \in Programs, Key(p) = Key(q), Plain(p)
  PROVE  LiteralsKept(p, q)
<1> SUFFICES ASSUME NEW v \in DOMAIN p.nodes, HasLiteral(p.nodes[v])
             PROVE  SixDigits(Literal(q.nodes[v])) = Literal(p.nodes[v])
  BY DEF LiteralsKept
<1> DEFINE x == p.nodes[v]
           y == q.nodes[v]
<1>1. /\ x \in Nodes /\ y \in Nodes /\ x.op = y.op
      /\ SixDecimals(x.alpha) = SixDecimals(y.alpha)
      /\ SixDecimals(x.c) = SixDecimals(y.c)
  BY KeyFields
<1>2. PlainLiteral(Literal(x))
  BY DEF Plain
<1> HIDE DEF x, y
<1>3. /\ Literal(x) \in Literals /\ Literal(y) \in Literals
      /\ SixDecimals(Literal(x)) = SixDecimals(Literal(y))
  BY <1>1 DEF Literal, Nodes
<1>4. SixDigits(Literal(y)) = Literal(x)
  BY <1>2, <1>3, PlainKept
<1> QED
  BY <1>4 DEF x, y

(* The kernel compiled from q computes what the interpreter computes from  *)
(* p: the interpreter starts an element with the registers of the one      *)
(* before it, a work-item with none, but none of them is read.             *)
LEMMA KernelIsHost ==
  ASSUME NEW p \in Programs, NEW q \in Programs, Key(p) = Key(q), Plain(p), Builds(q)
  PROVE  Kernel(q) = Host(p)
<1> DEFINE n == Len(p.nodes)
           H == HostRegs(p)
           K == {i \in Nat : i <= Numel => File(H[i], n)}
<1>1. n \in Nat /\ Len(q.nodes) = n /\ DOMAIN p.nodes = 1..n /\ DOMAIN q.nodes = 1..n
  BY KeyFields, ProgramsAssumption
<1>2. /\ H[0] = [v \in DOMAIN p.nodes |-> Value(Zero)]
      /\ \A i \in 1..Numel : H[i] = Registers(p, H[i - 1], i)
  BY HostElements
<1> HIDE DEF n, H
<1>3. ASSUME NEW i \in 1..Numel, File(H[i - 1], n)
      PROVE  H[i] = Variables(q, i) /\ File(H[i], n)
  <2>1. LiteralsKept(p, q)
    BY SameLiterals
  <2>2. H[i] = Registers(p, H[i - 1], i)
    BY <1>2
  <2>3. File(H[i - 1], Len(p.nodes))
    BY <1>3 DEF n
  <2>4. /\ Registers(p, H[i - 1], i) = Variables(q, i)
        /\ File(Registers(p, H[i - 1], i), Len(p.nodes))
    BY <2>1, <2>3, SameRegisters
  <2> QED
    BY <2>2, <2>4 DEF n
<1>4. \A i \in Nat : i \in K
  <2>1. 0 \in K
    BY <1>1, <1>2 DEF File
  <2>2. ASSUME NEW i \in Nat, i \in K PROVE i + 1 \in K
    <3>1. SUFFICES ASSUME i + 1 <= Numel PROVE File(H[i + 1], n)
      OBVIOUS
    <3>2. i + 1 \in 1..Numel /\ (i + 1) - 1 = i /\ File(H[i], n)
      BY <2>2, <3>1, NumelAssumption
    <3> QED
      BY <1>3, <3>2
  <2> HIDE DEF K
  <2> QED
    BY <2>1, <2>2, SetInduction
<1>5. \A i \in 1..Numel : H[i] = Variables(q, i)
  <2> SUFFICES ASSUME NEW i \in 1..Numel PROVE H[i] = Variables(q, i)
    OBVIOUS
  <2>1. i - 1 \in K /\ i - 1 <= Numel
    BY <1>4, NumelAssumption
  <2> QED
    BY <1>3, <2>1
<1>6. Accepted(p)
  <2>1. p.nodes # <<>>
    <3>1. q.nodes # <<>> /\ p.nodes \in Seq(Nodes) /\ q.nodes \in Seq(Nodes)
      BY ProgramsAssumption DEF Builds, Accepted
    <3> QED
      BY <1>1, <3>1 DEF n
  <2>2. ASSUME NEW v \in DOMAIN p.nodes, p.nodes[v].op = "load"
        PROVE  p.nodes[v].id \in 0..(p.n - 1)
    BY <2>2, KeyFields DEF Builds, Accepted
  <2> QED
    BY <2>1, <2>2 DEF Accepted
<1> QED
  BY <1>5, <1>6 DEF Kernel, Host, H

-----------------------------------------------------------------------------
(* A call that does not throw ran a kernel that builds and has the key of  *)
(* the program asked for.                                                  *)
RanInv ==
  last.out # Throws =>
    /\ last.prog \in Programs /\ last.ran \in Programs
    /\ Key(last.prog) = Key(last.ran)
    /\ Builds(last.ran)
    /\ last.out = Kernel(last.ran)

(* Every step keeps RanInv, given what the cache holds.                    *)
LEMMA StepRanInv == CacheInv /\ RanInv /\ [Next]_vars => RanInv'
<1> SUFFICES ASSUME CacheInv, RanInv, [Next]_vars PROVE RanInv'
  OBVIOUS
<1>1. ASSUME NEW p \in Programs, Hit(p) PROVE RanInv'
  <2>1. /\ cache[Key(p)] \in Programs /\ Key(cache[Key(p)]) = Key(p)
        /\ Builds(cache[Key(p)])
    BY <1>1 DEF Hit, Cached, CacheInv, TypeOK, CachedBuilt
  <2>2. /\ last'.prog = p /\ last'.ran = cache[Key(p)]
        /\ last'.out = Kernel(cache[Key(p)])
    BY <1>1 DEF Hit, Ran
  <2> QED
    BY <2>1, <2>2 DEF RanInv
<1>2. ASSUME NEW p \in Programs, Miss(p) PROVE RanInv'
  <2>1. Builds(p) /\ last'.prog = p /\ last'.ran = p /\ last'.out = Kernel(p)
    BY <1>2 DEF Miss, Ran
  <2> QED
    BY <2>1 DEF RanInv
<1>3. ASSUME NEW p \in Programs, Refused(p) PROVE RanInv'
  BY <1>3 DEF RanInv, Refused
<1>4. CASE UNCHANGED vars
  BY <1>4 DEF vars, RanInv
<1> QED
  BY <1>1, <1>2, <1>3, <1>4 DEF Next

(* On programs with plain literals the compiled, cached kernel and the     *)
(* interpreter give the same result, element by element: for any set of    *)
(* programs, of any length, on tensors of any size, whatever was compiled  *)
(* before.                                                                 *)
THEOREM SameResult == Spec => []BackendsAgree
<1>1. Init => CacheInv /\ RanInv
  BY InitCacheInv DEF Init, RanInv
<1>2. (CacheInv /\ RanInv) /\ [Next]_vars => (CacheInv /\ RanInv)'
  BY StepCacheInv, StepRanInv
<1>3. RanInv => BackendsAgree
  <2> SUFFICES ASSUME RanInv, Plain(last.prog), last.out # Throws
               PROVE  last.out = Host(last.prog)
    BY DEF BackendsAgree
  <2> QED
    BY KernelIsHost DEF RanInv
<1> QED
  BY <1>1, <1>2, <1>3, PTL DEF Spec

=============================================================================
