------------------------- MODULE KernelGrid_proofs -------------------------
(***************************************************************************)
(* What a launch writes and reads, for all calls, sizes of work-groups and *)
(* tiles, and widths of int.                                               *)
(*                                                                         *)
(* The argument: whatever an operator is called with, it ends, or launches *)
(* with arrays as long as its kernel takes them to be (Prepares). Results  *)
(* says what such a launch writes to each element. On either backend each  *)
(* element has one item that writes it, and items write nothing else       *)
(* (Once): on the host because the tiles cover the indices without         *)
(* overlap and add up in order, on the device because a gid is divided     *)
(* into the coordinates it was made of, and those that the grid was        *)
(* rounded up to return. So two items never meet (WritesOnce), the         *)
(* backends agree (SameWrites), and what is read is what Results names     *)
(* (ReadsExist).                                                           *)
(*                                                                         *)
(* For the definition of an operator: positions and indices of a shape are *)
(* the same (IndexOfPosition, PositionOfIndex), by induction over the      *)
(* shape. For a regular call, what Results says of the element at the      *)
(* position of an index is what the definition computes at that index      *)
(* (Right): one lemma per operator. So what was written (WrittenIs) is the *)
(* definition (ByDefinition).                                              *)
(***************************************************************************)
EXTENDS KernelGrid, InductionLemmas, FiniteSetTheorems, SequenceTheorems

-----------------------------------------------------------------------------
(* Arithmetic the kernels do with positions.                               *)

(* Row and column of a position in a matrix with n columns.                *)
LEMMA RowAndColumn ==
  ASSUME NEW n \in Nat, n > 0, NEW f \in Nat
  PROVE  /\ f \div n \in Nat /\ f % n \in 0..(n - 1)
         /\ f = (f \div n) * n + (f % n)
OBVIOUS

(* The position of a row and a column gives them back.                     *)
LEMMA PositionOf ==
  ASSUME NEW n \in Nat, NEW i \in Nat, NEW j \in 0..(n - 1)
  PROVE  /\ i * n + j \in Nat
         /\ (i * n + j) \div n = i /\ (i * n + j) % n = j
<1>1. n > 0 /\ i * n \in Nat
  OBVIOUS
<1> DEFINE f == i * n + j
           q == f \div n
<1>2. f \in Nat /\ q \in Nat /\ f % n \in 0..(n - 1) /\ f = q * n + (f % n)
  BY <1>1, RowAndColumn
<1>3. i * n + j = q * n + (f % n)
  BY <1>2
<1>4. ~ (q < i)
  <2> SUFFICES ASSUME q + 1 <= i PROVE FALSE
    BY <1>2
  <2>1. (q + 1) * n <= i * n
    BY <1>1, <1>2
  <2>2. (q + 1) * n = q * n + n
    BY <1>2
  <2> QED
    BY <1>1, <1>2, <1>3, <2>1, <2>2
<1>5. ~ (i < q)
  <2> SUFFICES ASSUME i + 1 <= q PROVE FALSE
    BY <1>2
  <2>1. (i + 1) * n <= q * n
    BY <1>1, <1>2
  <2>2. (i + 1) * n = i * n + n
    BY <1>1
  <2> QED
    BY <1>1, <1>2, <1>3, <2>1, <2>2
<1> QED
  BY <1>2, <1>3, <1>4, <1>5

(* Positions of a matrix with m rows and n columns are below m * n.        *)
LEMMA InMatrix ==
  ASSUME NEW m \in Nat, NEW n \in Nat, NEW i \in 0..(m - 1), NEW j \in 0..(n - 1)
  PROVE  i * n + j \in 0..(m * n - 1)
<1>1. (i + 1) * n <= m * n
  OBVIOUS
<1>2. (i + 1) * n = i * n + n /\ i * n \in Nat /\ m * n \in Nat
  OBVIOUS
<1> QED
  BY <1>1, <1>2

(* A position below m * n is in one of m rows.                             *)
LEMMA RowBelow ==
  ASSUME NEW m \in Nat, NEW n \in Nat, n > 0, NEW f \in 0..(m * n - 1)
  PROVE  f \div n \in 0..(m - 1) /\ f % n \in 0..(n - 1)
<1>1. f \div n \in Nat /\ f % n \in 0..(n - 1) /\ f = (f \div n) * n + (f % n)
  BY RowAndColumn
<1> DEFINE q == f \div n
<1>2. ~ (m <= q)
  <2> SUFFICES ASSUME m <= q PROVE FALSE
    OBVIOUS
  <2>1. m * n <= q * n
    BY <1>1
  <2> QED
    BY <1>1, <2>1
<1> QED
  BY <1>1, <1>2

(* A factor is not larger than the product.                                *)
LEMMA FactorsBelow ==
  ASSUME NEW m \in Nat, NEW n \in Nat, m > 0, n > 0
  PROVE  m <= m * n /\ n <= m * n /\ m * n > 0
OBVIOUS

(* An int keeps its value in a cast to int.                                *)
LEMMA CastKeeps ==
  ASSUME NEW x \in Int, -(MaxInt + 1) <= x, x <= MaxInt
  PROVE  AsInt(x) = x
<1> DEFINE w == 2 * (MaxInt + 1)
           y == x + MaxInt + 1
<1>1. w \in Nat /\ w > 0 /\ y \in 0..(w - 1) /\ MaxInt \in Nat
  BY WidthsAssumption
<1>2. y % w = y
  <2> HIDE DEF w, y
  <2>1. 0 * w + y = y /\ 0 \in Nat
    BY <1>1
  <2> QED
    BY <1>1, <2>1, PositionOf
<1> QED
  BY <1>1, <1>2 DEF AsInt

(* A cast to int gives an int.                                             *)
LEMMA CastInRange ==
  ASSUME NEW x \in Int
  PROVE  AsInt(x) \in -(MaxInt + 1)..MaxInt
<1> DEFINE w == 2 * (MaxInt + 1)
           y == x + MaxInt + 1
<1>1. w \in Nat /\ w > 0 /\ y \in Int /\ MaxInt \in Nat
  BY WidthsAssumption
<1>2. y % w \in 0..(w - 1)
  <2> HIDE DEF w, y
  <2> QED
    BY <1>1
<1> QED
  BY <1>1, <1>2 DEF AsInt

(* round_up_lws gives at least the number of elements, and no gid that is  *)
(* not an int if they are ints: the work-group size divides 2^31.          *)
LEMMA GridCovers ==
  ASSUME NEW p, Total(p) \in Nat
  PROVE  /\ Grid(p) \in Nat /\ Total(p) <= Grid(p)
         /\ Total(p) <= MaxInt => Grid(p) - 1 <= MaxInt
<1> DEFINE w == LocalWorkSize
           t == Total(p)
           r == t + w - 1
           q == r \div w
           c == (MaxInt + 1) \div w
<1>1. w \in Nat /\ w > 0 /\ MaxInt \in Nat /\ (MaxInt + 1) % w = 0 /\ t \in Nat
  BY WidthsAssumption
<1>2. RoundUp(t) = q * w
  BY DEF RoundUp
<1>3. Grid(p) = IF RoundUp(t) > w THEN RoundUp(t) ELSE w
  BY DEF Grid
<1> HIDE DEF w, t
<1>4. r \in Nat /\ q \in Nat /\ r % w \in 0..(w - 1) /\ r = q * w + (r % w)
  BY <1>1, RowAndColumn
<1>5. c \in Nat /\ MaxInt + 1 = c * w
  <2>1. MaxInt + 1 \in Nat
    BY <1>1
  <2>2. c \in Nat /\ MaxInt + 1 = c * w + ((MaxInt + 1) % w)
    BY <1>1, <2>1, RowAndColumn
  <2> QED
    BY <1>1, <2>2
<1> HIDE DEF q, c
<1>6. q * w \in Nat /\ t <= q * w
  BY <1>1, <1>4
<1>7. c > 0 /\ w <= c * w
  <2>1. c # 0
    BY <1>1, <1>5
  <2> QED
    BY <1>1, <1>5, <2>1, FactorsBelow
<1>8. t <= MaxInt => q * w <= c * w
  <2> SUFFICES ASSUME t <= MaxInt PROVE q <= c
    <3>1. q <= c => q * w <= c * w
      BY <1>1, <1>4, <1>5
    <3> QED
      BY <3>1
  <2> SUFFICES ASSUME c + 1 <= q PROVE FALSE
    BY <1>4, <1>5
  <2>1. (c + 1) * w <= q * w
    BY <1>1, <1>4, <1>5
  <2>2. (c + 1) * w = c * w + w
    BY <1>1, <1>5
  <2> QED
    BY <1>1, <1>4, <1>5, <1>6, <2>1, <2>2
<1> QED
  BY <1>1, <1>2, <1>3, <1>5, <1>6, <1>7, <1>8 DEF t

-----------------------------------------------------------------------------
(* Numbers of elements.                                                    *)

(* P[d] is the product of the first d sizes.                               *)
Products(P, s) ==
  /\ P[0] = 1
  /\ \A d \in 1..Len(s) : P[d] = P[d - 1] * s[d]
  /\ Numel(s) = P[Len(s)]

(* numel() is the product of the sizes.                                    *)
LEMMA NumelRun ==
  ASSUME NEW s, Len(s) \in Nat
  PROVE  \E P : Products(P, s)
<1> DEFINE n == Len(s)
           Rec(f, k) == f = [d \in 0..k |-> IF d = 0 THEN 1 ELSE f[d - 1] * s[d]]
           S == {k \in Nat : \E f : Rec(f, k)}
<1>1. 0 \in S
  <2>1. Rec([d \in 0..0 |-> 1], 0)
    OBVIOUS
  <2> QED
    BY <2>1
<1>2. ASSUME NEW k \in Nat, k \in S PROVE k + 1 \in S
  <2>1. PICK f : Rec(f, k)
    BY <1>2
  <2> DEFINE g == [d \in 0..(k + 1) |-> IF d = k + 1 THEN f[k] * s[k + 1] ELSE f[d]]
  <2>2. \A d \in 0..k : g[d] = f[d]
    OBVIOUS
  <2>3. \A d \in 0..(k + 1) : g[d] = IF d = 0 THEN 1 ELSE g[d - 1] * s[d]
    BY <2>1, <2>2
  <2>4. Rec(g, k + 1)
    BY <2>3
  <2> HIDE DEF g, Rec
  <2>5. \E h : Rec(h, k + 1)
    BY <2>4
  <2> QED
    BY <2>5
<1>3. n \in S
  <2> HIDE DEF S
  <2> QED
    BY <1>1, <1>2, SetInduction
<1> DEFINE P == CHOOSE f : Rec(f, n)
<1>4. Rec(P, n)
  BY <1>3
<1>5. Numel(s) = P[n]
  BY DEF Numel
<1> HIDE DEF P
<1>6. P[0] = 1 /\ \A d \in 1..n : P[d] = P[d - 1] * s[d]
  <2>1. \A d \in 0..n : P[d] = IF d = 0 THEN 1 ELSE P[d - 1] * s[d]
    BY <1>4
  <2>2. 0 \in 0..n /\ \A d \in 1..n : d \in 0..n /\ d # 0
    OBVIOUS
  <2> QED
    BY <2>1, <2>2
<1> QED
  BY <1>5, <1>6 DEF Products

(* A shape of no sizes has one element; one more size multiplies.          *)
LEMMA NumelEmpty == Numel(<<>>) = 1
<1>1. Len(<<>>) = 0
  OBVIOUS
<1>2. PICK P : Products(P, <<>>)
  BY <1>1, NumelRun
<1> QED
  BY <1>1, <1>2 DEF Products

(* A shape has a natural number of elements.                               *)
LEMMA NumelNat ==
  ASSUME NEW s \in Seq(Nat)
  PROVE  Numel(s) \in Nat
<1>1. Len(s) \in Nat /\ \A d \in 1..Len(s) : s[d] \in Nat
  OBVIOUS
<1>2. PICK P : Products(P, s)
  BY <1>1, NumelRun
<1> DEFINE S == {d \in Nat : d <= Len(s) => P[d] \in Nat}
<1>3. 0 \in S
  BY <1>2 DEF Products
<1>4. ASSUME NEW d \in Nat, d \in S PROVE d + 1 \in S
  <2> SUFFICES ASSUME d + 1 <= Len(s) PROVE P[d + 1] \in Nat
    OBVIOUS
  <2>1. d + 1 \in 1..Len(s) /\ P[d] \in Nat /\ (d + 1) - 1 = d
    BY <1>1, <1>4
  <2>2. P[d + 1] = P[d] * s[d + 1]
    BY <1>2, <2>1 DEF Products
  <2> QED
    BY <1>1, <2>1, <2>2
<1>5. Len(s) \in S
  <2> HIDE DEF S
  <2> QED
    BY <1>1, <1>3, <1>4, SetInduction
<1> QED
  BY <1>2, <1>5 DEF Products

(* One more size multiplies the number of elements.                        *)
LEMMA NumelAppend ==
  ASSUME NEW s \in Seq(Nat), NEW n \in Nat
  PROVE  Numel(Append(s, n)) = Numel(s) * n
<1> DEFINE t == Append(s, n)
           k == Len(s)
<1>1. k \in Nat /\ Len(t) = k + 1 /\ t[k + 1] = n /\ \A d \in 1..k : t[d] = s[d]
  OBVIOUS
<1> HIDE DEF t
<1>2. PICK P : Products(P, s)
  BY <1>1, NumelRun
<1>3. PICK Q : Products(Q, t)
  <2>1. Len(t) \in Nat
    BY <1>1
  <2> QED
    BY <2>1, NumelRun
<1> HIDE DEF k
<1> DEFINE S == {d \in Nat : d <= k => P[d] = Q[d]}
<1>4. 0 \in S
  BY <1>2, <1>3 DEF Products
<1>5. ASSUME NEW d \in Nat, d \in S PROVE d + 1 \in S
  <2> SUFFICES ASSUME d + 1 <= k PROVE P[d + 1] = Q[d + 1]
    OBVIOUS
  <2>1. d + 1 \in 1..k /\ d + 1 \in 1..(k + 1) /\ P[d] = Q[d] /\ (d + 1) - 1 = d
    BY <1>1, <1>5
  <2>2. P[d + 1] = P[d] * s[d + 1] /\ Q[d + 1] = Q[d] * t[d + 1]
    BY <1>1, <1>2, <1>3, <2>1 DEF Products, k
  <2> QED
    BY <1>1, <2>1, <2>2
<1>6. k \in S
  <2> HIDE DEF S
  <2> QED
    BY <1>1, <1>4, <1>5, SetInduction
<1>7. Q[k + 1] = Q[k] * n
  <2>1. k + 1 \in 1..(k + 1) /\ (k + 1) - 1 = k
    BY <1>1
  <2> QED
    BY <1>1, <1>3, <2>1 DEF Products
<1> QED
  BY <1>1, <1>2, <1>3, <1>6, <1>7 DEF Products, k, t


(* A section of a shape, with one more size.                               *)
LEMMA Section ==
  ASSUME NEW s \in Seq(Nat), NEW a \in 1..(Len(s) + 1), NEW e \in (a - 1)..Len(s)
  PROVE  /\ SubSeq(s, a, e) \in Seq(Nat) /\ Len(SubSeq(s, a, e)) = e - a + 1
         /\ e < Len(s) => SubSeq(s, a, e + 1) = Append(SubSeq(s, a, e), s[e + 1])
<1>1. SubSeq(s, a, e) \in Seq(Nat) /\ Len(SubSeq(s, a, e)) = e - a + 1
  OBVIOUS
<1>2. ASSUME e < Len(s)
      PROVE  SubSeq(s, a, e + 1) = Append(SubSeq(s, a, e), s[e + 1])
  <2> DEFINE u == SubSeq(s, a, e + 1)
             v == Append(SubSeq(s, a, e), s[e + 1])
  <2>1. u \in Seq(Nat) /\ Len(u) = e - a + 2
    BY <1>2
  <2>2. v \in Seq(Nat) /\ Len(v) = e - a + 2
    BY <1>1, <1>2
  <2>3. \A d \in 1..(e - a + 2) : u[d] = s[a + d - 1]
    BY <1>2
  <2>4. \A d \in 1..(e - a + 2) : v[d] = s[a + d - 1]
    BY <1>1, <1>2
  <2> HIDE DEF u, v
  <2>5. u = v
    BY <2>1, <2>2, <2>3, <2>4, SeqEqual
  <2> QED
    BY <2>5 DEF u, v
<1> QED
  BY <1>1, <1>2

(* The elements of a shape are those of its first sizes times those of the *)
(* others.                                                                 *)
LEMMA NumelSplit ==
  ASSUME NEW s \in Seq(Nat), NEW d \in 0..Len(s)
  PROVE  /\ SubSeq(s, 1, d) \in Seq(Nat) /\ SubSeq(s, d + 1, Len(s)) \in Seq(Nat)
         /\ Numel(s) = Numel(SubSeq(s, 1, d)) * Numel(SubSeq(s, d + 1, Len(s)))
<1> DEFINE n == Len(s)
           A == Numel(SubSeq(s, 1, d))
           B(e) == Numel(SubSeq(s, d + 1, e))
           S == {k \in Nat : d + k <= n => Numel(SubSeq(s, 1, d + k)) = A * B(d + k)}
<1>1. /\ n \in Nat /\ d \in Nat /\ d <= n
      /\ SubSeq(s, 1, d) \in Seq(Nat) /\ SubSeq(s, d + 1, n) \in Seq(Nat)
  BY Section
<1>2. A \in Nat
  BY <1>1, NumelNat
<1>3. ASSUME NEW e \in d..n PROVE B(e) \in Nat
  <2>1. d + 1 \in 1..(Len(s) + 1) /\ e \in ((d + 1) - 1)..Len(s)
    BY <1>1
  <2>2. SubSeq(s, d + 1, e) \in Seq(Nat)
    BY <2>1, Section
  <2> QED
    BY <2>2, NumelNat
<1>4. 0 \in S
  <2>1. SubSeq(s, d + 1, d) = <<>>
    BY <1>1
  <2>2. B(d) = 1
    BY <2>1, NumelEmpty, Zenon
  <2>3. d + 0 = d
    BY <1>1
  <2> HIDE DEF B
  <2> QED
    BY <1>2, <2>2, <2>3
<1>5. ASSUME NEW k \in Nat, k \in S PROVE k + 1 \in S
  <2> SUFFICES ASSUME d + (k + 1) <= n
               PROVE  Numel(SubSeq(s, 1, d + (k + 1))) = A * B(d + (k + 1))
    OBVIOUS
  <2> DEFINE e == d + k
  <2>1. e \in d..n /\ e < n /\ d + (k + 1) = e + 1 /\ e + 1 \in 1..n
    BY <1>1
  <2>2. s[e + 1] \in Nat
    BY <2>1
  <2>3. /\ SubSeq(s, 1, e) \in Seq(Nat)
        /\ SubSeq(s, 1, e + 1) = Append(SubSeq(s, 1, e), s[e + 1])
    BY <1>1, <2>1, Section
  <2>4. /\ SubSeq(s, d + 1, e) \in Seq(Nat)
        /\ SubSeq(s, d + 1, e + 1) = Append(SubSeq(s, d + 1, e), s[e + 1])
    BY <1>1, <2>1, Section
  <2>5. /\ Numel(SubSeq(s, 1, e + 1)) = Numel(SubSeq(s, 1, e)) * s[e + 1]
        /\ B(e + 1) = B(e) * s[e + 1]
    BY <2>2, <2>3, <2>4, NumelAppend
  <2>6. Numel(SubSeq(s, 1, e)) = A * B(e)
    BY <1>5, <2>1
  <2>7. (A * B(e)) * s[e + 1] = A * (B(e) * s[e + 1])
    <3>1. B(e) \in Nat
      BY <1>3, <2>1
    <3> HIDE DEF A, B, e
    <3> QED
      BY <1>2, <2>2, <3>1
  <2> QED
    BY <2>1, <2>5, <2>6, <2>7
<1>6. n - d \in S
  <2>1. n - d \in Nat
    BY <1>1
  <2> HIDE DEF S, n
  <2>2. \A k \in Nat : k \in S
    BY <1>4, <1>5, SetInduction
  <2> QED
    BY <2>1, <2>2
<1>7. d + (n - d) = n /\ n <= n
  BY <1>1
<1>8. SubSeq(s, 1, n) = s
  BY SubSeqFull
<1>9. Numel(SubSeq(s, 1, n)) = A * B(n)
  BY <1>6, <1>7
<1> QED
  BY <1>1, <1>8, <1>9

(* Shapes by their last sizes.                                             *)
LEMMA NumelLast ==
  ASSUME NEW s \in Seq(Nat), s # <<>>
  PROVE  /\ Front1(s) \in Seq(Nat) /\ Size(s, 1) \in Nat
         /\ Numel(s) = Numel(Front1(s)) * Size(s, 1)
<1> DEFINE k == Len(s) - 1
<1>1. k \in 0..Len(s) /\ k < Len(s) /\ k + 1 = Len(s) /\ Len(s) + 1 - 1 = Len(s)
  OBVIOUS
<1>2. /\ SubSeq(s, 1, k) \in Seq(Nat)
      /\ SubSeq(s, 1, k + 1) = Append(SubSeq(s, 1, k), s[k + 1])
      /\ s[k + 1] \in Nat
  BY <1>1, Section
<1>3. SubSeq(s, 1, k + 1) = s
  BY <1>1
<1>4. Numel(s) = Numel(SubSeq(s, 1, k)) * s[k + 1]
  BY <1>2, <1>3, NumelAppend
<1> QED
  BY <1>1, <1>2, <1>4 DEF Front1, Size

(* A vector, a matrix and a batch of matrices.                             *)
LEMMA NumelSmall ==
  ASSUME NEW a \in Nat, NEW b \in Nat, NEW c \in Nat
  PROVE  Numel(<<a, b>>) = a * b /\ Numel(<<a, b, c>>) = a * b * c
<1>1. /\ <<a>> = Append(<<>>, a) /\ <<a, b>> = Append(<<a>>, b)
      /\ <<a, b, c>> = Append(<<a, b>>, c)
  OBVIOUS
<1>2. <<>> \in Seq(Nat) /\ <<a>> \in Seq(Nat) /\ <<a, b>> \in Seq(Nat)
  OBVIOUS
<1>3. Numel(<<a>>) = 1 * a /\ Numel(<<a, b>>) = Numel(<<a>>) * b
      /\ Numel(<<a, b, c>>) = Numel(<<a, b>>) * c
  <2>1. Numel(Append(<<>>, a)) = Numel(<<>>) * a
    BY <1>2, NumelAppend
  <2>2. Numel(Append(<<a>>, b)) = Numel(<<a>>) * b
    BY <1>2, NumelAppend
  <2>3. Numel(Append(<<a, b>>, c)) = Numel(<<a, b>>) * c
    BY <1>2, NumelAppend
  <2> QED
    BY <1>1, <2>1, <2>2, <2>3, NumelEmpty
<1> QED
  BY <1>3

(* The same of a matrix alone.                                             *)
LEMMA NumelPair ==
  ASSUME NEW a \in Nat, NEW b \in Nat
  PROVE  Numel(<<a, b>>) = a * b
<1>1. 0 \in Nat
  OBVIOUS
<1> QED
  BY <1>1, NumelSmall


-----------------------------------------------------------------------------
(* What the operators launch. An array of n elements, none of them wild.   *)
Array(a, n) == DOMAIN a = 0..(n - 1) /\ \A i \in 0..(n - 1) : a[i] # Wild

ElementLaunch(p) ==
  /\ p.kernel \in Elementwise /\ p.numel \in Nat /\ p.numel = Numel(p.shape)
  /\ \A s \in DOMAIN p.src : Array(p.src[s], p.numel)

MatrixLaunch(p) ==
  /\ p.kernel \in {"gemm_bias_act", "bmm"} /\ (p.kernel = "gemm_bias_act" => p.batch = 1)
  /\ p.batch \in Nat /\ p.m \in Nat /\ p.n \in Nat /\ p.k \in Nat
  /\ p.m > 0 /\ p.n > 0 /\ p.transB \in BOOLEAN
  /\ Numel(p.shape) = p.batch * p.m * p.n /\ DOMAIN p.src = 1..3
  /\ Array(p.src[1], p.batch * p.m * p.k) /\ Array(p.src[2], p.batch * p.k * p.n)
  /\ p.src[3] = <<>> \/ Array(p.src[3], p.n)

SoftmaxLaunch(p) ==
  /\ p.kernel = "softmax" /\ p.m \in Nat /\ p.n \in Nat /\ p.k \in Nat
  /\ Numel(p.shape) = p.m * p.n * p.k
  /\ DOMAIN p.src = {1} /\ Array(p.src[1], p.m * p.n * p.k)

AffineArray(array, s) ==
  IF s = Absent THEN array = <<>> ELSE Array(array, Numel(s))

NormLaunch(p, z, w) ==
  /\ p.kernel = "layernorm" /\ p.m \in Nat /\ p.n \in Nat /\ p.n > 0
  /\ Numel(p.shape) = p.m * p.n /\ DOMAIN p.src = 1..3 /\ Array(p.src[1], p.m * p.n)
  /\ AffineArray(p.src[2], z) /\ AffineArray(p.src[3], w)

EmbeddingLaunch(p) ==
  /\ p.kernel = "embedding" /\ p.numel \in Nat /\ p.n \in Nat /\ p.k \in Nat
  /\ p.numel > 0 /\ p.n > 0 /\ Numel(p.shape) = p.numel * p.n
  /\ DOMAIN p.src = {1} /\ Array(p.src[1], p.k * p.n)
  /\ DOMAIN p.ids = 1..p.numel /\ \A r \in 1..p.numel : p.ids[r] \in -(MaxInt + 1)..MaxInt

MatrixOps == {"mm", "linear", "linear_act", "linear_act_t", "matmul", "bmm"}

(* A launch by operator c, and what it comes to otherwise.                 *)
Launched(c, p) ==
  \/ c.op \in {"fill", "unary", "binary", "pointwise"} /\ ElementLaunch(p)
  \/ c.op \in MatrixOps /\ MatrixLaunch(p)
  \/ c.op = "softmax" /\ SoftmaxLaunch(p)
  \/ c.op = "layer_norm" /\ NormLaunch(p, c.z, c.w)
  \/ c.op = "embedding" /\ EmbeddingLaunch(p)

(* All fields of LaunchParams are there.                                   *)
IsParams(p) == p = [field \in DOMAIN NoParams |-> p[field]]

GoodEnd(c, r) ==
  /\ r.stage \in {"ready", "refused", "crashed", "empty"}
  /\ r.stage # "ready" => r.params = NoParams
  /\ r.stage = "ready" => /\ Launched(c, r.params) /\ IsParams(r.params)
                          /\ r.params.kernel # "embedding" => r.params.ids = <<>>

(* Parameters that are set are there.                                      *)
LEMMA SetsParams ==
  ASSUME NEW kernel, NEW src, NEW shape, NEW numel, NEW m, NEW n, NEW k, NEW ids
  PROVE  /\ IsParams([NoParams EXCEPT !.kernel = kernel, !.src = src, !.shape = shape,
                        !.m = m, !.n = n, !.k = k, !.numel = numel])
         /\ IsParams([NoParams EXCEPT !.kernel = kernel, !.shape = shape, !.m = m,
                        !.n = n, !.src = src])
         /\ IsParams([NoParams EXCEPT !.kernel = kernel, !.shape = shape, !.src = src,
                        !.ids = ids, !.numel = numel, !.n = n, !.k = k])
<1>1. IsParams([NoParams EXCEPT !.kernel = kernel, !.src = src, !.shape = shape,
                 !.m = m, !.n = n, !.k = k, !.numel = numel])
  BY DEF NoParams, IsParams
<1>2. IsParams([NoParams EXCEPT !.kernel = kernel, !.shape = shape, !.m = m,
                 !.n = n, !.src = src])
  BY DEF NoParams, IsParams
<1>3. IsParams([NoParams EXCEPT !.kernel = kernel, !.shape = shape, !.src = src,
                 !.ids = ids, !.numel = numel, !.n = n, !.k = k])
  BY DEF NoParams, IsParams
<1> QED
  BY <1>1, <1>2, <1>3

(* contiguous() of a tensor has its elements.                              *)
LEMMA ContiguousArray ==
  ASSUME NEW s \in Seq(Nat), NEW name \in {"x", "y", "z", "w"}
  PROVE  Array(Contiguous(name, s), Numel(s))
BY DEF Array, Contiguous, Wild

(* expand().contiguous() has as many as the shape expanded to.             *)
LEMMA ExpandedArray ==
  ASSUME NEW s, NEW t, NEW name \in {"x", "y"}
  PROVE  Array(Expanded(name, s, t), Numel(t))
<1>1. \A I : Element(name, s, I) # Wild
  BY DEF Element, Wild
<1> QED
  BY <1>1 DEF Array, Expanded

(* What does not launch.                                                   *)
LEMMA OtherEnds ==
  ASSUME NEW c
  PROVE  GoodEnd(c, Refused) /\ GoodEnd(c, Crashed) /\ GoodEnd(c, Empty)
BY DEF GoodEnd, Refused, Crashed, Empty, Ends

(* Operands that fit are joined to a shape.                                *)
LEMMA JoinShape ==
  ASSUME NEW s \in Seq(Nat), NEW t \in Seq(Nat)
  PROVE  Join(s, t) \in Seq(Nat)
<1> DEFINE n == Longer(s, t)
<1>1. n \in Nat /\ n >= Len(s) /\ n >= Len(t)
  BY DEF Longer
<1> HIDE DEF n
<1>2. ASSUME NEW u \in Seq(Nat), Len(u) <= n, NEW d \in 1..n PROVE Dims(u, n)[d] \in Nat
  <2>1. d > n - Len(u) => u[d - (n - Len(u))] \in Nat
    BY <1>1, <1>2
  <2> QED
    BY <1>1, <1>2, <2>1 DEF Dims
<1>3. \A d \in 1..n :
        (IF Dims(s, n)[d] = 1 THEN Dims(t, n)[d] ELSE Dims(s, n)[d]) \in Nat
  BY <1>1, <1>2
<1>4. [d \in 1..n |-> IF Dims(s, n)[d] = 1 THEN Dims(t, n)[d] ELSE Dims(s, n)[d]] \in Seq(Nat)
  BY <1>1, <1>3
<1> QED
  BY <1>4 DEF Join, n

(* fill, unary, binary and pointwise.                                      *)
LEMMA ElementPrepares ==
  ASSUME NEW c, c.op \in {"fill", "unary", "binary", "pointwise"},
         c.x \in Seq(Nat), c.op \in {"binary", "pointwise"} => c.y \in Seq(Nat)
  PROVE  GoodEnd(c, Prepared(c))
<1> DEFINE Arrays(src, n) == \A s \in DOMAIN src : Array(src[s], n)
<1>1. ASSUME NEW kernel \in Elementwise, NEW src, NEW shape,
             Numel(shape) \in Nat, Arrays(src, Numel(shape))
      PROVE  GoodEnd(c, Launch1(kernel, src, shape))
  <2> DEFINE r == Launch1(kernel, src, shape)
  <2>1. /\ r.stage = "ready" /\ r.params.kernel = kernel /\ r.params.src = src
        /\ r.params.shape = shape /\ r.params.numel = Numel(shape) /\ r.params.ids = <<>>
        /\ IsParams(r.params)
    BY DEF Launch1, Ready, NoParams, IsParams
  <2> HIDE DEF r
  <2>2. ElementLaunch(r.params)
    BY <1>1, <2>1 DEF ElementLaunch
  <2> QED
    BY <2>1, <2>2 DEF GoodEnd, Launched, r
<1>2. Numel(c.x) \in Nat
  BY NumelNat
<1>3. CASE c.op = "fill"
  <2>1. Prepared(c) = Filled(c)
    BY <1>3 DEF Prepared
  <2>2. Arrays(<<>>, Numel(c.x))
    OBVIOUS
  <2> HIDE DEF Arrays
  <2>3. GoodEnd(c, Launch1("fill", <<>>, c.x))
    BY <1>1, <1>2, <2>2 DEF Elementwise
  <2> QED
    BY <2>1, <2>3, OtherEnds DEF Filled
<1>4. CASE c.op = "unary"
  <2>1. Prepared(c) = Unary(c)
    BY <1>4 DEF Prepared
  <2>2. Arrays(<<Contiguous("x", c.x)>>, Numel(c.x))
    BY ContiguousArray
  <2> HIDE DEF Arrays
  <2> QED
    BY <1>1, <1>2, <2>1, <2>2 DEF Elementwise, Unary
<1>5. CASE c.op = "binary"
  <2> DEFINE t == Join(c.x, c.y)
  <2>1. Prepared(c) = Binary(c)
    BY <1>5 DEF Prepared
  <2>2. Arrays(<<Expanded("x", c.x, t), Expanded("y", c.y, t)>>, Numel(t))
    BY ExpandedArray
  <2>3. Numel(t) \in Nat
    BY <1>5, JoinShape, NumelNat
  <2> HIDE DEF Arrays, t
  <2>4. GoodEnd(c, Launch1("binary", <<Expanded("x", c.x, t), Expanded("y", c.y, t)>>, t))
    BY <1>1, <2>2, <2>3 DEF Elementwise
  <2> QED
    BY <2>1, <2>4, OtherEnds DEF Binary, t
<1>6. CASE c.op = "pointwise"
  <2>1. Prepared(c) = PointwiseOp(c)
    BY <1>6 DEF Prepared
  <2>2. CASE Numel(c.y) = Numel(c.x)
    <3>1. Arrays(<<Contiguous("x", c.x), Contiguous("y", c.y)>>, Numel(c.x))
      BY <1>6, <2>2, ContiguousArray
    <3> HIDE DEF Arrays
    <3>2. GoodEnd(c, Launch1("pointwise", <<Contiguous("x", c.x), Contiguous("y", c.y)>>, c.x))
      BY <1>1, <1>2, <3>1 DEF Elementwise
    <3> QED
      BY <2>1, <2>2, <3>2 DEF PointwiseOp
  <2>3. CASE Numel(c.y) # Numel(c.x)
    BY <2>1, <2>3, OtherEnds DEF PointwiseOp
  <2> QED
    BY <2>2, <2>3
<1> QED
  BY <1>3, <1>4, <1>5, <1>6


(* A matrix.                                                               *)
LEMMA MatrixShape ==
  ASSUME NEW s \in Seq(Nat), Len(s) = 2
  PROVE  s[1] \in Nat /\ s[2] \in Nat /\ Numel(s) = s[1] * s[2]
<1>1. s[1] \in Nat /\ s[2] \in Nat
  BY 1 \in 1..2, 2 \in 1..2
<1>2. s = <<s[1], s[2]>>
  <2>1. <<s[1], s[2]>> \in Seq(Nat) /\ Len(<<s[1], s[2]>>) = 2
    BY <1>1
  <2> QED
    BY <2>1, SeqEqual
<1>3. Numel(<<s[1], s[2]>>) = s[1] * s[2]
  BY <1>1, NumelSmall
<1> QED
  BY <1>1, <1>2, <1>3

(* A product divided by one of its factors.                                *)
LEMMA Quotient ==
  ASSUME NEW a \in Nat, NEW b \in Nat, b > 0
  PROVE  (a * b) \div b = a
<1>1. 0 \in 0..(b - 1) /\ a * b + 0 = a * b
  OBVIOUS
<1> QED
  BY <1>1, PositionOf

(* What gemm_bias_act_impl is called with.                                 *)
GemmCall(xs, ys, z, transB, shape) ==
  /\ xs \in Seq(Nat) /\ Len(xs) = 2 /\ ys \in Seq(Nat) /\ Len(ys) = 2
  /\ z \in Seq(Nat) \cup {Absent} /\ transB \in BOOLEAN
  /\ Numel(shape) = xs[1] * (IF transB THEN ys[1] ELSE ys[2])

(* It checks what its launch needs.                                        *)
LEMMA GemmPrepares ==
  ASSUME NEW c, c.op \in MatrixOps, NEW xs, NEW ys, NEW z, NEW transB, NEW shape,
         GemmCall(xs, ys, z, transB, shape)
  PROVE  GoodEnd(c, GemmBiasAct(xs, ys, z, transB, shape))
<1> USE DEF GemmCall
<1> DEFINE m == xs[1]
           k == xs[2]
           n == IF transB THEN ys[1] ELSE ys[2]
           inner == IF transB THEN ys[2] ELSE ys[1]
           arrays == <<Contiguous("x", xs), Contiguous("y", ys), Optional("z", z)>>
           r == Ready([NoParams EXCEPT
                  !.kernel = "gemm_bias_act", !.transB = transB, !.shape = shape,
                  !.src = arrays, !.numel = m * n, !.m = m, !.n = n, !.k = k])
           refuses == inner # k \/ ~BiasFits(m, n, z)
<1>1. m \in Nat /\ k \in Nat /\ n \in Nat /\ inner \in Nat
  BY MatrixShape
<1>2. GemmBiasAct(xs, ys, z, transB, shape)
        = IF refuses THEN Refused ELSE IF m = 0 \/ n = 0 THEN Empty ELSE r
  BY DEF GemmBiasAct
<1>3. ASSUME ~refuses, m # 0, n # 0 PROVE GoodEnd(c, r)
  <2>2. Numel(xs) = m * k /\ Numel(ys) = k * n
    <3>1. Numel(xs) = m * k /\ Numel(ys) = ys[1] * ys[2]
      BY MatrixShape
    <3>2. ys[1] \in Nat /\ ys[2] \in Nat
      BY MatrixShape
    <3>3. ys[1] * ys[2] = k * n
      BY <1>1, <1>3, <3>2
    <3> QED
      BY <3>1, <3>3
  <2>3. Array(arrays[1], m * k) /\ Array(arrays[2], k * n)
    BY <2>2, ContiguousArray
  <2>4. arrays[3] = <<>> \/ Array(arrays[3], n)
    <3>1. CASE z = Absent
      BY <3>1 DEF Optional
    <3>2. CASE z # Absent
      <4>1. z \in Seq(Nat) /\ Numel(z) = n
        BY <1>3, <3>2 DEF BiasFits
      <4>2. Array(Contiguous("z", z), n)
        BY <4>1, ContiguousArray
      <4> QED
        BY <3>2, <4>2 DEF Optional
    <3> QED
      BY <3>1, <3>2
  <2>5. DOMAIN arrays = 1..3
    OBVIOUS
  <2> HIDE DEF arrays
  <2>6. /\ r.stage = "ready" /\ r.params.ids = <<>>
        /\ r.params.kernel = "gemm_bias_act" /\ r.params.batch = 1
        /\ r.params.m = m /\ r.params.n = n /\ r.params.k = k /\ r.params.src = arrays
        /\ r.params.transB = transB /\ r.params.shape = shape /\ IsParams(r.params)
    BY DEF Ready, NoParams, IsParams
  <2> HIDE DEF r, m, n, k
  <2>7. Numel(shape) = 1 * m * n /\ 1 * m * k = m * k /\ 1 * k * n = k * n
    BY <1>1 DEF m, n
  <2>8. MatrixLaunch(r.params)
    BY <1>1, <1>3, <2>3, <2>4, <2>5, <2>6, <2>7 DEF MatrixLaunch
  <2> QED
    BY <2>6, <2>8 DEF GoodEnd, Launched
<1> HIDE DEF r, refuses
<1> QED
  BY <1>2, <1>3, OtherEnds

(* linear and linear_act count the rows of x.                              *)
LEMMA Rows ==
  ASSUME NEW x \in Seq(Nat), x # <<>>, Size(x, 1) # 0, NEW n \in Nat
  PROVE  LET xs == <<Numel(x) \div Size(x, 1), Size(x, 1)>>
         IN  /\ xs \in Seq(Nat) /\ Len(xs) = 2
             /\ Numel(WithLast(x, n)) = xs[1] * n
<1> DEFINE a == Numel(Front1(x))
           b == Size(x, 1)
<1>1. Front1(x) \in Seq(Nat) /\ b \in Nat /\ b > 0 /\ Numel(x) = a * b
  BY NumelLast
<1>2. a \in Nat
  BY <1>1, NumelNat
<1>3. Numel(x) \div b = a
  BY <1>1, <1>2, Quotient
<1>4. Numel(WithLast(x, n)) = a * n
  BY <1>1, NumelAppend DEF WithLast
<1> QED
  BY <1>1, <1>2, <1>3, <1>4

(* mm, linear and linear_act.                                              *)
LEMMA LayerPrepares ==
  ASSUME NEW c, c.op \in {"mm", "linear", "linear_act", "linear_act_t"},
         c.x \in Seq(Nat), c.y \in Seq(Nat), c.z \in Seq(Nat) \cup {Absent}
  PROVE  GoodEnd(c, Prepared(c))
<1> DEFINE xs == <<Numel(c.x) \div Size(c.x, 1), Size(c.x, 1)>>
<1>0. c.op \in MatrixOps
  BY DEF MatrixOps
<1>1. CASE c.op = "mm"
  <2>1. Prepared(c) = Mm(c)
    BY <1>1 DEF Prepared
  <2>2. CASE Len(c.x) = 2 /\ Len(c.y) = 2
    <3> DEFINE shape == <<c.x[1], c.y[2]>>
    <3>0. c.x[1] \in Nat /\ c.y[2] \in Nat
      BY <2>2, MatrixShape
    <3>1. Numel(shape) = c.x[1] * c.y[2]
      BY <3>0, NumelPair
    <3> HIDE DEF shape
    <3>2. GoodEnd(c, GemmBiasAct(c.x, c.y, Absent, FALSE, shape))
      <4> DEFINE transB == FALSE
                 z == Absent
      <4>1. /\ Numel(shape) = c.x[1] * (IF transB THEN c.y[1] ELSE c.y[2])
            /\ transB \in BOOLEAN /\ z \in Seq(Nat) \cup {Absent}
        BY <3>1
      <4> HIDE DEF transB, z
      <4>2. GemmCall(c.x, c.y, z, transB, shape)
        BY <2>2, <4>1 DEF GemmCall
      <4>3. GoodEnd(c, GemmBiasAct(c.x, c.y, z, transB, shape))
        BY <1>0, <4>2, GemmPrepares
      <4> QED
        BY <4>3 DEF transB, z
    <3> QED
      BY <2>1, <2>2, <3>2 DEF Mm, shape
  <2> QED
    BY <2>1, <2>2, OtherEnds DEF Mm
<1>2. CASE c.op = "linear"
  <2>1. Prepared(c) = Linear(c)
    BY <1>2 DEF Prepared
  <2>2. CASE Len(c.y) = 2 /\ c.x # <<>> /\ Size(c.x, 1) = c.y[2] /\ Size(c.x, 1) # 0
    <3>1. c.y[1] \in Nat
      BY <2>2
    <3>2. xs \in Seq(Nat) /\ Len(xs) = 2 /\ Numel(WithLast(c.x, c.y[1])) = xs[1] * c.y[1]
      BY <2>2, <3>1, Rows
    <3> HIDE DEF xs
    <3>3. GoodEnd(c, GemmBiasAct(xs, c.y, c.z, TRUE, WithLast(c.x, c.y[1])))
      <4> DEFINE transB == TRUE
                 shape == WithLast(c.x, c.y[1])
      <4>1. Numel(shape) = xs[1] * (IF transB THEN c.y[1] ELSE c.y[2]) /\ transB \in BOOLEAN
        BY <3>2
      <4> HIDE DEF transB, shape
      <4>2. GemmCall(xs, c.y, c.z, transB, shape)
        BY <2>2, <3>2, <4>1 DEF GemmCall
      <4>3. GoodEnd(c, GemmBiasAct(xs, c.y, c.z, transB, shape))
        BY <1>0, <4>2, GemmPrepares
      <4> QED
        BY <4>3 DEF transB, shape
    <3> QED
      BY <2>1, <2>2, <3>3 DEF Linear, xs
  <2> QED
    BY <2>1, <2>2, OtherEnds DEF Linear
<1>3. ASSUME NEW transB \in BOOLEAN, c.op \in {"linear_act", "linear_act_t"}
      PROVE  GoodEnd(c, LinearAct(c, transB))
  <2>1. CASE Len(c.y) = 2 /\ c.x # <<>> /\ Size(c.x, 1) # 0
    <3> DEFINE n == IF transB THEN c.y[1] ELSE c.y[2]
    <3>1. n \in Nat /\ n = c.y[IF transB THEN 1 ELSE 2]
      BY <2>1
    <3>2. xs \in Seq(Nat) /\ Len(xs) = 2 /\ Numel(WithLast(c.x, n)) = xs[1] * n
      BY <2>1, <3>1, Rows
    <3> HIDE DEF xs
    <3>3. GoodEnd(c, GemmBiasAct(xs, c.y, c.z, transB, WithLast(c.x, n)))
      <4> DEFINE shape == WithLast(c.x, n)
      <4>1. Numel(shape) = xs[1] * (IF transB THEN c.y[1] ELSE c.y[2])
        BY <3>2
      <4> HIDE DEF shape
      <4>2. GemmCall(xs, c.y, c.z, transB, shape)
        BY <2>1, <3>2, <4>1 DEF GemmCall
      <4>3. GoodEnd(c, GemmBiasAct(xs, c.y, c.z, transB, shape))
        BY <1>0, <4>2, GemmPrepares
      <4> QED
        BY <4>3 DEF shape
    <3> QED
      BY <2>1, <3>1, <3>3 DEF LinearAct, xs
  <2> QED
    BY <2>1, OtherEnds DEF LinearAct
<1>4. CASE c.op = "linear_act"
  <2>1. Prepared(c) = LinearAct(c, FALSE)
    BY <1>4 DEF Prepared
  <2> QED
    BY <1>3, <1>4, <2>1
<1>5. CASE c.op = "linear_act_t"
  <2>1. Prepared(c) = LinearAct(c, TRUE)
    BY <1>5 DEF Prepared
  <2> QED
    BY <1>3, <1>5, <2>1
<1> QED
  BY <1>1, <1>2, <1>4, <1>5


(* A tensor of two dimensions or more is a batch of matrices.              *)
LEMMA BatchShape ==
  ASSUME NEW s \in Seq(Nat), Len(s) >= 2
  PROVE  /\ BatchOf(s) \in Seq(Nat) /\ Numel(BatchOf(s)) \in Nat
         /\ Size(s, 1) \in Nat /\ Size(s, 2) \in Nat
         /\ Numel(s) = Numel(BatchOf(s)) * Size(s, 2) * Size(s, 1)
         /\ \A n \in Nat : Numel(WithLast(s, n)) = Numel(BatchOf(s)) * Size(s, 2) * n
<1> DEFINE f == Front1(s)
<1>1. f \in Seq(Nat) /\ Size(s, 1) \in Nat /\ Numel(s) = Numel(f) * Size(s, 1)
  <2>1. s # <<>>
    OBVIOUS
  <2> QED
    BY <2>1, NumelLast
<1>2. /\ Len(f) = Len(s) - 1 /\ f # <<>>
      /\ Size(f, 1) = Size(s, 2) /\ Front1(f) = BatchOf(s)
  <2>1. Len(f) = Len(s) - 1
    BY DEF Front1
  <2>2. f # <<>>
    BY <2>1
  <2>3. f[Len(s) - 1] = s[Len(s) - 1]
    BY DEF Front1
  <2>4. Size(f, 1) = Size(s, 2)
    BY <2>1, <2>3 DEF Size
  <2>5. SubSeq(f, 1, Len(s) - 2) = SubSeq(s, 1, Len(s) - 2)
    <3> DEFINE u == SubSeq(f, 1, Len(s) - 2)
               v == SubSeq(s, 1, Len(s) - 2)
    <3> DEFINE e == Len(s) - 2
    <3>0. e \in (1 - 1)..Len(f) /\ e \in (1 - 1)..Len(s) /\ e - 1 + 1 = e
          /\ 1 \in 1..(Len(f) + 1) /\ 1 \in 1..(Len(s) + 1)
      BY <2>1
    <3> HIDE DEF e, f
    <3>01. SubSeq(f, 1, e) \in Seq(Nat) /\ Len(SubSeq(f, 1, e)) = e - 1 + 1
      BY <1>1, <3>0, Section
    <3>02. SubSeq(s, 1, e) \in Seq(Nat) /\ Len(SubSeq(s, 1, e)) = e - 1 + 1
      BY <3>0, Section
    <3>1. u \in Seq(Nat) /\ v \in Seq(Nat) /\ Len(u) = Len(s) - 2 /\ Len(v) = Len(s) - 2
      BY <3>0, <3>01, <3>02 DEF e
    <3> USE DEF f
    <3>2. \A d \in 1..(Len(s) - 2) : u[d] = f[d] /\ v[d] = s[d] /\ f[d] = s[d]
      BY <1>1, <2>1 DEF Front1
    <3> HIDE DEF u, v
    <3> QED
      BY <3>1, <3>2, SeqEqual DEF u, v
  <2> QED
    BY <2>1, <2>2, <2>4, <2>5 DEF Front1, BatchOf
<1> HIDE DEF f
<1>3. /\ BatchOf(s) \in Seq(Nat) /\ Size(s, 2) \in Nat
      /\ Numel(f) = Numel(BatchOf(s)) * Size(s, 2)
  BY <1>1, <1>2, NumelLast
<1>4. \A n \in Nat : Numel(WithLast(s, n)) = Numel(f) * n
  BY <1>1, NumelAppend DEF WithLast, f
<1> QED
  BY <1>1, <1>3, <1>4, NumelNat

(* A matrix shape with a size in front.                                    *)
LEMMA OneMore ==
  ASSUME NEW a \in Nat, NEW y \in Seq(Nat), Len(y) = 2
  PROVE  <<a>> \o y = <<a, y[1], y[2]>>
<1> DEFINE u == <<a>>
           v == u \o y
           w == <<a, y[1], y[2]>>
<1>1. u \in Seq(Nat) /\ Len(u) = 1 /\ u[1] = a
  OBVIOUS
<1>2. y[1] \in Nat /\ y[2] \in Nat
  BY MatrixShape
<1>3. w \in Seq(Nat) /\ Len(w) = 3 /\ w[1] = a /\ w[2] = y[1] /\ w[3] = y[2]
  BY <1>2
<1> HIDE DEF u, w
<1>4. /\ v \in Seq(Nat) /\ Len(v) = Len(u) + Len(y)
      /\ \A i \in 1..(Len(u) + Len(y)) : v[i] = IF i <= Len(u) THEN u[i] ELSE y[i - Len(u)]
  BY <1>1, ConcatProperties
<1> HIDE DEF v
<1>5. Len(v) = 3 /\ v[1] = a /\ v[2] = y[1] /\ v[3] = y[2]
  BY <1>1, <1>4
<1>6. v = w
  <2>1. \A i \in 1..3 : v[i] = w[i]
    <3> SUFFICES ASSUME NEW i \in 1..3 PROVE v[i] = w[i]
      OBVIOUS
    <3>1. i = 1 \/ i = 2 \/ i = 3
      OBVIOUS
    <3> QED
      BY <1>3, <1>5, <3>1
  <2> QED
    BY <1>3, <1>4, <1>5, <2>1, SeqEqual
<1> QED
  BY <1>6 DEF u, v, w

(* matmul and bmm.                                                         *)
LEMMA MatmulPrepares ==
  ASSUME NEW c, c.op \in {"matmul", "bmm"}, c.x \in Seq(Nat), c.y \in Seq(Nat)
  PROVE  GoodEnd(c, Matmul(c.x, c.y))
<1> DEFINE x == c.x
           y == c.y
           m == Size(x, 2)
           k == Size(x, 1)
           n == Size(y, 1)
           a == Numel(x) \div (m * k)
           expands == Len(y) = 2 /\ a > 1
           b == IF expands THEN a ELSE Numel(y) \div (k * n)
<1>0. c.op \in MatrixOps /\ x \in Seq(Nat) /\ y \in Seq(Nat)
  BY DEF MatrixOps
<1>1. CASE Len(x) = 2 /\ Len(y) = 2
  <2> DEFINE shape == <<x[1], y[2]>>
             transB == FALSE
             z == Absent
  <2>1. GemmCall(x, y, z, transB, shape)
    <3>1. Numel(shape) = x[1] * y[2]
      BY <1>0, <1>1, MatrixShape, NumelSmall
    <3>2. transB \in BOOLEAN /\ z \in Seq(Nat) \cup {Absent} /\ ~transB
      OBVIOUS
    <3> HIDE DEF shape, transB, z
    <3> QED
      BY <1>0, <1>1, <3>1, <3>2 DEF GemmCall
  <2>2. Matmul(x, y) = GemmBiasAct(x, y, z, transB, shape)
    BY <1>1 DEF Matmul, Matmul2D
  <2> HIDE DEF shape, transB, z
  <2>3. GoodEnd(c, GemmBiasAct(x, y, z, transB, shape))
    BY <1>0, <2>1, GemmPrepares
  <2> QED
    BY <2>2, <2>3
<1>2. CASE /\ Len(x) >= 2 /\ Len(y) >= 2 /\ ~(Len(x) = 2 /\ Len(y) = 2)
           /\ k = Size(y, 2) /\ k # 0 /\ m # 0 /\ n # 0 /\ SameBatches(a, b)
  <2> DEFINE A == Numel(BatchOf(x))
             B == Numel(BatchOf(y))
             second == IF expands THEN Expanded("y", y, <<a>> \o y) ELSE Contiguous("y", y)
             r == Batched(x, y, a, expands)
  <2>1. /\ A \in Nat /\ B \in Nat /\ m \in Nat /\ k \in Nat /\ n \in Nat
        /\ Numel(x) = A * m * k /\ Numel(y) = B * k * n
        /\ Numel(WithLast(x, n)) = A * m * n
    BY <1>0, <1>2, BatchShape
  <2>2. Matmul(x, y) = r
    BY <1>2 DEF Matmul
  <2>3. r.stage = "ready" /\ r.params.kernel = "bmm" /\ r.params.ids = <<>>
        /\ r.params.m = m /\ r.params.n = n /\ r.params.k = k /\ r.params.batch = a
        /\ r.params.transB = FALSE /\ r.params.shape = WithLast(x, n)
        /\ r.params.src = <<Contiguous("x", x), second, <<>>>> /\ IsParams(r.params)
    BY DEF Batched, Ready, NoParams, IsParams
  <2>31. m # 0 /\ k # 0 /\ n # 0
    BY <1>2
  <2> HIDE DEF r, m, k, n, A, B
  <2>4. m > 0 /\ k > 0 /\ n > 0 /\ m * k > 0 /\ k * n > 0 /\ m * k \in Nat /\ k * n \in Nat
    <3>1. m > 0 /\ k > 0 /\ n > 0
      BY <2>1, <2>31
    <3>2. m * k > 0 /\ m * k \in Nat
      BY <2>1, <3>1, FactorsBelow
    <3>3. k * n > 0 /\ k * n \in Nat
      BY <2>1, <3>1, FactorsBelow
    <3> QED
      BY <3>1, <3>2, <3>3
  <2>5. a = A
    <3>1. A * m * k = A * (m * k)
      BY <2>1
    <3> QED
      BY <2>1, <2>4, <3>1, Quotient
  <2>6. Array(Contiguous("x", x), a * m * k)
    BY <1>0, <2>1, <2>5, ContiguousArray
  <2>7. Array(second, a * k * n)
    <3>1. CASE expands
      <4>1. <<a>> \o y = <<a, y[1], y[2]>>
        BY <1>0, <2>1, <2>5, <3>1, OneMore
      <4>2. y[1] = k /\ y[2] = n
        BY <1>2, <3>1 DEF k, n, Size
      <4>3. Numel(<<a, k, n>>) = a * k * n
        <5>1. a \in Nat /\ k \in Nat /\ n \in Nat
          BY <2>1, <2>5
        <5> HIDE DEF a
        <5> QED
          BY <5>1, NumelSmall
      <4>4. Array(Expanded("y", y, <<a>> \o y), a * k * n)
        BY <4>1, <4>2, <4>3, ExpandedArray
      <4> QED
        BY <3>1, <4>4
    <3>2. CASE ~expands
      <4>1. B * k * n = B * (k * n)
        BY <2>1
      <4>2. Numel(y) \div (k * n) = B
        BY <2>1, <2>4, <4>1, Quotient
      <4>3. a = B
        BY <1>2, <3>2, <4>2 DEF SameBatches
      <4>4. Array(Contiguous("y", y), a * k * n)
        BY <1>0, <2>1, <4>3, ContiguousArray
      <4> QED
        BY <3>2, <4>4
    <3> QED
      BY <3>1, <3>2
  <2> HIDE DEF second, a
  <2>71. Numel(WithLast(x, n)) = a * m * n /\ a \in Nat
    BY <2>1, <2>5
  <2> DEFINE arrays == <<Contiguous("x", x), second, <<>>>>
  <2>72. DOMAIN arrays = 1..3 /\ arrays[1] = Contiguous("x", x) /\ arrays[2] = second
         /\ arrays[3] = <<>> /\ r.params.src = arrays
    BY <2>3
  <2> HIDE DEF arrays
  <2>8. MatrixLaunch(r.params)
    BY <2>1, <2>3, <2>4, <2>6, <2>7, <2>71, <2>72 DEF MatrixLaunch
  <2> QED
    BY <1>0, <2>2, <2>3, <2>8 DEF GoodEnd, Launched
<1>3. CASE ~(Len(x) = 2 /\ Len(y) = 2)
            /\ ~(/\ Len(x) >= 2 /\ Len(y) >= 2
                 /\ k = Size(y, 2) /\ k # 0 /\ m # 0 /\ n # 0 /\ SameBatches(a, b))
  <2>1. Matmul(x, y) \in {Refused, Crashed}
    BY <1>0, <1>3 DEF Matmul
  <2> QED
    BY <2>1, OtherEnds
<1> QED
  BY <1>1, <1>2, <1>3

(* softmax, over any of the dimensions.                                    *)
LEMMA SoftmaxPrepares ==
  ASSUME NEW c, c.op = "softmax", c.x \in Seq(Nat), c.dim \in Int
  PROVE  GoodEnd(c, Softmax(c))
<1> DEFINE d == IF c.dim < 0 THEN c.dim + Len(c.x) ELSE c.dim
           p == [NoParams EXCEPT
             !.kernel = "softmax", !.src = <<Contiguous("x", c.x)>>, !.shape = c.x,
             !.m = Numel(SubSeq(c.x, 1, d)), !.n = c.x[d + 1],
             !.k = Numel(SubSeq(c.x, d + 2, Len(c.x))), !.numel = Numel(c.x)]
<1>1. Softmax(c) = IF Len(c.x) = 0 \/ d \notin 0..(Len(c.x) - 1) THEN Refused ELSE Ready(p)
  BY DEF Softmax
<1>2. ASSUME Len(c.x) # 0, d \in 0..(Len(c.x) - 1) PROVE GoodEnd(c, Ready(p))
  <2> DEFINE s == c.x
             M == Numel(SubSeq(s, 1, d))
             K == Numel(SubSeq(s, d + 2, Len(s)))
             N == s[d + 1]
  <2>0. s \in Seq(Nat) /\ Len(s) \in Nat /\ d \in Nat /\ d < Len(s) /\ d + 1 \in 1..Len(s)
    BY <1>2
  <2> HIDE DEF d
  <2>1. N \in Nat
    BY <2>0
  <2>2. /\ SubSeq(s, 1, d) \in Seq(Nat)
        /\ SubSeq(s, 1, d + 1) = Append(SubSeq(s, 1, d), N)
    BY <2>0, Section
  <2>3. /\ SubSeq(s, (d + 1) + 1, Len(s)) \in Seq(Nat) /\ (d + 1) + 1 = d + 2
        /\ Numel(s) = Numel(SubSeq(s, 1, d + 1)) * Numel(SubSeq(s, (d + 1) + 1, Len(s)))
    <3>1. d + 1 \in 0..Len(s)
      BY <2>0
    <3> QED
      BY <2>0, <3>1, NumelSplit
  <2>4. M \in Nat /\ K \in Nat /\ Numel(s) = M * N * K
    BY <2>1, <2>2, <2>3, NumelNat, NumelAppend
  <2>5. p.kernel = "softmax" /\ p.m = M /\ p.n = N /\ p.k = K /\ p.shape = s
        /\ p.src = <<Contiguous("x", s)>> /\ p.ids = <<>>
    BY DEF NoParams
  <2>51. IsParams(p)
    BY SetsParams, ZenonT(20)
  <2>6. Array(Contiguous("x", s), Numel(s))
    BY ContiguousArray
  <2> HIDE DEF M, N, K, s, p
  <2>7. SoftmaxLaunch(p)
    BY <2>1, <2>4, <2>5, <2>6 DEF SoftmaxLaunch
  <2>8. Ready(p).stage = "ready" /\ Ready(p).params = p
    BY DEF Ready
  <2> QED
    BY <2>5, <2>51, <2>7, <2>8 DEF GoodEnd, Launched
<1> HIDE DEF p, d
<1> QED
  BY <1>1, <1>2, OtherEnds

(* native_layer_norm, on rows as long as normalized_shape.                 *)
LEMMA LayerNormPrepares ==
  ASSUME NEW c, c.op = "layer_norm", c.x \in Seq(Nat), c.y \in Seq(Nat),
         c.z \in Seq(Nat) \cup {Absent}, c.w \in Seq(Nat) \cup {Absent}
  PROVE  GoodEnd(c, LayerNorm(c))
<1> DEFINE n == Numel(c.y)
           m == Numel(c.x) \div n
           arrays == <<Contiguous("x", c.x), Optional("z", c.z), Optional("w", c.w)>>
           p == [NoParams EXCEPT !.kernel = "layernorm", !.shape = c.x, !.m = m, !.n = n,
                                 !.src = arrays]
           refuses == n = 0 \/ Numel(c.x) % n # 0
<1>1. LayerNorm(c) = IF refuses THEN Refused ELSE Ready(p)
  BY DEF LayerNorm
<1>2. ASSUME ~refuses PROVE GoodEnd(c, Ready(p))
  <2>1. n \in Nat /\ Numel(c.x) \in Nat
    BY NumelNat
  <2>2. n > 0 /\ Numel(c.x) % n = 0
    BY <1>2, <2>1
  <2> HIDE DEF n
  <2>3. m \in Nat /\ Numel(c.x) = m * n
    <3>1. m \in Nat /\ Numel(c.x) = m * n + (Numel(c.x) % n)
      BY <2>1, <2>2, RowAndColumn
    <3> HIDE DEF m
    <3> QED
      BY <2>1, <2>2, <3>1
  <2>4. /\ DOMAIN arrays = 1..3 /\ arrays[1] = Contiguous("x", c.x)
        /\ arrays[2] = Optional("z", c.z) /\ arrays[3] = Optional("w", c.w)
    OBVIOUS
  <2>5. Array(Contiguous("x", c.x), m * n)
    BY <2>3, ContiguousArray
  <2>6. AffineArray(Optional("z", c.z), c.z) /\ AffineArray(Optional("w", c.w), c.w)
    BY ContiguousArray DEF Optional, AffineArray
  <2> HIDE DEF arrays, m
  <2>7. p.kernel = "layernorm" /\ p.shape = c.x /\ p.m = m /\ p.n = n /\ p.src = arrays
        /\ p.ids = <<>>
    BY DEF NoParams
  <2>71. IsParams(p)
    BY SetsParams, ZenonT(20)
  <2> HIDE DEF p
  <2>8. NormLaunch(p, c.z, c.w)
    BY <2>1, <2>2, <2>3, <2>4, <2>5, <2>6, <2>7 DEF NormLaunch
  <2>9. Ready(p).stage = "ready" /\ Ready(p).params = p
    BY DEF Ready
  <2> QED
    BY <2>7, <2>71, <2>8, <2>9 DEF GoodEnd, Launched
<1> HIDE DEF p, refuses
<1> QED
  BY <1>1, <1>2, OtherEnds

(* embedding, of ids cast to int32.                                        *)
LEMMA EmbeddingPrepares ==
  ASSUME NEW c, c.op = "embedding", c.x \in Seq(Nat), c.y \in Seq(Nat),
         c.ids \in Seq(Int), Len(c.ids) = Numel(c.x)
  PROVE  GoodEnd(c, Embedding(c))
<1> DEFINE ids == AsInt32(c.ids)
           p == [NoParams EXCEPT
             !.kernel = "embedding", !.shape = Append(c.x, c.y[2]),
             !.src = <<Contiguous("y", c.y)>>, !.ids = ids,
             !.numel = Numel(c.x), !.n = c.y[2], !.k = c.y[1]]
<1>1. Embedding(c) = IF Len(c.y) # 2 THEN Refused
                     ELSE IF Numel(c.x) = 0 \/ c.y[2] = 0 THEN Empty ELSE Ready(p)
  BY DEF Embedding
<1>2. ASSUME Len(c.y) = 2, Numel(c.x) # 0, c.y[2] # 0 PROVE GoodEnd(c, Ready(p))
  <2> DEFINE r == Numel(c.x)
             n == c.y[2]
             k == c.y[1]
  <2>1. /\ r \in Nat /\ n \in Nat /\ k \in Nat /\ r > 0 /\ n > 0
        /\ Numel(c.y) = k * n /\ Numel(Append(c.x, c.y[2])) = r * n
    <3>1. n \in Nat /\ k \in Nat /\ Numel(c.y) = k * n
      BY <1>2, MatrixShape
    <3>2. r \in Nat
      BY NumelNat
    <3>3. Numel(Append(c.x, n)) = r * n
      BY <3>1, NumelAppend
    <3>4. r # 0 /\ n # 0
      BY <1>2
    <3> HIDE DEF r, n, k
    <3>5. r > 0 /\ n > 0
      BY <3>1, <3>2, <3>4
    <3> QED
      BY <3>1, <3>2, <3>3, <3>5 DEF n
  <2>2. Array(Contiguous("y", c.y), k * n)
    BY <2>1, ContiguousArray
  <2>3. DOMAIN ids = 1..r /\ \A i \in 1..r : ids[i] \in -(MaxInt + 1)..MaxInt
    <3>1. DOMAIN c.ids = 1..r /\ \A i \in 1..r : c.ids[i] \in Int
      OBVIOUS
    <3>2. \A i \in 1..r : ids[i] = AsInt(c.ids[i])
      BY <3>1 DEF AsInt32
    <3>3. DOMAIN ids = 1..r
      BY <3>1 DEF AsInt32
    <3> HIDE DEF ids, r
    <3> QED
      BY <3>1, <3>2, <3>3, CastInRange
  <2> HIDE DEF ids
  <2>4. p.kernel = "embedding" /\ p.shape = Append(c.x, c.y[2]) /\ p.numel = r /\ p.n = n
        /\ p.k = k /\ p.src = <<Contiguous("y", c.y)>> /\ p.ids = ids
    BY DEF NoParams
  <2>41. IsParams(p)
    BY SetsParams, ZenonT(20)
  <2> HIDE DEF p, r, n, k
  <2>5. EmbeddingLaunch(p)
    <3>1. p.src[1] = Contiguous("y", c.y) /\ DOMAIN p.src = {1}
      BY <2>4
    <3>2. p.numel > 0 /\ p.n > 0 /\ Numel(p.shape) = p.numel * p.n
          /\ p.numel \in Nat /\ p.n \in Nat /\ p.k \in Nat
      BY <2>1, <2>4
    <3>3. Array(p.src[1], p.k * p.n)
      BY <2>2, <2>4, <3>1
    <3>4. DOMAIN p.ids = 1..p.numel
          /\ \A i \in 1..p.numel : p.ids[i] \in -(MaxInt + 1)..MaxInt
      BY <2>3, <2>4
    <3> QED
      BY <2>4, <3>1, <3>2, <3>3, <3>4 DEF EmbeddingLaunch
  <2>6. Ready(p).stage = "ready" /\ Ready(p).params = p
    BY DEF Ready
  <2> QED
    BY <2>4, <2>41, <2>5, <2>6 DEF GoodEnd, Launched
<1> HIDE DEF p
<1> QED
  BY <1>1, <1>2, OtherEnds

(* Whatever the call, it launches something its kernel can run, or ends.   *)
LEMMA Prepares ==
  ASSUME NEW c \in Calls
  PROVE  GoodEnd(c, Prepared(c))
<1>1. /\ c.op \in Operators /\ c.x \in Seq(Nat) /\ c.z \in Seq(Nat) \cup {Absent}
      /\ c.w \in Seq(Nat) \cup {Absent}
      /\ c.op \notin {"fill", "unary", "softmax"} => c.y \in Seq(Nat)
      /\ c.dim \in Int /\ c.ids \in Seq(Int)
      /\ c.op = "embedding" => Len(c.ids) = Numel(c.x)
  BY CallsAssumption
<1>2. CASE c.op \in {"fill", "unary", "binary", "pointwise"}
  BY <1>1, <1>2, ElementPrepares
<1>3. CASE c.op \in {"mm", "linear", "linear_act", "linear_act_t"}
  BY <1>1, <1>3, LayerPrepares
<1>4. CASE c.op \in {"matmul", "bmm"}
  <2>1. GoodEnd(c, Matmul(c.x, c.y))
    BY <1>1, <1>4, MatmulPrepares
  <2>2. CASE c.op = "matmul"
    BY <2>1, <2>2 DEF Prepared
  <2>3. CASE c.op = "bmm"
    BY <2>1, <2>3, OtherEnds DEF Prepared, Bmm
  <2> QED
    BY <1>4, <2>2, <2>3
<1>5. CASE c.op = "softmax"
  BY <1>1, <1>5, SoftmaxPrepares DEF Prepared
<1>6. CASE c.op = "layer_norm"
  BY <1>1, <1>6, LayerNormPrepares DEF Prepared
<1>7. CASE c.op = "embedding"
  BY <1>1, <1>7, EmbeddingPrepares DEF Prepared
<1> QED
  BY <1>1, <1>2, <1>3, <1>4, <1>5, <1>6, <1>7 DEF Operators

-----------------------------------------------------------------------------
(* Types and parameters.                                                   *)

(* What a call is launched with stays what its operator prepared.          *)
ParamsKept ==
  /\ stage \in {"called", "crashed", "empty"} => params = NoParams
  /\ stage = "refused" =>
       params = NoParams \/ (call.op = "layer_norm" /\ Launched(call, params))
  /\ stage \in {"ready", "running", "ran", "returned", "threw", "unknown"} =>
       Launched(call, params) /\ IsParams(params)

(* The launches are told apart by their kernels.                           *)
LEMMA KernelTells ==
  ASSUME NEW c, NEW p, Launched(c, p)
  PROVE  \/ p.kernel \in Elementwise /\ ElementLaunch(p)
         \/ p.kernel \in {"gemm_bias_act", "bmm"} /\ MatrixLaunch(p)
         \/ p.kernel = "softmax" /\ c.op = "softmax" /\ SoftmaxLaunch(p)
         \/ p.kernel = "layernorm" /\ c.op = "layer_norm" /\ NormLaunch(p, c.z, c.w)
         \/ p.kernel = "embedding" /\ EmbeddingLaunch(p)
<1>1. ElementLaunch(p) => p.kernel \in Elementwise
  BY DEF ElementLaunch
<1>2. MatrixLaunch(p) => p.kernel \in {"gemm_bias_act", "bmm"}
  BY DEF MatrixLaunch
<1>3. SoftmaxLaunch(p) => p.kernel = "softmax"
  BY DEF SoftmaxLaunch
<1>4. NormLaunch(p, c.z, c.w) => p.kernel = "layernorm"
  BY DEF NormLaunch
<1>5. EmbeddingLaunch(p) => p.kernel = "embedding"
  BY DEF EmbeddingLaunch
<1> QED
  BY <1>1, <1>2, <1>3, <1>4, <1>5 DEF Launched

(* A run of the grid is one of all items of the launch, which have buffers *)
(* and fit into ints on OpenCL.                                            *)
Enqueued == stage \in {"running", "ran"} /\ backend = "opencl" => ~HasNull(params)

RunDone ==
  stage = "ran" =>
    /\ written = AllWrites(Items) /\ again = Meeting(Items) /\ reads = AllReads(Items)
    /\ backend = "opencl" => FitsInt(params)

IInv == TypeOK /\ ParamsKept /\ Enqueued /\ RunDone

(* Every reachable state is typed, has the parameters of its call, and has *)
(* done exactly what the items of the launch do.                           *)
LEMMA Inductive == Spec => []IInv
<1>1. Init => IInv
  <2> SUFFICES ASSUME Init PROVE IInv
    OBVIOUS
  <2>1. stage = "called" /\ params = NoParams /\ NoParams.ids = <<>>
    BY DEF Init, NoParams
  <2>2. TypeOK
    BY <2>1 DEF Init, TypeOK
  <2> QED
    BY <2>1, <2>2 DEF IInv, ParamsKept, Enqueued, RunDone
<1>2. IInv /\ [Next]_vars => IInv'
  <2> SUFFICES ASSUME IInv, [Next]_vars PROVE IInv'
    OBVIOUS
  <2>1. CASE Prepare
    <3>1. GoodEnd(call, Prepared(call))
      BY Prepares DEF IInv, TypeOK
    <3>2. /\ stage' \in {"ready", "refused", "crashed", "empty"}
          /\ stage' # "ready" => params' = NoParams
          /\ stage' = "ready" => /\ Launched(call, params') /\ IsParams(params')
                                 /\ params'.kernel # "embedding" => params'.ids = <<>>
          /\ UNCHANGED <<call, backend>>
      BY <2>1, <3>1 DEF Prepare, GoodEnd
    <3>3. \A i \in DOMAIN params'.ids : params'.ids[i] \in -(MaxInt + 1)..MaxInt
      <4>1. CASE stage' # "ready"
        BY <3>2, <4>1 DEF NoParams
      <4>2. CASE stage' = "ready" /\ params'.kernel # "embedding"
        BY <3>2, <4>2
      <4>3. CASE stage' = "ready" /\ params'.kernel = "embedding"
        <5>1. EmbeddingLaunch(params')
          BY <3>2, <4>3, KernelTells DEF Elementwise
        <5> QED
          BY <5>1 DEF EmbeddingLaunch
      <4> QED
        BY <4>1, <4>2, <4>3
    <3>4. TypeOK'
      BY <3>2, <3>3 DEF IInv, TypeOK
    <3>5. stage' = "ready" => Launched(call', params') /\ IsParams(params')
      BY <3>2
    <3>6. ParamsKept'
      BY <3>2, <3>5 DEF ParamsKept
    <3>7. Enqueued' /\ RunDone'
      BY <3>2 DEF Enqueued, RunDone
    <3> QED
      BY <3>4, <3>6, <3>7 DEF IInv
  <2>2. CASE Launch
    <3>1. /\ stage = "ready" /\ stage' = "running" /\ (backend = "opencl" => ~HasNull(params))
          /\ UNCHANGED <<call, backend, params>>
      BY <2>2 DEF Launch, NotABuffer
    <3>2. TypeOK'
      BY <3>1 DEF IInv, TypeOK
    <3>3. Launched(call', params') /\ IsParams(params')
      BY <3>1 DEF IInv, ParamsKept
    <3>4. Enqueued'
      BY <3>1 DEF Enqueued
    <3>5. ParamsKept'
      BY <3>1, <3>3 DEF ParamsKept
    <3>6. RunDone'
      BY <3>1 DEF RunDone
    <3> QED
      BY <3>2, <3>4, <3>5, <3>6 DEF IInv
  <2>3. CASE LaunchThrows
    <3>1. /\ stage = "ready" /\ stage' = "threw"
          /\ UNCHANGED <<call, backend, params>>
      BY <2>3 DEF LaunchThrows
    <3>2. TypeOK'
      BY <3>1 DEF IInv, TypeOK
    <3>3. Launched(call', params') /\ IsParams(params')
      BY <3>1 DEF IInv, ParamsKept
    <3>4. ParamsKept'
      BY <3>1, <3>3 DEF ParamsKept
    <3>5. Enqueued' /\ RunDone'
      BY <3>1 DEF Enqueued, RunDone
    <3> QED
      BY <3>2, <3>4, <3>5 DEF IInv
  <2>4. CASE RunItems
    <3>1. Items' = Items
      BY <2>4 DEF RunItems, Items
    <3>2. /\ written' = AllWrites(Items) /\ again' = Meeting(Items) /\ reads' = AllReads(Items)
          /\ stage = "running" /\ stage' = "ran" /\ (backend = "opencl" => FitsInt(params))
          /\ UNCHANGED <<call, backend, params>>
      BY <2>4 DEF RunItems
    <3>3. TypeOK'
      BY <3>2 DEF IInv, TypeOK
    <3>4. Launched(call', params') /\ IsParams(params')
      BY <3>2 DEF IInv, ParamsKept
    <3>5. Enqueued'
      BY <3>2 DEF IInv, Enqueued
    <3>6. RunDone'
      BY <3>1, <3>2 DEF RunDone
    <3> QED
      BY <3>2, <3>3, <3>4, <3>5, <3>6 DEF IInv, ParamsKept
  <2>5. CASE RunBeyondInt
    BY <2>5 DEF RunBeyondInt, IInv, TypeOK, ParamsKept, Enqueued, RunDone
  <2>6. CASE Return
    <3>1. /\ stage = "ran" /\ stage' = IF StatsFit THEN "returned" ELSE "refused"
          /\ UNCHANGED <<call, backend, params>>
      BY <2>6 DEF Return
    <3>2. ~StatsFit => call.op = "layer_norm"
      BY DEF StatsFit
    <3> QED
      BY <3>1, <3>2 DEF IInv, TypeOK, ParamsKept, Enqueued, RunDone
  <2>7. CASE UNCHANGED vars
    <3>1. Items' = Items
      BY <2>7 DEF vars, Items
    <3> QED
      BY <2>7, <3>1 DEF vars, IInv, TypeOK, ParamsKept, Enqueued, RunDone
  <2> QED
    BY <2>1, <2>2, <2>3, <2>4, <2>5, <2>6, <2>7 DEF Next
<1> QED
  BY <1>1, <1>2, PTL DEF Spec

(* Whatever the operands, a call is in one of its stages, the parameters   *)
(* are empty when nothing is launched, and the ids of an embedding are     *)
(* ints once they are cast (LlmOps.cpp:206-225).                           *)
THEOREM Types == Spec => []TypeOK
<1>1. IInv => TypeOK
  BY DEF IInv
<1> QED
  BY <1>1, Inductive, PTL

-----------------------------------------------------------------------------
(* Writing each element once. W is the write to an element, own the item   *)
(* that does it.                                                           *)
Once(items, W, own) ==
  /\ \A e \in DOMAIN W :
       W[e].to = e /\ own[e] \in DOMAIN items /\ W[e] \in items[own[e]].writes
  /\ \A i \in DOMAIN items : \A w \in items[i].writes :
       w.to \in DOMAIN W /\ W[w.to] = w /\ own[w.to] = i

(* Then no two items meet, and together they write what W says.            *)
LEMMA OnceWrites ==
  ASSUME NEW items, NEW W, NEW own, Once(items, W, own)
  PROVE  /\ AllWrites(items) = {W[e] : e \in DOMAIN W}
         /\ Targets(AllWrites(items)) = DOMAIN W
         /\ Meeting(items) = {}
<1>1. AllWrites(items) = {W[e] : e \in DOMAIN W}
  <2>1. ASSUME NEW w \in AllWrites(items) PROVE w \in {W[e] : e \in DOMAIN W}
    <3>1. PICK i \in DOMAIN items : w \in items[i].writes
      BY DEF AllWrites
    <3> QED
      BY <3>1 DEF Once
  <2>2. ASSUME NEW e \in DOMAIN W PROVE W[e] \in AllWrites(items)
    BY DEF Once, AllWrites
  <2> QED
    BY <2>1, <2>2
<1>2. Targets(AllWrites(items)) = DOMAIN W
  <2>1. \A e \in DOMAIN W : W[e].to = e
    BY DEF Once
  <2>2. ASSUME NEW e \in DOMAIN W PROVE e \in Targets(AllWrites(items))
    <3>1. W[e] \in AllWrites(items) /\ W[e].to = e
      BY <1>1, <2>1
    <3> QED
      BY <3>1 DEF Targets
  <2>3. ASSUME NEW e \in Targets(AllWrites(items)) PROVE e \in DOMAIN W
    <3>1. PICK w \in AllWrites(items) : e = w.to
      BY DEF Targets
    <3>2. PICK d \in DOMAIN W : w = W[d]
      BY <1>1, <3>1
    <3> QED
      BY <2>1, <3>1, <3>2
  <2> QED
    BY <2>2, <2>3
<1>3. Meeting(items) = {}
  <2> SUFFICES ASSUME NEW e, NEW a \in Pairs(items), NEW b \in Pairs(items),
                      a[2].to = e, b[2].to = e
               PROVE  a = b
    BY DEF Meeting
  <2>1. ASSUME NEW x \in Pairs(items), x[2].to = e PROVE x = <<own[e], W[e]>>
    <3>1. PICK i \in DOMAIN items : x \in {i} \X items[i].writes
      BY DEF Pairs
    <3>2. x = <<i, x[2]>> /\ x[2] \in items[i].writes
      BY <3>1
    <3> QED
      BY <2>1, <3>2 DEF Once
  <2> QED
    BY <2>1
<1> QED
  BY <1>1, <1>2, <1>3

(* What one iteration or work-item writes to an element.                   *)
ElementWrite(p, i) == Write("out", i, [s \in DOMAIN p.src |-> <<Fetch(p.src[s], i)>>])

DotWrite(p, b, i, j) ==
  Write("out", b * p.m * p.n + i * p.n + j,
    <<Line(p.src[1], b * p.m * p.k + i * p.k, 1, p.k),
      [q \in 1..p.k |-> Fetch(p.src[2], b * p.k * p.n + Operand(p, j, q - 1))],
      BiasOf(p, j)>>)

SoftmaxWrite(p, o, d, i) ==
  LET At(e) == (o * p.n + e) * p.k + i
  IN  Write("out", At(d), <<<<Fetch(p.src[1], At(d))>>, Line(p.src[1], At(0), p.k, p.n)>>)

NormWrite(p, r, j) ==
  LET row == Line(p.src[1], r * p.n, 1, p.n)
      Affine(a) == IF a = <<>> THEN <<>> ELSE <<Fetch(a, j)>>
  IN  Write("out", r * p.n + j,
        <<row, <<Fetch(p.src[1], r * p.n + j)>>, Affine(p.src[2]), Affine(p.src[3])>>)

StatWrite(p, name, r) == Write(name, r, <<Line(p.src[1], r * p.n, 1, p.n)>>)

(* What a launch writes to each element of its result.                     *)
ResultOf(p, e) ==
  LET f == e[2]
  IN  CASE p.kernel \in Elementwise -> ElementWrite(p, f)
        [] p.kernel \in {"gemm_bias_act", "bmm"} ->
             DotWrite(p, (f \div p.n) \div p.m, (f \div p.n) % p.m, f % p.n)
        [] p.kernel = "softmax" ->
             SoftmaxWrite(p, (f \div p.k) \div p.n, (f \div p.k) % p.n, f % p.k)
        [] p.kernel = "layernorm" ->
             IF e[1] = "out" THEN NormWrite(p, f \div p.n, f % p.n) ELSE StatWrite(p, e[1], f)
        [] p.kernel = "embedding" -> EmbeddingWrite(p, f \div p.n, f % p.n)

Results(p) == [e \in Outputs(p) |-> ResultOf(p, e)]

-----------------------------------------------------------------------------
(* The loops of the host gemm.                                             *)

(* An index is in the tile that starts at the multiple of Tile below it.   *)
TileOf(i) == (i \div Tile) * Tile

(* The tiles below n have each index below n in one place.                 *)
LEMMA TilesCover ==
  ASSUME NEW n \in Nat
  PROVE  /\ \A i \in 0..(n - 1) : <<TileOf(i), i>> \in Tiled(n)
         /\ \A x \in Tiled(n) : x[2] \in 0..(n - 1) /\ x = <<TileOf(x[2]), x[2]>>
<1>0. Tile \in Nat /\ Tile > 0
  BY WidthsAssumption
<1>1. ASSUME NEW i \in 0..(n - 1) PROVE <<TileOf(i), i>> \in Tiled(n)
  <2> DEFINE q == i \div Tile
             t == q * Tile
  <2>1. q \in Nat /\ i % Tile \in 0..(Tile - 1) /\ i = t + (i % Tile)
    BY <1>0, RowAndColumn
  <2> HIDE DEF q
  <2>2. t \in Nat /\ t <= i /\ i < t + Tile /\ i < n
    BY <1>0, <2>1
  <2>3. t % Tile = 0
    <3>1. (q * Tile + 0) % Tile = 0 /\ q * Tile + 0 = q * Tile
      BY <1>0, <2>1, PositionOf
    <3> QED
      BY <3>1
  <2> HIDE DEF t
  <2>4. t \in TilesFrom(n)
    BY <2>2, <2>3 DEF TilesFrom
  <2>5. i \in InTile(t, n)
    BY <1>0, <2>2 DEF InTile, Least
  <2>6. <<t, i>> \in Tiled(n)
    BY <2>4, <2>5 DEF Tiled
  <2> QED
    BY <2>6 DEF TileOf, t, q
<1>2. ASSUME NEW x \in Tiled(n) PROVE x[2] \in 0..(n - 1) /\ x = <<TileOf(x[2]), x[2]>>
  <2>1. PICK t \in TilesFrom(n) : x \in {<<t, i>> : i \in InTile(t, n)}
    BY DEF Tiled
  <2>2. PICK i \in InTile(t, n) : x = <<t, i>>
    BY <2>1
  <2>3. t \in Nat /\ t % Tile = 0 /\ t < n
    BY DEF TilesFrom
  <2>4. i \in Int /\ t <= i /\ i < t + Tile /\ i < n
    BY <1>0, <2>3 DEF InTile, Least
  <2> DEFINE q == t \div Tile
  <2>5. q \in Nat /\ t = q * Tile + (t % Tile)
    BY <1>0, <2>3, RowAndColumn
  <2> HIDE DEF q
  <2>6. i - t \in 0..(Tile - 1) /\ i = q * Tile + (i - t) /\ t = q * Tile
    BY <1>0, <2>3, <2>4, <2>5
  <2>7. i \div Tile = q
    <3>1. (q * Tile + (i - t)) \div Tile = q
      BY <1>0, <2>5, <2>6, PositionOf
    <3> QED
      BY <2>6, <3>1
  <2> QED
    BY <2>2, <2>3, <2>4, <2>6, <2>7 DEF TileOf
<1> QED
  BY <1>1, <1>2

(* Two adjacent ranges make one.                                           *)
LEMMA RangesJoin ==
  ASSUME NEW a \in Nat, NEW b \in Nat, a <= b
  PROVE  [q \in 1..a |-> q - 1] \o [q \in 1..(b - a) |-> a + q - 1] = [q \in 1..b |-> q - 1]
<1> DEFINE u == [q \in 1..a |-> q - 1]
           v == [q \in 1..(b - a) |-> a + q - 1]
           w == [q \in 1..b |-> q - 1]
           j == u \o v
<1>1. u \in Seq(Int) /\ Len(u) = a /\ \A q \in 1..a : u[q] = q - 1
  OBVIOUS
<1>2. v \in Seq(Int) /\ Len(v) = b - a /\ \A q \in 1..(b - a) : v[q] = a + q - 1
  OBVIOUS
<1>3. w \in Seq(Int) /\ Len(w) = b /\ \A q \in 1..b : w[q] = q - 1
  OBVIOUS
<1> HIDE DEF u, v, w
<1>4. /\ j \in Seq(Int) /\ Len(j) = Len(u) + Len(v)
      /\ \A q \in 1..(Len(u) + Len(v)) : j[q] = IF q <= Len(u) THEN u[q] ELSE v[q - Len(u)]
  BY <1>1, <1>2, ConcatProperties
<1> HIDE DEF j
<1>5. Len(j) = b /\ \A q \in 1..b : j[q] = q - 1
  <2>1. Len(j) = b
    BY <1>1, <1>2, <1>4
  <2>2. ASSUME NEW q \in 1..b PROVE j[q] = q - 1
    <3>1. j[q] = IF q <= a THEN u[q] ELSE v[q - a]
      BY <1>1, <1>2, <1>4
    <3>2. q > a => q - a \in 1..(b - a)
      OBVIOUS
    <3> QED
      BY <1>1, <1>2, <3>1, <3>2
  <2> QED
    BY <2>1, <2>2
<1>6. j = w
  BY <1>3, <1>4, <1>5, SeqEqual
<1> QED
  BY <1>6 DEF u, v, w, j

(* The tiles of the host add up 0..k - 1 in order.                         *)
LEMMA InOrder ==
  ASSUME NEW k \in Nat
  PROVE  TiledOrder(k) = [q \in 1..k |-> q - 1]
<1> DEFINE n == (k + Tile - 1) \div Tile
           T == [t \in 1..n |-> [q \in 1..(Least(t * Tile, k) - (t - 1) * Tile) |->
                                   (t - 1) * Tile + q - 1]]
           F(t) == [q \in 1..Least(t * Tile, k) |-> q - 1]
           Rec(f) == f = [t \in 1..n |-> IF t = 1 THEN T[t] ELSE f[t - 1] \o T[t]]
           G == CHOOSE f : Rec(f)
<1>0. Tile \in Nat /\ Tile > 0
  BY WidthsAssumption
<1>1. /\ n \in Nat /\ k <= n * Tile
      /\ \A t \in 1..n : (t - 1) * Tile \in Nat /\ (t - 1) * Tile < k
                         /\ t * Tile = (t - 1) * Tile + Tile
  <2> DEFINE r == k + Tile - 1
  <2>1. r \in Nat
    BY <1>0
  <2>2. n \in Nat /\ r % Tile \in 0..(Tile - 1) /\ r = n * Tile + (r % Tile)
    BY <1>0, <2>1, RowAndColumn
  <2> HIDE DEF n
  <2>3. n * Tile \in Nat /\ k <= n * Tile /\ n * Tile <= k + Tile - 1
    BY <1>0, <2>2
  <2>4. ASSUME NEW t \in 1..n
        PROVE  /\ (t - 1) * Tile \in Nat /\ (t - 1) * Tile < k
               /\ t * Tile = (t - 1) * Tile + Tile
    <3>1. t * Tile = (t - 1) * Tile + Tile
      BY <1>0
    <3>2. (t - 1) * Tile \in Nat /\ t * Tile \in Nat
      <4>1. t - 1 \in Nat /\ t \in Nat
        BY <2>2
      <4> QED
        BY <1>0, <4>1
    <3>3. t * Tile <= n * Tile
      BY <1>0, <2>2
    <3> QED
      BY <1>0, <2>3, <3>1, <3>2, <3>3
  <2> QED
    BY <2>2, <2>3, <2>4
<1> HIDE DEF n
<1>2. ASSUME NEW t \in 1..n
      PROVE  /\ Least(t * Tile, k) \in Nat /\ (t - 1) * Tile <= Least(t * Tile, k)
             /\ T[t] = [q \in 1..(Least(t * Tile, k) - (t - 1) * Tile) |-> (t - 1) * Tile + q - 1]
             /\ t = 1 => T[t] = F(t)
             /\ t # 1 => F(t - 1) \o T[t] = F(t)
  <2> DEFINE a == (t - 1) * Tile
             b == Least(t * Tile, k)
  <2>1. a \in Nat /\ b \in Nat /\ a <= b
    BY <1>0, <1>1 DEF Least
  <2>2. T[t] = [q \in 1..(b - a) |-> a + q - 1]
    OBVIOUS
  <2>3. ASSUME t = 1 PROVE T[t] = F(t)
    <3>1. a = 0
      BY <1>0, <2>3
    <3> HIDE DEF a, b, T
    <3>2. T[t] = [q \in 1..b |-> q - 1]
      BY <2>1, <2>2, <3>1
    <3> QED
      BY <3>2 DEF b
  <2>4. ASSUME t # 1 PROVE F(t - 1) \o T[t] = F(t)
    <3>1. Least(a, k) = a
      BY <1>1 DEF Least
    <3>2. F(t - 1) = [q \in 1..a |-> q - 1]
      BY <3>1
    <3> HIDE DEF a, b, T
    <3>3. [q \in 1..a |-> q - 1] \o [q \in 1..(b - a) |-> a + q - 1] = [q \in 1..b |-> q - 1]
      BY <2>1, RangesJoin
    <3>4. F(t) = [q \in 1..b |-> q - 1]
      BY DEF b
    <3> HIDE DEF F
    <3> QED
      BY <2>2, <3>2, <3>3, <3>4
  <2> HIDE DEF T, F
  <2> QED
    BY <2>1, <2>2, <2>3, <2>4 DEF a, b
<1>3. DOMAIN T = 1..n /\ Len(T) = n
  <2>1. DOMAIN T = 1..n /\ T = [t \in 1..n |-> T[t]]
    OBVIOUS
  <2> HIDE DEF T
  <2> DEFINE R == {T[t] : t \in 1..n}
  <2>2. \A t \in 1..n : T[t] \in R
    OBVIOUS
  <2> HIDE DEF R
  <2>3. T \in [1..n -> R]
    BY <2>1, <2>2
  <2>4. T \in Seq(R)
    BY <1>1, <2>3
  <2> QED
    BY <1>1, <2>1, <2>4
<1> HIDE DEF T, F
<1>4. Rec([t \in 1..n |-> F(t)])
  <2> DEFINE f == [t \in 1..n |-> F(t)]
  <2>1. ASSUME NEW t \in 1..n PROVE f[t] = IF t = 1 THEN T[t] ELSE f[t - 1] \o T[t]
    <3>1. t # 1 => t - 1 \in 1..n
      BY <1>1
    <3> QED
      BY <1>2, <3>1
  <2> QED
    BY <2>1
<1>5. Rec(G)
  <2>1. \E f : Rec(f)
    BY <1>4
  <2> HIDE DEF Rec
  <2> QED
    BY <2>1
<1>6. n # 0 => TiledOrder(k) = G[n]
  <2>1. TiledOrder(k) = FlattenSeq(T)
    BY DEF TiledOrder, T, n
  <2>2. n # 0 => FlattenSeq(T) = G[n]
    BY <1>3 DEF FlattenSeq
  <2> QED
    BY <2>1, <2>2
<1> HIDE DEF G
<1>7. \A t \in 1..n : G[t] = IF t = 1 THEN T[t] ELSE G[t - 1] \o T[t]
  BY <1>5
<1> HIDE DEF Rec
<1> DEFINE S == {t \in Nat : t + 1 <= n => G[t + 1] = F(t + 1)}
<1>8. 0 \in S
  <2> SUFFICES ASSUME 0 + 1 <= n PROVE G[0 + 1] = F(0 + 1)
    OBVIOUS
  <2>1. 1 \in 1..n
    BY <1>1
  <2>2. G[1] = T[1] /\ T[1] = F(1)
    BY <1>2, <1>7, <2>1
  <2> QED
    BY <2>2
<1>9. ASSUME NEW t \in Nat, t \in S PROVE t + 1 \in S
  <2> SUFFICES ASSUME t + 2 <= n PROVE G[t + 2] = F(t + 2)
    BY <1>1
  <2>1. t + 2 \in 1..n /\ t + 2 # 1 /\ (t + 2) - 1 = t + 1 /\ t + 1 <= n
    BY <1>1
  <2>2. G[t + 2] = G[t + 1] \o T[t + 2] /\ F(t + 1) \o T[t + 2] = F(t + 2)
    BY <1>2, <1>7, <2>1
  <2> QED
    BY <1>9, <2>1, <2>2
<1>10. CASE n = 0
  <2>1. k = 0
    BY <1>0, <1>1, <1>10
  <2>2. TiledOrder(k) = T
    BY <1>3, <1>10 DEF TiledOrder, FlattenSeq, T, n
  <2>3. T = <<>>
    BY <1>3, <1>10
  <2> QED
    BY <2>1, <2>2, <2>3
<1>11. CASE n # 0
  <2>1. n - 1 \in Nat
    BY <1>1, <1>11
  <2>2. \A t \in Nat : t \in S
    <3> HIDE DEF S
    <3> QED
      BY <1>8, <1>9, SetInduction
  <2>3. G[n] = F(n)
    BY <1>1, <2>1, <2>2
  <2>4. Least(n * Tile, k) = k
    BY <1>0, <1>1 DEF Least
  <2> QED
    BY <1>6, <1>11, <2>3, <2>4 DEF F
<1> QED
  BY <1>10, <1>11

-----------------------------------------------------------------------------
(* The elements of a result, and what is written to them.                  *)

(* Three coordinates a, b and c of A, B and C, and a position of A * B * C. *)
Coordinates(A, B, C, a, b, c) ==
  /\ A \in Nat /\ B \in Nat /\ C \in Nat
  /\ a \in 0..(A - 1) /\ b \in 0..(B - 1) /\ c \in 0..(C - 1)

Position(A, B, C, f) ==
  A \in Nat /\ B \in Nat /\ C \in Nat /\ f \in 0..(A * B * C - 1)

(* The position of coordinates gives them back.                            *)
LEMMA CubePosition ==
  ASSUME NEW A, NEW B, NEW C, NEW a, NEW b, NEW c, Coordinates(A, B, C, a, b, c)
  PROVE  LET f == (a * B + b) * C + c
         IN  /\ f \in 0..(A * B * C - 1) /\ f % C = c
             /\ f \div C = a * B + b /\ (f \div C) \div B = a /\ (f \div C) % B = b
<1> DEFINE r == a * B + b
           f == r * C + c
<1>1. r \in 0..(A * B - 1) /\ r \in Nat /\ r \div B = a /\ r % B = b /\ A * B \in Nat
  BY InMatrix, PositionOf DEF Coordinates
<1> HIDE DEF r
<1> DEFINE D == A * B
<1>2. D \in Nat /\ r \in 0..(D - 1)
  BY <1>1
<1> HIDE DEF D
<1>3. f \in 0..(D * C - 1) /\ f \div C = r /\ f % C = c
  BY <1>1, <1>2, InMatrix, PositionOf DEF Coordinates
<1> QED
  BY <1>1, <1>3 DEF r, D

(* A position has coordinates.                                             *)
LEMMA CubeBelow ==
  ASSUME NEW A, NEW B, NEW C, NEW f, Position(A, B, C, f)
  PROVE  /\ B > 0 /\ C > 0 /\ f \div C \in 0..(A * B - 1) /\ f % C \in 0..(C - 1)
         /\ (f \div C) \div B \in 0..(A - 1) /\ (f \div C) % B \in 0..(B - 1)
         /\ f \div C = ((f \div C) \div B) * B + ((f \div C) % B)
         /\ f = (f \div C) * C + (f % C)
<1>0. A \in Nat /\ B \in Nat /\ C \in Nat /\ f \in 0..(A * B * C - 1)
  BY DEF Position
<1> DEFINE D == A * B
           r == f \div C
<1>1. B > 0 /\ C > 0 /\ D \in Nat
  BY <1>0 DEF D
<1>2. f \in 0..(D * C - 1) /\ f \in Nat
  BY <1>0
<1> HIDE DEF D
<1>3. r \in 0..(D - 1) /\ f % C \in 0..(C - 1) /\ f = r * C + (f % C)
  BY <1>0, <1>1, <1>2, RowBelow, RowAndColumn
<1> HIDE DEF r
<1>4. r \in 0..(A * B - 1) /\ r \in Nat
  BY <1>0, <1>1, <1>3 DEF D
<1>5. r \div B \in 0..(A - 1) /\ r % B \in 0..(B - 1) /\ r = (r \div B) * B + (r % B)
  BY <1>0, <1>1, <1>4, RowBelow, RowAndColumn
<1> QED
  BY <1>0, <1>1, <1>3, <1>4, <1>5 DEF r

(* Only layernorm has more than one result.                                *)
LEMMA OneResult ==
  ASSUME NEW p, p.kernel # "layernorm"
  PROVE  DOMAIN Results(p) = {<<"out", i>> : i \in 0..(Numel(p.shape) - 1)}
BY DEF Results, Outputs

(* Elementwise: element i is written from elements i.                      *)
LEMMA ElementUnits ==
  ASSUME NEW p, ElementLaunch(p)
  PROVE  /\ \A i \in 0..(p.numel - 1) :
              LET w == ElementWrite(p, i)
              IN  w.to = <<"out", i>> /\ w.to \in DOMAIN Results(p) /\ Results(p)[w.to] = w
         /\ \A e \in DOMAIN Results(p) :
              /\ e[2] \in 0..(p.numel - 1) /\ e = <<"out", e[2]>>
              /\ Results(p)[e] = ElementWrite(p, e[2]) /\ Results(p)[e].to = e
<1>1. p.kernel \in Elementwise /\ p.kernel # "layernorm" /\ Numel(p.shape) = p.numel
  BY DEF ElementLaunch, Elementwise
<1>2. DOMAIN Results(p) = {<<"out", i>> : i \in 0..(p.numel - 1)}
  BY <1>1, OneResult
<1>3. \A i : ElementWrite(p, i).to = <<"out", i>>
  BY DEF ElementWrite, Write
<1>4. ASSUME NEW i \in 0..(p.numel - 1)
      PROVE  /\ <<"out", i>> \in DOMAIN Results(p)
             /\ Results(p)[<<"out", i>>] = ElementWrite(p, i)
  <2> DEFINE e == <<"out", i>>
  <2>1. e \in Outputs(p) /\ e \in DOMAIN Results(p) /\ e[2] = i
    BY <1>2 DEF Results
  <2> HIDE DEF e
  <2>2. ResultOf(p, e) = ElementWrite(p, e[2])
    <3>1. p.kernel \notin {"gemm_bias_act", "bmm", "softmax", "layernorm", "embedding"}
      BY <1>1 DEF Elementwise
    <3> QED
      BY <1>1, <3>1 DEF ResultOf
  <2>3. Results(p)[e] = ElementWrite(p, i)
    BY <2>1, <2>2 DEF Results
  <2> QED
    BY <2>1, <2>3 DEF e
<1>5. ASSUME NEW e \in DOMAIN Results(p)
      PROVE  /\ e[2] \in 0..(p.numel - 1) /\ e = <<"out", e[2]>>
             /\ Results(p)[e] = ElementWrite(p, e[2])
  <2>1. PICK i \in 0..(p.numel - 1) : e = <<"out", i>>
    BY <1>2
  <2>2. e[2] = i
    BY <2>1
  <2> QED
    BY <1>4, <2>1, <2>2
<1>6. ASSUME NEW e \in DOMAIN Results(p) PROVE Results(p)[e].to = e
  BY <1>3, <1>5
<1> QED
  BY <1>3, <1>4, <1>5, <1>6

(* Products of matrices: batch, row and column of an element.              *)
BatchOfElement(p, e) == (e[2] \div p.n) \div p.m
RowOf(p, e)          == (e[2] \div p.n) % p.m
ColumnOf(p, e)       == e[2] % p.n

(* Products of matrices: one write for each batch, row and column.         *)
LEMMA MatrixUnits ==
  ASSUME NEW p, MatrixLaunch(p)
  PROVE  /\ \A b \in 0..(p.batch - 1), i \in 0..(p.m - 1), j \in 0..(p.n - 1) :
              LET w == DotWrite(p, b, i, j)
              IN  /\ w.to = <<"out", (b * p.m + i) * p.n + j>>
                  /\ w.to \in DOMAIN Results(p) /\ Results(p)[w.to] = w
                  /\ b = BatchOfElement(p, w.to) /\ i = RowOf(p, w.to) /\ j = ColumnOf(p, w.to)
         /\ \A e \in DOMAIN Results(p) :
              /\ e[2] \in 0..(p.batch * p.m * p.n - 1)
              /\ BatchOfElement(p, e) \in 0..(p.batch - 1)
              /\ RowOf(p, e) \in 0..(p.m - 1) /\ ColumnOf(p, e) \in 0..(p.n - 1)
              /\ Results(p)[e] = DotWrite(p, BatchOfElement(p, e), RowOf(p, e), ColumnOf(p, e))
              /\ Results(p)[e].to = e
<1> DEFINE A == p.batch
           B == p.m
           C == p.n
<1>1. /\ p.kernel \in {"gemm_bias_act", "bmm"} /\ p.kernel # "layernorm"
      /\ p.kernel \notin Elementwise
      /\ A \in Nat /\ B \in Nat /\ C \in Nat /\ Numel(p.shape) = A * B * C
  BY DEF MatrixLaunch, Elementwise
<1> HIDE DEF A, B, C
<1>2. DOMAIN Results(p) = {<<"out", f>> : f \in 0..(A * B * C - 1)}
  BY <1>1, OneResult
<1>3. ASSUME NEW e \in DOMAIN Results(p)
      PROVE  Results(p)[e] = DotWrite(p, BatchOfElement(p, e), RowOf(p, e), ColumnOf(p, e))
  <2>1. ResultOf(p, e) = DotWrite(p, BatchOfElement(p, e), RowOf(p, e), ColumnOf(p, e))
    BY <1>1 DEF ResultOf, BatchOfElement, RowOf, ColumnOf
  <2> QED
    BY <2>1 DEF Results
<1>4. ASSUME NEW b \in Nat, NEW i \in Nat, NEW j \in Nat
      PROVE  DotWrite(p, b, i, j).to = <<"out", (b * B + i) * C + j>>
  <2>1. b * B * C + i * C + j = (b * B + i) * C + j
    BY <1>1
  <2> QED
    BY <2>1 DEF DotWrite, Write, B, C
<1>5. ASSUME NEW b \in 0..(A - 1), NEW i \in 0..(B - 1), NEW j \in 0..(C - 1)
      PROVE  LET w == DotWrite(p, b, i, j)
             IN  /\ w.to = <<"out", (b * B + i) * C + j>>
                 /\ w.to \in DOMAIN Results(p) /\ Results(p)[w.to] = w
                 /\ b = BatchOfElement(p, w.to) /\ i = RowOf(p, w.to) /\ j = ColumnOf(p, w.to)
  <2> DEFINE f == (b * B + i) * C + j
             e == <<"out", f>>
  <2>1. /\ f \in 0..(A * B * C - 1) /\ f % C = j
        /\ (f \div C) \div B = b /\ (f \div C) % B = i
    <3>1. Coordinates(A, B, C, b, i, j)
      BY <1>1 DEF Coordinates
    <3> QED
      BY <3>1, CubePosition
  <2>2. DotWrite(p, b, i, j).to = e
    <3>1. b \in Nat /\ i \in Nat /\ j \in Nat
      BY <1>1
    <3> QED
      BY <1>4, <3>1
  <2> HIDE DEF f
  <2>3. e \in DOMAIN Results(p) /\ e[2] = f
    BY <1>2, <2>1
  <2>4. b = BatchOfElement(p, e) /\ i = RowOf(p, e) /\ j = ColumnOf(p, e)
    BY <2>1, <2>3 DEF BatchOfElement, RowOf, ColumnOf, B, C
  <2> HIDE DEF e
  <2>5. Results(p)[e] = DotWrite(p, b, i, j)
    BY <1>3, <2>3, <2>4
  <2> QED
    BY <2>2, <2>3, <2>4, <2>5 DEF e, f
<1>6. ASSUME NEW e \in DOMAIN Results(p)
      PROVE  /\ e[2] \in 0..(A * B * C - 1)
             /\ BatchOfElement(p, e) \in 0..(A - 1)
             /\ RowOf(p, e) \in 0..(B - 1) /\ ColumnOf(p, e) \in 0..(C - 1)
             /\ Results(p)[e].to = e
  <2> DEFINE f == e[2]
  <2>1. f \in 0..(A * B * C - 1) /\ e = <<"out", f>>
    BY <1>2
  <2> HIDE DEF f
  <2>2. /\ f \div C = ((f \div C) \div B) * B + ((f \div C) % B)
        /\ f = (f \div C) * C + (f % C) /\ f % C \in 0..(C - 1)
        /\ (f \div C) \div B \in 0..(A - 1) /\ (f \div C) % B \in 0..(B - 1)
    <3>1. Position(A, B, C, f)
      BY <1>1, <2>1 DEF Position
    <3> QED
      BY <3>1, CubeBelow
  <2>3. /\ BatchOfElement(p, e) = (f \div C) \div B
        /\ RowOf(p, e) = (f \div C) % B /\ ColumnOf(p, e) = f % C
    BY DEF BatchOfElement, RowOf, ColumnOf, f, B, C
  <2>4. Results(p)[e].to = <<"out", f>>
    <3> DEFINE b == BatchOfElement(p, e)
               i == RowOf(p, e)
               j == ColumnOf(p, e)
    <3>1. b \in Nat /\ i \in Nat /\ j \in Nat
      BY <1>1, <2>2, <2>3
    <3>2. (b * B + i) * C + j = f
      BY <2>2, <2>3
    <3> HIDE DEF b, i, j
    <3>3. DotWrite(p, b, i, j).to = <<"out", f>>
      BY <1>4, <3>1, <3>2
    <3> QED
      BY <1>3, <3>3 DEF b, i, j
  <2> QED
    BY <2>1, <2>2, <2>3, <2>4 DEF f
<1> QED
  BY <1>3, <1>5, <1>6 DEF A, B, C

(* softmax: line and place along dim of an element.                        *)
OuterOf(p, e) == (e[2] \div p.k) \div p.n
AlongOf(p, e) == (e[2] \div p.k) % p.n
InnerOf(p, e) == e[2] % p.k

(* softmax: each element belongs to one line.                              *)
LEMMA SoftmaxUnits ==
  ASSUME NEW p, SoftmaxLaunch(p)
  PROVE  /\ \A o \in 0..(p.m - 1), d \in 0..(p.n - 1), i \in 0..(p.k - 1) :
              LET w == SoftmaxWrite(p, o, d, i)
              IN  /\ w.to \in DOMAIN Results(p) /\ Results(p)[w.to] = w
                  /\ o = OuterOf(p, w.to) /\ i = InnerOf(p, w.to)
         /\ \A e \in DOMAIN Results(p) :
              /\ e[2] \in 0..(p.m * p.n * p.k - 1)
              /\ OuterOf(p, e) \in 0..(p.m - 1)
              /\ AlongOf(p, e) \in 0..(p.n - 1) /\ InnerOf(p, e) \in 0..(p.k - 1)
              /\ Results(p)[e] = SoftmaxWrite(p, OuterOf(p, e), AlongOf(p, e), InnerOf(p, e))
              /\ Results(p)[e].to = e
<1> DEFINE A == p.m
           B == p.n
           C == p.k
<1>1. /\ p.kernel = "softmax" /\ p.kernel # "layernorm"
      /\ p.kernel \notin Elementwise
      /\ A \in Nat /\ B \in Nat /\ C \in Nat /\ Numel(p.shape) = A * B * C
  BY DEF SoftmaxLaunch, Elementwise
<1> HIDE DEF A, B, C
<1>2. DOMAIN Results(p) = {<<"out", f>> : f \in 0..(A * B * C - 1)}
  BY <1>1, OneResult
<1>3. ASSUME NEW e \in DOMAIN Results(p)
      PROVE  Results(p)[e] = SoftmaxWrite(p, OuterOf(p, e), AlongOf(p, e), InnerOf(p, e))
  <2>1. ResultOf(p, e) = SoftmaxWrite(p, OuterOf(p, e), AlongOf(p, e), InnerOf(p, e))
    BY <1>1 DEF ResultOf, OuterOf, AlongOf, InnerOf
  <2> QED
    BY <2>1 DEF Results
<1>4. ASSUME NEW o, NEW d, NEW i
      PROVE  SoftmaxWrite(p, o, d, i).to = <<"out", (o * B + d) * C + i>>
  BY DEF SoftmaxWrite, Write, B, C
<1>5. ASSUME NEW o \in 0..(A - 1), NEW d \in 0..(B - 1), NEW i \in 0..(C - 1)
      PROVE  LET w == SoftmaxWrite(p, o, d, i)
             IN  /\ w.to \in DOMAIN Results(p) /\ Results(p)[w.to] = w
                 /\ o = OuterOf(p, w.to) /\ i = InnerOf(p, w.to)
  <2> DEFINE f == (o * B + d) * C + i
             e == <<"out", f>>
  <2>1. /\ f \in 0..(A * B * C - 1) /\ f % C = i
        /\ (f \div C) \div B = o /\ (f \div C) % B = d
    <3>1. Coordinates(A, B, C, o, d, i)
      BY <1>1 DEF Coordinates
    <3> QED
      BY <3>1, CubePosition
  <2>2. SoftmaxWrite(p, o, d, i).to = e
    BY <1>4
  <2> HIDE DEF f
  <2>3. e \in DOMAIN Results(p) /\ e[2] = f
    BY <1>2, <2>1
  <2>4. o = OuterOf(p, e) /\ d = AlongOf(p, e) /\ i = InnerOf(p, e)
    BY <2>1, <2>3 DEF OuterOf, AlongOf, InnerOf, B, C
  <2> HIDE DEF e
  <2>5. Results(p)[e] = SoftmaxWrite(p, o, d, i)
    BY <1>3, <2>3, <2>4
  <2> QED
    BY <2>2, <2>3, <2>4, <2>5 DEF e, f
<1>6. ASSUME NEW e \in DOMAIN Results(p)
      PROVE  /\ e[2] \in 0..(A * B * C - 1)
             /\ OuterOf(p, e) \in 0..(A - 1)
             /\ AlongOf(p, e) \in 0..(B - 1) /\ InnerOf(p, e) \in 0..(C - 1)
             /\ Results(p)[e].to = e
  <2> DEFINE f == e[2]
  <2>1. f \in 0..(A * B * C - 1) /\ e = <<"out", f>>
    BY <1>2
  <2> HIDE DEF f
  <2>2. /\ f \div C = ((f \div C) \div B) * B + ((f \div C) % B)
        /\ f = (f \div C) * C + (f % C) /\ f % C \in 0..(C - 1)
        /\ (f \div C) \div B \in 0..(A - 1) /\ (f \div C) % B \in 0..(B - 1)
    <3>1. Position(A, B, C, f)
      BY <1>1, <2>1 DEF Position
    <3> QED
      BY <3>1, CubeBelow
  <2>3. /\ OuterOf(p, e) = (f \div C) \div B
        /\ AlongOf(p, e) = (f \div C) % B /\ InnerOf(p, e) = f % C
    BY DEF OuterOf, AlongOf, InnerOf, f, B, C
  <2>4. Results(p)[e].to = <<"out", f>>
    <3> DEFINE o == OuterOf(p, e)
               d == AlongOf(p, e)
               i == InnerOf(p, e)
    <3>1. (o * B + d) * C + i = f
      BY <2>2, <2>3
    <3> HIDE DEF o, d, i
    <3>2. SoftmaxWrite(p, o, d, i).to = <<"out", f>>
      BY <1>4, <3>1
    <3> QED
      BY <1>3, <3>2 DEF o, d, i
  <2> QED
    BY <2>1, <2>2, <2>3, <2>4 DEF f
<1> QED
  BY <1>3, <1>5, <1>6 DEF A, B, C

(* Rows and columns of the results of layernorm and embedding.             *)
InRow(p, e) == e[2] \div p.n
AtColumn(p, e) == e[2] % p.n

(* layernorm: each row is written with its two statistics.                 *)
NormRow(p, e) == IF e[1] = "out" THEN InRow(p, e) ELSE e[2]

(* layernorm: a row and its statistics belong to one row number.           *)
LEMMA NormUnits ==
  ASSUME NEW p, NEW z, NEW bias, NormLaunch(p, z, bias)
  PROVE  /\ \A r \in 0..(p.m - 1), j \in 0..(p.n - 1) :
              LET w == NormWrite(p, r, j)
              IN  /\ w.to \in DOMAIN Results(p) /\ Results(p)[w.to] = w
                  /\ r = NormRow(p, w.to)
         /\ \A r \in 0..(p.m - 1), name \in {"mean", "rstd"} :
              LET w == StatWrite(p, name, r)
              IN  /\ w.to \in DOMAIN Results(p) /\ Results(p)[w.to] = w
                  /\ r = NormRow(p, w.to)
         /\ \A e \in DOMAIN Results(p) :
              /\ NormRow(p, e) \in 0..(p.m - 1) /\ Results(p)[e].to = e
              /\ \/ /\ e[1] = "out" /\ AtColumn(p, e) \in 0..(p.n - 1)
                    /\ Results(p)[e] = NormWrite(p, NormRow(p, e), AtColumn(p, e))
                 \/ /\ e[1] \in {"mean", "rstd"}
                    /\ Results(p)[e] = StatWrite(p, e[1], NormRow(p, e))
<1>1. /\ p.kernel = "layernorm" /\ p.kernel \notin Elementwise
      /\ p.m \in Nat /\ p.n \in Nat /\ p.n > 0 /\ Numel(p.shape) = p.m * p.n
  BY DEF NormLaunch, Elementwise
<1>2. DOMAIN Results(p) = {<<"out", f>> : f \in 0..(p.m * p.n - 1)}
                            \cup ({"mean", "rstd"} \X (0..(p.m - 1)))
  BY <1>1 DEF Results, Outputs
<1>3. ASSUME NEW e \in DOMAIN Results(p)
      PROVE  Results(p)[e] = IF e[1] = "out" THEN NormWrite(p, InRow(p, e), AtColumn(p, e))
                                             ELSE StatWrite(p, e[1], e[2])
  <2>1. ResultOf(p, e) = IF e[1] = "out" THEN NormWrite(p, InRow(p, e), AtColumn(p, e))
                                         ELSE StatWrite(p, e[1], e[2])
    BY <1>1 DEF ResultOf, InRow, AtColumn
  <2> QED
    BY <2>1 DEF Results
<1>4. ASSUME NEW r, NEW j PROVE NormWrite(p, r, j).to = <<"out", r * p.n + j>>
  BY DEF NormWrite, Write
<1>5. ASSUME NEW r, NEW name PROVE StatWrite(p, name, r).to = <<name, r>>
  BY DEF StatWrite, Write
<1>6. ASSUME NEW r \in 0..(p.m - 1), NEW j \in 0..(p.n - 1)
      PROVE  LET w == NormWrite(p, r, j)
             IN  w.to \in DOMAIN Results(p) /\ Results(p)[w.to] = w /\ r = NormRow(p, w.to)
  <2> DEFINE f == r * p.n + j
             e == <<"out", f>>
  <2>1. f \in 0..(p.m * p.n - 1) /\ f \div p.n = r /\ f % p.n = j
    <3>1. f \in 0..(p.m * p.n - 1)
      BY <1>1, InMatrix
    <3>2. r \in Nat /\ p.n \in Nat
      BY <1>1
    <3>3. f \div p.n = r /\ f % p.n = j
      BY <3>2, PositionOf
    <3> QED
      BY <3>1, <3>3
  <2>2. NormWrite(p, r, j).to = e
    BY <1>4
  <2> HIDE DEF f
  <2>3. e \in DOMAIN Results(p) /\ e[1] = "out" /\ e[2] = f
    BY <1>2, <2>1
  <2> HIDE DEF e
  <2>4. InRow(p, e) = r /\ AtColumn(p, e) = j
    BY <2>1, <2>3 DEF InRow, AtColumn
  <2>5. Results(p)[e] = NormWrite(p, r, j)
    BY <1>3, <2>3, <2>4
  <2> QED
    BY <2>2, <2>3, <2>4, <2>5 DEF NormRow
<1>7. ASSUME NEW r \in 0..(p.m - 1), NEW name \in {"mean", "rstd"}
      PROVE  LET w == StatWrite(p, name, r)
             IN  w.to \in DOMAIN Results(p) /\ Results(p)[w.to] = w /\ r = NormRow(p, w.to)
  <2> DEFINE e == <<name, r>>
  <2>1. e \in DOMAIN Results(p) /\ e[1] = name /\ e[1] # "out" /\ e[2] = r
    BY <1>2
  <2>2. StatWrite(p, name, r).to = e
    BY <1>5
  <2> HIDE DEF e
  <2>3. Results(p)[e] = StatWrite(p, name, r)
    BY <1>3, <2>1
  <2> QED
    BY <2>1, <2>2, <2>3 DEF NormRow
<1>8. ASSUME NEW e \in DOMAIN Results(p)
      PROVE  /\ NormRow(p, e) \in 0..(p.m - 1) /\ Results(p)[e].to = e
             /\ \/ /\ e[1] = "out" /\ AtColumn(p, e) \in 0..(p.n - 1)
                   /\ Results(p)[e] = NormWrite(p, NormRow(p, e), AtColumn(p, e))
                \/ /\ e[1] \in {"mean", "rstd"}
                   /\ Results(p)[e] = StatWrite(p, e[1], NormRow(p, e))
  <2>1. CASE e \in {<<"out", f>> : f \in 0..(p.m * p.n - 1)}
    <3> DEFINE f == e[2]
    <3>1. f \in 0..(p.m * p.n - 1) /\ e = <<"out", f>> /\ e[1] = "out" /\ f \in Nat
      BY <2>1
    <3> HIDE DEF f
    <3>2. /\ f \div p.n \in 0..(p.m - 1) /\ f % p.n \in 0..(p.n - 1)
          /\ f = (f \div p.n) * p.n + (f % p.n)
      BY <1>1, <3>1, RowBelow, RowAndColumn
    <3>3. InRow(p, e) = f \div p.n /\ AtColumn(p, e) = f % p.n
      BY DEF InRow, AtColumn, f
    <3>4. Results(p)[e] = NormWrite(p, f \div p.n, f % p.n)
      BY <1>3, <3>1, <3>3
    <3>5. Results(p)[e].to = e
      BY <1>4, <3>1, <3>2, <3>4
    <3> QED
      BY <3>1, <3>2, <3>3, <3>4, <3>5 DEF NormRow
  <2>2. CASE e \in {"mean", "rstd"} \X (0..(p.m - 1))
    <3>1. e[1] \in {"mean", "rstd"} /\ e[1] # "out" /\ e[2] \in 0..(p.m - 1) /\ e = <<e[1], e[2]>>
      BY <2>2
    <3>2. Results(p)[e] = StatWrite(p, e[1], e[2])
      BY <1>3, <3>1
    <3>3. Results(p)[e].to = e
      BY <1>5, <3>1, <3>2
    <3> QED
      BY <3>1, <3>2, <3>3 DEF NormRow
  <2> QED
    BY <1>2, <2>1, <2>2
<1> QED
  BY <1>6, <1>7, <1>8

(* embedding: rows of the table.                                           *)
LEMMA EmbeddingUnits ==
  ASSUME NEW p, EmbeddingLaunch(p)
  PROVE  /\ \A r \in 0..(p.numel - 1), j \in 0..(p.n - 1) :
              LET w == EmbeddingWrite(p, r, j)
              IN  /\ w.to = <<"out", r * p.n + j>>
                  /\ w.to \in DOMAIN Results(p) /\ Results(p)[w.to] = w
                  /\ r = InRow(p, w.to) /\ j = AtColumn(p, w.to)
         /\ \A e \in DOMAIN Results(p) :
              /\ e[2] \in 0..(p.numel * p.n - 1)
              /\ InRow(p, e) \in 0..(p.numel - 1) /\ AtColumn(p, e) \in 0..(p.n - 1)
              /\ Results(p)[e] = EmbeddingWrite(p, InRow(p, e), AtColumn(p, e))
              /\ Results(p)[e].to = e
<1>1. /\ p.kernel = "embedding" /\ p.kernel \notin Elementwise
      /\ p.numel \in Nat /\ p.n \in Nat /\ p.n > 0 /\ Numel(p.shape) = p.numel * p.n
  BY DEF EmbeddingLaunch, Elementwise
<1>2. DOMAIN Results(p) = {<<"out", f>> : f \in 0..(p.numel * p.n - 1)}
  BY <1>1, OneResult
<1>3. ASSUME NEW e \in DOMAIN Results(p)
      PROVE  Results(p)[e] = EmbeddingWrite(p, InRow(p, e), AtColumn(p, e))
  <2>1. ResultOf(p, e) = EmbeddingWrite(p, InRow(p, e), AtColumn(p, e))
    BY <1>1 DEF ResultOf, InRow, AtColumn
  <2> QED
    BY <2>1 DEF Results
<1>4. ASSUME NEW r, NEW j PROVE EmbeddingWrite(p, r, j).to = <<"out", r * p.n + j>>
  BY DEF EmbeddingWrite, Write
<1>5. ASSUME NEW r \in 0..(p.numel - 1), NEW j \in 0..(p.n - 1)
      PROVE  LET w == EmbeddingWrite(p, r, j)
             IN  /\ w.to = <<"out", r * p.n + j>>
                 /\ w.to \in DOMAIN Results(p) /\ Results(p)[w.to] = w
                 /\ r = InRow(p, w.to) /\ j = AtColumn(p, w.to)
  <2> DEFINE f == r * p.n + j
             e == <<"out", f>>
  <2>1. f \in 0..(p.numel * p.n - 1) /\ f \div p.n = r /\ f % p.n = j
    <3>1. f \in 0..(p.numel * p.n - 1)
      BY <1>1, InMatrix
    <3>2. r \in Nat /\ p.n \in Nat
      BY <1>1
    <3>3. f \div p.n = r /\ f % p.n = j
      BY <3>2, PositionOf
    <3> QED
      BY <3>1, <3>3
  <2>2. EmbeddingWrite(p, r, j).to = e
    BY <1>4
  <2> HIDE DEF f
  <2>3. e \in DOMAIN Results(p) /\ e[2] = f
    BY <1>2, <2>1
  <2> HIDE DEF e
  <2>4. InRow(p, e) = r /\ AtColumn(p, e) = j
    BY <2>1, <2>3 DEF InRow, AtColumn
  <2>5. Results(p)[e] = EmbeddingWrite(p, r, j)
    BY <1>3, <2>3, <2>4
  <2> QED
    BY <2>2, <2>3, <2>4, <2>5 DEF e, f
<1>6. ASSUME NEW e \in DOMAIN Results(p)
      PROVE  /\ e[2] \in 0..(p.numel * p.n - 1)
             /\ InRow(p, e) \in 0..(p.numel - 1) /\ AtColumn(p, e) \in 0..(p.n - 1)
             /\ Results(p)[e].to = e
  <2> DEFINE f == e[2]
  <2>1. f \in 0..(p.numel * p.n - 1) /\ e = <<"out", f>> /\ f \in Nat
    BY <1>2
  <2> HIDE DEF f
  <2>2. /\ f \div p.n \in 0..(p.numel - 1) /\ f % p.n \in 0..(p.n - 1)
        /\ f = (f \div p.n) * p.n + (f % p.n)
    BY <1>1, <2>1, RowBelow, RowAndColumn
  <2>3. InRow(p, e) = f \div p.n /\ AtColumn(p, e) = f % p.n
    BY DEF InRow, AtColumn, f
  <2>4. Results(p)[e] = EmbeddingWrite(p, f \div p.n, f % p.n)
    BY <1>3, <2>3
  <2>5. Results(p)[e].to = e
    BY <1>4, <2>1, <2>2, <2>4
  <2> QED
    BY <2>1, <2>2, <2>3, <2>5 DEF f
<1> QED
  BY <1>3, <1>5, <1>6

-----------------------------------------------------------------------------
(* What the iterations and work-items write.                               *)
LEMMA ItemWrites ==
  ASSUME NEW p
  PROVE  /\ \A i : ElementItem(p, i) = Item({ElementWrite(p, i)})
         /\ \A b, i, j : DeviceDot(p, b, i, j) = Item({DotWrite(p, b, i, j)})
         /\ \A r : LayerNormItem(p, r) =
              Item({NormWrite(p, r, j) : j \in 0..(p.n - 1)}
                     \cup {StatWrite(p, "mean", r), StatWrite(p, "rstd", r)})
         /\ \A o, i : SoftmaxItem(p, o, i).writes =
              {SoftmaxWrite(p, o, d, i) : d \in 0..(p.n - 1)}
         /\ \A writes : Item(writes).writes = writes
<1>1. \A i : ElementItem(p, i) = Item({ElementWrite(p, i)})
  BY DEF ElementItem, ElementWrite
<1>2. \A b, i, j : DeviceDot(p, b, i, j) = Item({DotWrite(p, b, i, j)})
  BY DEF DeviceDot, DotWrite
<1>3. \A r : LayerNormItem(p, r) =
        Item({NormWrite(p, r, j) : j \in 0..(p.n - 1)}
               \cup {StatWrite(p, "mean", r), StatWrite(p, "rstd", r)})
  BY DEF LayerNormItem, NormWrite, StatWrite
<1>4. \A writes : Item(writes).writes = writes
  BY DEF Item
<1>5. \A o, i : SoftmaxItem(p, o, i).writes =
        {SoftmaxWrite(p, o, d, i) : d \in 0..(p.n - 1)}
  BY DEF SoftmaxItem, SoftmaxWrite, Item
<1> QED
  BY <1>1, <1>2, <1>3, <1>4, <1>5

(* The host adds up a product in the order of the device.                  *)
LEMMA SameDot ==
  ASSUME NEW p, p.k \in Nat, NEW b, NEW i, NEW j
  PROVE  HostDot(p, b, i, j) = Item({DotWrite(p, b, i, j)})
<1> DEFINE order == TiledOrder(p.k)
           first == b * p.m * p.k + i * p.k
<1>1. order = [q \in 1..p.k |-> q - 1]
  BY InOrder
<1> HIDE DEF order
<1>2. DOMAIN order = 1..p.k /\ \A q \in 1..p.k : order[q] = q - 1
  BY <1>1
<1>3. [q \in DOMAIN order |-> Fetch(p.src[1], first + order[q])] = Line(p.src[1], first, 1, p.k)
  <2>1. \A q \in 1..p.k : (q - 1) * 1 = order[q]
    BY <1>2
  <2> QED
    BY <1>2, <2>1 DEF Line
<1>4. [q \in DOMAIN order |-> Fetch(p.src[2], b * p.k * p.n + Operand(p, j, order[q]))]
        = [q \in 1..p.k |-> Fetch(p.src[2], b * p.k * p.n + Operand(p, j, q - 1))]
  BY <1>2
<1> QED
  BY <1>3, <1>4 DEF HostDot, DotWrite, order

(* Every kernel of the host writes each element of its result once.        *)
LEMMA HostElementOnce ==
  ASSUME NEW p, ElementLaunch(p)
  PROVE  \E own : Once(HostItems(p), Results(p), own)
<1> DEFINE items == HostItems(p)
           W == Results(p)
           own == [e \in DOMAIN W |-> e[2]]
<1>1. items = [i \in 0..(p.numel - 1) |-> ElementItem(p, i)]
  <2>1. p.kernel \in Elementwise
    BY DEF ElementLaunch
  <2>2. p.kernel \notin {"gemm_bias_act", "bmm", "softmax", "layernorm", "embedding"}
    BY <2>1 DEF Elementwise
  <2> QED
    BY <2>1, <2>2 DEF HostItems
<1>2. DOMAIN items = 0..(p.numel - 1)
  BY <1>1
<1>3. \A i \in 0..(p.numel - 1) : items[i].writes = {ElementWrite(p, i)}
  BY <1>1, ItemWrites
<1>4. \A e \in DOMAIN W :
        W[e].to = e /\ own[e] \in DOMAIN items /\ W[e] \in items[own[e]].writes
  BY <1>2, <1>3, ElementUnits
<1>5. ASSUME NEW i \in DOMAIN items, NEW w \in items[i].writes
      PROVE  w.to \in DOMAIN W /\ W[w.to] = w /\ own[w.to] = i
  <2>1. w = ElementWrite(p, i) /\ i \in 0..(p.numel - 1)
    BY <1>2, <1>3
  <2>2. w.to = <<"out", i>> /\ w.to \in DOMAIN W /\ W[w.to] = w
    BY <2>1, ElementUnits
  <2> QED
    BY <2>2
<1> HIDE DEF items, W, own
<1>6. Once(items, W, own)
  BY <1>4, <1>5 DEF Once
<1> QED
  BY <1>6 DEF items, W

(* gemm_bias_act_f32 and bmm_f32, by tiles.                                *)
LEMMA HostMatrixOnce ==
  ASSUME NEW p, MatrixLaunch(p)
  PROVE  \E own : Once(HostItems(p), Results(p), own)
<1> DEFINE items == HostItems(p)
           W == Results(p)
           At(e) == <<BatchOfElement(p, e), <<TileOf(RowOf(p, e)), RowOf(p, e)>>,
                      <<TileOf(ColumnOf(p, e)), ColumnOf(p, e)>>>>
           own == [e \in DOMAIN W |-> At(e)]
           Its == (0..(p.batch - 1)) \X Tiled(p.m) \X Tiled(p.n)
<1>0. p.m \in Nat /\ p.n \in Nat /\ p.k \in Nat
  BY DEF MatrixLaunch
<1>1. items = [it \in Its |-> HostDot(p, it[1], it[2][2], it[3][2])]
  <2>1. p.kernel \in {"gemm_bias_act", "bmm"}
    BY DEF MatrixLaunch
  <2>2. p.kernel \notin Elementwise
    BY <2>1 DEF Elementwise
  <2> QED
    BY <2>1, <2>2 DEF HostItems, HostGemm
<1>2. DOMAIN items = Its
  BY <1>1
<1>3. \A it \in Its : items[it].writes = {DotWrite(p, it[1], it[2][2], it[3][2])}
  <2> SUFFICES ASSUME NEW it \in Its
               PROVE  items[it].writes = {DotWrite(p, it[1], it[2][2], it[3][2])}
    OBVIOUS
  <2>1. items[it] = HostDot(p, it[1], it[2][2], it[3][2])
    BY <1>1
  <2>2. items[it] = Item({DotWrite(p, it[1], it[2][2], it[3][2])})
    BY <1>0, <2>1, SameDot
  <2> QED
    BY <2>2, ItemWrites
<1>4. ASSUME NEW e \in DOMAIN W
      PROVE  W[e].to = e /\ own[e] \in DOMAIN items /\ W[e] \in items[own[e]].writes
  <2> DEFINE b == BatchOfElement(p, e)
             i == RowOf(p, e)
             j == ColumnOf(p, e)
  <2>1. /\ b \in 0..(p.batch - 1) /\ i \in 0..(p.m - 1) /\ j \in 0..(p.n - 1)
        /\ W[e] = DotWrite(p, b, i, j) /\ W[e].to = e
    BY MatrixUnits
  <2>2. own[e] = <<b, <<TileOf(i), i>>, <<TileOf(j), j>>>>
    OBVIOUS
  <2> HIDE DEF b, i, j, W, items, own
  <2>3. <<TileOf(i), i>> \in Tiled(p.m) /\ <<TileOf(j), j>> \in Tiled(p.n)
    BY <1>0, <2>1, TilesCover
  <2>4. own[e] \in Its
    BY <2>1, <2>2, <2>3
  <2>5. own[e][1] = b /\ own[e][2][2] = i /\ own[e][3][2] = j
    BY <2>2
  <2>6. items[own[e]].writes = {DotWrite(p, b, i, j)}
    BY <1>3, <2>4, <2>5
  <2> QED
    BY <1>2, <2>1, <2>4, <2>6
<1>5. ASSUME NEW it \in DOMAIN items, NEW w \in items[it].writes
      PROVE  w.to \in DOMAIN W /\ W[w.to] = w /\ own[w.to] = it
  <2> DEFINE b == it[1]
             i == it[2][2]
             j == it[3][2]
  <2>1. /\ it[2] \in Tiled(p.m) /\ it[3] \in Tiled(p.n) /\ b \in 0..(p.batch - 1)
        /\ it = <<it[1], it[2], it[3]>> /\ w = DotWrite(p, b, i, j)
    BY <1>2, <1>3
  <2>2. /\ i \in 0..(p.m - 1) /\ it[2] = <<TileOf(i), i>>
        /\ j \in 0..(p.n - 1) /\ it[3] = <<TileOf(j), j>>
    BY <1>0, <2>1, TilesCover
  <2>3. it = <<b, <<TileOf(i), i>>, <<TileOf(j), j>>>>
    BY <2>1, <2>2
  <2> HIDE DEF b, i, j
  <2>4. /\ w.to \in DOMAIN W /\ W[w.to] = w /\ b = BatchOfElement(p, w.to)
        /\ i = RowOf(p, w.to) /\ j = ColumnOf(p, w.to)
    BY <2>1, <2>2, MatrixUnits
  <2>5. own[w.to] = <<b, <<TileOf(i), i>>, <<TileOf(j), j>>>>
    BY <2>4
  <2> QED
    BY <2>3, <2>4, <2>5
<1> HIDE DEF items, W, own
<1>6. Once(items, W, own)
  BY <1>4, <1>5 DEF Once
<1> QED
  BY <1>6 DEF items, W

(* softmax_f32, line by line.                                              *)
LEMMA HostSoftmaxOnce ==
  ASSUME NEW p, SoftmaxLaunch(p)
  PROVE  \E own : Once(HostItems(p), Results(p), own)
<1> DEFINE items == HostItems(p)
           W == Results(p)
           own == [e \in DOMAIN W |-> <<OuterOf(p, e), InnerOf(p, e)>>]
           Its == (0..(p.m - 1)) \X (0..(p.k - 1))
<1>1. items = [it \in Its |-> SoftmaxItem(p, it[1], it[2])]
  <2>1. p.kernel = "softmax" /\ p.kernel \notin Elementwise
    BY DEF SoftmaxLaunch, Elementwise
  <2> QED
    BY <2>1 DEF HostItems
<1>2. DOMAIN items = Its
  BY <1>1
<1>3. \A it \in Its :
        items[it].writes = {SoftmaxWrite(p, it[1], d, it[2]) : d \in 0..(p.n - 1)}
  BY <1>1, ItemWrites
<1>4. ASSUME NEW e \in DOMAIN W
      PROVE  W[e].to = e /\ own[e] \in DOMAIN items /\ W[e] \in items[own[e]].writes
  <2> DEFINE o == OuterOf(p, e)
             d == AlongOf(p, e)
             i == InnerOf(p, e)
  <2>1. /\ o \in 0..(p.m - 1) /\ d \in 0..(p.n - 1) /\ i \in 0..(p.k - 1)
        /\ W[e] = SoftmaxWrite(p, o, d, i) /\ W[e].to = e
    BY SoftmaxUnits
  <2>2. own[e] = <<o, i>>
    OBVIOUS
  <2> HIDE DEF o, d, i, W, items, own
  <2>3. own[e] \in Its /\ own[e][1] = o /\ own[e][2] = i
    BY <2>1, <2>2
  <2>4. items[own[e]].writes = {SoftmaxWrite(p, o, x, i) : x \in 0..(p.n - 1)}
    BY <1>3, <2>3
  <2> QED
    BY <1>2, <2>1, <2>3, <2>4
<1>5. ASSUME NEW it \in DOMAIN items, NEW w \in items[it].writes
      PROVE  w.to \in DOMAIN W /\ W[w.to] = w /\ own[w.to] = it
  <2>1. it[1] \in 0..(p.m - 1) /\ it[2] \in 0..(p.k - 1) /\ it = <<it[1], it[2]>>
    BY <1>2
  <2>2. PICK d \in 0..(p.n - 1) : w = SoftmaxWrite(p, it[1], d, it[2])
    BY <1>2, <1>3
  <2>3. /\ w.to \in DOMAIN W /\ W[w.to] = w
        /\ it[1] = OuterOf(p, w.to) /\ it[2] = InnerOf(p, w.to)
    BY <2>1, <2>2, SoftmaxUnits
  <2> QED
    BY <2>1, <2>3
<1> HIDE DEF items, W, own
<1>6. Once(items, W, own)
  BY <1>4, <1>5 DEF Once
<1> QED
  BY <1>6 DEF items, W

(* layernorm_f32, row by row.                                              *)
LEMMA HostNormOnce ==
  ASSUME NEW p, NEW z, NEW bias, NormLaunch(p, z, bias)
  PROVE  \E own : Once(HostItems(p), Results(p), own)
<1> DEFINE items == HostItems(p)
           W == Results(p)
           own == [e \in DOMAIN W |-> NormRow(p, e)]
<1>1. items = [r \in 0..(p.m - 1) |-> LayerNormItem(p, r)]
  <2>1. p.kernel = "layernorm" /\ p.kernel \notin Elementwise
    BY DEF NormLaunch, Elementwise
  <2> QED
    BY <2>1 DEF HostItems
<1>2. DOMAIN items = 0..(p.m - 1)
  BY <1>1
<1>3. \A r \in 0..(p.m - 1) :
        items[r].writes = {NormWrite(p, r, j) : j \in 0..(p.n - 1)}
                            \cup {StatWrite(p, "mean", r), StatWrite(p, "rstd", r)}
  BY <1>1, ItemWrites
<1>4. ASSUME NEW e \in DOMAIN W
      PROVE  W[e].to = e /\ own[e] \in DOMAIN items /\ W[e] \in items[own[e]].writes
  <2>1. /\ NormRow(p, e) \in 0..(p.m - 1) /\ W[e].to = e
        /\ \/ /\ e[1] = "out" /\ AtColumn(p, e) \in 0..(p.n - 1)
              /\ W[e] = NormWrite(p, NormRow(p, e), AtColumn(p, e))
           \/ /\ e[1] \in {"mean", "rstd"}
              /\ W[e] = StatWrite(p, e[1], NormRow(p, e))
    BY NormUnits
  <2>2. own[e] = NormRow(p, e)
    OBVIOUS
  <2> HIDE DEF W, items, own
  <2> QED
    BY <1>2, <1>3, <2>1, <2>2
<1>5. ASSUME NEW r \in DOMAIN items, NEW w \in items[r].writes
      PROVE  w.to \in DOMAIN W /\ W[w.to] = w /\ own[w.to] = r
  <2>1. r \in 0..(p.m - 1)
    BY <1>2
  <2>2. \/ \E j \in 0..(p.n - 1) : w = NormWrite(p, r, j)
        \/ \E name \in {"mean", "rstd"} : w = StatWrite(p, name, r)
    BY <1>3, <2>1
  <2>3. w.to \in DOMAIN W /\ W[w.to] = w /\ r = NormRow(p, w.to)
    BY <2>1, <2>2, NormUnits
  <2> QED
    BY <2>3
<1> HIDE DEF items, W, own
<1>6. Once(items, W, own)
  BY <1>4, <1>5 DEF Once
<1> QED
  BY <1>6 DEF items, W

(* embedding_f32, row by row.                                              *)
LEMMA HostEmbeddingOnce ==
  ASSUME NEW p, EmbeddingLaunch(p)
  PROVE  \E own : Once(HostItems(p), Results(p), own)
<1> DEFINE items == HostItems(p)
           W == Results(p)
           own == [e \in DOMAIN W |-> InRow(p, e)]
<1>1. items = [r \in 0..(p.numel - 1) |-> Item({EmbeddingWrite(p, r, j) : j \in 0..(p.n - 1)})]
  <2>1. p.kernel = "embedding" /\ p.kernel \notin Elementwise
    BY DEF EmbeddingLaunch, Elementwise
  <2> QED
    BY <2>1 DEF HostItems
<1>2. DOMAIN items = 0..(p.numel - 1)
  BY <1>1
<1>3. \A r \in 0..(p.numel - 1) :
        items[r].writes = {EmbeddingWrite(p, r, j) : j \in 0..(p.n - 1)}
  BY <1>1, ItemWrites
<1>4. ASSUME NEW e \in DOMAIN W
      PROVE  W[e].to = e /\ own[e] \in DOMAIN items /\ W[e] \in items[own[e]].writes
  <2>1. /\ InRow(p, e) \in 0..(p.numel - 1) /\ AtColumn(p, e) \in 0..(p.n - 1)
        /\ W[e] = EmbeddingWrite(p, InRow(p, e), AtColumn(p, e)) /\ W[e].to = e
    BY EmbeddingUnits
  <2>2. own[e] = InRow(p, e)
    OBVIOUS
  <2> HIDE DEF W, items, own
  <2> QED
    BY <1>2, <1>3, <2>1, <2>2
<1>5. ASSUME NEW r \in DOMAIN items, NEW w \in items[r].writes
      PROVE  w.to \in DOMAIN W /\ W[w.to] = w /\ own[w.to] = r
  <2>1. r \in 0..(p.numel - 1)
    BY <1>2
  <2>2. PICK j \in 0..(p.n - 1) : w = EmbeddingWrite(p, r, j)
    BY <1>3, <2>1
  <2>3. w.to \in DOMAIN W /\ W[w.to] = w /\ r = InRow(p, w.to)
    BY <2>1, <2>2, EmbeddingUnits
  <2> QED
    BY <2>3
<1> HIDE DEF items, W, own
<1>6. Once(items, W, own)
  BY <1>4, <1>5 DEF Once
<1> QED
  BY <1>6 DEF items, W

(* All kernels of the host.                                                *)
LEMMA HostOnce ==
  ASSUME NEW c, NEW p, Launched(c, p)
  PROVE  \E own : Once(HostItems(p), Results(p), own)
BY KernelTells, HostElementOnce, HostMatrixOnce, HostSoftmaxOnce, HostNormOnce,
   HostEmbeddingOnce

-----------------------------------------------------------------------------
(* The casts of launch().                                                  *)
Cast(p) == [p EXCEPT !.numel = AsInt(@), !.m = AsInt(@), !.n = AsInt(@),
                     !.k = AsInt(@), !.batch = AsInt(@)]

(* The cast keeps all fields but the dimensions.                           *)
LEMMA CastFields ==
  ASSUME NEW p, IsParams(p)
  PROVE  LET q == Cast(p)
         IN  /\ q.kernel = p.kernel /\ q.src = p.src /\ q.transB = p.transB /\ q.ids = p.ids
             /\ q.shape = p.shape /\ q.numel = AsInt(p.numel) /\ q.m = AsInt(p.m)
             /\ q.n = AsInt(p.n) /\ q.k = AsInt(p.k) /\ q.batch = AsInt(p.batch)
BY DEF Cast, IsParams, NoParams

(* A natural number in the range of int survives the cast.                 *)
LEMMA SmallKeeps ==
  ASSUME NEW x \in Nat, x <= MaxInt
  PROVE  AsInt(x) = x
BY CastKeeps, WidthsAssumption

(* An array that fits has no more elements than the largest int.           *)
LEMMA ArrayFits ==
  ASSUME NEW p, FitsInt(p), NEW s \in DOMAIN p.src, NEW n \in Nat, Array(p.src[s], n)
  PROVE  n <= MaxInt /\ (DOMAIN p.src[s] # {} => n > 0)
<1>1. DOMAIN p.src[s] = 0..(n - 1)
  BY DEF Array
<1>2. Cardinality(0..(n - 1)) = n
  BY FS_Interval
<1>3. MaxInt \in Nat
  BY WidthsAssumption
<1> QED
  BY <1>1, <1>2, <1>3 DEF FitsInt

(* A grid of no more elements than the largest int has gids that are ints. *)
LEMMA GidsKeep ==
  ASSUME NEW p, Total(p) \in Nat, Total(p) <= MaxInt
  PROVE  /\ \A gid \in 0..(Total(p) - 1) : gid \in 0..(Grid(p) - 1)
         /\ \A gid \in 0..(Grid(p) - 1) : gid \in Nat /\ AsInt(gid) = gid
         /\ DeviceItems(p) = [gid \in 0..(Grid(p) - 1) |-> DeviceItem(Cast(p), gid)]
<1>1. Grid(p) \in Nat /\ Total(p) <= Grid(p) /\ Grid(p) - 1 <= MaxInt /\ MaxInt \in Nat
  BY GridCovers, WidthsAssumption
<1>2. \A gid \in 0..(Grid(p) - 1) : gid \in Nat /\ AsInt(gid) = gid
  BY <1>1, SmallKeeps
<1>3. DeviceItems(p) = [gid \in 0..(Grid(p) - 1) |-> DeviceItem(Cast(p), AsInt(gid))]
  BY DEF DeviceItems, Cast
<1> QED
  BY <1>1, <1>2, <1>3

(* The grid of a launch that has its buffers and fits into ints writes     *)
(* each element of the result once, as the host does.                      *)
LEMMA DeviceElementOnce ==
  ASSUME NEW p, ElementLaunch(p), IsParams(p), FitsInt(p)
  PROVE  \E own : Once(DeviceItems(p), Results(p), own)
<1> DEFINE items == DeviceItems(p)
           W == Results(p)
           own == [e \in DOMAIN W |-> e[2]]
           n == p.numel
           q == Cast(p)
<1>1. /\ p.kernel \in Elementwise
      /\ p.kernel \notin {"gemm_bias_act", "bmm", "softmax", "layernorm", "embedding"}
      /\ n \in Nat /\ n <= MaxInt
  BY DEF ElementLaunch, Elementwise, FitsInt
<1>2. q.kernel = p.kernel /\ q.src = p.src /\ q.numel = n
  BY <1>1, CastFields, SmallKeeps
<1>3. Total(p) = n
  BY <1>1 DEF Total
<1> HIDE DEF q
<1>4. /\ items = [gid \in 0..(Grid(p) - 1) |-> DeviceItem(q, gid)]
      /\ \A gid \in 0..(n - 1) : gid \in 0..(Grid(p) - 1)
      /\ \A gid \in 0..(Grid(p) - 1) : gid \in Nat
  BY <1>1, <1>3, GidsKeep DEF q
<1>5. ASSUME NEW gid \in 0..(Grid(p) - 1)
      PROVE  items[gid].writes = IF gid < n THEN {ElementWrite(p, gid)} ELSE {}
  <2>1. items[gid] = DeviceElement(q, gid)
    BY <1>1, <1>2, <1>4 DEF DeviceItem
  <2>2. items[gid] = IF gid < n THEN Item({ElementWrite(q, gid)}) ELSE Item({})
    BY <1>2, <2>1, ItemWrites DEF DeviceElement, Nothing
  <2>3. ElementWrite(q, gid) = ElementWrite(p, gid)
    BY <1>2 DEF ElementWrite
  <2> QED
    BY <2>2, <2>3, ItemWrites
<1>6. DOMAIN items = 0..(Grid(p) - 1)
  BY <1>4
<1>7. ASSUME NEW e \in DOMAIN W
      PROVE  W[e].to = e /\ own[e] \in DOMAIN items /\ W[e] \in items[own[e]].writes
  <2>1. e[2] \in 0..(n - 1) /\ W[e] = ElementWrite(p, e[2]) /\ W[e].to = e
    BY ElementUnits
  <2>2. own[e] = e[2]
    OBVIOUS
  <2> HIDE DEF W, items, own
  <2>3. own[e] \in 0..(Grid(p) - 1) /\ own[e] < n
    BY <1>1, <1>4, <2>1, <2>2
  <2>4. items[own[e]].writes = {ElementWrite(p, own[e])}
    BY <1>5, <2>3
  <2>5. W[e] \in items[own[e]].writes
    BY <2>1, <2>2, <2>4
  <2> QED
    BY <1>6, <2>1, <2>3, <2>5
<1>8. ASSUME NEW gid \in DOMAIN items, NEW w \in items[gid].writes
      PROVE  w.to \in DOMAIN W /\ W[w.to] = w /\ own[w.to] = gid
  <2>1. gid \in 0..(n - 1) /\ w = ElementWrite(p, gid)
    <3>1. gid \in 0..(Grid(p) - 1) /\ gid \in Nat
      BY <1>4, <1>6
    <3> HIDE DEF items
    <3>2. w \in IF gid < n THEN {ElementWrite(p, gid)} ELSE {}
      BY <1>5, <3>1
    <3> HIDE DEF n
    <3>3. gid < n /\ w = ElementWrite(p, gid)
      BY <3>2
    <3> QED
      BY <1>1, <3>1, <3>3
  <2>2. w.to = <<"out", gid>> /\ w.to \in DOMAIN W /\ W[w.to] = w
    BY <2>1, ElementUnits
  <2> QED
    BY <2>2
<1> HIDE DEF items, W, own
<1>9. Once(items, W, own)
  BY <1>7, <1>8 DEF Once
<1> QED
  BY <1>9 DEF items, W

(* Products of matrices: one work-item for each element.                   *)
LEMMA DeviceMatrixOnce ==
  ASSUME NEW p, MatrixLaunch(p), IsParams(p), FitsInt(p), ~HasNull(p)
  PROVE  \E own : Once(DeviceItems(p), Results(p), own)
<1> DEFINE items == DeviceItems(p)
           W == Results(p)
           own == [e \in DOMAIN W |-> e[2]]
           A == p.batch
           B == p.m
           C == p.n
           K == p.k
           N == A * B * C
           q == Cast(p)
<1>1. /\ p.kernel \in {"gemm_bias_act", "bmm"} /\ p.kernel \notin Elementwise
      /\ p.kernel = "gemm_bias_act" => A = 1
      /\ A \in Nat /\ B \in Nat /\ C \in Nat /\ K \in Nat /\ B > 0 /\ C > 0
      /\ Numel(p.shape) = N /\ DOMAIN p.src = 1..3 /\ Array(p.src[1], A * B * K)
  BY DEF MatrixLaunch, Elementwise
<1> HIDE DEF A, B, C, K
<1>2. MaxInt \in Nat /\ N \in Nat /\ N # 0 /\ N <= MaxInt /\ A * B * K <= MaxInt /\ A * B * K > 0
  <2>1. MaxInt \in Nat /\ N \in Nat /\ N # 0 /\ N <= MaxInt
    BY <1>1, WidthsAssumption DEF HasNull, FitsInt
  <2>2. DOMAIN p.src[1] # {}
    BY <1>1 DEF HasNull, Buffers
  <2>3. A * B * K \in Nat /\ 1 \in DOMAIN p.src
    BY <1>1
  <2>4. A * B * K <= MaxInt /\ A * B * K > 0
    <3> DEFINE n == A * B * K
    <3>1. n \in Nat /\ Array(p.src[1], n)
      BY <1>1, <2>3
    <3> HIDE DEF n
    <3>2. n <= MaxInt /\ n > 0
      BY <2>2, <2>3, <3>1, ArrayFits
    <3> QED
      BY <3>2 DEF n
  <2> QED
    BY <2>1, <2>4
<1>3. A > 0 /\ K > 0 /\ A <= MaxInt /\ B <= MaxInt /\ C <= MaxInt /\ K <= MaxInt
      /\ B * C \in Nat /\ B * C <= MaxInt
  <2>1. A # 0 /\ K # 0
    BY <1>1, <1>2
  <2>2. A > 0 /\ K > 0
    BY <1>1, <2>1
  <2>3. A * B \in Nat /\ A * B > 0 /\ A <= A * B /\ B <= A * B
    BY <1>1, <2>2, FactorsBelow
  <2> DEFINE D == A * B
  <2>4. D \in Nat /\ D > 0
    BY <2>3
  <2> HIDE DEF D
  <2>5. D <= D * C /\ C <= D * C /\ K <= D * K
    BY <1>1, <2>2, <2>4, FactorsBelow
  <2>6. B * C \in Nat /\ B * C > 0
    BY <1>1, FactorsBelow
  <2>7. B * C <= A * (B * C) /\ A * (B * C) = A * B * C
    BY <1>1, <2>2, <2>6, FactorsBelow
  <2> QED
    BY <1>1, <1>2, <2>2, <2>3, <2>5, <2>6, <2>7 DEF D
<1>4. /\ q.kernel = p.kernel /\ q.src = p.src /\ q.transB = p.transB
      /\ q.m = B /\ q.n = C /\ q.k = K /\ q.batch = A
  <2>1. AsInt(A) = A /\ AsInt(B) = B /\ AsInt(C) = C /\ AsInt(K) = K
    BY <1>1, <1>3, SmallKeeps
  <2> QED
    BY <2>1, CastFields DEF A, B, C, K
<1> HIDE DEF q
<1>5. Total(p) = N
  <2>1. A = 1 => N = B * C
    BY <1>1
  <2> QED
    BY <1>1, <2>1 DEF Total, A, B, C
<1> HIDE DEF N
<1>6. /\ items = [gid \in 0..(Grid(p) - 1) |-> DeviceItem(q, gid)]
      /\ \A gid \in 0..(N - 1) : gid \in 0..(Grid(p) - 1)
      /\ \A gid \in 0..(Grid(p) - 1) : gid \in Nat
  BY <1>2, <1>5, GidsKeep DEF q
<1>7. \A b, i, j : DotWrite(q, b, i, j) = DotWrite(p, b, i, j)
  <2> SUFFICES ASSUME NEW b, NEW i, NEW j PROVE DotWrite(q, b, i, j) = DotWrite(p, b, i, j)
    OBVIOUS
  <2>1. \A x : Operand(q, j, x) = Operand(p, j, x)
    BY <1>4 DEF Operand, B, C, K
  <2>2. BiasOf(q, j) = BiasOf(p, j)
    BY <1>4 DEF BiasOf
  <2> QED
    BY <1>4, <2>1, <2>2 DEF DotWrite, B, C, K
<1>8. ASSUME NEW gid \in 0..(Grid(p) - 1)
      PROVE  items[gid].writes =
               IF gid < N THEN {DotWrite(p, (gid \div C) \div B, (gid \div C) % B, gid % C)}
                          ELSE {}
  <2>1. gid \in Nat /\ items[gid] = DeviceItem(q, gid)
    BY <1>6
  <2> DEFINE r == gid \div C
             j == gid % C
  <2>2. r \in Nat /\ j \in 0..(C - 1) /\ gid = r * C + j
    BY <1>1, <2>1, RowAndColumn
  <2>3. CASE p.kernel = "bmm"
    <3>1. items[gid] = DeviceBmm(q, gid)
      BY <1>1, <1>4, <2>1, <2>3 DEF DeviceItem
    <3>2. AsInt(q.batch * q.m * q.n) = N
      BY <1>2, <1>4, SmallKeeps DEF N
    <3>3. items[gid] = IF gid >= N THEN Item({}) ELSE Item({DotWrite(p, r \div B, r % B, j)})
      BY <1>4, <1>7, <3>1, <3>2, ItemWrites DEF DeviceBmm, Nothing
    <3> HIDE DEF items
    <3>4. ~(gid >= N) <=> gid < N
      BY <1>2, <2>1
    <3> QED
      BY <3>3, <3>4, ItemWrites
  <2>4. CASE p.kernel = "gemm_bias_act"
    <3>0. A = 1 /\ N = B * C
      BY <1>1, <2>4 DEF N
    <3>1. items[gid] = DeviceGemm(q, gid)
      BY <1>1, <1>4, <2>1, <2>4 DEF DeviceItem
    <3> HIDE DEF items, r, j
    <3>2. r = gid \div C /\ gid - r * C = j /\ ~(j >= C)
      BY <1>1, <2>1, <2>2 DEF r
    <3>3. items[gid] = IF r >= B THEN Item({}) ELSE Item({DotWrite(p, 0, r, j)})
      BY <1>4, <1>7, <3>1, <3>2, ItemWrites DEF DeviceGemm, Nothing
    <3>4. r >= B <=> ~(gid < N)
      <4>1. ASSUME gid < N PROVE r < B
        <5>1. gid \in 0..(B * C - 1)
          BY <1>1, <2>1, <3>0, <4>1
        <5> QED
          BY <1>1, <5>1, RowBelow DEF r
      <4>2. ASSUME r < B PROVE gid < N
        <5>1. r \in 0..(B - 1)
          BY <1>1, <2>2, <4>2
        <5>2. r * C + j \in 0..(B * C - 1)
          BY <1>1, <2>2, <5>1, InMatrix
        <5> QED
          BY <1>2, <2>2, <3>0, <5>2
      <4> QED
        BY <1>1, <1>2, <2>1, <2>2, <4>1, <4>2
    <3>5. r < B => r \div B = 0 /\ r % B = r
      <4> SUFFICES ASSUME r < B PROVE r \div B = 0 /\ r % B = r
        OBVIOUS
      <4>1. r \in 0..(B - 1) /\ 0 * B + r = r /\ 0 \in Nat
        BY <1>1, <2>2
      <4>2. (0 * B + r) \div B = 0 /\ (0 * B + r) % B = r
        BY <1>1, <4>1, PositionOf
      <4> QED
        BY <4>1, <4>2
    <3>6. r \in Nat /\ (r >= B <=> ~(r < B))
      BY <1>1, <2>2
    <3> QED
      BY <3>3, <3>4, <3>5, <3>6, ItemWrites DEF r, j
  <2> QED
    BY <1>1, <2>3, <2>4
<1>9. DOMAIN items = 0..(Grid(p) - 1)
  BY <1>6
<1>10. ASSUME NEW e \in DOMAIN W
       PROVE  W[e].to = e /\ own[e] \in DOMAIN items /\ W[e] \in items[own[e]].writes
  <2> DEFINE f == e[2]
  <2>1. /\ f \in 0..(N - 1) /\ W[e].to = e
        /\ W[e] = DotWrite(p, (f \div C) \div B, (f \div C) % B, f % C)
    BY MatrixUnits DEF BatchOfElement, RowOf, ColumnOf, A, B, C, N
  <2>2. own[e] = f
    OBVIOUS
  <2> HIDE DEF W, items, own, f
  <2>3. f \in 0..(Grid(p) - 1) /\ f < N
    BY <1>2, <1>6, <2>1
  <2>4. items[f].writes = {DotWrite(p, (f \div C) \div B, (f \div C) % B, f % C)}
    BY <1>8, <2>3
  <2>5. W[e] \in items[f].writes
    BY <2>1, <2>4
  <2> QED
    BY <1>9, <2>1, <2>2, <2>3, <2>5
<1>11. ASSUME NEW gid \in DOMAIN items, NEW w \in items[gid].writes
       PROVE  w.to \in DOMAIN W /\ W[w.to] = w /\ own[w.to] = gid
  <2> DEFINE b == (gid \div C) \div B
             i == (gid \div C) % B
             j == gid % C
  <2>1. gid \in 0..(N - 1) /\ w = DotWrite(p, b, i, j)
    <3>1. gid \in 0..(Grid(p) - 1) /\ gid \in Nat
      BY <1>6, <1>9
    <3> HIDE DEF items
    <3>2. w \in IF gid < N THEN {DotWrite(p, b, i, j)} ELSE {}
      BY <1>8, <3>1
    <3> HIDE DEF b, i, j
    <3>3. gid < N /\ w = DotWrite(p, b, i, j)
      BY <3>2
    <3> QED
      BY <1>2, <3>1, <3>3
  <2>2. /\ gid \div C = b * B + i /\ gid = (gid \div C) * C + j /\ j \in 0..(C - 1)
        /\ b \in 0..(A - 1) /\ i \in 0..(B - 1)
    <3>1. Position(A, B, C, gid)
      BY <1>1, <2>1 DEF Position, N
    <3> QED
      BY <3>1, CubeBelow
  <2>3. gid = (b * B + i) * C + j
    BY <2>2
  <2> HIDE DEF b, i, j
  <2>4. w.to = <<"out", (b * B + i) * C + j>> /\ w.to \in DOMAIN W /\ W[w.to] = w
    BY <2>1, <2>2, MatrixUnits DEF A, B, C
  <2> QED
    BY <2>3, <2>4
<1> HIDE DEF items, W, own
<1>12. Once(items, W, own)
  BY <1>10, <1>11 DEF Once
<1> QED
  BY <1>12 DEF items, W

(* softmax: one work-item for each line.                                   *)
LEMMA DeviceSoftmaxOnce ==
  ASSUME NEW p, SoftmaxLaunch(p), IsParams(p), FitsInt(p), ~HasNull(p)
  PROVE  \E own : Once(DeviceItems(p), Results(p), own)
<1> DEFINE items == DeviceItems(p)
           W == Results(p)
           A == p.m
           B == p.n
           C == p.k
           N == A * C
           own == [e \in DOMAIN W |-> OuterOf(p, e) * C + InnerOf(p, e)]
           q == Cast(p)
<1>1. /\ p.kernel = "softmax" /\ p.kernel \notin Elementwise
      /\ A \in Nat /\ B \in Nat /\ C \in Nat /\ Numel(p.shape) = A * B * C
  BY DEF SoftmaxLaunch, Elementwise
<1> HIDE DEF A, B, C
<1>2. MaxInt \in Nat /\ A * B * C # 0 /\ A * B * C <= MaxInt
  BY <1>1, WidthsAssumption DEF HasNull, FitsInt
<1>3. A > 0 /\ B > 0 /\ C > 0 /\ N \in Nat /\ N <= MaxInt
      /\ A <= MaxInt /\ B <= MaxInt /\ C <= MaxInt
  <2>1. A > 0 /\ B > 0 /\ C > 0
    <3>1. A # 0 /\ B # 0 /\ C # 0
      BY <1>1, <1>2
    <3> QED
      BY <1>1, <3>1
  <2>2. A * C \in Nat /\ A * C > 0 /\ A <= A * C /\ C <= A * C
    BY <1>1, <2>1, FactorsBelow
  <2> DEFINE D == A * C
  <2>3. D \in Nat /\ D > 0
    BY <2>2
  <2>4. A * B * C = B * D
    BY <1>1
  <2> HIDE DEF D
  <2>5. D <= B * D /\ B <= B * D
    BY <1>1, <2>1, <2>3, FactorsBelow
  <2> QED
    BY <1>1, <1>2, <2>1, <2>2, <2>4, <2>5 DEF D
<1>4. q.kernel = p.kernel /\ q.src = p.src /\ q.m = A /\ q.n = B /\ q.k = C
  <2>1. AsInt(A) = A /\ AsInt(B) = B /\ AsInt(C) = C
    BY <1>1, <1>3, SmallKeeps
  <2> QED
    BY <2>1, CastFields DEF A, B, C
<1> HIDE DEF q
<1>5. Total(p) = N
  BY <1>1 DEF Total, A, C
<1>6. /\ items = [gid \in 0..(Grid(p) - 1) |-> DeviceItem(q, gid)]
      /\ \A gid \in 0..(N - 1) : gid \in 0..(Grid(p) - 1)
      /\ \A gid \in 0..(Grid(p) - 1) : gid \in Nat
  BY <1>3, <1>5, GidsKeep DEF q
<1>7. \A o, d, i : SoftmaxWrite(q, o, d, i) = SoftmaxWrite(p, o, d, i)
  BY <1>4 DEF SoftmaxWrite, B, C
<1>8. ASSUME NEW gid \in 0..(Grid(p) - 1)
      PROVE  /\ gid < N => items[gid].writes =
                  {SoftmaxWrite(p, gid \div C, d, gid % C) : d \in 0..(B - 1)}
             /\ ~(gid < N) => items[gid].writes = {}
  <2>1. gid \in Nat /\ items[gid] = DeviceSoftmax(q, gid)
    BY <1>1, <1>4, <1>6 DEF DeviceItem
  <2>2. AsInt(q.m * q.k) = N
    BY <1>3, <1>4, SmallKeeps DEF N
  <2> HIDE DEF items, N
  <2>3. gid - (gid \div C) * C = gid % C
    <3> DEFINE o == gid \div C
    <3>1. o \in Nat /\ gid % C \in Nat /\ gid = o * C + (gid % C)
      BY <1>1, <1>3, <2>1, RowAndColumn
    <3> HIDE DEF o
    <3>2. o * C \in Nat
      BY <1>1, <3>1
    <3> QED
      BY <2>1, <3>1, <3>2 DEF o
  <2>4. CASE gid < N
    <3>1. ~(gid >= N)
      BY <1>3, <2>1, <2>4
    <3>2. items[gid] = SoftmaxItem(q, gid \div C, gid % C)
      BY <1>4, <2>1, <2>2, <2>3, <3>1 DEF DeviceSoftmax
    <3>3. items[gid].writes = {SoftmaxWrite(q, gid \div C, d, gid % C) : d \in 0..(B - 1)}
      BY <1>4, <3>2, ItemWrites
    <3>4. items[gid].writes = {SoftmaxWrite(p, gid \div C, d, gid % C) : d \in 0..(B - 1)}
      BY <1>7, <3>3
    <3> QED
      BY <2>4, <3>4
  <2>5. CASE ~(gid < N)
    <3>1. gid >= N
      BY <1>3, <2>1, <2>5
    <3>2. items[gid] = Item({})
      BY <1>4, <2>1, <2>2, <3>1 DEF DeviceSoftmax, Nothing
    <3> QED
      BY <2>5, <3>2, ItemWrites
  <2> QED
    BY <2>4, <2>5
<1>9. DOMAIN items = 0..(Grid(p) - 1)
  BY <1>6
<1>10. ASSUME NEW e \in DOMAIN W
       PROVE  W[e].to = e /\ own[e] \in DOMAIN items /\ W[e] \in items[own[e]].writes
  <2> DEFINE o == OuterOf(p, e)
             d == AlongOf(p, e)
             i == InnerOf(p, e)
             gid == o * C + i
  <2>1. /\ o \in 0..(A - 1) /\ d \in 0..(B - 1) /\ i \in 0..(C - 1) /\ W[e].to = e
        /\ W[e] = SoftmaxWrite(p, o, d, i)
    BY SoftmaxUnits DEF A, B, C
  <2>2. own[e] = gid
    OBVIOUS
  <2> HIDE DEF W, items, own, o, d, i
  <2>3. gid \in 0..(N - 1)
    BY <1>1, <2>1, InMatrix
  <2>4. gid \div C = o /\ gid % C = i
    <3>1. o \in Nat
      BY <1>1, <2>1
    <3> QED
      BY <1>1, <2>1, <3>1, PositionOf
  <2>5. gid < N /\ gid \in 0..(Grid(p) - 1)
    BY <1>3, <1>6, <2>3
  <2> HIDE DEF gid
  <2>6. items[gid].writes = {SoftmaxWrite(p, o, x, i) : x \in 0..(B - 1)}
    BY <1>8, <2>4, <2>5
  <2> QED
    BY <1>9, <2>1, <2>2, <2>5, <2>6
<1>11. ASSUME NEW gid \in DOMAIN items, NEW w \in items[gid].writes
       PROVE  w.to \in DOMAIN W /\ W[w.to] = w /\ own[w.to] = gid
  <2> DEFINE o == gid \div C
             i == gid % C
  <2>1. gid \in 0..(Grid(p) - 1) /\ gid \in Nat
    BY <1>6, <1>9
  <2> HIDE DEF items
  <2>2. gid < N
    BY <1>8, <2>1
  <2>3. PICK d \in 0..(B - 1) : w = SoftmaxWrite(p, o, d, i)
    BY <1>8, <2>1, <2>2
  <2>4. o \in 0..(A - 1) /\ i \in 0..(C - 1) /\ gid = o * C + i
    <3>1. gid \in 0..(A * C - 1)
      BY <1>1, <2>1, <2>2
    <3>2. o \in 0..(A - 1) /\ i \in 0..(C - 1)
      BY <1>1, <1>3, <3>1, RowBelow
    <3>3. gid = o * C + i
      BY <1>1, <1>3, <2>1, RowAndColumn
    <3> QED
      BY <3>2, <3>3
  <2> HIDE DEF o, i
  <2>5. /\ w.to \in DOMAIN W /\ W[w.to] = w
        /\ o = OuterOf(p, w.to) /\ i = InnerOf(p, w.to)
    BY <2>3, <2>4, SoftmaxUnits DEF A, B, C
  <2> QED
    BY <2>4, <2>5
<1> HIDE DEF items, W, own
<1>12. Once(items, W, own)
  BY <1>10, <1>11 DEF Once
<1> QED
  BY <1>12 DEF items, W

(* layernorm: one work-item for each row.                                  *)
LEMMA DeviceNormOnce ==
  ASSUME NEW p, NEW z, NEW bias, NormLaunch(p, z, bias), IsParams(p), FitsInt(p), ~HasNull(p)
  PROVE  \E own : Once(DeviceItems(p), Results(p), own)
<1> DEFINE items == DeviceItems(p)
           W == Results(p)
           own == [e \in DOMAIN W |-> NormRow(p, e)]
           q == Cast(p)
<1>1. /\ p.kernel = "layernorm" /\ p.kernel \notin Elementwise
      /\ p.m \in Nat /\ p.n \in Nat /\ p.n > 0 /\ Numel(p.shape) = p.m * p.n
  BY DEF NormLaunch, Elementwise
<1>2. MaxInt \in Nat /\ p.m * p.n # 0 /\ p.m * p.n <= MaxInt
  BY <1>1, WidthsAssumption DEF HasNull, FitsInt
<1>3. p.m > 0 /\ p.m <= MaxInt /\ p.n <= MaxInt
  <2>1. p.m > 0
    <3>1. p.m # 0
      BY <1>1, <1>2
    <3> QED
      BY <1>1, <3>1
  <2>2. p.m <= p.m * p.n /\ p.n <= p.m * p.n /\ p.m * p.n > 0
    BY <1>1, <2>1, FactorsBelow
  <2> DEFINE D == p.m * p.n
  <2>3. D <= MaxInt /\ D \in Int /\ p.m <= D /\ p.n <= D
    BY <1>1, <1>2, <2>2
  <2> HIDE DEF D
  <2> QED
    BY <1>1, <1>2, <2>1, <2>3
<1>4. q.kernel = p.kernel /\ q.src = p.src /\ q.m = p.m /\ q.n = p.n
  BY <1>1, <1>3, CastFields, SmallKeeps
<1> HIDE DEF q
<1>5. Total(p) = p.m
  BY <1>1 DEF Total
<1>6. /\ items = [gid \in 0..(Grid(p) - 1) |-> DeviceItem(q, gid)]
      /\ \A gid \in 0..(p.m - 1) : gid \in 0..(Grid(p) - 1)
      /\ \A gid \in 0..(Grid(p) - 1) : gid \in Nat
  BY <1>1, <1>3, <1>5, GidsKeep DEF q
<1>7. \A r : LayerNormItem(q, r) = LayerNormItem(p, r)
  BY <1>4 DEF LayerNormItem
<1>8. ASSUME NEW gid \in 0..(Grid(p) - 1)
      PROVE  /\ gid < p.m => items[gid].writes =
                  {NormWrite(p, gid, j) : j \in 0..(p.n - 1)}
                    \cup {StatWrite(p, "mean", gid), StatWrite(p, "rstd", gid)}
             /\ ~(gid < p.m) => items[gid].writes = {}
  <2>1. gid \in Nat /\ items[gid] = DeviceLayerNorm(q, gid)
    BY <1>1, <1>4, <1>6 DEF DeviceItem
  <2> HIDE DEF items
  <2>2. gid >= p.m <=> ~(gid < p.m)
    BY <1>1, <2>1
  <2>3. items[gid] = IF gid < p.m THEN LayerNormItem(p, gid) ELSE Item({})
    BY <1>4, <1>7, <2>1, <2>2 DEF DeviceLayerNorm, Nothing
  <2>4. gid < p.m => items[gid] = Item({NormWrite(p, gid, j) : j \in 0..(p.n - 1)}
                           \cup {StatWrite(p, "mean", gid), StatWrite(p, "rstd", gid)})
    BY <2>3, ItemWrites
  <2> QED
    BY <2>3, <2>4, ItemWrites
<1>9. DOMAIN items = 0..(Grid(p) - 1)
  BY <1>6
<1>10. ASSUME NEW e \in DOMAIN W
       PROVE  W[e].to = e /\ own[e] \in DOMAIN items /\ W[e] \in items[own[e]].writes
  <2> DEFINE r == NormRow(p, e)
  <2>1. /\ r \in 0..(p.m - 1) /\ W[e].to = e
        /\ \/ /\ e[1] = "out" /\ AtColumn(p, e) \in 0..(p.n - 1)
              /\ W[e] = NormWrite(p, r, AtColumn(p, e))
           \/ /\ e[1] \in {"mean", "rstd"}
              /\ W[e] = StatWrite(p, e[1], r)
    BY NormUnits
  <2>2. own[e] = r
    OBVIOUS
  <2> HIDE DEF W, items, own, r
  <2>3. r < p.m /\ r \in 0..(Grid(p) - 1)
    BY <1>1, <1>6, <2>1
  <2>4. items[r].writes = {NormWrite(p, r, j) : j \in 0..(p.n - 1)}
                            \cup {StatWrite(p, "mean", r), StatWrite(p, "rstd", r)}
    BY <1>8, <2>3
  <2> QED
    BY <1>9, <2>1, <2>2, <2>3, <2>4
<1>11. ASSUME NEW gid \in DOMAIN items, NEW w \in items[gid].writes
       PROVE  w.to \in DOMAIN W /\ W[w.to] = w /\ own[w.to] = gid
  <2>1. gid \in 0..(Grid(p) - 1) /\ gid \in Nat
    BY <1>6, <1>9
  <2> HIDE DEF items
  <2>2. gid < p.m
    BY <1>8, <2>1
  <2>3. gid \in 0..(p.m - 1)
    BY <1>1, <2>1, <2>2
  <2>4. items[gid].writes = {NormWrite(p, gid, j) : j \in 0..(p.n - 1)}
                              \cup {StatWrite(p, "mean", gid), StatWrite(p, "rstd", gid)}
    BY <1>8, <2>1, <2>2
  <2>5. \/ \E j \in 0..(p.n - 1) : w = NormWrite(p, gid, j)
        \/ \E name \in {"mean", "rstd"} : w = StatWrite(p, name, gid)
    BY <2>4
  <2>6. w.to \in DOMAIN W /\ W[w.to] = w /\ gid = NormRow(p, w.to)
    BY <2>3, <2>5, NormUnits
  <2> QED
    BY <2>6
<1> HIDE DEF items, W, own
<1>12. Once(items, W, own)
  BY <1>10, <1>11 DEF Once
<1> QED
  BY <1>12 DEF items, W

(* embedding: one work-item for each element.                              *)
LEMMA DeviceEmbeddingOnce ==
  ASSUME NEW p, EmbeddingLaunch(p), IsParams(p), FitsInt(p), ~HasNull(p)
  PROVE  \E own : Once(DeviceItems(p), Results(p), own)
<1> DEFINE items == DeviceItems(p)
           W == Results(p)
           own == [e \in DOMAIN W |-> e[2]]
           R == p.numel
           C == p.n
           K == p.k
           N == R * C
           q == Cast(p)
<1>1. /\ p.kernel = "embedding" /\ p.kernel \notin Elementwise
      /\ R \in Nat /\ C \in Nat /\ K \in Nat /\ R > 0 /\ C > 0 /\ Numel(p.shape) = N
      /\ DOMAIN p.src = {1} /\ Array(p.src[1], K * C)
  BY DEF EmbeddingLaunch, Elementwise
<1> HIDE DEF R, C, K
<1>2. MaxInt \in Nat /\ N \in Nat /\ N <= MaxInt /\ R <= MaxInt /\ C <= MaxInt /\ K <= MaxInt
  <2>1. MaxInt \in Nat /\ N \in Nat /\ N <= MaxInt
    BY <1>1, WidthsAssumption DEF FitsInt
  <2>2. R <= N /\ C <= N
    BY <1>1, FactorsBelow
  <2>3. K * C <= MaxInt /\ K * C > 0
    <3> DEFINE D == K * C
    <3>1. D \in Nat /\ Array(p.src[1], D) /\ 1 \in DOMAIN p.src
      BY <1>1
    <3>2. DOMAIN p.src[1] # {}
      BY <1>1 DEF HasNull, Buffers
    <3> HIDE DEF D
    <3>3. D <= MaxInt /\ D > 0
      BY <3>1, <3>2, ArrayFits
    <3> QED
      BY <3>3 DEF D
  <2>4. K > 0
    <3>1. K # 0
      BY <1>1, <2>3
    <3> QED
      BY <1>1, <3>1
  <2>5. K <= K * C /\ K * C \in Nat
    BY <1>1, <2>4, FactorsBelow
  <2> HIDE DEF N
  <2> QED
    BY <1>1, <2>1, <2>2, <2>3, <2>5
<1>3. /\ q.kernel = p.kernel /\ q.src = p.src /\ q.ids = p.ids
      /\ q.numel = R /\ q.n = C /\ q.k = K
  <2>1. AsInt(R) = R /\ AsInt(C) = C /\ AsInt(K) = K
    BY <1>1, <1>2, SmallKeeps
  <2> QED
    BY <2>1, CastFields DEF R, C, K
<1> HIDE DEF q
<1>4. Total(p) = N
  BY <1>1 DEF Total, R, C
<1>5. /\ items = [gid \in 0..(Grid(p) - 1) |-> DeviceItem(q, gid)]
      /\ \A gid \in 0..(N - 1) : gid \in 0..(Grid(p) - 1)
      /\ \A gid \in 0..(Grid(p) - 1) : gid \in Nat
  BY <1>2, <1>4, GidsKeep DEF q
<1>6. \A r, j : EmbeddingWrite(q, r, j) = EmbeddingWrite(p, r, j)
  BY <1>3 DEF EmbeddingWrite, C, K
<1>7. ASSUME NEW gid \in 0..(Grid(p) - 1)
      PROVE  /\ gid < N => items[gid].writes = {EmbeddingWrite(p, gid \div C, gid % C)}
             /\ ~(gid < N) => items[gid].writes = {}
  <2> DEFINE r == gid \div C
             j == gid % C
  <2>1. gid \in Nat /\ items[gid] = DeviceEmbedding(q, gid)
    BY <1>1, <1>3, <1>5 DEF DeviceItem
  <2> HIDE DEF items
  <2>2. r \in Nat /\ j \in 0..(C - 1) /\ gid = r * C + j
    BY <1>1, <2>1, RowAndColumn
  <2>3. r = gid \div C
    OBVIOUS
  <2> HIDE DEF r, j
  <2>4. gid - r * C = j
    BY <1>1, <2>1, <2>2
  <2>5. items[gid] = IF r >= R THEN Item({}) ELSE Item({EmbeddingWrite(p, r, j)})
    BY <1>3, <1>6, <2>1, <2>3, <2>4 DEF DeviceEmbedding, Nothing
  <2>6. r >= R <=> ~(gid < N)
    <3>1. ASSUME gid < N PROVE r < R
      <4>1. gid \in 0..(R * C - 1)
        BY <1>1, <2>1, <3>1
      <4> QED
        BY <1>1, <4>1, RowBelow DEF r
    <3>2. ASSUME r < R PROVE gid < N
      <4>1. r \in 0..(R - 1)
        BY <1>1, <2>2, <3>2
      <4>2. r * C + j \in 0..(R * C - 1)
        BY <1>1, <2>2, <4>1, InMatrix
      <4> QED
        BY <1>2, <2>2, <4>2
    <3> QED
      BY <1>1, <1>2, <2>1, <2>2, <3>1, <3>2
  <2> QED
    BY <2>5, <2>6, ItemWrites DEF r, j
<1>8. DOMAIN items = 0..(Grid(p) - 1)
  BY <1>5
<1>9. ASSUME NEW e \in DOMAIN W
      PROVE  W[e].to = e /\ own[e] \in DOMAIN items /\ W[e] \in items[own[e]].writes
  <2> DEFINE f == e[2]
  <2>1. /\ f \in 0..(N - 1) /\ W[e].to = e /\ W[e] = EmbeddingWrite(p, f \div C, f % C)
    BY EmbeddingUnits DEF InRow, AtColumn, R, C
  <2>2. own[e] = f
    OBVIOUS
  <2> HIDE DEF W, items, own, f
  <2>3. f \in 0..(Grid(p) - 1) /\ f < N
    BY <1>2, <1>5, <2>1
  <2>4. items[f].writes = {EmbeddingWrite(p, f \div C, f % C)}
    BY <1>7, <2>3
  <2> QED
    BY <1>8, <2>1, <2>2, <2>3, <2>4
<1>10. ASSUME NEW gid \in DOMAIN items, NEW w \in items[gid].writes
       PROVE  w.to \in DOMAIN W /\ W[w.to] = w /\ own[w.to] = gid
  <2> DEFINE r == gid \div C
             j == gid % C
  <2>1. gid \in 0..(Grid(p) - 1) /\ gid \in Nat
    BY <1>5, <1>8
  <2> HIDE DEF items
  <2>2. gid < N
    BY <1>7, <2>1
  <2>3. w = EmbeddingWrite(p, r, j)
    BY <1>7, <2>1, <2>2
  <2>4. r \in 0..(R - 1) /\ j \in 0..(C - 1) /\ gid = r * C + j
    <3>1. gid \in 0..(R * C - 1)
      BY <1>1, <2>1, <2>2
    <3>2. r \in 0..(R - 1) /\ j \in 0..(C - 1)
      BY <1>1, <3>1, RowBelow
    <3>3. gid = r * C + j
      BY <1>1, <2>1, RowAndColumn
    <3> QED
      BY <3>2, <3>3
  <2> HIDE DEF r, j
  <2>5. w.to = <<"out", r * C + j>> /\ w.to \in DOMAIN W /\ W[w.to] = w
    BY <2>3, <2>4, EmbeddingUnits DEF R, C
  <2> QED
    BY <2>4, <2>5
<1> HIDE DEF items, W, own
<1>11. Once(items, W, own)
  BY <1>9, <1>10 DEF Once
<1> QED
  BY <1>11 DEF items, W

(* All kernels of the device.                                              *)
LEMMA DeviceOnce ==
  ASSUME NEW c, NEW p, Launched(c, p), IsParams(p), FitsInt(p), ~HasNull(p)
  PROVE  \E own : Once(DeviceItems(p), Results(p), own)
BY KernelTells, DeviceElementOnce, DeviceMatrixOnce, DeviceSoftmaxOnce, DeviceNormOnce,
   DeviceEmbeddingOnce

-----------------------------------------------------------------------------
(* The iterations or work-items of a launch write each element of the      *)
(* result once, and nothing else, for every shape, tile and size of the    *)
(* work-groups: no two write the same element, so their order does not     *)
(* matter (OpenCLRuntime.cpp:402-507, HostKernels.cpp:113-147).            *)
THEOREM WritesOnce == Spec => []EachOnce
<1>1. IInv => EachOnce
  <2> SUFFICES ASSUME IInv, stage = "ran"
               PROVE  Targets(written) = Outputs(params) /\ again = {}
    BY DEF EachOnce
  <2>1. /\ Launched(call, params) /\ IsParams(params) /\ backend \in {"sim", "opencl"}
        /\ backend = "opencl" => FitsInt(params) /\ ~HasNull(params)
        /\ written = AllWrites(Items) /\ again = Meeting(Items)
    BY DEF IInv, TypeOK, ParamsKept, Enqueued, RunDone
  <2>2. \E own : Once(Items, Results(params), own)
    BY <2>1, HostOnce, DeviceOnce DEF Items
  <2>3. DOMAIN Results(params) = Outputs(params)
    BY DEF Results
  <2> QED
    BY <2>1, <2>2, <2>3, OnceWrites
<1> QED
  BY <1>1, Inductive, PTL

(* Whatever the call, the device writes what the host writes               *)
(* (OpenCLRuntime.cpp:402-507, HostKernels.cpp:34-258).                    *)
THEOREM SameWrites == Spec => []BackendsAgree
<1>1. IInv => BackendsAgree
  <2> SUFFICES ASSUME IInv, stage = "ran", backend = "opencl"
               PROVE  written = AllWrites(HostItems(params))
    BY DEF BackendsAgree
  <2>1. /\ Launched(call, params) /\ IsParams(params)
        /\ FitsInt(params) /\ ~HasNull(params) /\ written = AllWrites(DeviceItems(params))
    BY DEF IInv, ParamsKept, Enqueued, RunDone, Items
  <2> DEFINE W == Results(params)
  <2>2. /\ \E own : Once(DeviceItems(params), W, own)
        /\ \E own : Once(HostItems(params), W, own)
    BY <2>1, HostOnce, DeviceOnce
  <2> HIDE DEF W
  <2>3. /\ AllWrites(DeviceItems(params)) = {W[e] : e \in DOMAIN W}
        /\ AllWrites(HostItems(params)) = {W[e] : e \in DOMAIN W}
    BY <2>2, OnceWrites
  <2> QED
    BY <2>1, <2>3
<1> QED
  BY <1>1, Inductive, PTL

-----------------------------------------------------------------------------
(* Reading elements that exist.                                            *)
Safe(w) == \A s \in DOMAIN w.from : \A q \in DOMAIN w.from[s] : w.from[s][q] # Wild

(* An index of an array fetches an element.                                *)
LEMMA FetchSafe ==
  ASSUME NEW a, NEW n \in Nat, Array(a, n), NEW i \in 0..(n - 1)
  PROVE  Fetch(a, i) # Wild
BY DEF Array, Fetch

(* A row, a product, a line: what a write is computed from is inside of    *)
(* the operands.                                                           *)
LEMMA ElementSafe ==
  ASSUME NEW p, ElementLaunch(p), NEW i \in 0..(p.numel - 1)
  PROVE  Safe(ElementWrite(p, i))
<1>1. p.numel \in Nat /\ \A s \in DOMAIN p.src : Array(p.src[s], p.numel)
  BY DEF ElementLaunch
<1>2. ElementWrite(p, i).from = [s \in DOMAIN p.src |-> <<Fetch(p.src[s], i)>>]
  BY DEF ElementWrite, Write
<1> DEFINE from == ElementWrite(p, i).from
<1>3. ASSUME NEW s \in DOMAIN from, NEW q \in DOMAIN from[s] PROVE from[s][q] # Wild
  <2>1. s \in DOMAIN p.src /\ from[s] = <<Fetch(p.src[s], i)>>
    BY <1>2
  <2> HIDE DEF from
  <2>2. from[s][q] = Fetch(p.src[s], i)
    BY <2>1
  <2> QED
    BY <1>1, <2>1, <2>2, FetchSafe
<1> QED
  BY <1>3 DEF Safe

(* The position of an element, counted from the row or from the matrix.    *)
LEMMA Spread ==
  ASSUME NEW a \in Nat, NEW b \in Nat, NEW c \in Nat, NEW d \in Nat, NEW e \in Nat
  PROVE  /\ a * b * c = a * c * b
         /\ (a * b + d) * c + e = a * b * c + (d * c + e)
         /\ (a * b + d) * c + e = a * c * b + (d * c + e)
<1>1. a * b * c = a * c * b
  OBVIOUS
<1>2. (a * b + d) * c = a * b * c + d * c
  <2> DEFINE ab == a * b
  <2>1. ab \in Nat
    OBVIOUS
  <2> HIDE DEF ab
  <2>2. (ab + d) * c = ab * c + d * c
    BY <2>1
  <2> QED
    BY <2>2 DEF ab
<1>3. a * b * c \in Nat /\ d * c \in Nat
  OBVIOUS
<1> DEFINE x == a * b * c
           y == d * c
           z == (a * b + d) * c
<1>4. x \in Nat /\ y \in Nat /\ z = x + y
  BY <1>2, <1>3
<1>5. a * c * b = x
  BY <1>1
<1> HIDE DEF x, y, z
<1>6. z + e = x + (y + e)
  BY <1>4
<1> QED
  BY <1>1, <1>5, <1>6 DEF x, y, z

(* A row, a column and a bias of a product.                                *)
LEMMA DotSafe ==
  ASSUME NEW p, MatrixLaunch(p),
         NEW b \in 0..(p.batch - 1), NEW i \in 0..(p.m - 1), NEW j \in 0..(p.n - 1)
  PROVE  Safe(DotWrite(p, b, i, j))
<1> DEFINE A == p.batch
           B == p.m
           C == p.n
           K == p.k
           row == Line(p.src[1], b * B * K + i * K, 1, K)
           column == [q \in 1..K |-> Fetch(p.src[2], b * K * C + Operand(p, j, q - 1))]
           bias == BiasOf(p, j)
           from == <<row, column, bias>>
<1>1. /\ A \in Nat /\ B \in Nat /\ C \in Nat /\ K \in Nat
      /\ Array(p.src[1], A * B * K) /\ Array(p.src[2], A * K * C)
      /\ p.src[3] = <<>> \/ Array(p.src[3], C)
  BY DEF MatrixLaunch
<1>2. DotWrite(p, b, i, j).from = from
  BY DEF DotWrite, Write
<1>3. b \in 0..(A - 1) /\ i \in 0..(B - 1) /\ j \in 0..(C - 1)
  OBVIOUS
<1>4. \A q : Operand(p, j, q) = IF p.transB THEN j * K + q ELSE q * C + j
  BY DEF Operand
<1> HIDE DEF A, B, C, K
<1>5. \A q \in DOMAIN row : row[q] # Wild
  <2> SUFFICES ASSUME NEW q \in 1..K PROVE row[q] # Wild
    BY DEF Line
  <2> DEFINE f == (b * B + i) * K + (q - 1)
             N == A * B * K
  <2>1. f \in 0..(N - 1)
    <3>1. Coordinates(A, B, K, b, i, q - 1)
      BY <1>1, <1>3 DEF Coordinates
    <3> QED
      BY <3>1, CubePosition
  <2>2. b * B * K + i * K + (q - 1) * 1 = f
    BY <1>1, <1>3
  <2>3. row[q] = Fetch(p.src[1], f)
    BY <2>2 DEF Line
  <2>4. N \in Nat /\ Array(p.src[1], N)
    BY <1>1
  <2> HIDE DEF f, N, row
  <2> QED
    BY <2>1, <2>3, <2>4, FetchSafe
<1>6. \A q \in DOMAIN column : column[q] # Wild
  <2> SUFFICES ASSUME NEW q \in 1..K PROVE column[q] # Wild
    OBVIOUS
  <2> DEFINE f == b * K * C + Operand(p, j, q - 1)
             N == A * K * C
  <2>1. f \in 0..(N - 1)
    <3>1. CASE p.transB
      <4>1. Coordinates(A, C, K, b, j, q - 1)
        BY <1>1, <1>3 DEF Coordinates
      <4>2. (b * C + j) * K + (q - 1) \in 0..(A * C * K - 1)
        BY <4>1, CubePosition
      <4> DEFINE r == q - 1
      <4>3. A * C * K = N /\ (b * C + j) * K + r = b * K * C + (j * K + r)
        <5>1. b \in Nat /\ j \in Nat /\ r \in Nat
          BY <1>1, <1>3
        <5> HIDE DEF r
        <5> QED
          BY <1>1, <5>1, Spread
      <4>4. f = b * K * C + (j * K + (q - 1))
        BY <1>4, <3>1
      <4> QED
        BY <4>2, <4>3, <4>4
    <3>2. CASE ~p.transB
      <4>1. Coordinates(A, K, C, b, q - 1, j)
        BY <1>1, <1>3 DEF Coordinates
      <4>2. (b * K + (q - 1)) * C + j \in 0..(A * K * C - 1)
        BY <4>1, CubePosition
      <4> DEFINE r == q - 1
      <4>3. (b * K + r) * C + j = b * K * C + (r * C + j)
        <5>1. b \in Nat /\ j \in Nat /\ r \in Nat
          BY <1>1, <1>3
        <5> HIDE DEF r
        <5> QED
          BY <1>1, <5>1, Spread
      <4>4. f = b * K * C + ((q - 1) * C + j)
        BY <1>4, <3>2
      <4> QED
        BY <4>2, <4>3, <4>4
    <3> QED
      BY <3>1, <3>2
  <2>2. column[q] = Fetch(p.src[2], f)
    OBVIOUS
  <2>3. N \in Nat /\ Array(p.src[2], N)
    BY <1>1
  <2> HIDE DEF f, N, column
  <2> QED
    BY <2>1, <2>2, <2>3, FetchSafe
<1>7. \A q \in DOMAIN bias : bias[q] # Wild
  <2>1. CASE p.src[3] = <<>>
    BY <2>1 DEF BiasOf
  <2>2. CASE p.src[3] # <<>>
    <3>1. bias = <<Fetch(p.src[3], j)>>
      BY <2>2 DEF BiasOf
    <3>2. Fetch(p.src[3], j) # Wild
      BY <1>1, <1>3, <2>2, FetchSafe
    <3> QED
      BY <3>1, <3>2
  <2> QED
    BY <2>1, <2>2
<1> HIDE DEF row, column, bias
<1>8. \A s \in DOMAIN from : \A q \in DOMAIN from[s] : from[s][q] # Wild
  BY <1>5, <1>6, <1>7
<1> HIDE DEF from
<1> QED
  BY <1>2, <1>8 DEF Safe

(* The line of a softmax.                                                  *)
LEMMA SoftmaxSafe ==
  ASSUME NEW p, SoftmaxLaunch(p),
         NEW o \in 0..(p.m - 1), NEW d \in 0..(p.n - 1), NEW i \in 0..(p.k - 1)
  PROVE  Safe(SoftmaxWrite(p, o, d, i))
<1> DEFINE A == p.m
           B == p.n
           C == p.k
           N == A * B * C
           At(e) == (o * B + e) * C + i
           line == Line(p.src[1], At(0), C, B)
           own == <<Fetch(p.src[1], At(d))>>
           from == <<own, line>>
<1>1. /\ A \in Nat /\ B \in Nat /\ C \in Nat /\ N \in Nat /\ Array(p.src[1], N)
      /\ o \in 0..(A - 1) /\ d \in 0..(B - 1) /\ i \in 0..(C - 1)
  BY DEF SoftmaxLaunch
<1>2. SoftmaxWrite(p, o, d, i).from = from
  BY DEF SoftmaxWrite, Write
<1> HIDE DEF A, B, C
<1>3. ASSUME NEW e \in 0..(B - 1) PROVE Fetch(p.src[1], At(e)) # Wild
  <2>1. Coordinates(A, B, C, o, e, i)
    BY <1>1 DEF Coordinates
  <2>2. At(e) \in 0..(N - 1)
    BY <2>1, CubePosition
  <2> HIDE DEF At, N
  <2> QED
    BY <1>1, <2>2, FetchSafe
<1>4. \A q \in DOMAIN line : line[q] # Wild
  <2> SUFFICES ASSUME NEW q \in 1..B PROVE line[q] # Wild
    BY DEF Line
  <2>1. At(0) + (q - 1) * C = At(q - 1) /\ q - 1 \in 0..(B - 1)
    BY <1>1
  <2>2. line[q] = Fetch(p.src[1], At(0) + (q - 1) * C)
    BY DEF Line
  <2> HIDE DEF At, line
  <2> QED
    BY <1>3, <2>1, <2>2
<1>5. \A q \in DOMAIN own : own[q] # Wild
  <2>1. Fetch(p.src[1], At(d)) # Wild
    BY <1>1, <1>3
  <2> QED
    BY <2>1
<1> HIDE DEF own, line
<1>6. \A s \in DOMAIN from : \A q \in DOMAIN from[s] : from[s][q] # Wild
  BY <1>4, <1>5
<1> HIDE DEF from
<1> QED
  BY <1>2, <1>6 DEF Safe

(* layernorm: when its weight and bias are as long as a row, or absent.    *)
LEMMA NormSafe ==
  ASSUME NEW p, NEW z, NEW bias, NormLaunch(p, z, bias), NEW r \in 0..(p.m - 1),
         z = Absent \/ (z \in Seq(Nat) /\ p.n <= Numel(z)),
         bias = Absent \/ (bias \in Seq(Nat) /\ p.n <= Numel(bias))
  PROVE  /\ \A j \in 0..(p.n - 1) : Safe(NormWrite(p, r, j))
         /\ \A name : Safe(StatWrite(p, name, r))
<1> DEFINE N == p.m * p.n
           row == Line(p.src[1], r * p.n, 1, p.n)
           Affine(a, j) == IF a = <<>> THEN <<>> ELSE <<Fetch(a, j)>>
<1>1. /\ p.m \in Nat /\ p.n \in Nat /\ N \in Nat /\ Array(p.src[1], N)
      /\ AffineArray(p.src[2], z) /\ AffineArray(p.src[3], bias)
  BY DEF NormLaunch
<1>2. ASSUME NEW j \in 0..(p.n - 1) PROVE Fetch(p.src[1], r * p.n + j) # Wild
  <2> DEFINE f == r * p.n + j
  <2>1. f \in 0..(N - 1)
    BY <1>1, InMatrix
  <2> HIDE DEF f, N
  <2>2. Fetch(p.src[1], f) # Wild
    BY <1>1, <2>1, FetchSafe
  <2> QED
    BY <2>2 DEF f
<1>3. \A q \in DOMAIN row : row[q] # Wild
  <2> SUFFICES ASSUME NEW q \in 1..p.n PROVE row[q] # Wild
    BY DEF Line
  <2>1. q - 1 \in 0..(p.n - 1) /\ (q - 1) * 1 = q - 1
    BY <1>1
  <2>2. row[q] = Fetch(p.src[1], r * p.n + (q - 1))
    BY <2>1 DEF Line
  <2> HIDE DEF row
  <2> QED
    BY <1>2, <2>1, <2>2
<1>4. ASSUME NEW j \in 0..(p.n - 1), NEW a, NEW t, AffineArray(a, t),
             t = Absent \/ (t \in Seq(Nat) /\ p.n <= Numel(t))
      PROVE  \A q \in DOMAIN Affine(a, j) : Affine(a, j)[q] # Wild
  <2>1. CASE a = <<>>
    BY <2>1
  <2>2. CASE a # <<>>
    <3>1. t # Absent
      BY <1>4, <2>2 DEF AffineArray
    <3>2. Numel(t) \in Nat /\ p.n <= Numel(t) /\ Array(a, Numel(t))
      BY <1>4, <3>1, NumelNat DEF AffineArray
    <3>3. j \in 0..(Numel(t) - 1)
      BY <1>1, <3>2
    <3>4. Fetch(a, j) # Wild
      BY <3>2, <3>3, FetchSafe
    <3> QED
      BY <2>2, <3>4
  <2> QED
    BY <2>1, <2>2
<1>5. ASSUME NEW j \in 0..(p.n - 1) PROVE Safe(NormWrite(p, r, j))
  <2> DEFINE own == <<Fetch(p.src[1], r * p.n + j)>>
             scale == Affine(p.src[2], j)
             shift == Affine(p.src[3], j)
             from == <<row, own, scale, shift>>
  <2>1. NormWrite(p, r, j).from = from
    BY DEF NormWrite, Write
  <2>2. /\ \A q \in DOMAIN scale : scale[q] # Wild
        /\ \A q \in DOMAIN shift : shift[q] # Wild
    BY <1>1, <1>4
  <2>3. \A q \in DOMAIN own : own[q] # Wild
    BY <1>2
  <2> HIDE DEF row, own, scale, shift
  <2>4. \A s \in DOMAIN from : \A q \in DOMAIN from[s] : from[s][q] # Wild
    BY <1>3, <2>2, <2>3
  <2> HIDE DEF from
  <2> QED
    BY <2>1, <2>4 DEF Safe
<1>6. ASSUME NEW name PROVE Safe(StatWrite(p, name, r))
  <2> DEFINE from == <<row>>
  <2>1. StatWrite(p, name, r).from = from
    BY DEF StatWrite, Write
  <2> HIDE DEF row
  <2>2. \A s \in DOMAIN from : \A q \in DOMAIN from[s] : from[s][q] # Wild
    BY <1>3
  <2> HIDE DEF from
  <2> QED
    BY <2>1, <2>2 DEF Safe
<1> QED
  BY <1>5, <1>6

(* An element of the table, or none.                                       *)
LEMMA EmbeddingSafe ==
  ASSUME NEW p, EmbeddingLaunch(p), NEW r, NEW j \in 0..(p.n - 1)
  PROVE  Safe(EmbeddingWrite(p, r, j))
<1> DEFINE id == p.ids[r + 1]
           N == p.k * p.n
           f == id * p.n + j
<1>1. p.k \in Nat /\ p.n \in Nat /\ N \in Nat /\ Array(p.src[1], N)
  BY DEF EmbeddingLaunch
<1>2. CASE id \in 0..(p.k - 1)
  <2>1. f \in 0..(N - 1)
    BY <1>1, <1>2, InMatrix
  <2>2. EmbeddingWrite(p, r, j).from = <<<<Fetch(p.src[1], f)>>>>
    BY <1>2 DEF EmbeddingWrite, Write
  <2> HIDE DEF f, N
  <2>3. Fetch(p.src[1], f) # Wild
    BY <1>1, <2>1, FetchSafe
  <2> QED
    BY <2>2, <2>3 DEF Safe
<1>3. CASE id \notin 0..(p.k - 1)
  <2>1. EmbeddingWrite(p, r, j).from = <<>>
    BY <1>3 DEF EmbeddingWrite, Write
  <2> QED
    BY <2>1 DEF Safe
<1> QED
  BY <1>2, <1>3

(* What a launch writes is computed from elements that exist, unless the   *)
(* weight or the bias of a layernorm is shorter than a row.                *)
ShortWeight(c, p) ==
  c.op = "layer_norm" /\ \E s \in {c.z, c.w} : s # Absent /\ Numel(s) < p.n

(* For every launch of every operator.                                     *)
LEMMA ResultsSafe ==
  ASSUME NEW c \in Calls, NEW p, Launched(c, p), ~ShortWeight(c, p),
         NEW e \in DOMAIN Results(p)
  PROVE  Safe(Results(p)[e])
<1>1. CASE ElementLaunch(p)
  <2>1. e[2] \in 0..(p.numel - 1) /\ Results(p)[e] = ElementWrite(p, e[2])
    BY <1>1, ElementUnits
  <2> QED
    BY <1>1, <2>1, ElementSafe
<1>2. CASE MatrixLaunch(p)
  <2> DEFINE b == BatchOfElement(p, e)
             i == RowOf(p, e)
             j == ColumnOf(p, e)
  <2>1. /\ b \in 0..(p.batch - 1) /\ i \in 0..(p.m - 1) /\ j \in 0..(p.n - 1)
        /\ Results(p)[e] = DotWrite(p, b, i, j)
    BY <1>2, MatrixUnits
  <2> HIDE DEF b, i, j
  <2>2. Safe(DotWrite(p, b, i, j))
    BY <1>2, <2>1, DotSafe
  <2> QED
    BY <2>1, <2>2
<1>3. CASE SoftmaxLaunch(p)
  <2> DEFINE o == OuterOf(p, e)
             d == AlongOf(p, e)
             i == InnerOf(p, e)
  <2>1. /\ o \in 0..(p.m - 1) /\ d \in 0..(p.n - 1) /\ i \in 0..(p.k - 1)
        /\ Results(p)[e] = SoftmaxWrite(p, o, d, i)
    BY <1>3, SoftmaxUnits
  <2> HIDE DEF o, d, i
  <2>2. Safe(SoftmaxWrite(p, o, d, i))
    BY <1>3, <2>1, SoftmaxSafe
  <2> QED
    BY <2>1, <2>2
<1>4. CASE c.op = "layer_norm" /\ NormLaunch(p, c.z, c.w)
  <2> DEFINE r == NormRow(p, e)
             j == AtColumn(p, e)
  <2>1. ASSUME NEW s \in {c.z, c.w}
        PROVE  s = Absent \/ (s \in Seq(Nat) /\ p.n <= Numel(s))
    <3>1. s \in Seq(Nat) \cup {Absent}
      BY CallsAssumption
    <3>2. s \in Seq(Nat) => Numel(s) \in Nat
      BY NumelNat
    <3>3. p.n \in Nat
      BY <1>4 DEF NormLaunch
    <3>4. s = Absent \/ ~(Numel(s) < p.n)
      BY <1>4 DEF ShortWeight
    <3> QED
      BY <3>1, <3>2, <3>3, <3>4
  <2>2. /\ r \in 0..(p.m - 1)
        /\ \/ j \in 0..(p.n - 1) /\ Results(p)[e] = NormWrite(p, r, j)
           \/ Results(p)[e] = StatWrite(p, e[1], r)
    BY <1>4, NormUnits
  <2> HIDE DEF r, j
  <2>3. /\ \A x \in 0..(p.n - 1) : Safe(NormWrite(p, r, x))
        /\ \A name : Safe(StatWrite(p, name, r))
    BY <1>4, <2>1, <2>2, NormSafe
  <2> QED
    BY <2>2, <2>3
<1>5. CASE EmbeddingLaunch(p)
  <2> DEFINE r == InRow(p, e)
             j == AtColumn(p, e)
  <2>1. j \in 0..(p.n - 1) /\ Results(p)[e] = EmbeddingWrite(p, r, j)
    BY <1>5, EmbeddingUnits
  <2> HIDE DEF r, j
  <2>2. Safe(EmbeddingWrite(p, r, j))
    BY <1>5, <2>1, EmbeddingSafe
  <2> QED
    BY <2>1, <2>2
<1> QED
  BY <1>1, <1>2, <1>3, <1>4, <1>5 DEF Launched

(* An item reads nothing that it does not use for a write.                 *)
Used(item) == Wild \in item.reads => \E w \in item.writes : ~Safe(w)

(* Every item says its reads by its writes, ...                            *)
LEMMA ItemUsed ==
  ASSUME NEW writes
  PROVE  Used(Item(writes))
<1>1. /\ Item(writes).writes = writes
      /\ Item(writes).reads =
           UNION {UNION {ToSet(w.from[s]) : s \in DOMAIN w.from} : w \in writes}
  BY DEF Item
<1>2. ASSUME Wild \in Item(writes).reads PROVE \E w \in writes : ~Safe(w)
  <2>1. PICK w \in writes : Wild \in UNION {ToSet(w.from[s]) : s \in DOMAIN w.from}
    BY <1>1, <1>2
  <2>2. PICK s \in DOMAIN w.from : Wild \in ToSet(w.from[s])
    BY <2>1
  <2>3. PICK q \in DOMAIN w.from[s] : Wild = w.from[s][q]
    BY <2>2 DEF ToSet
  <2> QED
    BY <2>3 DEF Safe
<1> QED
  BY <1>1, <1>2 DEF Used

(* ... and what softmax reads first is an element of the line, if it has   *)
(* any.                                                                    *)
LEMMA SoftmaxUsed ==
  ASSUME NEW p, p.n \in Nat, p.n > 0, NEW o, NEW i
  PROVE  Used(SoftmaxItem(p, o, i))
<1> DEFINE At(d) == (o * p.n + d) * p.k + i
           line == Line(p.src[1], At(0), p.k, p.n)
           first == Fetch(p.src[1], At(0))
           writes == {SoftmaxWrite(p, o, d, i) : d \in 0..(p.n - 1)}
           item == SoftmaxItem(p, o, i)
<1>1. item.writes = writes /\ item.reads = Item(writes).reads \cup {first}
  BY DEF SoftmaxItem, SoftmaxWrite, Item
<1>2. ASSUME first = Wild PROVE \E w \in writes : ~Safe(w)
  <2> DEFINE w == SoftmaxWrite(p, o, 0, i)
  <2>1. w \in writes
    OBVIOUS
  <2>2. w.from = <<<<first>>, line>>
    BY DEF SoftmaxWrite, Write
  <2> HIDE DEF w, first, line, writes
  <2>3. 1 \in DOMAIN w.from /\ 1 \in DOMAIN w.from[1] /\ w.from[1][1] = Wild
    BY <1>2, <2>2
  <2> QED
    BY <2>1, <2>3 DEF Safe
<1>3. Wild \in Item(writes).reads => \E w \in writes : ~Safe(w)
  <2> HIDE DEF writes
  <2> QED
    BY ItemUsed, ItemWrites DEF Used
<1> HIDE DEF first, writes, item
<1> QED
  BY <1>1, <1>2, <1>3 DEF Used, item

(* On the host, unless a softmax has no elements to add up.                *)
LEMMA HostUsed ==
  ASSUME NEW c, NEW p, Launched(c, p), p.kernel = "softmax" => p.n > 0,
         NEW i \in DOMAIN HostItems(p)
  PROVE  Used(HostItems(p)[i])
<1>1. CASE p.kernel \in Elementwise
  <2>1. HostItems(p) = [x \in 0..(p.numel - 1) |-> ElementItem(p, x)]
    <3>1. p.kernel \notin {"gemm_bias_act", "bmm", "softmax", "layernorm", "embedding"}
      BY <1>1 DEF Elementwise
    <3> QED
      BY <1>1, <3>1 DEF HostItems
  <2> QED
    BY <2>1, ItemUsed DEF ElementItem
<1>2. CASE p.kernel \in {"gemm_bias_act", "bmm"}
  <2>1. HostItems(p) = HostGemm(p)
    BY <1>2 DEF HostItems, Elementwise
  <2> QED
    BY <2>1, ItemUsed DEF HostGemm, HostDot
<1>3. CASE p.kernel = "softmax" /\ SoftmaxLaunch(p)
  <2>1. HostItems(p) = [it \in (0..(p.m - 1)) \X (0..(p.k - 1)) |-> SoftmaxItem(p, it[1], it[2])]
    BY <1>3 DEF HostItems, Elementwise
  <2>2. p.n \in Nat /\ p.n > 0
    BY <1>3 DEF SoftmaxLaunch
  <2> QED
    BY <2>1, <2>2, SoftmaxUsed
<1>4. CASE p.kernel = "layernorm"
  <2>1. HostItems(p) = [r \in 0..(p.m - 1) |-> LayerNormItem(p, r)]
    BY <1>4 DEF HostItems, Elementwise
  <2> QED
    BY <2>1, ItemUsed DEF LayerNormItem
<1>5. CASE p.kernel = "embedding"
  <2>1. HostItems(p) =
          [r \in 0..(p.numel - 1) |-> Item({EmbeddingWrite(p, r, j) : j \in 0..(p.n - 1)})]
    BY <1>5 DEF HostItems, Elementwise
  <2> QED
    BY <2>1, ItemUsed
<1> QED
  BY <1>1, <1>2, <1>3, <1>4, <1>5, KernelTells

(* On the device, for what fits and has its buffers.                       *)
LEMMA DeviceUsed ==
  ASSUME NEW c, NEW p, Launched(c, p), IsParams(p), FitsInt(p), ~HasNull(p),
         NEW i \in DOMAIN DeviceItems(p)
  PROVE  Used(DeviceItems(p)[i])
<1> DEFINE q == Cast(p)
           gid == AsInt(i)
<1>1. DeviceItems(p)[i] = DeviceItem(q, gid)
  BY DEF DeviceItems, Cast
<1>2. q.kernel = p.kernel
  BY CastFields
<1>3. p.kernel = "softmax" => q.n \in Nat /\ q.n > 0
  <2> SUFFICES ASSUME p.kernel = "softmax" PROVE q.n \in Nat /\ q.n > 0
    OBVIOUS
  <2> DEFINE A == p.m
             B == p.n
             C == p.k
  <2>1. A \in Nat /\ B \in Nat /\ C \in Nat /\ Numel(p.shape) = A * B * C
    <3>1. SoftmaxLaunch(p)
      BY KernelTells DEF Elementwise
    <3> QED
      BY <3>1 DEF SoftmaxLaunch
  <2>2. q.n = AsInt(B)
    BY CastFields
  <2> HIDE DEF A, B, C, q
  <2>3. MaxInt \in Nat /\ A * B * C # 0 /\ A * B * C <= MaxInt
    BY <2>1, WidthsAssumption DEF HasNull, FitsInt
  <2>4. A > 0 /\ B > 0 /\ C > 0
    <3>1. A # 0 /\ B # 0 /\ C # 0
      BY <2>1, <2>3
    <3> QED
      BY <2>1, <3>1
  <2>5. A * C \in Nat /\ A * C > 0
    BY <2>1, <2>4, FactorsBelow
  <2> DEFINE D == A * C
  <2>6. D \in Nat /\ D > 0 /\ A * B * C = B * D
    BY <2>1, <2>5
  <2> HIDE DEF D
  <2>7. B <= B * D
    BY <2>1, <2>4, <2>6, FactorsBelow
  <2>8. B <= MaxInt
    BY <2>1, <2>3, <2>6, <2>7
  <2> QED
    BY <2>1, <2>2, <2>4, <2>8, SmallKeeps
<1> HIDE DEF q, gid
<1>4. Used(Nothing)
  BY ItemUsed DEF Nothing
<1>5. CASE p.kernel \in Elementwise
  <2>1. p.kernel \notin {"gemm_bias_act", "bmm", "softmax", "layernorm", "embedding"}
    BY <1>5 DEF Elementwise
  <2>2. DeviceItem(q, gid) = DeviceElement(q, gid)
    BY <1>2, <1>5, <2>1 DEF DeviceItem
  <2> QED
    BY <1>1, <1>4, <2>2, ItemUsed DEF DeviceElement, ElementItem
<1>6. CASE p.kernel = "gemm_bias_act"
  <2>1. DeviceItem(q, gid) = DeviceGemm(q, gid)
    BY <1>2, <1>6 DEF DeviceItem, Elementwise
  <2>2. \A b, x, y : Used(DeviceDot(q, b, x, y))
    BY ItemUsed DEF DeviceDot
  <2> QED
    BY <1>1, <1>4, <2>1, <2>2 DEF DeviceGemm
<1>7. CASE p.kernel = "bmm"
  <2>1. DeviceItem(q, gid) = DeviceBmm(q, gid)
    BY <1>2, <1>7 DEF DeviceItem, Elementwise
  <2>2. \A b, x, y : Used(DeviceDot(q, b, x, y))
    BY ItemUsed DEF DeviceDot
  <2> QED
    BY <1>1, <1>4, <2>1, <2>2 DEF DeviceBmm
<1>8. CASE p.kernel = "softmax"
  <2>1. DeviceItem(q, gid) = DeviceSoftmax(q, gid)
    BY <1>2, <1>8 DEF DeviceItem, Elementwise
  <2>2. \A o, x : Used(SoftmaxItem(q, o, x))
    BY <1>3, <1>8, SoftmaxUsed
  <2> QED
    BY <1>1, <1>4, <2>1, <2>2 DEF DeviceSoftmax
<1>9. CASE p.kernel = "layernorm"
  <2>1. DeviceItem(q, gid) = DeviceLayerNorm(q, gid)
    BY <1>2, <1>9 DEF DeviceItem, Elementwise
  <2>2. \A r : Used(LayerNormItem(q, r))
    BY ItemUsed DEF LayerNormItem
  <2> QED
    BY <1>1, <1>4, <2>1, <2>2 DEF DeviceLayerNorm
<1>10. CASE p.kernel = "embedding"
  <2>1. DeviceItem(q, gid) = DeviceEmbedding(q, gid)
    BY <1>2, <1>10 DEF DeviceItem, Elementwise
  <2> QED
    BY <1>1, <1>4, <2>1, ItemUsed DEF DeviceEmbedding
<1> QED
  BY <1>5, <1>6, <1>7, <1>8, <1>9, <1>10, KernelTells

(* Every launch reads elements that exist, on both backends, except for a  *)
(* layer_norm whose weight or bias is shorter than a row, and a softmax    *)
(* over no elements, which reads one before it asks (LlmOps.cpp:180-226,   *)
(* HostKernels.cpp:34-258, OpenCLRuntime.cpp:402-507).                     *)
THEOREM ReadsExist == Spec => []ReadsInBounds
<1>1. IInv => ReadsInBounds
  <2> SUFFICES ASSUME IInv, stage = "ran", Wild \in reads,
                      ~ShortWeight(call, params),
                      ~(call.op = "softmax" /\ params.n = 0)
               PROVE  FALSE
    BY DEF ReadsInBounds, ShortWeight
  <2>1. /\ Launched(call, params) /\ IsParams(params) /\ backend \in {"sim", "opencl"}
        /\ backend = "opencl" => FitsInt(params) /\ ~HasNull(params)
        /\ reads = AllReads(Items) /\ call \in Calls
    BY DEF IInv, TypeOK, ParamsKept, Enqueued, RunDone
  <2>2. params.kernel = "softmax" => params.n > 0
    <3>1. params.kernel = "softmax" => call.op = "softmax" /\ SoftmaxLaunch(params)
      BY <2>1, KernelTells DEF Elementwise
    <3> QED
      BY <3>1 DEF SoftmaxLaunch
  <2>3. ASSUME NEW i \in DOMAIN Items PROVE Used(Items[i])
    <3>1. CASE backend = "sim"
      BY <2>1, <2>2, <2>3, <3>1, HostUsed DEF Items
    <3>2. CASE backend = "opencl"
      BY <2>1, <2>3, <3>2, DeviceUsed DEF Items
    <3> QED
      BY <2>1, <3>1, <3>2
  <2>4. \E own : Once(Items, Results(params), own)
    BY <2>1, HostOnce, DeviceOnce DEF Items
  <2>6. PICK i \in DOMAIN Items : Wild \in Items[i].reads
    BY <2>1 DEF AllReads
  <2>7. PICK w \in Items[i].writes : ~Safe(w)
    BY <2>3, <2>6 DEF Used
  <2>8. w \in AllWrites(Items)
    BY <2>7 DEF AllWrites
  <2>9. AllWrites(Items) = {Results(params)[e] : e \in DOMAIN Results(params)}
    BY <2>4, OnceWrites
  <2>10. PICK e \in DOMAIN Results(params) : w = Results(params)[e]
    BY <2>8, <2>9
  <2> QED
    BY <2>1, <2>7, <2>10, ResultsSafe
<1> QED
  BY <1>1, Inductive, PTL

-----------------------------------------------------------------------------
(* Serving regular calls.                                                  *)

(* A shape without elements has a size of zero.                            *)
LEMMA NumelZero ==
  ASSUME NEW s \in Seq(Nat), Numel(s) = 0
  PROVE  0 \in ToSet(s)
<1> SUFFICES ASSUME 0 \notin ToSet(s) PROVE FALSE
  OBVIOUS
<1>1. Len(s) \in Nat /\ \A d \in 1..Len(s) : s[d] \in Nat /\ s[d] # 0
  BY DEF ToSet
<1>2. PICK P : Products(P, s)
  BY <1>1, NumelRun
<1> DEFINE S == {d \in Nat : d <= Len(s) => P[d] \in Nat /\ P[d] # 0}
<1>3. 0 \in S
  BY <1>2 DEF Products
<1>4. ASSUME NEW d \in Nat, d \in S PROVE d + 1 \in S
  <2> SUFFICES ASSUME d + 1 <= Len(s) PROVE P[d + 1] \in Nat /\ P[d + 1] # 0
    OBVIOUS
  <2>1. d + 1 \in 1..Len(s) /\ P[d] \in Nat /\ P[d] # 0 /\ (d + 1) - 1 = d
    BY <1>1, <1>4
  <2>2. P[d + 1] = P[d] * s[d + 1]
    BY <1>2, <2>1 DEF Products
  <2>3. s[d + 1] \in Nat /\ s[d + 1] # 0
    BY <1>1, <2>1
  <2> QED
    BY <2>1, <2>2, <2>3
<1>5. Len(s) \in S
  <2> HIDE DEF S
  <2> QED
    BY <1>1, <1>3, <1>4, SetInduction
<1> QED
  BY <1>2, <1>5 DEF Products

(* The elements of a launch are those of the operands.                     *)
Zero(c) == \E o \in Operands : 0 \in ToSet(c[o])

Sized(c, p) ==
  /\ c.op \in {"fill", "unary", "pointwise", "softmax", "layer_norm"} => p.shape = c.x
  /\ c.op = "binary" => Joins(c.x, c.y) /\ p.shape = Join(c.x, c.y)
  /\ c.op \in MatrixOps => Numel(c.x) = p.batch * p.m * p.k
  /\ c.op = "embedding" => Numel(c.y) = p.k * p.n

(* gemm_bias_act keeps the rows and columns of its first operand.          *)
LEMMA GemmSized ==
  ASSUME NEW xs, NEW ys, NEW z, NEW transB, NEW shape,
         GemmBiasAct(xs, ys, z, transB, shape).stage = "ready"
  PROVE  LET p == GemmBiasAct(xs, ys, z, transB, shape).params
         IN  p.batch = 1 /\ p.m = xs[1] /\ p.k = xs[2]
<1> DEFINE n == IF transB THEN ys[1] ELSE ys[2]
           r == Ready([NoParams EXCEPT
                  !.kernel = "gemm_bias_act", !.transB = transB, !.shape = shape,
                  !.src = <<Contiguous("x", xs), Contiguous("y", ys), Optional("z", z)>>,
                  !.numel = xs[1] * n, !.m = xs[1], !.n = n, !.k = xs[2]])
<1>1. GemmBiasAct(xs, ys, z, transB, shape) \in {Refused, Empty, r}
  BY DEF GemmBiasAct
<1>2. Refused.stage # "ready" /\ Empty.stage # "ready"
  BY DEF Refused, Empty, Ends
<1>3. r.params.batch = 1 /\ r.params.m = xs[1] /\ r.params.k = xs[2]
  BY DEF Ready, NoParams
<1> HIDE DEF r
<1> QED
  BY <1>1, <1>2, <1>3

(* linear and linear_act.                                                  *)
LEMMA RowsSized ==
  ASSUME NEW x \in Seq(Nat), x # <<>>, Size(x, 1) # 0
  PROVE  LET m == Numel(x) \div Size(x, 1)
         IN  m \in Nat /\ Size(x, 1) \in Nat /\ Numel(x) = 1 * m * Size(x, 1)
<1> DEFINE a == Numel(Front1(x))
           b == Size(x, 1)
<1>1. Front1(x) \in Seq(Nat) /\ b \in Nat /\ b > 0 /\ Numel(x) = a * b
  BY NumelLast
<1>2. a \in Nat
  BY <1>1, NumelNat
<1>3. Numel(x) \div b = a
  BY <1>1, <1>2, Quotient
<1> HIDE DEF a, b
<1>4. Numel(x) = 1 * a * b
  BY <1>1, <1>2
<1> QED
  BY <1>1, <1>2, <1>3, <1>4 DEF b

(* matmul and bmm count the matrices of x.                                 *)
LEMMA MatmulSized ==
  ASSUME NEW x \in Seq(Nat), NEW y \in Seq(Nat), Matmul(x, y).stage = "ready"
  PROVE  LET p == Matmul(x, y).params IN Numel(x) = p.batch * p.m * p.k
<1> DEFINE m == Size(x, 2)
           k == Size(x, 1)
           n == Size(y, 1)
           a == Numel(x) \div (m * k)
           expands == Len(y) = 2 /\ a > 1
           b == IF expands THEN a ELSE Numel(y) \div (k * n)
           r == Batched(x, y, a, expands)
<1>1. CASE Len(x) = 2 /\ Len(y) = 2
  <2>1. Matmul(x, y) = GemmBiasAct(x, y, Absent, FALSE, <<x[1], y[2]>>)
    BY <1>1 DEF Matmul, Matmul2D
  <2> DEFINE p == Matmul(x, y).params
  <2>2. p.batch = 1 /\ p.m = x[1] /\ p.k = x[2]
    <3> DEFINE transB == FALSE
               z == Absent
               shape == <<x[1], y[2]>>
    <3>1. Matmul(x, y) = GemmBiasAct(x, y, z, transB, shape)
      BY <2>1
    <3> HIDE DEF transB, z, shape
    <3> QED
      BY <3>1, GemmSized
  <2>3. Numel(x) = x[1] * x[2] /\ x[1] \in Nat /\ x[2] \in Nat
    BY <1>1, MatrixShape
  <2> HIDE DEF p
  <2>4. Numel(x) = p.batch * p.m * p.k
    BY <2>2, <2>3
  <2> QED
    BY <2>4 DEF p
<1>2. CASE ~(Len(x) = 2 /\ Len(y) = 2)
  <2>1. Refused.stage # "ready" /\ Crashed.stage # "ready"
    BY DEF Refused, Crashed, Ends
  <2>2. /\ Len(x) >= 2 /\ Matmul(x, y) = r /\ k # 0 /\ m # 0
    BY <1>2, <2>1 DEF Matmul
  <2>3. r.params.m = m /\ r.params.k = k /\ r.params.batch = a
    BY DEF Batched, Ready, NoParams
  <2> DEFINE A == Numel(BatchOf(x))
  <2>4. A \in Nat /\ m \in Nat /\ k \in Nat /\ Numel(x) = A * m * k
    BY <2>2, BatchShape
  <2> HIDE DEF r, m, k, A
  <2>5. m > 0 /\ k > 0
    BY <2>2, <2>4
  <2>6. m * k > 0 /\ m * k \in Nat
    BY <2>4, <2>5, FactorsBelow
  <2>7. a = A
    <3>1. A * m * k = A * (m * k)
      BY <2>4
    <3> QED
      BY <2>4, <2>6, <3>1, Quotient
  <2> QED
    BY <2>2, <2>3, <2>4, <2>7
<1> QED
  BY <1>1, <1>2

(* What is launched has the sizes of the operands.                         *)
LEMMA ReadySized ==
  ASSUME NEW c \in Calls, Prepared(c).stage = "ready"
  PROVE  Sized(c, Prepared(c).params)
<1> DEFINE p == Prepared(c).params
           xs == <<Numel(c.x) \div Size(c.x, 1), Size(c.x, 1)>>
<1>0. /\ c.op \in Operators /\ c.x \in Seq(Nat) /\ c.z \in Seq(Nat) \cup {Absent}
      /\ c.op \notin {"fill", "unary", "softmax"} => c.y \in Seq(Nat)
  BY CallsAssumption
<1>1. Refused.stage # "ready" /\ Crashed.stage # "ready" /\ Empty.stage # "ready"
  BY DEF Refused, Crashed, Empty, Ends
<1>2. \A kernel, src, shape : Launch1(kernel, src, shape).params.shape = shape
  BY DEF Launch1, Ready, NoParams
<1>3. CASE c.op \in {"fill", "unary", "pointwise"}
  <2>1. p.shape = c.x
    <3>1. CASE c.op = "fill"
      BY <1>1, <1>2, <3>1 DEF Prepared, Filled
    <3>2. CASE c.op = "unary"
      BY <1>2, <3>2 DEF Prepared, Unary
    <3>3. CASE c.op = "pointwise"
      BY <1>1, <1>2, <3>3 DEF Prepared, PointwiseOp
    <3> QED
      BY <1>3, <3>1, <3>2, <3>3
  <2> QED
    BY <1>3, <2>1 DEF Sized, MatrixOps
<1>4. CASE c.op = "binary"
  <2>1. Joins(c.x, c.y) /\ p.shape = Join(c.x, c.y)
    BY <1>1, <1>2, <1>4 DEF Prepared, Binary
  <2> QED
    BY <1>4, <2>1 DEF Sized, MatrixOps
<1>5. CASE c.op \in {"softmax", "layer_norm"}
  <2>1. p.shape = c.x
    <3>1. CASE c.op = "softmax"
      <4>1. Prepared(c) = Softmax(c)
        BY <3>1 DEF Prepared
      <4> QED
        BY <1>1, <4>1 DEF Softmax, Ready, NoParams
    <3>2. CASE c.op = "layer_norm"
      <4>1. Prepared(c) = LayerNorm(c)
        BY <3>2 DEF Prepared
      <4> QED
        BY <1>1, <4>1 DEF LayerNorm, Ready, NoParams
    <3> QED
      BY <1>5, <3>1, <3>2
  <2> QED
    BY <1>5, <2>1 DEF Sized, MatrixOps
<1>6. CASE c.op = "mm"
  <2>1. /\ Len(c.x) = 2 /\ Len(c.y) = 2
        /\ Prepared(c) = GemmBiasAct(c.x, c.y, Absent, FALSE, <<c.x[1], c.y[2]>>)
    BY <1>1, <1>6 DEF Prepared, Mm
  <2>2. p.batch = 1 /\ p.m = c.x[1] /\ p.k = c.x[2]
    <3> DEFINE transB == FALSE
               z == Absent
               shape == <<c.x[1], c.y[2]>>
    <3>1. Prepared(c) = GemmBiasAct(c.x, c.y, z, transB, shape)
      BY <2>1
    <3> HIDE DEF transB, z, shape
    <3> QED
      BY <3>1, GemmSized
  <2>3. Numel(c.x) = c.x[1] * c.x[2] /\ c.x[1] \in Nat /\ c.x[2] \in Nat
    BY <1>0, <2>1, MatrixShape
  <2> HIDE DEF p
  <2>4. Numel(c.x) = p.batch * p.m * p.k
    BY <2>2, <2>3
  <2> QED
    BY <1>6, <2>4 DEF Sized, p
<1>7. CASE c.op \in {"linear", "linear_act", "linear_act_t"}
  <2>1. /\ c.x # <<>> /\ Size(c.x, 1) # 0
        /\ \E transB, shape : Prepared(c) = GemmBiasAct(xs, c.y, c.z, transB, shape)
    BY <1>1, <1>7 DEF Prepared, Linear, LinearAct
  <2>2. xs[1] = Numel(c.x) \div Size(c.x, 1) /\ xs[2] = Size(c.x, 1)
    OBVIOUS
  <2> HIDE DEF xs
  <2>3. p.batch = 1 /\ p.m = xs[1] /\ p.k = xs[2]
    BY <2>1, GemmSized
  <2>4. Numel(c.x) = 1 * xs[1] * xs[2]
    BY <1>0, <2>1, <2>2, RowsSized
  <2> QED
    BY <1>7, <2>3, <2>4 DEF Sized
<1>8. CASE c.op \in {"matmul", "bmm"}
  <2>1. Prepared(c) = Matmul(c.x, c.y)
    BY <1>1, <1>8 DEF Prepared, Bmm
  <2>2. Numel(c.x) = p.batch * p.m * p.k
    BY <1>0, <1>8, <2>1, MatmulSized
  <2> QED
    BY <1>8, <2>2 DEF Sized
<1>9. CASE c.op = "embedding"
  <2>1. Len(c.y) = 2 /\ p.k = c.y[1] /\ p.n = c.y[2]
    BY <1>1, <1>9 DEF Prepared, Embedding, Ready, NoParams
  <2>2. Numel(c.y) = c.y[1] * c.y[2]
    BY <1>0, <1>9, <2>1, MatrixShape
  <2> QED
    BY <1>9, <2>1, <2>2 DEF Sized, MatrixOps
<1> QED
  BY <1>0, <1>3, <1>4, <1>5, <1>6, <1>7, <1>8, <1>9 DEF Operators

(* A joined shape has no size of zero that its operands have not.          *)
LEMMA JoinZero ==
  ASSUME NEW x \in Seq(Nat), NEW y \in Seq(Nat), Numel(Join(x, y)) = 0
  PROVE  0 \in ToSet(x) \cup ToSet(y)
<1> DEFINE n == Longer(x, y)
           t == Join(x, y)
<1>1. n \in Nat /\ n >= Len(x) /\ n >= Len(y)
  BY DEF Longer
<1>2. 0 \in ToSet(t)
  BY JoinShape, NumelZero
<1>3. DOMAIN t = 1..n
  BY DEF Join
<1>4. PICK d \in 1..n : t[d] = 0
  BY <1>2, <1>3 DEF ToSet
<1>5. Dims(x, n)[d] = 0 \/ Dims(y, n)[d] = 0
  BY <1>4 DEF Join
<1> HIDE DEF n, t
<1>6. ASSUME NEW s \in Seq(Nat), Len(s) <= n, Dims(s, n)[d] = 0 PROVE 0 \in ToSet(s)
  <2>1. d > n - Len(s) /\ s[d - (n - Len(s))] = 0
    BY <1>1, <1>4, <1>6 DEF Dims
  <2>2. d - (n - Len(s)) \in DOMAIN s
    BY <1>1, <1>4, <1>6, <2>1
  <2> QED
    BY <2>1, <2>2 DEF ToSet
<1> QED
  BY <1>1, <1>5, <1>6

(* A launch without a buffer is one of an operand with a size of zero.     *)
LEMMA NullMeansZero ==
  ASSUME NEW c \in Calls, NEW p, Launched(c, p), Sized(c, p), HasNull(p)
  PROVE  Zero(c)
<1>0. /\ c.op \in Operators /\ c.x \in Seq(Nat) /\ c.z \in Seq(Nat) \cup {Absent}
      /\ c.op \notin {"fill", "unary", "softmax"} => c.y \in Seq(Nat)
  BY CallsAssumption
<1>01. /\ 0 \in ToSet(c.x) => Zero(c)
       /\ 0 \in ToSet(c.y) => Zero(c)
  BY DEF Zero, Operands
<1>1. ASSUME NEW s, NEW n \in Nat, Array(p.src[s], n), DOMAIN p.src[s] = {}
      PROVE  n = 0
  <2>1. ~(0 \in 0..(n - 1))
    BY <1>1 DEF Array
  <2> QED
    BY <2>1
<1>2. Numel(c.x) = 0 => Zero(c)
  BY <1>0, <1>01, NumelZero
<1>3. CASE c.op \in {"fill", "unary", "binary", "pointwise"}
  <2>1. ElementLaunch(p)
    BY <1>3 DEF Launched, MatrixOps
  <2>2. Numel(p.shape) = 0
    <3>1. p.kernel \notin {"gemm_bias_act", "bmm", "layernorm"}
      BY <2>1 DEF ElementLaunch, Elementwise
    <3>2. Buffers(p) = DOMAIN p.src
      BY <3>1 DEF Buffers
    <3> QED
      BY <1>1, <2>1, <3>2 DEF HasNull, ElementLaunch
  <2>3. CASE c.op = "binary"
    <3>1. 0 \in ToSet(c.x) \cup ToSet(c.y)
      BY <1>0, <2>2, <2>3, JoinZero DEF Sized
    <3> QED
      BY <1>01, <3>1
  <2>4. CASE c.op # "binary"
    BY <1>2, <1>3, <2>2, <2>4 DEF Sized
  <2> QED
    BY <2>3, <2>4
<1>4. CASE c.op \in MatrixOps
  <2> DEFINE A == p.batch
             B == p.m
             C == p.n
             K == p.k
  <2>1. MatrixLaunch(p)
    BY <1>4 DEF Launched, MatrixOps
  <2>2. /\ A \in Nat /\ B \in Nat /\ C \in Nat /\ K \in Nat /\ B > 0 /\ C > 0
        /\ Numel(p.shape) = A * B * C
        /\ Array(p.src[1], A * B * K) /\ Array(p.src[2], A * K * C)
    BY <2>1 DEF MatrixLaunch
  <2>3. Numel(c.x) = A * B * K
    BY <1>4 DEF Sized
  <2>4. Buffers(p) = {1, 2}
    BY <2>1 DEF MatrixLaunch, Buffers
  <2> HIDE DEF A, B, C, K
  <2>5. A * B * C \in Nat /\ A * B * K \in Nat /\ A * K * C \in Nat
    BY <2>2
  <2>6. A * B * C = 0 \/ A * B * K = 0 \/ A * K * C = 0
    BY <1>1, <2>2, <2>4, <2>5 DEF HasNull
  <2>7. A = 0 \/ K = 0
    BY <2>2, <2>6
  <2>8. A * B * K = 0
    BY <2>2, <2>7
  <2> QED
    BY <1>2, <2>3, <2>8
<1>5. CASE c.op = "softmax"
  <2>1. SoftmaxLaunch(p) /\ p.shape = c.x
    BY <1>5 DEF Launched, MatrixOps, Sized
  <2>2. /\ p.m * p.n * p.k \in Nat /\ Numel(c.x) = p.m * p.n * p.k
        /\ DOMAIN p.src = {1} /\ Array(p.src[1], p.m * p.n * p.k)
    BY <2>1 DEF SoftmaxLaunch
  <2>3. Buffers(p) = {1}
    BY <2>1, <2>2 DEF SoftmaxLaunch, Buffers
  <2> QED
    BY <1>1, <1>2, <2>1, <2>2, <2>3 DEF HasNull
<1>6. CASE c.op = "layer_norm"
  <2>1. NormLaunch(p, c.z, c.w) /\ p.shape = c.x
    BY <1>6 DEF Launched, MatrixOps, Sized
  <2>2. /\ p.m * p.n \in Nat /\ Numel(c.x) = p.m * p.n /\ Array(p.src[1], p.m * p.n)
    BY <2>1 DEF NormLaunch
  <2>3. Buffers(p) = {1}
    BY <2>1 DEF NormLaunch, Buffers
  <2> QED
    BY <1>1, <1>2, <2>1, <2>2, <2>3 DEF HasNull
<1>7. CASE c.op = "embedding"
  <2>1. EmbeddingLaunch(p) /\ Numel(c.y) = p.k * p.n
    BY <1>7 DEF Launched, MatrixOps, Sized
  <2>2. /\ p.k * p.n \in Nat /\ DOMAIN p.src = {1} /\ Array(p.src[1], p.k * p.n)
        /\ Numel(p.shape) = p.numel * p.n /\ p.numel \in Nat /\ p.n \in Nat
        /\ p.numel > 0 /\ p.n > 0
    BY <2>1 DEF EmbeddingLaunch
  <2>3. Buffers(p) = {1}
    BY <2>1, <2>2 DEF EmbeddingLaunch, Buffers
  <2>4. p.numel * p.n > 0
    BY <2>2, FactorsBelow
  <2>5. Numel(c.y) = 0
    BY <1>1, <2>1, <2>2, <2>3, <2>4 DEF HasNull
  <2> QED
    BY <1>0, <1>01, <1>7, <2>5, NumelZero
<1> QED
  BY <1>0, <1>3, <1>4, <1>5, <1>6, <1>7 DEF Operators, MatrixOps

(* gemm_bias_act takes operands that fit.                                  *)
LEMMA GemmServes ==
  ASSUME NEW xs, NEW ys, NEW z, NEW transB, NEW shape,
         (IF transB THEN ys[2] ELSE ys[1]) = xs[2],
         z = Absent \/ Numel(z) = (IF transB THEN ys[1] ELSE ys[2])
  PROVE  GemmBiasAct(xs, ys, z, transB, shape).stage \in {"ready", "empty"}
<1> DEFINE n == IF transB THEN ys[1] ELSE ys[2]
           r == Ready([NoParams EXCEPT
                  !.kernel = "gemm_bias_act", !.transB = transB, !.shape = shape,
                  !.src = <<Contiguous("x", xs), Contiguous("y", ys), Optional("z", z)>>,
                  !.numel = xs[1] * n, !.m = xs[1], !.n = n, !.k = xs[2]])
<1>1. GemmBiasAct(xs, ys, z, transB, shape) \in {Empty, r}
  BY DEF GemmBiasAct, BiasFits
<1>2. Empty.stage = "empty" /\ r.stage = "ready"
  BY DEF Empty, Ends, Ready
<1> HIDE DEF r
<1> QED
  BY <1>1, <1>2

(* A bias of one size.                                                     *)
LEMMA NumelOne ==
  ASSUME NEW n \in Nat
  PROVE  Numel(<<n>>) = n
<1>1. <<n>> = Append(<<>>, n) /\ <<>> \in Seq(Nat)
  OBVIOUS
<1>2. Numel(Append(<<>>, n)) = Numel(<<>>) * n
  BY <1>1, NumelAppend
<1>3. Numel(<<>>) * n = n
  BY NumelEmpty
<1> QED
  BY <1>1, <1>2, <1>3

(* matmul takes equal batches, and one matrix for all of a batch that has  *)
(* any.                                                                    *)
LEMMA MatmulServes ==
  ASSUME NEW x \in Seq(Nat), NEW y \in Seq(Nat), Len(x) >= 2, Len(y) >= 2,
         Size(x, 1) = Size(y, 2),
         \/ Len(x) = 2 /\ Len(y) = 2
         \/ /\ 0 \notin {Size(x, 1), Size(x, 2), Size(y, 1)}
            /\ \/ Numel(BatchOf(x)) = Numel(BatchOf(y)) /\ Len(y) # 2
               \/ Len(y) = 2 /\ 0 \notin ToSet(BatchOf(x))
  PROVE  Matmul(x, y).stage \in {"ready", "empty"}
<1> DEFINE m == Size(x, 2)
           k == Size(x, 1)
           n == Size(y, 1)
           a == Numel(x) \div (m * k)
           expands == Len(y) = 2 /\ a > 1
           b == IF expands THEN a ELSE Numel(y) \div (k * n)
           r == Batched(x, y, a, expands)
<1>1. CASE Len(x) = 2 /\ Len(y) = 2
  <2>1. Matmul(x, y) = GemmBiasAct(x, y, Absent, FALSE, <<x[1], y[2]>>)
    BY <1>1 DEF Matmul, Matmul2D
  <2>2. x[2] = y[1]
    BY <1>1 DEF Size
  <2> DEFINE transB == FALSE
             z == Absent
             shape == <<x[1], y[2]>>
  <2>3. /\ Matmul(x, y) = GemmBiasAct(x, y, z, transB, shape)
        /\ (IF transB THEN y[2] ELSE y[1]) = x[2] /\ z = Absent
    BY <2>1, <2>2
  <2> HIDE DEF transB, z, shape
  <2> QED
    BY <2>3, GemmServes
<1>2. CASE ~(Len(x) = 2 /\ Len(y) = 2)
  <2> DEFINE A == Numel(BatchOf(x))
             B == Numel(BatchOf(y))
  <2>1. /\ A \in Nat /\ B \in Nat /\ m \in Nat /\ k \in Nat /\ n \in Nat
        /\ Numel(x) = A * m * k /\ Numel(y) = B * k * n
    BY BatchShape
  <2>2. m # 0 /\ k # 0 /\ n # 0
    BY <1>2
  <2>3. Matmul(x, y) = IF SameBatches(a, b) THEN r ELSE Refused
    BY <1>2, <2>2 DEF Matmul
  <2>4. r.stage = "ready"
    BY DEF Batched, Ready
  <2>41. Len(y) # 2 => A = B
    BY <1>2
  <2>42. Len(y) = 2 => A # 0 /\ B = 1
    <3> SUFFICES ASSUME Len(y) = 2 PROVE A # 0 /\ B = 1
      OBVIOUS
    <3>1. BatchOf(x) \in Seq(Nat) /\ 0 \notin ToSet(BatchOf(x))
      BY <1>2, BatchShape
    <3>2. BatchOf(y) = <<>>
      BY DEF BatchOf
    <3> QED
      BY <3>1, <3>2, NumelZero, NumelEmpty
  <2> HIDE DEF r, m, k, n, A, B
  <2>5. m > 0 /\ k > 0 /\ n > 0
    BY <2>1, <2>2
  <2>6. m * k > 0 /\ k * n > 0 /\ m * k \in Nat /\ k * n \in Nat
    BY <2>1, <2>5, FactorsBelow
  <2>7. a = A
    <3>1. A * m * k = A * (m * k)
      BY <2>1
    <3> QED
      BY <2>1, <2>6, <3>1, Quotient
  <2>8. Numel(y) \div (k * n) = B
    <3>1. B * k * n = B * (k * n)
      BY <2>1
    <3> QED
      BY <2>1, <2>6, <3>1, Quotient
  <2> DEFINE q == Numel(y) \div (k * n)
  <2>9. b = IF expands THEN a ELSE q
    OBVIOUS
  <2> HIDE DEF a, b, q
  <2>10. a = b
    BY <2>1, <2>41, <2>42, <2>7, <2>8, <2>9 DEF q
  <2> QED
    BY <2>3, <2>4, <2>10 DEF SameBatches
<1> QED
  BY <1>1, <1>2

(* bmm, of batches of the same number of matrices.                         *)
LEMMA TripleBatch ==
  ASSUME NEW s \in Seq(Nat), Len(s) = 3
  PROVE  /\ s[1] \in Nat /\ Numel(BatchOf(s)) = s[1]
         /\ Size(s, 1) = s[3] /\ Size(s, 2) = s[2]
<1>1. s[1] \in Nat
  <2>1. s \in [1..3 -> Nat]
    OBVIOUS
  <2> QED
    BY <2>1
<1>2. BatchOf(s) = <<s[1]>>
  <2>1. 1 \in 1..(Len(s) + 1) /\ 1 \in (1 - 1)..Len(s)
    OBVIOUS
  <2> DEFINE u == SubSeq(s, 1, 1)
             v == <<s[1]>>
  <2>2. u \in Seq(Nat) /\ Len(u) = 1
    BY <2>1, Section
  <2>3. v \in Seq(Nat) /\ Len(v) = 1 /\ u[1] = v[1]
    BY <1>1
  <2> HIDE DEF u, v
  <2>4. u = v
    BY <2>2, <2>3, SeqEqual
  <2>5. Len(s) - 2 = 1
    OBVIOUS
  <2> QED
    BY <2>4, <2>5 DEF BatchOf, u, v
<1> QED
  BY <1>1, <1>2, NumelOne DEF Size

(* A normalized_shape that is a suffix of the sizes cuts them into rows.   *)
LEMMA SuffixRows ==
  ASSUME NEW c, c.op = "layer_norm", c.x \in Seq(Nat), c.y \in Seq(Nat), Regular(c)
  PROVE  /\ Numel(c.y) # 0 /\ Numel(c.x) % Numel(c.y) = 0 /\ Len(c.y) <= Len(c.x)
         /\ Numel(SubSeq(c.x, 1, Len(c.x) - Len(c.y))) = Numel(c.x) \div Numel(c.y)
<1> DEFINE d == Len(c.x) - Len(c.y)
           A == Numel(SubSeq(c.x, 1, d))
           n == Numel(c.y)
<1>1. Len(c.y) <= Len(c.x) /\ n # 0 /\ c.y = SubSeq(c.x, d + 1, Len(c.x))
  BY DEF Regular
<1>2. d \in 0..Len(c.x)
  <2> DEFINE l == Len(c.x)
             k == Len(c.y)
  <2>1. l \in Nat /\ k \in Nat /\ k <= l
    BY <1>1
  <2> HIDE DEF l, k
  <2>2. l - k \in 0..l
    BY <2>1
  <2> QED
    BY <2>2 DEF l, k
<1>3. SubSeq(c.x, 1, d) \in Seq(Nat) /\ Numel(c.x) = A * n
  <2> HIDE DEF d
  <2> QED
    BY <1>1, <1>2, NumelSplit
<1>4. A \in Nat /\ n \in Nat
  BY <1>3, NumelNat
<1> HIDE DEF A, n
<1>5. n > 0 /\ 0 \in 0..(n - 1) /\ A * n + 0 = A * n
  BY <1>1, <1>4
<1>6. (A * n) \div n = A /\ (A * n) % n = 0
  BY <1>4, <1>5, PositionOf
<1>7. Numel(c.x) \div n = A /\ Numel(c.x) % n = 0
  BY <1>3, <1>6
<1> QED
  BY <1>1, <1>7 DEF n, A

(* A regular call is launched, returns without one, or is a product of no  *)
(* matrices.                                                               *)
LEMMA Serves ==
  ASSUME NEW c \in Calls, Regular(c)
  PROVE  \/ Prepared(c).stage \in {"ready", "empty"}
         \/ Prepared(c).stage = "refused" /\ NoMatrices(c)
<1> DEFINE xs == <<Numel(c.x) \div Size(c.x, 1), Size(c.x, 1)>>
<1>0. /\ c.op \in Operators /\ c.x \in Seq(Nat) /\ c.z \in Seq(Nat) \cup {Absent}
      /\ c.op \notin {"fill", "unary", "softmax"} => c.y \in Seq(Nat)
  BY CallsAssumption
<1>1. /\ \A p : Ready(p).stage = "ready"
      /\ \A kernel, src, shape : Launch1(kernel, src, shape).stage = "ready"
      /\ Empty.stage = "empty"
  BY DEF Launch1, Ready, Empty, Ends
<1>2. CASE c.op \in {"fill", "unary", "binary"}
  <2>1. CASE c.op = "fill"
    BY <1>1, <2>1 DEF Prepared, Filled
  <2>2. CASE c.op = "unary"
    BY <1>1, <2>2 DEF Prepared, Unary
  <2>3. CASE c.op = "binary"
    <3>1. Joins(c.x, c.y)
      BY <2>3 DEF Regular
    <3>2. Prepared(c) = Binary(c)
      BY <2>3 DEF Prepared
    <3> QED
      BY <1>1, <3>1, <3>2 DEF Binary
  <2> QED
    BY <1>2, <2>1, <2>2, <2>3
<1>3. CASE c.op = "pointwise"
  BY <1>1, <1>3 DEF Regular, Prepared, PointwiseOp
<1>4. CASE c.op = "mm"
  <2>1. Len(c.x) = 2 /\ Len(c.y) = 2 /\ c.x[2] = c.y[1]
    BY <1>4 DEF Regular
  <2> DEFINE transB == FALSE
             z == Absent
             shape == <<c.x[1], c.y[2]>>
  <2>2. /\ Prepared(c) = GemmBiasAct(c.x, c.y, z, transB, shape)
        /\ (IF transB THEN c.y[2] ELSE c.y[1]) = c.x[2] /\ z = Absent
    BY <1>4, <2>1 DEF Prepared, Mm
  <2> HIDE DEF transB, z, shape
  <2> QED
    BY <2>2, GemmServes
<1>5. CASE c.op \in {"linear", "linear_act_t"}
  <2>1. /\ c.x # <<>> /\ Len(c.y) = 2 /\ Size(c.x, 1) = c.y[2] /\ c.y[2] # 0
        /\ c.z \in {Absent, <<c.y[1]>>}
    BY <1>5 DEF Regular
  <2>2. c.z = Absent \/ Numel(c.z) = c.y[1]
    BY <1>0, <1>5, <2>1, NumelOne, MatrixShape
  <2> DEFINE transB == TRUE
             shape == WithLast(c.x, c.y[1])
  <2>3. /\ Prepared(c) = GemmBiasAct(xs, c.y, c.z, transB, shape)
        /\ (IF transB THEN c.y[2] ELSE c.y[1]) = xs[2]
        /\ c.z = Absent \/ Numel(c.z) = (IF transB THEN c.y[1] ELSE c.y[2])
    BY <1>5, <2>1, <2>2 DEF Prepared, Linear, LinearAct
  <2> HIDE DEF transB, shape, xs
  <2> QED
    BY <2>3, GemmServes
<1>6. CASE c.op = "linear_act"
  <2>1. /\ c.x # <<>> /\ Len(c.y) = 2 /\ Size(c.x, 1) = c.y[1] /\ c.y[1] # 0
        /\ c.z \in {Absent, <<c.y[2]>>}
    BY <1>6 DEF Regular
  <2>2. c.z = Absent \/ Numel(c.z) = c.y[2]
    BY <1>0, <1>6, <2>1, NumelOne, MatrixShape
  <2> DEFINE transB == FALSE
             shape == WithLast(c.x, c.y[2])
  <2>3. /\ Prepared(c) = GemmBiasAct(xs, c.y, c.z, transB, shape)
        /\ (IF transB THEN c.y[2] ELSE c.y[1]) = xs[2]
        /\ c.z = Absent \/ Numel(c.z) = (IF transB THEN c.y[1] ELSE c.y[2])
    BY <1>6, <2>1, <2>2 DEF Prepared, LinearAct
  <2> HIDE DEF transB, shape, xs
  <2> QED
    BY <2>3, GemmServes
<1>7. CASE c.op = "matmul"
  <2> DEFINE x == c.x
             y == c.y
  <2>1. /\ Len(x) >= 2 /\ Len(y) >= 2 /\ Size(x, 1) = Size(y, 2)
        /\ \/ Len(x) = 2 /\ Len(y) = 2
           \/ /\ Len(y) = 2 \/ BatchOf(x) = BatchOf(y)
              /\ 0 \notin {Size(x, 1), Size(x, 2), Size(y, 1)}
    BY <1>7 DEF Regular
  <2>2. Prepared(c) = Matmul(x, y) /\ x \in Seq(Nat) /\ y \in Seq(Nat)
    BY <1>0, <1>7 DEF Prepared
  <2>3. NoMatrices(c) <=> Len(x) > 2 /\ Len(y) = 2 /\ 0 \in ToSet(BatchOf(x))
    BY <1>7 DEF NoMatrices
  <2> HIDE DEF x, y
  <2>4. CASE ~NoMatrices(c)
    <3>1. \/ Len(x) = 2 /\ Len(y) = 2
          \/ /\ 0 \notin {Size(x, 1), Size(x, 2), Size(y, 1)}
             /\ \/ Numel(BatchOf(x)) = Numel(BatchOf(y)) /\ Len(y) # 2
                \/ Len(y) = 2 /\ 0 \notin ToSet(BatchOf(x))
      BY <2>1, <2>2, <2>3, <2>4
    <3> QED
      BY <2>1, <2>2, <3>1, MatmulServes
  <2>5. CASE NoMatrices(c)
    <3>1. /\ Len(x) >= 2 /\ Len(y) >= 2 /\ ~(Len(x) = 2 /\ Len(y) = 2)
          /\ Size(x, 1) = Size(y, 2) /\ 0 \notin {Size(x, 1), Size(x, 2), Size(y, 1)}
      <4>1. Len(x) \in Nat /\ Len(x) > 2 /\ Len(y) = 2
        BY <2>2, <2>3, <2>5
      <4>2. Len(x) # 2
        <5>1. \A l \in Nat : l > 2 => l # 2
          OBVIOUS
        <5> QED
          BY <4>1, <5>1
      <4> QED
        BY <2>1, <4>2
    <3>2. Matmul(x, y).stage \in {"ready", "refused"}
      BY <3>1 DEF Matmul, Batched, Ready, Refused, Ends
    <3> QED
      BY <2>2, <2>5, <3>2
  <2> QED
    BY <2>4, <2>5
<1>8. CASE c.op = "bmm"
  <2> DEFINE x == c.x
             y == c.y
  <2>1. /\ Len(x) = 3 /\ Len(y) = 3 /\ x[1] = y[1] /\ x[3] = y[2]
        /\ 0 \notin {x[2], x[3], y[3]}
    BY <1>8 DEF Regular
  <2>2. Prepared(c) = Matmul(x, y) /\ x \in Seq(Nat) /\ y \in Seq(Nat)
    BY <1>0, <1>8, <2>1 DEF Prepared, Bmm
  <2> HIDE DEF x, y
  <2>3. /\ Numel(BatchOf(x)) = Numel(BatchOf(y)) /\ Size(x, 1) = Size(y, 2)
        /\ 0 \notin {Size(x, 1), Size(x, 2), Size(y, 1)}
    BY <2>1, <2>2, TripleBatch
  <2>4. Len(x) >= 2 /\ Len(y) >= 2 /\ Len(y) # 2
    BY <2>1
  <2> QED
    BY <2>2, <2>3, <2>4, MatmulServes
<1>9. CASE c.op = "softmax"
  <2>1. c.x # <<>> /\ c.dim \in (-Len(c.x))..(Len(c.x) - 1) /\ Len(c.x) \in Nat
    BY <1>0, <1>9 DEF Regular
  <2>2. Len(c.x) # 0
    BY <1>0, <2>1
  <2>3. (IF c.dim < 0 THEN c.dim + Len(c.x) ELSE c.dim) \in 0..(Len(c.x) - 1)
    BY <2>1
  <2>4. Softmax(c).stage = "ready"
    BY <1>1, <2>2, <2>3 DEF Softmax
  <2> QED
    BY <1>9, <2>4 DEF Prepared
<1>10. CASE c.op = "layer_norm"
  <2>1. LayerNorm(c).stage = "ready"
    <3>1. Numel(c.y) # 0 /\ Numel(c.x) % Numel(c.y) = 0
      BY <1>0, <1>10, SuffixRows
    <3> QED
      BY <1>1, <3>1 DEF LayerNorm
  <2> QED
    BY <1>10, <2>1 DEF Prepared
<1>11. CASE c.op = "embedding"
  <2>1. Len(c.y) = 2
    BY <1>11 DEF Regular
  <2> QED
    BY <1>1, <1>11, <2>1 DEF Prepared, Embedding
<1> QED
  BY <1>0, <1>2, <1>3, <1>4, <1>5, <1>6, <1>7, <1>8, <1>9, <1>10, <1>11 DEF Operators

(* The parameters of a launch by matmul of batches.                        *)
BatchParams(p, x, y, a, Y) ==
  /\ p.kernel = "bmm" /\ p.batch = a /\ p.m = Size(x, 2) /\ p.n = Size(y, 1)
  /\ p.k = Size(x, 1) /\ ~p.transB /\ p.shape = WithLast(x, Size(y, 1))
  /\ p.src = <<Contiguous("x", x), Y, <<>>>>

(* The parameters of bmm.                                                  *)
LEMMA BatchedParams ==
  ASSUME NEW x, NEW y, NEW a, NEW expands
  PROVE  BatchParams(Batched(x, y, a, expands).params, x, y, a,
                     IF expands THEN Expanded("y", y, <<a>> \o y) ELSE Contiguous("y", y))
BY DEF BatchParams, Batched, Ready, NoParams

(* An array that is an operand as it is holds the elements of that         *)
(* operand, and as many.                                                   *)
Originates(a, name, n) == DOMAIN a = 0..(n - 1) /\ \A i \in DOMAIN a : a[i][1] = name

(* So it tells which operand it is, and of how many elements.              *)
LEMMA SameOrigin ==
  ASSUME NEW a, NEW name, NEW n \in Nat, Originates(a, name, n), DOMAIN a # {},
         NEW o, NEW s \in Seq(Nat), a = Contiguous(o, s)
  PROVE  o = name /\ n > 0 /\ Numel(s) = n
<1>1. Numel(s) \in Nat
  BY NumelNat
<1>2. DOMAIN a = 0..(Numel(s) - 1) /\ \A i \in DOMAIN a : a[i] = <<o, i>>
  BY DEF Contiguous
<1>3. n > 0 /\ Numel(s) > 0
  BY <1>1, <1>2 DEF Originates
<1>4. n - 1 \in 0..(Numel(s) - 1) /\ Numel(s) - 1 \in 0..(n - 1)
  BY <1>1, <1>2, <1>3 DEF Originates
<1>5. 0 \in DOMAIN a
  BY <1>1, <1>2, <1>3
<1>6. o = name
  BY <1>2, <1>5 DEF Originates
<1> QED
  BY <1>1, <1>3, <1>4, <1>6

(* What the operands are expanded or kept to.                              *)
LEMMA Origins ==
  ASSUME NEW name, NEW s, NEW t
  PROVE  Originates(Expanded(name, s, t), name, Numel(t)) /\ Originates(Contiguous(name, s), name, Numel(s))
<1>1. \A I : Element(name, s, I)[1] = name
  BY DEF Element
<1> QED
  BY <1>1 DEF Originates, Expanded, Contiguous

(* More than one matrix has more elements than one.                        *)
LEMMA MoreThanOne ==
  ASSUME NEW a \in Nat, a > 1, NEW n \in Nat, n > 0
  PROVE  n # a * n
<1> DEFINE b == a - 1
<1>1. b \in Nat /\ b > 0 /\ a * n = b * n + n
  OBVIOUS
<1>2. b * n > 0
  BY <1>1, FactorsBelow
<1> HIDE DEF b
<1>3. b * n \in Nat
  BY <1>1
<1> QED
  BY <1>1, <1>2, <1>3

(* An operand that is copied is not passed as it is.                       *)
LEMMA CopiedNotPassed ==
  ASSUME NEW c \in Calls, Prepared(c).stage = "ready",
         NEW o \in PassedAsIs(c, Prepared(c).params)
  PROVE  o \notin Copied(c)
<1> DEFINE p == Prepared(c).params
           x == c.x
           y == c.y
<1> SUFFICES ASSUME o \in Copied(c) PROVE FALSE
  OBVIOUS
<1>0. Refused.stage # "ready" /\ Crashed.stage # "ready" /\ Empty.stage # "ready"
  BY DEF Refused, Crashed, Empty, Ends
<1>1. c.op \in {"binary", "matmul", "embedding"}
  BY DEF Copied
<1>2. x \in Seq(Nat) /\ y \in Seq(Nat)
  BY <1>1, CallsAssumption
<1>3. PICK s \in DOMAIN p.src : DOMAIN p.src[s] # {} /\ p.src[s] = Contiguous(o, c[o])
  BY <1>1 DEF PassedAsIs
<1>4. CASE c.op = "binary"
  <2> DEFINE J == Join(x, y)
             first == Expanded("x", x, J)
             second == Expanded("y", y, J)
             both == <<first, second>>
  <2>1. Prepared(c) = Launch1("binary", both, J) /\ Joins(x, y)
    BY <1>0, <1>4 DEF Prepared, Binary
  <2>2. p.src = <<first, second>>
    <3>1. \A kernel, src, shape : Launch1(kernel, src, shape).params.src = src
      BY DEF Launch1, Ready, NoParams
    <3> HIDE DEF J, both
    <3>2. p.src = both
      BY <2>1, <3>1
    <3> QED
      BY <3>2 DEF both
  <2>3. o \in {"x", "y"} /\ c[o] \in Seq(Nat) /\ Numel(c[o]) # Numel(J)
    BY <1>2, <1>4 DEF Copied
  <2>4. Numel(J) \in Nat
    BY <1>2, <2>1, JoinShape, NumelNat
  <2>5. Originates(first, "x", Numel(J)) /\ Originates(second, "y", Numel(J))
    BY Origins
  <2>6. p.src[s] = first \/ p.src[s] = second
    BY <1>3, <2>2
  <2> HIDE DEF p, J, first, second
  <2> QED
    BY <1>3, <2>3, <2>4, <2>5, <2>6, SameOrigin
<1>5. CASE c.op = "matmul"
  <2> DEFINE m == Size(x, 2)
             k == Size(x, 1)
             n == Size(y, 1)
             A == Numel(BatchOf(x))
             a == Numel(x) \div (m * k)
             expands == Len(y) = 2 /\ a > 1
             T == <<a>> \o y
             first == Contiguous("x", x)
             second == Expanded("y", y, T)
  <2>1. o = "y" /\ Len(y) = 2 /\ A > 1
    BY <1>5 DEF Copied
  <2>2. Len(x) # 2
    <3> SUFFICES ASSUME Len(x) = 2 PROVE FALSE
      OBVIOUS
    <3>1. BatchOf(x) = <<>>
      BY <1>2 DEF BatchOf
    <3> QED
      BY <2>1, <3>1, NumelEmpty
  <2>3. Prepared(c) = Matmul(x, y)
    BY <1>5 DEF Prepared
  <2>4. /\ Len(x) >= 2 /\ Matmul(x, y) = Batched(x, y, a, expands) /\ k # 0 /\ m # 0
    BY <1>0, <2>2, <2>3 DEF Matmul
  <2>5. /\ A \in Nat /\ m \in Nat /\ k \in Nat /\ Numel(x) = A * m * k
    BY <1>2, <2>4, BatchShape
  <2> HIDE DEF m, k, A
  <2>6. m > 0 /\ k > 0
    BY <2>4, <2>5
  <2>7. m * k > 0 /\ m * k \in Nat
    BY <2>5, <2>6, FactorsBelow
  <2>8. a = A
    <3>1. A * m * k = A * (m * k)
      BY <2>5
    <3> QED
      BY <2>5, <2>7, <3>1, Quotient
  <2>9. a \in Nat /\ a > 1 /\ expands
    BY <2>1, <2>5, <2>8
  <2> HIDE DEF a
  <2>10. p.src = <<first, second, <<>>>>
    <3>1. BatchParams(Batched(x, y, a, expands).params, x, y, a,
                      IF expands THEN Expanded("y", y, <<a>> \o y) ELSE Contiguous("y", y))
      BY BatchedParams
    <3> QED
      BY <2>3, <2>4, <2>9, <3>1 DEF BatchParams
  <2>11. y[1] \in Nat /\ y[2] \in Nat /\ Numel(y) = y[1] * y[2]
    BY <1>2, <2>1, MatrixShape
  <2>12. Numel(T) = a * y[1] * y[2]
    <3>1. T = <<a, y[1], y[2]>>
      BY <1>2, <2>1, <2>9, OneMore
    <3>2. \A b \in Nat, d \in Nat : Numel(<<a, b, d>>) = a * b * d
      BY <2>9, NumelSmall
    <3> QED
      BY <2>11, <3>1, <3>2
  <2>13. Originates(first, "x", Numel(x)) /\ Originates(second, "y", Numel(T))
    BY Origins
  <2>14. p.src[s] = first \/ p.src[s] = second
    BY <1>3, <2>10
  <2>15. c[o] = y /\ Numel(x) \in Nat /\ Numel(y) \in Nat /\ a * y[1] * y[2] = a * Numel(y)
         /\ a * Numel(y) \in Nat
    <3>1. a * y[1] * y[2] = a * (y[1] * y[2])
      BY <2>9, <2>11
    <3>2. Numel(x) \in Nat /\ Numel(y) \in Nat
      BY <1>2, NumelNat
    <3>3. c[o] = y
      BY <2>1
    <3> QED
      BY <2>9, <2>11, <3>1, <3>2, <3>3
  <2> HIDE DEF p, x, y, T, first, second, expands
  <2>16. p.src[s] # first
    BY <1>2, <1>3, <2>1, <2>13, <2>15, SameOrigin
  <2>17. Numel(y) = a * Numel(y) /\ Numel(y) > 0
    BY <1>2, <1>3, <2>12, <2>13, <2>14, <2>15, <2>16, SameOrigin
  <2> DEFINE N == Numel(y)
  <2>18. N \in Nat /\ N = a * N /\ N > 0
    BY <2>15, <2>17
  <2> HIDE DEF N
  <2> QED
    BY <2>9, <2>18, MoreThanOne
<1>6. CASE c.op = "embedding"
  <2>1. o = "x"
    BY <1>6 DEF Copied
  <2>2. p.src = <<Contiguous("y", y)>>
    BY <1>0, <1>6 DEF Prepared, Embedding, Ready, NoParams
  <2>3. Originates(Contiguous("y", y), "y", Numel(y)) /\ Numel(y) \in Nat
    BY <1>2, Origins, NumelNat
  <2>4. p.src[s] = Contiguous("y", y) /\ c[o] = x
    BY <1>3, <2>1, <2>2
  <2> HIDE DEF p, x, y
  <2> QED
    BY <1>2, <1>3, <2>1, <2>3, <2>4, SameOrigin
<1> QED
  BY <1>1, <1>4, <1>5, <1>6

(* What became of a call follows from what its operator prepared.          *)
Follows ==
  /\ stage \in {"ready", "running", "ran", "returned", "threw", "unknown"} =>
       Prepared(call).stage = "ready" /\ params = Prepared(call).params
  /\ stage \in {"crashed", "empty"} => Prepared(call).stage = stage
  /\ stage = "refused" =>
       \/ Prepared(call).stage = "refused"
       \/ /\ Prepared(call).stage = "ready" /\ params = Prepared(call).params
          /\ ~StatsFit
  /\ stage = "threw" => NotABuffer(call, params)

(* Every reachable state is the outcome of what was prepared.              *)
LEMMA FollowsAlways == Spec => []Follows
<1>1. Init => Follows
  BY DEF Init, Follows
<1>2. IInv /\ Follows /\ [Next]_vars => Follows'
  <2> SUFFICES ASSUME IInv, Follows, [Next]_vars PROVE Follows'
    OBVIOUS
  <2>1. CASE Prepare
    <3>1. /\ Prepared(call).stage \in {"ready", "refused", "crashed", "empty"}
      BY Prepares DEF IInv, TypeOK, GoodEnd
    <3>2. stage' = Prepared(call).stage /\ params' = Prepared(call).params /\ call' = call
      BY <2>1 DEF Prepare
    <3>3. Prepared(call') = Prepared(call)
      BY <3>2
    <3> QED
      BY <3>1, <3>2, <3>3 DEF Follows
  <2>2. CASE Launch
    BY <2>2 DEF Launch, Follows
  <2>3. CASE LaunchThrows
    BY <2>3 DEF LaunchThrows, Follows
  <2>4. CASE RunItems
    BY <2>4 DEF RunItems, Follows
  <2>5. CASE RunBeyondInt
    BY <2>5 DEF RunBeyondInt, Follows
  <2>6. CASE Return
    <3>1. /\ stage = "ran" /\ stage' = IF StatsFit THEN "returned" ELSE "refused"
          /\ call' = call /\ params' = params
      BY <2>6 DEF Return
    <3>2. StatsFit' = StatsFit
      BY <3>1 DEF StatsFit
    <3> QED
      BY <3>1, <3>2 DEF Follows
  <2>7. CASE UNCHANGED vars
    <3>1. StatsFit' = StatsFit
      BY <2>7 DEF vars, StatsFit
    <3> QED
      BY <2>7, <3>1 DEF vars, Follows
  <2> QED
    BY <2>1, <2>2, <2>3, <2>4, <2>5, <2>6, <2>7 DEF Next
<1> QED
  BY <1>1, <1>2, Inductive, PTL DEF Spec

(* A call of shapes that fit is not refused, but for a product of no       *)
(* matrices with one, never divides by zero, and throws on OpenCL only     *)
(* for operands with a size of zero, or that are views with an offset the  *)
(* operator does not copy (LlmOps.cpp:120-163, CustomOps.cpp:26,           *)
(* OpenCLRuntime.cpp:568-573, ExtendedOps.cpp:131-134).                    *)
THEOREM Served == Spec => []RegularServed
<1>1. IInv /\ Follows => RegularServed
  <2> SUFFICES ASSUME IInv, Follows, Regular(call)
               PROVE  /\ stage = "refused" => NoMatrices(call)
                      /\ stage # "crashed"
                      /\ stage = "threw" => Zero(call) \/ call.offset \ Copied(call) # {}
    BY DEF RegularServed, Zero
  <2>1. call \in Calls
    BY DEF IInv, TypeOK
  <2>2. \/ Prepared(call).stage \in {"ready", "empty"}
        \/ Prepared(call).stage = "refused" /\ NoMatrices(call)
    BY <2>1, Serves
  <2>3. stage # "crashed"
    BY <2>2 DEF Follows
  <2>4. ASSUME stage = "refused" PROVE NoMatrices(call)
    <3> SUFFICES ASSUME Prepared(call).stage = "ready", params = Prepared(call).params,
                        ~StatsFit
                 PROVE  FALSE
      BY <2>2, <2>4 DEF Follows
    <3>1. call.op = "layer_norm"
      BY DEF StatsFit
    <3>2. call.x \in Seq(Nat) /\ call.y \in Seq(Nat)
      BY <2>1, <3>1, CallsAssumption
    <3>3. params.m = Numel(call.x) \div Numel(call.y)
      <4>1. Prepared(call) = LayerNorm(call)
        BY <3>1 DEF Prepared
      <4>2. Refused.stage # "ready"
        BY DEF Refused, Ends
      <4> QED
        BY <4>1, <4>2 DEF LayerNorm, Ready, NoParams
    <3> QED
      BY <3>1, <3>2, <3>3, SuffixRows DEF StatsFit
  <2>5. ASSUME stage = "threw" PROVE Zero(call) \/ call.offset \ Copied(call) # {}
    <3>1. /\ NotABuffer(call, params)
          /\ Prepared(call).stage = "ready" /\ params = Prepared(call).params
      BY <2>5 DEF Follows
    <3>2. Launched(call, params)
      BY <2>5 DEF IInv, ParamsKept
    <3>3. Sized(call, params)
      BY <2>1, <3>1, ReadySized
    <3>4. CASE HasNull(params)
      BY <2>1, <3>2, <3>3, <3>4, NullMeansZero
    <3>5. CASE call.offset \cap PassedAsIs(call, params) # {}
      <4>1. PICK o \in call.offset : o \in PassedAsIs(call, params)
        BY <3>5
      <4>2. o \notin Copied(call)
        BY <2>1, <3>1, <4>1, CopiedNotPassed
      <4> QED
        BY <4>1, <4>2
    <3> QED
      BY <3>1, <3>4, <3>5 DEF NotABuffer
  <2> QED
    BY <2>3, <2>4, <2>5
<1> QED
  BY <1>1, Inductive, FollowsAlways, PTL

-----------------------------------------------------------------------------
(* Row-major positions.                                                    *)

(* P[d] is the position by the first d dimensions.                         *)
Positions(P, s, I) ==
  /\ P[0] = 0
  /\ \A d \in 1..Len(s) : P[d] = P[d - 1] * s[d] + I[d]
  /\ Flat(s, I) = P[Len(s)]

(* Every index has the run of positions by its first dimensions: the       *)
(* function that Flat is defined by.                                       *)
LEMMA FlatRun ==
  ASSUME NEW s, NEW I, Len(s) \in Nat
  PROVE  \E P : Positions(P, s, I)
<1> DEFINE n == Len(s)
           Rec(f, k) == f = [d \in 0..k |-> IF d = 0 THEN 0 ELSE f[d - 1] * s[d] + I[d]]
           S == {k \in Nat : \E f : Rec(f, k)}
<1>1. 0 \in S
  <2>1. Rec([d \in 0..0 |-> 0], 0)
    OBVIOUS
  <2> QED
    BY <2>1
<1>2. ASSUME NEW k \in Nat, k \in S PROVE k + 1 \in S
  <2>1. PICK f : Rec(f, k)
    BY <1>2
  <2> DEFINE g == [d \in 0..(k + 1) |-> IF d = k + 1 THEN f[k] * s[k + 1] + I[k + 1] ELSE f[d]]
  <2>2. \A d \in 0..k : g[d] = f[d]
    OBVIOUS
  <2>3. \A d \in 0..(k + 1) : g[d] = IF d = 0 THEN 0 ELSE g[d - 1] * s[d] + I[d]
    BY <2>1, <2>2
  <2>4. Rec(g, k + 1)
    BY <2>3
  <2> HIDE DEF g, Rec
  <2>5. \E h : Rec(h, k + 1)
    BY <2>4
  <2> QED
    BY <2>5
<1>3. n \in S
  <2> HIDE DEF S
  <2> QED
    BY <1>1, <1>2, SetInduction
<1> DEFINE P == CHOOSE f : Rec(f, n)
<1>4. Rec(P, n)
  BY <1>3
<1>5. Flat(s, I) = P[n]
  BY DEF Flat
<1> HIDE DEF P
<1>6. P[0] = 0 /\ \A d \in 1..n : P[d] = P[d - 1] * s[d] + I[d]
  <2>1. \A d \in 0..n : P[d] = IF d = 0 THEN 0 ELSE P[d - 1] * s[d] + I[d]
    BY <1>4
  <2>2. 0 \in 0..n /\ \A d \in 1..n : d \in 0..n /\ d # 0
    OBVIOUS
  <2> QED
    BY <2>1, <2>2
<1> QED
  BY <1>5, <1>6 DEF Positions

(* The empty index is at position 0.                                       *)
LEMMA FlatEmpty == Flat(<<>>, <<>>) = 0
<1>1. Len(<<>>) = 0
  OBVIOUS
<1>2. PICK P : Positions(P, <<>>, <<>>)
  BY <1>1, FlatRun
<1> QED
  BY <1>1, <1>2 DEF Positions

(* One more dimension: rows of n elements.                                 *)
LEMMA FlatAppend ==
  ASSUME NEW s \in Seq(Nat), NEW n \in Nat, NEW I \in Seq(Nat), Len(I) = Len(s), NEW j \in Nat
  PROVE  Flat(Append(s, n), Append(I, j)) = Flat(s, I) * n + j
<1> DEFINE t == Append(s, n)
           J == Append(I, j)
           k == Len(s)
<1>1. /\ k \in Nat /\ Len(t) = k + 1 /\ t[k + 1] = n /\ J[k + 1] = j
      /\ \A d \in 1..k : t[d] = s[d] /\ J[d] = I[d]
  OBVIOUS
<1> HIDE DEF t, J
<1>2. PICK P : Positions(P, s, I)
  BY <1>1, FlatRun
<1>3. PICK Q : Positions(Q, t, J)
  <2>1. Len(t) \in Nat
    BY <1>1
  <2> QED
    BY <2>1, FlatRun
<1> HIDE DEF k
<1> DEFINE S == {d \in Nat : d <= k => P[d] = Q[d]}
<1>4. 0 \in S
  BY <1>2, <1>3 DEF Positions
<1>5. ASSUME NEW d \in Nat, d \in S PROVE d + 1 \in S
  <2> SUFFICES ASSUME d + 1 <= k PROVE P[d + 1] = Q[d + 1]
    OBVIOUS
  <2>1. d + 1 \in 1..k /\ d + 1 \in 1..(k + 1) /\ P[d] = Q[d] /\ (d + 1) - 1 = d
    BY <1>1, <1>5
  <2>2. P[d + 1] = P[d] * s[d + 1] + I[d + 1] /\ Q[d + 1] = Q[d] * t[d + 1] + J[d + 1]
    BY <1>1, <1>2, <1>3, <2>1 DEF Positions, k
  <2> QED
    BY <1>1, <2>1, <2>2
<1>6. k \in S
  <2> HIDE DEF S
  <2> QED
    BY <1>1, <1>4, <1>5, SetInduction
<1>7. Q[k + 1] = Q[k] * n + j
  <2>1. k + 1 \in 1..(k + 1) /\ (k + 1) - 1 = k
    BY <1>1
  <2> QED
    BY <1>1, <1>3, <2>1 DEF Positions
<1> QED
  BY <1>1, <1>2, <1>3, <1>6, <1>7 DEF Positions, k, t, J

(* The sequences are the empty one, and those with one element more.       *)
LEMMA LastApart ==
  ASSUME NEW s \in Seq(Nat), s # <<>>
  PROVE  /\ Front1(s) \in Seq(Nat) /\ Len(Front1(s)) = Len(s) - 1 /\ Size(s, 1) \in Nat
         /\ s = Append(Front1(s), Size(s, 1)) /\ Len(s) \in Nat \ {0}
         /\ Size(s, 1) = s[Len(s)]
<1> DEFINE k == Len(s) - 1
<1>1. /\ k \in 0..Len(s) /\ k < Len(s) /\ k + 1 = Len(s) /\ Len(s) + 1 - 1 = Len(s)
      /\ Len(s) \in Nat \ {0}
  OBVIOUS
<1>2. /\ SubSeq(s, 1, k) \in Seq(Nat) /\ Len(SubSeq(s, 1, k)) = k - 1 + 1
      /\ SubSeq(s, 1, k + 1) = Append(SubSeq(s, 1, k), s[k + 1])
      /\ s[k + 1] \in Nat
  <2> HIDE DEF k
  <2>1. 1 \in 1..(Len(s) + 1) /\ k \in (1 - 1)..Len(s) /\ k + 1 \in 1..Len(s)
    BY ONLY <1>1
  <2> QED
    BY ONLY <1>1, <2>1, s \in Seq(Nat), Section
<1>3. SubSeq(s, 1, k + 1) = s
  BY <1>1
<1>4. Front1(s) = SubSeq(s, 1, k) /\ Size(s, 1) = s[k + 1] /\ s[k + 1] = s[Len(s)]
  BY <1>1 DEF Front1, Size
<1>5. Len(SubSeq(s, 1, k)) = k /\ s = Append(SubSeq(s, 1, k), s[k + 1])
  <2>1. Len(SubSeq(s, 1, k)) = k
    BY <1>1
  <2> QED
    BY ONLY <1>2, <1>3, <2>1
<1> HIDE DEF k
<1> QED
  BY <1>1, <1>2, <1>4, <1>5 DEF k

(* What holds of the empty shape and index, and is kept when both get a    *)
(* dimension more, holds of every shape and index of one length.           *)
LEMMA PairInduction ==
  ASSUME NEW S, \A e \in Seq(Nat) : e = <<>> => <<e, e>> \in S,
         \A s, I \in Seq(Nat) : \A n, j \in Nat :
           Len(I) = Len(s) /\ <<s, I>> \in S => <<Append(s, n), Append(I, j)>> \in S
  PROVE  \A s, I \in Seq(Nat) : Len(I) = Len(s) => <<s, I>> \in S
<1> DEFINE T == {k \in Nat : \A s, I \in Seq(Nat) :
                               Len(s) = k /\ Len(I) = k => <<s, I>> \in S}
<1>1. 0 \in T
  <2>1. \A s \in Seq(Nat) : Len(s) = 0 => s = <<>>
    OBVIOUS
  <2> QED
    BY <2>1
<1>2. ASSUME NEW k \in Nat, k \in T PROVE k + 1 \in T
  <2> SUFFICES ASSUME NEW s \in Seq(Nat), NEW I \in Seq(Nat), Len(s) = k + 1, Len(I) = k + 1
               PROVE  <<s, I>> \in S
    OBVIOUS
  <2>1. s # <<>> /\ I # <<>>
    OBVIOUS
  <2>2. \E u, n : u \in Seq(Nat) /\ n \in Nat /\ Len(u) = k /\ s = Append(u, n)
    <3>1. /\ Front1(s) \in Seq(Nat) /\ Size(s, 1) \in Nat
          /\ Len(Front1(s)) = Len(s) - 1 /\ s = Append(Front1(s), Size(s, 1))
      BY <2>1, LastApart
    <3>2. Len(s) - 1 = k
      OBVIOUS
    <3> QED
      BY <3>1, <3>2
  <2>3. \E J, j : J \in Seq(Nat) /\ j \in Nat /\ Len(J) = k /\ I = Append(J, j)
    <3>1. /\ Front1(I) \in Seq(Nat) /\ Size(I, 1) \in Nat
          /\ Len(Front1(I)) = Len(I) - 1 /\ I = Append(Front1(I), Size(I, 1))
      BY <2>1, LastApart
    <3>2. Len(I) - 1 = k
      OBVIOUS
    <3> QED
      BY <3>1, <3>2
  <2>4. PICK u, n : u \in Seq(Nat) /\ n \in Nat /\ Len(u) = k /\ s = Append(u, n)
    BY <2>2
  <2>5. PICK J, j : J \in Seq(Nat) /\ j \in Nat /\ Len(J) = k /\ I = Append(J, j)
    BY <2>3
  <2>6. <<u, J>> \in S
    BY <1>2, <2>4, <2>5
  <2> QED
    BY <2>4, <2>5, <2>6
<1>3. \A k \in Nat : k \in T
  <2> HIDE DEF T
  <2> QED
    BY <1>1, <1>2, SetInduction
<1> QED
  BY <1>3

(* An index of a shape.                                                    *)
Within(s, I) ==
  I \in Seq(Nat) /\ Len(I) = Len(s) /\ \A d \in 1..Len(s) : I[d] < s[d]

(* An index of a shape with one dimension more is an index of the shape    *)
(* and a coordinate below the new size.                                    *)
LEMMA WithinAppend ==
  ASSUME NEW s \in Seq(Nat), NEW n \in Nat, NEW I \in Seq(Nat), Len(I) = Len(s), NEW j \in Nat
  PROVE  Within(Append(s, n), Append(I, j)) <=> Within(s, I) /\ j < n
<1> DEFINE t == Append(s, n)
           J == Append(I, j)
           k == Len(s)
<1>1. /\ k \in Nat /\ Len(t) = k + 1 /\ t[k + 1] = n /\ J[k + 1] = j
      /\ J \in Seq(Nat) /\ Len(J) = k + 1
      /\ \A d \in 1..k : t[d] = s[d] /\ J[d] = I[d]
  OBVIOUS
<1> HIDE DEF t, J, k
<1>2. \A d \in 1..(k + 1) : d = k + 1 \/ d \in 1..k
  BY <1>1
<1>3. (\A d \in 1..(k + 1) : J[d] < t[d]) <=> (\A d \in 1..k : I[d] < s[d]) /\ j < n
  <2>1. k + 1 \in 1..(k + 1) /\ \A d \in 1..k : d \in 1..(k + 1)
    BY <1>1
  <2> QED
    BY <1>1, <1>2, <2>1
<1> QED
  BY <1>1, <1>3 DEF Within, t, J, k

(* A row and a column are natural numbers, and so is the position.         *)
LEMMA RowPosition ==
  ASSUME NEW i \in Nat, NEW n \in Nat, NEW j \in Nat
  PROVE  i * n + j \in Nat
OBVIOUS

(* A position is a natural number, and one of the tensor for an index of   *)
(* its shape.                                                              *)
LEMMA FlatBelow ==
  ASSUME NEW s \in Seq(Nat), NEW I \in Seq(Nat), Len(I) = Len(s)
  PROVE  /\ Flat(s, I) \in Nat
         /\ Within(s, I) => Flat(s, I) \in 0..(Numel(s) - 1)
<1> DEFINE P(u, v) == /\ Flat(u, v) \in Nat
                      /\ Within(u, v) => Flat(u, v) \in 0..(Numel(u) - 1)
<1>1. P(<<>>, <<>>)
  BY FlatEmpty, NumelEmpty
<1>2. ASSUME NEW t \in Seq(Nat), NEW J \in Seq(Nat), NEW n \in Nat, NEW j \in Nat,
             Len(J) = Len(t), P(t, J)
      PROVE  P(Append(t, n), Append(J, j))
  <2> DEFINE F == Flat(t, J)
             N == Numel(t)
  <2>1. F \in Nat /\ (Within(t, J) => F \in 0..(N - 1)) /\ N \in Nat
    BY <1>2, NumelNat
  <2>2. Flat(Append(t, n), Append(J, j)) = F * n + j
    BY <1>2, FlatAppend
  <2>3. Numel(Append(t, n)) = N * n
    BY NumelAppend
  <2>4. Within(Append(t, n), Append(J, j)) <=> Within(t, J) /\ j < n
    BY <1>2, WithinAppend
  <2> HIDE DEF F, N
  <2>5. F * n + j \in Nat
    <3>1. F \in Nat
      BY <2>1
    <3> QED
      BY <3>1, RowPosition
  <2>6. ASSUME Within(t, J), j < n PROVE F * n + j \in 0..(N * n - 1)
    <3>1. F \in 0..(N - 1) /\ j \in 0..(n - 1)
      BY <2>1, <2>6
    <3> QED
      BY <2>1, <3>1, InMatrix
  <2> QED
    BY <2>2, <2>3, <2>4, <2>5, <2>6
<1> HIDE DEF P
<1> QED
  <2> DEFINE S == {x \in Seq(Nat) \X Seq(Nat) : P(x[1], x[2])}
  <2>1. ASSUME NEW e \in Seq(Nat), e = <<>> PROVE <<e, e>> \in S
    <3>1. P(e, e)
      BY <1>1, <2>1
    <3> QED
      BY <3>1
  <2>2. ASSUME NEW t \in Seq(Nat), NEW J \in Seq(Nat), NEW n \in Nat, NEW j \in Nat,
               Len(J) = Len(t), <<t, J>> \in S
        PROVE  <<Append(t, n), Append(J, j)>> \in S
    <3>1. P(Append(t, n), Append(J, j))
      BY <1>2, <2>2
    <3>2. Append(t, n) \in Seq(Nat) /\ Append(J, j) \in Seq(Nat)
      OBVIOUS
    <3> QED
      BY <3>1, <3>2
  <2> HIDE DEF S
  <2>3. <<s, I>> \in S
    BY <2>1, <2>2, PairInduction
  <2> QED
    BY <2>3 DEF S, P

(* A quotient by a product.                                                *)
LEMMA DivDiv ==
  ASSUME NEW f \in Nat, NEW a \in Nat, NEW n \in Nat, a > 0, n > 0
  PROVE  f \div (a * n) = (f \div n) \div a
<1> DEFINE g == f \div n
           j == f % n
           h == g \div a
           i == g % a
<1>1. g \in Nat /\ j \in 0..(n - 1) /\ f = g * n + j
  BY RowAndColumn
<1>2. h \in Nat /\ i \in 0..(a - 1) /\ g = h * a + i
  BY <1>1, RowAndColumn
<1> HIDE DEF g, j, h, i
<1>3. i * n + j \in 0..(a * n - 1)
  BY <1>1, <1>2, InMatrix
<1>4. f = h * (a * n) + (i * n + j)
  BY <1>1, <1>2
<1>5. a * n \in Nat /\ i * n + j \in Nat
  BY <1>1, <1>2
<1>6. f \div (a * n) = h
  BY <1>2, <1>3, <1>4, <1>5, PositionOf
<1> QED
  BY <1>6 DEF g, h

(* A function on 1..m is a sequence.                                        *)
LEMMA SequenceOf ==
  ASSUME NEW m \in Nat, NEW g \in [1..m -> Nat]
  PROVE  g \in Seq(Nat) /\ Len(g) = m
OBVIOUS

(* Strides of a shape with one size more.                                  *)
LEMMA StrideAppend ==
  ASSUME NEW s \in Seq(Nat), NEW n \in Nat
  PROVE  /\ \A d \in 1..Len(s) : /\ Stride(s, d) \in Nat
                                 /\ Stride(Append(s, n), d) = Stride(s, d) * n
                                 /\ Numel(s) > 0 => Stride(s, d) > 0
         /\ Stride(Append(s, n), Len(s) + 1) = 1
<1> DEFINE t == Append(s, n)
           k == Len(s)
<1>1. /\ t \in Seq(Nat) /\ k \in Nat /\ Len(t) = k + 1 /\ t[k + 1] = n
      /\ \A d \in 1..k : t[d] = s[d]
  OBVIOUS
<1> HIDE DEF t, k
<1>2. ASSUME NEW d \in 1..k
      PROVE  Stride(s, d) \in Nat /\ Stride(t, d) = Stride(s, d) * n
             /\ (Numel(s) > 0 => Stride(s, d) > 0)
  <2> DEFINE u == SubSeq(s, d + 1, k)
  <2>0. Len(s) = k
    BY DEF k
  <2>1. /\ d + 1 \in 1..(Len(t) + 1) /\ k \in (d + 1 - 1)..Len(t) /\ k < Len(t)
        /\ d \in 0..Len(s) /\ d \in 0..k
    BY <1>1, <2>0
  <2>2. SubSeq(t, d + 1, k + 1) = Append(SubSeq(t, d + 1, k), t[k + 1])
    <3>1. PICK a : a = d + 1
      OBVIOUS
    <3>2. a \in 1..(Len(t) + 1) /\ k \in (a - 1)..Len(t) /\ k < Len(t)
      BY <2>1, <3>1
    <3>3. SubSeq(t, a, k + 1) = Append(SubSeq(t, a, k), t[k + 1])
      BY <1>1, <3>2, Section
    <3> QED
      BY <3>1, <3>3
  <2>3. SubSeq(t, d + 1, k) = u
    <3>1. u \in Seq(Nat) /\ Len(u) = k - d /\ \A e \in 1..(k - d) : u[e] = s[d + e]
      BY <1>1, <2>0
    <3>2. /\ SubSeq(t, d + 1, k) \in Seq(Nat) /\ Len(SubSeq(t, d + 1, k)) = k - d
          /\ \A e \in 1..(k - d) : SubSeq(t, d + 1, k)[e] = t[d + e]
      BY <1>1
    <3>3. \A e \in 1..(k - d) : t[d + e] = s[d + e]
      BY <1>1
    <3> HIDE DEF u
    <3> QED
      BY <3>1, <3>2, <3>3, SeqEqual
  <2>4. u \in Seq(Nat) /\ SubSeq(s, 1, d) \in Seq(Nat) /\ Numel(s) = Numel(SubSeq(s, 1, d)) * Numel(u)
    BY <2>0, <2>1, NumelSplit
  <2>5. Numel(u) \in Nat /\ Numel(SubSeq(s, 1, d)) \in Nat
    BY <2>4, NumelNat
  <2>6. Numel(Append(u, n)) = Numel(u) * n
    BY <2>4, NumelAppend
  <2>7. Numel(s) > 0 => Numel(u) > 0
    BY <2>4, <2>5
  <2>8. Stride(s, d) = Numel(u) /\ Stride(t, d) = Numel(Append(u, n))
    BY <1>1, <2>0, <2>2, <2>3 DEF Stride
  <2> QED
    BY <2>5, <2>6, <2>7, <2>8
<1>3. Stride(t, k + 1) = 1
  <2>1. SubSeq(t, k + 1 + 1, k + 1) = <<>>
    BY <1>1
  <2> QED
    BY <1>1, <2>1, NumelEmpty DEF Stride
<1> QED
  BY <1>2, <1>3 DEF t, k

(* A tensor with elements has no size of zero.                             *)
LEMMA SizesPositive ==
  ASSUME NEW s \in Seq(Nat), Numel(s) > 0
  PROVE  \A d \in 1..Len(s) : s[d] \in Nat /\ s[d] > 0
<1> SUFFICES ASSUME NEW d \in 1..Len(s) PROVE s[d] \in Nat /\ s[d] > 0
  OBVIOUS
<1> DEFINE k == d - 1
<1>1. /\ k \in 0..Len(s) /\ k < Len(s) /\ k + 1 = d /\ d \in 0..Len(s) /\ s[d] \in Nat
      /\ 1 \in 1..(Len(s) + 1) /\ 1 - 1 = 0
  OBVIOUS
<1> HIDE DEF k
<1>2. SubSeq(s, 1, k) \in Seq(Nat) /\ SubSeq(s, 1, d) = Append(SubSeq(s, 1, k), s[d])
  BY <1>1, Section
<1>3. /\ SubSeq(s, d + 1, Len(s)) \in Seq(Nat)
      /\ Numel(s) = Numel(SubSeq(s, 1, d)) * Numel(SubSeq(s, d + 1, Len(s)))
  BY <1>1, NumelSplit
<1>4. /\ Numel(SubSeq(s, 1, d)) = Numel(SubSeq(s, 1, k)) * s[d]
      /\ Numel(SubSeq(s, 1, k)) \in Nat /\ Numel(SubSeq(s, d + 1, Len(s))) \in Nat
  BY <1>1, <1>2, <1>3, NumelAppend, NumelNat
<1>5. s[d] # 0
  BY <1>3, <1>4
<1> QED
  BY <1>1, <1>5

(* The index of a position is that of its row, and the column.             *)
LEMMA UnflatAppend ==
  ASSUME NEW s \in Seq(Nat), Numel(s) > 0, NEW n \in Nat, n > 0, NEW f \in Nat
  PROVE  /\ Unflat(Append(s, n), f) = Append(Unflat(s, f \div n), f % n)
         /\ Unflat(s, f \div n) \in Seq(Nat) /\ Len(Unflat(s, f \div n)) = Len(s)
         /\ f % n \in Nat
<1> DEFINE t == Append(s, n)
           k == Len(s)
           g == f \div n
           U == Unflat(s, g)
           V == Append(U, f % n)
           W == Unflat(t, f)
<1>1. /\ t \in Seq(Nat) /\ k \in Nat /\ Len(t) = k + 1 /\ t[k + 1] = n
      /\ DOMAIN t = 1..(k + 1) /\ DOMAIN s = 1..k
      /\ \A d \in 1..k : t[d] = s[d]
  OBVIOUS
<1>2. g \in Nat /\ f % n \in Nat
  BY RowAndColumn
<1> HIDE DEF t, g
<1>3. ASSUME NEW d \in 1..k PROVE (g \div Stride(s, d)) % s[d] \in Nat
  <2>1. s[d] \in Nat /\ s[d] > 0
    BY SizesPositive
  <2>2. Stride(s, d) \in Nat /\ Stride(s, d) > 0
    BY StrideAppend
  <2>3. g \div Stride(s, d) \in Nat
    BY <1>2, <2>2, RowAndColumn
  <2> QED
    BY <2>1, <2>3, RowAndColumn
<1>4. U = [d \in 1..k |-> (g \div Stride(s, d)) % s[d]]
  BY <1>1 DEF Unflat
<1> HIDE DEF k
<1>5. U \in Seq(Nat) /\ Len(U) = k
  <2>1. U \in [1..k -> Nat]
    BY <1>3, <1>4
  <2> QED
    BY <1>1, <2>1
<1>6. W = [d \in 1..(k + 1) |-> (f \div Stride(t, d)) % t[d]]
  BY <1>1 DEF Unflat
<1> HIDE DEF U, W
<1>7. V \in Seq(Nat) /\ Len(V) = k + 1 /\ V[k + 1] = f % n /\ \A d \in 1..k : V[d] = U[d]
  BY <1>1, <1>2, <1>5
<1> HIDE DEF V
<1>8. ASSUME NEW d \in 1..k PROVE W[d] = V[d]
  <2>1. /\ Stride(s, d) \in Nat /\ Stride(s, d) > 0 /\ Stride(t, d) = Stride(s, d) * n
    BY <1>8, StrideAppend DEF k, t
  <2>2. f \div Stride(t, d) = g \div Stride(s, d)
    BY <2>1, DivDiv DEF g
  <2>3. d \in 1..(k + 1)
    BY <1>1
  <2> QED
    BY <1>1, <1>4, <1>6, <1>7, <2>2, <2>3
<1>9. W[k + 1] = V[k + 1]
  <2>1. Stride(t, k + 1) = 1
    BY StrideAppend DEF k, t
  <2>2. f \div 1 = f
    OBVIOUS
  <2>3. k + 1 \in 1..(k + 1)
    BY <1>1
  <2> QED
    BY <1>1, <1>6, <1>7, <2>1, <2>2, <2>3
<1>10. \A d \in 1..(k + 1) : W[d] = V[d]
  <2>1. \A d \in 1..(k + 1) : d \in 1..k \/ d = k + 1
    BY <1>1
  <2> QED
    BY <1>8, <1>9, <2>1
<1>11. W = V
  <2>1. W = [d \in 1..(k + 1) |-> V[d]]
    BY <1>6, <1>10
  <2>2. W \in Seq(Nat) /\ Len(W) = k + 1
    <3>1. \A d \in 1..(k + 1) : V[d] \in Nat
      BY <1>7
    <3>2. W \in [1..(k + 1) -> Nat] /\ k + 1 \in Nat
      BY <1>1, <2>1, <3>1
    <3> QED
      BY <3>2, SequenceOf
  <2> QED
    BY <1>7, <1>10, <2>2, SeqEqual
<1> QED
  BY <1>2, <1>5, <1>11 DEF U, V, W, g, t, k

(* Positions and indices: each position of a tensor has an index, ...      *)
LEMMA IndexOfPosition ==
  ASSUME NEW s \in Seq(Nat), NEW f \in 0..(Numel(s) - 1)
  PROVE  Within(s, Unflat(s, f)) /\ Flat(s, Unflat(s, f)) = f
<1> DEFINE Good(u) == \A g \in 0..(Numel(u) - 1) :
                        Within(u, Unflat(u, g)) /\ Flat(u, Unflat(u, g)) = g
           S == {x \in Seq(Nat) \X Seq(Nat) : Good(x[1])}
<1>1. Good(<<>>)
  <2>1. \A g : Unflat(<<>>, g) = <<>>
    BY DEF Unflat
  <2>2. \A g \in 0..(Numel(<<>>) - 1) : g = 0
    BY NumelEmpty
  <2>3. Within(<<>>, <<>>)
    BY DEF Within
  <2> QED
    BY <2>1, <2>2, <2>3, FlatEmpty
<1>2. ASSUME NEW t \in Seq(Nat), NEW n \in Nat, Good(t) PROVE Good(Append(t, n))
  <2> SUFFICES ASSUME NEW g \in 0..(Numel(Append(t, n)) - 1)
               PROVE  /\ Within(Append(t, n), Unflat(Append(t, n), g))
                      /\ Flat(Append(t, n), Unflat(Append(t, n), g)) = g
    OBVIOUS
  <2> HIDE DEF Good
  <2>1. Numel(Append(t, n)) = Numel(t) * n /\ Numel(t) \in Nat /\ g \in Nat
    BY NumelAppend, NumelNat
  <2>2. Numel(t) > 0 /\ n > 0
    <3>1. Numel(t) # 0 /\ n # 0
      BY <2>1
    <3> QED
      BY <2>1, <3>1
  <2> DEFINE r == g \div n
             c == g % n
             U == Unflat(t, r)
  <2>3. r \in 0..(Numel(t) - 1) /\ c \in 0..(n - 1)
    BY <2>1, <2>2, RowBelow
  <2>4. g = r * n + c
    BY <2>1, <2>2, RowAndColumn
  <2>5. Within(t, U) /\ Flat(t, U) = r
    BY <1>2, <2>3 DEF Good
  <2>6. Unflat(Append(t, n), g) = Append(U, c)
    BY <2>1, <2>2, UnflatAppend
  <2>7. U \in Seq(Nat) /\ Len(U) = Len(t) /\ c \in Nat /\ c < n
    BY <2>3, <2>5 DEF Within
  <2> HIDE DEF r, c, U
  <2>8. Within(Append(t, n), Append(U, c)) /\ Flat(Append(t, n), Append(U, c)) = r * n + c
    BY <2>5, <2>7, WithinAppend, FlatAppend
  <2> QED
    BY <2>4, <2>6, <2>8
<1>3. <<s, s>> \in S
  <2> HIDE DEF Good
  <2>1. ASSUME NEW e \in Seq(Nat), e = <<>> PROVE <<e, e>> \in S
    <3>1. Good(e)
      BY <1>1, <2>1
    <3> QED
      BY <3>1
  <2>2. ASSUME NEW t \in Seq(Nat), NEW J \in Seq(Nat), NEW n \in Nat, NEW j \in Nat,
               Len(J) = Len(t), <<t, J>> \in S
        PROVE  <<Append(t, n), Append(J, j)>> \in S
    <3>1. Good(Append(t, n))
      BY <1>2, <2>2
    <3>2. Append(t, n) \in Seq(Nat) /\ Append(J, j) \in Seq(Nat)
      OBVIOUS
    <3> QED
      BY <3>1, <3>2
  <2> HIDE DEF S
  <2> QED
    BY <2>1, <2>2, PairInduction
<1> QED
  BY <1>3

(* ... and that is its only one.                                           *)
LEMMA PositionOfIndex ==
  ASSUME NEW s \in Seq(Nat), NEW I, Within(s, I)
  PROVE  Unflat(s, Flat(s, I)) = I
<1> DEFINE P(u, v) == Within(u, v) => Unflat(u, Flat(u, v)) = v
<1>1. P(<<>>, <<>>)
  <2>1. \A g : Unflat(<<>>, g) = <<>>
    BY DEF Unflat
  <2> QED
    BY <2>1
<1>2. ASSUME NEW t \in Seq(Nat), NEW J \in Seq(Nat), NEW n \in Nat, NEW j \in Nat,
             Len(J) = Len(t), P(t, J)
      PROVE  P(Append(t, n), Append(J, j))
  <2>1. ASSUME Within(Append(t, n), Append(J, j))
        PROVE  Unflat(Append(t, n), Flat(Append(t, n), Append(J, j))) = Append(J, j)
    <3>1. Within(t, J) /\ j < n
      BY <1>2, <2>1, WithinAppend
    <3>2. Unflat(t, Flat(t, J)) = J
      BY <1>2, <3>1
    <3> DEFINE F == Flat(t, J)
               g == F * n + j
    <3>3. Flat(Append(t, n), Append(J, j)) = g
      BY <1>2, FlatAppend
    <3>4. F \in 0..(Numel(t) - 1) /\ Numel(t) \in Nat
      BY <1>2, <3>1, FlatBelow, NumelNat
    <3>5. Numel(t) > 0 /\ n > 0 /\ F \in Nat /\ j \in 0..(n - 1)
      BY <3>1, <3>4
    <3> HIDE DEF F
    <3>6. g \in Nat /\ g \div n = F /\ g % n = j
      BY <3>5, PositionOf
    <3> HIDE DEF g
    <3>7. Unflat(Append(t, n), g) = Append(Unflat(t, g \div n), g % n)
      BY <3>5, <3>6, UnflatAppend
    <3> QED
      BY <3>2, <3>3, <3>6, <3>7 DEF F
  <2> QED
    BY <2>1
<1>3. I \in Seq(Nat) /\ Len(I) = Len(s)
  BY DEF Within
<1> HIDE DEF P
<1> QED
  <2> DEFINE S == {x \in Seq(Nat) \X Seq(Nat) : P(x[1], x[2])}
  <2>1. ASSUME NEW e \in Seq(Nat), e = <<>> PROVE <<e, e>> \in S
    <3>1. P(e, e)
      BY <1>1, <2>1
    <3> QED
      BY <3>1
  <2>2. ASSUME NEW t \in Seq(Nat), NEW J \in Seq(Nat), NEW n \in Nat, NEW j \in Nat,
               Len(J) = Len(t), <<t, J>> \in S
        PROVE  <<Append(t, n), Append(J, j)>> \in S
    <3>1. P(Append(t, n), Append(J, j))
      BY <1>2, <2>2
    <3>2. Append(t, n) \in Seq(Nat) /\ Append(J, j) \in Seq(Nat)
      OBVIOUS
    <3> QED
      BY <3>1, <3>2
  <2> HIDE DEF S
  <2>3. <<s, I>> \in S
    BY <1>3, <2>1, <2>2, PairInduction
  <2> QED
    BY <2>3 DEF S, P

(* The indices of a shape are those within its sizes.                      *)
LEMMA LargestSize ==
  ASSUME NEW s \in Seq(Nat), s # <<>>
  PROVE  Max(ToSet(s)) \in Nat /\ \A d \in 1..Len(s) : s[d] <= Max(ToSet(s))
<1> DEFINE S == {k \in Nat : k \in 1..Len(s) => \E e \in 1..k : \A d \in 1..k : s[d] <= s[e]}
<1>1. 0 \in S
  OBVIOUS
<1>2. ASSUME NEW k \in Nat, k \in S PROVE k + 1 \in S
  <2> SUFFICES ASSUME k + 1 \in 1..Len(s)
               PROVE  \E e \in 1..(k + 1) : \A d \in 1..(k + 1) : s[d] <= s[e]
    OBVIOUS
  <2>1. \A d \in 1..(k + 1) : s[d] \in Nat /\ (d \in 1..k \/ d = k + 1)
    OBVIOUS
  <2>2. CASE k = 0
    <3>1. k + 1 \in 1..(k + 1) /\ \A d \in 1..(k + 1) : d = k + 1
      BY <2>2
    <3>2. ASSUME NEW d \in 1..(k + 1) PROVE s[d] <= s[k + 1]
      <4>1. s[d] = s[k + 1] /\ s[d] \in Nat
        BY <2>1, <3>1
      <4> QED
        BY <4>1
    <3> QED
      BY <3>1, <3>2
  <2>3. CASE k # 0
    <3>1. PICK e \in 1..k : \A d \in 1..k : s[d] <= s[e]
      BY <1>2, <2>3
    <3>2. e \in 1..(k + 1) /\ k + 1 \in 1..(k + 1)
      OBVIOUS
    <3>3. PICK x, y \in Nat : x = s[e] /\ y = s[k + 1]
      BY <2>1, <3>2
    <3>4. CASE y <= x
      <4>1. \A d \in 1..(k + 1) : s[d] <= s[e]
        BY <2>1, <3>1, <3>3, <3>4
      <4> QED
        BY <3>2, <4>1
    <3>5. CASE x <= y
      <4>1. ASSUME NEW d \in 1..(k + 1) PROVE s[d] <= s[k + 1]
        <5>1. PICK z \in Nat : z = s[d]
          BY <2>1
        <5>2. z <= x \/ z = y
          BY <2>1, <3>1, <3>3, <5>1
        <5>3. z <= y
          BY <3>5, <5>2
        <5> QED
          BY <3>3, <5>1, <5>3
      <4> QED
        BY <3>2, <4>1
    <3>6. y <= x \/ x <= y
      OBVIOUS
    <3> QED
      BY ONLY <3>4, <3>5, <3>6
  <2> QED
    BY <2>2, <2>3
<1>3. Len(s) \in Nat \ {0} /\ Len(s) \in 1..Len(s)
  OBVIOUS
<1>4. Len(s) \in S
  <2> HIDE DEF S
  <2> QED
    BY <1>1, <1>2, <1>3, SetInduction
<1>5. PICK e \in 1..Len(s) : \A d \in 1..Len(s) : s[d] <= s[e]
  BY <1>3, <1>4
<1>6. DOMAIN s = 1..Len(s) /\ \A d \in 1..Len(s) : s[d] \in Nat
  OBVIOUS
<1>7. ToSet(s) = {s[d] : d \in 1..Len(s)}
  BY <1>6 DEF ToSet
<1>8. \E x \in ToSet(s) : \A y \in ToSet(s) : x >= y
  BY <1>5, <1>6, <1>7
<1>9. Max(ToSet(s)) \in ToSet(s) /\ \A y \in ToSet(s) : Max(ToSet(s)) >= y
  BY <1>8 DEF Max
<1> QED
  BY <1>6, <1>7, <1>9

(* Indices are the sequences within the shape.                             *)
LEMMA IndicesAre ==
  ASSUME NEW s \in Seq(Nat), NEW I
  PROVE  I \in Indices(s) <=> Within(s, I)
<1>1. CASE s = <<>>
  <2>1. Indices(s) = {<<>>} /\ Len(s) = 0
    BY <1>1 DEF Indices
  <2>2. Within(s, I) <=> I \in Seq(Nat) /\ Len(I) = 0
    BY <2>1 DEF Within
  <2>3. I \in Seq(Nat) /\ Len(I) = 0 <=> I = <<>>
    <3>1. ASSUME I \in Seq(Nat), Len(I) = 0 PROVE I = <<>>
      BY <3>1
    <3>2. <<>> \in Seq(Nat) /\ Len(<<>>) = 0
      OBVIOUS
    <3> QED
      BY <3>1, <3>2
  <2> QED
    BY <2>1, <2>2, <2>3
<1>2. CASE s # <<>>
  <2> DEFINE M == Max(ToSet(s))
  <2>1. M \in Nat /\ \A d \in 1..Len(s) : s[d] <= M /\ s[d] \in Nat
    BY <1>2, LargestSize
  <2>2. Len(s) \in Nat /\ DOMAIN s = 1..Len(s)
    OBVIOUS
  <2>3. Indices(s) = {J \in [1..Len(s) -> 0..M] : \A d \in 1..Len(s) : J[d] < s[d]}
    BY <1>2, <2>2 DEF Indices
  <2> HIDE DEF M
  <2>4. ASSUME I \in Indices(s) PROVE Within(s, I)
    <3>1. I \in [1..Len(s) -> 0..M] /\ \A d \in 1..Len(s) : I[d] < s[d]
      BY <2>3, <2>4
    <3>2. I \in [1..Len(s) -> Nat]
      BY <2>1, <3>1
    <3>3. I \in Seq(Nat) /\ Len(I) = Len(s)
      BY <2>2, <3>2, SequenceOf
    <3> QED
      BY <3>1, <3>3 DEF Within
  <2>5. ASSUME Within(s, I) PROVE I \in Indices(s)
    <3>1. I \in Seq(Nat) /\ Len(I) = Len(s) /\ \A d \in 1..Len(s) : I[d] < s[d]
      BY <2>5 DEF Within
    <3>2. I \in [1..Len(s) -> Nat]
      BY <3>1
    <3>3. ASSUME NEW d \in 1..Len(s) PROVE I[d] \in 0..M
      <4>1. I[d] \in Nat /\ I[d] < s[d] /\ s[d] <= M /\ s[d] \in Nat /\ M \in Nat
        BY <2>1, <3>1, <3>2
      <4> QED
        BY <4>1
    <3>4. I \in [1..Len(s) -> 0..M]
      BY <3>2, <3>3
    <3> QED
      BY <2>3, <3>1, <3>4
  <2> QED
    BY <2>4, <2>5
<1> QED
  BY <1>1, <1>2

(* Positions in the first dimensions and in the others.                    *)
LEMMA Joined ==
  ASSUME NEW t \in Seq(Nat), NEW u \in Seq(Nat)
  PROVE  /\ t \o u \in Seq(Nat) /\ Len(t \o u) = Len(t) + Len(u)
         /\ \A d \in 1..(Len(t) + Len(u)) :
              (t \o u)[d] = IF d <= Len(t) THEN t[d] ELSE u[d - Len(t)]
<1>1. t \o u \in Seq(Nat) /\ Len(t \o u) = Len(t) + Len(u)
  OBVIOUS
<1>2. \A d \in 1..(Len(t) + Len(u)) :
        (t \o u)[d] = IF d <= Len(t) THEN t[d] ELSE u[d - Len(t)]
  OBVIOUS
<1> QED
  BY <1>1, <1>2

(* Joining and appending commute.                                          *)
LEMMA JoinAppend ==
  ASSUME NEW t \in Seq(Nat), NEW u \in Seq(Nat), NEW n \in Nat
  PROVE  /\ t \o u \in Seq(Nat) /\ Len(t \o u) = Len(t) + Len(u)
         /\ t \o Append(u, n) = Append(t \o u, n)
<1>1. t \o u \in Seq(Nat) /\ Len(t \o u) = Len(t) + Len(u)
  OBVIOUS
<1> DEFINE a == Append(u, n)
           m == Len(t)
           k == Len(u)
<1>2. /\ m \in Nat /\ k \in Nat /\ a \in Seq(Nat) /\ Len(a) = k + 1
      /\ a[k + 1] = n /\ \A d \in 1..k : a[d] = u[d]
  OBVIOUS
<1> HIDE DEF a
<1> DEFINE v == t \o a
           w == Append(t \o u, n)
<1>3. /\ v \in Seq(Nat) /\ Len(v) = m + (k + 1)
      /\ \A d \in 1..(m + (k + 1)) : v[d] = IF d <= m THEN t[d] ELSE a[d - m]
  <2>1. /\ t \o a \in Seq(Nat) /\ Len(t \o a) = Len(t) + Len(a)
        /\ \A d \in 1..(Len(t) + Len(a)) :
             (t \o a)[d] = IF d <= Len(t) THEN t[d] ELSE a[d - Len(t)]
    BY <1>2, Joined
  <2> QED
    BY <1>2, <2>1
<1>4. /\ w \in Seq(Nat) /\ Len(w) = m + k + 1 /\ w[m + k + 1] = n
      /\ \A d \in 1..(m + k) : w[d] = (t \o u)[d]
  BY <1>1
<1>5. \A d \in 1..(m + k) : (t \o u)[d] = IF d <= m THEN t[d] ELSE u[d - m]
  OBVIOUS
<1> HIDE DEF v, w, m, k
<1>6. ASSUME NEW d \in 1..(m + k + 1) PROVE v[d] = w[d]
  <2>1. v[d] = IF d <= m THEN t[d] ELSE a[d - m]
    BY <1>2, <1>3
  <2>2. CASE d = m + k + 1
    <3>1. ~(d <= m) /\ d - m = k + 1
      BY <1>2, <2>2
    <3> QED
      BY <1>2, <1>4, <2>1, <2>2, <3>1
  <2>3. CASE d \in 1..(m + k)
    <3>1. ~(d <= m) => d - m \in 1..k
      BY <1>2, <2>3
    <3> QED
      BY <1>2, <1>4, <1>5, <2>1, <2>3, <3>1
  <2> QED
    BY <1>2, <2>2, <2>3
<1>7. v = w
  <2>1. Len(v) = m + k + 1
    BY <1>2, <1>3
  <2> QED
    BY <1>3, <1>4, <1>6, <2>1, SeqEqual
<1> QED
  BY <1>1, <1>7 DEF a, v, w

(* The position in two shapes joined: whole blocks of the second, and the  *)
(* position in it.                                                         *)
LEMMA FlatJoin ==
  ASSUME NEW t \in Seq(Nat), NEW J \in Seq(Nat), Len(J) = Len(t),
         NEW u \in Seq(Nat), NEW K \in Seq(Nat), Len(K) = Len(u)
  PROVE  Flat(t \o u, J \o K) = Flat(t, J) * Numel(u) + Flat(u, K)
<1> DEFINE P(v, L) == Flat(t \o v, J \o L) = Flat(t, J) * Numel(v) + Flat(v, L)
<1>0. Flat(t, J) \in Nat
  BY FlatBelow
<1>1. P(<<>>, <<>>)
  <2>1. t \o <<>> = t /\ J \o <<>> = J
    OBVIOUS
  <2> QED
    BY <1>0, <2>1, FlatEmpty, NumelEmpty
<1>2. ASSUME NEW v \in Seq(Nat), NEW L \in Seq(Nat), NEW n \in Nat, NEW j \in Nat,
             Len(L) = Len(v), P(v, L)
      PROVE  P(Append(v, n), Append(L, j))
  <2> DEFINE F == Flat(t, J)
             N == Numel(v)
             G == Flat(v, L)
  <2>1. F \in Nat /\ N \in Nat /\ G \in Nat
    BY <1>0, <1>2, FlatBelow, NumelNat
  <2>2. /\ t \o Append(v, n) = Append(t \o v, n)
        /\ t \o v \in Seq(Nat) /\ Len(t \o v) = Len(t) + Len(v)
    BY JoinAppend
  <2>3. /\ J \o Append(L, j) = Append(J \o L, j)
        /\ J \o L \in Seq(Nat) /\ Len(J \o L) = Len(J) + Len(L)
    BY JoinAppend
  <2>4. Flat(Append(t \o v, n), Append(J \o L, j)) = Flat(t \o v, J \o L) * n + j
    <3>1. Len(J \o L) = Len(t \o v)
      BY <1>2, <2>2, <2>3
    <3> DEFINE y == t \o v
               z == J \o L
    <3>2. y \in Seq(Nat) /\ z \in Seq(Nat) /\ Len(z) = Len(y)
      BY <2>2, <2>3, <3>1
    <3> HIDE DEF y, z
    <3>3. Flat(Append(y, n), Append(z, j)) = Flat(y, z) * n + j
      BY <3>2, FlatAppend
    <3> QED
      BY <3>3 DEF y, z
  <2>5. Flat(t \o v, J \o L) = F * N + G
    BY <1>2
  <2>6. Numel(Append(v, n)) = N * n /\ Flat(Append(v, n), Append(L, j)) = G * n + j
    BY <1>2, NumelAppend, FlatAppend
  <2> HIDE DEF F, N, G
  <2>7. (F * N + G) * n + j = F * (N * n) + (G * n + j)
    BY <2>1
  <2> QED
    BY <2>2, <2>3, <2>4, <2>5, <2>6, <2>7 DEF F
<1> HIDE DEF P
<1> DEFINE S == {x \in Seq(Nat) \X Seq(Nat) : P(x[1], x[2])}
<1>3. ASSUME NEW e \in Seq(Nat), e = <<>> PROVE <<e, e>> \in S
  <2>1. P(e, e)
    BY <1>1, <1>3
  <2> QED
    BY <2>1
<1>4. ASSUME NEW v \in Seq(Nat), NEW L \in Seq(Nat), NEW n \in Nat, NEW j \in Nat,
             Len(L) = Len(v), <<v, L>> \in S
      PROVE  <<Append(v, n), Append(L, j)>> \in S
  <2>1. P(Append(v, n), Append(L, j))
    BY <1>2, <1>4
  <2>2. Append(v, n) \in Seq(Nat) /\ Append(L, j) \in Seq(Nat)
    OBVIOUS
  <2> QED
    BY <2>1, <2>2
<1> HIDE DEF S
<1>5. <<u, K>> \in S
  BY <1>3, <1>4, PairInduction
<1> QED
  BY <1>5 DEF S, P

(* The elements of a section.                                              *)
LEMMA SectionElements ==
  ASSUME NEW s \in Seq(Nat), NEW a \in 1..(Len(s) + 1), NEW e \in (a - 1)..Len(s)
  PROVE  \A d \in 1..(e - a + 1) : SubSeq(s, a, e)[d] = s[a + d - 1]
OBVIOUS

(* A shape and an index cut after dimension d.                             *)
LEMMA Cut ==
  ASSUME NEW s \in Seq(Nat), NEW d \in 0..Len(s)
  PROVE  LET t == SubSeq(s, 1, d)
             u == SubSeq(s, d + 1, Len(s))
         IN  /\ t \in Seq(Nat) /\ Len(t) = d /\ u \in Seq(Nat) /\ Len(u) = Len(s) - d
             /\ s = t \o u
             /\ \A e \in 1..d : t[e] = s[e]
             /\ \A e \in 1..(Len(s) - d) : u[e] = s[d + e]
<1> DEFINE t == SubSeq(s, 1, d)
           u == SubSeq(s, d + 1, Len(s))
           n == Len(s)
<1>0. n \in Nat /\ d \in Nat /\ d <= n
  OBVIOUS
<1> HIDE DEF t, u
<1>1. t \in Seq(Nat) /\ Len(t) = d /\ \A e \in 1..d : t[e] = s[e]
  <2>1. PICK a \in 1..(Len(s) + 1) : a = 1 /\ d \in (a - 1)..Len(s)
    OBVIOUS
  <2>2. /\ SubSeq(s, a, d) \in Seq(Nat) /\ Len(SubSeq(s, a, d)) = d - a + 1
        /\ \A e \in 1..(d - a + 1) : SubSeq(s, a, d)[e] = s[a + e - 1]
    BY <2>1, Section, SectionElements
  <2>3. d - a + 1 = d /\ \A e \in 1..d : a + e - 1 = e
    BY <2>1
  <2>4. SubSeq(s, a, d) = t
    BY <2>1 DEF t
  <2> QED
    BY <2>2, <2>3, <2>4
<1>2. u \in Seq(Nat) /\ Len(u) = n - d /\ \A e \in 1..(n - d) : u[e] = s[d + e]
  <2>1. PICK a \in 1..(Len(s) + 1) : a = d + 1 /\ n \in (a - 1)..Len(s)
    BY <1>0
  <2>2. /\ SubSeq(s, a, n) \in Seq(Nat) /\ Len(SubSeq(s, a, n)) = n - a + 1
        /\ \A e \in 1..(n - a + 1) : SubSeq(s, a, n)[e] = s[a + e - 1]
    BY <2>1, Section, SectionElements
  <2>3. n - a + 1 = n - d /\ \A e \in 1..(n - d) : a + e - 1 = d + e
    BY <1>0, <2>1
  <2>4. SubSeq(s, a, n) = u
    BY <2>1 DEF u
  <2> HIDE DEF n
  <2> QED
    BY <2>2, <2>3, <2>4
<1> HIDE DEF n
<1>3. PICK k : k = n - d /\ k \in Nat /\ n = d + k
  BY <1>0
<1>4. /\ t \o u \in Seq(Nat) /\ Len(t \o u) = n
      /\ \A e \in 1..n : (t \o u)[e] = IF e <= d THEN t[e] ELSE u[e - d]
  <2>1. /\ t \o u \in Seq(Nat) /\ Len(t \o u) = d + k
        /\ \A e \in 1..(d + k) : (t \o u)[e] = IF e <= d THEN t[e] ELSE u[e - d]
    <3>1. t \in Seq(Nat) /\ u \in Seq(Nat) /\ Len(t) = d /\ Len(u) = k
      BY <1>1, <1>2, <1>3
    <3>2. /\ t \o u \in Seq(Nat) /\ Len(t \o u) = Len(t) + Len(u)
          /\ \A e \in 1..(Len(t) + Len(u)) :
               (t \o u)[e] = IF e <= Len(t) THEN t[e] ELSE u[e - Len(t)]
      BY <3>1, Joined
    <3> QED
      BY <3>1, <3>2
  <2> QED
    BY <1>3, <2>1
<1>5. \A e \in 1..n : (t \o u)[e] = s[e]
  <2> SUFFICES ASSUME NEW e \in 1..n PROVE (t \o u)[e] = s[e]
    OBVIOUS
  <2>1. CASE e <= d
    BY <1>0, <1>1, <1>4, <2>1
  <2>2. CASE ~(e <= d)
    <3>1. e - d \in 1..(n - d) /\ d + (e - d) = e
      BY <1>0, <2>2
    <3> QED
      BY <1>2, <1>4, <2>2, <3>1
  <2> QED
    BY <2>1, <2>2
<1>6. s = t \o u
  BY <1>4, <1>5, SeqEqual DEF n
<1> QED
  BY <1>1, <1>2, <1>6 DEF t, u, n

(* An index cut after dimension d: both parts are indices, and the         *)
(* position is that of the parts.                                          *)
LEMMA CutIndex ==
  ASSUME NEW s \in Seq(Nat), NEW I, Within(s, I), NEW d \in 0..Len(s)
  PROVE  LET t == SubSeq(s, 1, d)
             u == SubSeq(s, d + 1, Len(s))
             J == SubSeq(I, 1, d)
             K == SubSeq(I, d + 1, Len(I))
         IN  /\ Within(t, J) /\ Within(u, K)
             /\ Flat(s, I) = Flat(t, J) * Numel(u) + Flat(u, K)
<1> DEFINE t == SubSeq(s, 1, d)
           u == SubSeq(s, d + 1, Len(s))
           J == SubSeq(I, 1, d)
           K == SubSeq(I, d + 1, Len(I))
           n == Len(s)
<1>1. I \in Seq(Nat) /\ Len(I) = n /\ d \in 0..Len(I) /\ \A e \in 1..n : I[e] < s[e]
  BY DEF Within
<1>2. /\ t \in Seq(Nat) /\ Len(t) = d /\ u \in Seq(Nat) /\ Len(u) = n - d
      /\ s = t \o u
      /\ \A e \in 1..d : t[e] = s[e]
      /\ \A e \in 1..(n - d) : u[e] = s[d + e]
  BY Cut
<1>3. /\ J \in Seq(Nat) /\ Len(J) = d /\ K \in Seq(Nat) /\ Len(K) = n - d
      /\ I = J \o K
      /\ \A e \in 1..d : J[e] = I[e]
      /\ \A e \in 1..(n - d) : K[e] = I[d + e]
  <2>1. /\ J \in Seq(Nat) /\ Len(J) = d /\ K \in Seq(Nat) /\ Len(K) = Len(I) - d
        /\ I = J \o K
        /\ \A e \in 1..d : J[e] = I[e]
        /\ \A e \in 1..(Len(I) - d) : K[e] = I[d + e]
    BY <1>1, Cut
  <2> QED
    BY <1>1, <2>1
<1> HIDE DEF t, u, J, K
<1>4. n \in Nat /\ d \in 0..n
  OBVIOUS
<1> HIDE DEF n
<1>5. Within(t, J)
  <2>1. \A e \in 1..d : J[e] < t[e]
    <3>1. \A e \in 1..d : e \in 1..n
      BY <1>4
    <3> QED
      BY <1>1, <1>2, <1>3, <3>1
  <2> QED
    BY <1>2, <1>3, <2>1 DEF Within
<1>6. Within(u, K)
  <2>1. \A e \in 1..(n - d) : K[e] < u[e]
    <3>1. \A e \in 1..(n - d) : d + e \in 1..n
      BY <1>4
    <3> QED
      BY <1>1, <1>2, <1>3, <3>1
  <2> QED
    BY <1>2, <1>3, <2>1 DEF Within
<1>7. Flat(t \o u, J \o K) = Flat(t, J) * Numel(u) + Flat(u, K)
  BY <1>2, <1>3, FlatJoin
<1> QED
  BY <1>2, <1>3, <1>5, <1>6, <1>7 DEF t, u, J, K

(* A tensor without elements has no index.                                 *)
LEMMA NoIndices ==
  ASSUME NEW s \in Seq(Nat), Numel(s) = 0
  PROVE  Indices(s) = {}
<1> SUFFICES ASSUME NEW I \in Indices(s) PROVE FALSE
  OBVIOUS
<1>1. Within(s, I)
  BY IndicesAre
<1>2. I \in Seq(Nat) /\ Len(I) = Len(s)
  BY <1>1 DEF Within
<1>3. Flat(s, I) \in 0..(Numel(s) - 1)
  BY <1>1, <1>2, FlatBelow
<1> QED
  BY <1>3

(* Launched with parameters p, call c writes what it is to write, ...      *)
Right(c, p) ==
  /\ Shape(c) \in Seq(Nat) /\ p.shape = Shape(c)
  /\ \A I : Within(Shape(c), I) =>
       ResultOf(p, <<"out", Flat(Shape(c), I)>>) =
         Write("out", Flat(Shape(c), I), From(c, I))

(* ... and no more: what a launch makes of its result, and the definition. *)
OutResults(p)   == {ResultOf(p, <<"out", i>>) : i \in 0..(Numel(p.shape) - 1)}
OutReference(c) == {Write("out", Flat(Shape(c), I), From(c, I)) : I \in Indices(Shape(c))}

(* The results of a launch that is right are those of the definition.      *)
LEMMA CoveredOut ==
  ASSUME NEW c, NEW p, Right(c, p)
  PROVE  OutResults(p) = OutReference(c)
<1> DEFINE s == Shape(c)
           R(i) == ResultOf(p, <<"out", i>>)
           W(I) == Write("out", Flat(s, I), From(c, I))
<1>1. s \in Seq(Nat) /\ p.shape = s /\ \A I : Within(s, I) => R(Flat(s, I)) = W(I)
  BY DEF Right
<1> HIDE DEF s, R, W
<1>2. ASSUME NEW i \in 0..(Numel(s) - 1) PROVE \E I \in Indices(s) : R(i) = W(I)
  <2>1. Within(s, Unflat(s, i)) /\ Flat(s, Unflat(s, i)) = i
    BY <1>1, IndexOfPosition
  <2>2. Unflat(s, i) \in Indices(s)
    BY <1>1, <2>1, IndicesAre
  <2> QED
    BY <1>1, <2>1, <2>2
<1>3. ASSUME NEW I \in Indices(s) PROVE \E i \in 0..(Numel(s) - 1) : R(i) = W(I)
  <2>1. Within(s, I)
    BY <1>1, IndicesAre
  <2>2. I \in Seq(Nat) /\ Len(I) = Len(s)
    BY <2>1 DEF Within
  <2>3. Flat(s, I) \in 0..(Numel(s) - 1)
    BY <1>1, <2>1, <2>2, FlatBelow
  <2> QED
    BY <1>1, <2>1, <2>3
<1>4. {R(i) : i \in 0..(Numel(s) - 1)} = {W(I) : I \in Indices(s)}
  BY <1>2, <1>3
<1> QED
  BY <1>1, <1>4 DEF OutResults, OutReference, s, R, W

(* All that a launch writes, where there are no statistics.                *)
LEMMA Covered ==
  ASSUME NEW c, NEW p, Right(c, p), p.kernel # "layernorm", c.op # "layer_norm"
  PROVE  {Results(p)[e] : e \in DOMAIN Results(p)} = Reference(c)
<1> DEFINE D == {<<"out", i>> : i \in 0..(Numel(p.shape) - 1)}
<1>1. DOMAIN Results(p) = D /\ Outputs(p) = D
  BY OneResult DEF Results
<1>2. \A e \in D : Results(p)[e] = ResultOf(p, e)
  BY <1>1 DEF Results
<1>3. {Results(p)[e] : e \in D} = {ResultOf(p, e) : e \in D}
  BY <1>2
<1>4. {ResultOf(p, e) : e \in D} = OutResults(p)
  BY DEF OutResults
<1>5. Reference(c) = OutReference(c)
  BY DEF Reference, Statistics, OutReference
<1>6. OutResults(p) = OutReference(c)
  BY CoveredOut
<1> HIDE DEF D
<1> QED
  BY <1>1, <1>3, <1>4, <1>5, <1>6

(* What contiguous() has at an index.                                      *)
LEMMA FetchFlat ==
  ASSUME NEW s \in Seq(Nat), NEW I, Within(s, I), NEW name
  PROVE  Fetch(Contiguous(name, s), Flat(s, I)) = Element(name, s, I)
<1>1. I \in Seq(Nat) /\ Len(I) = Len(s)
  BY DEF Within
<1>2. Flat(s, I) \in 0..(Numel(s) - 1)
  BY <1>1, FlatBelow
<1> QED
  BY <1>2 DEF Fetch, Contiguous, Element

(* What expand().contiguous() has at an index.                             *)
LEMMA FetchExpanded ==
  ASSUME NEW s, NEW t \in Seq(Nat), NEW I, Within(t, I), NEW name
  PROVE  Fetch(Expanded(name, s, t), Flat(t, I)) = Element(name, s, Clip(s, I))
<1>1. I \in Seq(Nat) /\ Len(I) = Len(t)
  BY DEF Within
<1>2. Flat(t, I) \in 0..(Numel(t) - 1)
  BY <1>1, FlatBelow
<1>3. Unflat(t, Flat(t, I)) = I
  BY PositionOfIndex
<1> QED
  BY <1>2, <1>3 DEF Fetch, Expanded

(* Elementwise operators.                                                  *)
LEMMA ElementRight ==
  ASSUME NEW c \in Calls, Regular(c), c.op \in {"fill", "unary", "binary", "pointwise"},
         Prepared(c).stage = "ready"
  PROVE  Right(c, Prepared(c).params)
<1> DEFINE p == Prepared(c).params
           s == Shape(c)
<1>0. /\ c.x \in Seq(Nat) /\ (c.op \in {"binary", "pointwise"} => c.y \in Seq(Nat))
  BY CallsAssumption
<1>1. p.shape = s /\ s \in Seq(Nat) /\ p.kernel \in Elementwise
  <2>1. \A kernel, src, shape : /\ Launch1(kernel, src, shape).params.kernel = kernel
                                /\ Launch1(kernel, src, shape).params.shape = shape
    BY DEF Launch1, Ready, NoParams
  <2>2. Empty.stage # "ready" /\ Refused.stage # "ready"
    BY DEF Empty, Refused, Ends
  <2>3. CASE c.op = "fill"
    <3>1. p = Launch1("fill", <<>>, c.x).params /\ s = c.x
      BY <2>2, <2>3 DEF Prepared, Filled, Shape
    <3> QED
      BY <1>0, <2>1, <3>1 DEF Elementwise
  <2>4. CASE c.op = "unary"
    <3>1. p = Launch1("unary", <<Contiguous("x", c.x)>>, c.x).params /\ s = c.x
      BY <2>4 DEF Prepared, Unary, Shape
    <3> QED
      BY <1>0, <2>1, <3>1 DEF Elementwise
  <2>5. CASE c.op = "binary"
    <3>1. Joins(c.x, c.y)
      BY <2>5 DEF Regular
    <3>2. /\ p = Launch1("binary", <<Expanded("x", c.x, s), Expanded("y", c.y, s)>>, s).params
          /\ s = Join(c.x, c.y)
      BY <2>5, <3>1 DEF Prepared, Binary, Shape
    <3>3. s \in Seq(Nat)
      BY <1>0, <2>5, <3>2, JoinShape
    <3>4. p.kernel = "binary" /\ p.shape = s
      BY <2>1, <3>2
    <3> QED
      BY <3>3, <3>4 DEF Elementwise
  <2>6. CASE c.op = "pointwise"
    <3>1. c.x = c.y
      BY <2>6 DEF Regular
    <3>2. /\ p = Launch1("pointwise", <<Contiguous("x", c.x), Contiguous("y", c.y)>>, c.x).params
          /\ s = c.x
      BY <2>6, <3>1 DEF Prepared, PointwiseOp, Shape
    <3> QED
      BY <1>0, <2>1, <3>2 DEF Elementwise
  <2> QED
    BY <2>3, <2>4, <2>5, <2>6
<1>2. ASSUME NEW I, Within(s, I)
      PROVE  [q \in DOMAIN p.src |-> <<Fetch(p.src[q], Flat(s, I))>>] = From(c, I)
  <2> DEFINE f == Flat(s, I)
  <2>1. \A kernel, src, shape : Launch1(kernel, src, shape).params.src = src
    BY DEF Launch1, Ready, NoParams
  <2>2. Empty.stage # "ready"
    BY DEF Empty, Ends
  <2>3. CASE c.op = "fill"
    <3>1. p.src = <<>> /\ From(c, I) = <<>>
      BY <2>1, <2>2, <2>3 DEF Prepared, Filled, From
    <3> QED
      BY <3>1
  <2>4. CASE c.op = "unary"
    <3>1. /\ p.src = <<Contiguous("x", c.x)>> /\ From(c, I) = <<<<Element("x", c.x, I)>>>>
          /\ s = c.x
      BY <2>1, <2>4 DEF Prepared, Unary, From, Shape
    <3>2. Fetch(Contiguous("x", c.x), f) = Element("x", c.x, I)
      BY <1>0, <1>2, <3>1, FetchFlat
    <3> QED
      BY <3>1, <3>2
  <2>5. CASE c.op = "binary"
    <3>1. Joins(c.x, c.y)
      BY <2>5 DEF Regular
    <3>2. /\ p.src = <<Expanded("x", c.x, s), Expanded("y", c.y, s)>>
          /\ From(c, I) = <<<<Element("x", c.x, Clip(c.x, I))>>, <<Element("y", c.y, Clip(c.y, I))>>>>
      BY <2>1, <2>5, <3>1 DEF Prepared, Binary, From, Shape
    <3>3. /\ Fetch(Expanded("x", c.x, s), f) = Element("x", c.x, Clip(c.x, I))
          /\ Fetch(Expanded("y", c.y, s), f) = Element("y", c.y, Clip(c.y, I))
      BY <1>1, <1>2, FetchExpanded
    <3> QED
      BY <3>2, <3>3
  <2>6. CASE c.op = "pointwise"
    <3>1. c.x = c.y
      BY <2>6 DEF Regular
    <3>2. /\ p.src = <<Contiguous("x", c.x), Contiguous("y", c.x)>> /\ s = c.x
          /\ From(c, I) = <<<<Element("x", c.x, I)>>, <<Element("y", c.x, I)>>>>
      BY <2>1, <2>6, <3>1 DEF Prepared, PointwiseOp, From, Shape
    <3>3. /\ Fetch(Contiguous("x", c.x), f) = Element("x", c.x, I)
          /\ Fetch(Contiguous("y", c.x), f) = Element("y", c.x, I)
      BY <1>0, <1>2, <3>2, FetchFlat
    <3> QED
      BY <3>2, <3>3
  <2> QED
    BY <2>3, <2>4, <2>5, <2>6
<1> HIDE DEF p, s
<1>3. ASSUME NEW i PROVE ResultOf(p, <<"out", i>>) = ElementWrite(p, i)
  <2>1. <<"out", i>>[2] = i
    OBVIOUS
  <2> QED
    BY <1>1, <2>1 DEF ResultOf, Elementwise
<1>4. ASSUME NEW I, Within(s, I)
      PROVE  ResultOf(p, <<"out", Flat(s, I)>>) = Write("out", Flat(s, I), From(c, I))
  BY <1>2, <1>3, <1>4 DEF ElementWrite
<1> QED
  BY <1>1, <1>4 DEF Right, p, s

(* Positions in a vector and in a matrix, ...                              *)
LEMMA FlatOne ==
  ASSUME NEW m \in Nat, NEW a \in Nat
  PROVE  Flat(<<m>>, <<a>>) = a
<1> DEFINE e == <<>>
           u == <<m>>
           v == <<a>>
<1>1. e \in Seq(Nat) /\ u = Append(e, m) /\ v = Append(e, a)
  OBVIOUS
<1>2. Flat(e, e) = 0
  BY FlatEmpty
<1> HIDE DEF e, u, v
<1>3. Flat(u, v) = Flat(e, e) * m + a
  <2>1. Len(e) = Len(e)
    OBVIOUS
  <2> QED
    BY <1>1, <2>1, FlatAppend
<1>4. 0 * m + a = a
  OBVIOUS
<1> QED
  BY <1>2, <1>3, <1>4 DEF u, v

(* The position in a matrix.                                               *)
LEMMA FlatTwo ==
  ASSUME NEW m \in Nat, NEW n \in Nat, NEW a \in Nat, NEW b \in Nat
  PROVE  Flat(<<m, n>>, <<a, b>>) = a * n + b
<1> DEFINE u == <<m>>
           v == <<a>>
           U == <<m, n>>
           V == <<a, b>>
<1>1. /\ u \in Seq(Nat) /\ v \in Seq(Nat) /\ Len(v) = Len(u)
      /\ U = Append(u, n) /\ V = Append(v, b)
  OBVIOUS
<1>2. Flat(u, v) = a
  BY FlatOne
<1> HIDE DEF u, v, U, V
<1>3. Flat(U, V) = Flat(u, v) * n + b
  BY <1>1, FlatAppend
<1> QED
  BY <1>2, <1>3 DEF U, V

(* ... and in a batch of matrices.                                         *)
LEMMA MatrixOf ==
  ASSUME NEW s \in Seq(Nat), Len(s) >= 2
  PROVE  /\ BatchOf(s) \in Seq(Nat) /\ Len(BatchOf(s)) = Len(s) - 2
         /\ Size(s, 2) \in Nat /\ Size(s, 1) \in Nat
         /\ s = BatchOf(s) \o <<Size(s, 2), Size(s, 1)>>
         /\ Front1(s) = Append(BatchOf(s), Size(s, 2))
<1> DEFINE l == Len(s)
           t == SubSeq(s, 1, l - 2)
           u == SubSeq(s, l - 2 + 1, l)
           v == <<s[l - 1], s[l]>>
<1>1. /\ l \in Nat /\ l - 2 \in 0..l /\ l - 2 < l /\ l - 2 + 1 = l - 1
      /\ l - (l - 2) = 2 /\ l - 2 + 2 = l
  OBVIOUS
<1>2. s[l - 1] \in Nat /\ s[l] \in Nat
  OBVIOUS
<1>3. /\ t \in Seq(Nat) /\ Len(t) = l - 2 /\ u \in Seq(Nat) /\ Len(u) = l - (l - 2)
      /\ s = t \o u /\ \A e \in 1..(l - (l - 2)) : u[e] = s[l - 2 + e]
  <2>1. PICK d \in 0..Len(s) : d = l - 2
    <3>1. l - 2 \in 0..Len(s)
      BY <1>1
    <3> QED
      BY ONLY <3>1
  <2>2. LET a == SubSeq(s, 1, d)
            b == SubSeq(s, d + 1, Len(s))
        IN  /\ a \in Seq(Nat) /\ Len(a) = d /\ b \in Seq(Nat) /\ Len(b) = Len(s) - d
            /\ s = a \o b
            /\ \A e \in 1..(Len(s) - d) : b[e] = s[d + e]
    BY Cut
  <2>3. t = SubSeq(s, 1, d) /\ u = SubSeq(s, d + 1, l) /\ Len(s) = l
    BY <2>1
  <2> HIDE DEF t, u, l
  <2> QED
    BY <2>1, <2>2, <2>3
<1>4. Size(s, 2) = s[l - 1] /\ Size(s, 1) = s[l]
  <2>1. l + 1 - 2 = l - 1 /\ l + 1 - 1 = l
    BY <1>1
  <2> QED
    BY <2>1 DEF Size
<1>5. BatchOf(s) = t
  BY DEF BatchOf
<1>6. Front1(s) = Append(t, s[l - 1])
  <2>1. PICK d \in 0..Len(s) : d = l - 2 /\ d < Len(s) /\ d + 1 = l - 1
    <3>1. l - 2 \in 0..Len(s) /\ l - 2 < Len(s) /\ l - 2 + 1 = l - 1
      BY <1>1
    <3> DEFINE d == l - 2
    <3>2. d \in 0..Len(s) /\ d = l - 2 /\ d < Len(s) /\ d + 1 = l - 1
      BY <3>1
    <3> HIDE DEF d
    <3> QED
      BY <3>2
  <2>2. SubSeq(s, 1, d + 1) = Append(SubSeq(s, 1, d), s[d + 1])
    BY <2>1, Section
  <2> QED
    BY <2>1, <2>2 DEF Front1
<1>7. v \in Seq(Nat) /\ Len(v) = 2 /\ v[1] = s[l - 1] /\ v[2] = s[l]
  BY <1>2
<1> HIDE DEF l, t, u, v
<1>8. u = v
  <2>1. Len(u) = 2 /\ u[1] = s[l - 1] /\ u[2] = s[l]
    <3>1. 1 \in 1..(l - (l - 2)) /\ 2 \in 1..(l - (l - 2))
      BY <1>1
    <3>2. u[1] = s[l - 2 + 1] /\ u[2] = s[l - 2 + 2]
      BY <1>3, <3>1
    <3> QED
      BY <1>1, <1>3, <3>2
  <2>2. \A e \in 1..2 : u[e] = v[e]
    BY <1>7, <2>1
  <2> QED
    BY <1>3, <1>7, <2>1, <2>2, SeqEqual
<1> QED
  BY <1>2, <1>3, <1>4, <1>5, <1>6, <1>8 DEF l, v

(* The position in a batch of matrices.                                    *)
Matrices(t, a, b) == t \o <<a, b>>

(* The position in a batch is the matrices before it and the position in   *)
(* the matrix.                                                             *)
LEMMA FlatBatch ==
  ASSUME NEW t \in Seq(Nat), NEW J \in Seq(Nat), Len(J) = Len(t),
         NEW k \in Nat, NEW n \in Nat, NEW q \in Nat, NEW j \in Nat
  PROVE  Flat(Matrices(t, k, n), Matrices(J, q, j)) = Flat(t, J) * k * n + (q * n + j)
<1> DEFINE u == <<k, n>>
           K == <<q, j>>
<1>1. u \in Seq(Nat) /\ K \in Seq(Nat) /\ Len(K) = Len(u)
  OBVIOUS
<1>2. Numel(u) = k * n /\ Flat(u, K) = q * n + j
  <2>1. Numel(<<k, n>>) = k * n
    BY NumelPair
  <2>2. Flat(<<k, n>>, <<q, j>>) = q * n + j
    BY FlatTwo
  <2> QED
    BY <2>1, <2>2
<1> HIDE DEF u, K
<1>3. Flat(t \o u, J \o K) = Flat(t, J) * Numel(u) + Flat(u, K)
  BY <1>1, FlatJoin
<1>4. Flat(t, J) \in Nat
  BY FlatBelow
<1>5. Flat(t, J) * (k * n) = Flat(t, J) * k * n
  BY <1>4
<1>6. Flat(t \o u, J \o K) = Flat(t, J) * k * n + (q * n + j)
  BY <1>2, <1>3, <1>5
<1> QED
  BY ONLY <1>6 DEF Matrices, u, K

(* The row of an index, and its last dimension.                            *)
LEMMA RowIndex ==
  ASSUME NEW s \in Seq(Nat), s # <<>>, NEW n \in Nat, NEW I, Within(WithLast(s, n), I)
  PROVE  LET R == Flat(Front1(s), Front1(I))
         IN  /\ I \in Seq(Nat) /\ Len(I) = Len(s) /\ I # <<>>
             /\ Within(Front1(s), Front1(I)) /\ R \in 0..(Numel(Front1(s)) - 1)
             /\ LastOf(I) \in 0..(n - 1)
             /\ Flat(WithLast(s, n), I) = R * n + LastOf(I)
             /\ \A q \in 0..(Size(s, 1) - 1) :
                  /\ Within(s, WithLast(I, q))
                  /\ Flat(s, WithLast(I, q)) = R * Size(s, 1) + q
<1> DEFINE t == Front1(s)
           J == Front1(I)
           j == LastOf(I)
           k == Size(s, 1)
<1>1. t \in Seq(Nat) /\ Len(t) = Len(s) - 1 /\ k \in Nat /\ s = Append(t, k) /\ Len(s) \in Nat \ {0}
  BY LastApart
<1>2. WithLast(s, n) = Append(t, n)
  BY DEF WithLast
<1>3. I \in Seq(Nat) /\ Len(I) = Len(s)
  <2>1. Len(Append(t, n)) = Len(t) + 1
    BY <1>1
  <2>2. I \in Seq(Nat) /\ Len(I) = Len(Append(t, n))
    BY <1>2 DEF Within
  <2>3. Len(t) + 1 = Len(s)
    BY <1>1
  <2> QED
    BY <2>1, <2>2, <2>3
<1>4. I # <<>>
  BY <1>1, <1>3
<1>5. J \in Seq(Nat) /\ Len(J) = Len(I) - 1 /\ j \in Nat /\ I = Append(J, j)
  BY <1>3, <1>4, LastApart DEF LastOf
<1>6. \A q : WithLast(I, q) = Append(J, q)
  BY DEF WithLast
<1> HIDE DEF t, J, j, k
<1>7. Len(J) = Len(t)
  BY <1>1, <1>3, <1>5
<1>8. Within(t, J) /\ j < n
  <2>1. Within(Append(t, n), Append(J, j))
    BY <1>2, <1>5
  <2> QED
    BY ONLY <1>1, <1>5, <1>7, <2>1, n \in Nat, WithinAppend
<1>9. Flat(t, J) \in 0..(Numel(t) - 1)
  BY <1>1, <1>5, <1>7, <1>8, FlatBelow
<1>10. Flat(WithLast(s, n), I) = Flat(t, J) * n + j
  BY <1>1, <1>2, <1>5, <1>7, FlatAppend
<1>11. ASSUME NEW q \in 0..(k - 1)
       PROVE  Within(s, WithLast(I, q)) /\ Flat(s, WithLast(I, q)) = Flat(t, J) * k + q
  <2>1. q \in Nat /\ q < k
    BY <1>1
  <2>2. Within(Append(t, k), Append(J, q))
    BY <1>1, <1>5, <1>7, <1>8, <2>1, WithinAppend
  <2>3. Flat(Append(t, k), Append(J, q)) = Flat(t, J) * k + q
    BY <1>1, <1>5, <1>7, <2>1, FlatAppend
  <2> QED
    BY <1>1, <1>6, <2>2, <2>3
<1>12. j \in 0..(n - 1)
  BY <1>5, <1>8
<1> QED
  BY <1>3, <1>4, <1>8, <1>9, <1>10, <1>11, <1>12 DEF t, J, j, k

(* Products of natural numbers.                                            *)
LEMMA ThreeFactors ==
  ASSUME NEW a \in Nat, NEW b \in Nat, NEW c \in Nat
  PROVE  a * b \in Nat /\ a * b * c \in Nat
<1>1. \A x, y \in Nat : x * y \in Nat
  OBVIOUS
<1> QED
  BY <1>1

(* An element of a product: the row, the column and the bias.              *)
DotFits(x, p, I, column, bias) ==
  /\ p.kernel \in {"gemm_bias_act", "bmm"}
  /\ p.batch \in Nat /\ p.m \in Nat /\ p.n \in Nat /\ p.k \in Nat
  /\ Size(x, 1) = p.k /\ Numel(Front1(x)) = p.batch * p.m
  /\ p.src[1] = Contiguous("x", x)
  /\ Within(WithLast(x, p.n), I)
  /\ LET b == Flat(Front1(x), Front1(I)) \div p.m
     IN  \A q \in 1..p.k :
           Fetch(p.src[2], b * p.k * p.n + Operand(p, LastOf(I), q - 1)) = column[q]
  /\ column = [q \in 1..p.k |-> column[q]]
  /\ BiasOf(p, LastOf(I)) = bias

DotIs(x, p, I, column, bias) ==
  LET f == Flat(WithLast(x, p.n), I)
  IN  ResultOf(p, <<"out", f>>) =
        Write("out", f,
          <<SumOver("x", x, p.k, [q \in 0..(p.k - 1) |-> WithLast(I, q)]), column, bias>>)

(* A kernel that multiplies writes the sum over a row of x and the column  *)
(* it was given.                                                           *)
LEMMA DotRight ==
  ASSUME NEW x \in Seq(Nat), x # <<>>, NEW p, NEW I, NEW column, NEW bias,
         DotFits(x, p, I, column, bias)
  PROVE  DotIs(x, p, I, column, bias)
<1> DEFINE A == p.batch
           B == p.m
           C == p.n
           K == p.k
           R == Flat(Front1(x), Front1(I))
           j == LastOf(I)
           f == Flat(WithLast(x, C), I)
           b == R \div B
           i == R % B
           row == SumOver("x", x, K, [q \in 0..(K - 1) |-> WithLast(I, q)])
<1>1. A \in Nat /\ B \in Nat /\ C \in Nat /\ K \in Nat
  BY DEF DotFits
<1>2. /\ R \in 0..(A * B - 1) /\ j \in 0..(C - 1) /\ f = R * C + j
      /\ \A q \in 0..(K - 1) : /\ Within(x, WithLast(I, q))
                               /\ Flat(x, WithLast(I, q)) = R * K + q
  <2>1. Within(WithLast(x, C), I) /\ Size(x, 1) = K /\ Numel(Front1(x)) = A * B
    BY DEF DotFits
  <2> HIDE DEF K, C, A, B
  <2> QED
    BY <1>1, <2>1, RowIndex
<1>3. row = [q \in 1..K |-> Element("x", x, WithLast(I, q - 1))]
  BY <1>1 DEF SumOver
<1>4. ResultOf(p, <<"out", f>>) = DotWrite(p, (f \div C) \div B, (f \div C) % B, f % C)
  <2>1. <<"out", f>>[2] = f
    OBVIOUS
  <2>2. p.kernel \notin Elementwise /\ p.kernel \in {"gemm_bias_act", "bmm"}
    BY DEF Elementwise, DotFits
  <2> HIDE DEF f
  <2> QED
    BY <2>1, <2>2 DEF ResultOf
<1>5. DotWrite(p, b, i, j) =
        Write("out", b * B * C + i * C + j,
              <<Line(p.src[1], b * B * K + i * K, 1, K),
                [q \in 1..K |-> Fetch(p.src[2], b * K * C + Operand(p, j, q - 1))],
                BiasOf(p, j)>>)
  BY DEF DotWrite
<1>6. [q \in 1..K |-> Fetch(p.src[2], b * K * C + Operand(p, j, q - 1))] = column
  BY DEF DotFits
<1>7. BiasOf(p, j) = bias /\ p.src[1] = Contiguous("x", x)
  BY DEF DotFits
<1> HIDE DEF A, B, C, K, R, j, f, row, b, i
<1>8. R \in Nat /\ B > 0 /\ C > 0 /\ j \in Nat
  <2>1. B # 0
    BY <1>1, <1>2
  <2> QED
    BY <1>1, <1>2, <2>1
<1>9. b \in Nat /\ i \in Nat /\ R = b * B + i
  BY <1>1, <1>8, RowAndColumn DEF b, i
<1>10. f \div C = R /\ f % C = j
  BY <1>1, <1>2, <1>8, PositionOf
<1>11. b * B * C + i * C + j = f
  <2>1. (b * B + i) * C + j = b * B * C + (i * C + j)
    BY <1>1, <1>8, <1>9, Spread
  <2>2. b * B * C \in Nat /\ i * C \in Nat
    BY <1>1, <1>9, ThreeFactors
  <2>3. b * B * C + (i * C + j) = b * B * C + i * C + j
    BY <1>8, <2>2
  <2> QED
    BY <1>2, <1>9, <2>1, <2>3
<1>12. Line(p.src[1], b * B * K + i * K, 1, K) = row
  <2>1. ASSUME NEW q \in 1..K
        PROVE  Fetch(p.src[1], b * B * K + i * K + (q - 1) * 1) = Element("x", x, WithLast(I, q - 1))
    <3>1. q - 1 \in 0..(K - 1) /\ (q - 1) * 1 = q - 1 /\ q - 1 \in Nat
      BY <1>1
    <3>2. (b * B + i) * K + (q - 1) = b * B * K + (i * K + (q - 1))
      BY <1>1, <1>9, <3>1, Spread
    <3>3. b * B * K \in Nat /\ i * K \in Nat
      BY <1>1, <1>9, ThreeFactors
    <3>4. b * B * K + i * K + (q - 1) * 1 = R * K + (q - 1)
      BY <1>9, <3>1, <3>2, <3>3
    <3>5. /\ Within(x, WithLast(I, q - 1))
          /\ Flat(x, WithLast(I, q - 1)) = R * K + (q - 1)
      BY <1>2, <3>1
    <3>6. Fetch(Contiguous("x", x), Flat(x, WithLast(I, q - 1))) = Element("x", x, WithLast(I, q - 1))
      BY <3>5, FetchFlat
    <3> QED
      BY <1>7, <3>4, <3>5, <3>6
  <2> QED
    BY <1>3, <2>1 DEF Line
<1> QED
  BY <1>4, <1>5, <1>6, <1>7, <1>10, <1>11, <1>12 DEF DotIs, b, i, f, row, A, B, C, K

(* The elements of a matrix.                                               *)
Pair(a, b) == <<a, b>>

(* Contiguous holds element (a, b) of a matrix at a times its row length   *)
(* plus b.                                                                 *)
LEMMA FetchMatrix ==
  ASSUME NEW y \in Seq(Nat), Len(y) = 2, NEW a \in 0..(y[1] - 1), NEW b \in 0..(y[2] - 1), NEW name,
         NEW f, f = a * y[2] + b
  PROVE  Fetch(Contiguous(name, y), f) = Element(name, y, Pair(a, b))
<1> DEFINE I == Pair(a, b)
<1>1. y[1] \in Nat /\ y[2] \in Nat /\ y = <<y[1], y[2]>>
  <2>1. y[1] \in Nat /\ y[2] \in Nat
    BY MatrixShape
  <2> QED
    BY <2>1
<1>2. a \in Nat /\ b \in Nat /\ a < y[1] /\ b < y[2]
  BY <1>1
<1>3. Flat(<<y[1], y[2]>>, <<a, b>>) = a * y[2] + b
  BY <1>1, <1>2, FlatTwo
<1>4. Flat(y, I) = a * y[2] + b
  BY ONLY <1>1, <1>3 DEF I, Pair
<1>5. Within(y, I)
  <2>1. I \in Seq(Nat) /\ Len(I) = 2 /\ I[1] = a /\ I[2] = b
    BY <1>2 DEF Pair
  <2> HIDE DEF I
  <2>2. \A d \in 1..2 : d = 1 \/ d = 2
    OBVIOUS
  <2>3. \A d \in 1..2 : I[d] < y[d]
    BY <1>2, <2>1, <2>2
  <2> QED
    BY <2>1, <2>3 DEF Within
<1>6. Fetch(Contiguous(name, y), Flat(y, I)) = Element(name, y, I)
  BY <1>5, FetchFlat
<1> QED
  BY <1>4, <1>5, <1>6

(* Products with one matrix.                                               *)
DotOf(x, y, z, transB, I) ==
  LET Steps == 0..(Size(x, 1) - 1)
  IN  <<SumOver("x", x, Size(x, 1), [q \in Steps |-> WithLast(I, q)]),
        SumOver("y", y, Size(x, 1),
          [q \in Steps |-> IF transB THEN <<LastOf(I), q>> ELSE <<q, LastOf(I)>>]),
        IF z = Absent THEN <<>> ELSE <<<<"z", LastOf(I)>>>>>>

GemmFits(x, y, z, transB, n, xs, shape, I) ==
  /\ x \in Seq(Nat) /\ x # <<>> /\ y \in Seq(Nat) /\ Len(y) = 2 /\ transB \in BOOLEAN
  /\ n = (IF transB THEN y[1] ELSE y[2]) /\ z \in {Absent, <<n>>}
  /\ xs[1] = Numel(Front1(x)) /\ xs[2] = Size(x, 1) /\ Numel(xs) = Numel(x)
  /\ GemmBiasAct(xs, y, z, transB, shape).stage = "ready"
  /\ Within(WithLast(x, n), I)

GemmIs(x, y, z, transB, n, xs, shape, I) ==
  ResultOf(GemmBiasAct(xs, y, z, transB, shape).params, <<"out", Flat(WithLast(x, n), I)>>) =
    Write("out", Flat(WithLast(x, n), I), DotOf(x, y, z, transB, I))

(* gemm_bias_act writes rows of x times columns of y, plus the bias.       *)
LEMMA GemmRight ==
  ASSUME NEW x, NEW y, NEW z, NEW transB, NEW n, NEW xs, NEW shape, NEW I,
         GemmFits(x, y, z, transB, n, xs, shape, I)
  PROVE  GemmIs(x, y, z, transB, n, xs, shape, I)
<1>. x \in Seq(Nat) /\ x # <<>> /\ y \in Seq(Nat) /\ Len(y) = 2 /\ transB \in BOOLEAN
     /\ n = (IF transB THEN y[1] ELSE y[2]) /\ z \in {Absent, <<n>>}
     /\ xs[1] = Numel(Front1(x)) /\ xs[2] = Size(x, 1) /\ Numel(xs) = Numel(x)
     /\ GemmBiasAct(xs, y, z, transB, shape).stage = "ready"
     /\ Within(WithLast(x, n), I)
  BY DEF GemmFits
<1> DEFINE p == GemmBiasAct(xs, y, z, transB, shape).params
           K == Size(x, 1)
           j == LastOf(I)
           R == Flat(Front1(x), Front1(I))
           m == Numel(Front1(x))
           At == [q \in 0..(K - 1) |-> IF transB THEN <<j, q>> ELSE <<q, j>>]
           column == SumOver("y", y, K, At)
           bias == IF z = Absent THEN <<>> ELSE <<<<"z", j>>>>
<1>0. y[1] \in Nat /\ y[2] \in Nat /\ n \in Nat
  BY MatrixShape
<1>1. Front1(x) \in Seq(Nat) /\ K \in Nat /\ m \in Nat
  BY LastApart, NumelNat
<1>2. /\ R \in 0..(m - 1) /\ j \in 0..(n - 1)
  BY <1>0, RowIndex
<1>3. Refused.stage # "ready" /\ Empty.stage # "ready"
  BY DEF Refused, Empty, Ends
<1>4. /\ (IF transB THEN y[2] ELSE y[1]) = K
      /\ p = [NoParams EXCEPT
             !.kernel = "gemm_bias_act", !.transB = transB, !.shape = shape,
             !.src = <<Contiguous("x", xs), Contiguous("y", y), Optional("z", z)>>,
             !.numel = xs[1] * n, !.m = xs[1], !.n = n, !.k = xs[2]]
  BY <1>3 DEF GemmBiasAct, Ready
<1>5. /\ p.kernel = "gemm_bias_act" /\ p.batch = 1 /\ p.m = m /\ p.n = n /\ p.k = K
      /\ p.transB = transB
      /\ p.src = <<Contiguous("x", xs), Contiguous("y", y), Optional("z", z)>>
  BY <1>4 DEF NoParams
<1>6. Contiguous("x", xs) = Contiguous("x", x)
  BY DEF Contiguous
<1>7. BiasOf(p, j) = bias
  <2>1. CASE z = Absent
    BY <1>5, <2>1 DEF BiasOf, Optional
  <2>2. CASE z # Absent
    <3>1. Numel(z) = n
      BY <1>0, <2>2, NumelOne
    <3>2. p.src[3] = [i \in 0..(n - 1) |-> <<"z", i>>]
      BY <1>5, <2>2, <3>1 DEF Optional, Contiguous
    <3>3. p.src[3] # <<>> /\ Fetch(p.src[3], j) = <<"z", j>>
      BY <1>2, <3>2 DEF Fetch
    <3> QED
      BY <2>2, <3>3 DEF BiasOf
  <2> QED
    BY <2>1, <2>2
<1>8. R \div m = 0
  <2>1. 0 * m + R = R /\ 0 \in Nat
    BY <1>1, <1>2
  <2> HIDE DEF R, m
  <2>2. (0 * m + R) \div m = 0
    BY ONLY <1>1, <1>2, <2>1, PositionOf
  <2> QED
    BY ONLY <2>1, <2>2
<1> HIDE DEF p, K, j, R, m, bias
<1>9. column = [q \in 1..K |-> Element("y", y, At[q - 1])]
  BY DEF SumOver
<1>10. ASSUME NEW q \in 1..K
       PROVE  Fetch(p.src[2], (R \div m) * K * n + Operand(p, j, q - 1)) = column[q]
  <2>1. q - 1 \in 0..(K - 1) /\ q - 1 \in Nat
    BY <1>1
  <2>2. (R \div m) * K * n = 0
    <3>1. 0 * K = 0 /\ 0 * n = 0
      BY <1>0, <1>1
    <3> QED
      BY <1>8, <3>1
  <2>3. column[q] = Element("y", y, IF transB THEN <<j, q - 1>> ELSE <<q - 1, j>>)
    BY <1>9, <2>1
  <2>4. p.src[2] = Contiguous("y", y)
    BY <1>5
  <2>5. CASE transB
    <3>1. Operand(p, j, q - 1) = j * K + (q - 1)
      BY <1>5, <2>5 DEF Operand
    <3>2. y[1] = n /\ y[2] = K
      BY <1>4, <2>5
    <3> DEFINE f == j * K + (q - 1)
    <3>3. f \in Nat
      <4>1. j \in Nat
        BY <1>0, <1>2
      <4> QED
        BY <1>1, <2>1, <4>1, RowPosition
    <3>4. Fetch(Contiguous("y", y), f) = Element("y", y, <<j, q - 1>>)
      <4> DEFINE r == q - 1
      <4>1. /\ f = j * y[2] + r
            /\ j \in 0..(y[1] - 1) /\ r \in 0..(y[2] - 1)
            /\ y \in Seq(Nat) /\ Len(y) = 2
        BY <1>2, <2>1, <3>2
      <4> HIDE DEF f, r
      <4>2. Fetch(Contiguous("y", y), f) = Element("y", y, Pair(j, r))
        BY ONLY <4>1, FetchMatrix
      <4> QED
        BY ONLY <4>2 DEF Pair, r
    <3>5. (R \div m) * K * n + Operand(p, j, q - 1) = f
      BY <2>2, <3>1, <3>3
    <3> HIDE DEF f
    <3> HIDE DEF column
    <3> QED
      BY <2>3, <2>4, <2>5, <3>4, <3>5
  <2>6. CASE ~transB
    <3>1. Operand(p, j, q - 1) = (q - 1) * n + j
      BY <1>5, <2>6 DEF Operand
    <3>2. y[1] = K /\ y[2] = n
      BY <1>4, <2>6
    <3> DEFINE f == (q - 1) * n + j
    <3>3. f \in Nat
      <4>1. j \in Nat
        BY <1>0, <1>2
      <4> QED
        BY <1>0, <2>1, <4>1, RowPosition
    <3>4. Fetch(Contiguous("y", y), f) = Element("y", y, <<q - 1, j>>)
      <4> DEFINE r == q - 1
      <4>1. /\ f = r * y[2] + j
            /\ r \in 0..(y[1] - 1) /\ j \in 0..(y[2] - 1)
            /\ y \in Seq(Nat) /\ Len(y) = 2
        BY <1>2, <2>1, <3>2
      <4> HIDE DEF f, r
      <4>2. Fetch(Contiguous("y", y), f) = Element("y", y, Pair(r, j))
        BY ONLY <4>1, FetchMatrix
      <4> QED
        BY ONLY <4>2 DEF Pair, r
    <3>5. (R \div m) * K * n + Operand(p, j, q - 1) = f
      BY <2>2, <3>1, <3>3
    <3> HIDE DEF f
    <3> HIDE DEF column
    <3> QED
      BY <2>3, <2>4, <2>6, <3>4, <3>5
  <2> QED
    BY <2>5, <2>6
<1>11. column = [q \in 1..K |-> column[q]]
  BY <1>9
<1> HIDE DEF column
<1>12. DotFits(x, p, I, column, bias)
  <2>1. /\ p.kernel \in {"gemm_bias_act", "bmm"} /\ p.batch \in Nat
        /\ p.m \in Nat /\ p.n \in Nat /\ p.k \in Nat
    BY <1>0, <1>1, <1>5
  <2>2. Size(x, 1) = p.k /\ Numel(Front1(x)) = p.batch * p.m
    <3>1. 1 * m = m
      BY <1>1
    <3> QED
      BY <1>5, <3>1 DEF K, m
  <2>3. p.src[1] = Contiguous("x", x)
    BY <1>5, <1>6
  <2>4. Within(WithLast(x, p.n), I)
    BY <1>5
  <2>5. \A q \in 1..p.k :
          Fetch(p.src[2], (Flat(Front1(x), Front1(I)) \div p.m) * p.k * p.n
                            + Operand(p, LastOf(I), q - 1)) = column[q]
    BY <1>5, <1>10 DEF R, j
  <2>6. column = [q \in 1..p.k |-> column[q]]
    BY <1>5, <1>11
  <2>7. BiasOf(p, LastOf(I)) = bias
    BY <1>7 DEF j
  <2> QED
    BY <2>1, <2>2, <2>3, <2>4, <2>5, <2>6, <2>7 DEF DotFits
<1>13. DotIs(x, p, I, column, bias)
  BY <1>12, DotRight
<1> QED
  BY <1>5, <1>13 DEF DotIs, DotOf, GemmIs, p, K, column, At, bias, j

(* Products with a batch of matrices: the element of the second operand in *)
(* step q, for the matrix at position B of its batch.                      *)
LEMMA FetchBatch ==
  ASSUME NEW y \in Seq(Nat), Len(y) >= 2, NEW J \in Seq(Nat), Len(J) = Len(BatchOf(y)),
         NEW B, B = Flat(BatchOf(y), J), B \in 0..(Numel(BatchOf(y)) - 1),
         NEW q \in 0..(Size(y, 2) - 1), NEW j \in 0..(Size(y, 1) - 1),
         NEW f, f = B * Size(y, 2) * Size(y, 1) + (q * Size(y, 1) + j)
  PROVE  Fetch(Contiguous("y", y), f) = Element("y", y, J \o <<q, j>>)
<1> DEFINE t == BatchOf(y)
           A == Numel(t)
           k == Size(y, 2)
           n == Size(y, 1)
<1>1. /\ t \in Seq(Nat) /\ k \in Nat /\ n \in Nat /\ y = t \o <<k, n>> /\ A \in Nat
      /\ Numel(y) = A * k * n
  BY MatrixOf, BatchShape
<1>2. Len(J) = Len(t) /\ B = Flat(t, J) /\ B \in 0..(A - 1) /\ q \in 0..(k - 1) /\ j \in 0..(n - 1)
      /\ f = B * k * n + (q * n + j)
  OBVIOUS
<1> HIDE DEF t, A, k, n
<1>3. q \in Nat /\ j \in Nat /\ B \in Nat
  BY <1>1, <1>2
<1>4. Flat(t \o <<k, n>>, J \o <<q, j>>) = Flat(t, J) * k * n + (q * n + j)
  <2>1. t \in Seq(Nat) /\ J \in Seq(Nat) /\ Len(J) = Len(t) /\ k \in Nat /\ n \in Nat
    BY <1>1, <1>2
  <2>2. Flat(Matrices(t, k, n), Matrices(J, q, j)) = Flat(t, J) * k * n + (q * n + j)
    BY ONLY <1>3, <2>1, FlatBatch
  <2> QED
    BY ONLY <2>2 DEF Matrices
<1>5. Flat(y, J \o <<q, j>>) = f
  BY ONLY <1>1, <1>2, <1>4
<1>6. f \in 0..(Numel(y) - 1)
  <2>1. Coordinates(A, k, n, B, q, j)
    BY <1>1, <1>2 DEF Coordinates
  <2>2. (B * k + q) * n + j \in 0..(A * k * n - 1)
    BY ONLY <2>1, CubePosition
  <2>3. (B * k + q) * n + j = B * k * n + (q * n + j)
    BY ONLY <1>1, <1>3, Spread
  <2> QED
    BY ONLY <1>1, <1>2, <2>2, <2>3
<1> QED
  BY <1>5, <1>6 DEF Fetch, Contiguous, Element

(* Of one matrix that was expanded, it is the same for all.                *)
OneForAll(y, k, n, a, B, q, j) ==
  Fetch(Expanded("y", y, <<a>> \o y), B * k * n + (q * n + j)) = Element("y", y, <<q, j>>)

(* What expand().contiguous() holds of one matrix, for each of a products. *)
LEMMA FetchOneForAll ==
  ASSUME NEW y \in Seq(Nat), NEW k \in Nat, NEW n \in Nat, Len(y) = 2, y[1] = k, y[2] = n,
         NEW a \in Nat, NEW B \in 0..(a - 1), NEW q \in 0..(k - 1), NEW j \in 0..(n - 1)
  PROVE  OneForAll(y, k, n, a, B, q, j)
<1> DEFINE T == <<a>> \o y
           L == <<B>> \o <<q, j>>
           f == B * k * n + (q * n + j)
<1>1. DOMAIN y = 1..2 /\ Len(y) = 2 /\ y[1] = k /\ y[2] = n /\ y = <<k, n>>
  OBVIOUS
<1>2. B \in Nat /\ q \in Nat /\ j \in Nat /\ B < a /\ q < k /\ j < n
  BY <1>1
<1>3. T \in Seq(Nat) /\ Len(T) = 3 /\ T[1] = a /\ T[2] = k /\ T[3] = n
  <2>1. T = <<a, k, n>>
    BY <1>1, OneMore
  <2>2. /\ <<a, k, n>> \in Seq(Nat) /\ Len(<<a, k, n>>) = 3
        /\ <<a, k, n>>[1] = a /\ <<a, k, n>>[2] = k /\ <<a, k, n>>[3] = n
    OBVIOUS
  <2> HIDE DEF T
  <2> QED
    BY ONLY <2>1, <2>2
<1>4. L \in Seq(Nat) /\ Len(L) = 3 /\ L[1] = B /\ L[2] = q /\ L[3] = j
  BY <1>2
<1>5. f = B * k * n + (q * n + j)
  OBVIOUS
<1>6. Flat(T, L) = f
  <2> DEFINE t == <<a>>
             J == <<B>>
  <2>1. t \in Seq(Nat) /\ J \in Seq(Nat) /\ Len(J) = Len(t)
    BY <1>2
  <2>2. Flat(t, J) = B
    BY <1>2, FlatOne
  <2>3. T = t \o <<k, n>> /\ L = J \o <<q, j>>
    BY <1>1
  <2> HIDE DEF t, J, T, L
  <2>4. T = Matrices(t, k, n) /\ L = Matrices(J, q, j)
    BY <2>3 DEF Matrices
  <2>5. Flat(Matrices(t, k, n), Matrices(J, q, j)) = Flat(t, J) * k * n + (q * n + j)
    BY ONLY <1>2, <2>1, FlatBatch
  <2>6. Flat(T, L) = Flat(t, J) * k * n + (q * n + j)
    BY ONLY <2>4, <2>5
  <2> QED
    BY <1>5, <2>2, <2>6
<1> HIDE DEF T, L
<1>7. Within(T, L)
  <2>1. \A d \in 1..3 : d = 1 \/ d = 2 \/ d = 3
    OBVIOUS
  <2>2. \A d \in 1..3 : L[d] < T[d]
    BY <1>2, <1>3, <1>4, <2>1
  <2> QED
    BY <1>3, <1>4, <2>2 DEF Within
<1>8. Clip(y, L) = <<q, j>>
  <2>1. Clip(y, L) = [d \in 1..2 |-> IF y[d] = 1 THEN 0 ELSE L[d + Len(L) - Len(y)]]
    BY <1>1 DEF Clip
  <2>2. 1 + 3 - 2 = 2 /\ 2 + 3 - 2 = 3
    OBVIOUS
  <2>3. /\ (IF y[1] = 1 THEN 0 ELSE L[1 + Len(L) - Len(y)]) = q
        /\ (IF y[2] = 1 THEN 0 ELSE L[2 + Len(L) - Len(y)]) = j
    BY <1>1, <1>2, <1>4, <2>2
  <2>4. \A d \in 1..2 : d = 1 \/ d = 2
    OBVIOUS
  <2>5. Clip(y, L) = [d \in 1..2 |-> <<q, j>>[d]]
    BY <2>1, <2>3, <2>4
  <2> QED
    BY <2>5
<1>9. Fetch(Expanded("y", y, T), Flat(T, L)) = Element("y", y, Clip(y, L))
  BY <1>3, <1>7, FetchExpanded
<1> QED
  BY <1>6, <1>8, <1>9 DEF T, OneForAll

BatchedOf(x, y, I) ==
  LET Steps == 0..(Size(x, 1) - 1)
  IN  <<SumOver("x", x, Size(x, 1), [q \in Steps |-> WithLast(I, q)]),
        SumOver("y", y, Size(x, 1),
          [q \in Steps |-> (IF Len(y) = 2 THEN <<>> ELSE BatchOf(I)) \o <<q, LastOf(I)>>]),
        <<>>>>

BatchedIs(x, y, I) ==
  LET f == Flat(WithLast(x, Size(y, 1)), I)
  IN  /\ ResultOf(Matmul(x, y).params, <<"out", f>>) = Write("out", f, BatchedOf(x, y, I))
      /\ Matmul(x, y).params.shape = WithLast(x, Size(y, 1))

(* Matmul of a batch writes, for each of its matrices, rows times columns. *)
LEMMA BatchedRight ==
  ASSUME NEW x \in Seq(Nat), NEW y \in Seq(Nat), Len(x) >= 2, Len(y) >= 2,
         ~(Len(x) = 2 /\ Len(y) = 2), Size(x, 1) = Size(y, 2),
         0 \notin {Size(x, 1), Size(x, 2), Size(y, 1)},
         Len(y) = 2 \/ BatchOf(x) = BatchOf(y),
         Matmul(x, y).stage = "ready",
         NEW I, Within(WithLast(x, Size(y, 1)), I)
  PROVE  BatchedIs(x, y, I)
<1> DEFINE p == Matmul(x, y).params
           m == Size(x, 2)
           k == Size(x, 1)
           n == Size(y, 1)
           a == Numel(x) \div (m * k)
           expands == Len(y) = 2 /\ a > 1
           j == LastOf(I)
           A == Numel(BatchOf(x))
           R == Flat(Front1(x), Front1(I))
           B == Flat(BatchOf(x), BatchOf(I))
           At == [q \in 0..(k - 1) |-> (IF Len(y) = 2 THEN <<>> ELSE BatchOf(I)) \o <<q, j>>]
           column == SumOver("y", y, k, At)
           Y == IF expands THEN Expanded("y", y, <<a>> \o y) ELSE Contiguous("y", y)
<1>1. /\ p.kernel = "bmm" /\ p.batch = a /\ p.m = m /\ p.n = n /\ p.k = k /\ ~p.transB
      /\ p.src = <<Contiguous("x", x), Y, <<>>>> /\ p.shape = WithLast(x, n)
  <2>1. Refused.stage # "ready"
    BY DEF Refused, Ends
  <2>2. p = Batched(x, y, a, expands).params
    BY <2>1 DEF Matmul
  <2>3. BatchParams(Batched(x, y, a, expands).params, x, y, a, Y)
    BY BatchedParams
  <2> HIDE DEF p, a, expands, Y
  <2>4. BatchParams(p, x, y, a, Y)
    BY <2>2, <2>3
  <2> QED
    BY <2>4 DEF BatchParams
<1>2. /\ BatchOf(x) \in Seq(Nat) /\ Front1(x) = Append(BatchOf(x), m) /\ A \in Nat
      /\ m \in Nat /\ k \in Nat /\ n \in Nat /\ m > 0 /\ k > 0 /\ n > 0
      /\ Numel(x) = A * m * k /\ x # <<>>
  <2>1. /\ BatchOf(x) \in Seq(Nat) /\ A \in Nat /\ m \in Nat /\ k \in Nat /\ n \in Nat
        /\ Numel(x) = A * m * k
    BY BatchShape
  <2>2. Front1(x) = Append(BatchOf(x), m)
    BY MatrixOf
  <2>3. m # 0 /\ k # 0 /\ n # 0 /\ x # <<>>
    OBVIOUS
  <2> HIDE DEF m, k, n, A
  <2> QED
    BY <2>1, <2>2, <2>3
<1>3. a = A
  <2> HIDE DEF A, m, k, n
  <2>0. m \in Nat /\ k \in Nat /\ m > 0 /\ k > 0
    BY <1>2
  <2>1. m * k > 0 /\ m * k \in Nat
    BY <2>0, FactorsBelow
  <2>2. A * m * k = A * (m * k)
    BY <1>2
  <2> QED
    BY <1>2, <2>1, <2>2, Quotient
<1>4. Numel(Front1(x)) = A * m
  <2> HIDE DEF m
  <2> QED
    BY <1>2, NumelAppend
<1>5. /\ I \in Seq(Nat) /\ Len(I) = Len(x) /\ Within(Front1(x), Front1(I)) /\ j \in 0..(n - 1)
  <2>1. Within(WithLast(x, n), I)
    OBVIOUS
  <2> HIDE DEF n
  <2> QED
    BY <1>2, <2>1, RowIndex
<1>6. BatchOf(I) \in Seq(Nat) /\ Len(BatchOf(I)) = Len(I) - 2 /\ Size(I, 2) \in Nat
      /\ Front1(I) = Append(BatchOf(I), Size(I, 2))
  BY <1>5, MatrixOf
<1>7. Len(BatchOf(x)) = Len(x) - 2 /\ Len(BatchOf(y)) = Len(y) - 2
  BY MatrixOf
<1>8. R = B * m + Size(I, 2) /\ Within(BatchOf(x), BatchOf(I)) /\ Size(I, 2) < m
  <2>1. Len(BatchOf(I)) = Len(BatchOf(x))
    BY <1>5, <1>6, <1>7
  <2> DEFINE t == BatchOf(x)
             J == BatchOf(I)
             i == Size(I, 2)
  <2>2. /\ t \in Seq(Nat) /\ J \in Seq(Nat) /\ Len(J) = Len(t) /\ m \in Nat /\ i \in Nat
        /\ Front1(x) = Append(t, m) /\ Front1(I) = Append(J, i)
    BY <1>2, <1>6, <2>1
  <2> HIDE DEF m, t, J, i
  <2>3. Within(Append(t, m), Append(J, i)) <=> Within(t, J) /\ i < m
    BY <2>2, WithinAppend
  <2>4. Flat(Append(t, m), Append(J, i)) = Flat(t, J) * m + i
    BY <2>2, FlatAppend
  <2> QED
    BY <1>5, <2>2, <2>3, <2>4 DEF t, J, i
<1>9. B \in 0..(A - 1) /\ Len(BatchOf(I)) = Len(BatchOf(x))
  <2>1. Len(BatchOf(I)) = Len(BatchOf(x))
    BY <1>5, <1>6, <1>7
  <2> QED
    BY <1>2, <1>6, <1>8, <2>1, FlatBelow
<1> HIDE DEF p, m, k, n, a, j, A, R, B
<1>10. R \div m = B
  <2> DEFINE i == Size(I, 2)
  <2>1. B \in Nat
    BY <1>2, <1>9
  <2>2. m \in Nat /\ i \in Nat /\ i < m
    BY <1>2, <1>6, <1>8
  <2>3. R = B * m + i
    BY <1>8
  <2> HIDE DEF i
  <2>4. i \in 0..(m - 1) /\ m > 0
    BY ONLY <2>2
  <2> QED
    BY <2>1, <2>2, <2>3, <2>4, PositionOf
<1>11. column = [q \in 1..k |-> Element("y", y, At[q - 1])]
  BY DEF SumOver
<1>12. ASSUME NEW q \in 1..k
       PROVE  Fetch(Y, B * k * n + ((q - 1) * n + j)) =
                Element("y", y, (IF Len(y) = 2 THEN <<>> ELSE BatchOf(I)) \o <<q - 1, j>>)
  <2> DEFINE f == B * k * n + ((q - 1) * n + j)
  <2>1. q - 1 \in 0..(k - 1) /\ q - 1 \in Nat /\ j \in Nat /\ B \in Nat
    BY <1>2, <1>5, <1>9
  <2>2. <<>> \o <<q - 1, j>> = <<q - 1, j>>
    OBVIOUS
  <2>3. Len(y) = 2 => y[1] = k /\ y[2] = n
    BY DEF k, n, Size
  <2>4. CASE Len(y) # 2
    <3>1. BatchOf(y) = BatchOf(x) /\ Y = Contiguous("y", y)
      BY <2>4
    <3>2. /\ BatchOf(I) \in Seq(Nat) /\ Len(BatchOf(I)) = Len(BatchOf(y))
          /\ B = Flat(BatchOf(y), BatchOf(I)) /\ B \in 0..(Numel(BatchOf(y)) - 1)
          /\ Size(y, 2) = k /\ Size(y, 1) = n
      BY <1>6, <1>9, <3>1 DEF B, A, k, n
    <3>3. f = B * Size(y, 2) * Size(y, 1) + ((q - 1) * Size(y, 1) + j)
      BY <3>2
    <3> DEFINE r == q - 1
    <3>4. /\ r \in 0..(Size(y, 2) - 1) /\ j \in 0..(Size(y, 1) - 1) /\ y \in Seq(Nat)
          /\ Len(y) >= 2 /\ f = B * Size(y, 2) * Size(y, 1) + (r * Size(y, 1) + j)
      BY <1>5, <2>1, <3>2, <3>3
    <3> HIDE DEF f, Y, r
    <3>5. Fetch(Contiguous("y", y), f) = Element("y", y, BatchOf(I) \o <<r, j>>)
      BY ONLY <3>2, <3>4, FetchBatch
    <3> QED
      BY <2>4, <3>1, <3>5 DEF f, r
  <2>5. CASE Len(y) = 2 /\ a > 1
    <3>1. Y = Expanded("y", y, <<a>> \o y)
      BY <2>5
    <3>2. Len(y) = 2 /\ y[1] = k /\ y[2] = n
      BY <2>3, <2>5
    <3>3. /\ a \in Nat /\ B \in 0..(a - 1) /\ q - 1 \in 0..(k - 1) /\ j \in 0..(n - 1)
          /\ k \in Nat /\ n \in Nat /\ f = B * k * n + ((q - 1) * n + j)
      BY <1>2, <1>3, <1>5, <1>9, <2>1
    <3> HIDE DEF f, Y
    <3> DEFINE r == q - 1
    <3>4. r \in 0..(k - 1)
      BY <3>3
    <3> HIDE DEF r
    <3>5. OneForAll(y, k, n, a, B, r, j)
      BY <3>2, <3>3, <3>4, FetchOneForAll
    <3>6. Fetch(Expanded("y", y, <<a>> \o y), f) = Element("y", y, <<q - 1, j>>)
      BY <3>5 DEF OneForAll, f, r
    <3> QED
      BY <2>2, <2>5, <3>1, <3>6 DEF f
  <2>6. CASE Len(y) = 2 /\ ~(a > 1)
    <3>1. Y = Contiguous("y", y) /\ B = 0
      BY <1>2, <1>3, <1>9, <2>6
    <3>2. f = (q - 1) * y[2] + j
      <4>1. 0 * k * n = 0
        BY <1>2
      <4>2. (q - 1) * n + j \in Nat
        BY <1>2, <2>1, RowPosition
      <4> QED
        BY <2>3, <2>6, <3>1, <4>1, <4>2
    <3>3. q - 1 \in 0..(y[1] - 1) /\ j \in 0..(y[2] - 1)
      BY <1>5, <2>1, <2>3, <2>6
    <3> DEFINE r == q - 1
    <3>4. /\ y \in Seq(Nat) /\ Len(y) = 2 /\ f = r * y[2] + j
          /\ r \in 0..(y[1] - 1) /\ j \in 0..(y[2] - 1)
      BY <2>6, <3>2, <3>3
    <3> HIDE DEF f, Y, r
    <3>5. Fetch(Contiguous("y", y), f) = Element("y", y, Pair(r, j))
      BY ONLY <3>4, FetchMatrix, ZenonT(30)
    <3> QED
      BY <2>2, <2>6, <3>1, <3>5 DEF Pair, f, r
  <2> QED
    BY <2>4, <2>5, <2>6
<1>13. DotFits(x, p, I, column, <<>>)
  <2>1. \A q \in 1..k :
          Fetch(p.src[2], (R \div m) * k * n + Operand(p, j, q - 1)) = column[q]
    <3> SUFFICES ASSUME NEW q \in 1..k
                 PROVE  Fetch(p.src[2], (R \div m) * k * n + Operand(p, j, q - 1)) = column[q]
      OBVIOUS
    <3>1. Operand(p, j, q - 1) = (q - 1) * n + j
      BY <1>1 DEF Operand
    <3>2. p.src[2] = Y
      BY <1>1
    <3>3. q - 1 \in 0..(k - 1)
      BY <1>2
    <3>4. column[q] = Element("y", y, (IF Len(y) = 2 THEN <<>> ELSE BatchOf(I)) \o <<q - 1, j>>)
      BY <1>11, <3>3
    <3> HIDE DEF column, Y
    <3> QED
      BY <1>10, <1>12, <3>1, <3>2, <3>4
  <2>2. column = [q \in 1..k |-> column[q]]
    BY <1>11
  <2>3. BiasOf(p, j) = <<>> /\ p.src[1] = Contiguous("x", x)
    BY <1>1 DEF BiasOf
  <2>4. Within(WithLast(x, n), I)
    BY DEF n
  <2>5. Size(x, 1) = k
    BY DEF k
  <2> HIDE DEF column, Y
  <2> QED
    BY <1>1, <1>2, <1>3, <1>4, <2>1, <2>2, <2>3, <2>4, <2>5 DEF DotFits, R, j
<1>14. DotIs(x, p, I, column, <<>>)
  <2> HIDE DEF column
  <2> QED
    BY <1>2, <1>13, DotRight
<1> QED
  BY <1>1, <1>14 DEF DotIs, BatchedIs, BatchedOf, p, k, n, column, At, j

(* One product: c multiplies with one matrix, row by row.                  *)
DotForm(c, z, transB, I) == From(c, I) = DotOf(c.x, c.y, z, transB, I)

(* A call that is one product of rows of x with a matrix is right.         *)
LEMMA LayerRight ==
  ASSUME NEW c, c.x \in Seq(Nat), c.x # <<>>, c.y \in Seq(Nat), Len(c.y) = 2,
         NEW transB \in BOOLEAN, NEW n, n = (IF transB THEN c.y[1] ELSE c.y[2]),
         NEW z, z \in {Absent, <<n>>},
         NEW xs, xs[1] = Numel(Front1(c.x)), xs[2] = Size(c.x, 1), Numel(xs) = Numel(c.x),
         NEW shape, shape = Shape(c), Shape(c) = WithLast(c.x, n),
         GemmBiasAct(xs, c.y, z, transB, shape).stage = "ready",
         \A I : DotForm(c, z, transB, I)
  PROVE  Right(c, GemmBiasAct(xs, c.y, z, transB, shape).params)
<1> DEFINE p == GemmBiasAct(xs, c.y, z, transB, shape).params
           x == c.x
           y == c.y
           s == Shape(c)
<1>1. p.shape = s
  <2>1. Refused.stage # "ready" /\ Empty.stage # "ready"
    BY DEF Refused, Empty, Ends
  <2> HIDE DEF s
  <2> QED
    BY <2>1 DEF GemmBiasAct, Ready, NoParams, s
<1>2. s \in Seq(Nat) /\ s = WithLast(x, n)
  <2>1. Front1(x) \in Seq(Nat)
    BY LastApart
  <2>2. n \in Nat
    BY MatrixShape
  <2>3. Append(Front1(x), n) \in Seq(Nat)
    BY <2>1, <2>2
  <2> QED
    BY <2>3 DEF WithLast
<1>3. ASSUME NEW I, Within(s, I)
      PROVE  ResultOf(p, <<"out", Flat(s, I)>>) = Write("out", Flat(s, I), From(c, I))
  <2>1. Within(WithLast(x, n), I)
    BY <1>2, <1>3
  <2>2. GemmFits(x, y, z, transB, n, xs, shape, I)
    BY <2>1 DEF GemmFits
  <2> HIDE DEF x, y
  <2>3. GemmIs(x, y, z, transB, n, xs, shape, I)
    BY <2>2, GemmRight
  <2>4. From(c, I) = DotOf(x, y, z, transB, I)
    BY DEF DotForm, x, y
  <2>5. s = WithLast(x, n) /\ p = GemmBiasAct(xs, y, z, transB, shape).params
    BY <1>2 DEF y
  <2> HIDE DEF p
  <2> QED
    BY <2>3, <2>4, <2>5 DEF GemmIs
<1> HIDE DEF p
<1> QED
  BY <1>1, <1>2, <1>3 DEF Right, s, p

(* The rows of x make a matrix.                                            *)
LEMMA RowsOf ==
  ASSUME NEW x \in Seq(Nat), x # <<>>, Size(x, 1) # 0,
         NEW xs, xs = <<Numel(x) \div Size(x, 1), Size(x, 1)>>
  PROVE  xs[1] = Numel(Front1(x)) /\ xs[2] = Size(x, 1) /\ Numel(xs) = Numel(x)
<1> DEFINE a == Numel(Front1(x))
           b == Size(x, 1)
<1>1. Front1(x) \in Seq(Nat) /\ b \in Nat /\ b > 0 /\ Numel(x) = a * b
  BY NumelLast
<1>2. a \in Nat
  BY <1>1, NumelNat
<1>3. Numel(x) \div b = a
  BY <1>1, <1>2, Quotient
<1> HIDE DEF a, b
<1>4. Numel(<<a, b>>) = a * b
  BY <1>1, <1>2, NumelPair
<1>5. xs = <<a, b>>
  BY <1>3 DEF b
<1>6. xs[1] = a /\ xs[2] = b
  BY ONLY <1>5
<1>7. Numel(xs) = Numel(x)
  BY ONLY <1>1, <1>4, <1>5
<1> QED
  BY <1>6, <1>7 DEF a, b

(* The operators that are one such product, by their definition.           *)
LEMMA DotForms ==
  ASSUME NEW c, Len(c.y) = 2
  PROVE  /\ c.op \in {"linear", "linear_act_t"} => \A I : DotForm(c, c.z, TRUE, I)
         /\ c.op = "linear_act" => \A I : DotForm(c, c.z, FALSE, I)
         /\ c.op = "mm" => \A I : DotForm(c, Absent, FALSE, I)
         /\ c.op \in {"matmul", "bmm"} => \A I : DotForm(c, Absent, FALSE, I)
<1> DEFINE Steps == 0..(Size(c.x, 1) - 1)
<1>1. ASSUME NEW I
      PROVE  /\ [q \in Steps |-> IF TRUE THEN <<LastOf(I), q>> ELSE <<q, LastOf(I)>>] =
                  [q \in Steps |-> <<LastOf(I), q>>]
             /\ [q \in Steps |-> IF FALSE THEN <<LastOf(I), q>> ELSE <<q, LastOf(I)>>] =
                  [q \in Steps |-> <<q, LastOf(I)>>]
             /\ [q \in Steps |-> (IF Len(c.y) = 2 THEN <<>> ELSE BatchOf(I)) \o <<q, LastOf(I)>>] =
                  [q \in Steps |-> <<q, LastOf(I)>>]
  <2>1. \A q : <<>> \o <<q, LastOf(I)>> = <<q, LastOf(I)>>
    OBVIOUS
  <2> QED
    BY <2>1
<1>2. CASE c.op \in {"linear", "linear_act_t"}
  BY <1>1, <1>2 DEF DotForm, DotOf, From, Dot, BiasElement
<1>3. CASE c.op = "linear_act"
  BY <1>1, <1>3 DEF DotForm, DotOf, From, Dot, BiasElement
<1>4. CASE c.op = "mm"
  BY <1>1, <1>4 DEF DotForm, DotOf, From, Dot, BiasElement
<1>5. CASE c.op \in {"matmul", "bmm"}
  BY <1>1, <1>5 DEF DotForm, DotOf, From, Dot
<1> QED
  BY <1>2, <1>3, <1>4, <1>5

(* The rows of a matrix.                                                   *)
LEMMA PairRows ==
  ASSUME NEW x \in Seq(Nat), Len(x) = 2
  PROVE  Front1(x) = <<x[1]>> /\ Numel(Front1(x)) = x[1]
<1>1. x[1] \in Nat /\ Len(x) >= 2
  BY MatrixShape
<1>2. Front1(x) = <<x[1]>>
  <2>1. Front1(x) = Append(BatchOf(x), Size(x, 2))
    BY ONLY <1>1, x \in Seq(Nat), MatrixOf
  <2>2. BatchOf(x) = <<>> /\ Size(x, 2) = x[1]
    BY DEF BatchOf, Size
  <2>3. Append(<<>>, x[1]) = <<x[1]>>
    OBVIOUS
  <2> QED
    BY ONLY <2>1, <2>2, <2>3
<1> QED
  BY <1>1, <1>2, NumelOne

(* Two matrices, ...                                                       *)
LEMMA PairRight ==
  ASSUME NEW c, c.x \in Seq(Nat), c.y \in Seq(Nat), Len(c.x) = 2, Len(c.y) = 2,
         c.op \in {"mm", "matmul"},
         GemmBiasAct(c.x, c.y, Absent, FALSE, <<c.x[1], c.y[2]>>).stage = "ready"
  PROVE  Right(c, GemmBiasAct(c.x, c.y, Absent, FALSE, <<c.x[1], c.y[2]>>).params)
<1> DEFINE transB == FALSE
           z == Absent
           n == c.y[2]
           shape == <<c.x[1], c.y[2]>>
<1>1. c.x[1] \in Nat /\ c.x[2] \in Nat /\ c.x # <<>> /\ Size(c.x, 1) = c.x[2] /\ Size(c.y, 1) = c.y[2]
  BY MatrixShape DEF Size
<1>2. Front1(c.x) = <<c.x[1]>> /\ Numel(Front1(c.x)) = c.x[1]
  BY PairRows
<1>4. shape = WithLast(c.x, n)
  BY <1>2 DEF WithLast
<1>5. Shape(c) = WithLast(c.x, n)
  BY <1>1 DEF Shape
<1>6. \A I : DotForm(c, z, transB, I)
  BY DotForms
<1>7. transB \in BOOLEAN /\ n = (IF transB THEN c.y[1] ELSE c.y[2]) /\ z \in {Absent, <<n>>}
      /\ GemmBiasAct(c.x, c.y, z, transB, shape).stage = "ready"
  OBVIOUS
<1> HIDE DEF transB, z, n, shape
<1>8. Right(c, GemmBiasAct(c.x, c.y, z, transB, shape).params)
  BY <1>1, <1>2, <1>4, <1>5, <1>6, <1>7, LayerRight
<1> QED
  BY <1>8 DEF transB, z, shape

(* ... or the rows of the first operand and one matrix.                    *)
LEMMA LinearRight ==
  ASSUME NEW c \in Calls, Regular(c), c.op \in {"mm", "linear", "linear_act", "linear_act_t"},
         Prepared(c).stage = "ready"
  PROVE  Right(c, Prepared(c).params)
<1>0. c.x \in Seq(Nat) /\ c.y \in Seq(Nat)
  BY CallsAssumption
<1>1. Refused.stage # "ready" /\ Crashed.stage # "ready"
  BY DEF Refused, Crashed, Ends
<1>2. CASE c.op = "mm"
  <2>1. Len(c.x) = 2 /\ Len(c.y) = 2
    BY <1>2 DEF Regular
  <2>2. Prepared(c) = GemmBiasAct(c.x, c.y, Absent, FALSE, <<c.x[1], c.y[2]>>)
    BY <1>2, <2>1 DEF Prepared, Mm
  <2> QED
    BY <1>0, <1>2, <2>1, <2>2, PairRight
<1>3. ASSUME NEW transB \in BOOLEAN, NEW n, n = (IF transB THEN c.y[1] ELSE c.y[2]),
             Prepared(c) = GemmBiasAct(<<Numel(c.x) \div Size(c.x, 1), Size(c.x, 1)>>,
                                       c.y, c.z, transB, WithLast(c.x, n)),
             Shape(c) = WithLast(c.x, n), c.x # <<>>, Len(c.y) = 2, Size(c.x, 1) # 0,
             c.z \in {Absent, <<n>>}, \A I : DotForm(c, c.z, transB, I)
      PROVE  Right(c, Prepared(c).params)
  <2> DEFINE xs == <<Numel(c.x) \div Size(c.x, 1), Size(c.x, 1)>>
             z == c.z
             shape == WithLast(c.x, n)
  <2>1. xs[1] = Numel(Front1(c.x)) /\ xs[2] = Size(c.x, 1) /\ Numel(xs) = Numel(c.x)
    BY <1>0, <1>3, RowsOf
  <2>2. /\ n = (IF transB THEN c.y[1] ELSE c.y[2]) /\ z \in {Absent, <<n>>}
        /\ \A I : DotForm(c, z, transB, I) /\ c.x # <<>> /\ Len(c.y) = 2
        /\ shape = Shape(c) /\ Shape(c) = WithLast(c.x, n)
        /\ Prepared(c) = GemmBiasAct(xs, c.y, z, transB, shape)
    BY <1>3
  <2> HIDE DEF xs, z, shape
  <2>3. GemmBiasAct(xs, c.y, z, transB, shape).stage = "ready"
    BY <2>2
  <2>4. Right(c, GemmBiasAct(xs, c.y, z, transB, shape).params)
    BY <1>0, <2>1, <2>2, <2>3, LayerRight
  <2> QED
    BY <2>2, <2>4
<1>4. CASE c.op \in {"linear", "linear_act_t"}
  <2>1. /\ c.x # <<>> /\ Len(c.y) = 2 /\ Size(c.x, 1) # 0 /\ Size(c.x, 1) = c.y[2]
        /\ c.z \in {Absent, <<c.y[1]>>}
    BY <1>4 DEF Regular
  <2>2. Shape(c) = WithLast(c.x, c.y[1])
    BY <1>4 DEF Shape
  <2>3. Prepared(c) = GemmBiasAct(<<Numel(c.x) \div Size(c.x, 1), Size(c.x, 1)>>,
                                  c.y, c.z, TRUE, WithLast(c.x, c.y[1]))
    BY <1>4, <2>1 DEF Prepared, Linear, LinearAct
  <2>4. \A I : DotForm(c, c.z, TRUE, I)
    BY <1>4, <2>1, DotForms
  <2> DEFINE transB == TRUE
             n == c.y[1]
  <2>5. transB \in BOOLEAN /\ n = (IF transB THEN c.y[1] ELSE c.y[2])
    OBVIOUS
  <2>6. /\ Prepared(c) = GemmBiasAct(<<Numel(c.x) \div Size(c.x, 1), Size(c.x, 1)>>,
                                     c.y, c.z, transB, WithLast(c.x, n))
        /\ \A I : DotForm(c, c.z, transB, I)
    BY <2>3, <2>4
  <2>7. Shape(c) = WithLast(c.x, n) /\ c.z \in {Absent, <<n>>}
    BY <2>1, <2>2
  <2> HIDE DEF transB, n
  <2> QED
    BY <1>3, <2>1, <2>5, <2>6, <2>7
<1>5. CASE c.op = "linear_act"
  <2>1. /\ c.x # <<>> /\ Len(c.y) = 2 /\ Size(c.x, 1) # 0 /\ Size(c.x, 1) = c.y[1]
        /\ c.z \in {Absent, <<c.y[2]>>}
    BY <1>5 DEF Regular
  <2>2. Shape(c) = WithLast(c.x, c.y[2])
    BY <1>5, <2>1 DEF Shape, Size
  <2>3. Prepared(c) = GemmBiasAct(<<Numel(c.x) \div Size(c.x, 1), Size(c.x, 1)>>,
                                  c.y, c.z, FALSE, WithLast(c.x, c.y[2]))
    BY <1>5, <2>1 DEF Prepared, LinearAct
  <2>4. \A I : DotForm(c, c.z, FALSE, I)
    BY <1>5, <2>1, DotForms
  <2> DEFINE transB == FALSE
             n == c.y[2]
  <2>5. transB \in BOOLEAN /\ n = (IF transB THEN c.y[1] ELSE c.y[2])
    OBVIOUS
  <2>6. /\ Prepared(c) = GemmBiasAct(<<Numel(c.x) \div Size(c.x, 1), Size(c.x, 1)>>,
                                     c.y, c.z, transB, WithLast(c.x, n))
        /\ \A I : DotForm(c, c.z, transB, I)
    BY <2>3, <2>4
  <2>7. Shape(c) = WithLast(c.x, n) /\ c.z \in {Absent, <<n>>}
    BY <2>1, <2>2
  <2> HIDE DEF transB, n
  <2> QED
    BY <1>3, <2>1, <2>5, <2>6, <2>7
<1> QED
  BY <1>2, <1>4, <1>5

(* matmul and bmm, of as many matrices or one.                             *)
LEMMA MatmulShape ==
  ASSUME NEW x \in Seq(Nat), NEW y \in Seq(Nat), Len(x) >= 2, Len(y) >= 2,
         ~(Len(x) = 2 /\ Len(y) = 2), Matmul(x, y).stage = "ready"
  PROVE  Matmul(x, y).params.shape = WithLast(x, Size(y, 1))
<1>1. Refused.stage # "ready" /\ Crashed.stage # "ready"
  BY DEF Refused, Crashed, Ends
<1>2. \E a, expands : Matmul(x, y) = Batched(x, y, a, expands)
  BY <1>1 DEF Matmul
<1>3. PICK a, expands : Matmul(x, y) = Batched(x, y, a, expands)
  BY <1>2
<1> QED
  <2>1. Batched(x, y, a, expands).params.shape = WithLast(x, Size(y, 1))
    <3>1. BatchParams(Batched(x, y, a, expands).params, x, y, a,
                      IF expands THEN Expanded("y", y, <<a>> \o y) ELSE Contiguous("y", y))
      BY BatchedParams
    <3> QED
      BY ONLY <3>1 DEF BatchParams
  <2> QED
    BY ONLY <1>3, <2>1

(* A shape of three dimensions has one size for its batch.                 *)
LEMMA OneBatchSize ==
  ASSUME NEW s \in Seq(Nat), Len(s) = 3
  PROVE  BatchOf(s) = <<s[1]>>
<1> DEFINE u == SubSeq(s, 1, 1)
           v == <<s[1]>>
<1>0. s[1] \in Nat
  BY TripleBatch
<1>1. 1 \in 1..(Len(s) + 1) /\ 1 \in (1 - 1)..Len(s)
  OBVIOUS
<1>2. u \in Seq(Nat) /\ Len(u) = 1
  BY <1>1, Section
<1>3. v \in Seq(Nat) /\ Len(v) = 1 /\ u[1] = v[1]
  BY <1>0
<1> HIDE DEF u, v
<1>4. u = v
  BY <1>2, <1>3, SeqEqual
<1>5. Len(s) - 2 = 1
  OBVIOUS
<1> QED
  BY <1>4, <1>5 DEF BatchOf, u, v

(* matmul and bmm.                                                         *)
LEMMA MatmulRight ==
  ASSUME NEW c \in Calls, Regular(c), c.op \in {"matmul", "bmm"}, Prepared(c).stage = "ready"
  PROVE  Right(c, Prepared(c).params)
<1> DEFINE x == c.x
           y == c.y
           s == Shape(c)
<1>1. x \in Seq(Nat) /\ y \in Seq(Nat)
  BY CallsAssumption
<1>2. /\ Len(x) >= 2 /\ Len(y) >= 2 /\ Prepared(c) = Matmul(x, y)
      /\ ~(Len(x) = 2 /\ Len(y) = 2) =>
           /\ Size(x, 1) = Size(y, 2)
           /\ 0 \notin {Size(x, 1), Size(x, 2), Size(y, 1)}
           /\ Len(y) = 2 \/ BatchOf(x) = BatchOf(y)
      /\ c.op = "bmm" => ~(Len(x) = 2 /\ Len(y) = 2)
  <2>1. CASE c.op = "matmul"
    BY <2>1 DEF Regular, Prepared
  <2>2. CASE c.op = "bmm"
    <3>1. /\ Len(x) = 3 /\ Len(y) = 3 /\ x[1] = y[1] /\ x[3] = y[2]
          /\ 0 \notin {x[2], x[3], y[3]}
      BY <2>2 DEF Regular
    <3>2. Prepared(c) = Matmul(x, y)
      BY <2>2, <3>1 DEF Prepared, Bmm
    <3>3. BatchOf(x) = BatchOf(y)
      BY <1>1, <3>1, OneBatchSize
    <3>4. Size(x, 1) = x[3] /\ Size(x, 2) = x[2] /\ Size(y, 1) = y[3] /\ Size(y, 2) = y[2]
      BY <1>1, <3>1, TripleBatch
    <3> HIDE DEF x, y
    <3> QED
      BY <3>1, <3>2, <3>3, <3>4
  <2> QED
    BY <2>1, <2>2
<1>3. CASE Len(x) = 2 /\ Len(y) = 2
  <2>1. Prepared(c) = GemmBiasAct(x, y, Absent, FALSE, <<x[1], y[2]>>)
    BY <1>2, <1>3 DEF Matmul, Matmul2D
  <2>2. GemmBiasAct(x, y, Absent, FALSE, <<x[1], y[2]>>).stage = "ready"
    BY <2>1
  <2>3. c.op = "matmul"
    BY <1>2, <1>3
  <2>4. Right(c, GemmBiasAct(x, y, Absent, FALSE, <<x[1], y[2]>>).params)
    BY <1>1, <1>3, <2>2, <2>3, PairRight
  <2> QED
    BY <2>1, <2>4
<1>4. CASE ~(Len(x) = 2 /\ Len(y) = 2)
  <2>1. s = WithLast(x, Size(y, 1))
    BY DEF Shape
  <2>2. \A I : From(c, I) = BatchedOf(x, y, I)
    BY DEF From, Dot, BatchedOf
  <2>3. s \in Seq(Nat)
    <3>1. Front1(x) \in Seq(Nat) /\ Size(y, 1) \in Nat
      <4>1. x # <<>> /\ y # <<>>
        BY <1>2
      <4> QED
        BY <1>1, <4>1, LastApart
    <3>2. Append(Front1(x), Size(y, 1)) \in Seq(Nat)
      BY <3>1
    <3> QED
      BY <2>1, <3>2 DEF WithLast
  <2>4. Prepared(c).params = Matmul(x, y).params /\ Matmul(x, y).stage = "ready"
    BY <1>2
  <2> HIDE DEF x, y, s
  <2>5. Matmul(x, y).params.shape = s
    BY <1>1, <1>2, <1>4, <2>1, <2>4, MatmulShape
  <2>6. ASSUME NEW I, Within(s, I)
        PROVE  ResultOf(Matmul(x, y).params, <<"out", Flat(s, I)>>) =
                 Write("out", Flat(s, I), From(c, I))
    <3>1. BatchedIs(x, y, I)
      BY <1>1, <1>2, <1>4, <2>1, <2>4, <2>6, BatchedRight
    <3> QED
      BY <2>1, <2>2, <3>1 DEF BatchedIs
  <2> QED
    BY <2>3, <2>4, <2>5, <2>6 DEF Right, s
<1> QED
  BY <1>3, <1>4

(* Dimension d of an index, and the positions before and after it.         *)
OuterAt(s, d, I) == Flat(SubSeq(s, 1, d - 1), SubSeq(I, 1, d - 1))
InnerAt(s, d, I) == Flat(SubSeq(s, d + 1, Len(s)), SubSeq(I, d + 1, Len(I)))

(* A position by the dimensions before d, d itself, and those after.       *)
LEMMA Along ==
  ASSUME NEW s \in Seq(Nat), NEW d \in 1..Len(s), NEW I, Within(s, I)
  PROVE  /\ OuterAt(s, d, I) \in 0..(Numel(SubSeq(s, 1, d - 1)) - 1)
         /\ InnerAt(s, d, I) \in 0..(Numel(SubSeq(s, d + 1, Len(s))) - 1)
         /\ I[d] \in 0..(s[d] - 1)
         /\ Flat(s, I) = (OuterAt(s, d, I) * s[d] + I[d]) * Numel(SubSeq(s, d + 1, Len(s)))
                           + InnerAt(s, d, I)
<1> DEFINE t == SubSeq(s, 1, d - 1)
           J == SubSeq(I, 1, d - 1)
           v == SubSeq(s, 1, d)
           L == SubSeq(I, 1, d)
           u == SubSeq(s, d + 1, Len(s))
           K == SubSeq(I, d + 1, Len(I))
<1>1. I \in Seq(Nat) /\ Len(I) = Len(s) /\ I[d] < s[d]
  BY DEF Within
<1>2. d \in 0..Len(s) /\ d \in Nat /\ s[d] \in Nat /\ I[d] \in Nat
  BY <1>1
<1>3. PICK e : e = d - 1 /\ e \in 0..Len(s) /\ e < Len(s) /\ e + 1 = d /\ e \in (1 - 1)..Len(s)
               /\ 1 \in 1..(Len(s) + 1)
  <2> DEFINE e == d - 1
  <2>1. e = d - 1 /\ e \in 0..Len(s) /\ e < Len(s) /\ e + 1 = d /\ e \in (1 - 1)..Len(s)
        /\ 1 \in 1..(Len(s) + 1)
    OBVIOUS
  <2> HIDE DEF e
  <2> QED
    BY <2>1
<1>4. t \in Seq(Nat) /\ Len(t) = e /\ v = Append(t, s[d])
  <2>1. SubSeq(s, 1, e) \in Seq(Nat) /\ Len(SubSeq(s, 1, e)) = e - 1 + 1
        /\ SubSeq(s, 1, e + 1) = Append(SubSeq(s, 1, e), s[e + 1])
    BY <1>3, Section
  <2>2. e - 1 + 1 = e
    BY <1>3
  <2> QED
    BY <1>3, <2>1, <2>2
<1>5. J \in Seq(Nat) /\ Len(J) = e /\ L = Append(J, I[d])
  <2>1. e \in (1 - 1)..Len(I) /\ 1 \in 1..(Len(I) + 1) /\ e < Len(I)
    BY <1>1, <1>3
  <2>2. SubSeq(I, 1, e) \in Seq(Nat) /\ Len(SubSeq(I, 1, e)) = e - 1 + 1
        /\ SubSeq(I, 1, e + 1) = Append(SubSeq(I, 1, e), I[e + 1])
    BY <1>1, <2>1, Section
  <2>3. e - 1 + 1 = e
    BY <1>3
  <2> QED
    BY <1>3, <2>2, <2>3
<1>6. Within(v, L) /\ Within(u, K) /\ Flat(s, I) = Flat(v, L) * Numel(u) + Flat(u, K)
  BY <1>2, CutIndex
<1>7. u \in Seq(Nat)
  BY <1>2, Cut
<1> DEFINE a == s[d]
           b == I[d]
<1>8. a \in Nat /\ b \in Nat /\ b < a /\ v = Append(t, a) /\ L = Append(J, b)
  BY <1>1, <1>2, <1>4, <1>5
<1> HIDE DEF t, J, v, L, u, K, a, b
<1>9. Within(t, J) /\ Flat(v, L) = Flat(t, J) * a + b
  <2>1. Within(Append(t, a), Append(J, b)) <=> Within(t, J) /\ b < a
    BY <1>4, <1>5, <1>8, WithinAppend
  <2>2. Flat(Append(t, a), Append(J, b)) = Flat(t, J) * a + b
    BY <1>4, <1>5, <1>8, FlatAppend
  <2> QED
    BY <1>6, <1>8, <2>1, <2>2
<1>10. Flat(t, J) \in 0..(Numel(t) - 1)
  BY <1>4, <1>5, <1>9, FlatBelow
<1>11. Flat(u, K) \in 0..(Numel(u) - 1)
  <2>1. K \in Seq(Nat) /\ Len(K) = Len(u)
    BY <1>6 DEF Within
  <2> QED
    BY <1>6, <1>7, <2>1, FlatBelow
<1>12. b \in 0..(a - 1)
  BY ONLY <1>8
<1>13. Flat(s, I) = (Flat(t, J) * a + b) * Numel(u) + Flat(u, K)
  BY ONLY <1>6, <1>9
<1>14. OuterAt(s, d, I) = Flat(t, J) /\ InnerAt(s, d, I) = Flat(u, K)
  BY DEF OuterAt, InnerAt, t, J, u, K
<1> QED
  BY <1>10, <1>11, <1>12, <1>13, <1>14 DEF a, b, t, u

(* An index with another coordinate d.                                     *)
Moved(I, d, e) == [I EXCEPT ![d] = e]

(* To move along dimension d changes no other.                             *)
LEMMA MovedAlong ==
  ASSUME NEW s \in Seq(Nat), NEW d \in 1..Len(s), NEW I, Within(s, I), NEW e \in 0..(s[d] - 1),
         NEW M, M = Moved(I, d, e)
  PROVE  /\ Within(s, M) /\ M[d] = e
         /\ OuterAt(s, d, M) = OuterAt(s, d, I) /\ InnerAt(s, d, M) = InnerAt(s, d, I)
<1> DEFINE n == Len(s)
<1>1. /\ I \in Seq(Nat) /\ Len(I) = n /\ n \in Nat /\ d \in 1..n
      /\ \A b \in 1..n : I[b] < s[b]
  BY DEF Within
<1>2. e \in Nat /\ e < s[d]
  <2>1. s[d] \in Nat
    BY <1>1
  <2> QED
    BY <2>1
<1>3. M \in Seq(Nat) /\ Len(M) = n /\ M[d] = e /\ \A b \in 1..n : b # d => M[b] = I[b]
  <2>1. I \in [1..n -> Nat]
    <3>1. I \in [1..Len(I) -> Nat]
      <4>1. I \in Seq(Nat)
        BY <1>1
      <4> QED
        BY ONLY <4>1, LenProperties
    <3>2. Len(I) = n
      BY <1>1
    <3> QED
      BY ONLY <3>1, <3>2
  <2>2. M \in [1..n -> Nat] /\ M[d] = e /\ \A b \in 1..n : b # d => M[b] = I[b]
    BY <1>1, <1>2, <2>1 DEF Moved
  <2> HIDE DEF n
  <2>3. M \in Seq(Nat) /\ Len(M) = n
    BY <1>1, <2>2, SequenceOf
  <2> QED
    BY <2>2, <2>3
<1> HIDE DEF n
<1>4. Within(s, M)
  <2>1. \A b \in 1..n : M[b] < s[b]
    BY <1>1, <1>2, <1>3
  <2> QED
    BY <1>3, <2>1 DEF Within, n
<1>5. SubSeq(M, 1, d - 1) = SubSeq(I, 1, d - 1)
  <2> DEFINE u == SubSeq(M, 1, d - 1)
             v == SubSeq(I, 1, d - 1)
  <2>1. PICK k : k = d - 1 /\ k \in Nat /\ k \in 0..n
    BY <1>1
  <2>2. u \in Seq(Nat) /\ Len(u) = k /\ \A b \in 1..k : u[b] = M[b]
    <3>1. M \in Seq(Nat) /\ k \in 0..Len(M)
      BY <1>3, <2>1
    <3> QED
      BY <2>1, <3>1, Cut
  <2>3. v \in Seq(Nat) /\ Len(v) = k /\ \A b \in 1..k : v[b] = I[b]
    <3>1. I \in Seq(Nat) /\ k \in 0..Len(I)
      BY <1>1, <2>1
    <3> QED
      BY <2>1, <3>1, Cut
  <2>4. \A b \in 1..k : b \in 1..n /\ b # d
    BY <1>1, <2>1
  <2> HIDE DEF u, v
  <2>5. \A b \in 1..k : u[b] = v[b]
    BY <1>3, <2>2, <2>3, <2>4
  <2>6. u = v
    BY ONLY <2>2, <2>3, <2>5, SeqEqual
  <2> QED
    BY <2>6 DEF u, v
<1>6. SubSeq(M, d + 1, Len(M)) = SubSeq(I, d + 1, Len(I))
  <2> DEFINE u == SubSeq(M, d + 1, Len(M))
             v == SubSeq(I, d + 1, Len(I))
  <2>1. d \in 0..Len(M) /\ d \in 0..Len(I)
    BY <1>1, <1>3
  <2>2. u \in Seq(Nat) /\ Len(u) = n - d /\ \A b \in 1..(n - d) : u[b] = M[d + b]
    <3>1. u \in Seq(Nat) /\ Len(u) = Len(M) - d /\ \A b \in 1..(Len(M) - d) : u[b] = M[d + b]
      BY <1>3, <2>1, Cut
    <3> QED
      BY <1>3, <3>1
  <2>3. v \in Seq(Nat) /\ Len(v) = n - d /\ \A b \in 1..(n - d) : v[b] = I[d + b]
    <3>1. v \in Seq(Nat) /\ Len(v) = Len(I) - d /\ \A b \in 1..(Len(I) - d) : v[b] = I[d + b]
      BY <1>1, <2>1, Cut
    <3> QED
      BY <1>1, <3>1
  <2>4. \A b \in 1..(n - d) : d + b \in 1..n /\ d + b # d
    BY <1>1
  <2> HIDE DEF u, v
  <2>5. \A b \in 1..(n - d) : u[b] = v[b]
    BY <1>3, <2>2, <2>3, <2>4
  <2>6. u = v
    BY ONLY <2>2, <2>3, <2>5, SeqEqual
  <2> QED
    BY <2>6 DEF u, v
<1> QED
  BY <1>3, <1>4, <1>5, <1>6 DEF OuterAt, InnerAt

(* Softmax, along a dimension.                                             *)
LEMMA SoftmaxRight ==
  ASSUME NEW c \in Calls, Regular(c), c.op = "softmax"
  PROVE  Right(c, Prepared(c).params)
<1> DEFINE x == c.x
           dim == IF c.dim < 0 THEN c.dim + Len(x) ELSE c.dim
           d == IF c.dim < 0 THEN c.dim + Len(x) + 1 ELSE c.dim + 1
           p == Prepared(c).params
           O == Numel(SubSeq(x, 1, d - 1))
           N == x[d]
           K == Numel(SubSeq(x, d + 1, Len(x)))
<1>1. x \in Seq(Nat) /\ Len(x) \in Nat /\ Len(x) # 0 /\ c.dim \in (-Len(x))..(Len(x) - 1)
  <2>1. x \in Seq(Nat)
    BY CallsAssumption
  <2>2. x # <<>> /\ c.dim \in (-Len(x))..(Len(x) - 1)
    BY DEF Regular
  <2> QED
    BY <2>1, <2>2
<1>2. /\ d = dim + 1 /\ d - 1 = dim /\ d + 1 = dim + 2 /\ d \in 1..Len(x)
      /\ dim \in 0..(Len(x) - 1)
  <2> DEFINE l == Len(x)
             g == c.dim
  <2>1. l \in Nat /\ g \in Int /\ -l <= g /\ g <= l - 1
    BY <1>1
  <2>2. /\ dim = IF g < 0 THEN g + l ELSE g
        /\ d = IF g < 0 THEN g + l + 1 ELSE g + 1
    OBVIOUS
  <2> HIDE DEF l, g, d, dim
  <2>3. CASE g < 0
    <3>1. /\ dim = g + l /\ d = g + l + 1
      BY <2>2, <2>3
    <3>2. /\ d = dim + 1 /\ d - 1 = dim /\ d + 1 = dim + 2 /\ d \in 1..l /\ dim \in 0..(l - 1)
      BY ONLY <2>1, <2>3, <3>1
    <3> QED
      BY <3>2 DEF l
  <2>4. CASE ~(g < 0)
    <3>1. /\ dim = g /\ d = g + 1
      BY <2>2, <2>4
    <3>2. /\ d = dim + 1 /\ d - 1 = dim /\ d + 1 = dim + 2 /\ d \in 1..l /\ dim \in 0..(l - 1)
      BY ONLY <2>1, <2>4, <3>1
    <3> QED
      BY <3>2 DEF l
  <2> QED
    BY <2>3, <2>4
<1> HIDE DEF d, dim
<1>3. /\ p.kernel = "softmax" /\ p.src = <<Contiguous("x", x)>> /\ p.shape = x
      /\ p.m = O /\ p.n = N /\ p.k = K
  <2>1. Prepared(c) = Softmax(c)
    BY DEF Prepared
  <2>2. Prepared(c) = Ready([NoParams EXCEPT
             !.kernel = "softmax", !.src = <<Contiguous("x", x)>>, !.shape = x,
             !.m = Numel(SubSeq(x, 1, dim)), !.n = x[dim + 1],
             !.k = Numel(SubSeq(x, dim + 2, Len(x))), !.numel = Numel(x)])
    BY <1>1, <1>2, <2>1 DEF Softmax, dim
  <2> DEFINE src == <<Contiguous("x", x)>>
             M0 == Numel(SubSeq(x, 1, dim))
             N0 == x[dim + 1]
             K0 == Numel(SubSeq(x, dim + 2, Len(x)))
             P == [NoParams EXCEPT
                    !.kernel = "softmax", !.src = src, !.shape = x, !.m = M0, !.n = N0, !.k = K0,
                    !.numel = Numel(x)]
  <2>3. p = P
    BY <2>2 DEF Ready
  <2>4. M0 = O /\ N0 = N /\ K0 = K
    BY <1>2
  <2> HIDE DEF src, M0, N0, K0, O, N, K
  <2>5. /\ P.kernel = "softmax" /\ P.src = src /\ P.shape = x
        /\ P.m = M0 /\ P.n = N0 /\ P.k = K0
    BY DEF NoParams
  <2> HIDE DEF P, p
  <2> QED
    BY <2>3, <2>4, <2>5 DEF src
<1>4. \A I : From(c, I) =
               <<<<Element("x", x, I)>>, [q \in 1..N |-> Element("x", x, Moved(I, d, q - 1))]>>
  BY DEF From, d, Moved
<1>5. Shape(c) = x
  BY DEF Shape
<1>6. O \in Nat /\ N \in Nat /\ K \in Nat
  <2>1. d - 1 \in 0..Len(x) /\ d \in 0..Len(x)
    BY <1>1, <1>2
  <2>2. SubSeq(x, 1, d - 1) \in Seq(Nat) /\ SubSeq(x, d + 1, Len(x)) \in Seq(Nat)
    BY <1>1, <2>1, Cut
  <2>3. N \in Nat
    BY <1>1, <1>2
  <2> QED
    BY <2>2, <2>3, NumelNat
<1> HIDE DEF p, x, N
<1>7. ASSUME NEW I, Within(x, I)
      PROVE  ResultOf(p, <<"out", Flat(x, I)>>) = Write("out", Flat(x, I), From(c, I))
  <2> DEFINE f == Flat(x, I)
             o == OuterAt(x, d, I)
             i == InnerAt(x, d, I)
             e == I[d]
             At(b) == (o * N + b) * K + i
             line == [q \in 1..N |-> Element("x", x, Moved(I, d, q - 1))]
  <2>1. /\ o \in 0..(O - 1) /\ i \in 0..(K - 1) /\ e \in 0..(N - 1) /\ f = At(e)
    BY <1>1, <1>2, <1>7, Along DEF N
  <2>2. ASSUME NEW b \in 0..(N - 1), NEW M, M = Moved(I, d, b)
        PROVE  At(b) = Flat(x, M) /\ Fetch(Contiguous("x", x), At(b)) = Element("x", x, M)
    <3>1. b \in 0..(x[d] - 1)
      BY DEF N
    <3>2. Within(x, M) /\ M[d] = b /\ OuterAt(x, d, M) = o /\ InnerAt(x, d, M) = i
      BY <1>1, <1>2, <1>7, <2>2, <3>1, MovedAlong
    <3>3. Flat(x, M) = (OuterAt(x, d, M) * x[d] + M[d]) * K + InnerAt(x, d, M)
      BY <1>1, <1>2, <3>2, Along
    <3>4. Flat(x, M) = At(b)
      BY <3>2, <3>3 DEF N
    <3>5. Fetch(Contiguous("x", x), Flat(x, M)) = Element("x", x, M)
      BY <1>1, <3>2, FetchFlat
    <3> QED
      BY <3>4, <3>5
  <2>3. Fetch(Contiguous("x", x), f) = Element("x", x, I)
    BY <1>1, <1>7, FetchFlat
  <2> HIDE DEF o, i, e, f, O, K
  <2>4. o \in Nat /\ i \in Nat /\ e \in Nat /\ N > 0 /\ K > 0
    BY <1>6, <2>1
  <2>5. (f \div K) \div N = o /\ (f \div K) % N = e /\ f % K = i
    <3>1. Coordinates(O, N, K, o, e, i)
      BY <1>6, <2>1 DEF Coordinates
    <3>2. f = (o * N + e) * K + i
      BY <2>1
    <3> QED
      BY <3>1, <3>2, CubePosition
  <2>6. ResultOf(p, <<"out", f>>) = SoftmaxWrite(p, o, e, i)
    <3>1. <<"out", f>>[2] = f
      OBVIOUS
    <3>2. ResultOf(p, <<"out", f>>) = SoftmaxWrite(p, (f \div p.k) \div p.n, (f \div p.k) % p.n, f % p.k)
      BY <1>3, <3>1 DEF ResultOf, Elementwise
    <3> QED
      BY <1>3, <2>5, <3>2
  <2>7. SoftmaxWrite(p, o, e, i) =
          Write("out", At(e), <<<<Fetch(p.src[1], At(e))>>, Line(p.src[1], At(0), K, N)>>)
    BY <1>3 DEF SoftmaxWrite
  <2>8. p.src[1] = Contiguous("x", x)
    BY <1>3
  <2>9. Line(Contiguous("x", x), At(0), K, N) = line
    <3>1. ASSUME NEW q \in 1..N
          PROVE  Fetch(Contiguous("x", x), At(0) + (q - 1) * K) = Element("x", x, Moved(I, d, q - 1))
      <4> DEFINE b == q - 1
                 M == Moved(I, d, q - 1)
      <4>1. b \in 0..(N - 1) /\ b \in Nat
        BY <1>6
      <4>2. At(0) + b * K = At(b)
        <5>1. o * N \in Nat
          BY <1>6, <2>4, ThreeFactors
        <5> DEFINE r == o * N
        <5> HIDE DEF r, b
        <5>2. (r + 0) * K + i + b * K = (r + b) * K + i
          <6>1. (r + b) * K = r * K + b * K
            BY <1>6, <4>1, <5>1 DEF r
          <6>2. r * K \in Nat /\ b * K \in Nat /\ (r + 0) * K = r * K
            BY <1>6, <4>1, <5>1, ThreeFactors DEF r
          <6> QED
            BY <2>4, <6>1, <6>2
        <5> QED
          BY <5>2 DEF r
      <4>3. Fetch(Contiguous("x", x), At(b)) = Element("x", x, M)
        BY <2>2, <4>1
      <4> QED
        BY <4>2, <4>3
    <3> QED
      BY <3>1 DEF Line
  <2>10. From(c, I) = <<<<Element("x", x, I)>>, line>>
    BY <1>4
  <2> HIDE DEF At, line
  <2>11. ResultOf(p, <<"out", f>>) = Write("out", f, From(c, I))
    BY <2>1, <2>3, <2>6, <2>7, <2>8, <2>9, <2>10
  <2> QED
    BY <2>11 DEF f
<1> QED
  BY <1>1, <1>3, <1>5, <1>7 DEF Right, p

(* Embedding, of ids that are int32.                                       *)
LEMMA EmbeddingRight ==
  ASSUME NEW c \in Calls, Regular(c), c.op = "embedding", Prepared(c).stage = "ready"
  PROVE  Right(c, Prepared(c).params)
<1> DEFINE x == c.x
           y == c.y
           p == Prepared(c).params
           N == y[2]
           K == y[1]
           s == Append(x, N)
<1>1. x \in Seq(Nat) /\ y \in Seq(Nat) /\ c.ids \in Seq(Int) /\ Len(c.ids) = Numel(x)
  BY CallsAssumption
<1>2. Len(y) = 2 /\ \A i \in DOMAIN c.ids : c.ids[i] = AsInt(c.ids[i])
  BY DEF Regular
<1>3. N \in Nat /\ K \in Nat /\ s \in Seq(Nat) /\ Len(s) = Len(x) + 1
  <2>1. N \in Nat /\ K \in Nat
    BY <1>1, <1>2, MatrixShape
  <2> HIDE DEF N, K
  <2> QED
    BY <1>1, <2>1
<1>4. /\ p.kernel = "embedding" /\ p.src = <<Contiguous("y", y)>> /\ p.shape = s
      /\ p.n = N /\ p.k = K /\ p.ids = AsInt32(c.ids)
  <2> DEFINE src == <<Contiguous("y", y)>>
             ids == AsInt32(c.ids)
             P == [NoParams EXCEPT
                    !.kernel = "embedding", !.shape = s, !.src = src, !.ids = ids,
                    !.numel = Numel(x), !.n = N, !.k = K]
  <2>1. Refused.stage # "ready" /\ Empty.stage # "ready"
    BY DEF Refused, Empty, Ends
  <2>2. p = P
    BY <2>1 DEF Prepared, Embedding, Ready
  <2> HIDE DEF src, ids, s, N, K
  <2>3. /\ P.kernel = "embedding" /\ P.src = src /\ P.shape = s /\ P.n = N /\ P.k = K /\ P.ids = ids
    BY DEF NoParams
  <2> HIDE DEF P, p
  <2> QED
    BY <2>2, <2>3 DEF src, ids
<1>5. Shape(c) = s
  BY DEF Shape
<1>6. \A I : From(c, I) =
               IF c.ids[Flat(x, Front1(I)) + 1] \in 0..(K - 1)
                 THEN <<<<Element("y", y, <<c.ids[Flat(x, Front1(I)) + 1], LastOf(I)>>)>>>>
                 ELSE <<>>
  BY DEF From
<1> HIDE DEF p, x, y, N, K, s
<1>7. ASSUME NEW I, Within(s, I)
      PROVE  ResultOf(p, <<"out", Flat(s, I)>>) = Write("out", Flat(s, I), From(c, I))
  <2> DEFINE J == Front1(I)
             j == LastOf(I)
             r == Flat(x, J)
             f == Flat(s, I)
             id == c.ids[r + 1]
  <2>1. I \in Seq(Nat) /\ Len(I) = Len(x) + 1 /\ I # <<>>
    <3>1. I \in Seq(Nat) /\ Len(I) = Len(s)
      BY <1>7 DEF Within
    <3>2. Len(x) \in Nat
      BY <1>1
    <3>3. Len(I) # 0
      BY <1>3, <3>1, <3>2
    <3> QED
      BY <1>3, <3>1, <3>3
  <2>2. J \in Seq(Nat) /\ Len(J) = Len(x) /\ j \in Nat /\ I = Append(J, j)
    <3>1. J \in Seq(Nat) /\ Len(J) = Len(I) - 1 /\ j \in Nat /\ I = Append(J, j)
      BY <2>1, LastApart DEF LastOf
    <3>2. Len(I) - 1 = Len(x)
      BY <1>1, <2>1
    <3> QED
      BY <3>1, <3>2
  <2> HIDE DEF J, j
  <2>3. Within(x, J) /\ j < N /\ f = r * N + j
    <3>1. Within(Append(x, N), Append(J, j)) <=> Within(x, J) /\ j < N
      BY <1>1, <1>3, <2>2, WithinAppend
    <3>2. Flat(Append(x, N), Append(J, j)) = Flat(x, J) * N + j
      BY <1>1, <1>3, <2>2, FlatAppend
    <3> QED
      BY <1>7, <2>2, <3>1, <3>2 DEF s
  <2>4. r \in 0..(Numel(x) - 1)
    BY <1>1, <2>2, <2>3, FlatBelow
  <2> HIDE DEF r, f
  <2>5. Numel(x) \in Nat /\ r \in Nat /\ r + 1 \in 1..Numel(x)
    <3>1. Numel(x) \in Nat
      BY <1>1, NumelNat
    <3> QED
      BY <2>4, <3>1
  <2>6. p.ids[r + 1] = id
    <3>1. r + 1 \in DOMAIN c.ids
      BY <1>1, <2>5
    <3> QED
      BY <1>2, <1>4, <3>1 DEF AsInt32
  <2>7. j \in 0..(N - 1) /\ N \in Nat
    BY <1>3, <2>2, <2>3
  <2>8. f \div N = r /\ f % N = j
    BY <2>3, <2>5, <2>7, PositionOf
  <2>9. ResultOf(p, <<"out", f>>) = EmbeddingWrite(p, r, j)
    <3>1. <<"out", f>>[2] = f
      OBVIOUS
    <3>2. ResultOf(p, <<"out", f>>) = EmbeddingWrite(p, f \div p.n, f % p.n)
      BY <1>4, <3>1 DEF ResultOf, Elementwise
    <3> QED
      BY <1>4, <2>8, <3>2
  <2>10. p.src[1] = Contiguous("y", y)
    BY <1>4
  <2>11. From(c, I) = IF id \in 0..(K - 1) THEN <<<<Element("y", y, <<id, j>>)>>>> ELSE <<>>
    BY <1>6 DEF J, j, r
  <2> HIDE DEF id
  <2>12. EmbeddingWrite(p, r, j) =
           IF id \in 0..(K - 1)
             THEN Write("out", f, <<<<Fetch(Contiguous("y", y), id * N + j)>>>>)
             ELSE Write("out", f, <<>>)
    BY <1>4, <2>3, <2>6, <2>10 DEF EmbeddingWrite
  <2>13. ASSUME id \in 0..(K - 1)
         PROVE  Fetch(Contiguous("y", y), id * N + j) = Element("y", y, <<id, j>>)
    <3> DEFINE g == id * N + j
    <3>1. id \in 0..(y[1] - 1) /\ j \in 0..(y[2] - 1) /\ g = id * y[2] + j
      BY <2>7, <2>13 DEF N, K
    <3> HIDE DEF g
    <3>2. Fetch(Contiguous("y", y), g) = Element("y", y, Pair(id, j))
      BY <1>1, <1>2, <3>1, FetchMatrix
    <3> QED
      BY <3>2 DEF Pair, g
  <2>14. ResultOf(p, <<"out", f>>) = Write("out", f, From(c, I))
    <3>1. CASE id \in 0..(K - 1)
      BY <2>9, <2>11, <2>12, <2>13, <3>1
    <3>2. CASE id \notin 0..(K - 1)
      BY <2>9, <2>11, <2>12, <3>2
    <3> QED
      BY <3>1, <3>2
  <2> QED
    BY <2>14 DEF f
<1> QED
  BY <1>3, <1>4, <1>5, <1>7 DEF Right, p

(* Layer normalization, row by row.                                        *)
LEMMA NormParams ==
  ASSUME NEW c \in Calls, c.op = "layer_norm", Prepared(c).stage = "ready"
  PROVE  LET p == Prepared(c).params
         IN  /\ p.kernel = "layernorm" /\ p.shape = c.x
             /\ p.m = Numel(c.x) \div Numel(c.y) /\ p.n = Numel(c.y)
             /\ p.src[1] = Contiguous("x", c.x) /\ p.src[2] = Optional("z", c.z)
             /\ p.src[3] = Optional("w", c.w)
<1> DEFINE src == <<Contiguous("x", c.x), Optional("z", c.z), Optional("w", c.w)>>
           n == Numel(c.y)
           m == Numel(c.x) \div n
           p == Prepared(c).params
           P == [NoParams EXCEPT !.kernel = "layernorm", !.shape = c.x, !.m = m, !.n = n,
                                 !.src = src]
<1>1. p = P
  <2>1. Refused.stage # "ready"
    BY DEF Refused, Ends
  <2> QED
    BY <2>1 DEF Prepared, LayerNorm, Ready
<1>2. /\ src[1] = Contiguous("x", c.x) /\ src[2] = Optional("z", c.z)
      /\ src[3] = Optional("w", c.w)
  OBVIOUS
<1> HIDE DEF src, m, n
<1>3. P.kernel = "layernorm" /\ P.shape = c.x /\ P.m = m /\ P.n = n /\ P.src = src
  BY DEF NoParams
<1> HIDE DEF P, p
<1> QED
  BY <1>1, <1>2, <1>3 DEF m, n, p

(* The element of an affine operand, which may be absent.                  *)
LEMMA AffineRight ==
  ASSUME NEW y \in Seq(Nat), NEW z, z \in {Absent, y}, NEW name, NEW J, Within(y, J)
  PROVE  (IF Optional(name, z) = <<>> THEN <<>> ELSE <<Fetch(Optional(name, z), Flat(y, J))>>) =
           IF z = Absent THEN <<>> ELSE <<Element(name, y, J)>>
<1>1. CASE z = Absent
  BY <1>1 DEF Optional
<1>2. CASE z # Absent
  <2>1. Optional(name, z) = Contiguous(name, y)
    BY <1>2 DEF Optional
  <2>2. Fetch(Contiguous(name, y), Flat(y, J)) = Element(name, y, J)
    BY FetchFlat
  <2>3. Contiguous(name, y) # <<>>
    <3>1. J \in Seq(Nat) /\ Len(J) = Len(y)
      BY DEF Within
    <3>2. Flat(y, J) \in 0..(Numel(y) - 1)
      BY <3>1, FlatBelow
    <3>3. Flat(y, J) \in DOMAIN Contiguous(name, y)
      BY <3>2 DEF Contiguous
    <3> QED
      BY <3>3
  <2> QED
    BY <1>2, <2>1, <2>2, <2>3
<1> QED
  BY <1>1, <1>2

(* A regular normalized_shape cuts an index into a row and a column.       *)
RowPart(c, I) == SubSeq(I, 1, Len(c.x) - Len(c.y))
ColumnPart(c, I) == SubSeq(I, Len(c.x) - Len(c.y) + 1, Len(I))
RowShape(c) == SubSeq(c.x, 1, Len(c.x) - Len(c.y))

(* An index of the input is a row and a column, in row-major order.        *)
LEMMA NormIndex ==
  ASSUME NEW c \in Calls, Regular(c), c.op = "layer_norm", NEW I, Within(c.x, I)
  PROVE  LET r == Flat(RowShape(c), RowPart(c, I))
             n == Numel(c.y)
         IN  /\ n \in Nat /\ n > 0 /\ r \in 0..(Numel(RowShape(c)) - 1)
             /\ Numel(c.x) = Numel(RowShape(c)) * n
             /\ Numel(RowShape(c)) \in Nat
             /\ Within(c.y, ColumnPart(c, I)) /\ Flat(c.y, ColumnPart(c, I)) \in 0..(n - 1)
             /\ Flat(c.x, I) = r * n + Flat(c.y, ColumnPart(c, I))
             /\ \A q \in 0..(n - 1) :
                  Element("x", c.x, RowPart(c, I) \o Unflat(c.y, q)) = <<"x", r * n + q>>
<1> DEFINE x == c.x
           y == c.y
           d == Len(x) - Len(y)
           t == RowShape(c)
           J == RowPart(c, I)
           L == ColumnPart(c, I)
           n == Numel(y)
<1>1. x \in Seq(Nat) /\ y \in Seq(Nat)
  BY CallsAssumption
<1>2. Len(y) <= Len(x) /\ n # 0 /\ y = SubSeq(x, d + 1, Len(x))
  BY DEF Regular
<1>3. d \in 0..Len(x)
  <2> DEFINE l == Len(x)
             k == Len(y)
  <2>1. l \in Nat /\ k \in Nat /\ k <= l
    BY <1>1, <1>2
  <2> HIDE DEF l, k
  <2>2. l - k \in 0..l
    BY <2>1
  <2> QED
    BY <2>2 DEF l, k
<1>4. t = SubSeq(x, 1, d) /\ J = SubSeq(I, 1, d) /\ L = SubSeq(I, d + 1, Len(I))
  BY DEF RowShape, RowPart, ColumnPart
<1>5. n \in Nat
  BY <1>1, NumelNat
<1> HIDE DEF x, d, t, J, L, n, y
<1>6. t \in Seq(Nat) /\ Len(t) = d /\ x = t \o y /\ Numel(x) = Numel(t) * n
  <2>1. t \in Seq(Nat) /\ Len(t) = d /\ x = t \o y
    BY <1>1, <1>2, <1>3, <1>4, Cut
  <2>2. Numel(x) = Numel(t) * n
    BY <1>1, <1>2, <1>3, <1>4, NumelSplit DEF n
  <2> QED
    BY <2>1, <2>2
<1>7. Within(t, J) /\ Within(y, L) /\ Flat(x, I) = Flat(t, J) * n + Flat(y, L)
  <2>1. Within(x, I)
    BY DEF x
  <2> QED
    BY <1>1, <1>2, <1>3, <1>4, <2>1, CutIndex DEF n
<1>8. J \in Seq(Nat) /\ Len(J) = Len(t) /\ Flat(t, J) \in 0..(Numel(t) - 1)
  <2>1. J \in Seq(Nat) /\ Len(J) = Len(t)
    BY <1>7 DEF Within
  <2> QED
    BY <1>6, <1>7, <2>1, FlatBelow
<1>9. Flat(y, L) \in 0..(n - 1)
  <2>1. L \in Seq(Nat) /\ Len(L) = Len(y)
    BY <1>7 DEF Within
  <2> QED
    BY <1>1, <1>7, <2>1, FlatBelow DEF n
<1>10. ASSUME NEW q \in 0..(n - 1)
       PROVE  Element("x", x, J \o Unflat(y, q)) = <<"x", Flat(t, J) * n + q>>
  <2> DEFINE U == Unflat(y, q)
  <2>1. Within(y, U) /\ Flat(y, U) = q
    BY <1>1, IndexOfPosition DEF n
  <2>2. U \in Seq(Nat) /\ Len(U) = Len(y)
    BY <2>1 DEF Within
  <2> HIDE DEF U
  <2>3. Flat(t \o y, J \o U) = Flat(t, J) * Numel(y) + Flat(y, U)
    BY <1>1, <1>6, <1>8, <2>2, FlatJoin
  <2> QED
    BY <1>6, <2>1, <2>3 DEF Element, U, n
<1>11. n > 0 /\ Numel(t) \in Nat
  <2>1. Numel(t) \in Nat
    BY <1>6, NumelNat
  <2> QED
    BY <1>2, <1>5, <2>1
<1> QED
  BY <1>5, <1>6, <1>7, <1>8, <1>9, <1>10, <1>11 DEF x, t, J, L, n, y

(* What is computed from a row, and its statistics.                        *)
LEMMA NormRight ==
  ASSUME NEW c \in Calls, Regular(c), c.op = "layer_norm", Prepared(c).stage = "ready"
  PROVE  Right(c, Prepared(c).params)
<1> DEFINE x == c.x
           y == c.y
           p == Prepared(c).params
           n == Numel(y)
<1>1. x \in Seq(Nat) /\ y \in Seq(Nat) /\ c.z \in {Absent, y} /\ c.w \in {Absent, y}
  BY CallsAssumption DEF Regular
<1>2. /\ p.kernel = "layernorm" /\ p.shape = x /\ p.n = n
      /\ p.src[1] = Contiguous("x", x) /\ p.src[2] = Optional("z", c.z)
      /\ p.src[3] = Optional("w", c.w)
  BY NormParams
<1>3. Shape(c) = x
  BY DEF Shape
<1>4. ASSUME NEW I, Within(x, I)
      PROVE  ResultOf(p, <<"out", Flat(x, I)>>) = Write("out", Flat(x, I), From(c, I))
  <2> DEFINE r == Flat(RowShape(c), RowPart(c, I))
             A == Numel(RowShape(c))
             L == ColumnPart(c, I)
             j == Flat(y, L)
             f == Flat(x, I)
             row == [q \in 1..n |-> Element("x", x, RowPart(c, I) \o Unflat(y, q - 1))]
             Affine(name) == IF c[name] = Absent THEN <<>> ELSE <<Element(name, y, L)>>
  <2>1. /\ n \in Nat /\ n > 0 /\ r \in 0..(A - 1) /\ Numel(x) = A * n /\ A \in Nat
        /\ Within(y, L) /\ j \in 0..(n - 1) /\ f = r * n + j
        /\ \A q \in 0..(n - 1) : Element("x", x, RowPart(c, I) \o Unflat(y, q)) = <<"x", r * n + q>>
    BY <1>4, NormIndex
  <2>2. From(c, I) = <<row, <<Element("x", x, I)>>, Affine("z"), Affine("w")>>
    BY DEF From, RowPart, ColumnPart
  <2>3. Fetch(Contiguous("x", x), f) = Element("x", x, I)
    BY <1>1, <1>4, FetchFlat
  <2>4. /\ (IF p.src[2] = <<>> THEN <<>> ELSE <<Fetch(p.src[2], j)>>) = Affine("z")
        /\ (IF p.src[3] = <<>> THEN <<>> ELSE <<Fetch(p.src[3], j)>>) = Affine("w")
    <3>1. (IF Optional("z", c.z) = <<>> THEN <<>> ELSE <<Fetch(Optional("z", c.z), j)>>) = Affine("z")
      BY <1>1, <2>1, AffineRight
    <3>2. (IF Optional("w", c.w) = <<>> THEN <<>> ELSE <<Fetch(Optional("w", c.w), j)>>) = Affine("w")
      BY <1>1, <2>1, AffineRight
    <3> QED
      BY <1>2, <3>1, <3>2
  <2> DEFINE row2 == Line(p.src[1], r * n, 1, n)
             z2 == IF p.src[2] = <<>> THEN <<>> ELSE <<Fetch(p.src[2], j)>>
             w2 == IF p.src[3] = <<>> THEN <<>> ELSE <<Fetch(p.src[3], j)>>
  <2>5. row2 = row
    <3>1. ASSUME NEW q \in 1..n
          PROVE  Fetch(p.src[1], r * n + (q - 1) * 1) = Element("x", x, RowPart(c, I) \o Unflat(y, q - 1))
      <4> DEFINE b == q - 1
                 g == r * n + b
      <4>1. b \in 0..(n - 1) /\ b * 1 = b
        BY <2>1
      <4>2. g \in 0..(Numel(x) - 1)
        BY <2>1, <4>1, InMatrix
      <4> HIDE DEF g
      <4>3. Fetch(Contiguous("x", x), g) = <<"x", g>>
        BY <4>2 DEF Fetch, Contiguous
      <4>4. Element("x", x, RowPart(c, I) \o Unflat(y, b)) = <<"x", r * n + b>>
        BY <2>1, <4>1
      <4> HIDE DEF r
      <4> QED
        BY <1>2, <4>1, <4>3, <4>4 DEF g
    <3> HIDE DEF r
    <3> QED
      BY <3>1 DEF Line
  <2>6. NormWrite(p, r, j) = Write("out", f, <<row2, <<Fetch(p.src[1], f)>>, z2, w2>>)
    BY <1>2, <2>1 DEF NormWrite
  <2> HIDE DEF r, j, f, row, A, L, row2, z2, w2
  <2>7. r \in Nat /\ f \div n = r /\ f % n = j
    <3>1. r \in Nat
      BY <2>1
    <3> QED
      BY <2>1, <3>1, PositionOf
  <2>8. ResultOf(p, <<"out", f>>) = NormWrite(p, r, j)
    <3>1. <<"out", f>>[2] = f /\ <<"out", f>>[1] = "out"
      OBVIOUS
    <3>2. ResultOf(p, <<"out", f>>) = NormWrite(p, f \div p.n, f % p.n)
      BY <1>2, <3>1 DEF ResultOf, Elementwise
    <3> QED
      BY <1>2, <2>7, <3>2
  <2>9. z2 = Affine("z") /\ w2 = Affine("w") /\ p.src[1] = Contiguous("x", x)
    BY <1>2, <2>4 DEF z2, w2
  <2> HIDE DEF Affine
  <2>10. ResultOf(p, <<"out", f>>) = Write("out", f, From(c, I))
    BY <2>2, <2>3, <2>5, <2>6, <2>8, <2>9
  <2> QED
    BY <2>10 DEF f
<1> HIDE DEF p, x
<1> QED
  BY <1>1, <1>2, <1>3, <1>4 DEF Right, p

(* The statistics layer_norm writes for a row are over the elements of it. *)
LEMMA StatRight ==
  ASSUME NEW c \in Calls, Regular(c), c.op = "layer_norm", Prepared(c).stage = "ready",
         NEW array \in {"mean", "rstd"}, NEW r \in 0..((Numel(c.x) \div Numel(c.y)) - 1)
  PROVE  ResultOf(Prepared(c).params, <<array, r>>) =
           Write(array, r, <<[q \in 1..Numel(c.y) |-> <<"x", r * Numel(c.y) + q - 1>>]>>)
<1> DEFINE x == c.x
           p == Prepared(c).params
           n == Numel(c.y)
           m == Numel(x) \div n
<1>1. x \in Seq(Nat) /\ c.y \in Seq(Nat)
  BY CallsAssumption
<1>2. p.kernel = "layernorm" /\ p.n = n /\ p.src[1] = Contiguous("x", x)
  BY NormParams
<1>3. n \in Nat /\ n > 0 /\ m \in Nat /\ Numel(x) = m * n
  <2>1. n # 0 /\ Numel(x) % n = 0
    BY <1>1, SuffixRows
  <2>2. n \in Nat /\ Numel(x) \in Nat
    BY <1>1, NumelNat
  <2> HIDE DEF n
  <2>3. n > 0
    BY <2>1, <2>2
  <2>4. m \in Nat /\ Numel(x) = m * n + (Numel(x) % n)
    BY <2>2, <2>3, RowAndColumn
  <2> HIDE DEF m
  <2>5. m * n + 0 = m * n
    BY <2>2, <2>4
  <2> QED
    BY <2>1, <2>2, <2>3, <2>4, <2>5
<1>4. ResultOf(p, <<array, r>>) = Write(array, r, <<Line(p.src[1], r * n, 1, n)>>)
  <2>1. <<array, r>>[1] = array /\ <<array, r>>[2] = r /\ array # "out"
    OBVIOUS
  <2> HIDE DEF p, n
  <2> QED
    BY <1>2, <2>1 DEF ResultOf, StatWrite, Elementwise
<1>5. r \in 0..(m - 1)
  OBVIOUS
<1> HIDE DEF p, n, m, x
<1>6. Line(Contiguous("x", x), r * n, 1, n) = [q \in 1..n |-> <<"x", r * n + q - 1>>]
  <2>1. ASSUME NEW q \in 1..n
        PROVE  Fetch(Contiguous("x", x), r * n + (q - 1) * 1) = <<"x", r * n + q - 1>>
    <3> DEFINE b == q - 1
               g == r * n + b
    <3>1. b \in 0..(n - 1) /\ b * 1 = b
      BY <1>3
    <3>2. g \in 0..(Numel(x) - 1)
      BY <1>3, <1>5, <3>1, InMatrix
    <3>3. g = r * n + q - 1
      <4>1. r * n \in Nat /\ q \in Nat
        BY <1>3, <1>5, ThreeFactors
      <4> QED
        BY <4>1
    <3> HIDE DEF g
    <3>4. Fetch(Contiguous("x", x), g) = <<"x", g>>
      BY <3>2 DEF Fetch, Contiguous
    <3> QED
      BY <3>1, <3>3, <3>4 DEF g
  <2> QED
    BY <2>1 DEF Line
<1> QED
  BY <1>2, <1>4, <1>6 DEF p, n

(* What layer_norm writes, statistics included.                            *)
StatisticsRight(c, p) ==
  /\ c.op = "layer_norm" /\ p.kernel = "layernorm" /\ p.m = Numel(c.x) \div Numel(c.y)
  /\ \A a \in {"mean", "rstd"}, r \in 0..((Numel(c.x) \div Numel(c.y)) - 1) :
       ResultOf(p, <<a, r>>) =
         Write(a, r, <<[q \in 1..Numel(c.y) |-> <<"x", r * Numel(c.y) + q - 1>>]>>)

(* All that a launch of layer_norm writes.                                 *)
LEMMA CoveredStatistics ==
  ASSUME NEW c, NEW p, Right(c, p), StatisticsRight(c, p)
  PROVE  {Results(p)[e] : e \in DOMAIN Results(p)} = Reference(c)
<1> DEFINE A == {"mean", "rstd"}
           M == 0..((Numel(c.x) \div Numel(c.y)) - 1)
           D == {<<"out", i>> : i \in 0..(Numel(p.shape) - 1)}
           S == A \X M
           Stat(a, r) == Write(a, r, <<[q \in 1..Numel(c.y) |-> <<"x", r * Numel(c.y) + q - 1>>]>>)
           R(e) == ResultOf(p, e)
<1>1. DOMAIN Results(p) = D \cup S /\ \A e \in D \cup S : Results(p)[e] = R(e)
  BY DEF Results, Outputs, StatisticsRight
<1>2. OutResults(p) = OutReference(c)
  BY CoveredOut
<1>3. \A a \in A, r \in M : R(<<a, r>>) = Stat(a, r)
  BY DEF StatisticsRight
<1>4. Reference(c) = OutReference(c) \cup {Stat(a, r) : a \in A, r \in M}
  BY DEF Reference, OutReference, Statistics, StatisticsRight
<1> HIDE DEF A, M, Stat, R
<1>5. {R(e) : e \in D} = OutResults(p)
  BY DEF OutResults, R
<1>6. {R(e) : e \in S} = {Stat(a, r) : a \in A, r \in M}
  <2>1. ASSUME NEW e \in S PROVE R(e) \in {Stat(a, r) : a \in A, r \in M}
    <3>1. PICK a \in A, r \in M : e = <<a, r>>
      OBVIOUS
    <3> QED
      BY <1>3, <3>1
  <2>2. ASSUME NEW a \in A, NEW r \in M PROVE \E e \in S : Stat(a, r) = R(e)
    <3>1. <<a, r>> \in S
      OBVIOUS
    <3> QED
      BY <1>3, <3>1
  <2> HIDE DEF S
  <2> QED
    BY <2>1, <2>2
<1> HIDE DEF D, S
<1>7. {Results(p)[e] : e \in D \cup S} = {R(e) : e \in D} \cup {R(e) : e \in S}
  BY <1>1
<1> QED
  BY ONLY <1>1, <1>2, <1>4, <1>5, <1>6, <1>7

(* So layer_norm writes its definition.                                    *)
LEMMA NormCovered ==
  ASSUME NEW c \in Calls, Regular(c), c.op = "layer_norm", Prepared(c).stage = "ready"
  PROVE  {Results(Prepared(c).params)[e] : e \in DOMAIN Results(Prepared(c).params)} = Reference(c)
<1> DEFINE p == Prepared(c).params
<1>1. Right(c, p)
  BY NormRight
<1>2. StatisticsRight(c, p)
  <2>1. p.kernel = "layernorm" /\ p.m = Numel(c.x) \div Numel(c.y)
    BY NormParams
  <2> QED
    BY <2>1, StatRight DEF StatisticsRight
<1> HIDE DEF p
<1>3. {Results(p)[e] : e \in DOMAIN Results(p)} = Reference(c)
  BY ONLY <1>1, <1>2, CoveredStatistics
<1> QED
  BY <1>3 DEF p

(* A regular call launches what writes the operator by its definition.     *)
LEMMA ReadyRight ==
  ASSUME NEW c \in Calls, Regular(c), Prepared(c).stage = "ready"
  PROVE  LET p == Prepared(c).params
         IN  /\ {Results(p)[e] : e \in DOMAIN Results(p)} = Reference(c)
             /\ p.shape = Shape(c)
<1> DEFINE p == Prepared(c).params
<1>1. c.op \in Operators
  BY CallsAssumption
<1>2. Right(c, p)
  BY <1>1, ElementRight, LinearRight, MatmulRight, SoftmaxRight, NormRight, EmbeddingRight
     DEF Operators
<1>3. p.shape = Shape(c)
  BY <1>2 DEF Right
<1>4. CASE c.op = "layer_norm"
  BY <1>3, <1>4, NormCovered
<1>5. CASE c.op # "layer_norm"
  <2>1. Launched(c, p)
    BY Prepares DEF GoodEnd
  <2> HIDE DEF p
  <2>2. p.kernel # "layernorm"
    BY <1>5, <2>1, KernelTells DEF Elementwise
  <2>3. {Results(p)[e] : e \in DOMAIN Results(p)} = Reference(c)
    BY <1>2, <1>5, <2>2, Covered
  <2> QED
    BY <1>3, <2>3 DEF p
<1> QED
  BY <1>4, <1>5

(* A call that returns without a launch has no elements.                   *)
LEMMA EmptyRows ==
  ASSUME NEW x \in Seq(Nat), x # <<>>, NEW n \in Nat, Numel(Front1(x)) = 0 \/ n = 0
  PROVE  WithLast(x, n) \in Seq(Nat) /\ Numel(WithLast(x, n)) = 0
<1> DEFINE t == Front1(x)
<1>1. t \in Seq(Nat)
  BY LastApart
<1>2. Numel(t) \in Nat
  BY <1>1, NumelNat
<1> HIDE DEF t
<1>3. Numel(Append(t, n)) = Numel(t) * n /\ Append(t, n) \in Seq(Nat)
  BY <1>1, NumelAppend
<1>4. Numel(t) * n = 0
  BY <1>2 DEF t
<1> QED
  BY <1>3, <1>4 DEF WithLast, t

(* A product that returns without a launch has no elements.                *)
LEMMA EmptyLayer ==
  ASSUME NEW c \in Calls, Regular(c), c.op \in MatrixOps, Prepared(c).stage = "empty"
  PROVE  Shape(c) \in Seq(Nat) /\ Numel(Shape(c)) = 0
<1> DEFINE x == c.x
           y == c.y
           xs == <<Numel(x) \div Size(x, 1), Size(x, 1)>>
<1>0. x \in Seq(Nat) /\ y \in Seq(Nat)
  BY CallsAssumption DEF MatrixOps
<1>1. Refused.stage # "empty" /\ Crashed.stage # "empty"
  BY DEF Refused, Crashed, Ends
<1>2. ASSUME x # <<>>, Len(y) = 2, NEW n, n \in {y[1], y[2]}, Shape(c) = WithLast(x, n),
             Numel(Front1(x)) = 0 \/ n = 0
      PROVE  Shape(c) \in Seq(Nat) /\ Numel(Shape(c)) = 0
  <2>1. n \in Nat
    BY <1>0, <1>2, MatrixShape
  <2> HIDE DEF x
  <2> QED
    BY <1>0, <1>2, <2>1, EmptyRows
<1>3. ASSUME x # <<>>, Size(x, 1) # 0 PROVE xs[1] = Numel(Front1(x))
  BY <1>0, <1>3, RowsOf
<1>4. CASE c.op \in {"linear", "linear_act_t"}
  <2>1. x # <<>> /\ Len(y) = 2 /\ Size(x, 1) # 0 /\ Size(x, 1) = y[2] /\ Shape(c) = WithLast(x, y[1])
    BY <1>4 DEF Regular, Shape
  <2>2. GemmBiasAct(xs, y, c.z, TRUE, WithLast(x, y[1])).stage = "empty"
    BY <1>1, <1>4, <2>1 DEF Prepared, Linear, LinearAct
  <2>3. xs[1] = 0 \/ y[1] = 0
    BY <2>2 DEF GemmBiasAct, Refused, Ready, Ends
  <2> QED
    BY <1>2, <1>3, <2>1, <2>3
<1>5. CASE c.op = "linear_act"
  <2>1. x # <<>> /\ Len(y) = 2 /\ Size(x, 1) # 0 /\ Size(x, 1) = y[1] /\ Shape(c) = WithLast(x, y[2])
    BY <1>5 DEF Regular, Shape, Size
  <2>2. GemmBiasAct(xs, y, c.z, FALSE, WithLast(x, y[2])).stage = "empty"
    BY <1>1, <1>5, <2>1 DEF Prepared, LinearAct
  <2>3. xs[1] = 0 \/ y[2] = 0
    BY <2>2 DEF GemmBiasAct, Refused, Ready, Ends
  <2> QED
    BY <1>2, <1>3, <2>1, <2>3
<1>6. ASSUME Len(x) = 2, Len(y) = 2, c.op \in {"mm", "matmul"},
             GemmBiasAct(x, y, Absent, FALSE, <<x[1], y[2]>>).stage = "empty"
      PROVE  Shape(c) \in Seq(Nat) /\ Numel(Shape(c)) = 0
  <2>1. x[1] = 0 \/ y[2] = 0
    BY <1>6 DEF GemmBiasAct, Refused, Ready, Ends
  <2>2. x # <<>> /\ Shape(c) = WithLast(x, y[2])
    BY <1>6 DEF Shape, Size
  <2>3. Numel(Front1(x)) = x[1]
    BY <1>0, <1>6, PairRows
  <2> QED
    BY <1>2, <1>6, <2>1, <2>2, <2>3
<1>7. CASE c.op = "mm"
  <2>1. Len(x) = 2 /\ Len(y) = 2
    BY <1>7 DEF Regular
  <2>2. GemmBiasAct(x, y, Absent, FALSE, <<x[1], y[2]>>).stage = "empty"
    BY <1>7, <2>1 DEF Prepared, Mm
  <2> QED
    BY <1>6, <1>7, <2>1, <2>2
<1>8. CASE c.op \in {"matmul", "bmm"}
  <2>1. \A a, b, e, g : Batched(a, b, e, g).stage # "empty"
    BY DEF Batched, Ready
  <2>2. Matmul(x, y).stage = "empty" /\ (c.op = "bmm" => Len(x) = 3)
    BY <1>1, <1>8 DEF Prepared, Bmm
  <2>3. Len(x) = 2 /\ Len(y) = 2
    BY <1>1, <2>1, <2>2 DEF Matmul
  <2>4. Matmul(x, y) = GemmBiasAct(x, y, Absent, FALSE, <<x[1], y[2]>>)
    BY <2>3 DEF Matmul, Matmul2D
  <2>5. GemmBiasAct(x, y, Absent, FALSE, <<x[1], y[2]>>).stage = "empty"
    BY ONLY <2>2, <2>4
  <2>6. c.op = "matmul"
    BY <1>8, <2>2, <2>3
  <2> QED
    BY ONLY <1>6, <2>3, <2>5, <2>6
<1> QED
  BY <1>4, <1>5, <1>7, <1>8 DEF MatrixOps

(* So for any operator that returns without a launch, nothing is left to   *)
(* write.                                                                  *)
LEMMA EmptyReference ==
  ASSUME NEW c \in Calls, Regular(c), Prepared(c).stage = "empty"
  PROVE  Reference(c) = {}
<1>0. /\ c.op \in Operators /\ c.x \in Seq(Nat)
      /\ c.op \notin {"fill", "unary", "softmax"} => c.y \in Seq(Nat)
  BY CallsAssumption
<1>1. Refused.stage # "empty" /\ \A p : Ready(p).stage # "empty"
  BY DEF Refused, Ends, Ready
<1>2. Shape(c) \in Seq(Nat) /\ Numel(Shape(c)) = 0 /\ c.op # "layer_norm"
  <2>1. CASE c.op \in MatrixOps
    BY <2>1, EmptyLayer DEF MatrixOps
  <2>2. CASE c.op = "fill"
    BY <1>0, <1>1, <2>2 DEF Prepared, Filled, Launch1, Shape
  <2>3. c.op \notin {"unary", "binary", "pointwise", "softmax", "layer_norm"}
    BY <1>1 DEF Prepared, Unary, Binary, PointwiseOp, Softmax, LayerNorm, Launch1
  <2>4. CASE c.op = "embedding"
    <3>1. c.y \in Seq(Nat) /\ Len(c.y) = 2 /\ Shape(c) = Append(c.x, c.y[2])
      BY <1>0, <2>4 DEF Regular, Shape
    <3>2. Numel(c.x) = 0 \/ c.y[2] = 0
      BY <1>1, <2>4 DEF Prepared, Embedding
    <3>3. c.y[2] \in Nat /\ Numel(c.x) \in Nat
      BY <1>0, <3>1, MatrixShape, NumelNat
    <3> DEFINE x == c.x
               n == c.y[2]
    <3>4. x \in Seq(Nat) /\ n \in Nat /\ Numel(x) \in Nat /\ (Numel(x) = 0 \/ n = 0)
          /\ Shape(c) = Append(x, n)
      BY <1>0, <3>1, <3>2, <3>3
    <3> HIDE DEF x, n
    <3>5. Numel(Append(x, n)) = Numel(x) * n /\ Append(x, n) \in Seq(Nat)
      BY <3>4, NumelAppend
    <3>6. Numel(x) * n = 0
      BY ONLY <3>4
    <3> QED
      BY <2>4, <3>4, <3>5, <3>6
  <2> QED
    BY <1>0, <2>1, <2>2, <2>3, <2>4 DEF Operators, MatrixOps
<1>3. Indices(Shape(c)) = {}
  BY <1>2, NoIndices
<1> QED
  BY <1>2, <1>3 DEF Reference, Statistics

-----------------------------------------------------------------------------
(* What is written, once the launch ran, and before.                       *)
WrittenIs ==
  /\ stage \in {"ran", "returned"} =>
       written = {Results(params)[e] : e \in DOMAIN Results(params)}
  /\ stage \in {"called", "ready", "running", "empty"} => written = {}

(* A launch writes its results, all at once.                               *)
LEMMA WrittenAlways == Spec => []WrittenIs
<1>1. Init => WrittenIs
  BY DEF Init, WrittenIs
<1>2. IInv /\ WrittenIs /\ [Next]_vars => WrittenIs'
  <2> SUFFICES ASSUME IInv, WrittenIs, [Next]_vars PROVE WrittenIs'
    OBVIOUS
  <2>1. CASE Prepare
    <3>1. Prepared(call).stage \in {"ready", "refused", "crashed", "empty"}
      BY Prepares DEF IInv, TypeOK, GoodEnd
    <3>2. stage = "called" /\ stage' = Prepared(call).stage /\ written' = written
      BY <2>1 DEF Prepare
    <3> QED
      BY <3>1, <3>2 DEF WrittenIs
  <2>2. CASE Launch
    BY <2>2 DEF Launch, WrittenIs
  <2>3. CASE LaunchThrows
    BY <2>3 DEF LaunchThrows, WrittenIs
  <2>4. CASE RunItems
    <3>1. /\ stage = "running" /\ stage' = "ran" /\ (backend = "opencl" => FitsInt(params))
          /\ written' = AllWrites(Items) /\ params' = params
      BY <2>4 DEF RunItems
    <3>2. /\ Launched(call, params) /\ IsParams(params) /\ backend \in {"sim", "opencl"}
          /\ backend = "opencl" => ~HasNull(params)
      BY <3>1 DEF IInv, TypeOK, ParamsKept, Enqueued
    <3>3. \E own : Once(Items, Results(params), own)
      BY <3>1, <3>2, HostOnce, DeviceOnce DEF Items
    <3>4. AllWrites(Items) = {Results(params)[e] : e \in DOMAIN Results(params)}
      BY <3>3, OnceWrites
    <3>5. written' = {Results(params')[e] : e \in DOMAIN Results(params')}
      BY <3>1, <3>4
    <3> QED
      BY <3>1, <3>5 DEF WrittenIs
  <2>5. CASE RunBeyondInt
    BY <2>5 DEF RunBeyondInt, WrittenIs
  <2>6. CASE Return
    BY <2>6 DEF Return, WrittenIs
  <2>7. CASE UNCHANGED vars
    BY <2>7 DEF vars, WrittenIs
  <2> QED
    BY <2>1, <2>2, <2>3, <2>4, <2>5, <2>6, <2>7 DEF Next
<1> QED
  BY <1>1, <1>2, Inductive, PTL DEF Spec

(* A regular call returns what the operator is by its definition, element  *)
(* by element and in the order of the sums, on both backends, for every    *)
(* shape, tile and size of the work-groups, and its result has the shape   *)
(* of the definition (LlmOps.cpp:68-264, AtenCommon.h:35-86,               *)
(* CustomOps.cpp:14-89).                                                   *)
THEOREM ByDefinition == Spec => []RightResult
<1>1. IInv /\ Follows /\ WrittenIs => RightResult
  <2> SUFFICES ASSUME IInv, Follows, WrittenIs, Regular(call),
                      stage \in {"ran", "returned", "empty"}
               PROVE  /\ written = Reference(call)
                      /\ stage # "empty" => params.shape = Shape(call)
    BY DEF RightResult
  <2>1. call \in Calls
    BY DEF IInv, TypeOK
  <2>2. CASE stage \in {"ran", "returned"}
    <3>1. Prepared(call).stage = "ready" /\ params = Prepared(call).params
      BY <2>2 DEF Follows
    <3>2. written = {Results(params)[e] : e \in DOMAIN Results(params)}
      BY <2>2 DEF WrittenIs
    <3> QED
      BY <2>1, <3>1, <3>2, ReadyRight
  <2>3. CASE stage = "empty"
    <3>1. Prepared(call).stage = "empty" /\ written = {}
      BY <2>3 DEF Follows, WrittenIs
    <3> QED
      BY <2>1, <2>3, <3>1, EmptyReference
  <2> QED
    BY <2>2, <2>3
<1> QED
  BY <1>1, Inductive, FollowsAlways, WrittenAlways, PTL

=============================================================================
