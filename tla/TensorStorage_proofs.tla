------------------------ MODULE TensorStorage_proofs ------------------------
(***************************************************************************)
(* The properties of TensorStorage for any numbers of tensors, storages    *)
(* and values, any bounds and both backends. TypeOK and                    *)
(* InBoundsUnlessBroken are inductive together. Whatever a metadata        *)
(* operation does, it replaces one view and lets storages only grow; a     *)
(* data operation replaces the content of one storage and keeps its size:  *)
(* the lemmas MetadataKeeps, DataKeeps and CopyKeeps say so once for all.  *)
(***************************************************************************)
EXTENDS TensorStorage, TLAPS

IndInv == TypeOK /\ InBoundsUnlessBroken

Values == Vals \cup {Junk}

(* m holds what the storages held, or more.                                *)
Extends(m) ==
  \A s \in Storages : mem[s] # Free =>
    /\ m[s] # Free
    /\ \A p \in DOMAIN mem[s] : p \in DOMAIN m[s] /\ m[s][p] = mem[s][p]

-----------------------------------------------------------------------------
(* A block is a sequence of at most MaxLen values.                         *)
LEMMA BlockFacts ==
  ASSUME NEW m \in Blocks
  PROVE  /\ Len(m) \in 0..MaxLen /\ DOMAIN m = 1..Len(m)
         /\ \A p \in DOMAIN m : m[p] \in Values
         /\ m # Free
BY BoundsAssumption, FreeAssumption DEF Blocks, Values

(* A function on 1..n to values is a block.                                *)
LEMMA MakesBlock ==
  ASSUME NEW n \in 0..MaxLen, NEW f, DOMAIN f = 1..n, f = [i \in 1..n |-> f[i]],
         \A i \in 1..n : f[i] \in Values
  PROVE  f \in Blocks /\ Len(f) = n
<1>1. n \in Nat /\ n <= MaxLen
  BY BoundsAssumption
<1>2. f \in [1..n -> Values]
  OBVIOUS
<1>3. f \in Seq(Values)
  BY <1>1, <1>2
<1>4. Len(f) = n
  BY <1>1, <1>3
<1> QED
  BY <1>1, <1>3, <1>4 DEF Blocks, Values

(* What an operation allocates is a block.                                 *)
LEMMA FreshBlock ==
  ASSUME NEW n \in 0..MaxLen
  PROVE  Fresh(n) \in Blocks /\ Len(Fresh(n)) = n /\ DOMAIN Fresh(n) = 1..n
<1>1. DOMAIN Fresh(n) = 1..n /\ Fresh(n) = [i \in 1..n |-> Fresh(n)[i]]
  BY DEF Fresh
<1>2. \A i \in 1..n : Fresh(n)[i] \in Values
  BY DEF Fresh, Values
<1> QED
  BY <1>1, <1>2, MakesBlock

(* A grown block holds what it held before.                                *)
LEMMA GrownBlock ==
  ASSUME NEW m \in Blocks, NEW n \in 0..MaxLen, Len(m) <= n
  PROVE  /\ Grown(m, n) \in Blocks /\ DOMAIN Grown(m, n) = 1..n
         /\ \A p \in DOMAIN m : p \in 1..n /\ Grown(m, n)[p] = m[p]
<1> DEFINE g == Grown(m, n)
<1>1. DOMAIN g = 1..n /\ g = [i \in 1..n |-> g[i]]
  BY DEF Grown
<1>2. \A i \in 1..n : g[i] \in Values
  BY BlockFacts DEF Grown, Values
<1>3. \A p \in DOMAIN m : p \in 1..n
  BY BlockFacts, BoundsAssumption
<1>4. \A p \in DOMAIN m : g[p] = m[p]
  BY <1>3 DEF Grown
<1> HIDE DEF g
<1> QED
  BY <1>1, <1>2, <1>3, <1>4, MakesBlock DEF g

(* Writing through a view keeps the size of a block and what lies outside  *)
(* of the view.                                                            *)
LEMMA WrittenBlock ==
  ASSUME NEW m \in Blocks, NEW v \in Views, NEW vals, 
         \A i \in 1..v.size : vals[i] \in Values
  PROVE  /\ Write(m, v, vals) \in Blocks
         /\ DOMAIN Write(m, v, vals) = DOMAIN m
         /\ \A p \in DOMAIN m \ Places(v) : Write(m, v, vals)[p] = m[p]
<1> DEFINE w == Write(m, v, vals)
<1>1. DOMAIN w = DOMAIN m /\ w = [p \in DOMAIN m |-> w[p]]
  BY DEF Write
<1>2. ASSUME NEW p \in DOMAIN m PROVE w[p] \in Values
  <2>1. CASE p \notin Places(v)
    BY <2>1, BlockFacts DEF Write
  <2>2. CASE p \in Places(v)
    <3>1. (CHOOSE i \in 1..v.size : Place(v, i) = p) \in 1..v.size
      BY <2>2 DEF Places
    <3> QED
      BY <2>2, <3>1 DEF Write
  <2> QED
    BY <2>1, <2>2
<1>3. \A p \in DOMAIN m \ Places(v) : w[p] = m[p]
  BY DEF Write
<1> HIDE DEF w
<1>4. w \in Blocks
  BY <1>1, <1>2, BlockFacts, MakesBlock
<1> QED
  BY <1>1, <1>3, <1>4 DEF w

(* Reading through a view that fits gives a block as long as the view.     *)
LEMMA ReadBlock ==
  ASSUME NEW m \in Blocks, NEW v \in Views, Fits(v, m)
  PROVE  /\ Read(m, v) \in Blocks /\ Len(Read(m, v)) = v.size
         /\ DOMAIN Read(m, v) = 1..v.size
         /\ \A i \in 1..v.size : /\ Read(m, v)[i] = m[Place(v, i)]
                                 /\ Read(m, v)[i] \in Values
<1> DEFINE r == Read(m, v)
<1>1. DOMAIN r = 1..v.size /\ r = [i \in 1..v.size |-> r[i]]
  BY DEF Read
<1>2. \A i \in 1..v.size : r[i] = m[Place(v, i)] /\ r[i] \in Values
  BY BlockFacts DEF Read, Fits, Places
<1>3. v.size \in 0..MaxLen
  BY DEF Views
<1> HIDE DEF r
<1> QED
  BY <1>1, <1>2, <1>3, MakesBlock DEF r

(* What a copy broadcasts to n elements are values.                        *)
LEMMA SpreadValues ==
  ASSUME NEW vals \in Seq(Values), NEW n \in Nat, Broadcasts(vals, n)
  PROVE  \A i \in 1..n : Spread(vals, n)[i] \in Values
BY DEF Broadcasts, Spread

-----------------------------------------------------------------------------
(* What every step does: it keeps the invariant and, on the simulator,     *)
(* what lies outside of the view written.                                  *)
StepOK == IndInv' /\ (backend = "sim" => OthersKept)

(* A metadata operation replaces one view, by one that fits unless it      *)
(* throws, and lets the storages that stay referenced only grow.           *)
LEMMA MetadataKeeps ==
  ASSUME IndInv, NEW t \in Tensors, NEW m \in [Storages -> Blocks \cup {Free}],
         NEW v \in Views \cup {NoView}, NEW exc \in BOOLEAN, Extends(m),
         v # NoView => m[v.st] # Free /\ (exc \/ Fits(v, m[v.st])),
         Metadata(t, m, v, exc)
  PROVE  StepOK
<1> DEFINE vw == [view EXCEPT ![t] = v]
<1>1. /\ mem' = [s \in Storages |-> IF Referenced(vw, s) THEN m[s] ELSE Free]
      /\ view' = vw /\ backend' = backend
      /\ broken' = IF exc THEN broken \cup {t} ELSE broken \ {t}
      /\ target' = NoView /\ threw' = exc
  BY DEF Metadata, Become
<1>2. /\ vw \in [Tensors -> Views \cup {NoView}]
      /\ vw[t] = v /\ \A u \in Tensors \ {t} : vw[u] = view[u]
  BY DEF IndInv, TypeOK
<1>3. \A u \in Tensors : vw[u] # NoView =>
        vw[u].st \in Storages /\ m[vw[u].st] # Free /\ mem'[vw[u].st] = m[vw[u].st]
  <2> SUFFICES ASSUME NEW u \in Tensors, vw[u] # NoView
               PROVE  vw[u].st \in Storages /\ m[vw[u].st] # Free
                      /\ mem'[vw[u].st] = m[vw[u].st]
    OBVIOUS
  <2>1. vw[u].st \in Storages
    BY <1>2 DEF Views
  <2>2. mem'[vw[u].st] = m[vw[u].st]
    BY <2>1, <1>1 DEF Referenced
  <2>3. m[vw[u].st] # Free
    BY <2>1, <1>2 DEF IndInv, TypeOK, Live, Extends
  <2> QED
    BY <2>1, <2>2, <2>3
<1> HIDE DEF vw
<1>4. TypeOK'
  <2>1. mem' \in [Storages -> Blocks \cup {Free}]
    BY <1>1
  <2>2. \A s \in Storages : mem'[s] # Free <=> \E u \in Tensors : Live(u)' /\ view'[u].st = s
    BY <1>1, <1>3 DEF Referenced, Live
  <2>3. broken' \subseteq Tensors
    BY <1>1 DEF IndInv, TypeOK
  <2> QED
    BY <1>1, <1>2, <2>1, <2>2, <2>3 DEF IndInv, TypeOK
<1>5. InBoundsUnlessBroken'
  <2> SUFFICES ASSUME NEW u \in Tensors, vw[u] # NoView, u \notin broken'
               PROVE  Fits(vw[u], m[vw[u].st])
    BY <1>1, <1>3 DEF InBoundsUnlessBroken, Live, Content
  <2>1. CASE u = t
    BY <2>1, <1>1, <1>2
  <2>2. CASE u # t
    <3>1. u \notin broken /\ vw[u] = view[u]
      BY <2>2, <1>1, <1>2
    <3>2. Fits(view[u], mem[view[u].st]) /\ mem[view[u].st] # Free
      BY <3>1, <1>3 DEF IndInv, InBoundsUnlessBroken, TypeOK, Live, Content
    <3> QED
      BY <3>1, <3>2, <1>3 DEF Fits, Extends
  <2> QED
    BY <2>1, <2>2
<1>6. OthersKept
  BY <1>1 DEF OthersKept, Extends
<1> QED
  BY <1>4, <1>5, <1>6 DEF StepOK, IndInv

(* A data operation replaces the content of the storage of its tensor,     *)
(* within the view, and keeps the size.                                    *)
LEMMA DataKeeps ==
  ASSUME IndInv, NEW t \in Tensors, Live(t), NEW m \in Blocks,
         DOMAIN m = DOMAIN Content(view[t]),
         backend = "sim" =>
           \A p \in DOMAIN m \ Places(view[t]) : m[p] = Content(view[t])[p],
         Data(t, m)
  PROVE  StepOK
<1>1. /\ mem' = [mem EXCEPT ![view[t].st] = m] /\ target' = t /\ threw' = FALSE
      /\ UNCHANGED <<backend, view, broken>>
  BY DEF Data
<1>2. view[t] \in Views /\ view[t].st \in Storages /\ mem[view[t].st] # Free
  BY DEF IndInv, TypeOK, Live, Views
<1>3. m # Free
  BY BlockFacts
<1>4. TypeOK'
  <2>1. mem' \in [Storages -> Blocks \cup {Free}]
    BY <1>1 DEF IndInv, TypeOK
  <2>2. \A s \in Storages : mem'[s] # Free <=> mem[s] # Free
    BY <1>1, <1>2, <1>3 DEF IndInv, TypeOK
  <2> QED
    BY <1>1, <2>1, <2>2 DEF IndInv, TypeOK, Live
<1>5. InBoundsUnlessBroken'
  <2> SUFFICES ASSUME NEW u \in Tensors, Live(u), u \notin broken
               PROVE  Fits(view[u], mem'[view[u].st])
    BY <1>1 DEF InBoundsUnlessBroken, Live, Content
  <2>1. Fits(view[u], mem[view[u].st]) /\ view[u].st \in Storages
    BY DEF IndInv, InBoundsUnlessBroken, Content, TypeOK, Live, Views
  <2>2. DOMAIN mem'[view[u].st] = DOMAIN mem[view[u].st]
    BY <1>1, <1>2, <2>1 DEF IndInv, TypeOK, Content
  <2> QED
    BY <2>1, <2>2 DEF Fits
<1>6. ASSUME backend = "sim" PROVE OthersKept
  <2> SUFFICES ASSUME NEW s \in Storages, NEW p \in DOMAIN mem[s],
                      p \notin ReachedBy(target', s)
               PROVE  p \in DOMAIN mem'[s] /\ mem'[s][p] = mem[s][p]
    BY DEF OthersKept
  <2>1. CASE s # view[t].st
    BY <2>1, <1>1 DEF IndInv, TypeOK
  <2>2. CASE s = view[t].st
    <3>1. t # NoView /\ view'[t] # NoView
      BY <1>1, NoViewAssumption DEF Live
    <3>2. p \notin Places(view[t])
      BY <3>1, <2>2, <1>1 DEF ReachedBy
    <3>3. mem'[s] = m
      BY <2>2, <1>1, <1>2 DEF IndInv, TypeOK
    <3> QED
      BY <1>6, <2>2, <3>2, <3>3 DEF Content
  <2> QED
    BY <2>1, <2>2
<1> QED
  BY <1>4, <1>5, <1>6 DEF StepOK, IndInv

(* An operation that throws changes nothing.                               *)
LEMMA ThrowKeeps ==
  ASSUME IndInv, NEW t \in Tensors, Throw(t)
  PROVE  StepOK
<1>1. UNCHANGED <<backend, mem, view, broken>> /\ target' = t /\ threw' = TRUE
  BY DEF Throw
<1>2. IndInv'
  BY <1>1 DEF IndInv, TypeOK, InBoundsUnlessBroken, Live, Fits, Content, Places, Place
<1>3. OthersKept
  BY <1>1 DEF OthersKept
<1> QED
  BY <1>2, <1>3 DEF StepOK

(* What the tensor of a data operation refers to.                          *)
LEMMA UsableFacts ==
  ASSUME IndInv, NEW t \in Tensors, Usable(t)
  PROVE  /\ Live(t) /\ view[t] \in Views /\ view[t].size \in 0..MaxLen
         /\ Content(view[t]) \in Blocks /\ Fits(view[t], Content(view[t]))
BY DEF IndInv, TypeOK, Usable, Live, Content, Views

(* A copy of values into a tensor, on both backends and both paths.        *)
LEMMA CopyKeeps ==
  ASSUME IndInv, NEW t \in Tensors, Usable(t), NEW vals \in Seq(Values), CopyInto(t, vals)
  PROVE  StepOK
<1> DEFINE v == view[t]
           m == Content(v)
<1>1. /\ Live(t) /\ v \in Views /\ v.size \in Nat /\ m \in Blocks
  BY UsableFacts, BoundsAssumption
<1>2. CASE Data(t, m)
  BY <1>1, <1>2, DataKeeps
<1>3. CASE /\ Broadcasts(vals, v.size) /\ SlowPath(v, vals)
           /\ Data(t, Write(Unwritten(m), v, Spread(vals, v.size)))
  <2>1. Unwritten(m) \in Blocks /\ DOMAIN Unwritten(m) = DOMAIN m
    BY <1>1, FreshBlock, BlockFacts DEF Unwritten
  <2>2. \A i \in 1..v.size : Spread(vals, v.size)[i] \in Values
    BY <1>1, <1>3, SpreadValues
  <2> DEFINE w == Write(Unwritten(m), v, Spread(vals, v.size))
  <2>3. w \in Blocks /\ DOMAIN w = DOMAIN m
    BY <1>1, <2>1, <2>2, WrittenBlock
  <2>4. backend # "sim"
    BY <1>3 DEF SlowPath
  <2> HIDE DEF w
  <2>5. Data(t, w)
    BY <1>3 DEF w
  <2> QED
    BY <1>1, <2>3, <2>4, <2>5, DataKeeps
<1>4. CASE /\ Broadcasts(vals, v.size) /\ PointerAccepted(v)
           /\ Data(t, Write(m, v, Spread(vals, v.size)))
  <2>1. \A i \in 1..v.size : Spread(vals, v.size)[i] \in Values
    BY <1>1, <1>4, SpreadValues
  <2> DEFINE w == Write(m, v, Spread(vals, v.size))
  <2>2. /\ w \in Blocks /\ DOMAIN w = DOMAIN m
        /\ \A p \in DOMAIN w \ Places(v) : w[p] = m[p]
    BY <1>1, <2>1, WrittenBlock
  <2> HIDE DEF w
  <2>3. Data(t, w)
    BY <1>4 DEF w
  <2> QED
    BY <1>1, <2>2, <2>3, DataKeeps
<1>5. CASE ~PointerAccepted(v) /\ Throw(t)
  BY <1>5, ThrowKeeps
<1> QED
  BY <1>2, <1>3, <1>4, <1>5 DEF CopyInto

(* resize_ and copy in one call: the storage grows if it has to, and only  *)
(* the view of the tensor is written.                                      *)
LEMMA ResizeAndCopyKeeps ==
  ASSUME IndInv, NEW t \in Tensors, Live(t), NEW v \in Views, v.st = view[t].st,
         NEW m \in Blocks, Fits(v, m), NEW vals, \A i \in 1..v.size : vals[i] \in Values,
         \A p \in DOMAIN Content(view[t]) : p \in DOMAIN m /\ m[p] = Content(view[t])[p],
         ResizeAndCopy(t, v, m, vals)
  PROVE  StepOK
<1> DEFINE w == IF PointerAccepted(v) THEN Write(m, v, vals) ELSE m
<1>1. /\ w \in Blocks /\ DOMAIN w = DOMAIN m
      /\ \A p \in DOMAIN m \ Places(v) : w[p] = m[p]
  BY WrittenBlock
<1>2. /\ mem' = [mem EXCEPT ![v.st] = w] /\ view' = [view EXCEPT ![t] = v]
      /\ broken' = broken \ {t} /\ target' = t /\ backend' = backend
      /\ threw' = (vals # <<>> /\ ~PointerAccepted(v))
  BY DEF ResizeAndCopy
<1> HIDE DEF w
<1>3. /\ v.st \in Storages /\ mem[v.st] # Free /\ w # Free /\ v # NoView /\ t # NoView
      /\ view[t] # NoView
  BY <1>1, BlockFacts, NoViewAssumption DEF IndInv, TypeOK, Live, Views
<1>4. /\ mem'[v.st] = w /\ view'[t] = v
      /\ \A s \in Storages \ {v.st} : mem'[s] = mem[s]
      /\ \A u \in Tensors \ {t} : view'[u] = view[u]
  BY <1>2, <1>3 DEF IndInv, TypeOK
<1>5. TypeOK'
  <2>1. mem' \in [Storages -> Blocks \cup {Free}] /\ view' \in [Tensors -> Views \cup {NoView}]
    BY <1>1, <1>2 DEF IndInv, TypeOK
  <2>2. ASSUME NEW s \in Storages
        PROVE  mem'[s] # Free <=> \E u \in Tensors : Live(u)' /\ view'[u].st = s
    <3>1. CASE s = v.st
      BY <3>1, <1>3, <1>4 DEF Live
    <3>2. CASE s # v.st
      BY <3>2, <1>3, <1>4 DEF Live, IndInv, TypeOK
    <3> QED
      BY <3>1, <3>2
  <2>3. threw' \in BOOLEAN
    BY <1>2
  <2> QED
    BY <1>2, <2>1, <2>2, <2>3 DEF IndInv, TypeOK
<1>6. InBoundsUnlessBroken'
  <2> SUFFICES ASSUME NEW u \in Tensors, view'[u] # NoView, u \notin broken'
               PROVE  Fits(view'[u], mem'[view'[u].st])
    BY DEF InBoundsUnlessBroken, Live, Content
  <2>1. CASE u = t
    BY <2>1, <1>1, <1>4 DEF Fits
  <2>2. CASE u # t
    <3>1. /\ view'[u] = view[u] /\ Fits(view[u], mem[view[u].st])
          /\ view[u].st \in Storages
      BY <2>2, <1>2, <1>4 DEF IndInv, InBoundsUnlessBroken, Live, Content, TypeOK, Views
    <3>2. \A p \in DOMAIN mem[view[u].st] : p \in DOMAIN mem'[view[u].st]
      BY <3>1, <1>1, <1>4 DEF Content
    <3> QED
      BY <3>1, <3>2 DEF Fits
  <2> QED
    BY <2>1, <2>2
<1>7. OthersKept
  <2> SUFFICES ASSUME NEW s \in Storages, NEW p \in DOMAIN mem[s],
                      p \notin ReachedBy(target', s)
               PROVE  p \in DOMAIN mem'[s] /\ mem'[s][p] = mem[s][p]
    BY DEF OthersKept
  <2>1. CASE s # v.st
    BY <2>1, <1>4
  <2>2. CASE s = v.st
    <3>1. p \notin Places(v)
      BY <2>2, <1>2, <1>3, <1>4 DEF ReachedBy
    <3> QED
      BY <2>2, <3>1, <1>1, <1>4 DEF Content
  <2> QED
    BY <2>1, <2>2
<1> QED
  BY <1>5, <1>6, <1>7 DEF StepOK, IndInv

-----------------------------------------------------------------------------
(* A view of a whole block starts at its base and fits.                    *)
LEMMA NewViewFits ==
  ASSUME NEW s \in Storages, NEW n \in 0..MaxLen, NEW m \in Blocks, Len(m) = n
  PROVE  NewView(s, n) \in Views /\ NewView(s, n).st = s /\ Fits(NewView(s, n), m)
<1>1. NewView(s, n) \in Views /\ NewView(s, n).st = s
  BY DEF NewView, Views
<1>2. \A i \in 1..n : Place(NewView(s, n), i) = i
  BY BoundsAssumption DEF NewView, Place
<1>3. NewView(s, n).size = n
  BY DEF NewView
<1> QED
  BY <1>1, <1>2, <1>3, BlockFacts DEF Fits, Places

(* A contiguous view fits when its offset and size are within the block.   *)
LEMMA NeededFits ==
  ASSUME NEW v \in Views, v.stride = 1, NEW m \in Blocks, Needed(v) <= Len(m)
  PROVE  Fits(v, m)
<1>1. v.off \in Nat /\ v.size \in Nat /\ Len(m) \in Nat /\ DOMAIN m = 1..Len(m)
  BY BoundsAssumption, BlockFacts DEF Views
<1>2. \A i \in 1..v.size : Place(v, i) = v.off + i
  BY <1>1 DEF Place
<1> QED
  BY <1>1, <1>2 DEF Fits, Places, Needed

(* A new storage for a new tensor.                                         *)
LEMMA AllocationKeeps ==
  ASSUME IndInv, NEW t \in Tensors, NEW s \in Storages, mem[s] = Free,
         NEW n \in 0..MaxLen, NEW m \in Blocks, Len(m) = n,
         Metadata(t, [mem EXCEPT ![s] = m], NewView(s, n), FALSE)
  PROVE  StepOK
<1> DEFINE mm == [mem EXCEPT ![s] = m]
<1>1. mm \in [Storages -> Blocks \cup {Free}] /\ mm[s] = m /\ Extends(mm)
  BY DEF IndInv, TypeOK, Extends
<1>2. NewView(s, n) \in Views /\ NewView(s, n).st = s /\ Fits(NewView(s, n), m) /\ m # Free
  BY NewViewFits, BlockFacts
<1> HIDE DEF mm
<1>3. Metadata(t, mm, NewView(s, n), FALSE)
  BY DEF mm
<1> QED
  BY <1>1, <1>2, <1>3, MetadataKeeps

(* Creating and dropping a tensor.                                         *)
LEMMA StepCreate ==
  ASSUME IndInv, NEW t \in Tensors,
         Empty(t) \/ (\E x \in Vals : Filled(t, x)) \/ (\E u \in Tensors : Clone(t, u)) \/ Drop(t)
  PROVE  StepOK
<1>1. CASE Empty(t)
  <2>1. PICK s \in Storages, n \in Sizes :
          mem[s] = Free /\ Metadata(t, [mem EXCEPT ![s] = Fresh(n)], NewView(s, n), FALSE)
    BY <1>1 DEF Empty
  <2>2. n \in 0..MaxLen /\ Fresh(n) \in Blocks /\ Len(Fresh(n)) = n
    BY BoundsAssumption, FreshBlock
  <2> QED
    BY <2>1, <2>2, AllocationKeeps
<1>2. ASSUME NEW x \in Vals, Filled(t, x) PROVE StepOK
  <2>1. PICK s \in Storages, n \in Sizes :
          /\ mem[s] = Free
          /\ Metadata(t, [mem EXCEPT ![s] = [i \in 1..n |-> x]], NewView(s, n), FALSE)
    BY <1>2 DEF Filled
  <2> DEFINE m == [i \in 1..n |-> x]
  <2>2. n \in 0..MaxLen /\ m = [i \in 1..n |-> m[i]] /\ DOMAIN m = 1..n
        /\ \A i \in 1..n : m[i] \in Values
    BY BoundsAssumption DEF Values
  <2> HIDE DEF m
  <2>3. m \in Blocks /\ Len(m) = n
    BY <2>2, MakesBlock
  <2>4. Metadata(t, [mem EXCEPT ![s] = m], NewView(s, n), FALSE)
    BY <2>1 DEF m
  <2> QED
    BY <2>1, <2>2, <2>3, <2>4, AllocationKeeps
<1>3. ASSUME NEW u \in Tensors, Clone(t, u) PROVE StepOK
  <2>1. PICK s \in Storages :
          /\ mem[s] = Free
          /\ Metadata(t, [mem EXCEPT ![s] = Read(Content(view[u]), view[u])],
                      NewView(s, view[u].size), FALSE)
    BY <1>3 DEF Clone
  <2>2. /\ view[u] \in Views /\ view[u].size \in 0..MaxLen
        /\ Content(view[u]) \in Blocks /\ Fits(view[u], Content(view[u]))
    BY <1>3, UsableFacts DEF Clone
  <2>3. /\ Read(Content(view[u]), view[u]) \in Blocks
        /\ Len(Read(Content(view[u]), view[u])) = view[u].size
    BY <2>2, ReadBlock
  <2> QED
    BY <2>1, <2>2, <2>3, AllocationKeeps
<1>4. CASE Drop(t)
  <2>1. Metadata(t, mem, NoView, FALSE)
    BY <1>4 DEF Drop
  <2>2. mem \in [Storages -> Blocks \cup {Free}] /\ Extends(mem)
    BY DEF IndInv, TypeOK, Extends
  <2> QED
    BY <2>1, <2>2, MetadataKeeps
<1> QED
  BY <1>1, <1>2, <1>3, <1>4

(* A view of a live tensor's storage.                                      *)
LEMMA AliasKeeps ==
  ASSUME IndInv, NEW t \in Tensors, NEW v \in Views, mem[v.st] # Free, NEW exc \in BOOLEAN,
         exc \/ Fits(v, Content(v)), Metadata(t, mem, v, exc)
  PROVE  StepOK
<1>1. mem \in [Storages -> Blocks \cup {Free}] /\ Extends(mem)
  BY DEF IndInv, TypeOK, Extends
<1> QED
  BY <1>1, MetadataKeeps DEF Content

(* set_ to a geometry: refused when it does not fit, but the storage has   *)
(* been replaced by then.                                                  *)
LEMMA SetToKeeps ==
  ASSUME IndInv, NEW t \in Tensors, Live(t), NEW v \in Views, mem[v.st] # Free, SetTo(t, v)
  PROVE  StepOK
<1>1. CASE Fits(v, Content(v))
  BY <1>1, AliasKeeps DEF SetTo
<1>2. CASE ~Fits(v, Content(v))
  <2> DEFINE w == [view[t] EXCEPT !.st = v.st]
  <2>1. w \in Views /\ w.st = v.st
    BY DEF IndInv, TypeOK, Live, Views
  <2> HIDE DEF w
  <2>2. Metadata(t, mem, w, TRUE)
    BY <1>2 DEF SetTo, w
  <2> QED
    BY <2>1, <2>2, AliasKeeps
<1> QED
  BY <1>1, <1>2

(* as_strided and the three set_ operators.                                *)
LEMMA StepAlias ==
  ASSUME IndInv, NEW t \in Tensors, NEW u \in Tensors,
         \/ AsStrided(t, u) \/ SetSourceTensor(t, u)
         \/ SetSourceStorage(t, u) \/ SetSourceStorageOffset(t, u)
  PROVE  StepOK
<1>1. Live(u) => /\ view[u] \in Views /\ view[u].st \in Storages
                 /\ mem[view[u].st] # Free /\ Content(view[u]) \in Blocks
  BY DEF IndInv, TypeOK, Live, Content, Views
<1>2. ASSUME NEW off \in Offsets, NEW n \in Sizes, NEW d \in Strides, Live(u)
      PROVE  LET v == [st |-> view[u].st, off |-> off, size |-> n, stride |-> d]
             IN  v \in Views /\ mem[v.st] # Free
  BY <1>1, <1>2, BoundsAssumption DEF Views
<1>3. CASE AsStrided(t, u)
  <2>1. PICK off \in Offsets, n \in Sizes, d \in Strides :
          LET v == [st |-> view[u].st, off |-> off, size |-> n, stride |-> d]
          IN  Fits(v, Content(v)) /\ Metadata(t, mem, v, FALSE)
    BY <1>3 DEF AsStrided
  <2> DEFINE v == [st |-> view[u].st, off |-> off, size |-> n, stride |-> d]
  <2>2. v \in Views /\ mem[v.st] # Free
    BY <1>2, <1>3 DEF AsStrided
  <2>3. Fits(v, Content(v)) /\ Metadata(t, mem, v, FALSE)
    BY <2>1
  <2> HIDE DEF v
  <2> QED
    BY <2>2, <2>3, AliasKeeps
<1>4. CASE SetSourceTensor(t, u)
  BY <1>1, <1>4, SetToKeeps DEF SetSourceTensor
<1>5. CASE SetSourceStorage(t, u)
  <2> DEFINE n == Len(Content(view[u]))
  <2>1. n \in 0..MaxLen /\ Live(t) /\ SetTo(t, NewView(view[u].st, n))
    BY <1>1, <1>5, BlockFacts DEF SetSourceStorage
  <2>2. NewView(view[u].st, n) \in Views /\ NewView(view[u].st, n).st = view[u].st
    BY <1>1, <1>5, <2>1, NewViewFits DEF SetSourceStorage
  <2> QED
    BY <1>1, <1>5, <2>1, <2>2, SetToKeeps DEF SetSourceStorage
<1>6. CASE SetSourceStorageOffset(t, u)
  <2>1. PICK off \in Offsets, n \in Sizes, d \in Strides :
          SetTo(t, [st |-> view[u].st, off |-> off, size |-> n, stride |-> d])
    BY <1>6 DEF SetSourceStorageOffset
  <2> DEFINE v == [st |-> view[u].st, off |-> off, size |-> n, stride |-> d]
  <2>2. v \in Views /\ mem[v.st] # Free /\ Live(t)
    BY <1>2, <1>6 DEF SetSourceStorageOffset
  <2>3. SetTo(t, v)
    BY <2>1
  <2> HIDE DEF v
  <2> QED
    BY <2>2, <2>3, SetToKeeps
<1> QED
  BY <1>3, <1>4, <1>5, <1>6

(* The view that resize_ asks for.                                         *)
LEMMA ResizedView ==
  ASSUME NEW w \in Views, NEW n \in 0..MaxLen
  PROVE  LET v == [w EXCEPT !.size = n, !.stride = 1]
         IN  /\ v \in Views /\ v.st = w.st /\ v.size = n /\ v.stride = 1
             /\ Needed(v) \in Nat
<1> DEFINE v == [w EXCEPT !.size = n, !.stride = 1]
<1>1. v \in Views /\ v.st = w.st /\ v.size = n /\ v.stride = 1
  BY DEF Views
<1>2. v.off \in Nat /\ v.size \in Nat
  BY <1>1, BoundsAssumption DEF Views
<1> QED
  BY <1>1, <1>2 DEF Needed

(* resize_, also when the allocation fails.                                *)
LEMMA StepResize ==
  ASSUME IndInv, NEW t \in Tensors, Resize(t)
  PROVE  StepOK
<1>1. /\ view[t] \in Views /\ view[t].st \in Storages /\ mem[view[t].st] # Free
      /\ mem[view[t].st] \in Blocks
  BY DEF Resize, IndInv, TypeOK, Live, Views
<1>2. PICK n \in Sizes :
        LET v == [view[t] EXCEPT !.size = n, !.stride = 1]
            m == Content(v)
        IN  /\ Needed(v) <= MaxLen
            /\ \/ Needed(v) <= Len(m) /\ Metadata(t, mem, v, FALSE)
               \/ /\ Needed(v) > Len(m)
                  /\ Metadata(t, [mem EXCEPT ![v.st] = Grown(m, Needed(v))], v, FALSE)
               \/ /\ Needed(v) > Len(m) /\ AllocMayFail
                  /\ Metadata(t, mem, v, TRUE)
  BY DEF Resize
<1> DEFINE v == [view[t] EXCEPT !.size = n, !.stride = 1]
           m == Content(v)
<1>3. v \in Views /\ v.st = view[t].st /\ v.stride = 1 /\ Needed(v) \in Nat
  BY <1>1, BoundsAssumption, ResizedView
<1>4. m = mem[v.st] /\ m \in Blocks /\ m # Free /\ v.st \in Storages
  BY <1>1, <1>3 DEF Content
<1>5. Needed(v) <= MaxLen
  BY <1>2
<1>6. \/ Needed(v) <= Len(m) /\ Metadata(t, mem, v, FALSE)
      \/ Needed(v) > Len(m) /\ Metadata(t, [mem EXCEPT ![v.st] = Grown(m, Needed(v))], v, FALSE)
      \/ Metadata(t, mem, v, TRUE)
  BY <1>2
<1> HIDE DEF v, m
<1>7. CASE Needed(v) <= Len(m) /\ Metadata(t, mem, v, FALSE)
  BY <1>3, <1>4, <1>7, NeededFits, AliasKeeps DEF Content
<1>8. CASE /\ Needed(v) > Len(m)
           /\ Metadata(t, [mem EXCEPT ![v.st] = Grown(m, Needed(v))], v, FALSE)
  <2> DEFINE g  == Grown(m, Needed(v))
             mm == [mem EXCEPT ![v.st] = g]
  <2>1. Needed(v) \in 0..MaxLen /\ Len(m) <= Needed(v)
    BY <1>3, <1>4, <1>5, <1>8, BlockFacts, BoundsAssumption
  <2>2. /\ g \in Blocks /\ DOMAIN g = 1..Needed(v)
        /\ \A p \in DOMAIN m : p \in 1..Needed(v) /\ g[p] = m[p]
    BY <1>4, <2>1, GrownBlock
  <2> HIDE DEF g
  <2>3. g # Free /\ Needed(v) <= Len(g)
    <3>1. DOMAIN g = 1..Len(g) /\ Len(g) \in Nat /\ g # Free
      BY <2>2, BlockFacts, BoundsAssumption
    <3> QED
      BY <3>1, <2>2, <1>3
  <2>4. mm \in [Storages -> Blocks \cup {Free}] /\ mm[v.st] = g /\ Extends(mm)
    BY <1>4, <2>2, <2>3 DEF IndInv, TypeOK, Extends
  <2>5. Fits(v, g)
    BY <1>3, <2>2, <2>3, NeededFits
  <2>6. Metadata(t, mm, v, FALSE)
    BY <1>8 DEF g
  <2> HIDE DEF mm
  <2> QED
    BY <1>3, <2>3, <2>4, <2>5, <2>6, MetadataKeeps
<1>9. CASE Metadata(t, mem, v, TRUE)
  BY <1>3, <1>4, <1>9, AliasKeeps
<1> QED
  BY <1>6, <1>7, <1>8, <1>9

(* The values of a tensor of the CPU.                                      *)
LEMMA CpuValues ==
  ASSUME NEW vals \in CpuTensors
  PROVE  /\ vals \in Seq(Values) /\ Len(vals) \in Sizes /\ Len(vals) \in 0..MaxLen
         /\ \A i \in 1..Len(vals) : vals[i] \in Values
<1>1. PICK n \in Sizes : vals \in [1..n -> Vals]
  BY DEF CpuTensors
<1>2. n \in Nat /\ n \in 0..MaxLen
  BY BoundsAssumption
<1>3. vals \in Seq(Vals) /\ Len(vals) = n
  BY <1>1, <1>2
<1> QED
  BY <1>1, <1>2, <1>3 DEF Values

(* _copy_from_and_resize.                                                  *)
LEMMA StepCopyFromAndResize ==
  ASSUME IndInv, NEW t \in Tensors, NEW vals \in CpuTensors, CopyFromAndResize(t, vals)
  PROVE  StepOK
<1> DEFINE v == [view[t] EXCEPT !.size = Len(vals), !.stride = 1]
           m == Content(v)
<1>1. /\ Live(t) /\ view[t] \in Views /\ view[t].st \in Storages
      /\ mem[view[t].st] # Free /\ mem[view[t].st] \in Blocks
  BY DEF CopyFromAndResize, IndInv, TypeOK, Live, Views
<1>2. /\ v \in Views /\ v.st = view[t].st /\ v.stride = 1 /\ Needed(v) \in Nat
      /\ v.size = Len(vals)
  <2>1. Len(vals) \in 0..MaxLen
    BY CpuValues
  <2> QED
    BY <1>1, <2>1, ResizedView
<1>3. /\ m = Content(view[t]) /\ m = mem[v.st] /\ m \in Blocks /\ m # Free
      /\ v.st \in Storages
  BY <1>1, <1>2 DEF Content
<1>4. /\ Needed(v) <= MaxLen
      /\ \/ Needed(v) <= Len(m) /\ ResizeAndCopy(t, v, m, vals)
         \/ Needed(v) > Len(m)  /\ ResizeAndCopy(t, v, Grown(m, Needed(v)), vals)
         \/ Needed(v) > Len(m)  /\ AllocMayFail /\ Metadata(t, mem, v, TRUE)
  BY DEF CopyFromAndResize
<1>5. \A i \in 1..v.size : vals[i] \in Values
  BY <1>2, CpuValues
<1> HIDE DEF v, m
<1>6. CASE Needed(v) <= Len(m) /\ ResizeAndCopy(t, v, m, vals)
  <2>1. Fits(v, m)
    BY <1>2, <1>3, <1>6, NeededFits
  <2> QED
    BY <1>1, <1>2, <1>3, <1>5, <1>6, <2>1, ResizeAndCopyKeeps
<1>7. CASE Needed(v) > Len(m) /\ ResizeAndCopy(t, v, Grown(m, Needed(v)), vals)
  <2> DEFINE g == Grown(m, Needed(v))
  <2>1. Needed(v) \in 0..MaxLen /\ Len(m) <= Needed(v)
    BY <1>2, <1>3, <1>4, <1>7, BlockFacts, BoundsAssumption
  <2>2. /\ g \in Blocks /\ DOMAIN g = 1..Needed(v)
        /\ \A p \in DOMAIN m : p \in DOMAIN g /\ g[p] = m[p]
    BY <1>3, <2>1, GrownBlock
  <2>3. ResizeAndCopy(t, v, g, vals)
    BY <1>7
  <2> HIDE DEF g
  <2>4. Needed(v) <= Len(g)
    <3>1. DOMAIN g = 1..Len(g) /\ Len(g) \in Nat
      BY <2>2, BlockFacts, BoundsAssumption
    <3> QED
      BY <3>1, <2>2, <1>2
  <2>5. Fits(v, g)
    BY <1>2, <2>2, <2>4, NeededFits
  <2> QED
    BY <1>1, <1>2, <1>3, <1>5, <2>2, <2>3, <2>5, ResizeAndCopyKeeps
<1>8. CASE Metadata(t, mem, v, TRUE)
  BY <1>2, <1>3, <1>8, AliasKeeps
<1> QED
  BY <1>4, <1>6, <1>7, <1>8

(* fill_, on its three paths.                                              *)
LEMMA StepFill ==
  ASSUME IndInv, NEW t \in Tensors, NEW x \in Vals, Fill(t, x)
  PROVE  StepOK
<1> DEFINE v == view[t]
           m == Content(v)
           filled == [i \in 1..v.size |-> x]
<1>1. /\ Usable(t) /\ Live(t) /\ v \in Views /\ v.size \in 0..MaxLen /\ m \in Blocks
  BY UsableFacts DEF Fill
<1>2. filled \in Seq(Values) /\ \A i \in 1..v.size : filled[i] \in Values
  <2>1. v.size \in Nat /\ filled \in [1..v.size -> Values]
    BY <1>1, BoundsAssumption DEF Values
  <2> QED
    BY <2>1
<1>3. \/ Data(t, m)
      \/ PointerAccepted(v) /\ Data(t, Write(m, v, filled))
      \/ ~PointerAccepted(v) /\ Throw(t)
      \/ CopyInto(t, filled)
  BY DEF Fill
<1> HIDE DEF filled
<1>4. CASE Data(t, m)
  BY <1>1, <1>4, DataKeeps
<1>5. CASE Data(t, Write(m, v, filled))
  <2> DEFINE w == Write(m, v, filled)
  <2>1. /\ w \in Blocks /\ DOMAIN w = DOMAIN m
        /\ \A p \in DOMAIN w \ Places(v) : w[p] = m[p]
    BY <1>1, <1>2, WrittenBlock
  <2> HIDE DEF w
  <2>2. Data(t, w)
    BY <1>5 DEF w
  <2> QED
    BY <1>1, <2>1, <2>2, DataKeeps
<1>6. CASE ~PointerAccepted(v) /\ Throw(t)
  BY <1>6, ThrowKeeps
<1>7. CASE CopyInto(t, filled)
  BY <1>1, <1>2, <1>7, CopyKeeps
<1> QED
  BY <1>3, <1>4, <1>5, <1>6, <1>7

(* neg_: the kernel refuses only what is contiguous and no handle.         *)
LEMMA StepNegInPlace ==
  ASSUME IndInv, NEW t \in Tensors, NegInPlace(t)
  PROVE  StepOK
<1> DEFINE v   == view[t]
           old == Read(Content(v), v)
           new == [i \in 1..v.size |-> Negated(old[i])]
<1>1. /\ Usable(t) /\ Live(t) /\ v \in Views /\ v.size \in 0..MaxLen
      /\ Content(v) \in Blocks /\ Fits(v, Content(v))
  BY UsableFacts DEF NegInPlace
<1>2. \A x \in Values : Negated(x) \in Values
  <2> SUFFICES ASSUME NEW x \in Vals PROVE Negated(x) \in Values
    BY DEF Negated, Values
  <2>1. \E y \in Vals : Vals # {x} => y # x
    OBVIOUS
  <2> QED
    BY <2>1 DEF Negated, Values
<1>3. new \in Seq(Values)
  <2>1. v.size \in Nat
    BY <1>1, BoundsAssumption
  <2>2. \A i \in 1..v.size : old[i] \in Values
    BY <1>1, ReadBlock
  <2>3. new \in [1..v.size -> Values]
    BY <1>2, <2>2
  <2> QED
    BY <2>1, <2>3
<1>4. \/ KernelAccepts(v) /\ CopyInto(t, new)
      \/ ~KernelAccepts(v) /\ Throw(t)
  BY DEF NegInPlace
<1> HIDE DEF new
<1>5. CASE CopyInto(t, new)
  BY <1>1, <1>3, <1>5, CopyKeeps
<1>6. CASE ~KernelAccepts(v) /\ Throw(t)
  <2>1. ~PointerAccepted(v)
    <3>1. CASE Contiguous(v)
      BY <3>1, <1>6 DEF KernelAccepts
    <3>2. CASE ~Contiguous(v)
      BY <3>2, <1>1, <1>6, BoundsAssumption DEF KernelAccepts, PointerAccepted, NewView, Contiguous
    <3> QED
      BY <3>1, <3>2
  <2> QED
    BY <1>6, <2>1, ThrowKeeps
<1> QED
  BY <1>4, <1>5, <1>6

(* The other operations on elements: copies from the CPU and between       *)
(* tensors, and item().                                                    *)
LEMMA StepCopy ==
  ASSUME IndInv, NEW t \in Tensors,
         \/ \E vals \in CpuTensors : CopyFromCpu(t, vals)
         \/ \E u \in Tensors : CopyDevice(t, u)
         \/ Item(t)
  PROVE  StepOK
<1>1. ASSUME NEW vals \in CpuTensors, CopyFromCpu(t, vals) PROVE StepOK
  BY <1>1, CpuValues, CopyKeeps DEF CopyFromCpu
<1>2. ASSUME NEW u \in Tensors, CopyDevice(t, u) PROVE StepOK
  <2>1. Usable(t) /\ Usable(u) /\ CopyInto(t, Read(Content(view[u]), view[u]))
    BY <1>2 DEF CopyDevice
  <2>2. Read(Content(view[u]), view[u]) \in Blocks
    BY <2>1, UsableFacts, ReadBlock
  <2>3. Read(Content(view[u]), view[u]) \in Seq(Values)
    BY <2>2 DEF Blocks, Values
  <2> QED
    BY <2>1, <2>3, CopyKeeps
<1>3. CASE Item(t)
  <2>1. Live(t) /\ Content(view[t]) \in Blocks
    BY <1>3, UsableFacts DEF Item
  <2>2. CASE Data(t, Content(view[t]))
    BY <2>1, <2>2, DataKeeps
  <2>3. CASE ~PointerAccepted(view[t]) /\ Throw(t)
    BY <2>3, ThrowKeeps
  <2> QED
    BY <1>3, <2>2, <2>3 DEF Item
<1> QED
  BY <1>1, <1>2, <1>3

-----------------------------------------------------------------------------
(* Nothing exists at the start.                                            *)
LEMMA InitIndInv == Init => IndInv
BY DEF Init, IndInv, TypeOK, InBoundsUnlessBroken, Live

(* Every operation does what StepOK says.                                  *)
LEMMA StepNext == ASSUME IndInv, Next PROVE StepOK
<1>1. CASE MetadataStep
  <2>1. PICK t \in Tensors :
          \/ Empty(t) \/ Drop(t) \/ Resize(t)
          \/ \E x \in Vals : Filled(t, x)
          \/ \E u \in Tensors : \/ AsStrided(t, u) \/ SetSourceTensor(t, u)
                                \/ SetSourceStorage(t, u) \/ SetSourceStorageOffset(t, u)
                                \/ Clone(t, u)
    BY <1>1 DEF MetadataStep
  <2> QED
    BY <2>1, StepCreate, StepResize, StepAlias
<1>2. CASE DataStep
  <2>1. PICK t \in Tensors :
          \/ \E vals \in CpuTensors : CopyFromCpu(t, vals) \/ CopyFromAndResize(t, vals)
          \/ \E u \in Tensors : CopyDevice(t, u)
          \/ \E x \in Vals : Fill(t, x)
          \/ NegInPlace(t) \/ Item(t)
    BY <1>2 DEF DataStep
  <2> QED
    BY <2>1, StepCopy, StepCopyFromAndResize, StepFill, StepNegInPlace
<1> QED
  BY <1>1, <1>2 DEF Next

(* Stuttering keeps the invariant.                                         *)
LEMMA StepIndInv == IndInv /\ [Next]_vars => IndInv'
<1>1. IndInv /\ Next => IndInv'
  BY StepNext DEF StepOK
<1>2. IndInv /\ UNCHANGED vars => IndInv'
  BY DEF vars, IndInv, TypeOK, InBoundsUnlessBroken, Live, Fits, Content, Places, Place
<1> QED
  BY <1>1, <1>2

(* The inductive invariant holds in every reachable state.                 *)
THEOREM Inductive == Spec => []IndInv
BY InitIndInv, StepIndInv, PTL DEF Spec

(* Storages are sequences of values, exist exactly while a tensor refers   *)
(* to them, and no tensor refers to one that is gone.                      *)
THEOREM Types == Spec => []TypeOK
<1>1. IndInv => TypeOK
  BY DEF IndInv
<1> QED
  BY <1>1, Inductive, PTL

(* A tensor addresses elements of its storage, whatever its aliases did to *)
(* it, unless its own resize_ or set_ threw half-way.                      *)
THEOREM InBounds == Spec => []InBoundsUnlessBroken
<1>1. IndInv => InBoundsUnlessBroken
  BY DEF IndInv
<1> QED
  BY <1>1, Inductive, PTL

(* On the simulator an operation changes no element outside of the tensor  *)
(* it was given.                                                           *)
THEOREM WritesStay == Spec => WritesInView
<1>1. IndInv /\ [Next]_vars => [backend = "sim" => OthersKept]_vars
  BY StepNext DEF StepOK
<1> QED
  BY <1>1, Inductive, PTL DEF Spec, WritesInView

-----------------------------------------------------------------------------
(* Two elements of a view have different places.                           *)
LEMMA PlaceInjective ==
  ASSUME NEW v \in Views, NEW i \in 1..v.size, NEW j \in 1..v.size,
         Place(v, i) = Place(v, j)
  PROVE  i = j
<1>1. v.off \in Nat /\ v.stride \in Nat \ {0} /\ i \in Int /\ j \in Int
  <2>1. /\ v.off \in Offsets \cup {0} /\ v.size \in 0..MaxLen
        /\ v.stride \in Strides \cup {1}
    BY DEF Views
  <2>2. v.off \in Nat /\ v.size \in Nat
    BY <2>1, BoundsAssumption
  <2>3. v.stride \in Nat \ {0}
    <3>1. CASE v.stride = 1
      BY <3>1
    <3>2. CASE v.stride \in Strides
      BY <3>2, SortsAssumption
    <3> QED
      BY <2>1, <3>1, <3>2
  <2> QED
    BY <2>2, <2>3
<1> DEFINE d == v.stride
<1>2. (i - 1) * d = (j - 1) * d
  BY <1>1 DEF Place
<1>3. ASSUME NEW a \in Int, NEW b \in Int, a * d = b * d PROVE a = b
  BY <1>1, <1>3
<1> QED
  BY <1>1, <1>2, <1>3

(* What was written through a view is read back from it.                   *)
LEMMA WrittenReadsBack ==
  ASSUME NEW v \in Views, NEW m, Fits(v, m), NEW vals, NEW i \in 1..v.size
  PROVE  Write(m, v, vals)[Place(v, i)] = vals[i]
<1>1. Place(v, i) \in Places(v) /\ Place(v, i) \in DOMAIN m
  BY DEF Places, Fits
<1> DEFINE j == CHOOSE j \in 1..v.size : Place(v, j) = Place(v, i)
<1>2. j \in 1..v.size /\ Place(v, j) = Place(v, i)
  OBVIOUS
<1>3. j = i
  BY <1>2, PlaceInjective
<1>4. Write(m, v, vals)[Place(v, i)] = vals[j]
  BY <1>1 DEF Write
<1> QED
  BY <1>3, <1>4

(* A copy that does not throw leaves each value of the source, broadcast,  *)
(* at its place in the destination: on the fast path, and on the slow one, *)
(* which loses what lies between the places.                               *)
LEMMA StepCopyRight ==
  ASSUME IndInv, NEW t \in Tensors, NEW u \in Tensors, CopyDevice(t, u), ~threw',
         view[u].size > 0, NEW i \in 1..view[t].size
  PROVE  LET j == IF view[u].size = 1 THEN 1 ELSE i
         IN  mem'[view[t].st][Place(view[t], i)] = Content(view[u])[Place(view[u], j)]
<1> DEFINE v    == view[t]
           n    == view[u].size
           vals == Read(Content(view[u]), view[u])
           m    == Content(v)
           j    == IF n = 1 THEN 1 ELSE i
<1>1. /\ v \in Views /\ v.size \in 0..MaxLen /\ m \in Blocks /\ Fits(v, m)
      /\ view[u] \in Views /\ Content(view[u]) \in Blocks /\ Fits(view[u], Content(view[u]))
      /\ CopyInto(t, vals) /\ n \in Nat
  BY UsableFacts, BoundsAssumption DEF CopyDevice
<1>2. /\ Len(vals) = n /\ vals # <<>>
      /\ \A k \in 1..n : vals[k] = Content(view[u])[Place(view[u], k)]
  BY <1>1, ReadBlock
<1>3. /\ Broadcasts(vals, v.size)
      /\ \/ Data(t, Write(Unwritten(m), v, Spread(vals, v.size)))
         \/ Data(t, Write(m, v, Spread(vals, v.size)))
  BY <1>1, <1>2 DEF CopyInto, Throw
<1>4. Fits(v, Unwritten(m))
  <2>1. DOMAIN Unwritten(m) = DOMAIN m
    BY <1>1, FreshBlock, BlockFacts DEF Unwritten
  <2> QED
    BY <1>1, <2>1 DEF Fits
<1>5. j \in 1..n /\ Spread(vals, v.size)[i] = vals[j]
  BY <1>1, <1>2, <1>3 DEF Broadcasts, Spread
<1>6. /\ Write(m, v, Spread(vals, v.size))[Place(v, i)] = vals[j]
      /\ Write(Unwritten(m), v, Spread(vals, v.size))[Place(v, i)] = vals[j]
  BY <1>1, <1>4, <1>5, WrittenReadsBack
<1>7. mem'[v.st][Place(v, i)] = vals[j]
  <2>1. v.st \in DOMAIN mem
    BY <1>1 DEF IndInv, TypeOK, Views
  <2> HIDE DEF vals, m, v, j
  <2> QED
    BY <1>3, <1>6, <2>1 DEF Data, v
<1> QED
  BY <1>2, <1>5, <1>7

(* After dst.copy_(src), dst reads as src did, for any strides and offsets *)
(* and on both backends.                                                   *)
THEOREM CopiesRight == Spec => CopyRight
<1> DEFINE Right ==
      \A t, u \in Tensors :
        CopyDevice(t, u) /\ ~threw' /\ view[u].size > 0 =>
          \A i \in 1..view[t].size :
            LET j == IF view[u].size = 1 THEN 1 ELSE i
            IN  mem'[view[t].st][Place(view[t], i)] = Content(view[u])[Place(view[u], j)]
<1>1. IndInv /\ [Next]_vars => [Right]_vars
  BY StepCopyRight
<1> QED
  BY <1>1, Inductive, PTL DEF Spec, CopyRight

=============================================================================
