---------------------------- MODULE TensorStorage ---------------------------
(***************************************************************************)
(* The storage operators of csrc/aten/Ops.cpp: tensors are strided views   *)
(* of shared storages; as_strided, resize_ and set_ change what a tensor   *)
(* addresses, fill_, copy_ and neg_ what the storage holds. On the         *)
(* simulator they work in place, on OpenCL through host copies.            *)
(*                                                                         *)
(* Tensors are one-dimensional and of float32, lengths count elements.     *)
(* setStrided's bounds check is ATen's. Left out: copies whose shapes do   *)
(* not broadcast, which ATen refuses before anything is written; copies    *)
(* between views that overlap, whose result ATen leaves open; and data     *)
(* operations on a tensor out of its storage's bounds, which touch foreign *)
(* memory.                                                                 *)
(***************************************************************************)
EXTENDS Integers, Sequences

CONSTANTS
  Tensors,        \* tensor variables of the program
  Storages,       \* storages that can exist at once
  Vals,           \* values written
  Junk,           \* content of memory nobody wrote
  Free,           \* not a storage at present
  NoView,         \* a variable that holds no tensor
  MaxLen,         \* bound: elements of a storage
  Sizes,          \* bound: numbers of elements asked for
  Offsets,        \* bound: storage offsets asked for
  Strides,        \* bound: strides asked for
  Backends,       \* the runtimes considered: "sim", "opencl"
  AllocMayFail    \* whether the driver can be out of memory

ASSUME SortsAssumption   == Junk \notin Vals /\ Strides \subseteq Nat \ {0}
ASSUME FreeAssumption    == Free \notin Seq(Vals \cup {Junk})
ASSUME BackendAssumption == Backends \subseteq {"sim", "opencl"} /\ AllocMayFail \in BOOLEAN
ASSUME BoundsAssumption  == MaxLen \in Nat /\ Sizes \cup Offsets \subseteq 0..MaxLen

VARIABLES
  backend,        \* the runtime chosen when the process started
  mem,            \* the content of each storage, or Free
  view,           \* what each variable addresses
  broken,         \* tensors whose last metadata operation threw half-way
  target,         \* the variable the last data operation wrote, or NoView
  threw           \* the last operation threw

vars == <<backend, mem, view, broken, target, threw>>

Views == [st : Storages, off : Offsets \cup {0}, size : 0..MaxLen, stride : Strides \cup {1}]
Blocks == {m \in Seq(Vals \cup {Junk}) : Len(m) <= MaxLen}
ASSUME NoViewAssumption == NoView \notin Tensors \cup Views

Init ==
  /\ backend \in Backends
  /\ mem    = [s \in Storages |-> Free]
  /\ view   = [t \in Tensors |-> NoView]
  /\ broken = {} /\ target = NoView /\ threw = FALSE

-----------------------------------------------------------------------------
Live(t)     == view[t] # NoView
Content(v)  == mem[v.st]
Place(v, i) == v.off + (i - 1) * v.stride + 1
Places(v)   == {Place(v, i) : i \in 1..v.size}
Fits(v, m)  == \A p \in Places(v) : p \in DOMAIN m

(* is_contiguous, for one dimension.                                       *)
Contiguous(v) == v.stride = 1 \/ v.size <= 1

Read(m, v) == [i \in 1..v.size |-> m[Place(v, i)]]

(* Writing values through a view, in place.                                *)
WriteDense(m, v, vals) ==               \* faulty: the stride is ignored
  [p \in DOMAIN m |-> IF p - v.off \in 1..v.size THEN vals[p - v.off] ELSE m[p]]
Write(m, v, vals) ==
  [p \in DOMAIN m |->
     IF p \in Places(v) THEN vals[CHOOSE i \in 1..v.size : Place(v, i) = p] ELSE m[p]]

(* ATen's broadcast of a source to n elements.                             *)
Broadcasts(vals, n) == Len(vals) \in {1, n}
Spread(vals, n)     == [i \in 1..n |-> IF Len(vals) = 1 THEN vals[1] ELSE vals[i]]

Fresh(n)    == [i \in 1..n |-> Junk]
Unwritten(m) == Fresh(Len(m))

(* as_mem finds data_ptr() only at the start of a buffer; the pointer of a *)
(* tensor without elements is null. The simulator takes any pointer.       *)
PointerAccepted(v) == backend = "sim" \/ (v.off = 0 /\ v.size > 0)

(* A storage lives as long as a tensor refers to it.                       *)
BasesOnly(vw, s) == \E t \in Tensors : vw[t] # NoView /\ vw[t].st = s /\ vw[t].off = 0
Referenced(vw, s) == \E t \in Tensors : vw[t] # NoView /\ vw[t].st = s

Become(m, vw) ==
  /\ mem'  = [s \in Storages |-> IF Referenced(vw, s) THEN m[s] ELSE Free]
  /\ view' = vw

(* The result of a metadata operation on t.                                *)
Metadata(t, m, v, exc) ==
  /\ Become(m, [view EXCEPT ![t] = v])
  /\ broken' = IF exc THEN broken \cup {t} ELSE broken \ {t}
  /\ target' = NoView /\ threw' = exc
  /\ UNCHANGED backend

(* The result of a data operation that writes t.                           *)
Data(t, m) ==
  /\ mem' = [mem EXCEPT ![view[t].st] = m]
  /\ target' = t /\ threw' = FALSE
  /\ UNCHANGED <<backend, view, broken>>

Throw(t) ==
  /\ target' = t /\ threw' = TRUE
  /\ UNCHANGED <<backend, mem, view, broken>>

Usable(t) == Live(t) /\ Fits(view[t], Content(view[t]))

-----------------------------------------------------------------------------
NewView(s, n) == [st |-> s, off |-> 0, size |-> n, stride |-> 1]

(* empty, empty_strided; a failed allocation leaves nothing behind.        *)
Empty(t) ==
  /\ ~Live(t)
  /\ \E s \in Storages, n \in Sizes :
       /\ mem[s] = Free
       /\ Metadata(t, [mem EXCEPT ![s] = Fresh(n)], NewView(s, n), FALSE)

(* zeros, ones, full, zeros_like, ones_like: empty, then fill_.            *)
Filled(t, x) ==
  /\ ~Live(t)
  /\ \E s \in Storages, n \in Sizes :
       /\ mem[s] = Free
       /\ Metadata(t, [mem EXCEPT ![s] = [i \in 1..n |-> x]], NewView(s, n), FALSE)

(* A tensor variable goes out of scope.                                    *)
Drop(t) ==
  /\ Live(t)
  /\ Metadata(t, mem, NoView, FALSE)

(* as_strided, view, _reshape_alias: a new tensor on the same storage;     *)
(* setStrided refuses one that does not fit.                               *)
AsStrided(t, u) ==
  /\ ~Live(t) /\ Live(u)
  /\ \E off \in Offsets, n \in Sizes, d \in Strides :
       LET v == [st |-> view[u].st, off |-> off, size |-> n, stride |-> d]
       IN  Fits(v, Content(v)) /\ Metadata(t, mem, v, FALSE)

(* resize_: the sizes are set before the storage is grown, so a failing    *)
(* allocation leaves a tensor larger than its storage.                     *)
NeededWithoutOffset(v) == v.size        \* faulty: storage_offset forgotten
Needed(v) == v.size + v.off

(* resizePrivateUse1Bytes: a new block, the old content copied into it.    *)
GrownEmpty(m, n) == Fresh(n)            \* faulty: the copy forgotten
Grown(m, n) == [p \in 1..n |-> IF p \in DOMAIN m THEN m[p] ELSE Junk]

Resize(t) ==
  /\ Live(t)
  /\ \E n \in Sizes :
       LET v == [view[t] EXCEPT !.size = n, !.stride = 1]
           m == Content(v)
       IN  /\ Needed(v) <= MaxLen
           /\ \/ Needed(v) <= Len(m) /\ Metadata(t, mem, v, FALSE)
              \/ /\ Needed(v) > Len(m)
                 /\ Metadata(t, [mem EXCEPT ![v.st] = Grown(m, Needed(v))], v, FALSE)
              \/ /\ Needed(v) > Len(m) /\ AllocMayFail
                 /\ Metadata(t, mem, v, TRUE)

(* The three set_ operators: the storage is replaced first, then           *)
(* setStrided checks the geometry and may throw.                           *)
SetTo(t, v) ==
  IF Fits(v, Content(v))
    THEN Metadata(t, mem, v, FALSE)
    ELSE Metadata(t, mem, [view[t] EXCEPT !.st = v.st], TRUE)

SetSourceTensor(t, u) ==
  Live(t) /\ Live(u) /\ SetTo(t, view[u])

SetSourceStorage(t, u) ==
  Live(t) /\ Live(u) /\ SetTo(t, NewView(view[u].st, Len(Content(view[u]))))

SetSourceStorageOffset(t, u) ==
  /\ Live(t) /\ Live(u)
  /\ \E off \in Offsets, n \in Sizes, d \in Strides :
       SetTo(t, [st |-> view[u].st, off |-> off, size |-> n, stride |-> d])

-----------------------------------------------------------------------------
(* cpu_into_device has a fast path, one transfer to data_ptr(). The slow   *)
(* path packs the values into an uninitialised host copy of the whole      *)
(* storage and transfers all of it.                                        *)
FastPath(v, vals) == Contiguous(v) /\ Len(vals) = v.size
SlowPath(v, vals) == backend = "opencl" /\ ~FastPath(v, vals)

(* _copy_from of the values of a source tensor into t.                     *)
CopyInto(t, vals) ==
  LET v == view[t]
      m == Content(v)
  IN  \/ vals = <<>> /\ Data(t, m)
      \/ /\ vals # <<>> /\ Broadcasts(vals, v.size) /\ SlowPath(v, vals)
         /\ Data(t, Write(Unwritten(m), v, Spread(vals, v.size)))
      \/ /\ vals # <<>> /\ Broadcasts(vals, v.size) /\ ~SlowPath(v, vals)
         /\ IF PointerAccepted(v)
              THEN Data(t, Write(m, v, Spread(vals, v.size))) ELSE Throw(t)

CpuTensors == UNION {[1..n -> Vals] : n \in Sizes}

CopyFromCpu(t, vals) == Usable(t) /\ CopyInto(t, vals)

(* storage_to_cpu copies the whole storage and reads the view from it.     *)
CopyDevice(t, u) ==
  /\ Usable(t) /\ Usable(u)
  /\ view[t].st # view[u].st \/ Places(view[t]) \cap Places(view[u]) = {}
  /\ CopyInto(t, Read(Content(view[u]), view[u]))

(* _copy_from_and_resize: resize_, which may throw, and copy in one call.  *)
ResizeAndCopy(t, v, m, vals) ==
  /\ mem'    = [mem EXCEPT ![v.st] = IF PointerAccepted(v) THEN Write(m, v, vals) ELSE m]
  /\ view'   = [view EXCEPT ![t] = v]
  /\ broken' = broken \ {t}
  /\ target' = t /\ threw' = (vals # <<>> /\ ~PointerAccepted(v))
  /\ UNCHANGED backend

CopyFromAndResize(t, vals) ==
  LET v == [view[t] EXCEPT !.size = Len(vals), !.stride = 1]
      m == Content(v)
  IN  /\ Live(t) /\ Needed(v) <= MaxLen
      /\ \/ Needed(v) <= Len(m) /\ ResizeAndCopy(t, v, m, vals)
         \/ Needed(v) > Len(m)  /\ ResizeAndCopy(t, v, Grown(m, Needed(v)), vals)
         \/ Needed(v) > Len(m)  /\ AllocMayFail /\ Metadata(t, mem, v, TRUE)

(* fill_: the fill kernel on data_ptr() when the tensor is contiguous,     *)
(* else through the host.                                                  *)
Fill(t, x) ==
  LET v == view[t]
      m == Content(v)
      filled == [i \in 1..v.size |-> x]
  IN  /\ Usable(t)
      /\ \/ v.size = 0 /\ Data(t, m)
         \/ /\ v.size > 0 /\ Contiguous(v)
            /\ IF PointerAccepted(v) THEN Data(t, Write(m, v, filled)) ELSE Throw(t)
         \/ /\ v.size > 0 /\ ~Contiguous(v)
            /\ CopyInto(t, filled)

(* unary_kernel: contiguous() keeps a contiguous tensor, data_ptr() and    *)
(* all, and copies any other into a fresh one.                             *)
KernelAccepts(v) == PointerAccepted(IF Contiguous(v) THEN v ELSE NewView(v.st, v.size))
Negated(x)       == IF x \in Vals THEN CHOOSE y \in Vals : Vals # {x} => y # x ELSE x

(* neg_: the kernel into a fresh tensor, then a copy into self.            *)
NegInPlace(t) ==
  LET v == view[t]  old == Read(Content(v), v)
  IN  /\ Usable(t)
      /\ IF KernelAccepts(v) THEN CopyInto(t, [i \in 1..v.size |-> Negated(old[i])])
                             ELSE Throw(t)

(* clone into a new tensor.                                                *)
Clone(t, u) ==
  /\ ~Live(t) /\ Usable(u)
  /\ \E s \in Storages :
       /\ mem[s] = Free
       /\ Metadata(t, [mem EXCEPT ![s] = Read(Content(view[u]), view[u])],
                   NewView(s, view[u].size), FALSE)

(* item(): copy_d2h from data_ptr().                                       *)
Item(t) ==
  /\ Usable(t) /\ view[t].size = 1
  /\ IF PointerAccepted(view[t]) THEN Data(t, Content(view[t])) ELSE Throw(t)

MetadataStep ==
  \E t \in Tensors :
    \/ Empty(t) \/ Drop(t) \/ Resize(t)
    \/ \E x \in Vals : Filled(t, x)
    \/ \E u \in Tensors : \/ AsStrided(t, u) \/ SetSourceTensor(t, u)
                          \/ SetSourceStorage(t, u) \/ SetSourceStorageOffset(t, u)
                          \/ Clone(t, u)

DataStep ==
  \E t \in Tensors :
    \/ \E vals \in CpuTensors : CopyFromCpu(t, vals) \/ CopyFromAndResize(t, vals)
    \/ \E u \in Tensors : CopyDevice(t, u)
    \/ \E x \in Vals : Fill(t, x)
    \/ NegInPlace(t) \/ Item(t)

Next == MetadataStep \/ DataStep

Spec == Init /\ [][Next]_vars

-----------------------------------------------------------------------------
(* A storage exists while some variable refers to it, and has at most      *)
(* MaxLen elements.                                                        *)
TypeOK ==
  /\ backend \in Backends
  /\ mem \in [Storages -> Blocks \cup {Free}]
  /\ view \in [Tensors -> Views \cup {NoView}]
  /\ \A s \in Storages : mem[s] # Free <=> \E t \in Tensors : Live(t) /\ view[t].st = s
  /\ broken \subseteq Tensors /\ target \in Tensors \cup {NoView}
  /\ threw \in BOOLEAN

(* Every tensor addresses elements of its storage (Ops.cpp:151-253),       *)
(* whatever its aliases did to the storage they share, unless its own      *)
(* resize_ or set_ threw.                                                  *)
InBoundsUnlessBroken ==
  \A t \in Tensors : Live(t) /\ t \notin broken => Fits(view[t], Content(view[t]))

(* An operation writes only through the tensor it was given: what the      *)
(* storage holds elsewhere stays, also when resize_ moves it to a larger   *)
(* block (Ops.cpp:62-90, Hooks.cpp:78-94). This is so on the simulator.    *)
ReachedBy(t, s) == IF t # NoView /\ view'[t] # NoView /\ view'[t].st = s
                     THEN Places(view'[t]) ELSE {}
OthersKept ==
  \A s \in Storages : mem[s] # Free /\ mem'[s] # Free =>
    \A p \in DOMAIN mem[s] \ ReachedBy(target', s) :
      p \in DOMAIN mem'[s] /\ mem'[s][p] = mem[s][p]
WritesInView == [][backend = "sim" => OthersKept]_vars

(* README.md:46 promises the "same API" on OpenCL.                         *)
SameOnOpenCL == [][OthersKept]_vars

(* After dst.copy_(src) the destination reads as the broadcast source did, *)
(* strided, offset or on the same storage (Ops.cpp:185-212).               *)
CopyRight ==
  [][\A t, u \in Tensors :
       CopyDevice(t, u) /\ ~threw' /\ view[u].size > 0 =>
         \A i \in 1..view[t].size :
           LET j == IF view[u].size = 1 THEN 1 ELSE i
           IN  mem'[view[t].st][Place(view[t], i)] = Content(view[u])[Place(view[u], j)]]_vars
=============================================================================
