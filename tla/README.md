# Tvarant: a TLA+ verification project

Tvarant is an out-of-tree PyTorch device backend (`PrivateUse1`, renamed
`tvarant`): a C++ extension that registers ATen operators, two runtimes that
execute them (a CPU simulator and OpenCL), a small pointwise JIT, and a Python
graph compiler that fuses operators. This directory holds TLA+ models of its
core logic, the TLC runs that check them and TLAPS proofs about them.
Paths below are relative to `src/`.

## 1. Inventory of the system

| Component | Source | State it keeps | Operations |
|---|---|---|---|
| Runtime singleton | `csrc/runtime/Runtime.cpp`, `TvarantRuntime.h` | `g_runtime`, `g_once`, thread-local `g_current_device` | `runtime()`, `initialize_runtime`, `set_device`, `exchange_device` |
| Simulator runtime | `csrc/runtime/CpuSimRuntime.cpp` | `live_` (set of blocks), `mutex_` | `alloc`, `free`, `owns`, copies, `launch`, `launch_pointwise` |
| OpenCL runtime | `csrc/runtime/OpenCLRuntime.cpp` | context, queue, `kernels_`, `jit_kernels_`, `buffers_`, recursive `mutex_` | the same, plus `synchronize`, constructor, destructor |
| Allocator | `csrc/runtime/Allocator.cpp` | none (DataPtr deleters) | `allocate`, `delete_tvarant_ptr`, `copy_data` |
| Hooks and guard | `csrc/runtime/Hooks.cpp`, `Guard.cpp` | the current device | `resizePrivateUse1Bytes`, `exchangeDevice`, `getDeviceFromPtr` |
| Generator | `csrc/runtime/Generator.cpp`, `csrc/Module.cpp` | one default CPU generator | seed, get/set state |
| ATen storage operators | `csrc/aten/Ops.cpp` | tensor metadata over shared storages | `empty`, `as_strided`, `view`, `resize_`, `set_`, `_copy_from`, `fill_`, `item` |
| ATen arithmetic | `csrc/aten/Ops.cpp`, `ExtendedOps.cpp`, `LlmOps.cpp`, `AtenCommon.h` | none | build a `LaunchParams`, call `launch` |
| Custom ops and JIT | `csrc/aten/CustomOps.cpp`, `csrc/jit/` | `jit_kernels_` (in the OpenCL runtime) | `pointwise`, `linear_act`, `cache_key`, `codegen_opencl`, `run_pointwise_host` |
| Host kernels | `csrc/kernels/host/` | none | one loop nest per kernel |
| Device kernels | embedded in `OpenCLRuntime.cpp`; `csrc/kernels/opencl/*.cl` | none | one work-item per element, row or line |
| Graph compiler | `torch_tvarant/compiler.py` | an FX graph, `last_log` | `fuse_gemm_epilogue`, `fuse_pointwise`, `compile_fx`, `compile` |
| Python device module | `torch_tvarant/tvarant/__init__.py` | none | thin wrappers over `_C` |

How they interact. PyTorch's dispatcher calls an operator on the caller's
thread, with the GIL released; the operator allocates its output through
the allocator, which calls `runtime().alloc`; it then calls
`runtime().launch`, which returns when the work is done. Tensors die on any
thread and call `runtime().free`. Every thread shares the one runtime object,
its tables and, on OpenCL, its command queue and `cl_kernel` objects.

### Hard behaviours

* **Concurrency.** The OpenCL runtime serialises lookups of `buffers_` with a
  recursive mutex, `launch_pointwise` as a whole, but not `launch`: it sets the
  arguments of a shared `cl_kernel` one call at a time. Driver memory is
  allocated and released outside of the lock.
* **Failure.** Any driver call may throw half-way: in the constructor, in the
  compilation of a fused kernel, between two `clSetKernelArg`, in an allocation
  under `resize_`, in ATen's bounds check under `set_`.
* **Aliasing.** Tensors are strided views of shared storages. `resize_` moves a
  storage under its aliases; on OpenCL a view with an offset has no buffer
  handle, and copies go through host buffers of the whole storage.
* **Start and end.** `call_once` runs its initialiser again after it threw, in
  another thread; the static runtime is destroyed before tensors may be.
* **Shapes.** Launches know counts, not shapes: every operator flattens its
  tensors, the grid is rounded up, and kernels recover indices by division in
  32 bits.
* **Staleness.** Compiled kernels are found by a key that prints floats.
* **Order.** An operation returns when the command queue is drained.
* **Rewriting.** The graph compiler erases nodes whose users it believes it knows.

### What makes each component correct

| Component | Properties |
|---|---|
| Runtime tables and allocator | a pointer the framework holds is known to the runtime; no entry outlives its block; no leak; no double release |
| Launches and queue | a command runs with the buffers of its call; a call returns after its command; the lock is released on every path; every call returns |
| JIT cache | the kernel found does what the program says; interpreter and generated code agree; failed builds are not cached |
| Storage operators | a tensor stays within its storage; a write stays within the view; a copy reads back as its source; both backends accept the same calls |
| Runtime singleton | one complete runtime for all threads, also after failed attempts; callers do not wait for ever; nothing is lost but what a failure loses |
| Arithmetic operators | each element of the result is written once, from the elements the definition of the operator names, on both backends; operands are read within their bounds; calls that fit are served |
| Graph compiler | the rewritten graph computes what the given one did, in-place effects included |

## 2. Plan

| Order | Module | Models | Abstract specification | Status |
|---|---|---|---|---|
| A | `DeviceMemory`, `AllocTable`, `AllocTable_proofs` | allocation tables under concurrent callers | `DeviceMemory`: what alloc and free promise | checked and proved |
| B | `LaunchQueue`, `LaunchQueue_proofs` | launches, copies and waits on the shared queue | to state: one atomic operation per call, implemented when launches of a kernel do not overlap | checked; invariants proved |
| C | `PointwiseJit`, `PointwiseJit_proofs` | cache, interpreter, code generator | interpreter as reference for the kernel | checked and proved |
| D | `TensorStorage`, `TensorStorage_proofs` | views, resizes, rebinding, copies | to state: a memory of elements in which every view is a window | checked and proved |
| E | `FxGraph`, `Fusion`, `Fusion_proofs` | both passes of `compiler.py` over small graphs | meaning of the graph before the pass | checked and proved |
| F | `RuntimeLife`, `SharedRuntime`, `RuntimeLife_proofs` | `call_once` with a throwing initialiser, driver objects, exit | `SharedRuntime`: one runtime for all threads | checked and proved |
| G | `Kernels`, `Launches`, `KernelGrid`, `KernelGrid_proofs` | loops and grids; from shapes to launches; a call on its way | the operators by indices (`Reference`) | checked and proved |

Every safety property of a run is proved, liveness is checked only (section 6).
The generator and the guard are not in the plan any more (section 7 says why).

The order is that of the harm a silent error does: memory, launches, results,
rewrites, then start-up and arithmetic. B and C meet
in `launch_pointwise`: C runs one call at a time, which B justifies
(`MutexHeldInside`: the mutex is held from the lookup to the end of the run,
so lookups, insertions and runs of different threads do not interleave).
A and D meet in `resizePrivateUse1Bytes`, where D takes a fresh block with
A's promise that nobody else holds it. E takes what a pointwise program is and
when it is valid from C (`Jit == INSTANCE PointwiseJit`), so that what E emits is
what C runs. F uses A's operations as single steps, which A's
refinement justifies. G takes a launch as one step, as B's `SynchronousReturn`
and `JitOwnArgs` allow when launches do not overlap, and its operators make
their operands contiguous by the copies of D.

Modules that are proved about declare no recursive operator: `PointwiseJit`
runs a program by a recursive function over its nodes and one over the
elements, `Launches` multiplies sizes by one over the dimensions, `Fusion` has
one for each loop of a pass (collecting a group, translating it, sweeping it).
`InductionLemmas` has the induction over the natural numbers that the proofs
about them need, stated for a set in place of a predicate.

## 3. What is modelled

### AllocTable and DeviceMemory

`table` is `live_` of the simulator, or the keys of `buffers_`; `heap` is what
the driver considers allocated; `held` the pointers in living `DataPtr`s.
`alloc` is `AllocDriver` (the driver call, no lock) and `AllocInsert` (under the
lock); `free` is `FreeCall` (the deleter), `FreeErase` (under the lock) and
`FreeRelease` (after the unlock). The driver may hand out a released address at
once, which is what makes the order of erase and release matter. `NULL` stands
for the pointer of a zero-byte block. `DeviceMemory` has two sets, the lent
blocks and the ones the runtime knows, and three operations; `AllocTable`
implements it with `lent <- held, known <- table`.

### LaunchQueue

One program counter per thread follows `launch`, `launch_pointwise`, the three
copies and `synchronize` through their driver calls. `args[k]` is the slots of
kernel object `k`, which `SetArg` writes one at a time; `Enqueue` captures them
in a command as `clEnqueueNDRangeKernel` does; `Execute` is the device. `owner`
is the recursive mutex, taken by `PointwiseLock` and, for one step, by every
`as_mem` (`MayLock`). Failures are actions: `SetArgThrows`, `CopyThrows`,
`EnqueueFails`, `PointwiseCompileFails`, `WaitFails`; `Leave` releases the lock
on all of them, as the `lock_guard` does. `compiled` and `overlap` are history
variables.

### PointwiseJit

A program is a sequence of nodes as in `Jit.h`. Registers hold the term that
computes them, so that two backends agree exactly when they compute the same
expression. Literals have a sign, a whole part below 10^9 and seven decimals,
and are printed as the code prints them: `SixDecimals` is `std::to_string` in
`cache_key`, `SixDigits` is `operator<<` in `codegen_opencl`, with an exponent
from 10^6 up. The two translations of a node are written down separately, each
from its own switch: `Term` is `run_pointwise_host`, whose registers survive
from one element to the next (`Host`), `Source` is what `codegen_opencl` prints,
as the term it computes (`Kernel`). `Hit`, `Miss` and `Refused` are the ways
through `launch_pointwise`.

### TensorStorage

`mem[s]` is the content of a storage, `view[t]` the storage, offset, size and
stride of a tensor. One action per operator of `Ops.cpp` that creates, aliases,
resizes, rebinds, copies or fills; `Clone`, `Filled` and `NegInPlace` stand for
the operators of `ExtendedOps.cpp` composed of them. `resize_` and `set_` may
throw after they changed the tensor, which is then in `broken`. `CopyInto` has
the paths of `_copy_from`: on the simulator in place, on OpenCL one transfer
(`FastPath`) or the packed copy of the storage (`SlowPath`). `Junk` is memory
nobody wrote.

### RuntimeLife and SharedRuntime

`once` is the state of `g_once`, `rt` the pointer, `pc[t]` where a caller of
`runtime()` is. `BeginOpenCL` starts a constructor, `Make` is one more driver
object of it, `ConstructThrows` the way out by an exception, after which the
next caller begins again (`OnceAfterThrow`) and reads the environment again.
`objects` are what the driver has handed out and `handles` those that a member
or table of the runtime names; `Alloc`, `Free`, `Compile` and `KernelFails` are
the operations that change them. `Exit` destroys `g_runtime`, after the threads
have come out, and `LateFree` is the deleter of a tensor that lives longer.
`SharedRuntime` has one backend, chosen once, and the threads that use it.

### Kernels, Launches and KernelGrid

An array is a function to the elements of the tensors of a call, so that a
kernel can be run without numbers: a write says which position of which result
is computed from which elements, in their order. `Kernels` gives, for a launch,
the writes and reads of each iteration of the host's loops (`HostItems`) and of
each work-item of the device's grid (`DeviceItems`), with the ints of the
kernels ending at `MaxInt`. `Launches` has one operator per ATen operator that
launches a kernel: from the shapes to a `LaunchParams` record, or a refusal, an
early return, or a division by zero (undefined in C++, a trap on the machines
the code is built for). Operators that differ only in the function they apply
share one: `unary` stands for relu, silu, neg, abs, exp, exp2, sqrt, rsqrt and
the operators with a scalar, `binary` for add, sub and mul.
A call also says which of its operands are contiguous views with an offset
(`offset`).
`KernelGrid` is the life of a call: `Prepare`, `Launch` or `LaunchThrows`
(`NotABuffer`: `as_mem` of a null pointer or of the `data_ptr()` of a view with
an offset, which `contiguous()` returns as it is), `RunItems`, `Return`.
`PassedAsIs` tells these operands from copies by the arrays of the launch.
`written` and `reads` are
what the items of the launch write and read together, `again` the elements that
two writes meet on. Its reference (`Shape`,
`From`) says by multi-indices what the operator is, without flat positions,
strides or batches, and `Regular` which calls it is meant for.

### FxGraph and Fusion

A graph is its nodes, by number, and the order they run in. `Meaning` executes
it: a value is a shape (matrix, row, scalar) and the term that computes it, and
`relu_` writes the tensor of its operand, which other nodes may name. mm and
addmm take matrices only; linear and linear_act take a row as well. Terms of
sums are unordered (addition commutes) and nothing else is simplified: the
instructions of a pointwise program (`Register`) make the terms of the operators
they stand for, and that the two backends compute these is C's. The
result is what the graph returns, or `Refusal` when an operator throws.

`Fusion` traces every graph that runs, of one of the `Families` (the kinds of
operators, the shapes, the alphas and the number of operators), with up to two
results (`TraceNode`, `TraceEnds`; this is torch.fx and external). A step of a
pass is the next visit that rewrites: `GemmFuse` is `emit` with the erasures
that follow it, or the exception of `erase_node`; `PointwiseFuse` collects a
group, translates it (`RecInput`, `Translate`), inserts the call and sweeps the
group. `todo` is what is left of the snapshot the pass took of the nodes.
`beta` of addmm is treated as `alpha` is, and left out.

## 4. The runs

| Run | Question | Instance | Result |
|---|---|---|---|
| `alloc_table` | do table, driver and `DataPtr`s stay consistent; is the promise kept? | 3 threads, 3 addresses, OpenCL | holds |
| `queue_calls` | locking, arguments, synchrony, one compilation; does every operation return? | 2 threads, 3 operations, 1 builtin kernel, 1 program, 2 buffers and 1 bad pointer; `Returns` under fairness | holds |
| `queue_overlap` | does a builtin kernel run with its own buffers? | the same, 2 operations | violated: finding 1 |
| `jit_cache` | is what the cache returns what was asked for; do backends agree? | 24 programs, 3 kernels in the cache, 2 elements | holds |
| `jit_supported` | does every supported program run? | the test suite's program, each activation, scalings | violated: finding 2 |
| `storage_moves` | storages exchanged by views and `set_`, failing resizes | 2 tensors, 2 storages of 2 elements | holds |
| `storage_views` | does a copy arrive, do writes stay in the view? | 2 tensors, 1 storage of 3 elements, strides 1 and 2, both backends | holds |
| `storage_neighbours` | do writes stay in the view on OpenCL? | 2 tensors, 2 storages of 3 elements | violated: finding 3 |
| `fusion` | do both passes keep the outputs, is the graph well-formed after every rewrite, is what was fused gone, when do they make anything throw? | three families: gemms with sums and activations, pointwise operators, operators in place | holds, for `Benign` graphs |
| `fusion_alpha` | does the compiled graph, when it returns, return the module's outputs? | 3 of mm, add, relu, alphas 1 and 2 | violated: finding 4 |
| `runtime_calls` | does everybody get the one complete runtime, or an exception; what is lost? | 3 threads, 4 calls, 3 members, 2 failures; `Answered` under fairness | holds |
| `grid_calls` | is the result of a call what its operator is; is each element written once and every read in bounds; do backends agree? | 1,592 calls on 2 backends; work-groups of 4, tiles of 2, ints up to 15 | holds |

**Bounds.** `MaxOps` bounds the operations started in a behaviour of
`LaunchQueue`; three are enough for two launches that overlap and one that
finds what they left behind, and for a failed operation followed by a good one.
The proofs hold for every `MaxOps`. Three addresses let one be recycled
while two threads work on others. `jit_cache` needs each operator, a pair of
literals on each side of what six decimals and six digits tell, numbers with
and without an exponent, an operand order and the ways to be refused; two
elements show registers that survive an element. Three cached kernels are
enough for two programs with one key and a third (`MaxCached`). `TensorStorage`
needs a storage of three for a strided view with a gap, and two for a second
storage. `MaxLen`, `Sizes`, `Offsets` and `Strides` bound what is asked for; a
fourth element would only repeat a gap. Tensors, storages and values are
interchangeable, so these runs use symmetry; no liveness is checked there.
A gemm rewrite reads three nodes (product, sum, activation), so graphs of three
have each of its cases with and without another user, as further result, bias or
operand. Two groups that share an operand need four operators. Weights are
square and inputs of the graph, and serve as activations too.

In `runtime_calls` three members allow a constructor to throw at its start,
half-way and before its end; three threads allow one to wait while another
fails and a third to come later; two failures are two throwing attempts, or one
and a failed kernel. The proofs hold for any numbers, 23 members included.

In `grid_calls` work-groups of 4 and tiles of 2 make sizes of 1 to 3 fall
below, on and beyond a boundary, in each of rows, columns and sum; work-groups
of 32 would only repeat this. Ints end at 15, so that vectors of 15
and 17 elements lie on both sides, and an id of 33 becomes 1. The shapes have
every number of dimensions the operators tell apart, zero sizes, broadcasts on
either side, batches of equal product and batches of no matrix; weight and bias
of layer_norm are given, missing, short and long independently. Calls of every
operator are made with each operand, two of them or all of them behind an
offset, those that are copied by expanding and the ids of embedding included.

`NeverWrong` is about `Benign` graphs: no in-place operators, and no alpha on the
sum of an mm. `NeverRefused` asks further (`Uniform`) that the operands of an add
or a mul have one shape, that an mm whose sum is activated meets a row there,
if sum and mm have no other user, and that the bias of addmm is a row. So the
fusions into `linear_act`, relu(mm + row) among them, are within the property;
only the matrix as bias is not. Section 5 says why.

**Deadlock** is checked except in `LaunchQueue`, where the program stops when
`MaxOps` operations have returned; a block before that is what `Returns`
excludes; in `Fusion`, where compilation ends; in `KernelGrid`, where a call
ends; and in `RuntimeLife`, where the process ends (`Answered` excludes a block
before).

**Fairness.** `FairSpec` assumes that the operating system runs a thread that
can continue (`WF` on `Continue(t)`) and that the device works on its queue
(`WF` on `Execute`). Driver errors (`Fault(t)`) may happen at any step and are
never forced: a wait ends because the device drains the queue, and without
`WF(Execute)` `Returns` is violated. Nothing forces a thread to call. Weak
fairness is enough because only a bounded number of operations competes for the
mutex; the run makes no claim about starvation under endless contention, against
which `std::recursive_mutex` promises nothing. `FairSpec` of `RuntimeLife` is
weak fairness of what a thread that has called does next, and no more: a
constructor makes its next object or throws, a thread inside comes out.

## 5. Findings

1. `queue_overlap`: two threads that launch the same builtin kernel at once set
   each other's arguments (`OpenCLRuntime.cpp:395`). `MixedOnlyByOverlap`, which
   holds, says that this is the only way to run with foreign buffers.
2. `jit_supported`: a whole-number literal below 10^6, such as the alpha of a
   plain add, has no valid OpenCL source (`Jit.cpp:110`); from 10^6 up an
   exponent is printed, which builds.
3. `storage_neighbours`: a copy that broadcasts or goes to a strided view
   overwrites the rest of the storage on OpenCL (`Ops.cpp:79`).
4. `fusion_alpha`: relu(torch.add(mm(x, w), b, alpha=2)) is compiled as if alpha
   were 1 (`compiler.py:195`).

What the other properties except, they except because the code does otherwise;
without the exception TLC finds these behaviours:

* `InBoundsUnlessBroken`: a `resize_` whose allocation fails, and a `set_` that
  ATen refuses, leave their tensor with sizes or an offset beyond its storage
  (`Ops.cpp:156`, `Ops.cpp:229`). The property says that no other tensor is.
* `NeverWrong`, without `Benign`: relu_ is fused as relu, and other uses of its
  operand read the value before the call (`compiler.py:117`).
* `NeverRefused`, without `Uniform`: a pointwise chain with a broadcast operand,
  or the activated sum of an mm and a matrix, runs as a module and throws when
  compiled (`compiler.py:308`, `CustomOps.cpp:81`, `AtenCommon.h:57`).
* `RaisesOnlyOnDoubling`: the activated sum of an mm with itself makes the gemm
  pass raise (`compiler.py:197`), and the fallback of `compile` with it.
* `NearKernel`: programs whose literals differ below the sixth decimal share a
  compiled kernel (`Jit.cpp:26`); the damage is bounded to 10^-6 per literal.
* `RightResult`, for all calls: batches of the same product and another shape
  are multiplied in storage order, and a matrix times one batch of one returns
  a matrix (`LlmOps.cpp:127-129`); pointwise operands of the same count and
  another shape meet in storage order (`CustomOps.cpp:81`); an id beyond
  int32 names another row (`LlmOps.cpp:238`).
* `ReadsInBounds`, without its exceptions: a weight or bias smaller than a row
  is read past its end (`LlmOps.cpp:197`), and softmax over an empty dimension
  reads through a null pointer on the simulator (`HostKernels.cpp:182`).
* `RegularServed`: matmul of a batch of no matrices with one matrix is refused,
  since one matrix is only expanded for more than one (`LlmOps.cpp:123`); the
  attempt to prove the property without this exception showed it. matmul of an
  empty matrix and linear of empty rows divide by zero (`LlmOps.cpp:120`,
  `CustomOps.cpp:26`). Operators on empty tensors, and on contiguous views with
  an offset unless they copy them (`Copied`), throw on OpenCL where the simulator
  serves them: `as_mem` knows the pointers buffers start at
  (`OpenCLRuntime.cpp:571`). In `TensorStorage` the same makes `fill_`, `item()`
  and copies straight into a contiguous view throw (`PointerAccepted`). The
  repository's README promises the "same API" on OpenCL (`README.md:46`).
* `EachOnce` and `BackendsAgree`: beyond 2^31 - 1 elements, ints wrap in the
  kernels (`RunBeyondInt`).
* `LostOnlyByFailure`: an OpenCL constructor that throws loses what it has made
  (`OpenCLRuntime.cpp:207`; no destructor runs for it), and a failing
  `clCreateKernel` its program (`OpenCLRuntime.cpp:541`).
* Nothing keeps `LateFree` from happening: the deleter of a tensor that outlives
  `g_runtime` uses a dead runtime, or throws in a destructor.

## 6. What is proved

The theorems hold for any number of threads, addresses, kernels, programs,
operations, members of the constructor, failures, tensors, storages, elements,
shapes, sizes of work-groups and tiles, and any width of int. They assume only
what the modules' `ASSUME`s say, which TLC evaluates on every run:

* sorts are disjoint, bounds are numbers, `NArgs` is positive and operands are
  tuples of `NArgs` pointers;
* `SortsAssumption`, `FreeAssumption` and `NoViewAssumption` (D): `Junk` is no
  value and strides are positive; the mark of a storage that is not there is no
  content, and that of a tensor that is not there neither a tensor nor a view;
* `ProgramsAssumption` and `NumelAssumption` (C): programs are sequences of
  nodes of `Jit.h`, not necessarily valid ones, whose literals are below 10^9
  and have seven decimals; a tensor has at least one element;
* `WidthsAssumption` and `CallsAssumption` (G): a work-group and a tile have a
  positive size, work-groups divide `MaxInt + 1` as 32 divides 2^31 (the grid
  must not be rounded up past the last int), sizes are natural numbers, the ids
  of an embedding are as many as the elements of their tensor;
* `FamiliesAssumption` (E): a family names operators the tracer meets, inputs
  that are matrices or rows, alphas that are integers, and a number of operators.

`AllocTable_proofs` shows that `IndInv` is inductive. The listed properties are
not by themselves: `TableBacked` and `Exclusive` need `PointInv`, which says
that a pointer between two steps of `alloc` or `free` is allocated and not in
the table, or in the table and no longer in a `DataPtr`, so that neither a fresh
address nor one that another thread frees can be the same. `Refinement` maps
each step of `AllocTable` to a step of `DeviceMemory` or to a stutter.

`LaunchQueue_proofs` shows the same of the ten conjuncts of its `IndInv`.
`JitOwnArgs` follows from `SlotsSet` (the slots a lone preparer has set hold its
own buffers), which needs `MutexHeldInside` for pointwise calls (two threads
in the set phase of a fused kernel would both hold the mutex) and
`OverlapKnown` for launches. `SynchronousReturn` follows from `WaitsForOwn` (a
waiting thread counts at least up to its last command). `CompiledOnce` follows
from `CacheInv` with the mutex. Every action has its step, every conjunct its
lemma.

`RuntimeLife_proofs` adds `Life` to the checked invariants: the pointer is set
exactly when the flag says done and the process runs, nobody is inside after the
exit, and an attempt holds what it has made. `Usable` alone is not inductive: a
thread that passes the flag must find the pointer. `NothingElseLost` needs
`Numbered` besides, that what is made is new, since re-making a lost object
would unlose it, and that the freed buffer is in the table (`TypeOK`).
`Refinement` maps the construction to `Choose`, the check to `Use` and the
operations to `Leave`.

`TensorStorage_proofs` shows types and bounds inductive together (`Inductive`):
a tensor that is not broken stays within its storage (`InBounds`) because
`resize_` through one alias only lets the storage grow, and because storages
live exactly as long as a tensor names them. `WritesStay` (on the simulator an
operation changes no element outside of the view it was given),
and `CopiesRight` are action properties proved from the
same invariant. `CopiesRight` needs that a view with a positive stride has one
position per index, so that a write to one element of the target does not
overwrite another that was written before.

`PointwiseJit_proofs`: `KernelNear` says that a cached kernel does what the
program asked for does, up to a millionth in its literals: equal keys mean equal
operators, operands and the literals' first six decimals. `SameResult`, that
interpreter and generated code compute the same, goes through the operators of
both translations (`TermAgrees`) and is an induction over the nodes
of a program (`SameRegisters`), inside of one over the elements, because the
interpreter's registers survive from one element to the next: the nodes of a
valid program read only registers written before for the same element. It is
stated for plain literals, those above 0.1 that have at most six digits and six
decimals, which the key and the source both keep. The proof attempt showed that
0.1 itself is not one: it shares its key with 0.0999995.

`KernelGrid_proofs`: `Prepares` shows of every operator that, whatever it is
called with, it ends or launches with arrays as long as its kernel takes them to
be; the product of the sizes is split at any dimension for that (`NumelSplit`).
`IInv` then says that the parameters of a call stay what was prepared, and that
what is written and read is what the items of the launch do. `Results` names the
write to each element of a result, and `Once` that of the items of a launch
each element belongs to one, which does that write, and that items write
nothing else. It holds of the host because tiles cover every index in one place
(`TilesCover`) and add up in the order of the device (`InOrder`, the
concatenation of the tiles), and of the device because a gid divides into the
coordinates it is made of (`CubePosition`, `CubeBelow`), the casts to int
keep what fits (`CastKeeps`) and the grid covers the total and returns beyond it
(`GridCovers`). So no two items meet (`WritesOnce`), the backends write the same
(`SameWrites`), and reads are inside of the operands (`ReadsExist`), for a
softmax only if its line has an element to read first. `Served` adds
`Follows`: a refusal is one of `Prepared`, or of the statistics of a layer_norm,
and both are excluded for shapes that fit; a launch with a null pointer has an
operand with a size of zero (`NullMeansZero`), and an operand whose own pointer
is passed is none that `Copied` names by the shapes (`CopiedNotPassed`): an array
tells which operand it is, and of how many elements (`SameOrigin`).

`ByDefinition`, that a regular call returns what the operator is by its
definition, is the longest of these proofs. A row-major position is computed
dimension by dimension, so what holds of the empty shape and index, and is kept
when both get a dimension more, holds of all (`PairInduction`): a position lies
in the tensor (`FlatBelow`), every position is that of one index
(`IndexOfPosition`, `PositionOfIndex`), and shapes that are joined or cut
multiply and add their positions (`FlatJoin`, `CutIndex`). Of each operator then
one lemma says that `Results` at the position of an index is what the definition
has at that index (`Right`): `GemmRight` for products with one matrix,
`BatchedRight` for a batch of them, `SoftmaxRight`, `NormRight`,
`EmbeddingRight` and `ElementRight`, the last with broadcasting. `CoveredOut`
turns this into equality of what is written, `WrittenIs` says that a launch that
ran has written its `Results`, and a regular call that returns without a launch
has no indices (`EmptyReference`). The first attempt failed at mm, whose
definition took the third operand for a bias, which mm does not have.

`Fusion_proofs`: the passes rewrite graphs, and what has to be known of a graph
at any time is `WellFormed`: the order names each node once, what a node uses
comes before it, erased nodes use nothing (`Sound`), and a node has the operands
of its operator, a call of pointwise a program that both backends accept
(`Shaped`). `Placed` says what inserting a node before another does that then
takes over the users of that other, and `PutKeeps` that the graph stays sound
when the new node reads what comes before its place. `Without` says what is left
after erasures; `erase_node` needs that a node has no users, so the order of the
erasures matters: the activation before its producers, and of a group every
member after its users, which the sweep from the end of the order does because
a member's users are members (`GroupClosed`) and come later (`SweptNodes`). Both
together are `Rewritten`. `ProgramOfGroup` is an induction over the members: what
is translated so far reads registers and inputs there are, and its inputs are
the operands from outside of the group, which come before the root.
`IndInv` adds to `WellFormed` what the phases need: that nothing was erased while
tracing; that during the gemm pass every node is one of the traced graph, its
operands changed into `linear_act`s only, or a `linear_act` (`GemmRewrites`),
from which `RaisesOnDoubling` follows, since an mm that is erased and also the
bias was so in the traced graph; and that what was used is used (`KeepsUsers`),
which is `NoLeftovers`. `Lint` is not inductive: it says nothing of erased nodes,
whose operands count as users no more only because `erase_node` clears them.

What the rewritten graph computes (`ReturnsTheSame`, `NoNewRefusal`) is argued
without following an execution. `Values` says of an assignment of tensors to the
nodes that each is what its operator computes from those of its operands,
without an exception; of a graph without in-place operators, `MeantWhenReturned`
and `MeantByValues` say that it returns exactly when it has such values, and
returns what they say. Of a rewrite two things are then shown, that of any
values of the new graph there are values of the old one with the same results
(`Back`), and that a graph with values whose sums are uniform keeps having them
(`ForwardsSums`, `Forwards`). For the gemm pass this is what `linear_act`
computes from its operands (`GemmComputes`), where a bias on the left needs that
a sum does not depend on the order of its terms, and any bias that alpha is 1,
as `Benign` asks. Backwards it needs besides that the operands of an mm were
matrices, which `linear_act` does not tell, since it serves rows: but the shapes
of a traced graph that returned follow from the graph alone (`Shapes`,
`ShapedBy`), and every rewrite keeps them (`ShapesKept`). Forwards, an activated
sum of an mm and a row is uniform only until `linear_act` takes its place:
during the pass the values are those of `UniformSums`, which leaves out the sums
the pass will fuse, all of whose visits are still to come (`SumVisits`,
`VisitToCome`), so that at its end none is left and every operand of an add or a
mul has its shape (`SumsGone`, `UniformNow`). For the pointwise pass, the
program consists of loads of the inputs and of one instruction for each member
(`ProgramWhole`); a run leaves in each register what its instruction computes
from earlier ones (`RegistersLeft`), so that a member's register holds the
member's value, by induction on the members (`RegistersComputed`), and the
root's is the result (`GroupComputes`). Backwards the values of the members are
taken from the registers, which needs that all inputs have the shape the program
was called with; forwards that shape is the one all members have (`GroupShape`).
`MeaningInv` puts these together along a compilation: the graph as it is now
`Explains` the traced one, and it `Fits` it during the gemm pass and `Meets` it
from then on, if the traced one is uniform. It stands beside `IndInv`, and
quantifies over all assignments of values, so that TLC evaluates only its two
consequences.

Only model-checked:

* `Returns` and `Answered`: liveness is out of the prover's reach.

## 7. What is not modelled

* The guard and the current device: `kDeviceCount` is 1, every exchange returns
  0 and there is one stream, so that no property could fail.
* The generator: a wrapper of a CPU generator that no operator of the repository
  draws from; random operators go through the CPU fallback.
* An exit of the process while threads are inside of the runtime, and a fork:
  nothing in the code handles either.
* Numeric results: floats are symbols in C, E and G and opaque values in D.
  Scalars (alpha, eps, the activation) are handed through in G.
* `copy_kernel` and `gemm_kernel`, which no operator launches; the kernel files
  of `TVARANT_KERNEL_DIR`; the choice of platform and device.
* Shapes other than one size of matrix and its rows in E, the names torch.fx
  gives operators (`_aten_op`), the counters in `last_log`, the fallback of
  `compile` and the registration of the backend.
* More than one dimension and dtypes other than float32 in D: the storage
  operators treat both through ATen, and one dimension with an offset and a
  stride has every path of the code.
* Copies between overlapping views and operations on a tensor that is out of
  its storage's bounds, whose results the code leaves undefined.
* Views with stride 0, which the storage operators do not create themselves.
* Python wrappers, build files, examples: no behaviour of their own.
