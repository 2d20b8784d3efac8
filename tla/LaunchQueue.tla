----------------------------- MODULE LaunchQueue -----------------------------
(***************************************************************************)
(* Concurrent operations on OpenCLRuntime: threads share one in-order      *)
(* command queue, one cl_kernel object per kernel (whose argument slots    *)
(* are set one call at a time), the JIT cache, and one recursive mutex.    *)
(* launch() takes the mutex only inside as_mem; launch_pointwise() holds   *)
(* it from the cache lookup to the end of clFinish.                        *)
(*                                                                         *)
(* A kernel's arguments are abstracted to NArgs buffer pointers; scalars   *)
(* are set by the same calls and would behave the same way.                *)
(***************************************************************************)
EXTENDS Naturals, Sequences

CONSTANTS
  Threads,      \* host threads running ATen operations
  Builtins,     \* the kernels of kernels_, loaded by the constructor
  Progs,        \* pointwise programs; each is compiled to a kernel of its own
  Registered,   \* pointers that are keys of buffers_
  Operands,     \* the argument tuples operations are called with
  NArgs,        \* buffer arguments per kernel
  Unset,        \* content of an argument slot never set
  NoThread,     \* the mutex is free
  MaxOps        \* bound: operations started in a behaviour

ASSUME DisjointAssumption == Builtins \cap Progs = {} /\ NoThread \notin Threads
ASSUME NArgsAssumption    == NArgs \in Nat \ {0} /\ MaxOps \in Nat
ASSUME OperandsAssumption ==
  \A o \in Operands : o # <<>> /\ o = [i \in 1..NArgs |-> o[i]]

VARIABLES
  pc,           \* where each thread is
  req,          \* the operation it runs: kind, kernel, argument tuple
  idx,          \* the next argument slot it sets
  args,         \* args[k]: the argument slots of kernel object k
  jit,          \* jit_kernels_: programs with a compiled kernel
  owner,        \* the thread holding mutex_
  queue,        \* queue_: commands submitted and not completed
  ahead,        \* commands a thread blocked on the queue still waits for
  threw,        \* threads whose last operation ended in an exception
  ops,          \* operations started (bounded by MaxOps)
  compiled,     \* history: kernels compiled for each program
  overlap       \* history: threads whose launch met another of the same kernel

vars ==
  <<pc, req, idx, args, jit, owner, queue, ahead, threw, ops, compiled, overlap>>

Kernels == Builtins \cup Progs
Slots   == 1..NArgs
Kinds   == {"none", "launch", "pointwise", "copy_d2d", "copy_blocking", "synchronize"}
PCs     == {"idle", "lock", "lookup", "compile", "lookup_copy", "set", "enqueue",
            "finish", "wait"}

NoReq == [kind |-> "none", kern |-> Unset, want |-> <<>>]

Init ==
  /\ pc       = [t \in Threads |-> "idle"]
  /\ req      = [t \in Threads |-> NoReq]
  /\ idx      = [t \in Threads |-> 1]
  /\ args     = [k \in Kernels |-> [i \in Slots |-> Unset]]
  /\ jit      = {}
  /\ owner    = NoThread
  /\ queue    = <<>>
  /\ ahead    = [t \in Threads |-> 0]
  /\ threw    = {}
  /\ ops      = 0
  /\ compiled = [p \in Progs |-> 0]
  /\ overlap  = {}

-----------------------------------------------------------------------------
Goto(t, to) == pc' = [pc EXCEPT ![t] = to]

(* Faulty variants of the operators below, each a bug that one of the      *)
(* properties exists to exclude.                                           *)
LeaveKeepsLock(t, exc) ==                    \* mutex_.lock() without a guard
  /\ Goto(t, "idle")
  /\ threw' = IF exc THEN threw \cup {t} ELSE threw \ {t}
  /\ UNCHANGED owner
NeverBlocks(t)     == TRUE                   \* no mutex at all
NotRecursive(t)    == owner = NoThread       \* std::mutex for recursive_mutex
OneShort(t)        == idx[t] >= NArgs - 1    \* the last clSetKernelArg missing

(* An operation returns or throws; the lock_guard, if any, is destroyed.   *)
Leave(t, exc) ==
  /\ Goto(t, "idle")
  /\ owner' = IF owner = t THEN NoThread ELSE owner
  /\ threw' = IF exc THEN threw \cup {t} ELSE threw \ {t}

(* mutex_ is recursive: its owner may lock it again, inside as_mem.        *)
MayLock(t) == owner \in {NoThread, t}

(* All arguments are set after this one.                                   *)
LastArg(t) == idx[t] = NArgs

(* The commands a thread waits for have completed.                         *)
Drained(t) == ahead[t] = 0

(* One command fewer to wait for.                                          *)
Progress == [t \in Threads |-> IF ahead[t] > 0 THEN ahead[t] - 1 ELSE 0]

Asked(t) == {req[t].want[i] : i \in Slots}

(* Threads between the first clSetKernelArg of a launch of k and the end   *)
(* of its clEnqueueNDRangeKernel.                                          *)
Preparing(t, k) == pc[t] \in {"set", "enqueue"} /\ req[t].kern = k

Start(t, kind, k, o, to) ==
  /\ pc[t] = "idle" /\ ops < MaxOps
  /\ ops' = ops + 1
  /\ req' = [req EXCEPT ![t] = [kind |-> kind, kern |-> k, want |-> o]]
  /\ idx' = [idx EXCEPT ![t] = 1]
  /\ Goto(t, to)

(* launch(): kernels_ is read without the lock, which only as_mem takes.   *)
LaunchStart(t) ==
  /\ \E k \in Builtins, o \in Operands :
       LET Rivals == {u \in Threads \ {t} : Preparing(u, k)}
       IN  /\ Start(t, "launch", k, o, "set")
           /\ overlap' = (overlap \ {t}) \cup Rivals
                           \cup (IF Rivals = {} THEN {} ELSE {t})
  /\ UNCHANGED <<args, jit, owner, queue, ahead, threw, compiled>>

(* launch_pointwise(): called, then the lock_guard.                        *)
PointwiseStart(t) ==
  /\ \E p \in Progs, o \in Operands : Start(t, "pointwise", p, o, "lock")
  /\ UNCHANGED <<args, jit, owner, queue, ahead, threw, compiled, overlap>>

PointwiseLock(t) ==
  /\ pc[t] = "lock" /\ MayLock(t)
  /\ owner' = t
  /\ Goto(t, "lookup")
  /\ UNCHANGED <<req, idx, args, jit, queue, ahead, threw, ops, compiled, overlap>>

PointwiseLookup(t) ==
  /\ pc[t] = "lookup"
  /\ Goto(t, IF req[t].kern \in jit THEN "set" ELSE "compile")
  /\ UNCHANGED <<req, idx, args, jit, owner, queue, ahead, threw, ops, compiled, overlap>>

(* A miss: codegen, clBuildProgram, clCreateKernel, insert.                *)
PointwiseCompile(t) ==
  LET p == req[t].kern
  IN  /\ pc[t] = "compile"
      /\ jit'      = jit \cup {p}
      /\ compiled' = [compiled EXCEPT ![p] = @ + 1]
      /\ args'     = [args EXCEPT ![p] = [i \in Slots |-> Unset]]
      /\ Goto(t, "set")
      /\ UNCHANGED <<req, idx, owner, queue, ahead, threw, ops, overlap>>

(* clBuildProgram or clCreateKernel fails: nothing is cached.              *)
PointwiseCompileFails(t) ==
  /\ pc[t] = "compile"
  /\ Leave(t, TRUE)
  /\ UNCHANGED <<req, idx, args, jit, queue, ahead, ops, compiled, overlap>>

(* as_mem under the mutex, then clSetKernelArg on the shared object.       *)
SetArg(t) ==
  LET k == req[t].kern  p == req[t].want[idx[t]]
  IN  /\ pc[t] = "set" /\ MayLock(t)
      /\ p \in Registered
      /\ args' = [args EXCEPT ![k][idx[t]] = p]
      /\ idx'  = [idx EXCEPT ![t] = @ + 1]
      /\ Goto(t, IF LastArg(t) THEN "enqueue" ELSE "set")
      /\ UNCHANGED <<req, jit, owner, queue, ahead, threw, ops, compiled, overlap>>

(* as_mem throws: the pointer is no key of buffers_ (a view with a storage *)
(* offset, a null pointer). The slots set so far keep their values.        *)
SetArgThrows(t) ==
  /\ pc[t] = "set" /\ MayLock(t)
  /\ req[t].want[idx[t]] \notin Registered
  /\ Leave(t, TRUE)
  /\ UNCHANGED <<req, idx, args, jit, queue, ahead, ops, compiled, overlap>>

(* copy_h2d, copy_d2h (blocking transfers) and copy_d2d: as_mem of the     *)
(* buffers involved, then a command that carries its own operands.         *)
CopyStart(t) ==
  /\ \E c \in {"copy_d2d", "copy_blocking"}, o \in Operands :
       Start(t, c, Unset, o, "lookup_copy")
  /\ UNCHANGED <<args, jit, owner, queue, ahead, threw, compiled, overlap>>

CopyUnchecked(t) ==                          \* faulty: as_mem does not throw
  /\ pc[t] = "lookup_copy" /\ MayLock(t)
  /\ Goto(t, "enqueue")
  /\ UNCHANGED <<req, idx, args, jit, owner, queue, ahead, threw, ops, compiled, overlap>>

CopyLookup(t) ==
  /\ pc[t] = "lookup_copy" /\ MayLock(t)
  /\ Asked(t) \subseteq Registered
  /\ Goto(t, "enqueue")
  /\ UNCHANGED <<req, idx, args, jit, owner, queue, ahead, threw, ops, compiled, overlap>>

CopyThrows(t) ==
  /\ pc[t] = "lookup_copy" /\ MayLock(t)
  /\ ~(Asked(t) \subseteq Registered)
  /\ Leave(t, TRUE)
  /\ UNCHANGED <<req, idx, args, jit, queue, ahead, ops, compiled, overlap>>

(* The command an operation submits: clEnqueueNDRangeKernel captures the   *)
(* slots as they are now, a copy has its buffers in the call.              *)
NewCommand(t) ==
  LET kernelOp == req[t].kind \in {"launch", "pointwise"}
  IN  [by |-> t, kind |-> req[t].kind, want |-> req[t].want,
       args |-> IF kernelOp THEN args[req[t].kern] ELSE req[t].want,
       overlapped |-> kernelOp /\ t \in overlap]

(* A blocking transfer then waits for its own command, the others go on to *)
(* clFinish.                                                               *)
Enqueue(t) ==
  LET blocking == req[t].kind = "copy_blocking"
  IN  /\ pc[t] = "enqueue"
      /\ queue' = Append(queue, NewCommand(t))
      /\ ahead' = IF blocking THEN [ahead EXCEPT ![t] = Len(queue) + 1] ELSE ahead
      /\ Goto(t, IF blocking THEN "wait" ELSE "finish")
      /\ UNCHANGED <<req, idx, args, jit, owner, threw, ops, compiled, overlap>>

EnqueueFails(t) ==
  /\ pc[t] = "enqueue"
  /\ Leave(t, TRUE)
  /\ UNCHANGED <<req, idx, args, jit, queue, ahead, ops, compiled, overlap>>

SynchronizeStart(t) ==
  /\ Start(t, "synchronize", Unset, <<>>, "finish")
  /\ UNCHANGED <<args, jit, owner, queue, ahead, threw, compiled, overlap>>

(* clFinish waits for every command submitted before the call.             *)
FinishMissing(t) ==                          \* faulty
  /\ pc[t] = "finish"
  /\ Leave(t, FALSE)
  /\ UNCHANGED <<req, idx, args, jit, queue, ahead, ops, compiled, overlap>>

Finish(t) ==
  /\ pc[t] = "finish"
  /\ ahead' = [ahead EXCEPT ![t] = Len(queue)]
  /\ Goto(t, "wait")
  /\ UNCHANGED <<req, idx, args, jit, owner, queue, threw, ops, compiled, overlap>>

WaitReturns(t) ==
  /\ pc[t] = "wait" /\ Drained(t)
  /\ Leave(t, FALSE)
  /\ UNCHANGED <<req, idx, args, jit, queue, ahead, ops, compiled, overlap>>

(* The driver reports an error instead of waiting: CL_CHECK throws, while  *)
(* synchronize ignores the code and returns.                               *)
WaitFails(t) ==
  /\ pc[t] = "wait"
  /\ ahead' = [ahead EXCEPT ![t] = 0]
  /\ Leave(t, req[t].kind # "synchronize")
  /\ UNCHANGED <<req, idx, args, jit, queue, ops, compiled, overlap>>

(* The device completes the oldest command of the in-order queue.          *)
Execute ==
  /\ queue # <<>>
  /\ queue' = Tail(queue)
  /\ ahead' = Progress
  /\ UNCHANGED <<pc, req, idx, args, jit, owner, threw, ops, compiled, overlap>>

(* The steps of an operation under way that the thread takes by itself: a  *)
(* pointer that as_mem refuses is refused whenever it is looked up.        *)
Continue(t) ==
  \/ PointwiseLock(t) \/ PointwiseLookup(t) \/ PointwiseCompile(t)
  \/ SetArg(t) \/ SetArgThrows(t) \/ CopyLookup(t) \/ CopyThrows(t)
  \/ Enqueue(t) \/ Finish(t) \/ WaitReturns(t)

(* The driver reports an error: it may, and nothing makes it.              *)
Fault(t) ==
  PointwiseCompileFails(t) \/ EnqueueFails(t) \/ WaitFails(t)

Call(t) ==
  LaunchStart(t) \/ PointwiseStart(t) \/ CopyStart(t) \/ SynchronizeStart(t)

Next == Execute \/ \E t \in Threads : Call(t) \/ Continue(t) \/ Fault(t)

Spec == Init /\ [][Next]_vars

(* The operating system runs every thread and the device makes progress;   *)
(* nothing forces a thread to start an operation, or the driver to fail.   *)
FairSpec ==
  Spec /\ WF_vars(Execute) /\ \A t \in Threads : WF_vars(Continue(t))

-----------------------------------------------------------------------------
Command == [by : Threads, kind : Kinds, want : Operands, overlapped : BOOLEAN,
            args : [Slots -> Registered \cup {Unset}]]

(* The shape of the state.                                                 *)
TypeOK ==
  /\ pc  \in [Threads -> PCs]
  /\ req \in [Threads -> [kind : Kinds, kern : Kernels \cup {Unset},
                          want : Operands \cup {<<>>}]]
  /\ idx \in [Threads -> 1..(NArgs + 1)]
  /\ args \in [Kernels -> [Slots -> Registered \cup {Unset}]]
  /\ jit \subseteq Progs
  /\ owner \in Threads \cup {NoThread}
  /\ queue \in Seq(Command)
  /\ ahead \in [Threads -> Nat]
  /\ threw \subseteq Threads /\ overlap \subseteq Threads
  /\ ops \in 0..MaxOps
  /\ compiled \in [Progs -> Nat]

(* A thread is inside launch_pointwise after its lock_guard.               *)
InJit(t) ==
  /\ req[t].kind = "pointwise"
  /\ pc[t] \in {"lookup", "compile", "set", "enqueue", "finish", "wait"}

(* mutex_ is held exactly from the lock_guard of launch_pointwise to its   *)
(* end, on every path out of it, exceptions included.                      *)
MutexHeldInside == \A t \in Threads : owner = t <=> InJit(t)

Submitted == {queue[i] : i \in 1..Len(queue)}

(* A fused kernel runs with the buffers of the launch_pointwise call that  *)
(* enqueued it, whatever other threads launch or failed to launch.         *)
JitOwnArgs ==
  \A c \in Submitted : c.kind = "pointwise" => c.args = c.want

(* A builtin kernel runs with another call's buffers only if the two calls *)
(* were preparing it at the same time: what a finished or a failed launch  *)
(* left in the kernel object is never run again.                           *)
MixedOnlyByOverlap ==
  \A c \in Submitted : c.kind = "launch" /\ c.args # c.want => c.overlapped

(* Operations are synchronous: a thread whose last operation returned      *)
(* normally has nothing left on the queue, not even from an operation that *)
(* failed before it.                                                       *)
SynchronousReturn ==
  \A t \in Threads :
    pc[t] = "idle" /\ t \notin threw /\ req[t].kind # "synchronize" =>
      \A c \in Submitted : c.by # t

(* The JIT cache: a program is compiled at most once, also when two        *)
(* threads meet it first at the same time.                                 *)
CompiledOnce == \A p \in Progs : compiled[p] <= 1

(* Every operation returns: no thread waits for ever on mutex_ or on the   *)
(* queue, also when the driver never fails.                                *)
Returns == \A t \in Threads : pc[t] # "idle" ~> pc[t] = "idle"

(* A thread that prepares a kernel alone: inside the mutex, or never       *)
(* overlapped by another launch of the kernel.                             *)
Alone(t) == req[t].kind = "pointwise" \/ t \notin overlap

(* Which operations pass which program point, with what.                   *)
PathInv ==
  \A t \in Threads :
    /\ req[t].kind = "pointwise" => req[t].kern \in Progs
    /\ req[t].kind = "launch" => req[t].kern \in Builtins
    /\ req[t].kind \notin {"none", "synchronize"} => req[t].want \in Operands
    /\ pc[t] \in {"lock", "lookup", "compile"} =>
         req[t].kind = "pointwise" /\ idx[t] = 1
    /\ pc[t] = "set" => req[t].kind \in {"launch", "pointwise"} /\ idx[t] <= NArgs
    /\ pc[t] = "lookup_copy" => req[t].kind \in {"copy_d2d", "copy_blocking"}
    /\ pc[t] = "enqueue" =>
         \/ req[t].kind \in {"launch", "pointwise"} /\ idx[t] = NArgs + 1
         \/ req[t].kind \in {"copy_d2d", "copy_blocking"} /\ Asked(t) \subseteq Registered

(* The slots a lone preparer has set hold its own buffers.                 *)
SlotsSet ==
  \A t \in Threads :
    pc[t] \in {"set", "enqueue"} /\ req[t].kind \in {"launch", "pointwise"} /\ Alone(t) =>
      \A i \in Slots : i < idx[t] => args[req[t].kern][i] = req[t].want[i]

(* A thread blocked on the queue waits for all of its own commands.        *)
WaitsForOwn ==
  \A t \in Threads : pc[t] = "wait" =>
    \A i \in 1..Len(queue) : queue[i].by = t => i <= ahead[t]

(* Two launches that prepare the same kernel know that they overlap.       *)
OverlapKnown ==
  \A t, u \in Threads :
    /\ t # u /\ req[t].kind = "launch" /\ req[u].kind = "launch"
    /\ Preparing(t, req[t].kern) /\ Preparing(u, req[t].kern)
    => t \in overlap

(* The cache holds exactly the programs that were compiled, and the thread *)
(* about to compile one is the first.                                      *)
CacheInv ==
  /\ \A p \in Progs : compiled[p] = IF p \in jit THEN 1 ELSE 0
  /\ \A t \in Threads : pc[t] = "compile" => req[t].kern \notin jit

(* The strengthening that is inductive.                                    *)
IndInv ==
  /\ TypeOK /\ MutexHeldInside /\ PathInv /\ CacheInv /\ OverlapKnown /\ SlotsSet
  /\ WaitsForOwn /\ JitOwnArgs /\ MixedOnlyByOverlap /\ SynchronousReturn

(* What the documentation of an operator promises: the result is computed  *)
(* from the operands of the call.                                          *)
LaunchOwnArgs ==
  \A c \in Submitted : c.kind = "launch" => c.args = c.want
=============================================================================
