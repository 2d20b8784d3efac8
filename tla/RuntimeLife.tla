---------------------------- MODULE RuntimeLife ----------------------------
(***************************************************************************)
(* The life of the runtime object, Runtime.cpp: threads call runtime(),    *)
(* whose call_once runs an initialiser that may throw, is then run again   *)
(* by the next caller, and reads the environment each time; callers use    *)
(* the object; the exit of the process destroys it.                        *)
(*                                                                         *)
(* objects are what the driver has handed out, handles those of them that  *)
(* a variable of the process still names. A blocked caller is one whose    *)
(* next step is not enabled. kDeviceCount is 1, so every call is for the   *)
(* one device there is.                                                    *)
(***************************************************************************)
EXTENDS Integers

CONSTANTS
  Threads,
  Members,   \* driver objects the OpenCL constructor makes: 3 and 20 kernels
  MaxCalls,  \* bound: calls of runtime() in a behaviour
  MaxFaults  \* bound: driver calls that fail in a behaviour

ASSUME BoundsAssumption == Members \in Nat /\ MaxCalls \in Nat /\ MaxFaults \in Nat

VARIABLES
  env,       \* TVARANT_BACKEND
  once,      \* g_once
  rt,        \* g_runtime: None or the backend of the object it owns
  attempt,   \* constructions of an OpenCLRuntime begun
  made,      \* objects the last of them has made so far
  objects, handles,
  tensors,   \* memory of living tensors, by number
  serial,    \* allocations and compilations so far
  pc, calls, faults,
  phase      \* run, over (g_runtime is destroyed) or aborted

vars == <<env, once, rt, attempt, made, objects, handles, tensors, serial,
          pc, calls, faults, phase>>

None     == "none"
Backends == {"sim", "opencl"}
Settings == Backends \cup {"other"}

Member(a, i) == <<"member", a, i>>
Buffer(x)    == <<"buffer", x>>
Program(x)   == <<"program", x>>
Kernel(x)    == <<"kernel", x>>

Init ==
  /\ env \in Settings /\ once = "new" /\ rt = None
  /\ attempt = 0 /\ made = 0
  /\ objects = {} /\ handles = {} /\ tensors = {} /\ serial = 0
  /\ pc = [t \in Threads |-> "out"] /\ calls = 0 /\ faults = 0
  /\ phase = "run"

-----------------------------------------------------------------------------
(* The environment may change at any time; it is read until one attempt    *)
(* has succeeded.                                                          *)
SetEnv ==
  /\ once # "done" /\ phase = "run"
  /\ env' \in Settings
  /\ UNCHANGED <<once, rt, attempt, made, objects, handles, tensors, serial,
                 pc, calls, faults, phase>>

Goto(t, from, to) == pc[t] = from /\ pc' = [pc EXCEPT ![t] = to]

Kept    == UNCHANGED <<objects, handles, tensors, serial>>
Steady  == UNCHANGED <<env, calls, phase>>
Started == UNCHANGED <<once, rt, attempt, made>>

Call(t) ==
  /\ phase = "run" /\ calls < MaxCalls
  /\ Goto(t, "out", "enter") /\ calls' = calls + 1
  /\ UNCHANGED <<env, faults, phase>> /\ Kept /\ Started

(* call_once: passed when an attempt has succeeded; while one is under way *)
(* callers wait.                                                           *)
PassesWhenBegun == once # "new"          \* faulty: callers do not wait
Passes  == once = "done"
AlwaysMayBegin == once # "running"       \* faulty: a flag that is never set
MayBegin == once = "new"

Enter(t) ==
  /\ Passes /\ Goto(t, "enter", "check")
  /\ UNCHANGED faults /\ Steady /\ Kept /\ Started

(* parse_backend throws.                                                   *)
RefuseSetting(t) ==
  /\ MayBegin /\ env = "other" /\ Goto(t, "enter", "out")
  /\ UNCHANGED faults /\ Steady /\ Kept /\ Started

BeginSim(t) ==
  /\ MayBegin /\ env = "sim" /\ Goto(t, "enter", "check")
  /\ once' = "done" /\ rt' = "sim"
  /\ UNCHANGED <<attempt, made, faults>> /\ Steady /\ Kept

BeginOpenCL(t) ==
  /\ MayBegin /\ env = "opencl" /\ Goto(t, "enter", "construct")
  /\ once' = "running" /\ attempt' = attempt + 1 /\ made' = 0
  /\ UNCHANGED <<rt, faults>> /\ Steady /\ Kept

(* OpenCLRuntime(): context, queue, program and kernels, one by one.       *)
Make(t) ==
  /\ made < Members /\ Goto(t, "construct", "construct")
  /\ made' = made + 1
  /\ objects' = objects \cup {Member(attempt, made + 1)}
  /\ handles' = handles \cup {Member(attempt, made + 1)}
  /\ UNCHANGED <<once, rt, attempt, tensors, serial, faults>> /\ Steady

(* No platform, no device, or one of the calls fails: no destructor runs,  *)
(* and the handles go with the object.                                     *)
StillRunning   == "running"              \* faulty: the exception passes by the flag
OnceAfterThrow == "new"
ConstructThrows(t) ==
  /\ made < Members /\ faults < MaxFaults /\ Goto(t, "construct", "out")
  /\ once' = OnceAfterThrow /\ handles' = {} /\ faults' = faults + 1
  /\ UNCHANGED <<rt, attempt, made, objects, tensors, serial>> /\ Steady

Publish(t) ==
  /\ made = Members /\ Goto(t, "construct", "check")
  /\ once' = "done" /\ rt' = "opencl"
  /\ UNCHANGED <<attempt, made, faults>> /\ Steady /\ Kept

(* runtime(): TORCH_CHECK(g_runtime != nullptr).                           *)
Check(t) ==
  /\ Goto(t, "check", IF rt = None THEN "out" ELSE "inside")
  /\ UNCHANGED faults /\ Steady /\ Kept /\ Started

-----------------------------------------------------------------------------
(* The operations that make or release driver objects, and the return of   *)
(* any other.                                                              *)
Alloc(t) ==
  /\ Goto(t, "inside", "out")
  /\ serial' = serial + 1 /\ tensors' = tensors \cup {serial}
  /\ objects' = objects \cup {Buffer(serial)} /\ handles' = handles \cup {Buffer(serial)}
  /\ UNCHANGED faults /\ Steady /\ Started

ErasedOnly(x) ==                         \* faulty: the entry goes, the memory stays
  handles' = handles \ {Buffer(x)} /\ UNCHANGED objects
ReleasedOnly(x) ==                       \* faulty: the memory goes, the entry stays
  objects' = objects \ {Buffer(x)} /\ UNCHANGED handles
Released(x) == objects' = objects \ {Buffer(x)} /\ handles' = handles \ {Buffer(x)}

Free(t) ==
  /\ Goto(t, "inside", "out")
  /\ \E x \in tensors : tensors' = tensors \ {x} /\ Released(x)
  /\ UNCHANGED <<serial, faults>> /\ Steady /\ Started

(* launch_pointwise compiles a program and a kernel, and keeps both.       *)
Compile(t) ==
  /\ rt = "opencl" /\ Goto(t, "inside", "out")
  /\ serial' = serial + 1
  /\ objects' = objects \cup {Program(serial), Kernel(serial)}
  /\ handles' = handles \cup {Program(serial), Kernel(serial)}
  /\ UNCHANGED <<tensors, faults>> /\ Steady /\ Started

(* A program that does not build is released; one clCreateKernel fails on  *)
(* is not, and nothing names it any more.                                  *)
KernelFails(t) ==
  /\ rt = "opencl" /\ faults < MaxFaults /\ Goto(t, "inside", "out")
  /\ serial' = serial + 1 /\ faults' = faults + 1
  /\ objects' = objects \cup {Program(serial)}
  /\ UNCHANGED <<handles, tensors>> /\ Steady /\ Started

Return(t) ==
  /\ Goto(t, "inside", "out")
  /\ UNCHANGED faults /\ Steady /\ Kept /\ Started

-----------------------------------------------------------------------------
(* The exit of the process, after its threads have come out: the OpenCL    *)
(* destructor releases what its members name, tensors' buffers included;   *)
(* the simulator's leaves the blocks to their tensors.                     *)
LeavesBuffers ==                         \* faulty: buffers_ is not walked
  objects \ {h \in handles : h[1] # "buffer"}
LeftByDestructor == IF rt = "opencl" THEN objects \ handles ELSE objects

Exit ==
  /\ phase = "run" /\ \A t \in Threads : pc[t] = "out"
  /\ phase' = "over" /\ rt' = None
  /\ objects' = LeftByDestructor
  /\ handles' = IF rt = "opencl" THEN {} ELSE handles
  /\ UNCHANGED <<env, once, attempt, made, tensors, serial, pc, calls, faults>>

(* A tensor that dies later: its deleter calls runtime(), which throws in  *)
(* a destructor, if the pointer reads as null; it is dead in any case.     *)
LateFree ==
  /\ phase = "over" /\ tensors # {}
  /\ phase' = "aborted"
  /\ UNCHANGED <<env, calls, pc, faults>> /\ Kept /\ Started

Initialise(t) ==
  \/ Enter(t) \/ RefuseSetting(t) \/ BeginSim(t) \/ BeginOpenCL(t)
  \/ Make(t) \/ ConstructThrows(t) \/ Publish(t) \/ Check(t)

Work(t) == Alloc(t) \/ Free(t) \/ Compile(t) \/ KernelFails(t) \/ Return(t)

Next ==
  \/ SetEnv \/ Exit \/ LateFree
  \/ \E t \in Threads : Call(t) \/ Initialise(t) \/ Work(t)

Spec == Init /\ [][Next]_vars

(* The operating system runs a thread that can continue.                   *)
FairSpec == Spec /\ \A t \in Threads : WF_vars(Initialise(t)) /\ WF_vars(Work(t))

-----------------------------------------------------------------------------
Made == {Member(attempt, i) : i \in 1..made}

(* Every handle is of something that exists, and during the run the        *)
(* buffers there are handles of are those of the living tensors            *)
(* (OpenCLRuntime.cpp:319-347).                                            *)
TypeOK ==
  /\ env \in Settings /\ once \in {"new", "running", "done"}
  /\ rt \in Backends \cup {None} /\ phase \in {"run", "over", "aborted"}
  /\ attempt \in Nat /\ made \in 0..Members /\ serial \in Nat
  /\ calls \in 0..MaxCalls /\ faults \in 0..MaxFaults
  /\ tensors \subseteq 0..(serial - 1)
  /\ pc \in [Threads -> {"out", "enter", "construct", "check", "inside"}]
  /\ handles \subseteq objects
  /\ phase = "run" => \A x \in 0..serial : Buffer(x) \in handles <=> x \in tensors

(* While the flag says that an attempt is under way there is exactly one,  *)
(* so that those who wait wait for somebody (Runtime.cpp:40).              *)
OneInitialiser ==
  /\ once = "running" => \E t \in Threads : pc[t] = "construct"
  /\ \A t, u \in Threads : pc[t] = "construct" /\ pc[u] = "construct" => t = u
  /\ \A t \in Threads : pc[t] = "construct" => once = "running"

(* Whoever is past call_once finds a runtime, however many attempts have   *)
(* thrown before, and an OpenCL runtime with all that its constructor      *)
(* makes: the check in runtime() fails after the exit only                 *)
(* (Runtime.cpp:49-53).                                                    *)
Usable ==
  /\ \A t \in Threads : pc[t] \in {"check", "inside"} => rt # None
  /\ rt = "opencl" => made = Members /\ Made \subseteq handles

(* What the driver has handed out and nothing names is lost for good. The  *)
(* only steps that lose anything are those in which a call of the driver   *)
(* fails (OpenCLRuntime.cpp:207-278, 541); the destructor loses nothing.   *)
LostOnlyByFailure ==
  [][objects' \ handles' # objects \ handles => faults' = faults + 1]_vars

(* One runtime, chosen once, for all threads.                              *)
Shared ==
  INSTANCE SharedRuntime WITH
    Over    <- "over",
    backend <- IF phase = "run" THEN rt ELSE "over",
    users   <- {t \in Threads : pc[t] = "inside"}
ImplementsShared == Shared!Spec

(* Who calls runtime() gets it or an exception, also when the attempt he   *)
(* waits for throws.                                                       *)
Answered == \A t \in Threads : pc[t] = "enter" ~> pc[t] \in {"inside", "out"}
=============================================================================
