----------------------------- MODULE AllocTable -----------------------------
(***************************************************************************)
(* The allocation table of the runtimes, under concurrent callers:         *)
(* CpuSimRuntime keeps the set live_ of malloc'ed blocks, OpenCLRuntime    *)
(* the map buffers_ from handle to cl_mem. Both are guarded by a mutex,    *)
(* but the driver calls that create and release the memory are made        *)
(* outside of it, so an alloc and a free are two steps each, and the       *)
(* driver may hand a released address to another thread at once.           *)
(***************************************************************************)
CONSTANTS
  Threads,      \* host threads running ATen operations
  Addrs,        \* block addresses / cl_mem handles the driver can return
  NULL,         \* nullptr: what a zero-byte DataPtr holds
  Backend       \* "sim" (CpuSimRuntime) or "opencl" (OpenCLRuntime)

ASSUME NullAssumption    == NULL \notin Addrs
ASSUME BackendAssumption == Backend \in {"sim", "opencl"}

VARIABLES
  heap,         \* addresses the driver considers allocated
  table,        \* live_ / the keys of buffers_
  held,         \* pointers held by a DataPtr and not yet handed to free
  pc,           \* where each thread is
  ptr           \* the pointer the thread's alloc or free works on

vars == <<heap, table, held, pc, ptr>>

PCs == {"idle", "inserting", "erasing", "releasing"}

Init ==
  /\ heap  = {}
  /\ table = {}
  /\ held  = {}
  /\ pc    = [t \in Threads |-> "idle"]
  /\ ptr   = [t \in Threads |-> NULL]

Goto(t, to, p) ==
  /\ pc'  = [pc  EXCEPT ![t] = to]
  /\ ptr' = [ptr EXCEPT ![t] = p]

(* owns(): the lookup under the mutex, also the guard of as_mem.           *)
Owns(a) == a \in table

(* Faulty variants of the operators below, each a bug that one of the      *)
(* properties exists to exclude.                                           *)
FreshUnchecked   == (Addrs \ heap) \cup {NULL}      \* driver failure not checked
NotRegistered(a) == table                           \* alloc without the insert
NotForgotten(a)  == table                           \* free without the erase
StillHeld(a)     == held                            \* the deleter runs twice
StopsIfKnown(t)  == Backend = "opencl" /\ Owns(ptr[t])   \* condition inverted

(* What the driver may return: posix_memalign / clCreateBuffer of fresh    *)
(* memory; a failing call throws with nothing changed.                     *)
Fresh == Addrs \ heap

(* The table and the DataPtrs with a pointer added or dropped.             *)
Registered(a) == table \cup {a}
Forgotten(a)  == table \ {a}
GivenBack(a)  == held \ {a}

(* OpenCLRuntime::free returns when it does not know the pointer;          *)
(* CpuSimRuntime goes on to release it in any case.                        *)
StopsIfUnknown(t) == Backend = "opencl" /\ ~Owns(ptr[t])

(* alloc, first half: the driver call, before the lock.                    *)
AllocDriver(t) ==
  /\ pc[t] = "idle"
  /\ \E a \in Fresh : heap' = heap \cup {a} /\ Goto(t, "inserting", a)
  /\ UNCHANGED <<table, held>>

(* alloc, second half: insert under the lock, return to the DataPtr.       *)
AllocInsert(t) ==
  /\ pc[t] = "inserting"
  /\ table' = Registered(ptr[t])
  /\ held'  = held \cup {ptr[t]}
  /\ Goto(t, "idle", NULL)
  /\ UNCHANGED heap

(* A DataPtr dies and its deleter calls free; for the nullptr of a         *)
(* zero-byte one nothing happens.                                          *)
FreeCall(t) ==
  /\ pc[t] = "idle"
  /\ \E a \in held : held' = GivenBack(a) /\ Goto(t, "erasing", a)
  /\ UNCHANGED <<heap, table>>

(* free, under the lock: forget the pointer.                               *)
FreeErase(t) ==
  /\ pc[t] = "erasing"
  /\ table' = Forgotten(ptr[t])
  /\ IF StopsIfUnknown(t)
       THEN Goto(t, "idle", NULL)
       ELSE Goto(t, "releasing", ptr[t])
  /\ UNCHANGED <<heap, held>>

(* free, after the unlock: ::free / clReleaseMemObject.                    *)
FreeRelease(t) ==
  /\ pc[t] = "releasing"
  /\ heap' = heap \ {ptr[t]}
  /\ Goto(t, "idle", NULL)
  /\ UNCHANGED <<table, held>>

Step(t) ==
  \/ AllocDriver(t) \/ AllocInsert(t)
  \/ FreeCall(t) \/ FreeErase(t) \/ FreeRelease(t)

Next == \E t \in Threads : Step(t)

Spec == Init /\ [][Next]_vars

-----------------------------------------------------------------------------
Busy(t) == pc[t] # "idle"

(* The sets hold addresses, and a thread inside alloc or free works on a   *)
(* real address, never on nullptr.                                         *)
TypeOK ==
  /\ heap \subseteq Addrs /\ table \subseteq Addrs /\ held \subseteq Addrs
  /\ pc  \in [Threads -> PCs]
  /\ ptr \in [Threads -> Addrs \cup {NULL}]
  /\ \A t \in Threads : Busy(t) => ptr[t] # NULL

(* Every pointer the framework holds is one the runtime owns: no           *)
(* interleaving of another thread's free makes getDeviceFromPtr or as_mem  *)
(* reject a live tensor, even when the driver recycles addresses.          *)
HeldOwned == \A a \in held : Owns(a)

(* Every entry of the table is backed by memory the driver still holds:    *)
(* as_mem never returns a released cl_mem.                                 *)
TableBacked == table \subseteq heap

(* No leak: driver memory is held by a DataPtr or is in the hands of a     *)
(* thread inside alloc or free.                                            *)
NoLeak == \A a \in heap : a \in held \/ \E t \in Threads : Busy(t) /\ ptr[t] = a

(* No two threads release, or insert, the same block (double free).        *)
Exclusive ==
  \A t, u \in Threads : t # u /\ Busy(t) /\ Busy(u) => ptr[t] # ptr[u]

(* What each program point knows about the pointer it works on.            *)
PointInv ==
  \A t \in Threads :
    /\ pc[t] \in {"inserting", "releasing"} => ptr[t] \in heap \ table
    /\ pc[t] = "erasing" => ptr[t] \in table \ held

(* The strengthening that is inductive.                                    *)
IndInv ==
  /\ TypeOK /\ HeldOwned /\ TableBacked /\ NoLeak /\ Exclusive /\ PointInv

(* The table implements the promise of DeviceMemory.                       *)
Promise == INSTANCE DeviceMemory WITH lent <- held, known <- table
ImplementsPromise == Promise!Spec
=============================================================================
