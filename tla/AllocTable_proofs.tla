-------------------------- MODULE AllocTable_proofs --------------------------
(***************************************************************************)
(* The invariants of AllocTable, for any sets of threads and addresses and *)
(* both backends. IndInv is inductive: HeldOwned and TableBacked alone are *)
(* not, because they say nothing of the pointer a thread inside alloc or   *)
(* free is about to insert, erase or release; PointInv and Exclusive do.   *)
(***************************************************************************)
EXTENDS AllocTable, TLAPS

USE NullAssumption

(* The empty table satisfies the invariant. *)
LEMMA InitIndInv == Init => IndInv
  BY DEF Init, IndInv, TypeOK, HeldOwned, TableBacked, NoLeak, Exclusive,
         PointInv, PCs, Busy, Owns

(* Every step of alloc and free preserves the invariant. *)
LEMMA StepIndInv == ASSUME IndInv, [Next]_vars PROVE IndInv'
<1> USE DEF IndInv, TypeOK, HeldOwned, TableBacked, NoLeak, Exclusive,
            PointInv, PCs, Busy, Owns, Goto
<1>1. ASSUME NEW t \in Threads, AllocDriver(t) PROVE IndInv'
  BY <1>1 DEF AllocDriver, Fresh
<1>2. ASSUME NEW t \in Threads, AllocInsert(t) PROVE IndInv'
  BY <1>2 DEF AllocInsert, Registered
<1>3. ASSUME NEW t \in Threads, FreeCall(t) PROVE IndInv'
  BY <1>3 DEF FreeCall, GivenBack
<1>4. ASSUME NEW t \in Threads, FreeErase(t) PROVE IndInv'
  BY <1>4 DEF FreeErase, Forgotten, StopsIfUnknown
<1>5. ASSUME NEW t \in Threads, FreeRelease(t) PROVE IndInv'
  BY <1>5 DEF FreeRelease
<1>6. CASE UNCHANGED vars
  BY <1>6 DEF vars
<1> QED BY <1>1, <1>2, <1>3, <1>4, <1>5, <1>6 DEF Next, Step

(* The inductive invariant holds in every reachable state. *)
THEOREM Inductive == Spec => []IndInv
<1>1. Init => IndInv BY InitIndInv
<1>2. IndInv /\ [Next]_vars => IndInv' BY StepIndInv
<1> QED BY <1>1, <1>2, PTL DEF Spec

(* The heap, the table and the pointers held are sets of addresses, and a  *)
(* thread inside alloc or free has a pointer in hand.                      *)
THEOREM Types == Spec => []TypeOK
<1>1. IndInv => TypeOK BY DEF IndInv
<1> QED BY <1>1, Inductive, PTL

(* Whatever the interleaving, owns() answers true for every pointer held.  *)
THEOREM PointersOwned == Spec => []HeldOwned
<1>1. IndInv => HeldOwned BY DEF IndInv
<1> QED BY <1>1, Inductive, PTL

(* The runtime never keeps an entry whose memory the driver took back.     *)
THEOREM EntriesBacked == Spec => []TableBacked
<1>1. IndInv => TableBacked BY DEF IndInv
<1> QED BY <1>1, Inductive, PTL

(* Device memory is never lost: it is held, or a thread is at work on it.  *)
THEOREM NothingLeaks == Spec => []NoLeak
<1>1. IndInv => NoLeak BY DEF IndInv
<1> QED BY <1>1, Inductive, PTL

(* No block is in the hands of two threads: there is no double free.       *)
THEOREM OneReleaser == Spec => []Exclusive
<1>1. IndInv => Exclusive BY DEF IndInv
<1> QED BY <1>1, Inductive, PTL

(* One step of the table is one step of the promise, or none: the insert   *)
(* is the promise's Alloc, the call of free its GiveBack, the erase its    *)
(* Forget; the driver calls are invisible.                                 *)
LEMMA StepRefines ==
  ASSUME IndInv, [Next]_vars
  PROVE  [Promise!Next]_(Promise!vars)
<1> USE DEF Promise!Next, Promise!Alloc, Promise!GiveBack, Promise!Forget,
            Promise!vars, Goto
<1>1. ASSUME NEW t \in Threads, AllocInsert(t)
      PROVE  Promise!Next
  <2>1. pc[t] = "inserting" /\ ptr[t] \in Addrs /\ ptr[t] \notin table
    BY <1>1 DEF AllocInsert, IndInv, TypeOK, PointInv
  <2>2. Promise!Alloc(ptr[t])
    BY <1>1, <2>1 DEF AllocInsert, Registered
  <2> QED BY <2>1, <2>2
<1>2. ASSUME NEW t \in Threads, FreeCall(t)
      PROVE  Promise!Next
  BY <1>2 DEF FreeCall, GivenBack, IndInv, TypeOK
<1>3. ASSUME NEW t \in Threads, FreeErase(t)
      PROVE  Promise!Next
  <2>1. ptr[t] \in Addrs /\ ptr[t] \in table \ held
    BY <1>3 DEF FreeErase, IndInv, TypeOK, PointInv
  <2>2. Promise!Forget(ptr[t])
    BY <1>3, <2>1 DEF FreeErase, Forgotten, StopsIfUnknown
  <2> QED BY <2>1, <2>2
<1>4. ASSUME NEW t \in Threads, AllocDriver(t) \/ FreeRelease(t)
      PROVE  UNCHANGED <<held, table>>
  BY <1>4 DEF AllocDriver, FreeRelease
<1>5. CASE UNCHANGED vars
  BY <1>5 DEF vars
<1> QED BY <1>1, <1>2, <1>3, <1>4, <1>5 DEF Next, Step

(* The allocation table implements the promise of DeviceMemory.            *)
THEOREM Refinement == Spec => ImplementsPromise
<1>1. Init => Promise!Init BY DEF Init, Promise!Init
<1>2. IndInv /\ [Next]_vars => [Promise!Next]_(Promise!vars) BY StepRefines
<1> QED BY <1>1, <1>2, Inductive, PTL
           DEF Spec, ImplementsPromise, Promise!Spec
=============================================================================
