------------------------- MODULE RuntimeLife_proofs -------------------------
(***************************************************************************)
(* Proofs about RuntimeLife, for any number of threads, members, calls and *)
(* failures.                                                               *)
(***************************************************************************)
EXTENDS RuntimeLife, TLAPS

(* What connects the flag, the pointer and the threads.                    *)
Life ==
  /\ rt # None => once = "done"
  /\ once = "done" /\ phase = "run" => rt # None
  /\ tensors # {} => once = "done"
  /\ phase # "run" => rt = None /\ \A t \in Threads : pc[t] = "out"
  /\ \A t \in Threads : pc[t] = "construct" => Made \subseteq handles
  /\ phase = "run" => \A x \in Nat : Buffer(x) \in handles => x \in tensors

IndInv == TypeOK /\ OneInitialiser /\ Usable /\ Life

USE DEF None, Backends, Settings

(* It holds at the start, ...                                              *)
LEMMA InitHolds == Init => IndInv
  BY BoundsAssumption DEF Init, IndInv, TypeOK, OneInitialiser, Usable, Life, Buffer

(* The objects of the driver are told apart.                               *)
LEMMA Distinct ==
  /\ \A x, y : Buffer(x) = Buffer(y) => x = y
  /\ \A x, y : Buffer(x) # Program(y) /\ Buffer(x) # Kernel(y)
  /\ \A a, i, x : Member(a, i) # Buffer(x)
<1>1. \A x, y : Buffer(x)[1] = "buffer" /\ Buffer(x)[2] = x /\ Program(y)[1] = "program"
                /\ Kernel(y)[1] = "kernel"
  BY DEF Buffer, Program, Kernel
<1>2. \A a, i : Member(a, i)[1] = "member"
  BY DEF Member
<1> QED
  BY <1>1, <1>2

(* ... and every step keeps it.                                            *)
LEMMA NextHolds == IndInv /\ [Next]_vars => IndInv'
<1> SUFFICES ASSUME IndInv, [Next]_vars PROVE IndInv'
  OBVIOUS
<1> USE BoundsAssumption DEF IndInv
<1>1. CASE UNCHANGED vars
  BY <1>1 DEF vars, TypeOK, OneInitialiser, Usable, Life, Made
<1>2. CASE SetEnv
  BY <1>2 DEF SetEnv, TypeOK, OneInitialiser, Usable, Life, Made
<1>3. CASE Exit
  <2>1. TypeOK'
    BY <1>3 DEF Exit, TypeOK, LeftByDestructor
  <2>2. OneInitialiser' /\ Usable' /\ Life'
    BY <1>3 DEF Exit, OneInitialiser, Usable, Life, TypeOK
  <2> QED
    BY <2>1, <2>2
<1>4. CASE LateFree
  BY <1>4 DEF LateFree, Kept, Started, TypeOK, OneInitialiser, Usable, Life, Made
<1>5. ASSUME NEW t \in Threads, Call(t) PROVE IndInv'
  BY <1>5 DEF Call, Goto, Kept, Started, TypeOK, OneInitialiser, Usable, Life, Made
<1>6. ASSUME NEW t \in Threads, Initialise(t) PROVE IndInv'
  <2> USE DEF Goto, Steady, Kept, Started
  <2>1. CASE Enter(t)
    BY <2>1 DEF Enter, Passes, TypeOK, OneInitialiser, Usable, Life, Made
  <2>2. CASE RefuseSetting(t)
    BY <2>2 DEF RefuseSetting, TypeOK, OneInitialiser, Usable, Life, Made
  <2>3. CASE BeginSim(t)
    BY <2>3 DEF BeginSim, MayBegin, TypeOK, OneInitialiser, Usable, Life, Made
  <2>4. CASE BeginOpenCL(t)
    BY <2>4 DEF BeginOpenCL, MayBegin, TypeOK, OneInitialiser, Usable, Life, Made
  <2>5. CASE Make(t)
    <3>1. TypeOK'
      BY <2>5, Distinct DEF Make, TypeOK, Life
    <3>2. OneInitialiser'
      BY <2>5 DEF Make, TypeOK, OneInitialiser
    <3>3. Usable'
      BY <2>5, Distinct DEF Make, TypeOK, OneInitialiser, Usable, Life, Made
    <3>4. Life'
      BY <2>5, Distinct DEF Make, TypeOK, OneInitialiser, Usable, Life, Made
    <3> QED
      BY <3>1, <3>2, <3>3, <3>4
  <2>6. CASE ConstructThrows(t)
    BY <2>6 DEF ConstructThrows, OnceAfterThrow, TypeOK, OneInitialiser, Usable, Life, Made
  <2>7. CASE Publish(t)
    BY <2>7 DEF Publish, TypeOK, OneInitialiser, Usable, Life, Made
  <2>8. CASE Check(t)
    BY <2>8 DEF Check, TypeOK, OneInitialiser, Usable, Life, Made
  <2> QED
    BY <1>6, <2>1, <2>2, <2>3, <2>4, <2>5, <2>6, <2>7, <2>8 DEF Initialise
<1>7. ASSUME NEW t \in Threads, Work(t) PROVE IndInv'
  <2> USE DEF Goto, Steady, Kept, Started
  <2>1. CASE Alloc(t)
    <3>1. TypeOK'
      BY <2>1, Distinct DEF Alloc, TypeOK, Life
    <3>2. OneInitialiser'
      BY <2>1 DEF Alloc, TypeOK, OneInitialiser
    <3>3. Usable'
      BY <2>1, Distinct DEF Alloc, TypeOK, OneInitialiser, Usable, Life, Made
    <3>4. Life'
      BY <2>1, Distinct DEF Alloc, TypeOK, OneInitialiser, Usable, Life, Made
    <3> QED
      BY <3>1, <3>2, <3>3, <3>4
  <2>2. CASE Free(t)
    <3>1. TypeOK'
      BY <2>2, Distinct DEF Free, Released, TypeOK, Life
    <3>2. OneInitialiser'
      BY <2>2 DEF Free, Released, TypeOK, OneInitialiser
    <3>3. Usable'
      BY <2>2, Distinct DEF Free, Released, TypeOK, OneInitialiser, Usable, Life, Made
    <3>4. Life'
      BY <2>2, Distinct DEF Free, Released, TypeOK, OneInitialiser, Usable, Life, Made
    <3> QED
      BY <3>1, <3>2, <3>3, <3>4
  <2>3. CASE Compile(t)
    <3>1. TypeOK'
      BY <2>3, Distinct DEF Compile, TypeOK, Life
    <3>2. OneInitialiser'
      BY <2>3 DEF Compile, TypeOK, OneInitialiser
    <3>3. Usable'
      BY <2>3, Distinct DEF Compile, TypeOK, OneInitialiser, Usable, Life, Made
    <3>4. Life'
      BY <2>3, Distinct DEF Compile, TypeOK, OneInitialiser, Usable, Life, Made
    <3> QED
      BY <3>1, <3>2, <3>3, <3>4
  <2>4. CASE KernelFails(t)
    <3>1. TypeOK'
      BY <2>4, Distinct DEF KernelFails, TypeOK, Life
    <3>2. OneInitialiser'
      BY <2>4 DEF KernelFails, TypeOK, OneInitialiser
    <3>3. Usable'
      BY <2>4, Distinct DEF KernelFails, TypeOK, OneInitialiser, Usable, Life, Made
    <3>4. Life'
      BY <2>4, Distinct DEF KernelFails, TypeOK, OneInitialiser, Usable, Life, Made
    <3> QED
      BY <3>1, <3>2, <3>3, <3>4
  <2>5. CASE Return(t)
    BY <2>5 DEF Return, TypeOK, OneInitialiser, Usable, Life, Made
  <2> QED
    BY <1>7, <2>1, <2>2, <2>3, <2>4, <2>5 DEF Work
<1> QED
  BY <1>1, <1>2, <1>3, <1>4, <1>5, <1>6, <1>7 DEF Next

(* The invariants of RuntimeLife are inductive together with Life.         *)
THEOREM Inductive == Spec => []IndInv
  BY InitHolds, NextHolds, PTL DEF Spec

(* Types; every handle is of something that exists, and the buffers in the *)
(* table are those of the living tensors.                                  *)
THEOREM Types == Spec => []TypeOK
  BY Inductive, PTL DEF IndInv

(* The flag of call_once and the threads agree: those who wait wait for    *)
(* exactly one initialiser.                                                *)
THEOREM OneAttempt == Spec => []OneInitialiser
  BY Inductive, PTL DEF IndInv

(* Past call_once there is a complete runtime, for any number of threads,  *)
(* of failures and of members the constructor makes.                       *)
THEOREM AlwaysUsable == Spec => []Usable
  BY Inductive, PTL DEF IndInv

-----------------------------------------------------------------------------
(* What is made is new: driver objects are numbered.                       *)
Numbered ==
  /\ \A i \in Nat : i > made => Member(attempt, i) \notin objects
  /\ \A a, i \in Nat : a > attempt => Member(a, i) \notin objects
  /\ \A x \in Nat : x >= serial =>
       /\ Buffer(x) \notin objects /\ Program(x) \notin objects /\ Kernel(x) \notin objects

(* More of what tells the objects of the driver apart.                     *)
LEMMA Apart ==
  /\ \A x, y : Program(x) # Kernel(y)
  /\ \A x, y : (Program(x) = Program(y) => x = y) /\ (Kernel(x) = Kernel(y) => x = y)
  /\ \A a, i, x : Member(a, i) # Program(x) /\ Member(a, i) # Kernel(x)
  /\ \A a, b, i, j : Member(a, i) = Member(b, j) => a = b /\ i = j
<1>1. \A x : /\ Program(x)[1] = "program" /\ Program(x)[2] = x
             /\ Kernel(x)[1] = "kernel" /\ Kernel(x)[2] = x
  BY DEF Program, Kernel
<1>2. \A a, i : Member(a, i)[1] = "member" /\ Member(a, i)[2] = a /\ Member(a, i)[3] = i
  BY DEF Member
<1> QED
  BY <1>1, <1>2

(* What is made is new: at the start, ...                                  *)
LEMMA NumberedInit == Init => Numbered
  BY DEF Init, Numbered

(* ... and after every step.                                               *)
LEMMA NumberedNext == IndInv /\ Numbered /\ [Next]_vars => Numbered'
<1> SUFFICES ASSUME IndInv, Numbered, [Next]_vars PROVE Numbered'
  OBVIOUS
<1> USE DEF Kept, Steady, Started
<1>1. made \in Nat /\ attempt \in Nat /\ serial \in Nat
  BY BoundsAssumption DEF IndInv, TypeOK
<1>2. ASSUME objects' \subseteq objects, UNCHANGED <<attempt, made, serial>> PROVE Numbered'
  BY <1>2 DEF Numbered
<1>3. CASE UNCHANGED vars \/ SetEnv \/ LateFree \/ Exit
  BY <1>2, <1>3 DEF vars, SetEnv, LateFree, Exit, LeftByDestructor
<1>4. ASSUME NEW t \in Threads, Call(t) PROVE Numbered'
  BY <1>2, <1>4 DEF Call
<1>5. ASSUME NEW t \in Threads, Initialise(t) PROVE Numbered'
  <2>1. CASE Make(t)
    BY <2>1, <1>1, Distinct, Apart DEF Make, Numbered
  <2>2. CASE BeginOpenCL(t)
    BY <2>2, <1>1 DEF BeginOpenCL, Numbered
  <2> QED
    BY <1>2, <1>5, <2>1, <2>2
       DEF Initialise, Enter, RefuseSetting, BeginSim, ConstructThrows, Publish, Check
<1>6. ASSUME NEW t \in Threads, Work(t) PROVE Numbered'
  <2>1. CASE Alloc(t)
    BY <2>1, <1>1, Distinct, Apart DEF Alloc, Numbered
  <2>2. CASE Compile(t)
    BY <2>2, <1>1, Distinct, Apart DEF Compile, Numbered
  <2>3. CASE KernelFails(t)
    BY <2>3, <1>1, Distinct, Apart DEF KernelFails, Numbered
  <2>4. CASE Free(t)
    BY <2>4, <1>2 DEF Free, Released
  <2>5. CASE Return(t)
    BY <2>5, <1>2 DEF Return
  <2> QED
    BY <1>6, <2>1, <2>2, <2>3, <2>4, <2>5 DEF Work
<1> QED
  BY <1>3, <1>4, <1>5, <1>6 DEF Next

Lost == objects \ handles

(* A step that loses a driver object is a failure of the driver.           *)
LEMMA LosesByFailure ==
  ASSUME IndInv, Numbered, [Next]_vars, Lost' # Lost
  PROVE  faults' = faults + 1
<1> USE DEF Kept, Steady, Started, Lost
<1>1. made \in Nat /\ attempt \in Nat /\ serial \in Nat
  BY BoundsAssumption DEF IndInv, TypeOK
<1>2. ~(objects' = objects /\ handles' = handles)
  OBVIOUS
<1>3. ~UNCHANGED vars /\ ~SetEnv /\ ~LateFree
  BY <1>2 DEF vars, SetEnv, LateFree
<1>4. ~Exit
  BY DEF Exit, LeftByDestructor
<1>5. ASSUME NEW t \in Threads, Call(t) PROVE faults' = faults + 1
  BY <1>2, <1>5 DEF Call
<1>6. ASSUME NEW t \in Threads, Initialise(t) PROVE faults' = faults + 1
  <2>1. ~Make(t)
    BY <1>1 DEF Make, Numbered
  <2> QED
    BY <1>2, <1>6, <2>1
       DEF Initialise, Enter, RefuseSetting, BeginSim, BeginOpenCL, ConstructThrows, Publish, Check
<1>7. ASSUME NEW t \in Threads, Work(t) PROVE faults' = faults + 1
  <2>1. ~Alloc(t) /\ ~Compile(t)
    BY <1>1 DEF Alloc, Compile, Numbered
  <2>2. ASSUME Free(t) PROVE FALSE
    <3>1. PICK x \in tensors : Released(x)
      BY <2>2 DEF Free
    <3>2. phase = "run" /\ x \in 0..serial
      BY <2>2 DEF Free, Goto, IndInv, Life, TypeOK
    <3>3. Buffer(x) \in handles
      BY <3>2 DEF IndInv, TypeOK
    <3> QED
      BY <3>1, <3>3 DEF Released
  <2> QED
    BY <1>2, <1>7, <2>1, <2>2 DEF Work, KernelFails, Return
<1> QED
  BY <1>3, <1>4, <1>5, <1>6, <1>7 DEF Next

(* Driver objects are lost in steps in which a call of the driver fails,   *)
(* and in no others: the destructor loses none.                            *)
THEOREM NothingElseLost == Spec => LostOnlyByFailure
<1>1. IndInv /\ Numbered /\ [Next]_vars =>
        [objects' \ handles' # objects \ handles => faults' = faults + 1]_vars
  BY LosesByFailure DEF Lost
<1>2. Spec => []Numbered
  BY NumberedInit, NumberedNext, Inductive, PTL DEF Spec
<1> QED
  BY <1>1, <1>2, Inductive, PTL DEF Spec, LostOnlyByFailure

-----------------------------------------------------------------------------
SharedBackend == IF phase = "run" THEN rt ELSE "over"
SharedUsers   == {t \in Threads : pc[t] = "inside"}

(* Every step is one of the shared runtime, or leaves it as it is.         *)
LEMMA StepRefines == IndInv /\ [Next]_vars => [Shared!Next]_<<SharedBackend, SharedUsers>>
<1> SUFFICES ASSUME IndInv, [Next]_vars
             PROVE  Shared!Next \/ UNCHANGED <<SharedBackend, SharedUsers>>
  OBVIOUS
<1> USE DEF Goto, Kept, Steady, Started, SharedBackend, SharedUsers, IndInv
<1>1. pc \in [Threads -> {"out", "enter", "construct", "check", "inside"}]
  BY DEF TypeOK
<1>2. ASSUME UNCHANGED <<phase, rt, pc>> PROVE UNCHANGED <<SharedBackend, SharedUsers>>
  BY <1>2
<1>3. ASSUME NEW t \in Threads, pc[t] # "out" PROVE phase = "run"
  BY <1>3 DEF Life
<1>4. CASE UNCHANGED vars \/ SetEnv
  BY <1>2, <1>4 DEF vars, SetEnv
<1>5. CASE LateFree
  BY <1>5 DEF LateFree
<1>6. CASE Exit
  <2>1. SharedUsers = {} /\ UNCHANGED SharedUsers /\ SharedBackend' = "over"
    BY <1>6 DEF Exit
  <2> QED
    BY <2>1 DEF Shared!Next, Shared!Close
<1>7. ASSUME NEW t \in Threads, Call(t) PROVE UNCHANGED <<SharedBackend, SharedUsers>>
  BY <1>1, <1>7 DEF Call
<1>8. ASSUME NEW t \in Threads, Initialise(t)
      PROVE  Shared!Next \/ UNCHANGED <<SharedBackend, SharedUsers>>
  <2>1. CASE Enter(t) \/ RefuseSetting(t) \/ BeginOpenCL(t) \/ Make(t) \/ ConstructThrows(t)
    BY <1>1, <2>1 DEF Enter, RefuseSetting, BeginOpenCL, Make, ConstructThrows
  <2>2. CASE BeginSim(t) \/ Publish(t)
    <3>1. rt = None /\ phase = "run"
      BY <1>3, <2>2 DEF BeginSim, Publish, MayBegin, OneInitialiser, Life
    <3>2. UNCHANGED SharedUsers /\ SharedBackend = None /\ SharedBackend' \in Backends
      BY <1>1, <2>2, <3>1 DEF BeginSim, Publish
    <3> QED
      BY <3>2 DEF Shared!Next, Shared!Choose
  <2>3. CASE Check(t)
    <3>1. rt \in Backends /\ phase = "run"
      BY <1>3, <2>3 DEF Check, Usable, TypeOK
    <3>2. SharedUsers' = SharedUsers \cup {t} /\ UNCHANGED SharedBackend /\ SharedBackend \in Backends
      BY <1>1, <2>3, <3>1 DEF Check
    <3> QED
      BY <3>2 DEF Shared!Next, Shared!Use
  <2> QED
    BY <1>8, <2>1, <2>2, <2>3 DEF Initialise
<1>9. ASSUME NEW t \in Threads, Work(t) PROVE Shared!Next
  <2>1. SharedUsers' = SharedUsers \ {t} /\ UNCHANGED SharedBackend
    BY <1>1, <1>9 DEF Work, Alloc, Free, Compile, KernelFails, Return
  <2> QED
    BY <2>1 DEF Shared!Next, Shared!Leave
<1> QED
  BY <1>4, <1>5, <1>6, <1>7, <1>8, <1>9 DEF Next

(* The process has one runtime, chosen once: RuntimeLife implements        *)
(* SharedRuntime.                                                          *)
THEOREM Refinement == Spec => ImplementsShared
<1>1. Init => Shared!Init
  BY DEF Init, Shared!Init
<1>2. IndInv /\ [Next]_vars =>
        [Shared!Next]_<<IF phase = "run" THEN rt ELSE "over", {t \in Threads : pc[t] = "inside"}>>
  BY StepRefines DEF SharedBackend, SharedUsers
<1> QED
  BY <1>1, <1>2, Inductive, PTL DEF Spec, ImplementsShared, Shared!Spec
=============================================================================
