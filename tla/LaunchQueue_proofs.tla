------------------------ MODULE LaunchQueue_proofs --------------------------
(* Theorems about LaunchQueue for every set of threads, kernels, programs  *)
(* and buffers.                                                            *)
EXTENDS LaunchQueue, TLAPS

(* Appending a command adds it to the commands of a sequence.              *)
LEMMA AppendElements ==
  ASSUME NEW S, NEW q \in Seq(S), NEW c \in S
  PROVE  /\ Append(q, c) \in Seq(S)
         /\ Len(Append(q, c)) = Len(q) + 1
         /\ \A i \in 1..Len(q) : Append(q, c)[i] = q[i]
         /\ Append(q, c)[Len(q) + 1] = c
OBVIOUS

(* Completing the oldest command moves the others up by one.               *)
LEMMA TailElements ==
  ASSUME NEW S, NEW q \in Seq(S), q # <<>>
  PROVE  /\ Tail(q) \in Seq(S)
         /\ Len(Tail(q)) = Len(q) - 1
         /\ \A i \in 1..Len(Tail(q)) : i + 1 \in 1..Len(q) /\ Tail(q)[i] = q[i + 1]
OBVIOUS

(* The initial state satisfies the inductive invariant.                    *)
LEMMA InitIndInv == Init => IndInv
<1> SUFFICES ASSUME Init PROVE IndInv
  OBVIOUS
<1> USE DisjointAssumption, NArgsAssumption, OperandsAssumption DEF Init, NoReq
<1>1. TypeOK
  BY DEF TypeOK, Kernels, Slots, Kinds, PCs
<1>2. MutexHeldInside
  BY DEF MutexHeldInside, InJit
<1>3. PathInv /\ SlotsSet /\ WaitsForOwn
  BY DEF PathInv, SlotsSet, WaitsForOwn
<1>4. OverlapKnown /\ CacheInv
  BY DEF OverlapKnown, CacheInv, Preparing
<1>5. JitOwnArgs /\ MixedOnlyByOverlap /\ SynchronousReturn
  BY DEF JitOwnArgs, MixedOnlyByOverlap, SynchronousReturn, Submitted
<1> QED
  BY <1>1, <1>2, <1>3, <1>4, <1>5 DEF IndInv
(* Every step keeps the shape of the state.                                 *)
LEMMA StepTypeOK == IndInv /\ [Next]_vars => TypeOK'
<1> SUFFICES ASSUME IndInv, [Next]_vars PROVE TypeOK'
  OBVIOUS
<1> USE DisjointAssumption, NArgsAssumption, OperandsAssumption DEF IndInv
<1>1. ASSUME NEW t \in Threads, LaunchStart(t) PROVE TypeOK'
  BY <1>1 DEF LaunchStart, Start, Goto, TypeOK, PathInv, PCs, Kinds,
       Kernels, Slots
<1>2. ASSUME NEW t \in Threads, PointwiseStart(t) PROVE TypeOK'
  BY <1>2, SMTT(20) DEF PointwiseStart, Start, Goto, TypeOK, PathInv, PCs, Kinds,
       Kernels, Slots
<1>3. ASSUME NEW t \in Threads, PointwiseLock(t) PROVE TypeOK'
  BY <1>3 DEF PointwiseLock, Goto, TypeOK, PathInv, PCs, Kinds, Kernels,
       Slots
<1>4. ASSUME NEW t \in Threads, PointwiseLookup(t) PROVE TypeOK'
  BY <1>4 DEF PointwiseLookup, Goto, TypeOK, PathInv, PCs, Kinds, Kernels,
       Slots
<1>5. ASSUME NEW t \in Threads, PointwiseCompile(t) PROVE TypeOK'
  BY <1>5 DEF PointwiseCompile, Goto, TypeOK, PathInv, PCs, Kinds, Kernels,
       Slots
<1>6. ASSUME NEW t \in Threads, PointwiseCompileFails(t) PROVE TypeOK'
  BY <1>6 DEF PointwiseCompileFails, Leave, Goto, TypeOK, PathInv, PCs,
       Kinds, Kernels, Slots
<1>7. ASSUME NEW t \in Threads, SetArg(t) PROVE TypeOK'
  BY <1>7 DEF SetArg, Goto, LastArg, TypeOK, PathInv, PCs, Kinds, Kernels,
       Slots
<1>8. ASSUME NEW t \in Threads, SetArgThrows(t) PROVE TypeOK'
  BY <1>8 DEF SetArgThrows, Leave, Goto, TypeOK, PathInv, PCs, Kinds,
       Kernels, Slots
<1>9. ASSUME NEW t \in Threads, CopyStart(t) PROVE TypeOK'
  BY <1>9, SMTT(20) DEF CopyStart, Start, Goto, TypeOK, PathInv, PCs, Kinds, Kernels,
       Slots
<1>10. ASSUME NEW t \in Threads, CopyLookup(t) PROVE TypeOK'
  BY <1>10 DEF CopyLookup, Goto, TypeOK, PathInv, PCs, Kinds, Kernels, Slots
<1>11. ASSUME NEW t \in Threads, CopyThrows(t) PROVE TypeOK'
  BY <1>11 DEF CopyThrows, Leave, Goto, TypeOK, PathInv, PCs, Kinds,
       Kernels, Slots
<1>12. ASSUME NEW t \in Threads, Enqueue(t) PROVE TypeOK'
  <2> DEFINE c == NewCommand(t)
  <2>1. c \in Command
    BY <1>12 DEF Enqueue, NewCommand, Command, TypeOK, PathInv, Slots, Kernels, Kinds, Asked
  <2>2. queue' = Append(queue, c) /\ queue' \in Seq(Command)
    BY <1>12, <2>1, AppendElements DEF Enqueue, TypeOK
  <2> QED
    BY <1>12, <2>2 DEF Enqueue, Goto, TypeOK, PCs
<1>13. ASSUME NEW t \in Threads, EnqueueFails(t) PROVE TypeOK'
  BY <1>13 DEF EnqueueFails, Leave, Goto, TypeOK, PathInv, PCs, Kinds,
       Kernels, Slots
<1>14. ASSUME NEW t \in Threads, SynchronizeStart(t) PROVE TypeOK'
  BY <1>14 DEF SynchronizeStart, Start, Goto, TypeOK, PathInv, PCs, Kinds,
       Kernels, Slots
<1>15. ASSUME NEW t \in Threads, Finish(t) PROVE TypeOK'
  BY <1>15 DEF Finish, Goto, TypeOK, PathInv, PCs, Kinds, Kernels, Slots
<1>16. ASSUME NEW t \in Threads, WaitReturns(t) PROVE TypeOK'
  BY <1>16 DEF WaitReturns, Leave, Goto, TypeOK, PathInv, PCs, Kinds,
       Kernels, Slots
<1>17. ASSUME NEW t \in Threads, WaitFails(t) PROVE TypeOK'
  BY <1>17 DEF WaitFails, Leave, Goto, TypeOK, PathInv, PCs, Kinds, Kernels,
       Slots
<1>18. ASSUME Execute PROVE TypeOK'
  BY <1>18, TailElements DEF Execute, Progress, TypeOK
<1>19. CASE UNCHANGED vars
  BY <1>19 DEF vars, TypeOK, Command
<1> QED
  BY <1>1, <1>2, <1>3, <1>4, <1>5, <1>6, <1>7, <1>8, <1>9, <1>10, <1>11, <1>12, <1>13, <1>14, <1>15, <1>16, <1>17, <1>18, <1>19 DEF Next, Call, Continue, Fault

(* The mutex is held exactly inside launch_pointwise after every step.     *)
LEMMA StepMutex == IndInv /\ [Next]_vars => MutexHeldInside'
<1> SUFFICES ASSUME IndInv, [Next]_vars PROVE MutexHeldInside'
  OBVIOUS
<1> USE DisjointAssumption, NArgsAssumption DEF IndInv
<1>1. ASSUME NEW t \in Threads,
             \/ LaunchStart(t) \/ CopyStart(t)
     PROVE  MutexHeldInside'
  BY <1>1 DEF LaunchStart, Start, Goto, CopyStart, MutexHeldInside, InJit,
       TypeOK
<1>2. ASSUME NEW t \in Threads, PointwiseStart(t) PROVE MutexHeldInside'
  BY <1>2 DEF PointwiseStart, Start, Goto, MutexHeldInside, InJit, TypeOK
<1>3. ASSUME NEW t \in Threads, SynchronizeStart(t) PROVE MutexHeldInside'
  BY <1>3 DEF SynchronizeStart, Start, Goto, MutexHeldInside, InJit, TypeOK
<1>4. ASSUME NEW t \in Threads, PointwiseLock(t) PROVE MutexHeldInside'
  BY <1>4 DEF PointwiseLock, Goto, MayLock, MutexHeldInside, InJit, TypeOK,
       PathInv
<1>5. ASSUME NEW t \in Threads,
             \/ PointwiseLookup(t) \/ PointwiseCompile(t) \/ SetArg(t)
     PROVE  MutexHeldInside'
  BY <1>5 DEF PointwiseLookup, Goto, PointwiseCompile, SetArg, LastArg,
       MayLock, MutexHeldInside, InJit, TypeOK, PathInv
<1>6. ASSUME NEW t \in Threads,
             \/ PointwiseCompileFails(t) \/ SetArgThrows(t)
             \/ CopyThrows(t) \/ EnqueueFails(t)
     PROVE  MutexHeldInside'
  BY <1>6 DEF PointwiseCompileFails, Leave, Goto, SetArgThrows, MayLock,
       CopyThrows, EnqueueFails, MutexHeldInside, InJit, TypeOK, PathInv
<1>7. ASSUME NEW t \in Threads,
             \/ CopyLookup(t) \/ Enqueue(t) \/ Finish(t)
     PROVE  MutexHeldInside'
  BY <1>7 DEF CopyLookup, Goto, MayLock, Enqueue, Finish, MutexHeldInside,
       InJit, TypeOK, PathInv
<1>8. ASSUME NEW t \in Threads,
             \/ WaitReturns(t) \/ WaitFails(t)
     PROVE  MutexHeldInside'
  BY <1>8 DEF WaitReturns, Leave, Goto, WaitFails, MutexHeldInside, InJit,
       TypeOK, PathInv
<1>9. ASSUME Execute PROVE MutexHeldInside'
  BY <1>9 DEF Execute, Progress, MutexHeldInside, InJit
<1>10. CASE UNCHANGED vars
  BY <1>10 DEF vars, MutexHeldInside, InJit
<1> QED
  BY <1>1, <1>2, <1>3, <1>4, <1>5, <1>6, <1>7, <1>8, <1>9, <1>10 DEF Next, Call, Continue, Fault

(* The cache holds exactly the compiled programs after every step.         *)
LEMMA StepCache == IndInv /\ [Next]_vars => CacheInv'
<1> SUFFICES ASSUME IndInv, [Next]_vars PROVE CacheInv'
  OBVIOUS
<1> USE DisjointAssumption, NArgsAssumption DEF IndInv
<1>1. ASSUME NEW t \in Threads, PointwiseCompile(t) PROVE CacheInv'
  BY <1>1 DEF PointwiseCompile, Goto, CacheInv, TypeOK, PathInv,
       MutexHeldInside, InJit
<1>2. ASSUME NEW t \in Threads, PointwiseLookup(t) PROVE CacheInv'
  BY <1>2 DEF PointwiseLookup, Goto, CacheInv, TypeOK, PathInv
<1>3. ASSUME NEW t \in Threads,
             \/ LaunchStart(t) \/ PointwiseStart(t) \/ CopyStart(t)
             \/ SynchronizeStart(t)
     PROVE  CacheInv'
  <2>1. /\ UNCHANGED <<jit, compiled>>
        /\ \E kind, k, o, to : Start(t, kind, k, o, to) /\ to # "compile"
    <3>1. CASE LaunchStart(t)
      BY <3>1 DEF LaunchStart
    <3>2. CASE PointwiseStart(t)
      BY <3>2 DEF PointwiseStart
    <3>3. CASE CopyStart(t)
      BY <3>3 DEF CopyStart
    <3>4. CASE SynchronizeStart(t)
      BY <3>4 DEF SynchronizeStart
    <3> QED
      BY <1>3, <3>1, <3>2, <3>3, <3>4
  <2>2. \A u \in Threads : pc'[u] = "compile" => pc[u] = "compile" /\ req'[u] = req[u]
    BY <2>1 DEF Start, Goto, TypeOK
  <2> QED
    BY <2>1, <2>2 DEF CacheInv
<1>4. ASSUME NEW t \in Threads,
             \/ PointwiseLock(t) \/ SetArg(t) \/ CopyLookup(t)
             \/ Enqueue(t) \/ Finish(t)
     PROVE  CacheInv'
  BY <1>4 DEF PointwiseLock, Goto, MayLock, SetArg, LastArg, CopyLookup,
       Enqueue, Finish, CacheInv, TypeOK
<1>5. ASSUME NEW t \in Threads,
             \/ PointwiseCompileFails(t) \/ SetArgThrows(t)
             \/ CopyThrows(t) \/ EnqueueFails(t) \/ WaitReturns(t)
             \/ WaitFails(t)
     PROVE  CacheInv'
  BY <1>5 DEF PointwiseCompileFails, Leave, Goto, SetArgThrows, MayLock,
       CopyThrows, EnqueueFails, WaitReturns, WaitFails, CacheInv, TypeOK
<1>6. ASSUME Execute PROVE CacheInv'
  BY <1>6 DEF Execute, Progress, CacheInv
<1>7. CASE UNCHANGED vars
  BY <1>7 DEF vars, CacheInv
<1> QED
  BY <1>1, <1>2, <1>3, <1>4, <1>5, <1>6, <1>7 DEF Next, Call, Continue, Fault

(* Two launches that meet in one kernel both know it.                      *)
LEMMA StepOverlap == IndInv /\ [Next]_vars => OverlapKnown'
<1> SUFFICES ASSUME IndInv, [Next]_vars PROVE OverlapKnown'
  OBVIOUS
<1> USE DisjointAssumption, NArgsAssumption DEF IndInv
<1>1. ASSUME NEW t \in Threads, LaunchStart(t) PROVE OverlapKnown'
  BY <1>1 DEF LaunchStart, Start, Goto, OverlapKnown, Preparing, TypeOK,
       PathInv
<1>2. ASSUME NEW t \in Threads, CopyStart(t) PROVE OverlapKnown'
  BY <1>2 DEF CopyStart, Start, Goto, OverlapKnown, Preparing, TypeOK,
       PathInv
<1>3. ASSUME NEW t \in Threads, SynchronizeStart(t) PROVE OverlapKnown'
  BY <1>3 DEF SynchronizeStart, Start, Goto, OverlapKnown, Preparing,
       TypeOK, PathInv
<1>4. ASSUME NEW t \in Threads, PointwiseStart(t) PROVE OverlapKnown'
  BY <1>4 DEF PointwiseStart, Start, Goto, OverlapKnown, Preparing, TypeOK,
       PathInv
<1>5. ASSUME NEW t \in Threads,
             \/ PointwiseLock(t) \/ PointwiseLookup(t)
             \/ PointwiseCompile(t) \/ CopyLookup(t)
     PROVE  OverlapKnown'
  <2>1. CASE PointwiseLock(t)
    BY <2>1 DEF PointwiseLock, Goto, MayLock, OverlapKnown, Preparing,
         TypeOK, PathInv
  <2>2. CASE PointwiseLookup(t)
    BY <2>2 DEF PointwiseLookup, Goto, OverlapKnown, Preparing, TypeOK,
         PathInv
  <2>3. CASE PointwiseCompile(t)
    BY <2>3 DEF PointwiseCompile, Goto, OverlapKnown, Preparing, TypeOK,
         PathInv
  <2>4. CASE CopyLookup(t)
    BY <2>4 DEF CopyLookup, Goto, OverlapKnown, Preparing, TypeOK, PathInv
  <2> QED
    BY <1>5, <2>1, <2>2, <2>3, <2>4
<1>6. ASSUME NEW t \in Threads, SetArg(t) PROVE OverlapKnown'
  BY <1>6 DEF SetArg, Goto, LastArg, MayLock, OverlapKnown, Preparing,
       TypeOK, PathInv
<1>7. ASSUME NEW t \in Threads, Enqueue(t) PROVE OverlapKnown'
  BY <1>7 DEF Enqueue, Goto, OverlapKnown, Preparing, TypeOK, PathInv
<1>8. ASSUME NEW t \in Threads, Finish(t) PROVE OverlapKnown'
  BY <1>8 DEF Finish, Goto, OverlapKnown, Preparing, TypeOK, PathInv
<1>9. ASSUME NEW t \in Threads,
             \/ PointwiseCompileFails(t) \/ CopyThrows(t)
     PROVE  OverlapKnown'
  BY <1>9 DEF PointwiseCompileFails, Leave, Goto, CopyThrows, MayLock,
       OverlapKnown, Preparing, TypeOK, PathInv
<1>10. ASSUME NEW t \in Threads, SetArgThrows(t) PROVE OverlapKnown'
  BY <1>10 DEF SetArgThrows, Leave, Goto, MayLock, OverlapKnown, Preparing,
       TypeOK, PathInv
<1>11. ASSUME NEW t \in Threads, EnqueueFails(t) PROVE OverlapKnown'
  BY <1>11 DEF EnqueueFails, Leave, Goto, OverlapKnown, Preparing, TypeOK,
       PathInv
<1>12. ASSUME NEW t \in Threads, WaitReturns(t) PROVE OverlapKnown'
  BY <1>12 DEF WaitReturns, Leave, Goto, OverlapKnown, Preparing, TypeOK,
       PathInv
<1>13. ASSUME NEW t \in Threads, WaitFails(t) PROVE OverlapKnown'
  BY <1>13 DEF WaitFails, Leave, Goto, OverlapKnown, Preparing, TypeOK,
       PathInv
<1>14. ASSUME Execute PROVE OverlapKnown'
  BY <1>14 DEF Execute, Progress, OverlapKnown, Preparing
<1>15. CASE UNCHANGED vars
  BY <1>15 DEF vars, OverlapKnown, Preparing
<1> QED
  BY <1>1, <1>2, <1>3, <1>4, <1>5, <1>6, <1>7, <1>8, <1>9, <1>10, <1>11, <1>12, <1>13, <1>14, <1>15 DEF Next, Call, Continue, Fault

(* Lengths are natural numbers.                                            *)
LEMMA LenInNat == TypeOK => Len(queue) \in Nat
  BY DEF TypeOK

(* The program points stay reserved to the operations that pass them.      *)
LEMMA StepPath == IndInv /\ [Next]_vars => PathInv'
<1> SUFFICES ASSUME IndInv, [Next]_vars PROVE PathInv'
  OBVIOUS
<1> USE DisjointAssumption, NArgsAssumption DEF IndInv
<1>1. ASSUME NEW t \in Threads, LaunchStart(t) PROVE PathInv'
  BY <1>1 DEF LaunchStart, Start, Goto, PathInv, TypeOK, Asked
<1>2. ASSUME NEW t \in Threads, PointwiseStart(t) PROVE PathInv'
  BY <1>2 DEF PointwiseStart, Start, Goto, PathInv, TypeOK, Asked
<1>3. ASSUME NEW t \in Threads, PointwiseLock(t) PROVE PathInv'
  BY <1>3 DEF PointwiseLock, Goto, MayLock, PathInv, TypeOK, Asked
<1>4. ASSUME NEW t \in Threads, PointwiseLookup(t) PROVE PathInv'
  BY <1>4 DEF PointwiseLookup, Goto, PathInv, TypeOK, Asked
<1>5. ASSUME NEW t \in Threads, PointwiseCompile(t) PROVE PathInv'
  BY <1>5 DEF PointwiseCompile, Goto, PathInv, TypeOK, Asked
<1>6. ASSUME NEW t \in Threads, PointwiseCompileFails(t) PROVE PathInv'
  BY <1>6 DEF PointwiseCompileFails, Leave, Goto, PathInv, TypeOK, Asked
<1>7. ASSUME NEW t \in Threads, SetArg(t) PROVE PathInv'
  BY <1>7 DEF SetArg, Goto, LastArg, MayLock, PathInv, TypeOK, Asked, Slots
<1>8. ASSUME NEW t \in Threads, SetArgThrows(t) PROVE PathInv'
  BY <1>8 DEF SetArgThrows, Leave, Goto, MayLock, PathInv, TypeOK, Asked
<1>9. ASSUME NEW t \in Threads, CopyStart(t) PROVE PathInv'
  BY <1>9 DEF CopyStart, Start, Goto, PathInv, TypeOK, Asked
<1>10. ASSUME NEW t \in Threads, CopyLookup(t) PROVE PathInv'
  BY <1>10 DEF CopyLookup, Goto, MayLock, PathInv, TypeOK, Asked, Slots
<1>11. ASSUME NEW t \in Threads, CopyThrows(t) PROVE PathInv'
  BY <1>11 DEF CopyThrows, Leave, Goto, MayLock, PathInv, TypeOK, Asked
<1>12. ASSUME NEW t \in Threads, Enqueue(t) PROVE PathInv'
  BY <1>12 DEF Enqueue, Goto, PathInv, TypeOK, Asked, Slots
<1>13. ASSUME NEW t \in Threads, EnqueueFails(t) PROVE PathInv'
  BY <1>13 DEF EnqueueFails, Leave, Goto, PathInv, TypeOK, Asked
<1>14. ASSUME NEW t \in Threads, SynchronizeStart(t) PROVE PathInv'
  BY <1>14 DEF SynchronizeStart, Start, Goto, PathInv, TypeOK, Asked
<1>15. ASSUME NEW t \in Threads, Finish(t) PROVE PathInv'
  BY <1>15 DEF Finish, Goto, PathInv, TypeOK, Asked
<1>16. ASSUME NEW t \in Threads, WaitReturns(t) PROVE PathInv'
  BY <1>16 DEF WaitReturns, Leave, Goto, PathInv, TypeOK, Asked
<1>17. ASSUME NEW t \in Threads, WaitFails(t) PROVE PathInv'
  BY <1>17 DEF WaitFails, Leave, Goto, PathInv, TypeOK, Asked
<1>18. ASSUME Execute PROVE PathInv'
  BY <1>18 DEF Execute, Progress, PathInv, TypeOK, Asked
<1>19. CASE UNCHANGED vars
  BY <1>19 DEF vars, PathInv, TypeOK, Asked
<1> QED
  BY <1>1, <1>2, <1>3, <1>4, <1>5, <1>6, <1>7, <1>8, <1>9, <1>10, <1>11, <1>12, <1>13, <1>14, <1>15, <1>16, <1>17, <1>18, <1>19 DEF Next, Call, Continue, Fault

(* A step of another thread leaves the slots of a lone preparer alone: in   *)
(* launch_pointwise because of the mutex, in launch because two preparers  *)
(* of a kernel are not alone.                                              *)
LEMMA StepSlots == IndInv /\ [Next]_vars => SlotsSet'
<1> SUFFICES ASSUME IndInv, [Next]_vars PROVE SlotsSet'
  OBVIOUS
<1> USE DisjointAssumption, NArgsAssumption DEF IndInv
<1>1. ASSUME NEW t \in Threads, LaunchStart(t) PROVE SlotsSet'
  BY <1>1 DEF LaunchStart, Start, Goto, SlotsSet, Alone, TypeOK, PathInv,
       Slots, OverlapKnown, Preparing
<1>2. ASSUME NEW t \in Threads, PointwiseStart(t) PROVE SlotsSet'
  BY <1>2 DEF PointwiseStart, Start, Goto, SlotsSet, Alone, TypeOK, PathInv,
       Slots
<1>3. ASSUME NEW t \in Threads, PointwiseLock(t) PROVE SlotsSet'
  BY <1>3 DEF PointwiseLock, Goto, MayLock, SlotsSet, Alone, TypeOK,
       PathInv, Slots
<1>4. ASSUME NEW t \in Threads, PointwiseLookup(t) PROVE SlotsSet'
  BY <1>4 DEF PointwiseLookup, Goto, SlotsSet, Alone, TypeOK, PathInv, Slots
<1>5. ASSUME NEW t \in Threads, PointwiseCompile(t) PROVE SlotsSet'
  BY <1>5 DEF PointwiseCompile, Goto, SlotsSet, Alone, TypeOK, PathInv,
       Slots, MutexHeldInside, InJit
<1>6. ASSUME NEW t \in Threads, PointwiseCompileFails(t) PROVE SlotsSet'
  BY <1>6 DEF PointwiseCompileFails, Leave, Goto, SlotsSet, Alone, TypeOK,
       PathInv, Slots
<1>7. ASSUME NEW t \in Threads, SetArg(t) PROVE SlotsSet'
  <2> DEFINE k == req[t].kern
  <2>1. /\ pc[t] = "set" /\ k \in Kernels /\ idx[t] \in Slots
        /\ args' = [args EXCEPT ![k][idx[t]] = req[t].want[idx[t]]]
        /\ idx' = [idx EXCEPT ![t] = @ + 1]
        /\ req' = req /\ overlap' = overlap
        /\ \A u \in Threads : u # t => pc'[u] = pc[u]
    BY <1>7 DEF SetArg, LastArg, Goto, TypeOK, PathInv, Kernels, Slots
  <2> SUFFICES ASSUME NEW u \in Threads, pc'[u] \in {"set", "enqueue"},
                      req[u].kind \in {"launch", "pointwise"}, Alone(u),
                      NEW i \in Slots, i < idx'[u]
               PROVE  args'[req[u].kern][i] = req[u].want[i]
    BY <2>1 DEF SlotsSet, Alone
  <2>2. CASE u = t
    <3>1. i = idx[t] \/ i < idx[t]
      BY <2>1, <2>2 DEF TypeOK, Slots
    <3>2. i < idx[t] => args[k][i] = req[t].want[i]
      BY <2>1, <2>2 DEF SlotsSet
    <3> QED
      BY <2>1, <2>2, <3>1, <3>2 DEF TypeOK
  <2>3. CASE u # t
    <3>1. pc[u] \in {"set", "enqueue"} /\ i < idx[u]
      BY <2>1, <2>3 DEF TypeOK
    <3>2. ~(req[u].kind = "pointwise" /\ req[t].kind = "pointwise")
      BY <2>1, <2>3, <3>1 DEF MutexHeldInside, InJit
    <3>3. req[u].kind = "launch" /\ req[t].kind = "launch" => req[u].kern # k
      BY <2>1, <2>3, <3>1 DEF Alone, OverlapKnown, Preparing
    <3>4. req[u].kern # k
      BY <2>1, <3>2, <3>3 DEF PathInv
    <3>5. args'[req[u].kern] = args[req[u].kern]
      BY <2>1, <3>4 DEF TypeOK
    <3> QED
      BY <3>1, <3>5 DEF SlotsSet
  <2> QED
    BY <2>2, <2>3
<1>8. ASSUME NEW t \in Threads, SetArgThrows(t) PROVE SlotsSet'
  BY <1>8 DEF SetArgThrows, Leave, Goto, MayLock, SlotsSet, Alone, TypeOK,
       PathInv, Slots
<1>9. ASSUME NEW t \in Threads, CopyStart(t) PROVE SlotsSet'
  BY <1>9 DEF CopyStart, Start, Goto, SlotsSet, Alone, TypeOK, PathInv,
       Slots
<1>10. ASSUME NEW t \in Threads, CopyLookup(t) PROVE SlotsSet'
  <2>1. /\ req[t].kind \notin {"launch", "pointwise"}
        /\ req' = req /\ overlap' = overlap /\ idx' = idx /\ args' = args
        /\ \A u \in Threads : u # t => pc'[u] = pc[u]
    BY <1>10 DEF CopyLookup, Goto, PathInv, TypeOK
  <2> QED
    BY <2>1 DEF SlotsSet, Alone
<1>11. ASSUME NEW t \in Threads, CopyThrows(t) PROVE SlotsSet'
  BY <1>11 DEF CopyThrows, Leave, Goto, MayLock, SlotsSet, Alone, TypeOK,
       PathInv, Slots
<1>12. ASSUME NEW t \in Threads, Enqueue(t) PROVE SlotsSet'
  BY <1>12 DEF Enqueue, Goto, SlotsSet, Alone, TypeOK, PathInv, Slots
<1>13. ASSUME NEW t \in Threads, EnqueueFails(t) PROVE SlotsSet'
  BY <1>13 DEF EnqueueFails, Leave, Goto, SlotsSet, Alone, TypeOK, PathInv,
       Slots
<1>14. ASSUME NEW t \in Threads, SynchronizeStart(t) PROVE SlotsSet'
  BY <1>14 DEF SynchronizeStart, Start, Goto, SlotsSet, Alone, TypeOK,
       PathInv, Slots
<1>15. ASSUME NEW t \in Threads, Finish(t) PROVE SlotsSet'
  BY <1>15 DEF Finish, Goto, SlotsSet, Alone, TypeOK, PathInv, Slots
<1>16. ASSUME NEW t \in Threads, WaitReturns(t) PROVE SlotsSet'
  BY <1>16 DEF WaitReturns, Leave, Goto, SlotsSet, Alone, TypeOK, PathInv,
       Slots
<1>17. ASSUME NEW t \in Threads, WaitFails(t) PROVE SlotsSet'
  BY <1>17 DEF WaitFails, Leave, Goto, SlotsSet, Alone, TypeOK, PathInv,
       Slots
<1>18. ASSUME Execute PROVE SlotsSet'
  BY <1>18 DEF Execute, Progress, SlotsSet, Alone, Slots
<1>19. CASE UNCHANGED vars
  BY <1>19 DEF vars, SlotsSet, Alone, Slots
<1> QED
  BY <1>1, <1>2, <1>3, <1>4, <1>5, <1>6, <1>7, <1>8, <1>9, <1>10, <1>11, <1>12, <1>13, <1>14, <1>15, <1>16, <1>17, <1>18, <1>19 DEF Next, Call, Continue, Fault

(* A blocked thread keeps waiting for all of its own commands.             *)
LEMMA StepWaits == IndInv /\ [Next]_vars => WaitsForOwn'
<1> SUFFICES ASSUME IndInv, [Next]_vars PROVE WaitsForOwn'
  OBVIOUS
<1> USE DisjointAssumption, NArgsAssumption DEF IndInv
<1>1. ASSUME NEW t \in Threads, LaunchStart(t) PROVE WaitsForOwn'
  BY <1>1, LenInNat DEF LaunchStart, Start, Goto, WaitsForOwn, TypeOK,
       PathInv
<1>2. ASSUME NEW t \in Threads, PointwiseStart(t) PROVE WaitsForOwn'
  BY <1>2, LenInNat DEF PointwiseStart, Start, Goto, WaitsForOwn, TypeOK,
       PathInv
<1>3. ASSUME NEW t \in Threads, PointwiseLock(t) PROVE WaitsForOwn'
  BY <1>3, LenInNat DEF PointwiseLock, Goto, MayLock, WaitsForOwn, TypeOK,
       PathInv
<1>4. ASSUME NEW t \in Threads, PointwiseLookup(t) PROVE WaitsForOwn'
  BY <1>4, LenInNat DEF PointwiseLookup, Goto, WaitsForOwn, TypeOK, PathInv
<1>5. ASSUME NEW t \in Threads, PointwiseCompile(t) PROVE WaitsForOwn'
  BY <1>5, LenInNat DEF PointwiseCompile, Goto, WaitsForOwn, TypeOK, PathInv
<1>6. ASSUME NEW t \in Threads, PointwiseCompileFails(t) PROVE WaitsForOwn'
  BY <1>6, LenInNat DEF PointwiseCompileFails, Leave, Goto, WaitsForOwn,
       TypeOK, PathInv
<1>7. ASSUME NEW t \in Threads, SetArg(t) PROVE WaitsForOwn'
  BY <1>7, LenInNat DEF SetArg, Goto, LastArg, MayLock, WaitsForOwn, TypeOK,
       PathInv
<1>8. ASSUME NEW t \in Threads, SetArgThrows(t) PROVE WaitsForOwn'
  BY <1>8, LenInNat DEF SetArgThrows, Leave, Goto, MayLock, WaitsForOwn,
       TypeOK, PathInv
<1>9. ASSUME NEW t \in Threads, CopyStart(t) PROVE WaitsForOwn'
  BY <1>9, LenInNat DEF CopyStart, Start, Goto, WaitsForOwn, TypeOK, PathInv
<1>10. ASSUME NEW t \in Threads, CopyLookup(t) PROVE WaitsForOwn'
  BY <1>10, LenInNat DEF CopyLookup, Goto, MayLock, WaitsForOwn, TypeOK,
       PathInv
<1>11. ASSUME NEW t \in Threads, CopyThrows(t) PROVE WaitsForOwn'
  BY <1>11, LenInNat DEF CopyThrows, Leave, Goto, MayLock, WaitsForOwn,
       TypeOK, PathInv
<1>12. ASSUME NEW t \in Threads, Enqueue(t) PROVE WaitsForOwn'
  BY <1>12, LenInNat DEF Enqueue, Goto, WaitsForOwn, TypeOK, PathInv,
       NewCommand
<1>13. ASSUME NEW t \in Threads, EnqueueFails(t) PROVE WaitsForOwn'
  BY <1>13, LenInNat DEF EnqueueFails, Leave, Goto, WaitsForOwn, TypeOK,
       PathInv
<1>14. ASSUME NEW t \in Threads, SynchronizeStart(t) PROVE WaitsForOwn'
  BY <1>14, LenInNat DEF SynchronizeStart, Start, Goto, WaitsForOwn, TypeOK,
       PathInv
<1>15. ASSUME NEW t \in Threads, Finish(t) PROVE WaitsForOwn'
  BY <1>15, LenInNat DEF Finish, Goto, WaitsForOwn, TypeOK, PathInv
<1>16. ASSUME NEW t \in Threads, WaitReturns(t) PROVE WaitsForOwn'
  BY <1>16, LenInNat DEF WaitReturns, Leave, Goto, WaitsForOwn, TypeOK,
       PathInv
<1>17. ASSUME NEW t \in Threads, WaitFails(t) PROVE WaitsForOwn'
  BY <1>17, LenInNat DEF WaitFails, Leave, Goto, WaitsForOwn, TypeOK,
       PathInv
<1>18. ASSUME Execute PROVE WaitsForOwn'
  <2> SUFFICES ASSUME NEW t \in Threads, pc[t] = "wait",
                      NEW i \in 1..Len(queue'), queue'[i].by = t
               PROVE  i <= ahead'[t]
    BY <1>18 DEF Execute, WaitsForOwn
  <2>1. i + 1 \in 1..Len(queue) /\ queue[i + 1].by = t
    BY <1>18, TailElements DEF Execute, Progress, TypeOK
  <2>2. i + 1 <= ahead[t]
    BY <2>1 DEF WaitsForOwn
  <2> QED
    BY <1>18, <2>2, LenInNat DEF Execute, Progress, TypeOK
<1>19. CASE UNCHANGED vars
  BY <1>19 DEF vars, WaitsForOwn
<1> QED
  BY <1>1, <1>2, <1>3, <1>4, <1>5, <1>6, <1>7, <1>8, <1>9, <1>10, <1>11, <1>12, <1>13, <1>14, <1>15, <1>16, <1>17, <1>18, <1>19 DEF Next, Call, Continue, Fault

(* The device adds no command.                                             *)
LEMMA StillSubmitted == TypeOK /\ Execute => Submitted' \subseteq Submitted
  BY TailElements DEF TypeOK, Execute, Submitted

(* The commands on the queue stay right: the one a step submits has its    *)
(* own buffers, unless it is a launch that another one overlapped.         *)
LEMMA StepSubmitted == IndInv /\ [Next]_vars => (JitOwnArgs /\ MixedOnlyByOverlap)'
<1> SUFFICES ASSUME IndInv, [Next]_vars PROVE (JitOwnArgs /\ MixedOnlyByOverlap)'
  OBVIOUS
<1> USE DisjointAssumption, NArgsAssumption DEF IndInv
<1>1. ASSUME NEW t \in Threads, Enqueue(t) PROVE (JitOwnArgs /\ MixedOnlyByOverlap)'
  <2> DEFINE c == NewCommand(t)
  <2>1. ASSUME req[t].kind \in {"launch", "pointwise"}, Alone(t)
        PROVE  c.args = c.want
    <3>1. \A i \in Slots : args[req[t].kern][i] = req[t].want[i]
      BY <1>1, <2>1 DEF Enqueue, PathInv, SlotsSet, Slots
    <3>2. req[t].kern \in Kernels /\ req[t].want \in Operands
      BY <1>1, <2>1 DEF Enqueue, PathInv, Kernels
    <3>3. args[req[t].kern] = [i \in Slots |-> args[req[t].kern][i]]
      BY <3>2 DEF TypeOK
    <3>4. req[t].want = [i \in Slots |-> req[t].want[i]]
      BY <3>2, OperandsAssumption DEF Slots
    <3> QED
      BY <2>1, <3>1, <3>3, <3>4 DEF NewCommand
  <2>2. queue' = Append(queue, c)
    BY <1>1 DEF Enqueue
  <2>3. /\ Len(queue') = Len(queue) + 1
        /\ \A i \in 1..Len(queue) : queue'[i] = queue[i]
        /\ queue'[Len(queue) + 1] = c
    <3> DEFINE Any == Command \cup {c}
    <3>1. queue \in Seq(Any)
      BY DEF TypeOK
    <3>2. c \in Any
      OBVIOUS
    <3> HIDE DEF Any, c
    <3> QED
      BY <2>2, <3>1, <3>2, AppendElements
  <2>4. /\ c.kind = "pointwise" => c.args = c.want
        /\ c.kind = "launch" /\ c.args # c.want => c.overlapped
    BY <2>1 DEF Alone, NewCommand
  <2>5. \A d \in Submitted' : d \in Submitted \/ d = c
    <3> HIDE DEF c
    <3> QED
      BY <2>3, LenInNat DEF Submitted
  <2> HIDE DEF c
  <2> QED
    BY <2>4, <2>5 DEF JitOwnArgs, MixedOnlyByOverlap
<1>2. ASSUME NEW t \in Threads,
             \/ LaunchStart(t) \/ PointwiseStart(t) \/ PointwiseLock(t)
             \/ PointwiseLookup(t) \/ PointwiseCompile(t)
             \/ PointwiseCompileFails(t) \/ SetArg(t) \/ SetArgThrows(t)
             \/ CopyStart(t) \/ CopyLookup(t) \/ CopyThrows(t)
             \/ EnqueueFails(t) \/ SynchronizeStart(t) \/ Finish(t)
             \/ WaitReturns(t) \/ WaitFails(t)
     PROVE  (JitOwnArgs /\ MixedOnlyByOverlap)'
  BY <1>2 DEF LaunchStart, Start, Goto, PointwiseStart, PointwiseLock,
       MayLock, PointwiseLookup, PointwiseCompile, PointwiseCompileFails,
       Leave, SetArg, LastArg, SetArgThrows, CopyStart, CopyLookup,
       CopyThrows, EnqueueFails, SynchronizeStart, Finish, WaitReturns,
       WaitFails, JitOwnArgs, MixedOnlyByOverlap, Submitted
<1>3. ASSUME Execute PROVE (JitOwnArgs /\ MixedOnlyByOverlap)'
  BY <1>3, StillSubmitted DEF JitOwnArgs, MixedOnlyByOverlap
<1>4. CASE UNCHANGED vars
  BY <1>4 DEF vars, JitOwnArgs, MixedOnlyByOverlap, Submitted
<1> QED
  BY <1>1, <1>2, <1>3, <1>4 DEF Next, Call, Continue, Fault

(* A normal return leaves none of the thread's commands on the queue.      *)
LEMMA StepReturn == IndInv /\ [Next]_vars => SynchronousReturn'
<1> SUFFICES ASSUME IndInv, [Next]_vars PROVE SynchronousReturn'
  OBVIOUS
<1> USE DisjointAssumption, NArgsAssumption DEF IndInv
<1>1. ASSUME NEW t \in Threads, WaitReturns(t) PROVE SynchronousReturn'
  BY <1>1, LenInNat DEF WaitReturns, Leave, Goto, SynchronousReturn,
       Submitted, Drained, TypeOK, PathInv, WaitsForOwn
<1>2. ASSUME NEW t \in Threads, Enqueue(t) PROVE SynchronousReturn'
  <2> DEFINE c == NewCommand(t)
  <2>1. queue' = Append(queue, c) /\ c.by = t
    BY <1>2 DEF Enqueue, NewCommand
  <2>2. \A d \in Submitted' : d \in Submitted \/ d.by = t
    <3> DEFINE Any == Command \cup {c}
    <3>1. queue \in Seq(Any) /\ c \in Any
      BY DEF TypeOK
    <3> HIDE DEF Any, c
    <3> QED
      BY <2>1, <3>1, AppendElements DEF Submitted
  <2>3. pc'[t] # "idle" /\ \A u \in Threads : u # t => pc'[u] = pc[u]
    BY <1>2 DEF Enqueue, Goto, TypeOK
  <2>4. req' = req /\ threw' = threw
    BY <1>2 DEF Enqueue
  <2> HIDE DEF c
  <2> QED
    BY <2>2, <2>3, <2>4 DEF SynchronousReturn
<1>3. ASSUME NEW t \in Threads,
             \/ LaunchStart(t) \/ PointwiseStart(t) \/ CopyStart(t)
             \/ SynchronizeStart(t)
     PROVE  SynchronousReturn'
  <2>1. queue' = queue /\ threw' = threw /\ pc'[t] # "idle"
    BY <1>3 DEF LaunchStart, PointwiseStart, CopyStart, SynchronizeStart,
         Start, Goto, TypeOK, PCs
  <2>2. \A u \in Threads : u # t => pc'[u] = pc[u] /\ req'[u] = req[u]
    BY <1>3 DEF LaunchStart, PointwiseStart, CopyStart, SynchronizeStart,
         Start, Goto, TypeOK
  <2> QED
    BY <2>1, <2>2 DEF SynchronousReturn, Submitted
<1>4. ASSUME NEW t \in Threads,
             \/ PointwiseCompileFails(t) \/ SetArgThrows(t)
             \/ CopyThrows(t) \/ EnqueueFails(t)
     PROVE  SynchronousReturn'
  BY <1>4 DEF PointwiseCompileFails, Leave, Goto, SetArgThrows, MayLock,
       CopyThrows, EnqueueFails, SynchronousReturn, Submitted, TypeOK
<1>5. ASSUME NEW t \in Threads, WaitFails(t) PROVE SynchronousReturn'
  BY <1>5 DEF WaitFails, Leave, Goto, SynchronousReturn, Submitted, TypeOK
<1>6. ASSUME NEW t \in Threads,
             \/ PointwiseLock(t) \/ PointwiseLookup(t)
             \/ PointwiseCompile(t) \/ SetArg(t) \/ CopyLookup(t)
             \/ Finish(t)
     PROVE  SynchronousReturn'
  <2>1. queue' = queue /\ threw' = threw /\ pc'[t] # "idle"
    BY <1>6 DEF PointwiseLock, PointwiseLookup, PointwiseCompile, SetArg,
         CopyLookup, Finish, Goto, TypeOK, PCs
  <2>2. \A u \in Threads : u # t => pc'[u] = pc[u] /\ req'[u] = req[u]
    BY <1>6 DEF PointwiseLock, PointwiseLookup, PointwiseCompile, SetArg,
         CopyLookup, Finish, Goto, TypeOK
  <2> QED
    BY <2>1, <2>2 DEF SynchronousReturn, Submitted
<1>7. ASSUME Execute PROVE SynchronousReturn'
  BY <1>7, StillSubmitted DEF Execute, SynchronousReturn
<1>8. CASE UNCHANGED vars
  BY <1>8 DEF vars, SynchronousReturn, Submitted
<1> QED
  BY <1>1, <1>2, <1>3, <1>4, <1>5, <1>6, <1>7, <1>8 DEF Next, Call, Continue, Fault

(* Every step keeps the inductive invariant.                               *)
LEMMA StepIndInv == IndInv /\ [Next]_vars => IndInv'
BY StepTypeOK, StepMutex, StepPath, StepCache, StepOverlap, StepSlots, StepWaits,
   StepSubmitted, StepReturn DEF IndInv

(* The inductive invariant holds in every reachable state.                 *)
THEOREM Inductive == Spec => []IndInv
<1>1. Init => IndInv
  BY InitIndInv
<1>2. IndInv /\ [Next]_vars => IndInv'
  BY StepIndInv
<1> QED
  BY <1>1, <1>2, PTL DEF Spec

(* The program counters, the mutex, the kernels' argument slots and the     *)
(* command queue keep their types.                                         *)
THEOREM Types == Spec => []TypeOK
<1>1. IndInv => TypeOK
  BY DEF IndInv
<1> QED
  BY Inductive, <1>1, PTL

(* launch_pointwise holds mutex_ from its lock_guard to its end, and on     *)
(* every path out of it, exceptions included, the mutex is released.       *)
THEOREM MutexCorrect == Spec => []MutexHeldInside
<1>1. IndInv => MutexHeldInside
  BY DEF IndInv
<1> QED
  BY Inductive, <1>1, PTL

(* A fused kernel runs with the buffers of its own launch_pointwise call,  *)
(* for any number of threads and operations.                               *)
THEOREM JitArguments == Spec => []JitOwnArgs
<1>1. IndInv => JitOwnArgs
  BY DEF IndInv
<1> QED
  BY Inductive, <1>1, PTL

(* Two launches of a builtin kernel mix their buffers only if both were    *)
(* preparing it at once.                                                   *)
THEOREM LaunchArguments == Spec => []MixedOnlyByOverlap
<1>1. IndInv => MixedOnlyByOverlap
  BY DEF IndInv
<1> QED
  BY Inductive, <1>1, PTL

(* An operation that returns normally has left nothing on the queue.       *)
THEOREM Synchronous == Spec => []SynchronousReturn
<1>1. IndInv => SynchronousReturn
  BY DEF IndInv
<1> QED
  BY Inductive, <1>1, PTL

(* No program is compiled twice.                                           *)
THEOREM OneCompilation == Spec => []CompiledOnce
<1>1. IndInv => CompiledOnce
  BY DEF IndInv, CacheInv, CompiledOnce
<1> QED
  BY Inductive, <1>1, PTL

=============================================================================
