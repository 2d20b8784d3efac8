---------------------------- MODULE DeviceMemory ----------------------------
(***************************************************************************)
(* What TvarantRuntime promises about device memory, whatever the backend  *)
(* and however many threads call it (csrc/runtime/TvarantRuntime.h:45-47). *)
(*                                                                         *)
(*   lent    the pointers the framework holds (inside a c10::DataPtr)      *)
(*   known   the pointers for which owns() answers true                    *)
(*                                                                         *)
(* A pointer is lent only when it is fresh, and the runtime forgets it     *)
(* only after the framework has given it back.                             *)
(***************************************************************************)
CONSTANT Addrs          \* the device pointers the driver can hand out

VARIABLES lent, known

vars == <<lent, known>>

Init == lent = {} /\ known = {}

(* alloc returns a pointer nobody knows about.                             *)
Alloc(a) ==
  /\ a \notin known
  /\ lent'  = lent \cup {a}
  /\ known' = known \cup {a}

(* the framework hands a pointer it holds to free.                         *)
GiveBack(a) ==
  /\ a \in lent
  /\ lent' = lent \ {a}
  /\ UNCHANGED known

(* the runtime forgets a pointer that was given back.                      *)
Forget(a) ==
  /\ a \in known \ lent
  /\ known' = known \ {a}
  /\ UNCHANGED lent

Next == \E a \in Addrs : Alloc(a) \/ GiveBack(a) \/ Forget(a)

Spec == Init /\ [][Next]_vars
=============================================================================
