--------------------------- MODULE SharedRuntime ---------------------------
(* What runtime() promises: every caller of the process uses one runtime,  *)
(* chosen once and for all, until the process ends.                        *)
CONSTANTS Threads, Backends, None, Over

VARIABLES
  backend,  \* the runtime there is: None, one of Backends, or Over
  users     \* threads that hold a reference to it

Init == backend = None /\ users = {}

Choose(b) == backend = None /\ backend' = b /\ UNCHANGED users

Use(t) ==
  /\ backend \in Backends
  /\ users' = users \cup {t} /\ UNCHANGED backend

Leave(t) == users' = users \ {t} /\ UNCHANGED backend

Close == users = {} /\ backend' = Over /\ UNCHANGED users

Next ==
  \/ \E b \in Backends : Choose(b)
  \/ \E t \in Threads : Use(t) \/ Leave(t)
  \/ Close

Spec == Init /\ [][Next]_<<backend, users>>
=============================================================================
