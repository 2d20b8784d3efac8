--------------------------- MODULE MCLaunchQueue ---------------------------
(* Small instances of LaunchQueue: buffers b1 and b2 are registered, off is *)
(* the data pointer of a view with a storage offset.                        *)
EXTENDS LaunchQueue, TLC

CONSTANTS t1, t2, add, relu, p1, p2, b1, b2, off

MCThreads    == {t1, t2}
MCRegistered == {b1, b2}
MCOperands   == {<<b1, b2>>, <<b2, b1>>, <<b1, off>>}
=============================================================================
