--------------------------- MODULE MCHostFuncMgr ---------------------------
(* Three host function objects, two resets. *)
(* The manager is passive: once every object is inserted and the resets  *)
(* are spent its clients make no more calls, so deadlock is not checked.  *)
EXTENDS HostFuncMgr

CONSTANTS f1, f2, f3

MCFns == {f1, f2, f3}
====
