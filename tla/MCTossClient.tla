---------------------------- MODULE MCTossClient ----------------------------
(* One retry in each loop.  The units are scaled down: a timeout is shorter  *)
(* than the leeway, one lifetime is over when it is granted, the other lasts *)
(* for two calls.                                                            *)
EXTENDS TossClient

MCLifetimes == {2, 6}
=============================================================================
