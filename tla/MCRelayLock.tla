---------------------------- MODULE MCRelayLock ----------------------------
(* The lock of the relay on its own: three processes, one of them may die.  *)
EXTENDS RelayLock
===========================================================================
