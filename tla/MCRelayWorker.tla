--------------------------- MODULE MCRelayWorker ---------------------------
(* Small instances of RelayWorker: one agent, one client.                  *)
EXTENDS RelayWorker

CONSTANTS a1, m1

MCInbox == [m \in Messages |-> a1]
MCAgentOf == [w \in Workers |-> a1]
===========================================================================
