--------------------------- MODULE MCMacCommands ---------------------------
(* Two data rates and the sizes of their payloads. *)
EXTENDS MacCommands

MCMaxPayload == [dr \in 0 .. 1 |-> IF dr = 0 THEN 3 ELSE 8]
=============================================================================
