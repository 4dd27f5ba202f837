------------------------- MODULE MCInstructionDelivery -------------------------
(* InstructionDelivery for TLC: three messages, requested in this order. *)
EXTENDS InstructionDelivery, TLC

CONSTANTS m1, m2, m3

MCMessages == {m1, m2, m3}

MCRank == (m1 :> 1) @@ (m2 :> 2) @@ (m3 :> 3)
=============================================================================
