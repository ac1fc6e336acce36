-------------------------- MODULE MCWriterSlotTurns -------------------------
(* Instances of WriterSlotTurns, over the sets of MCWriterSlot.            *)
EXTENDS MCWriterSlot, WriterSlotTurns
=============================================================================
