----------------------------- MODULE MCGpuMiner -----------------------------
(***************************************************************************)
(* Small instances of GpuMiner, and what its comments say of it.           *)
(***************************************************************************)
EXTENDS GpuMiner

\* The callback for a found block gets a block that was solved.
OnlySolvedIsSubmitted == \A b \in Blocks : sent[b] # Unsent => sent[b] \in wins[b]
=============================================================================
