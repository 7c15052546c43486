--------------------------- MODULE BlockDownload ---------------------------
(***************************************************************************)
(* What the initial block download promises: the chain grows block by      *)
(* block, and mining starts once, when the node has the chain that its     *)
(* peer had when they met.                                                 *)
(***************************************************************************)
EXTENDS Naturals

CONSTANT MaxHeight  \* bound on the peer's chain

VARIABLES
    tip,        \* height of the node's chain
    mining,     \* whether mining was started
    base        \* height of the peer's chain when the two met

vars == <<tip, mining, base>>

Init ==
    /\ base \in 0 .. MaxHeight
    /\ tip \in 0 .. base
    /\ mining = FALSE

Extend ==
    /\ tip < MaxHeight
    /\ tip' = tip + 1
    /\ UNCHANGED <<mining, base>>

\* The last block of the download and the start of mining are one step.
Start ==
    /\ ~mining
    /\ mining' = TRUE
    /\ tip' \in {tip, tip + 1} \cap (base .. MaxHeight)
    /\ UNCHANGED base

Next == Extend \/ Start

Spec == Init /\ [][Next]_vars
=============================================================================
