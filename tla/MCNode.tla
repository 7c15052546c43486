------------------------------- MODULE MCNode -------------------------------
(***************************************************************************)
(* Small instances of Node, and what comments of the code say of it.       *)
(***************************************************************************)
EXTENDS Node

\* An operation, a wait or a posted handler has a pointer to the node.
Outstanding ==
    conn = "connecting" \/ waiting \/ reading # "none" \/ writing \/ posted # <<>>

\* A node that is destroyed takes with it whatever it had under way (the
\* comment in Disconnect): no handler is left to run for it.
DestroyedWithItsParts == (opener = "done" /\ Outstanding) => Alive
=============================================================================
