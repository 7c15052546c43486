---------------------------- MODULE MCBlockChain ----------------------------
(***************************************************************************)
(* Small instances of BlockChain.  Hash 5 is the genesis block.  Block b   *)
(* has coinbase 10 + b.                                                    *)
(*                                                                         *)
(*   tree:   5 --- 3 [21] --- 6 [23] --- 1 [22]                            *)
(*            \          \--- 7                                            *)
(*             \-- 2 -------- 4 [22]                                        *)
(*                                                                         *)
(*   21 and 22 spend the genesis coinbase, 23 spends output 0 of 21.       *)
(***************************************************************************)
EXTENDS BlockChain, TLC

TreePrev == 1 :> 6 @@ 2 :> 5 @@ 3 :> 5 @@ 4 :> 2 @@ 5 :> 0 @@ 6 :> 3 @@ 7 :> 3

TreeVtx == 1 :> <<11, 22>> @@ 2 :> <<12>> @@ 3 :> <<13, 21>> @@ 4 :> <<14, 22>>
           @@ 5 :> <<15>> @@ 6 :> <<16, 23>> @@ 7 :> <<17>>

TreeTx == 11 .. 17 \cup 21 .. 23

TreeVin == [t \in 11 .. 17 |-> <<>>]
           @@ 21 :> << <<15, 0>> >> @@ 22 :> << <<15, 0>> >> @@ 23 :> << <<21, 0>> >>

TreeNOut == [t \in TreeTx |-> IF t = 21 THEN 2 ELSE 1]

(* line:   5 --- 3 [21] --- 6 [23] --- 7 *)

LineBlock == {3, 5, 6, 7}
LinePrev  == 3 :> 5 @@ 5 :> 0 @@ 6 :> 3 @@ 7 :> 6
LineVtx   == [b \in LineBlock |-> TreeVtx[b]]
-----------------------------------------------------------------------------
(* What comments of the code say of it, and what it does not do *)

\* An orphan block whose parent extends the active chain is processed in turn.
OrphanIsAdopted ==
    \A b \in Block \ {Genesis} :
        (orphans[b] > 0 /\ cur = Prev[b] /\ pc = "tail") ~> Indexed(b)
=============================================================================
