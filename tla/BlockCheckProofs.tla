------------------------- MODULE BlockCheckProofs -------------------------
(***************************************************************************)
(* On a network without retargeting whose genesis block is at the limit,   *)
(* the difficulty never leaves the limit, for every chain, interval and    *)
(* width of numbers.                                                       *)
(***************************************************************************)
EXTENDS BlockCheck, TLAPS

AtLimit == [time : Nat, bits : {GetCompact(net.powLimit)}]

\* The chain alone is not inductive: a block that has passed is to come.
IInv ==
    Regtest =>
        /\ chain \in Seq(AtLimit) /\ Len(chain) >= 1
        /\ pc # "idle" => block.time \in Nat
        /\ pc = "passed" => block.bits = GetCompact(net.powLimit)

\* The walk back of GetNextWorkRequired ends at a block of the chain.
LEMMA WalkEnds ==
    ASSUME chain \in Seq(AtLimit), Len(chain) >= 1
    PROVE  RealBlock \in 1..Len(chain)
<1> DEFINE Limit == GetCompact(net.powLimit)
           Real(i) == /\ i = 1 \/ chain[i].bits # Limit
                      /\ \A j \in i + 1..Len(chain) : chain[j].bits = Limit
<1>1. \A j \in 1..Len(chain) : chain[j] \in AtLimit
  OBVIOUS
<1>2. \A j \in 1..Len(chain) : chain[j].bits = Limit
  BY <1>1 DEF AtLimit
<1>3. 1 \in 1..Len(chain) /\ Real(1)
  BY <1>2
<1>4. \E i \in 1..Len(chain) : Real(i)
  BY <1>3
<1>5. RealBlock = CHOOSE i \in 1..Len(chain) : Real(i)
  BY DEF RealBlock
<1> HIDE DEF Real
<1> QED
  BY <1>4, <1>5

\* Every way through GetNextWorkRequired returns the limit.
LEMMA WorkIsLimit ==
    ASSUME Regtest, chain \in Seq(AtLimit), Len(chain) >= 1, NEW time
    PROVE  GetNextWorkRequired(time) = GetCompact(net.powLimit)
<1>1. chain[RealBlock] \in AtLimit /\ Tip \in AtLimit
  BY WalkEnds DEF Tip
<1>2. chain[RealBlock].bits = GetCompact(net.powLimit) /\ Tip.bits = GetCompact(net.powLimit)
  BY <1>1 DEF AtLimit
<1> QED
  BY <1>2 DEF GetNextWorkRequired, CalculateNextWorkRequired, Regtest

\* Blocks with the wrong difficulty fail, so the chain stays at the limit.
THEOREM StaysAtLimit == BlockSpec => []RegtestStaysAtLimit
<1>1. BlockInit => IInv
  <2> SUFFICES ASSUME BlockInit, Regtest
               PROVE  chain \in Seq(AtLimit) /\ Len(chain) >= 1 /\ pc = "idle"
    BY DEF IInv
  <2>1. [time |-> 0, bits |-> net.genesisBits] \in AtLimit
    BY DEF AtLimit, Regtest
  <2> QED
    BY <2>1 DEF BlockInit
<1>2. IInv /\ [BlockNext]_blockVars => IInv'
  <2> SUFFICES ASSUME IInv, [BlockNext]_blockVars, Regtest'
               PROVE  IInv'
    BY DEF IInv
  <2>1. net' = net
    BY DEF BlockNext, blockVars, Receive, CheckTxs, HashLevel, CheckHeader, Save, Refuse
  <2>2. Regtest
    BY <2>1 DEF Regtest
  <2>3. AtLimit' = AtLimit /\ GetCompact(net.powLimit)' = GetCompact(net.powLimit)
    BY <2>1 DEF AtLimit
  <2>4. /\ chain \in Seq(AtLimit) /\ Len(chain) >= 1
        /\ pc # "idle" => block.time \in Nat
        /\ pc = "passed" => block.bits = GetCompact(net.powLimit)
    BY <2>2 DEF IInv
  <2>5. CASE Receive
    <3>1. PICK c \in Candidate[Len(chain)] : \E bits : block' = [c EXCEPT !.bits = bits]
      BY <2>5 DEF Receive
    <3>2. Len(chain) \in 1..MaxHeight
      BY <2>4, <2>5, ChainAssumption DEF Receive
    <3>3. block'.time \in Nat
      BY <3>1, <3>2, ChainAssumption
    <3> QED
      BY <2>3, <2>4, <2>5, <3>3 DEF Receive, IInv
  <2>6. CASE CheckTxs
    BY <2>3, <2>4, <2>6 DEF CheckTxs, IInv
  <2>7. CASE HashLevel
    BY <2>3, <2>4, <2>7 DEF HashLevel, IInv
  <2>8. CASE CheckHeader
    <3>1. GetNextWorkRequired(block.time) = GetCompact(net.powLimit)
      BY <2>2, <2>4, WorkIsLimit
    <3> QED
      BY <2>3, <2>4, <2>8, <3>1 DEF CheckHeader, IInv
  <2>9. CASE Save
    <3>1. [time |-> block.time, bits |-> block.bits] \in AtLimit
      BY <2>4, <2>9 DEF Save, AtLimit
    <3>2. chain' \in Seq(AtLimit) /\ Len(chain') >= 1
      BY <2>4, <2>9, <3>1 DEF Save
    <3> QED
      BY <2>3, <2>9, <3>2 DEF Save, IInv
  <2>10. CASE Refuse
    BY <2>3, <2>4, <2>10 DEF Refuse, IInv
  <2>11. CASE UNCHANGED blockVars
    BY <2>3, <2>4, <2>11 DEF blockVars, IInv
  <2> QED
    BY <2>5, <2>6, <2>7, <2>8, <2>9, <2>10, <2>11 DEF BlockNext
<1>3. IInv => RegtestStaysAtLimit
  <2> SUFFICES ASSUME IInv, Regtest, NEW i \in DOMAIN chain
               PROVE  chain[i].bits = GetCompact(net.powLimit)
    BY DEF RegtestStaysAtLimit
  <2>1. chain[i] \in AtLimit
    BY DEF IInv
  <2> QED
    BY <2>1 DEF AtLimit
<1> QED
  BY <1>1, <1>2, <1>3, PTL DEF BlockSpec
=============================================================================
