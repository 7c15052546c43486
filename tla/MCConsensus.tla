---------------------------- MODULE MCConsensus ----------------------------
(***************************************************************************)
(* The rules every node must agree on, in one model: a behaviour checks    *)
(* the blocks of a growing chain, verifies a spend, or changes a signed    *)
(* transaction, while the others are at rest.                              *)
(***************************************************************************)
EXTENDS MCBlockCheck, MCScript

VARIABLE rules   \* what the behaviour is about

NoSpend == [sig |-> << >>, pub |-> << >>, wit |-> << >>, flags |-> {}, checker |-> << >>]
NoSignature == [tx |-> Tx0, nIn |-> 0, type |-> 1, ver |-> "BASE", code |-> << >>, amount |-> 7]

NoBlocks == BlockInit /\ net.noRetargeting
NoScript == spend = NoSpend /\ run = << >>
NoSigning ==
    signed = NoSignature /\ tx = Tx0 /\ code = << >> /\ amount = 7 /\ edits = MaxEdits

ConsensusInit ==
    \/ rules = "blocks" /\ BlockInit /\ NoScript /\ NoSigning
    \/ rules = "scripts" /\ NoBlocks /\ Init /\ NoSigning
    \/ rules = "signing" /\ NoBlocks /\ NoScript /\ SigInit
ConsensusNext ==
    /\ UNCHANGED rules
    /\ \/ rules = "blocks" /\ BlockNext /\ UNCHANGED << vars, sigVars >>
       \/ rules = "scripts" /\ Next /\ UNCHANGED << blockVars, sigVars >>
       \/ rules = "signing" /\ SigNext /\ UNCHANGED << blockVars, vars >>
ConsensusSpec == ConsensusInit /\ [][ConsensusNext]_<< rules, blockVars, vars, sigVars >>

-----------------------------------------------------------------------------
\* What a run of the interpreter may use is bounded, no assertion of it fails, and
\* the count of signature operations bounds the checks: see Interpreter and MCScript.
UseIsBounded == TypeOK /\ Limits /\ NoAssert /\ SigOpsAreBounded

\* Nothing is read two ways: a number has one encoding, and the script that runs is
\* the one the output named.
ReadingIsExact == NumbersAreCanonical /\ RunsWhatWasNamed

\* The Solver takes a script apart without loss, and what it says of spending the
\* output is what the interpreter does: see Standard and MCScript.
SolverIsSound == SolverReadsAll /\ SolverKnowsSpending

\* Each step of a script goes forward, and what a false branch skips does nothing.
StepsAreOrderly == SkippedIsInert /\ AlwaysForward

\* A spend is bound to its transaction.  SignatureBinds: a signature stays good through
\* the changes that its hash type leaves open, and through no others.  LockTimeHolds:
\* OP_CHECKLOCKTIMEVERIFY and IsFinalTx together keep an output locked.
SpendBindsTx == rules = "signing" => SignatureBinds /\ LockTimeHolds
=============================================================================
