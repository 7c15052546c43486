----------------------------- MODULE MCLibrary -----------------------------
(***************************************************************************)
(* Instances of the libraries the node stands on.  Each behaviour is of    *)
(* one part: the other parts stay in one initial state.  Pure functions    *)
(* are compared with their references in initial states, one per input.    *)
(***************************************************************************)
EXTENDS Key, PointSum

VARIABLES
    machine,        \* the machine of this behaviour, or "trial"
    trial,          \* the input of a pure function, or <<>>
    x5, y5, ops5, x10, y10, ops10,  \* the two layouts of field limbs
    sx, sy, sret, sops              \* the limbs of scalars

trialVars == <<machine, trial>>
fieldVars == <<x5, y5, ops5, x10, y10, ops10>>
scalarVars == <<sx, sy, sret, sops>>

MCGenerator == <<2, 12>>
MCNonceStreams == {<<3>>, <<31, 20>>, <<0, 4>>}
MCBlinds == {<<42, 30>>}
MCSpaces == {<<>>} \cup {<<[max |-> m, frames |-> <<>>]>> : m \in {200, 2800, 9500}}

\* P = 2^27 - 3 in limbs of 7 bits, and 2^27 - 131 with a fold of two limbs.
F5 == INSTANCE Field WITH
          N <- 4, W <- 7, T <- 6, C0 <- 3, C1 <- 0, WordBits <- 11, AccBits <- 19,
          MaxMagnitude <- 4, MulMagnitude <- 1, MaxOps <- 5,
          Residues <- {127, 134217724, 134217725, 101000000}, Factors <- {2, 3},
          x <- x5, y <- y5, ops <- ops5
F10 == INSTANCE Field WITH
          N <- 4, W <- 7, T <- 6, C0 <- 3, C1 <- 1, WordBits <- 11, AccBits <- 19,
          MaxMagnitude <- 4, MulMagnitude <- 1, MaxOps <- 5,
          Residues <- {127, 134217596, 134217597, 101000000}, Factors <- {2, 3},
          x <- x10, y <- y10, ops <- ops10

\* Four limbs of three bits.
S == INSTANCE Scalar WITH
          L <- 4, B <- 3, Order <- 4001, Shifts <- {1, 2, 5, 11}, MaxOps <- 4,
          Encodings <- {1, 2, 511, 2000, 2001, 4000, 4001, 4095, 3456},
          x <- sx, y <- sy, ret <- sret, ops <- sops

A == INSTANCE AdditionChain
Forms == INSTANCE Wnaf WITH Order <- 4093, ScalarBits <- 12
D == INSTANCE Der WITH Order <- 1021, ScalarBits <- 10, ByteValues <- 32, ScalarBytes <- 2, SizeBytes <- 6
-----------------------------------------------------------------------------
Parts == {"field5", "field10", "scalar", "points", "keys"}
Trials ==
    {<<"chains">>, <<"batches">>}
    \cup ({"forms"} \X (0..40 \cup 2030..2062 \cup 4050..4092))
    \cup ({"der"} \X {0, 1, 16, 511, 512, 1020} \X {0, 1, 16, 511, 512, 1020})

\* An idle accumulator is the generator.
PointIdle == point = Jacobian(1, 1) /\ multiple = 1 /\ ratio = <<>> /\ pointOps = 0

Init ==
    /\ \/ machine \in Parts /\ trial = <<>>
       \/ machine = "trial" /\ trial \in Trials
    /\ F5!Init /\ F10!Init /\ S!Init /\ KeyInit
    /\ IF machine = "points" THEN PointInit ELSE PointIdle

Next ==
    /\ UNCHANGED trialVars
    /\ \/ /\ machine = "field5" /\ F5!Next
          /\ UNCHANGED <<x10, y10, ops10, scalarVars, pointVars, keyVars>>
       \/ /\ machine = "field10" /\ F10!Next
          /\ UNCHANGED <<x5, y5, ops5, scalarVars, pointVars, keyVars>>
       \/ /\ machine = "scalar" /\ S!Next
          /\ UNCHANGED <<fieldVars, pointVars, keyVars>>
       \/ /\ machine = "points" /\ PointNext
          /\ UNCHANGED <<fieldVars, scalarVars, keyVars>>
       \/ /\ machine = "keys" /\ KeyNext
          /\ UNCHANGED <<fieldVars, scalarVars, pointVars>>

Spec == Init /\ [][Next]_<<trialVars, fieldVars, scalarVars, pointVars, keyVars>>
-----------------------------------------------------------------------------
Try(what) == machine = "trial" /\ trial[1] = what

\* The limbs never outgrow their words, no carry is lost, and the tests that read
\* limbs agree with the number they stand for: see Field and Scalar.
LimbsAreSound ==
    /\ machine = "field5" => F5!LimbsFit /\ F5!TestsAgree
    /\ machine = "field10" => F10!LimbsFit /\ F10!TestsAgree
    /\ machine = "scalar" => S!CarriesAreKept /\ S!ScalarTestsAgree

\* Both layouts of limbs implement the prime field, and the limbs of a scalar the
\* integers modulo the order: see Field!ImplementsField and Scalar!ImplementsScalar.
LimbsImplement == F5!ImplementsField /\ F10!ImplementsField /\ S!ImplementsScalar

\* Every formula and every way to multiply gives the sum the curve's group has, on
\* whichever branch, and the ratio of z it promises: see PointSum.
PointsAddUp == FormulasAddUp /\ RatiosAreRight

\* What signs verifies, what verifies can be recovered, and recovery finds the key of
\* the signer: see Key.
SignaturesAreSound == SignaturesVerify /\ VerifyMeansRecoverable /\ RecoveryFindsSigner

\* Secret and public keys stay a pair through every derivation, encoding and blinding:
\* see Key.
KeysAreSound == KeysMatch /\ ApiAgrees /\ EncodingKeepsKey /\ BlindingIsInvisible

\* Multiplication is planned right: the chains of squarings and products reach p - 2,
\* (p + 1) / 4 and n - 2, the signed-digit forms stand for their scalar and stay inside
\* the tables, and a batch fits its scratch space and leaves no point out: see
\* AdditionChain, Wnaf and Scratch.
MultiplicationIsPlanned ==
    /\ Try("chains") => A!ChainsReachTheirExponents
    /\ Try("forms") => Forms!WnafsRepresent({trial[2]}, {3, 4, 5})
    /\ Try("batches") =>
        /\ BatchesFit({0, 96, 97, 1000, 2000, 2800, 5000, 9500, 20000, 50000, 100000, 200000},
                      1..13 \cup 43..47 \cup 98..102 \cup 273..277)
        /\ BatchesCover(1..7, 0..24)

\* A signature has one encoding under the strict reader, and the tolerant readers
\* agree with it: see Der!DerIsCanonical and Der!LaxReadsStrict.
SignaturesHaveOneForm ==
    Try("der") => D!DerIsCanonical(trial[2], trial[3]) /\ D!LaxReadsStrict(trial[2], trial[3])
=============================================================================
