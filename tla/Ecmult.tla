------------------------------- MODULE Ecmult -------------------------------
(***************************************************************************)
(* Multiplication of points by scalars (ecmult_impl.h, ecmult_const_impl.h *)
(* and ecmult_gen_impl.h): the tables of odd multiples, strauss, pippenger *)
(* and the batches they are cut into, the constant-time multiplication and *)
(* the blinded multiplication of the generator.                            *)
(***************************************************************************)
EXTENDS Group, Wnaf, Scratch, SequencesExt

CONSTANTS
    GeneratorXY,        \* the generator, as a pair
    WindowA, WindowG,   \* the windows of ecmult
    GenBits,            \* bits per row of the generator's table (the code: 4)
    NumsX,              \* the x of the point whose logarithm nobody knows
    PippengerThreshold  \* points from which pippenger is used (the code: 160)

TableSize(w) == 2^(w - 2)
Generator == GeFromStorage(GeneratorXY)

\* secp256k1_ecmult_odd_multiples_table: 1a, 3a, 5a ..., each with its z ratio to
\* the one before, computed where 2a is affine; the last z is brought back.
RECURSIVE OddRows(_, _, _)
OddRows(rows, twice, n) ==
    IF Len(rows) = n THEN rows
    ELSE OddRows(Append(rows, GejAddGeVar(rows[Len(rows)].p, twice)), twice, n)
FirstRowAt(q, z, zr) == [p |-> Gej(q.x, q.y, z, FALSE), zr |-> zr]
FirstRow(a, d) == FirstRowAt(GeSetGejZinv(a, d.z), a.z, d.z)
OddMultiplesOn(n, a, d) ==
    [OddRows(<<FirstRow(a, d)>>, Ge(d.x, d.y, FALSE), n) EXCEPT ![n].p.z = FeMul(@, d.z)]
OddMultiplesTable(n, a) == OddMultiplesOn(n, a, GejDouble(a).p)

Points(rows) == [i \in 1..Len(rows) |-> rows[i].p]
Ratios(rows) == [i \in 1..Len(rows) |-> rows[i].zr]

\* ..._table_storage_var: only y and the z ratio of each multiple are kept on the
\* way out; x is recomputed from the ratio on the way back.
RECURSIVE StorageRows(_, _, _, _)
StoreRow(rows, y, sum, twice, n) ==
    StorageRows(Append(rows, <<FeToStorage(FeNormalize(sum.zr)), FeToStorage(y)>>), sum.p, twice, n - 1)
StorageRows(rows, pj, twice, n) ==
    IF n = 1 THEN [rows |-> rows, last |-> pj]
    ELSE StoreRow(rows, FeNormalize(pj.y), GejAddGeVar([pj EXCEPT !.y = FeNormalize(@)], twice), twice, n)
RECURSIVE Unstore(_, _, _)
UnstoreAt(q, z, z2, dx) ==
    GeToStorage(Ge(FeAdd(FeNegate(FeMul(q.x, z2), 1), dx), FeMul(q.y, FeMul(z2, z)), FALSE))
UnstoreLast(rows, q, z, dx) == Append(Unstore(Front(rows), z, dx), UnstoreAt(q, z, FeSqr(z), dx))
Unstore(rows, zi, dx) ==
    IF rows = <<>> THEN <<>>
    ELSE UnstoreLast(rows, GeFromStorage(Last(rows)), FeMul(zi, FeFromStorage(Last(rows)[1])), dx)
StorageBack(out, d, zi) ==
    Append(Unstore(out.rows, zi, FeMul(FeSqr(FeMul(zi, out.last.z)), d.x)),
           GeToStorage(GeSetGejZinv(out.last, zi)))
StorageOut(out, d) == StorageBack(out, d, FeInv(FeMul(out.last.z, d.z)))
StorageOn(n, a, d) == StorageOut(StorageRows(<<>>, FirstRow(a, d).p, Ge(d.x, d.y, FALSE), n), d)
StorageTable(n, a) == StorageOn(n, a, GejDouble(a).p)

\* Digit n of a form takes entry |n|, negated where n is negative.
TableGetGe(pre, n) ==
    IF n > 0 THEN pre[((n - 1) \div 2) + 1]
    ELSE [pre[((-n - 1) \div 2) + 1] EXCEPT !.y = FeNegate(@, 1)]
TableGetGeStorage(pre, n) ==
    IF n > 0 THEN GeFromStorage(pre[((n - 1) \div 2) + 1])
    ELSE [GeFromStorage(pre[((-n - 1) \div 2) + 1]) EXCEPT !.y = FeNegate(@, 1)]

\* secp256k1_ecmult_context_build: the odd multiples of the generator.
PreG == StorageTable(TableSize(WindowG), GejSetGe(Generator))
-----------------------------------------------------------------------------
(* Strauss: one run of doublings for all the points. *)

Digit(form, i) == IF i <= Len(form) THEN form[i] ELSE 0

\* The tables of all the points, each started where the last z of the one before
\* it left off, so that one z serves them all.
RECURSIVE StraussRows(_, _)
JoinTable(rows, table, z) == rows \o (IF rows = <<>> THEN table ELSE [table EXCEPT ![1].zr = FeMul(@, z)])
StraussRows(rows, a) ==
    IF a = <<>> THEN rows
    ELSE StraussRows(JoinTable(rows,
                         OddMultiplesTable(TableSize(WindowA),
                             IF rows = <<>> THEN a[1] ELSE GejRescale(a[1], Last(rows).p.z)),
                         a[1].z),
                     Tail(a))

AddEntry(r, table, n) == IF n = 0 THEN r ELSE GejAddGeVar(r, TableGetGe(table, n)).p
RECURSIVE AddDigits(_, _, _, _, _)
AddDigits(r, pre, forms, i, np) ==
    IF np > Len(forms) THEN r
    ELSE AddDigits(AddEntry(r, SubSeq(pre, (np - 1) * TableSize(WindowA) + 1, np * TableSize(WindowA)),
                            Digit(forms[np], i)),
                   pre, forms, i, np + 1)
AddEntryG(r, n, zinv) == IF n = 0 THEN r ELSE GejAddZinv(r, TableGetGeStorage(PreG, n), zinv)

\* From the highest digit down: a doubling, then the digit of every form.
RECURSIVE StraussFrom(_, _, _, _, _)
StraussFrom(r, shared, forms, formG, i) ==
    IF ~GejHolds(r) \/ i = 0 THEN r
    ELSE StraussFrom(AddEntryG(AddDigits(GejDouble(r).p, shared.table, forms, i, 1), Digit(formG, i), shared.globalz),
                     shared, forms, formG, i - 1)

\* ng is <<>> for a null pointer and <<scalar>> otherwise.
SharedTable(rows) ==
    IF rows = <<>> THEN [table |-> <<>>, globalz |-> FeSetInt(1)]
    ELSE GeGlobalzSetTableGej(Points(rows), Ratios(rows))
Unshare(r, globalz) == IF r.inf THEN r ELSE [r EXCEPT !.z = FeMul(@, globalz)]
StraussOn(shared, forms, formG) ==
    Unshare(StraussFrom(GejInfinity, shared, forms, formG, ScalarBits), shared.globalz)
StraussOf(a, na, ng, live) ==
    StraussOn(SharedTable(StraussRows(<<>>, [k \in 1..Len(live) |-> a[live[k]]])),
              [k \in 1..Len(live) |-> EcmultWnaf(na[live[k]], WindowA)],
              IF ng = <<>> THEN <<>> ELSE EcmultWnaf(ng[1], WindowG))
StraussWnaf(a, na, ng) ==
    StraussOf(a, na, ng, SelectSeq([i \in 1..Len(a) |-> i], LAMBDA i : na[i] # 0 /\ ~a[i].inf))

\* secp256k1_ecmult: na * a + ng * G.
EcmultOf(a, na, ng) == StraussWnaf(<<a>>, <<na>>, ng)
-----------------------------------------------------------------------------
(* Pippenger: points are thrown into buckets by digit, a window at a time. *)

BucketAdd(buckets, idx, q) == [buckets EXCEPT ![idx] = GejAddGeVar(@, q).p]

ThrowSkew(buckets, skew, q) == IF skew THEN BucketAdd(buckets, 0, GeNeg(q)) ELSE buckets
ThrowDigit(buckets, n, q) ==
    IF n = 0 THEN buckets
    ELSE IF n > 0 THEN BucketAdd(buckets, (n - 1) \div 2, q)
    ELSE BucketAdd(buckets, (-n - 1) \div 2, GeNeg(q))
RECURSIVE Throw(_, _, _, _)
Throw(buckets, forms, pt, i) ==
    IF forms = <<>> THEN buckets
    ELSE Throw(ThrowDigit(ThrowSkew(buckets, i = 1 /\ Head(forms).skew = 1, Head(pt)),
                          Head(forms).digits[i], Head(pt)),
               Tail(forms), Tail(pt), i)

RECURSIVE Doubled(_, _)
Doubled(r, n) == IF n = 0 THEN r ELSE Doubled(GejDouble(r).p, n - 1)

\* 1*bucket[0] + 3*bucket[1] + 5*bucket[2] ...: a running sum from the top, added
\* once per bucket and doubled by the window's last doubling.
RECURSIVE Collect(_, _, _, _)
CollectSum(r, sum, buckets, j) ==
    IF j = 0 THEN GejAdd(GejDouble(r).p, sum).p
    ELSE Collect(GejAdd(r, sum).p, sum, buckets, j - 1)
Collect(r, running, buckets, j) == CollectSum(r, GejAdd(running, buckets[j]).p, buckets, j)

\* Window i of the scalars, on top of the windows above it.
RECURSIVE Pippenger(_, _, _, _)
Pippenger(window, forms, points, i) ==
    IF i > Size(ScalarBits, window + 1) THEN GejInfinity
    ELSE Collect(Doubled(Pippenger(window, forms, points, i + 1), window), GejInfinity,
                 Throw([j \in 0..2^window - 1 |-> GejInfinity], forms, points, i), 2^window - 1)
PippengerOf(window, sc, pt, live) ==
    IF live = <<>> THEN GejInfinity
    ELSE Pippenger(window, [k \in 1..Len(live) |-> WnafFixed(sc[live[k]], window + 1)],
                   [k \in 1..Len(live) |-> pt[live[k]]], 1)
PippengerWnaf(window, sc, pt) ==
    PippengerOf(window, sc, pt,
                SelectSeq([i \in 1..Len(sc) |-> i], LAMBDA i : sc[i] # 0 /\ ~pt[i].inf))
-----------------------------------------------------------------------------
(* Many points: the i-th call of the caller's callback gives scalar sc[i]  *)
(* and point pt[i], or fails when i is in `fails`.                         *)

Fails == [ok |-> FALSE, r |-> GejInfinity]
Gives(r) == [ok |-> TRUE, r |-> r]

StraussBatch(scratch, ng, sc, pt, fails, batch) ==
    LET range == batch.offset + 1..batch.offset + batch.n
    IN  IF ng = <<>> /\ batch.n = 0 THEN Gives(GejInfinity)
        ELSE IF ~CanAllocateFrame(scratch, StraussScratchSize(batch.n), Objects) \/ range \cap fails # {} THEN Fails
        ELSE Gives(StraussWnaf([i \in 1..batch.n |-> GejSetGe(pt[batch.offset + i])],
                               [i \in 1..batch.n |-> sc[batch.offset + i]], ng))

\* The generator's scalar is one more entry.
PippengerBatch(scratch, ng, sc, pt, fails, batch) ==
    LET range == batch.offset + 1..batch.offset + batch.n
        window == BucketWindow(batch.n)
        points == [i \in 1..batch.n |-> pt[batch.offset + i]]
        scalars == [i \in 1..batch.n |-> sc[batch.offset + i]]
    IN  IF ng = <<>> /\ batch.n = 0 THEN Gives(GejInfinity)
        ELSE IF ~CanAllocateFrame(scratch, PippengerScratchSize(batch.n, window), Objects) \/ range \cap fails # {}
        THEN Fails
        ELSE Gives(IF ng = <<>> THEN PippengerWnaf(window, scalars, points)
                   ELSE PippengerWnaf(window, ng \o scalars, <<Generator>> \o points))

\* secp256k1_ecmult_multi_simple_var: one multiplication at a time.
RECURSIVE MultiSimple(_, _, _, _, _)
MultiSimple(r, sc, pt, fails, i) ==
    IF i > Len(sc) THEN Gives(r)
    ELSE IF i \in fails THEN Fails
    ELSE MultiSimple(GejAdd(r, EcmultOf(GejSetGe(pt[i]), sc[i], <<>>)).p, sc, pt, fails, i + 1)

RECURSIVE RunBatches(_, _, _, _, _, _, _, _)
AfterBatch(r, done, scratch, pippenger, sc, pt, fails, batches) ==
    IF ~done.ok THEN Fails
    ELSE RunBatches(GejAdd(r, done.r).p, scratch, pippenger, <<>>, sc, pt, fails, batches)
RunBatches(r, scratch, pippenger, ng, sc, pt, fails, batches) ==
    IF batches = <<>> THEN Gives(r)
    ELSE AfterBatch(r, IF pippenger THEN PippengerBatch(scratch, ng, sc, pt, fails, Head(batches))
                       ELSE StraussBatch(scratch, ng, sc, pt, fails, Head(batches)),
                    scratch, pippenger, sc, pt, fails, Tail(batches))

\* secp256k1_ecmult_multi_var; scratch is <<>> for a null pointer.
EcmultMulti(scratch, ng, sc, pt, fails) ==
    LET n == Len(sc)
        most == PippengerMaxPoints(scratch[1])
        pippenger == BatchSizes(most, n).points >= PippengerThreshold
        limit == IF pippenger THEN most ELSE StraussMaxPoints(scratch[1])
    IN  IF n = 0 THEN Gives(IF ng = <<>> THEN GejInfinity ELSE EcmultOf(GejInfinity, 0, ng))
        ELSE IF scratch = <<>> THEN MultiSimple(EcmultOf(GejInfinity, 0, ng), sc, pt, fails, 1)
        ELSE IF most = 0 THEN Fails
        ELSE IF limit = 0 THEN Fails
        ELSE RunBatches(GejInfinity, scratch[1], pippenger, ng, sc, pt, fails, Batches(BatchSizes(limit, n), n))
-----------------------------------------------------------------------------
(* The constant-time multiplication. *)

ConstTableGetGe(pre, n) ==
    LET q == pre[((IF n > 0 THEN n ELSE -n) \div 2) + 1]
    IN  Ge(q.x, FeCmov(q.y, FeNegate(q.y, 1), n < 0), FALSE)

\* secp256k1_ecmult_const: every window doubles and adds, and the skew that made
\* the scalar odd is taken off at the end.
ConstTable(table) == [i \in 1..Len(table) |-> [table[i] EXCEPT !.y = FeNormalizeWeak(@)]]
RECURSIVE ConstDigits(_, _, _)
ConstDigits(pre, digits, i) ==
    IF i = Len(digits) THEN GejSetGe(ConstTableGetGe(pre, digits[i]))
    ELSE GejAddGe(Doubled(ConstDigits(pre, digits, i + 1), WindowA - 1), ConstTableGetGe(pre, digits[i]))
SkewPoint(a, skew) ==
    GeFromStorage(IF skew = 2 THEN GeToStorage(GeSetGej(GejDouble(GejSetGe(a)).p)) ELSE GeToStorage(a))
EcmultConstOn(a, form, shared) ==
    GejAddGe([ConstDigits(ConstTable(shared.table), form.digits, 1) EXCEPT !.z = FeMul(@, shared.globalz)],
             GeNeg(SkewPoint(a, form.skew)))
EcmultConst(a, scalar) ==
    EcmultConstOn(a, WnafConst(scalar, WindowA - 1),
                  SharedTable(OddMultiplesTable(TableSize(WindowA), GejSetGe(a))))
-----------------------------------------------------------------------------
(* The generator: a row of multiples for every GenBits bits of the scalar, *)
(* each row offset by a multiple of a point of unknown logarithm; the      *)
(* offsets add up to nothing.                                              *)

Rows == Size(ScalarBits, GenBits)
Nums == GejAddGeVar(GejSetGe(GeSetXo(FeSetInt(NumsX), FALSE)), Generator).p

RECURSIVE Steps(_, _, _)
Steps(row, base, n) ==
    IF Len(row) = n THEN row ELSE Steps(Append(row, GejAdd(row[Len(row)], base).p), base, n)
NextNums(twice, j) == IF j = Rows - 2 THEN GejAdd(GejNeg(twice), Nums).p ELSE twice
RECURSIVE PrecRows(_, _, _)
PrecRows(j, gbase, numsbase) ==
    IF j = Rows THEN <<>>
    ELSE Steps(<<numsbase>>, gbase, 2^GenBits)
         \o PrecRows(j + 1, Doubled(gbase, GenBits), NextNums(GejDouble(numsbase).p, j))

\* secp256k1_ecmult_gen_context_build.
StoreAll(affine) == [i \in 1..Len(affine) |-> GeToStorage(affine[i])]
Prec == StoreAll(GeSetAllGejVar(PrecRows(0, GejSetGe(Generator), Nums)))

\* secp256k1_ecmult_gen: (gn + blind) * G from the initial point, -blind * G.
RECURSIVE AddRows(_, _, _)
AddRows(r, gnb, j) ==
    IF ~GejHolds(r) \/ j = Rows THEN r
    ELSE AddRows(GejAddGe(r, GeFromStorage(Prec[j * 2^GenBits + GetBits(gnb, j * GenBits, GenBits) + 1])), gnb, j + 1)
EcmultGen(gen, gn) == AddRows(gen.initial, ScalarAdd(gn, gen.blind), 0)

\* The initial point and blinding scalar before any seed.
GenReset == [initial |-> GejNeg(GejSetGe(Generator)), blind |-> 1]

\* secp256k1_ecmult_gen_blind, after the generator of random numbers has given a
\* field element s and a scalar b that are in range and not zero.
GenBlind(gen, s, b) ==
    [initial |-> EcmultGen([gen EXCEPT !.initial = GejRescale(@, s)], b), blind |-> ScalarNegate(b)]
-----------------------------------------------------------------------------
\* The multiples of the generator by the textbook addition, from the 0th on.
RECURSIVE MultiplesFrom(_)
MultiplesFrom(row) ==
    IF Len(row) = Order THEN row ELSE MultiplesFrom(Append(row, AffineSum(row[Len(row)], GeneratorXY)))
Multiples == MultiplesFrom(<<Origin>>)
=============================================================================
