------------------------------ MODULE Scratch ------------------------------
(***************************************************************************)
(* The scratch space of secp256k1 (scratch_impl.h), and the sizes by which *)
(* a multiplication of many points is cut into batches that fit it         *)
(* (ecmult_impl.h).  Sizes are in bytes, of the x86-64 build.              *)
(***************************************************************************)
EXTENDS Integers, Sequences

CONSTANTS
    WnafBits,           \* bits of a scalar (the code: 256)
    ScratchWindowA,     \* the window of strauss (the code: 5)
    MaxPointsPerBatch   \* (the code: 10000000)

Alignment == 16
MaxFrames == 5
Objects == 6            \* allocations of a strauss batch, and of a pippenger one
SizeFe == 40
SizeGe == 88
SizeGej == 128
SizeScalar == 32
SizeInt == 4
SizeStraussPoint == WnafBits * SizeInt + 16
SizePippengerPoint == 16
SizePippengerState == 16
MaxBucketWindow == 12

Words(w) == (WnafBits + w - 1) \div w
Entries(w) == 2^(w - 2)
Least(a, b) == IF a < b THEN a ELSE b
Total(s) == LET sum[i \in 0..Len(s)] == IF i = 0 THEN 0 ELSE sum[i - 1] + s[i] IN sum[Len(s)]

\* A scratch space is its limit and its frames, each with its size and how much
\* of it was handed out.
Sizes(frames) == [i \in 1..Len(frames) |-> frames[i].size]
MaxAllocation(scratch, objects) ==
    LET free == scratch.max - Total(Sizes(scratch.frames))
    IN  IF free <= objects * Alignment THEN 0 ELSE free - objects * Alignment
CanAllocateFrame(scratch, n, objects) == n <= MaxAllocation(scratch, objects)
AllocateFrame(scratch, n, objects) ==
    [scratch EXCEPT !.frames = Append(@, [size |-> n + objects * Alignment, offset |-> 0])]
DeallocateFrame(scratch) ==
    [scratch EXCEPT !.frames = SubSeq(@, 1, Len(@) - 1)]

\* secp256k1_scratch_alloc: rounded up to the alignment, or nothing.
Rounded(size) == ((size + Alignment - 1) \div Alignment) * Alignment
CanAlloc(scratch, size) ==
    /\ scratch.frames # <<>>
    /\ LET top == scratch.frames[Len(scratch.frames)] IN top.offset + Rounded(size) <= top.size
Alloc(scratch, size) ==
    [scratch EXCEPT !.frames[Len(scratch.frames)].offset = @ + Rounded(size)]
-----------------------------------------------------------------------------
StraussScratchSize(n) ==
    n * ((SizeGe + SizeGej + SizeFe) * Entries(ScratchWindowA) + SizeStraussPoint + SizeGej + SizeScalar)
StraussMaxPoints(scratch) == MaxAllocation(scratch, Objects) \div StraussScratchSize(1)
StraussAllocations(n) ==
    LET table == n * Entries(ScratchWindowA)
    IN  <<n * SizeGej, n * SizeScalar, table * SizeGej, table * SizeFe, table * SizeGe, n * SizeStraussPoint>>

\* The most points a bucket window is best for; the last one has no limit.
BucketWindowInv == <<1, 11, 45, 100, 275, 625, 1850, 3400, 9630, 17900, 32800, 2^30>>
BucketWindow(n) ==
    CHOOSE w \in 1..MaxBucketWindow :
        n <= BucketWindowInv[w] /\ \A v \in 1..w - 1 : n > BucketWindowInv[v]

EntrySize(w) == SizeGe + SizeScalar + SizePippengerPoint + (Words(w + 1) + 1) * SizeInt
PippengerScratchSize(n, w) == SizeGej * 2^w + SizePippengerState + (n + 1) * EntrySize(w)
PippengerAllocations(n, w) ==
    <<(n + 1) * SizeGe, (n + 1) * SizeScalar, SizePippengerState, (n + 1) * SizePippengerPoint,
      (n + 1) * Words(w + 1) * SizeInt, SizeGej * 2^w>>

PippengerOverhead(w) == SizeGej * 2^w + EntrySize(w) + SizePippengerState

\* secp256k1_pippenger_max_points: windows are tried from the smallest, and the
\* first one that cannot take all the points it is best for ends the search.
RECURSIVE MaxPointsFrom(_, _, _)
MaxPointsFrom(alloc, w, res) ==
    LET n == Least((alloc - PippengerOverhead(w)) \div EntrySize(w), BucketWindowInv[w])
        most == IF n > res THEN n ELSE res
    IN  IF w > MaxBucketWindow THEN res
        ELSE IF PippengerOverhead(w) > alloc THEN res
        ELSE IF n < BucketWindowInv[w] THEN most
        ELSE MaxPointsFrom(alloc, w + 1, most)
PippengerMaxPoints(scratch) == MaxPointsFrom(MaxAllocation(scratch, Objects), 1, 0)

\* secp256k1_ecmult_multi_batch_size_helper: as few batches as the limit allows,
\* of even size.  A limit of zero points fails.
BatchSizes(limit, n) ==
    LET most == Least(limit, MaxPointsPerBatch)
        batches == 1 + ((n - 1) \div most)
    IN  IF n = 0 THEN [batches |-> 0, points |-> 0]
        ELSE [batches |-> batches, points |-> 1 + ((n - 1) \div batches)]

\* The points of each batch, in the order of the loop of secp256k1_ecmult_multi_var.
Batches(sizes, n) ==
    [i \in 1..sizes.batches |->
        [offset |-> sizes.points * (i - 1),
         n |-> LET left == n - sizes.points * (i - 1) IN Least(IF left < 0 THEN 0 ELSE left, sizes.points)]]
-----------------------------------------------------------------------------
RECURSIVE AllFit(_, _)
AllFit(scratch, sizes) ==
    sizes = <<>> \/ (CanAlloc(scratch, Head(sizes)) /\ AllFit(Alloc(scratch, Head(sizes)), Tail(sizes)))

\* A scratch space that says it can take some number of points takes any number up
\* to it: the frame is granted and none of the six allocations in it fails, whose
\* results the batches use unchecked (ecmult_impl.h:640-654, 960-968: "The function
\* ensures that fewer points may also be used"), by strauss and by pippenger.
BatchesFit(Limits, Counts) ==
    \A max \in Limits :
        LET scratch == [max |-> max, frames |-> <<>>]
            most == PippengerMaxPoints(scratch)
        IN  /\ \A n \in Counts \ {0} : n <= most =>
                 LET size == PippengerScratchSize(n, BucketWindow(n))
                 IN  /\ CanAllocateFrame(scratch, size, Objects)
                     /\ AllFit(AllocateFrame(scratch, size, Objects), PippengerAllocations(n, BucketWindow(n)))
            /\ \A n \in Counts \ {0} : n <= StraussMaxPoints(scratch) =>
                 /\ CanAllocateFrame(scratch, StraussScratchSize(n), Objects)
                 /\ AllFit(AllocateFrame(scratch, StraussScratchSize(n), Objects), StraussAllocations(n))

\* However the points are cut, every point is in one batch, and no batch is larger
\* than the scratch space allows (ecmult_impl.h:1111-1129, 1168-1178).
BatchesCover(MaxPoints, Counts) ==
    \A limit \in MaxPoints, n \in Counts :
        LET batches == Batches(BatchSizes(limit, n), n)
        IN  /\ \A p \in 0..n - 1 :
                 \E i \in 1..Len(batches) :
                    /\ p \in batches[i].offset..batches[i].offset + batches[i].n - 1
                    /\ \A j \in 1..Len(batches) :
                         p \in batches[j].offset..batches[j].offset + batches[j].n - 1 => j = i
            /\ \A i \in 1..Len(batches) : batches[i].n <= limit
=============================================================================
