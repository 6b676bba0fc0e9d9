---------------------------- MODULE SubAllocator ----------------------------
(* The memory of the PPM model (src/unrar/ppm_model.go, subAllocator): a row *)
(* of units, numbered from 1, of which the lower heap holds text that grows  *)
(* upwards and blocks taken downwards, and the upper heap blocks and         *)
(* contexts taken from both of its ends.  Free blocks are kept in one list   *)
(* for each size.  A unit stands for two states of the Go array, so an       *)
(* address n of this module is the index 2*n there.  An operation takes the  *)
(* memory m and returns it with the block found, n = 0 when there is none.   *)
EXTENDS Integers, Sequences, FiniteSets, SequencesExt

CONSTANTS Bytes,      \* maxMB << 20, the memory asked for
          UnitBytes,  \* unitSize
          Groups,     \* n1..n4: how many list sizes grow by 1, 2, ... units
          Index2Units,\* the size of the blocks in each list
          GlueEvery,  \* 255, allocations that fail between two gluings
          MaxGlue     \* maxUint16, the longest block gluing builds

(* The sizes of the lists, which init computes when the program starts; the  *)
(* first is 0 and has no blocks.                                             *)
Sizes == FoldLeftDomain(LAMBDA t, g : t \o [j \in 1..Groups[g] |-> Last(t) + g * j],
                        <<0>>, Groups)

ASSUME AllocatorAssumption == Index2Units = Sizes

Indexes == 2..Len(Index2Units)
MaxBlock == Index2Units[Len(Index2Units)]

(* The list of the smallest blocks of at least u units.                      *)
Units2Index(u) == CHOOSE i \in Indexes : /\ Index2Units[i] >= u
                                         /\ i = 2 \/ Index2Units[i - 1] < u

Heap2Units == (((Bytes \div 8) \div UnitBytes) * 7)
Heap1Max == Bytes - Heap2Units * UnitBytes
Heap1Start == 2 * UnitBytes - (Heap1Max % UnitBytes)
Heap1Units == Heap1Max \div UnitBytes + 1
AllUnits == 1..(Heap1Units + Heap2Units)

(* restart: both heaps are whole and every list is empty.                    *)
FreshMemory == [free |-> [i \in Indexes |-> <<>>], glue |-> 0, text |-> <<>>,
                hi1 |-> UnitBytes * (1 + Heap1Units),
                lo2 |-> 1 + Heap1Units, hi2 |-> 1 + Heap1Units + Heap2Units]

Heap1Lo(m) == Heap1Start + Len(m.text)

(* pushByte answers the negated address behind the byte, or 0 at the end of  *)
(* the lower heap.                                                           *)
Pushed(m, b) == [m EXCEPT !.text = Append(@, b)]
(* Mutant of PushedAt: the address of the byte itself.                       *)
PushedAtByte(m) == IF Heap1Lo(m) + 1 >= m.hi1 THEN 0 ELSE -Heap1Lo(m)

PushedAt(m) == IF Heap1Lo(m) + 1 >= m.hi1 THEN 0 ELSE -(Heap1Lo(m) + 1)
Popped(m) == [m EXCEPT !.text = Front(@)]
(* A byte at the end of the text has not been written since the restart.     *)
Unwritten == -1
SuccByte(m, succ) == IF -succ < Heap1Lo(m) THEN m.text[1 - succ - Heap1Start] ELSE Unwritten

HasFree(m, i) == m.free[i] # <<>>
RemoveFreeBlock(m, i) == [m |-> [m EXCEPT !.free[i] = Tail(@)], n |-> Head(m.free[i])]
AddFreeBlock(m, n, i) == [m EXCEPT !.free[i] = <<n>> \o @]

(* A block whose size has no list is split into two that have one.           *)
FreeUnits(m, n, u) ==
    LET i == Units2Index(u)
        k == Index2Units[i - 1]
    IN  IF u = Index2Units[i] THEN AddFreeBlock(m, n, i)
        ELSE AddFreeBlock(AddFreeBlock(m, n, i - 1), n + k, Units2Index(u - k))
-----------------------------------------------------------------------------
(* glueFreeBlocks: every free block is marked, in the reverse order of the   *)
(* lists; each one that is still marked absorbs the marked ones behind it;   *)
(* and what remains returns to the lists, in pieces when it is too long.     *)

Marked(m) == FoldLeftDomain(LAMBDA ns, i : Reverse(m.free[i + 1]) \o ns, <<>>,
                            Tail(Index2Units))

MarkedSize(m) == [n \in ToSet(Marked(m)) |->
                    Index2Units[CHOOSE i \in Indexes : n \in ToSet(m.free[i])]]

(* Mutant of Absorbed: the absorbed blocks keep their marks.                  *)
AbsorbedMarked(sizes, n) ==
    IF n + sizes[n] \in DOMAIN sizes /\ sizes[n] + sizes[n + sizes[n]] <= MaxGlue
    THEN [sizes EXCEPT ![n] = @ + sizes[n + @]] ELSE sizes

Absorbed(sizes, n) ==
    LET grown[u \in Nat] == IF /\ n + u \in DOMAIN sizes
                               /\ u + sizes[n + u] <= MaxGlue
                            THEN grown[u + sizes[n + u]] ELSE u
        all == grown[sizes[n]]
    IN  [x \in {x \in DOMAIN sizes : x <= n \/ x >= n + all} |->
            IF x = n THEN all ELSE sizes[x]]

Pieces(m, n, u) ==
    LET k == (u - 1) \div MaxBlock
    IN  FreeUnits(FoldLeft(LAMBDA r, j : AddFreeBlock(r, n + j * MaxBlock, Len(Index2Units)),
                           m, [j \in 1..k |-> j - 1]),
                  n + k * MaxBlock, u - k * MaxBlock)

GlueFreeBlocks(m) ==
    LET chain == Marked(m)
        glued == FoldLeft(LAMBDA s, n : IF n \in DOMAIN s THEN Absorbed(s, n) ELSE s,
                          MarkedSize(m), chain)
    IN  FoldLeft(LAMBDA r, n : IF n \in DOMAIN glued THEN Pieces(r, n, glued[n]) ELSE r,
                 [m EXCEPT !.free = [i \in Indexes |-> <<>>], !.glue = GlueEvery], chain)
-----------------------------------------------------------------------------
(* The last resorts: gluing, a larger block of which the rest is freed, and  *)
(* the top of the lower heap.                                                *)
AllocLarger(m, i, glued) ==
    LET larger == {j \in Indexes : j > i /\ HasFree(m, j)}
        j == CHOOSE x \in larger : \A y \in larger : x <= y
        r == RemoveFreeBlock(m, j)
        top == m.hi1 - Index2Units[i] * UnitBytes
    IN  IF glued /\ HasFree(m, i) THEN RemoveFreeBlock(m, i)
        ELSE IF larger # {}
        THEN [m |-> FreeUnits(r.m, r.n + Index2Units[i], Index2Units[j] - Index2Units[i]),
              n |-> r.n]
        ELSE IF top > Heap1Lo(m)
        THEN [m |-> [m EXCEPT !.glue = @ - 1, !.hi1 = top], n |-> top \div UnitBytes]
        ELSE [m |-> [m EXCEPT !.glue = @ - 1], n |-> 0]

AllocUnitsRare(m, i) ==
    AllocLarger(IF m.glue = 0 THEN GlueFreeBlocks(m) ELSE m, i, m.glue = 0)

AllocUnits(m, i) ==
    IF HasFree(m, i) THEN RemoveFreeBlock(m, i)
    ELSE IF m.lo2 + Index2Units[i] <= m.hi2
    THEN [m |-> [m EXCEPT !.lo2 = @ + Index2Units[i]], n |-> m.lo2]
    ELSE AllocUnitsRare(m, i)

(* The unit of a new context comes from the top of the upper heap.           *)
AllocContext(m) ==
    IF m.lo2 < m.hi2 THEN [m |-> [m EXCEPT !.hi2 = @ - 1], n |-> m.hi2 - 1]
    ELSE IF HasFree(m, 2) THEN RemoveFreeBlock(m, 2)
    ELSE AllocUnitsRare(m, 2)
=============================================================================
