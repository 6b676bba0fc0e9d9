------------------------- MODULE ArchiveWalkProofs --------------------------
(***************************************************************************)
(* Proofs about ArchiveWalk, for archives of any number of files, volumes  *)
(* and blocks.  With any damage, a file gets units of its own only, in     *)
(* their order, and is kept only if it got all of them; in format 50 it    *)
(* gets its first units, none passed over.  An intact archive is unpacked, *)
(* and the decoder of a solid one is given all files from the first on.    *)
(***************************************************************************)
EXTENDS ArchiveWalk, TLAPS, NumberLemmas, SequenceTheorems

\* The cell at place i of volume x, and whether the walk has still to come there.
CellAt(x, i) == disk.vols[x].cells[i]
Places(x) == DOMAIN disk.vols[x].cells
Ahead(x, i) == v.name[2] < x[2] \/ (x = v.name /\ v.pos <= i)

AllCells == UNION {ToSet(disk.vols[x].cells) : x \in DOMAIN disk.vols}

WalkTypeOK ==
    /\ disk \in Disks
    /\ v = [name |-> v.name, num |-> v.num, old |-> v.old, open |-> v.open, pos |-> v.pos]
    /\ v.name \in DOMAIN disk.vols /\ v.pos \in Nat \ {0}
    /\ a = [enc |-> a.enc, multi |-> a.multi, solid |-> a.solid, old |-> a.old,
            left |-> a.left, sum |-> a.sum]
    /\ got \in Seq(AllCells)
    /\ DOMAIN result = Names
    /\ ctx \in {"find", "drain", "skip", "copy"}
    /\ pc \in {"drain", "skip", "copy"} => ctx = pc

\* A file whose first block lies ahead is neither the current one nor has a result.
FirstInv ==
    \A x \in DOMAIN disk.vols : \A i \in Places(x) :
        LET c == CellAt(x, i)
        IN  Ahead(x, i) /\ Begins(c) =>
                (c.name \in Names => c.name # cur /\ result[c.name] = "none")

\* While a file is copied what it got lies behind, what is to come of it ahead,
\* and the rest of the block that is read is its own.
Copying == ctx = "copy" /\ pc \in {"copy", "header", "open", "openAtEOF"}

CopyInv ==
    Copying =>
      /\ h.name = cur
      /\ cur \in Names => result[cur] # "ok"
      /\ \A x \in DOMAIN disk.vols : \A i \in Places(x) :
            Ahead(x, i) /\ IsUnit(CellAt(x, i)) /\ CellAt(x, i).name = cur =>
                \A k \in DOMAIN got : got[k].k < CellAt(x, i).k

RestInv ==
    pc = "copy" =>
      /\ a.left \in Nat
      /\ \A j \in 0..a.left - 1 : v.pos + j \in DOMAIN Cells =>
            IsUnit(Cells[v.pos + j]) /\ Cells[v.pos + j].name = cur

WalkInv == WalkTypeOK /\ FirstInv /\ CopyInv /\ RestInv /\ OwnData

-----------------------------------------------------------------------------
(* What the archive gives *)

LEMMA VolumeFacts ==
    ASSUME disk \in Disks, NEW x \in DOMAIN disk.vols
    PROVE  /\ x[2] \in Nat
           /\ Len(disk.vols[x].cells) \in Nat
           /\ Places(x) = 1..Len(disk.vols[x].cells)
           /\ \A i \in Places(x) : CellAt(x, i) \in AllCells
<1>1. /\ DOMAIN disk.vols \subseteq STRING \X Nat
      /\ disk.vols[x].cells \in Seq(ToSet(disk.vols[x].cells))
  BY ArchiveAssumption
<1>2. x[2] \in Nat
  BY <1>1
<1>3. Len(disk.vols[x].cells) \in Nat /\ Places(x) = 1..Len(disk.vols[x].cells)
  BY <1>1 DEF Places
<1>4. ASSUME NEW i \in Places(x) PROVE CellAt(x, i) \in AllCells
  <2>1. CellAt(x, i) \in ToSet(disk.vols[x].cells)
    BY DEF ToSet, CellAt, Places
  <2> QED
    BY <2>1 DEF AllCells
<1> QED
  BY <1>2, <1>3, <1>4

\* The units behind the header of a file's block are that file's.
LEMMA BlockBehind ==
    ASSUME disk \in Disks, NEW x \in DOMAIN disk.vols, NEW i \in Places(x),
           CellAt(x, i).t = "file"
    PROVE  /\ CellAt(x, i).n \in Nat
           /\ \A j \in 1..CellAt(x, i).n : i + j \in Places(x) =>
                 IsUnit(CellAt(x, i + j)) /\ CellAt(x, i + j).name = CellAt(x, i).name
  BY ArchiveAssumption DEF CellAt, Places, Behind

LEMMA CellsInOrder ==
    ASSUME disk \in Disks, NEW x \in DOMAIN disk.vols, NEW y \in DOMAIN disk.vols,
           NEW i \in Places(x), NEW j \in Places(y), Earlier(x, i, y, j)
    PROVE  InOrder(CellAt(x, i), CellAt(y, j))
  BY ArchiveAssumption DEF CellAt, Places

\* The cell that is read, and that what lies behind it comes later.
LEMMA CellRead ==
    ASSUME WalkTypeOK, ~AtEnd
    PROVE  /\ v.pos \in Places(v.name) /\ Cell = CellAt(v.name, v.pos)
           /\ Ahead(v.name, v.pos)
           /\ Cell \in AllCells
<1>1. v.name \in DOMAIN disk.vols /\ v.pos \in Nat \ {0} /\ disk \in Disks
  BY DEF WalkTypeOK
<1>2. Len(Cells) \in Nat /\ Places(v.name) = 1..Len(Cells)
  BY <1>1, VolumeFacts DEF Cells
<1>3. v.pos \in Places(v.name) /\ Cell = CellAt(v.name, v.pos)
  BY <1>1, <1>2 DEF AtEnd, Cell, Cells, CellAt
<1> QED
  BY <1>1, <1>3, VolumeFacts DEF Ahead

-----------------------------------------------------------------------------
(* The walk goes on *)

\* Nothing that was passed lies ahead again.
Onward == /\ disk' = disk
          /\ v'.name \in DOMAIN disk.vols /\ v'.pos \in Nat \ {0}
          /\ \A x \in DOMAIN disk.vols : \A i \in Places(x) : Ahead(x, i)' => Ahead(x, i)

LEMMA FurtherIn ==
    ASSUME WalkTypeOK, NEW n \in Nat, v' = Past(n)
    PROVE  /\ v' = [name |-> v.name, num |-> v.num, old |-> v.old, open |-> v.open,
                    pos |-> v.pos + n]
           /\ v'.pos \in Nat \ {0}
<1>1. /\ v = [name |-> v.name, num |-> v.num, old |-> v.old, open |-> v.open, pos |-> v.pos]
      /\ v.pos \in Nat \ {0}
  BY DEF WalkTypeOK
<1>2. v' = [v EXCEPT !.pos = v.pos + n]
  BY DEF Past
<1> QED
  BY <1>1, <1>2

LEMMA FurtherOn ==
    ASSUME WalkTypeOK, NEW n \in Nat, v' = Past(n), disk' = disk
    PROVE  Onward
<1>1. v'.name = v.name /\ v'.pos = v.pos + n /\ v'.pos \in Nat \ {0}
  BY FurtherIn
<1>2. v.name \in DOMAIN disk.vols /\ v.pos \in Nat /\ disk \in Disks
  BY DEF WalkTypeOK
<1>3. ASSUME NEW x \in DOMAIN disk.vols, NEW i \in Places(x), Ahead(x, i)' PROVE Ahead(x, i)
  <2>1. i \in Nat
    BY <1>2, VolumeFacts
  <2> QED
    BY <1>1, <1>2, <1>3, <2>1 DEF Ahead
<1> QED
  BY <1>1, <1>2, <1>3 DEF Onward

LEMMA StaysPut ==
    ASSUME WalkTypeOK, disk' = disk, v'.name = v.name, v'.pos = v.pos
    PROVE  Onward
  BY DEF Onward, Ahead, WalkTypeOK

\* The next volume has the next number.
LEMMA NextVolume ==
    ASSUME WalkTypeOK, OpenNextVolume
    PROVE  /\ Onward
           /\ v' = [name |-> v'.name, num |-> v'.num, old |-> v'.old, open |-> v'.open,
                    pos |-> v'.pos]
<1> DEFINE name == NameOf(NextScheme)
<1>1. disk \in Disks /\ v.name \in DOMAIN disk.vols
  BY DEF WalkTypeOK
<1>2. name \in DOMAIN disk.vols /\ name[2] = v.name[2] + 1
  BY DEF OpenNextVolume, Exists, NameOf
<1>3. v.name[2] \in Nat /\ name[2] \in Nat /\ Len(disk.vols[name].cells) \in Nat
  BY <1>1, <1>2, VolumeFacts
<1>4. v' = [name |-> name, num |-> v.num + 1, old |-> NextScheme = "old", open |-> TRUE,
            pos |-> IF disk.vols[name].sig = 0 THEN Len(disk.vols[name].cells) + 1 ELSE 1]
  BY DEF OpenNextVolume
<1>5. disk' = disk
  BY DEF OpenNextVolume, Fails
<1> HIDE DEF name
<1>6. v'.name = name /\ v'.pos \in Nat \ {0}
  BY <1>3, <1>4
<1>7. ASSUME NEW x \in DOMAIN disk.vols, NEW i \in Places(x), Ahead(x, i)' PROVE Ahead(x, i)
  <2>1. x[2] \in Nat
    BY <1>1, VolumeFacts
  <2>2. v'.name[2] < x[2] \/ x = v'.name
    BY <1>7 DEF Ahead
  <2> QED
    BY <1>2, <1>3, <1>6, <2>1, <2>2 DEF Ahead
<1> QED
  BY <1>2, <1>4, <1>5, <1>6, <1>7 DEF Onward

\* The data of a service block has a size.
LEMMA ServiceSize ==
    ASSUME WalkTypeOK, AtHeader("service")
    PROVE  Cell.n \in Nat
<1>1. v.pos \in Places(v.name) /\ Cell = CellAt(v.name, v.pos) /\ Cell.t = "service"
  BY CellRead DEF AtHeader
<1> QED
  BY <1>1, ArchiveAssumption DEF WalkTypeOK, CellAt, Places

\* Every step goes onward, and keeps the types.
LEMMA WalkTypes ==
    ASSUME WalkTypeOK, [Next]_vars
    PROVE  WalkTypeOK' /\ Onward
<1> DEFINE vRec == v' = [name |-> v'.name, num |-> v'.num, old |-> v'.old, open |-> v'.open,
                         pos |-> v'.pos]
           aRec == a' = [enc |-> a'.enc, multi |-> a'.multi, solid |-> a'.solid,
                         old |-> a'.old, left |-> a'.left, sum |-> a'.sum]
           fits == /\ ctx' \in {"find", "drain", "skip", "copy"}
                   /\ pc' \in {"drain", "skip", "copy"} => ctx' = pc'
                   /\ DOMAIN result' = Names
<1>1. /\ disk \in Disks /\ v.name \in DOMAIN disk.vols /\ v.pos \in Nat \ {0}
      /\ v = [name |-> v.name, num |-> v.num, old |-> v.old, open |-> v.open, pos |-> v.pos]
      /\ a = [enc |-> a.enc, multi |-> a.multi, solid |-> a.solid, old |-> a.old,
              left |-> a.left, sum |-> a.sum]
      /\ got \in Seq(AllCells) /\ DOMAIN result = Names
      /\ ctx \in {"find", "drain", "skip", "copy"}
      /\ pc \in {"drain", "skip", "copy"} => ctx = pc
  BY DEF WalkTypeOK
<1>2. ASSUME NEW e, Fails(e) PROVE fits /\ disk' = disk /\ got' = got
  <2>1. pc' \in {"done", "next"} /\ ctx' = ctx /\ disk' = disk /\ got' = got
    BY <1>2 DEF Fails
  <2>2. DOMAIN result' = Names
    BY <1>1, <1>2 DEF Fails
  <2> QED
    BY <1>1, <2>1, <2>2
<1>3. ASSUME NEW n \in Nat, v' = Past(n), disk' = disk PROVE vRec /\ Onward
  BY <1>3, FurtherIn, FurtherOn
<1>4. ASSUME v' = v, disk' = disk PROVE vRec /\ Onward
  <2>1. vRec
    BY <1>1, <1>4
  <2> QED
    BY <1>1, <1>4, <2>1, StaysPut
<1>5. ASSUME a' = a PROVE aRec
  BY <1>1, <1>5
<1>6. ASSUME NEW l, a' = [a EXCEPT !.left = l] PROVE aRec
  <2>1. a' = [enc |-> a.enc, multi |-> a.multi, solid |-> a.solid, old |-> a.old,
              left |-> l, sum |-> a.sum]
    BY <1>1, <1>6
  <2> QED
    BY <2>1
<1>7. ASSUME Onward, vRec, aRec, fits, got' \in Seq(AllCells) PROVE WalkTypeOK'
  <2>1. disk' = disk /\ v'.name \in DOMAIN disk.vols /\ v'.pos \in Nat \ {0}
    BY <1>7 DEF Onward
  <2>2. Names' = Names /\ AllCells' = AllCells
    BY <2>1 DEF Names, AllCells
  <2> HIDE DEF vRec, aRec, fits
  <2>3. disk' \in Disks /\ v'.name \in DOMAIN disk'.vols /\ v'.pos \in Nat \ {0}
    BY <1>1, <2>1
  <2>4. got' \in Seq(AllCells') /\ DOMAIN result' = Names'
    BY <1>7, <2>2 DEF fits
  <2> QED
    BY <1>7, <2>3, <2>4 DEF WalkTypeOK, vRec, aRec, fits
<1> HIDE DEF vRec, aRec
<1>8. CASE CallNext \/ BlockEnds \/ FileEnds
  <2>1. UNCHANGED <<disk, v, a, got>>
    BY <1>8 DEF CallNext, BlockEnds, FileEnds, arch
  <2>2. fits
    BY <1>1, <1>8 DEF CallNext, BlockEnds, FileEnds
  <2> QED
    BY <1>1, <1>4, <1>5, <1>7, <2>1, <2>2
<1>9. CASE ReadUnit
  <2>1. v' = Past(1) /\ disk' = disk /\ a' = [a EXCEPT !.left = a.left - 1]
    BY <1>9 DEF ReadUnit, Past
  <2>2. fits
    BY <1>1, <1>9 DEF ReadUnit
  <2>3. got' \in Seq(AllCells)
    <3>1. Cell \in AllCells
      BY <1>9, CellRead DEF ReadUnit
    <3> QED
      BY <1>1, <1>9, <3>1 DEF ReadUnit
  <2> QED
    BY <1>3, <1>6, <1>7, <2>1, <2>2, <2>3
<1>10. CASE ReadShort \/ WriteFails \/ HeaderOfClosed
  <2>1. UNCHANGED <<v, a>> /\ \E e : Fails(e)
    BY <1>10 DEF ReadShort, WriteFails, HeaderOfClosed, arch
  <2> QED
    BY <1>1, <1>2, <1>4, <1>5, <1>7, <2>1
<1>11. CASE PackedEnds
  <2>1. UNCHANGED <<v, a>>
    BY <1>11 DEF PackedEnds, arch
  <2>2. fits /\ disk' = disk /\ got' = got
    <3>1. CASE pc = "copy"
      BY <1>2, <1>11, <3>1 DEF PackedEnds
    <3>2. CASE pc # "copy"
      BY <1>1, <1>11, <3>2 DEF PackedEnds
    <3> QED
      BY <3>1, <3>2
  <2> QED
    BY <1>1, <1>4, <1>5, <1>7, <2>1, <2>2
<1>12. CASE HeaderAtEnd
  <2>1. UNCHANGED <<v, a>>
    BY <1>12 DEF HeaderAtEnd, arch
  <2>2. fits /\ disk' = disk /\ got' = got
    <3>1. CASE disk.fmt = 15
      BY <1>1, <1>12, <3>1 DEF HeaderAtEnd
    <3>2. CASE disk.fmt # 15
      BY <1>2, <1>12, <3>2 DEF HeaderAtEnd
    <3> QED
      BY <3>1, <3>2
  <2> QED
    BY <1>1, <1>4, <1>5, <1>7, <2>1, <2>2
<1>13. CASE HeaderGarbled
  <2>1. PICK n \in 1..Len(Cells) + 1 - v.pos : v' = Past(n)
    BY <1>13 DEF HeaderGarbled
  <2>2. n \in Nat
    <3>1. Len(Cells) \in Nat
      BY <1>1, VolumeFacts DEF Cells
    <3> QED
      BY <1>1, <3>1
  <2>3. fits /\ disk' = disk /\ got' = got /\ a' = a
    BY <1>2, <1>13 DEF HeaderGarbled
  <2> QED
    BY <1>1, <1>3, <1>5, <1>7, <2>1, <2>2, <2>3
<1>14. CASE HeaderRefused
  <2>1. v' = Past(1) /\ a' = [a EXCEPT !.left = Cell.n] /\ fits /\ disk' = disk /\ got' = got
    BY <1>2, <1>14 DEF HeaderRefused
  <2> QED
    BY <1>1, <1>3, <1>6, <1>7, <2>1
<1>15. CASE ArchiveHeader
  <2>1. v' = Past(1) /\ fits /\ disk' = disk /\ got' = got
    BY <1>1, <1>15 DEF ArchiveHeader
  <2>2. aRec
    <3> DEFINE enc == IF disk.fmt = 15 THEN Cell.crypt ELSE a.enc
    <3>1. a' = [a EXCEPT !.enc = enc, !.left = 0,
                         !.multi = Cell.multi, !.solid = Cell.solid, !.old = Cell.old]
      BY <1>15 DEF ArchiveHeader
    <3> HIDE DEF enc
    <3>2. a' = [enc |-> enc, multi |-> Cell.multi, solid |-> Cell.solid, old |-> Cell.old,
                left |-> 0, sum |-> a.sum]
      BY <1>1, <3>1
    <3> QED
      BY <3>2 DEF aRec
  <2> QED
    BY <1>1, <1>3, <1>7, <2>1, <2>2
<1>16. CASE EncryptionHeader
  <2>1. v' = Past(1) /\ fits /\ disk' = disk /\ got' = got
    BY <1>1, <1>16 DEF EncryptionHeader
  <2>2. aRec
    <3>1. \E enc : a' = [a EXCEPT !.enc = enc, !.left = 0]
      BY <1>16 DEF EncryptionHeader
    <3>2. PICK enc : a' = [a EXCEPT !.enc = enc, !.left = 0]
      BY <3>1
    <3>3. a' = [enc |-> enc, multi |-> a.multi, solid |-> a.solid, old |-> a.old,
                left |-> 0, sum |-> a.sum]
      BY <1>1, <3>2
    <3> QED
      BY <3>3 DEF aRec
  <2> QED
    BY <1>1, <1>3, <1>7, <2>1, <2>2
<1>17. CASE OtherHeader
  <2> DEFINE n == Len(Cells) - v.pos
  <2>1. AtHeader("service") /\ ~AtEnd
    BY <1>17 DEF OtherHeader, AtHeader
  <2>2. n \in Nat
    <3>1. Len(Cells) \in Nat
      BY <1>1, VolumeFacts DEF Cells
    <3> QED
      BY <1>1, <2>1, <3>1 DEF AtEnd
  <2>3. CASE n >= Cell.n
    <3>1. v' = Past(1 + Cell.n) /\ a' = [a EXCEPT !.left = 0] /\ fits /\ disk' = disk /\ got' = got
      BY <1>1, <1>17, <2>3 DEF OtherHeader
    <3>2. 1 + Cell.n \in Nat
      BY <2>1, ServiceSize
    <3> QED
      BY <1>1, <1>3, <1>6, <1>7, <3>1, <3>2
  <2>4. CASE ~(n >= Cell.n)
    <3>1. v' = Past(1 + n) /\ a' = [a EXCEPT !.left = Cell.n - n] /\ fits /\ disk' = disk /\ got' = got
      BY <1>2, <1>17, <2>4 DEF OtherHeader
    <3>2. 1 + n \in Nat
      BY <2>2
    <3> QED
      BY <1>1, <1>3, <1>6, <1>7, <3>1, <3>2
  <2> QED
    BY <2>3, <2>4
<1>18. CASE EndHeader
  <2>1. v' = Past(1) /\ a' = [a EXCEPT !.left = 0]
    BY <1>18 DEF EndHeader
  <2>2. fits /\ disk' = disk /\ got' = got
    <3>1. CASE Continues
      BY <1>1, <1>18, <3>1 DEF EndHeader
    <3>2. CASE ~Continues
      BY <1>2, <1>18, <3>2 DEF EndHeader
    <3> QED
      BY <3>1, <3>2
  <2> QED
    BY <1>1, <1>3, <1>6, <1>7, <2>1, <2>2
<1>19. CASE FileHeader
  <2>1. v' = Past(1) /\ a' = [a EXCEPT !.left = Cell.n, !.sum = Cell.sum]
    BY <1>19 DEF FileHeader
  <2>2. aRec
    <3>1. a' = [enc |-> a.enc, multi |-> a.multi, solid |-> a.solid, old |-> a.old,
                left |-> Cell.n, sum |-> Cell.sum]
      BY <1>1, <2>1
    <3> QED
      BY <3>1 DEF aRec
  <2>3. fits /\ disk' = disk /\ (got' = got \/ got' = <<>>)
    <3>1. CASE ctx = "find" /\ Cell.first
      BY <1>1, <1>19, <3>1 DEF FileHeader
    <3>2. CASE ctx = "find" /\ ~Cell.first
      BY <1>1, <1>19, <3>2 DEF FileHeader
    <3>3. CASE ctx # "find" /\ SameFile
      BY <1>1, <1>19, <3>3 DEF FileHeader
    <3>4. CASE ctx # "find" /\ ~SameFile
      BY <1>2, <1>19, <3>4 DEF FileHeader
    <3> QED
      BY <3>1, <3>2, <3>3, <3>4
  <2>4. got' \in Seq(AllCells)
    <3>1. <<>> \in Seq(AllCells) /\ got \in Seq(AllCells)
      BY <1>1
    <3>2. got' = got \/ got' = <<>>
      BY <2>3
    <3> QED
      BY <3>1, <3>2
  <2> QED
    BY <1>3, <1>7, <2>1, <2>2, <2>3, <2>4
<1>20. CASE NextVolumeMissing
  <2>1. v' = [v EXCEPT !.open = FALSE, !.old = Old] /\ a' = a /\ fits /\ disk' = disk /\ got' = got
    BY <1>2, <1>20 DEF NextVolumeMissing
  <2>2. v' = [name |-> v.name, num |-> v.num, old |-> Old, open |-> FALSE, pos |-> v.pos]
    BY <1>1, <2>1
  <2>3. vRec /\ v'.name = v.name /\ v'.pos = v.pos
    BY <2>2 DEF vRec
  <2> QED
    BY <1>1, <1>5, <1>7, <2>1, <2>3, StaysPut
<1>21. CASE OpenNextVolume
  <2>1. Onward /\ vRec
    BY <1>21, NextVolume DEF vRec
  <2>2. fits /\ disk' = disk /\ got' = got /\ (a' = a \/ a' = Renewed)
    <3>1. ASSUME NEW e, Fails(e) PROVE fits /\ disk' = disk /\ got' = got
      BY <1>2, <3>1
    <3> QED
      BY <1>1, <1>21, <3>1 DEF OpenNextVolume
  <2>3. aRec
    <3>1. CASE a' = a
      BY <1>5, <3>1
    <3>2. CASE a' = Renewed
      <4>1. a' = [enc |-> FALSE, multi |-> a.multi, solid |-> a.solid, old |-> a.old,
                  left |-> a.left, sum |-> a.sum]
        BY <1>1, <3>2 DEF Renewed
      <4> QED
        BY <4>1 DEF aRec
    <3> QED
      BY <2>2, <3>1, <3>2
  <2> QED
    BY <1>1, <1>7, <2>1, <2>2, <2>3
<1>22. CASE Done \/ UNCHANGED vars
  <2>1. UNCHANGED <<disk, v, a, got, result, pc, ctx>>
    BY <1>22 DEF Done, vars, arch
  <2>2. fits
    BY <1>1, <2>1
  <2> QED
    BY <1>1, <1>4, <1>5, <1>7, <2>1, <2>2
<1> QED
  BY <1>8, <1>9, <1>10, <1>11, <1>12, <1>13, <1>14, <1>15, <1>16, <1>17, <1>18, <1>19,
     <1>20, <1>21, <1>22 DEF Next

-----------------------------------------------------------------------------
(* The invariant *)

\* A step that reads nothing for a file, and at worst marks the current one as
\* failed.
LEMMA QuietStep ==
    ASSUME WalkInv, WalkTypeOK', Onward, UNCHANGED <<cur, got>>,
           result' \in {result, [result EXCEPT ![cur] = "failed"]},
           Copying' => Copying /\ h' = h /\ result' = result, pc' # "copy"
    PROVE  WalkInv'
<1>1. /\ disk' = disk /\ disk \in Disks /\ DOMAIN result = Names /\ Names' = Names
      /\ \A x \in DOMAIN disk.vols : \A i \in Places(x) : Ahead(x, i)' => Ahead(x, i)
      /\ \A x \in DOMAIN disk.vols : Places(x)' = Places(x)
      /\ \A x, i : CellAt(x, i)' = CellAt(x, i)
  BY DEF WalkInv, WalkTypeOK, Onward, Names, Places, CellAt
<1>2. \A f \in Names : result'[f] = result[f] \/ (f = cur /\ result'[f] = "failed")
  BY <1>1
<1>3. FirstInv'
  BY <1>1, <1>2 DEF WalkInv, FirstInv
<1>4. CopyInv'
  <2>1. SUFFICES ASSUME Copying' PROVE CopyInv'
    BY DEF CopyInv
  <2> QED
    BY <1>1, <2>1 DEF WalkInv, CopyInv
<1>5. RestInv'
  BY DEF RestInv
<1>6. OwnData'
  <2>1. \A f : Units(f)' = Units(f)
    BY <1>1 DEF Units, Size
  <2> QED
    BY <1>1, <1>2, <2>1 DEF WalkInv, OwnData
<1> QED
  BY <1>3, <1>4, <1>5, <1>6 DEF WalkInv

\* An error ends the reading of a file.
LEMMA FailingStep ==
    ASSUME WalkInv, WalkTypeOK', Onward, NEW e, Fails(e)
    PROVE  WalkInv'
<1>1. /\ UNCHANGED <<cur, got>> /\ pc' \in {"next", "done"}
      /\ result' \in {result, [result EXCEPT ![cur] = "failed"]}
  BY DEF Fails
<1> QED
  BY <1>1, QuietStep DEF Copying

\* One more unit of the current block.
LEMMA ReadingStep ==
    ASSUME WalkInv, WalkTypeOK', Onward, ReadUnit
    PROVE  WalkInv'
<1>1. CASE pc # "copy"
  BY <1>1, QuietStep DEF ReadUnit, Reading, Copying, WalkInv, WalkTypeOK
<1>2. CASE pc = "copy"
  <2> DEFINE n == Len(got)
  <2>1. /\ ~AtEnd /\ pc' = "copy" /\ ctx = "copy" /\ ctx' = "copy" /\ h' = h /\ cur' = cur
        /\ result' = result /\ disk' = disk /\ got' = Append(got, Cell)
        /\ v' = Past(1) /\ a.left > 0 /\ a' = [a EXCEPT !.left = a.left - 1]
    BY <1>2 DEF ReadUnit, WalkInv, WalkTypeOK, Past
  <2>2. /\ disk \in Disks /\ DOMAIN result = Names /\ Names' = Names
        /\ v.name \in DOMAIN disk.vols /\ v.pos \in Nat \ {0}
        /\ \A x \in DOMAIN disk.vols : \A i \in Places(x) : Ahead(x, i)' => Ahead(x, i)
        /\ \A x \in DOMAIN disk.vols : Places(x)' = Places(x)
        /\ \A x, i : CellAt(x, i)' = CellAt(x, i)
        /\ got \in Seq(AllCells)
    BY <2>1 DEF WalkInv, WalkTypeOK, Onward, Names, Places, CellAt
  <2>3. v'.name = v.name /\ v'.pos = v.pos + 1
    BY <2>1, FurtherIn DEF WalkInv
  <2>4. /\ v.pos \in Places(v.name) /\ Cell = CellAt(v.name, v.pos)
        /\ Ahead(v.name, v.pos) /\ Cell \in AllCells
    BY <2>1, CellRead DEF WalkInv
  <2>5. /\ a.left \in Nat /\ a'.left = a.left - 1
        /\ \A j \in 0..a.left - 1 : v.pos + j \in Places(v.name) =>
              IsUnit(CellAt(v.name, v.pos + j)) /\ CellAt(v.name, v.pos + j).name = cur
    <3>1. a.left \in Nat
      BY <1>2 DEF WalkInv, RestInv
    <3>2. a'.left = a.left - 1
      BY <2>1 DEF WalkInv, WalkTypeOK
    <3> QED
      BY <1>2, <3>1, <3>2 DEF WalkInv, RestInv, Cells, CellAt, Places
  <2>6. IsUnit(Cell) /\ Cell.name = cur
    <3>1. 0 \in 0..a.left - 1 /\ v.pos + 0 = v.pos
      BY <2>1, <2>2, <2>5
    <3> QED
      BY <2>4, <2>5, <3>1
  <2>7. /\ h.name = cur
        /\ cur \in Names => result[cur] # "ok"
        /\ \A x \in DOMAIN disk.vols : \A i \in Places(x) :
              Ahead(x, i) /\ IsUnit(CellAt(x, i)) /\ CellAt(x, i).name = cur =>
                  \A k \in DOMAIN got : got[k].k < CellAt(x, i).k
    BY <1>2, <2>1 DEF WalkInv, CopyInv, Copying
  <2>8. /\ n \in Nat /\ DOMAIN got = 1..n /\ DOMAIN got' = 1..n + 1
        /\ \A k \in 1..n : got'[k] = got[k]
        /\ got'[n + 1] = Cell
    BY <2>1, <2>2, <2>4
  <2> HIDE DEF n
  <2>9. FirstInv'
    BY <2>1, <2>2 DEF WalkInv, FirstInv
  <2>10. CopyInv'
    <3>1. SUFFICES ASSUME NEW x \in DOMAIN disk.vols, NEW i \in Places(x), Ahead(x, i)',
                          IsUnit(CellAt(x, i)), CellAt(x, i).name = cur,
                          NEW k \in 1..n + 1
                   PROVE  got'[k].k < CellAt(x, i).k
      BY <2>1, <2>2, <2>7, <2>8 DEF CopyInv
    <3>2. CASE k \in 1..n
      BY <2>2, <2>7, <2>8, <3>1, <3>2
    <3>3. CASE k = n + 1
      <4>1. i \in Nat
        BY <2>2, VolumeFacts
      <4>2. Earlier(v.name, v.pos, x, i)
        BY <2>2, <2>3, <3>1, <4>1 DEF Ahead, Earlier
      <4>3. InOrder(Cell, CellAt(x, i))
        BY <2>2, <2>4, <4>2, CellsInOrder
      <4> QED
        BY <2>6, <2>8, <3>1, <3>3, <4>3 DEF InOrder
    <3> QED
      BY <2>8, <3>2, <3>3
  <2>11. RestInv'
    <3>1. SUFFICES ASSUME NEW j \in 0..a.left - 2, v.pos + 1 + j \in Places(v.name)
                   PROVE  /\ IsUnit(CellAt(v.name, v.pos + 1 + j))
                          /\ CellAt(v.name, v.pos + 1 + j).name = cur
      <4>1. a'.left \in Nat /\ a'.left - 1 = a.left - 2
        BY <2>1, <2>5
      <4>2. Cells' = Cells /\ cur' = cur /\ v'.pos = v.pos + 1
        BY <2>1, <2>3 DEF Cells
      <4>3. /\ DOMAIN Cells' = Places(v.name)
            /\ \A i : Cells'[i] = CellAt(v.name, i)
        BY <2>1, <2>3 DEF Cells, Places, CellAt
      <4>4. ASSUME NEW j \in 0..a'.left - 1, v'.pos + j \in DOMAIN Cells'
            PROVE  IsUnit(Cells'[v'.pos + j]) /\ Cells'[v'.pos + j].name = cur'
        <5>1. j \in 0..a.left - 2 /\ v'.pos + j = v.pos + 1 + j
          BY <4>1, <4>2, <4>4
        <5> QED
          BY <3>1, <4>2, <4>3, <4>4, <5>1
      <4> QED
        BY <4>1, <4>4 DEF RestInv
    <3>2. j + 1 \in 0..a.left - 1 /\ v.pos + 1 + j = v.pos + (j + 1)
      <4> DEFINE left == a.left
                 pos == v.pos
      <4>1. left \in Nat /\ pos \in Nat /\ j \in 0..left - 2
        BY <2>2, <2>5
      <4> HIDE DEF left, pos
      <4>2. j + 1 \in 0..left - 1 /\ pos + 1 + j = pos + (j + 1)
        BY <4>1
      <4> QED
        BY <4>2 DEF left, pos
    <3> QED
      BY <2>5, <3>1, <3>2
  <2>12. OwnData'
    <3>1. /\ \A k \in 1..n : IsUnit(got[k]) /\ got[k].name = cur
          /\ \A j, k \in 1..n : j < k => got[j].k < got[k].k
      BY <2>8 DEF WalkInv, OwnData
    <3>2. \A k \in 1..n + 1 : IsUnit(got'[k]) /\ got'[k].name = cur
      BY <2>6, <2>8, <3>1
    <3>3. \A j, k \in 1..n + 1 : j < k => got'[j].k < got'[k].k
      <4>1. \A j \in 1..n : got[j].k < Cell.k
        BY <2>2, <2>4, <2>6, <2>7, <2>8
      <4>2. ASSUME NEW j \in 1..n + 1, NEW k \in 1..n + 1, j < k PROVE got'[j].k < got'[k].k
        <5>1. j \in 1..n /\ (k \in 1..n \/ k = n + 1)
          BY <2>8, <4>2
        <5> QED
          BY <2>8, <3>1, <4>1, <4>2, <5>1
      <4> QED
        BY <4>2
    <3>4. \A f \in Names' : result'[f] = "ok" /\ cur' = f => FALSE
      BY <2>1, <2>2, <2>7
    <3> QED
      BY <2>1, <2>8, <3>2, <3>3, <3>4 DEF OwnData
  <2> QED
    BY <2>9, <2>10, <2>11, <2>12 DEF WalkInv
<1> QED
  BY <1>1, <1>2

\* The first block of a file, or another of the current one.
LEMMA FileStep ==
    ASSUME WalkInv, WalkTypeOK', Onward, FileHeader
    PROVE  WalkInv'
<1>1. /\ ~AtEnd /\ Cell.t = "file" /\ v' = Past(1) /\ pc = "header"
      /\ a' = [a EXCEPT !.left = Cell.n, !.sum = Cell.sum]
  BY DEF FileHeader, AtHeader
<1>2. /\ disk' = disk /\ disk \in Disks /\ DOMAIN result = Names /\ Names' = Names
      /\ v.name \in DOMAIN disk.vols /\ v.pos \in Nat \ {0}
      /\ \A x \in DOMAIN disk.vols : \A i \in Places(x) : Ahead(x, i)' => Ahead(x, i)
      /\ \A x \in DOMAIN disk.vols : Places(x)' = Places(x)
      /\ \A x, i : CellAt(x, i)' = CellAt(x, i)
      /\ ctx \in {"find", "drain", "skip", "copy"}
  BY DEF WalkInv, WalkTypeOK, Onward, Names, Places, CellAt
<1>3. v'.name = v.name /\ v'.pos = v.pos + 1
  BY <1>1, FurtherIn DEF WalkInv
<1>4. /\ v.pos \in Places(v.name) /\ Cell = CellAt(v.name, v.pos)
      /\ Ahead(v.name, v.pos)
  BY <1>1, CellRead DEF WalkInv
<1>5. a'.left = Cell.n
  BY <1>1 DEF WalkInv, WalkTypeOK
<1>6. ASSUME cur' = Cell.name PROVE RestInv'
  <2>1. /\ Cell.n \in Nat
        /\ \A j \in 1..Cell.n : v.pos + j \in Places(v.name) =>
              IsUnit(CellAt(v.name, v.pos + j)) /\ CellAt(v.name, v.pos + j).name = Cell.name
    BY <1>1, <1>2, <1>4, BlockBehind
  <2>2. ASSUME NEW j \in 0..Cell.n - 1, v.pos + 1 + j \in Places(v.name)
        PROVE  /\ IsUnit(CellAt(v.name, v.pos + 1 + j))
               /\ CellAt(v.name, v.pos + 1 + j).name = Cell.name
    <3>1. j + 1 \in 1..Cell.n /\ v.pos + 1 + j = v.pos + (j + 1)
      BY <1>2, <2>1
    <3> QED
      BY <2>1, <2>2, <3>1
  <2>3. Cells' = Cells
    BY <1>2, <1>3 DEF Cells
  <2> QED
    BY <1>3, <1>5, <1>6, <2>1, <2>2, <2>3 DEF RestInv, Cells, CellAt, Places
<1>7. CASE ctx = "find" /\ Cell.first
  <2>1. /\ h' = Cell /\ cur' = Cell.name /\ got' = <<>>
        /\ \/ pc' = "next" /\ result' = [result EXCEPT ![Cell.name] = "skipped"]
           \/ pc' = "copy" /\ result' = result
    BY <1>7 DEF FileHeader
  <2>2. Cell.name \in Names => result[Cell.name] = "none"
    BY <1>1, <1>2, <1>4, <1>7 DEF WalkInv, FirstInv, Begins
  <2>3. FirstInv'
    <3>1. SUFFICES ASSUME NEW x \in DOMAIN disk.vols, NEW i \in Places(x), Ahead(x, i)',
                          Begins(CellAt(x, i))
                   PROVE  /\ CellAt(x, i).name # Cell.name
                          /\ CellAt(x, i).name \in Names => result'[CellAt(x, i).name] = "none"
      BY <1>2, <2>1 DEF FirstInv
    <3>2. i \in Nat
      BY <1>2, VolumeFacts
    <3>3. Earlier(v.name, v.pos, x, i)
      BY <1>2, <1>3, <3>1, <3>2 DEF Ahead, Earlier
    <3>4. InOrder(Cell, CellAt(x, i))
      BY <1>2, <1>4, <3>3, CellsInOrder
    <3>5. CellAt(x, i).name # Cell.name
      BY <1>1, <1>7, <3>1, <3>4 DEF InOrder, Begins
    <3>6. CellAt(x, i).name \in Names => result[CellAt(x, i).name] = "none"
      BY <1>2, <3>1 DEF WalkInv, FirstInv
    <3> QED
      BY <1>2, <2>1, <3>5, <3>6
  <2>4. CopyInv'
    BY <1>2, <2>1, <2>2 DEF CopyInv, Copying
  <2>5. OwnData'
    BY <1>2, <2>1, <2>2 DEF OwnData
  <2> QED
    BY <1>6, <2>1, <2>3, <2>4, <2>5 DEF WalkInv
<1>8. CASE ctx = "find" /\ ~Cell.first
  <2>1. UNCHANGED <<cur, got, result>> /\ pc' = "next"
    BY <1>8 DEF FileHeader
  <2> QED
    BY <2>1, QuietStep DEF Copying
<1>9. CASE ctx # "find" /\ SameFile
  <2>1. UNCHANGED <<cur, got, result, ctx>> /\ h' = Cell /\ pc' = ctx /\ Cell.name = h.name
    BY <1>9 DEF FileHeader, SameFile
  <2>2. CASE ctx # "copy"
    BY <2>1, <2>2, QuietStep DEF Copying
  <2>3. CASE ctx = "copy"
    <3>1. /\ h.name = cur
          /\ cur \in Names => result[cur] # "ok"
          /\ \A x \in DOMAIN disk.vols : \A i \in Places(x) :
                Ahead(x, i) /\ IsUnit(CellAt(x, i)) /\ CellAt(x, i).name = cur =>
                    \A k \in DOMAIN got : got[k].k < CellAt(x, i).k
      BY <1>1, <2>3 DEF WalkInv, CopyInv, Copying
    <3>2. FirstInv'
      BY <1>2, <2>1 DEF WalkInv, FirstInv
    <3>3. CopyInv'
      BY <1>2, <2>1, <3>1 DEF CopyInv
    <3>4. OwnData'
      <4>1. \A f : Units(f)' = Units(f)
        BY <1>2 DEF Units, Size
      <4> QED
        BY <1>2, <2>1, <4>1 DEF WalkInv, OwnData
    <3> QED
      BY <1>6, <2>1, <3>1, <3>2, <3>3, <3>4 DEF WalkInv
  <2> QED
    BY <2>2, <2>3
<1>10. CASE ctx # "find" /\ ~SameFile
  <2>1. Fails("errInvalidFileBlock")
    BY <1>10 DEF FileHeader
  <2> QED
    BY <2>1, FailingStep
<1> QED
  BY <1>7, <1>8, <1>9, <1>10

\* All that was asked for is there: the checksum decides.
LEMMA EndStep ==
    ASSUME WalkInv, WalkTypeOK', Onward, FileEnds
    PROVE  WalkInv'
<1>1. /\ UNCHANGED <<disk, cur, got>> /\ pc' = "next"
      /\ result' = [result EXCEPT ![cur] = IF Valid THEN "ok" ELSE "failed"]
  BY DEF FileEnds
<1>2. /\ DOMAIN result = Names /\ Names' = Names
      /\ \A x \in DOMAIN disk.vols : \A i \in Places(x) : Ahead(x, i)' => Ahead(x, i)
      /\ \A x \in DOMAIN disk.vols : Places(x)' = Places(x)
      /\ \A x, i : CellAt(x, i)' = CellAt(x, i)
      /\ \A f : Units(f)' = Units(f)
  BY <1>1 DEF WalkInv, WalkTypeOK, Onward, Names, Places, CellAt, Units, Size
<1>3. FirstInv'
  BY <1>1, <1>2 DEF WalkInv, FirstInv
<1>4. CopyInv' /\ RestInv'
  BY <1>1 DEF CopyInv, RestInv, Copying
<1>5. OwnData'
  <2>1. \A f \in Names : result'[f] = "ok" /\ cur = f => got = Units(f)
    BY <1>1, <1>2 DEF Valid
  <2> QED
    BY <1>1, <1>2, <2>1 DEF WalkInv, OwnData
<1> QED
  BY <1>3, <1>4, <1>5 DEF WalkInv

\* The other steps change neither the file nor what it got.
LEMMA HeaderStep ==
    ASSUME WalkInv, WalkTypeOK', Onward,
           \/ CallNext \/ BlockEnds \/ PackedEnds \/ HeaderAtEnd \/ ArchiveHeader
           \/ EncryptionHeader \/ OtherHeader \/ EndHeader \/ OpenNextVolume
    PROVE  WalkInv'
<1> DEFINE quiet == /\ UNCHANGED <<h, cur, got, result>> /\ pc' # "copy"
                    /\ Copying' => Copying
<1>1. ASSUME quiet PROVE WalkInv'
  BY <1>1, QuietStep
<1>2. ASSUME NEW e, Fails(e) PROVE WalkInv'
  BY <1>2, FailingStep
<1>3. ctx \in {"find", "drain", "skip", "copy"} /\ (pc \in {"drain", "skip", "copy"} => ctx = pc)
  BY DEF WalkInv, WalkTypeOK
<1>4. CASE CallNext
  <2>1. quiet
    BY <1>4 DEF CallNext, Copying
  <2> QED
    BY <1>1, <2>1
<1>5. CASE BlockEnds
  <2>1. quiet
    BY <1>3, <1>5 DEF BlockEnds, Reading, Copying
  <2> QED
    BY <1>1, <2>1
<1>6. CASE PackedEnds
  <2>1. CASE pc = "copy"
    BY <1>2, <1>6, <2>1 DEF PackedEnds
  <2>2. CASE pc # "copy"
    <3>1. quiet
      BY <1>3, <1>6, <2>2 DEF PackedEnds, Reading, Copying
    <3> QED
      BY <1>1, <3>1
  <2> QED
    BY <2>1, <2>2
<1>7. CASE HeaderAtEnd
  <2>1. CASE disk.fmt = 15
    <3>1. quiet
      BY <1>7, <2>1 DEF HeaderAtEnd, Copying
    <3> QED
      BY <1>1, <3>1
  <2>2. CASE disk.fmt # 15
    BY <1>2, <1>7, <2>2 DEF HeaderAtEnd
  <2> QED
    BY <2>1, <2>2
<1>8. CASE ArchiveHeader \/ EncryptionHeader
  <2>1. quiet
    BY <1>8 DEF ArchiveHeader, EncryptionHeader, AtHeader, Copying
  <2> QED
    BY <1>1, <2>1
<1>9. CASE OtherHeader
  <2>1. CASE Len(Cells) - v.pos >= Cell.n
    <3>1. quiet
      BY <1>9, <2>1 DEF OtherHeader, AtHeader, Copying
    <3> QED
      BY <1>1, <3>1
  <2>2. CASE ~(Len(Cells) - v.pos >= Cell.n)
    BY <1>2, <1>9, <2>2 DEF OtherHeader
  <2> QED
    BY <2>1, <2>2
<1>10. CASE EndHeader
  <2>1. CASE Continues
    <3>1. quiet
      BY <1>10, <2>1 DEF EndHeader, AtHeader, Copying
    <3> QED
      BY <1>1, <3>1
  <2>2. CASE ~Continues
    BY <1>2, <1>10, <2>2 DEF EndHeader
  <2> QED
    BY <2>1, <2>2
<1>11. CASE OpenNextVolume
  <2>1. CASE disk.vols[NameOf(NextScheme)].sig = disk.fmt
    <3>1. quiet
      BY <1>11, <2>1 DEF OpenNextVolume, Copying
    <3> QED
      BY <1>1, <3>1
  <2>2. CASE disk.vols[NameOf(NextScheme)].sig # disk.fmt
    <3>1. \E e : Fails(e)
      BY <1>11, <2>2 DEF OpenNextVolume
    <3> QED
      BY <1>2, <3>1
  <2> QED
    BY <2>1, <2>2
<1> QED
  BY <1>4, <1>5, <1>6, <1>7, <1>8, <1>9, <1>10, <1>11

LEMMA WalkInit == Init => WalkInv
<1> SUFFICES ASSUME Init PROVE WalkInv
  OBVIOUS
<1>1. disk \in Disks /\ First \in DOMAIN disk.vols /\ got = <<>> /\ pc = "next" /\ ctx = "find"
      /\ cur = "none" /\ cur \notin Names /\ result = [f \in Names |-> "none"]
  BY ArchiveAssumption DEF Init, Names
<1>2. WalkTypeOK
  BY <1>1 DEF Init, WalkTypeOK
<1>3. FirstInv
  BY <1>1 DEF FirstInv
<1>4. CopyInv /\ RestInv /\ OwnData
  BY <1>1 DEF CopyInv, RestInv, OwnData, Copying
<1> QED
  BY <1>2, <1>3, <1>4 DEF WalkInv

LEMMA WalkStep == WalkInv /\ [Next]_vars => WalkInv'
<1> SUFFICES ASSUME WalkInv, [Next]_vars PROVE WalkInv'
  OBVIOUS
<1>1. WalkTypeOK' /\ Onward
  BY WalkTypes DEF WalkInv
<1>2. CASE ReadUnit
  BY <1>1, <1>2, ReadingStep
<1>3. CASE FileHeader
  BY <1>1, <1>3, FileStep
<1>4. CASE FileEnds
  BY <1>1, <1>4, EndStep
<1>5. CASE \/ CallNext \/ BlockEnds \/ PackedEnds \/ HeaderAtEnd \/ ArchiveHeader
           \/ EncryptionHeader \/ OtherHeader \/ EndHeader \/ OpenNextVolume
  BY <1>1, <1>5, HeaderStep
<1>6. CASE \/ ReadShort \/ WriteFails \/ HeaderOfClosed \/ HeaderGarbled \/ HeaderRefused
           \/ NextVolumeMissing
  <2>1. \E e : Fails(e)
    BY <1>6 DEF ReadShort, WriteFails, HeaderOfClosed, HeaderGarbled, HeaderRefused,
                NextVolumeMissing
  <2> QED
    BY <1>1, <2>1, FailingStep
<1>7. CASE Done \/ UNCHANGED vars
  <2>1. UNCHANGED vars
    BY <1>7 DEF Done
  <2> QED
    BY <2>1 DEF vars, arch, WalkInv, WalkTypeOK, FirstInv, CopyInv, RestInv, OwnData, Copying,
                CellAt, Places, Ahead, AllCells, Cells, Names, Units, Size
<1> QED
  BY <1>2, <1>3, <1>4, <1>5, <1>6, <1>7 DEF Next

\* For any archive and damage, what was read for a file lies behind the walk,
\* and what may still come for it ahead.
THEOREM WalkInvariance == Spec => []WalkInv
  BY WalkInit, WalkStep, PTL DEF Spec

\* A file never gets data of another file or a unit twice or out of order, and
\* is kept only whole.
THEOREM OwnDataOnly == Spec => []OwnData
<1>1. WalkInv => OwnData
  BY DEF WalkInv
<1> QED
  BY <1>1, WalkInvariance, PTL

-----------------------------------------------------------------------------
(* Intact archives.  The walk is at a header or in the data of one, and      *)
(* reads as encrypted what is; the naming scheme is that of the volumes.     *)
Seeking == pc \in {"header", "open", "openAtEOF"}

VolumeInv ==
    /\ v.open /\ v.num = v.name[2] - 1
    /\ v.old = (v.num # 0 /\ v.name[1] = "old")
    /\ a.left \in Nat /\ (Seeking => a.left = 0)
    /\ v.pos + a.left \in Stops(Cells)
    /\ disk.fmt = 50 /\ pc # "open" => v.pos + a.left # Len(Cells) + 1
    /\ pc \in {"open", "openAtEOF"} => AtEnd
    /\ pc = "open" => \E y \in DOMAIN disk.vols : v.name[2] < y[2]
    /\ a.enc = Encrypted(disk, v.name, v.pos + a.left)

\* The flags of the archive are known, or its header lies ahead.
ArcInv ==
    \/ \E c \in Arcs(disk) : a.multi = c.multi /\ a.solid = c.solid /\ a.old = c.old
    \/ /\ ~a.multi /\ ~a.solid /\ ~a.old
       /\ \A j \in Places(v.name) : j < v.pos => CellAt(v.name, j).t # "arc"

\* No block of a file was read yet.
Outset ==
    /\ h = None /\ ~solidr /\ cur = "none" /\ got = <<>>
    /\ ctx = "find" /\ (pc = "next" \/ Seeking) /\ a.left = 0
    /\ \A q \in Blocks(disk) : Ahead(q[1], q[2])

\* The units of the current file that the walk has passed when p is the block.
Passed(p) == Upto(disk, p) - a.left

\* The block p is the last that was read, and what was read of its file was
\* given to the decoder and the copy.
Current(p) ==
    /\ h = Header(disk, p) /\ cur = h.name /\ a.sum = h.sum
    /\ ~Ahead(p[1], p[2])
    /\ \A q \in Blocks(disk) : Precedes(p, q) => Ahead(q[1], q[2])
    /\ a.left # 0 => p[1] = v.name /\ v.pos + a.left = p[2] + 1 + h.n /\ a.left <= h.n
    /\ Len(got) <= Size(cur) /\ got = SubSeq(Units(cur), 1, Len(got))
    /\ ctx = "copy" /\ pc # "next" => Len(got) = Passed(p)
    /\ \A c \in Arcs(disk) : solidr = (disk.packed /\ c.solid)
    /\ solidr => fed = Before(cur) \o SubSeq(Units(cur), 1, Passed(p))

\* Where the program is: only the last block of a file is left for another file.
ReasonInv ==
    /\ solidr /\ ctx = "skip" => pc = "skip" /\ a.left = 0 /\ h.last
    /\ Seeking /\ h # None => (ctx = "find" <=> h.last)
    /\ ctx = "find" /\ h # None => Seeking
    /\ pc = "next" /\ h # None => ctx = "copy"

\* Every file before the current one was unpacked or was there already.
ResultInv ==
    /\ \A f \in Names : result[f] # "failed"
    /\ pc = "done" => \A f \in Names : result[f] # "none"
    /\ pc # "done" /\ h # None =>
          /\ ~(ctx = "copy" /\ pc # "next") => result[cur] # "none"
          /\ \A f, g \in DOMAIN disk.files :
                cur = disk.files[f].name /\ g < f => result[disk.files[g].name] # "none"

PlaceInv == \/ Outset
            \/ \E p \in Blocks(disk) : Current(p)

IntactInv ==
    Intact => ResultInv /\ (pc # "done" => VolumeInv /\ ArcInv /\ ReasonInv /\ PlaceInv)
-----------------------------------------------------------------------------
(* Format 50.  Behind a block of the file the walk is in its volume, or in a *)
(* later one before any wall, and those between have none.                   *)
Beyond(p) ==
    /\ p[1][2] < v.name[2] /\ disk.vols[v.name].sig = disk.fmt
    /\ \A m \in p[1][2] + 1..v.name[2] - 1 :
          \E y \in DOMAIN disk.vols : y[2] = m /\ ~Walled(disk, y, h.name)
    /\ pc = "header" => \A i \in 1..Len(Cells) + 1 :
                            WallAt(disk, v.name, h.name, i) => v.pos <= i
    /\ pc = "open" => ~Walled(disk, v.name, h.name)

\* The units of the block p that was read last are numbered on.
Along(p) ==
    /\ h = Header(disk, p) /\ a.left \in 0..h.n
    /\ pc = "copy" => p[1] = v.name /\ v.pos + a.left = p[2] + 1 + h.n
    /\ pc # "copy" => /\ a.left = 0 /\ ~h.last
                      /\ (v.name = p[1] /\ p[2] < v.pos) \/ Beyond(p)
    /\ \A j \in 1..h.n : Holds(disk, p, j) =>
          UnitOf(disk, p, j).k = Len(got) + j - (h.n - a.left)
    /\ h.n # a.left => Holds(disk, p, h.n - a.left)

NumberInv ==
    disk.fmt = 50 /\ Copying => pc # "openAtEOF" /\ \E p \in Blocks(disk) : Along(p)

InPlace == Intact \/ disk.fmt = 50 => \A k \in DOMAIN got : got[k].k = k

-----------------------------------------------------------------------------
(* What an intact archive is *)

LEMMA IntactDisk ==
    ASSUME disk \in Disks, Intact
    PROVE  /\ disk.fmt \in {15, 50} /\ Numbered(disk)
           /\ \A x \in DOMAIN disk.vols : SoundVolume(disk, x)
           /\ \A c, e \in Arcs(disk) : /\ c.multi = e.multi /\ c.solid = e.solid
                                       /\ c.old = e.old /\ c.crypt = e.crypt
           /\ \A c \in Arcs(disk) : /\ c.crypt \in BOOLEAN
                                    /\ c.multi <=> DOMAIN disk.vols # {First}
           /\ disk.files \in Seq(ToSet(disk.files))
           /\ \A f, g \in DOMAIN disk.files : disk.files[f].name = disk.files[g].name => f = g
           /\ \A f \in DOMAIN disk.files : disk.files[f].size \in Nat
           /\ disk.files = <<>> \/ Blocks(disk) # {}
           /\ \A p \in Blocks(disk) : SoundBlock(disk, p)
  BY IntactAssumption DEF Intact

LEMMA NumberIn ==
    ASSUME NEW scheme, NEW m, NEW z \in {First} \cup {<<scheme, i>> : i \in 2..m}
    PROVE  (z = First /\ z[2] = 1) \/ (z[2] \in 2..m /\ z = <<scheme, z[2]>>)
<1>1. First[2] = 1
  BY DEF First
<1>2. CASE z = First
  BY <1>1, <1>2
<1>3. CASE z # First
  <2>1. PICK i \in 2..m : z = <<scheme, i>>
    BY <1>3
  <2>2. z[2] = i
    BY <2>1
  <2> QED
    BY <2>1, <2>2
<1> QED
  BY <1>2, <1>3

LEMMA OneOfANumber ==
    ASSUME disk \in Disks, Intact, NEW x \in DOMAIN disk.vols, NEW y \in DOMAIN disk.vols
    PROVE  x[2] \in Nat \ {0} /\ (x[2] = y[2] => x = y)
<1>1. PICK scheme \in {"new", "old"}, m \in {z[2] : z \in DOMAIN disk.vols} :
         DOMAIN disk.vols = {First} \cup {<<scheme, i>> : i \in 2..m}
  BY IntactDisk DEF Numbered
<1>2. m \in Nat
  BY <1>1, VolumeFacts
<1>3. ASSUME NEW z \in DOMAIN disk.vols
      PROVE  (z = First /\ z[2] = 1) \/ (z[2] \in 2..m /\ z = <<scheme, z[2]>>)
  BY <1>1, <1>3, NumberIn
<1> QED
  BY <1>2, <1>3

\* The volume that is looked for is the next one, if there is one.
LEMMA NextIsThere ==
    ASSUME WalkTypeOK, Intact, VolumeInv, ArcInv
    PROVE  /\ Exists(NextScheme) <=> \E y \in DOMAIN disk.vols : v.name[2] < y[2]
           /\ Exists(NextScheme) => NextScheme = NameOf(NextScheme)[1]
<1>1. PICK scheme \in {"new", "old"}, m \in {z[2] : z \in DOMAIN disk.vols} :
         /\ DOMAIN disk.vols = {First} \cup {<<scheme, i>> : i \in 2..m}
         /\ scheme = "new" => disk.digits /\ (disk.fmt = 15 => \A c \in Arcs(disk) : ~c.old)
  BY IntactDisk DEF Numbered, WalkTypeOK
<1>2. m \in Nat /\ v.name \in DOMAIN disk.vols
  BY <1>1, VolumeFacts DEF WalkTypeOK
<1>3. (v.name = First /\ v.name[2] = 1) \/ (v.name[2] \in 2..m /\ v.name = <<scheme, v.name[2]>>)
  BY <1>1, <1>2, NumberIn
<1>4. \A s : Exists(s) <=> <<s, v.name[2] + 1>> \in DOMAIN disk.vols
  BY DEF Exists, NameOf
<1>5. ASSUME NEW s
      PROVE  <<s, v.name[2] + 1>> \in DOMAIN disk.vols <=> s = scheme /\ v.name[2] + 1 <= m
  <2> DEFINE k == v.name[2] + 1
  <2>1. k \in Nat /\ k >= 2
    BY <1>2, <1>3
  <2> HIDE DEF k
  <2>2. <<s, k>> # First
    BY <2>1 DEF First
  <2>3. <<s, k>> \in {<<scheme, i>> : i \in 2..m} <=> s = scheme /\ k <= m
    BY <1>2, <2>1
  <2> QED
    BY <1>1, <2>2, <2>3 DEF k
<1>6. (\E y \in DOMAIN disk.vols : v.name[2] < y[2]) <=> v.name[2] + 1 <= m
  <2>1. ASSUME NEW y \in DOMAIN disk.vols, v.name[2] < y[2] PROVE v.name[2] + 1 <= m
    <3>1. y[2] = 1 \/ y[2] \in 2..m
      BY <1>1, NumberIn
    <3> QED
      BY <1>2, <1>3, <2>1, <3>1
  <2>2. ASSUME v.name[2] + 1 <= m PROVE \E y \in DOMAIN disk.vols : v.name[2] < y[2]
    <3>1. <<scheme, v.name[2] + 1>> \in DOMAIN disk.vols
      BY <1>5, <2>2
    <3>2. <<scheme, v.name[2] + 1>>[2] = v.name[2] + 1
      OBVIOUS
    <3> QED
      BY <1>2, <1>3, <3>1, <3>2
  <2> QED
    BY <2>1, <2>2
<1>7. v.name[2] + 1 <= m => NextScheme = scheme
  <2> SUFFICES ASSUME v.name[2] + 1 <= m PROVE NextScheme = scheme
    OBVIOUS
  <2>1. \A s : Exists(s) <=> s = scheme
    BY <1>4, <1>5
  <2>2. v.num = v.name[2] - 1 /\ v.old = (v.num # 0 /\ v.name[1] = "old")
    BY DEF VolumeInv
  <2>3. CASE v.num = 0
    <3>1. scheme = "new" => ~Old
      BY <1>1, <2>2, <2>3 DEF Old, ArcInv
    <3> QED
      BY <1>1, <2>1, <2>2, <2>3, <3>1 DEF NextScheme
  <2>4. CASE v.num # 0
    <3>1. v.name[1] = scheme
      BY <1>2, <1>3, <2>2, <2>4
    <3>2. Old <=> scheme = "old"
      BY <2>2, <2>4, <3>1 DEF Old
    <3> QED
      BY <1>1, <2>4, <3>2 DEF NextScheme
  <2> QED
    BY <2>3, <2>4
<1>8. NextScheme = NameOf(NextScheme)[1]
  BY DEF NameOf
<1> QED
  BY <1>4, <1>5, <1>6, <1>7, <1>8

\* The header that is read is understood, and another one or the end of the
\* volume is behind its data.
LEMMA HeaderGiven ==
    ASSUME WalkTypeOK, Intact, VolumeInv, pc = "header", ~AtEnd
    PROVE  /\ Understood /\ Cell.t \in Heads /\ DataOf(Cell) \in Nat
           /\ v.pos + 1 + DataOf(Cell) \in Stops(Cells)
           /\ v.pos + DataOf(Cell) <= Len(Cells)
           /\ \A j \in v.pos + 1..v.pos + DataOf(Cell) : Cells[j].t \in {"data", "bad"}
           /\ Cell.t = "key" => disk.fmt = 50
           /\ disk.fmt = 50 => Cells[Len(Cells)].t = "end"
           /\ Cell.t = "end" => /\ v.pos = Len(Cells)
                                /\ Cell.more <=> \E y \in DOMAIN disk.vols : v.name[2] < y[2]
           /\ Cell.t \in {"file", "end"} =>
                 \E j \in Places(v.name) : j < v.pos /\ CellAt(v.name, j).t = "arc"
<1>1. /\ v.name \in DOMAIN disk.vols /\ disk \in Disks /\ v.pos \in Places(v.name)
      /\ Cells = disk.vols[v.name].cells /\ Places(v.name) = DOMAIN Cells
      /\ Places(v.name) = 1..Len(Cells) /\ Len(Cells) \in Nat
      /\ Cell = CellAt(v.name, v.pos) /\ Cell = Cells[v.pos]
  BY CellRead, VolumeFacts DEF WalkTypeOK, Cells, Cell, Places
<1>2. SoundVolume(disk, v.name)
  BY <1>1, IntactDisk
<1>3. v.pos \in Stops(Cells) /\ a.enc = Encrypted(disk, v.name, v.pos)
  BY <1>1 DEF VolumeInv, Seeking
<1>4. Cell.t \in Heads
  BY <1>1, <1>3 DEF Stops
<1>5. DataOf(Cell) \in Nat
  <2>1. Cell.t \in {"file", "service"} => Cell.n \in Nat
    BY <1>1, ArchiveAssumption DEF CellAt, Places
  <2> QED
    BY <2>1 DEF DataOf
<1>6. /\ disk.vols[v.name].sig = disk.fmt
      /\ disk.fmt = 50 => Cells[Len(Cells)].t = "end"
      /\ v.pos + 1 + DataOf(Cell) \in Stops(Cells)
      /\ \A j \in v.pos + 1..v.pos + DataOf(Cell) : Cells[j].t \in {"data", "bad"}
      /\ Cell.enc = Encrypted(disk, v.name, v.pos)
      /\ Cell.t = "key" => disk.fmt = 50
      /\ Cell.t = "end" =>
            v.pos = Len(Cells) /\ (Cell.more <=> \E y \in DOMAIN disk.vols : v.name[2] < y[2])
      /\ Cell.t \in {"file", "end"} => \E j \in 1..v.pos - 1 : Cells[j].t = "arc"
  <2>1. /\ disk.vols[v.name].sig = disk.fmt
        /\ disk.fmt = 50 => Cells[Len(Cells)].t = "end"
        /\ \A i \in DOMAIN Cells : Cells[i].t \in Heads =>
              /\ i + 1 + DataOf(Cells[i]) \in Stops(Cells)
              /\ \A j \in i + 1..i + DataOf(Cells[i]) : Cells[j].t \in {"data", "bad"}
              /\ Cells[i].enc = Encrypted(disk, v.name, i)
              /\ Cells[i].t = "key" => disk.fmt = 50
              /\ Cells[i].t = "end" =>
                    i = Len(Cells) /\ (Cells[i].more <=> \E y \in DOMAIN disk.vols : v.name[2] < y[2])
        /\ \A i \in DOMAIN Cells : Cells[i].t \in {"file", "end"} =>
                                       \E j \in 1..i - 1 : Cells[j].t = "arc"
    BY <1>1, <1>2 DEF SoundVolume
  <2> DEFINE i == v.pos
  <2>2. i \in DOMAIN Cells /\ Cells[i] = Cell /\ Cells[i].t \in Heads
    BY <1>1, <1>4
  <2> HIDE DEF i
  <2>3. /\ i + 1 + DataOf(Cells[i]) \in Stops(Cells)
        /\ \A j \in i + 1..i + DataOf(Cells[i]) : Cells[j].t \in {"data", "bad"}
        /\ Cells[i].enc = Encrypted(disk, v.name, i)
        /\ Cells[i].t = "key" => disk.fmt = 50
    BY <2>1, <2>2
  <2>4. Cells[i].t = "end" =>
           i = Len(Cells) /\ (Cells[i].more <=> \E y \in DOMAIN disk.vols : v.name[2] < y[2])
    BY <2>1, <2>2
  <2>5. Cells[i].t \in {"file", "end"} => \E j \in 1..i - 1 : Cells[j].t = "arc"
    BY <2>1, <2>2
  <2> QED
    BY <2>1, <2>2, <2>3, <2>4, <2>5 DEF i
<1>7. Understood
  BY <1>3, <1>4, <1>6 DEF Understood, Heads
<1>8. v.pos + 1 + DataOf(Cell) \in 1..Len(Cells) + 1
  BY <1>6 DEF Stops
<1>9. v.pos + DataOf(Cell) <= Len(Cells)
  BY <1>1, <1>5, <1>8
<1>10. Cell.t \in {"file", "end"} =>
          \E j \in Places(v.name) : j < v.pos /\ CellAt(v.name, j).t = "arc"
  <2>1. \A j \in 1..v.pos - 1 : j \in Places(v.name) /\ j < v.pos /\ CellAt(v.name, j) = Cells[j]
    BY <1>1 DEF CellAt
  <2> QED
    BY <1>6, <2>1
<1> QED
  BY <1>4, <1>5, <1>6, <1>7, <1>9, <1>10


LEMMA ArcIn ==
    ASSUME disk \in Disks, NEW x \in DOMAIN disk.vols, NEW i \in Places(x),
           CellAt(x, i).t = "arc"
    PROVE  CellAt(x, i) \in Arcs(disk)
<1>1. CellAt(x, i) \in ToSet(disk.vols[x].cells)
  BY DEF CellAt, Places, ToSet
<1> QED
  BY <1>1 DEF Arcs

\* Behind a header what follows is encrypted as before, or because of it.
LEMMA EncryptedOn ==
    ASSUME WalkTypeOK, Intact, VolumeInv, pc = "header", ~AtEnd
    PROVE  Encrypted(disk, v.name, v.pos + 1 + DataOf(Cell))
              <=> \/ Encrypted(disk, v.name, v.pos)
                  \/ IF disk.fmt = 50 THEN Cell.t = "key" ELSE Cell.t = "arc" /\ Cell.crypt
<1> DEFINE from == v.pos
           upto == v.pos + 1 + DataOf(Cell)
           tells(j) == IF disk.fmt = 50 THEN Cells[j].t = "key" ELSE Cells[j].t = "arc" /\ Cells[j].crypt
<1>1. /\ from \in Nat \ {0} /\ DataOf(Cell) \in Nat /\ upto - 1 >= from /\ upto \in Nat
      /\ \A j \in from + 1..upto - 1 : Cells[j].t \in {"data", "bad"}
  BY HeaderGiven DEF WalkTypeOK
<1>2. Encrypted(disk, v.name, from) <=> \E j \in 1..from - 1 : tells(j)
  BY DEF Encrypted, Cells
<1>3. Encrypted(disk, v.name, upto) <=> \E j \in 1..upto - 1 : tells(j)
  BY DEF Encrypted, Cells
<1>4. \A j \in from + 1..upto - 1 : ~tells(j)
  BY <1>1
<1>5. tells(from) <=> IF disk.fmt = 50 THEN Cell.t = "key" ELSE Cell.t = "arc" /\ Cell.crypt
  BY DEF Cell
<1> HIDE DEF from, upto, tells
<1>6. (\E j \in 1..upto - 1 : tells(j)) <=> (\E j \in 1..from - 1 : tells(j)) \/ tells(from)
  <2>1. from \in 1..upto - 1
    BY <1>1
  <2>2. ASSUME NEW j \in 1..upto - 1, tells(j) PROVE j \in 1..from - 1 \/ j = from
    BY <1>1, <1>4, <2>2
  <2>3. 1..from - 1 \subseteq 1..upto - 1
    BY <1>1
  <2> QED
    BY <2>1, <2>2, <2>3
<1> QED
  BY <1>2, <1>3, <1>5, <1>6 DEF from, upto

\* A header that was read, and as much of its data as was skipped.
LEMMA VolumeOn ==
    ASSUME WalkTypeOK, Intact, VolumeInv, pc = "header", ~AtEnd, disk' = disk,
           NEW n \in Nat, v' = Past(1 + n), a'.left \in Nat, n + a'.left = DataOf(Cell),
           Seeking' => a'.left = 0, pc' \notin {"open", "openAtEOF"}, Cell.t # "end",
           a'.enc = (\/ a.enc
                     \/ IF disk.fmt = 50 THEN Cell.t = "key" ELSE Cell.t = "arc" /\ Cell.crypt)
    PROVE  VolumeInv'
<1>1. /\ v'.name = v.name /\ v'.num = v.num /\ v'.old = v.old /\ v'.open = v.open
      /\ v'.pos = v.pos + (1 + n)
  <2> DEFINE k == 1 + n
  <2>1. k \in Nat
    OBVIOUS
  <2> HIDE DEF k
  <2>2. ASSUME v' = Past(k)
        PROVE  /\ v'.name = v.name /\ v'.num = v.num /\ v'.old = v.old
               /\ v'.open = v.open /\ v'.pos = v.pos + k
    <3>1. v' = [name |-> v.name, num |-> v.num, old |-> v.old, open |-> v.open, pos |-> v.pos + k]
      BY <2>1, <2>2, FurtherIn
    <3> QED
      BY <3>1
  <2> QED
    BY <2>2 DEF k
<1>2. v.pos \in Nat \ {0} /\ DataOf(Cell) \in Nat /\ v'.pos + a'.left = v.pos + 1 + DataOf(Cell)
  <2> DEFINE d == DataOf(Cell)
  <2>1. v.pos \in Nat \ {0} /\ d \in Nat
    BY HeaderGiven DEF WalkTypeOK
  <2>2. n + a'.left = d
    OBVIOUS
  <2> HIDE DEF d
  <2>3. v'.pos + a'.left = v.pos + 1 + d
    BY <1>1, <2>1, <2>2
  <2> QED
    BY <2>1, <2>3 DEF d
<1>3. Cells' = Cells /\ Len(Cells) \in Nat
  BY <1>1, VolumeFacts DEF Cells, WalkTypeOK
<1>4. v'.pos + a'.left \in Stops(Cells)
  BY <1>2, HeaderGiven
<1>5. disk.fmt = 50 => v'.pos + a'.left # Len(Cells) + 1
  <2> SUFFICES ASSUME disk.fmt = 50, v'.pos + a'.left = Len(Cells) + 1 PROVE FALSE
    OBVIOUS
  <2>1. Len(Cells) = v.pos \/ Len(Cells) \in v.pos + 1..v.pos + DataOf(Cell)
    BY <1>2, <1>3
  <2>2. Cells[Len(Cells)].t = "end"
    BY HeaderGiven
  <2>3. Cell = Cells[v.pos]
    BY DEF Cell
  <2> QED
    BY <2>1, <2>2, <2>3, HeaderGiven
<1>6. a'.enc = Encrypted(disk, v.name, v'.pos + a'.left)
  <2>1. a.enc = Encrypted(disk, v.name, v.pos)
    <3>1. a.left = 0 /\ a.enc = Encrypted(disk, v.name, v.pos + a.left)
      BY DEF VolumeInv, Seeking
    <3> QED
      BY <1>2, <3>1
  <2>2. Encrypted(disk, v.name, v'.pos + a'.left) \in BOOLEAN
    BY DEF Encrypted
  <2> QED
    BY <1>2, <2>1, <2>2, EncryptedOn
<1> QED
  BY <1>1, <1>3, <1>4, <1>5, <1>6 DEF VolumeInv

LEMMA VolumeSame ==
    ASSUME WalkTypeOK, VolumeInv, disk' = disk, v' = v, a'.left = a.left, a'.enc = a.enc,
           Seeking' => a.left = 0, pc # "open", pc' # "open", pc' = "openAtEOF" => AtEnd
    PROVE  VolumeInv'
<1>1. Cells' = Cells /\ AtEnd' = AtEnd
  BY DEF Cells, AtEnd
<1> QED
  BY <1>1 DEF VolumeInv

\* The end of a volume that another one follows.
LEMMA VolumeEnds ==
    ASSUME WalkTypeOK, Intact, VolumeInv, AtHeader("end"), Cell.more, disk' = disk,
           v' = Past(1), a'.left = 0, a'.enc = a.enc, pc' = "open"
    PROVE  VolumeInv'
<1>1. /\ v'.name = v.name /\ v'.num = v.num /\ v'.old = v.old /\ v'.open = v.open
      /\ v'.pos = v.pos + 1
  BY FurtherIn
<1>2. pc = "header" /\ ~AtEnd /\ Cell.t = "end"
  BY DEF AtHeader
<1>3. /\ v.pos = Len(Cells) /\ v.pos \in Nat /\ DataOf(Cell) = 0
      /\ \E y \in DOMAIN disk.vols : v.name[2] < y[2]
  BY <1>2, HeaderGiven DEF WalkTypeOK, DataOf
<1>4. Cells' = Cells /\ AtEnd'
  BY <1>1, <1>3 DEF Cells, AtEnd
<1>5. v'.pos + a'.left \in Stops(Cells)
  BY <1>1, <1>3 DEF Stops
<1>6. a'.enc = Encrypted(disk, v.name, v'.pos + a'.left)
  <2>1. a.left = 0 /\ a.enc = Encrypted(disk, v.name, v.pos + a.left)
    BY <1>2 DEF VolumeInv, Seeking
  <2>2. v'.pos + a'.left = v.pos + 1 + DataOf(Cell) /\ v.pos + a.left = v.pos
    BY <1>1, <1>3, <2>1
  <2>3. Encrypted(disk, v.name, v.pos + 1 + DataOf(Cell)) = Encrypted(disk, v.name, v.pos)
    BY <1>2, EncryptedOn DEF Encrypted
  <2> QED
    BY <2>1, <2>2, <2>3
<1>7. a'.left \in Nat /\ a'.left = 0
  OBVIOUS
<1>8. v'.open /\ v'.num = v'.name[2] - 1 /\ v'.old = (v'.num # 0 /\ v'.name[1] = "old")
  BY <1>1 DEF VolumeInv
<1>9. v'.pos + a'.left \in Stops(Cells') /\ a'.enc = Encrypted(disk', v'.name, v'.pos + a'.left)
  BY <1>1, <1>4, <1>5, <1>6
<1>10. \E y \in DOMAIN disk'.vols : v'.name[2] < y[2]
  BY <1>1, <1>3
<1> QED
  BY <1>4, <1>7, <1>8, <1>9, <1>10 DEF VolumeInv

\* The next volume is of the archive's format.
LEMMA VolumeOpens ==
    ASSUME WalkTypeOK, Intact, VolumeInv, ArcInv, OpenNextVolume
    PROVE  /\ VolumeInv' /\ pc' = "header" /\ a' = Renewed /\ disk' = disk
           /\ UNCHANGED <<h, solidr, fed, cur, got, result, ctx>>
<1> DEFINE name == NameOf(NextScheme)
<1>1. /\ pc \in {"open", "openAtEOF"} /\ name \in DOMAIN disk.vols /\ disk \in Disks
      /\ name[2] = v.name[2] + 1 /\ name[1] = NextScheme
  BY DEF OpenNextVolume, Exists, NameOf, WalkTypeOK
<1>2. /\ disk.vols[name].sig = disk.fmt /\ disk.fmt \in {15, 50}
      /\ 1 \in Stops(disk.vols[name].cells)
      /\ disk.fmt = 50 => Len(disk.vols[name].cells) # 0
  <2>1. SoundVolume(disk, name) /\ disk.fmt \in {15, 50}
    BY <1>1, IntactDisk
  <2>2. disk.vols[name].cells \in Seq(ToSet(disk.vols[name].cells))
    BY <1>1, ArchiveAssumption
  <2>3. disk.vols[name].cells # <<>> => Len(disk.vols[name].cells) # 0
    BY <2>2, EmptySeq
  <2> QED
    BY <2>1, <2>3 DEF SoundVolume
<1>3. /\ v' = [name |-> name, num |-> v.num + 1, old |-> NextScheme = "old", open |-> TRUE,
               pos |-> 1]
      /\ a' = Renewed /\ pc' = "header" /\ disk' = disk
      /\ UNCHANGED <<h, solidr, fed, cur, got, result, ctx>>
  <2> DEFINE sig == disk.vols[name].sig
  <2>1. sig = disk.fmt /\ sig # 0
    BY <1>2
  <2>2. /\ v' = [name |-> name, num |-> v.num + 1, old |-> NextScheme = "old", open |-> TRUE,
                 pos |-> IF sig = 0 THEN Len(disk.vols[name].cells) + 1 ELSE 1]
        /\ sig = disk.fmt =>
              /\ a' = Renewed /\ pc' = "header"
              /\ UNCHANGED <<disk, h, solidr, fed, cur, got, result, ctx>>
    BY DEF OpenNextVolume
  <2> HIDE DEF sig
  <2> QED
    BY <2>1, <2>2
<1>4. a'.left = a.left /\ a'.enc = FALSE /\ a.left = 0
  BY <1>1, <1>3 DEF WalkTypeOK, Renewed, VolumeInv, Seeking
<1>5. v.num \in Nat /\ v.num = v.name[2] - 1 /\ v.name[2] \in Nat
  BY OneOfANumber DEF VolumeInv, WalkTypeOK
<1>6. Cells' = disk.vols[name].cells
  BY <1>3 DEF Cells
<1>7. a'.enc = Encrypted(disk, name, 1)
  <2>1. 1..1 - 1 = {}
    OBVIOUS
  <2>2. Encrypted(disk, name, 1) = FALSE
    BY <2>1 DEF Encrypted
  <2> QED
    BY <1>4, <2>2
<1> HIDE DEF name
<1>8. v'.pos + a'.left = 1 /\ v'.num = v'.name[2] - 1 /\ v'.num # 0
  BY <1>1, <1>3, <1>4, <1>5
<1>9. Len(Cells') \in Nat
  BY <1>1, <1>6, VolumeFacts
<1>10. disk.fmt = 50 => v'.pos + a'.left # Len(Cells') + 1
  BY <1>2, <1>6, <1>8, <1>9
<1> QED
  BY <1>1, <1>2, <1>3, <1>4, <1>6, <1>7, <1>8, <1>10 DEF VolumeInv

-----------------------------------------------------------------------------
(* The files and their units *)

Data == [t : {"data"}, name : Names, k : Nat]

LEMMA FileNamed ==
    ASSUME disk \in Disks, Intact, NEW f \in DOMAIN disk.files
    PROVE  LET name == disk.files[f].name
           IN  /\ name \in Names /\ Size(name) = disk.files[f].size /\ Size(name) \in Nat
               /\ (CHOOSE i \in DOMAIN disk.files : disk.files[i].name = name) = f
               /\ Units(name) \in Seq(Data) /\ Len(Units(name)) = Size(name)
               /\ \A k \in 1..Size(name) : Units(name)[k] = [t |-> "data", name |-> name, k |-> k]
<1> DEFINE name == disk.files[f].name
<1>1. ToSet(disk.files) = {disk.files[i] : i \in DOMAIN disk.files}
  BY DEF ToSet
<1>2. \A i \in DOMAIN disk.files : disk.files[i].name = name => i = f
  BY IntactDisk
<1>3. name \in Names
  BY <1>1 DEF Names
<1>4. (CHOOSE i \in DOMAIN disk.files : disk.files[i].name = name) = f
  BY <1>2
<1>5. Size(name) = disk.files[f].size
  <2>1. \A e \in ToSet(disk.files) : e.name = name => e = disk.files[f]
    BY <1>1, <1>2
  <2>2. disk.files[f] \in ToSet(disk.files) /\ disk.files[f].name = name
    BY <1>1
  <2>3. (CHOOSE e \in ToSet(disk.files) : e.name = name) = disk.files[f]
    BY <2>1, <2>2
  <2> QED
    BY <2>3 DEF Size
<1>6. Size(name) \in Nat
  BY <1>5, IntactDisk
<1> HIDE DEF name
<1>7. Units(name) = [k \in 1..Size(name) |-> [t |-> "data", name |-> name, k |-> k]]
  BY DEF Units
<1>8. \A k \in 1..Size(name) : [t |-> "data", name |-> name, k |-> k] \in Data
  BY <1>3, <1>6 DEF Data
<1>9. Units(name) \in Seq(Data) /\ Len(Units(name)) = Size(name)
  BY <1>6, <1>7, <1>8, IsASeq
<1> QED
  BY <1>3, <1>4, <1>5, <1>6, <1>7, <1>9 DEF name

\* One more unit.
LEMMA OneMore ==
    ASSUME NEW S, NEW s \in Seq(S), NEW n \in Nat, n < Len(s)
    PROVE  Append(SubSeq(s, 1, n), s[n + 1]) = SubSeq(s, 1, n + 1)
<1>1. s[n + 1] \in S /\ \A i \in 1..n + 1 : s[i] \in S
  BY ElementOfSeq
<1>2. SubSeq(s, 1, n) \in Seq(S)
  BY <1>1, SubSeqProperties
<1>3. n + 1 \in 1..Len(s) /\ 1 \in 1..Len(s) /\ n + 1 \in 1..Len(s) /\ (n + 1) - 1 = n
  OBVIOUS
<1>4. SubSeq(s, 1, n + 1) = SubSeq(s, 1, n) \o <<s[n + 1]>>
  BY <1>3, SubSeqRecursiveSecond
<1> QED
  BY <1>1, <1>2, <1>4, AppendIsConcat

LEMMA WholeGiven ==
    ASSUME disk \in Disks, Intact
    PROVE  /\ Whole[0] = <<>>
           /\ \A i \in DOMAIN disk.files : /\ Whole[i - 1] \in Seq(Data)
                                            /\ Whole[i] = Whole[i - 1] \o Units(disk.files[i].name)
<1> DEFINE n == Len(disk.files)
           step == [i \in 1..n |-> [s \in Seq(Data) |-> s \o Units(disk.files[i].name)]]
           Stretch(g) == g = [i \in 0..n |-> IF i = 0 THEN <<>> ELSE g[i - 1] \o Units(disk.files[i].name)]
<1>1. n \in Nat /\ DOMAIN disk.files = 1..n
  <2>1. disk.files \in Seq(ToSet(disk.files))
    BY IntactDisk
  <2> QED
    BY <2>1
<1>2. \A i \in 1..n : Units(disk.files[i].name) \in Seq(Data)
  BY <1>1, FileNamed
<1>3. step \in [1..n -> [Seq(Data) -> Seq(Data)]]
  BY <1>2, ConcatProperties
<1>4. \A i \in 1..n, s \in Seq(Data) : step[i][s] = s \o Units(disk.files[i].name)
  OBVIOUS
<1> HIDE DEF step, n
<1>5. <<>> \in Seq(Data)
  BY EmptySeq
<1>6. PICK g \in [0..n -> Seq(Data)] :
         \A i \in 0..n : g[i] = IF i = 0 THEN <<>> ELSE step[i][g[i - 1]]
  <2>1. Taking(n, Seq(Data), <<>>, step)
    BY <1>1, <1>3, <1>5, Iterates DEF StepsIn
  <2> QED
    BY <2>1 DEF Taking
<1>7. \A i \in 0..n : g[i] = IF i = 0 THEN <<>> ELSE g[i - 1] \o Units(disk.files[i].name)
  <2>1. ASSUME NEW i \in 0..n PROVE i # 0 => i \in 1..n /\ g[i - 1] \in Seq(Data)
    BY <1>1
  <2> QED
    BY <1>4, <1>6, <2>1
<1>8. Stretch(g)
  BY <1>6, <1>7
<1>9. Whole = CHOOSE w : Stretch(w)
  BY DEF Whole, n
<1>10. Stretch(Whole)
  <2> HIDE DEF Stretch
  <2> QED
    BY <1>8, <1>9
<1>11. \A i \in 0..n : Whole[i] = IF i = 0 THEN <<>> ELSE Whole[i - 1] \o Units(disk.files[i].name)
  BY <1>10
<1>12. \A i \in 0..n : Whole[i] \in Seq(Data)
  <2> DEFINE missing == {i \in 0..n : Whole[i] \notin Seq(Data)}
  <2>1. SUFFICES ASSUME missing # {} PROVE FALSE
    OBVIOUS
  <2>2. missing \in SUBSET Nat
    BY <1>1
  <2>3. PICK i \in missing : \A j \in missing : i <= j
    <3> HIDE DEF missing
    <3> QED
      BY <2>1, <2>2, SmallestOf
  <2>4. i \in 0..n /\ Whole[i] \notin Seq(Data)
    OBVIOUS
  <2>5. i # 0
    BY <1>5, <1>11, <2>4
  <2>6. i - 1 \in 0..n /\ i \in 1..n /\ ~(i <= i - 1)
    BY <1>1, <2>4, <2>5
  <2>7. Whole[i - 1] \in Seq(Data)
    BY <2>3, <2>6
  <2>8. Whole[i] = Whole[i - 1] \o Units(disk.files[i].name)
    BY <1>11, <2>4, <2>5
  <2>9. Units(disk.files[i].name) \in Seq(Data)
    BY <1>2, <2>6
  <2> QED
    BY <2>4, <2>7, <2>8, <2>9, ConcatProperties
<1> HIDE DEF Stretch
<1>13. \A i \in 1..n : i \in 0..n /\ i - 1 \in 0..n /\ i # 0
  BY <1>1
<1>14. 0 \in 0..n
  BY <1>1
<1> QED
  BY <1>1, <1>11, <1>12, <1>13, <1>14

LEMMA BeforeFile ==
    ASSUME disk \in Disks, Intact, NEW f \in DOMAIN disk.files
    PROVE  /\ Before(disk.files[f].name) \in Seq(Data)
           /\ f = 1 => Before(disk.files[f].name) = <<>>
           /\ f < Len(disk.files) =>
                 Before(disk.files[f + 1].name) = Before(disk.files[f].name) \o Units(disk.files[f].name)
<1>1. DOMAIN disk.files = 1..Len(disk.files) /\ Len(disk.files) \in Nat
  <2>1. disk.files \in Seq(ToSet(disk.files))
    BY IntactDisk
  <2> QED
    BY <2>1
<1>2. ASSUME NEW i \in DOMAIN disk.files PROVE Before(disk.files[i].name) = Whole[i - 1]
  BY <1>2, FileNamed DEF Before
<1>3. f = 1 => f - 1 = 0
  OBVIOUS
<1>4. f < Len(disk.files) => f + 1 \in DOMAIN disk.files /\ (f + 1) - 1 = f
  BY <1>1
<1> QED
  BY <1>2, <1>3, <1>4, WholeGiven

-----------------------------------------------------------------------------
(* The blocks of the files and their order *)

LEMMA BlockIs ==
    ASSUME disk \in Disks, NEW p \in Blocks(disk)
    PROVE  /\ p[1] \in DOMAIN disk.vols /\ p[2] \in Places(p[1]) /\ p = <<p[1], p[2]>>
           /\ p[2] \in Nat \ {0}
           /\ Header(disk, p) = CellAt(p[1], p[2])
           /\ Header(disk, p).t = "file" /\ Header(disk, p).n \in Nat
<1>1. PICK x \in DOMAIN disk.vols :
         p \in {<<x, i>> : i \in {i \in DOMAIN disk.vols[x].cells : disk.vols[x].cells[i].t = "file"}}
  BY DEF Blocks
<1>2. PICK i \in DOMAIN disk.vols[x].cells : p = <<x, i>> /\ disk.vols[x].cells[i].t = "file"
  BY <1>1
<1>3. p[1] = x /\ p[2] = i
  BY <1>2
<1>4. i \in Places(x) /\ CellAt(x, i).t = "file"
  BY <1>2 DEF Places, CellAt
<1>5. Header(disk, p) = CellAt(x, i)
  BY <1>3 DEF Header, CellAt
<1>6. i \in Nat \ {0}
  BY <1>4, VolumeFacts
<1>7. CellAt(x, i).n \in Nat
  BY <1>4, BlockBehind
<1> QED
  BY <1>2, <1>3, <1>4, <1>5, <1>6, <1>7

LEMMA BlockAt ==
    ASSUME NEW x \in DOMAIN disk.vols, NEW i \in Places(x), CellAt(x, i).t = "file"
    PROVE  <<x, i>> \in Blocks(disk)
  BY DEF Blocks, Places, CellAt

\* What the assumption says of a block.
LEMMA BlockSound ==
    ASSUME disk \in Disks, Intact, NEW p \in Blocks(disk)
    PROVE  LET c == Header(disk, p)
           IN  \E f \in DOMAIN disk.files :
                 /\ c.name = disk.files[f].name
                 /\ Upto(disk, p) \in c.n..Size(c.name) /\ Size(c.name) \in Nat
                 /\ \A j \in 1..c.n : CellAt(p[1], p[2] + j) = Units(c.name)[Upto(disk, p) - c.n + j]
                 /\ c.first = (Upto(disk, p) = c.n) /\ c.last = (Upto(disk, p) = Size(c.name))
                 /\ c.last => c.sum = c.name
                 /\ \A x \in Arcs(disk) : disk.packed /\ x.solid => c.solid = (f # 1)
                 /\ (\A q \in Blocks(disk) : ~Precedes(q, p)) => f = 1 /\ c.first
                 /\ (\A q \in Blocks(disk) : ~Precedes(p, q)) => f = Len(disk.files) /\ c.last
<1> DEFINE c == Header(disk, p)
<1>1. SoundBlock(disk, p)
  BY IntactDisk
<1>2. PICK f \in DOMAIN disk.files :
         /\ c.name = disk.files[f].name /\ Upto(disk, p) \in c.n..disk.files[f].size
         /\ \A j \in 1..c.n : disk.vols[p[1]].cells[p[2] + j]
                               = [t |-> "data", name |-> c.name, k |-> Upto(disk, p) - c.n + j]
         /\ c.first = (Upto(disk, p) = c.n) /\ c.last = (Upto(disk, p) = disk.files[f].size)
         /\ c.last => c.sum = c.name
         /\ \A x \in Arcs(disk) : disk.packed /\ x.solid => c.solid = (f # 1)
         /\ (\A q \in Blocks(disk) : ~Precedes(q, p)) => f = 1 /\ c.first
         /\ (\A q \in Blocks(disk) : ~Precedes(p, q)) => f = Len(disk.files) /\ c.last
  BY <1>1 DEF SoundBlock
<1>3. Size(c.name) = disk.files[f].size /\ Size(c.name) \in Nat /\ c.n \in Nat
  BY <1>2, FileNamed, BlockIs
<1>4. ASSUME NEW j \in 1..c.n
      PROVE  CellAt(p[1], p[2] + j) = Units(c.name)[Upto(disk, p) - c.n + j]
  <2> DEFINE k == Upto(disk, p) - c.n + j
  <2>1. k \in 1..Size(c.name)
    <3> HIDE DEF c
    <3> QED
      BY <1>2, <1>3
  <2>2. CellAt(p[1], p[2] + j) = [t |-> "data", name |-> c.name, k |-> k]
    BY <1>2 DEF CellAt
  <2> HIDE DEF k
  <2> QED
    BY <1>2, <2>1, <2>2, FileNamed DEF k
<1> HIDE DEF c
<1> QED
  BY <1>2, <1>3, <1>4 DEF c

LEMMA BlockFollows ==
    ASSUME disk \in Disks, Intact, NEW p \in Blocks(disk), NEW q \in Blocks(disk),
           Precedes(p, q), \A r \in Blocks(disk) : ~(Precedes(p, r) /\ Precedes(r, q))
    PROVE  LET c == Header(disk, p)
               e == Header(disk, q)
           IN  /\ c.last => /\ e.first
                            /\ \E f \in DOMAIN disk.files :
                                  /\ f < Len(disk.files) /\ f + 1 \in DOMAIN disk.files
                                  /\ c.name = disk.files[f].name /\ e.name = disk.files[f + 1].name
               /\ ~c.last => /\ e.name = c.name /\ Upto(disk, q) - e.n = Upto(disk, p)
                             /\ ~e.first
<1> DEFINE c == Header(disk, p)
           e == Header(disk, q)
<1>1. SoundBlock(disk, p)
  BY IntactDisk
<1>2. PICK f \in DOMAIN disk.files :
         /\ c.name = disk.files[f].name /\ Upto(disk, p) \in c.n..disk.files[f].size
         /\ IF c.last THEN /\ Header(disk, q).first /\ f < Len(disk.files)
                           /\ Header(disk, q).name = disk.files[f + 1].name
            ELSE Header(disk, q).name = c.name /\ Upto(disk, q) - Header(disk, q).n = Upto(disk, p)
                 /\ Upto(disk, p) # 0
  BY <1>1 DEF SoundBlock
<1>3. f < Len(disk.files) => f + 1 \in DOMAIN disk.files
  <2>1. disk.files \in Seq(ToSet(disk.files))
    BY IntactDisk
  <2> QED
    BY <2>1
<1>4. ~c.last => ~e.first
  <2>1. e.first = (Upto(disk, q) = e.n) /\ e.n \in Nat /\ Upto(disk, q) \in Nat
    BY BlockSound, BlockIs
  <2>2. c.n \in Nat /\ Upto(disk, p) \in Nat
    BY BlockSound, BlockIs
  <2>3. ~c.last => Upto(disk, q) - e.n = Upto(disk, p) /\ Upto(disk, p) # 0
    BY <1>2
  <2> HIDE DEF c, e
  <2>4. ~c.last => Upto(disk, q) # e.n
    BY <2>1, <2>2, <2>3
  <2> QED
    BY <2>1, <2>4
<1> HIDE DEF c
<1> QED
  BY <1>2, <1>3, <1>4 DEF c

\* Every block has an archive header.
LEMMA ArcThere ==
    ASSUME disk \in Disks, Intact, NEW p \in Blocks(disk)
    PROVE  Arcs(disk) # {}
<1>1. p[1] \in DOMAIN disk.vols /\ p[2] \in Places(p[1]) /\ CellAt(p[1], p[2]).t = "file"
  BY BlockIs
<1>2. SoundVolume(disk, p[1])
  BY <1>1, IntactDisk
<1>3. PICK j \in 1..p[2] - 1 : disk.vols[p[1]].cells[j].t = "arc"
  BY <1>1, <1>2 DEF SoundVolume, Places, CellAt
<1>4. j \in Places(p[1])
  BY <1>1, VolumeFacts
<1> QED
  BY <1>1, <1>3, <1>4, ArcIn DEF CellAt

-----------------------------------------------------------------------------
(* Which blocks are ahead *)

BlocksKept == \A q \in Blocks(disk) : Ahead(q[1], q[2])' <=> Ahead(q[1], q[2])

\* No block of a file is passed.
LEMMA NonePassed ==
    ASSUME WalkTypeOK, disk' = disk, NEW n \in Nat, v' = Past(n),
           \A j \in v.pos..v.pos + n - 1 : Cells[j].t # "file"
    PROVE  BlocksKept
<1>1. v'.name = v.name /\ v'.pos = v.pos + n
  <2>1. v' = [name |-> v.name, num |-> v.num, old |-> v.old, open |-> v.open, pos |-> v.pos + n]
    BY FurtherIn
  <2> QED
    BY <2>1
<1>2. v.pos \in Nat /\ disk \in Disks
  BY DEF WalkTypeOK
<1>3. ASSUME NEW q \in Blocks(disk) PROVE Ahead(q[1], q[2])' <=> Ahead(q[1], q[2])
  <2>1. /\ q[2] \in Nat /\ Header(disk, q).t = "file"
        /\ q[1] = v.name => Header(disk, q) = Cells[q[2]]
    BY <1>2, BlockIs DEF CellAt, Cells
  <2>2. q[1] = v.name => q[2] \notin v.pos..v.pos + n - 1
    BY <2>1
  <2> DEFINE i == q[2]
  <2> HIDE DEF i
  <2>3. i \in Nat /\ i \notin v.pos..v.pos + n - 1 => (v.pos + n <= i <=> v.pos <= i)
    BY <1>2
  <2>4. q[1] = v.name => (v.pos + n <= q[2] <=> v.pos <= q[2])
    BY <2>1, <2>2, <2>3 DEF i
  <2> QED
    BY <1>1, <2>4 DEF Ahead
<1> QED
  BY <1>3 DEF BlocksKept

\* What is behind comes before what is ahead.
LEMMA BehindBefore ==
    ASSUME WalkTypeOK, Intact, NEW p \in Blocks(disk), NEW q \in Blocks(disk),
           ~Ahead(p[1], p[2]), Ahead(q[1], q[2])
    PROVE  Precedes(p, q)
<1>1. /\ p[1] \in DOMAIN disk.vols /\ q[1] \in DOMAIN disk.vols /\ v.name \in DOMAIN disk.vols
      /\ p[2] \in Nat /\ q[2] \in Nat /\ v.pos \in Nat /\ disk \in Disks
  BY BlockIs DEF WalkTypeOK
<1>2. /\ p[1][2] \in Nat /\ q[1][2] \in Nat /\ v.name[2] \in Nat
      /\ p[1][2] = q[1][2] => p[1] = q[1]
      /\ p[1][2] = v.name[2] => p[1] = v.name
      /\ q[1][2] = v.name[2] => q[1] = v.name
  BY <1>1, OneOfANumber
<1>3. ~(v.name[2] < p[1][2]) /\ ~(p[1] = v.name /\ v.pos <= p[2])
  BY DEF Ahead
<1>4. v.name[2] < q[1][2] \/ (q[1] = v.name /\ v.pos <= q[2])
  BY DEF Ahead
<1>5. p[1][2] < q[1][2] \/ (p[1] = q[1] /\ p[2] < q[2])
  BY <1>1, <1>2, <1>3, <1>4
<1> QED
  BY <1>5 DEF Precedes, Earlier

\* The file header that is read is that of the first block ahead.
LEMMA FirstAhead ==
    ASSUME WalkTypeOK, Intact, AtHeader("file")
    PROVE  LET q == <<v.name, v.pos>>
           IN  /\ q \in Blocks(disk) /\ Ahead(q[1], q[2]) /\ Header(disk, q) = Cell
               /\ \A r \in Blocks(disk) : Ahead(r[1], r[2]) => ~Precedes(r, q)
               /\ \A r \in Blocks(disk) :
                     Precedes(q, r) => v.name[2] < r[1][2] \/ (r[1] = v.name /\ v.pos + 1 <= r[2])
<1> DEFINE q == <<v.name, v.pos>>
<1>1. /\ v.name \in DOMAIN disk.vols /\ v.pos \in Places(v.name) /\ Cell = CellAt(v.name, v.pos)
      /\ Cell.t = "file" /\ v.pos \in Nat /\ disk \in Disks
  BY CellRead DEF AtHeader, WalkTypeOK
<1>2. q \in Blocks(disk) /\ q[1] = v.name /\ q[2] = v.pos
  BY <1>1, BlockAt
<1>3. Header(disk, q) = Cell
  BY <1>1, <1>2 DEF Header, CellAt
<1>4. Ahead(q[1], q[2])
  BY <1>1, <1>2 DEF Ahead
<1> HIDE DEF q
<1>5. ASSUME NEW r \in Blocks(disk)
      PROVE  /\ Ahead(r[1], r[2]) => ~Precedes(r, q)
             /\ Precedes(q, r) => v.name[2] < r[1][2] \/ (r[1] = v.name /\ v.pos + 1 <= r[2])
  <2>1. r[1] \in DOMAIN disk.vols /\ r[2] \in Nat
    BY <1>1, BlockIs
  <2>2. r[1][2] \in Nat /\ v.name[2] \in Nat
    BY <1>1, <2>1, OneOfANumber
  <2>3. Precedes(r, q) <=> r[1][2] < v.name[2] \/ (r[1] = v.name /\ r[2] < v.pos)
    BY <1>2 DEF Precedes, Earlier
  <2>4. Precedes(q, r) <=> v.name[2] < r[1][2] \/ (v.name = r[1] /\ v.pos < r[2])
    BY <1>2 DEF Precedes, Earlier
  <2>5. Ahead(r[1], r[2]) <=> v.name[2] < r[1][2] \/ (r[1] = v.name /\ v.pos <= r[2])
    BY DEF Ahead
  <2> DEFINE i == r[2]
             k == r[1][2]
             l == v.name[2]
  <2>6. i \in Nat /\ k \in Nat /\ l \in Nat /\ (r[1] = v.name => k = l)
    BY <2>1, <2>2
  <2> HIDE DEF i, k, l
  <2>7. l < k \/ (r[1] = v.name /\ v.pos <= i) => ~(k < l \/ (r[1] = v.name /\ i < v.pos))
    BY <1>1, <2>6
  <2>8. l < k \/ (v.name = r[1] /\ v.pos < i) => l < k \/ (r[1] = v.name /\ v.pos + 1 <= i)
    BY <1>1, <2>6
  <2> QED
    BY <2>3, <2>4, <2>5, <2>7, <2>8 DEF i, k, l
<1> QED
  BY <1>2, <1>3, <1>4, <1>5 DEF q

\* Where no block is ahead, all of them were read.
LEMMA NoneAhead ==
    ASSUME WalkTypeOK, Intact, PlaceInv, \A q \in Blocks(disk) : ~Ahead(q[1], q[2])
    PROVE  \/ Outset /\ Names = {}
           \/ \E p \in Blocks(disk) :
                 Current(p) /\ h.last /\ cur = disk.files[Len(disk.files)].name
<1>1. disk \in Disks
  BY DEF WalkTypeOK
<1>2. CASE Outset
  <2>1. Blocks(disk) = {}
    BY <1>2 DEF Outset
  <2>2. disk.files = <<>>
    BY <1>1, <2>1, IntactDisk
  <2>3. ToSet(disk.files) = {}
    BY <2>2 DEF ToSet
  <2>4. Names = {}
    BY <2>3 DEF Names
  <2> QED
    BY <1>2, <2>4
<1>3. CASE \E p \in Blocks(disk) : Current(p)
  <2>1. PICK p \in Blocks(disk) : Current(p)
    BY <1>3
  <2>2. \A q \in Blocks(disk) : ~Precedes(p, q)
    BY <2>1 DEF Current
  <2>3. Header(disk, p).last /\ Header(disk, p).name = disk.files[Len(disk.files)].name
    BY <1>1, <2>2, BlockSound
  <2> QED
    BY <2>1, <2>3 DEF Current
<1> QED
  BY <1>2, <1>3 DEF PlaceInv

\* A step that reads nothing of a file.
LEMMA PlaceKept ==
    ASSUME WalkTypeOK, Intact, PlaceInv, BlocksKept,
           UNCHANGED <<disk, h, solidr, fed, cur, got>>,
           a'.left = a.left, a'.sum = a.sum, a.left # 0 => v' = v,
           ctx' = "copy" /\ pc' # "next" => ctx = "copy" /\ pc # "next",
           Outset => ctx' = "find" /\ (pc' = "next" \/ Seeking')
    PROVE  PlaceInv' /\ (Outset => Outset')
<1>1. Blocks(disk)' = Blocks(disk) /\ Arcs(disk)' = Arcs(disk) /\ Before(cur)' = Before(cur)
      /\ Size(cur)' = Size(cur) /\ Units(cur)' = Units(cur)
  BY DEF Before, Whole, Size, Units
<1>2. Outset => Outset'
  BY <1>1 DEF Outset, BlocksKept
<1>3. ASSUME NEW p \in Blocks(disk), Current(p) PROVE Current(p)'
  <2>1. Passed(p)' = Passed(p)
    BY DEF Passed
  <2>2. h' = Header(disk, p)' /\ cur' = h'.name /\ a'.sum = h'.sum
    BY <1>3 DEF Current
  <2>3. ~Ahead(p[1], p[2])' /\ \A q \in Blocks(disk) : Precedes(p, q) => Ahead(q[1], q[2])'
    BY <1>3 DEF Current, BlocksKept
  <2>4. a'.left # 0 => p[1] = v'.name /\ v'.pos + a'.left = p[2] + 1 + h'.n /\ a'.left <= h'.n
    BY <1>3 DEF Current
  <2>5. /\ Len(got') <= Size(cur) /\ got' = SubSeq(Units(cur), 1, Len(got'))
        /\ ctx' = "copy" /\ pc' # "next" => Len(got') = Passed(p)
    BY <1>3 DEF Current
  <2>6. /\ \A c \in Arcs(disk) : solidr' = (disk.packed /\ c.solid)
        /\ solidr' => fed' = Before(cur) \o SubSeq(Units(cur), 1, Passed(p))
    BY <1>3 DEF Current
  <2> QED
    BY <1>1, <2>1, <2>2, <2>3, <2>4, <2>5, <2>6 DEF Current
<1> QED
  BY <1>1, <1>2, <1>3 DEF PlaceInv

-----------------------------------------------------------------------------
(* Steps that read nothing *)

Good == VolumeInv /\ ArcInv /\ ReasonInv /\ PlaceInv

\* Whoever is reading a file has one.
LEMMA ReadsOne ==
    ASSUME WalkTypeOK, Intact, Good, ~(ctx = "find" /\ (pc = "next" \/ Seeking)) \/ h # None
    PROVE  \E p \in Blocks(disk) : Current(p)
  BY DEF Good, PlaceInv, Outset

\* The current file is one of the archive's.
LEMMA CurrentFile ==
    ASSUME WalkTypeOK, Intact, NEW p \in Blocks(disk), Current(p)
    PROVE  /\ h # None /\ h = Header(disk, p) /\ h.n \in Nat
           /\ cur \in Names /\ cur = h.name /\ Size(cur) \in Nat
           /\ Units(cur) \in Seq(Data) /\ Len(Units(cur)) = Size(cur) /\ Before(cur) \in Seq(Data)
           /\ Upto(disk, p) \in h.n..Size(cur)
           /\ h.last = (Upto(disk, p) = Size(cur)) /\ (h.last => h.sum = cur)
           /\ \A j \in 1..h.n : CellAt(p[1], p[2] + j) = Units(cur)[Upto(disk, p) - h.n + j]
           /\ Len(got) \in Nat
<1>1. disk \in Disks /\ Len(got) \in Nat
  BY LenProperties DEF WalkTypeOK
<1>2. h = Header(disk, p) /\ cur = h.name
  BY DEF Current
<1>3. h.t = "file" /\ h.n \in Nat
  BY <1>1, <1>2, BlockIs
<1>4. None.t = "none"
  BY DEF None
<1>5. PICK f \in DOMAIN disk.files :
         /\ h.name = disk.files[f].name
         /\ Upto(disk, p) \in h.n..Size(h.name)
         /\ \A j \in 1..h.n : CellAt(p[1], p[2] + j) = Units(h.name)[Upto(disk, p) - h.n + j]
         /\ h.last = (Upto(disk, p) = Size(h.name))
         /\ h.last => h.sum = h.name
  BY <1>1, <1>2, BlockSound
<1>6. cur = disk.files[f].name
  BY <1>2, <1>5
<1>7. /\ cur \in Names /\ Size(cur) \in Nat
      /\ Units(cur) \in Seq(Data) /\ Len(Units(cur)) = Size(cur)
  BY <1>1, <1>6, FileNamed
<1>8. Before(cur) \in Seq(Data)
  BY <1>1, <1>6, BeforeFile
<1>9. h # None
  BY <1>3, <1>4
<1> QED
  BY <1>1, <1>2, <1>3, <1>5, <1>7, <1>8, <1>9

LEMMA BlocksStay ==
    ASSUME WalkTypeOK, v' = v
    PROVE  BlocksKept
  BY DEF BlocksKept, Ahead

LEMMA ArcStays ==
    ASSUME WalkTypeOK, ArcInv, disk' = disk, v' = v,
           a'.multi = a.multi, a'.solid = a.solid, a'.old = a.old
    PROVE  ArcInv'
<1>1. Arcs(disk)' = Arcs(disk)
  OBVIOUS
<1>2. \A j : (j \in Places(v.name))' <=> j \in Places(v.name)
  BY DEF Places
<1>3. \A j : CellAt(v.name, j)' = CellAt(v.name, j)
  BY DEF CellAt
<1> QED
  BY <1>1, <1>2, <1>3 DEF ArcInv

LEMMA ResultKept ==
    ASSUME ResultInv, UNCHANGED <<disk, h, cur, result>>, pc # "done", pc' # "done",
           ctx = "copy" /\ pc # "next" => ctx' = "copy" /\ pc' # "next"
    PROVE  ResultInv'
<1>1. Names' = Names
  BY DEF Names
<1> QED
  BY <1>1 DEF ResultInv

LEMMA QuietGood ==
    ASSUME WalkTypeOK, Intact, Good, UNCHANGED <<disk, v, a, h, solidr, fed, cur, got>>,
           Seeking' => a.left = 0, pc # "open", pc' # "open", pc' = "openAtEOF" => AtEnd,
           ReasonInv',
           ctx' = "copy" /\ pc' # "next" => ctx = "copy" /\ pc # "next",
           Outset => ctx' = "find" /\ (pc' = "next" \/ Seeking')
    PROVE  Good'
<1>1. VolumeInv'
  BY VolumeSame DEF Good
<1>2. ArcInv'
  BY ArcStays DEF Good
<1>3. PlaceInv'
  BY BlocksStay, PlaceKept DEF Good
<1> QED
  BY <1>1, <1>2, <1>3 DEF Good

LEMMA CallNextGood ==
    ASSUME WalkTypeOK, Intact, Good, ResultInv, CallNext
    PROVE  ResultInv' /\ Good'
<1>1. /\ UNCHANGED <<disk, v, a, h, solidr, fed, cur, got, result>> /\ pc = "next"
      /\ \/ solidr /\ pc' = "drain" /\ ctx' = "drain"
         \/ ~solidr /\ h # None /\ pc' = "skip" /\ ctx' = "skip"
         \/ ~solidr /\ h = None /\ pc' = "header" /\ ctx' = "find"
  BY DEF CallNext, arch
<1>2. h = None => Outset
  BY CurrentFile DEF Good, PlaceInv
<1>3. Outset => ctx' = "find" /\ pc' = "header" /\ a.left = 0
  BY <1>1 DEF Outset
<1>4. Seeking' <=> pc' = "header"
  BY <1>1 DEF Seeking
<1>5. ReasonInv'
  BY <1>1, <1>4 DEF ReasonInv
<1>6. Good'
  BY <1>1, <1>2, <1>3, <1>4, <1>5, QuietGood
<1>7. ResultInv'
  BY <1>1, ResultKept
<1> QED
  BY <1>6, <1>7

\* The end of a block that was read whole.
LEMMA BlockEndsGood ==
    ASSUME WalkTypeOK, Intact, Good, ResultInv, BlockEnds
    PROVE  ResultInv' /\ Good'
<1>1. /\ UNCHANGED <<disk, v, a, h, solidr, fed, cur, got, result, ctx>> /\ pc' = "header"
      /\ pc \in {"drain", "skip", "copy"} /\ ctx = pc /\ a.left = 0 /\ h # None /\ ~h.last
  BY DEF BlockEnds, arch, Reading, WalkTypeOK
<1>2. ~Outset
  BY <1>1 DEF Outset
<1>3. ReasonInv'
  <2>1. ~(solidr /\ ctx = "skip")
    BY <1>1 DEF Good, ReasonInv
  <2> QED
    BY <1>1, <2>1 DEF ReasonInv
<1>4. Good'
  BY <1>1, <1>2, <1>3, QuietGood
<1>5. ResultInv'
  BY <1>1, ResultKept
<1> QED
  BY <1>4, <1>5

\* A file is only left when all of it was read.
LEMMA PackedEndsGood ==
    ASSUME WalkTypeOK, Intact, Good, ResultInv, PackedEnds
    PROVE  ResultInv' /\ Good'
<1>1. /\ pc \in {"drain", "skip", "copy"} /\ ctx = pc /\ a.left = 0 /\ Wanted
      /\ h # None => h.last
  BY DEF PackedEnds, Reading, WalkTypeOK
<1>2. PICK p \in Blocks(disk) : Current(p)
  BY <1>1, ReadsOne
<1>3. h # None /\ h.last
  BY <1>1, <1>2, CurrentFile
<1>4. pc # "copy"
  <2> SUFFICES ASSUME pc = "copy" PROVE FALSE
    OBVIOUS
  <2>1. Len(got) = Passed(p) /\ Len(got) < Size(cur)
    BY <1>1, <1>2 DEF Current, Wanted
  <2>2. Upto(disk, p) = Size(cur) /\ Size(cur) \in Nat
    BY <1>2, <1>3, CurrentFile
  <2> QED
    BY <1>1, <2>1, <2>2 DEF Passed
<1>5. /\ UNCHANGED <<disk, v, a, h, solidr, fed, cur, got, result>>
      /\ \/ pc = "drain" /\ pc' = "skip" /\ ctx' = "skip"
         \/ pc = "skip" /\ pc' = "header" /\ ctx' = "find"
  BY <1>1, <1>3, <1>4 DEF PackedEnds, arch
<1>6. ~Outset
  BY <1>3 DEF Outset
<1>7. Seeking' <=> pc' = "header"
  BY <1>5 DEF Seeking
<1>8. ReasonInv'
  BY <1>1, <1>3, <1>5, <1>7 DEF ReasonInv
<1>9. Good'
  BY <1>1, <1>5, <1>6, <1>7, <1>8, QuietGood
<1>10. ResultInv'
  BY <1>1, <1>5, ResultKept
<1> QED
  BY <1>9, <1>10

\* All units of the file were read: its last block was, and its sum compared.
LEMMA FileEndsGood ==
    ASSUME WalkTypeOK, Intact, Good, ResultInv, FileEnds
    PROVE  ResultInv' /\ Good'
<1>1. /\ UNCHANGED <<disk, v, a, h, solidr, fed, cur, got, ctx>> /\ pc' = "next"
      /\ pc = "copy" /\ ctx = "copy" /\ Len(got) = Size(cur)
      /\ result' = [result EXCEPT ![cur] = IF Valid THEN "ok" ELSE "failed"]
  BY DEF FileEnds, arch, WalkTypeOK
<1>2. PICK p \in Blocks(disk) : Current(p)
  BY <1>1, ReadsOne
<1>3. /\ cur \in Names /\ Size(cur) \in Nat /\ h # None
      /\ Units(cur) \in Seq(Data) /\ Len(Units(cur)) = Size(cur)
      /\ Upto(disk, p) \in Nat /\ Upto(disk, p) <= Size(cur)
      /\ h.last = (Upto(disk, p) = Size(cur)) /\ (h.last => h.sum = cur)
  BY <1>2, CurrentFile
<1>4. Valid
  <2>1. got = SubSeq(Units(cur), 1, Len(got)) /\ Len(got) = Upto(disk, p) - a.left /\ a.sum = h.sum
    BY <1>1, <1>2 DEF Current, Passed
  <2>2. got = Units(cur)
    BY <1>1, <1>3, <2>1, SubSeqFull
  <2>3. a.left \in Nat
    BY DEF Good, VolumeInv
  <2>4. Upto(disk, p) = Size(cur)
    BY <1>1, <1>3, <2>1, <2>3
  <2> QED
    BY <1>3, <2>1, <2>2, <2>4 DEF Valid
<1>5. result' = [result EXCEPT ![cur] = "ok"] /\ DOMAIN result = Names
  BY <1>1, <1>4 DEF WalkTypeOK
<1>6. ReasonInv'
  BY <1>1 DEF ReasonInv, Seeking
<1>7. Good'
  <2>1. ~Outset /\ ~Seeking'
    BY <1>1 DEF Outset, Seeking
  <2> QED
    BY <1>1, <1>6, <2>1, QuietGood
<1>8. ResultInv'
  <2>1. Names' = Names
    BY <1>1 DEF Names
  <2>2. /\ \A f \in Names : result'[f] # "failed" /\ (result[f] # "none" => result'[f] # "none")
        /\ result'[cur] = "ok"
    BY <1>3, <1>5 DEF ResultInv
  <2>3. \A f, g \in DOMAIN disk.files :
           cur = disk.files[f].name /\ g < f => result[disk.files[g].name] # "none"
    BY <1>1, <1>3 DEF ResultInv
  <2>4. \A g \in DOMAIN disk.files : disk.files[g].name \in Names
    BY FileNamed DEF WalkTypeOK
  <2>5. \A f, g \in DOMAIN disk.files :
           cur = disk.files[f].name /\ g < f => result'[disk.files[g].name] # "none"
    BY <2>2, <2>3, <2>4
  <2> QED
    BY <1>1, <2>1, <2>2, <2>5 DEF ResultInv
<1> QED
  BY <1>7, <1>8

-----------------------------------------------------------------------------
(* A unit is read *)

\* It is the next one of the current file.
LEMMA UnitGiven ==
    ASSUME WalkTypeOK, Intact, Good, Reading, a.left # 0, NEW p \in Blocks(disk), Current(p)
    PROVE  /\ a.left \in Nat \ {0} /\ Passed(p) \in Nat /\ Passed(p) < Size(cur)
           /\ p[1] = v.name /\ v.pos \in Places(v.name)
           /\ Cell = Units(cur)[Passed(p) + 1] /\ Cell.t = "data"
           /\ ~(solidr /\ ctx = "skip")
<1> DEFINE n == h.n
           u == Upto(disk, p)
           i == p[2]
           l == a.left
<1>1. /\ n \in Nat /\ u \in n..Size(cur) /\ Size(cur) \in Nat /\ cur \in Names
      /\ \A j \in 1..n : CellAt(p[1], i + j) = Units(cur)[u - n + j]
  BY CurrentFile
<1>2. disk \in Disks /\ l \in Nat \ {0} /\ v.pos \in Nat \ {0}
  BY DEF WalkTypeOK, Good, VolumeInv
<1>3. p[1] = v.name /\ v.pos + l = i + 1 + n /\ l <= n
  BY DEF Current
<1>4. i \in Nat /\ v.name \in DOMAIN disk.vols
  BY <1>2, <1>3, BlockIs
<1>5. Len(Cells) \in Nat /\ Places(v.name) = 1..Len(Cells) /\ v.pos + l \in 1..Len(Cells) + 1
  BY <1>2, <1>4, VolumeFacts DEF Cells, Good, VolumeInv, Stops
<1> DEFINE j == 1 + n - l
           k == u - l
<1> HIDE DEF n, u, i, l
<1>6. j \in 1..n /\ i + j = v.pos /\ u - n + j = k + 1 /\ k \in Nat /\ k < Size(cur)
  BY <1>1, <1>2, <1>3, <1>4
<1>7. v.pos \in Places(v.name)
  BY <1>2, <1>5
<1> HIDE DEF j, k
<1>8. Cell = Units(cur)[k + 1]
  <2>1. CellAt(p[1], i + j) = Units(cur)[u - n + j]
    BY <1>1, <1>6
  <2> QED
    BY <1>3, <1>6, <2>1 DEF CellAt, Cell, Cells
<1>9. k = Passed(p)
  BY DEF k, u, l, Passed
<1>10. Cell.t = "data"
  <2>1. k + 1 \in 1..Size(cur)
    BY <1>1, <1>6
  <2>2. Units(cur)[k + 1] = [t |-> "data", name |-> cur, k |-> k + 1]
    BY <2>1 DEF Units
  <2> QED
    BY <1>8, <2>2
<1>11. ~(solidr /\ ctx = "skip")
  BY <1>2 DEF Good, ReasonInv, l
<1> QED
  BY <1>2, <1>3, <1>6, <1>7, <1>8, <1>9, <1>10, <1>11 DEF l

LEMMA ReadUnitGood ==
    ASSUME WalkTypeOK, Intact, Good, ResultInv, ReadUnit
    PROVE  ResultInv' /\ Good'
<1>1. /\ pc \in {"drain", "skip", "copy"} /\ ctx = pc /\ a.left # 0 /\ Wanted /\ ~AtEnd
      /\ v' = Past(1) /\ a' = [a EXCEPT !.left = @ - 1]
      /\ UNCHANGED <<disk, h, solidr, cur, result, pc, ctx>>
      /\ fed' = IF Decoding THEN Append(fed, Cell) ELSE fed
      /\ got' = IF pc = "copy" THEN Append(got, Cell) ELSE got
  BY DEF ReadUnit, Reading, WalkTypeOK, Past
<1>2. PICK p \in Blocks(disk) : Current(p)
  BY <1>1, ReadsOne
<1>3. /\ a.left \in Nat \ {0} /\ Passed(p) \in Nat /\ Passed(p) < Size(cur)
      /\ p[1] = v.name /\ v.pos \in Places(v.name)
      /\ Cell = Units(cur)[Passed(p) + 1] /\ Cell.t = "data"
      /\ ~(solidr /\ ctx = "skip")
  BY <1>1, <1>2, UnitGiven DEF Reading
<1>4. disk \in Disks /\ v.pos \in Nat \ {0} /\ Cell = Cells[v.pos]
  BY DEF WalkTypeOK, Cell
<1>5. /\ v'.name = v.name /\ v'.num = v.num /\ v'.old = v.old /\ v'.open = v.open
      /\ v'.pos = v.pos + 1
  BY <1>1, FurtherIn
<1>6. /\ a'.left = a.left - 1 /\ a'.left \in Nat /\ a'.enc = a.enc /\ a'.multi = a.multi
      /\ a'.solid = a.solid /\ a'.old = a.old /\ a'.sum = a.sum
  BY <1>1, <1>3 DEF WalkTypeOK
<1>7. v'.pos + a'.left = v.pos + a.left
  BY <1>3, <1>4, <1>5, <1>6
<1>8. VolumeInv'
  <2>1. Cells' = Cells /\ ~Seeking' /\ pc' \notin {"open", "openAtEOF"}
    BY <1>1, <1>5 DEF Cells, Seeking
  <2>2. VolumeInv /\ pc # "open"
    BY <1>1 DEF Good
  <2> QED
    BY <1>1, <1>5, <1>6, <1>7, <2>1, <2>2 DEF VolumeInv
<1>9. ArcInv'
  <2>1. \A j : j \in Places(v.name) /\ j < v.pos + 1 => j < v.pos \/ j = v.pos
    BY <1>3, <1>4, VolumeFacts DEF WalkTypeOK
  <2>2. CellAt(v.name, v.pos) = Cell /\ \A j : CellAt(v.name, j)' = CellAt(v.name, j)
    BY <1>1, <1>4, <1>5 DEF CellAt, Cells
  <2>3. Arcs(disk)' = Arcs(disk) /\ Places(v.name)' = Places(v.name)
    BY <1>1, <1>5 DEF Places
  <2>4. ArcInv
    BY DEF Good
  <2> QED
    BY <1>3, <1>5, <1>6, <2>1, <2>2, <2>3, <2>4 DEF ArcInv, CellAt, Places
<1>10. ReasonInv'
  BY <1>1, <1>3 DEF ReasonInv, Seeking
<1>11. BlocksKept
  <2>1. \A j \in v.pos..v.pos + 1 - 1 : j = v.pos
    BY <1>4
  <2>2. \A j \in v.pos..v.pos + 1 - 1 : Cells[j].t # "file"
    BY <1>3, <1>4, <2>1
  <2> QED
    BY <1>1, <2>2, NonePassed
<1>12. /\ Units(cur) \in Seq(Data) /\ Len(Units(cur)) = Size(cur) /\ Before(cur) \in Seq(Data)
       /\ Size(cur) \in Nat /\ h.n \in Nat /\ Upto(disk, p) \in Nat /\ Len(got) \in Nat
  BY <1>2, CurrentFile
<1>13. Passed(p)' = Passed(p) + 1
  BY <1>1, <1>3, <1>6, <1>12 DEF Passed
<1>14. \A n \in Nat : n < Size(cur) =>
          Append(SubSeq(Units(cur), 1, n), Units(cur)[n + 1]) = SubSeq(Units(cur), 1, n + 1)
  BY <1>12, OneMore
<1>15. /\ Len(got') <= Size(cur) /\ got' = SubSeq(Units(cur), 1, Len(got'))
       /\ ctx = "copy" /\ pc # "next" => Len(got') = Passed(p)'
  <2>1. CASE pc = "copy"
    <3>1. Len(got) = Passed(p) /\ got = SubSeq(Units(cur), 1, Len(got))
      BY <1>1, <1>2, <2>1 DEF Current
    <3>2. got' = Append(got, Cell)
      BY <1>1, <2>1
    <3>3. got' = SubSeq(Units(cur), 1, Passed(p) + 1)
      BY <1>3, <1>14, <3>1, <3>2
    <3>4. Len(got') = Passed(p) + 1
      BY <3>1, <3>2, AppendProperties DEF WalkTypeOK
    <3> QED
      BY <1>3, <1>12, <1>13, <3>3, <3>4
  <2>2. CASE pc # "copy"
    BY <1>1, <1>2, <2>2 DEF Current
  <2> QED
    BY <2>1, <2>2
<1>16. solidr => fed' = Before(cur) \o SubSeq(Units(cur), 1, Passed(p)')
  <2> SUFFICES ASSUME solidr PROVE fed' = Before(cur) \o SubSeq(Units(cur), 1, Passed(p)')
    OBVIOUS
  <2>1. disk.packed
    BY <1>2, <1>4, ArcThere DEF Current
  <2>2. fed' = Append(fed, Cell)
    BY <1>1, <1>3, <2>1 DEF Decoding
  <2> DEFINE b == Before(cur)
             u == Units(cur)
             n == Passed(p)
             s == SubSeq(u, 1, n)
             t == SubSeq(u, 1, n + 1)
  <2>3. fed = b \o s /\ Cell = u[n + 1] /\ t = Append(s, u[n + 1])
    BY <1>2, <1>3, <1>14 DEF Current
  <2>4. n \in Nat /\ n < Len(u) /\ u \in Seq(Data) /\ b \in Seq(Data)
    BY <1>3, <1>12
  <2>5. Passed(p)' = n + 1
    BY <1>13
  <2> HIDE DEF b, u, n, s
  <2>6. s \in Seq(Data) /\ u[n + 1] \in Data
    <3>1. \A j \in 1..n : u[j] \in Data
      BY <2>4, ElementOfSeq
    <3> QED
      BY <2>4, <3>1, SubSeqProperties, ElementOfSeq DEF s
  <2> HIDE DEF t
  <2>7. b \o t = Append(b \o s, u[n + 1])
    <3> DEFINE e == u[n + 1]
    <3>1. e \in Data /\ <<e>> \in Seq(Data)
      BY <2>6
    <3>2. Append(s, e) = s \o <<e>> /\ b \o s \in Seq(Data)
      BY <2>4, <2>6, <3>1, AppendIsConcat, ConcatProperties
    <3>3. Append(b \o s, e) = (b \o s) \o <<e>>
      BY <3>1, <3>2, AppendIsConcat
    <3>4. (b \o s) \o <<e>> = b \o (s \o <<e>>)
      BY <2>4, <2>6, <3>1, ConcatAssociative
    <3> QED
      BY <2>3, <3>2, <3>3, <3>4
  <2>8. fed' = b \o t
    BY <2>2, <2>3, <2>7
  <2> QED
    BY <2>5, <2>8 DEF b, t, u
<1>17. Current(p)'
  <2>1. Before(cur)' = Before(cur) /\ Units(cur)' = Units(cur) /\ Size(cur)' = Size(cur)
    BY <1>1 DEF Before, Whole, Units, Size
  <2>2. h' = Header(disk', p) /\ cur' = h'.name /\ a'.sum = h'.sum
    BY <1>1, <1>2, <1>6 DEF Current
  <2>3. ~Ahead(p[1], p[2])' /\ \A q \in Blocks(disk) : Precedes(p, q) => Ahead(q[1], q[2])'
    BY <1>2, <1>11 DEF Current, BlocksKept
  <2>4. a'.left # 0 => p[1] = v'.name /\ v'.pos + a'.left = p[2] + 1 + h'.n /\ a'.left <= h'.n
    <3>1. v.pos + a.left = p[2] + 1 + h.n /\ a.left <= h.n
      BY <1>2, <1>3 DEF Current
    <3> QED
      BY <1>1, <1>3, <1>5, <1>6, <1>7, <1>12, <3>1
  <2>5. \A c \in Arcs(disk) : solidr' = (disk.packed /\ c.solid)
    BY <1>1, <1>2 DEF Current
  <2> QED
    BY <1>1, <1>15, <1>16, <2>1, <2>2, <2>3, <2>4, <2>5 DEF Current
<1>18. PlaceInv'
  BY <1>1, <1>17 DEF PlaceInv
<1>19. ResultInv'
  BY <1>1, ResultKept
<1> QED
  BY <1>8, <1>9, <1>10, <1>18, <1>19 DEF Good

\* What an intact archive never makes happen.
LEMMA NeverIntact ==
    ASSUME WalkTypeOK, Intact, Good
    PROVE  ~(ReadShort \/ WriteFails \/ HeaderOfClosed \/ HeaderGarbled \/ HeaderRefused)
<1>1. ~ReadShort
  <2> SUFFICES ASSUME Reading, a.left # 0, AtEnd PROVE FALSE
    BY DEF ReadShort, Good, VolumeInv
  <2>1. PICK p \in Blocks(disk) : Current(p)
    BY ReadsOne DEF Reading, Seeking, WalkTypeOK
  <2>2. v.pos \in Places(v.name)
    BY <2>1, UnitGiven
  <2>3. Places(v.name) = 1..Len(Cells) /\ Len(Cells) \in Nat
    BY VolumeFacts DEF WalkTypeOK, Cells
  <2> QED
    BY <2>2, <2>3 DEF AtEnd
<1>2. ~WriteFails
  BY DEF WriteFails, Intact
<1>3. ~HeaderOfClosed
  BY DEF HeaderOfClosed, Good, VolumeInv
<1>4. ~HeaderGarbled
  BY HeaderGiven DEF HeaderGarbled, Good
<1>5. ~HeaderRefused
  <2> SUFFICES ASSUME pc = "header", ~AtEnd, Cell.t = "refused" PROVE FALSE
    BY DEF HeaderRefused, AtHeader
  <2>1. Cell.t \in Heads
    BY HeaderGiven DEF Good
  <2> QED
    BY <2>1 DEF Heads
<1> QED
  BY <1>1, <1>2, <1>3, <1>4, <1>5

-----------------------------------------------------------------------------
(* Headers, and the ends of volumes *)

\* A header that is no file's is passed with its data.
LEMMA HeaderPassed ==
    ASSUME WalkTypeOK, Intact, Good, ResultInv, pc = "header", ~AtEnd,
           Cell.t \notin {"file", "end"}, v' = Past(1 + DataOf(Cell)),
           UNCHANGED <<disk, h, solidr, fed, cur, got, result, pc, ctx>>,
           a'.left = 0, a'.sum = a.sum, ArcInv',
           a'.enc = (\/ a.enc
                     \/ IF disk.fmt = 50 THEN Cell.t = "key" ELSE Cell.t = "arc" /\ Cell.crypt)
    PROVE  ResultInv' /\ Good'
<1> DEFINE n == DataOf(Cell)
<1>1. /\ n \in Nat /\ a.left = 0 /\ v.pos \in Nat /\ Cell = Cells[v.pos]
      /\ \A j \in v.pos + 1..v.pos + n : Cells[j].t \in {"data", "bad"}
  <2>1. Seeking /\ VolumeInv
    BY DEF Seeking, Good
  <2>2. a.left = 0
    BY <2>1 DEF VolumeInv
  <2> QED
    BY <2>1, <2>2, HeaderGiven DEF WalkTypeOK, Cell
<1> HIDE DEF n
<1>2. VolumeInv'
  <2>1. n + a'.left = n /\ a'.left \in Nat /\ pc' \notin {"open", "openAtEOF"}
    BY <1>1
  <2> QED
    BY <1>1, <2>1, VolumeOn DEF n, Good
<1>3. BlocksKept
  <2>1. 1 + n \in Nat /\ \A j \in v.pos..v.pos + (1 + n) - 1 : j = v.pos \/ j \in v.pos + 1..v.pos + n
    BY <1>1
  <2>2. \A j \in v.pos..v.pos + (1 + n) - 1 : Cells[j].t # "file"
    BY <1>1, <2>1
  <2>3. v' = Past(1 + n)
    BY DEF n
  <2> QED
    BY <2>1, <2>2, <2>3, NonePassed
<1>4. PlaceInv'
  <2>1. Outset => ctx' = "find" /\ (pc' = "next" \/ Seeking')
    BY DEF Outset, Seeking
  <2> QED
    BY <1>1, <1>3, <2>1, PlaceKept DEF Good
<1>5. ReasonInv'
  BY <1>1 DEF ReasonInv, Good, Seeking
<1>6. ResultInv'
  BY ResultKept
<1> QED
  BY <1>2, <1>4, <1>5, <1>6 DEF Good

\* The flags of the archive are known once its header was passed.
LEMMA ArcPassed ==
    ASSUME WalkTypeOK, disk' = disk, NEW n \in Nat, v' = Past(1 + n), ~AtEnd, ArcInv,
           a'.multi = a.multi, a'.solid = a.solid, a'.old = a.old, Cell.t # "arc",
           \A j \in v.pos + 1..v.pos + n : Cells[j].t # "arc"
    PROVE  ArcInv'
<1>1. v'.name = v.name /\ v'.pos = v.pos + (1 + n)
  <2> DEFINE k == 1 + n
  <2>1. k \in Nat /\ v' = Past(k)
    OBVIOUS
  <2> HIDE DEF k
  <2>2. v' = [name |-> v.name, num |-> v.num, old |-> v.old, open |-> v.open, pos |-> v.pos + k]
    BY <2>1, FurtherIn
  <2> QED
    BY <2>2 DEF k
<1>2. v.pos \in Nat /\ Cell = Cells[v.pos] /\ disk \in Disks /\ v.name \in DOMAIN disk.vols
  BY DEF WalkTypeOK, Cell
<1>3. ASSUME NEW j \in Places(v.name), j < v'.pos, \A i \in Places(v.name) :
                i < v.pos => CellAt(v.name, i).t # "arc"
      PROVE  CellAt(v.name, j).t # "arc"
  <2>1. j \in Nat
    BY <1>2, VolumeFacts
  <2>2. j < v.pos \/ j = v.pos \/ j \in v.pos + 1..v.pos + n
    BY <1>1, <1>2, <1>3, <2>1
  <2>3. CellAt(v.name, j) = Cells[j]
    BY DEF CellAt, Cells
  <2> QED
    BY <1>2, <1>3, <2>2, <2>3
<1>4. Arcs(disk)' = Arcs(disk) /\ \A j : /\ j \in Places(v.name)' <=> j \in Places(v.name)
                                          /\ CellAt(v.name, j)' = CellAt(v.name, j)
  BY <1>1 DEF Places, CellAt
<1> QED
  BY <1>1, <1>3, <1>4 DEF ArcInv, Places, CellAt

LEMMA ArchiveHeaderGood ==
    ASSUME WalkTypeOK, Intact, Good, ResultInv, ArchiveHeader
    PROVE  ResultInv' /\ Good'
<1>1. /\ pc = "header" /\ ~AtEnd /\ Cell.t = "arc" /\ v' = Past(1)
      /\ UNCHANGED <<disk, h, solidr, fed, cur, got, result, pc, ctx>>
      /\ a' = [a EXCEPT !.enc = IF disk.fmt = 15 THEN Cell.crypt ELSE @, !.left = 0,
                        !.multi = Cell.multi, !.solid = Cell.solid, !.old = Cell.old]
  BY DEF ArchiveHeader, AtHeader
<1>2. /\ a'.enc = (IF disk.fmt = 15 THEN Cell.crypt ELSE a.enc) /\ a'.left = 0
      /\ a'.multi = Cell.multi /\ a'.solid = Cell.solid /\ a'.old = Cell.old /\ a'.sum = a.sum
  BY <1>1 DEF WalkTypeOK
<1>3. /\ disk \in Disks /\ v.name \in DOMAIN disk.vols /\ v.pos \in Places(v.name)
      /\ Cell = CellAt(v.name, v.pos) /\ Cell \in Arcs(disk) /\ disk.fmt \in {15, 50}
  BY <1>1, CellRead, ArcIn, IntactDisk DEF WalkTypeOK
<1>4. ArcInv'
  <2>1. Arcs(disk)' = Arcs(disk)
    BY <1>1
  <2> QED
    BY <1>2, <1>3, <2>1 DEF ArcInv
<1>5. a.enc \in BOOLEAN /\ (disk.fmt = 15 /\ a.enc => Cell.crypt)
  <2>1. a.enc = Encrypted(disk, v.name, v.pos + a.left) /\ a.left = 0
    BY <1>1 DEF Good, VolumeInv, Seeking
  <2>2. a.enc = Encrypted(disk, v.name, v.pos)
    BY <2>1 DEF WalkTypeOK
  <2>3. ASSUME disk.fmt = 15, a.enc PROVE Cell.crypt
    <3>1. PICK j \in 1..v.pos - 1 : CellAt(v.name, j).t = "arc" /\ CellAt(v.name, j).crypt
      <4>1. Encrypted(disk, v.name, v.pos) /\ disk.fmt # 50
        BY <2>2, <2>3
      <4> QED
        BY <4>1 DEF Encrypted, CellAt
    <3>2. j \in Places(v.name)
      BY <1>3, VolumeFacts
    <3>3. CellAt(v.name, j) \in Arcs(disk)
      BY <1>3, <3>1, <3>2, ArcIn
    <3>4. CellAt(v.name, j).crypt = Cell.crypt
      BY <1>3, <3>3, IntactDisk
    <3> QED
      BY <3>1, <3>4
  <2> QED
    BY <2>2, <2>3 DEF Encrypted
<1>6. Cell.crypt \in BOOLEAN
  BY <1>3, IntactDisk
<1>7. a'.enc = (\/ a.enc
                \/ IF disk.fmt = 50 THEN Cell.t = "key" ELSE Cell.t = "arc" /\ Cell.crypt)
  <2>1. CASE disk.fmt = 15
    <3>1. a'.enc = Cell.crypt /\ (a.enc => Cell.crypt) /\ Cell.t = "arc" /\ disk.fmt # 50
      BY <1>1, <1>2, <1>5, <2>1
    <3> QED
      BY <1>5, <1>6, <3>1
  <2>2. CASE disk.fmt = 50
    <3>1. a'.enc = a.enc /\ Cell.t # "key"
      BY <1>1, <1>2, <2>2
    <3> QED
      BY <1>5, <2>2, <3>1
  <2> QED
    BY <1>3, <2>1, <2>2
<1>8. DataOf(Cell) = 0 /\ Cell.t \notin {"file", "end"}
  BY <1>1 DEF DataOf
<1>9. v' = Past(1 + DataOf(Cell))
  BY <1>1, <1>8
<1> QED
  BY <1>1, <1>2, <1>4, <1>7, <1>8, <1>9, HeaderPassed

LEMMA EncryptionHeaderGood ==
    ASSUME WalkTypeOK, Intact, Good, ResultInv, EncryptionHeader
    PROVE  ResultInv' /\ Good'
<1>1. /\ pc = "header" /\ ~AtEnd /\ Cell.t = "key" /\ v' = Past(1)
      /\ UNCHANGED <<disk, h, solidr, fed, cur, got, result, pc, ctx>>
      /\ a' = [a EXCEPT !.enc = TRUE, !.left = 0]
  BY DEF EncryptionHeader, AtHeader
<1>2. /\ a'.enc = TRUE /\ a'.left = 0 /\ a'.sum = a.sum
      /\ a'.multi = a.multi /\ a'.solid = a.solid /\ a'.old = a.old
  BY <1>1 DEF WalkTypeOK
<1>3. DataOf(Cell) = 0 /\ Cell.t \notin {"file", "end", "arc"}
  BY <1>1 DEF DataOf
<1>4. v' = Past(1 + DataOf(Cell)) /\ v' = Past(1 + 0) /\ v.pos + 1..v.pos + 0 = {}
  BY <1>1, <1>3 DEF WalkTypeOK
<1>5. ArcInv'
  BY <1>1, <1>2, <1>3, <1>4, ArcPassed DEF Good
<1>6. disk.fmt = 50
  BY <1>1, HeaderGiven DEF Good
<1> QED
  BY <1>1, <1>2, <1>3, <1>4, <1>5, <1>6, HeaderPassed

LEMMA OtherHeaderGood ==
    ASSUME WalkTypeOK, Intact, Good, ResultInv, OtherHeader
    PROVE  ResultInv' /\ Good'
<1>1. pc = "header" /\ ~AtEnd /\ Cell.t = "service"
  BY DEF OtherHeader, AtHeader
<1>2. /\ DataOf(Cell) \in Nat /\ v.pos + DataOf(Cell) <= Len(Cells)
      /\ \A j \in v.pos + 1..v.pos + DataOf(Cell) : Cells[j].t \in {"data", "bad"}
  BY <1>1, HeaderGiven DEF Good
<1>3. DataOf(Cell) = Cell.n
  BY <1>1 DEF DataOf
<1>4. Len(Cells) \in Nat /\ v.pos \in Nat
  BY VolumeFacts DEF WalkTypeOK, Cells
<1>5. Len(Cells) - v.pos >= Cell.n
  BY <1>2, <1>3, <1>4
<1>6. /\ v' = Past(1 + DataOf(Cell)) /\ a' = [a EXCEPT !.left = 0]
      /\ UNCHANGED <<disk, h, solidr, fed, cur, got, result, pc, ctx>>
  BY <1>3, <1>5 DEF OtherHeader
<1>7. /\ a'.left = 0 /\ a'.sum = a.sum /\ a'.enc = a.enc
      /\ a'.multi = a.multi /\ a'.solid = a.solid /\ a'.old = a.old
  BY <1>6 DEF WalkTypeOK
<1>8. ArcInv'
  <2> DEFINE n == DataOf(Cell)
  <2>1. n \in Nat /\ v' = Past(1 + n) /\ \A j \in v.pos + 1..v.pos + n : Cells[j].t # "arc"
    BY <1>2, <1>6
  <2> HIDE DEF n
  <2>2. Cell.t # "arc" /\ ArcInv
    BY <1>1 DEF Good
  <2> QED
    BY <1>1, <1>6, <1>7, <2>1, <2>2, ArcPassed
<1>9. a.enc \in BOOLEAN
  BY DEF Good, VolumeInv, Encrypted
<1>10. Cell.t \notin {"file", "end", "key", "arc"}
  BY <1>1
<1>11. a'.enc = (\/ a.enc
                 \/ IF disk.fmt = 50 THEN Cell.t = "key" ELSE Cell.t = "arc" /\ Cell.crypt)
  BY <1>7, <1>9, <1>10
<1> QED
  BY <1>1, <1>6, <1>7, <1>8, <1>10, <1>11, HeaderPassed

LEMMA HeaderAtEndGood ==
    ASSUME WalkTypeOK, Intact, Good, ResultInv, HeaderAtEnd
    PROVE  ResultInv' /\ Good'
<1>1. /\ pc = "header" /\ AtEnd /\ UNCHANGED <<v, a>>
      /\ disk.fmt = 15 => /\ pc' = "openAtEOF"
                          /\ UNCHANGED <<disk, h, solidr, fed, cur, got, result, ctx>>
  BY DEF HeaderAtEnd, arch
<1>2. disk.fmt = 15
  <2>1. a.left = 0 /\ v.pos + a.left \in Stops(Cells)
        /\ (disk.fmt = 50 => v.pos + a.left # Len(Cells) + 1)
    BY <1>1 DEF Good, VolumeInv, Seeking
  <2>2. Len(Cells) \in Nat /\ v.pos \in Nat /\ disk.fmt \in {15, 50}
    BY VolumeFacts, IntactDisk DEF WalkTypeOK, Cells
  <2>3. v.pos \in 1..Len(Cells) + 1
    BY <2>1, <2>2 DEF Stops
  <2> QED
    BY <1>1, <2>1, <2>2, <2>3 DEF AtEnd
<1>3. a.left = 0 /\ Seeking' /\ Seeking
  BY <1>1, <1>2 DEF Good, VolumeInv, Seeking
<1>4. ReasonInv'
  BY <1>1, <1>2, <1>3 DEF ReasonInv, Good
<1>5. Outset => ctx' = "find"
  BY <1>1, <1>2 DEF Outset
<1>6. Good'
  BY <1>1, <1>2, <1>3, <1>4, <1>5, QuietGood
<1>7. ResultInv'
  BY <1>1, <1>2, ResultKept
<1> QED
  BY <1>6, <1>7

\* Where the archive ends no file is being read, and each has its result.
LEMMA AllRead ==
    ASSUME WalkTypeOK, Intact, Good, ResultInv, Seeking,
           \A q \in Blocks(disk) : ~Ahead(q[1], q[2])
    PROVE  ctx = "find" /\ \A f \in Names : result[f] # "none"
<1>1. CASE Outset /\ Names = {}
  BY <1>1 DEF Outset
<1>2. CASE \E p \in Blocks(disk) :
              Current(p) /\ h.last /\ cur = disk.files[Len(disk.files)].name
  <2>1. PICK p \in Blocks(disk) :
           Current(p) /\ h.last /\ cur = disk.files[Len(disk.files)].name
    BY <1>2
  <2>2. h # None
    BY <2>1, CurrentFile
  <2>3. ctx = "find"
    BY <2>1, <2>2 DEF Good, ReasonInv
  <2>4. /\ result[cur] # "none"
        /\ \A f, g \in DOMAIN disk.files :
              cur = disk.files[f].name /\ g < f => result[disk.files[g].name] # "none"
    BY <2>2, <2>3 DEF ResultInv, Seeking
  <2>5. ASSUME NEW f \in Names PROVE result[f] # "none"
    <3>1. disk.files \in Seq(ToSet(disk.files))
      BY IntactDisk DEF WalkTypeOK
    <3>2. PICK g \in DOMAIN disk.files : f = disk.files[g].name
      BY DEF Names, ToSet
    <3>3. g \in 1..Len(disk.files) /\ DOMAIN disk.files = 1..Len(disk.files) /\ Len(disk.files) \in Nat
      BY <3>1
    <3>4. g = Len(disk.files) \/ (g < Len(disk.files) /\ Len(disk.files) \in DOMAIN disk.files)
      BY <3>3
    <3> QED
      BY <2>1, <2>4, <3>2, <3>4
  <2> QED
    BY <2>3, <2>5
<1> QED
  BY <1>1, <1>2, NoneAhead DEF Good

LEMMA EndsDone ==
    ASSUME WalkTypeOK, Intact, Good, ResultInv, Seeking,
           \A q \in Blocks(disk) : ~Ahead(q[1], q[2]),
           NEW e \in {"EOF", "errArchiveEnd"}, Fails(e)
    PROVE  ResultInv' /\ pc' = "done"
<1>1. ctx = "find" /\ \A f \in Names : result[f] # "none"
  BY AllRead
<1>2. pc' = "done" /\ result' = result /\ Names' = Names
  BY <1>1 DEF Fails, Ends, Names
<1> QED
  BY <1>1, <1>2 DEF ResultInv

\* The end block of the last volume.
LEMMA EndHeaderGood ==
    ASSUME WalkTypeOK, Intact, Good, ResultInv, EndHeader
    PROVE  ResultInv' /\ (pc' # "done" => Good')
<1>1. /\ AtHeader("end") /\ pc = "header" /\ ~AtEnd /\ Cell.t = "end"
      /\ v' = Past(1) /\ a' = [a EXCEPT !.left = 0]
  BY DEF EndHeader, AtHeader
<1>2. /\ a'.left = 0 /\ a'.sum = a.sum /\ a'.enc = a.enc
      /\ a'.multi = a.multi /\ a'.solid = a.solid /\ a'.old = a.old
  BY <1>1 DEF WalkTypeOK
<1>3. /\ v.pos = Len(Cells) /\ (Cell.more <=> \E y \in DOMAIN disk.vols : v.name[2] < y[2])
      /\ \E j \in Places(v.name) : j < v.pos /\ CellAt(v.name, j).t = "arc"
      /\ disk \in Disks /\ v.name \in DOMAIN disk.vols /\ v.pos \in Nat \ {0} /\ Cell = Cells[v.pos]
  BY <1>1, HeaderGiven DEF Good, WalkTypeOK, Cell
<1>4. Seeking /\ a.left = 0
  BY <1>1 DEF Seeking, Good, VolumeInv
<1>5. CASE Cell.more
  <2>1. PICK c \in Arcs(disk) : a.multi = c.multi
    BY <1>3 DEF Good, ArcInv
  <2>2. PICK y \in DOMAIN disk.vols : v.name[2] < y[2]
    BY <1>3, <1>5
  <2>3. y # v.name
    BY <1>3, <2>2, OneOfANumber
  <2>4. DOMAIN disk.vols # {First}
    BY <1>3, <2>3
  <2>5. a.multi
    BY <1>3, <2>1, <2>4, IntactDisk
  <2>6. pc' = "open" /\ UNCHANGED <<disk, h, solidr, fed, cur, got, result, ctx>>
    BY <1>5, <2>5 DEF EndHeader, Continues
  <2>7. VolumeInv'
    BY <1>1, <1>2, <1>5, <2>6, VolumeEnds DEF Good
  <2>8. ArcInv'
    <3>1. v' = Past(1 + 0) /\ v.pos + 1..v.pos + 0 = {} /\ Cell.t # "arc"
      BY <1>1, <1>3
    <3> QED
      BY <1>1, <1>2, <2>6, <3>1, ArcPassed DEF Good
  <2>9. BlocksKept
    <3>1. \A j \in v.pos..v.pos + 1 - 1 : j = v.pos
      BY <1>3
    <3>2. \A j \in v.pos..v.pos + 1 - 1 : Cells[j].t # "file"
      BY <1>1, <1>3, <3>1
    <3> QED
      BY <1>1, <2>6, <3>2, NonePassed
  <2>10. Seeking'
    BY <2>6 DEF Seeking
  <2>11. PlaceInv'
    <3>1. Outset => ctx' = "find"
      BY <2>6 DEF Outset
    <3> QED
      BY <1>1, <1>2, <1>4, <2>6, <2>9, <2>10, <3>1, PlaceKept DEF Good
  <2>12. ReasonInv'
    BY <1>1, <1>4, <2>6, <2>10 DEF Good, ReasonInv
  <2>13. ResultInv'
    BY <1>1, <2>6, ResultKept
  <2> QED
    BY <2>7, <2>8, <2>11, <2>12, <2>13 DEF Good
<1>6. CASE ~Cell.more
  <2>1. Fails("errArchiveEnd")
    BY <1>6 DEF EndHeader, Continues
  <2>2. ASSUME NEW q \in Blocks(disk), Ahead(q[1], q[2]) PROVE FALSE
    <3>1. /\ q[1] \in DOMAIN disk.vols /\ q[2] \in Places(q[1])
          /\ CellAt(q[1], q[2]).t = "file"
      BY <1>3, BlockIs
    <3>2. q[1] = v.name /\ v.pos <= q[2]
      BY <1>3, <1>6, <2>2, <3>1 DEF Ahead
    <3>3. q[2] \in 1..Len(Cells) /\ Len(Cells) \in Nat
      BY <1>3, <3>1, <3>2, VolumeFacts DEF Cells
    <3>4. q[2] = v.pos
      BY <1>3, <3>2, <3>3
    <3> QED
      BY <1>1, <1>3, <3>1, <3>2, <3>4 DEF CellAt, Cells
  <2> QED
    BY <1>4, <2>1, <2>2, EndsDone
<1> QED
  BY <1>5, <1>6

\* Behind the end of a volume a block is in a later one.
LEMMA AheadAtEnd ==
    ASSUME WalkTypeOK, Intact, AtEnd, NEW q \in Blocks(disk)
    PROVE  Ahead(q[1], q[2]) <=> v.name[2] < q[1][2]
<1>1. /\ disk \in Disks /\ q[1] \in DOMAIN disk.vols /\ q[2] \in Places(q[1])
      /\ v.name \in DOMAIN disk.vols /\ v.pos \in Nat
  BY BlockIs DEF WalkTypeOK
<1>2. q[1] = v.name => q[2] \in 1..Len(Cells) /\ Len(Cells) \in Nat
  BY <1>1, VolumeFacts DEF Cells
<1>3. q[1] = v.name => ~(v.pos <= q[2])
  BY <1>1, <1>2 DEF AtEnd
<1> QED
  BY <1>3 DEF Ahead

LEMMA NextVolumeMissingGood ==
    ASSUME WalkTypeOK, Intact, Good, ResultInv, NextVolumeMissing
    PROVE  ResultInv' /\ pc' = "done"
<1>1. pc \in {"open", "openAtEOF"} /\ ~Exists(NextScheme) /\ Seeking
  BY DEF NextVolumeMissing, Seeking
<1>2. ~\E y \in DOMAIN disk.vols : v.name[2] < y[2]
  BY <1>1, NextIsThere DEF Good
<1>3. pc = "openAtEOF" /\ AtEnd
  BY <1>1, <1>2 DEF Good, VolumeInv
<1>4. \A q \in Blocks(disk) : ~Ahead(q[1], q[2])
  BY <1>2, <1>3, AheadAtEnd, BlockIs DEF WalkTypeOK
<1>5. Fails("EOF")
  BY <1>3 DEF NextVolumeMissing
<1> QED
  BY <1>1, <1>4, <1>5, EndsDone

LEMMA OpenNextVolumeGood ==
    ASSUME WalkTypeOK, Intact, Good, ResultInv, OpenNextVolume
    PROVE  ResultInv' /\ Good'
<1>1. /\ VolumeInv' /\ pc' = "header" /\ a' = Renewed /\ disk' = disk
      /\ UNCHANGED <<h, solidr, fed, cur, got, result, ctx>>
  BY VolumeOpens DEF Good
<1>2. pc \in {"open", "openAtEOF"} /\ AtEnd /\ a.left = 0 /\ Seeking /\ Seeking'
  BY <1>1 DEF OpenNextVolume, Good, VolumeInv, Seeking
<1>3. /\ a'.left = a.left /\ a'.sum = a.sum
      /\ a'.multi = a.multi /\ a'.solid = a.solid /\ a'.old = a.old
  BY <1>1 DEF Renewed, WalkTypeOK
<1>4. /\ v'.name \in DOMAIN disk.vols /\ v'.name[2] = v.name[2] + 1 /\ v'.pos = 1
      /\ disk \in Disks /\ v.name \in DOMAIN disk.vols
  <2> DEFINE name == NameOf(NextScheme)
  <2>1. name \in DOMAIN disk.vols /\ name[2] = v.name[2] + 1 /\ disk \in Disks
    BY DEF OpenNextVolume, Exists, NameOf, WalkTypeOK
  <2>2. disk.vols[name].sig = disk.fmt /\ disk.fmt \in {15, 50}
    BY <2>1, IntactDisk DEF SoundVolume
  <2> DEFINE sig == disk.vols[name].sig
  <2>3. v' = [name |-> name, num |-> v.num + 1, old |-> NextScheme = "old", open |-> TRUE,
              pos |-> IF sig = 0 THEN Len(disk.vols[name].cells) + 1 ELSE 1]
    BY DEF OpenNextVolume
  <2>4. sig # 0
    BY <2>2
  <2> HIDE DEF name, sig
  <2>5. v'.name = name /\ v'.pos = 1
    BY <2>3, <2>4
  <2> QED
    BY <2>1, <2>5 DEF WalkTypeOK
<1>5. BlocksKept
  <2> SUFFICES ASSUME NEW q \in Blocks(disk)
               PROVE  Ahead(q[1], q[2])' <=> Ahead(q[1], q[2])
    BY DEF BlocksKept
  <2>1. q[1] \in DOMAIN disk.vols /\ q[2] \in Nat \ {0}
    BY <1>4, BlockIs
  <2>2. /\ q[1][2] \in Nat /\ v.name[2] \in Nat /\ v'.name[2] \in Nat
        /\ q[1][2] = v'.name[2] => q[1] = v'.name
    BY <1>4, <2>1, OneOfANumber
  <2>3. Ahead(q[1], q[2])' <=> v'.name[2] < q[1][2] \/ q[1] = v'.name
    BY <1>4, <2>1 DEF Ahead
  <2>4. Ahead(q[1], q[2]) <=> v.name[2] < q[1][2]
    BY <1>2, AheadAtEnd
  <2> QED
    BY <1>4, <2>2, <2>3, <2>4
<1>6. PlaceInv'
  <2>1. Outset => ctx' = "find"
    BY <1>1 DEF Outset
  <2>2. ctx' = "copy" /\ pc' # "next" => ctx = "copy" /\ pc # "next"
    BY <1>1, <1>2
  <2> QED
    BY <1>1, <1>2, <1>3, <1>5, <2>1, <2>2, PlaceKept DEF Good
<1>7. ArcInv'
  <2>1. Arcs(disk)' = Arcs(disk)
    BY <1>1
  <2>2. \A j \in Places(v.name)' : ~(j < v'.pos)
    <3>1. (Places(v.name))' = Places(v'.name)
      BY <1>1 DEF Places
    <3>2. \A j \in Places(v'.name) : j \in Nat \ {0}
      BY <1>4, VolumeFacts
    <3> QED
      BY <1>4, <3>1, <3>2
  <2>3. ArcInv
    BY DEF Good
  <2> QED
    BY <1>3, <2>1, <2>2, <2>3 DEF ArcInv
<1>8. ReasonInv'
  BY <1>1, <1>2, <1>3 DEF Good, ReasonInv
<1>9. ResultInv'
  BY <1>1, <1>2, ResultKept
<1> QED
  BY <1>1, <1>6, <1>7, <1>8, <1>9 DEF Good

-----------------------------------------------------------------------------
(* The header of a file's block *)

\* It is that of the block that follows: the first one of all, the first one
\* of the next file behind a last one, or the next one of the same file.
LEMMA FileGiven ==
    ASSUME WalkTypeOK, Intact, Good, AtHeader("file")
    PROVE  LET q == <<v.name, v.pos>>
           IN  /\ q \in Blocks(disk) /\ Header(disk, q) = Cell
               /\ Outset => \A r \in Blocks(disk) : ~Precedes(r, q)
               /\ \A p \in Blocks(disk) : Current(p) =>
                     /\ Precedes(p, q)
                     /\ \A r \in Blocks(disk) : ~(Precedes(p, r) /\ Precedes(r, q))
                     /\ h.last <=> ctx = "find"
<1> DEFINE q == <<v.name, v.pos>>
<1>1. /\ q \in Blocks(disk) /\ Ahead(q[1], q[2]) /\ Header(disk, q) = Cell
      /\ \A r \in Blocks(disk) : Ahead(r[1], r[2]) => ~Precedes(r, q)
  BY FirstAhead
<1> HIDE DEF q
<1>2. Outset => \A r \in Blocks(disk) : ~Precedes(r, q)
  BY <1>1 DEF Outset
<1>3. ASSUME NEW p \in Blocks(disk), Current(p)
      PROVE  /\ Precedes(p, q)
             /\ \A r \in Blocks(disk) : ~(Precedes(p, r) /\ Precedes(r, q))
             /\ h.last <=> ctx = "find"
  <2>1. ~Ahead(p[1], p[2]) /\ \A r \in Blocks(disk) : Precedes(p, r) => Ahead(r[1], r[2])
    BY <1>3 DEF Current
  <2>2. Precedes(p, q)
    BY <1>1, <2>1, BehindBefore
  <2>3. \A r \in Blocks(disk) : ~(Precedes(p, r) /\ Precedes(r, q))
    BY <1>1, <2>1
  <2>4. h # None /\ Seeking
    BY <1>3, CurrentFile DEF AtHeader, Seeking
  <2>5. h.last <=> ctx = "find"
    BY <2>4 DEF Good, ReasonInv
  <2> QED
    BY <2>2, <2>3, <2>5
<1> QED
  BY <1>1, <1>2, <1>3 DEF q

\* What reading it does to the volume and the archive.
LEMMA FileRead ==
    ASSUME WalkTypeOK, Intact, Good, FileHeader, pc' \in {"next", "drain", "skip", "copy"},
           NEW q \in Blocks(disk), q = <<v.name, v.pos>>
    PROVE  /\ VolumeInv' /\ ArcInv' /\ disk' = disk
           /\ a'.left = Cell.n /\ a'.sum = Cell.sum /\ Cell.n \in Nat
           /\ \A c \in Arcs(disk) : a.solid = c.solid
           /\ ~Ahead(q[1], q[2])' /\ \A r \in Blocks(disk) : Precedes(q, r) => Ahead(r[1], r[2])'
           /\ q[1] = v'.name /\ v'.pos + a'.left = q[2] + 1 + Cell.n
<1>1. /\ AtHeader("file") /\ pc = "header" /\ ~AtEnd /\ Cell.t = "file"
      /\ v' = Past(1) /\ a' = [a EXCEPT !.left = Cell.n, !.sum = Cell.sum]
      /\ disk' = disk
  BY DEF FileHeader, AtHeader, Fails
<1>2. /\ a'.left = Cell.n /\ a'.sum = Cell.sum /\ a'.enc = a.enc
      /\ a'.multi = a.multi /\ a'.solid = a.solid /\ a'.old = a.old
  BY <1>1 DEF WalkTypeOK
<1>3. v'.name = v.name /\ v'.pos = v.pos + 1
  BY <1>1, FurtherIn
<1>4. /\ DataOf(Cell) \in Nat /\ disk \in Disks /\ v.pos \in Nat \ {0} /\ v.name \in DOMAIN disk.vols
      /\ \E j \in Places(v.name) : j < v.pos /\ CellAt(v.name, j).t = "arc"
  BY <1>1, HeaderGiven DEF Good, WalkTypeOK
<1>5. DataOf(Cell) = Cell.n
  BY <1>1 DEF DataOf
<1>6. VolumeInv'
  <2>1. v' = Past(1 + 0) /\ 0 + a'.left = DataOf(Cell) /\ a'.left \in Nat
    BY <1>1, <1>2, <1>4, <1>5
  <2>2. ~Seeking' /\ pc' \notin {"open", "openAtEOF"} /\ Cell.t \notin {"end", "key", "arc"}
    BY <1>1 DEF Seeking
  <2>3. a.enc \in BOOLEAN
    BY DEF Good, VolumeInv, Encrypted
  <2>4. a'.enc = (\/ a.enc
                  \/ IF disk.fmt = 50 THEN Cell.t = "key" ELSE Cell.t = "arc" /\ Cell.crypt)
    BY <1>2, <2>2, <2>3
  <2> QED
    BY <1>1, <2>1, <2>2, <2>4, VolumeOn DEF Good
<1>7. ArcInv'
  <2>1. v' = Past(1 + 0) /\ v.pos + 1..v.pos + 0 = {} /\ Cell.t # "arc"
    BY <1>1, <1>4
  <2> QED
    BY <1>1, <1>2, <2>1, ArcPassed DEF Good
<1>8. \A c \in Arcs(disk) : a.solid = c.solid
  <2>1. PICK e \in Arcs(disk) : a.solid = e.solid
    BY <1>4 DEF Good, ArcInv
  <2> QED
    BY <1>4, <2>1, IntactDisk
<1>9. ~Ahead(q[1], q[2])'
  <2>1. v.name[2] \in Nat
    BY <1>4, OneOfANumber
  <2>2. ~(v.name[2] < v.name[2]) /\ ~(v.pos + 1 <= v.pos)
    BY <1>4, <2>1
  <2>3. q[1] = v.name /\ q[2] = v.pos
    OBVIOUS
  <2> QED
    BY <1>3, <2>2, <2>3 DEF Ahead
<1>10. ASSUME NEW r \in Blocks(disk), Precedes(q, r) PROVE Ahead(r[1], r[2])'
  <2>1. v.name[2] < r[1][2] \/ (r[1] = v.name /\ v.pos + 1 <= r[2])
    BY <1>1, <1>10, FirstAhead
  <2> QED
    BY <1>3, <2>1 DEF Ahead
<1>11. v'.pos + a'.left = v.pos + 1 + Cell.n
  BY <1>2, <1>3, <1>4, <1>5
<1>12. q[1] = v.name /\ q[2] = v.pos
  OBVIOUS
<1> QED
  BY <1>1, <1>2, <1>3, <1>4, <1>5, <1>6, <1>7, <1>8, <1>9, <1>10, <1>11, <1>12

\* The next file.  What the decoder of a solid archive was given are the files
\* before it.
LEMMA NextFile ==
    ASSUME WalkTypeOK, Intact, Good, ResultInv, FileHeader, ctx = "find"
    PROVE  /\ Cell.first
           /\ \E f \in DOMAIN disk.files :
                 /\ Cell.name = disk.files[f].name
                 /\ \A g \in DOMAIN disk.files : g < f => result[disk.files[g].name] # "none"
                 /\ disk.packed /\ a.solid =>
                       (IF Cell.solid THEN fed ELSE <<>>) = Before(Cell.name)
<1> DEFINE q == <<v.name, v.pos>>
<1>1. /\ AtHeader("file") /\ pc = "header" /\ ~AtEnd /\ Cell.t = "file" /\ disk \in Disks
      /\ v.name \in DOMAIN disk.vols
  BY DEF FileHeader, AtHeader, WalkTypeOK
<1>2. /\ q \in Blocks(disk) /\ Header(disk, q) = Cell
      /\ Outset => \A r \in Blocks(disk) : ~Precedes(r, q)
      /\ \A p \in Blocks(disk) : Current(p) =>
            /\ Precedes(p, q)
            /\ \A r \in Blocks(disk) : ~(Precedes(p, r) /\ Precedes(r, q))
            /\ h.last <=> ctx = "find"
  BY <1>1, FileGiven
<1> HIDE DEF q
<1>3. PICK c \in Arcs(disk) : a.solid = c.solid
  <2>1. \E j \in Places(v.name) : j < v.pos /\ CellAt(v.name, j).t = "arc"
    BY <1>1, HeaderGiven DEF Good
  <2> QED
    BY <2>1 DEF Good, ArcInv
<1>4. PICK f \in DOMAIN disk.files :
         /\ Cell.name = disk.files[f].name
         /\ disk.packed /\ c.solid => Cell.solid = (f # 1)
         /\ (\A r \in Blocks(disk) : ~Precedes(r, q)) => f = 1 /\ Cell.first
  BY <1>1, <1>2, <1>3, BlockSound
<1>5. DOMAIN disk.files = 1..Len(disk.files) /\ Len(disk.files) \in Nat
  <2>1. disk.files \in Seq(ToSet(disk.files))
    BY <1>1, IntactDisk
  <2> QED
    BY <2>1
<1>6. CASE Outset
  <2>1. f = 1 /\ Cell.first
    BY <1>2, <1>4, <1>6
  <2>2. \A g \in DOMAIN disk.files : ~(g < f)
    BY <1>5, <2>1
  <2>3. Before(Cell.name) = <<>>
    BY <1>1, <1>4, <2>1, BeforeFile
  <2>4. disk.packed /\ a.solid => ~Cell.solid
    BY <1>3, <1>4, <2>1
  <2> QED
    BY <1>4, <2>1, <2>2, <2>3, <2>4
<1>7. CASE \E p \in Blocks(disk) : Current(p)
  <2>1. PICK p \in Blocks(disk) : Current(p)
    BY <1>7
  <2>2. h.last /\ h = Header(disk, p) /\ h # None /\ cur = h.name
    BY <1>2, <2>1, CurrentFile
  <2>3. PICK e \in DOMAIN disk.files :
           /\ Cell.first /\ e < Len(disk.files) /\ e + 1 \in DOMAIN disk.files
           /\ cur = disk.files[e].name /\ Cell.name = disk.files[e + 1].name
    BY <1>1, <1>2, <2>1, <2>2, BlockFollows
  <2>4. f = e + 1
    <3>1. \A g \in DOMAIN disk.files : disk.files[g].name = disk.files[f].name => g = f
      BY <1>1, IntactDisk
    <3>2. disk.files[e + 1].name = disk.files[f].name
      BY <1>4, <2>3
    <3> QED
      BY <2>3, <3>1, <3>2
  <2>5. /\ result[cur] # "none"
        /\ \A i, g \in DOMAIN disk.files :
              cur = disk.files[i].name /\ g < i => result[disk.files[g].name] # "none"
    BY <1>1, <2>2 DEF ResultInv
  <2>6. ASSUME NEW g \in DOMAIN disk.files, g < f PROVE result[disk.files[g].name] # "none"
    <3>1. g < e \/ g = e
      BY <1>5, <2>4, <2>6
    <3> QED
      BY <2>3, <2>5, <3>1
  <2>7. disk.packed /\ a.solid => Cell.solid /\ fed = Before(Cell.name)
    <3> SUFFICES ASSUME disk.packed, a.solid PROVE Cell.solid /\ fed = Before(Cell.name)
      OBVIOUS
    <3>1. Cell.solid
      <4>1. e \in 1..Len(disk.files) /\ f # 1
        BY <1>5, <2>4
      <4>2. c.solid
        BY <1>3
      <4> QED
        BY <1>4, <4>1, <4>2
    <3>2. solidr /\ a.left = 0
      BY <1>1, <1>3, <2>1 DEF Current, Good, VolumeInv, Seeking
    <3>3. fed = Before(cur) \o SubSeq(Units(cur), 1, Upto(disk, p) - a.left)
      BY <2>1, <3>2 DEF Current, Passed
    <3>4. /\ Upto(disk, p) = Size(cur) /\ Size(cur) \in Nat
          /\ Units(cur) \in Seq(Data) /\ Len(Units(cur)) = Size(cur)
      BY <2>1, <2>2, CurrentFile
    <3>5. SubSeq(Units(cur), 1, Upto(disk, p) - a.left) = Units(cur)
      BY <3>2, <3>4, SubSeqFull
    <3>6. Before(Cell.name) = Before(cur) \o Units(cur)
      BY <1>1, <2>3, BeforeFile
    <3> QED
      BY <3>1, <3>3, <3>5, <3>6
  <2> QED
    BY <1>4, <2>3, <2>6, <2>7
<1> QED
  BY <1>6, <1>7 DEF Good, PlaceInv

LEMMA NextFileGood ==
    ASSUME WalkTypeOK, Intact, Good, ResultInv, FileHeader, ctx = "find"
    PROVE  ResultInv' /\ Good'
<1>0. PICK q \in Blocks(disk) : q = <<v.name, v.pos>> /\ Header(disk, q) = Cell
  BY FileGiven DEF FileHeader
<1>1. PICK f \in DOMAIN disk.files :
         /\ Cell.name = disk.files[f].name
         /\ \A g \in DOMAIN disk.files : g < f => result[disk.files[g].name] # "none"
         /\ disk.packed /\ a.solid => (IF Cell.solid THEN fed ELSE <<>>) = Before(Cell.name)
  BY NextFile
<1>2. Cell.first
  BY NextFile
<1>3. /\ h' = Cell /\ cur' = Cell.name /\ got' = <<>> /\ solidr' = (disk.packed /\ a.solid)
      /\ fed' = IF disk.packed /\ ~Cell.solid THEN <<>> ELSE fed
      /\ ctx' = "copy" /\ disk' = disk /\ pc = "header"
      /\ \/ pc' = "next" /\ result' = [result EXCEPT ![Cell.name] = "skipped"]
         \/ pc' = "copy" /\ result' = result
  BY <1>2 DEF FileHeader, KeepsDecoding, AtHeader
<1>4. /\ VolumeInv' /\ ArcInv' /\ a'.left = Cell.n /\ a'.sum = Cell.sum /\ Cell.n \in Nat
      /\ \A c \in Arcs(disk) : a.solid = c.solid
      /\ ~Ahead(q[1], q[2])' /\ \A r \in Blocks(disk) : Precedes(q, r) => Ahead(r[1], r[2])'
      /\ q[1] = v'.name /\ v'.pos + a'.left = q[2] + 1 + Cell.n
  BY <1>0, <1>3, FileRead
<1>5. q \in Blocks(disk) /\ Header(disk, q) = Cell /\ disk \in Disks
  BY <1>0 DEF WalkTypeOK
<1>6. ReasonInv'
  BY <1>3 DEF ReasonInv, Seeking
<1>7. /\ Upto(disk, q) = Cell.n /\ Size(Cell.name) \in Nat /\ Cell.name \in Names
      /\ Before(Cell.name) \in Seq(Data)
  BY <1>1, <1>2, <1>5, BlockSound, FileNamed, BeforeFile
<1>8. Passed(q)' = 0
  <2>1. Passed(q)' = Upto(disk, q) - Cell.n
    BY <1>3, <1>4 DEF Passed
  <2> QED
    BY <1>4, <1>7, <2>1
<1>9. SubSeq(Units(Cell.name), 1, 0) = <<>>
  BY SubSeqEmpty
<1>10. Current(q)'
  <2>1. \A e : Size(e)' = Size(e) /\ Units(e)' = Units(e) /\ Before(e)' = Before(e)
    BY <1>3 DEF Before, Whole, Units, Size
  <2>2. h' = Header(disk', q) /\ cur' = h'.name /\ a'.sum = h'.sum
    BY <1>3, <1>4, <1>5
  <2>3. a'.left # 0 => q[1] = v'.name /\ v'.pos + a'.left = q[2] + 1 + h'.n /\ a'.left <= h'.n
    BY <1>3, <1>4
  <2>4. /\ Len(got') = 0 /\ Len(got') <= Size(Cell.name)
        /\ got' = SubSeq(Units(Cell.name), 1, Len(got'))
    BY <1>3, <1>7, <1>9
  <2>5. \A c \in Arcs(disk) : solidr' = (disk.packed /\ c.solid)
    BY <1>3, <1>4
  <2>6. solidr' => fed' = Before(Cell.name) \o SubSeq(Units(Cell.name), 1, Passed(q)')
    <3>1. solidr' => fed' = Before(Cell.name)
      BY <1>1, <1>3
    <3>2. Before(Cell.name) \o <<>> = Before(Cell.name)
      BY <1>7, ConcatEmptySeq
    <3> QED
      BY <1>8, <1>9, <3>1, <3>2
  <2>7. /\ Size(cur)' = Size(Cell.name) /\ Units(cur)' = Units(Cell.name)
        /\ Before(cur)' = Before(Cell.name)
    BY <1>3 DEF Before, Whole, Units, Size
  <2> QED
    BY <1>3, <1>4, <1>8, <2>2, <2>3, <2>4, <2>5, <2>6, <2>7 DEF Current
<1>11. PlaceInv'
  BY <1>3, <1>5, <1>10 DEF PlaceInv
<1>12. ResultInv'
  <2>1. Names' = Names /\ h' # None /\ pc' # "done" /\ DOMAIN result = Names
    <3>1. Cell.t = "file" /\ None.t = "none"
      BY DEF FileHeader, AtHeader, None
    <3> QED
      BY <1>3, <3>1 DEF Names, WalkTypeOK
  <2>2. /\ \A e \in Names : result'[e] # "failed" /\ (result[e] # "none" => result'[e] # "none")
        /\ ~(ctx' = "copy" /\ pc' # "next") => result'[cur'] # "none"
    BY <1>3, <1>7, <2>1 DEF ResultInv
  <2>3. ASSUME NEW i \in DOMAIN disk.files, NEW g \in DOMAIN disk.files,
               cur' = disk.files[i].name, g < i
        PROVE  result'[disk.files[g].name] # "none"
    <3>1. i = f
      BY <1>1, <1>3, <1>5, <2>3, IntactDisk
    <3>2. disk.files[g].name \in Names
      BY <1>5, FileNamed
    <3> QED
      BY <1>1, <2>2, <2>3, <3>1, <3>2
  <2> QED
    BY <1>3, <2>1, <2>2, <2>3 DEF ResultInv
<1> QED
  BY <1>4, <1>6, <1>11, <1>12 DEF Good

\* A file goes on.
LEMMA SameFileGood ==
    ASSUME WalkTypeOK, Intact, Good, ResultInv, FileHeader, ctx # "find"
    PROVE  ResultInv' /\ Good'
<1>1. AtHeader("file") /\ pc = "header" /\ Cell.t = "file" /\ disk \in Disks /\ a.left = 0
  BY DEF FileHeader, AtHeader, WalkTypeOK, Good, VolumeInv, Seeking
<1>2. PICK p \in Blocks(disk) : Current(p)
  BY ReadsOne
<1>3. PICK q \in Blocks(disk) :
         /\ q = <<v.name, v.pos>> /\ Header(disk, q) = Cell /\ Precedes(p, q) /\ ~h.last
         /\ \A r \in Blocks(disk) : ~(Precedes(p, r) /\ Precedes(r, q))
  BY <1>1, <1>2, FileGiven
<1>4. h = Header(disk, p) /\ cur = h.name /\ h # None /\ Size(cur) \in Nat /\ Upto(disk, p) \in Nat
  BY <1>2, CurrentFile
<1>5. Cell.name = h.name /\ Upto(disk, q) - Cell.n = Upto(disk, p) /\ ~Cell.first
  BY <1>1, <1>3, <1>4, BlockFollows
<1>6. /\ h' = Cell /\ pc' = ctx
      /\ UNCHANGED <<disk, solidr, fed, cur, got, result, ctx>>
  BY <1>5 DEF FileHeader, SameFile
<1>7. pc' \in {"drain", "skip", "copy"}
  BY <1>6 DEF WalkTypeOK
<1>8. /\ VolumeInv' /\ ArcInv' /\ a'.left = Cell.n /\ a'.sum = Cell.sum /\ Cell.n \in Nat
      /\ ~Ahead(q[1], q[2])' /\ \A r \in Blocks(disk) : Precedes(q, r) => Ahead(r[1], r[2])'
      /\ q[1] = v'.name /\ v'.pos + a'.left = q[2] + 1 + Cell.n
  BY <1>3, <1>7, FileRead
<1>9. ReasonInv'
  <2>1. ~(solidr /\ ctx = "skip")
    BY <1>1 DEF Good, ReasonInv
  <2> QED
    BY <1>6, <1>7, <2>1 DEF ReasonInv, Seeking
<1>10. Passed(q)' = Passed(p)
  <2>1. Passed(q)' = Upto(disk, q) - Cell.n /\ Passed(p) = Upto(disk, p)
    BY <1>1, <1>4, <1>6, <1>8 DEF Passed
  <2> QED
    BY <1>5, <2>1
<1>11. Current(q)'
  <2>1. Size(cur)' = Size(cur) /\ Units(cur)' = Units(cur) /\ Before(cur)' = Before(cur)
    BY <1>6 DEF Before, Whole, Units, Size
  <2>2. h' = Header(disk', q) /\ cur' = h'.name /\ a'.sum = h'.sum
    BY <1>3, <1>4, <1>5, <1>6, <1>8
  <2>3. a'.left # 0 => q[1] = v'.name /\ v'.pos + a'.left = q[2] + 1 + h'.n /\ a'.left <= h'.n
    BY <1>6, <1>8
  <2>4. /\ Len(got') <= Size(cur) /\ got' = SubSeq(Units(cur), 1, Len(got'))
        /\ ctx' = "copy" => Len(got') = Passed(p)
    BY <1>1, <1>2, <1>6 DEF Current
  <2>5. /\ \A c \in Arcs(disk) : solidr' = (disk.packed /\ c.solid)
        /\ solidr' => fed' = Before(cur) \o SubSeq(Units(cur), 1, Passed(p))
    BY <1>2, <1>6 DEF Current
  <2> QED
    BY <1>6, <1>8, <1>10, <2>1, <2>2, <2>3, <2>4, <2>5 DEF Current
<1>12. PlaceInv'
  BY <1>3, <1>6, <1>11 DEF PlaceInv
<1>13. ResultInv'
  <2>1. Names' = Names
    BY <1>6 DEF Names
  <2>2. \A i, g \in DOMAIN disk.files :
           cur = disk.files[i].name /\ g < i => result[disk.files[g].name] # "none"
    BY <1>1, <1>4 DEF ResultInv
  <2>3. ctx # "copy" => result[cur] # "none"
    BY <1>1, <1>4 DEF ResultInv
  <2> QED
    BY <1>6, <1>7, <2>1, <2>2, <2>3 DEF ResultInv
<1> QED
  BY <1>8, <1>9, <1>12, <1>13 DEF Good

-----------------------------------------------------------------------------
(* All steps *)

LEMMA IntactInit == Init => IntactInv
<1> SUFFICES ASSUME Init, Intact PROVE ResultInv /\ VolumeInv /\ ArcInv /\ ReasonInv /\ PlaceInv
  BY DEF IntactInv
<1>1. /\ disk \in Disks /\ v.name = First /\ v.num = 0 /\ ~v.old /\ v.old = FALSE /\ v.open /\ v.pos = 1
      /\ a.enc = FALSE /\ ~a.multi /\ ~a.solid /\ ~a.old /\ a.left = 0
      /\ h = None /\ solidr = FALSE /\ cur = "none" /\ got = <<>> /\ pc = "next" /\ ctx = "find"
      /\ result = [f \in Names |-> "none"]
  BY DEF Init
<1>2. First \in DOMAIN disk.vols /\ First[2] = 1
  BY <1>1, ArchiveAssumption DEF First
<1>3. /\ 1 \in Stops(Cells) /\ (disk.fmt = 50 => Len(Cells) # 0)
      /\ Len(Cells) \in Nat
  <2>1. SoundVolume(disk, First) /\ Cells = disk.vols[First].cells
    BY <1>1, <1>2, IntactDisk DEF Cells
  <2>2. Cells \in Seq(ToSet(Cells))
    BY <1>1, <1>2, <2>1, ArchiveAssumption
  <2>3. Cells # <<>> => Len(Cells) # 0
    BY <2>2, EmptySeq
  <2>4. Len(Cells) \in Nat
    BY <2>2, LenProperties
  <2> QED
    BY <2>1, <2>3, <2>4 DEF SoundVolume
<1>4. Encrypted(disk, First, 1) = FALSE
  <2>1. 1..1 - 1 = {}
    OBVIOUS
  <2> QED
    BY <2>1 DEF Encrypted
<1>5. v.pos + a.left = 1 /\ v.num = v.name[2] - 1
  BY <1>1, <1>2
<1>6. VolumeInv
  <2>1. ~Seeking /\ (disk.fmt = 50 => v.pos + a.left # Len(Cells) + 1)
    BY <1>1, <1>3, <1>5 DEF Seeking
  <2>2. v.old = (v.num # 0 /\ v.name[1] = "old")
    BY <1>1
  <2>3. a.enc = Encrypted(disk, v.name, v.pos + a.left)
    BY <1>1, <1>4, <1>5
  <2>4. v.pos + a.left \in Stops(Cells) /\ pc \notin {"open", "openAtEOF"}
    BY <1>1, <1>3, <1>5
  <2>5. v.open /\ v.num = v.name[2] - 1 /\ a.left \in Nat
    <3>1. v.open
      BY <1>1
    <3>2. v.num = v.name[2] - 1
      BY <1>5
    <3>3. a.left \in Nat
      BY <1>1
    <3> QED
      BY <3>1, <3>2, <3>3
  <2>6. pc # "open" /\ pc # "openAtEOF"
    BY <1>1
  <2> QED
    BY <2>1, <2>2, <2>3, <2>4, <2>5, <2>6 DEF VolumeInv
<1>7. ArcInv
  <2>1. \A j \in Places(v.name) : ~(j < v.pos)
    <3>1. \A j \in Places(v.name) : j \in Nat \ {0}
      BY <1>1, <1>2, VolumeFacts
    <3> QED
      BY <1>1, <3>1
  <2> QED
    BY <1>1, <2>1 DEF ArcInv
<1>8. ReasonInv
  BY <1>1 DEF ReasonInv, Seeking
<1>9. PlaceInv
  <2>1. ASSUME NEW q \in Blocks(disk) PROVE Ahead(q[1], q[2])
    <3>1. q[1] \in DOMAIN disk.vols /\ q[2] \in Nat \ {0}
      BY <1>1, BlockIs
    <3>2. q[1][2] \in Nat \ {0} /\ (q[1][2] = 1 => q[1] = First)
      BY <1>1, <1>2, <3>1, OneOfANumber
    <3>3. 1 < q[1][2] \/ q[1] = First
      BY <3>2
    <3> QED
      BY <1>1, <1>2, <3>1, <3>3 DEF Ahead
  <2> QED
    BY <1>1, <2>1 DEF PlaceInv, Outset
<1>10. ResultInv
  BY <1>1 DEF ResultInv
<1> QED
  BY <1>6, <1>7, <1>8, <1>9, <1>10

LEMMA IntactStep == WalkTypeOK /\ IntactInv /\ [Next]_vars => IntactInv'
<1> SUFFICES ASSUME WalkTypeOK, IntactInv, [Next]_vars, Intact'
             PROVE  ResultInv' /\ (pc' # "done" => Good')
  BY DEF IntactInv, Good
<1>1. disk' = disk
  BY WalkTypes DEF Onward
<1>2. Intact /\ ResultInv /\ (pc # "done" => Good)
  BY <1>1 DEF Intact, IntactInv, Good
<1>3. CASE UNCHANGED vars
  <2>1. v' = v /\ a' = a /\ UNCHANGED <<h, solidr, fed, cur, got, result, pc, ctx>>
    BY <1>3 DEF vars, arch
  <2>2. ResultInv'
    BY <1>1, <1>2, <2>1 DEF ResultInv, Names
  <2>3. Good => Good'
    <3>1. Good => VolumeInv' /\ ReasonInv'
      BY <1>1, <2>1 DEF Good, VolumeInv, ReasonInv, Seeking, AtEnd, Cells
    <3>2. Good => ArcInv'
      BY <1>1, <2>1, ArcStays DEF Good
    <3>3. Good => PlaceInv'
      <4>1. Outset => ctx' = "find" /\ (pc' = "next" \/ Seeking')
        BY <2>1 DEF Outset, Seeking
      <4> QED
        BY <1>1, <1>2, <2>1, <4>1, BlocksStay, PlaceKept DEF Good
    <3> QED
      BY <3>1, <3>2, <3>3 DEF Good
  <2> QED
    BY <1>2, <2>1, <2>2, <2>3
<1>4. CASE Done
  BY <1>3, <1>4 DEF Done
<1>5. CASE Next /\ ~Done
  <2>1. pc # "done"
    BY <1>5 DEF Next, CallNext, ReadUnit, ReadShort, BlockEnds, PackedEnds, Reading, FileEnds,
                WriteFails, HeaderAtEnd, HeaderOfClosed, HeaderGarbled, HeaderRefused,
                ArchiveHeader, EncryptionHeader, OtherHeader, EndHeader, FileHeader, AtHeader,
                NextVolumeMissing, OpenNextVolume
  <2>2. Good
    BY <1>2, <2>1
  <2>3. ~(ReadShort \/ WriteFails \/ HeaderOfClosed \/ HeaderGarbled \/ HeaderRefused)
    BY <1>2, <2>2, NeverIntact
  <2>4. CASE CallNext
    BY <1>2, <2>2, <2>4, CallNextGood
  <2>5. CASE ReadUnit
    BY <1>2, <2>2, <2>5, ReadUnitGood
  <2>6. CASE BlockEnds
    BY <1>2, <2>2, <2>6, BlockEndsGood
  <2>7. CASE PackedEnds
    BY <1>2, <2>2, <2>7, PackedEndsGood
  <2>8. CASE FileEnds
    BY <1>2, <2>2, <2>8, FileEndsGood
  <2>9. CASE HeaderAtEnd
    BY <1>2, <2>2, <2>9, HeaderAtEndGood
  <2>10. CASE ArchiveHeader
    BY <1>2, <2>2, <2>10, ArchiveHeaderGood
  <2>11. CASE EncryptionHeader
    BY <1>2, <2>2, <2>11, EncryptionHeaderGood
  <2>12. CASE OtherHeader
    BY <1>2, <2>2, <2>12, OtherHeaderGood
  <2>13. CASE EndHeader
    BY <1>2, <2>2, <2>13, EndHeaderGood
  <2>14. CASE FileHeader
    <3>1. CASE ctx = "find"
      BY <1>2, <2>2, <2>14, <3>1, NextFileGood
    <3>2. CASE ctx # "find"
      BY <1>2, <2>2, <2>14, <3>2, SameFileGood
    <3> QED
      BY <3>1, <3>2
  <2>15. CASE NextVolumeMissing
    BY <1>2, <2>2, <2>15, NextVolumeMissingGood
  <2>16. CASE OpenNextVolume
    BY <1>2, <2>2, <2>16, OpenNextVolumeGood
  <2> QED
    BY <1>5, <2>3, <2>4, <2>5, <2>6, <2>7, <2>8, <2>9, <2>10, <2>11, <2>12, <2>13, <2>14,
       <2>15, <2>16 DEF Next
<1> QED
  BY <1>3, <1>4, <1>5

\* An intact archive is walked from block to block in their order.
THEOREM IntactInvariance == Spec => []IntactInv
<1>1. Init => IntactInv
  BY IntactInit
<1>2. WalkInv => WalkTypeOK
  BY DEF WalkInv
<1>3. Spec => []WalkInv
  BY WalkInvariance
<1> QED
  BY <1>1, <1>2, <1>3, IntactStep, PTL DEF Spec

\* What the decoder of a solid archive was given when a file is copied is every
\* file before it and what the file got (decodeReader is not reset, and
\* Reader.Next reads on to the end of a file that is left).
THEOREM DecoderFed == Spec => []SolidFed
<1>1. WalkInv /\ IntactInv => SolidFed
  <2> SUFFICES ASSUME WalkTypeOK, IntactInv, Intact, solidr, pc = "copy"
               PROVE  fed = Before(cur) \o got
    BY DEF SolidFed, WalkInv
  <2>1. Good /\ ctx = "copy"
    BY DEF IntactInv, Good, WalkTypeOK
  <2>2. PICK p \in Blocks(disk) : Current(p)
    BY <2>1, ReadsOne
  <2>3. /\ got = SubSeq(Units(cur), 1, Len(got)) /\ Len(got) = Passed(p)
        /\ fed = Before(cur) \o SubSeq(Units(cur), 1, Passed(p))
    BY <2>1, <2>2 DEF Current
  <2> QED
    BY <2>3
<1> QED
  BY <1>1, WalkInvariance, IntactInvariance, PTL

-----------------------------------------------------------------------------
(* Format 50: the units of a file have their numbers *)

LEMMA BlockNumbers ==
    ASSUME disk \in Disks, disk.fmt = 50, NEW p \in Blocks(disk)
    PROVE  LET c == Header(disk, p)
           IN  /\ ~c.last => c.n # 0
               /\ \A j \in 1..c.n : Holds(disk, p, j) =>
                     /\ UnitOf(disk, p, j).k \in Nat
                     /\ UnitOf(disk, p, j).k = (IF c.first THEN 0 ELSE UnitOf(disk, p, 1).k - 1) + j
               /\ \A q \in Blocks(disk) : Header(disk, q).name = c.name =>
                     /\ q[1][2] = p[1][2] => q = p
                     /\ q[1][2] = p[1][2] + 1 /\ Holds(disk, p, c.n) /\ Holds(disk, q, 1) =>
                           UnitOf(disk, q, 1).k = UnitOf(disk, p, c.n).k + 1
                     /\ \A y \in DOMAIN disk.vols :
                           p[1][2] < y[2] /\ y[2] < q[1][2] => Walled(disk, y, c.name)
  BY NumberingAssumption

LEMMA HoldsIn ==
    ASSUME disk \in Disks, NEW p \in Blocks(disk), NEW j
    PROVE  Holds(disk, p, j) <=> j \in 1..Header(disk, p).n /\ p[2] + j \in Places(p[1])
  BY DEF Holds, Places

\* A header that is passed stands before any wall.
LEMMA AlongHeader ==
    ASSUME WalkTypeOK, NEW p \in Blocks(disk), Along(p), pc = "header", ~AtEnd,
           NEW n \in Nat, v' = Past(1 + n), UNCHANGED <<disk, h, got>>, a'.left = 0,
           \/ pc' = "header" /\ Cell.t \in {"arc", "key"} /\ n = 0
           \/ pc' = "header" /\ Cell.t = "service" /\ n = Cell.n
           \/ pc' = "open" /\ Cell.t = "end"
    PROVE  Along(p)'
<1>1. v'.name = v.name /\ v'.pos = v.pos + (1 + n)
  <2> DEFINE k == 1 + n
  <2>1. k \in Nat /\ v' = Past(k)
    OBVIOUS
  <2> HIDE DEF k
  <2>2. v' = [name |-> v.name, num |-> v.num, old |-> v.old, open |-> v.open, pos |-> v.pos + k]
    BY <2>1, FurtherIn
  <2> QED
    BY <2>2 DEF k
<1>2. /\ disk \in Disks /\ v.name \in DOMAIN disk.vols /\ v.pos \in Nat \ {0} /\ Cell = Cells[v.pos]
      /\ Cells = disk.vols[v.name].cells /\ Len(Cells) \in Nat /\ v.pos \in 1..Len(Cells)
  <2>1. v.name \in DOMAIN disk.vols /\ disk \in Disks /\ v.pos \in Places(v.name)
    BY CellRead DEF WalkTypeOK
  <2>2. Places(v.name) = 1..Len(Cells) /\ Len(Cells) \in Nat
    BY <2>1, VolumeFacts DEF Cells
  <2> QED
    BY <2>1, <2>2 DEF WalkTypeOK, Cell, Cells
<1>3. /\ h = Header(disk, p) /\ a.left = 0 /\ h.n \in Nat /\ p[2] \in Nat /\ ~h.last
      /\ (v.name = p[1] /\ p[2] < v.pos) \/ Beyond(p)
      /\ \A j \in 1..h.n : Holds(disk, p, j) => UnitOf(disk, p, j).k = Len(got) + j - (h.n - a.left)
      /\ h.n # a.left => Holds(disk, p, h.n - a.left)
  BY <1>2, BlockIs DEF Along
<1>4. ASSUME Beyond(p), NEW i \in 1..Len(Cells) + 1, WallAt(disk, v.name, h.name, i)
      PROVE  pc' = "header" /\ v'.pos <= i
  <2>1. v.pos <= i
    BY <1>4 DEF Beyond
  <2>2. /\ i = Len(Cells) + 1 \/ Cells[i].t \notin Heads \/ Cells[i].t = "file"
        /\ \A j \in 1..i - 1 : /\ Cells[j].t # "end"
                               /\ Cells[j].t = "service" => j + 1 + Cells[j].n <= i
    BY <1>2, <1>4 DEF WallAt
  <2>3. i # v.pos
    <3> SUFFICES ASSUME i = v.pos PROVE FALSE
      OBVIOUS
    <3>1. Cell.t \in Heads /\ Cell.t # "file"
      BY DEF Heads
    <3>2. Cells[i] = Cell
      BY <1>2
    <3>3. i # Len(Cells) + 1
      BY <1>2
    <3> QED
      BY <2>2, <3>1, <3>2, <3>3
  <2>4. v.pos \in 1..i - 1
    BY <1>2, <2>1, <2>3
  <2>5. Cell.t # "end" /\ (Cell.t = "service" => v.pos + 1 + Cell.n <= i)
    BY <1>2, <2>2, <2>4
  <2>6. v.pos + 1 <= i /\ v.pos \in Nat /\ i \in Nat
    BY <1>2, <2>4
  <2>7. CASE pc' = "header" /\ Cell.t \in {"arc", "key"} /\ n = 0
    BY <1>1, <2>6, <2>7
  <2>8. CASE pc' = "header" /\ Cell.t = "service" /\ n = Cell.n
    <3>1. v.pos + 1 + n <= i
      BY <2>5, <2>8
    <3> QED
      BY <1>1, <2>6, <2>8, <3>1
  <2> QED
    BY <2>5, <2>7, <2>8
<1>5. Beyond(p) => Beyond(p)'
  <2> SUFFICES ASSUME Beyond(p) PROVE Beyond(p)'
    OBVIOUS
  <2>1. Cells' = Cells
    BY <1>1 DEF Cells
  <2>2. pc' = "header" => \A i \in 1..Len(Cells) + 1 : WallAt(disk, v.name, h.name, i) => v'.pos <= i
    BY <1>4
  <2>3. pc' = "open" => ~Walled(disk, v.name, h.name)
    <3>1. disk.vols[v.name].sig = disk.fmt
      BY DEF Beyond
    <3>2. pc' = "open" => \A i \in 1..Len(Cells) + 1 : ~WallAt(disk, v.name, h.name, i)
      BY <1>4
    <3> QED
      BY <1>2, <3>1, <3>2 DEF Walled
  <2>4. /\ p[1][2] < v.name[2] /\ disk.vols[v.name].sig = disk.fmt
        /\ \A m \in p[1][2] + 1..v.name[2] - 1 :
              \E y \in DOMAIN disk.vols : y[2] = m /\ ~Walled(disk, y, h.name)
    BY DEF Beyond
  <2> QED
    BY <1>1, <2>1, <2>2, <2>3, <2>4 DEF Beyond
<1>6. v.name = p[1] /\ p[2] < v.pos => v'.name = p[1] /\ p[2] < v'.pos
  BY <1>1, <1>2, <1>3
<1>7. pc' # "copy"
  OBVIOUS
<1>8. h' = Header(disk', p) /\ a'.left = 0 /\ a'.left \in 0..h'.n
  BY <1>3
<1>9. /\ \A j \in 1..h'.n : Holds(disk', p, j) =>
            UnitOf(disk', p, j).k = Len(got') + j - (h'.n - a'.left)
      /\ h'.n # a'.left => Holds(disk', p, h'.n - a'.left)
  BY <1>3, <1>8
<1> QED
  BY <1>3, <1>5, <1>6, <1>7, <1>8, <1>9 DEF Along

\* In the next volume the walk stands before any wall, and the one it left has
\* none.
LEMMA AlongVolume ==
    ASSUME WalkTypeOK, disk.fmt = 50, NEW p \in Blocks(disk), Along(p), pc = "open",
           OpenNextVolume, pc' = "header"
    PROVE  Along(p)'
<1> DEFINE name == NameOf(NextScheme)
<1>1. /\ name \in DOMAIN disk.vols /\ name[2] = v.name[2] + 1 /\ disk \in Disks
      /\ v.name \in DOMAIN disk.vols
  BY DEF OpenNextVolume, Exists, NameOf, WalkTypeOK
<1> DEFINE sig == disk.vols[name].sig
<1>2. /\ v' = [name |-> name, num |-> v.num + 1, old |-> NextScheme = "old", open |-> TRUE,
               pos |-> IF sig = 0 THEN Len(disk.vols[name].cells) + 1 ELSE 1]
      /\ sig = disk.fmt /\ a' = Renewed /\ UNCHANGED <<disk, h, got>>
  BY DEF OpenNextVolume, Fails
<1> HIDE DEF name, sig
<1>3. v'.name = name /\ v'.pos = 1 /\ a'.left = a.left
  BY <1>2 DEF Renewed, WalkTypeOK
<1>4. p[1] \in DOMAIN disk.vols /\ p[1][2] \in Nat /\ v.name[2] \in Nat /\ name[2] \in Nat
  BY <1>1, BlockIs, VolumeFacts
<1>5. (v.name = p[1] /\ p[2] < v.pos) \/ Beyond(p)
  BY DEF Along
<1>6. Beyond(p)'
  <2>1. p[1][2] < name[2]
    BY <1>1, <1>4, <1>5 DEF Beyond
  <2>2. ASSUME NEW m \in p[1][2] + 1..name[2] - 1
        PROVE  \E y \in DOMAIN disk.vols : y[2] = m /\ ~Walled(disk, y, h.name)
    <3>1. Beyond(p)
      BY <1>1, <1>4, <1>5, <2>2
    <3>2. CASE m = v.name[2]
      BY <1>1, <3>1, <3>2 DEF Beyond
    <3>3. CASE m # v.name[2]
      <4>1. m \in p[1][2] + 1..v.name[2] - 1
        BY <1>1, <1>4, <3>3
      <4> QED
        BY <3>1, <4>1 DEF Beyond
    <3> QED
      BY <3>2, <3>3
  <2>3. \A i \in 1..Len(Cells') + 1 : v'.pos <= i
    BY <1>3
  <2>4. disk.vols[name].sig = disk.fmt
    BY <1>2 DEF sig
  <2> QED
    BY <1>2, <1>3, <2>1, <2>2, <2>3, <2>4 DEF Beyond
<1>7. /\ h' = Header(disk', p) /\ a'.left \in 0..h'.n /\ a'.left = 0 /\ ~h'.last
      /\ \A j \in 1..h'.n : Holds(disk', p, j) =>
            UnitOf(disk', p, j).k = Len(got') + j - (h'.n - a'.left)
      /\ h'.n # a'.left => Holds(disk', p, h'.n - a'.left)
  BY <1>2, <1>3 DEF Along
<1> QED
  BY <1>6, <1>7 DEF Along

LEMMA AlongUnit ==
    ASSUME WalkTypeOK, disk.fmt = 50, NEW p \in Blocks(disk), Along(p), ReadUnit, pc = "copy"
    PROVE  Along(p)' /\ got' = Append(got, Cell) /\ Cell.k = Len(got) + 1
<1>1. /\ a.left # 0 /\ ~AtEnd /\ v' = Past(1) /\ a' = [a EXCEPT !.left = @ - 1]
      /\ UNCHANGED <<disk, h, pc>> /\ got' = Append(got, Cell)
  BY DEF ReadUnit, Past
<1>2. /\ disk \in Disks /\ v.pos \in Places(v.name) /\ v.pos \in Nat /\ Len(got) \in Nat
      /\ Len(got') = Len(got) + 1
  BY <1>1, CellRead, AppendProperties, LenProperties DEF WalkTypeOK
<1>3. /\ h = Header(disk, p) /\ h.n \in Nat /\ p[2] \in Nat /\ a.left \in 0..h.n
      /\ p[1] = v.name /\ v.pos + a.left = p[2] + 1 + h.n
      /\ \A j \in 1..h.n : Holds(disk, p, j) => UnitOf(disk, p, j).k = Len(got) + j - (h.n - a.left)
  BY <1>2, BlockIs DEF Along
<1>4. /\ v'.name = v.name /\ v'.pos = v.pos + 1 /\ a'.left = a.left - 1
  BY <1>1, FurtherIn DEF WalkTypeOK
<1> DEFINE n == h.n
           l == a.left
           g == Len(got)
           i == p[2]
           r == n - l + 1
<1> HIDE DEF n, l, g, i
<1>5. /\ r \in 1..h.n /\ p[2] + r = v.pos /\ Len(got) + r - (h.n - a.left) = Len(got) + 1
      /\ h.n - a'.left = r /\ a'.left \in 0..h.n /\ v'.pos + a'.left = p[2] + 1 + h.n
  <2>1. n \in Nat /\ l \in 0..n /\ l # 0 /\ g \in Nat /\ i \in Nat /\ v.pos \in Nat
        /\ v.pos + l = i + 1 + n
    BY <1>1, <1>2, <1>3 DEF n, l, g, i
  <2>2. /\ r \in 1..n /\ i + r = v.pos /\ g + r - (n - l) = g + 1
        /\ n - (l - 1) = r /\ l - 1 \in 0..n /\ (v.pos + 1) + (l - 1) = i + 1 + n
    BY <2>1
  <2> QED
    BY <1>4, <2>2 DEF n, l, g, i
<1> HIDE DEF r
<1>6. Holds(disk, p, r)
  BY <1>2, <1>3, <1>5, HoldsIn
<1>7. UnitOf(disk, p, r) = Cell
  BY <1>3, <1>5 DEF UnitOf, Cell, Cells
<1>8. Cell.k = Len(got) + 1
  BY <1>3, <1>5, <1>6, <1>7
<1>9. ASSUME NEW j \in 1..h.n, Holds(disk, p, j)
      PROVE  UnitOf(disk, p, j).k = Len(got') + j - (h.n - a'.left)
  <2>1. UnitOf(disk, p, j).k = Len(got) + j - (h.n - a.left)
    BY <1>3, <1>9
  <2>2. Len(got) + j - (h.n - a.left) = (Len(got) + 1) + j - (h.n - (a.left - 1))
    <3>1. n \in Nat /\ l \in 0..n /\ g \in Nat /\ j \in Nat
      BY <1>2, <1>3 DEF n, l, g
    <3>2. g + j - (n - l) = (g + 1) + j - (n - (l - 1))
      BY <3>1
    <3> QED
      BY <3>2 DEF n, l, g
  <2> QED
    BY <1>2, <1>4, <2>1, <2>2
<1> QED
  BY <1>1, <1>3, <1>4, <1>5, <1>6, <1>8, <1>9 DEF Along

\* The header of a block of the file that is copied: no block was passed over.
LEMMA AlongFile ==
    ASSUME WalkTypeOK, disk.fmt = 50, FileHeader, pc' = "copy",
           ctx # "find" => \E p \in Blocks(disk) : Along(p)
    PROVE  /\ \E q \in Blocks(disk) : Along(q)'
           /\ got' = IF ctx = "find" THEN <<>> ELSE got
<1>1. /\ AtHeader("file") /\ pc = "header" /\ ~AtEnd /\ Cell.t = "file"
      /\ v' = Past(1) /\ a' = [a EXCEPT !.left = Cell.n, !.sum = Cell.sum]
  BY DEF FileHeader, AtHeader
<1>2. /\ disk \in Disks /\ v.name \in DOMAIN disk.vols /\ v.pos \in Places(v.name)
      /\ Cell = CellAt(v.name, v.pos) /\ v.pos \in Nat /\ Len(got) \in Nat
  BY <1>1, CellRead, LenProperties DEF WalkTypeOK
<1>3. PICK q \in Blocks(disk) : q = <<v.name, v.pos>> /\ q[1] = v.name /\ q[2] = v.pos
  BY <1>1, <1>2, BlockAt
<1>4. Header(disk, q) = Cell /\ Cell.n \in Nat
  BY <1>2, <1>3, BlockIs
<1>5. a'.left = Cell.n /\ v'.name = v.name /\ v'.pos = v.pos + 1
  BY <1>1, FurtherIn DEF WalkTypeOK
<1>6. v'.pos + a'.left = q[2] + 1 + Cell.n /\ q[1] = v'.name /\ Cell.n - a'.left = 0
  BY <1>2, <1>3, <1>4, <1>5
<1>7. ASSUME h' = Cell, disk' = disk,
             \A j \in 1..Cell.n : Holds(disk, q, j) => UnitOf(disk, q, j).k = Len(got') + j,
             Len(got') \in Nat
      PROVE  Along(q)'
  <2>1. \A j \in 1..Cell.n : Len(got') + j - (Cell.n - a'.left) = Len(got') + j
    BY <1>6, <1>7
  <2>2. h'.n = a'.left /\ a'.left \in 0..h'.n
    BY <1>4, <1>5, <1>7
  <2> QED
    BY <1>4, <1>6, <1>7, <2>1, <2>2 DEF Along
<1>8. /\ ~Cell.last => Cell.n # 0
      /\ \A j \in 1..Cell.n : Holds(disk, q, j) =>
            /\ UnitOf(disk, q, j).k \in Nat
            /\ UnitOf(disk, q, j).k = (IF Cell.first THEN 0 ELSE UnitOf(disk, q, 1).k - 1) + j
  BY <1>2, <1>4, BlockNumbers
<1>9. CASE ctx = "find"
  <2>1. Cell.first /\ h' = Cell /\ got' = <<>> /\ disk' = disk
    BY <1>9 DEF FileHeader
  <2>2. \A j \in 1..Cell.n : Holds(disk, q, j) => UnitOf(disk, q, j).k = Len(got') + j
    BY <1>8, <2>1
  <2> QED
    BY <1>7, <1>9, <2>1, <2>2
<1>10. CASE ctx # "find"
  <2>1. SameFile /\ h' = Cell /\ got' = got /\ disk' = disk
    BY <1>10 DEF FileHeader, Fails
  <2>2. PICK p \in Blocks(disk) : Along(p)
    BY <1>10
  <2>3. /\ h = Header(disk, p) /\ a.left = 0 /\ ~h.last /\ h.n \in Nat
        /\ (v.name = p[1] /\ p[2] < v.pos) \/ Beyond(p)
        /\ \A j \in 1..h.n : Holds(disk, p, j) => UnitOf(disk, p, j).k = Len(got) + j - (h.n - a.left)
        /\ h.n # a.left => Holds(disk, p, h.n - a.left)
        /\ p[1] \in DOMAIN disk.vols /\ p[1][2] \in Nat /\ v.name[2] \in Nat /\ p[2] \in Nat
    BY <1>1, <1>2, <2>2, BlockIs, VolumeFacts DEF Along
  <2>4. Cell.name = h.name /\ ~Cell.first
    BY <2>1 DEF SameFile
  <2>5. /\ h.n # 0
        /\ q[1][2] = p[1][2] => q = p
        /\ q[1][2] = p[1][2] + 1 /\ Holds(disk, p, h.n) /\ Holds(disk, q, 1) =>
              UnitOf(disk, q, 1).k = UnitOf(disk, p, h.n).k + 1
        /\ \A y \in DOMAIN disk.vols :
              p[1][2] < y[2] /\ y[2] < q[1][2] => Walled(disk, y, h.name)
    BY <1>2, <1>4, <2>3, <2>4, BlockNumbers
  <2>6. Beyond(p)
    <3> SUFFICES ASSUME v.name = p[1], p[2] < v.pos PROVE FALSE
      BY <2>3
    <3>1. q = p
      BY <1>3, <2>5
    <3> QED
      BY <1>2, <1>3, <2>3, <3>1
  <2>7. q[1][2] = p[1][2] + 1
    <3> SUFFICES ASSUME q[1][2] # p[1][2] + 1 PROVE FALSE
      OBVIOUS
    <3>1. p[1][2] + 1 \in p[1][2] + 1..v.name[2] - 1
      BY <1>3, <2>3, <2>6 DEF Beyond
    <3>2. PICK y \in DOMAIN disk.vols : y[2] = p[1][2] + 1 /\ ~Walled(disk, y, h.name)
      BY <2>6, <3>1 DEF Beyond
    <3>3. p[1][2] < y[2] /\ y[2] < q[1][2]
      BY <1>3, <2>3, <3>1, <3>2
    <3> QED
      BY <2>5, <3>2, <3>3
  <2>8. Holds(disk, p, h.n) /\ UnitOf(disk, p, h.n).k = Len(got)
    <3>1. h.n - a.left = h.n /\ h.n \in 1..h.n /\ h.n # a.left
      BY <2>3, <2>5
    <3>2. Holds(disk, p, h.n)
      BY <2>3, <3>1
    <3>3. UnitOf(disk, p, h.n).k = Len(got) + h.n - (h.n - a.left)
      BY <2>3, <3>1, <3>2
    <3>4. Len(got) + h.n - (h.n - a.left) = Len(got)
      BY <1>2, <2>3
    <3> QED
      BY <3>2, <3>3, <3>4
  <2>9. ASSUME NEW j \in 1..Cell.n, Holds(disk, q, j)
        PROVE  UnitOf(disk, q, j).k = Len(got) + j
    <3>1. Holds(disk, q, 1)
      <4>1. q[2] + j \in Places(q[1]) /\ q[1] \in DOMAIN disk.vols /\ q[2] \in Nat
        BY <1>2, <2>9, HoldsIn, BlockIs
      <4>2. Places(q[1]) = 1..Len(disk.vols[q[1]].cells) /\ Len(disk.vols[q[1]].cells) \in Nat
        BY <1>2, <4>1, VolumeFacts
      <4>3. q[2] + 1 \in Places(q[1]) /\ 1 \in 1..Cell.n
        BY <1>4, <4>1, <4>2
      <4> QED
        BY <1>2, <1>4, <4>3, HoldsIn
    <3>2. UnitOf(disk, q, 1).k = Len(got) + 1
      BY <2>5, <2>7, <2>8, <3>1
    <3>3. UnitOf(disk, q, j).k = (UnitOf(disk, q, 1).k - 1) + j
      BY <1>8, <2>4, <2>9
    <3> QED
      BY <1>2, <3>2, <3>3
  <2>10. Along(q)'
    BY <1>2, <1>7, <2>1, <2>9
  <2> QED
    BY <1>10, <2>1, <2>10
<1> QED
  BY <1>9, <1>10

-----------------------------------------------------------------------------
(* Every unit that a file gets has its place *)

LEMMA NumberStep == WalkTypeOK /\ NumberInv /\ [Next]_vars => NumberInv'
<1> SUFFICES ASSUME WalkTypeOK, NumberInv, [Next]_vars PROVE NumberInv'
  OBVIOUS
<1>1. disk' = disk /\ disk \in Disks
  BY WalkTypes DEF Onward, WalkTypeOK
<1> SUFFICES ASSUME disk.fmt = 50, Copying'
             PROVE  pc' # "openAtEOF" /\ \E p \in Blocks(disk) : Along(p)'
  BY <1>1 DEF NumberInv
<1>2. Copying => pc # "openAtEOF" /\ \E p \in Blocks(disk) : Along(p)
  BY <1>1 DEF NumberInv
<1>3. CASE UNCHANGED vars
  <2>1. Copying
    BY <1>3 DEF Copying, vars
  <2>2. PICK p \in Blocks(disk) : Along(p)
    BY <1>2, <2>1
  <2>3. v' = v /\ a' = a /\ UNCHANGED <<h, got, pc>>
    BY <1>3 DEF vars, arch
  <2>4. Beyond(p) => Beyond(p)'
    BY <1>1, <2>3 DEF Beyond, Cells
  <2>5. Along(p)'
    BY <1>1, <2>2, <2>3, <2>4 DEF Along
  <2> QED
    BY <1>2, <2>1, <2>3, <2>5
<1>4. ASSUME NEW e, Fails(e) PROVE FALSE
  BY <1>4 DEF Fails, Copying
<1>5. CASE CallNext \/ FileEnds
  BY <1>5 DEF CallNext, FileEnds, Copying
<1>6. CASE ReadUnit
  <2>1. pc = "copy" /\ Copying /\ pc' = "copy"
    BY <1>6 DEF ReadUnit, Reading, Copying, WalkTypeOK
  <2>2. PICK p \in Blocks(disk) : Along(p)
    BY <1>2, <2>1
  <2>3. Along(p)'
    BY <1>1, <1>6, <2>1, <2>2, AlongUnit
  <2> QED
    BY <2>1, <2>3
<1>7. CASE BlockEnds
  <2>1. /\ pc = "copy" /\ Copying /\ pc' = "header" /\ a.left = 0 /\ ~h.last
        /\ v' = v /\ a' = a /\ UNCHANGED <<h, got>>
    BY <1>7 DEF BlockEnds, Reading, Copying, WalkTypeOK, arch
  <2>2. PICK p \in Blocks(disk) : Along(p)
    BY <1>2, <2>1
  <2>3. p[1] = v.name /\ v.pos + a.left = p[2] + 1 + h.n /\ h = Header(disk, p)
    BY <2>1, <2>2 DEF Along
  <2>4. p[2] \in Nat /\ h.n \in Nat /\ v.pos \in Nat
    BY <1>1, <2>3, BlockIs DEF WalkTypeOK
  <2>5. p[2] < v.pos
    BY <2>1, <2>3, <2>4
  <2>6. Along(p)'
    BY <1>1, <2>1, <2>2, <2>3, <2>5 DEF Along
  <2> QED
    BY <2>1, <2>6
<1>8. CASE PackedEnds
  BY <1>4, <1>8 DEF PackedEnds, Copying, Reading
<1>9. CASE HeaderAtEnd
  BY <1>1, <1>4, <1>9 DEF HeaderAtEnd
<1>10. CASE ArchiveHeader \/ EncryptionHeader \/ OtherHeader \/ EndHeader
  <2>1. /\ pc = "header" /\ ~AtEnd /\ ctx' = ctx /\ UNCHANGED <<disk, h, got>> /\ a'.left = 0
        /\ \/ pc' = "header" /\ Cell.t \in {"arc", "key"} /\ v' = Past(1)
           \/ pc' = "header" /\ Cell.t = "service" /\ v' = Past(1 + Cell.n) /\ Cell.n \in Nat
           \/ pc' = "open" /\ Cell.t = "end" /\ v' = Past(1)
    <3>1. CASE ArchiveHeader \/ EncryptionHeader
      BY <3>1 DEF ArchiveHeader, EncryptionHeader, AtHeader, WalkTypeOK
    <3>2. CASE OtherHeader
      <4>1. Cell.n \in Nat
        BY <3>2, ServiceSize DEF OtherHeader
      <4> QED
        BY <1>4, <3>2, <4>1 DEF OtherHeader, AtHeader, WalkTypeOK
    <3>3. CASE EndHeader
      BY <1>4, <3>3 DEF EndHeader, AtHeader, WalkTypeOK
    <3> QED
      BY <1>10, <3>1, <3>2, <3>3
  <2>2. Copying
    BY <2>1 DEF Copying
  <2>3. PICK p \in Blocks(disk) : Along(p)
    BY <1>2, <2>2
  <2>4. CASE pc' = "header" /\ Cell.t = "service" /\ v' = Past(1 + Cell.n) /\ Cell.n \in Nat
    BY <2>1, <2>3, <2>4, AlongHeader
  <2>5. CASE \/ pc' = "header" /\ Cell.t \in {"arc", "key"} /\ v' = Past(1)
             \/ pc' = "open" /\ Cell.t = "end" /\ v' = Past(1)
    <3>1. v' = Past(1 + 0) /\ 0 \in Nat
      BY <2>5
    <3> QED
      BY <2>1, <2>3, <2>5, <3>1, AlongHeader
  <2> QED
    BY <2>1, <2>4, <2>5
<1>11. CASE FileHeader
  <2>1. pc = "header"
    BY <1>11 DEF FileHeader, AtHeader
  <2>2. pc' = "copy"
    <3>1. CASE ctx = "find"
      BY <1>11, <3>1 DEF FileHeader, Copying
    <3>2. CASE ctx # "find"
      BY <1>4, <1>11, <3>2 DEF FileHeader, Copying
    <3> QED
      BY <3>1, <3>2
  <2>3. ctx # "find" => Copying
    BY <1>4, <1>11, <2>1, <2>2 DEF FileHeader, Copying
  <2> QED
    BY <1>1, <1>2, <1>11, <2>2, <2>3, AlongFile
<1>12. CASE OpenNextVolume
  <2>1. pc \in {"open", "openAtEOF"} /\ pc' = "header" /\ ctx' = ctx
    BY <1>4, <1>12 DEF OpenNextVolume
  <2>2. Copying
    BY <2>1 DEF Copying
  <2>3. PICK p \in Blocks(disk) : Along(p)
    BY <1>2, <2>2
  <2>4. pc = "open"
    BY <1>2, <2>1, <2>2
  <2> QED
    BY <1>1, <1>12, <2>1, <2>3, <2>4, AlongVolume
<1>13. CASE \/ ReadShort \/ WriteFails \/ HeaderOfClosed \/ HeaderGarbled \/ HeaderRefused
            \/ NextVolumeMissing
  BY <1>4, <1>13 DEF ReadShort, WriteFails, HeaderOfClosed, HeaderGarbled, HeaderRefused,
                     NextVolumeMissing
<1> QED
  BY <1>3, <1>5, <1>6, <1>7, <1>8, <1>9, <1>10, <1>11, <1>12, <1>13 DEF Next, Done

\* Of an intact archive it is the beginning of the file that was read.
InPlaceIntact == Intact /\ pc # "done" => \A k \in DOMAIN got : got[k].k = k

LEMMA BeginningRead == WalkTypeOK /\ IntactInv => InPlaceIntact
<1> SUFFICES ASSUME WalkTypeOK, IntactInv, Intact, pc # "done", NEW k \in DOMAIN got
             PROVE  got[k].k = k
  BY DEF InPlaceIntact
<1>1. Good
  BY DEF IntactInv, Good
<1>2. got # <<>>
  OBVIOUS
<1>3. PICK p \in Blocks(disk) : Current(p)
  BY <1>1, <1>2 DEF Good, PlaceInv, Outset
<1>4. /\ Size(cur) \in Nat /\ Len(got) \in Nat /\ Len(got) <= Size(cur)
      /\ got = SubSeq(Units(cur), 1, Len(got)) /\ Units(cur) \in Seq(Data)
      /\ Len(Units(cur)) = Size(cur)
  BY <1>3, CurrentFile DEF Current
<1>5. k \in 1..Len(got)
  BY LenProperties DEF WalkTypeOK
<1> DEFINE n == Len(got)
           all == Units(cur)
<1>6. SubSeq(all, 1, n)[k] = all[k]
  <2> HIDE DEF all, n
  <2> SUFFICES ASSUME n \in Nat, k \in 1..n, all \in Seq(Data), n <= Len(all)
               PROVE  SubSeq(all, 1, n)[k] = all[k]
    BY <1>4, <1>5 DEF all, n
  <2> QED
    BY SMT
<1>7. k \in 1..Size(cur)
  BY <1>4, <1>5
<1>8. Units(cur)[k].k = k
  BY <1>7 DEF Units
<1> QED
  BY <1>4, <1>6, <1>8

LEMMA InPlaceStep ==
    WalkTypeOK /\ NumberInv /\ InPlace /\ [Next]_vars /\ InPlaceIntact' => InPlace'
<1> SUFFICES ASSUME WalkTypeOK, NumberInv, InPlace, [Next]_vars, InPlaceIntact',
                    (Intact \/ disk.fmt = 50)'
             PROVE  \A k \in DOMAIN got' : got'[k].k = k
  BY DEF InPlace
<1>1. disk' = disk /\ disk \in Disks /\ got \in Seq(AllCells)
  BY WalkTypes DEF Onward, WalkTypeOK
<1>2. \A k \in DOMAIN got : got[k].k = k
  BY <1>1 DEF InPlace, Intact
<1>3. CASE got' = got
  BY <1>2, <1>3
<1>4. CASE ReadUnit
  <2>1. /\ ~AtEnd /\ pc' = pc /\ pc \in {"drain", "skip", "copy"}
        /\ got' = IF pc = "copy" THEN Append(got, Cell) ELSE got
    BY <1>4 DEF ReadUnit, Reading
  <2>2. CASE disk.fmt = 50 /\ pc = "copy"
    <3>1. Copying
      BY <2>2 DEF Copying, WalkTypeOK
    <3>2. PICK p \in Blocks(disk) : Along(p)
      BY <2>2, <3>1 DEF NumberInv
    <3>3. Cell.k = Len(got) + 1 /\ got' = Append(got, Cell)
      BY <1>4, <2>2, <3>2, AlongUnit
    <3>4. Cell \in AllCells
      BY <2>1, CellRead
    <3>5. /\ Len(got) \in Nat /\ DOMAIN got = 1..Len(got) /\ DOMAIN got' = 1..Len(got) + 1
          /\ \A k \in 1..Len(got) : got'[k] = got[k]
          /\ got'[Len(got) + 1] = Cell
      BY <1>1, <3>3, <3>4, AppendProperties, LenProperties
    <3> QED
      BY <1>2, <3>3, <3>5
  <2> QED
    BY <1>1, <1>3, <2>1, <2>2 DEF InPlaceIntact, Intact
<1>5. CASE FileHeader
  <2>1. got' = got \/ got' = <<>>
    BY <1>5 DEF FileHeader, Fails
  <2> QED
    BY <1>3, <2>1
<1>6. CASE ~(ReadUnit \/ FileHeader)
  <2>1. got' = got
    BY <1>6 DEF Next, vars, Fails, CallNext, ReadShort, BlockEnds, PackedEnds, FileEnds, WriteFails,
                HeaderAtEnd, HeaderOfClosed, HeaderGarbled, HeaderRefused, ArchiveHeader,
                EncryptionHeader, OtherHeader, EndHeader, NextVolumeMissing, OpenNextVolume, Done
  <2> QED
    BY <1>3, <2>1
<1> QED
  BY <1>4, <1>5, <1>6

\* Of a damaged archive of format 50, too, nothing is passed over within a
\* file: what it got is its first units (packedFileReader.next refuses the block
\* that does not go on with the one before).
THEOREM UnitsInPlace == Spec => []InPlace
<1>1. Init => NumberInv /\ InPlace
  BY DEF Init, NumberInv, InPlace, Copying
<1>2. WalkInv /\ IntactInv => WalkTypeOK /\ InPlaceIntact
  BY BeginningRead DEF WalkInv
<1> QED
  BY <1>1, <1>2, NumberStep, InPlaceStep, WalkInvariance, IntactInvariance, PTL DEF Spec

\* Every file of an intact archive is unpacked, whatever the volumes it is split
\* over, their names and their encryption (UnpackTo, Reader.Next, openNextFile).
THEOREM IntactFilesKept == Spec => []IntactUnpacks
<1>1. IntactInv /\ InPlace => IntactUnpacks
  BY DEF IntactInv, InPlace, IntactUnpacks, ResultInv
<1> QED
  BY <1>1, IntactInvariance, UnitsInPlace, PTL
=============================================================================
