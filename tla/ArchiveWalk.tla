---------------------------- MODULE ArchiveWalk -----------------------------
(* The walk of the unrar package through the volumes of an archive: volume   *)
(* (archive.go), archive15.next and archive50.next, packedFileReader and     *)
(* Reader (reader.go), driven by UnpackTo (unpack.go).  A volume is a        *)
(* sequence of cells: block headers, and units of the data behind them.  A   *)
(* disk gives the volumes by name, and what else the walk depends on:        *)
(*   fmt     the archive's format, 15 or 50                                  *)
(*   digits  the first volume's name has a number                            *)
(*   vols    name |-> [sig, cells], sig the format found by findSig, or 0    *)
(*   files   the archive's files in order, as [name, size]                   *)
(*   packed  files are compressed; stored ones need no decoder               *)
(*   exists  files that are unpacked already                                 *)
(*   fault   what is wrong with the volumes, "none", or "full" for the disk  *)
(*           that is written to                                              *)
EXTENDS Integers, Sequences, SequencesExt

CONSTANTS Disks

First == <<"first", 1>>

(* Volumes are read in the order of their numbers.                           *)
Earlier(x, i, y, j) == x[2] < y[2] \/ (x = y /\ i < j)

IsUnit(c) == c.t \in {"data", "spoiled"}
Begins(c) == c.t = "file" /\ c.first

(* However a disk is damaged, the units of a block stand behind its header   *)
(* as far as the volume goes, and no unit and no first block of a file comes *)
(* twice or out of order.                                                    *)
Behind(cells, i) == \A j \in 1..cells[i].n : i + j \in DOMAIN cells =>
                        IsUnit(cells[i + j]) /\ cells[i + j].name = cells[i].name

InOrder(p, q) == /\ IsUnit(p) /\ IsUnit(q) /\ p.name = q.name => p.k < q.k
                 /\ Begins(p) /\ Begins(q) => p.name # q.name

ASSUME ArchiveAssumption ==
    \A d \in Disks :
       LET cells(x) == d.vols[x].cells
       IN  /\ First \in DOMAIN d.vols /\ DOMAIN d.vols \subseteq STRING \X Nat
           /\ \A f \in ToSet(d.files) : f.name # "none"
           /\ \A x \in DOMAIN d.vols : cells(x) \in Seq(ToSet(cells(x)))
           /\ \A x \in DOMAIN d.vols : \A i \in DOMAIN cells(x) :
                 /\ cells(x)[i].t \in {"file", "service"} => cells(x)[i].n \in Nat
                 /\ cells(x)[i].t = "file" => Behind(cells(x), i)
           /\ \A x, y \in DOMAIN d.vols :
                 \A i \in DOMAIN cells(x), j \in DOMAIN cells(y) :
                    Earlier(x, i, y, j) => InOrder(cells(x)[i], cells(y)[j])

(* What an intact archive is.  Its volumes are numbered on, as the naming    *)
(* scheme of the first one says.                                             *)
Arcs(d) == UNION {{c \in ToSet(d.vols[x].cells) : c.t = "arc"} : x \in DOMAIN d.vols}
Numbered(d) ==
    \E scheme \in {"new", "old"}, m \in {x[2] : x \in DOMAIN d.vols} :
       /\ DOMAIN d.vols = {First} \cup {<<scheme, i>> : i \in 2..m}
       /\ scheme = "new" => d.digits /\ (d.fmt = 15 => \A c \in Arcs(d) : ~c.old)

(* A volume is one header behind the other, with their data, encrypted from  *)
(* the place on where that is announced.  The end of a volume of format 50   *)
(* is marked, and says whether another one follows.                          *)
Heads == {"arc", "key", "service", "file", "end"}
DataOf(c) == IF c.t \in {"file", "service"} THEN c.n ELSE 0
Stops(cells) == {i \in 1..Len(cells) + 1 : i = Len(cells) + 1 \/ cells[i].t \in Heads}
Encrypted(d, x, i) ==
    \E j \in 1..i - 1 : LET c == d.vols[x].cells[j]
                        IN  IF d.fmt = 50 THEN c.t = "key" ELSE c.t = "arc" /\ c.crypt
SoundVolume(d, x) ==
    LET cells == d.vols[x].cells
    IN  /\ d.vols[x].sig = d.fmt
        /\ 1 \in Stops(cells)
        /\ d.fmt = 50 => cells # <<>> /\ cells[Len(cells)].t = "end"
        /\ \A i \in DOMAIN cells : cells[i].t \in Heads =>
              /\ i + 1 + DataOf(cells[i]) \in Stops(cells)
              /\ \A j \in i + 1..i + DataOf(cells[i]) : cells[j].t \in {"data", "bad"}
              /\ cells[i].enc = Encrypted(d, x, i)
              /\ cells[i].t = "key" => d.fmt = 50
              /\ cells[i].t = "end" =>
                    i = Len(cells) /\ (cells[i].more <=> \E y \in DOMAIN d.vols : x[2] < y[2])
        /\ \A i \in DOMAIN cells : cells[i].t \in {"file", "end"} =>
                                     \E j \in 1..i - 1 : cells[j].t = "arc"

(* A file's blocks have its units in their order, the next block those that  *)
(* follow, and the files come one after the other.                           *)
Blocks(d) == UNION {{<<x, i>> : i \in {i \in DOMAIN d.vols[x].cells : d.vols[x].cells[i].t = "file"}}
                    : x \in DOMAIN d.vols}
Header(d, p) == d.vols[p[1]].cells[p[2]]
Upto(d, p) == LET n == Header(d, p).n IN IF n = 0 THEN 0 ELSE d.vols[p[1]].cells[p[2] + n].k
Precedes(p, q) == Earlier(p[1], p[2], q[1], q[2])
SoundBlock(d, p) ==
    LET c == Header(d, p)
    IN  \E f \in DOMAIN d.files :
          /\ c.name = d.files[f].name /\ Upto(d, p) \in c.n..d.files[f].size
          /\ \A j \in 1..c.n : d.vols[p[1]].cells[p[2] + j]
                                = [t |-> "data", name |-> c.name, k |-> Upto(d, p) - c.n + j]
          /\ c.first = (Upto(d, p) = c.n) /\ c.last = (Upto(d, p) = d.files[f].size)
          /\ c.last => c.sum = c.name
          /\ \A x \in Arcs(d) : d.packed /\ x.solid => c.solid = (f # 1)
          /\ (\A q \in Blocks(d) : ~Precedes(q, p)) => f = 1 /\ c.first
          /\ (\A q \in Blocks(d) : ~Precedes(p, q)) => f = Len(d.files) /\ c.last
          /\ \A q \in Blocks(d) :
                /\ Precedes(p, q)
                /\ \A r \in Blocks(d) : ~(Precedes(p, r) /\ Precedes(r, q))
                => IF c.last THEN Header(d, q).first /\ f < Len(d.files)
                                  /\ Header(d, q).name = d.files[f + 1].name
                   ELSE Header(d, q).name = c.name /\ Upto(d, q) - Header(d, q).n = Upto(d, p)
                        /\ Upto(d, p) # 0

ASSUME IntactAssumption ==
    \A d \in Disks : d.fault = "none" =>
        /\ d.fmt \in {15, 50} /\ Numbered(d)
        /\ \A x \in DOMAIN d.vols : SoundVolume(d, x)
        /\ \A c, e \in Arcs(d) : /\ c.multi = e.multi /\ c.solid = e.solid
                                  /\ c.old = e.old /\ c.crypt = e.crypt
        /\ \A c \in Arcs(d) : c.crypt \in BOOLEAN /\ (c.multi <=> DOMAIN d.vols # {First})
        /\ d.files \in Seq(ToSet(d.files))
        /\ \A f, g \in DOMAIN d.files : d.files[f].name = d.files[g].name => f = g
        /\ \A f \in DOMAIN d.files : d.files[f].size \in Nat
        /\ d.files = <<>> \/ Blocks(d) # {}
        /\ \A p \in Blocks(d) : SoundBlock(d, p)

(* Format 50, however a disk is damaged.  The units of a block follow each   *)
(* other.  Damage spoils a block or cuts it off, and leaves a trace where it *)
(* was: a volume between two of a file has a wall, that is, a block of that  *)
(* file, something that is no header, or the end without an end block.       *)
WallAt(d, y, name, i) ==
    LET cells == d.vols[y].cells
    IN  /\ i \in 1..Len(cells) + 1
        /\ \/ i = Len(cells) + 1 \/ cells[i].t \notin Heads
           \/ cells[i].t = "file" /\ cells[i].name = name
        /\ \A j \in 1..i - 1 : /\ cells[j].t # "end"
                               /\ cells[j].t = "service" => j + 1 + cells[j].n <= i
Walled(d, y, name) ==
    d.vols[y].sig # d.fmt \/ \E i \in 1..Len(d.vols[y].cells) + 1 : WallAt(d, y, name, i)

UnitOf(d, p, j) == d.vols[p[1]].cells[p[2] + j]
Holds(d, p, j) == j \in 1..Header(d, p).n /\ p[2] + j \in DOMAIN d.vols[p[1]].cells

ASSUME NumberingAssumption ==
    \A d \in Disks : d.fmt = 50 => \A p \in Blocks(d) :
        LET c == Header(d, p)
        IN  /\ ~c.last => c.n # 0
            /\ \A j \in 1..c.n : Holds(d, p, j) =>
                  /\ UnitOf(d, p, j).k \in Nat
                  /\ UnitOf(d, p, j).k = (IF c.first THEN 0 ELSE UnitOf(d, p, 1).k - 1) + j
            /\ \A q \in Blocks(d) : Header(d, q).name = c.name =>
                  /\ q[1][2] = p[1][2] => q = p
                  /\ q[1][2] = p[1][2] + 1 /\ Holds(d, p, c.n) /\ Holds(d, q, 1) =>
                        UnitOf(d, q, 1).k = UnitOf(d, p, c.n).k + 1
                  /\ \A y \in DOMAIN d.vols :
                        p[1][2] < y[2] /\ y[2] < q[1][2] => Walled(d, y, c.name)

VARIABLES disk,
          v,       \* volume: name, num, old, open, and the place in the cells
          a,       \* archive: enc, multi, solid, old, left of the block, sum
          h,       \* packedFileReader.h, None at first and after an error
          solidr,  \* Reader.solidr: the last file must be decoded to its end
          fed,     \* what the decoder was given since it was last reset
          cur,     \* the file that Next returned last
          got,     \* what was read of it
          result,  \* "ok", "failed" or "skipped" for each file that was left
          pc,      \* what is being read: next, drain, skip, copy, header, open
          ctx      \* who asked for a header: find, drain, skip or copy

arch == <<v, a>>
vars == <<disk, v, a, h, solidr, fed, cur, got, result, pc, ctx>>

None == [t |-> "none"]

Cells == disk.vols[v.name].cells
AtEnd == v.pos > Len(Cells)
Cell == Cells[v.pos]

Names == {f.name : f \in ToSet(disk.files)}
Size(name) == (CHOOSE f \in ToSet(disk.files) : f.name = name).size
Units(name) == [k \in 1..Size(name) |-> [t |-> "data", name |-> name, k |-> k]]

Init == /\ disk \in Disks
        /\ v = [name |-> First, num |-> 0, old |-> FALSE, open |-> TRUE, pos |-> 1]
        /\ a = [enc |-> FALSE, multi |-> FALSE, solid |-> FALSE, old |-> FALSE, left |-> 0,
                sum |-> "none"]
        /\ h = None /\ solidr = FALSE /\ fed = <<>>
        /\ cur = "none" /\ got = <<>>
        /\ result = [f \in Names |-> "none"]
        /\ pc = "next" /\ ctx = "find"
-----------------------------------------------------------------------------
(* A call that ends in an error e.  UnpackTo stops at io.EOF only, which     *)
(* packedFileReader.next makes of errArchiveEnd too; after any other error   *)
(* it calls Next again.  A file whose copy fails is removed.                 *)
\* Mutant: the end block is an error like any other.
EndsAtEOF(e) == ctx = "find" /\ e = "EOF"

Ends(e) == ctx = "find" /\ e \in {"EOF", "errArchiveEnd"}

Fails(e) ==
    /\ pc' = IF Ends(e) THEN "done" ELSE "next"
    /\ h' = IF ctx = "find" THEN None ELSE h
    /\ result' = IF ctx = "copy" THEN [result EXCEPT ![cur] = "failed"] ELSE result
    /\ UNCHANGED <<disk, solidr, fed, cur, got, ctx>>

(* Next: a solid file is read to its end, the last file is skipped, and the  *)
(* next header is looked for.                                                *)
CallNext ==
    /\ pc = "next"
    /\ IF solidr THEN pc' = "drain" /\ ctx' = "drain"
       ELSE IF h # None THEN pc' = "skip" /\ ctx' = "skip"
       ELSE pc' = "header" /\ ctx' = "find"
    /\ UNCHANGED <<disk, arch, h, solidr, fed, cur, got, result>>
-----------------------------------------------------------------------------
(* A unit of the current block, limited to the size in its header.           *)
Reading == pc \in {"drain", "skip", "copy"}
Decoding == disk.packed /\ pc \in {"drain", "copy"}

Wanted == pc = "copy" => Len(got) < Size(cur)

ReadUnit ==
    /\ Reading /\ Wanted /\ a.left > 0 /\ ~AtEnd
    /\ v' = [v EXCEPT !.pos = @ + 1]
    /\ a' = [a EXCEPT !.left = @ - 1]
    /\ fed' = IF Decoding THEN Append(fed, Cell) ELSE fed
    /\ got' = IF pc = "copy" THEN Append(got, Cell) ELSE got
    /\ UNCHANGED <<disk, h, solidr, cur, result, pc, ctx>>

(* The volume is shorter than the header says, io.ErrUnexpectedEOF; or it is *)
(* closed, and no more of it is left in bufio.                               *)
ReadShort == /\ Reading /\ Wanted /\ a.left > 0 /\ (AtEnd \/ ~v.open)
             /\ Fails("ErrUnexpectedEOF")
             /\ UNCHANGED arch

(* The block is empty and the file goes on in another one.                   *)
BlockEnds == /\ Reading /\ Wanted /\ a.left = 0
             /\ h # None /\ ~h.last
             /\ pc' = "header"
             /\ UNCHANGED <<disk, arch, h, solidr, fed, cur, got, result, ctx>>

(* The last block is empty.  A file that is copied was too short then.       *)
PackedEnds ==
    /\ Reading /\ Wanted /\ a.left = 0
    /\ h # None => h.last
    /\ IF pc = "copy" THEN Fails("errShortFile")
       ELSE /\ IF pc = "drain" /\ h # None THEN pc' = "skip" /\ ctx' = "skip"
               ELSE pc' = "header" /\ ctx' = "find"
            /\ UNCHANGED <<disk, h, solidr, fed, cur, got, result>>
    /\ UNCHANGED arch

(* UnPackedSize bytes were read, and the checksum is compared with that of   *)
(* the header parsed last.                                                   *)
Valid == a.sum = cur /\ got = Units(cur)

FileEnds ==
    /\ pc = "copy" /\ Len(got) = Size(cur)
    /\ result' = [result EXCEPT ![cur] = IF Valid THEN "ok" ELSE "failed"]
    /\ pc' = "next"
    /\ UNCHANGED <<disk, arch, h, solidr, fed, cur, got, ctx>>

WriteFails == /\ pc = "copy" /\ disk.fault = "full"
              /\ Fails("ENOSPC")
              /\ UNCHANGED arch
-----------------------------------------------------------------------------
(* readBlockHeader: a header is understood if it is one, of this format, and *)
(* is encrypted when and only when the reader expects it.                    *)
Understood == /\ disk.vols[v.name].sig = disk.fmt
              /\ Cell.t \in {"arc", "key", "service", "file", "refused", "end"}
              /\ Cell.enc = a.enc

AtHeader(t) == pc = "header" /\ ~AtEnd /\ Understood /\ Cell.t = t

Past(n) == [v EXCEPT !.pos = @ + n]

(* Format 1.5 archives need no end block, so their end is an io.EOF; format  *)
(* 5 reports io.ErrUnexpectedEOF, and a closed file its own error.           *)
HeaderAtEnd ==
    /\ pc = "header" /\ v.open /\ AtEnd
    /\ IF disk.fmt = 15
       THEN pc' = "openAtEOF" /\ UNCHANGED <<disk, h, solidr, fed, cur, got, result, ctx>>
       ELSE Fails("ErrUnexpectedEOF")
    /\ UNCHANGED arch

(* Of a volume that is closed bufio may hold more, which is read before the  *)
(* error: NextVolumeMissing leaves the buffer, and Next is called again.     *)
HeaderOfClosed == /\ pc = "header" /\ ~v.open
                  /\ Fails("ErrClosed")
                  /\ UNCHANGED arch

(* Bytes that are no header: how many of them are read depends on them.      *)
HeaderGarbled ==
    /\ pc = "header" /\ ~AtEnd /\ ~Understood
    /\ \E n \in 1..Len(Cells) + 1 - v.pos : v' = Past(n)
    /\ Fails("errBadHeaderCrc")
    /\ UNCHANGED a

(* A sound header of a file that cannot be unpacked, say by its decoder.     *)
HeaderRefused ==
    /\ AtHeader("refused")
    /\ v' = Past(1) /\ a' = [a EXCEPT !.left = Cell.n]
    /\ Fails("errUnsupportedDecoder")

ArchiveHeader ==
    /\ AtHeader("arc")
    /\ v' = Past(1)
    /\ a' = [a EXCEPT !.enc = IF disk.fmt = 15 THEN Cell.crypt ELSE @, !.left = 0,
                      !.multi = Cell.multi, !.solid = Cell.solid, !.old = Cell.old]
    /\ UNCHANGED <<disk, h, solidr, fed, cur, got, result, pc, ctx>>

EncryptionHeader ==
    /\ AtHeader("key")
    /\ v' = Past(1)
    /\ a' = [a EXCEPT !.enc = TRUE, !.left = 0]
    /\ UNCHANGED <<disk, h, solidr, fed, cur, got, result, pc, ctx>>

(* Any other block is skipped with its data.                                 *)
OtherHeader ==
    LET n == Len(Cells) - v.pos
    IN  /\ AtHeader("service")
        /\ IF n >= Cell.n
           THEN /\ v' = Past(1 + Cell.n) /\ a' = [a EXCEPT !.left = 0]
                /\ UNCHANGED <<disk, h, solidr, fed, cur, got, result, pc, ctx>>
           ELSE /\ v' = Past(1 + n) /\ a' = [a EXCEPT !.left = Cell.n - n]
                /\ Fails("ErrUnexpectedEOF")

Continues == Cell.more /\ a.multi

EndHeader ==
    /\ AtHeader("end")
    /\ v' = Past(1) /\ a' = [a EXCEPT !.left = 0]
    /\ IF Continues
       THEN pc' = "open" /\ UNCHANGED <<disk, h, solidr, fed, cur, got, result, ctx>>
       ELSE Fails("errArchiveEnd")

\* Mutant: whatever block comes next continues the file.
AnyFile == TRUE

(* A block of the current file goes on with it.                              *)
SameFile == ~Cell.first /\ Cell.name = h.name

\* Mutant: the flag of the file is taken for that of the archive.
DecodesSolid == disk.packed /\ Cell.solid

(* Whether the file must be decoded even if it is not unpacked.              *)
KeepsDecoding == disk.packed /\ a.solid

(* packedFileReader.next keeps the header of a block that is not a first     *)
(* one, and refuses it.                                                      *)
FileHeader ==
    /\ AtHeader("file")
    /\ v' = Past(1) /\ a' = [a EXCEPT !.left = Cell.n, !.sum = Cell.sum]
    /\ CASE ctx = "find" /\ Cell.first ->
              /\ h' = Cell /\ cur' = Cell.name /\ got' = <<>>
              /\ solidr' = KeepsDecoding
              /\ fed' = IF disk.packed /\ ~Cell.solid THEN <<>> ELSE fed
              /\ IF Cell.name \in disk.exists
                 THEN pc' = "next" /\ result' = [result EXCEPT ![Cell.name] = "skipped"]
                 ELSE pc' = "copy" /\ result' = result
              /\ ctx' = "copy" /\ UNCHANGED disk
         [] ctx = "find" /\ ~Cell.first ->
              /\ h' = Cell /\ pc' = "next"
              /\ UNCHANGED <<disk, solidr, fed, cur, got, result, ctx>>
         [] ctx # "find" /\ SameFile ->
              /\ h' = Cell /\ pc' = ctx
              /\ UNCHANGED <<disk, solidr, fed, cur, got, result, ctx>>
         [] OTHER -> Fails("errInvalidFileBlock")
-----------------------------------------------------------------------------
(* openNextFile: the naming scheme is settled at the first change of volume. *)
Old == v.old \/ (v.num = 0 /\ ((disk.fmt = 15 /\ a.old) \/ ~disk.digits))

NameOf(scheme) == <<scheme, v.name[2] + 1>>
Exists(scheme) == NameOf(scheme) \in DOMAIN disk.vols
NextScheme == IF Old \/ (v.num = 0 /\ ~Exists("new")) THEN "old" ELSE "new"

NextVolumeMissing ==
    /\ pc \in {"open", "openAtEOF"} /\ ~Exists(NextScheme)
    /\ v' = [v EXCEPT !.open = FALSE, !.old = Old]
    /\ Fails(IF pc = "openAtEOF" THEN "EOF" ELSE "ErrNotExist")
    /\ UNCHANGED a

\* Mutant: the next volume is read with the key of this one.
NotRenewed == a

(* reset drops the encryption of the volume before.                          *)
Renewed == [a EXCEPT !.enc = FALSE]

OpenNextVolume ==
    /\ pc \in {"open", "openAtEOF"} /\ Exists(NextScheme)
    /\ LET name == NameOf(NextScheme)
           sig == disk.vols[name].sig
       IN  /\ v' = [name |-> name, num |-> v.num + 1, old |-> NextScheme = "old",
                    open |-> TRUE,
                    pos |-> IF sig = 0 THEN Len(disk.vols[name].cells) + 1 ELSE 1]
           /\ IF sig = disk.fmt
              THEN /\ a' = Renewed /\ pc' = "header"
                   /\ UNCHANGED <<disk, h, solidr, fed, cur, got, result, ctx>>
              ELSE /\ Fails(IF sig = 0 THEN "errNoSig" ELSE "errVerMismatch")
                   /\ a' = a
-----------------------------------------------------------------------------
Done == pc = "done" /\ UNCHANGED vars

Next == \/ CallNext \/ ReadUnit \/ ReadShort \/ BlockEnds \/ PackedEnds \/ FileEnds
        \/ WriteFails
        \/ HeaderAtEnd \/ HeaderOfClosed \/ HeaderGarbled \/ HeaderRefused
        \/ ArchiveHeader \/ EncryptionHeader \/ OtherHeader \/ EndHeader \/ FileHeader
        \/ NextVolumeMissing \/ OpenNextVolume
        \/ Done

Spec == Init /\ [][Next]_vars /\ WF_vars(Next)
-----------------------------------------------------------------------------
(* What the properties are about.                                            *)
Intact == disk.fault = "none"

(* Whatever is missing, damaged or cut off: what is written to a file comes  *)
(* from its own blocks in their order, spoiled at worst, never from a block  *)
(* of another file, and a file is kept only if all of it was read.           *)
OwnData ==
    /\ \A k \in DOMAIN got : IsUnit(got[k]) /\ got[k].name = cur
    /\ \A j, k \in DOMAIN got : j < k => got[j].k < got[k].k
    /\ \A f \in Names : result[f] = "ok" /\ cur = f => got = Units(f)

(* Every file of an intact archive is kept, however it is split, named,      *)
(* encrypted or terminated.  A block of a file may be passed over only where *)
(* a volume of format 1.5 was cut off, for it needs no end block.            *)
IntactUnpacks ==
    /\ Intact => \A f \in Names : result[f] # "failed"
    /\ Intact /\ pc = "done" => \A f \in Names : result[f] # "none"
    /\ Intact \/ disk.fmt = 50 => \A k \in DOMAIN got : got[k].k = k

(* The first i files, each whole.                                            *)
Whole[i \in 0..Len(disk.files)] ==
    IF i = 0 THEN <<>> ELSE Whole[i - 1] \o Units(disk.files[i].name)
Before(name) == Whole[(CHOOSE i \in DOMAIN disk.files : disk.files[i].name = name) - 1]

(* The decoder of a solid archive is given every file before the current one *)
(* whole, those that are not unpacked included.                              *)
SolidFed == Intact /\ solidr /\ pc = "copy" => fed = Before(cur) \o got

(* UnpackTo ends, unless the archive is damaged.                             *)
UnpackEnds == Intact ~> pc = "done"
=============================================================================
