----------------------------- MODULE DetectorWalk -----------------------------
(* The infection detector's walk through an archive (src/infect_detector:    *)
(* rar15.go with archive.go and decrypt_reader.go): it reads one encrypted   *)
(* block header after the other, checks the unpacked copy of each file and   *)
(* prints where in the archive a file that is not intact lies.  A header is  *)
(* deciphered through a buffer of its own, which reads ahead in the file, so *)
(* the place of the next header is computed, never reached by reading on.    *)
(* Sizes are in cells; a block has                                           *)
(*   kind       arc, file, dir, service or end                               *)
(*   size       of its header without salt and padding                       *)
(*   data       the size of its data                                         *)
(*   hasData    its flag that a size of data is given                        *)
(*   last       no more of this file, or no more volumes, to come            *)
(*   ok         the file's copy is there and intact: HashReader's verdict    *)
(*   encrypted, volumes  flags of an arc block                               *)
EXTENDS Integers, Sequences, SequencesExt

CONSTANTS Archives,   \* [blocks, damaged, cut]: the block whose header is
                      \* damaged (0: none), the cells missing at the end
          SaltSize,   \* 8 bytes
          BlockSize,  \* blockSize, 16 bytes
          BufSize,    \* cells in the buffers of bufio, 4096 bytes
          MaxChecks   \* bound: files checked

VARIABLES archive,
          file,      \* a.f: offset in the file, cells buffered before it
          crypto,    \* headers are read as encrypted ones
          dataSize,  \* a.h.dataSize, kept from block to block
          multi,     \* a.multi
          checked,   \* files checked, with the range that belongs to each
          at         \* open, next, ended, or what main panics with

wvars == <<archive, file, crypto, dataSize, multi, checked, at>>

Blocks == archive.blocks
SignatureSize == 1   \* bound: one cell

(* What an archive is: headers that a buffer holds, the archive's first.  A  *)
(* cipher's block is as long as two salts, and a buffer holds whole ones.    *)
IsBlock(b) == /\ b.kind \in {"arc", "file", "dir", "service", "end"}
              /\ b.size \in 1..BufSize /\ b.data \in Nat
              /\ b.data > 0 \/ b.kind \in {"file", "dir"} => b.hasData
ASSUME DetectorAssumption ==
    /\ {SaltSize, BlockSize, BufSize} \subseteq Nat \ {0}
    /\ BlockSize = 2 * SaltSize /\ BufSize % BlockSize = 0
    /\ \A x \in Archives :
          /\ x.blocks \in Seq(ToSet(x.blocks)) \ {<<>>} /\ x.cut \in Nat
          /\ \A i \in DOMAIN x.blocks : IsBlock(x.blocks[i])
          /\ x.blocks[1].kind = "arc" /\ x.blocks[1].data = 0
-----------------------------------------------------------------------------
(* How the archive lies in the file: salt, header and padding, then the data.*)
RoundUp(n) == ((n + BlockSize - 1) \div BlockSize) * BlockSize
HeaderCells(i) == IF i = 1 THEN Blocks[i].size ELSE SaltSize + RoundUp(Blocks[i].size)
Places ==
    LET place[n \in 0..Len(Blocks)] ==
            IF n = 0 THEN SignatureSize ELSE place[n - 1] + HeaderCells(n) + Blocks[n].data
    IN  place
Start(i) == Places[i - 1]
End(i) == Places[i]
Length == End(Len(Blocks)) - archive.cut
-----------------------------------------------------------------------------
(* wrappedBuffer.Get: n cells are peeked, then discarded as far as they are  *)
(* there.  One read of the file fills the buffer.                            *)
Least(x, y) == IF x < y THEN x ELSE y
Filled(f, n) ==
    IF f.buffered >= n THEN f
    ELSE LET k == Least(BufSize - f.buffered, IF f.pos < Length THEN Length - f.pos ELSE 0)
         IN  [pos |-> f.pos + k, buffered |-> f.buffered + k]
Has(f, n) == Filled(f, n).buffered >= n
Get(f, n) == [Filled(f, n) EXCEPT !.buffered = @ - Least(n, @)]

GetPos(f) == f.pos - f.buffered

(* aesCBCReader.Read for the buffer around it: blocks until it is full or    *)
(* the file ends; x.n cells were deciphered.                                 *)
DecipherBlock(x) ==
    IF Has(x.file, BlockSize)
    THEN [file |-> Get(x.file, BlockSize), n |-> x.n + BlockSize]
    ELSE [file |-> Get(x.file, BlockSize), n |-> x.n]
Deciphered(f) ==
    LET after[k \in 0..BufSize \div BlockSize] ==
            IF k = 0 THEN [file |-> f, n |-> 0] ELSE DecipherBlock(after[k - 1])
    IN  after[BufSize \div BlockSize]

(* archiveFile.Seek from the current place: from behind the buffer if it is  *)
(* far, else by the offset from the start of the file.                       *)
DiscardFails(f, n) == n > 0 /\ (n <= f.buffered \/ n <= BufSize)
                      /\ GetPos(f) + n > Length
Discard(f, n) ==
    IF n > f.buffered /\ n > BufSize THEN [pos |-> f.pos + n + f.buffered, buffered |-> 0]
    ELSE IF n = 0 THEN f ELSE [pos |-> n, buffered |-> 0]

-----------------------------------------------------------------------------
WInit == /\ archive \in Archives
         /\ file = [pos |-> 0, buffered |-> 0]
         /\ crypto = FALSE /\ dataSize = 0 /\ multi = FALSE
         /\ checked = <<>> /\ at = "open"

(* readBlockHeader, for a header that starts at p and of which n cells are   *)
(* there to read; at another place the crc is wrong.                         *)
Starting(p) == {i \in DOMAIN Blocks : Start(i) = p /\ i # archive.damaged}
BlockAt(p) == Blocks[CHOOSE i \in Starting(p) : TRUE]
HeaderError(p, n) ==
    IF n = 0 THEN "errCorruptHeader"
    ELSE IF Starting(p) = {} THEN "errBadHeaderCrc"
    ELSE IF n < BlockAt(p).size THEN "unexpectedEOF" ELSE "none"

(* openArchive15: signature and archive header are not encrypted.  main      *)
(* always has a password, so an archive without encrypted headers is refused.*)
Open ==
    LET f == Get(file, SignatureSize)
        n == Filled(f, BufSize).buffered
        err == IF ~Has(file, SignatureSize) THEN "EOF" ELSE HeaderError(GetPos(f), n)
    IN  /\ at = "open"
        /\ file' = Get(f, Blocks[1].size)
        /\ at' = IF err # "none" THEN err
                 ELSE IF ~Blocks[1].encrypted THEN "errCrypted" ELSE "next"
        /\ crypto' = (at' = "next")
        /\ multi' = (at' = "next" /\ Blocks[1].volumes)
        /\ UNCHANGED <<archive, dataSize, checked>>

(* A turn of nextBlock reads an encrypted header.                            *)
Ahead == Deciphered(Get(file, SaltSize))
Error == IF ~Has(file, SaltSize) THEN "EOF" ELSE HeaderError(GetPos(file), Ahead.n)
Cur == BlockAt(GetPos(file))
Reads(kinds) == at = "next" /\ Error = "none" /\ Cur.kind \in kinds
NewDataSize == IF Cur.hasData THEN Cur.data ELSE dataSize

NextFails == /\ at = "next" /\ Error # "none"
             /\ at' = Error
             /\ file' = IF Error = "EOF" THEN Get(file, SaltSize) ELSE Ahead.file
             /\ UNCHANGED <<archive, crypto, dataSize, multi, checked>>

\* Mutant: the salt is counted twice.
PaddingAfterSalt(size) == (0 - (2 * SaltSize + size + SaltSize)) % BlockSize

(* parseFileHeader: h.size includes the salt.                                *)
Padding(size) == (0 - (SaltSize + size + SaltSize)) % BlockSize
EndOffset == GetPos(file) + SaltSize + Cur.size + NewDataSize + Padding(Cur.size)

(* main with a file: the archive is sought to its end, its copy is checked.  *)
NextFile ==
    /\ Reads({"file", "dir"}) /\ Len(checked) < MaxChecks
    /\ dataSize' = NewDataSize
    /\ file' = [pos |-> EndOffset, buffered |-> 0]
    /\ checked' = IF Cur.kind = "dir" THEN checked
                  ELSE Append(checked, [start |-> GetPos(file), end |-> EndOffset,
                                        ok |-> Cur.last /\ Cur.ok])
    /\ UNCHANGED <<archive, crypto, multi, at>>

NextArc ==
    /\ Reads({"arc"})
    /\ file' = Ahead.file /\ dataSize' = NewDataSize
    /\ IF Cur.encrypted THEN multi' = Cur.volumes /\ UNCHANGED at
       ELSE at' = "errCrypted" /\ UNCHANGED multi
    /\ UNCHANGED <<archive, crypto, checked>>

NextEnd ==
    /\ Reads({"end"})
    /\ at' = IF Cur.last \/ ~multi THEN "ended" ELSE "errArchiveContinues"
    /\ file' = Ahead.file /\ dataSize' = NewDataSize
    /\ UNCHANGED <<archive, crypto, multi, checked>>

NextOther ==
    /\ Reads({"service"})
    /\ dataSize' = NewDataSize
    /\ file' = Discard(Ahead.file, NewDataSize)
    /\ at' = IF DiscardFails(Ahead.file, NewDataSize) THEN "EOF" ELSE at
    /\ UNCHANGED <<archive, crypto, multi, checked>>

\* main has returned or panicked; the bound on checks may stop it, too.
WStopped == (at \notin {"open", "next"} \/ Len(checked) = MaxChecks) /\ UNCHANGED wvars

WNext == Open \/ NextFails \/ NextFile \/ NextArc \/ NextEnd \/ NextOther \/ WStopped

WSpec == WInit /\ [][WNext]_wvars
-----------------------------------------------------------------------------
(* What the property is about.                                                *)
Entry(i) == [start |-> Start(i), end |-> End(i), ok |-> Blocks[i].last /\ Blocks[i].ok]
FilesIn(n) == {i \in 1..n : Blocks[i].kind = "file"}

(* The files among the first n blocks were checked, in the archive's order.  *)
Reported(n) ==
    /\ ToSet(checked) = {Entry(i) : i \in FilesIn(n)}
    /\ \A j, k \in DOMAIN checked : j < k => checked[j].end <= checked[k].start

Plain == \A i \in 2..Len(Blocks) :
            \/ Blocks[i].kind \in {"file", "dir"}
            \/ Blocks[i].kind = "end" /\ i = Len(Blocks)
Whole == /\ archive.damaged = 0 /\ archive.cut = 0
         /\ Blocks[1].encrypted /\ Blocks[Len(Blocks)].kind = "end"

(* Every file of the archive is checked once, in order, with the range that  *)
(* its blocks take in the archive, and the walk breaks off only where the    *)
(* archive is not whole.  Of an archive with other blocks than files only    *)
(* this is claimed: what is printed is the range of a file.                  *)
FilesReported ==
    /\ ToSet(checked) \subseteq {Entry(i) : i \in FilesIn(Len(Blocks))}
    /\ Plain => \E n \in 0..Len(Blocks) : Reported(n)
    /\ Plain /\ at = "ended" => Reported(Len(Blocks))
    /\ Plain /\ Whole => at \in {"open", "next", "ended", "errArchiveContinues"}
=============================================================================
