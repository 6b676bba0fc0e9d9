------------------------------ MODULE HashReader ------------------------------
(***************************************************************************)
(* CheckFile of the infection detector (src/infect_detector/reader.go):    *)
(* the checksum of an unpacked file is computed by hash32.ReadFrom, where  *)
(* a reading goroutine hands buffers over an unbuffered channel to the     *)
(* goroutine that hashes them.  Both assign the named result err, and the  *)
(* reader's flag lastErr is written after the channel is closed: none of   *)
(* these accesses is ordered, so each is a step.                           *)
(*                                                                         *)
(* A file is a sequence of chunks of one buffer each; chunk i of an intact *)
(* file is i.  A buffer is an address of a small memory.                   *)
(***************************************************************************)
EXTENDS Integers, Sequences

CONSTANTS
    MaxChunks,   \* bound: chunks of a file
    MaxReads,    \* bound: buffers allocated
    MaxFaults    \* bound: reads that fail for another reason than the end

ASSUME HashAssumption == MaxChunks \in Nat /\ MaxReads \in Nat \ {0} /\ MaxFaults \in Nat

VARIABLES
    chunks,    \* the file's contents: chunk numbers, 0 for a damaged one
    whole,     \* the last chunk fills its buffer
    size,      \* UnPackedSize of the header, in chunks
    last,      \* the header is that of the file's last block: it has the hash
    pos,       \* chunks read
    buf,       \* the reader's buffer
    mem,       \* contents of the buffers, <<>> for one without data
    reads,     \* buffers allocated so far
    reader,    \* where the reading goroutine is
    hasher,    \* where CheckFile and ReadFrom are
    dat,       \* buffer the hasher received
    closed,    \* datChan is closed
    err,       \* the shared result err
    lastErr,   \* the shared variable lastErr
    hashed,    \* what was written to the hash
    verdict,   \* result of CheckFile
    faults

fileVars == <<chunks, whole, size, last>>
vars == <<fileVars, pos, buf, mem, reads, reader, hasher, dat, closed, err, lastErr,
          hashed, verdict, faults>>

Chunks == 0..MaxChunks
Buffers == 1..MaxReads
Errors == {"nil", "EOF", "unexpectedEOF", "io"}
Intact == Len(chunks) = size /\ \A i \in DOMAIN chunks : chunks[i] = i

Init ==
    /\ chunks \in UNION {[1..n -> Chunks] : n \in Chunks}
    /\ \A i \in DOMAIN chunks : chunks[i] \in {0, i}
    /\ whole \in BOOLEAN
    /\ size \in Chunks
    /\ last \in BOOLEAN
    /\ pos = 0
    /\ mem = [b \in Buffers |-> <<>>]
    /\ reads = 0
    /\ buf = 1 /\ dat = 1
    /\ reader = "off" /\ hasher = "stat"
    /\ closed = FALSE
    /\ err = "nil" /\ lastErr = "nil"
    /\ hashed = <<>>
    /\ verdict = "none"
    /\ faults = 0

-----------------------------------------------------------------------------
(* The reading goroutine *)

\* Mutant: one buffer is allocated before the loop.
SharedBuffer == 1

\* A fresh buffer for every read.
Buffer == reads + 1

\* io.ReadFull: a chunk that fills the buffer, the rest of the file, nothing
\* at its end, or nothing because the read failed.
Read ==
    /\ reader = "read"
    /\ reads < MaxReads
    /\ reads' = reads + 1
    /\ buf' = Buffer
    /\ \/ /\ pos < Len(chunks)
          /\ mem' = [mem EXCEPT ![buf'] = <<chunks[pos + 1]>>]
          /\ pos' = pos + 1
          /\ err' = IF pos' = Len(chunks) /\ ~whole THEN "unexpectedEOF" ELSE "nil"
          /\ UNCHANGED faults
       \/ /\ pos = Len(chunks)
          /\ mem' = [mem EXCEPT ![buf'] = <<>>]
          /\ err' = "EOF"
          /\ UNCHANGED <<pos, faults>>
       \/ /\ faults < MaxFaults
          /\ faults' = faults + 1
          /\ mem' = [mem EXCEPT ![buf'] = <<>>]
          /\ err' = "io"
          /\ UNCHANGED pos
    /\ reader' = "send"
    /\ UNCHANGED <<fileVars, hasher, dat, closed, lastErr, hashed, verdict>>

\* datChan is unbuffered: sender and receiver meet.
HandOver ==
    /\ reader = "send" /\ hasher = "receive"
    /\ dat' = buf
    /\ reader' = "check" /\ hasher' = "hash"
    /\ UNCHANGED <<fileVars, pos, buf, mem, reads, closed, err, lastErr, hashed,
                   verdict, faults>>

\* `if err != nil': the hasher may have assigned nil since.
Check ==
    /\ reader = "check"
    /\ IF err = "nil"
       THEN reader' = "read" /\ UNCHANGED closed
       ELSE reader' = "compare" /\ closed' = TRUE
    /\ UNCHANGED <<fileVars, pos, buf, mem, reads, hasher, dat, err, lastErr, hashed,
                   verdict, faults>>

\* `if err != io.EOF', and then err once more.
Compare ==
    /\ reader = "compare"
    /\ reader' = IF err # "EOF" THEN "record" ELSE "off"
    /\ UNCHANGED <<fileVars, pos, buf, mem, reads, hasher, dat, closed, err, lastErr,
                   hashed, verdict, faults>>

Record ==
    /\ reader = "record"
    /\ lastErr' = err
    /\ reader' = "off"
    /\ UNCHANGED <<fileVars, pos, buf, mem, reads, hasher, dat, closed, err, hashed,
                   verdict, faults>>

-----------------------------------------------------------------------------
(* CheckFile and the hashing loop *)

\* Mutant: the size is not compared.
SizeFitsAlways == TRUE

SizeFits == Len(chunks) = size

\* No hash in the header, or another size: nothing is read.
Stat ==
    /\ hasher = "stat"
    /\ IF ~last THEN verdict' = "continues"
       ELSE IF ~SizeFits THEN verdict' = "short"
       ELSE verdict' = verdict
    /\ IF last /\ SizeFits
       THEN reader' = "read" /\ hasher' = "receive"
       ELSE reader' = reader /\ hasher' = "done"
    /\ UNCHANGED <<fileVars, pos, buf, mem, reads, dat, closed, err, lastErr, hashed,
                   faults>>

\* The buffer's bytes enter the hash.
Hash ==
    /\ hasher = "hash"
    /\ hashed' = hashed \o mem[dat]
    /\ hasher' = "assign"
    /\ UNCHANGED <<fileVars, pos, buf, mem, reads, reader, dat, closed, err, lastErr,
                   verdict, faults>>

\* Mutant: the result of Write goes to a variable of its own.
Assigned == err

\* `_, err = h.Write(dat)': a hash never fails.
WriteErr == "nil"

Assign ==
    /\ hasher = "assign"
    /\ err' = WriteErr
    /\ hasher' = "test"
    /\ UNCHANGED <<fileVars, pos, buf, mem, reads, reader, dat, closed, lastErr,
                   hashed, verdict, faults>>

\* `if err != nil { lastErr = err }': the reader may have assigned since.
Test ==
    /\ hasher = "test"
    /\ lastErr' = IF err # "nil" THEN err ELSE lastErr
    /\ hasher' = "receive"
    /\ UNCHANGED <<fileVars, pos, buf, mem, reads, reader, dat, closed, err, hashed,
                   verdict, faults>>

\* The channel is closed: ReadFrom returns err or nil, CheckFile compares.
Return ==
    /\ hasher = "receive" /\ closed
    /\ verdict' = IF lastErr # "nil" /\ err # "nil" THEN "error"
                  ELSE IF hashed = [i \in 1..size |-> i] THEN "ok"
                  ELSE "badChecksum"
    /\ hasher' = "done"
    /\ UNCHANGED <<fileVars, pos, buf, mem, reads, reader, dat, closed, err, lastErr,
                   hashed, faults>>

\* The reader may run on, and the bound on its reads may stop it.
Stopped ==
    /\ \/ hasher = "done" /\ reader = "off"
       \/ reader = "read" /\ reads = MaxReads
    /\ UNCHANGED vars

Next ==
    \/ Read \/ HandOver \/ Check \/ Compare \/ Record
    \/ Stat \/ Hash \/ Assign \/ Test \/ Return \/ Stopped

Spec == Init /\ [][Next]_vars

-----------------------------------------------------------------------------
(* Properties *)

\* Types of all variables.
HashTypeOK ==
    /\ chunks \in Seq(Chunks) /\ whole \in BOOLEAN
    /\ size \in Chunks /\ last \in BOOLEAN
    /\ pos \in 0..Len(chunks)
    /\ mem \in [Buffers -> Seq(Chunks)]
    /\ reads \in 0..MaxReads
    /\ reader \in {"off", "read", "send", "check", "compare", "record"}
    /\ hasher \in {"stat", "receive", "hash", "assign", "test", "done"}
    /\ buf \in Buffers /\ dat \in Buffers
    /\ closed \in BOOLEAN
    /\ err \in Errors /\ lastErr \in Errors
    /\ hashed \in Seq(Chunks)
    /\ verdict \in {"none", "continues", "short", "error", "ok", "badChecksum"}
    /\ faults \in 0..MaxFaults

\* What was hashed is what the file begins with, each chunk once and in order,
\* although the reader fills the next buffer while the last one is hashed.
HashedInOrder == hashed = SubSeq(chunks, 1, Len(hashed))

\* An intact file that could be read is accepted: however the two goroutines
\* race on err, the end of the file is never taken for an error of ReadFrom.
IntactAccepted ==
    hasher = "done" /\ last /\ Intact /\ faults = 0 => verdict = "ok"

\* Only an intact file is accepted, whatever was lost on the way.
AcceptedIsIntact == verdict = "ok" => Intact
=============================================================================
