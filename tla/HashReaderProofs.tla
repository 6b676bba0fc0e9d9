--------------------------- MODULE HashReaderProofs ---------------------------
(***************************************************************************)
(* Proofs about HashReader for files of any number of chunks and any       *)
(* number of reads and faults.  HashedInOrder needs to know where every    *)
(* chunk is on its way from the file to the hash, the result of CheckFile  *)
(* which of the two goroutines can have written err last.                  *)
(***************************************************************************)
EXTENDS HashReader, SequenceTheorems, TLAPS

\* Chunks received but not yet hashed, and read but not yet handed over.
Hashing == IF hasher = "hash" THEN Len(mem[dat]) ELSE 0
Sending == IF reader = "send" THEN Len(mem[buf]) ELSE 0

\* Every chunk read is hashed or in one of two different buffers.
DataInv ==
    /\ Len(hashed) + Hashing + Sending = pos
    /\ \A i \in 1..Len(hashed) : hashed[i] = chunks[i]
    /\ hasher = "hash" =>
          /\ dat <= reads
          /\ \A i \in 1..Len(mem[dat]) : mem[dat][i] = chunks[Len(hashed) + i]
    /\ reader = "send" =>
          /\ buf <= reads
          /\ \A i \in 1..Len(mem[buf]) :
                mem[buf][i] = chunks[Len(hashed) + Hashing + i]
    /\ hasher = "hash" /\ reader = "send" => dat # buf

\* A file that is hashed has the header's size.
PhaseInv ==
    /\ hasher \notin {"stat", "done"} => last /\ Len(chunks) = size
    /\ hasher = "stat" => reader = "off" /\ ~closed
    /\ reader \in {"read", "send", "check"} => ~closed

\* Whatever the reader found, the hasher's nil is assigned after it; and the
\* reader closes the channel at the end of the file, unless a read failed.
ErrInv ==
    /\ err # "nil" =>
          \/ reader = "send"
          \/ reader \notin {"read", "send"} /\ hasher \in {"hash", "assign"}
    /\ err \in {"EOF", "unexpectedEOF"} => pos = Len(chunks)
    /\ faults = 0 => err # "io"
    /\ faults = 0 /\ closed => pos = Len(chunks)

VerdictInv ==
    /\ hasher # "done" => verdict = "none"
    /\ AcceptedIsIntact
    /\ IntactAccepted

IInv == HashTypeOK /\ DataInv /\ PhaseInv /\ ErrInv /\ VerdictInv

LEMMA InitInv == Init => IInv
<1> SUFFICES ASSUME Init PROVE IInv
  OBVIOUS
<1>1. chunks \in Seq(Chunks)
  BY SeqDef, HashAssumption DEF Init, Chunks
<1>2. HashTypeOK
  <2>1. pos \in 0..Len(chunks) /\ reads \in 0..MaxReads /\ faults \in 0..MaxFaults
    BY <1>1, LenProperties, HashAssumption DEF Init
  <2>2. 1 \in Buffers /\ mem \in [Buffers -> Seq(Chunks)]
    BY HashAssumption, EmptySeq DEF Init, Buffers
  <2>3. hashed \in Seq(Chunks) /\ err \in Errors /\ lastErr \in Errors
    BY EmptySeq DEF Init, Errors
  <2> HIDE DEF Chunks, Buffers
  <2> QED
    BY <1>1, <2>1, <2>2, <2>3 DEF Init, HashTypeOK
<1>3. DataInv
  BY DEF Init, DataInv, Hashing, Sending
<1>4. PhaseInv /\ ErrInv /\ VerdictInv
  BY DEF Init, PhaseInv, ErrInv, VerdictInv, AcceptedIsIntact, IntactAccepted
<1> QED
  BY <1>2, <1>3, <1>4 DEF IInv

\* A step that hands nothing over and hashes nothing leaves the chunks where
\* they are.
LEMMA DataKeeps ==
    ASSUME DataInv,
           UNCHANGED <<chunks, pos, mem, reads, dat, buf, hashed>>,
           hasher' = "hash" <=> hasher = "hash",
           reader' = "send" <=> reader = "send"
    PROVE  DataInv'
BY DEF DataInv, Hashing, Sending

\* While CheckFile is not done, its result is open.
LEMMA VerdictOpen ==
    ASSUME VerdictInv, hasher # "done", hasher' # "done", UNCHANGED verdict
    PROVE  VerdictInv'
BY DEF VerdictInv, AcceptedIsIntact, IntactAccepted

\* Once it is done, the result stays right.
LEMMA VerdictStays ==
    ASSUME VerdictInv, UNCHANGED <<chunks, size, last, hasher, verdict>>,
           faults' = 0 => faults = 0
    PROVE  VerdictInv'
BY DEF VerdictInv, AcceptedIsIntact, IntactAccepted, Intact

LEMMA ReadStep == IInv /\ Read => IInv'
<1> SUFFICES ASSUME HashTypeOK, DataInv, PhaseInv, ErrInv, VerdictInv, Read
             PROVE  IInv'
  BY DEF IInv
<1>1. /\ chunks \in Seq(Chunks) /\ mem \in [Buffers -> Seq(Chunks)]
      /\ pos \in 0..Len(chunks) /\ Len(chunks) \in Nat
      /\ reads \in 0..MaxReads /\ faults \in 0..MaxFaults
      /\ reader = "read" /\ reader' = "send"
      /\ UNCHANGED <<chunks, size, last, hasher, dat, closed, hashed, verdict>>
  BY DEF HashTypeOK, Read, fileVars
<1>2. buf' = reads + 1 /\ buf' \in Buffers /\ reads' = buf'
  BY <1>1, HashAssumption DEF Read, Buffer, Buffers
<1>3. \/ /\ pos' = pos + 1 /\ pos < Len(chunks)
         /\ mem' = [mem EXCEPT ![buf'] = <<chunks[pos + 1]>>]
         /\ err' = "unexpectedEOF" => pos' = Len(chunks)
         /\ err' \in {"nil", "unexpectedEOF"}
         /\ faults' = faults
      \/ /\ pos' = pos /\ pos = Len(chunks) /\ err' = "EOF" /\ faults' = faults
         /\ mem' = [mem EXCEPT ![buf'] = <<>>]
      \/ /\ pos' = pos /\ err' = "io" /\ faults < MaxFaults /\ faults' = faults + 1
         /\ mem' = [mem EXCEPT ![buf'] = <<>>]
  BY DEF Read
<1>4. /\ mem' \in [Buffers -> Seq(Chunks)]
      /\ \A b \in Buffers : b # buf' => mem'[b] = mem[b]
      /\ \/ pos' = pos + 1 /\ pos < Len(chunks) /\ mem'[buf'] = <<chunks[pos + 1]>>
         \/ pos' = pos /\ mem'[buf'] = <<>>
  <2>1. pos < Len(chunks) => <<chunks[pos + 1]>> \in Seq(Chunks)
    BY <1>1, ElementOfSeq
  <2>2. <<>> \in Seq(Chunks)
    OBVIOUS
  <2> QED
    BY <1>1, <1>2, <1>3, <2>1, <2>2
<1>5. HashTypeOK'
  <2>1. pos' \in 0..Len(chunks') /\ faults' \in 0..MaxFaults /\ err' \in Errors
    BY <1>1, <1>3, HashAssumption DEF Errors
  <2>2. reads' \in 0..MaxReads
    BY <1>2, HashAssumption DEF Buffers
  <2> QED
    BY <1>1, <1>2, <1>4, <2>1, <2>2 DEF HashTypeOK, Read, fileVars
<1>6. DataInv'
  <2>1. hasher = "hash" => mem'[dat] = mem[dat] /\ dat # buf' /\ dat <= reads'
    BY <1>1, <1>2, <1>4 DEF DataInv, HashTypeOK, Buffers
  <2>2. Hashing' = Hashing /\ Sending = 0 /\ Sending' = Len(mem'[buf'])
    BY <1>1, <2>1 DEF Hashing, Sending
  <2>3. Len(hashed) \in Nat /\ Hashing \in Nat /\ Len(hashed) + Hashing = pos
    <3>1. Len(hashed) \in Nat /\ Hashing \in Nat
      BY DEF HashTypeOK, Hashing
    <3> QED
      BY <1>1, <2>2, <3>1 DEF DataInv
  <2>4. Len(hashed') + Hashing' + Sending' = pos'
    <3>1. CASE pos' = pos + 1 /\ mem'[buf'] = <<chunks[pos + 1]>>
      <4>1. Len(mem'[buf']) = 1
        BY <3>1
      <4> QED
        BY <1>1, <2>2, <2>3, <3>1, <4>1
    <3>2. CASE pos' = pos /\ mem'[buf'] = <<>>
      <4>1. Len(mem'[buf']) = 0
        BY <3>2
      <4> QED
        BY <1>1, <2>2, <2>3, <3>2, <4>1
    <3> QED
      BY <1>4, <3>1, <3>2
  <2>5. \A i \in 1..Len(mem'[buf']) :
           mem'[buf'][i] = chunks'[Len(hashed') + Hashing' + i]
    <3>1. Len(<<>>) = 0 /\ Len(<<chunks[pos + 1]>>) = 1
      OBVIOUS
    <3>2. <<chunks[pos + 1]>>[1] = chunks[Len(hashed) + Hashing + 1]
      BY <2>3
    <3> QED
      BY <1>1, <1>4, <2>2, <2>3, <3>1, <3>2
  <2>6. \A i \in 1..Len(hashed') : hashed'[i] = chunks'[i]
    BY <1>1 DEF DataInv
  <2>7. hasher' = "hash" =>
           /\ dat' <= reads' /\ dat' # buf'
           /\ \A i \in 1..Len(mem'[dat']) : mem'[dat'][i] = chunks'[Len(hashed') + i]
    BY <1>1, <2>1 DEF DataInv
  <2>8. buf' <= reads'
    BY <1>2, HashAssumption DEF Buffers
  <2> QED
    BY <2>4, <2>5, <2>6, <2>7, <2>8 DEF DataInv
<1>7. PhaseInv'
  BY <1>1 DEF PhaseInv
<1>8. ErrInv'
  BY <1>1, <1>3, HashAssumption DEF PhaseInv, ErrInv
<1>9. VerdictInv'
  BY <1>1, <1>3, HashAssumption, VerdictStays
<1> QED
  BY <1>5, <1>6, <1>7, <1>8, <1>9 DEF IInv

LEMMA HandOverStep == IInv /\ HandOver => IInv'
<1> SUFFICES ASSUME HashTypeOK, DataInv, PhaseInv, ErrInv, VerdictInv, HandOver
             PROVE  IInv'
  BY DEF IInv
<1>1. HashTypeOK'
  BY DEF HashTypeOK, HandOver, fileVars
<1>2. DataInv'
  BY DEF HashTypeOK, DataInv, Hashing, Sending, HandOver, fileVars
<1>3. PhaseInv' /\ ErrInv'
  BY DEF PhaseInv, ErrInv, HandOver, fileVars
<1>4. VerdictInv'
  BY VerdictOpen DEF HandOver
<1> QED
  BY <1>1, <1>2, <1>3, <1>4 DEF IInv

\* The reader's tests of err, after the hand-over.
LEMMA ReaderStep == IInv /\ (Check \/ Compare \/ Record) => IInv'
<1> SUFFICES ASSUME HashTypeOK, DataInv, PhaseInv, ErrInv, VerdictInv,
                    Check \/ Compare \/ Record
             PROVE  IInv'
  BY DEF IInv
<1>1. HashTypeOK'
  BY DEF HashTypeOK, Check, Compare, Record, fileVars
<1>2. DataInv'
  BY DataKeeps DEF Check, Compare, Record, fileVars
<1>3. PhaseInv'
  BY DEF PhaseInv, Check, Compare, Record, fileVars
<1>4. ErrInv'
  BY DEF HashTypeOK, Errors, PhaseInv, ErrInv, Check, Compare, Record, fileVars
<1>5. VerdictInv'
  BY VerdictStays DEF Check, Compare, Record, fileVars
<1> QED
  BY <1>1, <1>2, <1>3, <1>4, <1>5 DEF IInv

LEMMA StatStep == IInv /\ Stat => IInv'
<1> SUFFICES ASSUME HashTypeOK, DataInv, PhaseInv, ErrInv, VerdictInv, Stat
             PROVE  IInv'
  BY DEF IInv
<1>1. HashTypeOK'
  BY DEF HashTypeOK, Stat, VerdictInv, fileVars
<1>2. DataInv'
  BY DataKeeps DEF Stat, PhaseInv, fileVars
<1>3. PhaseInv'
  BY DEF PhaseInv, Stat, SizeFits, fileVars
<1>4. ErrInv'
  BY DEF PhaseInv, ErrInv, Stat, fileVars
<1>5. VerdictInv'
  BY DEF VerdictInv, AcceptedIsIntact, IntactAccepted, Intact, Stat, SizeFits,
         fileVars
<1> QED
  BY <1>1, <1>2, <1>3, <1>4, <1>5 DEF IInv

LEMMA HashStep == IInv /\ Hash => IInv'
<1> SUFFICES ASSUME HashTypeOK, DataInv, PhaseInv, ErrInv, VerdictInv, Hash
             PROVE  IInv'
  BY DEF IInv
<1>1. /\ mem[dat] \in Seq(Chunks) /\ hashed \in Seq(Chunks)
      /\ Len(mem[dat]) \in Nat /\ Len(hashed) \in Nat
  BY DEF HashTypeOK
<1>2. /\ hasher = "hash" /\ hasher' = "assign" /\ hashed' = hashed \o mem[dat]
      /\ UNCHANGED <<chunks, whole, size, last, pos, buf, mem, reads, reader, dat, closed,
                     err, lastErr, verdict, faults>>
  BY DEF Hash, fileVars
<1>3. /\ hashed' \in Seq(Chunks)
      /\ Len(hashed') = Len(hashed) + Len(mem[dat])
      /\ \A i \in 1..Len(hashed') :
            hashed'[i] = IF i <= Len(hashed) THEN hashed[i]
                         ELSE mem[dat][i - Len(hashed)]
  BY <1>1, <1>2, ConcatProperties
<1>4. HashTypeOK'
  BY <1>2, <1>3 DEF HashTypeOK
<1>5. \A i \in 1..Len(hashed') : hashed'[i] = chunks[i]
  <2> SUFFICES ASSUME NEW i \in 1..Len(hashed') PROVE hashed'[i] = chunks[i]
    OBVIOUS
  <2>1. CASE i <= Len(hashed)
    BY <1>1, <1>3, <2>1 DEF DataInv
  <2>2. CASE i > Len(hashed)
    <3>1. i - Len(hashed) \in 1..Len(mem[dat])
      BY <1>1, <1>3, <2>2
    <3>2. mem[dat][i - Len(hashed)] = chunks[Len(hashed) + (i - Len(hashed))]
      BY <1>2, <3>1 DEF DataInv
    <3>3. Len(hashed) + (i - Len(hashed)) = i
      BY <1>1
    <3> QED
      BY <1>1, <1>3, <2>2, <3>2, <3>3
  <2> QED
    BY <1>1, <2>1, <2>2
<1>6. Hashing = Len(mem[dat]) /\ Hashing' = 0 /\ Sending' = Sending
  BY <1>2 DEF Hashing, Sending
<1>7. DataInv'
  <2>1. Len(hashed') + Hashing' + Sending' = pos'
    <3>1. Sending \in Nat
      BY DEF Sending, HashTypeOK
    <3>2. Len(hashed) + Len(mem[dat]) + Sending = pos
      BY <1>6 DEF DataInv
    <3> QED
      BY <1>1, <1>2, <1>3, <1>6, <3>1, <3>2
  <2>2. ASSUME reader = "send", NEW i \in 1..Len(mem[buf])
        PROVE  mem[buf][i] = chunks[Len(hashed') + Hashing' + i]
    BY <1>1, <1>3, <1>6, <2>2 DEF DataInv
  <2> QED
    BY <1>2, <1>5, <2>1, <2>2 DEF DataInv
<1>8. PhaseInv' /\ ErrInv'
  BY <1>2 DEF PhaseInv, ErrInv
<1>9. VerdictInv'
  BY <1>2, VerdictOpen
<1> QED
  BY <1>4, <1>7, <1>8, <1>9 DEF IInv

\* The hasher assigns nil and looks whether it is still there.
LEMMA AssignStep == IInv /\ (Assign \/ Test) => IInv'
<1> SUFFICES ASSUME HashTypeOK, DataInv, PhaseInv, ErrInv, VerdictInv,
                    Assign \/ Test
             PROVE  IInv'
  BY DEF IInv
<1>1. HashTypeOK'
  BY DEF HashTypeOK, Errors, Assign, Test, WriteErr, fileVars
<1>2. DataInv'
  BY DataKeeps DEF Assign, Test, fileVars
<1>3. PhaseInv'
  BY DEF PhaseInv, Assign, Test, fileVars
<1>4. ErrInv'
  BY DEF ErrInv, Assign, Test, WriteErr, fileVars
<1>5. VerdictInv'
  BY VerdictOpen DEF Assign, Test
<1> QED
  BY <1>1, <1>2, <1>3, <1>4, <1>5 DEF IInv

\* When the channel is closed and drained, err is nil, and what was hashed is
\* the file as far as it was read.
LEMMA ReturnStep == IInv /\ Return => IInv'
<1> SUFFICES ASSUME HashTypeOK, DataInv, PhaseInv, ErrInv, VerdictInv, Return
             PROVE  IInv'
  BY DEF IInv
<1>1. HashTypeOK'
  BY DEF HashTypeOK, Return, fileVars
<1>2. DataInv'
  BY DataKeeps DEF Return, fileVars
<1>3. PhaseInv' /\ ErrInv'
  BY DEF PhaseInv, ErrInv, Return, fileVars
<1>4. chunks \in Seq(Chunks) /\ hashed \in Seq(Chunks) /\ size \in Nat
  BY HashAssumption DEF HashTypeOK, Chunks
<1>5. err = "nil" /\ Len(hashed) = pos /\ Len(chunks) = size
  BY <1>4 DEF PhaseInv, ErrInv, DataInv, Hashing, Sending, Return, HashTypeOK
<1>6. \A i \in 1..Len(hashed) : hashed[i] = chunks[i]
  BY DEF DataInv
<1>7. hashed = [i \in 1..Len(hashed) |-> hashed[i]]
  BY <1>4, LenProperties
<1>8. hashed = [i \in 1..size |-> i] => Intact
  <2> SUFFICES ASSUME hashed = [i \in 1..size |-> i] PROVE Intact
    OBVIOUS
  <2>1. DOMAIN hashed = 1..size /\ DOMAIN hashed = 1..Len(hashed)
    BY <1>4, LenProperties
  <2>2. DOMAIN chunks = 1..size
    BY <1>4, <1>5, LenProperties
  <2> QED
    BY <1>5, <1>6, <2>1, <2>2 DEF Intact
<1>9. Intact /\ faults = 0 => hashed = [i \in 1..size |-> i]
  <2> SUFFICES ASSUME Intact, faults = 0 PROVE hashed = [i \in 1..size |-> i]
    OBVIOUS
  <2>1. Len(hashed) = size
    BY <1>5 DEF ErrInv, Return
  <2>2. DOMAIN chunks = 1..size
    BY <1>4, <1>5, LenProperties
  <2>3. \A i \in 1..size : hashed[i] = i
    BY <1>6, <2>1, <2>2 DEF Intact
  <2> QED
    BY <1>7, <2>1, <2>3
<1>10. /\ hasher' = "done" /\ UNCHANGED <<chunks, size, last, faults>>
       /\ verdict' = "ok" <=> hashed = [i \in 1..size |-> i]
  BY <1>5 DEF Return, fileVars
<1>11. VerdictInv'
  BY <1>8, <1>9, <1>10 DEF VerdictInv, AcceptedIsIntact, IntactAccepted, Intact
<1> QED
  BY <1>1, <1>2, <1>3, <1>11 DEF IInv

\* The inductive invariant holds in every state.
THEOREM HashInvariance == Spec => []IInv
<1>1. IInv /\ [Next]_vars => IInv'
  <2> SUFFICES ASSUME IInv, [Next]_vars PROVE IInv'
    OBVIOUS
  <2>1. CASE Stopped \/ UNCHANGED vars
    <3>1. UNCHANGED vars
      BY <2>1 DEF Stopped
    <3>2. HashTypeOK'
      BY <3>1 DEF IInv, HashTypeOK, vars, fileVars
    <3>3. DataInv'
      BY <3>1, DataKeeps DEF IInv, vars, fileVars
    <3>4. PhaseInv' /\ ErrInv'
      BY <3>1 DEF IInv, PhaseInv, ErrInv, vars, fileVars
    <3>5. VerdictInv'
      BY <3>1, VerdictStays DEF IInv, vars, fileVars
    <3> QED
      BY <3>2, <3>3, <3>4, <3>5 DEF IInv
  <2> QED
    BY <2>1, ReadStep, HandOverStep, ReaderStep, StatStep, HashStep, AssignStep,
       ReturnStep DEF Next
<1> QED
  BY <1>1, InitInv, PTL DEF Spec

\* The buffers handed to the hashing goroutine arrive in the file's order,
\* each once, although the reader goes on meanwhile.
THEOREM OrderedHash == Spec => []HashedInOrder
<1>1. IInv => HashedInOrder
  <2> SUFFICES ASSUME IInv PROVE hashed = SubSeq(chunks, 1, Len(hashed))
    BY DEF HashedInOrder
  <2>1. chunks \in Seq(Chunks) /\ hashed \in Seq(Chunks)
    BY DEF IInv, HashTypeOK
  <2>2. Hashing \in Nat /\ Sending \in Nat /\ pos \in 0..Len(chunks)
    BY DEF IInv, HashTypeOK, Hashing, Sending
  <2>3. Len(hashed) \in 0..Len(chunks)
    BY <2>1, <2>2 DEF IInv, DataInv
  <2>4. SubSeq(chunks, 1, Len(hashed)) = [i \in 1..Len(hashed) |-> chunks[i]]
    BY <2>1, <2>3 
  <2>5. hashed = [i \in 1..Len(hashed) |-> hashed[i]]
    BY <2>1, LenProperties
  <2> QED
    BY <2>4, <2>5 DEF IInv, DataInv
<1> QED
  BY <1>1, HashInvariance, PTL

\* However the two goroutines race on err, only a file whose chunks are all those
\* of the intact one is reported as correct.
THEOREM AcceptsNoOther == Spec => []AcceptedIsIntact
<1>1. IInv => AcceptedIsIntact
  BY DEF IInv, VerdictInv
<1> QED
  BY <1>1, HashInvariance, PTL

\* ... and an intact file that could be read always is.
THEOREM AcceptsIntact == Spec => []IntactAccepted
<1>1. IInv => IntactAccepted
  BY DEF IInv, VerdictInv
<1> QED
  BY <1>1, HashInvariance, PTL
=============================================================================
