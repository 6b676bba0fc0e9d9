--------------------------- MODULE RequestsProofs ---------------------------
(***************************************************************************)
(* Proofs about Requests, for any number of proxies and ranges and any     *)
(* number of expired links and faults: a request asks for its own proxy's  *)
(* offset although all write theirs into one buffer, and so every byte     *)
(* that is stored is the byte of that offset, of the file or of one of     *)
(* exactly its length.                                                     *)
(***************************************************************************)
EXTENDS Requests, NumberLemmas, FiniteSetTheorems

Offsets == 0..Length
Epochs == 0..MaxExpiries
Busy == {"lock", "write", "head", "fetch", "renew", "receive", "hung"}

\* A byte, by its file and its place there; where a byte of our length's files is.
Bytes == [file : DOMAIN Lengths, at : Offsets]
BytesAt(x) == {[file |-> f, at |-> x] : f \in Twins}

ReqTypeOK ==
    /\ header \in Headers
    /\ link \in [Headers -> Epochs]
    /\ area \in [Headers -> Offsets \cup {None}]
    /\ holder \in [Headers -> Proxies \cup {None}]
    /\ epoch \in Epochs
    /\ pc \in [Proxies -> Busy \cup {"idle"}]
    /\ range \in [Proxies -> Starts \cup {None}]
    /\ mine \in [Proxies -> Headers]
    /\ request \in [Proxies -> [link : Epochs, from : Offsets] \cup {None}]
    /\ body \in [Proxies -> Bytes \cup {None}]
    /\ fetched \in [Proxies -> Epochs \cup {None}]
    /\ cur \in [Starts -> Offsets]
    /\ stored \in [0..Length - 1 -> Bytes \cup {None}]

\* A proxy in run has a range of its own with bytes left.
RangeInv ==
    /\ \A p \in Proxies : pc[p] # "idle" =>
          range[p] \in Starts /\ cur[range[p]] < End(range[p])
    /\ \A p \in Proxies : pc[p] = "idle" => range[p] = None
    /\ \A p, q \in Proxies : range[p] # None /\ range[p] = range[q] => p = q

\* Who writes holds the mutex of the header it took, even after t.header has
\* been replaced, and the offset behind that header is its own.
HoldInv ==
    \A p \in Proxies : pc[p] = "write" =>
        holder[mine[p]] = p /\ area[mine[p]] = cur[range[p]]

\* What a proxy waiting for an answer, or about to renew, has in its hands.
AnswerInv ==
    /\ \A p \in Proxies : pc[p] = "head" => request[p].from = cur[range[p]]
    /\ \A p \in Proxies : pc[p] = "renew" => fetched[p] \in Epochs
    /\ \A p \in Proxies : pc[p] = "receive" => body[p] \in BytesAt(cur[range[p]])

IInv == ReqTypeOK /\ RangeInv /\ HoldInv /\ AnswerInv /\ StoredRight

-----------------------------------------------------------------------------
(* Facts about numbers and sets *)

\* The end of a range is the first later start, the end of the file if none is.
LEMMA EndInside ==
    ASSUME NEW r \in Starts
    PROVE  /\ r \in 0..Length - 1 /\ End(r) \in 0..Length /\ r < End(r)
           /\ Length \in Nat
<1> DEFINE later == {s \in Starts \cup {Length} : r < s}
<1>1. Length \in Nat /\ r \in 0..Length - 1 /\ \A s \in Starts : s \in 0..Length - 1
  BY RequestsAssumption DEF Length
<1>2. \A s \in later : s \in 0..Length /\ s \in Nat /\ r < s
  BY <1>1
<1>3. Length \in later
  BY <1>1
<1>4. End(r) = CHOOSE e \in later : \A s \in later : e <= s
  BY DEF End
<1> HIDE DEF later
<1>5. \E e \in later : \A s \in later : e <= s
  <2>1. later \in SUBSET Nat /\ later # {}
    BY <1>2, <1>3
  <2> QED
    BY <2>1, SmallestOf
<1>6. End(r) \in later
  BY <1>4, <1>5
<1> QED
  BY <1>1, <1>2, <1>6

\* What BytesAt holds are bytes.
LEMMA BytesAtAreBytes ==
    ASSUME NEW x \in Offsets, NEW b \in BytesAt(x)
    PROVE  b \in Bytes /\ b.at = x /\ b.file \in Twins
  BY DEF Bytes, BytesAt, Twins

LEMMA StartsAreRanges ==
    ASSUME NEW r \in Starts
    PROVE  r # None
<1>1. r \in Int
  BY EndInside
<1> QED
  BY <1>1, RequestsAssumption

\* A header that neither t.header nor a sending proxy refers to exists while
\* some proxy is not sending: there is one header more than proxies.
LEMMA FreshHeader ==
    ASSUME ReqTypeOK, NEW p \in Proxies, pc[p] = "renew"
    PROVE  \E g \in Headers : g \notin InUse
<1> SUFFICES ASSUME \A g \in Headers : g \in InUse PROVE FALSE
  OBVIOUS
<1> DEFINE senders(g) == {q \in Proxies : pc[q] \in {"lock", "write"} /\ mine[q] = g}
           user == [g \in Headers |-> IF g = header THEN p ELSE CHOOSE q \in senders(g) : TRUE]
<1>1. \A g \in Headers : g # header => \E q \in Proxies : q \in senders(g)
  BY DEF InUse
<1>2. \A g \in Headers : g # header => user[g] \in senders(g)
  BY <1>1
<1>3. user \in [Headers -> Proxies]
  BY <1>2
<1>4. ASSUME NEW g \in Headers, NEW h \in Headers, user[g] = user[h] PROVE g = h
  <2>1. CASE g # header /\ h # header
    BY <1>2, <1>4, <2>1
  <2>2. CASE g = header /\ h # header
    BY <1>2, <1>4, <2>2
  <2>3. CASE g # header /\ h = header
    BY <1>2, <1>4, <2>3
  <2> QED
    BY <2>1, <2>2, <2>3
<1> HIDE DEF user
<1>5. user \in Injection(Headers, Proxies)
  BY <1>3, <1>4 DEF Injection, IsInjective
<1>6. Cardinality(Headers) <= Cardinality(Proxies)
  BY <1>5, FS_Injection, RequestsAssumption
<1>7. Cardinality(Proxies) \in Nat
  BY FS_CardinalityType, RequestsAssumption
<1>8. Cardinality(Headers) = Cardinality(Proxies) + 1
  BY <1>7, FS_Interval DEF Headers
<1> QED
  BY <1>6, <1>7, <1>8
-----------------------------------------------------------------------------
(* The steps *)

LEMMA ReqInit == Init => IInv
<1> SUFFICES ASSUME Init PROVE IInv
  OBVIOUS
<1>1. 0 \in Headers /\ 0 \in Epochs
  <2>1. Cardinality(Proxies) \in Nat
    BY FS_CardinalityType, RequestsAssumption
  <2> QED
    BY <2>1, RequestsAssumption DEF Headers, Epochs
<1>2. \A r \in Starts : r \in Offsets
  BY EndInside DEF Offsets
<1>3. ReqTypeOK
  BY <1>1, <1>2 DEF Init, ReqTypeOK, Busy
<1>4. StoredRight
  <2>1. \A r \in Starts : cur[r] = r /\ r \in Int
    BY EndInside DEF Init
  <2> QED
    BY <2>1 DEF StoredRight
<1> QED
  BY <1>3, <1>4 DEF Init, IInv, RangeInv, HoldInv, AnswerInv

\* What a proxy leaves behind when run returns: everything of the others, as long
\* as their offsets, and the headers they write through, stay.
LEMMA ReturnKeeps ==
    ASSUME IInv, NEW p \in Proxies, Return(p),
           \A r \in Starts : r # range[p] => cur'[r] = cur[r],
           \A q \in Proxies : q # p /\ pc[q] = "write" =>
              holder'[mine[q]] = q /\ area'[mine[q]] = area[mine[q]],
           header' \in Headers, link' \in [Headers -> Epochs], epoch' \in Epochs,
           area' \in [Headers -> Offsets \cup {None}],
           holder' \in [Headers -> Proxies \cup {None}],
           cur' \in [Starts -> Offsets],
           stored' \in [0..Length - 1 -> Bytes \cup {None}],
           StoredRight'
    PROVE  IInv'
<1>1. ReqTypeOK /\ RangeInv /\ HoldInv /\ AnswerInv
  BY DEF IInv
<1>2. 0 \in Headers
  BY FS_CardinalityType, RequestsAssumption DEF Headers
<1>3. /\ pc' = [pc EXCEPT ![p] = "idle"] /\ range' = [range EXCEPT ![p] = None]
      /\ request' = [request EXCEPT ![p] = None] /\ body' = [body EXCEPT ![p] = None]
      /\ fetched' = [fetched EXCEPT ![p] = None] /\ mine' = [mine EXCEPT ![p] = 0]
  BY DEF Return, Goto
<1>4. /\ pc'[p] = "idle" /\ range'[p] = None
      /\ \A q \in Proxies : q # p =>
            /\ pc'[q] = pc[q] /\ range'[q] = range[q] /\ request'[q] = request[q]
            /\ body'[q] = body[q] /\ fetched'[q] = fetched[q] /\ mine'[q] = mine[q]
  BY <1>1, <1>3 DEF ReqTypeOK
<1>5. \A q \in Proxies : q # p /\ pc[q] # "idle" =>
          range[q] \in Starts /\ range[q] # None /\ cur'[range[q]] = cur[range[q]]
  <2> SUFFICES ASSUME NEW q \in Proxies, q # p, pc[q] # "idle"
               PROVE  range[q] \in Starts /\ range[q] # None /\ cur'[range[q]] = cur[range[q]]
    OBVIOUS
  <2>1. range[q] \in Starts /\ range[q] # None
    BY <1>1, StartsAreRanges DEF RangeInv
  <2>2. range[q] # range[p]
    BY <1>1, <2>1 DEF RangeInv
  <2> QED
    BY <2>1, <2>2
<1>6. RangeInv'
  <2>1. ASSUME NEW q \in Proxies, pc'[q] # "idle"
        PROVE  range'[q] \in Starts /\ cur'[range'[q]] < End(range'[q])
    <3>1. q # p /\ pc[q] # "idle" /\ range'[q] = range[q]
      BY <1>4, <2>1
    <3>2. range[q] \in Starts /\ cur[range[q]] < End(range[q])
      BY <1>1, <3>1 DEF RangeInv
    <3> QED
      BY <1>5, <3>1, <3>2
  <2>2. ASSUME NEW q \in Proxies, pc'[q] = "idle" PROVE range'[q] = None
    BY <1>1, <1>4, <2>2 DEF RangeInv
  <2>3. ASSUME NEW q \in Proxies, NEW o \in Proxies, range'[q] # None, range'[q] = range'[o]
        PROVE  q = o
    <3>1. q # p /\ o # p /\ range'[q] = range[q] /\ range'[o] = range[o]
      BY <1>4, <2>3
    <3> QED
      BY <1>1, <2>3, <3>1 DEF RangeInv
  <2> QED
    BY <2>1, <2>2, <2>3 DEF RangeInv
<1>7. HoldInv'
  BY <1>1, <1>4, <1>5 DEF HoldInv
<1>8. AnswerInv'
  BY <1>1, <1>4, <1>5 DEF AnswerInv
<1>9. ReqTypeOK'
  BY <1>1, <1>2, <1>3 DEF ReqTypeOK
<1> QED
  BY <1>6, <1>7, <1>8, <1>9 DEF IInv

\* run takes a free range and the header of the moment.
LEMMA StartStep ==
    ASSUME IInv, NEW p \in Proxies, Start(p)
    PROVE  IInv'
<1>1. ReqTypeOK /\ RangeInv /\ HoldInv /\ AnswerInv /\ StoredRight
  BY DEF IInv
<1> DEFINE r == CHOOSE r \in Open : \A s \in Open : r <= s
<1>2. r \in Starts /\ Idle(r) /\ cur[r] < End(r)
  <2>1. Open # {} /\ Open \in SUBSET Nat
    BY EndInside DEF Start, Open
  <2>2. \E m \in Open : \A s \in Open : m <= s
    BY <2>1, SmallestOf
  <2>3. r \in Open
    BY <2>2
  <2> QED
    BY <2>3 DEF Open
<1> HIDE DEF r
<1>3. /\ pc[p] = "idle" /\ pc' = [pc EXCEPT ![p] = "lock"]
      /\ range' = [range EXCEPT ![p] = r] /\ mine' = [mine EXCEPT ![p] = header]
      /\ UNCHANGED <<header, link, area, holder, epoch, request, body, fetched, cur, stored>>
  BY DEF Start, Goto, headers, ranges, r
<1>4. ReqTypeOK'
  BY <1>1, <1>2, <1>3 DEF ReqTypeOK, Busy
<1>5. /\ range'[p] = r /\ pc'[p] = "lock"
      /\ \A q \in Proxies : q # p =>
            pc'[q] = pc[q] /\ range'[q] = range[q] /\ mine'[q] = mine[q] /\ range[q] # r
  BY <1>1, <1>2, <1>3 DEF ReqTypeOK, Idle
<1>6. RangeInv'
  <2>1. \A q \in Proxies : pc'[q] # "idle" => range'[q] \in Starts /\ cur[range'[q]] < End(range'[q])
    BY <1>1, <1>2, <1>5 DEF RangeInv
  <2>2. \A q \in Proxies : pc'[q] = "idle" => range'[q] = None
    BY <1>1, <1>5 DEF RangeInv
  <2>3. ASSUME NEW q \in Proxies, NEW s \in Proxies, range'[q] # None, range'[q] = range'[s]
        PROVE  q = s
    BY <1>1, <1>5, <2>3 DEF RangeInv
  <2> QED
    BY <1>3, <2>1, <2>2, <2>3 DEF RangeInv, End
<1>7. HoldInv' /\ AnswerInv'
  BY <1>1, <1>3, <1>5 DEF HoldInv, AnswerInv
<1>8. StoredRight'
  BY <1>1, <1>3 DEF StoredRight
<1> QED
  BY <1>4, <1>6, <1>7, <1>8 DEF IInv

\* The mutex of a header is free, so nobody writes through it; the offset of
\* the proxy that takes it replaces whatever another has left behind it.
LEMMA AppendStep ==
    ASSUME IInv, NEW p \in Proxies, Append(p)
    PROVE  IInv'
<1>1. ReqTypeOK /\ RangeInv /\ HoldInv /\ AnswerInv /\ StoredRight
  BY DEF IInv
<1>2. /\ pc[p] = "lock" /\ holder[mine[p]] = None /\ pc' = [pc EXCEPT ![p] = "write"]
      /\ holder' = [holder EXCEPT ![mine[p]] = p]
      /\ area' = [area EXCEPT ![mine[p]] = cur[range[p]]]
      /\ UNCHANGED <<header, link, epoch, range, mine, request, body, fetched, cur, stored>>
  BY DEF Append, Goto, ranges, Free
<1>3. mine[p] \in Headers /\ range[p] \in Starts /\ cur[range[p]] \in Offsets
  BY <1>1, <1>2 DEF ReqTypeOK, RangeInv
<1>4. ReqTypeOK'
  BY <1>1, <1>2, <1>3 DEF ReqTypeOK, Busy
<1>5. /\ pc'[p] = "write" /\ holder'[mine[p]] = p /\ area'[mine[p]] = cur[range[p]]
      /\ \A q \in Proxies : q # p => pc'[q] = pc[q]
      /\ \A h \in Headers : h # mine[p] => holder'[h] = holder[h] /\ area'[h] = area[h]
  BY <1>1, <1>2, <1>3 DEF ReqTypeOK
<1>6. HoldInv'
  <2> SUFFICES ASSUME NEW q \in Proxies, pc'[q] = "write"
               PROVE  holder'[mine[q]] = q /\ area'[mine[q]] = cur[range[q]]
    BY <1>2 DEF HoldInv
  <2>1. CASE q = p
    BY <1>5, <2>1
  <2>2. CASE q # p
    <3>1. holder[mine[q]] = q /\ area[mine[q]] = cur[range[q]] /\ q # None
      BY <1>1, <1>5, <2>2, RequestsAssumption DEF HoldInv
    <3>2. mine[q] # mine[p] /\ mine[q] \in Headers
      BY <1>1, <1>2, <3>1 DEF ReqTypeOK
    <3> QED
      BY <1>5, <3>1, <3>2
  <2> QED
    BY <2>1, <2>2
<1>7. RangeInv' /\ AnswerInv'
  BY <1>1, <1>2, <1>5 DEF RangeInv, AnswerInv, End
<1>8. StoredRight'
  BY <1>1, <1>2 DEF StoredRight
<1> QED
  BY <1>4, <1>6, <1>7, <1>8 DEF IInv

\* What is sent is what the holder of the mutex has put behind the header.
LEMMA WriteStep ==
    ASSUME IInv, NEW p \in Proxies, Write(p)
    PROVE  IInv'
<1>1. ReqTypeOK /\ RangeInv /\ HoldInv /\ AnswerInv /\ StoredRight
  BY DEF IInv
<1>2. /\ pc[p] = "write" /\ holder' = [holder EXCEPT ![mine[p]] = None]
      /\ UNCHANGED <<header, link, area, epoch, cur, stored>>
  BY DEF Write, ranges
<1>3. holder[mine[p]] = p /\ area[mine[p]] = cur[range[p]] /\ mine[p] \in Headers
      /\ range[p] \in Starts /\ cur[range[p]] \in Offsets
  BY <1>1, <1>2 DEF HoldInv, ReqTypeOK, RangeInv
<1>4. \A q \in Proxies : q # p /\ pc[q] = "write" =>
          holder'[mine[q]] = q /\ area'[mine[q]] = area[mine[q]]
  BY <1>1, <1>2, <1>3 DEF HoldInv, ReqTypeOK
<1>5. holder' \in [Headers -> Proxies \cup {None}]
  BY <1>1, <1>2 DEF ReqTypeOK
<1>6. StoredRight'
  BY <1>1, <1>2 DEF StoredRight
<1>7. CASE Return(p)
  <2>1. \A r \in Starts : r # range[p] => cur'[r] = cur[r]
    BY <1>2
  <2>2. /\ header' \in Headers /\ link' \in [Headers -> Epochs] /\ epoch' \in Epochs
        /\ area' \in [Headers -> Offsets \cup {None}] /\ cur' \in [Starts -> Offsets]
        /\ stored' \in [0..Length - 1 -> Bytes \cup {None}]
    BY <1>1, <1>2 DEF ReqTypeOK
  <2> QED
    BY <1>4, <1>5, <1>6, <1>7, <2>1, <2>2, ReturnKeeps
<1>8. CASE ~Return(p)
  <2>1. /\ request' = [request EXCEPT ![p] = [link |-> link[mine[p]], from |-> area[mine[p]]]]
        /\ mine' = [mine EXCEPT ![p] = 0] /\ pc' = [pc EXCEPT ![p] = "head"]
        /\ UNCHANGED <<range, body, fetched>>
    BY <1>8 DEF Write, Goto
  <2>2. 0 \in Headers
    BY FS_CardinalityType, RequestsAssumption DEF Headers
  <2>3. [link |-> link[mine[p]], from |-> area[mine[p]]] \in [link : Epochs, from : Offsets]
    BY <1>1, <1>3 DEF ReqTypeOK
  <2>4. ReqTypeOK'
    BY <1>1, <1>2, <1>5, <2>1, <2>2, <2>3 DEF ReqTypeOK, Busy
  <2>5. /\ pc'[p] = "head" /\ request'[p].from = cur[range[p]]
        /\ \A q \in Proxies : q # p => pc'[q] = pc[q] /\ request'[q] = request[q] /\ mine'[q] = mine[q]
    BY <1>1, <1>3, <2>1 DEF ReqTypeOK
  <2>6. RangeInv'
    BY <1>1, <1>2, <2>1, <2>5 DEF RangeInv, End
  <2>7. HoldInv'
    BY <1>1, <1>2, <1>4, <2>1, <2>5 DEF HoldInv
  <2>8. AnswerInv'
    BY <1>1, <1>2, <2>1, <2>5 DEF AnswerInv
  <2> QED
    BY <1>6, <2>4, <2>6, <2>7, <2>8 DEF IInv
<1> QED
  BY <1>7, <1>8
\* A proxy that returns with nothing else changed.
LEMMA GiveUpStep ==
    ASSUME IInv, NEW p \in Proxies, Return(p), UNCHANGED <<headers, epoch, cur, stored>>
    PROVE  IInv'
<1>1. UNCHANGED <<header, link, area, holder, epoch, cur, stored>>
  BY DEF headers
<1>2. /\ header' \in Headers /\ link' \in [Headers -> Epochs] /\ epoch' \in Epochs
      /\ area' \in [Headers -> Offsets \cup {None}]
      /\ holder' \in [Headers -> Proxies \cup {None}]
      /\ cur' \in [Starts -> Offsets]
      /\ stored' \in [0..Length - 1 -> Bytes \cup {None}]
  BY <1>1 DEF IInv, ReqTypeOK
<1>3. StoredRight' /\ \A r \in Starts : r # range[p] => cur'[r] = cur[r]
  BY <1>1 DEF IInv, StoredRight
<1>4. \A q \in Proxies : q # p /\ pc[q] = "write" =>
          holder'[mine[q]] = q /\ area'[mine[q]] = area[mine[q]]
  BY <1>1 DEF IInv, HoldInv
<1> QED
  BY <1>2, <1>3, <1>4, ReturnKeeps

\* A proxy that moves on, with its own place and findings all that changes.
LEMMA MoveStep ==
    ASSUME IInv, NEW p \in Proxies, pc[p] # "idle",
           NEW l \in Busy \ {"write", "head"}, pc' = [pc EXCEPT ![p] = l],
           UNCHANGED <<headers, epoch, ranges, range, mine, request>>,
           body' \in [Proxies -> Bytes \cup {None}],
           fetched' \in [Proxies -> Epochs \cup {None}],
           \A q \in Proxies : q # p => body'[q] = body[q] /\ fetched'[q] = fetched[q],
           l = "renew" => fetched'[p] \in Epochs,
           l = "receive" => body'[p] \in BytesAt(cur[range[p]])
    PROVE  IInv'
<1>1. ReqTypeOK /\ RangeInv /\ HoldInv /\ AnswerInv /\ StoredRight
  BY DEF IInv
<1>2. UNCHANGED <<header, link, area, holder, epoch, cur, stored, range, mine, request>>
  BY DEF headers, ranges
<1>3. pc'[p] = l /\ \A q \in Proxies : q # p => pc'[q] = pc[q]
  BY <1>1 DEF ReqTypeOK
<1>4. ReqTypeOK'
  BY <1>1, <1>2 DEF ReqTypeOK
<1>5. RangeInv'
  <2>1. \A q \in Proxies : pc'[q] = "idle" <=> pc[q] = "idle"
    BY <1>3 DEF Busy
  <2> QED
    BY <1>1, <1>2, <2>1 DEF RangeInv, End
<1>6. HoldInv' /\ AnswerInv' /\ StoredRight'
  BY <1>1, <1>2, <1>3 DEF HoldInv, AnswerInv, StoredRight
<1> QED
  BY <1>4, <1>5, <1>6 DEF IInv

\* The answer of the right length is the rest, from the proxy's own offset, of
\* the file or of one as long; every other length sends the proxy back.
LEMMA PartialStep ==
    ASSUME IInv, NEW p \in Proxies, pc[p] = "head", UNCHANGED <<headers, epoch, ranges>>,
           NEW f \in DOMAIN Lengths, Partial(p, f)
    PROVE  IInv'
<1>1. ReqTypeOK /\ RangeInv /\ AnswerInv
  BY DEF IInv
<1> DEFINE c == cur[range[p]]
           b == [file |-> f, at |-> c]
<1>2. range[p] \in Starts /\ request[p].from = c
  BY <1>1 DEF RangeInv, AnswerInv
<1>3. c \in Offsets /\ c \in Int /\ Length \in Int /\ Lengths[f] \in Int
  BY <1>1, <1>2, EndInside, RequestsAssumption DEF ReqTypeOK, Offsets
<1>4. CASE SameLength(p, Lengths[f] - c)
  <2>1. /\ body' = [body EXCEPT ![p] = b] /\ pc' = [pc EXCEPT ![p] = "receive"]
        /\ UNCHANGED <<range, mine, request, fetched>>
    BY <1>2, <1>4 DEF Partial, Goto
  <2>2. Lengths[f] = Length
    BY <1>3, <1>4 DEF SameLength
  <2>3. b \in BytesAt(c) /\ b \in Bytes
    BY <1>3, <2>2 DEF BytesAt, Twins, Bytes
  <2>4. "receive" \in Busy \ {"write", "head"} /\ pc[p] # "idle"
    BY DEF Busy
  <2>5. body' \in [Proxies -> Bytes \cup {None}] /\ fetched' \in [Proxies -> Epochs \cup {None}]
    BY <1>1, <2>1, <2>3 DEF ReqTypeOK
  <2>6. body'[p] \in BytesAt(c) /\ \A q \in Proxies : q # p => body'[q] = body[q] /\ fetched'[q] = fetched[q]
    BY <1>1, <2>1, <2>3 DEF ReqTypeOK
  <2> QED
    BY <2>1, <2>4, <2>5, <2>6, MoveStep
<1>5. CASE ~SameLength(p, Lengths[f] - c)
  <2>1. Return(p) /\ UNCHANGED <<cur, stored>>
    BY <1>2, <1>5 DEF Partial, ranges
  <2> QED
    BY <2>1, GiveUpStep
<1> QED
  BY <1>4, <1>5

LEMMA HeadStep ==
    ASSUME IInv, NEW p \in Proxies, Head(p)
    PROVE  IInv'
<1>1. pc[p] = "head" /\ UNCHANGED <<headers, epoch, ranges>> /\ UNCHANGED <<cur, stored>>
  BY DEF Head, ranges
<1>2. CASE Return(p)
  BY <1>1, <1>2, GiveUpStep
<1>3. CASE Goto(p, "fetch") /\ UNCHANGED <<range, mine, request, body, fetched>>
  <2>1. pc' = [pc EXCEPT ![p] = "fetch"]
    BY <1>3 DEF Goto
  <2>2. "fetch" \in Busy \ {"write", "head"} /\ pc[p] # "idle"
    BY <1>1 DEF Busy
  <2>3. body' \in [Proxies -> Bytes \cup {None}] /\ fetched' \in [Proxies -> Epochs \cup {None}]
    BY <1>3 DEF IInv, ReqTypeOK
  <2> QED
    BY <1>1, <1>3, <2>1, <2>2, <2>3, MoveStep
<1>4. CASE \E f \in DOMAIN Lengths : Partial(p, f)
  BY <1>1, <1>4, PartialStep
<1> QED
  BY <1>2, <1>3, <1>4, RequestsAssumption DEF Head

LEMMA FetchLinkStep ==
    ASSUME IInv, NEW p \in Proxies, FetchLink(p)
    PROVE  IInv'
<1>1. ReqTypeOK
  BY DEF IInv
<1>2. pc[p] = "fetch" /\ UNCHANGED <<headers, epoch, ranges>> /\ UNCHANGED <<cur, stored>>
  BY DEF FetchLink, ranges
<1>3. CASE Return(p)
  BY <1>2, <1>3, GiveUpStep
<1>4. CASE Goto(p, "hung") /\ UNCHANGED <<range, mine, request, body, fetched>>
  <2>1. pc' = [pc EXCEPT ![p] = "hung"]
    BY <1>4 DEF Goto
  <2>2. "hung" \in Busy \ {"write", "head"} /\ pc[p] # "idle"
    BY <1>2 DEF Busy
  <2>3. body' \in [Proxies -> Bytes \cup {None}] /\ fetched' \in [Proxies -> Epochs \cup {None}]
    BY <1>1, <1>4 DEF ReqTypeOK
  <2> QED
    BY <1>2, <1>4, <2>1, <2>2, <2>3, MoveStep
<1>5. CASE Goto(p, "renew") /\ fetched' = [fetched EXCEPT ![p] = epoch]
           /\ UNCHANGED <<range, mine, request, body>>
  <2>1. /\ fetched' = [fetched EXCEPT ![p] = epoch] /\ pc' = [pc EXCEPT ![p] = "renew"]
        /\ UNCHANGED <<range, mine, request, body>>
    BY <1>5 DEF Goto
  <2>2. "renew" \in Busy \ {"write", "head"} /\ pc[p] # "idle"
    BY <1>2 DEF Busy
  <2>3. body' \in [Proxies -> Bytes \cup {None}] /\ fetched' \in [Proxies -> Epochs \cup {None}]
    BY <1>1, <2>1 DEF ReqTypeOK
  <2>4. fetched'[p] \in Epochs /\ \A q \in Proxies : q # p => body'[q] = body[q] /\ fetched'[q] = fetched[q]
    BY <1>1, <2>1 DEF ReqTypeOK
  <2> QED
    BY <1>2, <2>1, <2>2, <2>3, <2>4, MoveStep
<1> QED
  BY <1>3, <1>4, <1>5 DEF FetchLink

\* The new header is one that nobody is about to send through.
LEMMA RenewStep ==
    ASSUME IInv, NEW p \in Proxies, Renew(p)
    PROVE  IInv'
<1>1. ReqTypeOK /\ HoldInv /\ AnswerInv
  BY DEF IInv
<1> DEFINE h == CHOOSE g \in Headers : g \notin InUse
<1>2. pc[p] = "renew"
  BY DEF Renew
<1>3. h \in Headers /\ h \notin InUse
  BY <1>1, <1>2, FreshHeader
<1>4. /\ header' = h /\ link' = [link EXCEPT ![h] = fetched[p]]
      /\ area' = [area EXCEPT ![h] = None] /\ Return(p)
      /\ UNCHANGED <<holder, epoch, cur, stored>>
  BY DEF Renew, Replaced, ranges
<1> HIDE DEF h
<1>5. fetched[p] \in Epochs
  BY <1>1, <1>2 DEF AnswerInv
<1>6. ASSUME NEW q \in Proxies, q # p, pc[q] = "write"
      PROVE  holder'[mine[q]] = q /\ area'[mine[q]] = area[mine[q]]
  <2>1. mine[q] \in InUse /\ mine[q] \in Headers
    BY <1>1, <1>6 DEF InUse, ReqTypeOK
  <2>2. area'[mine[q]] = area[mine[q]]
    BY <1>1, <1>3, <1>4, <2>1 DEF ReqTypeOK
  <2> QED
    BY <1>1, <1>4, <1>6, <2>2 DEF HoldInv
<1>7. /\ header' \in Headers /\ link' \in [Headers -> Epochs] /\ epoch' \in Epochs
      /\ area' \in [Headers -> Offsets \cup {None}]
      /\ holder' \in [Headers -> Proxies \cup {None}]
      /\ cur' \in [Starts -> Offsets]
      /\ stored' \in [0..Length - 1 -> Bytes \cup {None}]
  BY <1>1, <1>3, <1>4, <1>5 DEF ReqTypeOK
<1>8. StoredRight' /\ \A r \in Starts : r # range[p] => cur'[r] = cur[r]
  BY <1>4 DEF IInv, StoredRight
<1> QED
  BY <1>4, <1>6, <1>7, <1>8, ReturnKeeps

\* The byte that arrives is the one of the proxy's offset: storing it keeps every
\* range right, also where another range has stored it before.
LEMMA ReceiveStep ==
    ASSUME IInv, NEW p \in Proxies, Receive(p)
    PROVE  IInv'
<1>1. ReqTypeOK /\ RangeInv /\ HoldInv /\ AnswerInv /\ StoredRight
  BY DEF IInv
<1> DEFINE r == range[p]
           c == cur[r]
<1>2. /\ pc[p] = "receive"
      /\ stored' = [stored EXCEPT ![c] = body[p]]
      /\ cur' = [cur EXCEPT ![r] = c + 1]
      /\ UNCHANGED <<header, link, area, holder, epoch>>
  BY DEF Receive, headers
<1>3. r \in Starts /\ c < End(r) /\ body[p] \in BytesAt(c)
  BY <1>1, <1>2 DEF RangeInv, AnswerInv
<1>4. /\ c \in 0..Length /\ End(r) \in 0..Length /\ Length \in Nat
  BY <1>1, <1>3, EndInside DEF ReqTypeOK, Offsets
<1>5. c \in 0..Length - 1 /\ c + 1 \in Offsets /\ c \in Offsets
  BY <1>3, <1>4 DEF Offsets
<1>13. body[p] \in Bytes /\ body[p].at = c /\ body[p].file \in Twins
  BY <1>3, <1>5, BytesAtAreBytes
<1>6. /\ cur'[r] = c + 1 /\ \A s \in Starts : s # r => cur'[s] = cur[s]
      /\ stored'[c] = body[p] /\ \A x \in 0..Length - 1 : x # c => stored'[x] = stored[x]
  BY <1>1, <1>2, <1>3, <1>5 DEF ReqTypeOK
<1>7. cur' \in [Starts -> Offsets] /\ stored' \in [0..Length - 1 -> Bytes \cup {None}]
  BY <1>1, <1>2, <1>3, <1>5, <1>13 DEF ReqTypeOK
<1>8. StoredRight'
  <2> SUFFICES ASSUME NEW s \in Starts, NEW x \in s..cur'[s] - 1 PROVE stored'[x] \in BytesAt(x)
    BY DEF StoredRight, BytesAt
  <2>1. s \in 0..Length - 1 /\ cur[s] \in 0..Length
    BY <1>1, EndInside DEF ReqTypeOK, Offsets
  <2>2. CASE x = c
    BY <1>3, <1>6, <2>2
  <2>3. CASE x # c
    <3>1. cur'[s] \in 0..Length
      BY <1>7 DEF Offsets
    <3>2. x \in 0..Length - 1
      BY <1>4, <2>1, <3>1
    <3>3. x \in s..cur[s] - 1
      BY <1>6, <1>4, <2>1, <2>3
    <3> QED
      BY <1>1, <1>6, <2>3, <3>2, <3>3 DEF StoredRight, BytesAt
  <2> QED
    BY <2>2, <2>3
<1>9. \A q \in Proxies : q # p /\ pc[q] = "write" =>
          holder'[mine[q]] = q /\ area'[mine[q]] = area[mine[q]]
  BY <1>1, <1>2 DEF HoldInv
<1>10. /\ header' \in Headers /\ link' \in [Headers -> Epochs] /\ epoch' \in Epochs
       /\ area' \in [Headers -> Offsets \cup {None}]
       /\ holder' \in [Headers -> Proxies \cup {None}]
  BY <1>1, <1>2 DEF ReqTypeOK
<1>11. CASE Return(p)
  BY <1>6, <1>7, <1>8, <1>9, <1>10, <1>11, ReturnKeeps
<1>12. CASE ~Return(p)
  <2>1. /\ c + 1 # End(r)
        /\ body' = [body EXCEPT ![p].at = @ + 1]
        /\ UNCHANGED <<pc, range, mine, request, fetched>>
    BY <1>12 DEF Receive
  <2> DEFINE b == [body[p] EXCEPT !.at = c + 1]
  <2>2. b \in Bytes /\ b \in BytesAt(c + 1)
    <3>1. body[p] = [file |-> body[p].file, at |-> c] /\ body[p].file \in DOMAIN Lengths
      BY <1>13 DEF Bytes
    <3>2. b = [file |-> body[p].file, at |-> c + 1]
      BY <3>1
    <3> QED
      BY <1>5, <1>13, <3>1, <3>2 DEF Bytes, BytesAt
  <2>3. body' = [body EXCEPT ![p] = b]
    BY <1>1, <1>13, <2>1 DEF ReqTypeOK
  <2> HIDE DEF b
  <2>4. ReqTypeOK'
    BY <1>1, <1>5, <1>7, <1>10, <2>1, <2>2, <2>3 DEF ReqTypeOK
  <2>5. \A q \in Proxies : q # p /\ pc[q] # "idle" => cur'[range[q]] = cur[range[q]]
    BY <1>1, <1>3, <1>6, StartsAreRanges DEF RangeInv
  <2>6. body'[p] \in BytesAt(c + 1) /\ \A q \in Proxies : q # p => body'[q] = body[q]
    BY <1>1, <2>2, <2>3 DEF ReqTypeOK
  <2>7. c + 1 < End(r)
    BY <1>3, <1>4, <2>1
  <2>8. RangeInv'
    <3>1. \A q \in Proxies : pc'[q] # "idle" =>
             range'[q] \in Starts /\ cur'[range'[q]] < End(range'[q])
      BY <1>1, <1>6, <2>1, <2>5, <2>7 DEF RangeInv
    <3>2. \A q \in Proxies : pc'[q] = "idle" => range'[q] = None
      BY <1>1, <2>1 DEF RangeInv
    <3>3. \A q, s \in Proxies : range'[q] # None /\ range'[q] = range'[s] => q = s
      BY <1>1, <2>1 DEF RangeInv
    <3> QED
      BY <3>1, <3>2, <3>3 DEF RangeInv, End
  <2>9. HoldInv'
    BY <1>1, <1>2, <2>1, <2>5 DEF HoldInv
  <2>10. AnswerInv'
    BY <1>1, <1>2, <1>6, <2>1, <2>5, <2>6 DEF AnswerInv
  <2> QED
    BY <1>8, <2>4, <2>8, <2>9, <2>10 DEF IInv
<1> QED
  BY <1>11, <1>12

LEMMA ReqStep == IInv /\ [Next]_vars => IInv'
<1> SUFFICES ASSUME IInv, [Next]_vars PROVE IInv'
  OBVIOUS
<1>1. ASSUME NEW p \in Proxies, Step(p) PROVE IInv'
  <2>1. CASE Breaks(p)
    BY <2>1, GiveUpStep DEF Breaks
  <2>2. CASE Panics(p)
    BY <2>2 DEF Panics, headers, ranges, IInv, ReqTypeOK, RangeInv, HoldInv, AnswerInv,
       StoredRight, End
  <2> QED
    BY <1>1, <2>1, <2>2, StartStep, AppendStep, WriteStep, HeadStep, FetchLinkStep, RenewStep,
       ReceiveStep DEF Step, Runs
<1>2. CASE Expire
  <2>1. /\ epoch < MaxExpiries /\ epoch' = epoch + 1
        /\ UNCHANGED <<header, link, area, holder, pc, range, mine, request, body,
                       fetched, cur, stored>>
    BY <1>2 DEF Expire, headers, ranges
  <2>2. epoch' \in Epochs
    BY <2>1, RequestsAssumption DEF IInv, ReqTypeOK, Epochs
  <2>3. ReqTypeOK'
    BY <2>1, <2>2 DEF IInv, ReqTypeOK
  <2> QED
    BY <2>1, <2>3 DEF IInv, RangeInv, HoldInv, AnswerInv, StoredRight, End
<1>3. CASE UNCHANGED vars
  BY <1>3 DEF vars, IInv, ReqTypeOK, RangeInv, HoldInv, AnswerInv, StoredRight, End
<1> QED
  BY <1>1, <1>2, <1>3 DEF Next, Done

\* The inductive invariant: holders of a header's mutex, ranges and answers.
THEOREM RequestsInvariance == Spec => []IInv
  BY ReqInit, ReqStep, PTL DEF Spec

\* A request that went out asks for its own proxy's offset, with all proxies
\* writing theirs into shared buffers and the header replaced under them.
THEOREM OwnOffset == Spec => []AsksOwnOffset
<1>1. IInv => AsksOwnOffset
  BY DEF IInv, AnswerInv, AsksOwnOffset
<1> QED
  BY <1>1, RequestsInvariance, PTL

\* Every byte stored is the byte of its own offset, of the file or of one of
\* exactly its length, whatever links expire and whatever else servers send.
THEOREM StoresRight == Spec => []StoredRight
<1>1. IInv => StoredRight
  BY DEF IInv
<1> QED
  BY <1>1, RequestsInvariance, PTL
=============================================================================
