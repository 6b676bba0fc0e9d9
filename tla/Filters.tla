------------------------------- MODULE Filters -------------------------------
(* Filters: the table of a version 3 decoder's filters, kept through the     *)
(* files of a solid archive (decoder29.parseVMFilter), and what the filters  *)
(* for programs and for data with channels compute (filters.go).  Offsets,   *)
(* addresses and bytes have fewer bits than in the code; an address, four    *)
(* bytes there, is one cell here.                                            *)
EXTENDS Integers, Sequences, SequencesExt

CONSTANTS AddressBits,   \* 32
          FileBits,      \* fileSize is 2^24
          E8, E9,        \* the cells that stand for calls and jumps
          Samples,       \* [kind, data, offset, n] to filter
          Lengths,       \* lengths of filtered blocks
          MaxFilters,    \* bound: filters in the table (maxUniqueFilters is 1024)
          MaxParses      \* bound

VARIABLES fnum,      \* current filter number
          flen,      \* length history
          filters,   \* filters, by the number of the parse that added each
          block,     \* the last block: its filter and its length
          sent,      \* the encoder's filters: each with the length sent last
          current,   \* the one it speaks of
          spoilt,    \* something it sent was lost since the last reset
          parses,    \* counts parses
          filtered   \* a sample and what became of it

fvars == <<fnum, flen, filters, block, sent, current, spoilt, parses, filtered>>

None == [filter |-> 0, length |-> 0]
-----------------------------------------------------------------------------
FInit == /\ fnum = 0 /\ flen = <<>> /\ filters = <<>> /\ block = None
         /\ sent = <<>> /\ current = 1 /\ spoilt = FALSE /\ parses = 0
         /\ filtered = [before |-> <<>>, after |-> <<>>]

(* decoder29.init for a file that is not solid.                              *)
InitFilters == /\ fnum' = 0 /\ flen' = <<>> /\ filters' = <<>> /\ block' = None
               /\ sent' = <<>> /\ current' = 1 /\ spoilt' = FALSE

\* Mutant: selecting filter 0 leaves the table as it is.
FiltersKept(n) == filters

\* Selecting filter 0 empties the table.
FiltersAfterSelect(n) == IF n = 0 THEN <<>> ELSE filters
LengthsAfterSelect(n) == IF n = 0 THEN <<>> ELSE flen
NumberAfterSelect(n) == IF n = -1 THEN fnum ELSE IF n = 0 THEN 0 ELSE n - 1

(* What the encoder sends: n selects a filter (-1: the current one again),   *)
(* len is its length (0: as before); it sends a length with a new filter.    *)
Kept(n) == IF n = 0 THEN <<>> ELSE sent

Send(n, len) ==
    LET kept == Kept(n)
        i == IF n = -1 THEN current ELSE IF n = 0 THEN 1 ELSE n
        new == i = Len(kept) + 1
    IN  /\ i <= Len(kept) + 1 /\ (new => len > 0 /\ i <= MaxFilters)
        /\ current' = i
        /\ sent' = IF new THEN Append(kept, [filter |-> parses, length |-> len])
                   ELSE IF len > 0 THEN [kept EXCEPT ![i].length = len] ELSE kept

(* parseVMFilter: the data may be bad before the code of a new filter was    *)
(* read, or behind it; only what introduces a new filter has code.           *)
ParseVMFilter(n, len, bad) ==
    LET fs == FiltersAfterSelect(n)
        num == NumberAfterSelect(n)
        valid == num <= Len(fs)
        new == num = Len(fs)
        added == new /\ Len(sent') > Len(Kept(n)) /\ bad # "before"
        fl == LengthsAfterSelect(n)
        grown == IF num = Len(fl) THEN Append(fl, 0) ELSE fl
        given == IF len > 0 THEN [grown EXCEPT ![num + 1] = len] ELSE grown
        id == IF new THEN parses ELSE fs[num + 1]
        ok == valid /\ bad = "no" /\ (new => added)
    IN  /\ fnum' = IF valid THEN num ELSE fnum
        /\ flen' = IF ~valid THEN fl ELSE IF added THEN Append(given, given[num + 1]) ELSE given
        /\ filters' = IF added THEN Append(fs, id) ELSE fs
        /\ block' = IF ok THEN [filter |-> id, length |-> given[num + 1]] ELSE None
        /\ spoilt' = ((n # 0 /\ spoilt) \/ ~ok)

Parse == /\ parses < MaxParses /\ parses' = parses + 1 /\ UNCHANGED filtered
         /\ \/ InitFilters
            \/ \E n \in -1..MaxFilters, len \in Lengths \cup {0}, bad \in {"no", "before", "behind"} :
                  Send(n, len) /\ ParseVMFilter(n, len, bad)
-----------------------------------------------------------------------------
(* filterE8: the address behind a call is made relative to its place.        *)
Wrap(x) == x % 2^AddressBits
Signed(x) == IF x >= 2^(AddressBits - 1) THEN x - 2^AddressBits ELSE x
FileSize == 2^FileBits

Relative(cell, off) ==
    LET addr == Signed(cell)
    IN  IF addr < 0 THEN IF addr + off >= 0 THEN Wrap(addr + FileSize) ELSE cell
        ELSE IF addr < FileSize THEN Wrap(addr - off) ELSE cell

Place(offset, k, v5) == IF v5 THEN (offset + k) % FileSize ELSE offset + k

\* Mutant: an address is looked at again as if it were code.
AfterAddress(k) == k + 1

NextCode(k) == k + 2

FilterE8(buf, ops, v5, offset) ==
    FoldLeft(LAMBDA x, k :
                 IF k < x.next \/ k = Len(buf) \/ x.buf[k] \notin ops THEN x
                 ELSE [buf |-> [x.buf EXCEPT ![k + 1] = Relative(@, Place(offset, k, v5))],
                       next |-> NextCode(k)],
             [buf |-> buf, next |-> 1], [k \in DOMAIN buf |-> k]).buf

(* filterDelta: the channels stand one behind the other, as differences.     *)
Channel(l, n, j) == SelectSeq([k \in 1..l |-> k], LAMBDA k : k % n = j % n)
Channels(l, n) == FlattenSeq([j \in 1..n |-> Channel(l, n, j)])

FilterDelta(n, buf) ==
    LET order == Channels(Len(buf), n)
        At(k) == CHOOSE i \in DOMAIN order : order[i] = k
        Res[k \in 1 - n..Len(buf)] == IF k < 1 THEN 0 ELSE Wrap(Res[k - n] - buf[At(k)])
    IN  [k \in DOMAIN buf |-> Res[k]]

(* filterArm: as filterE8, for the branches among instructions of one size.  *)
FilterArm(buf, offset) ==
    [k \in DOMAIN buf |-> IF buf[k].branch THEN [buf[k] EXCEPT !.n = (@ - (offset + k - 1)) % FileSize]
                          ELSE buf[k]]
-----------------------------------------------------------------------------
(* The encoders' side.                                                       *)
Absolute(cell, off) ==
    LET addr == Signed(cell)
    IN  IF addr >= -off /\ addr < FileSize - off THEN Wrap(addr + off)
        ELSE IF addr >= FileSize - off /\ addr < FileSize THEN Wrap(addr - FileSize)
        ELSE cell

EncodeE8(buf, ops, v5, offset) ==
    LET Code[k \in 1..Len(buf) + 1] ==
            \* the places of the calls, from k on
            IF k >= Len(buf) THEN {} ELSE IF buf[k] \in ops THEN {k} \cup (IF k + 2 > Len(buf) THEN {} ELSE Code[k + 2])
            ELSE Code[k + 1]
    IN  [k \in DOMAIN buf |-> IF k - 1 \in Code[1] THEN Absolute(buf[k], Place(offset, k - 1, v5)) ELSE buf[k]]

EncodeDelta(n, buf) ==
    LET order == Channels(Len(buf), n)
    IN  [i \in DOMAIN buf |-> LET k == order[i] IN Wrap((IF k > n THEN buf[k - n] ELSE 0) - buf[k])]

EncodeArm(buf, offset) ==
    [k \in DOMAIN buf |-> IF buf[k].branch THEN [buf[k] EXCEPT !.n = (@ + offset + k - 1) % FileSize]
                          ELSE buf[k]]

Apply(s) ==
    CASE s.kind = "delta" -> FilterDelta(s.n, EncodeDelta(s.n, s.data))
      [] s.kind = "e8" -> FilterE8(EncodeE8(s.data, {E8}, s.n = 5, s.offset), {E8}, s.n = 5, s.offset)
      [] s.kind = "e8e9" -> FilterE8(EncodeE8(s.data, {E8, E9}, s.n = 5, s.offset), {E8, E9}, s.n = 5, s.offset)
      [] s.kind = "arm" -> FilterArm(EncodeArm(s.data, s.offset), s.offset)

Filter == /\ parses = 0 /\ parses' = MaxParses
          /\ \E s \in Samples : filtered' = [before |-> s.data, after |-> Apply(s)]
          /\ UNCHANGED <<fnum, flen, filters, block, sent, current, spoilt>>

FNext == Parse \/ Filter
-----------------------------------------------------------------------------
(* Every filter undoes what its encoder did.                                 *)
FiltersInvert ==
    /\ DOMAIN filtered.after = DOMAIN filtered.before
    /\ \A k \in DOMAIN filtered.before : filtered.after[k] = filtered.before[k]

(* A block is given to the filter the encoder means, with the length it sent *)
(* last for this filter; after a loss, from the next reset on.               *)
BlocksRight == ~spoilt => /\ Len(filters) = Len(sent)
                          /\ block # None => block = sent[current]
=============================================================================
