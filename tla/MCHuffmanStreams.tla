--------------------------- MODULE MCHuffmanStreams ---------------------------
(* Streams for HuffmanBlocks: every way to describe the code lengths, every  *)
(* short message and every place to cut the file off, for some code lengths. *)
(* Codes are put together by the definition of a canonical code: a symbol's  *)
(* code is the sum of the shares of those before it.                         *)
EXTENDS Integers, Sequences, FiniteSets, FiniteSetsExt, SequencesExt

CONSTANTS Symbols, ByteBits, MaxCode, EndSym

NoLengths == [s \in 1..Symbols |-> 0]
Tables == {<<1, 2, 2>>, <<2, 1, 7>>, <<1, 0, 1>>, <<7, 5, 1>>, <<2, 2, 2>>, <<0, 1, 0>>}

(* The entries that turn the lengths old into t.                             *)
Described(t, old, add) ==
    LET one(i) == [k |-> "length", n |-> IF add THEN (t[i] - old[i]) % (MaxCode + 1) ELSE t[i]]
        same(i, n) == \A j \in i..Symbols : j < i + n => t[j] = t[i - 1]
        zero(i, n) == \A j \in i..Symbols : j < i + n => t[j] = 0
        From[i \in 1..Symbols + 3] ==
            IF i > Symbols THEN {<<>>}
            ELSE {<<one(i)>> \o rest : rest \in From[i + 1]}
                 \cup UNION {{<<[k |-> "same", n |-> n]>> \o rest : rest \in From[i + n]}
                             : n \in {n \in 2..3 : i > 1 /\ same(i, n)}}
                 \cup UNION {{<<[k |-> "zeros", n |-> n]>> \o rest : rest \in From[i + n]}
                             : n \in {n \in 2..3 : zero(i, n)}}
    IN  From[1]
Plainly(t) == [s \in 1..Symbols |-> [k |-> "length", n |-> t[s]]]

Used(t) == {s \in DOMAIN t : t[s] > 0}
ToBits(v, k) == [i \in 1..k |-> (v \div 2^(k - i)) % 2]
Codeword(t, s) ==
    LET before == {u \in Used(t) : t[u] < t[s] \/ (t[u] = t[s] /\ u < s)}
    IN  ToBits(MapThenSumSet(LAMBDA u : 2^(MaxCode - t[u]), before) \div 2^(MaxCode - t[s]), t[s])
Coding(t, syms) == FlattenSeq([i \in DOMAIN syms |-> Codeword(t, syms[i] + 1)])
Zeros(k) == [i \in 1..k |-> 0]
Padded(bits) == bits \o Zeros((0 - Len(bits)) % ByteBits)

Messages(t, least, most) ==
    UNION {[1..k -> {s - 1 : s \in Used(t)}] : k \in least..most}
Messages29(t, most) == {m \in Messages(t, 0, most) : EndSym \notin ToSet(m)}
\* Every symbol once.
Whole(t) == SetToSortSeq({s - 1 : s \in Used(t)}, <)
-----------------------------------------------------------------------------
Block50(t, table, syms, last) ==
    LET bits == Coding(t, syms)
    IN  [body |-> Zeros(ByteBits) \o bits, kind |-> "lz", last |-> last, size |-> Len(bits),
         table |-> table, add |-> FALSE, skip |-> 0, expect |-> syms]
Block29(t, table, add, skip, syms, mark) ==
    [body |-> <<0>> \o Zeros(skip) \o Coding(t, Append(syms, EndSym)) \o mark, kind |-> "lz",
     last |-> FALSE, size |-> 0, table |-> table, add |-> add, skip |-> skip, expect |-> syms]
BlockPpm(size, last) ==
    [body |-> <<1>> \o Zeros(ByteBits - 1) \o Zeros(size * ByteBits), kind |-> "ppm",
     last |-> last, size |-> size, table |-> <<>>, add |-> FALSE, skip |-> 0, expect |-> <<>>]

\* A file of these blocks, whole and cut off at every byte.
StreamsOf(fmt, bs) ==
    LET body(i) == Padded(bs[i].body)
        start(i) == FoldLeft(LAMBDA x, j : x + Len(body(j)) \div ByteBits, 0, [j \in 1..i - 1 |-> j])
        bits == FlattenSeq([i \in DOMAIN bs |-> body(i)])
        expect(i) == IF bs[i].kind = "ppm" THEN [k \in 1..bs[i].size |-> -(start(i) + 1 + k)]
                     ELSE bs[i].expect
        blocks == [i \in DOMAIN bs |->
                      [start |-> start(i), kind |-> bs[i].kind, last |-> bs[i].last,
                       size |-> bs[i].size, table |-> bs[i].table, add |-> bs[i].add,
                       skip |-> bs[i].skip]]
    IN  {[fmt |-> fmt, bits |-> bits, cells |-> cells, blocks |-> blocks,
          expect |-> FlattenSeq([i \in DOMAIN bs |-> expect(i)])]
         : cells \in 0..Len(bits) \div ByteBits}

\* A second block of format 50 without a table keeps the one before.
Keeps(t, u, e) == IF u = t THEN <<>> ELSE e
Streams50 ==
    UNION {UNION {StreamsOf(50, <<Block50(t, d, Whole(t), FALSE),
                                  Block50(u, Keeps(t, u, e), Whole(u), TRUE)>>)
                  : d \in Described(t, NoLengths, FALSE), e \in Described(u, t, FALSE)}
           : t \in Tables, u \in {<<2, 2, 2>>, <<1, 0, 1>>}}
    \cup UNION {UNION {StreamsOf(50, <<Block50(t, Plainly(t), m, FALSE),
                                       Block50(t, <<>>, n, TRUE)>>)
                       : m \in Messages(t, 1, 2), n \in Messages(t, 1, 1)}
                : t \in Tables}

\* Format 29 adds the lengths of a block to those of the block before.
Tables29 == {t \in Tables : t[EndSym + 1] > 0}
Marks == {<<0, 0>>, <<0, 1>>}   \* readEndOfBlock: the file ends here
Streams29 ==
    UNION {UNION {StreamsOf(29, <<Block29(t, Plainly(t), FALSE, k, m, <<1>>),
                                  Block29(u, d, TRUE, 0, n, e)>>)
                  : k \in 0..1, m \in Messages29(t, 1), n \in Messages29(u, 1), e \in Marks,
                    d \in Described(u, t, TRUE)}
           : t \in Tables29, u \in {<<7, 5, 1>>, <<0, 1, 0>>}}

StreamsPpm(tables) ==
    UNION {UNION {StreamsOf(29, <<BlockPpm(1, FALSE), Block29(t, Plainly(t), FALSE, k, m, <<1>>),
                                  BlockPpm(2, TRUE)>>)
                  : k \in 0..3, m \in Messages29(t, 2)}
           : t \in tables}

\* The end symbol and its mark take no more bits than are read ahead of them.
Unflushed == {t \in Tables29 : t[EndSym + 1] + 1 <= MaxCode - ByteBits - 1}
FlushedStreams == Streams50 \cup Streams29 \cup StreamsPpm(Tables29 \ Unflushed)
=============================================================================
