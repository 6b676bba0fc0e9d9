---------------------------- MODULE HuffmanBlocks ----------------------------
(* Decoding the blocks of a compressed file into symbols: the bit readers    *)
(* (bit_reader.go), the Huffman decoder (huffman.go) and the block headers   *)
(* of decoder50 and decoder29.  The decoder reads MaxCode bits for a symbol  *)
(* and gives back those it did not use, so it runs ahead of the symbols by   *)
(* whole bytes, and must stop at the end of a block, which format 50 gives   *)
(* in bits and format 29 marks by a symbol.                                  *)
(* A stream is a record:                                                     *)
(*   fmt     50 or 29                                                        *)
(*   bits    the bits of the file; cells is how many whole bytes are there   *)
(*   blocks  [start, kind, last, size, table, add, skip]: the first byte of the block,   *)
(*           "lz" or "ppm"; whether the file ends with it, unless a symbol   *)
(*           says so; its size in bits (50) or bytes (ppm); the description  *)
(*           of the code lengths it sets, whether it adds them to those      *)
(*           before, and the bits it takes (29)                              *)
(*   expect  what was encoded                                                *)
EXTENDS Integers, Sequences, FiniteSets, FiniteSetsExt, SequencesExt

CONSTANTS Streams,
          Symbols,    \* symbols that have a code, mainSize
          ByteBits,   \* bits of a byte, 8
          MaxCode,    \* maxCodeLength, 15
          QuickBits   \* quickbits, 7 or 10

VARIABLES stream,
          rd,    \* the reader: bytes read, n of their bits unread, lim left
          lens,  \* code length of each symbol
          blk,   \* the current block
          out,   \* what was decoded
          at     \* header, symbol, ppm, done or failed

hvars == <<stream, rd, lens, blk, out, at>>

EndSym == 1   \* symbol 256 of format 29
Unlimited == 1000
Start(i) == stream.blocks[i].start
-----------------------------------------------------------------------------
(* rarBitReader and limitedBitReader.                                        *)
BitsAt(from, k) == FoldLeft(LAMBDA x, b : 2 * x + b, 0, SubSeq(stream.bits, from + 1, from + k))

Place(r) == r.pos * ByteBits - r.n
Rest(r) == stream.cells - r.pos
Pulled(r, k) == IF k <= r.n THEN 0 ELSE (k - r.n + ByteBits - 1) \div ByteBits

\* The limit is checked first; an end of the file inside it is no clean end.
ReadBits(r, k) ==
    IF k > r.lim THEN [err |-> "EOF", rd |-> r]
    ELSE IF Pulled(r, k) > Rest(r)
    THEN [err |-> IF r.lim = Unlimited THEN "EOF" ELSE "OutOfData",
          rd |-> [r EXCEPT !.pos = stream.cells, !.n = @ + Rest(r) * ByteBits]]
    ELSE [err |-> "none", val |-> BitsAt(Place(r), k),
          rd |-> [r EXCEPT !.pos = @ + Pulled(r, k), !.n = @ + Pulled(r, k) * ByteBits - k,
                           !.lim = IF @ = Unlimited THEN @ ELSE @ - k]]

UnreadBits(r, k) ==
    [r EXCEPT !.n = @ + k, !.lim = IF @ = Unlimited THEN @ ELSE @ + k]

AlignByte(r) == [r EXCEPT !.n = @ - (@ % ByteBits)]
-----------------------------------------------------------------------------
(* huffmanDecoder.init: limits of the codes of each length, left aligned,    *)
(* and the symbols in the order of their codes.                              *)
Count(n) == Cardinality({s \in DOMAIN lens : lens[s] = n})
Limit(i) == MapThenSumSet(LAMBDA j : Count(j) * 2^(MaxCode - j), 1..i)
Pos(i) == MapThenSumSet(Count, 1..i - 1)
Rank(s) == Pos(lens[s]) + Cardinality({t \in DOMAIN lens : t < s /\ lens[t] = lens[s]})

\* Symbols are numbered from 0; places behind the last code hold symbol 0.
SymbolAt(pos) ==
    LET S == {s \in DOMAIN lens : lens[s] > 0 /\ Rank(s) = pos}
    IN  IF S = {} THEN 0 ELSE (CHOOSE s \in S : TRUE) - 1

FirstLength(v) ==
    LET fit == {b \in 1..MaxCode : v < Limit(b)} IN IF fit = {} THEN MaxCode ELSE Min(fit)

\* The quick table is indexed by the first QuickBits bits.
Quick(v) == LET d == 2^(MaxCode - QuickBits) IN (v \div d) * d

Decoded(v, b) ==
    LET pos == Pos(b) + (v - Limit(b - 1)) \div 2^(MaxCode - b)
    IN  IF pos >= Len(lens) THEN -1 ELSE SymbolAt(pos)

(* readSym near the end: one bit at a time, until they are a code.           *)
Readable(r) ==
    LET n == r.n + Rest(r) * ByteBits IN IF n < r.lim THEN n ELSE r.lim

\* Mutant: the last code of each length is not recognised.
SlowLengthsBelow(r) ==
    {b \in 1..Readable(r) : b <= MaxCode /\ (BitsAt(Place(r), b) + 1) * 2^(MaxCode - b) < Limit(b)}

SlowLengths(r) ==
    {b \in 1..Readable(r) : b <= MaxCode /\ BitsAt(Place(r), b) * 2^(MaxCode - b) < Limit(b)}

ReadSymSlowly(r) ==
    IF SlowLengths(r) = {} THEN ReadBits(ReadBits(r, Readable(r)).rd, 1)
    ELSE LET b == Min(SlowLengths(r))
             x == ReadBits(r, b)
         IN  [err |-> "none", rd |-> x.rd, val |-> Decoded(x.val * 2^(MaxCode - b), b)]

ReadSym(r) ==
    LET x == ReadBits(r, MaxCode)
    IN  IF x.err = "EOF" THEN ReadSymSlowly(x.rd)
        ELSE IF x.err # "none" THEN x
        ELSE LET v == IF x.val < Limit(QuickBits) THEN Quick(x.val) ELSE x.val
                 b == FirstLength(v)
             IN  [err |-> "none", rd |-> UnreadBits(x.rd, MaxCode - b), val |-> Decoded(v, b)]
-----------------------------------------------------------------------------
(* readCodeLengthTable, in place: a length, the length before repeated, or a *)
(* run of zeros.  Runs stop at the end of the table.                         *)
Run(x, value, n) ==
    [x EXCEPT !.i = @ + n,
              !.lens = [s \in DOMAIN @ |-> IF s \in x.i + 1..x.i + n THEN value ELSE @[s]]]

Entry(x, entry, add) ==
    IF x.i >= Len(x.lens) \/ x.i = -1 THEN x
    ELSE CASE entry.k = "length" ->
                 Run(x, IF add THEN (x.lens[x.i + 1] + entry.n) % (MaxCode + 1) ELSE entry.n, 1)
           [] entry.k = "same" -> IF x.i = 0 THEN [x EXCEPT !.i = -1] ELSE Run(x, x.lens[x.i], entry.n)
           [] entry.k = "zeros" -> Run(x, 0, entry.n)

ReadTable(table, add) ==
    FoldLeft(LAMBDA x, entry : Entry(x, entry, add), [i |-> 0, lens |-> lens], table).lens
-----------------------------------------------------------------------------
HInit == /\ stream \in Streams
         /\ rd = [pos |-> 0, n |-> 0, lim |-> Unlimited]
         /\ lens = [s \in 1..Symbols |-> 0] /\ blk = 0 /\ out = <<>> /\ at = "header"

HFails == at' = "failed" /\ UNCHANGED <<stream, lens, blk, out>>

Found(p) == {i \in DOMAIN stream.blocks : Start(i) = p}
IsBlock(p) == Found(p) # {}
BlockAt(p) == CHOOSE i \in Found(p) : TRUE

(* decoder50.readBlockHeader: bytes are read past the bits left of the block *)
(* before, and a new bit reader starts.  Other bytes fail its checksum.      *)
Header50 ==
    /\ at = "header" /\ stream.fmt = 50
    /\ IF rd.pos >= stream.cells \/ ~IsBlock(rd.pos) THEN HFails /\ rd' = rd
       ELSE LET b == stream.blocks[BlockAt(rd.pos)]
            IN  /\ blk' = BlockAt(rd.pos)
                /\ rd' = [pos |-> rd.pos + 1, n |-> 0, lim |-> b.size]
                /\ lens' = ReadTable(b.table, b.add)
                /\ at' = "symbol"
                /\ UNCHANGED <<stream, out>>

(* decoder29.readBlockHeader; a ppm block is read from the bytes behind the  *)
(* reader's, what the reader has left of its own is not looked at.           *)
Header29 ==
    LET r == AlignByte(rd)
        first == ReadBits(r, 1)
        p == Place(r) \div ByteBits
    IN  /\ at = "header" /\ stream.fmt = 29
        /\ IF first.err # "none" \/ ~IsBlock(p) THEN HFails /\ rd' = first.rd
           ELSE LET b == stream.blocks[BlockAt(p)]
                    more == ReadBits(first.rd, IF b.kind = "ppm" THEN ByteBits - 1 ELSE b.skip)
                IN  /\ rd' = more.rd
                    /\ IF more.err # "none" THEN HFails
                       ELSE /\ blk' = BlockAt(p)
                            /\ lens' = ReadTable(b.table, b.add)
                            /\ at' = IF b.kind = "ppm" THEN "ppm" ELSE "symbol"
                            /\ UNCHANGED <<stream, out>>

Emit(sym) == out' = Append(out, sym) /\ UNCHANGED <<stream, lens, blk, at>>

LastBlock == stream.blocks[blk].last

(* decoder50.fill: io.EOF from the limited reader is the end of the block.   *)
Symbol50 ==
    LET x == ReadSym(rd)
    IN  /\ at = "symbol" /\ stream.fmt = 50
        /\ rd' = x.rd
        /\ CASE x.err = "none" /\ x.val >= 0 -> Emit(x.val)
             [] x.err = "EOF" -> /\ at' = IF LastBlock THEN "done" ELSE "header"
                                 /\ UNCHANGED <<stream, lens, blk, out>>
             [] OTHER -> HFails

(* decoder29.fill and readEndOfBlock.                                        *)
Symbol29 ==
    LET x == ReadSym(rd)
        y == ReadBits(x.rd, 1)
        z == ReadBits(y.rd, 1)
    IN  /\ at = "symbol" /\ stream.fmt = 29
        /\ IF x.err # "none" \/ x.val < 0 THEN HFails /\ rd' = x.rd
           ELSE IF x.val # EndSym THEN Emit(x.val) /\ rd' = x.rd
           ELSE IF y.err # "none" \/ (y.val = 0 /\ z.err # "none") THEN HFails /\ rd' = y.rd
           ELSE /\ rd' = IF y.val = 1 THEN y.rd ELSE z.rd
                /\ at' = IF y.val = 1 THEN "header" ELSE "done"
                /\ UNCHANGED <<stream, lens, blk, out>>

(* A ppm block reads its own bytes and knows its own end.                    *)
PpmBlock ==
    /\ at = "ppm"
    /\ LET size == stream.blocks[blk].size
       IN  IF size > Rest(rd) THEN HFails /\ rd' = rd
           ELSE /\ rd' = [rd EXCEPT !.pos = @ + size]
                /\ out' = out \o [k \in 1..size |-> -(rd.pos + k)]
                /\ at' = IF LastBlock THEN "done" ELSE "header"
                /\ UNCHANGED <<stream, lens, blk>>

HNext == Header50 \/ Header29 \/ Symbol50 \/ Symbol29 \/ PpmBlock
-----------------------------------------------------------------------------
(* However codes, blocks and bytes are cut, the symbols decoded are those    *)
(* that were encoded, and a file that was cut off never seems complete.      *)
SymbolsRight ==
    /\ IsPrefix(out, stream.expect)
    /\ at = "done" => out = stream.expect
    /\ at = "failed" => stream.cells * ByteBits < Len(stream.bits)

(* The comment in ppm29Decoder.init: all unread bits are flushed from the    *)
(* bit reader by now, so the bytes behind it are the ppm block's.            *)
FlushedBeforePpm == at = "ppm" => rd.n = 0
=============================================================================
