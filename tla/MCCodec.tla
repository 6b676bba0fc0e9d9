------------------------------- MODULE MCCodec -------------------------------
(* The four parts of the decoders behind the packed files, on small inputs   *)
(* of their own: a behaviour is one of a single part, the variables of the   *)
(* others stay as they are.  Streams, the encoder's side of HuffmanBlocks, is       *)
(* written here with codes put together by the definition of canonical codes.*)
EXTENDS PpmModel

VARIABLES part,   \* huffman, lz, filters or ppm
          stream, rd, lens, blk, out, at,
          fmt, offset, length, lowOffset, lowOffsetRepeats, copied, meant, recent, sent, steps,
          fnum, flen, filters, block, introduced, current, spoilt, parses, filtered

huffmanVars == <<stream, rd, lens, blk, out, at>>
lzVars == <<fmt, offset, length, lowOffset, lowOffsetRepeats, copied, meant, recent, sent, steps>>
filterVars == <<fnum, flen, filters, block, introduced, current, spoilt, parses, filtered>>
-----------------------------------------------------------------------------
(* Codes of up to 7 bits for three symbols, in bytes of 4 bits.  An LZ block *)
(* that ends in few bits is not followed by a ppm block (see MCHuffmanBlocks)*)
S == INSTANCE MCHuffmanStreams WITH Symbols <- 3, ByteBits <- 4, MaxCode <- 7, EndSym <- 1
MCStreams == S!FlushedStreams
H == INSTANCE HuffmanBlocks
         WITH Streams <- MCStreams, Symbols <- 3, ByteBits <- 4, MaxCode <- 7, QuickBits <- 4
HuffmanOff == /\ stream = 0 /\ rd = 0 /\ lens = 0 /\ blk = 0 /\ out = 0 /\ at = 0

(* Both ends of every offset slot, every length, and four copies in any order*)
SlotEnds == LET O == {2^k : k \in 0..22} \cup {3 * 2^k : k \in 0..20}
                     \cup {k * 65536 : k \in 1..16} \cup {k * 262144 : k \in 1..16}
            IN  {o \in O \cup {o + 1 : o \in O} : o <= 4194304}
MCProbes == ({6, 40} \X SlotEnds) \cup ((2..258) \X {1, 257, 8193, 262145}) \cup ({2} \X (1..256))
MCCopies == {<<3, 7>>, <<5, 300>>, <<6, 8205>>, <<9, 262156>>}
L == INSTANCE LZSymbols
         WITH Probes <- MCProbes, Copies <- MCCopies, MaxCopies <- 5, LowRepeats <- 2
LzOff == /\ fmt = 0 /\ offset = 0 /\ length = 0 /\ lowOffset = 0 /\ lowOffsetRepeats = 0
         /\ copied = 0 /\ meant = 0 /\ recent = 0 /\ sent = 0 /\ steps = 0

(* Cells of 5 bits, a file of 8 of them, every address behind a call.        *)
Calls == {<<a, b, x>> : a \in {30, 5}, b \in 0..31, x \in {30, 1}}
Branches == {<<[branch |-> TRUE, n |-> a], [branch |-> x, n |-> b]>>
             : a \in {0, 3, 7}, b \in {2, 7}, x \in BOOLEAN}
MCSamples ==
    [kind : {"e8", "e8e9"}, data : Calls, n : {3, 5}, offset : 0..13]
    \cup [kind : {"delta"}, data : UNION {[1..k -> {0, 1, 9}] : k \in 1..5}, n : 1..3, offset : {0}]
    \cup [kind : {"arm"}, data : Branches, n : {0}, offset : 0..9]
F == INSTANCE Filters
         WITH AddressBits <- 5, FileBits <- 3, E8 <- 30, E9 <- 5, Samples <- MCSamples,
              Lengths <- {1, 2}, MaxFilters <- 3, MaxParses <- 5, sent <- introduced
FiltersOff == /\ fnum = 0 /\ flen = 0 /\ filters = 0 /\ block = 0 /\ introduced = 0
              /\ current = 0 /\ spoilt = 0 /\ parses = 0 /\ filtered = 0

(* Eight symbols, lists of up to three units and memory for few contexts.    *)
(* Every second symbol of the text is free, so that texts are long enough to *)
(* use up the memory with lists of several sizes.                            *)
MCCoded(text) == IF Len(text) % 2 = 0 THEN {0, 1, 2} ELSE {(Len(text) \div 2) % 3}
MCGroups == <<2, 1>>
MCIndex2Units == <<0, 1, 2, 4>>
PpmOff == /\ mem = RestartedMemory.m /\ c = 0 /\ orderFall = 0 /\ escCount = 0
          /\ charMask = 0 /\ initEsc = 0 /\ history = 0
-----------------------------------------------------------------------------
MCInit ==
    \/ part = "huffman" /\ H!HInit /\ LzOff /\ FiltersOff /\ PpmOff
    \/ part = "lz" /\ L!LInit /\ HuffmanOff /\ FiltersOff /\ PpmOff
    \/ part = "filters" /\ F!FInit /\ HuffmanOff /\ LzOff /\ PpmOff
    \/ part = "ppm" /\ Init /\ HuffmanOff /\ LzOff /\ FiltersOff

MCNext ==
    /\ part' = part
    /\ \/ part = "huffman" /\ H!HNext /\ UNCHANGED <<lzVars, filterVars, vars>>
       \/ part = "lz" /\ L!LNext /\ UNCHANGED <<huffmanVars, filterVars, vars>>
       \/ part = "filters" /\ F!FNext /\ UNCHANGED <<huffmanVars, lzVars, vars>>
       \/ part = "ppm" /\ Next /\ UNCHANGED <<huffmanVars, lzVars, filterVars>>

(* However a file of Huffman blocks is cut, the symbols decoded are those    *)
(* that were encoded, and a file cut off never seems complete (huffman.go).  *)
SymbolsRight == part = "huffman" => H!SymbolsRight

(* The LZ decoders make the copy the encoder meant, whatever was repeated or *)
(* shared before (decode29_lz.go, decode50.go).                              *)
CopiesMeant == part = "lz" => L!CopiesMeant

(* A filter of filters.go undoes what its encoder did, wherever its block is.*)
FiltersInvert == part = "filters" => F!FiltersInvert

(* A block goes through the filter and has the length that its encoder meant *)
(* (parseVMFilter of decode29.go).                                           *)
BlocksRight == part = "filters" => F!BlocksRight
=============================================================================
