------------------------------ MODULE LZSymbols ------------------------------
(* What the symbols of the LZ decoders mean: lz29Decoder.decode and          *)
(* decoder50.decodeSym with the state they keep from block to block and, in  *)
(* a solid archive, from file to file.  An encoder that knows only the       *)
(* copies it means, a length and an offset each, picks for each of them any  *)
(* symbols that say it; the decoder must make the same copy.                 *)
EXTENDS Integers, Sequences, FiniteSets

CONSTANTS Probes,     \* copies tried once each, as <<length, offset>>
          Copies,     \* copies tried in every order
          MaxCopies,  \* bound: copies and blocks in a row
          LowRepeats  \* copies that share low bits after the first of them, 15

VARIABLES fmt,            \* 29 or 50
          offset,         \* history of previous offsets
          length,         \* previous length
          lowOffset, lowOffsetRepeats,
          copied,         \* the last copy, as <<length, offset>>
          meant,          \* the encoder's last copy
          recent,         \* the encoder's offsets, the latest first
          sent,           \* the low bits the encoder sent last, and how many
                          \* copies still share them
          steps

lvars == <<fmt, offset, length, lowOffset, lowOffsetRepeats, copied, meant, recent, sent, steps>>
-----------------------------------------------------------------------------
(* Slots: slot i stands for 2^bits values from a base on (Table29), or gives *)
(* base and bits by its number (slotToLength and decodeSym of format 50).    *)
LengthBits29 == <<0, 0, 0, 0, 0, 0, 0, 0, 1, 1, 1, 1, 2, 2, 2, 2, 3, 3, 3, 3, 4, 4, 4, 4, 5, 5, 5, 5>>
LengthBase29 == <<0, 1, 2, 3, 4, 5, 6, 7, 8, 10, 12, 14, 16, 20, 24, 28, 32, 40, 48, 56, 64, 80, 96,
                  112, 128, 160, 192, 224>>
OffsetBits29 == <<0, 0, 0, 0, 1, 1, 2, 2, 3, 3, 4, 4, 5, 5, 6, 6, 7, 7, 8, 8, 9, 9, 10, 10, 11, 11,
                  12, 12, 13, 13, 14, 14, 15, 15>> \o [i \in 1..14 |-> 16] \o [i \in 1..12 |-> 18]
OffsetBase29 == <<0, 1, 2, 3, 4, 6, 8, 12, 16, 24, 32, 48, 64, 96, 128, 192, 256, 384, 512, 768,
                  1024, 1536, 2048, 3072, 4096, 6144, 8192, 12288, 16384, 24576, 32768, 49152, 65536,
                  98304, 131072, 196608, 262144, 327680, 393216, 458752, 524288, 589824, 655360,
                  720896, 786432, 851968, 917504, 983040, 1048576, 1310720, 1572864, 1835008, 2097152,
                  2359296, 2621440, 2883584, 3145728, 3407872, 3670016, 3932160>>
ShortBits == <<2, 2, 3, 4, 5, 6, 6, 6>>
ShortBase == <<0, 4, 8, 16, 32, 64, 128, 192>>

LengthSlots == IF fmt = 29 THEN 0..27 ELSE 0..43
LengthBits(i) == IF fmt = 29 THEN LengthBits29[i + 1] ELSE IF i < 8 THEN 0 ELSE i \div 4 - 1
LengthBase(i) == IF fmt = 29 THEN LengthBase29[i + 1]
                 ELSE IF i < 8 THEN i ELSE (4 + (i % 4)) * 2^LengthBits(i)

\* Bound: format 50 has four slots more, past 2^30.
OffsetSlots == 0..59
OffsetBits(i) == IF fmt = 29 THEN OffsetBits29[i + 1] ELSE IF i < 4 THEN 0 ELSE i \div 2 - 1
OffsetBase(i) == IF fmt = 29 THEN OffsetBase29[i + 1]
                 ELSE IF i < 4 THEN i ELSE (2 + (i % 2)) * 2^OffsetBits(i)

\* Far offsets make a copy longer; length 2 is that of the shortest match.
Far29(o) == (IF o >= 8192 THEN 1 ELSE 0) + (IF o >= 262144 THEN 1 ELSE 0)
Far50(o) == (IF o > 256 THEN 1 ELSE 0) + (IF o > 8192 THEN 1 ELSE 0) + (IF o > 262144 THEN 1 ELSE 0)
Shortest(o) == IF fmt = 29 THEN 3 + Far29(o) ELSE 2 + Far50(o)
-----------------------------------------------------------------------------
LInit == /\ fmt \in {29, 50}
         /\ offset = <<0, 0, 0, 0>> /\ length = 0
         /\ lowOffset = 0 /\ lowOffsetRepeats = 0
         /\ copied = <<0, 0>> /\ meant = <<0, 0>>
         /\ recent = <<0, 0, 0, 0>> /\ sent = <<0, 0>> /\ steps = 0

Copy(l, o) == /\ length' = l /\ copied' = <<l, o>>

(* The encoder: the slots of a value, and the symbols for its low four bits. *)
\* 16 announces that the low bits are those sent last, now and LowRepeats
\* times more; while they are shared nothing is sent.
SaysLength(i, x) == {s \in LengthSlots : LengthBase(s) <= x - i /\ x - i < LengthBase(s) + 2^LengthBits(s)}
SaysOffset(o) == {s \in OffsetSlots : OffsetBase(s) < o /\ o <= OffsetBase(s) + 2^OffsetBits(s)}

HasLow(slot) == OffsetBits(slot) >= 4
Shares == fmt = 29 /\ sent[2] > 0
LowSymbols(low) == {low} \cup (IF fmt = 29 /\ low = sent[1] THEN {16} ELSE {})

(* The decoder's low bits: shared ones are taken before a symbol is read.    *)
LowBits(sym) == IF lowOffsetRepeats > 0 \/ sym = 16 THEN lowOffset ELSE sym
DecodeLow(sym) ==
    /\ lowOffset' = IF lowOffsetRepeats > 0 THEN lowOffset ELSE LowBits(sym)
    /\ lowOffsetRepeats' = IF lowOffsetRepeats > 0 THEN lowOffsetRepeats - 1
                           ELSE IF sym = 16 THEN LowRepeats ELSE 0

Means(l, o) == meant' = <<l, o>> /\ recent' = <<o>> \o SubSeq(recent, 1, 3)
Counts == steps' = steps + 1 /\ UNCHANGED fmt

Decode(lslot, lextra, o) ==
    /\ Copy(LengthBase(lslot) + lextra + Shortest(o), o)
    /\ offset' = <<o>> \o SubSeq(offset, 1, 3)

Match(l, o) ==
    \E ls \in SaysLength(Shortest(o), l), os \in SaysOffset(o) :
        LET extra == o - 1 - OffsetBase(os)
            lextra == l - Shortest(o) - LengthBase(ls)
        IN  /\ Means(l, o)
            /\ IF HasLow(os)
               THEN IF Shares
                    THEN /\ extra % 16 = sent[1]
                         /\ sent' = <<sent[1], sent[2] - 1>>
                         /\ Decode(ls, lextra, OffsetBase(os) + 1 + (extra \div 16) * 16 + LowBits(0))
                         /\ DecodeLow(0)
                    ELSE \E sym \in LowSymbols(extra % 16) :
                         /\ sent' = <<extra % 16, IF sym = 16 THEN LowRepeats ELSE 0>>
                         /\ Decode(ls, lextra, OffsetBase(os) + 1 + (extra \div 16) * 16 + LowBits(sym))
                         /\ IF fmt = 29 THEN DecodeLow(sym) ELSE UNCHANGED <<lowOffset, lowOffsetRepeats>>
               ELSE /\ Decode(ls, lextra, OffsetBase(os) + 1 + extra)
                    /\ UNCHANGED <<sent, lowOffset, lowOffsetRepeats>>

(* The symbols of the four previous offsets: the one used moves to the front.*)
ToFront(s, i) == [j \in 1..4 |-> IF j = 1 THEN s[i] ELSE IF j <= i THEN s[j - 1] ELSE s[j]]

\* Mutant: the offset that is used again changes places with the first.
Swapped(s, i) == [s EXCEPT ![1] = s[i], ![i] = s[1]]

Rotated(s, i) == <<s[i]>> \o SubSeq(s, 1, i - 1) \o SubSeq(s, i + 1, 4)

Repeat(l, i) ==
    \E ls \in SaysLength(2, l) :
        /\ recent[i] > 0
        /\ meant' = <<l, recent[i]>> /\ recent' = ToFront(recent, i)
        /\ offset' = Rotated(offset, i)
        /\ Copy(LengthBase(ls) + (l - 2 - LengthBase(ls)) + 2, offset[i])
        /\ UNCHANGED <<sent, lowOffset, lowOffsetRepeats>>

RepeatLast ==
    /\ meant[1] > 0 /\ recent[1] > 0
    /\ meant' = <<meant[1], recent[1]>>
    /\ copied' = <<length, offset[1]>>
    /\ UNCHANGED <<offset, length, recent, sent, lowOffset, lowOffsetRepeats>>

ShortMatch(o) ==
    /\ fmt = 29 /\ o <= 256
    /\ \E s \in 1..8 :
          /\ ShortBase[s] < o /\ o <= ShortBase[s] + 2^ShortBits[s]
          /\ LET x == ShortBase[s] + 1 + (o - 1 - ShortBase[s])
             IN  Copy(2, x) /\ offset' = <<x>> \o SubSeq(offset, 1, 3)
    /\ Means(2, o)
    /\ UNCHANGED <<sent, lowOffset, lowOffsetRepeats>>

(* lz29Decoder.init, at the start of a block.                                *)
NewBlock ==
    /\ fmt = 29 /\ lowOffset' = 0 /\ lowOffsetRepeats' = 0
    /\ sent' = <<0, 0>>
    /\ UNCHANGED <<offset, length, copied, meant, recent>>

(* A file that is not solid: reset, and a new block.                         *)
NewFile ==
    /\ offset' = <<0, 0, 0, 0>> /\ length' = 0
    /\ lowOffset' = 0 /\ lowOffsetRepeats' = 0
    /\ recent' = <<0, 0, 0, 0>> /\ meant' = <<0, 0>> /\ copied' = <<0, 0>> /\ sent' = <<0, 0>>

Probe == /\ steps = 0 /\ steps' = MaxCopies /\ UNCHANGED fmt
         /\ \E c \in Probes : Match(c[1], c[2]) \/ (c[1] = 2 /\ ShortMatch(c[2]))

LNext ==
    \/ Probe
    \/ /\ steps < MaxCopies /\ Counts
       /\ \/ \E c \in Copies : \/ Match(c[1], c[2])
                               \/ \E i \in 1..4 : Repeat(c[1], i)
                               \/ ShortMatch(c[2])
          \/ RepeatLast \/ NewBlock \/ NewFile
-----------------------------------------------------------------------------
(* The decoder makes the copy that was meant, whatever was repeated, shared  *)
(* or reset before, and remembers the offsets that the encoder does; and     *)
(* there is exactly one slot for each length and offset.                     *)
CopiesMeant ==
    /\ copied = meant /\ offset = recent
    /\ steps = 0 => \A c \in Probes : /\ Cardinality(SaysOffset(c[2])) = 1
                                      /\ c[1] >= Shortest(c[2]) => Cardinality(SaysLength(Shortest(c[2]), c[1])) = 1
=============================================================================
