-------------------------- MODULE DetectorWalkProofs --------------------------
(***************************************************************************)
(* Proofs about DetectorWalk, for archives of any number of blocks of any  *)
(* sizes, damaged or cut off anywhere: the place of the next header, which *)
(* is computed from salt, size and padding while the cipher's buffer reads *)
(* ahead, is the place where the next block is.                            *)
(***************************************************************************)
EXTENDS DetectorWalk, NumberLemmas, SequenceTheorems

Files == [pos : Nat, buffered : 0..BufSize]

Count == Len(Blocks)

Entries == {Entry(i) : i \in FilesIn(Count)}

WalkTypeOK ==
    /\ archive \in Archives
    /\ file \in Files
    /\ dataSize \in Nat
    /\ checked \in Seq(Entries)

\* Nothing is checked before the archive is open.
OpenInv == at = "open" => file = [pos |-> 0, buffered |-> 0] /\ checked = <<>>

\* The walk is behind the n-th block, and has checked the files up to there.
Behind(n) ==
    /\ Reported(n)
    /\ at = "next" => n # 0 /\ GetPos(file) = End(n)
    /\ at = "next" /\ Whole => n < Count
    /\ at = "ended" => n = Count

PlaceInv == Plain => \E n \in 0..Count : Behind(n)

WholeInv == Plain /\ Whole => at \in {"open", "next", "ended", "errArchiveContinues"}

WalkInv == WalkTypeOK /\ OpenInv /\ PlaceInv /\ WholeInv

-----------------------------------------------------------------------------
(* What an archive is *)

LEMMA SizesGiven ==
    /\ SaltSize \in Nat \ {0} /\ BlockSize \in Nat \ {0} /\ BufSize \in Nat \ {0}
    /\ BlockSize = 2 * SaltSize /\ BufSize % BlockSize = 0
    /\ SaltSize \in 0..BufSize /\ BlockSize \in 0..BufSize
<1>1. /\ SaltSize \in Nat \ {0} /\ BlockSize \in Nat \ {0} /\ BufSize \in Nat \ {0}
      /\ BlockSize = 2 * SaltSize /\ BufSize % BlockSize = 0
  BY DetectorAssumption
<1>2. BufSize >= BlockSize
  <2>1. ASSUME BufSize < BlockSize PROVE BufSize % BlockSize = BufSize
    <3>1. BufSize \in 0..BlockSize - 1
      BY <1>1, <2>1
    <3> QED
      BY <1>1, <3>1, ModSmall
  <2> QED
    BY <1>1, <2>1
<1> QED
  BY <1>1, <1>2

LEMMA BlocksGiven ==
    ASSUME archive \in Archives
    PROVE  /\ Count \in Nat \ {0} /\ DOMAIN Blocks = 1..Count
           /\ \A i \in 1..Count : Blocks[i].size \in 1..BufSize /\ Blocks[i].data \in Nat
           /\ \A i \in 1..Count : Blocks[i].kind \in {"file", "dir"} => Blocks[i].hasData
           /\ Blocks[1].kind = "arc" /\ Blocks[1].data = 0
           /\ archive.cut \in Nat
<1>1. /\ Blocks \in Seq(ToSet(Blocks)) /\ Blocks # <<>> /\ archive.cut \in Nat
      /\ \A i \in DOMAIN Blocks : IsBlock(Blocks[i])
      /\ Blocks[1].kind = "arc" /\ Blocks[1].data = 0
  BY DetectorAssumption DEF Blocks
<1>2. Count \in Nat \ {0} /\ DOMAIN Blocks = 1..Count
  BY <1>1, EmptySeq DEF Count
<1> QED
  BY <1>1, <1>2 DEF IsBlock

\* A header is padded to whole blocks of the cipher, which a buffer holds.
LEMMA Rounding ==
    ASSUME NEW n \in 1..BufSize
    PROVE  /\ RoundUp(n) \in Nat /\ RoundUp(n) >= n /\ RoundUp(n) <= BufSize
           /\ \E q \in Nat : RoundUp(n) = BlockSize * q
           /\ Padding(n) = RoundUp(n) - n
<1> DEFINE B == BlockSize
           x == n + B - 1
           q == x \div B
           r == x % B
           up == RoundUp(n)
<1>1. /\ B \in Nat \ {0} /\ BufSize \in Nat \ {0} /\ SaltSize \in Nat \ {0}
      /\ B = 2 * SaltSize /\ BufSize % B = 0 /\ n \in Nat \ {0} /\ n <= BufSize
  BY SizesGiven
<1>2. x = B * q + r /\ q \in Int /\ r \in 0..B - 1 /\ x \in Nat
  <2>1. x \in Nat /\ x \in Int /\ B \in Nat \ {0}
    BY <1>1
  <2> HIDE DEF B, x
  <2>2. x = B * q + r /\ q \in Int /\ r \in 0..B - 1
    BY <2>1, DivRest
  <2> QED
    BY <2>1, <2>2
<1>3. up = q * B
  BY DEF RoundUp
<1>4. up = B * q
  <2> HIDE DEF q, up, B
  <2> QED
    BY <1>1, <1>2, <1>3
<1>5. x = n + B - 1
  OBVIOUS
<1> HIDE DEF x, q, r, up, B
<1>6. up \in Int /\ up = x - r
  BY <1>1, <1>2, <1>4
<1>7. up >= n /\ up - n \in 0..B - 1 /\ up \in Nat
  BY <1>1, <1>2, <1>5, <1>6
<1>8. q \in Nat
  <2>1. ASSUME q < 0 PROVE FALSE
    <3>1. B * q < 0
      BY <1>1, <1>2, <2>1
    <3> QED
      BY <1>4, <1>7, <3>1
  <2> QED
    BY <1>2, <2>1
<1>9. up <= BufSize
  <2>1. PICK k \in Int : BufSize = B * k
    BY <1>1, DivExact
  <2>2. ASSUME q > k PROVE FALSE
    <3>1. B * (q - k) >= B
      BY <1>1, <1>2, <2>1, <2>2
    <3>2. B * (q - k) = up - BufSize
      BY <1>1, <1>2, <1>4, <2>1
    <3> QED
      BY <1>1, <1>7, <3>1, <3>2
  <2>3. B * (k - q) >= 0 /\ B * (k - q) = BufSize - up
    BY <1>1, <1>2, <1>4, <2>1, <2>2
  <2> QED
    BY <1>1, <1>6, <2>3
<1>10. Padding(n) = up - n
  <2> DEFINE y == 0 - (SaltSize + n + SaltSize)
             z == up - n
             k == -(q + 1)
  <2>1. y \in Int /\ z \in Int /\ k \in Int /\ y = z + B * k
    <3>1. B * k = -(B * q) - B
      BY <1>1, <1>2
    <3> QED
      BY <1>1, <1>4, <1>6, <1>8, <3>1
  <2>2. z \in 0..B - 1
    BY <1>7
  <2>3. Padding(n) = y % B
    BY DEF Padding, B
  <2> HIDE DEF y, z, k
  <2>4. y % B = z % B
    BY <1>1, <2>1, ModSame
  <2>5. z % B = z
    BY <1>1, <2>2, ModSmall
  <2> QED
    BY <2>3, <2>4, <2>5 DEF z
<1> QED
  BY <1>4, <1>7, <1>8, <1>9, <1>10 DEF up, B

LEMMA HeaderSize ==
    ASSUME archive \in Archives, NEW i \in 1..Count
    PROVE  /\ HeaderCells(i) \in Nat \ {0}
           /\ i = 1 => HeaderCells(i) = Blocks[i].size
           /\ i # 1 => HeaderCells(i) = SaltSize + Blocks[i].size + Padding(Blocks[i].size)
<1>1. Blocks[i].size \in 1..BufSize /\ SaltSize \in Nat \ {0} /\ BufSize \in Nat
  BY SizesGiven, BlocksGiven
<1>2. /\ RoundUp(Blocks[i].size) \in Nat
      /\ Padding(Blocks[i].size) = RoundUp(Blocks[i].size) - Blocks[i].size
  BY <1>1, Rounding
<1> QED
  BY <1>1, <1>2 DEF HeaderCells

-----------------------------------------------------------------------------
(* Where the blocks are *)

LEMMA PlacesSteps ==
    ASSUME archive \in Archives
    PROVE  /\ Places[0] = SignatureSize
           /\ \A n \in 1..Count : Places[n] = Places[n - 1] + HeaderCells(n) + Blocks[n].data
<1> DEFINE Along(g) == g = [n \in 0..Len(Blocks) |->
                            IF n = 0 THEN SignatureSize
                            ELSE g[n - 1] + HeaderCells(n) + Blocks[n].data]
           d == [n \in 1..Count |-> -(HeaderCells(n) + Blocks[n].data)]
<1>1. /\ Count \in Nat /\ SignatureSize \in Int
      /\ \A n \in 1..Count : HeaderCells(n) \in Nat /\ Blocks[n].data \in Nat
  BY BlocksGiven, HeaderSize DEF SignatureSize
<1>2. d \in [1..Count -> Int]
  BY <1>1
<1>3. \A n \in 1..Count : d[n] = -(HeaderCells(n) + Blocks[n].data)
  OBVIOUS
<1>4. \E g : Along(g)
  <2> HIDE DEF d
  <2>1. PICK g \in [0..Count -> Int] :
           g = [n \in 0..Count |-> IF n = 0 THEN SignatureSize ELSE g[n - 1] - d[n]]
    BY <1>1, <1>2, Differences
  <2>2. ASSUME NEW n \in 0..Count
        PROVE  (IF n = 0 THEN SignatureSize ELSE g[n - 1] - d[n])
                  = IF n = 0 THEN SignatureSize ELSE g[n - 1] + HeaderCells(n) + Blocks[n].data
    <3>1. n # 0 => n \in 1..Count /\ n - 1 \in 0..Count
      BY <1>1
    <3>2. n # 0 => g[n - 1] \in Int
      BY <2>1, <3>1
    <3> QED
      BY <1>1, <1>3, <3>1, <3>2
  <2>3. Along(g)
    BY <2>1, <2>2 DEF Count
  <2> QED
    BY <2>3
<1>5. Places = CHOOSE g : Along(g)
  BY DEF Places
<1>6. Along(Places)
  <2> HIDE DEF Along
  <2> QED
    BY <1>4, <1>5
<1>7. Places = [n \in 0..Count |-> IF n = 0 THEN SignatureSize
                                   ELSE Places[n - 1] + HeaderCells(n) + Blocks[n].data]
  BY <1>6 DEF Count
<1>8. 0 \in 0..Count /\ \A n \in 1..Count : n \in 0..Count /\ n # 0
  BY <1>1
<1> QED
  BY <1>7, <1>8

LEMMA PlacesNat ==
    ASSUME archive \in Archives
    PROVE  \A n \in 0..Count : Places[n] \in Nat \ {0}
<1> DEFINE bad == {n \in 0..Count : Places[n] \notin Nat \ {0}}
<1>1. /\ Count \in Nat /\ Places[0] = 1
      /\ \A n \in 1..Count : Places[n] = Places[n - 1] + HeaderCells(n) + Blocks[n].data
      /\ \A n \in 1..Count : HeaderCells(n) \in Nat /\ Blocks[n].data \in Nat
  BY BlocksGiven, HeaderSize, PlacesSteps DEF SignatureSize
<1>2. SUFFICES ASSUME bad # {} PROVE FALSE
  OBVIOUS
<1>3. PICK m \in bad : \A k \in bad : m <= k
  <2>1. bad \in SUBSET Nat
    BY <1>1
  <2> HIDE DEF bad
  <2> QED
    BY <1>2, <2>1, SmallestOf
<1>4. m # 0
  BY <1>1
<1>5. m \in 1..Count /\ m - 1 \in 0..Count /\ ~ (m <= m - 1)
  BY <1>1, <1>4
<1>6. Places[m - 1] \in Nat \ {0}
  BY <1>3, <1>5
<1> QED
  BY <1>1, <1>5, <1>6

\* A block starts behind the blocks before it.
LEMMA Rising ==
    ASSUME archive \in Archives,
           NEW i \in 0..Count, NEW j \in 0..Count, i < j
    PROVE  Places[i] < Places[j]
<1> DEFINE bad == {n \in 0..Count : i < n /\ ~ (Places[i] < Places[n])}
<1>1. /\ Count \in Nat
      /\ \A n \in 1..Count : Places[n] = Places[n - 1] + HeaderCells(n) + Blocks[n].data
      /\ \A n \in 1..Count : HeaderCells(n) \in Nat \ {0} /\ Blocks[n].data \in Nat
      /\ \A n \in 0..Count : Places[n] \in Nat
  BY BlocksGiven, HeaderSize, PlacesSteps, PlacesNat
<1>2. SUFFICES ASSUME bad # {} PROVE FALSE
  OBVIOUS
<1>3. PICK m \in bad : \A k \in bad : m <= k
  <2>1. bad \in SUBSET Nat
    BY <1>1
  <2> HIDE DEF bad
  <2> QED
    BY <1>2, <2>1, SmallestOf
<1>4. m \in 1..Count /\ m - 1 \in 0..Count /\ ~ (m <= m - 1) /\ i <= m - 1
  BY <1>1
<1>5. Places[m - 1] < Places[m]
  BY <1>1, <1>4
<1>6. Places[i] <= Places[m - 1]
  <2>1. CASE i = m - 1
    BY <1>1, <1>4, <2>1
  <2>2. CASE i # m - 1
    <3>1. m - 1 \notin bad
      BY <1>3, <1>4
    <3> QED
      BY <1>1, <1>4, <2>2, <3>1
  <2> QED
    BY <2>1, <2>2
<1> QED
  BY <1>1, <1>4, <1>5, <1>6

\* So a place tells the block that starts there.
LEMMA OneStarts ==
    ASSUME archive \in Archives,
           NEW i \in 1..Count, i # archive.damaged
    PROVE  Starting(Start(i)) = {i} /\ BlockAt(Start(i)) = Blocks[i]
<1>1. DOMAIN Blocks = 1..Count /\ Count \in Nat
  BY BlocksGiven
<1>2. ASSUME NEW j \in 1..Count, Start(j) = Start(i) PROVE j = i
  <2>1. i - 1 \in 0..Count /\ j - 1 \in 0..Count /\ Places[i - 1] = Places[j - 1]
    BY <1>1, <1>2 DEF Start
  <2>2. Places[i - 1] \in Nat /\ Places[j - 1] \in Nat
    BY <2>1, PlacesNat
  <2>3. ~ (i - 1 < j - 1) /\ ~ (j - 1 < i - 1)
    BY <2>1, <2>2, Rising
  <2> QED
    BY <1>1, <2>3
<1>3. Starting(Start(i)) = {i}
  BY <1>1, <1>2 DEF Starting
<1> QED
  BY <1>3 DEF BlockAt

LEMMA StartsAt ==
    ASSUME archive \in Archives, NEW p, Starting(p) # {}
    PROVE  \E i \in 1..Count : i # archive.damaged /\ Start(i) = p /\ BlockAt(p) = Blocks[i]
<1>1. DOMAIN Blocks = 1..Count
  BY BlocksGiven
<1>2. PICK i \in 1..Count : Start(i) = p /\ i # archive.damaged
  BY <1>1 DEF Starting
<1> QED
  BY <1>2, OneStarts

-----------------------------------------------------------------------------
(* Reading ahead *)

LEMMA LengthInt ==
    ASSUME archive \in Archives
    PROVE  Length \in Int /\ (archive.cut = 0 => Length = End(Count))
<1>1. Count \in 0..Count /\ archive.cut \in Nat
  BY BlocksGiven
<1>2. End(Count) \in Nat
  BY <1>1, PlacesNat DEF End
<1> QED
  BY <1>1, <1>2 DEF Length, Count

\* Filling the buffer leaves the place where it is; the buffer has what is asked
\* for if the file has it.
LEMMA FilledFacts ==
    ASSUME archive \in Archives, NEW f \in Files, NEW n \in 0..BufSize
    PROVE  /\ Filled(f, n) \in Files
           /\ GetPos(Filled(f, n)) = GetPos(f)
           /\ \A m \in 0..n : Length - GetPos(f) >= m => Filled(f, n).buffered >= m
<1> DEFINE p == f.pos
           b == f.buffered
           len == Length
           k == Least(BufSize - b, IF p < len THEN len - p ELSE 0)
<1>1. BufSize \in Nat /\ p \in Nat /\ b \in 0..BufSize /\ len \in Int /\ GetPos(f) = p - b
  BY SizesGiven, LengthInt DEF Files, GetPos
<1>2. Filled(f, n) = IF b >= n THEN f ELSE [pos |-> p + k, buffered |-> b + k]
  BY DEF Filled
<1>3. /\ k \in Nat /\ b + k \in 0..BufSize
      /\ k = BufSize - b \/ p + k >= len
  <2> HIDE DEF p, b, len
  <2> QED
    BY <1>1 DEF Least
<1> HIDE DEF p, b, len, k
<1>4. CASE b >= n
  <2>1. Filled(f, n) = f
    BY <1>2, <1>4
  <2> QED
    BY <1>1, <1>4, <2>1 DEF b
<1>5. CASE ~ (b >= n)
  <2> DEFINE g == [pos |-> p + k, buffered |-> b + k]
  <2>1. Filled(f, n) = g
    BY <1>2, <1>5
  <2>2. g \in Files /\ g.pos = p + k /\ g.buffered = b + k
    BY <1>1, <1>3 DEF Files
  <2> HIDE DEF g
  <2>3. GetPos(g) = GetPos(f)
    BY <1>1, <1>3, <2>2 DEF GetPos
  <2>4. ASSUME NEW m \in 0..n, len - (p - b) >= m PROVE b + k >= m
    BY <1>1, <1>3, <2>4
  <2> QED
    BY <1>1, <2>1, <2>2, <2>3, <2>4 DEF len
<1> QED
  BY <1>4, <1>5

LEMMA GetFacts ==
    ASSUME archive \in Archives, NEW f \in Files, NEW n \in 0..BufSize
    PROVE  /\ Get(f, n) \in Files
           /\ Has(f, n) => GetPos(Get(f, n)) = GetPos(f) + n
           /\ Length - GetPos(f) >= n => Has(f, n)
           /\ n <= Filled(f, BufSize).buffered => Has(f, n)
<1> DEFINE g == Filled(f, n)
           k == Least(n, g.buffered)
<1>1. /\ g \in Files /\ GetPos(g) = GetPos(f)
      /\ Length - GetPos(f) >= n => g.buffered >= n
      /\ BufSize \in Nat
  BY FilledFacts, SizesGiven
<1>2. Get(f, n) = [g EXCEPT !.buffered = g.buffered - k]
  BY DEF Get
<1>3. n <= Filled(f, BufSize).buffered => g.buffered >= n
  BY <1>1 DEF Filled, Files
<1> HIDE DEF g
<1>4. g.pos \in Nat /\ g.buffered \in 0..BufSize
  BY <1>1 DEF Files
<1>5. k \in 0..g.buffered /\ (g.buffered >= n => k = n)
  BY <1>1, <1>4 DEF Least
<1> HIDE DEF k
<1>6. Get(f, n) = [pos |-> g.pos, buffered |-> g.buffered - k]
  BY <1>1, <1>2 DEF Files
<1>7. Get(f, n) \in Files
  BY <1>1, <1>4, <1>5, <1>6 DEF Files
<1>8. ASSUME g.buffered >= n PROVE GetPos(Get(f, n)) = GetPos(f) + n
  BY <1>1, <1>4, <1>5, <1>6, <1>8 DEF GetPos
<1>9. Has(f, n) <=> g.buffered >= n
  BY DEF Has, g
<1> QED
  BY <1>1, <1>3, <1>7, <1>8, <1>9

Reading == [file : Files, n : Nat]

LEMMA DecipherBlockFacts ==
    ASSUME archive \in Archives, NEW x \in Reading
    PROVE  /\ DecipherBlock(x) \in Reading
           /\ DecipherBlock(x).n >= x.n
           /\ Length - GetPos(x.file) >= BlockSize =>
                 /\ DecipherBlock(x).n = x.n + BlockSize
                 /\ GetPos(DecipherBlock(x).file) = GetPos(x.file) + BlockSize
<1>1. x.file \in Files /\ x.n \in Nat /\ BlockSize \in Nat /\ BlockSize \in 0..BufSize
  BY SizesGiven DEF Reading
<1>2. /\ Get(x.file, BlockSize) \in Files
      /\ Has(x.file, BlockSize) => GetPos(Get(x.file, BlockSize)) = GetPos(x.file) + BlockSize
      /\ Length - GetPos(x.file) >= BlockSize => Has(x.file, BlockSize)
  BY <1>1, GetFacts
<1> QED
  BY <1>1, <1>2 DEF DecipherBlock, Reading

LEMMA DecipheredSteps ==
    ASSUME archive \in Archives, NEW f \in Files
    PROVE  \E g : \E K \in Nat :
              /\ BufSize = BlockSize * K /\ Deciphered(f) = g[K]
              /\ g[0] = [file |-> f, n |-> 0]
              /\ \A k \in 1..K : g[k] = DecipherBlock(g[k - 1])
<1> DEFINE K == BufSize \div BlockSize
           x == [file |-> f, n |-> 0]
           Along(g) == g = [k \in 0..K |-> IF k = 0 THEN x ELSE DecipherBlock(g[k - 1])]
           step == [k \in 1..K |-> [y \in Reading |-> DecipherBlock(y)]]
           after == CHOOSE g : Along(g)
<1>1. Deciphered(f) = after[K]
  BY DEF Deciphered
<1>2. BufSize = BlockSize * K /\ K \in Nat
  <2>1. /\ BlockSize \in Nat \ {0} /\ BufSize \in Int /\ BufSize % BlockSize = 0
        /\ BufSize > 0
    BY SizesGiven
  <2>2. BufSize = BlockSize * K /\ K \in Int
    BY <2>1, DivExact
  <2> HIDE DEF K
  <2>3. ASSUME K < 0 PROVE FALSE
    <3>1. BlockSize * K < 0
      BY <2>1, <2>2, <2>3
    <3> QED
      BY <2>1, <2>2, <3>1
  <2> QED
    BY <2>2, <2>3
<1> HIDE DEF K
<1>3. x \in Reading
  BY DEF Reading
<1> HIDE DEF x
<1>4. \A y \in Reading : DecipherBlock(y) \in Reading
  BY DecipherBlockFacts
<1>5. step \in StepsIn(K, Reading) /\ \A k \in 1..K, y \in Reading : step[k][y] = DecipherBlock(y)
  BY <1>4 DEF StepsIn
<1> HIDE DEF step
<1>6. \E g : Along(g)
  <2>1. Taking(K, Reading, x, step)
    BY <1>2, <1>3, <1>5, Iterates
  <2>2. PICK g \in [0..K -> Reading] :
           \A k \in 0..K : g[k] = IF k = 0 THEN x ELSE step[k][g[k - 1]]
    BY <2>1 DEF Taking
  <2>3. ASSUME NEW k \in 0..K PROVE g[k] = IF k = 0 THEN x ELSE DecipherBlock(g[k - 1])
    <3>1. k # 0 => k \in 1..K /\ k - 1 \in 0..K
      BY <1>2
    <3> QED
      BY <1>5, <2>2, <3>1
  <2>4. Along(g)
    BY <2>2, <2>3
  <2> QED
    BY <2>4
<1>7. Along(after)
  <2> HIDE DEF Along
  <2> QED
    BY <1>6
<1> HIDE DEF after
<1>8. after[0] = x /\ \A k \in 1..K : after[k] = DecipherBlock(after[k - 1])
  <2>1. 0 \in 0..K /\ \A k \in 1..K : k \in 0..K /\ k # 0
    BY <1>2
  <2> QED
    BY <1>7, <2>1
<1> QED
  BY <1>1, <1>2, <1>8 DEF x

\* Whole blocks of the cipher are read as far as the file and the buffer go.
LEMMA DecipheredFacts ==
    ASSUME archive \in Archives, NEW f \in Files
    PROVE  /\ Deciphered(f) \in Reading
           /\ \A q \in Nat : BlockSize * q <= BufSize /\ Length - GetPos(f) >= BlockSize * q
                 => Deciphered(f).n >= BlockSize * q
<1> DEFINE B == BlockSize
           p == GetPos(f)
<1>1. PICK g : \E K \in Nat :
         /\ BufSize = B * K /\ Deciphered(f) = g[K]
         /\ g[0] = [file |-> f, n |-> 0]
         /\ \A k \in 1..K : g[k] = DecipherBlock(g[k - 1])
  BY DecipheredSteps
<1>2. PICK K \in Nat :
         /\ BufSize = B * K /\ Deciphered(f) = g[K]
         /\ g[0] = [file |-> f, n |-> 0]
         /\ \A k \in 1..K : g[k] = DecipherBlock(g[k - 1])
  BY <1>1
<1>3. B \in Nat \ {0} /\ p \in Int /\ Length \in Int
  BY SizesGiven, LengthInt DEF Files, GetPos
<1> DEFINE reached(k, q) == \/ g[k].n >= B * q
                            \/ g[k].n = B * k /\ GetPos(g[k].file) = p + B * k
           bad(q) == {k \in 0..K : ~ (g[k] \in Reading /\ reached(k, q))}
<1>4. ASSUME NEW q \in Nat, Length - p >= B * q, bad(q) # {} PROVE FALSE
  <2>1. PICK m \in bad(q) : \A k \in bad(q) : m <= k
    <3>1. bad(q) \in SUBSET Nat
      BY <1>2
    <3> HIDE DEF bad
    <3> QED
      BY <1>4, <3>1, SmallestOf
  <2>2. m # 0
    <3>1. g[0] \in Reading /\ g[0].n = 0 /\ g[0].file = f
      BY <1>2 DEF Reading
    <3>2. B * 0 = 0 /\ p + 0 = p
      BY <1>3
    <3> QED
      BY <3>1, <3>2
  <2> DEFINE j == m - 1
             y == g[j]
  <2>3. m \in 1..K /\ j \in 0..K /\ m = j + 1 /\ ~ (m <= j)
    BY <1>2, <2>2
  <2>4. y \in Reading /\ reached(j, q) /\ g[m] = DecipherBlock(y)
    BY <1>2, <2>1, <2>3
  <2>5. /\ g[m] \in Reading /\ g[m].n >= y.n
        /\ Length - GetPos(y.file) >= B =>
              g[m].n = y.n + B /\ GetPos(g[m].file) = GetPos(y.file) + B
    BY <2>4, DecipherBlockFacts
  <2>6. y.n \in Nat /\ g[m].n \in Nat /\ B * q \in Int /\ B * m \in Int /\ B * j \in Int
    BY <1>3, <2>3, <2>4, <2>5 DEF Reading
  <2>7. B * m = B * j + B
    BY <1>3, <2>3
  <2>8. CASE y.n >= B * q
    BY <2>1, <2>5, <2>6, <2>8
  <2>9. CASE ~ (y.n >= B * q)
    <3>1. y.n = B * j /\ GetPos(y.file) = p + B * j
      BY <2>4, <2>9
    <3>2. B * j + B <= B * q
      <4>1. j < q
        <5>1. ASSUME j >= q PROVE FALSE
          <6>1. B * (j - q) >= 0 /\ B * (j - q) = B * j - B * q
            BY <1>3, <2>3, <5>1
          <6> QED
            BY <2>6, <2>9, <3>1, <6>1
        <5> QED
          BY <2>3, <5>1
      <4>2. B * (q - j - 1) >= 0 /\ B * (q - j - 1) = B * q - B * j - B
        BY <1>3, <2>3, <4>1
      <4> QED
        BY <1>3, <2>6, <4>2
    <3>3. Length - GetPos(y.file) >= B
      BY <1>3, <1>4, <2>6, <3>1, <3>2
    <3>4. g[m].n = B * m /\ GetPos(g[m].file) = p + B * m
      BY <1>3, <2>5, <2>6, <2>7, <3>1, <3>3
    <3> QED
      BY <2>1, <2>5, <3>4
  <2> QED
    BY <2>8, <2>9
<1>5. Deciphered(f) \in Reading
  <2>1. ASSUME NEW k \in 0..K PROVE g[k] \in Reading
    <3> DEFINE odd == {i \in 0..K : g[i] \notin Reading}
    <3>1. SUFFICES ASSUME odd # {} PROVE FALSE
      OBVIOUS
    <3>2. PICK m \in odd : \A i \in odd : m <= i
      <4>1. odd \in SUBSET Nat
        BY <1>2
      <4> HIDE DEF odd
      <4> QED
        BY <3>1, <4>1, SmallestOf
    <3>3. m # 0
      BY <1>2 DEF Reading
    <3>4. m \in 1..K /\ m - 1 \in 0..K /\ ~ (m <= m - 1)
      BY <1>2, <3>3
    <3>5. g[m - 1] \in Reading
      BY <3>2, <3>4
    <3> QED
      BY <1>2, <3>4, <3>5, DecipherBlockFacts
  <2> QED
    BY <1>2, <2>1
<1>6. ASSUME NEW q \in Nat, B * q <= BufSize, Length - p >= B * q
      PROVE  Deciphered(f).n >= B * q
  <2>1. K \in 0..K
    BY <1>2
  <2>2. reached(K, q)
    BY <1>4, <1>6, <2>1
  <2> QED
    BY <1>2, <1>6, <2>2
<1> QED
  BY <1>5, <1>6

-----------------------------------------------------------------------------
(* The block that is read *)

LEMMA AheadFacts ==
    ASSUME WalkTypeOK
    PROVE  /\ Get(file, SaltSize) \in Files
           /\ Has(file, SaltSize) => GetPos(Get(file, SaltSize)) = GetPos(file) + SaltSize
           /\ Length - GetPos(file) >= SaltSize => Has(file, SaltSize)
           /\ Ahead \in Reading
<1>1. archive \in Archives /\ file \in Files /\ SaltSize \in 0..BufSize
  BY SizesGiven DEF WalkTypeOK
<1>2. /\ Get(file, SaltSize) \in Files
      /\ Has(file, SaltSize) => GetPos(Get(file, SaltSize)) = GetPos(file) + SaltSize
      /\ Length - GetPos(file) >= SaltSize => Has(file, SaltSize)
  BY <1>1, GetFacts
<1>3. Ahead \in Reading
  BY <1>1, <1>2, DecipheredFacts DEF Ahead
<1> QED
  BY <1>2, <1>3

LEMMA BlockRead ==
    ASSUME WalkTypeOK, Error = "none"
    PROVE  \E i \in 1..Count : Start(i) = GetPos(file) /\ Cur = Blocks[i]
<1>1. HeaderError(GetPos(file), Ahead.n) = "none"
  BY DEF Error
<1>2. Starting(GetPos(file)) # {}
  BY <1>1 DEF HeaderError
<1> QED
  BY <1>2, StartsAt DEF WalkTypeOK, Cur

LEMMA NextData ==
    ASSUME WalkTypeOK, Error = "none"
    PROVE  NewDataSize \in Nat
<1>1. Cur.data \in Nat
  BY BlockRead, BlocksGiven DEF WalkTypeOK
<1> QED
  BY <1>1 DEF NewDataSize, WalkTypeOK

\* The end of a file, computed from its header, is the end of its block.
LEMMA FileRange ==
    ASSUME WalkTypeOK, Reads({"file", "dir"}), NEW i \in 1..Count,
           Start(i) = GetPos(file), Cur = Blocks[i]
    PROVE  EndOffset = End(i) /\ End(i) \in Nat
<1>1. archive \in Archives /\ Cur.kind \in {"file", "dir"}
  BY DEF Reads, WalkTypeOK
<1>2. /\ i # 1 /\ Blocks[i].size \in Nat /\ Blocks[i].data \in Nat /\ Count \in Nat
      /\ Blocks[i].hasData
  BY <1>1, BlocksGiven
<1>3. /\ HeaderCells(i) \in Nat
      /\ HeaderCells(i) = SaltSize + Blocks[i].size + Padding(Blocks[i].size)
  BY <1>1, <1>2, HeaderSize
<1>4. SaltSize \in Nat /\ Padding(Blocks[i].size) \in Nat
  <2>1. BlockSize \in Nat \ {0} /\ SaltSize \in Nat
    BY SizesGiven
  <2>2. RoundUp(Blocks[i].size) \in Nat /\ RoundUp(Blocks[i].size) >= Blocks[i].size
        /\ Padding(Blocks[i].size) = RoundUp(Blocks[i].size) - Blocks[i].size
    BY <1>1, BlocksGiven, Rounding
  <2> QED
    BY <1>2, <2>1, <2>2
<1>5. /\ End(i) = Start(i) + HeaderCells(i) + Blocks[i].data /\ Start(i) \in Nat
      /\ End(i) \in Nat
  <2>1. Places[i] = Places[i - 1] + HeaderCells(i) + Blocks[i].data
    BY <1>1, PlacesSteps
  <2>2. i - 1 \in 0..Count /\ i \in 0..Count
    BY <1>2
  <2> QED
    BY <1>1, <2>1, <2>2, PlacesNat DEF End, Start
<1>6. EndOffset = Start(i) + SaltSize + Blocks[i].size + Blocks[i].data + Padding(Blocks[i].size)
  BY <1>1, <1>2 DEF EndOffset, NewDataSize
<1> QED
  BY <1>2, <1>3, <1>4, <1>5, <1>6

\* Behind the n-th block the next one is read.
LEMMA NextIsRead ==
    ASSUME WalkTypeOK, Error = "none", NEW n \in 0..Count,
           GetPos(file) = End(n)
    PROVE  n + 1 \in 1..Count /\ Start(n + 1) = GetPos(file) /\ Cur = Blocks[n + 1]
<1>1. archive \in Archives /\ Count \in Nat
  BY BlocksGiven DEF WalkTypeOK
<1>2. PICK i \in 1..Count : Start(i) = GetPos(file) /\ Cur = Blocks[i]
  BY BlockRead
<1>3. i - 1 \in 0..Count /\ Places[i - 1] = Places[n]
  BY <1>1, <1>2 DEF Start, End
<1>4. Places[i - 1] \in Nat /\ Places[n] \in Nat
  BY <1>1, <1>3, PlacesNat
<1>5. ~ (i - 1 < n) /\ ~ (n < i - 1)
  BY <1>1, <1>3, <1>4, Rising
<1>6. i = n + 1
  BY <1>1, <1>5
<1> QED
  BY <1>2, <1>6

\* And it is there, if the archive is whole.
LEMMA NextIsThere ==
    ASSUME WalkTypeOK, Whole, NEW n \in 1..Count, n < Count,
           GetPos(file) = End(n)
    PROVE  Error = "none"
<1> DEFINE i == n + 1
           size == Blocks[i].size
           f == Get(file, SaltSize)
<1>1. archive \in Archives /\ Count \in Nat /\ archive.damaged = 0 /\ archive.cut = 0
  BY BlocksGiven DEF WalkTypeOK, Whole
<1>2. i \in 1..Count /\ i # 1 /\ i \in 0..Count /\ n \in 0..Count /\ Count \in 0..Count
  BY <1>1
<1>3. size \in 1..BufSize /\ Blocks[i].data \in Nat /\ BufSize \in Nat
      /\ SaltSize \in Nat \ {0} /\ BlockSize \in Nat
  BY <1>1, <1>2, BlocksGiven, SizesGiven
<1>4. /\ RoundUp(size) \in Nat /\ RoundUp(size) >= size /\ RoundUp(size) <= BufSize
      /\ \E q \in Nat : RoundUp(size) = BlockSize * q
  BY <1>3, Rounding
<1>5. PICK q \in Nat : RoundUp(size) = BlockSize * q
  BY <1>4
<1>6. Places[i] = Places[n] + (SaltSize + RoundUp(size)) + Blocks[i].data
  <2>1. i - 1 = n
    BY <1>1
  <2>2. Places[i] = Places[i - 1] + HeaderCells(i) + Blocks[i].data
    BY <1>1, <1>2, PlacesSteps
  <2>3. HeaderCells(i) = SaltSize + RoundUp(size)
    BY <1>2 DEF HeaderCells
  <2> QED
    BY <2>1, <2>2, <2>3
<1>7. /\ Length = Places[Count] /\ Places[n] \in Nat /\ Places[i] \in Nat
      /\ Places[Count] \in Nat /\ Places[i] <= Places[Count]
  <2>1. Places[n] \in Nat /\ Places[i] \in Nat /\ Places[Count] \in Nat
    BY <1>1, <1>2, PlacesNat
  <2>2. i # Count => Places[i] < Places[Count]
    <3>1. i # Count => i < Count
      BY <1>1, <1>2
    <3> QED
      BY <1>1, <1>2, <3>1, Rising
  <2> QED
    BY <1>1, <2>1, <2>2, LengthInt DEF End
<1>8. GetPos(file) = Places[n]
  BY DEF End
<1> HIDE DEF i, size, f
<1>9. Length - GetPos(file) >= SaltSize + RoundUp(size) /\ GetPos(file) \in Nat
  BY <1>3, <1>4, <1>6, <1>7, <1>8
<1>10. Length \in Int /\ Has(file, SaltSize) /\ f \in Files /\ GetPos(f) = GetPos(file) + SaltSize
  <2>1. Length - GetPos(file) >= SaltSize
    BY <1>3, <1>4, <1>7, <1>9
  <2> QED
    BY <1>7, <2>1, AheadFacts DEF f
<1>11. Ahead.n >= size
  <2>1. Length - GetPos(f) >= BlockSize * q /\ BlockSize * q <= BufSize
    BY <1>3, <1>4, <1>5, <1>9, <1>10
  <2>2. Ahead.n >= BlockSize * q
    BY <1>1, <1>10, <2>1, DecipheredFacts DEF Ahead, f
  <2>3. Ahead.n \in Nat
    BY AheadFacts DEF Reading
  <2> QED
    BY <1>3, <1>4, <1>5, <2>2, <2>3
<1>12. Starting(GetPos(file)) # {} /\ BlockAt(GetPos(file)) = Blocks[i]
  <2>1. i # archive.damaged /\ Start(i) = GetPos(file)
    BY <1>1, <1>2, <1>8 DEF Start, i
  <2> QED
    BY <1>1, <1>2, <2>1, OneStarts
<1>13. Ahead.n \in Nat
  BY AheadFacts DEF Reading
<1> QED
  BY <1>3, <1>10, <1>11, <1>12, <1>13 DEF Error, HeaderError, size

-----------------------------------------------------------------------------
(* What is reported *)

Same == archive' = archive

LEMMA SameArchive ==
    ASSUME Same
    PROVE  /\ Blocks' = Blocks /\ Count' = Count /\ Entries' = Entries
           /\ Plain' = Plain /\ Whole' = Whole
           /\ \A n : FilesIn(n)' = FilesIn(n) /\ Entry(n)' = Entry(n) /\ End(n)' = End(n)
  BY DEF Same, Blocks, Count, Entries, Plain, Whole, FilesIn, Entry, End, Start, Places,
         HeaderCells, RoundUp

LEMMA ReportedSame ==
    ASSUME Same, checked' = checked, NEW n, NEW m, Reported(n), FilesIn(m) = FilesIn(n)
    PROVE  Reported(m)'
  BY SameArchive DEF Reported

LEMMA NoFirstFile ==
    ASSUME archive \in Archives
    PROVE  FilesIn(0) = {} /\ FilesIn(1) = {}
  BY BlocksGiven DEF FilesIn

\* A block more.
LEMMA FilesNext ==
    ASSUME archive \in Archives, NEW n \in 0..Count, n + 1 \in 1..Count
    PROVE  FilesIn(n + 1) = IF Blocks[n + 1].kind = "file" THEN FilesIn(n) \cup {n + 1}
                            ELSE FilesIn(n)
<1>1. n \in Nat
  BY BlocksGiven
<1>2. 1..n + 1 = (1..n) \cup {n + 1}
  BY <1>1
<1> QED
  BY <1>2 DEF FilesIn

LEMMA FileReported ==
    ASSUME WalkTypeOK, Same, NEW n \in 0..Count, n + 1 \in 1..Count,
           Blocks[n + 1].kind = "file", Reported(n), checked' = Append(checked, Entry(n + 1))
    PROVE  Reported(n + 1)'
<1> DEFINE e == Entry(n + 1)
           c == checked'
           len == Len(checked)
<1>1. archive \in Archives /\ checked \in Seq(Entries) /\ Count \in Nat /\ n \in Nat
  BY BlocksGiven DEF WalkTypeOK
<1>2. /\ len \in Nat /\ DOMAIN checked = 1..len /\ DOMAIN c = 1..len + 1
      /\ \A k \in 1..len : c[k] = checked[k]
      /\ c[len + 1] = e
  <2>1. len \in Nat /\ DOMAIN checked = 1..len /\ c = Append(checked, e)
    BY <1>1
  <2> HIDE DEF e
  <2> QED
    BY <2>1
<1> HIDE DEF c, e, len
<1>3. ToSet(c) = ToSet(checked) \cup {e}
  <2>1. 1..len + 1 = (1..len) \cup {len + 1}
    BY <1>2
  <2> QED
    BY <1>2, <2>1 DEF ToSet
<1>4. ToSet(c) = {Entry(i) : i \in FilesIn(n + 1)}
  BY <1>1, <1>3, FilesNext DEF Reported, e
<1>5. ASSUME NEW j \in 1..len PROVE checked[j].end <= e.start
  <2>1. checked[j] \in ToSet(checked)
    BY <1>2 DEF ToSet
  <2>2. PICK i \in FilesIn(n) : checked[j] = Entry(i)
    BY <2>1 DEF Reported
  <2>3. i \in 1..n /\ i \in 0..Count /\ (i = n \/ i < n)
    BY <1>1, <2>2 DEF FilesIn
  <2>4. checked[j].end = Places[i]
    BY <2>2 DEF Entry, End
  <2>5. e.start = Places[n]
    <3>1. (n + 1) - 1 = n
      BY <1>1
    <3> QED
      BY <3>1 DEF e, Entry, Start
  <2>6. Places[i] \in Nat /\ Places[n] \in Nat
    BY <1>1, <2>3, PlacesNat
  <2> QED
    BY <1>1, <2>3, <2>4, <2>5, <2>6, Rising
<1>6. ASSUME NEW j \in 1..len + 1, NEW k \in 1..len + 1, j < k PROVE c[j].end <= c[k].start
  <2>1. j \in 1..len /\ (k \in 1..len \/ k = len + 1)
    BY <1>2, <1>6
  <2>2. CASE k \in 1..len
    BY <1>2, <1>6, <2>1, <2>2 DEF Reported
  <2>3. CASE k = len + 1
    BY <1>2, <1>5, <2>1, <2>3
  <2> QED
    BY <2>1, <2>2, <2>3
<1>7. {Entry(i) : i \in FilesIn(n + 1)}' = {Entry(i) : i \in FilesIn(n + 1)}
  BY SameArchive
<1> QED
  BY <1>2, <1>4, <1>6, <1>7 DEF Reported, c

-----------------------------------------------------------------------------
(* The steps *)

\* What can go wrong with a header.
Errors == {"EOF", "errCorruptHeader", "errBadHeaderCrc", "unexpectedEOF"}

LEMMA OpenStep ==
    ASSUME WalkInv, Open
    PROVE  WalkInv'
<1> DEFINE size == Blocks[1].size
           f == Get(file, SignatureSize)
           n == Filled(f, BufSize).buffered
           err == IF ~Has(file, SignatureSize) THEN "EOF" ELSE HeaderError(GetPos(f), n)
<1>1. /\ at = "open" /\ file' = Get(f, size)
      /\ at' = IF err # "none" THEN err
               ELSE IF ~Blocks[1].encrypted THEN "errCrypted" ELSE "next"
      /\ UNCHANGED <<archive, dataSize, checked>>
  BY DEF Open
<1>2. /\ archive \in Archives /\ dataSize \in Nat /\ checked \in Seq(Entries)
      /\ file = [pos |-> 0, buffered |-> 0] /\ checked = <<>> /\ file \in Files /\ GetPos(file) = 0
  BY <1>1 DEF WalkInv, WalkTypeOK, OpenInv, GetPos
<1>3. /\ Count \in Nat \ {0} /\ size \in 1..BufSize /\ BufSize \in Nat \ {0}
      /\ Blocks[1].kind = "arc" /\ Blocks[1].data = 0 /\ 1 \in 1..Count
      /\ 0 \in 0..Count /\ 1 \in 0..Count
  BY <1>2, BlocksGiven, SizesGiven
<1>4. /\ Places[0] = 1 /\ Places[1] = 1 + size
  <2>1. Places[1] = Places[0] + HeaderCells(1) + Blocks[1].data /\ Places[0] = 1
    BY <1>2, <1>3, PlacesSteps DEF SignatureSize
  <2> QED
    BY <1>2, <1>3, <2>1, HeaderSize
<1>5. /\ f \in Files /\ (Has(file, SignatureSize) => GetPos(f) = 1)
      /\ Length - GetPos(file) >= 1 => Has(file, SignatureSize)
  <2>1. SignatureSize \in 0..BufSize /\ SignatureSize = 1
    BY <1>3 DEF SignatureSize
  <2> QED
    BY <1>2, <2>1, GetFacts
<1>6. /\ Get(f, size) \in Files
      /\ n >= size => GetPos(Get(f, size)) = GetPos(f) + size
  BY <1>2, <1>3, <1>5, GetFacts
<1> HIDE DEF f, n, size
<1>7. err = "none" => Has(file, SignatureSize) /\ HeaderError(GetPos(f), n) = "none"
  OBVIOUS
<1>8. err \in Errors \cup {"none"}
  BY DEF HeaderError, Errors
<1>9. n \in 0..BufSize
  BY <1>2, <1>3, <1>5, FilledFacts DEF n, Files
<1>10. ASSUME err = "none" PROVE GetPos(file') = End(1)
  <2>1. GetPos(f) = 1 /\ HeaderError(1, n) = "none"
    BY <1>5, <1>7, <1>10
  <2>2. Starting(1) # {} /\ BlockAt(1).size <= n
    <3>1. Starting(1) # {} /\ ~ (n < BlockAt(1).size)
      BY <2>1 DEF HeaderError
    <3>2. BlockAt(1).size \in Nat
      BY <1>2, <3>1, StartsAt, BlocksGiven
    <3> QED
      BY <1>9, <3>1, <3>2
  <2>3. BlockAt(1) = Blocks[1]
    <3>1. PICK i \in 1..Count : i # archive.damaged /\ Start(i) = 1 /\ BlockAt(1) = Blocks[i]
      BY <1>2, <2>2, StartsAt
    <3>2. i - 1 \in 0..Count /\ Places[i - 1] = 1 /\ ~ (0 < i - 1)
      <4>1. i - 1 \in 0..Count
        BY <1>3
      <4>2. 0 < i - 1 => Places[0] < Places[i - 1]
        BY <1>2, <1>3, <4>1, Rising
      <4> QED
        BY <1>4, <3>1, <4>1, <4>2 DEF Start
    <3>3. i = 1
      BY <1>3, <3>2
    <3> QED
      BY <3>1, <3>3
  <2> QED
    BY <1>1, <1>3, <1>4, <1>6, <2>1, <2>2, <2>3 DEF size, End
<1> HIDE DEF err
<1>11. WalkTypeOK' /\ OpenInv'
  <2>1. at' # "open"
    BY <1>1, <1>8 DEF Errors
  <2> QED
    BY <1>1, <1>2, <1>6, <2>1, SameArchive DEF WalkTypeOK, OpenInv, Same, Files
<1>12. Whole => 1 < Count
  BY <1>3 DEF Whole, Count
<1>13. PlaceInv'
  <2>1. Reported(0)' /\ Reported(1)'
    <3>1. FilesIn(0) = {} /\ FilesIn(1) = {} /\ FilesIn(0)' = FilesIn(0) /\ FilesIn(1)' = FilesIn(1)
      BY <1>1, <1>2, NoFirstFile, SameArchive DEF Same
    <3>2. checked' = <<>>
      BY <1>1, <1>2
    <3> QED
      BY <3>1, <3>2 DEF Reported, ToSet
  <2>2. Count' = Count /\ Whole' = Whole /\ End(1)' = End(1)
    BY <1>1, SameArchive DEF Same
  <2>3. CASE err = "none"
    <3>1. at' \in {"next", "errCrypted"}
      BY <1>1, <2>3
    <3>2. Behind(1)'
      BY <1>10, <1>12, <2>1, <2>2, <2>3, <3>1 DEF Behind, GetPos
    <3> QED
      BY <1>3, <2>2, <3>2 DEF PlaceInv
  <2>4. CASE err # "none"
    <3>1. at' \notin {"next", "ended"}
      BY <1>1, <1>8, <2>4 DEF Errors
    <3>2. Behind(0)'
      BY <2>1, <3>1 DEF Behind
    <3> QED
      BY <1>3, <2>2, <3>2 DEF PlaceInv
  <2> QED
    BY <2>3, <2>4
<1>14. WholeInv'
  <2> SUFFICES ASSUME Plain', Whole' PROVE at' = "next"
    BY DEF WholeInv
  <2>1. Whole /\ archive.damaged = 0 /\ archive.cut = 0 /\ Blocks[1].encrypted
    BY <1>1, SameArchive DEF Same, Whole
  <2>2. Length = Places[Count] /\ Places[Count] \in Nat /\ Places[Count] >= 1 + size
    <3>1. 1 < Count /\ Count \in 0..Count
      BY <1>3, <1>12, <2>1
    <3>2. Places[1] < Places[Count] /\ Places[Count] \in Nat
      BY <1>2, <1>3, <3>1, Rising, PlacesNat
    <3> QED
      BY <1>2, <1>3, <1>4, <2>1, <3>2, LengthInt DEF End, size
  <2>3. Has(file, SignatureSize) /\ GetPos(f) = 1
    BY <1>2, <1>3, <1>5, <2>2 DEF size
  <2>4. n >= size
    <3>1. size \in 0..BufSize /\ BufSize \in 0..BufSize /\ Length - GetPos(f) >= size
      BY <1>3, <2>2, <2>3 DEF size
    <3> QED
      BY <1>2, <1>5, <3>1, FilledFacts DEF n
  <2>5. Starting(1) = {1} /\ BlockAt(1) = Blocks[1]
    <3>1. 1 - 1 = 0
      OBVIOUS
    <3>2. Start(1) = 1 /\ 1 # archive.damaged
      BY <1>4, <2>1, <3>1 DEF Start
    <3> QED
      BY <1>2, <1>3, <3>2, OneStarts
  <2>6. err = "none"
    BY <1>3, <1>9, <2>3, <2>4, <2>5 DEF err, HeaderError, size
  <2> QED
    BY <1>1, <2>1, <2>6
<1> QED
  BY <1>11, <1>13, <1>14 DEF WalkInv

\* A header that cannot be read: in an archive that is whole there is none.
LEMMA FailStep ==
    ASSUME WalkInv, NextFails
    PROVE  WalkInv'
<1>1. /\ at = "next" /\ at' = Error /\ Error # "none"
      /\ UNCHANGED <<archive, dataSize, checked>>
      /\ file' \in {Get(file, SaltSize), Ahead.file}
  BY DEF NextFails
<1>2. Error \in Errors
  BY <1>1 DEF Error, HeaderError, Errors
<1>3. WalkTypeOK /\ WalkTypeOK' /\ OpenInv'
  <2>1. WalkTypeOK
    BY DEF WalkInv
  <2>2. file' \in Files
    BY <1>1, <2>1, AheadFacts DEF Reading
  <2> QED
    BY <1>1, <1>2, <2>1, <2>2, SameArchive DEF WalkTypeOK, OpenInv, Same, Errors, Files
<1>4. ASSUME Plain PROVE ~ Whole
  <2>1. PICK n \in 0..Count : Behind(n)
    BY <1>4 DEF WalkInv, PlaceInv
  <2>2. n # 0 /\ GetPos(file) = End(n) /\ (Whole => n < Count)
    BY <1>1, <2>1 DEF Behind
  <2>3. n \in 1..Count
    BY <2>2
  <2> QED
    BY <1>1, <1>3, <2>2, <2>3, NextIsThere
<1>5. PlaceInv'
  <2> SUFFICES ASSUME Plain' PROVE \E n \in 0..Count' : Behind(n)'
    BY DEF PlaceInv
  <2>1. Plain /\ Count' = Count
    BY <1>1, SameArchive DEF Same
  <2>2. PICK n \in 0..Count : Behind(n)
    BY <2>1 DEF WalkInv, PlaceInv
  <2>3. Reported(n)'
    BY <1>1, <2>2, ReportedSame DEF Behind, Same
  <2>4. Behind(n)'
    BY <1>1, <1>2, <2>3 DEF Behind, Errors
  <2> QED
    BY <2>1, <2>4
<1>6. WholeInv'
  BY <1>1, <1>4, SameArchive DEF WholeInv, Same
<1> QED
  BY <1>3, <1>5, <1>6 DEF WalkInv

LEMMA FileStep ==
    ASSUME WalkInv, NextFile
    PROVE  WalkInv'
<1>1. /\ at = "next" /\ Error = "none" /\ Cur.kind \in {"file", "dir"} /\ Reads({"file", "dir"})
      /\ dataSize' = NewDataSize /\ file' = [pos |-> EndOffset, buffered |-> 0]
      /\ checked' = IF Cur.kind = "dir" THEN checked
                    ELSE Append(checked, [start |-> GetPos(file), end |-> EndOffset,
                                          ok |-> Cur.last /\ Cur.ok])
      /\ archive' = archive /\ at' = "next"
  BY DEF NextFile, Reads
<1>2. /\ WalkTypeOK /\ archive \in Archives /\ checked \in Seq(Entries) /\ BufSize \in Nat
      /\ DOMAIN Blocks = 1..Count /\ Count \in Nat
  BY BlocksGiven, SizesGiven DEF WalkInv, WalkTypeOK
<1>3. ASSUME NEW i \in 1..Count, Start(i) = GetPos(file), Cur = Blocks[i]
      PROVE  /\ file' = [pos |-> End(i), buffered |-> 0] /\ End(i) \in Nat
             /\ checked' = IF Blocks[i].kind = "dir" THEN checked
                           ELSE Append(checked, Entry(i))
  BY <1>1, <1>2, <1>3, FileRange DEF Entry
<1>4. WalkTypeOK'
  <2>1. PICK i \in 1..Count : Start(i) = GetPos(file) /\ Cur = Blocks[i]
    BY <1>1, <1>2, BlockRead
  <2>2. file' \in Files
    BY <1>2, <1>3, <2>1 DEF Files
  <2>3. checked' \in Seq(Entries)
    <3>1. CASE Blocks[i].kind = "dir"
      BY <1>2, <1>3, <2>1, <3>1
    <3>2. CASE Blocks[i].kind # "dir"
      <4>1. Entry(i) \in Entries
        BY <1>1, <2>1, <3>2 DEF Entries, FilesIn
      <4> QED
        BY <1>2, <1>3, <2>1, <3>2, <4>1
    <3> QED
      BY <3>1, <3>2
  <2>4. dataSize' \in Nat
    BY <1>1, <1>2, NextData
  <2>5. Files' = Files /\ Entries' = Entries
    BY <1>1, SameArchive DEF Same, Files
  <2> QED
    BY <1>1, <1>2, <2>2, <2>3, <2>4, <2>5 DEF WalkTypeOK
<1>5. OpenInv' /\ WholeInv'
  BY <1>1 DEF OpenInv, WholeInv
<1>6. PlaceInv'
  <2> SUFFICES ASSUME Plain' PROVE \E n \in 0..Count' : Behind(n)'
    BY DEF PlaceInv
  <2>1. Plain /\ Count' = Count /\ Whole' = Whole /\ Same
    BY <1>1, SameArchive DEF Same
  <2>2. PICK n \in 0..Count : Behind(n)
    BY <2>1 DEF WalkInv, PlaceInv
  <2>3. n # 0 /\ GetPos(file) = End(n) /\ Reported(n)
    BY <1>1, <2>2 DEF Behind
  <2> DEFINE i == n + 1
  <2>4. i \in 1..Count /\ Start(i) = GetPos(file) /\ Cur = Blocks[i] /\ i \in 0..Count
    BY <1>1, <1>2, <2>3, NextIsRead
  <2>5. /\ file' = [pos |-> End(i), buffered |-> 0] /\ End(i) \in Nat
        /\ checked' = IF Blocks[i].kind = "dir" THEN checked ELSE Append(checked, Entry(i))
    <3> HIDE DEF i
    <3> QED
      BY <1>3, <2>4
  <2>6. Reported(i)'
    <3>1. CASE Blocks[i].kind = "dir"
      <4>1. FilesIn(i) = FilesIn(n) /\ checked' = checked
        BY <1>2, <2>4, <2>5, <3>1, FilesNext
      <4> QED
        BY <2>1, <2>3, <4>1, ReportedSame
    <3>2. CASE Blocks[i].kind # "dir"
      <4>1. Blocks[i].kind = "file"
        BY <1>1, <2>4, <3>2
      <4> QED
        BY <1>2, <2>1, <2>3, <2>4, <2>5, <3>2, <4>1, FileReported
    <3> QED
      BY <3>1, <3>2
  <2>7. GetPos(file)' = End(i)'
    <3>1. End(i)' = End(i)
      BY <2>1, SameArchive
    <3> HIDE DEF i
    <3> QED
      BY <2>5, <3>1 DEF GetPos
  <2>8. Whole => i < Count
    <3>1. ASSUME Whole, i = Count PROVE FALSE
      BY <1>1, <2>4, <3>1 DEF Whole, Count
    <3> QED
      BY <1>2, <2>4, <3>1
  <2>9. i # 0
    BY <2>4
  <2> HIDE DEF i
  <2>10. Behind(i)'
    BY <1>1, <2>1, <2>6, <2>7, <2>8, <2>9 DEF Behind
  <2> QED
    BY <2>1, <2>4, <2>10
<1> QED
  BY <1>4, <1>5, <1>6 DEF WalkInv

LEMMA EndStep ==
    ASSUME WalkInv, NextEnd
    PROVE  WalkInv'
<1>1. /\ at = "next" /\ Error = "none" /\ Cur.kind = "end"
      /\ at' \in {"ended", "errArchiveContinues"}
      /\ file' = Ahead.file /\ dataSize' = NewDataSize
      /\ UNCHANGED <<archive, checked>>
  BY DEF NextEnd, Reads
<1>2. WalkTypeOK /\ Same
  BY <1>1 DEF WalkInv, Same
<1>3. WalkTypeOK'
  <2>1. file' \in Files /\ dataSize' \in Nat
    BY <1>1, <1>2, AheadFacts, NextData DEF Reading
  <2> QED
    BY <1>1, <1>2, <2>1, SameArchive DEF WalkTypeOK, Files
<1>4. OpenInv' /\ WholeInv'
  BY <1>1 DEF OpenInv, WholeInv
<1>5. PlaceInv'
  <2> SUFFICES ASSUME Plain' PROVE \E n \in 0..Count' : Behind(n)'
    BY DEF PlaceInv
  <2>1. Plain /\ Count' = Count /\ Count \in Nat \ {0}
    BY <1>2, SameArchive, BlocksGiven DEF WalkTypeOK
  <2>2. PICK n \in 0..Count : Behind(n)
    BY <2>1 DEF WalkInv, PlaceInv
  <2>3. n # 0 /\ GetPos(file) = End(n) /\ Reported(n)
    BY <1>1, <2>2 DEF Behind
  <2>4. n + 1 \in 1..Count /\ Cur = Blocks[n + 1]
    BY <1>1, <1>2, <2>3, NextIsRead
  <2>5. n + 1 = Count
    <3>1. n + 1 \in 2..Len(Blocks)
      BY <2>1, <2>3, <2>4 DEF Count
    <3> QED
      BY <1>1, <2>1, <2>4, <3>1 DEF Plain, Count
  <2> DEFINE i == n + 1
  <2>6. FilesIn(i) = FilesIn(n)
    BY <1>1, <1>2, <2>4, <2>5, FilesNext DEF WalkTypeOK
  <2>7. Reported(i)'
    BY <1>1, <1>2, <2>3, <2>6, ReportedSame
  <2>8. i \in 0..Count' /\ i # 0 /\ i = Count'
    BY <2>1, <2>4, <2>5
  <2> HIDE DEF i
  <2>9. Behind(i)'
    BY <1>1, <2>7, <2>8 DEF Behind
  <2> QED
    BY <2>8, <2>9
<1> QED
  BY <1>3, <1>4, <1>5 DEF WalkInv

LEMMA DiscardFacts ==
    ASSUME NEW f \in Files, NEW n \in Nat
    PROVE  Discard(f, n) \in Files
<1>1. f.pos \in Nat /\ f.buffered \in Nat /\ BufSize \in Nat
  BY SizesGiven DEF Files
<1> QED
  BY <1>1 DEF Discard, Files

\* Other blocks are in no plain archive.
LEMMA OtherStep ==
    ASSUME WalkInv, NextArc \/ NextOther
    PROVE  WalkInv'
<1>1. /\ at = "next" /\ Error = "none" /\ Cur.kind \in {"arc", "service"}
      /\ at' \in {"next", "errCrypted", "EOF"} /\ dataSize' = NewDataSize
      /\ file' \in {Ahead.file, Discard(Ahead.file, NewDataSize)}
      /\ UNCHANGED <<archive, checked>>
  BY DEF NextArc, NextOther, Reads
<1>2. WalkTypeOK /\ Same
  BY <1>1 DEF WalkInv, Same
<1>3. WalkTypeOK'
  <2>1. Ahead.file \in Files /\ dataSize' \in Nat /\ NewDataSize \in Nat
    BY <1>1, <1>2, AheadFacts, NextData DEF Reading
  <2>2. file' \in Files
    BY <1>1, <2>1, DiscardFacts
  <2> QED
    BY <1>1, <1>2, <2>1, <2>2, SameArchive DEF WalkTypeOK, Files
<1>4. OpenInv'
  BY <1>1 DEF OpenInv
<1>5. ~ Plain
  <2> SUFFICES ASSUME Plain PROVE FALSE
    OBVIOUS
  <2>1. PICK n \in 0..Count : Behind(n)
    BY DEF WalkInv, PlaceInv
  <2>2. n # 0 /\ GetPos(file) = End(n)
    BY <1>1, <2>1 DEF Behind
  <2>3. n + 1 \in 1..Count /\ Cur = Blocks[n + 1]
    BY <1>1, <1>2, <2>2, NextIsRead
  <2>4. n + 1 \in 2..Len(Blocks)
    <3>1. Count \in Nat
      BY <1>2, BlocksGiven DEF WalkTypeOK
    <3> QED
      BY <2>2, <2>3, <3>1 DEF Count
  <2> QED
    BY <1>1, <2>3, <2>4 DEF Plain
<1>6. PlaceInv' /\ WholeInv'
  BY <1>2, <1>5, SameArchive DEF PlaceInv, WholeInv
<1> QED
  BY <1>3, <1>4, <1>6 DEF WalkInv

LEMMA WalkInit ==
    ASSUME WInit
    PROVE  WalkInv
<1>1. /\ archive \in Archives /\ file = [pos |-> 0, buffered |-> 0] /\ dataSize = 0
      /\ checked = <<>> /\ at = "open"
  BY DEF WInit
<1>2. Count \in Nat /\ 0 \in 0..Count /\ BufSize \in Nat
  BY <1>1, BlocksGiven, SizesGiven
<1>3. WalkTypeOK /\ OpenInv /\ WholeInv
  BY <1>1, <1>2 DEF WalkTypeOK, OpenInv, WholeInv, Files
<1>4. Reported(0)
  BY <1>1, NoFirstFile DEF Reported, ToSet
<1>5. Behind(0)
  BY <1>1, <1>4 DEF Behind
<1> QED
  BY <1>2, <1>3, <1>5 DEF WalkInv, PlaceInv

LEMMA WalkStep ==
    ASSUME WalkInv, [WNext]_wvars
    PROVE  WalkInv'
<1>1. CASE Open
  BY <1>1, OpenStep
<1>2. CASE NextFails
  BY <1>2, FailStep
<1>3. CASE NextFile
  BY <1>3, FileStep
<1>4. CASE NextEnd
  BY <1>4, EndStep
<1>5. CASE NextArc \/ NextOther
  BY <1>5, OtherStep
<1>6. CASE WStopped \/ UNCHANGED wvars
  <2>1. UNCHANGED <<archive, file, dataSize, checked, at>> /\ Same
    BY <1>6 DEF WStopped, wvars, Same
  <2>2. WalkTypeOK' /\ OpenInv' /\ WholeInv'
    BY <2>1, SameArchive DEF WalkInv, WalkTypeOK, OpenInv, WholeInv, Files
  <2>3. \A n : Behind(n) => Behind(n)'
    BY <2>1, SameArchive DEF Behind, Reported, GetPos
  <2>4. PlaceInv'
    BY <2>1, <2>3, SameArchive DEF WalkInv, PlaceInv
  <2> QED
    BY <2>2, <2>4 DEF WalkInv
<1> QED
  BY <1>1, <1>2, <1>3, <1>4, <1>5, <1>6 DEF WNext

\* In an archive of files, folders and an end, whatever its sizes, its damage
\* and where it is cut off, the walk is always at the end of a block.
THEOREM DetectorInvariance == WSpec => []WalkInv
<1>1. WInit => WalkInv
  BY WalkInit
<1>2. WalkInv /\ [WNext]_wvars => WalkInv'
  BY WalkStep
<1> QED
  BY <1>1, <1>2, PTL DEF WSpec

\* Every file is checked once, in order, with the range of its block, and the
\* walk through an archive that is whole does not break off.
THEOREM EachFileReported == WSpec => []FilesReported
<1>1. WalkInv => FilesReported
  <2> SUFFICES ASSUME WalkInv PROVE FilesReported
    OBVIOUS
  <2>1. ToSet(checked) \subseteq Entries
    BY DEF WalkInv, WalkTypeOK, ToSet
  <2>2. Plain => \E n \in 0..Count : Reported(n) /\ (at = "ended" => n = Count)
    BY DEF WalkInv, PlaceInv, Behind
  <2>3. Plain /\ Whole => at \in {"open", "next", "ended", "errArchiveContinues"}
    BY DEF WalkInv, WholeInv
  <2> QED
    BY <2>1, <2>2, <2>3 DEF FilesReported, Entries, Count
<1>2. WSpec => []WalkInv
  BY DetectorInvariance
<1> QED
  BY <1>1, <1>2, PTL
=============================================================================
