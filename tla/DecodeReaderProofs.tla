------------------------- MODULE DecodeReaderProofs --------------------------
(***************************************************************************)
(* Proofs about Window and DecodeReader, for windows of any size, matches  *)
(* of any length and distance, any filter blocks and any bounds, of files  *)
(* read to their end: the window holds the end of what was decoded, every  *)
(* byte comes out once and in its place, and no Read returns nothing.      *)
(***************************************************************************)
EXTENDS DecodeReader, NumberLemmas, SequenceTheorems

-----------------------------------------------------------------------------
(* The ring *)

Bufs == UNION {[0..s - 1 -> Nat] : s \in Nat}

IsWindow(x) ==
    /\ x \in [size : Nat \ {0, 1}, buf : Bufs, r : Nat, w : Nat, l : Nat, o : Nat]
    /\ x.buf \in [0..x.size - 1 -> Nat]
    /\ x.r \in 0..x.size - 1
    /\ x.w \in 0..x.size - 1

\* The i-th byte of a stream, 0 before its first.
At(s, i) == IF i > 0 THEN s[i] ELSE 0

\* The distances at which a window holds the first n bytes of a stream.
Held(x, s, n) ==
    {d \in 1..x.size : x.buf[(x.w - d) % x.size] = At(s, n - d + 1)}

\* The next len bytes behind the first n repeat those off before.
Repeats(s, n, len, off) ==
    \A k \in 0..len - 1 : s[n + k + 1] = At(s, n - off + 1 + (k % off))

\* Distances every window of the archive has room for.
Near == {d \in Nat \ {0} : \A size \in Sizes : d <= size}

LEMMA RingSpace ==
    ASSUME NEW x, IsWindow(x)
    PROVE  /\ Buffered(x) = IF x.r <= x.w THEN x.w - x.r ELSE x.w - x.r + x.size
           /\ Buffered(x) \in 0..x.size - 1
           /\ Available(x) = x.size - 1 - Buffered(x)
<1> DEFINE n == x.size
           a == x.w - x.r
           b == x.r - x.w - 1
<1>1. n \in Nat \ {0} /\ x.r \in 0..n - 1 /\ x.w \in 0..n - 1
  BY DEF IsWindow
<1>2. a \in (-n)..(2 * n - 1) /\ b \in (-n)..(2 * n - 1)
  BY <1>1
<1>3. a % n = IF a < 0 THEN a + n ELSE IF a < n THEN a ELSE a - n
  BY <1>1, <1>2, ModNear
<1>4. b % n = IF b < 0 THEN b + n ELSE IF b < n THEN b ELSE b - n
  BY <1>1, <1>2, ModNear
<1> QED
  BY <1>1, <1>3, <1>4 DEF Buffered, Available

\* Where a place before or behind the write index lies.
LEMMA RingIndex ==
    ASSUME NEW x, IsWindow(x), NEW d \in (-x.size)..x.size
    PROVE  /\ (x.w - d) % x.size \in 0..x.size - 1
           /\ (x.w - d) % x.size = IF x.w < d THEN x.w - d + x.size
                                   ELSE IF x.w - d < x.size THEN x.w - d
                                   ELSE x.w - d - x.size
<1> DEFINE n == x.size
           a == x.w - d
<1>1. n \in Nat \ {0} /\ x.w \in 0..n - 1 /\ d \in (-n)..n
  BY DEF IsWindow
<1>2. a \in (-n)..(2 * n - 1)
  BY <1>1
<1>3. a % n = IF a < 0 THEN a + n ELSE IF a < n THEN a ELSE a - n
  BY <1>1, <1>2, ModNear
<1> QED
  BY <1>1, <1>3

\* What copyBytes changes.
LEMMA CopyFields ==
    ASSUME NEW x, IsWindow(x), NEW len \in 1..x.size - 1, NEW off \in 1..x.size,
           NEW y, y = CopyBytes(x, len, off),
           NEW n, n = Smaller(len, Available(x))
    PROVE  /\ n \in 0..len /\ n \in 0..Available(x)
           /\ y.size = x.size /\ y.r = x.r
           /\ y.w = (x.w + n) % x.size
           /\ y.l = IF len > n THEN len - n ELSE x.l
           /\ y.o = IF len > n THEN off ELSE x.o
           /\ \A i \in 0..x.size - 1 :
                 y.buf[i] = IF (i - x.w) % x.size < n
                            THEN Copied(x, off, (i - x.w) % x.size)
                            ELSE x.buf[i]
           /\ IsWindow(y)
<1>1. /\ x.size \in Nat \ {0, 1} /\ x.buf \in [0..x.size - 1 -> Nat]
      /\ x.r \in 0..x.size - 1 /\ x.w \in 0..x.size - 1 /\ x.l \in Nat /\ x.o \in Nat
      /\ x = [size |-> x.size, buf |-> x.buf, r |-> x.r, w |-> x.w, l |-> x.l, o |-> x.o]
  BY DEF IsWindow
<1>2. Available(x) \in 0..x.size - 1
  BY <1>1, RingSpace
<1>3. n \in 0..len /\ n \in 0..Available(x) /\ n \in 0..x.size - 1
  BY <1>1, <1>2 DEF Smaller
<1>4. len % x.size = len
  BY <1>1, ModSmall
<1> DEFINE buf == [i \in DOMAIN x.buf |->
                      LET k == (i - x.w) % x.size
                      IN  IF k < n THEN Copied(x, off, k) ELSE x.buf[i]]
           w == (x.w + n) % x.size
           l == IF len > n THEN len - n ELSE x.l
           o == IF len > n THEN off ELSE x.o
<1>5. y = [x EXCEPT !.buf = buf, !.w = w, !.l = l, !.o = o]
  BY <1>4 DEF CopyBytes, Space, Forward
<1>6. buf \in [0..x.size - 1 -> Nat]
  <2>1. ASSUME NEW i \in 0..x.size - 1, (i - x.w) % x.size < n
        PROVE  Copied(x, off, (i - x.w) % x.size) \in Nat
    <3> DEFINE k == (i - x.w) % x.size
    <3>1. k \in 0..x.size - 1
      BY <1>1
    <3> HIDE DEF k
    <3>2. k % off \in 0..off - 1
      BY <1>1, <3>1
    <3>3. off - (k % off) \in 1..off /\ x.w - off + (k % off) = x.w - (off - (k % off))
      BY <1>1, <3>2
    <3>4. (x.w - off + (k % off)) % x.size \in 0..x.size - 1
      BY <1>1, <3>2
    <3>5. Copied(x, off, k) \in Nat
      BY <1>1, <3>4 DEF Copied
    <3> QED
      BY <3>5 DEF k
  <2> QED
    BY <1>1, <2>1
<1>7. w \in 0..x.size - 1 /\ l \in Nat /\ o \in Nat
  BY <1>1, <1>3
<1>8. /\ y.size = x.size /\ y.r = x.r /\ y.w = w /\ y.l = l /\ y.o = o /\ y.buf = buf
      /\ y = [size |-> x.size, buf |-> buf, r |-> x.r, w |-> w, l |-> l, o |-> o]
  <2> HIDE DEF buf, w, l, o
  <2> QED
    BY <1>1, <1>5
<1>9. IsWindow(y)
  <2> HIDE DEF buf, w, l, o
  <2>1. buf \in Bufs
    BY <1>1, <1>6 DEF Bufs
  <2> QED
    BY <1>1, <1>6, <1>7, <1>8, <2>1 DEF IsWindow
<1> QED
  BY <1>1, <1>3, <1>8, <1>9

\* copyBytes: what was in the window moves n places back, and the new bytes
\* are those the stream goes on with.
LEMMA CopyHolds ==
    ASSUME NEW x, IsWindow(x), NEW len \in 1..x.size - 1, NEW off \in 1..x.size,
           NEW s, NEW m \in Nat,
           \A d \in 1..off : d \in Held(x, s, m),
           Repeats(s, m, len, off),
           NEW y, y = CopyBytes(x, len, off),
           NEW n, n = Smaller(len, Available(x))
    PROVE  /\ \A d \in 1..n : d \in Held(y, s, m + n)
           /\ \A d \in Held(x, s, m) : d + n <= x.size => d + n \in Held(y, s, m + n)
<1>1. /\ n \in 0..len /\ n \in 0..Available(x)
      /\ y.size = x.size /\ y.w = (x.w + n) % x.size
      /\ IsWindow(y)
      /\ \A i \in 0..x.size - 1 :
            y.buf[i] = IF (i - x.w) % x.size < n
                       THEN Copied(x, off, (i - x.w) % x.size)
                       ELSE x.buf[i]
  BY CopyFields
<1>2. /\ x.size \in Nat \ {0, 1} /\ x.w \in 0..x.size - 1 /\ y.w \in 0..x.size - 1
  BY <1>1 DEF IsWindow
<1>3. n \in 0..x.size - 1
  BY <1>1, <1>2
<1>4. y.w = IF x.w + n < x.size THEN x.w + n ELSE x.w + n - x.size
  <2>1. (x.w - (-n)) % x.size = IF x.w < -n THEN x.w - (-n) + x.size
                                   ELSE IF x.w - (-n) < x.size THEN x.w - (-n)
                                   ELSE x.w - (-n) - x.size
    <3>1. -n \in (-x.size)..x.size
      BY <1>2, <1>3
    <3> HIDE DEF Held
    <3> QED
      BY <3>1, RingIndex
  <2>2. x.w - (-n) = x.w + n
    BY <1>2, <1>3
  <2> QED
    BY <1>1, <1>2, <1>3, <2>1, <2>2
<1>5. ASSUME NEW d \in 1..x.size
      PROVE  /\ (y.w - d) % x.size \in 0..x.size - 1
             /\ (((y.w - d) % x.size) - x.w) % x.size = IF d <= n THEN n - d ELSE n - d + x.size
             /\ d > n => (y.w - d) % x.size = (x.w - (d - n)) % x.size
  <2> DEFINE i == (y.w - d) % x.size
  <2>1. i = IF y.w < d THEN y.w - d + x.size ELSE y.w - d
    <3>1. d \in (-y.size)..y.size
      BY <1>1, <1>2
    <3>2. (y.w - d) % y.size = IF y.w < d THEN y.w - d + y.size
                               ELSE IF y.w - d < y.size THEN y.w - d
                               ELSE y.w - d - y.size
      BY <1>1, <3>1, RingIndex
    <3> QED
      BY <1>1, <1>2, <3>2
  <2> HIDE DEF i
  <2>2. i \in 0..x.size - 1
    BY <1>2, <2>1
  <2>3. (i - x.w) % x.size = IF i < x.w THEN i - x.w + x.size ELSE i - x.w
    <3>1. i - x.w \in (-x.size)..(2 * x.size - 1) /\ i - x.w < x.size
      BY <1>2, <2>2
    <3> DEFINE a == i - x.w
    <3>2. a % x.size = IF a < 0 THEN a + x.size ELSE IF a < x.size THEN a ELSE a - x.size
      BY <1>2, <3>1, ModNear
    <3> QED
      BY <1>2, <2>2, <3>1, <3>2
  <2>4. (i - x.w) % x.size = IF d <= n THEN n - d ELSE n - d + x.size
    BY <1>2, <1>3, <1>4, <2>1, <2>2, <2>3
  <2>5. ASSUME d > n PROVE i = (x.w - (d - n)) % x.size
    <3>1. d - n \in (-x.size)..x.size
      BY <1>2, <1>3, <2>5
    <3>2. (x.w - (d - n)) % x.size = IF x.w < d - n THEN x.w - (d - n) + x.size
                                     ELSE IF x.w - (d - n) < x.size THEN x.w - (d - n)
                                     ELSE x.w - (d - n) - x.size
      BY <3>1, RingIndex
    <3> QED
      BY <1>2, <1>3, <1>4, <2>1, <2>5, <3>2
  <2> QED
    BY <2>2, <2>4, <2>5 DEF i
<1>6. ASSUME NEW d \in 1..n PROVE d \in Held(y, s, m + n)
  <2> DEFINE i == (y.w - d) % x.size
             k == n - d
             e == off - (k % off)
  <2>1. d \in 1..x.size /\ k \in 0..n - 1 /\ k \in 0..len - 1 /\ k \in Int
    BY <1>1, <1>2, <1>3
  <2>2. i \in 0..x.size - 1 /\ (i - x.w) % x.size = k
    BY <1>5, <2>1
  <2>3. y.buf[i] = Copied(x, off, k)
    BY <1>1, <2>1, <2>2
  <2>4. k % off \in 0..off - 1 /\ e \in 1..off /\ x.w - off + (k % off) = x.w - e
    <3> HIDE DEF k
    <3>1. k % off \in 0..off - 1
      BY <2>1, <1>2
    <3> QED
      BY <3>1, <1>2
  <2>5. Copied(x, off, k) = At(s, m - e + 1)
    <3>1. e \in Held(x, s, m)
      BY <2>4
    <3>2. x.buf[(x.w - e) % x.size] = At(s, m - e + 1)
      BY <3>1 DEF Held
    <3> QED
      BY <2>4, <3>2 DEF Copied
  <2>6. m - e + 1 = m - off + 1 + (k % off) /\ m + n - d + 1 = m + k + 1 /\ m + k + 1 > 0
    BY <2>1, <2>4, <1>1, <1>2
  <2>7. s[m + k + 1] = At(s, m - off + 1 + (k % off))
    <3> HIDE DEF k
    <3> QED
      BY <2>1 DEF Repeats
  <2>8. y.buf[i] = At(s, (m + n) - d + 1)
    <3>1. y.buf[i] = s[m + k + 1]
      <4> HIDE DEF k, e, i
      <4> QED
        BY <2>3, <2>5, <2>6, <2>7
    <3> HIDE DEF k, e, i
    <3>2. (m + n) - d + 1 = m + k + 1 /\ m + k + 1 > 0
      BY <1>2, <1>3, <2>1, <2>6
    <3> QED
      BY <3>1, <3>2 DEF At
  <2> QED
    BY <1>1, <2>1, <2>8 DEF Held
<1>7. ASSUME NEW d \in Held(x, s, m), d + n <= x.size PROVE d + n \in Held(y, s, m + n)
  <2> DEFINE c == d + n
             i == (y.w - c) % x.size
  <2>1. d \in 1..x.size /\ x.buf[(x.w - d) % x.size] = At(s, m - d + 1)
    BY DEF Held
  <2>2. c \in 1..x.size /\ c > n /\ c - n = d
    BY <1>2, <1>3, <1>7, <2>1
  <2>3. /\ i \in 0..x.size - 1
        /\ (i - x.w) % x.size = n - c + x.size
        /\ i = (x.w - d) % x.size
    <3> HIDE DEF c
    <3> QED
      BY <1>5, <2>2, <1>2, <1>3
  <2>4. ~((i - x.w) % x.size < n)
    BY <1>2, <1>3, <2>2, <2>3
  <2>5. y.buf[i] = x.buf[i]
    BY <1>1, <2>3, <2>4
  <2>6. y.buf[(y.w - c) % x.size] = At(s, m - d + 1) /\ m - d + 1 = (m + n) - c + 1
    BY <1>2, <1>3, <2>1, <2>3, <2>5
  <2> QED
    BY <1>1, <2>2, <2>6 DEF Held
<1> QED
  BY <1>6, <1>7

\* A part of the copy done, the rest of it still repeats the same bytes.
LEMMA RepeatsOn ==
    ASSUME NEW s, NEW m \in Nat, NEW len \in Nat, NEW off \in Nat \ {0},
           Repeats(s, m, len, off), NEW n \in 0..len
    PROVE  Repeats(s, m + n, len - n, off)
<1> SUFFICES ASSUME NEW k \in 0..(len - n) - 1
             PROVE  s[(m + n) + k + 1] = At(s, (m + n) - off + 1 + (k % off))
  BY DEF Repeats
<1> DEFINE a == k % off
           j == n + a - off
           q == n + k
<1>1. a \in 0..off - 1 /\ k \in Int /\ q \in 0..len - 1 /\ q \in Int
  OBVIOUS
<1>2. (n + a) % off = (n + k) % off
  <2>1. n \in Int /\ k \in Int
    OBVIOUS
  <2> QED
    BY <2>1, ModAdd
<1>3. s[m + q + 1] = At(s, m - off + 1 + (q % off))
  <2> HIDE DEF q
  <2> QED
    BY <1>1 DEF Repeats
<1> HIDE DEF a
<1>4. CASE n + a < off
  <2>1. (n + a) % off = n + a
    BY <1>1, <1>4, ModSmall
  <2>2. m + q + 1 = (m + n) + k + 1 /\ m - off + 1 + (n + a) = (m + n) - off + 1 + a
    BY <1>1
  <2> QED
    BY <1>2, <1>3, <2>1, <2>2 DEF a
<1>5. CASE n + a >= off
  <2>1. j \in 0..len - 1 /\ j \in Int
    BY <1>1, <1>5
  <2>2. (n + a) % off = j % off
    <3> DEFINE t == n + a
    <3>1. t \in Int
      BY <1>1
    <3> HIDE DEF t
    <3>2. t % off = (t - off) % off
      BY <3>1, ModBack
    <3>3. t - off = j
      BY <1>1 DEF t
    <3> HIDE DEF j
    <3>4. t % off = j % off
      BY <3>2, <3>3
    <3> QED
      BY <3>4 DEF t
  <2>3. s[m + j + 1] = At(s, m - off + 1 + (j % off))
    <3> HIDE DEF j
    <3> QED
      BY <2>1 DEF Repeats
  <2>4. (m + n) - off + 1 + a = m + j + 1 /\ m + j + 1 > 0 /\ m + q + 1 = (m + n) + k + 1
    BY <1>1, <2>1
  <2>5. At(s, (m + n) - off + 1 + a) = s[m + j + 1]
    <3> HIDE DEF j
    <3> QED
      BY <2>4 DEF At
  <2>6. s[(m + n) + k + 1] = At(s, m - off + 1 + (j % off))
    <3> HIDE DEF j
    <3> QED
      BY <1>2, <1>3, <2>2, <2>4
  <2> QED
    BY <2>3, <2>5, <2>6 DEF a
<1> QED
  BY <1>1, <1>4, <1>5

\* The window of a stream: everything near, everything unread, and what is to
\* be copied once there is space.
RingOK(x, s) ==
    /\ IsWindow(x) /\ x.size \in Sizes
    /\ x.l <= Len(s)
    /\ \A d \in Near : d \in Held(x, s, Len(s) - x.l)
    /\ \A d \in 1..Buffered(x) : d \in Held(x, s, Len(s) - x.l)
    /\ x.l > 0 => /\ Buffered(x) = x.size - 1
                  /\ x.l <= x.size - 1
                  /\ x.o \in Near
                  /\ Repeats(s, Len(s) - x.l, x.l, x.o)

\* n places more between the indices r and w.
LEMMA MoreBetween ==
    ASSUME NEW size \in Nat \ {0}, NEW r \in 0..size - 1, NEW w \in 0..size - 1,
           NEW n \in Nat, NEW v \in Int,
           v = (IF w + n < size THEN w + n ELSE w + n - size),
           (IF r <= w THEN w - r ELSE w - r + size) + n <= size - 1
    PROVE  (IF r <= v THEN v - r ELSE v - r + size)
              = (IF r <= w THEN w - r ELSE w - r + size) + n
OBVIOUS

\* copyBytes writes what there is space for.
LEMMA CopyCounts ==
    ASSUME NEW x, IsWindow(x), NEW len \in 1..x.size - 1, NEW off \in 1..x.size
    PROVE  LET n == Smaller(len, Available(x))
               y == CopyBytes(x, len, off)
           IN  /\ n \in Int /\ n >= 0 /\ n <= len
               /\ Buffered(x) + n <= x.size - 1
               /\ Buffered(y) = Buffered(x) + n
               /\ n < len => Buffered(y) = x.size - 1
               /\ len - n <= x.size - 1
<1> DEFINE n == Smaller(len, Available(x))
           y == CopyBytes(x, len, off)
<1>1. /\ x.size \in Nat \ {0, 1} /\ x.r \in 0..x.size - 1 /\ x.w \in 0..x.size - 1
      /\ Buffered(x) = IF x.r <= x.w THEN x.w - x.r ELSE x.w - x.r + x.size
      /\ Buffered(x) \in 0..x.size - 1
      /\ Available(x) = x.size - 1 - Buffered(x)
  BY RingSpace DEF IsWindow
<1>2. /\ n \in 0..len /\ n \in 0..Available(x)
      /\ y.size = x.size /\ y.r = x.r
      /\ y.w = (x.w + n) % x.size
      /\ IsWindow(y)
  BY CopyFields
<1> HIDE DEF n, y
<1>3. n \in 0..x.size - 1 /\ n \in Nat /\ n <= len /\ Buffered(x) + n <= x.size - 1
  BY <1>1, <1>2
<1>4. Buffered(y) = Buffered(x) + n
  <2>1. Buffered(y) = IF y.r <= y.w THEN y.w - y.r ELSE y.w - y.r + y.size
    BY <1>2, RingSpace
  <2>2. y.w = IF x.w + n < x.size THEN x.w + n ELSE x.w + n - x.size
    <3>1. x.size \in Nat \ {0} /\ x.w \in 0..x.size - 1
      BY <1>1
    <3>2. (x.w + n) % x.size = IF x.w + n < x.size THEN x.w + n ELSE x.w + n - x.size
      BY <1>3, <3>1, ModForward
    <3> QED
      BY <1>2, <3>2
  <2>3. y.size = x.size /\ y.r = x.r
    BY <1>2
  <2>4. /\ x.size \in Nat \ {0} /\ x.r \in 0..x.size - 1 /\ x.w \in 0..x.size - 1
        /\ n \in Nat /\ y.w \in Int
    BY <1>1, <1>3, <2>2
  <2>5. Buffered(x) = IF x.r <= x.w THEN x.w - x.r ELSE x.w - x.r + x.size
    BY <1>1
  <2>6. (IF x.r <= x.w THEN x.w - x.r ELSE x.w - x.r + x.size) + n <= x.size - 1
    BY <1>3, <2>5
  <2>7. (IF x.r <= y.w THEN y.w - x.r ELSE y.w - x.r + x.size)
           = (IF x.r <= x.w THEN x.w - x.r ELSE x.w - x.r + x.size) + n
    BY <2>2, <2>4, <2>6, MoreBetween
  <2> QED
    BY <2>1, <2>3, <2>5, <2>7
<1>5. /\ n < len => Buffered(y) = x.size - 1
      /\ len - n <= x.size - 1
  <2>1. n < len => n = Available(x)
    BY DEF n, Smaller
  <2> QED
    BY <1>1, <1>2, <1>3, <1>4, <2>1
<1> QED
  BY <1>3, <1>4, <1>5 DEF n, y

\* copyBytes, of a match or of what waited: the window keeps to the stream.
LEMMA CopyRing ==
    ASSUME NEW x, IsWindow(x), x.size \in Sizes, x.l = 0,
           NEW s \in Seq(Nat), NEW m \in Nat, NEW len \in 1..x.size - 1, NEW off \in Near,
           m + len = Len(s),
           \A d \in Near : d \in Held(x, s, m),
           \A d \in 1..Buffered(x) : d \in Held(x, s, m),
           Repeats(s, m, len, off),
           NEW y, y = CopyBytes(x, len, off)
    PROVE  /\ RingOK(y, s)
           /\ y.size = x.size
           /\ Buffered(y) + y.l = Buffered(x) + len
           /\ Available(x) > 0 => Buffered(y) > 0
<1> DEFINE n == Smaller(len, Available(x))
<1>1. /\ x.size \in Nat \ {0, 1} /\ x.r \in 0..x.size - 1 /\ x.w \in 0..x.size - 1
      /\ Buffered(x) = IF x.r <= x.w THEN x.w - x.r ELSE x.w - x.r + x.size
      /\ Buffered(x) \in 0..x.size - 1
      /\ Available(x) = x.size - 1 - Buffered(x)
  BY RingSpace DEF IsWindow
<1>2. off \in 1..x.size /\ off \in Nat \ {0}
  BY <1>1 DEF Near
<1>3. \A d \in 1..off : d \in Near
  <2>1. ASSUME NEW d \in 1..off, NEW size \in Sizes PROVE d <= size
    <3>1. off <= size /\ off \in Nat
      BY DEF Near
    <3>2. size \in Nat
      BY ReaderAssumption
    <3> QED
      BY <3>1, <3>2
  <2> QED
    BY <1>2, <2>1 DEF Near
<1>4. /\ n \in 0..len /\ n \in 0..Available(x)
      /\ y.size = x.size /\ y.r = x.r
      /\ y.w = (x.w + n) % x.size
      /\ y.l = IF len > n THEN len - n ELSE x.l
      /\ y.o = IF len > n THEN off ELSE x.o
      /\ IsWindow(y)
  <2> HIDE DEF n
  <2>1. n = Smaller(len, Available(x))
    BY DEF n
  <2> QED
    BY <1>2, <2>1, CopyFields
<1>42. /\ n \in Int /\ n >= 0 /\ n <= len
       /\ Buffered(x) + n <= x.size - 1
       /\ Buffered(y) = Buffered(x) + n
       /\ n < len => Buffered(y) = x.size - 1
       /\ len - n <= x.size - 1
  BY <1>2, CopyCounts
<1>5. /\ \A d \in 1..n : d \in Held(y, s, m + n)
      /\ \A d \in Held(x, s, m) : d + n <= x.size => d + n \in Held(y, s, m + n)
  <2> HIDE DEF n
  <2>1. n = Smaller(len, Available(x))
    BY DEF n
  <2>2. \A d \in 1..off : d \in Held(x, s, m)
    BY <1>3
  <2> QED
    BY <1>2, <2>1, <2>2, CopyHolds
<1>6. y.l = len - n /\ (n < len => n = Available(x)) /\ (Available(x) > 0 => n > 0)
  BY <1>1, <1>4 DEF Smaller
<1>61. n \in Int /\ n >= 0 /\ n <= len /\ Buffered(x) + n <= x.size - 1
  BY <1>42 DEF n
<1> HIDE DEF n
<1>7. Buffered(y) = Buffered(x) + n
  BY <1>42 DEF n
<1>8. m + n = Len(s) - y.l /\ y.l <= Len(s)
  BY <1>4, <1>6
<1>9. ASSUME NEW d \in Near PROVE d \in Held(y, s, m + n)
  <2>1. d \in Nat \ {0} /\ d <= x.size
    BY DEF Near
  <2>2. CASE d <= n
    BY <1>4, <1>5, <2>1, <2>2
  <2>3. CASE d > n
    <3> DEFINE c == d - n
    <3>1. c \in Near
      <4>1. c \in Nat \ {0} /\ c <= d
        BY <1>4, <2>1, <2>3
      <4>2. ASSUME NEW size \in Sizes PROVE c <= size
        <5>1. size \in Nat /\ d <= size
          BY ReaderAssumption DEF Near
        <5> HIDE DEF c
        <5> QED
          BY <4>1, <5>1, <2>1
      <4> HIDE DEF c
      <4> QED
        BY <4>1, <4>2 DEF Near
    <3>2. c \in Held(x, s, m) /\ c + n = d
      BY <1>4, <2>1, <3>1
    <3> HIDE DEF c
    <3> QED
      BY <1>5, <2>1, <3>2
  <2> QED
    BY <1>4, <2>1, <2>2, <2>3
<1>10. ASSUME NEW d \in 1..Buffered(y) PROVE d \in Held(y, s, m + n)
  <2>1. d \in Nat \ {0} /\ d <= x.size
    <3>1. Buffered(y) \in 0..x.size - 1 /\ x.size \in Nat
      BY <1>1, <1>4, RingSpace
    <3> HIDE DEF Near
    <3> QED
      BY <3>1
  <2>2. CASE d <= n
    BY <1>4, <1>5, <2>1, <2>2
  <2>3. CASE d > n
    <3> DEFINE c == d - n
    <3>1. c \in 1..Buffered(x) /\ c + n = d
      BY <1>1, <1>4, <1>7, <2>1, <2>3
    <3> HIDE DEF c
    <3>2. c \in Held(x, s, m)
      BY <3>1
    <3> QED
      BY <1>5, <2>1, <3>1, <3>2
  <2> QED
    BY <1>4, <2>1, <2>2, <2>3
<1>11. ASSUME y.l > 0
       PROVE  /\ Buffered(y) = y.size - 1
              /\ y.l <= y.size - 1
              /\ y.o \in Near
              /\ Repeats(s, Len(s) - y.l, y.l, y.o)
  <2>1. n < len /\ y.o = off
    BY <1>4, <1>6, <1>11
  <2>2. Buffered(y) = y.size - 1 /\ y.l <= y.size - 1
    <3>1. y.size = x.size /\ y.l = len - n
      BY <1>4, <1>6
    <3> QED
      BY <1>42, <2>1, <3>1
  <2>3. Repeats(s, m + n, len - n, off)
    <3>1. len \in Nat
      OBVIOUS
    <3> QED
      BY <1>2, <1>4, <3>1, RepeatsOn
  <2> QED
    BY <1>6, <1>8, <2>1, <2>2, <2>3
<1>12. RingOK(y, s)
  BY <1>4, <1>8, <1>9, <1>10, <1>11 DEF RingOK
<1>13. y.size = x.size
  BY <1>4
<1>14. Buffered(y) + y.l = Buffered(x) + len /\ (Available(x) > 0 => Buffered(y) > 0)
  <2> DEFINE b == Buffered(x)
             c == Buffered(y)
             l == y.l
  <2>1. /\ b \in Nat /\ c = b + n /\ l = len - n /\ n \in Int /\ n >= 0
        /\ (Available(x) > 0 => n > 0)
    BY <1>1, <1>61, <1>6, <1>7
  <2> HIDE DEF b, c, l
  <2>2. c + l = b + len /\ (Available(x) > 0 => c > 0)
    BY <2>1
  <2> QED
    BY <2>2 DEF b, c, l
<1> QED
  BY <1>12, <1>13, <1>14

\* The read index and the waiting length do not change what is held.
LEMMA SameBytes ==
    ASSUME NEW x, IsWindow(x), NEW r \in 0..x.size - 1, NEW l \in Nat,
           NEW y, y = [size |-> x.size, buf |-> x.buf, r |-> r, w |-> x.w, l |-> l, o |-> x.o]
    PROVE  /\ IsWindow(y)
           /\ y.size = x.size /\ y.w = x.w /\ y.buf = x.buf /\ y.o = x.o
           /\ y.r = r /\ y.l = l
           /\ \A s, m : Held(y, s, m) = Held(x, s, m)
<1>1. /\ x.size \in Nat \ {0, 1} /\ x.buf \in [0..x.size - 1 -> Nat]
      /\ x.r \in 0..x.size - 1 /\ x.w \in 0..x.size - 1 /\ x.l \in Nat /\ x.o \in Nat
      /\ x.buf \in Bufs
      /\ x = [size |-> x.size, buf |-> x.buf, r |-> x.r, w |-> x.w, l |-> x.l, o |-> x.o]
  BY DEF IsWindow
<1>2. IsWindow(y)
  BY <1>1 DEF IsWindow
<1> QED
  BY <1>2 DEF Held

\* Where the read index is after n bytes.
LEMMA ReadIndex ==
    ASSUME NEW x, IsWindow(x), NEW n \in 1..Buffered(x),
           NEW y, IsWindow(y), y.size = x.size, y.w = x.w, y.r = (x.r + n) % x.size
    PROVE  Buffered(y) = Buffered(x) - n
<1>1. /\ x.size \in Nat \ {0} /\ x.r \in 0..x.size - 1 /\ x.w \in 0..x.size - 1
      /\ Buffered(x) = IF x.r <= x.w THEN x.w - x.r ELSE x.w - x.r + x.size
      /\ Buffered(x) \in 0..x.size - 1
  BY RingSpace DEF IsWindow
<1>2. n \in 0..x.size - 1
  BY <1>1
<1>3. (x.r + n) % x.size = IF x.r + n < x.size THEN x.r + n ELSE x.r + n - x.size
  BY <1>1, <1>2, ModForward
<1>4. Buffered(y) = IF y.r <= y.w THEN y.w - y.r ELSE y.w - y.r + y.size
  BY RingSpace
<1> QED
  BY <1>1, <1>2, <1>3, <1>4

\* read: the unread bytes go on where they were, and what waited is copied
\* into the space that was made.
LEMMA ReadRing ==
    ASSUME NEW s \in Seq(Nat), NEW x, RingOK(x, s), NEW n \in 1..Buffered(x),
           NEW y, y = AfterRead(x, n)
    PROVE  /\ RingOK(y, s)
           /\ y.size = x.size
           /\ Buffered(y) + y.l = Buffered(x) + x.l - n
<1>1. IsWindow(x) /\ x.size \in Sizes /\ x.l <= Len(s) /\ x.l \in Nat /\ Len(s) \in Nat
  BY DEF RingOK, IsWindow
<1>2. Buffered(x) \in 0..x.size - 1 /\ x.size \in Nat \ {0, 1} /\ n \in Nat /\ n > 0
  <2>1. Buffered(x) \in 0..x.size - 1
    BY <1>1, RingSpace
  <2>2. x.size \in Nat \ {0, 1}
    BY <1>1 DEF IsWindow
  <2> QED
    BY <2>1, <2>2
<1> DEFINE r == (x.r + n) % x.size
           z == [x EXCEPT !.r = r]
           z0 == [z EXCEPT !.l = 0]
           m == Len(s) - x.l
<1>3. r \in 0..x.size - 1
  <2>1. x.r + n \in Int
    BY <1>1, <1>2 DEF IsWindow
  <2> QED
    BY <1>2, <2>1
<1>4. /\ z = [size |-> x.size, buf |-> x.buf, r |-> r, w |-> x.w, l |-> x.l, o |-> x.o]
      /\ z0 = [size |-> x.size, buf |-> x.buf, r |-> r, w |-> x.w, l |-> 0, o |-> x.o]
  <2>1. x = [size |-> x.size, buf |-> x.buf, r |-> x.r, w |-> x.w, l |-> x.l, o |-> x.o]
    BY <1>1 DEF IsWindow
  <2> HIDE DEF r
  <2>2. z = [size |-> x.size, buf |-> x.buf, r |-> r, w |-> x.w, l |-> x.l, o |-> x.o]
    BY <2>1
  <2> HIDE DEF z
  <2>3. z0 = [size |-> x.size, buf |-> x.buf, r |-> r, w |-> x.w, l |-> 0, o |-> x.o]
    BY <2>2
  <2> QED
    BY <2>2, <2>3
<1>5. /\ IsWindow(z) /\ z.size = x.size /\ z.w = x.w /\ z.o = x.o /\ z.r = r /\ z.l = x.l
      /\ \A t, k : Held(z, t, k) = Held(x, t, k)
  <2> HIDE DEF z, r
  <2> QED
    BY <1>1, <1>3, <1>4, SameBytes
<1>6. /\ IsWindow(z0) /\ z0.size = x.size /\ z0.w = x.w /\ z0.o = x.o /\ z0.r = r /\ z0.l = 0
      /\ \A t, k : Held(z0, t, k) = Held(x, t, k)
  <2> HIDE DEF z0, z, r
  <2> DEFINE none == 0
  <2>1. none \in Nat
    OBVIOUS
  <2>2. z0 = [size |-> x.size, buf |-> x.buf, r |-> r, w |-> x.w, l |-> none, o |-> x.o]
    BY <1>4
  <2>3. /\ IsWindow(z0) /\ z0.size = x.size /\ z0.w = x.w /\ z0.o = x.o /\ z0.r = r
        /\ z0.l = none /\ \A t, k : Held(z0, t, k) = Held(x, t, k)
    <3> HIDE DEF none
    <3> QED
      BY <1>1, <1>3, <2>1, <2>2, SameBytes
  <2> QED
    BY <2>3
<1>7. Buffered(z) = Buffered(x) - n /\ Buffered(z0) = Buffered(x) - n
  <2> HIDE DEF z0, z
  <2> QED
    BY <1>1, <1>5, <1>6, ReadIndex
<1>8. y = IF x.l > 0 THEN CopyBytes(z0, x.l, x.o) ELSE z
  <2>1. z.l = x.l /\ z.o = x.o
    BY <1>5
  <2> QED
    BY <1>2, <2>1 DEF AfterRead, Continue
<1> HIDE DEF z0, z, r
<1>9. /\ \A d \in Near : d \in Held(x, s, m)
      /\ \A d \in 1..Buffered(x) : d \in Held(x, s, m)
  BY DEF RingOK
<1>10. \A d \in 1..Buffered(x) - n : d \in 1..Buffered(x)
  BY <1>2
<1>11. CASE x.l = 0
  <2>1. y = z
    BY <1>8, <1>11
  <2>2. \A d \in 1..Buffered(z) : d \in Held(x, s, m)
    BY <1>7, <1>9, <1>10
  <2>3. RingOK(z, s)
    BY <1>1, <1>5, <1>9, <1>11, <2>2 DEF RingOK
  <2> QED
    BY <1>2, <1>5, <1>7, <1>11, <2>1, <2>3
<1>12. CASE x.l > 0
  <2>1. y = CopyBytes(z0, x.l, x.o)
    BY <1>8, <1>12
  <2>2. x.l \in 1..z0.size - 1 /\ x.o \in Near /\ Repeats(s, m, x.l, x.o)
    <3>1. x.l <= x.size - 1 /\ x.o \in Near /\ Repeats(s, m, x.l, x.o)
      BY <1>12 DEF RingOK
    <3> QED
      BY <1>1, <1>2, <1>6, <1>12, <3>1
  <2>3. m \in Nat /\ m + x.l = Len(s)
    BY <1>1
  <2>4. /\ \A d \in Near : d \in Held(z0, s, m)
        /\ \A d \in 1..Buffered(z0) : d \in Held(z0, s, m)
    BY <1>6, <1>7, <1>9, <1>10
  <2> HIDE DEF m
  <2>5. /\ RingOK(y, s) /\ y.size = z0.size
        /\ Buffered(y) + y.l = Buffered(z0) + x.l
    BY <1>1, <1>6, <2>1, <2>2, <2>3, <2>4, CopyRing
  <2> QED
    BY <1>1, <1>2, <1>6, <1>7, <2>5
<1> QED
  BY <1>1, <1>11, <1>12

\* A stream that goes on from another.
Begins(t, s) == \A i \in 1..Len(s) : t[i] = s[i]

\* The stream t is s and a match.
GoesOn(s, t, len, off) ==
    /\ t \in Seq(Nat) /\ Len(t) = Len(s) + len
    /\ Begins(t, s)
    /\ Repeats(t, Len(s), len, off)

\* What a longer stream begins with does not change.
LEMMA HeldLonger ==
    ASSUME NEW x, IsWindow(x), NEW s \in Seq(Nat), NEW t \in Seq(Nat),
           Len(s) <= Len(t), Begins(t, s)
    PROVE  Held(x, t, Len(s)) = Held(x, s, Len(s))
<1>1. ASSUME NEW d \in 1..x.size PROVE At(t, Len(s) - d + 1) = At(s, Len(s) - d + 1)
  <2> DEFINE i == Len(s) - d + 1
  <2>1. i \in Int /\ i <= Len(s)
    BY DEF IsWindow
  <2> HIDE DEF i
  <2>2. At(t, i) = At(s, i)
    BY <2>1 DEF At, Begins
  <2> QED
    BY <2>2 DEF i
<1> QED
  BY <1>1 DEF Held

\* A match repeats the bytes off before.
LEMMA MatchStream ==
    ASSUME NEW s \in Seq(Nat), NEW len \in Nat, NEW off \in Nat \ {0},
           NEW t, t = s \o Matched(s, len, off)
    PROVE  GoesOn(s, t, len, off)
<1>4. \A k \in 1..len : (k - 1) % off \in 0..off - 1
  OBVIOUS
<1>5. Matched(s, len, off) \in Seq(Nat) /\ Len(Matched(s, len, off)) = len
  <2>1. ASSUME NEW k \in 1..len
        PROVE  (LET i == Len(s) - off + 1 + ((k - 1) % off) IN IF i > 0 THEN s[i] ELSE 0) \in Nat
    <3> DEFINE i == Len(s) - off + 1 + ((k - 1) % off)
    <3>1. i \in Int /\ i <= Len(s)
      BY <1>4
    <3> HIDE DEF i
    <3>2. (IF i > 0 THEN s[i] ELSE 0) \in Nat
      BY <3>1
    <3> QED
      BY <3>2 DEF i
  <2> QED
    BY <2>1 DEF Matched
<1>6. /\ t \in Seq(Nat) /\ Len(t) = Len(s) + len
      /\ \A i \in 1..Len(s) : t[i] = s[i]
      /\ \A k \in 1..len : t[Len(s) + k] = Matched(s, len, off)[k]
  <2> DEFINE e == Matched(s, len, off)
  <2> HIDE DEF e
  <2>1. e \in Seq(Nat) /\ Len(e) = len /\ t = s \o e
    BY <1>5 DEF e
  <2>2. t \in Seq(Nat) /\ Len(t) = Len(s) + len
    BY <2>1, ConcatProperties, Zenon
  <2>3. \A i \in 1..Len(s) : t[i] = s[i]
    BY <2>1
  <2>4. \A k \in 1..len : t[Len(s) + k] = e[k]
    BY <2>1
  <2> QED
    BY <2>2, <2>3, <2>4 DEF e
<1>7. Repeats(t, Len(s), len, off)
  <2> SUFFICES ASSUME NEW k \in 0..len - 1
               PROVE  t[Len(s) + k + 1] = At(t, Len(s) - off + 1 + (k % off))
    BY DEF Repeats
  <2> DEFINE j == k + 1
             i == Len(s) - off + 1 + (k % off)
  <2>1. j \in 1..len /\ j - 1 = k /\ Len(s) + j = Len(s) + k + 1
    OBVIOUS
  <2>2. t[Len(s) + j] = Matched(s, len, off)[j]
    <3> HIDE DEF j
    <3> QED
      BY <1>6, <2>1
  <2>3. Matched(s, len, off)[j] = IF i > 0 THEN s[i] ELSE 0
    <3>1. Matched(s, len, off)[j]
             = LET e == Len(s) - off + 1 + ((j - 1) % off) IN IF e > 0 THEN s[e] ELSE 0
      <4> HIDE DEF j
      <4> QED
        BY <2>1 DEF Matched
    <3> QED
      BY <2>1, <3>1
  <2>4. k % off \in 0..off - 1
    OBVIOUS
  <2>5. i \in Int /\ i <= Len(s)
    BY <2>4
  <2>6. (IF i > 0 THEN s[i] ELSE 0) = At(t, i)
    <3> HIDE DEF i
    <3> QED
      BY <1>6, <2>5 DEF At
  <2> QED
    BY <2>1, <2>2, <2>3, <2>6
<1> QED
  BY <1>6, <1>7 DEF Begins, GoesOn

\* A stream goes on with a match: the window keeps to it.
LEMMA MatchRing ==
    ASSUME NEW s \in Seq(Nat), NEW x, RingOK(x, s), Available(x) > 0,
           NEW len \in Lengths, NEW off \in Distances,
           NEW t, GoesOn(s, t, len, off),
           NEW y, y = CopyBytes(x, len, off)
    PROVE  /\ RingOK(y, t)
           /\ y.size = x.size /\ x.l = 0
           /\ Buffered(y) + y.l = Buffered(x) + len
<1>1. IsWindow(x) /\ x.size \in Sizes
  BY DEF RingOK
<1>2. len \in 1..x.size - 1 /\ off \in Near /\ off \in Nat \ {0} /\ x.size \in Nat
  <2>1. len \in 1..x.size - 1 /\ off \in 1..x.size /\ x.size \in Nat
    BY <1>1, ReaderAssumption
  <2>2. \A size \in Sizes : size \in Nat /\ off \in 1..size
    BY ReaderAssumption
  <2> QED
    BY <2>1, <2>2 DEF Near
<1>3. x.l = 0
  <2>1. Available(x) = x.size - 1 - Buffered(x) /\ Buffered(x) \in 0..x.size - 1
    BY <1>1, RingSpace
  <2>2. x.l \in Nat
    BY <1>1 DEF IsWindow
  <2> QED
    BY <1>2, <2>1, <2>2 DEF RingOK
<1>8. /\ \A d \in Near : d \in Held(x, t, Len(s))
      /\ \A d \in 1..Buffered(x) : d \in Held(x, t, Len(s))
  <2>1. Held(x, t, Len(s)) = Held(x, s, Len(s))
    <3>1. Len(s) <= Len(t)
      BY <1>2 DEF GoesOn
    <3> QED
      BY <1>1, <3>1, HeldLonger DEF GoesOn
  <2>2. Len(s) - x.l = Len(s)
    BY <1>3
  <2> QED
    BY <2>1, <2>2 DEF RingOK
<1>9. /\ RingOK(y, t) /\ y.size = x.size
      /\ Buffered(y) + y.l = Buffered(x) + len
  <2> DEFINE m == Len(s)
  <2>1. m \in Nat /\ m + len = Len(t)
    BY <1>2 DEF GoesOn
  <2> HIDE DEF m
  <2>2. /\ \A d \in Near : d \in Held(x, t, m)
        /\ \A d \in 1..Buffered(x) : d \in Held(x, t, m)
        /\ Repeats(t, m, len, off)
    BY <1>8 DEF m, GoesOn
  <2>3. t \in Seq(Nat) /\ len \in 1..x.size - 1 /\ off \in Near
    BY <1>2 DEF GoesOn
  <2> QED
    BY <1>1, <1>3, <2>1, <2>2, <2>3, CopyRing
<1> QED
  BY <1>3, <1>9

\* The k-th place after the read index, from both sides.
LEMMA SamePlace ==
    ASSUME NEW n \in Nat \ {0}, NEW r \in 0..n - 1, NEW w \in 0..n - 1,
           NEW b \in 0..n - 1, NEW k \in 1..b,
           b = (IF r <= w THEN w - r ELSE w - r + n)
    PROVE  /\ r + k - 1 \in Int /\ b - k + 1 \in (-n)..n /\ b - k + 1 \in 1..b
           /\ (r + k - 1) % n = IF r + k - 1 < n THEN r + k - 1 ELSE r + k - 1 - n
           /\ (w - (b - k + 1)) % n = IF w < b - k + 1 THEN w - (b - k + 1) + n
                                      ELSE w - (b - k + 1)
           /\ (r + k - 1) % n = (w - (b - k + 1)) % n
<1> DEFINE e == k - 1
           c == w - (b - k + 1)
<1>1. b \in Int /\ k \in Int /\ e \in 0..n - 1 /\ c \in Int /\ -n <= c /\ c < n
      /\ r + e = r + k - 1
  OBVIOUS
<1> HIDE DEF e, c
<1>2. (r + e) % n = IF r + e < n THEN r + e ELSE r + e - n
  BY <1>1, ModForward
<1>3. c \in (-n)..(2 * n - 1)
  BY <1>1
<1>4. c % n = IF c < 0 THEN c + n ELSE IF c < n THEN c ELSE c - n
  BY <1>3, ModNear
<1>5. c = w - (b - k + 1)
  BY DEF c
<1>6. (IF r + k - 1 < n THEN r + k - 1 ELSE r + k - 1 - n)
         = (IF w < b - k + 1 THEN w - (b - k + 1) + n ELSE w - (b - k + 1))
  OBVIOUS
<1>7. c % n = IF w < b - k + 1 THEN w - (b - k + 1) + n ELSE w - (b - k + 1)
  BY <1>1, <1>4, <1>5
<1>8. r + k - 1 \in Int /\ b - k + 1 \in (-n)..n /\ b - k + 1 \in 1..b
  OBVIOUS
<1> QED
  BY <1>1, <1>2, <1>6, <1>7, <1>8 DEF c

LEMMA ReadPlace ==
    ASSUME NEW x, IsWindow(x), NEW k \in 1..Buffered(x)
    PROVE  /\ (x.r + k - 1) % x.size = (x.w - (Buffered(x) - k + 1)) % x.size
           /\ (x.r + k - 1) % x.size \in 0..x.size - 1
           /\ Buffered(x) - k + 1 \in 1..Buffered(x)
<1>1. /\ x.size \in Nat \ {0} /\ x.r \in 0..x.size - 1 /\ x.w \in 0..x.size - 1
      /\ Buffered(x) = (IF x.r <= x.w THEN x.w - x.r ELSE x.w - x.r + x.size)
      /\ Buffered(x) \in 0..x.size - 1
  BY RingSpace DEF IsWindow
<1>2. /\ x.r + k - 1 \in Int
      /\ Buffered(x) - k + 1 \in 1..Buffered(x)
      /\ (x.r + k - 1) % x.size = (x.w - (Buffered(x) - k + 1)) % x.size
  <2> DEFINE b == Buffered(x)
             n == x.size
             r == x.r
             w == x.w
  <2> HIDE DEF b, n, r, w
  <2>1. /\ n \in Nat \ {0} /\ r \in 0..n - 1 /\ w \in 0..n - 1 /\ b \in 0..n - 1
        /\ k \in 1..b /\ b = (IF r <= w THEN w - r ELSE w - r + n)
    BY <1>1 DEF b, n, r, w
  <2>2. /\ r + k - 1 \in Int
        /\ b - k + 1 \in 1..b
        /\ (r + k - 1) % n = (w - (b - k + 1)) % n
    BY <2>1, SamePlace
  <2> QED
    BY <2>2 DEF b, n, r, w
<1> QED
  BY <1>1, <1>2

\* The n bytes that are read are the stream's, in its order.
LEMMA UnreadBytes ==
    ASSUME NEW x, IsWindow(x), NEW s, NEW m \in Nat, Buffered(x) <= m,
           \A d \in 1..Buffered(x) : d \in Held(x, s, m),
           NEW n \in 0..Buffered(x)
    PROVE  /\ Unread(x, n) \in Seq(Nat) /\ Len(Unread(x, n)) = n
           /\ \A k \in 1..n : Unread(x, n)[k] = s[m - Buffered(x) + k]
<1>1. x.buf \in [0..x.size - 1 -> Nat] /\ x.size \in Nat \ {0} /\ Buffered(x) \in 0..x.size - 1
  BY RingSpace DEF IsWindow
<1>2. ASSUME NEW k \in 1..n
      PROVE  /\ x.buf[(x.r + k - 1) % x.size] \in Nat
             /\ x.buf[(x.r + k - 1) % x.size] = s[m - Buffered(x) + k]
  <2> DEFINE b == Buffered(x)
             d == b - k + 1
             i == (x.r + k - 1) % x.size
  <2>1. k \in 1..b
    BY <1>1
  <2>2. i = (x.w - d) % x.size /\ i \in 0..x.size - 1 /\ d \in 1..b
    BY <2>1, ReadPlace
  <2>3. d \in Held(x, s, m)
    BY <2>2
  <2> HIDE DEF i
  <2>4. x.buf[i] \in Nat /\ x.buf[i] = At(s, m - d + 1)
    BY <1>1, <2>2, <2>3 DEF Held
  <2>5. m - d + 1 = m - b + k /\ m - b + k > 0
    BY <1>1, <2>1
  <2>6. At(s, m - d + 1) = s[m - b + k]
    <3> HIDE DEF d, b
    <3> QED
      BY <2>5 DEF At
  <2> QED
    BY <2>4, <2>6 DEF i
<1>3. n \in Nat
  BY <1>1
<1> QED
  BY <1>2, <1>3 DEF Unread

\* Places behind the write index before and after it moves on.
LEMMA WritePlace ==
    ASSUME NEW n \in Nat \ {0, 1}, NEW w \in 0..n - 1, NEW d \in 1..n
    PROVE  /\ d = 1 => (((w + 1) % n) - d) % n = w
           /\ d > 1 => /\ (((w + 1) % n) - d) % n = (w - (d - 1)) % n
                       /\ (w - (d - 1)) % n \in 0..n - 1
                       /\ (w - (d - 1)) % n # w
<1> DEFINE v == (w + 1) % n
           a == v - d
           b == w - (d - 1)
<1>1. v = IF w + 1 < n THEN w + 1 ELSE w + 1 - n
  <2> DEFINE one == 1
  <2>1. one \in 0..n - 1
    OBVIOUS
  <2>2. (w + one) % n = IF w + one < n THEN w + one ELSE w + one - n
    <3> HIDE DEF one
    <3> QED
      BY <2>1, ModForward
  <2> QED
    BY <2>2
<1> HIDE DEF v
<1>2. a \in (-n)..(2 * n - 1) /\ b \in (-n)..(2 * n - 1) /\ b < n /\ a < n
  BY <1>1
<1>3. a % n = IF a < 0 THEN a + n ELSE IF a < n THEN a ELSE a - n
  <2> HIDE DEF a
  <2> QED
    BY <1>2, ModNear
<1>4. b % n = IF b < 0 THEN b + n ELSE IF b < n THEN b ELSE b - n
  <2> HIDE DEF b
  <2> QED
    BY <1>2, ModNear
<1>5. d = 1 => a % n = w
  BY <1>1, <1>2, <1>3
<1>6. d > 1 => a % n = b % n /\ b % n \in 0..n - 1 /\ b % n # w
  BY <1>1, <1>2, <1>3, <1>4
<1> QED
  BY <1>5, <1>6 DEF v

\* writeByte: one more byte of the stream.
LEMMA WriteRing ==
    ASSUME NEW s \in Seq(Nat), NEW x, RingOK(x, s), Available(x) > 0, NEW c \in Nat,
           NEW y, y = WriteByte(x, c)
    PROVE  /\ RingOK(y, Append(s, c))
           /\ y.size = x.size /\ x.l = 0 /\ y.l = 0
           /\ Buffered(y) = Buffered(x) + 1
<1> DEFINE t == Append(s, c)
<1>1. /\ IsWindow(x) /\ x.size \in Sizes
      /\ x.size \in Nat \ {0, 1} /\ x.r \in 0..x.size - 1 /\ x.w \in 0..x.size - 1
      /\ x.l \in Nat /\ x.o \in Nat /\ x.buf \in [0..x.size - 1 -> Nat]
      /\ x = [size |-> x.size, buf |-> x.buf, r |-> x.r, w |-> x.w, l |-> x.l, o |-> x.o]
  BY DEF RingOK, IsWindow
<1>2. /\ Buffered(x) = IF x.r <= x.w THEN x.w - x.r ELSE x.w - x.r + x.size
      /\ Buffered(x) \in 0..x.size - 1
      /\ Available(x) = x.size - 1 - Buffered(x)
  BY <1>1, RingSpace
<1>3. x.l = 0 /\ Buffered(x) + 1 <= x.size - 1
  <2>1. Buffered(x) < x.size - 1
    BY <1>1, <1>2
  <2>2. x.l > 0 => Buffered(x) = x.size - 1
    BY DEF RingOK
  <2>3. Buffered(x) \in Int /\ x.size \in Int /\ x.l \in Nat
    BY <1>1, <1>2
  <2> QED
    BY <2>1, <2>2, <2>3
<1> DEFINE v == (x.w + 1) % x.size
           buf == [x.buf EXCEPT ![x.w] = c]
<1>4. v = (IF x.w + 1 < x.size THEN x.w + 1 ELSE x.w + 1 - x.size) /\ v \in 0..x.size - 1
  <2> DEFINE one == 1
  <2>1. one \in 0..x.size - 1
    BY <1>1
  <2>2. (x.w + one) % x.size = IF x.w + one < x.size THEN x.w + one ELSE x.w + one - x.size
    <3> HIDE DEF one
    <3> QED
      BY <1>1, <2>1, ModForward
  <2> QED
    BY <1>1, <2>2
<1>5. buf \in [0..x.size - 1 -> Nat] /\ buf \in Bufs
  BY <1>1 DEF Bufs
<1>6. y = [size |-> x.size, buf |-> buf, r |-> x.r, w |-> v, l |-> x.l, o |-> x.o]
  <2>1. y = [x EXCEPT !.buf = buf, !.w = v]
    BY DEF WriteByte, Forward
  <2> HIDE DEF buf, v
  <2> QED
    BY <1>1, <2>1
<1> HIDE DEF v
<1>7. /\ y.size = x.size /\ y.r = x.r /\ y.w = v /\ y.l = x.l /\ y.o = x.o /\ y.buf = buf
      /\ IsWindow(y)
  <2> HIDE DEF buf
  <2> QED
    BY <1>1, <1>4, <1>5, <1>6 DEF IsWindow
<1>8. Buffered(y) = Buffered(x) + 1
  <2>1. Buffered(y) = IF y.r <= y.w THEN y.w - y.r ELSE y.w - y.r + y.size
    BY <1>7, RingSpace
  <2>2. y.size = x.size /\ y.r = x.r /\ y.w = v
    BY <1>7
  <2> DEFINE one == 1
  <2>3. /\ x.size \in Nat \ {0} /\ x.r \in 0..x.size - 1 /\ x.w \in 0..x.size - 1
        /\ v \in Int /\ one \in Nat
        /\ v = (IF x.w + one < x.size THEN x.w + one ELSE x.w + one - x.size)
        /\ (IF x.r <= x.w THEN x.w - x.r ELSE x.w - x.r + x.size) + one <= x.size - 1
    BY <1>1, <1>2, <1>3, <1>4
  <2>4. (IF x.r <= v THEN v - x.r ELSE v - x.r + x.size)
           = (IF x.r <= x.w THEN x.w - x.r ELSE x.w - x.r + x.size) + one
    <3> DEFINE n == x.size
               r == x.r
               w == x.w
    <3> HIDE DEF one, n, r, w
    <3>1. /\ n \in Nat \ {0} /\ r \in 0..n - 1 /\ w \in 0..n - 1
          /\ v \in Int /\ one \in Nat
          /\ v = (IF w + one < n THEN w + one ELSE w + one - n)
          /\ (IF r <= w THEN w - r ELSE w - r + n) + one <= n - 1
      BY <2>3 DEF n, r, w
    <3>2. (IF r <= v THEN v - r ELSE v - r + n) = (IF r <= w THEN w - r ELSE w - r + n) + one
      BY <3>1, MoreBetween
    <3> QED
      BY <3>2 DEF n, r, w
  <2> QED
    BY <1>2, <2>1, <2>2, <2>4 DEF one
<1>9. /\ t \in Seq(Nat) /\ Len(t) = Len(s) + 1 /\ t[Len(s) + 1] = c
      /\ \A i \in 1..Len(s) : t[i] = s[i]
  OBVIOUS
<1> HIDE DEF t
<1> DEFINE m == Len(s)
<1>10. m \in Nat
  OBVIOUS
<1>11. \A i \in Int : i <= m => At(t, i) = At(s, i)
  BY <1>9 DEF At
<1>12. At(t, m + 1) = c
  BY <1>9, <1>10 DEF At
<1>13. \A d \in Near : d \in Nat \ {0} /\ d <= x.size
  BY <1>1 DEF Near
<1>14. \A d \in Near : d \in Held(x, s, m)
  BY <1>1, <1>3, <1>10 DEF RingOK
<1>15. \A d \in 1..Buffered(x) : d \in Held(x, s, m)
  BY <1>1, <1>3, <1>10 DEF RingOK
<1> HIDE DEF m
<1>16. 1 \in Held(y, t, m + 1)
  <2>1. (v - 1) % x.size = x.w
    <3> DEFINE d == 1
    <3>1. d \in 1..x.size
      BY <1>1
    <3>2. (((x.w + 1) % x.size) - d) % x.size = x.w
      BY <1>1, <3>1, WritePlace
    <3> QED
      BY <3>2 DEF v
  <2>2. buf[x.w] = c
    BY <1>1
  <2> DEFINE d == 1
             i == (v - d) % x.size
  <2>3. (m + 1) - d + 1 = m + 1 /\ d \in 1..x.size
    BY <1>1, <1>10
  <2>4. buf[i] = c
    BY <2>1, <2>2
  <2> HIDE DEF d, buf
  <2>5. buf[i] = At(t, (m + 1) - d + 1)
    BY <1>12, <2>3, <2>4
  <2>6. d \in Held(y, t, m + 1)
    BY <1>7, <2>3, <2>5 DEF Held
  <2> QED
    BY <2>6 DEF d
<1>17. ASSUME NEW d \in Held(x, s, m), d + 1 <= x.size
       PROVE  d + 1 \in Held(y, t, m + 1)
  <2> DEFINE e == d + 1
             i == (v - e) % x.size
  <2>1. d \in 1..x.size /\ x.buf[(x.w - d) % x.size] = At(s, m - d + 1)
    BY DEF Held
  <2>2. e \in 1..x.size /\ e > 1 /\ e - 1 = d
    <3> DEFINE n == x.size
    <3>1. n \in Nat /\ d \in 1..n /\ d + 1 <= n
      BY <1>1, <1>17, <2>1
    <3> HIDE DEF n
    <3>2. e \in 1..n /\ e > 1 /\ e - 1 = d
      BY <3>1
    <3> QED
      BY <3>2 DEF n
  <2>3. i = (x.w - (e - 1)) % x.size /\ i \in 0..x.size - 1 /\ i # x.w
    <3> HIDE DEF e
    <3> QED
      BY <1>1, <2>2, WritePlace DEF v
  <2>4. i = (x.w - d) % x.size
    BY <2>2, <2>3
  <2>5. buf[i] = At(s, m - d + 1)
    <3> HIDE DEF i
    <3> QED
      BY <1>1, <2>1, <2>3, <2>4
  <2>6. At(s, m - d + 1) = At(t, (m + 1) - e + 1)
    <3>1. (m + 1) - e + 1 = m - d + 1 /\ m - d + 1 \in Int /\ m - d + 1 <= m
      BY <1>10, <2>1
    <3> QED
      BY <1>11, <3>1
  <2> HIDE DEF e, buf
  <2>7. e \in Held(y, t, m + 1)
    BY <1>7, <2>2, <2>5, <2>6 DEF Held
  <2> QED
    BY <2>7 DEF e
<1>18. ASSUME NEW d \in Nat \ {0}, d <= x.size, d > 1 => d - 1 \in Held(x, s, m)
       PROVE  d \in Held(y, t, m + 1)
  <2>1. CASE d = 1
    BY <1>16, <2>1
  <2>2. CASE d > 1
    <3> DEFINE e == d - 1
    <3>1. e \in Held(x, s, m) /\ e + 1 = d
      BY <1>18, <2>2
    <3> HIDE DEF e
    <3> QED
      BY <1>17, <1>18, <3>1
  <2> QED
    BY <2>1, <2>2
<1>19. ASSUME NEW d \in Near PROVE d \in Held(y, t, m + 1)
  <2>1. d \in Nat \ {0} /\ d <= x.size
    BY <1>13
  <2>2. ASSUME d > 1 PROVE d - 1 \in Near
    <3>1. ASSUME NEW size \in Sizes PROVE d - 1 <= size
      <4>1. size \in Nat /\ d <= size
        BY ReaderAssumption DEF Near
      <4> QED
        BY <2>1, <4>1
    <3> QED
      BY <2>1, <2>2, <3>1 DEF Near
  <2> QED
    BY <1>14, <1>18, <2>1, <2>2
<1>20. ASSUME NEW d \in 1..Buffered(y) PROVE d \in Held(y, t, m + 1)
  <2>1. d \in Nat \ {0} /\ d <= x.size /\ (d > 1 => d - 1 \in 1..Buffered(x))
    <3> DEFINE b == Buffered(x)
    <3>1. b \in Nat /\ b + 1 <= x.size - 1 /\ x.size \in Nat /\ d \in 1..b + 1
      BY <1>1, <1>2, <1>3, <1>8
    <3> HIDE DEF b
    <3>2. d \in Nat \ {0} /\ d <= x.size /\ (d > 1 => d - 1 \in 1..b)
      BY <3>1
    <3> QED
      BY <3>2 DEF b
  <2> QED
    BY <1>15, <1>18, <2>1
<1>21. Len(t) - y.l = m + 1 /\ y.l <= Len(t) /\ y.l = 0
  BY <1>3, <1>7, <1>9, <1>10 DEF m
<1>22. RingOK(y, t)
  BY <1>1, <1>7, <1>19, <1>20, <1>21 DEF RingOK
<1> QED
  BY <1>3, <1>7, <1>8, <1>21, <1>22 DEF t

LEMMA WindowOf ==
    ASSUME NEW n \in Nat \ {0, 1}, NEW buf \in [0..n - 1 -> Nat],
           NEW r \in 0..n - 1, NEW w \in 0..n - 1, NEW l \in Nat, NEW o \in Nat,
           NEW y, y.size = n, y.buf = buf, y.r = r, y.w = w, y.l = l, y.o = o,
           y = [size |-> y.size, buf |-> y.buf, r |-> y.r, w |-> y.w, l |-> y.l, o |-> y.o]
    PROVE  IsWindow(y)
<1>1. buf \in Bufs
  BY DEF Bufs
<1>2. r \in Nat /\ w \in Nat
  OBVIOUS
<1> QED
  BY <1>1, <1>2 DEF IsWindow

\* A window with the indices at one place has nothing to read.
LEMMA AtOnePlace ==
    ASSUME NEW x, IsWindow(x), x.r = x.w
    PROVE  Buffered(x) = 0
<1>1. x.size \in Nat \ {0} /\ x.r \in 0..x.size - 1 /\ x.w \in 0..x.size - 1
  BY DEF IsWindow
<1>2. Buffered(x) = IF x.r <= x.w THEN x.w - x.r ELSE x.w - x.r + x.size
  BY RingSpace
<1> QED
  BY <1>1, <1>2

\* The window a file begins with: cleared, or that of the file before.
Cleared(x, size) == Reset(x, size, TRUE)
Continued(x, size) == Reset(x, size, FALSE)

\* reset for another file: a window of zeros.
LEMMA ClearRing ==
    ASSUME NEW x, x = Fresh \/ (IsWindow(x) /\ x.size \in Sizes), x.l = 0,
           NEW size \in Sizes,
           NEW y, y = Cleared(x, size)
    PROVE  RingOK(y, <<>>) /\ y.l = 0 /\ Buffered(y) = 0
<1> DEFINE n == IF size > x.size THEN size ELSE x.size
           buf == [i \in 0..n - 1 |-> 0]
<1>1. size \in Nat \ {0, 1} /\ x.size \in Nat
  BY ReaderAssumption DEF Fresh, IsWindow
<1>2. n \in Sizes /\ n \in Nat \ {0, 1}
  <2>1. x.size \in Sizes \/ x.size = 0
    BY DEF Fresh
  <2>2. n \in Sizes
    BY <1>1, <2>1
  <2> QED
    BY <2>2, ReaderAssumption
<1> HIDE DEF n
<1>3. buf \in [0..n - 1 -> Nat]
  BY <1>2
<1>4. /\ x = [size |-> x.size, buf |-> x.buf, r |-> x.r, w |-> x.w, l |-> x.l, o |-> x.o]
      /\ DOMAIN x.buf = 0..x.size - 1 /\ x.o \in Nat
  BY DEF Fresh, IsWindow
<1> HIDE DEF buf
<1>5. y = [size |-> n, buf |-> buf, r |-> 0, w |-> 0, l |-> x.l, o |-> x.o]
  <2>1. CASE size > x.size
    <3>1. n = size
      BY <2>1 DEF n
    <3> QED
      BY <1>4, <2>1, <3>1 DEF Cleared, Reset, buf
  <2>2. CASE ~ (size > x.size)
    <3>1. n = x.size
      BY <2>2 DEF n
    <3> QED
      BY <1>4, <2>2, <3>1 DEF Cleared, Reset, buf
  <2> QED
    BY <2>1, <2>2
<1>6. /\ y.size = n /\ y.buf = buf /\ y.r = 0 /\ y.w = 0 /\ y.l = 0 /\ y.o = x.o
      /\ IsWindow(y)
  <2> DEFINE none == 0
  <2>1. none \in 0..n - 1 /\ x.l \in Nat /\ x.o \in Nat
    BY <1>2, <1>4
  <2>2. y = [size |-> n, buf |-> buf, r |-> none, w |-> none, l |-> x.l, o |-> x.o]
    BY <1>5
  <2>3. /\ y.size = n /\ y.buf = buf /\ y.r = none /\ y.w = none /\ y.l = x.l /\ y.o = x.o
        /\ IsWindow(y)
    <3> HIDE DEF none
    <3>1. /\ y.size = n /\ y.buf = buf /\ y.r = none /\ y.w = none /\ y.l = x.l /\ y.o = x.o
          /\ y = [size |-> y.size, buf |-> y.buf, r |-> y.r, w |-> y.w, l |-> y.l, o |-> y.o]
      BY <2>2
    <3>2. IsWindow(y)
      BY <1>2, <1>3, <2>1, <3>1, WindowOf
    <3> QED
      BY <3>1, <3>2
  <2> QED
    BY <2>3
<1>7. Buffered(y) = 0
  BY <1>6, AtOnePlace
<1>8. ASSUME NEW d \in 1..n PROVE d \in Held(y, <<>>, 0)
  <2>1. (y.w - d) % y.size \in 0..n - 1
    <3> DEFINE e == 0 - d
    <3>1. e \in Int
      BY <1>2
    <3> HIDE DEF e
    <3>2. e % n \in 0..n - 1
      BY <1>2, <3>1
    <3> QED
      BY <1>6, <3>2 DEF e
  <2>2. y.buf[(y.w - d) % y.size] = 0
    BY <1>6, <2>1 DEF buf
  <2>3. At(<<>>, 0 - d + 1) = 0
    <3>1. ~ (0 - d + 1 > 0)
      BY <1>2
    <3> QED
      BY <3>1 DEF At
  <2> QED
    BY <1>6, <2>2, <2>3 DEF Held
<1>9. ASSUME NEW d \in Near PROVE d \in Held(y, <<>>, 0)
  <2>1. d \in Nat \ {0} /\ d <= n
    BY <1>2 DEF Near
  <2>2. d \in 1..n
    BY <1>2, <2>1
  <2> QED
    BY <1>8, <2>2
<1>10. Len(<<>>) - y.l = 0 /\ y.l <= Len(<<>>) /\ ~ (y.l > 0)
  BY <1>6
<1>11. 1..Buffered(y) = {}
  BY <1>7
<1> QED
  BY <1>2, <1>6, <1>7, <1>9, <1>10, <1>11 DEF RingOK

\* reset for a file that continues the stream: nothing is unread, and what the
\* next file may repeat is still there.
LEMMA KeepRing ==
    ASSUME NEW s \in Seq(Nat), NEW x, RingOK(x, s), x.l = 0, NEW size \in Sizes,
           NEW y, y = Continued(x, size)
    PROVE  RingOK(y, s) /\ y.l = 0 /\ Buffered(y) = 0
<1> DEFINE m == Len(s)
<1>1. /\ IsWindow(x) /\ x.size \in Sizes
      /\ x.size \in Nat \ {0, 1} /\ x.w \in 0..x.size - 1 /\ x.o \in Nat
      /\ x.buf \in [0..x.size - 1 -> Nat]
      /\ x = [size |-> x.size, buf |-> x.buf, r |-> x.r, w |-> x.w, l |-> x.l, o |-> x.o]
  BY DEF RingOK, IsWindow
<1>2. size \in Nat \ {0, 1}
  BY ReaderAssumption
<1>3. m \in Nat
  OBVIOUS
<1>4. \A d \in Near : d \in Held(x, s, m)
  BY <1>3 DEF RingOK
<1> HIDE DEF m
<1>5. SUFFICES /\ IsWindow(y) /\ y.size \in Sizes /\ y.r = y.w /\ y.l = 0
               /\ \A d \in Near : d \in Held(y, s, m)
  <2>1. Buffered(y) = 0
    BY <1>5, AtOnePlace
  <2>2. y.l = 0
    BY <1>5
  <2>3. Len(s) - y.l = m /\ y.l <= Len(s) /\ ~ (y.l > 0)
    <3> HIDE <1>5
    <3> QED
      BY <1>3, <2>2 DEF m
  <2>4. 1..Buffered(y) = {}
    BY <2>1
  <2>5. RingOK(y, s)
    BY <1>5, <2>3, <2>4 DEF RingOK
  <2> QED
    BY <1>5, <2>1, <2>5
<1>6. CASE ~ (size > x.size)
  <2>1. y = [size |-> x.size, buf |-> x.buf, r |-> x.w, w |-> x.w, l |-> x.l, o |-> x.o]
    BY <1>1, <1>6 DEF Continued, Reset
  <2>2. x.l \in Nat
    OBVIOUS
  <2>3. /\ IsWindow(y) /\ y.size = x.size /\ y.w = x.w /\ y.r = x.w /\ y.l = x.l
        /\ \A t, k : Held(y, t, k) = Held(x, t, k)
    <3> DEFINE w == x.w
               l == x.l
    <3>1. /\ w \in 0..x.size - 1 /\ l \in Nat
          /\ y = [size |-> x.size, buf |-> x.buf, r |-> w, w |-> x.w, l |-> l, o |-> x.o]
      BY <1>1, <2>1, <2>2
    <3> HIDE DEF w, l
    <3>2. /\ IsWindow(y) /\ y.size = x.size /\ y.w = x.w /\ y.r = w /\ y.l = l
          /\ \A t, k : Held(y, t, k) = Held(x, t, k)
      BY <1>1, <3>1, SameBytes
    <3> QED
      BY <3>2 DEF w, l
  <2> QED
    BY <1>1, <1>4, <2>3
<1>7. CASE size > x.size
  <2> DEFINE buf == [i \in 0..size - 1 |->
                        IF i < x.size THEN x.buf[(x.w + i) % x.size] ELSE 0]
  <2>1. y = [size |-> size, buf |-> buf, r |-> x.size, w |-> x.size, l |-> x.l, o |-> x.o]
    BY <1>1, <1>7 DEF Continued, Reset
  <2>2. ASSUME NEW i \in 0..size - 1, i < x.size
        PROVE  (x.w + i) % x.size \in 0..x.size - 1 /\ buf[i] = x.buf[(x.w + i) % x.size]
    <3>1. x.w + i \in Int
      BY <1>1
    <3> DEFINE e == x.w + i
    <3> HIDE DEF e
    <3>2. e % x.size \in 0..x.size - 1
      BY <1>1, <3>1 DEF e
    <3> QED
      BY <2>2, <3>2 DEF e
  <2>3. buf \in [0..size - 1 -> Nat]
    <3>1. ASSUME NEW i \in 0..size - 1
          PROVE  (IF i < x.size THEN x.buf[(x.w + i) % x.size] ELSE 0) \in Nat
      BY <1>1, <2>2
    <3> QED
      BY <3>1
  <2> HIDE DEF buf
  <2>4. x.size \in 0..size - 1
    BY <1>1, <1>2, <1>7
  <2>5. /\ y.size = size /\ y.buf = buf /\ y.r = x.size /\ y.w = x.size /\ y.l = 0 /\ y.o = x.o
        /\ IsWindow(y)
    <3> DEFINE n == x.size
               l == x.l
    <3>1. /\ n \in 0..size - 1 /\ l \in Nat /\ l = 0 /\ x.o \in Nat
          /\ y = [size |-> size, buf |-> buf, r |-> n, w |-> n, l |-> l, o |-> x.o]
      BY <1>1, <2>1, <2>4
    <3> HIDE DEF n, l
    <3>2. /\ y.size = size /\ y.buf = buf /\ y.r = n /\ y.w = n /\ y.l = l /\ y.o = x.o
          /\ y = [size |-> y.size, buf |-> y.buf, r |-> y.r, w |-> y.w, l |-> y.l, o |-> y.o]
      BY <3>1
    <3>3. IsWindow(y)
      BY <1>2, <2>3, <3>1, <3>2, WindowOf
    <3> QED
      BY <3>1, <3>2, <3>3 DEF n
  <2>6. ASSUME NEW d \in Near PROVE d \in Held(y, s, m)
    <3> DEFINE i == x.size - d
    <3>1. d \in Nat \ {0} /\ d <= x.size
      BY <1>1 DEF Near
    <3>2. i \in 0..size - 1 /\ i < x.size /\ d \in 1..size
      BY <1>1, <1>2, <1>7, <3>1
    <3>3. (x.size - d) % size = i
      <4> HIDE DEF i
      <4>1. i % size = i
        BY <1>2, <3>2, ModSmall
      <4> QED
        BY <4>1 DEF i
    <3>4. (x.w + i) % x.size = (x.w - d) % x.size
      <4> DEFINE e == x.w + i
      <4>1. e \in Int /\ e - x.size = x.w - d
        BY <1>1, <3>1
      <4> HIDE DEF e
      <4>2. e % x.size = (e - x.size) % x.size
        BY <1>1, <4>1, ModBack
      <4> QED
        BY <4>1, <4>2 DEF e
    <3>5. x.buf[(x.w - d) % x.size] = At(s, m - d + 1)
      BY <1>4 DEF Held
    <3> HIDE DEF i
    <3>6. buf[i] = At(s, m - d + 1)
      BY <2>2, <3>2, <3>4, <3>5
    <3> QED
      BY <2>5, <3>2, <3>3, <3>6 DEF Held
  <2> QED
    BY <2>5, <2>6
<1> QED
  BY <1>6, <1>7

-----------------------------------------------------------------------------
(* The reader *)

Block == [offset : Int, length : Nat \ {0}, reset : BOOLEAN, id : Nat]

\* A block the decoder announced.
Announced == [at : Int, length : Nat \ {0}, dropped : Nat]

\* A byte with the marks of the filters it passed.
Marked == Seq(Nat \cup (Nat \X Nat))

\* The bytes in a sequence are the stream's from a place on.
InPlace(bytes, at) ==
    \A i \in 1..Len(bytes) : bytes[i] # <<>> /\ bytes[i][1] = stream[at + i]

ReaderTypeOK ==
    /\ stream \in Seq(Nat) /\ start \in 0..Len(stream)
    /\ filters \in Seq(Block)
    /\ fl \in Seq(Block) /\ \A i \in 1..Len(fl) : fl[i].length \in Blocks
    /\ outbuf \in Seq(Marked) /\ out \in Seq(Marked)
    /\ tot \in Nat /\ want \in Reads \cup {0} /\ files \in Nat
    /\ plan \in Seq(Announced)
    /\ err \in {"nil", "EOF", "corrupt", "tooMany", "invalid"}
    /\ res \in {"nil", "EOF", "corrupt", "tooMany", "invalid"}
    /\ eof \in BOOLEAN
    /\ pc \in {"idle", "fill", "queue", "filter", "chain", "deliver", "ended"}

\* What is decoded is returned, filtered, in the window, or waits.
CountInv ==
    /\ Len(out) = tot
    /\ Decoded = tot + Len(outbuf) + Buffered(win) + win.l

PlaceInv == InPlace(out, start) /\ InPlace(outbuf, start + tot)

EndInv ==
    /\ err = "EOF" => eof
    /\ res = "EOF" => eof /\ Empty /\ outbuf = <<>>

StepInv ==
    /\ pc \in {"fill", "queue", "filter"} => outbuf = <<>>
    /\ pc = "queue" => err # "nil" \/ ~Empty
    /\ pc = "filter" => ~Empty /\ filters # <<>>
    /\ pc = "chain" => outbuf # <<>>
    /\ pc \notin {"idle", "ended"} => want \in Reads
    /\ pc = "deliver" /\ outbuf = <<>>
          => ~Empty /\ (filters = <<>> \/ filters[1].offset > 0)

ReaderInv ==
    /\ ReaderTypeOK
    /\ RingOK(win, stream)
    /\ CountInv /\ PlaceInv /\ EndInv /\ StepInv

\* What the invariant says of the window and the bytes.
BytesInv == RingOK(win, stream) /\ CountInv /\ PlaceInv

LEMMA SameBytesInv ==
    ASSUME BytesInv, UNCHANGED <<win, stream, start, out, outbuf, tot>>
    PROVE  BytesInv'
BY DEF BytesInv, RingOK, CountInv, PlaceInv, InPlace, Decoded

LEMMA ReaderInit ==
    ASSUME Init
    PROVE  ReaderInv
<1>1. PICK s \in Sizes : win = Reset(Fresh, s, TRUE)
  BY DEF Init
<1>2. RingOK(win, <<>>) /\ win.l = 0 /\ Buffered(win) = 0
  <2>1. win = Cleared(Fresh, s)
    BY <1>1 DEF Cleared
  <2>2. Fresh.l = 0
    BY DEF Fresh
  <2> QED
    BY <2>1, <2>2, ClearRing
<1>3. /\ filters = <<>> /\ fl = <<>> /\ outbuf = <<>> /\ tot = 0 /\ err = "nil"
      /\ eof = FALSE /\ pc = "idle" /\ want = 0 /\ res = "nil" /\ stream = <<>>
      /\ start = 0 /\ plan = <<>> /\ out = <<>> /\ files = 1
  BY DEF Init
<1>4. ReaderTypeOK
  <2>1. /\ stream \in Seq(Nat) /\ filters \in Seq(Block) /\ fl \in Seq(Block)
        /\ outbuf \in Seq(Marked) /\ out \in Seq(Marked)
        /\ plan \in Seq(Announced)
    BY <1>3, EmptySeq
  <2>2. Len(fl) = 0 /\ Len(stream) = 0 /\ 1..0 = {}
    BY <1>3
  <2>3. start \in 0..Len(stream) /\ \A i \in 1..Len(fl) : fl[i].length \in Blocks
    BY <1>3, <2>2
  <2>4. tot \in Nat /\ want \in Reads \cup {0} /\ files \in Nat /\ eof \in BOOLEAN
    BY <1>3
  <2>5. /\ err \in {"nil", "EOF", "corrupt", "tooMany", "invalid"}
        /\ res \in {"nil", "EOF", "corrupt", "tooMany", "invalid"}
        /\ pc \in {"idle", "fill", "queue", "filter", "chain", "deliver", "ended"}
    BY <1>3
  <2> QED
    BY <2>1, <2>3, <2>4, <2>5 DEF ReaderTypeOK
<1>5. RingOK(win, stream)
  BY <1>2, <1>3
<1>6. CountInv
  BY <1>2, <1>3 DEF CountInv, Decoded
<1>7. PlaceInv
  BY <1>3 DEF PlaceInv, InPlace
<1>8. EndInv /\ StepInv
  BY <1>3 DEF EndInv, StepInv
<1> QED
  BY <1>4, <1>5, <1>6, <1>7, <1>8 DEF ReaderInv

LEMMA ReadStep ==
    ASSUME ReaderInv, Read
    PROVE  ReaderInv'
<1>1. /\ pc = "idle" \/ pc = "ended"
      /\ want' \in Reads
      /\ pc' = IF outbuf # <<>> THEN "deliver"
               ELSE IF Empty \/ NeedsMore THEN "fill"
               ELSE IF filters # <<>> THEN "filter"
               ELSE "deliver"
      /\ UNCHANGED <<win, filters, fl, outbuf, tot, err, eof, res, stream, start,
                     plan, astray, out, files>>
  BY DEF Read, Fileless
<1>2. ReaderTypeOK'
  BY <1>1 DEF ReaderInv, ReaderTypeOK
<1>3. BytesInv'
  BY <1>1, SameBytesInv DEF ReaderInv, BytesInv
<1>4. EndInv'
  BY <1>1 DEF ReaderInv, EndInv, Empty
<1>5. StepInv'
  BY <1>1 DEF StepInv, Empty
<1> QED
  BY <1>2, <1>3, <1>4, <1>5 DEF ReaderInv, BytesInv

\* The stream only grows: what was returned stays in its place.
LEMMA LongerStream ==
    ASSUME ReaderInv, stream' \in Seq(Nat), Begins(stream', stream),
           UNCHANGED <<start, out, outbuf, tot>>
    PROVE  PlaceInv'
<1>1. /\ start \in Nat /\ tot \in Nat /\ Len(stream) \in Nat /\ Len(outbuf) \in Nat
      /\ Len(out) = tot /\ start + tot + Len(outbuf) <= Len(stream)
  <2>1. Buffered(win) \in Nat /\ win.l \in Nat
    <3>1. IsWindow(win)
      BY DEF ReaderInv, RingOK
    <3>2. Buffered(win) \in 0..win.size - 1 /\ win.size \in Nat
      BY <3>1, RingSpace DEF IsWindow
    <3> QED
      BY <3>1, <3>2 DEF IsWindow
  <2>2. start \in Nat /\ tot \in Nat /\ Len(stream) \in Nat /\ Len(outbuf) \in Nat
    BY DEF ReaderInv, ReaderTypeOK
  <2>3. Len(out) = tot /\ Len(stream) - start = tot + Len(outbuf) + Buffered(win) + win.l
    BY DEF ReaderInv, CountInv, Decoded
  <2> QED
    BY <2>1, <2>2, <2>3
<1>2. ASSUME NEW i \in 1..Len(out)
      PROVE  out[i] # <<>> /\ out[i][1] = stream'[start + i]
  <2>1. out[i] # <<>> /\ out[i][1] = stream[start + i]
    BY DEF ReaderInv, PlaceInv, InPlace
  <2>2. start + i \in 1..Len(stream)
    BY <1>1
  <2> QED
    BY <2>1, <2>2 DEF Begins
<1>3. ASSUME NEW i \in 1..Len(outbuf)
      PROVE  outbuf[i] # <<>> /\ outbuf[i][1] = stream'[start + tot + i]
  <2>1. outbuf[i] # <<>> /\ outbuf[i][1] = stream[start + tot + i]
    BY DEF ReaderInv, PlaceInv, InPlace
  <2>2. start + tot + i \in 1..Len(stream)
    BY <1>1
  <2> QED
    BY <2>1, <2>2 DEF Begins
<1> QED
  BY <1>2, <1>3 DEF PlaceInv, InPlace

\* A literal or a match.
LEMMA GrownStep ==
    ASSUME ReaderInv, Filling, NEW n \in Nat,
           stream' \in Seq(Nat), Begins(stream', stream), Len(stream') = Len(stream) + n,
           RingOK(win', stream'), win.l = 0,
           Buffered(win') + win'.l = Buffered(win) + n,
           UNCHANGED <<filters, fl, outbuf, tot, err, eof, pc, want, res, start,
                       plan, astray, out, files>>
    PROVE  ReaderInv'
<1>1. ReaderTypeOK'
  <2>1. start' \in 0..Len(stream')
    BY DEF ReaderInv, ReaderTypeOK
  <2> QED
    BY <2>1 DEF ReaderInv, ReaderTypeOK
<1>2. CountInv'
  <2>1. IsWindow(win) /\ IsWindow(win')
    BY DEF ReaderInv, RingOK
  <2>2. /\ Buffered(win) \in 0..win.size - 1 /\ win.size \in Nat /\ win'.l \in Nat
        /\ Buffered(win') \in 0..win'.size - 1 /\ win'.size \in Nat
    BY <2>1, RingSpace DEF IsWindow
  <2>3. /\ Len(out) = tot
        /\ Len(stream) - start = tot + Len(outbuf) + Buffered(win) + win.l
    BY DEF ReaderInv, CountInv, Decoded
  <2>4. start \in Nat /\ tot \in Nat /\ Len(stream) \in Nat /\ Len(outbuf) \in Nat
    BY DEF ReaderInv, ReaderTypeOK
  <2>5. Len(stream') - start = tot + Len(outbuf) + Buffered(win') + win'.l
    <3> DEFINE b == Buffered(win)
               l == win.l
               c == Buffered(win')
               k == win'.l
               t == Len(stream')
    <3>1. b \in Int /\ c + k = b + n /\ c \in Int /\ k \in Int /\ l = 0 /\ t = Len(stream) + n
      BY <2>2
    <3>2. Len(stream) - start = tot + Len(outbuf) + b + l
      BY <2>3
    <3> HIDE DEF b, l, c, k, t
    <3>3. t - start = tot + Len(outbuf) + c + k
      BY <2>4, <3>1, <3>2
    <3> QED
      BY <3>3 DEF c, k, t
  <2> QED
    BY <2>3, <2>5 DEF CountInv, Decoded
<1>3. PlaceInv'
  BY LongerStream
<1>4. EndInv'
  BY DEF ReaderInv, EndInv, Filling
<1>5. StepInv'
  BY DEF ReaderInv, StepInv, Filling
<1> QED
  BY <1>1, <1>2, <1>3, <1>4, <1>5 DEF ReaderInv

LEMMA LiteralStep ==
    ASSUME ReaderInv, Literal
    PROVE  ReaderInv'
<1> DEFINE c == Len(stream) + 1
<1>1. /\ Filling /\ Available(win) > 0
      /\ stream' = Append(stream, c) /\ win' = WriteByte(win, c)
      /\ UNCHANGED <<filters, fl, outbuf, tot, err, eof, pc, want, res, start,
                     plan, astray, out, files>>
  BY DEF Literal, Filling
<1>2. stream \in Seq(Nat) /\ RingOK(win, stream) /\ c \in Nat
  BY DEF ReaderInv, ReaderTypeOK
<1> HIDE DEF c
<1>3. /\ RingOK(win', stream') /\ win.l = 0 /\ win'.l = 0
      /\ Buffered(win') = Buffered(win) + 1
  BY <1>1, <1>2, WriteRing
<1>4. stream' \in Seq(Nat) /\ Len(stream') = Len(stream) + 1 /\ Begins(stream', stream)
  BY <1>1, <1>2 DEF Begins
<1>5. Buffered(win') + win'.l = Buffered(win) + 1
  <2>1. IsWindow(win)
    BY <1>2 DEF RingOK
  <2>2. Buffered(win) \in 0..win.size - 1
    BY <2>1, RingSpace
  <2>3. Buffered(win) \in Int
    BY <2>2
  <2> QED
    BY <1>3, <2>3
<1> QED
  BY <1>1, <1>3, <1>4, <1>5, GrownStep

LEMMA MatchStep ==
    ASSUME ReaderInv, NEW len \in Lengths, NEW off \in Distances, Match(len, off)
    PROVE  ReaderInv'
<1>1. /\ Filling /\ Available(win) > 0
      /\ stream' = stream \o Matched(stream, len, off) /\ win' = CopyBytes(win, len, off)
      /\ UNCHANGED <<filters, fl, outbuf, tot, err, eof, pc, want, res, start,
                     plan, astray, out, files>>
  BY DEF Match, Filling
<1>2. stream \in Seq(Nat) /\ RingOK(win, stream)
  BY DEF ReaderInv, ReaderTypeOK
<1>3. len \in Nat /\ off \in Nat \ {0}
  <2>1. win.size \in Sizes
    BY <1>2 DEF RingOK
  <2>2. len \in 1..win.size - 1 /\ off \in 1..win.size /\ win.size \in Nat
    BY <2>1, ReaderAssumption
  <2> QED
    BY <2>2
<1>4. GoesOn(stream, stream', len, off)
  BY <1>1, <1>2, <1>3, MatchStream
<1>5. /\ RingOK(win', stream') /\ win.l = 0
      /\ Buffered(win') + win'.l = Buffered(win) + len
  BY <1>1, <1>2, <1>4, MatchRing
<1>6. stream' \in Seq(Nat) /\ Len(stream') = Len(stream) + len /\ Begins(stream', stream)
  BY <1>4 DEF GoesOn
<1> QED
  BY <1>1, <1>3, <1>5, <1>6, GrownStep

\* Blocks that a reset drops are announced still.
LEMMA DropKeeps ==
    ASSUME ReaderTypeOK, NEW by \in Nat
    PROVE  Drop(by) \in Seq(Announced) /\ Len(Drop(by)) = Len(plan)
<1>1. plan \in Seq(Announced) /\ DOMAIN plan = 1..Len(plan) /\ Len(plan) \in Nat
  BY DEF ReaderTypeOK
<1>2. ASSUME NEW k \in 1..Len(plan)
      PROVE  (IF plan[k].at < tot \/ plan[k].dropped # 0 THEN plan[k]
              ELSE [plan[k] EXCEPT !.dropped = by]) \in Announced
  <2>1. plan[k] \in Announced
    BY <1>1, ElementOfSeq
  <2> QED
    BY <2>1 DEF Announced
<1> QED
  BY <1>1, <1>2 DEF Drop

LEMMA FilterBlockStep ==
    ASSUME ReaderInv, NEW n \in Gaps, NEW len \in Blocks, NEW reset \in Resets,
           FilterBlock(n, len, reset)
    PROVE  ReaderInv'
<1> DEFINE f == [offset |-> FromReadIndex(n), length |-> len,
                 reset |-> reset, id |-> Len(plan) + 1]
           p == [at |-> Decoded + n, length |-> len, dropped |-> 0]
           kept == IF reset THEN Drop(Len(plan) + 1) ELSE plan
<1>1. /\ pc = "fill" /\ fl' = Append(fl, f) /\ plan' = Append(kept, p)
      /\ UNCHANGED <<win, filters, outbuf, tot, err, eof, pc, want, res, stream,
                     start, astray, out, files>>
  BY DEF FilterBlock, Filling
<1>2. len \in Nat \ {0} /\ n \in Nat /\ reset \in BOOLEAN
  <2>1. PICK s \in Sizes : TRUE
    BY ReaderAssumption
  <2>2. len \in 1..s - 1 /\ s \in Nat
    BY <2>1, ReaderAssumption
  <2> QED
    BY <2>2, ReaderAssumption
<1>3. f \in Block
  <2>1. FromReadIndex(n) \in Int
    <3>1. IsWindow(win)
      BY DEF ReaderInv, RingOK
    <3>2. Buffered(win) \in 0..win.size - 1
      BY <3>1, RingSpace
    <3> QED
      BY <1>2, <3>2 DEF FromReadIndex
  <2>2. Len(plan) + 1 \in Nat
    BY DEF ReaderInv, ReaderTypeOK
  <2> QED
    BY <1>2, <2>1, <2>2 DEF Block
<1>4. p \in Announced
  <2>1. Decoded + n \in Int
    BY <1>2 DEF ReaderInv, ReaderTypeOK, Decoded
  <2> QED
    BY <1>2, <2>1 DEF Announced
<1>5. kept \in Seq(Announced)
  <2>1. plan \in Seq(Announced) /\ Len(plan) + 1 \in Nat
    BY DEF ReaderInv, ReaderTypeOK
  <2> QED
    BY <2>1, DropKeeps DEF ReaderInv
<1>6. plan' \in Seq(Announced)
  <2> HIDE DEF kept, p
  <2> QED
    BY <1>1, <1>4, <1>5
<1>7. fl' \in Seq(Block) /\ \A i \in 1..Len(fl') : fl'[i].length \in Blocks
  <2>1. fl \in Seq(Block) /\ \A i \in 1..Len(fl) : fl[i].length \in Blocks
    BY DEF ReaderInv, ReaderTypeOK
  <2>2. f.length \in Blocks
    OBVIOUS
  <2> HIDE DEF f
  <2> QED
    BY <1>1, <1>3, <2>1, <2>2
<1>8. ReaderTypeOK'
  BY <1>1, <1>6, <1>7 DEF ReaderInv, ReaderTypeOK
<1>9. BytesInv'
  BY <1>1, SameBytesInv DEF ReaderInv, BytesInv
<1>10. EndInv' /\ StepInv'
  BY <1>1 DEF ReaderInv, EndInv, StepInv, Empty
<1> QED
  BY <1>8, <1>9, <1>10 DEF ReaderInv, BytesInv

LEMMA FillEndsStep ==
    ASSUME ReaderInv, FillEnds
    PROVE  ReaderInv'
<1>1. /\ pc = "fill" /\ pc' = "queue"
      /\ UNCHANGED <<win, filters, fl, outbuf, tot, want, res, stream, start, plan,
                     astray, out, files>>
  BY DEF FillEnds, Fileless
<1>2. /\ err' \in {"nil", "EOF", "corrupt", "tooMany", "invalid"} /\ eof' \in BOOLEAN
      /\ err' = "EOF" => eof'
      /\ eof => eof'
      /\ err' = "nil" => Available(win) = 0
  BY DEF FillEnds, Filling, ReaderInv, ReaderTypeOK, EndInv
<1>3. err' = "nil" => ~ Empty
  <2>1. IsWindow(win)
    BY DEF ReaderInv, RingOK
  <2>2. Available(win) = win.size - 1 - Buffered(win) /\ win.size \in Nat \ {0, 1}
    BY <2>1, RingSpace DEF IsWindow
  <2>3. Available(win) = 0 => Buffered(win) # 0
    BY <2>2
  <2> QED
    BY <1>2, <2>3 DEF Empty
<1>4. ReaderTypeOK'
  BY <1>1, <1>2 DEF ReaderInv, ReaderTypeOK
<1>5. BytesInv'
  BY <1>1, SameBytesInv DEF ReaderInv, BytesInv
<1>6. EndInv' /\ StepInv'
  BY <1>1, <1>2, <1>3 DEF ReaderInv, EndInv, StepInv, Empty
<1> QED
  BY <1>4, <1>5, <1>6 DEF ReaderInv, BytesInv

\* What is left of an offset: the offsets of the queue are taken off one by one.
LEMMA RemainsSteps ==
    ASSUME NEW f, f.offset \in Int, NEW queue \in Seq(Block)
    PROVE  /\ Remains(f, queue)[0] = f.offset
           /\ \A j \in 1..Len(queue) :
                 Remains(f, queue)[j] = Remains(f, queue)[j - 1] - queue[j].offset
<1> DEFINE n == Len(queue)
           x == f.offset
           d == [j \in 1..n |-> queue[j].offset]
           Rest(g) == g = [j \in 0..n |-> IF j = 0 THEN x ELSE g[j - 1] - queue[j].offset]
           g == Remains(f, queue)
<1>1. n \in Nat /\ x \in Int
  OBVIOUS
<1>2. \A j \in 1..n : queue[j].offset \in Int
  <2> SUFFICES ASSUME NEW j \in 1..n PROVE queue[j].offset \in Int
    OBVIOUS
  <2>1. queue[j] \in Block
    BY ElementOfSeq
  <2> QED
    BY <2>1 DEF Block
<1>3. \E h : Rest(h)
  <2>1. d \in [1..n -> Int]
    BY <1>2
  <2>2. \A j \in 0..n : j # 0 => j \in 1..n
    BY <1>1
  <2>3. \E h \in [0..n -> Int] :
            h = [j \in 0..n |-> IF j = 0 THEN x ELSE h[j - 1] - d[j]]
    <3> HIDE DEF d, n, x
    <3> QED
      BY <1>1, <2>1, Differences
  <2>4. PICK h \in [0..n -> Int] :
            h = [j \in 0..n |-> IF j = 0 THEN x ELSE h[j - 1] - d[j]]
    BY <2>3
  <2>5. Rest(h)
    <3> HIDE DEF n, x
    <3>1. \A j \in 1..n : d[j] = queue[j].offset
      OBVIOUS
    <3> HIDE DEF d
    <3>2. [j \in 0..n |-> IF j = 0 THEN x ELSE h[j - 1] - d[j]]
             = [j \in 0..n |-> IF j = 0 THEN x ELSE h[j - 1] - queue[j].offset]
      BY <2>2, <3>1
    <3> QED
      BY <2>4, <3>2
  <2> QED
    BY <2>5
<1>4. g = CHOOSE h : Rest(h)
  BY DEF Remains
<1>5. Rest(g)
  <2> HIDE DEF Rest, g
  <2> QED
    BY <1>3, <1>4
<1>6. g[0] = x /\ \A j \in 1..n : g[j] = g[j - 1] - queue[j].offset
  <2> HIDE DEF x, g
  <2>1. g = [j \in 0..n |-> IF j = 0 THEN x ELSE g[j - 1] - queue[j].offset]
    BY <1>5
  <2>2. 0 \in 0..n /\ \A j \in 1..n : j \in 0..n /\ j # 0
    BY <1>1
  <2> QED
    BY <2>1, <2>2
<1> QED
  BY <1>6

\* A queue whose offsets lead from place to place: what is left is the
\* distance to the place reached.
LEMMA RemainsPlaces ==
    ASSUME NEW f, f.offset \in Int, NEW queue \in Seq(Block),
           NEW p, \A j \in 0..Len(queue) : p[j] \in Int,
           \A j \in 1..Len(queue) : queue[j].offset = p[j] - p[j - 1]
    PROVE  \A i \in 0..Len(queue) : Remains(f, queue)[i] = f.offset - (p[i] - p[0])
<1> DEFINE n == Len(queue)
           g == Remains(f, queue)
           x == f.offset
           bad == {j \in 0..n : g[j] # x - (p[j] - p[0])}
<1>1. /\ n \in Nat /\ x \in Int /\ g[0] = x
      /\ \A j \in 1..n : g[j] = g[j - 1] - queue[j].offset
  BY RemainsSteps
<1> HIDE DEF g, x
<1>2. SUFFICES ASSUME bad # {} PROVE FALSE
  BY DEF g, x
<1>3. PICK m \in bad : \A k \in bad : m <= k
  <2>1. bad \in SUBSET Nat
    BY <1>1
  <2> HIDE DEF bad
  <2> QED
    BY <1>2, <2>1, SmallestOf
<1>4. m # 0
  <2>1. 0 \in 0..n /\ p[0] \in Int
    BY <1>1
  <2> QED
    BY <1>1, <2>1
<1>5. m \in 1..n /\ m - 1 \in 0..n /\ ~ (m <= m - 1)
  BY <1>1, <1>4
<1>6. g[m - 1] = x - (p[m - 1] - p[0]) /\ p[m - 1] \in Int /\ p[m] \in Int /\ p[0] \in Int
  BY <1>1, <1>3, <1>5
<1>7. g[m] = x - (p[m] - p[0])
  <2>1. g[m] = g[m - 1] - queue[m].offset /\ queue[m].offset = p[m] - p[m - 1]
    BY <1>1, <1>5
  <2> HIDE DEF n, bad
  <2> QED
    BY <1>1, <1>6, <2>1
<1> QED
  BY <1>3, <1>7

\* What is left of an offset is a number.
LEMMA RemainsInt ==
    ASSUME NEW f, f.offset \in Int, NEW queue \in Seq(Block), NEW i \in 0..Len(queue)
    PROVE  Remains(f, queue)[i] \in Int
<1> DEFINE n == Len(queue)
           g == Remains(f, queue)
           bad == {j \in 0..n : g[j] \notin Int}
<1>1. /\ n \in Nat /\ g[0] \in Int
      /\ \A j \in 1..n : g[j] = g[j - 1] - queue[j].offset
  BY RemainsSteps
<1>2. \A j \in 1..n : queue[j].offset \in Int
  <2> SUFFICES ASSUME NEW j \in 1..n PROVE queue[j].offset \in Int
    OBVIOUS
  <2>1. queue[j] \in Block
    BY ElementOfSeq
  <2> QED
    BY <2>1 DEF Block
<1> HIDE DEF g
<1>3. SUFFICES ASSUME g[i] \notin Int PROVE FALSE
  BY DEF g
<1>4. PICK m \in bad : \A k \in bad : m <= k
  <2>1. bad \in SUBSET Nat /\ bad # {}
    BY <1>1, <1>3
  <2> HIDE DEF bad
  <2> QED
    BY <2>1, SmallestOf
<1>5. m # 0
  BY <1>1
<1>6. m \in 1..n /\ m - 1 \in 0..n /\ ~ (m <= m - 1)
  BY <1>1, <1>5
<1>7. g[m - 1] \in Int
  BY <1>4, <1>6
<1>8. g[m] \in Int
  <2>1. g[m] = g[m - 1] - queue[m].offset /\ queue[m].offset \in Int
    BY <1>1, <1>2, <1>6
  <2> HIDE DEF n, bad
  <2> QED
    BY <1>7, <2>1
<1> QED
  BY <1>8

LEMMA QueueStep ==
    ASSUME ReaderInv, Queue
    PROVE  ReaderInv'
<1> DEFINE f == Head(fl)
           queue == QueueFor(f)
           offset == Remains(f, queue)[Len(queue)]
           failure == IF Len(queue) >= MaxQueue THEN "tooMany"
                      ELSE IF Precedes(f, queue) THEN "invalid" ELSE "nil"
           b == [f EXCEPT !.offset = offset % win.size,
                          !.length = f.length % win.size]
<1>1. /\ pc = "queue" /\ fl # <<>>
      /\ UNCHANGED <<win, outbuf, tot, eof, pc, want, res, stream, start, plan,
                     out, files>>
  BY DEF Queue
<1>2. /\ failure # "nil" => filters' = queue /\ err' = failure /\ fl' = <<>>
      /\ failure = "nil" => filters' = Append(queue, b) /\ fl' = Tail(fl) /\ err' = err
  BY DEF Queue
<1>3. failure \in {"tooMany", "invalid", "nil"}
  OBVIOUS
<1>4. /\ fl \in Seq(Block) /\ filters \in Seq(Block)
      /\ \A i \in 1..Len(fl) : fl[i].length \in Blocks
  BY DEF ReaderInv, ReaderTypeOK
<1>5. queue \in Seq(Block)
  <2>1. CASE f.reset
    BY <2>1, EmptySeq DEF QueueFor
  <2>2. CASE ~ f.reset
    BY <1>4, <2>2 DEF QueueFor
  <2> QED
    BY <2>1, <2>2
<1>6. /\ f \in Block /\ f = fl[1] /\ f.length \in Blocks
      /\ Tail(fl) \in Seq(Block) /\ Len(Tail(fl)) = Len(fl) - 1 /\ Len(fl) \in Nat \ {0}
      /\ \A i \in 1..Len(Tail(fl)) : Tail(fl)[i] = fl[i + 1]
  <2>1. Len(fl) \in Nat \ {0}
    BY <1>1, <1>4, EmptySeq
  <2>2. f = fl[1] /\ fl[1].length \in Blocks
    BY <1>4, <2>1
  <2> HIDE DEF f
  <2> QED
    BY <1>1, <1>4, <2>1, <2>2, HeadTailProperties DEF f
<1>7. win.size \in Sizes /\ win.size \in Nat \ {0}
  <2>1. win.size \in Sizes
    BY DEF ReaderInv, RingOK
  <2> QED
    BY <2>1, ReaderAssumption
<1> HIDE DEF f, queue, failure
<1>8. offset % win.size \in Int
  <2>1. f.offset \in Int
    BY <1>6 DEF Block
  <2>2. Len(queue) \in 0..Len(queue)
    BY <1>5
  <2>3. offset \in Int
    BY <1>5, <2>1, <2>2, RemainsInt
  <2> HIDE DEF offset
  <2> QED
    BY <1>7, <2>3
<1> HIDE DEF offset
<1>9. f.length % win.size = f.length /\ f.length \in Nat \ {0}
  <2>1. f.length \in 1..win.size - 1
    BY <1>6, <1>7, ReaderAssumption
  <2>2. f.length \in 0..win.size - 1 /\ f.length \in Nat \ {0}
    BY <1>7, <2>1
  <2> QED
    BY <1>7, <2>2, ModSmall
<1>10. b \in Block
  <2> DEFINE q == offset % win.size
             len == f.length % win.size
  <2>1. q \in Int /\ len \in Nat \ {0}
    BY <1>8, <1>9
  <2>2. b = [f EXCEPT !.offset = q, !.length = len]
    OBVIOUS
  <2> HIDE DEF q, len, b
  <2> QED
    BY <1>6, <2>1, <2>2 DEF Block
<1> HIDE DEF b
<1>11. filters' \in Seq(Block)
  BY <1>2, <1>5, <1>10, AppendProperties
<1>12. fl' \in Seq(Block) /\ \A i \in 1..Len(fl') : fl'[i].length \in Blocks
  <2>1. CASE failure = "nil"
    <3>1. fl' = Tail(fl)
      BY <1>2, <2>1
    <3>2. \A i \in 1..Len(fl') : i + 1 \in 1..Len(fl)
      BY <1>6, <3>1
    <3> QED
      BY <1>4, <1>6, <3>1, <3>2
  <2>2. CASE failure # "nil"
    <3>1. fl' = <<>>
      BY <1>2, <2>2
    <3>2. Len(fl') = 0
      BY <3>1
    <3> QED
      BY <3>1, <3>2, EmptySeq
  <2> QED
    BY <2>1, <2>2
<1>13. err' \in {"nil", "EOF", "corrupt", "tooMany", "invalid"} /\ (err' # err => err' \in {"tooMany", "invalid"})
  BY <1>2, <1>3 DEF ReaderInv, ReaderTypeOK
<1>14. ReaderTypeOK'
  BY <1>1, <1>11, <1>12, <1>13 DEF ReaderInv, ReaderTypeOK
<1>15. BytesInv'
  BY <1>1, SameBytesInv DEF ReaderInv, BytesInv
<1>16. EndInv' /\ StepInv'
  BY <1>1, <1>13 DEF ReaderInv, EndInv, StepInv, Empty
<1> QED
  BY <1>14, <1>15, <1>16 DEF ReaderInv, BytesInv

LEMMA FilledStep ==
    ASSUME ReaderInv, Filled
    PROVE  ReaderInv'
<1>1. /\ pc = "queue"
      /\ UNCHANGED <<win, filters, fl, outbuf, tot, eof, want, stream, start, plan,
                     out, files>>
  BY DEF Filled, Fileless
<1>2. \/ /\ Empty /\ res' = err /\ err' = "nil"
         /\ pc' \in {"idle", "ended"}
      \/ /\ ~ Empty /\ UNCHANGED <<res, err>>
         /\ pc' = IF filters # <<>> THEN "filter" ELSE "deliver"
  BY DEF Filled, Fails, NothingDecoded
<1>3. ReaderTypeOK'
  BY <1>1, <1>2 DEF ReaderInv, ReaderTypeOK
<1>4. BytesInv'
  BY <1>1, SameBytesInv DEF ReaderInv, BytesInv
<1>5. EndInv' /\ StepInv'
  BY <1>1, <1>2 DEF ReaderInv, EndInv, StepInv, Empty
<1> QED
  BY <1>3, <1>4, <1>5 DEF ReaderInv, BytesInv

\* Bytes become tokens, and filters mark them: what they are stays.
LEMMA TokensKeep ==
    ASSUME NEW bytes \in Seq(Nat)
    PROVE  /\ Tokens(bytes) \in Seq(Marked) /\ Len(Tokens(bytes)) = Len(bytes)
           /\ \A i \in 1..Len(bytes) :
                 Tokens(bytes)[i] # <<>> /\ Tokens(bytes)[i][1] = bytes[i]
<1>1. ASSUME NEW i \in 1..Len(bytes)
      PROVE  <<bytes[i]>> \in Marked /\ <<bytes[i]>> # <<>> /\ <<bytes[i]>>[1] = bytes[i]
  <2>1. bytes[i] \in Nat
    BY ElementOfSeq
  <2>2. bytes[i] \in Nat \cup (Nat \X Nat)
    BY <2>1
  <2> QED
    BY <2>2 DEF Marked
<1>2. DOMAIN bytes = 1..Len(bytes) /\ Len(bytes) \in Nat
  OBVIOUS
<1> QED
  BY <1>1, <1>2 DEF Tokens

LEMMA ApplyKeeps ==
    ASSUME NEW bytes \in Seq(Marked), NEW f, f.id \in Nat, tot \in Nat,
           \A i \in 1..Len(bytes) : bytes[i] # <<>>
    PROVE  /\ Apply(f, bytes) \in Seq(Marked) /\ Len(Apply(f, bytes)) = Len(bytes)
           /\ \A i \in 1..Len(bytes) :
                 Apply(f, bytes)[i] # <<>> /\ Apply(f, bytes)[i][1] = bytes[i][1]
<1> DEFINE mark == <<f.id, tot>>
           Tags == Nat \cup (Nat \X Nat)
<1>1. mark \in Tags
  OBVIOUS
<1> HIDE DEF mark
<1>2. ASSUME NEW i \in 1..Len(bytes)
      PROVE  /\ Append(bytes[i], mark) \in Marked
             /\ Append(bytes[i], mark) # <<>>
             /\ Append(bytes[i], mark)[1] = bytes[i][1]
  <2> DEFINE b == bytes[i]
  <2>1. b \in Seq(Tags) /\ b # <<>>
    <3>1. b \in Marked
      BY ElementOfSeq
    <3> QED
      BY <3>1 DEF Marked
  <2> HIDE DEF b, Tags
  <2>2. Len(b) \in Nat \ {0}
    BY <2>1, EmptySeq
  <2>3. 1 \in 1..Len(b)
    BY <2>2
  <2>4. Append(b, mark) \in Seq(Tags) /\ Append(b, mark) # <<>>
        /\ \A j \in 1..Len(b) : Append(b, mark)[j] = b[j]
    BY <1>1, <2>1, AppendProperties
  <2>5. Append(b, mark)[1] = b[1]
    BY <2>3, <2>4
  <2> QED
    BY <2>4, <2>5 DEF b, Marked, Tags
<1>3. DOMAIN bytes = 1..Len(bytes) /\ Len(bytes) \in Nat
  OBVIOUS
<1>4. Apply(f, bytes) = [i \in 1..Len(bytes) |-> Append(bytes[i], mark)]
  BY <1>3 DEF Apply, mark
<1>5. Apply(f, bytes) \in Seq(Marked) /\ Len(Apply(f, bytes)) = Len(bytes)
  BY <1>2, <1>3, <1>4
<1>6. \A i \in 1..Len(bytes) : Apply(f, bytes)[i] = Append(bytes[i], mark)
  BY <1>4
<1> QED
  BY <1>2, <1>5, <1>6

\* What is read from the window follows what was returned.
LEMMA UnreadInPlace ==
    ASSUME ReaderInv, outbuf = <<>>, NEW n \in 1..Buffered(win)
    PROVE  /\ n \in Nat \ {0}
           /\ Unread(win, n) \in Seq(Nat) /\ Len(Unread(win, n)) = n
           /\ \A k \in 1..n : Unread(win, n)[k] = stream[start + tot + k]
           /\ RingOK(AfterRead(win, n), stream)
           /\ Decoded = tot + n + Buffered(AfterRead(win, n)) + AfterRead(win, n).l
<1> DEFINE m == Len(stream) - win.l
           b == Buffered(win)
           y == AfterRead(win, n)
           c == Buffered(y)
           k0 == y.l
<1>1. stream \in Seq(Nat) /\ RingOK(win, stream) /\ IsWindow(win) /\ win.l \in Nat
  BY DEF ReaderInv, ReaderTypeOK, RingOK, IsWindow
<1>2. b \in Nat /\ n \in Nat \ {0} /\ n \in 0..b
  <2>1. b \in 0..win.size - 1 /\ win.size \in Nat
    BY <1>1, RingSpace DEF IsWindow
  <2> QED
    BY <2>1
<1>3. /\ start \in Nat /\ tot \in Nat /\ Len(stream) \in Nat
      /\ Len(stream) - start = tot + b + win.l
  <2>1. Len(outbuf) = 0
    OBVIOUS
  <2>2. /\ start \in Nat /\ tot \in Nat /\ Len(stream) \in Nat
    BY DEF ReaderInv, ReaderTypeOK
  <2>3. Len(stream) - start = tot + Len(outbuf) + b + win.l
    BY DEF ReaderInv, CountInv, Decoded
  <2>4. Len(stream) - start = tot + b + win.l
    <3> DEFINE l == win.l
               s == Len(stream)
               k == Len(outbuf)
    <3>1. s - start = tot + k + b + l /\ l \in Int /\ s \in Int /\ k = 0 /\ b \in Int
      BY <1>1, <1>2, <2>1, <2>2, <2>3
    <3> HIDE DEF b, l, s, k
    <3>2. s - start = tot + b + l
      BY <2>2, <3>1
    <3> QED
      BY <3>2 DEF s, l
  <2> QED
    BY <2>2, <2>4
<1>4. m \in Nat /\ b <= m /\ m - b = start + tot
  <2> DEFINE l == win.l
             s == Len(stream)
  <2>1. /\ s - start = tot + b + l /\ l \in Nat /\ s \in Int /\ b \in Nat
        /\ start \in Nat /\ tot \in Nat
    BY <1>1, <1>2, <1>3
  <2> HIDE DEF b, l, s
  <2>2. s - l \in Nat /\ b <= s - l /\ (s - l) - b = start + tot
    BY <2>1
  <2> QED
    BY <2>2 DEF s, l
<1>5. \A d \in 1..b : d \in Held(win, stream, m)
  BY <1>1 DEF RingOK
<1>6. /\ Unread(win, n) \in Seq(Nat) /\ Len(Unread(win, n)) = n
      /\ \A k \in 1..n : Unread(win, n)[k] = stream[m - b + k]
  <2>1. IsWindow(win) /\ Buffered(win) <= m /\ n \in 0..Buffered(win) /\ m \in Nat
    BY <1>1, <1>2, <1>4
  <2> HIDE DEF m, b
  <2>2. \A d \in 1..Buffered(win) : d \in Held(win, stream, m)
    BY <1>5 DEF b
  <2>3. /\ Unread(win, n) \in Seq(Nat) /\ Len(Unread(win, n)) = n
        /\ \A k \in 1..n : Unread(win, n)[k] = stream[m - Buffered(win) + k]
    BY <2>1, <2>2, UnreadBytes
  <2> QED
    BY <2>3 DEF b
<1>7. RingOK(y, stream) /\ c + k0 = b + win.l - n
  <2>1. /\ RingOK(y, stream)
        /\ c + k0 = b + win.l - n
    BY <1>1, ReadRing
  <2> QED
    BY <2>1
<1>8. c \in Int /\ k0 \in Int
  <2>1. IsWindow(y)
    BY <1>7 DEF RingOK
  <2> HIDE DEF y
  <2>2. c \in 0..y.size - 1 /\ k0 \in Nat
    BY <2>1, RingSpace DEF IsWindow
  <2> QED
    BY <2>2
<1>9. Len(stream) - start = tot + n + c + k0
  <2> DEFINE l == win.l
             s == Len(stream)
  <2>1. s - start = tot + b + l /\ c + k0 = b + l - n
    BY <1>3, <1>7
  <2>2. s \in Int /\ l \in Int
    BY <1>1, <1>3
  <2> HIDE DEF c, k0, b, l, s
  <2>3. s - start = tot + n + c + k0
    BY <1>2, <1>3, <1>8, <2>1, <2>2
  <2> QED
    BY <2>3 DEF s
<1>10. \A k \in 1..n : Unread(win, n)[k] = stream[start + tot + k]
  <2> HIDE DEF m, b
  <2> QED
    BY <1>4, <1>6
<1> QED
  BY <1>2, <1>6, <1>7, <1>9, <1>10 DEF Decoded

LEMMA FilterHeadStep ==
    ASSUME ReaderInv, FilterHead
    PROVE  ReaderInv'
<1> DEFINE f == Head(filters)
           n == f.length
<1>1. /\ pc = "filter"
      /\ UNCHANGED <<fl, tot, eof, want, stream, start, plan, out, files>>
      /\ \/ /\ f.offset > 0
            /\ pc' = "deliver"
            /\ UNCHANGED <<win, filters, outbuf, err, res>>
         \/ /\ filters' = Tail(filters)
            /\ res' = (IF err \in {"nil", "EOF"} THEN "invalid" ELSE err)
            /\ err' = "nil" /\ pc' \in {"idle", "ended"}
            /\ UNCHANGED <<win, outbuf>>
         \/ /\ ~ (Buffered(win) < n)
            /\ filters' = Tail(filters)
            /\ outbuf' = Apply(f, Tokens(Unread(win, n)))
            /\ win' = AfterRead(win, n)
            /\ pc' = "chain"
            /\ UNCHANGED <<err, res>>
  BY DEF FilterHead, Fileless, TooFew, Fails
<1>2. filters \in Seq(Block) /\ filters # <<>> /\ outbuf = <<>> /\ ~ Empty
  BY <1>1 DEF ReaderInv, ReaderTypeOK, StepInv
<1>3. f \in Block /\ Tail(filters) \in Seq(Block)
  BY <1>2, HeadTailProperties
<1>31. f = filters[1]
  BY <1>2
<1> HIDE DEF f
<1>4. CASE /\ f.offset > 0
           /\ pc' = "deliver"
           /\ UNCHANGED <<win, filters, outbuf, err, res>>
  <2>1. ReaderTypeOK'
    BY <1>1, <1>4 DEF ReaderInv, ReaderTypeOK
  <2>2. BytesInv'
    BY <1>1, <1>4, SameBytesInv DEF ReaderInv, BytesInv
  <2>3. EndInv' /\ StepInv'
    BY <1>1, <1>2, <1>31, <1>4 DEF ReaderInv, EndInv, StepInv, Empty
  <2> QED
    BY <2>1, <2>2, <2>3 DEF ReaderInv, BytesInv
<1>5. CASE /\ filters' = Tail(filters)
           /\ res' = (IF err \in {"nil", "EOF"} THEN "invalid" ELSE err)
           /\ err' = "nil" /\ pc' \in {"idle", "ended"}
           /\ UNCHANGED <<win, outbuf>>
  <2>1. ReaderTypeOK'
    BY <1>1, <1>3, <1>5 DEF ReaderInv, ReaderTypeOK
  <2>2. BytesInv'
    BY <1>1, <1>5, SameBytesInv DEF ReaderInv, BytesInv
  <2>3. EndInv' /\ StepInv'
    BY <1>1, <1>5 DEF ReaderInv, EndInv, StepInv, Empty
  <2> QED
    BY <2>1, <2>2, <2>3 DEF ReaderInv, BytesInv
<1>6. CASE /\ ~ (Buffered(win) < n)
           /\ filters' = Tail(filters)
           /\ outbuf' = Apply(f, Tokens(Unread(win, n)))
           /\ win' = AfterRead(win, n)
           /\ pc' = "chain"
           /\ UNCHANGED <<err, res>>
  <2>1. n \in 1..Buffered(win) /\ f.id \in Nat
    <3>1. IsWindow(win)
      BY DEF ReaderInv, RingOK
    <3>2. Buffered(win) \in 0..win.size - 1
      BY <3>1, RingSpace
    <3>3. n \in Nat \ {0} /\ f.id \in Nat
      BY <1>3 DEF Block
    <3> HIDE DEF n
    <3> QED
      BY <1>6, <3>2, <3>3
  <2> HIDE DEF n
  <2> DEFINE u == Unread(win, n)
             v == Tokens(u)
  <2>2. /\ n \in Nat \ {0} /\ u \in Seq(Nat) /\ Len(u) = n
        /\ \A k \in 1..n : u[k] = stream[start + tot + k]
        /\ RingOK(win', stream)
        /\ Decoded = tot + n + Buffered(win') + win'.l
    BY <1>2, <1>6, <2>1, UnreadInPlace
  <2> HIDE DEF u
  <2>3. /\ v \in Seq(Marked) /\ Len(v) = n
        /\ \A i \in 1..n : v[i] # <<>> /\ v[i][1] = u[i]
    BY <2>2, TokensKeep
  <2> HIDE DEF v
  <2>4. tot \in Nat
    BY DEF ReaderInv, ReaderTypeOK
  <2>5. outbuf' = Apply(f, v)
    BY <1>6 DEF u, v
  <2>6. /\ outbuf' \in Seq(Marked) /\ Len(outbuf') = n
        /\ \A i \in 1..n : outbuf'[i] # <<>> /\ outbuf'[i][1] = v[i][1]
    BY <2>1, <2>3, <2>4, <2>5, ApplyKeeps
  <2>7. ReaderTypeOK'
    BY <1>1, <1>3, <1>6, <2>6 DEF ReaderInv, ReaderTypeOK
  <2>8. RingOK(win', stream')
    BY <1>1, <2>2
  <2>9. CountInv'
    <3>1. Len(out') = tot'
      BY <1>1 DEF ReaderInv, CountInv
    <3>2. Decoded' = tot' + Len(outbuf') + Buffered(win') + win'.l
      BY <1>1, <2>2, <2>6 DEF Decoded
    <3> QED
      BY <3>1, <3>2 DEF CountInv
  <2>10. PlaceInv'
    <3>1. \A i \in 1..Len(outbuf') : outbuf'[i] # <<>> /\ outbuf'[i][1] = stream[start + tot + i]
      BY <2>2, <2>3, <2>6
    <3>2. InPlace(out, start)
      BY DEF ReaderInv, PlaceInv
    <3>3. InPlace(out, start)'
      BY <1>1, <3>2 DEF InPlace
    <3>4. InPlace(outbuf, start + tot)'
      BY <1>1, <3>1 DEF InPlace
    <3> QED
      BY <3>3, <3>4 DEF PlaceInv
  <2>11. EndInv'
    BY <1>1, <1>2, <1>6 DEF ReaderInv, EndInv
  <2>12. StepInv'
    <3>1. outbuf' # <<>>
      BY <2>2, <2>6
    <3>2. want' \in Reads
      BY <1>1 DEF ReaderInv, StepInv
    <3> QED
      BY <1>6, <3>1, <3>2 DEF StepInv
  <2> QED
    BY <2>7, <2>8, <2>9, <2>10, <2>11, <2>12 DEF ReaderInv
<1> QED
  BY <1>1, <1>4, <1>5, <1>6

\* The next filter moved back is a filter still.
LEMMA BehindKeeps ==
    ASSUME NEW queue \in Seq(Block), queue # <<>>, NEW n \in Int
    PROVE  <<Behind(queue[1], n)>> \o Tail(queue) \in Seq(Block)
<1>1. Len(queue) \in Nat \ {0}
  BY EmptySeq
<1>2. queue[1] \in Block
  BY <1>1, ElementOfSeq
<1> DEFINE f == queue[1]
           b == Behind(f, n)
           q == f.offset - n
<1> HIDE DEF f
<1>3. q \in Int /\ f \in Block
  BY <1>2 DEF Block, f
<1>4. b = [f EXCEPT !.offset = q]
  BY DEF Behind
<1>5. b \in Block
  <2> HIDE DEF b, q
  <2> QED
    BY <1>3, <1>4 DEF Block
<1> HIDE DEF b
<1>6. <<b>> \in Seq(Block) /\ Tail(queue) \in Seq(Block)
  BY <1>5, HeadTailProperties
<1>7. <<b>> \o Tail(queue) \in Seq(Block)
  BY <1>6, ConcatProperties
<1> QED
  BY <1>7 DEF b, f

LEMMA FilterChainStep ==
    ASSUME ReaderInv, FilterChain
    PROVE  ReaderInv'
<1>1. /\ pc = "chain"
      /\ UNCHANGED <<win, fl, err, tot, eof, want, stream, start, plan, out, files>>
      /\ \/ filters = <<>> /\ pc' = "deliver" /\ UNCHANGED <<filters, outbuf, res>>
         \/ /\ filters # <<>>
            /\ filters' = <<Behind(filters[1], Len(outbuf))>> \o Tail(filters)
            /\ pc' = "deliver" /\ UNCHANGED <<outbuf, res>>
         \/ /\ filters # <<>> /\ res' = "invalid" /\ pc' = "ended"
            /\ UNCHANGED <<filters, outbuf>>
         \/ /\ filters # <<>> /\ outbuf' = Apply(filters[1], outbuf)
            /\ filters' = Tail(filters) /\ UNCHANGED <<pc, res>>
  BY DEF FilterChain, Fileless
<1>2. /\ filters \in Seq(Block) /\ outbuf \in Seq(Marked) /\ outbuf # <<>>
      /\ Len(outbuf) \in Nat /\ tot \in Nat
  BY <1>1 DEF ReaderInv, ReaderTypeOK, StepInv
<1>3. want \in Reads
  BY <1>1 DEF ReaderInv, StepInv
<1>4. /\ outbuf' \in Seq(Marked) /\ Len(outbuf') = Len(outbuf) /\ outbuf' # <<>>
      /\ \A i \in 1..Len(outbuf) : outbuf'[i] # <<>> /\ outbuf'[i][1] = stream[start + tot + i]
  <2>1. \A i \in 1..Len(outbuf) : outbuf[i] # <<>> /\ outbuf[i][1] = stream[start + tot + i]
    BY DEF ReaderInv, PlaceInv, InPlace
  <2>2. CASE outbuf' = outbuf
    BY <1>2, <2>1, <2>2
  <2>3. CASE outbuf' = Apply(filters[1], outbuf) /\ filters # <<>>
    <3>1. filters[1].id \in Nat
      <4>1. Len(filters) \in Nat \ {0}
        BY <1>2, <2>3, EmptySeq
      <4>2. filters[1] \in Block
        BY <1>2, <4>1, ElementOfSeq
      <4> QED
        BY <4>2 DEF Block
    <3> DEFINE f == filters[1]
    <3> HIDE DEF f
    <3>2. /\ Apply(f, outbuf) \in Seq(Marked) /\ Len(Apply(f, outbuf)) = Len(outbuf)
          /\ \A i \in 1..Len(outbuf) :
                Apply(f, outbuf)[i] # <<>> /\ Apply(f, outbuf)[i][1] = outbuf[i][1]
      BY <1>2, <2>1, <3>1, ApplyKeeps DEF f
    <3>3. outbuf' = Apply(f, outbuf)
      BY <2>3 DEF f
    <3>4. Len(outbuf) # 0
      BY <1>2, EmptySeq
    <3>5. outbuf' # <<>>
      BY <3>2, <3>3, <3>4
    <3> QED
      BY <2>1, <3>2, <3>3, <3>5
  <2> QED
    BY <1>1, <2>2, <2>3
<1>5. filters' \in Seq(Block)
  <2>1. filters # <<>> => Tail(filters) \in Seq(Block)
    BY <1>2, HeadTailProperties
  <2>2. filters # <<>> => <<Behind(filters[1], Len(outbuf))>> \o Tail(filters) \in Seq(Block)
    BY <1>2, BehindKeeps
  <2> QED
    BY <1>1, <1>2, <2>1, <2>2
<1>6. /\ res' \in {res, "invalid"}
      /\ pc' \in {"deliver", "ended", "chain"}
  BY <1>1
<1>7. ReaderTypeOK'
  BY <1>1, <1>4, <1>5, <1>6 DEF ReaderInv, ReaderTypeOK
<1>8. RingOK(win', stream')
  BY <1>1 DEF ReaderInv
<1>9. CountInv'
  BY <1>1, <1>4 DEF ReaderInv, CountInv, Decoded
<1>10. PlaceInv'
  <2>1. InPlace(out, start)'
    BY <1>1 DEF ReaderInv, PlaceInv, InPlace
  <2>2. InPlace(outbuf, start + tot)'
    BY <1>1, <1>4 DEF InPlace
  <2> QED
    BY <2>1, <2>2 DEF PlaceInv
<1>11. EndInv'
  BY <1>1, <1>2, <1>6 DEF ReaderInv, EndInv
<1>12. StepInv'
  BY <1>1, <1>3, <1>4, <1>6 DEF StepInv
<1> QED
  BY <1>7, <1>8, <1>9, <1>10, <1>11, <1>12 DEF ReaderInv

\* A Read that returns without an error returns something.
LEMMA DeliverCounts ==
    ASSUME ReaderInv, pc = "deliver"
    PROVE  /\ want \in Nat \ {0}
           /\ outbuf # <<>> => Smaller(want, Len(outbuf)) \in 1..Len(outbuf)
           /\ outbuf = <<>> => Smaller(Limit, Buffered(win)) \in 1..Buffered(win)
<1>1. want \in Nat \ {0}
  BY ReaderAssumption DEF ReaderInv, StepInv
<1>2. ASSUME outbuf # <<>> PROVE Smaller(want, Len(outbuf)) \in 1..Len(outbuf)
  <2>1. Len(outbuf) \in Nat \ {0}
    BY <1>2, EmptySeq DEF ReaderInv, ReaderTypeOK
  <2> QED
    BY <1>1, <2>1 DEF Smaller
<1>3. ASSUME outbuf = <<>> PROVE Smaller(Limit, Buffered(win)) \in 1..Buffered(win)
  <2>1. ~ Empty /\ (filters # <<>> => filters[1].offset > 0)
    BY <1>3 DEF ReaderInv, StepInv
  <2>2. Buffered(win) \in Nat \ {0}
    <3>1. IsWindow(win)
      BY DEF ReaderInv, RingOK
    <3>2. Buffered(win) \in 0..win.size - 1
      BY <3>1, RingSpace
    <3> QED
      BY <2>1, <3>2 DEF Empty
  <2>3. Limit \in Nat \ {0}
    <3>1. CASE filters = <<>>
      BY <1>1, <3>1 DEF Limit
    <3>2. CASE filters # <<>>
      <4>1. filters \in Seq(Block) /\ Len(filters) \in Nat \ {0}
        BY <3>2, EmptySeq DEF ReaderInv, ReaderTypeOK
      <4>2. filters[1] \in Block
        BY <4>1, ElementOfSeq
      <4>3. filters[1].offset \in Nat \ {0}
        BY <2>1, <3>2, <4>2 DEF Block
      <4> QED
        BY <1>1, <4>3 DEF Limit
    <3> QED
      BY <3>1, <3>2
  <2> QED
    BY <2>2, <2>3 DEF Smaller
<1> QED
  BY <1>1, <1>2, <1>3

\* What is returned goes on where the last Read stopped.
LEMMA ReturnedInPlace ==
    ASSUME ReaderInv, NEW bytes \in Seq(Marked),
           \A i \in 1..Len(bytes) : bytes[i] # <<>> /\ bytes[i][1] = stream[start + tot + i]
    PROVE  /\ out \o bytes \in Seq(Marked) /\ Len(out \o bytes) = tot + Len(bytes)
           /\ InPlace(out \o bytes, start)
<1> DEFINE o == out \o bytes
<1>1. /\ out \in Seq(Marked) /\ Len(out) = tot /\ tot \in Nat /\ start \in Nat
      /\ Len(bytes) \in Nat
  BY DEF ReaderInv, ReaderTypeOK, CountInv
<1>2. /\ o \in Seq(Marked) /\ Len(o) = tot + Len(bytes)
      /\ \A i \in 1..tot + Len(bytes) : o[i] = IF i <= tot THEN out[i] ELSE bytes[i - tot]
  <2>1. /\ o \in Seq(Marked) /\ Len(o) = Len(out) + Len(bytes)
        /\ \A i \in 1..Len(out) + Len(bytes) :
              o[i] = IF i <= Len(out) THEN out[i] ELSE bytes[i - Len(out)]
    BY <1>1, ConcatProperties
  <2> HIDE DEF o
  <2> QED
    BY <1>1, <2>1
<1> HIDE DEF o
<1>3. \A i \in 1..Len(out) : out[i] # <<>> /\ out[i][1] = stream[start + i]
  BY DEF ReaderInv, PlaceInv, InPlace
<1>4. ASSUME NEW i \in 1..Len(o) PROVE o[i] # <<>> /\ o[i][1] = stream[start + i]
  <2>1. CASE i <= tot
    <3>1. i \in 1..Len(out) /\ o[i] = out[i]
      BY <1>1, <1>2, <2>1
    <3> QED
      BY <1>3, <3>1
  <2>2. CASE ~ (i <= tot)
    <3> DEFINE j == i - tot
    <3>1. j \in 1..Len(bytes) /\ start + tot + j = start + i /\ o[i] = bytes[j]
      BY <1>1, <1>2, <2>2
    <3> HIDE DEF j
    <3>2. bytes[j] # <<>> /\ bytes[j][1] = stream[start + tot + j]
      BY <3>1
    <3> QED
      BY <3>1, <3>2
  <2> QED
    BY <2>1, <2>2
<1> QED
  BY <1>2, <1>4 DEF InPlace, o

LEMMA DeliverStep ==
    ASSUME ReaderInv, Deliver
    PROVE  ReaderInv'
<1> DEFINE n == IF outbuf # <<>> THEN Smaller(want, Len(outbuf))
                ELSE Smaller(Limit, Buffered(win))
<1>1. /\ pc = "deliver" /\ res' = "nil" /\ pc' = "idle" /\ tot' = tot + n
      /\ outbuf # <<>> =>
            /\ out' = out \o SubSeq(outbuf, 1, n)
            /\ outbuf' = SubSeq(outbuf, n + 1, Len(outbuf))
            /\ UNCHANGED <<win, filters>>
      /\ outbuf = <<>> =>
            /\ out' = out \o Tokens(Unread(win, n))
            /\ win' = AfterRead(win, n)
            /\ filters' = (IF filters = <<>> THEN filters
                           ELSE <<Behind(filters[1], n)>> \o Tail(filters))
            /\ UNCHANGED outbuf
      /\ UNCHANGED <<fl, err, eof, want, stream, start, plan, files>>
  BY DEF Deliver
<1>2. /\ outbuf # <<>> => n \in 1..Len(outbuf)
      /\ outbuf = <<>> => n \in 1..Buffered(win)
  BY <1>1, DeliverCounts
<1> HIDE DEF n
<1>3. /\ filters \in Seq(Block) /\ outbuf \in Seq(Marked) /\ tot \in Nat /\ start \in Nat
      /\ Len(outbuf) \in Nat
      /\ \A i \in 1..Len(outbuf) : outbuf[i] # <<>> /\ outbuf[i][1] = stream[start + tot + i]
  BY DEF ReaderInv, ReaderTypeOK, PlaceInv, InPlace
<1>4. EndInv' /\ StepInv'
  BY <1>1 DEF ReaderInv, EndInv, StepInv
<1>5. CASE outbuf # <<>>
  <2> DEFINE head == SubSeq(outbuf, 1, n)
             tail == SubSeq(outbuf, n + 1, Len(outbuf))
  <2>1. n \in Nat \ {0} /\ n <= Len(outbuf)
    BY <1>2, <1>3, <1>5
  <2>2. /\ head \in Seq(Marked) /\ Len(head) = n
        /\ \A i \in 1..n : head[i] = outbuf[i]
    <3> HIDE DEF head
    <3>1. head = SubSeq(outbuf, 1, n)
      BY DEF head
    <3> QED
      BY <1>3, <2>1, <3>1
  <2>3. /\ tail \in Seq(Marked) /\ Len(tail) = Len(outbuf) - n
        /\ \A i \in 1..Len(outbuf) - n : tail[i] = outbuf[n + i]
    <3> HIDE DEF tail
    <3>1. tail = SubSeq(outbuf, n + 1, Len(outbuf))
      BY DEF tail
    <3> QED
      BY <1>3, <2>1, <3>1
  <2>4. out' = out \o head /\ outbuf' = tail
    BY <1>1, <1>5
  <2> HIDE DEF head, tail
  <2>5. \A i \in 1..Len(head) : head[i] # <<>> /\ head[i][1] = stream[start + tot + i]
    <3>1. \A i \in 1..Len(head) : i \in 1..Len(outbuf) /\ i \in 1..n
      BY <1>3, <2>1, <2>2
    <3>2. \A i \in 1..Len(head) : head[i] = outbuf[i]
      BY <2>2, <3>1
    <3> QED
      BY <1>3, <3>1, <3>2
  <2>6. out' \in Seq(Marked) /\ Len(out') = tot' /\ InPlace(out', start)
    BY <1>1, <2>2, <2>4, <2>5, ReturnedInPlace
  <2>7. \A i \in 1..Len(outbuf') : outbuf'[i] # <<>> /\ outbuf'[i][1] = stream[start + tot' + i]
    <3> SUFFICES ASSUME NEW i \in 1..Len(outbuf')
                 PROVE  outbuf'[i] # <<>> /\ outbuf'[i][1] = stream[start + tot' + i]
      OBVIOUS
    <3> DEFINE j == n + i
    <3>1. j \in 1..Len(outbuf) /\ start + tot + j = start + tot' + i /\ outbuf'[i] = outbuf[j]
      BY <1>1, <1>3, <2>1, <2>3, <2>4
    <3> HIDE DEF j
    <3> QED
      BY <1>3, <3>1
  <2>8. ReaderTypeOK'
    <3>1. tot' \in Nat
      BY <1>1, <1>3, <2>1
    <3> QED
      BY <1>1, <1>5, <2>3, <2>4, <2>6, <3>1 DEF ReaderInv, ReaderTypeOK
  <2>9. RingOK(win', stream')
    BY <1>1, <1>5 DEF ReaderInv
  <2>10. CountInv'
    <3>1. Decoded = tot + Len(outbuf) + Buffered(win) + win.l
      BY DEF ReaderInv, CountInv
    <3>2. tot' + Len(outbuf') = tot + Len(outbuf)
      <4> DEFINE t == tot'
                 k == Len(outbuf')
                 c == Len(outbuf)
      <4>1. t = tot + n /\ k = c - n /\ c \in Nat
        BY <1>1, <1>3, <2>3, <2>4
      <4> HIDE DEF t, k, c
      <4>2. t + k = tot + c
        BY <1>3, <2>1, <4>1
      <4> QED
        BY <4>2 DEF t, k, c
    <3>3. Decoded' = tot' + Len(outbuf') + Buffered(win') + win'.l
      BY <1>1, <1>5, <3>1, <3>2 DEF Decoded
    <3> QED
      BY <2>6, <3>3 DEF CountInv
  <2>11. PlaceInv'
    BY <1>1, <2>6, <2>7 DEF PlaceInv, InPlace
  <2> QED
    BY <1>4, <2>8, <2>9, <2>10, <2>11 DEF ReaderInv
<1>6. CASE outbuf = <<>>
  <2> DEFINE u == Unread(win, n)
             v == Tokens(u)
  <2>1. n \in 1..Buffered(win)
    BY <1>2, <1>6
  <2>2. /\ n \in Nat \ {0} /\ u \in Seq(Nat) /\ Len(u) = n
        /\ \A k \in 1..n : u[k] = stream[start + tot + k]
        /\ RingOK(AfterRead(win, n), stream)
        /\ Decoded = tot + n + Buffered(AfterRead(win, n)) + AfterRead(win, n).l
    BY <1>6, <2>1, UnreadInPlace
  <2>3. win' = AfterRead(win, n) /\ out' = out \o v /\ outbuf' = <<>>
    BY <1>1, <1>6
  <2> HIDE DEF u
  <2>4. /\ v \in Seq(Marked) /\ Len(v) = n
        /\ \A i \in 1..n : v[i] # <<>> /\ v[i][1] = u[i]
    BY <2>2, TokensKeep
  <2> HIDE DEF v
  <2>5. \A i \in 1..Len(v) : v[i] # <<>> /\ v[i][1] = stream[start + tot + i]
    BY <2>2, <2>4
  <2>6. out' \in Seq(Marked) /\ Len(out') = tot' /\ InPlace(out', start)
    BY <1>1, <2>3, <2>4, <2>5, ReturnedInPlace
  <2>7. filters' \in Seq(Block)
    <3>1. filters # <<>> => <<Behind(filters[1], n)>> \o Tail(filters) \in Seq(Block)
      BY <1>3, <2>2, BehindKeeps
    <3> QED
      BY <1>1, <1>3, <1>6, <3>1
  <2>8. ReaderTypeOK'
    <3>1. tot' \in Nat
      <4>1. tot' = tot + n /\ tot \in Nat /\ n \in Nat
        BY <1>1, <1>3, <2>2
      <4> QED
        BY <4>1
    <3>2. /\ UNCHANGED <<fl, err, eof, want, stream, start, plan, files>>
          /\ res' = "nil" /\ pc' = "idle"
      BY <1>1
    <3>3. outbuf' \in Seq(Marked)
      BY <1>3, <1>6, <2>3
    <3>4. out' \in Seq(Marked)
      BY <2>6
    <3> QED
      BY <2>7, <3>1, <3>2, <3>3, <3>4 DEF ReaderInv, ReaderTypeOK
  <2>9. RingOK(win', stream')
    BY <1>1, <2>2, <2>3
  <2>10. CountInv'
    <3>1. Len(outbuf') = 0 /\ tot' \in Nat
      BY <1>1, <1>3, <2>2, <2>3
    <3>2. Decoded = tot' + Buffered(win') + win'.l
      BY <1>1, <2>2, <2>3
    <3>3. tot' + Len(outbuf') = tot'
      <4> DEFINE t == tot'
                 k == Len(outbuf')
      <4>1. k = 0 /\ t \in Nat
        BY <3>1
      <4> HIDE DEF t, k
      <4>2. t + k = t
        BY <4>1
      <4> QED
        BY <4>2 DEF t, k
    <3>4. Decoded' = tot' + Len(outbuf') + Buffered(win') + win'.l
      BY <1>1, <3>2, <3>3 DEF Decoded
    <3> QED
      BY <2>6, <3>4 DEF CountInv
  <2>11. PlaceInv'
    <3>1. 1..Len(outbuf') = {}
      BY <2>3
    <3> QED
      BY <1>1, <2>6, <3>1 DEF PlaceInv, InPlace
  <2> QED
    BY <1>4, <2>8, <2>9, <2>10, <2>11 DEF ReaderInv
<1> QED
  BY <1>5, <1>6

\* After the end of a file the window holds nothing more of it.
LEMMA NothingLeft ==
    ASSUME ReaderInv, res = "EOF"
    PROVE  Buffered(win) = 0 /\ win.l = 0 /\ Len(outbuf) = 0 /\ Len(out) = Decoded
<1>1. Buffered(win) = 0 /\ outbuf = <<>>
  BY DEF ReaderInv, EndInv, Empty
<1>2. win.l = 0
  <2>1. IsWindow(win) /\ (win.l > 0 => Buffered(win) = win.size - 1)
    BY DEF ReaderInv, RingOK
  <2>2. win.l \in Nat /\ win.size \in Nat \ {0, 1}
    BY <2>1 DEF IsWindow
  <2> QED
    BY <1>1, <2>1, <2>2
<1>3. Len(outbuf) = 0
  BY <1>1
<1>4. Len(out) = tot /\ tot \in Nat /\ Decoded = tot + Len(outbuf) + Buffered(win) + win.l
  BY DEF ReaderInv, CountInv, ReaderTypeOK
<1>5. Len(out) = Decoded
  <2> DEFINE k == Len(outbuf)
             b == Buffered(win)
             l == win.l
             t == Len(out)
  <2>1. k = 0 /\ b = 0 /\ l = 0 /\ t = tot /\ tot \in Nat /\ Decoded = tot + k + b + l
    BY <1>1, <1>2, <1>3, <1>4
  <2> HIDE DEF k, b, l, t
  <2>2. t = Decoded
    BY <2>1
  <2> QED
    BY <2>2 DEF t
<1> QED
  BY <1>1, <1>2, <1>3, <1>5

LEMMA NextFileStep ==
    ASSUME ReaderInv, ~ Abandon, NEW solid \in BOOLEAN, NEW size \in Sizes,
           NextFile(solid, size)
    PROVE  ReaderInv'
<1>1. /\ res = "EOF" /\ files' = files + 1
      /\ win' = (IF solid THEN Continued(win, size) ELSE Cleared(win, size))
      /\ filters' = (IF solid THEN filters ELSE <<>>)
      /\ err' = "nil" /\ outbuf' = <<>> /\ tot' = 0 /\ eof' = FALSE
      /\ stream' = (IF solid THEN stream ELSE <<>>)
      /\ start' = Len(stream')
      /\ plan' = <<>> /\ out' = <<>>
      /\ pc' = "idle" /\ res' = "nil"
      /\ UNCHANGED <<fl, want>>
  BY DEF NextFile, Cleared, Continued
<1>2. win.l = 0 /\ RingOK(win, stream) /\ stream \in Seq(Nat)
  BY <1>1, NothingLeft DEF ReaderInv, ReaderTypeOK
<1>3. IsWindow(win) /\ win.size \in Sizes
  BY <1>2 DEF RingOK
<1>4. RingOK(win', stream') /\ win'.l = 0 /\ Buffered(win') = 0
  <2>1. CASE solid
    <3>1. win' = Continued(win, size) /\ stream' = stream
      BY <1>1, <2>1
    <3> QED
      BY <1>2, <3>1, KeepRing
  <2>2. CASE ~ solid
    <3>1. win' = Cleared(win, size) /\ stream' = <<>>
      BY <1>1, <2>2
    <3>2. RingOK(win', <<>>) /\ win'.l = 0 /\ Buffered(win') = 0
      BY <1>2, <1>3, <3>1, ClearRing
    <3> QED
      BY <3>1, <3>2
  <2> QED
    BY <2>1, <2>2
<1>5. stream' \in Seq(Nat) /\ Len(stream') \in Nat /\ filters' \in Seq(Block)
  <2>1. stream' \in Seq(Nat)
    BY <1>1, <1>2, EmptySeq
  <2>2. filters' \in Seq(Block)
    BY <1>1, EmptySeq DEF ReaderInv, ReaderTypeOK
  <2> QED
    BY <2>1, <2>2
<1>6. ReaderTypeOK'
  <2>1. /\ outbuf' \in Seq(Marked) /\ out' \in Seq(Marked)
        /\ plan' \in Seq(Announced)
    BY <1>1, EmptySeq
  <2>2. start' \in 0..Len(stream')
    BY <1>1, <1>5
  <2>3. /\ fl' \in Seq(Block) /\ \A i \in 1..Len(fl') : fl'[i].length \in Blocks
        /\ want' \in Reads \cup {0} /\ files' \in Nat
    BY <1>1 DEF ReaderInv, ReaderTypeOK
  <2>4. /\ tot' \in Nat /\ eof' \in BOOLEAN
        /\ err' \in {"nil", "EOF", "corrupt", "tooMany", "invalid"}
        /\ res' \in {"nil", "EOF", "corrupt", "tooMany", "invalid"}
        /\ pc' \in {"idle", "fill", "queue", "filter", "chain", "deliver", "ended"}
    BY <1>1
  <2> QED
    BY <1>5, <2>1, <2>2, <2>3, <2>4 DEF ReaderTypeOK
<1>7. CountInv'
  <2>1. Len(out') = 0 /\ Len(outbuf') = 0 /\ tot' = 0
    BY <1>1
  <2>2. Len(stream') - start' = 0
    BY <1>1, <1>5
  <2>3. Decoded' = tot' + Len(outbuf') + Buffered(win') + win'.l
    <3> DEFINE k == Len(outbuf')
               b == Buffered(win')
               l == win'.l
               t == tot'
    <3>1. k = 0 /\ b = 0 /\ l = 0 /\ t = 0
      BY <1>4, <2>1
    <3> HIDE DEF k, b, l, t
    <3>2. t + k + b + l = 0
      BY <3>1
    <3> QED
      BY <2>2, <3>2 DEF k, b, l, t, Decoded
  <2> QED
    BY <2>1, <2>3 DEF CountInv
<1>8. PlaceInv'
  <2>1. 1..Len(out') = {} /\ 1..Len(outbuf') = {}
    BY <1>1
  <2> QED
    BY <2>1 DEF PlaceInv, InPlace
<1>9. EndInv' /\ StepInv'
  BY <1>1 DEF EndInv, StepInv
<1> QED
  BY <1>4, <1>6, <1>7, <1>8, <1>9 DEF ReaderInv

\* All but the mark of a panic.
Unpanicked == <<win, filters, fl, outbuf, tot, err, eof, pc, want, res,
                stream, start, plan, astray, out, files>>

LEMMA ReaderStutter ==
    ASSUME ReaderInv, UNCHANGED Unpanicked
    PROVE  ReaderInv'
BY DEF Unpanicked, ReaderInv, ReaderTypeOK, CountInv, PlaceInv, InPlace,
       EndInv, StepInv, Decoded, Empty, RingOK

\* A panic, and what follows it, changes nothing else.
LEMMA PanicChangesNothing ==
    ASSUME UNCHANGED vars \/ FilterPanics
    PROVE  UNCHANGED Unpanicked
BY DEF vars, FilterPanics, Fileless, Unpanicked

LEMMA ReaderNext ==
    ASSUME ReaderInv, ~ Abandon, Next
    PROVE  ReaderInv'
<1>1. CASE UNCHANGED vars \/ FilterPanics
  BY <1>1, PanicChangesNothing, ReaderStutter
<1>2. CASE Works
  <2>1. ASSUME Finished PROVE ReaderInv'
    BY <1>1, <2>1 DEF Finished
  <2> QED
    BY <1>2, <2>1, ReadStep, LiteralStep, MatchStep, FilterBlockStep, FillEndsStep, QueueStep,
       FilledStep, FilterHeadStep, FilterChainStep, DeliverStep, NextFileStep DEF Works
<1> QED
  BY <1>1, <1>2 DEF Next

\* The invariant, of files read to their end: reset keeps the length of a copy
\* that waits, which a file left before its end may leave behind.
THEOREM ReaderInvariance ==
    ASSUME ~ Abandon
    PROVE  Spec => []ReaderInv
<1>1. Init => ReaderInv
  BY ReaderInit
<1>2. ReaderInv /\ [Next]_vars => ReaderInv'
  BY ReaderNext, ReaderStutter, PanicChangesNothing
<1> QED
  BY <1>1, <1>2, PTL DEF Spec

\* However the ring wraps, and whether a match was finished at once or after a
\* read made room: the window ends with what the stream ends with, as far back
\* as a match may reach (decode_reader.go writeByte, copyBytes, read, reset).
THEOREM StreamHeld ==
    ASSUME ~ Abandon
    PROVE  Spec => []WindowHoldsStream
<1>1. ReaderInv => WindowHoldsStream
  <2> SUFFICES ASSUME ReaderInv, NEW s \in Sizes, NEW d \in 1..s,
                      \A t \in Sizes : s <= t, d <= Len(stream) - win.l
               PROVE  win.buf[(win.w - d) % win.size] = stream[(Len(stream) - win.l) - d + 1]
    BY DEF WindowHoldsStream
  <2> DEFINE m == Len(stream) - win.l
             i == m - d + 1
  <2>1. d \in Near
    <3>1. s \in Nat /\ \A t \in Sizes : t \in Nat /\ s <= t
      BY ReaderAssumption
    <3>2. d \in Nat \ {0} /\ d <= s
      BY <3>1
    <3> QED
      BY <3>1, <3>2 DEF Near
  <2>2. d \in Held(win, stream, m)
    BY <2>1 DEF ReaderInv, RingOK
  <2>3. i > 0
    <3>1. Len(stream) \in Nat /\ win.l \in Nat /\ d \in Nat
      BY <2>1 DEF ReaderInv, ReaderTypeOK, RingOK, IsWindow, Near
    <3> QED
      BY <3>1
  <2>4. win.buf[(win.w - d) % win.size] = At(stream, i)
    BY <2>2 DEF Held
  <2> HIDE DEF i
  <2>5. At(stream, i) = stream[i]
    BY <2>3 DEF At
  <2> QED
    BY <2>4, <2>5 DEF i
<1> QED
  BY <1>1, ReaderInvariance, PTL

\* The end of a file is reported after its last byte: whatever the decoder
\* wrote was returned, however the filters split it (decode_reader.go Read).
THEOREM AllReturned ==
    ASSUME ~ Abandon
    PROVE  Spec => []EndsComplete
<1>1. ReaderInv => EndsComplete
  BY NothingLeft DEF EndsComplete
<1> QED
  BY <1>1, ReaderInvariance, PTL

\* The i-th byte the caller was given is the i-th byte of the file, whatever
\* filters marked it.
BytesInPlace == Len(out) <= Decoded /\ InPlace(out, start)

LEMMA BytesPlaced ==
    ASSUME ReaderInv
    PROVE  BytesInPlace
<1>1. IsWindow(win)
  BY DEF ReaderInv, RingOK
<1>2. Buffered(win) \in 0..win.size - 1 /\ win.size \in Nat /\ win.l \in Nat
  BY <1>1, RingSpace DEF IsWindow
<1>3. /\ Len(out) = tot /\ tot \in Nat /\ Len(outbuf) \in Nat
      /\ Decoded = tot + Len(outbuf) + Buffered(win) + win.l
  BY DEF ReaderInv, CountInv, ReaderTypeOK
<1>4. Len(out) <= Decoded
  <2> DEFINE k == Len(outbuf)
             b == Buffered(win)
             l == win.l
             t == Len(out)
  <2>1. k \in Nat /\ b \in Nat /\ l \in Nat /\ t = tot /\ tot \in Nat /\ Decoded = tot + k + b + l
    BY <1>2, <1>3
  <2> HIDE DEF k, b, l, t
  <2>2. t <= Decoded
    BY <2>1
  <2> QED
    BY <2>2 DEF t
<1> QED
  BY <1>4 DEF ReaderInv, PlaceInv, BytesInPlace

\* No byte is lost, repeated or given out of order, by damaged or misplaced
\* filter blocks either (decode_reader.go Read, processFilters, bytes).
THEOREM InOrder ==
    ASSUME ~ Abandon
    PROVE  Spec => []BytesInPlace
<1>1. ReaderInv => BytesInPlace
  BY BytesPlaced
<1> QED
  BY <1>1, ReaderInvariance, PTL

LEMMA ProgressStep ==
    ASSUME ReaderInv, ReaderInv', Works, pc \in {"queue", "deliver"}
    PROVE  ~ ReturnsNothing
<1>1. CASE Filled
  BY <1>1 DEF Filled, Fails, NothingDecoded, ReaderInv, StepInv, ReturnsNothing
<1>2. CASE Queue
  BY <1>2 DEF Queue, ReturnsNothing
<1>3. CASE Deliver
  <2>1. pc = "deliver" /\ tot' = tot + (IF outbuf # <<>> THEN Smaller(want, Len(outbuf))
                                        ELSE Smaller(Limit, Buffered(win)))
    BY <1>3 DEF Deliver
  <2>2. (IF outbuf # <<>> THEN Smaller(want, Len(outbuf))
         ELSE Smaller(Limit, Buffered(win))) \in Nat \ {0}
    <3>1. Len(outbuf) \in Nat
      BY DEF ReaderInv, ReaderTypeOK
    <3>2. Buffered(win) \in Nat
      <4>1. IsWindow(win)
        BY DEF ReaderInv, RingOK
      <4>2. Buffered(win) \in 0..win.size - 1
        BY <4>1, RingSpace
      <4> QED
        BY <4>2
    <3>3. /\ outbuf # <<>> => Smaller(want, Len(outbuf)) \in 1..Len(outbuf)
          /\ outbuf = <<>> => Smaller(Limit, Buffered(win)) \in 1..Buffered(win)
      BY <2>1, DeliverCounts
    <3> QED
      BY <3>1, <3>2, <3>3
  <2>3. tot \in Nat /\ Len(out) = tot /\ Len(out') = tot'
    BY DEF ReaderInv, ReaderTypeOK, CountInv
  <2>4. tot' # tot
    BY <2>1, <2>2, <2>3
  <2> QED
    BY <2>3, <2>4 DEF ReturnsNothing
<1>4. CASE \E solid \in BOOLEAN, size \in Sizes : NextFile(solid, size)
  <2>1. files' = files + 1 /\ files \in Nat
    BY <1>4 DEF NextFile, ReaderInv, ReaderTypeOK
  <2> QED
    BY <2>1 DEF ReturnsNothing
<1> QED
  BY <1>1, <1>2, <1>3, <1>4
     DEF Works, Read, Literal, Match, FilterBlock, Filling, FillEnds, FilterHead,
         FilterChain, Finished

\* A Read that reports no error returns bytes: the caller cannot spin
\* (decode_reader.go Read, whose fill either makes the window non-empty or
\* fails, and whose limit is above 0 once the filters of the place are done).
THEOREM Progress ==
    ASSUME ~ Abandon
    PROVE  Spec => ReadProgresses
<1>1. ReaderInv /\ ReaderInv' /\ [Next]_vars
         => [(pc \in {"queue", "deliver"}) => ~ ReturnsNothing]_vars
  BY ProgressStep DEF Next, FilterPanics, Filling
<1> QED
  BY <1>1, ReaderInvariance, PTL DEF Spec, ReadProgresses

-----------------------------------------------------------------------------
(* The filters.  Whatever blocks the decoder announces, a well-formed file   *)
(* is returned with every byte passed through exactly the filters planned    *)
(* for it, and is never refused because of them.                             *)

\* The bytes of the file that were taken from the window.
Taken == tot + Len(outbuf)

\* The place the offset of the first queued block counts from: processFilters
\* moves it on when the filters of a place are done.
From == IF pc = "chain" THEN tot ELSE Taken

\* The announced blocks that fill has handed on.
Settled == Len(plan) - Len(fl)

\* Block k is queued.
Waits(k) == \E i \in 1..Len(filters) : filters[i].id = k

\* Blocks that fill collects are the last announced, where they were announced.
CollectInv ==
    /\ fl # <<>> => pc \in {"fill", "queue"}
    /\ Len(fl) <= Len(plan)
    /\ \A k \in 1..Len(plan) : plan[k].length \in Blocks
    /\ \A m \in 1..Len(fl) :
          /\ fl[m].id = Settled + m
          /\ fl[m].length = plan[Settled + m].length
          /\ fl[m].offset = plan[Settled + m].at - tot
          /\ plan[Settled + m].at >= tot

\* Only later blocks drop a block, and one that is collected still has
\* dropped what is not read yet.
DropInv ==
    /\ \A k \in 1..Len(plan) :
          /\ plan[k].dropped # 0 => plan[k].dropped \in k + 1..Len(plan)
          /\ plan[k].dropped > Settled => fl[plan[k].dropped - Settled].reset
    /\ \A m \in 1..Len(fl) : fl[m].reset =>
          \A k \in 1..Settled + m - 1 : plan[k].at >= tot => plan[k].dropped # 0

\* A queued block is the announced one, and in force until a collected reset.
QueuedBlock(i) ==
    /\ filters[i].id \in 1..Settled
    /\ filters[i].length = plan[filters[i].id].length
    /\ plan[filters[i].id].dropped # 0 => plan[filters[i].id].dropped > Settled

\* The place the offset of the i-th queued block counts from.
Before(i) == IF i = 1 THEN From ELSE plan[filters[i - 1].id].at

QueueInv ==
    /\ \A i \in 1..Len(filters) : QueuedBlock(i)
    /\ \A i, j \in 1..Len(filters) : i < j =>
          /\ filters[i].id < filters[j].id
          /\ plan[filters[i].id].at <= plan[filters[j].id].at
    /\ \A i \in 1..Len(filters) :
          /\ filters[i].offset = plan[filters[i].id].at - Before(i)
          /\ filters[i].offset >= 0

\* No block is lost: one that is not queued is done, before those that are.
DoneInv ==
    \A k \in 1..Settled : plan[k].dropped = 0 /\ ~ Waits(k)
        => /\ Ends(k) <= Taken
           /\ \A i \in 1..Len(filters) : k < filters[i].id

\* While filters take each other's output, it is one block's.
ChainInv ==
    pc = "chain" => \E k \in Planned :
        /\ plan[k].at = tot /\ plan[k].length = Len(outbuf)
        /\ ~ Waits(k)

\* The marks of a byte are those of the blocks, in order.
Marks(byte, blocks) ==
    /\ \A j \in 2..Len(byte) - 1 : byte[j][1] < byte[j + 1][1]
    /\ {byte[j] : j \in 2..Len(byte)} = {<<k, plan[k].at>> : k \in blocks}

\* The blocks over the i-th byte that are not queued.
Passed(i) == {k \in Covering(i) : ~ Waits(k)}

MarksInv ==
    /\ \A i \in 1..Len(out) : Marks(out[i], Covering(i))
    /\ \A i \in 1..Len(outbuf) : Marks(outbuf[i], Passed(tot + i))

\* Blocks that begin before what is taken are equal or apart.  Those are not
\* dropped any more: what was wrong here stays wrong.
TakenApart ==
    \A i, j \in Planned :
        i < j /\ plan[i].at < Taken /\ plan[j].at < Taken => ApartOrEqual(i, j)

Refused == err = "invalid" \/ res = "invalid"

\* So far nothing was wrong with the blocks.
Sound == ~ astray /\ ~ Refused /\ TakenApart

\* An error was reported.
Stopped == pc = "ended" /\ res # "EOF"

SoundInv ==
    Sound => /\ ~ Stopped => QueueInv /\ DoneInv /\ ChainInv
             /\ MarksInv

\* fill goes on until the window is full, and a filter gets what it needs.
FillInv ==
    /\ pc = "queue" => err # "nil" \/ Available(win) = 0
    /\ pc = "filter" => err # "nil" \/ Available(win) = 0 \/ ~ NeedsMore
    /\ res = "invalid" => pc = "ended"

RefusedInv == Refused => ~ WellFormed

FilterInv ==
    /\ ReaderInv
    /\ CollectInv /\ DropInv /\ SoundInv /\ FillInv /\ RefusedInv

LEMMA WellFormedSound ==
    ASSUME FilterInv, WellFormed
    PROVE  Sound
BY DEF FilterInv, RefusedInv, WellFormed, Sound, TakenApart

-----------------------------------------------------------------------------
(* What a step that leaves the blocks alone keeps. *)

LEMMA SameBlocks ==
    ASSUME FilterInv, UNCHANGED <<plan, fl, tot>>,
           fl # <<>> => pc' \in {"fill", "queue"}
    PROVE  CollectInv' /\ DropInv' /\ Settled' = Settled
BY DEF FilterInv, CollectInv, DropInv, Settled

LEMMA SameQueue ==
    ASSUME QueueInv, DoneInv, UNCHANGED <<plan, filters>>, Settled' = Settled,
           From' = From, Taken <= Taken', Taken \in Int, Taken' \in Int,
           \A k \in 1..Settled : Ends(k) \in Int
    PROVE  QueueInv' /\ DoneInv'
<1>1. QueueInv'
  BY DEF QueueInv, QueuedBlock, Before
<1>2. DoneInv'
  BY DEF DoneInv, Waits, Ends
<1> QED
  BY <1>1, <1>2

LEMMA SameMarks ==
    ASSUME MarksInv, UNCHANGED <<plan, filters, out, outbuf, tot>>
    PROVE  MarksInv'
BY DEF MarksInv, Marks, Covering, Passed, Waits, Planned, Ends

\* What is wrong stays wrong.
LEMMA SoundBefore ==
    ASSUME Sound', UNCHANGED plan, astray => astray', Refused => Refused',
           Taken \in Int, Taken' \in Int, Taken <= Taken',
           \A k \in DOMAIN plan : plan[k].at \in Int
    PROVE  Sound
<1>1. TakenApart
  <2> SUFFICES ASSUME NEW i \in Planned, NEW j \in Planned,
                      i < j, plan[i].at < Taken, plan[j].at < Taken
               PROVE  ApartOrEqual(i, j)
    BY DEF TakenApart
  <2>1. i \in DOMAIN plan /\ j \in DOMAIN plan
    BY DEF Planned
  <2>2. plan[i].at < Taken' /\ plan[j].at < Taken'
    BY <2>1
  <2>3. Planned' = Planned
    BY DEF Planned
  <2>4. ApartOrEqual(i, j)'
    BY <2>2, <2>3 DEF Sound, TakenApart
  <2> QED
    BY <2>4 DEF ApartOrEqual, Ends
<1> QED
  BY <1>1 DEF Sound

LEMMA SameRefused ==
    ASSUME FilterInv, UNCHANGED <<plan, eof, stream, start>>,
           astray => astray', Refused' => Refused
    PROVE  RefusedInv'
BY DEF FilterInv, RefusedInv, WellFormed, InForce, Planned, ApartOrEqual, Ends, Decoded

LEMMA BlockTypes ==
    ASSUME ReaderInv
    PROVE  /\ Len(plan) \in Nat /\ Len(fl) \in Nat /\ Len(filters) \in Nat
           /\ Len(out) \in Nat /\ Len(outbuf) \in Nat
           /\ tot \in Nat /\ Taken \in Nat /\ tot <= Taken /\ Settled \in Int
           /\ DOMAIN plan = 1..Len(plan)
           /\ \A k \in 1..Len(plan) :
                 /\ plan[k].at \in Int /\ plan[k].length \in Nat \ {0}
                 /\ plan[k].dropped \in Nat /\ Ends(k) \in Int
                 /\ Ends(k) > plan[k].at
           /\ \A m \in 1..Len(fl) :
                 fl[m] \in Block /\ fl[m].offset \in Int /\ fl[m].length \in Nat \ {0}
           /\ \A i \in 1..Len(filters) :
                 /\ filters[i] \in Block /\ filters[i].offset \in Int
                 /\ filters[i].length \in Nat \ {0} /\ filters[i].id \in Nat
<1>1. /\ plan \in Seq(Announced) /\ fl \in Seq(Block) /\ filters \in Seq(Block)
      /\ out \in Seq(Marked) /\ outbuf \in Seq(Marked) /\ tot \in Nat
  BY DEF ReaderInv, ReaderTypeOK
<1>2. \A k \in 1..Len(plan) : plan[k] \in Announced
  BY <1>1, ElementOfSeq
<1>3. \A m \in 1..Len(fl) : fl[m] \in Block
  BY <1>1, ElementOfSeq
<1>4. \A i \in 1..Len(filters) : filters[i] \in Block
  BY <1>1, ElementOfSeq
<1>5. ASSUME NEW k \in 1..Len(plan)
      PROVE  /\ plan[k].at \in Int /\ plan[k].length \in Nat \ {0}
             /\ plan[k].dropped \in Nat /\ Ends(k) \in Int
             /\ Ends(k) > plan[k].at
  <2>1. /\ plan[k].at \in Int /\ plan[k].length \in Nat \ {0}
        /\ plan[k].dropped \in Nat
    BY <1>2 DEF Announced
  <2> QED
    BY <2>1 DEF Ends
<1>6. \A m \in 1..Len(fl) : fl[m].offset \in Int /\ fl[m].length \in Nat \ {0}
  BY <1>3 DEF Block
<1>7. \A i \in 1..Len(filters) :
         /\ filters[i].offset \in Int /\ filters[i].length \in Nat \ {0}
         /\ filters[i].id \in Nat
  BY <1>4 DEF Block
<1>8. Len(plan) \in Nat /\ Len(fl) \in Nat /\ Len(outbuf) \in Nat /\ DOMAIN plan = 1..Len(plan)
  BY <1>1
<1>9. Taken \in Nat /\ tot <= Taken /\ Settled \in Int
  BY <1>1, <1>8 DEF Taken, Settled
<1> QED
  BY <1>1, <1>3, <1>4, <1>5, <1>6, <1>7, <1>8, <1>9

\* A step that leaves the blocks and the bytes taken alone.
LEMMA QuietStep ==
    ASSUME FilterInv,
           UNCHANGED <<plan, fl, tot, filters, out, outbuf, astray>>,
           fl # <<>> => pc' \in {"fill", "queue"},
           pc # "chain", pc' # "chain",
           Refused => Refused', Stopped => Stopped'
    PROVE  CollectInv' /\ DropInv' /\ SoundInv'
<1>1. CollectInv' /\ DropInv' /\ Settled' = Settled
  BY SameBlocks
<1>2. ReaderInv /\ CollectInv /\ SoundInv
  BY DEF FilterInv
<1>3. /\ Taken \in Int /\ Taken' = Taken /\ From' = From
      /\ \A k \in 1..Len(plan) : plan[k].at \in Int /\ Ends(k) \in Int
      /\ DOMAIN plan = 1..Len(plan)
      /\ \A k \in 1..Settled : k \in 1..Len(plan)
  <2>1. Taken' = Taken /\ From' = From
    BY DEF Taken, From
  <2>2. \A k \in 1..Settled : k \in 1..Len(plan)
    BY <1>2, BlockTypes DEF Settled
  <2> QED
    BY <1>2, <2>1, <2>2, BlockTypes
<1>4. ASSUME Sound' PROVE (~ Stopped' => QueueInv' /\ DoneInv' /\ ChainInv') /\ MarksInv'
  <2>1. Sound
    BY <1>3, <1>4, SoundBefore
  <2>2. MarksInv'
    BY <1>2, <2>1, SameMarks DEF SoundInv
  <2>3. ASSUME ~ Stopped' PROVE QueueInv' /\ DoneInv' /\ ChainInv'
    <3>1. QueueInv /\ DoneInv
      BY <1>2, <2>1, <2>3 DEF SoundInv
    <3>2. QueueInv' /\ DoneInv'
      BY <1>1, <1>3, <3>1, SameQueue
    <3>3. ChainInv'
      BY DEF ChainInv
    <3> QED
      BY <3>2, <3>3
  <2> QED
    BY <2>2, <2>3
<1> QED
  BY <1>1, <1>4 DEF SoundInv

LEMMA FilterRead ==
    ASSUME FilterInv, ReaderInv', Read
    PROVE  FilterInv'
<1>1. /\ pc = "idle" \/ (pc = "ended" /\ res = "EOF")
      /\ pc' = IF outbuf # <<>> THEN "deliver"
               ELSE IF Empty \/ NeedsMore THEN "fill"
               ELSE IF filters # <<>> THEN "filter"
               ELSE "deliver"
      /\ UNCHANGED <<win, filters, fl, outbuf, tot, err, eof, res, stream, start,
                     plan, astray, out, files>>
  BY DEF Read, Fileless
<1>2. CollectInv' /\ DropInv' /\ SoundInv'
  <2>1. fl = <<>>
    BY <1>1 DEF FilterInv, CollectInv
  <2>2. ~ Stopped /\ pc # "chain" /\ pc' # "chain" /\ (Refused => Refused')
    BY <1>1 DEF Stopped, Refused
  <2> QED
    BY <1>1, <2>1, <2>2, QuietStep
<1>3. FillInv'
  <2>1. pc' = "filter" => ~ NeedsMore'
    BY <1>1 DEF NeedsMore
  <2>2. res' # "invalid"
    BY <1>1 DEF FilterInv, FillInv
  <2>3. pc' # "queue"
    BY <1>1
  <2> QED
    BY <2>1, <2>2, <2>3 DEF FillInv
<1>4. RefusedInv'
  BY <1>1, SameRefused DEF Refused
<1> QED
  BY <1>2, <1>3, <1>4 DEF FilterInv

\* A literal or a match.
LEMMA FilterGrown ==
    ASSUME FilterInv, ReaderInv', Filling,
           UNCHANGED <<filters, fl, outbuf, tot, err, eof, pc, want, res, start,
                       plan, astray, out, files>>
    PROVE  FilterInv'
<1>1. pc = "fill" /\ err = "nil"
  BY DEF Filling
<1>2. CollectInv' /\ DropInv' /\ SoundInv'
  <2>1. /\ fl # <<>> => pc' \in {"fill", "queue"}
        /\ pc # "chain" /\ pc' # "chain"
        /\ (Refused => Refused') /\ (Stopped => Stopped')
    BY <1>1 DEF Stopped, Refused
  <2> QED
    BY <2>1, QuietStep
<1>3. ~ Refused'
  BY <1>1 DEF FilterInv, FillInv, Refused
<1>4. FillInv' /\ RefusedInv'
  BY <1>1, <1>3 DEF FillInv, RefusedInv, Refused
<1> QED
  BY <1>2, <1>4 DEF FilterInv

LEMMA FilterFillEnds ==
    ASSUME FilterInv, ReaderInv', FillEnds
    PROVE  FilterInv'
<1>1. /\ pc = "fill" /\ pc' = "queue"
      /\ UNCHANGED <<win, filters, fl, outbuf, tot, want, res, stream, start, plan,
                     astray, out, files>>
      /\ err' # "nil" \/ Available(win) = 0
      /\ err # "nil" => UNCHANGED <<err, eof>>
      /\ err' = "invalid" => err = "invalid"
  BY DEF FillEnds, Fileless, Filling
<1>2. res # "invalid"
  BY <1>1 DEF FilterInv, FillInv
<1>3. CollectInv' /\ DropInv' /\ SoundInv'
  <2>1. /\ fl # <<>> => pc' \in {"fill", "queue"}
        /\ pc # "chain" /\ pc' # "chain"
        /\ (Refused => Refused') /\ (Stopped => Stopped')
    BY <1>1 DEF Stopped, Refused
  <2> QED
    BY <1>1, <2>1, QuietStep
<1>4. FillInv'
  BY <1>1, <1>2 DEF FillInv
<1>5. RefusedInv'
  <2>1. CASE err = "invalid"
    BY <1>1, <2>1, SameRefused DEF Refused
  <2>2. CASE err # "invalid"
    BY <1>1, <1>2, <2>2 DEF RefusedInv, Refused
  <2> QED
    BY <2>1, <2>2
<1> QED
  BY <1>3, <1>4, <1>5 DEF FilterInv

LEMMA FilterFilled ==
    ASSUME FilterInv, ReaderInv', Filled
    PROVE  FilterInv'
<1>1. /\ pc = "queue" /\ fl = <<>>
      /\ UNCHANGED <<win, filters, fl, outbuf, tot, eof, want, stream, start, plan,
                     astray, out, files>>
      /\ \/ res' = err /\ err' = "nil" /\ pc' = (IF err = "nil" THEN "idle" ELSE "ended")
         \/ UNCHANGED <<res, err>> /\ pc' \in {"filter", "deliver"}
  BY DEF Filled, Fileless, Fails
<1>2. res # "invalid"
  BY <1>1 DEF FilterInv, FillInv
<1>3. Refused' = Refused
  BY <1>1, <1>2 DEF Refused
<1>4. CollectInv' /\ DropInv' /\ SoundInv'
  <2>1. pc # "chain" /\ pc' # "chain" /\ (Stopped => Stopped')
    BY <1>1 DEF Stopped
  <2> QED
    BY <1>1, <1>3, <2>1, QuietStep
<1>5. FillInv'
  BY <1>1, <1>2 DEF FilterInv, FillInv
<1>6. RefusedInv'
  BY <1>1, <1>3, SameRefused
<1> QED
  BY <1>4, <1>5, <1>6 DEF FilterInv

\* A new file has no blocks.
LEMMA NoBlocks ==
    ASSUME plan = <<>>, fl = <<>>, out = <<>>, outbuf = <<>>, pc = "idle",
           res = "nil", err = "nil", Sound => filters = <<>>
    PROVE  CollectInv /\ DropInv /\ SoundInv /\ FillInv /\ RefusedInv
<1>1. Len(plan) = 0 /\ Len(fl) = 0 /\ Settled = 0
  BY DEF Settled
<1>2. CollectInv /\ DropInv
  BY <1>1 DEF CollectInv, DropInv
<1>3. FillInv /\ RefusedInv
  BY DEF FillInv, RefusedInv, Refused
<1>4. SoundInv
  <2>1. filters = <<>> => QueueInv
    BY DEF QueueInv
  <2>2. DoneInv /\ ChainInv
    BY <1>1 DEF DoneInv, ChainInv
  <2>3. MarksInv
    BY DEF MarksInv
  <2> QED
    BY <2>1, <2>2, <2>3 DEF SoundInv
<1> QED
  BY <1>2, <1>3, <1>4

LEMMA FilterInit ==
    ASSUME Init
    PROVE  FilterInv
<1>1. ReaderInv
  BY ReaderInit
<1>2. /\ plan = <<>> /\ fl = <<>> /\ out = <<>> /\ outbuf = <<>> /\ pc = "idle"
      /\ res = "nil" /\ err = "nil" /\ filters = <<>>
  BY DEF Init
<1> QED
  BY <1>1, <1>2, NoBlocks DEF FilterInv

LEMMA FilterNextFile ==
    ASSUME FilterInv, ReaderInv', ~ Abandon, NEW solid \in BOOLEAN, NEW size \in Sizes,
           NextFile(solid, size)
    PROVE  FilterInv'
<1>1. /\ pc = "ended"
      /\ filters' = (IF solid THEN filters ELSE <<>>)
      /\ err' = "nil" /\ outbuf' = <<>> /\ plan' = <<>> /\ out' = <<>>
      /\ astray' = (solid /\ filters # <<>>)
      /\ pc' = "idle" /\ res' = "nil" /\ fl' = fl
  BY DEF NextFile
<1>2. fl' = <<>>
  BY <1>1 DEF FilterInv, CollectInv
<1>3. Sound' => filters' = <<>>
  BY <1>1 DEF Sound
<1>4. CollectInv' /\ DropInv' /\ SoundInv' /\ FillInv' /\ RefusedInv'
  <2>1. /\ (plan = <<>>)' /\ (fl = <<>>)' /\ (out = <<>>)' /\ (outbuf = <<>>)'
        /\ (pc = "idle")' /\ (res = "nil")' /\ (err = "nil")'
        /\ (Sound => filters = <<>>)'
    BY <1>1, <1>2, <1>3
  <2> QED
    BY <2>1, NoBlocks, PTL
<1> QED
  BY <1>4 DEF FilterInv

-----------------------------------------------------------------------------
(* fill: blocks are announced *)

\* What is announced before keeps its place; a reset drops what is not read.
LEMMA AnnouncedPlan ==
    ASSUME FilterInv, NEW n \in Gaps, NEW len \in Blocks, NEW reset \in Resets,
           FilterBlock(n, len, reset)
    PROVE  /\ Len(plan') = Len(plan) + 1 /\ Len(fl') = Len(fl) + 1 /\ Settled' = Settled
           /\ \A k \in 1..Len(plan) :
                 /\ plan'[k].at = plan[k].at /\ plan'[k].length = plan[k].length
                 /\ plan'[k].dropped = IF reset /\ plan[k].at >= tot /\ plan[k].dropped = 0
                                       THEN Len(plan) + 1 ELSE plan[k].dropped
           /\ plan'[Len(plan) + 1] = [at |-> Decoded + n, length |-> len, dropped |-> 0]
           /\ \A m \in 1..Len(fl) : fl'[m] = fl[m]
           /\ fl'[Len(fl) + 1] = [offset |-> FromReadIndex(n), length |-> len,
                                  reset |-> reset, id |-> Len(plan) + 1]
<1> DEFINE f == [offset |-> FromReadIndex(n), length |-> len,
                 reset |-> reset, id |-> Len(plan) + 1]
           p == [at |-> Decoded + n, length |-> len, dropped |-> 0]
           kept == IF reset THEN Drop(Len(plan) + 1) ELSE plan
<1>1. fl' = Append(fl, f) /\ plan' = Append(kept, p)
  BY DEF FilterBlock
<1>2. ReaderInv /\ ReaderTypeOK /\ plan \in Seq(Announced) /\ fl \in Seq(Block)
  BY DEF FilterInv, ReaderInv, ReaderTypeOK
<1>3. Len(plan) \in Nat /\ Len(fl) \in Nat /\ DOMAIN plan = 1..Len(plan)
  BY <1>2
<1>4. kept \in Seq(Announced) /\ Len(kept) = Len(plan)
  <2>1. Len(plan) + 1 \in Nat
    BY <1>3
  <2> QED
    BY <1>2, <2>1, DropKeeps
<1>5. ASSUME NEW k \in 1..Len(plan)
      PROVE  /\ kept[k].at = plan[k].at /\ kept[k].length = plan[k].length
             /\ kept[k].dropped = IF reset /\ plan[k].at >= tot /\ plan[k].dropped = 0
                                  THEN Len(plan) + 1 ELSE plan[k].dropped
  <2>1. plan[k] \in Announced /\ plan[k].at \in Int /\ tot \in Int
    <3>1. plan[k] \in Announced
      BY <1>2, ElementOfSeq
    <3>2. plan[k].at \in Int /\ tot \in Int
      BY <1>2, BlockTypes
    <3> QED
      BY <3>1, <3>2
  <2>2. CASE ~ reset
    BY <2>2
  <2>3. CASE reset
    <3>1. kept[k] = IF plan[k].at < tot \/ plan[k].dropped # 0 THEN plan[k]
                    ELSE [plan[k] EXCEPT !.dropped = Len(plan) + 1]
      BY <1>3, <2>3 DEF Drop
    <3>2. CASE plan[k].at < tot \/ plan[k].dropped # 0
      BY <2>1, <3>1, <3>2
    <3>3. CASE ~ (plan[k].at < tot \/ plan[k].dropped # 0)
      <4>1. kept[k] = [plan[k] EXCEPT !.dropped = Len(plan) + 1]
        BY <3>1, <3>3
      <4>2. plan[k].at >= tot /\ plan[k].dropped = 0
        BY <2>1, <3>3
      <4> HIDE DEF kept
      <4> QED
        BY <2>1, <2>3, <4>1, <4>2 DEF Announced
    <3> QED
      BY <3>2, <3>3
  <2> QED
    BY <2>2, <2>3
<1> HIDE DEF kept, f, p
<1>6. /\ Len(plan') = Len(plan) + 1 /\ plan'[Len(plan) + 1] = p
      /\ \A k \in 1..Len(plan) : plan'[k] = kept[k]
  BY <1>1, <1>3, <1>4
<1>7. /\ Len(fl') = Len(fl) + 1 /\ fl'[Len(fl) + 1] = f
      /\ \A m \in 1..Len(fl) : fl'[m] = fl[m]
  BY <1>1, <1>2, <1>3
<1>8. Settled' = Settled
  BY <1>3, <1>6, <1>7 DEF Settled
<1> QED
  BY <1>5, <1>6, <1>7, <1>8 DEF f, p

\* A block is announced behind what is taken.
LEMMA AnnouncedPlace ==
    ASSUME FilterInv, Filling, NEW n \in Nat
    PROVE  /\ outbuf = <<>> /\ Taken = tot
           /\ FromReadIndex(n) = (Decoded + n) - tot /\ Decoded + n >= tot
           /\ Decoded + n \in Int
<1>1. ReaderInv /\ RingOK(win, stream) /\ IsWindow(win)
  BY DEF FilterInv, ReaderInv, RingOK
<1>2. /\ Available(win) > 0 /\ outbuf = <<>> /\ tot \in Nat
      /\ Decoded = tot + Len(outbuf) + Buffered(win) + win.l
  BY <1>1 DEF Filling, ReaderInv, StepInv, CountInv, ReaderTypeOK
<1>3. /\ Buffered(win) \in 0..win.size - 1 /\ win.size \in Nat
      /\ Available(win) = win.size - 1 - Buffered(win)
      /\ win.l \in Nat /\ (win.l > 0 => Buffered(win) = win.size - 1)
  BY <1>1, RingSpace DEF RingOK, IsWindow
<1> DEFINE b == Buffered(win)
           l == win.l
           k == Len(outbuf)
<1>4. k = 0
  BY <1>2
<1>5. b \in Nat /\ l = 0
  BY <1>2, <1>3
<1>6. Decoded = tot + k + b + l
  BY <1>2
<1> HIDE DEF b, l, k
<1>7. Decoded = tot + b
  BY <1>2, <1>4, <1>5, <1>6
<1>8. Taken = tot
  BY <1>2, <1>4 DEF Taken, k
<1>9. FromReadIndex(n) = n + b
  BY DEF FromReadIndex, b
<1>10. tot \in Nat /\ outbuf = <<>>
  BY <1>2
<1>11. Decoded \in Int /\ FromReadIndex(n) = (Decoded + n) - tot /\ Decoded + n >= tot
  BY <1>5, <1>7, <1>9, <1>10
<1> QED
  BY <1>8, <1>10, <1>11

LEMMA FilterAnnounced ==
    ASSUME FilterInv, ReaderInv',
           NEW n \in Gaps, NEW len \in Blocks, NEW reset \in Resets,
           FilterBlock(n, len, reset)
    PROVE  FilterInv'
<1> DEFINE N == Len(plan)
           L == Len(fl)
<1>1. /\ pc = "fill" /\ err = "nil" /\ Filling
      /\ UNCHANGED <<win, filters, outbuf, tot, err, eof, pc, want, res, stream,
                     start, astray, out, files>>
  BY DEF FilterBlock, Filling
<1>2. n \in Nat /\ ReaderInv
  BY ReaderAssumption DEF FilterInv
<1>3. /\ outbuf = <<>> /\ Taken = tot
      /\ FromReadIndex(n) = (Decoded + n) - tot /\ Decoded + n >= tot
      /\ Decoded + n \in Int
  BY <1>1, <1>2, AnnouncedPlace
<1>4. /\ Len(plan') = N + 1 /\ Len(fl') = L + 1 /\ Settled' = Settled
      /\ \A k \in 1..N :
            /\ plan'[k].at = plan[k].at /\ plan'[k].length = plan[k].length
            /\ plan'[k].dropped = IF reset /\ plan[k].at >= tot /\ plan[k].dropped = 0
                                  THEN N + 1 ELSE plan[k].dropped
      /\ plan'[N + 1].at = Decoded + n /\ plan'[N + 1].length = len
      /\ plan'[N + 1].dropped = 0
      /\ \A m \in 1..L : fl'[m] = fl[m]
      /\ fl'[L + 1].offset = FromReadIndex(n) /\ fl'[L + 1].length = len
      /\ fl'[L + 1].reset = reset /\ fl'[L + 1].id = N + 1
  <2> HIDE DEF N, L
  <2>1. /\ Len(plan') = N + 1 /\ Len(fl') = L + 1 /\ Settled' = Settled
        /\ \A k \in 1..N :
              /\ plan'[k].at = plan[k].at /\ plan'[k].length = plan[k].length
              /\ plan'[k].dropped = IF reset /\ plan[k].at >= tot /\ plan[k].dropped = 0
                                    THEN N + 1 ELSE plan[k].dropped
        /\ plan'[N + 1] = [at |-> Decoded + n, length |-> len, dropped |-> 0]
        /\ \A m \in 1..L : fl'[m] = fl[m]
        /\ fl'[L + 1] = [offset |-> FromReadIndex(n), length |-> len,
                         reset |-> reset, id |-> N + 1]
    BY AnnouncedPlan, Zenon DEF N, L
  <2>2. /\ plan'[N + 1].at = Decoded + n /\ plan'[N + 1].length = len
        /\ plan'[N + 1].dropped = 0
    BY <2>1
  <2>3. /\ fl'[L + 1].offset = FromReadIndex(n) /\ fl'[L + 1].length = len
        /\ fl'[L + 1].reset = reset /\ fl'[L + 1].id = N + 1
    BY <2>1
  <2> QED
    BY <2>1, <2>2, <2>3
<1>5. /\ N \in Nat /\ L \in Nat /\ tot \in Nat /\ Settled = N - L /\ L <= N
      /\ \A k \in 1..N : plan[k].at \in Int /\ plan[k].dropped \in Nat /\ Ends(k) \in Int
      /\ DOMAIN plan = 1..N /\ DOMAIN plan' = 1..N + 1
      /\ Len(out) = tot
  <2>1. L <= N
    BY DEF FilterInv, CollectInv
  <2>2. plan' \in Seq(Announced) /\ Len(out) = tot
    BY <1>2 DEF ReaderInv, ReaderTypeOK, CountInv
  <2>3. DOMAIN plan' = 1..N + 1
    BY <1>4, <2>2
  <2> QED
    BY <1>2, <2>1, <2>2, <2>3, BlockTypes DEF Settled
<1> HIDE DEF N, L
<1>a. ASSUME NEW m \in 1..L + 1, m # L + 1
       PROVE  m \in 1..L /\ Settled + m \in 1..N
  <2>1. N \in Nat /\ L \in Nat /\ Settled = N - L /\ L <= N
    BY <1>5
  <2> QED
    BY <1>a, <2>1
<1>b. ASSUME NEW m \in 1..L + 1, NEW k \in 1..Settled + m - 1
       PROVE  k \in 1..N
  <2>1. N \in Nat /\ L \in Nat /\ Settled = N - L /\ L <= N
    BY <1>5
  <2> QED
    BY <2>1
<1>6. CollectInv'
  <2>1. ASSUME NEW m \in 1..L + 1
        PROVE  /\ fl'[m].id = Settled + m
               /\ fl'[m].length = plan'[Settled + m].length
               /\ fl'[m].offset = plan'[Settled + m].at - tot
               /\ plan'[Settled + m].at >= tot
    <3>1. CASE m = L + 1
      <4>1. Settled + m = N + 1
        BY <1>5, <3>1
      <4> QED
        BY <1>3, <1>4, <3>1, <4>1
    <3>2. CASE m # L + 1
      <4>1. m \in 1..L /\ Settled + m \in 1..N
        BY <1>a, <3>2
      <4>2. /\ fl[m].id = Settled + m
            /\ fl[m].length = plan[Settled + m].length
            /\ fl[m].offset = plan[Settled + m].at - tot
            /\ plan[Settled + m].at >= tot
        BY <4>1 DEF FilterInv, CollectInv, L
      <4> QED
        BY <1>4, <4>1, <4>2
    <3> QED
      BY <3>1, <3>2
  <2>2. Len(fl') <= Len(plan')
    BY <1>4, <1>5
  <2>3. ASSUME NEW k \in 1..N + 1 PROVE plan'[k].length \in Blocks
    <3>1. CASE k = N + 1
      BY <1>4, <3>1
    <3>2. CASE k # N + 1
      <4>1. k \in 1..N
        BY <1>5, <3>2
      <4> QED
        BY <1>4, <4>1 DEF FilterInv, CollectInv, N
    <3> QED
      BY <3>1, <3>2
  <2> QED
    BY <1>1, <1>4, <2>1, <2>2, <2>3 DEF CollectInv
<1>7. DropInv'
  <2>1. ASSUME NEW k \in 1..N + 1
        PROVE  /\ plan'[k].dropped # 0 => plan'[k].dropped \in k + 1..N + 1
               /\ plan'[k].dropped > Settled => fl'[plan'[k].dropped - Settled].reset
    <3>1. CASE k = N + 1
      BY <1>4, <1>5, <3>1
    <3>2. CASE k # N + 1
      <4>1. k \in 1..N
        BY <1>5, <3>2
      <4>2. /\ plan[k].dropped # 0 => plan[k].dropped \in k + 1..N
            /\ plan[k].dropped > Settled => fl[plan[k].dropped - Settled].reset
        BY <4>1 DEF FilterInv, DropInv, N
      <4>3. CASE reset /\ plan[k].at >= tot /\ plan[k].dropped = 0
        <5>1. plan'[k].dropped = N + 1 /\ (N + 1) - Settled = L + 1
          BY <1>4, <1>5, <4>1, <4>3
        <5>2. fl'[(N + 1) - Settled].reset
          BY <1>4, <4>3, <5>1
        <5>3. N + 1 \in k + 1..N + 1
          BY <1>5, <4>1
        <5> QED
          BY <5>1, <5>2, <5>3
      <4>4. CASE ~ (reset /\ plan[k].at >= tot /\ plan[k].dropped = 0)
        <5> DEFINE d == plan[k].dropped
        <5>1. plan'[k].dropped = d /\ d \in Nat
          BY <1>4, <1>5, <4>1, <4>4
        <5>2. (d # 0 => d \in k + 1..N) /\ (d > Settled => fl[d - Settled].reset)
          BY <4>2
        <5> HIDE DEF d
        <5>3. d # 0 => d \in k + 1..N + 1
          BY <1>5, <5>2
        <5>4. ASSUME d > Settled PROVE fl'[d - Settled].reset
          <6>1. d \in k + 1..N
            BY <1>5, <4>1, <5>1, <5>2, <5>4
          <6>2. d - Settled \in 1..L
            BY <1>5, <4>1, <5>4, <6>1
          <6> QED
            BY <1>4, <5>2, <5>4, <6>2
        <5> QED
          BY <5>1, <5>3, <5>4
      <4> QED
        BY <4>3, <4>4
    <3> QED
      BY <3>1, <3>2
  <2>2. ASSUME NEW m \in 1..L + 1, fl'[m].reset,
               NEW k \in 1..Settled + m - 1, plan'[k].at >= tot
        PROVE  plan'[k].dropped # 0
    <3>1. k \in 1..N
      BY <1>b
    <3>2. CASE m = L + 1
      <4>1. reset
        BY <1>4, <2>2, <3>2, Zenon
      <4>2. plan[k].at >= tot
        BY <1>4, <2>2, <3>1
      <4>3. plan'[k].dropped = IF plan[k].dropped = 0 THEN N + 1 ELSE plan[k].dropped
        BY <1>4, <3>1, <4>1, <4>2
      <4>4. N + 1 # 0
        BY <1>5
      <4> QED
        BY <4>3, <4>4
    <3>3. CASE m # L + 1
      <4>1. m \in 1..L /\ fl[m].reset
        BY <1>4, <1>5, <2>2, <3>3
      <4>2. plan[k].at >= tot
        BY <1>4, <2>2, <3>1
      <4>3. plan[k].dropped # 0
        BY <4>1, <4>2 DEF FilterInv, DropInv, L
      <4> QED
        BY <1>4, <3>1, <4>3
    <3> QED
      BY <3>2, <3>3
  <2> QED
    BY <1>1, <1>4, <2>1, <2>2 DEF DropInv
<1>8. ASSUME NEW i \in 1..N, plan[i].at < tot
      PROVE  (i \in Planned' <=> i \in Planned) /\ plan'[i].dropped = plan[i].dropped
  BY <1>4, <1>5, <1>8 DEF Planned
<1>9. ASSUME Sound' PROVE Sound
  <2>1. TakenApart
    <3> SUFFICES ASSUME NEW i \in Planned, NEW j \in Planned,
                        i < j, plan[i].at < Taken, plan[j].at < Taken
                 PROVE  ApartOrEqual(i, j)
      BY DEF TakenApart
    <3>1. i \in 1..N /\ j \in 1..N
      BY <1>5 DEF Planned
    <3>2. i \in Planned' /\ j \in Planned'
      BY <1>3, <1>8, <3>1
    <3>3. Taken' = Taken
      BY <1>1 DEF Taken
    <3>4. plan'[i].at < Taken' /\ plan'[j].at < Taken'
      BY <1>4, <3>1, <3>3
    <3>5. ApartOrEqual(i, j)'
      BY <1>9, <3>2, <3>4 DEF Sound, TakenApart
    <3> QED
      BY <1>4, <3>1, <3>5 DEF ApartOrEqual, Ends
  <2> QED
    BY <1>1, <1>9, <2>1 DEF Sound, Refused
<1>10. ASSUME Sound PROVE QueueInv' /\ DoneInv' /\ ChainInv' /\ MarksInv'
  <2>1. QueueInv /\ DoneInv /\ MarksInv
    BY <1>1, <1>10 DEF FilterInv, SoundInv, Stopped
  <2>2. \A i \in 1..Len(filters) : filters[i].id \in 1..Settled /\ filters[i].id \in 1..N
    BY <1>5, <2>1 DEF QueueInv, QueuedBlock
  <2>3. From' = From /\ Taken' = Taken
    BY <1>1 DEF From, Taken
  <2>4. QueueInv'
    <3>1. ASSUME NEW i \in 1..Len(filters) PROVE QueuedBlock(i)'
      <4>1. QueuedBlock(i)
        BY <2>1 DEF QueueInv
      <4>2. N + 1 > Settled
        BY <1>5
      <4> QED
        BY <1>1, <1>4, <2>2, <4>1, <4>2 DEF QueuedBlock
    <3>2. ASSUME NEW i \in 1..Len(filters), NEW j \in 1..Len(filters), i < j
          PROVE  /\ filters[i].id < filters[j].id
                 /\ plan'[filters[i].id].at <= plan'[filters[j].id].at
      BY <1>4, <2>1, <2>2, <3>2 DEF QueueInv
    <3>3. ASSUME NEW i \in 1..Len(filters)
          PROVE  Before(i)' = Before(i) /\ plan'[filters[i].id].at = plan[filters[i].id].at
      <4>1. i # 1 => i - 1 \in 1..Len(filters)
        BY <1>2, BlockTypes
      <4> QED
        BY <1>1, <1>4, <2>2, <2>3, <4>1 DEF Before
    <3>4. \A i \in 1..Len(filters) :
             /\ filters[i].offset = plan'[filters[i].id].at - Before(i)'
             /\ filters[i].offset >= 0
      BY <2>1, <3>3 DEF QueueInv
    <3> QED
      BY <1>1, <3>1, <3>2, <3>4 DEF QueueInv
  <2>5. DoneInv'
    <3> SUFFICES ASSUME NEW k \in 1..Settled, plan'[k].dropped = 0, ~ Waits(k)
                 PROVE  Ends(k)' <= Taken /\ \A i \in 1..Len(filters) : k < filters[i].id
      BY <1>1, <1>4, <2>3 DEF DoneInv, Waits
    <3>1. k \in 1..N
      BY <1>5
    <3>2. plan[k].dropped = 0
      BY <1>4, <1>5, <3>1
    <3>3. Ends(k)' = Ends(k)
      BY <1>4, <3>1 DEF Ends
    <3> QED
      BY <2>1, <3>2, <3>3 DEF DoneInv
  <2>6. ChainInv'
    BY <1>1 DEF ChainInv
  <2>7. ASSUME NEW i \in 1..Len(out) PROVE Marks(out[i], Covering(i))'
    <3>1. i \in Nat /\ i <= tot
      BY <1>5
    <3>2. ASSUME NEW k \in 1..N + 1 PROVE k \in Covering(i)' <=> k \in Covering(i)
      <4>1. CASE k = N + 1
        <5>1. ~ (plan'[k].at < i)
          BY <1>3, <1>4, <1>5, <3>1, <4>1
        <5>2. k \notin DOMAIN plan
          BY <1>5, <4>1
        <5> QED
          BY <5>1, <5>2 DEF Covering, Planned
      <4>2. CASE k # N + 1
        <5>1. k \in 1..N
          BY <1>5, <4>2
        <5>2. plan'[k].at = plan[k].at /\ Ends(k)' = Ends(k)
          BY <1>4, <5>1 DEF Ends
        <5>3. plan[k].at < i => plan[k].at < tot
          BY <1>5, <3>1, <5>1
        <5> QED
          BY <1>8, <5>1, <5>2, <5>3 DEF Covering
      <4> QED
        BY <4>1, <4>2
    <3>3. Covering(i)' = Covering(i) /\ \A k \in Covering(i) : k \in 1..N
      <4>1. Covering(i)' \subseteq 1..N + 1
        BY <1>5 DEF Covering, Planned
      <4>2. Covering(i) \subseteq 1..N /\ 1..N \subseteq 1..N + 1
        BY <1>5 DEF Covering, Planned
      <4> QED
        BY <3>2, <4>1, <4>2
    <3>4. {<<k, plan'[k].at>> : k \in Covering(i)'} = {<<k, plan[k].at>> : k \in Covering(i)}
      BY <1>4, <3>3
    <3>5. Marks(out[i], Covering(i))
      BY <2>1 DEF MarksInv
    <3> QED
      BY <1>1, <3>4, <3>5 DEF Marks
  <2>8. MarksInv'
    <3>1. Len(outbuf') = 0
      BY <1>1, <1>3
    <3> QED
      BY <1>1, <2>7, <3>1 DEF MarksInv
  <2> QED
    BY <2>4, <2>5, <2>6, <2>8
<1>11. SoundInv'
  BY <1>9, <1>10 DEF SoundInv
<1>12. FillInv' /\ RefusedInv'
  BY <1>1 DEF FilterInv, FillInv, RefusedInv, Refused
<1> QED
  BY <1>6, <1>7, <1>11, <1>12 DEF FilterInv

-----------------------------------------------------------------------------
(* fill: the collected blocks are queued *)

\* Nothing that is queued begins before what was taken.
LEMMA QueuedAhead ==
    ASSUME ReaderInv, QueueInv
    PROVE  /\ \A i \in 1..Len(filters) :
                 /\ filters[i].id \in 1..Len(plan)
                 /\ plan[filters[i].id].at >= From
           /\ From \in Nat
<1>1. /\ \A i \in 1..Len(filters) : filters[i].id \in 1..Len(plan)
      /\ \A k \in 1..Len(plan) : plan[k].at \in Int
      /\ From \in Nat /\ Len(filters) \in Nat
  <2>1. \A i \in 1..Len(filters) : filters[i].id \in 1..Settled
    BY DEF QueueInv, QueuedBlock
  <2>2. Len(plan) \in Nat /\ Len(fl) \in Nat /\ tot \in Nat /\ Taken \in Nat
    BY BlockTypes
  <2>3. \A k \in 1..Settled : k \in 1..Len(plan)
    BY <2>2 DEF Settled
  <2>4. \A k \in 1..Len(plan) : plan[k].at \in Int
    BY BlockTypes
  <2>5. Len(filters) \in Nat
    BY BlockTypes
  <2> QED
    BY <2>1, <2>2, <2>3, <2>4, <2>5 DEF From
<1>2. ASSUME NEW i \in 1..Len(filters)
      PROVE  plan[filters[i].id].at >= From
  <2>1. 1 \in 1..Len(filters)
    BY <1>1
  <2>2. plan[filters[1].id].at - From >= 0
    BY <2>1 DEF QueueInv, Before
  <2>3. plan[filters[1].id].at >= From
    BY <1>1, <2>1, <2>2
  <2>4. i # 1 => plan[filters[1].id].at <= plan[filters[i].id].at
    BY <1>1, <2>1 DEF QueueInv
  <2> QED
    BY <1>1, <2>1, <2>3, <2>4
<1> QED
  BY <1>1, <1>2

\* The block that is handed on is the next one announced.
LEMMA Handed ==
    ASSUME FilterInv, pc = "queue", fl # <<>>
    PROVE  /\ outbuf = <<>> /\ Taken = tot /\ From = tot /\ tot \in Nat
           /\ Len(fl) \in Nat \ {0} /\ Settled \in Nat /\ Settled + 1 \in 1..Len(plan)
           /\ Head(fl) = fl[1] /\ Head(fl) \in Block
           /\ Head(fl).id = Settled + 1
           /\ Head(fl).length = plan[Settled + 1].length
           /\ Head(fl).offset = plan[Settled + 1].at - tot
           /\ plan[Settled + 1].at >= tot
           /\ \A k \in 1..Len(plan) : plan[k].at \in Int
<1>1. ReaderInv /\ CollectInv
  BY DEF FilterInv
<1>2. outbuf = <<>> /\ fl \in Seq(Block) /\ tot \in Nat
  BY <1>1 DEF ReaderInv, StepInv, ReaderTypeOK
<1>3. Len(outbuf) = 0 /\ Taken = tot /\ From = tot
  BY <1>2 DEF Taken, From
<1>4. Len(fl) \in Nat \ {0} /\ Head(fl) = fl[1]
  BY <1>2, EmptySeq
<1>5. Settled \in Nat /\ Settled + 1 \in 1..Len(plan)
  <2>1. Len(fl) <= Len(plan)
    BY <1>1 DEF CollectInv
  <2>2. Len(plan) \in Nat
    BY <1>1, BlockTypes
  <2> QED
    BY <1>4, <2>1, <2>2 DEF Settled
<1>6. 1 \in 1..Len(fl)
  BY <1>4
<1>7. /\ fl[1].id = Settled + 1
      /\ fl[1].length = plan[Settled + 1].length
      /\ fl[1].offset = plan[Settled + 1].at - tot
      /\ plan[Settled + 1].at >= tot
  BY <1>1, <1>6 DEF CollectInv
<1>8. fl[1] \in Block /\ \A k \in 1..Len(plan) : plan[k].at \in Int
  BY <1>1, <1>6, BlockTypes
<1> QED
  BY <1>2, <1>3, <1>4, <1>5, <1>7, <1>8

\* What is left of its offset is its distance from the queued blocks.
LEMMA Distance ==
    ASSUME FilterInv, pc = "queue", fl # <<>>, QueueInv
    PROVE  /\ Remains(Head(fl), filters)[0] = plan[Settled + 1].at - tot
           /\ \A i \in 1..Len(filters) :
                 Remains(Head(fl), filters)[i]
                     = plan[Settled + 1].at - plan[filters[i].id].at
<1> DEFINE f == Head(fl)
           a == plan[Settled + 1].at
           n == Len(filters)
           p == [j \in 0..n |-> IF j = 0 THEN tot ELSE plan[filters[j].id].at]
<1>1. /\ From = tot /\ tot \in Int /\ f.offset = a - tot /\ a \in Int
  BY Handed
<1>2. filters \in Seq(Block) /\ n \in Nat
  BY DEF FilterInv, ReaderInv, ReaderTypeOK
<1>3. \A i \in 1..n : plan[filters[i].id].at \in Int
  BY Handed, QueuedAhead DEF FilterInv
<1>4. \A j \in 0..n : p[j] \in Int
  BY <1>1, <1>3
<1>5. ASSUME NEW j \in 1..n PROVE filters[j].offset = p[j] - p[j - 1]
  <2>1. p[j - 1] = Before(j)
    BY <1>1, <1>2 DEF Before
  <2>2. p[j] = plan[filters[j].id].at
    BY <1>2
  <2> QED
    BY <2>1, <2>2 DEF QueueInv
<1>6. f.offset \in Int
  BY <1>1
<1> HIDE DEF f, p
<1>7. \A i \in 0..n : Remains(f, filters)[i] = f.offset - (p[i] - p[0])
  BY <1>2, <1>4, <1>5, <1>6, RemainsPlaces
<1>8. p[0] = tot /\ \A i \in 1..n : p[i] = plan[filters[i].id].at
  BY <1>2 DEF p
<1> HIDE DEF a, n
<1>9. Remains(f, filters)[0] = a - tot
  BY <1>1, <1>2, <1>7, <1>8
<1>10. ASSUME NEW i \in 1..n
       PROVE  Remains(f, filters)[i] = a - plan[filters[i].id].at
  <2>1. i \in 0..n /\ plan[filters[i].id].at \in Int
    BY <1>2, <1>3
  <2> QED
    BY <1>1, <1>7, <1>8, <2>1
<1> QED
  BY <1>9, <1>10 DEF f, a, n

\* Only a reset takes a queued block away.
LEMMA QueuedOn ==
    ASSUME FilterInv, pc = "queue", fl # <<>>, QueueInv, ~ Head(fl).reset,
           NEW i \in 1..Len(filters)
    PROVE  /\ filters[i].id \in 1..Settled
           /\ plan[filters[i].id].dropped # 0 => plan[filters[i].id].dropped > Settled + 1
<1> DEFINE k == filters[i].id
           d == plan[k].dropped
<1>1. k \in 1..Settled /\ (d # 0 => d > Settled)
  BY DEF QueueInv, QueuedBlock
<1>2. Settled \in Nat /\ Head(fl) = fl[1]
  BY Handed
<1>3. k \in 1..Len(plan) /\ d \in Nat
  <2>1. ReaderInv
    BY DEF FilterInv
  <2>2. k \in 1..Len(plan)
    BY <2>1, QueuedAhead
  <2> QED
    BY <2>1, <2>2, BlockTypes
<1>4. d > Settled => fl[d - Settled].reset
  BY <1>3 DEF FilterInv, DropInv
<1> HIDE DEF d, k
<1>5. d # Settled + 1
  <2>1. SUFFICES ASSUME d = Settled + 1 PROVE FALSE
    OBVIOUS
  <2>2. d - Settled = 1 /\ d > Settled
    BY <1>2, <2>1
  <2> QED
    BY <1>2, <1>4, <2>2
<1>6. d # 0 => d > Settled + 1
  BY <1>1, <1>2, <1>3, <1>5
<1> QED
  BY <1>1, <1>6 DEF k, d

\* A well-formed file has no block that starts before one in its queue.
LEMMA NonePrecedes ==
    ASSUME FilterInv, pc = "queue", fl # <<>>, WellFormed
    PROVE  ~ Precedes(Head(fl), QueueFor(Head(fl)))
<1>1. CASE Head(fl).reset
  <2>1. QueueFor(Head(fl)) = <<>>
    BY <1>1 DEF QueueFor
  <2> QED
    BY <2>1 DEF Precedes
<1>2. CASE ~ Head(fl).reset
  <2>1. QueueInv
    <3>1. Sound
      BY WellFormedSound
    <3> QED
      BY <3>1 DEF FilterInv, SoundInv, Stopped
  <2>2. QueueFor(Head(fl)) = filters
    BY <1>2 DEF QueueFor
  <2> SUFFICES ASSUME NEW i \in DOMAIN filters, Remains(Head(fl), filters)[i] < 0
               PROVE  FALSE
    BY <2>2 DEF Precedes
  <2>3. i \in 1..Len(filters)
    BY DEF FilterInv, ReaderInv, ReaderTypeOK
  <2> DEFINE k == filters[i].id
             g == Settled + 1
  <2>4. /\ k \in 1..Settled /\ (plan[k].dropped # 0 => plan[k].dropped > g)
    BY <1>2, <2>1, <2>3, QueuedOn
  <2>5. Settled \in Nat /\ g \in 1..Len(plan) /\ plan[g].at \in Int
    BY Handed
  <2>6. k \in 1..Len(plan) /\ plan[k].at \in Int
    BY <2>1, <2>3, QueuedAhead, Handed DEF FilterInv
  <2>7. plan[g].at - plan[k].at < 0
    BY <2>1, <2>3, Distance
  <2>8. plan[k].at <= plan[g].at
    <3>1. k < g /\ DOMAIN plan = 1..Len(plan)
      BY <2>4, <2>5, BlockTypes DEF FilterInv
    <3>2. InForce(k, g)
      BY <2>4 DEF InForce
    <3> QED
      BY <2>5, <2>6, <3>1, <3>2 DEF WellFormed
  <2> HIDE DEF k, g
  <2> QED
    BY <2>5, <2>6, <2>7, <2>8
<1> QED
  BY <1>1, <1>2

\* What was handed on is no longer collected.
LEMMA CollectedLess ==
    ASSUME FilterInv, pc = "queue", pc' = "queue", fl # <<>>, UNCHANGED <<plan, tot>>,
           fl' = <<>> \/ fl' = Tail(fl)
    PROVE  CollectInv' /\ DropInv' /\ (fl' = Tail(fl) => Settled' = Settled + 1)
<1> DEFINE N == Len(plan)
           L == Len(fl)
<1>1. /\ CollectInv /\ DropInv
      /\ N \in Nat /\ L \in Nat \ {0} /\ Settled = N - L /\ L <= N
      /\ \A k \in 1..N : plan[k].dropped \in Nat
  BY BlockTypes, Handed DEF FilterInv, CollectInv, Settled
<1>2. CASE fl' = <<>>
  <2>1. Len(fl') = 0 /\ Settled' = N
    BY <1>1, <1>2 DEF Settled
  <2>2. CollectInv'
    BY <1>1, <1>2, <2>1 DEF CollectInv
  <2>3. \A k \in 1..N : plan[k].dropped # 0 => plan[k].dropped \in k + 1..N
    BY <1>1 DEF DropInv
  <2>4. \A k \in 1..N : ~ (plan[k].dropped > N)
    BY <1>1, <2>3
  <2>5. DropInv'
    BY <2>1, <2>3, <2>4 DEF DropInv
  <2>6. fl' # Tail(fl) \/ Settled' = Settled + 1
    <3>1. SUFFICES ASSUME fl' = Tail(fl) PROVE Settled' = Settled + 1
      OBVIOUS
    <3>2. fl \in Seq(Block)
      BY DEF FilterInv, ReaderInv, ReaderTypeOK
    <3>3. Len(fl') = L - 1
      BY <3>1, <3>2
    <3>4. N \in Nat /\ L \in Nat /\ Settled = N - L /\ L - 1 = 0 /\ Settled' = N
      BY <1>1, <2>1, <3>3
    <3> HIDE DEF N, L
    <3> QED
      BY <3>4
  <2> QED
    BY <2>2, <2>5, <2>6
<1>3. CASE fl' = Tail(fl)
  <2>1. Len(fl') = L - 1 /\ \A m \in 1..L - 1 : fl'[m] = fl[m + 1]
    <3>1. fl \in Seq(Block)
      BY DEF FilterInv, ReaderInv, ReaderTypeOK
    <3> QED
      BY <1>3, <3>1
  <2>2. Settled' = Settled + 1
    BY <1>1, <1>3, <2>1 DEF Settled
  <2> HIDE DEF N, L
  <2>3. ASSUME NEW m \in 1..L - 1
        PROVE  /\ m + 1 \in 1..L /\ Settled + (m + 1) = Settled + 1 + m
               /\ Settled + 1 + m - 1 = Settled + (m + 1) - 1
    <3> DEFINE S == Settled
    <3>1. L \in Nat /\ N \in Nat /\ S = N - L
      BY <1>1
    <3> HIDE DEF S
    <3>2. /\ m + 1 \in 1..L /\ S + (m + 1) = S + 1 + m
          /\ S + 1 + m - 1 = S + (m + 1) - 1
      BY <3>1
    <3> QED
      BY <3>2 DEF S
  <2>4. CollectInv'
    <3>1. ASSUME NEW m \in 1..L - 1
          PROVE  /\ fl'[m].id = Settled + 1 + m
                 /\ fl'[m].length = plan[Settled + 1 + m].length
                 /\ fl'[m].offset = plan[Settled + 1 + m].at - tot
                 /\ plan[Settled + 1 + m].at >= tot
      <4>1. /\ fl[m + 1].id = Settled + (m + 1)
            /\ fl[m + 1].length = plan[Settled + (m + 1)].length
            /\ fl[m + 1].offset = plan[Settled + (m + 1)].at - tot
            /\ plan[Settled + (m + 1)].at >= tot
        BY <1>1, <2>3 DEF CollectInv, L
      <4> QED
        BY <2>1, <2>3, <4>1
    <3>2. Len(fl') <= N
      BY <1>1, <2>1
    <3>3. \A k \in 1..N : plan[k].length \in Blocks
      BY <1>1 DEF CollectInv, N
    <3> QED
      BY <2>1, <2>2, <3>1, <3>2, <3>3 DEF CollectInv, N
  <2>5. DropInv'
    <3>1. ASSUME NEW k \in 1..N, plan[k].dropped > Settled + 1
          PROVE  fl'[plan[k].dropped - (Settled + 1)].reset
      <4> DEFINE d == plan[k].dropped
      <4>1. d \in Nat /\ (d # 0 => d \in k + 1..N) /\ (d > Settled => fl[d - Settled].reset)
        BY <1>1 DEF DropInv, N
      <4>2. d > Settled + 1
        BY <3>1
      <4> HIDE DEF d
      <4>3. /\ d - Settled - 1 \in 1..L - 1 /\ d - (Settled + 1) = d - Settled - 1
            /\ d - Settled = (d - Settled - 1) + 1 /\ d > Settled
        <5>1. L \in Nat /\ N \in Nat /\ Settled = N - L /\ k \in Nat /\ L <= N
          BY <1>1
        <5> QED
          BY <4>1, <4>2, <5>1
      <4> QED
        BY <2>1, <4>1, <4>3 DEF d
    <3>2. ASSUME NEW m \in 1..L - 1, fl'[m].reset,
                 NEW k \in 1..Settled + 1 + m - 1, plan[k].at >= tot
          PROVE  plan[k].dropped # 0
      <4>1. m + 1 \in 1..L /\ fl[m + 1].reset
        BY <2>1, <2>3, <3>2
      <4>2. k \in 1..Settled + (m + 1) - 1
        BY <2>3
      <4> QED
        BY <1>1, <3>2, <4>1, <4>2 DEF DropInv, L
    <3> QED
      BY <1>1, <2>1, <2>2, <3>1, <3>2 DEF DropInv, N
  <2> QED
    BY <2>2, <2>4, <2>5
<1> QED
  BY <1>2, <1>3

\* The last block of the queue is the one that was handed on.
QueuedLast(offset) ==
    LET f == Head(fl) IN
    \E b \in Block :
        /\ filters' = Append(QueueFor(f), b)
        /\ b.id = f.id /\ b.length = f.length
        /\ b.offset = offset % win.size

\* What is left of the offset of the block that is handed on.
Left == Remains(Head(fl), QueueFor(Head(fl)))[Len(QueueFor(Head(fl)))]

LEMMA QueueCases ==
    ASSUME FilterInv, Queue
    PROVE  \/ fl' = <<>> /\ err' = "tooMany" /\ astray'
           \/ /\ fl' = <<>> /\ err' = "invalid" /\ (astray => astray')
              /\ (astray' => astray) /\ Precedes(Head(fl), QueueFor(Head(fl)))
           \/ /\ fl' = Tail(fl) /\ err' = err
              /\ (astray => astray') /\ (~ astray' => Left < win.size)
              /\ ~ Precedes(Head(fl), QueueFor(Head(fl)))
              /\ QueuedLast(Left)
<1> DEFINE f == Head(fl)
           queue == QueueFor(f)
           offset == Left
           failure == IF Len(queue) >= MaxQueue THEN "tooMany"
                      ELSE IF Precedes(f, queue) THEN "invalid" ELSE "nil"
           q == offset % win.size
           len == f.length % win.size
           b == [f EXCEPT !.offset = q, !.length = len]
<1>1. fl # <<>> /\ pc = "queue"
  BY DEF Queue
<1>2. \/ /\ failure # "nil" /\ err' = failure /\ fl' = <<>>
         /\ astray' = (astray \/ failure = "tooMany")
      \/ /\ failure = "nil" /\ filters' = Append(queue, b) /\ fl' = Tail(fl) /\ err' = err
         /\ astray' = (astray \/ offset >= win.size \/ f.length >= win.size)
  BY DEF Queue, Left
<1>3. fl \in Seq(Block) /\ filters \in Seq(Block) /\ ReaderInv
  BY DEF FilterInv, ReaderInv, ReaderTypeOK
<1>4. f \in Block /\ f.length \in Blocks /\ win.size \in Sizes /\ win.size \in Nat \ {0}
  <2>1. f = fl[1] /\ 1 \in 1..Len(fl) /\ f \in Block
    BY <1>1, Handed
  <2>2. f.length \in Blocks
    BY <1>3, <2>1 DEF ReaderInv, ReaderTypeOK
  <2>3. win.size \in Sizes
    BY <1>3 DEF ReaderInv, RingOK
  <2> QED
    BY <2>1, <2>2, <2>3, ReaderAssumption
<1>5. queue \in Seq(Block)
  BY <1>3, EmptySeq DEF QueueFor
<1>6. offset \in Int
  <2>1. f.offset \in Int
    BY <1>4 DEF Block
  <2>2. Len(queue) \in 0..Len(queue)
    BY <1>5
  <2> HIDE DEF f, queue
  <2>3. Remains(f, queue)[Len(queue)] \in Int
    BY <1>5, <2>1, <2>2, RemainsInt
  <2> QED
    BY <2>3 DEF Left, f, queue
<1>7. CASE failure # "nil"
  <2>1. failure = "tooMany" \/ (failure = "invalid" /\ Precedes(f, queue))
    BY <1>7
  <2> HIDE DEF failure, f, queue
  <2>2. err' = failure /\ fl' = <<>> /\ astray' = (astray \/ failure = "tooMany")
    BY <1>2, <1>7
  <2> QED
    BY <2>1, <2>2 DEF f, queue
<1>8. CASE failure = "nil"
  <2>1. ~ Precedes(f, queue)
    BY <1>8
  <2> HIDE DEF failure
  <2>2. /\ filters' = Append(queue, b) /\ fl' = Tail(fl) /\ err' = err
        /\ astray' = (astray \/ offset >= win.size \/ f.length >= win.size)
    BY <1>2, <1>8
  <2>3. (astray => astray') /\ (~ astray' => offset < win.size)
    <3>1. astray => astray'
      BY <2>2, Zenon
    <3>2. ~ astray' => ~ (offset >= win.size)
      BY <2>2, Zenon
    <3>3. offset >= win.size \/ offset < win.size
      <4> HIDE DEF offset
      <4> QED
        BY <1>4, <1>6
    <3> QED
      BY <3>1, <3>2, <3>3, Zenon
  <2>4. q \in Int
    <3> HIDE DEF offset
    <3> QED
      BY <1>4, <1>6
  <2>5. len = f.length
    <3> DEFINE x == f.length
    <3>1. x \in 1..win.size - 1
      BY <1>4, ReaderAssumption
    <3> HIDE DEF x
    <3>2. x \in 0..win.size - 1
      BY <1>4, <3>1
    <3>3. x % win.size = x
      BY <1>4, <3>2, ModSmall
    <3> QED
      BY <3>3 DEF x
  <2>6. b \in Block /\ b.id = f.id /\ b.length = f.length /\ b.offset = q
    <3>1. b = [f EXCEPT !.offset = q, !.length = len]
      OBVIOUS
    <3>2. f.length \in Nat \ {0}
      BY <1>4 DEF Block
    <3> HIDE DEF q, len, b, f
    <3> QED
      BY <1>4, <2>4, <2>5, <3>1, <3>2 DEF Block
  <2> HIDE DEF b
  <2>7. QueuedLast(Left)
    BY <2>2, <2>6 DEF QueuedLast
  <2> QED
    BY <2>1, <2>2, <2>3, <2>7
<1> QED
  BY <1>7, <1>8

\* The distance of the block that is handed on from the queue's last.
LEMMA LeftBehind ==
    ASSUME FilterInv, pc = "queue", fl # <<>>, QueueInv,
           ~ Precedes(Head(fl), QueueFor(Head(fl)))
    PROVE  /\ Left \in Nat
           /\ Left = IF Head(fl).reset \/ Len(filters) = 0
                     THEN plan[Settled + 1].at - tot
                     ELSE plan[Settled + 1].at - plan[filters[Len(filters)].id].at
<1> DEFINE a == plan[Settled + 1].at
           n == Len(filters)
<1>1. /\ a \in Int /\ tot \in Nat /\ a >= tot /\ Head(fl).offset = a - tot
      /\ filters \in Seq(Block) /\ n \in Nat
  BY Handed DEF FilterInv, ReaderInv, ReaderTypeOK
<1>2. CASE Head(fl).reset
  <2>1. QueueFor(Head(fl)) = <<>> /\ Len(<<>>) = 0 /\ <<>> \in Seq(Block)
    BY <1>2, EmptySeq DEF QueueFor
  <2>2. Left = Remains(Head(fl), <<>>)[0]
    BY <2>1 DEF Left
  <2>3. Remains(Head(fl), <<>>)[0] = Head(fl).offset
    <3>1. Head(fl).offset \in Int
      BY <1>1
    <3> QED
      BY <2>1, <3>1, RemainsSteps
  <2> HIDE DEF a, n
  <2>4. Left = a - tot
    BY <1>1, <2>2, <2>3
  <2> QED
    BY <1>1, <1>2, <2>4 DEF a
<1>3. CASE ~ Head(fl).reset
  <2>1. QueueFor(Head(fl)) = filters
    BY <1>3 DEF QueueFor
  <2>2. Left = Remains(Head(fl), filters)[n]
    BY <2>1 DEF Left
  <2>3. CASE n = 0
    <3>1. Left = a - tot
      BY <2>2, <2>3, Distance
    <3> HIDE DEF a
    <3>2. Left \in Nat
      BY <1>1, <3>1
    <3> QED
      BY <2>3, <3>1, <3>2 DEF a
  <2>4. CASE n # 0
    <3> DEFINE z == plan[filters[n].id].at
    <3>1. n \in 1..n /\ n \in DOMAIN filters
      BY <1>1, <2>4
    <3>2. Left = a - z
      BY <2>2, <3>1, Distance
    <3>3. ~ (Remains(Head(fl), filters)[n] < 0)
      BY <2>1, <3>1 DEF Precedes
    <3>4. z \in Int
      BY <3>1, QueuedAhead, Handed DEF FilterInv
    <3> HIDE DEF a, z
    <3>5. Left \in Nat
      BY <1>1, <2>2, <3>2, <3>3, <3>4
    <3> QED
      BY <1>3, <2>4, <3>2, <3>5 DEF a, z
  <2> QED
    BY <2>3, <2>4
<1> QED
  BY <1>2, <1>3

LEMMA QueuedSound ==
    ASSUME FilterInv, Queue, QueueInv, DoneInv,
           fl' = Tail(fl), ~ Precedes(Head(fl), QueueFor(Head(fl))),
           QueuedLast(Left), Left < win.size
    PROVE  QueueInv' /\ DoneInv'
<1> DEFINE g == Settled + 1
           a == plan[g].at
           n == Len(filters)
<1>1. /\ fl # <<>> /\ pc = "queue"
      /\ UNCHANGED <<win, outbuf, tot, eof, pc, want, res, stream, start, plan,
                     out, files>>
  BY DEF Queue
<1>2. /\ Settled' = g /\ From' = tot /\ Taken' = tot /\ Taken = tot /\ From = tot
      /\ Settled \in Nat /\ g \in 1..Len(plan) /\ tot \in Nat
      /\ \A k \in 1..Len(plan) : plan[k].at \in Int /\ plan[k].dropped \in Nat
      /\ a >= tot /\ filters \in Seq(Block) /\ n \in Nat
  <2>1. Settled' = g
    BY <1>1, CollectedLess
  <2>2. From' = tot /\ Taken' = tot
    BY <1>1, Handed DEF From, Taken
  <2>3. filters \in Seq(Block) /\ n \in Nat
    BY DEF FilterInv, ReaderInv, ReaderTypeOK
  <2>4. \A k \in 1..Len(plan) : plan[k].dropped \in Nat
    BY BlockTypes DEF FilterInv
  <2> QED
    BY <1>1, <2>1, <2>2, <2>3, <2>4, Handed
<1>3. PICK b \in Block : /\ filters' = Append(QueueFor(Head(fl)), b)
                         /\ b.id = g /\ b.length = plan[g].length
                         /\ b.offset = Left
  <2>1. PICK b \in Block : /\ filters' = Append(QueueFor(Head(fl)), b)
                           /\ b.id = Head(fl).id /\ b.length = Head(fl).length
                           /\ b.offset = Left % win.size
    BY DEF QueuedLast
  <2>2. b.id = g /\ b.length = plan[g].length
    BY <1>1, <2>1, Handed
  <2>3. Left % win.size = Left
    <3>1. win.size \in Nat \ {0}
      BY ReaderAssumption DEF FilterInv, ReaderInv, RingOK
    <3>2. Left \in Nat
      BY <1>1, LeftBehind
    <3>3. Left \in 0..win.size - 1
      BY <3>1, <3>2
    <3> QED
      BY <3>1, <3>3, ModSmall
  <2> QED
    BY <2>1, <2>2, <2>3
<1>4. plan[g].dropped # 0 => plan[g].dropped > g
  <2>1. plan[g].dropped # 0 => plan[g].dropped \in g + 1..Len(plan)
    BY <1>2 DEF FilterInv, DropInv
  <2> QED
    BY <1>2, <2>1
<1>5. Left = IF Head(fl).reset \/ n = 0 THEN a - tot ELSE a - plan[filters[n].id].at
  BY <1>1, LeftBehind
<1>6. CASE Head(fl).reset
  <2>1. filters' = <<b>> /\ Len(filters') = 1 /\ filters'[1] = b
    BY <1>3, <1>6 DEF QueueFor
  <2>2. QueueInv'
    <3>1. QueuedBlock(1)'
      BY <1>1, <1>2, <1>3, <1>4, <2>1 DEF QueuedBlock
    <3>2. b.offset = a - Before(1)' /\ b.offset >= 0
      BY <1>1, <1>2, <1>3, <1>5, <1>6, LeftBehind DEF Before
    <3>3. \A i \in 1..1 : i = 1
      OBVIOUS
    <3> QED
      BY <1>1, <1>3, <2>1, <3>1, <3>2, <3>3 DEF QueueInv
  <2>3. DoneInv'
    <3> SUFFICES ASSUME NEW k \in 1..g, plan[k].dropped = 0, ~ Waits(k)'
                 PROVE  Ends(k)' <= tot /\ \A i \in 1..Len(filters') : k < filters'[i].id
      BY <1>1, <1>2 DEF DoneInv
    <3>1. k # g
      BY <1>3, <2>1 DEF Waits
    <3>2. k \in 1..Settled /\ k \in 1..Len(plan) /\ k < g
      BY <1>2, <3>1
    <3>3. plan[k].at < tot
      <4>1. fl[1].reset /\ 1 \in 1..Len(fl) /\ k \in 1..Settled + 1 - 1
        BY <1>1, <1>2, <1>6, <3>2, Handed
      <4>2. plan[k].at >= tot => plan[k].dropped # 0
        BY <4>1 DEF FilterInv, DropInv
      <4> QED
        BY <1>2, <3>2, <4>2
    <3>4. ~ Waits(k)
      <4>1. SUFFICES ASSUME NEW i \in 1..n, filters[i].id = k PROVE FALSE
        BY DEF Waits
      <4>2. plan[k].at >= tot
        BY <1>2, <4>1, QueuedAhead DEF FilterInv
      <4> QED
        BY <1>2, <3>2, <3>3, <4>2
    <3>5. Ends(k) <= tot
      BY <1>2, <3>2, <3>4 DEF DoneInv
    <3>6. Ends(k)' = Ends(k)
      BY <1>1 DEF Ends
    <3> QED
      BY <1>3, <2>1, <3>2, <3>5, <3>6
  <2> QED
    BY <2>2, <2>3
<1>7. CASE ~ Head(fl).reset
  <2>1. /\ Len(filters') = n + 1 /\ filters'[n + 1] = b
        /\ \A i \in 1..n : filters'[i] = filters[i]
    BY <1>2, <1>3, <1>7 DEF QueueFor
  <2>2. ASSUME NEW i \in 1..n
        PROVE  /\ filters[i].id \in 1..Settled /\ filters[i].id \in 1..Len(plan)
               /\ filters[i].id < g /\ filters[i].id \in 1..g
               /\ plan[filters[i].id].at \in Int
               /\ plan[filters[i].id].dropped # 0 => plan[filters[i].id].dropped > g
               /\ plan[filters[i].id].at <= a
    <3> DEFINE k == filters[i].id
    <3>1. k \in 1..Settled /\ (plan[k].dropped # 0 => plan[k].dropped > g)
      BY <1>1, <1>7, QueuedOn
    <3>2. k \in 1..Len(plan) /\ plan[k].at \in Int
      BY <1>2, QueuedAhead DEF FilterInv
    <3>3. a - plan[k].at >= 0
      <4>1. i \in DOMAIN filters /\ QueueFor(Head(fl)) = filters
        BY <1>2, <1>7 DEF QueueFor
      <4>2. ~ (Remains(Head(fl), filters)[i] < 0)
        BY <4>1 DEF Precedes
      <4>3. Remains(Head(fl), filters)[i] = a - plan[k].at
        BY <1>1, Distance
      <4>4. a \in Int
        BY <1>2
      <4> HIDE DEF a, k
      <4> QED
        BY <3>2, <4>2, <4>3, <4>4
    <3>4. a \in Int
      BY <1>2
    <3> HIDE DEF a
    <3> QED
      BY <1>2, <3>1, <3>2, <3>3, <3>4
  <2>3. ASSUME NEW i \in 1..n + 1, i # n + 1
        PROVE  i \in 1..n
    BY <1>2, <2>3
  <2>4. QueueInv'
    <3>1. ASSUME NEW i \in 1..n + 1 PROVE QueuedBlock(i)'
      <4>1. CASE i = n + 1
        BY <1>1, <1>2, <1>3, <1>4, <2>1, <4>1 DEF QueuedBlock
      <4>2. CASE i # n + 1
        <5>1. i \in 1..n
          BY <2>3, <4>2
        <5>2. filters[i].length = plan[filters[i].id].length
          BY <5>1 DEF QueueInv, QueuedBlock
        <5> QED
          BY <1>1, <1>2, <2>1, <2>2, <5>1, <5>2 DEF QueuedBlock
      <4> QED
        BY <4>1, <4>2
    <3>2. ASSUME NEW i \in 1..n + 1, NEW j \in 1..n + 1, i < j
          PROVE  /\ filters'[i].id < filters'[j].id
                 /\ plan[filters'[i].id].at <= plan[filters'[j].id].at
      <4>1. i \in 1..n
        BY <1>2, <3>2
      <4>2. CASE j = n + 1
        BY <1>3, <2>1, <2>2, <4>1, <4>2
      <4>3. CASE j # n + 1
        <5>1. j \in 1..n
          BY <2>3, <4>3
        <5> QED
          BY <2>1, <3>2, <4>1, <5>1 DEF QueueInv
      <4> QED
        BY <4>2, <4>3
    <3>3. ASSUME NEW i \in 1..n + 1
          PROVE  /\ filters'[i].offset = plan[filters'[i].id].at - Before(i)'
                 /\ filters'[i].offset >= 0
      <4>1. CASE i = n + 1
        <5>1. b.offset >= 0
          BY <1>1, <1>3, LeftBehind
        <5>2. Before(i)' = IF n = 0 THEN tot ELSE plan[filters[n].id].at
          BY <1>1, <1>2, <2>1, <4>1 DEF Before
        <5> QED
          BY <1>3, <1>5, <1>7, <2>1, <4>1, <5>1, <5>2
      <4>2. CASE i # n + 1
        <5>1. i \in 1..n
          BY <2>3, <4>2
        <5>2. i # 1 => i - 1 \in 1..n
          BY <1>2, <5>1
        <5>3. Before(i)' = Before(i)
          BY <1>1, <1>2, <2>1, <5>1, <5>2 DEF Before
        <5> QED
          BY <2>1, <5>1, <5>3 DEF QueueInv
      <4> QED
        BY <4>1, <4>2
    <3> QED
      BY <1>1, <2>1, <3>1, <3>2, <3>3 DEF QueueInv
  <2>5. DoneInv'
    <3> SUFFICES ASSUME NEW k \in 1..g, plan[k].dropped = 0, ~ Waits(k)'
                 PROVE  Ends(k)' <= tot /\ \A i \in 1..n + 1 : k < filters'[i].id
      BY <1>1, <1>2, <2>1 DEF DoneInv
    <3>1. k # g
      <4>1. n + 1 \in 1..Len(filters')
        BY <1>2, <2>1
      <4> QED
        BY <1>3, <2>1, <4>1 DEF Waits
    <3>2. k \in 1..Settled /\ k < g
      BY <1>2, <3>1
    <3>3. ~ Waits(k)
      <4>1. \A i \in 1..n : i \in 1..Len(filters') /\ filters'[i] = filters[i]
        BY <1>2, <2>1
      <4> QED
        BY <4>1 DEF Waits
    <3>4. Ends(k) <= tot /\ \A i \in 1..n : k < filters[i].id
      BY <1>2, <3>2, <3>3 DEF DoneInv
    <3>5. Ends(k)' = Ends(k)
      BY <1>1 DEF Ends
    <3>6. ASSUME NEW i \in 1..n + 1 PROVE k < filters'[i].id
      <4>1. CASE i = n + 1
        BY <1>3, <2>1, <3>2, <4>1
      <4>2. CASE i # n + 1
        <5>1. i \in 1..n
          BY <2>3, <4>2
        <5> QED
          BY <2>1, <3>4, <5>1
      <4> QED
        BY <4>1, <4>2
    <3> QED
      BY <3>4, <3>5, <3>6
  <2> QED
    BY <2>4, <2>5
<1> QED
  BY <1>6, <1>7

LEMMA FilterQueue ==
    ASSUME FilterInv, ReaderInv', Queue
    PROVE  FilterInv'
<1>1. /\ fl # <<>> /\ pc = "queue" /\ pc' = "queue"
      /\ UNCHANGED <<win, outbuf, tot, eof, want, res, stream, start, plan, out, files>>
  BY DEF Queue
<1>2. /\ astray => astray'
      /\ fl' = <<>> \/ fl' = Tail(fl)
      /\ err' = err \/ err' \in {"tooMany", "invalid"}
  BY QueueCases
<1>3. CollectInv' /\ DropInv'
  BY <1>1, <1>2, CollectedLess
<1>4. FillInv'
  BY <1>1, <1>2 DEF FilterInv, FillInv
<1>5. Taken' = Taken /\ Taken \in Int /\ ReaderInv
  BY <1>1, BlockTypes DEF Taken, FilterInv
<1>6. CASE fl' = <<>> /\ err' = "tooMany" /\ astray'
  BY <1>3, <1>4, <1>6 DEF FilterInv, SoundInv, Sound, RefusedInv, WellFormed
<1>7. CASE /\ err' = "invalid" /\ (astray' => astray)
           /\ Precedes(Head(fl), QueueFor(Head(fl)))
  <2>1. ~ WellFormed
    BY <1>1, <1>7, NonePrecedes
  <2>2. ~ WellFormed'
    BY <1>1, <1>2, <1>7, <2>1
       DEF WellFormed, InForce, Planned, ApartOrEqual, Ends, Decoded
  <2>3. Refused'
    BY <1>7 DEF Refused
  <2> QED
    BY <1>3, <1>4, <2>2, <2>3 DEF FilterInv, SoundInv, Sound, RefusedInv
<1>8. CASE /\ fl' = Tail(fl) /\ err' = err /\ (~ astray' => Left < win.size)
           /\ ~ Precedes(Head(fl), QueueFor(Head(fl)))
           /\ QueuedLast(Left)
  <2>1. Refused' = Refused
    BY <1>1, <1>8 DEF Refused
  <2>2. RefusedInv'
    BY <1>1, <1>2, <2>1, SameRefused
  <2>3. ASSUME Sound' PROVE QueueInv' /\ DoneInv' /\ ChainInv' /\ MarksInv'
    <3>1. \A k \in DOMAIN plan : plan[k].at \in Int
      BY <1>5, BlockTypes
    <3>2. Taken <= Taken' /\ Taken' \in Int
      BY <1>5
    <3>3. Sound
      BY <1>1, <1>2, <1>5, <2>1, <2>3, <3>1, <3>2, SoundBefore
    <3>4. QueueInv /\ DoneInv /\ MarksInv
      BY <1>1, <3>3 DEF FilterInv, SoundInv, Stopped
    <3>5. Left < win.size
      BY <1>8, <2>3 DEF Sound
    <3>6. QueueInv' /\ DoneInv'
      BY <1>8, <3>4, <3>5, QueuedSound
    <3>7. ChainInv'
      BY <1>1 DEF ChainInv
    <3>8. MarksInv'
      <4>1. outbuf' = <<>> /\ Len(outbuf') = 0
        BY <1>1, Handed
      <4>2. \A i \in 1..Len(out) : Marks(out[i], Covering(i))'
        BY <1>1, <3>4 DEF MarksInv, Marks, Covering, Planned, Ends
      <4> QED
        BY <1>1, <4>1, <4>2 DEF MarksInv
    <3> QED
      BY <3>6, <3>7, <3>8
  <2> QED
    BY <1>3, <1>4, <2>2, <2>3 DEF FilterInv, SoundInv
<1> QED
  BY <1>6, <1>7, <1>8, QueueCases

-----------------------------------------------------------------------------
(* processFilters *)

\* A block passed after all others marks a byte.
LEMMA MarkMore ==
    ASSUME NEW byte, byte \in Marked, byte # <<>>, NEW blocks, Marks(byte, blocks),
           NEW k \in Nat, \A j \in blocks : j < k, tot \in Nat, plan[k].at = tot
    PROVE  Marks(Append(byte, <<k, tot>>), blocks \cup {k})
<1> DEFINE n == Len(byte)
           m == <<k, tot>>
           b == Append(byte, m)
<1>1. n \in Nat \ {0} /\ byte \in Seq(Nat \cup (Nat \X Nat))
  BY EmptySeq DEF Marked
<1>2. Len(b) = n + 1 /\ b[n + 1] = m /\ \A j \in 1..n : b[j] = byte[j]
  BY <1>1
<1>3. {byte[j] : j \in 2..n} = {<<i, plan[i].at>> : i \in blocks}
  BY DEF Marks
<1>4. \A j \in 2..n - 1 : byte[j][1] < byte[j + 1][1]
  BY DEF Marks
<1> HIDE DEF b, n
<1>5. ASSUME NEW j \in 2..Len(b) - 1 PROVE b[j][1] < b[j + 1][1]
  <2>1. j \in 2..n /\ j \in 1..n
    BY <1>1, <1>2
  <2>2. CASE j = n
    <3>1. PICK i \in blocks : byte[j] = <<i, plan[i].at>>
      BY <1>3, <2>1
    <3>2. b[j][1] = i /\ b[j + 1][1] = k
      BY <1>2, <2>1, <2>2, <3>1 DEF m
    <3> QED
      BY <3>2
  <2>3. CASE j # n
    <3>1. j \in 2..n - 1 /\ j + 1 \in 1..n
      BY <1>1, <2>1, <2>3
    <3> QED
      BY <1>2, <1>4, <2>1, <3>1
  <2> QED
    BY <2>2, <2>3
<1>6. {b[j] : j \in 2..Len(b)} = {<<i, plan[i].at>> : i \in blocks \cup {k}}
  <2>1. ASSUME NEW j \in 2..n + 1 PROVE (j = n + 1) \/ (j \in 2..n /\ b[j] = byte[j])
    BY <1>1, <1>2
  <2>2. n + 1 \in 2..n + 1 /\ \A j \in 2..n : j \in 2..n + 1 /\ b[j] = byte[j]
    BY <1>1, <1>2
  <2>3. {b[j] : j \in 2..n + 1} = {byte[j] : j \in 2..n} \cup {m}
    BY <1>2, <2>1, <2>2
  <2>4. {<<i, plan[i].at>> : i \in blocks \cup {k}} = {<<i, plan[i].at>> : i \in blocks} \cup {m}
    BY DEF m
  <2> QED
    BY <1>2, <1>3, <2>3, <2>4
<1> QED
  BY <1>5, <1>6 DEF Marks, b, m

\* The first block leaves the queue.
LEMMA QueueTail ==
    ASSUME ReaderInv, QueueInv, filters # <<>>, filters' = Tail(filters)
    PROVE  /\ Len(filters) \in Nat \ {0} /\ Len(filters') = Len(filters) - 1
           /\ \A i \in 1..Len(filters') :
                 i + 1 \in 1..Len(filters) /\ filters'[i] = filters[i + 1]
           /\ \A i \in 2..Len(filters) :
                 i - 1 \in 1..Len(filters') /\ filters[i] = filters'[i - 1]
           /\ \A k : Waits(k)' <=> Waits(k) /\ k # filters[1].id
<1>1. filters \in Seq(Block)
  BY DEF ReaderInv, ReaderTypeOK
<1>2. Len(filters) \in Nat \ {0}
  BY <1>1, EmptySeq
<1>3. Len(filters') = Len(filters) - 1 /\ \A i \in 1..Len(filters) - 1 : filters'[i] = filters[i + 1]
  BY <1>1, <1>2
<1>4. /\ \A i \in 1..Len(filters') :
                 i + 1 \in 1..Len(filters) /\ filters'[i] = filters[i + 1]
      /\ \A i \in 2..Len(filters) :
                 i - 1 \in 1..Len(filters') /\ filters[i] = filters'[i - 1]
  BY <1>2, <1>3
<1>5. ASSUME NEW k PROVE Waits(k)' <=> Waits(k) /\ k # filters[1].id
  <2>1. ASSUME Waits(k)' PROVE Waits(k) /\ k # filters[1].id
    <3>1. PICK i \in 1..Len(filters') : filters'[i].id = k
      BY <2>1 DEF Waits
    <3>2. i + 1 \in 1..Len(filters) /\ filters[i + 1].id = k /\ 1 < i + 1 /\ 1 \in 1..Len(filters)
      BY <1>2, <1>4, <3>1
    <3>3. filters[1].id < filters[i + 1].id
      BY <3>2 DEF QueueInv
    <3>4. filters[1].id \in Nat
      BY <3>2, BlockTypes
    <3> QED
      BY <3>2, <3>3, <3>4 DEF Waits
  <2>2. ASSUME Waits(k), k # filters[1].id PROVE Waits(k)'
    <3>1. PICK i \in 1..Len(filters) : filters[i].id = k
      BY <2>2 DEF Waits
    <3>2. i # 1
      BY <2>2, <3>1
    <3>3. i \in 2..Len(filters)
      BY <1>2, <3>2
    <3>4. i - 1 \in 1..Len(filters') /\ filters'[i - 1].id = k
      BY <1>4, <3>1, <3>3
    <3> QED
      BY <3>4 DEF Waits
  <2> QED
    BY <2>1, <2>2
<1> QED
  BY <1>2, <1>3, <1>4, <1>5

LEMMA TailSound ==
    ASSUME ReaderInv, QueueInv, DoneInv, filters # <<>>, filters' = Tail(filters),
           UNCHANGED <<plan, fl>>,
           From' = plan[filters[1].id].at,
           Taken' \in Nat, Taken <= Taken', Ends(filters[1].id) <= Taken'
    PROVE  QueueInv' /\ DoneInv'
<1> DEFINE n == Len(filters)
           h == filters[1].id
<1>1. /\ n \in Nat \ {0} /\ Len(filters') = n - 1
      /\ \A i \in 1..Len(filters') : i + 1 \in 1..n /\ filters'[i] = filters[i + 1]
      /\ \A k : Waits(k)' <=> Waits(k) /\ k # h
  BY QueueTail
<1>2. Settled' = Settled
  BY DEF Settled
<1>3. 1 \in 1..n
  BY <1>1
<1> HIDE DEF n
<1>4. QueueInv'
  <2>1. ASSUME NEW i \in 1..Len(filters') PROVE QueuedBlock(i)'
    <3>1. i + 1 \in 1..n /\ filters'[i] = filters[i + 1]
      BY <1>1
    <3>2. QueuedBlock(i + 1)
      BY <3>1 DEF QueueInv, n
    <3> QED
      BY <1>2, <3>1, <3>2 DEF QueuedBlock
  <2>2. ASSUME NEW i \in 1..Len(filters'), NEW j \in 1..Len(filters'), i < j
        PROVE  /\ filters'[i].id < filters'[j].id
               /\ plan[filters'[i].id].at <= plan[filters'[j].id].at
    <3>1. /\ i + 1 \in 1..n /\ filters'[i] = filters[i + 1]
          /\ j + 1 \in 1..n /\ filters'[j] = filters[j + 1]
      BY <1>1
    <3>2. i + 1 < j + 1
      BY <2>2
    <3> QED
      BY <3>1, <3>2 DEF QueueInv, n
  <2>3. ASSUME NEW i \in 1..Len(filters')
        PROVE  /\ filters'[i].offset = plan[filters'[i].id].at - Before(i)'
               /\ filters'[i].offset >= 0
    <3>1. i + 1 \in 1..n /\ filters'[i] = filters[i + 1]
      BY <1>1
    <3>2. Before(i)' = Before(i + 1)
      <4>1. i + 1 # 1 /\ i + 1 - 1 = i
        OBVIOUS
      <4>2. Before(i + 1) = plan[filters[i].id].at
        BY <4>1 DEF Before
      <4>3. CASE i = 1
        BY <4>2, <4>3 DEF Before
      <4>4. CASE i # 1
        <5>1. i - 1 \in 1..Len(filters') /\ i - 1 + 1 = i
          BY <1>1, <4>4
        <5>2. filters'[i - 1] = filters[i]
          BY <1>1, <5>1
        <5> QED
          BY <4>2, <4>4, <5>2 DEF Before
      <4> QED
        BY <4>3, <4>4
    <3>3. filters[i + 1].offset = plan[filters[i + 1].id].at - Before(i + 1) /\ filters[i + 1].offset >= 0
      BY <3>1 DEF QueueInv, n
    <3> QED
      BY <3>1, <3>2, <3>3
  <2> QED
    BY <2>1, <2>2, <2>3 DEF QueueInv
<1>5. DoneInv'
  <2> SUFFICES ASSUME NEW k \in 1..Settled, plan[k].dropped = 0, ~ Waits(k)'
               PROVE  Ends(k) <= Taken' /\ \A i \in 1..Len(filters') : k < filters'[i].id
    BY <1>2 DEF DoneInv, Ends
  <2>1. CASE k = h
    <3>1. ASSUME NEW i \in 1..Len(filters') PROVE k < filters'[i].id
      <4>1. i + 1 \in 1..n /\ filters'[i] = filters[i + 1] /\ 1 < i + 1
        BY <1>1
      <4> QED
        BY <1>3, <2>1, <4>1 DEF QueueInv, n
    <3> QED
      BY <2>1, <3>1
  <2>2. CASE k # h
    <3>1. ~ Waits(k)
      BY <1>1, <2>2
    <3>2. Ends(k) <= Taken /\ \A i \in 1..n : k < filters[i].id
      BY <3>1 DEF DoneInv, n
    <3>3. Taken \in Nat /\ Ends(k) \in Int
      <4>1. k \in 1..Len(plan)
        BY BlockTypes DEF Settled
      <4> QED
        BY <4>1, BlockTypes
    <3> QED
      BY <1>1, <3>2, <3>3
  <2> QED
    BY <2>1, <2>2
<1> QED
  BY <1>4, <1>5

\* Once all blocks are handed on, the first of the queue is still planned.
LEMMA FirstPlanned ==
    ASSUME FilterInv, QueueInv, fl = <<>>, filters # <<>>
    PROVE  LET k == filters[1].id
           IN  /\ k \in Planned /\ k \in 1..Len(plan) /\ 1 \in 1..Len(filters)
               /\ filters[1].length = plan[k].length /\ plan[k].length \in Blocks
               /\ plan[k].length \in Nat \ {0}
               /\ plan[k].at \in Int /\ plan[k].at >= From /\ From \in Nat
               /\ filters[1].offset = plan[k].at - From
<1> DEFINE k == filters[1].id
           d == plan[k].dropped
<1>1. ReaderInv /\ filters \in Seq(Block)
  BY DEF FilterInv, ReaderInv, ReaderTypeOK
<1>2. Len(filters) \in Nat \ {0} /\ 1 \in 1..Len(filters)
  BY <1>1, EmptySeq
<1>3. k \in 1..Len(plan) /\ plan[k].at >= From /\ From \in Nat
  BY <1>1, <1>2, QueuedAhead
<1>4. Settled = Len(plan) /\ DOMAIN plan = 1..Len(plan)
  BY <1>1, BlockTypes DEF Settled
<1>5. filters[1].length = plan[k].length /\ (d # 0 => d > Settled)
  BY <1>2 DEF QueueInv, QueuedBlock
<1>6. d # 0 => d \in k + 1..Len(plan)
  BY <1>3 DEF FilterInv, DropInv
<1>7. d = 0
  <2>1. Len(plan) \in Nat /\ k \in Nat
    BY <1>1, <1>3, BlockTypes
  <2> HIDE DEF d
  <2> QED
    BY <1>4, <1>5, <1>6, <2>1
<1>8. plan[k].length \in Blocks /\ plan[k].length \in Nat \ {0} /\ plan[k].at \in Int
  <2>1. plan[k].length \in Blocks
    BY <1>3 DEF FilterInv, CollectInv
  <2> QED
    BY <1>1, <1>3, <2>1, BlockTypes
<1>9. filters[1].offset = plan[k].at - From
  BY <1>2 DEF QueueInv, Before
<1> QED
  BY <1>2, <1>3, <1>4, <1>5, <1>7, <1>8, <1>9 DEF Planned

\* fill leaves the first filter of a well-formed file what it needs.
LEMMA HeadNeeds ==
    ASSUME FilterInv, pc = "filter", WellFormed,
           filters[1].offset <= 0, err \in {"nil", "EOF"}
    PROVE  Buffered(win) >= filters[1].length
<1>1. ReaderInv /\ CollectInv /\ SoundInv /\ FillInv /\ RingOK(win, stream) /\ IsWindow(win)
  BY DEF FilterInv, ReaderInv, RingOK
<1>2. /\ filters # <<>> /\ outbuf = <<>> /\ fl = <<>>
      /\ Decoded = tot + Len(outbuf) + Buffered(win) + win.l
      /\ err = "EOF" => eof
  BY <1>1 DEF CollectInv, ReaderInv, StepInv, CountInv, EndInv
<1>3. QueueInv
  BY <1>1, WellFormedSound DEF SoundInv, Stopped
<1> DEFINE k == filters[1].id
           len == plan[k].length
           b == Buffered(win)
           s == win.size
           l == win.l
<1>4. /\ k \in Planned /\ filters[1].length = len /\ len \in Blocks
      /\ plan[k].at \in Int /\ plan[k].at >= From /\ From \in Nat
      /\ filters[1].offset = plan[k].at - From
  BY <1>2, <1>3, FirstPlanned
<1>5. Len(outbuf) = 0 /\ From = tot /\ tot \in Nat /\ plan[k].at = tot
  <2>1. Len(outbuf) = 0 /\ tot \in Nat
    BY <1>1, <1>2, BlockTypes
  <2>2. From = tot
    BY <2>1 DEF From, Taken
  <2>3. plan[k].at = From
    BY <1>4
  <2> QED
    BY <2>1, <2>2, <2>3
<1>6. /\ b \in 0..s - 1 /\ s \in Nat /\ Available(win) = s - 1 - b
      /\ l \in Nat /\ (l > 0 => b = s - 1) /\ len \in 1..s - 1
  <2>1. s \in Sizes /\ len \in 1..s - 1
    BY <1>1, <1>4, ReaderAssumption DEF RingOK
  <2> QED
    BY <1>1, <2>1, RingSpace DEF RingOK, IsWindow
<1>7. CASE err = "nil"
  <2>1. Available(win) = 0 \/ ~ NeedsMore
    BY <1>1, <1>7 DEF FillInv
  <2>2. filters[1].offset = 0
    BY <1>4, <1>5
  <2>3. ~ NeedsMore => ~ (len > b)
    BY <1>2, <1>4, <2>2 DEF NeedsMore
  <2>4. Available(win) = 0 => b >= len
    <3> HIDE DEF b, s, l, len
    <3> QED
      BY <1>6
  <2>5. ~ (len > b) => b >= len
    <3> HIDE DEF b, s, l, len
    <3> QED
      BY <1>6
  <2> QED
    BY <1>4, <2>1, <2>3, <2>4, <2>5
<1>8. CASE err = "EOF"
  <2>1. Ends(k) <= Decoded
    BY <1>2, <1>4, <1>8 DEF WellFormed
  <2>2. Ends(k) = tot + len
    BY <1>5 DEF Ends
  <2>3. Decoded = tot + 0 + b + l
    BY <1>2, <1>5
  <2> HIDE DEF b, s, l, len
  <2>4. b >= len
    BY <1>5, <1>6, <2>1, <2>2, <2>3
  <2> QED
    BY <1>4, <2>4 DEF b, len
<1> QED
  BY <1>7, <1>8

\* A filter gets too little: the file is not well-formed, or its end is late.
LEMMA HeadFails ==
    ASSUME FilterInv, pc = "filter", filters # <<>>,
           filters[1].offset <= 0, Buffered(win) < filters[1].length,
           filters' = Tail(filters),
           res' = (IF err \in {"nil", "EOF"} THEN "invalid" ELSE err),
           err' = "nil", pc' = "ended",
           UNCHANGED <<win, outbuf, fl, tot, eof, stream, start, plan, astray, out>>
    PROVE  CollectInv' /\ DropInv' /\ SoundInv' /\ FillInv' /\ RefusedInv'
<1>1. /\ ReaderInv /\ CollectInv /\ DropInv /\ SoundInv /\ FillInv /\ RefusedInv
      /\ err \in {"nil", "EOF", "corrupt", "tooMany", "invalid"}
  BY DEF FilterInv, ReaderInv, ReaderTypeOK
<1>2. fl = <<>> /\ outbuf = <<>> /\ Len(outbuf) = 0
  BY <1>1 DEF CollectInv, ReaderInv, StepInv
<1>3. CollectInv' /\ DropInv'
  BY <1>2, SameBlocks
<1>4. FillInv'
  BY DEF FillInv
<1>5. Refused => Refused'
  BY <1>1 DEF Refused, FillInv
<1>6. RefusedInv'
  <2>1. SUFFICES ASSUME Refused', WellFormed' PROVE FALSE
    BY DEF RefusedInv
  <2>2. WellFormed
    BY <2>1 DEF WellFormed, InForce, Planned, ApartOrEqual, Ends, Decoded
  <2>3. err \in {"nil", "EOF"}
    <3>1. res' = "invalid"
      BY <2>1 DEF Refused
    <3>2. err # "invalid"
      BY <1>1, <2>2 DEF RefusedInv, Refused
    <3> QED
      BY <3>1, <3>2
  <2>4. Buffered(win) >= filters[1].length
    BY <2>2, <2>3, HeadNeeds
  <2>5. Buffered(win) \in Int /\ filters[1].length \in Int
    <3>1. IsWindow(win) /\ win.size \in Nat
      BY <1>1 DEF ReaderInv, RingOK, IsWindow
    <3>2. Buffered(win) \in 0..win.size - 1
      BY <3>1, RingSpace
    <3>3. 1 \in 1..Len(filters)
      BY <1>1, EmptySeq DEF ReaderInv, ReaderTypeOK
    <3>4. filters[1].length \in Nat
      BY <1>1, <3>3, BlockTypes
    <3> QED
      BY <3>1, <3>2, <3>4
  <2> QED
    BY <2>4, <2>5
<1>7. SoundInv'
  <2>1. ASSUME Sound' PROVE Stopped' /\ MarksInv'
    <3>1. res' # "invalid"
      BY <2>1 DEF Sound, Refused
    <3>2. Stopped'
      BY <1>1, <3>1 DEF Stopped
    <3>3. Sound
      <4>1. Taken' = Taken /\ Taken \in Int /\ \A k \in DOMAIN plan : plan[k].at \in Int
        BY <1>1, BlockTypes DEF Taken
      <4>2. Taken <= Taken' /\ Taken' \in Int
        BY <4>1
      <4> QED
        BY <1>5, <2>1, <4>1, <4>2, SoundBefore
    <3>4. MarksInv
      BY <1>1, <3>3 DEF SoundInv
    <3>5. MarksInv'
      BY <1>2, <3>4 DEF MarksInv, Marks, Covering, Planned, Ends
    <3> QED
      BY <3>2, <3>5
  <2> QED
    BY <2>1 DEF SoundInv
<1> QED
  BY <1>3, <1>4, <1>6, <1>7

\* The bytes of the first block are taken, and carry its mark only.
LEMMA HeadTakes ==
    ASSUME FilterInv, pc = "filter", filters # <<>>,
           filters[1].offset <= 0, ~ (Buffered(win) < filters[1].length),
           filters' = Tail(filters),
           outbuf' = Apply(filters[1], Tokens(Unread(win, filters[1].length))),
           pc' = "chain",
           UNCHANGED <<fl, tot, err, res, eof, stream, start, plan, astray, out>>
    PROVE  CollectInv' /\ DropInv' /\ SoundInv' /\ FillInv' /\ RefusedInv'
<1> DEFINE f == filters[1]
           k == f.id
           n == f.length
<1>1. ReaderInv /\ CollectInv /\ DropInv /\ SoundInv /\ FillInv
  BY DEF FilterInv
<1>2. fl = <<>> /\ outbuf = <<>> /\ Len(outbuf) = 0 /\ tot \in Nat /\ res # "invalid"
  BY <1>1 DEF CollectInv, ReaderInv, StepInv, ReaderTypeOK, FillInv
<1>3. CollectInv' /\ DropInv'
  BY <1>2, SameBlocks
<1>4. FillInv'
  BY <1>2 DEF FillInv
<1>5. Refused' = Refused
  BY DEF Refused
<1>6. RefusedInv'
  BY <1>5, SameRefused
<1>7. n \in 1..Buffered(win) /\ n \in Nat \ {0} /\ k \in Nat
  <2>1. 1 \in 1..Len(filters)
    BY <1>1, EmptySeq DEF ReaderInv, ReaderTypeOK
  <2>2. n \in Nat \ {0} /\ k \in Nat
    BY <1>1, <2>1, BlockTypes
  <2>3. IsWindow(win) /\ win.size \in Nat
    BY <1>1 DEF ReaderInv, RingOK, IsWindow
  <2>4. Buffered(win) \in 0..win.size - 1
    BY <2>3, RingSpace
  <2> HIDE DEF n, k
  <2>5. ~ (Buffered(win) < n)
    BY DEF n
  <2> QED
    BY <2>2, <2>3, <2>4, <2>5
<1> DEFINE u == Unread(win, n)
<1>8. u \in Seq(Nat) /\ Len(u) = n
  <2> HIDE DEF n
  <2> QED
    BY <1>1, <1>2, <1>7, UnreadInPlace
<1>9. /\ Len(outbuf') = n
      /\ \A i \in 1..n : outbuf'[i] = Append(<<u[i]>>, <<k, tot>>) /\ <<u[i]>> \in Marked
  <2>1. DOMAIN u = 1..n
    BY <1>8
  <2>2. Tokens(u) = [i \in 1..n |-> <<u[i]>>]
    BY <2>1 DEF Tokens
  <2>3. DOMAIN Tokens(u) = 1..n
    BY <2>2
  <2>4. outbuf' = [i \in 1..n |-> Append(Tokens(u)[i], <<k, tot>>)]
    BY <2>3 DEF Apply
  <2>5. \A i \in 1..n : Tokens(u)[i] = <<u[i]>>
    BY <2>2
  <2> HIDE DEF u, k, n
  <2>6. ASSUME NEW i \in 1..n PROVE <<u[i]>> \in Marked
    <3>1. u[i] \in Nat \cup (Nat \X Nat)
      BY <1>8, ElementOfSeq
    <3> QED
      BY <3>1 DEF Marked
  <2>7. Len(outbuf') = n
    BY <1>7, <2>4
  <2> QED
    BY <2>4, <2>5, <2>6, <2>7
<1> HIDE DEF u
<1>10. Taken = tot /\ From = tot /\ From' = tot /\ Taken' = tot + n /\ Taken <= Taken' /\ Taken' \in Nat
  <2>1. Taken = tot /\ From = tot /\ From' = tot /\ Taken' = tot + n
    BY <1>2, <1>9 DEF Taken, From
  <2> HIDE DEF n
  <2> QED
    BY <1>2, <1>7, <2>1
<1>11. \A j \in DOMAIN plan : plan[j].at \in Int
  BY <1>1, BlockTypes
<1>12. ASSUME Sound' PROVE QueueInv' /\ DoneInv' /\ ChainInv' /\ MarksInv'
  <2>1. Sound
    <3>1. Taken \in Int /\ Taken' \in Int /\ Taken <= Taken'
      BY <1>2, <1>10
    <3>2. (Refused => Refused') /\ (astray => astray')
      BY <1>5
    <3> QED
      BY <1>11, <1>12, <3>1, <3>2, SoundBefore
  <2>2. QueueInv /\ DoneInv /\ MarksInv
    BY <1>1, <2>1 DEF SoundInv, Stopped
  <2>3. /\ k \in Planned /\ k \in 1..Len(plan) /\ n = plan[k].length /\ plan[k].at = tot
    <3>1. /\ k \in Planned /\ k \in 1..Len(plan) /\ n = plan[k].length
          /\ plan[k].at \in Int /\ f.offset = plan[k].at - From /\ plan[k].at >= From
      BY <1>2, <2>2, FirstPlanned
    <3>2. plan[k].at = tot
      BY <1>2, <1>10, <3>1
    <3> QED
      BY <3>1, <3>2
  <2> HIDE DEF k, n
  <2>4. Ends(k) = Taken'
    BY <1>10, <2>3 DEF Ends
  <2>5. QueueInv' /\ DoneInv'
    <3>1. From' = plan[filters[1].id].at /\ Ends(filters[1].id) <= Taken'
      BY <1>10, <2>3, <2>4 DEF k
    <3> QED
      BY <1>1, <1>10, <2>2, <3>1, TailSound
  <2>6. \A j : Waits(j)' <=> Waits(j) /\ j # k
    BY <1>1, <2>2, QueueTail DEF k
  <2>7. ChainInv'
    BY <1>9, <2>3, <2>6 DEF ChainInv, Planned
  <2>8. ASSUME NEW i \in 1..n PROVE Passed(tot + i)' = {k}
    <3>1. k \in Covering(tot + i)
      BY <1>2, <1>7, <1>10, <2>3, <2>4 DEF Covering
    <3>2. ASSUME NEW j \in Covering(tot + i), ~ Waits(j) PROVE FALSE
      <4>1. j \in Planned /\ tot + i <= Ends(j)
        BY DEF Covering
      <4>2. j \in 1..Settled /\ plan[j].dropped = 0
        <5>1. Settled = Len(plan)
          BY <1>1, <1>2, BlockTypes DEF Settled
        <5> QED
          BY <1>1, <4>1, <5>1, BlockTypes DEF Planned
      <4>3. Ends(j) <= tot
        BY <1>10, <2>2, <3>2, <4>2 DEF DoneInv
      <4>4. Ends(j) \in Int
        <5>1. j \in 1..Len(plan)
          BY <1>1, <4>1, BlockTypes DEF Planned
        <5> QED
          BY <1>1, <5>1, BlockTypes
      <4> QED
        BY <1>2, <4>1, <4>3, <4>4
    <3>3. Covering(tot + i)' = Covering(tot + i)
      BY DEF Covering, Planned, Ends
    <3>4. Passed(tot + i)' = {j \in Covering(tot + i) : ~ (Waits(j) /\ j # k)}
      BY <2>6, <3>3 DEF Passed
    <3> QED
      BY <3>1, <3>2, <3>4
  <2>9. ASSUME NEW i \in 1..n PROVE Marks(outbuf'[i], {k})
    <3> DEFINE x == u[i]
    <3>1. <<x>> \in Marked /\ <<x>> # <<>> /\ outbuf'[i] = Append(<<x>>, <<k, tot>>)
      BY <1>9
    <3> HIDE DEF x
    <3>2. Marks(<<x>>, {})
      <4>1. Len(<<x>>) = 1 /\ 2..1 = {} /\ 2..1 - 1 = {}
        OBVIOUS
      <4> QED
        BY <4>1 DEF Marks
    <3>3. Marks(Append(<<x>>, <<k, tot>>), {} \cup {k})
      BY <1>2, <1>7, <2>3, <3>1, <3>2, MarkMore
    <3>4. {} \cup {k} = {k}
      OBVIOUS
    <3> QED
      BY <3>1, <3>3, <3>4
  <2>10. MarksInv'
    <3>1. \A i \in 1..Len(out) : Marks(out[i], Covering(i))'
      BY <2>2 DEF MarksInv, Marks, Covering, Planned, Ends
    <3>2. ASSUME NEW i \in 1..n PROVE Marks(outbuf[i], Passed(tot + i))'
      <4>1. Passed(tot + i)' = {k} /\ Marks(outbuf'[i], {k})
        BY <2>8, <2>9
      <4> QED
        BY <4>1 DEF Marks
    <3> QED
      BY <1>9, <3>1, <3>2 DEF MarksInv
  <2> QED
    BY <2>5, <2>7, <2>10
<1> QED
  BY <1>3, <1>4, <1>6, <1>12 DEF SoundInv

LEMMA FilterFirst ==
    ASSUME FilterInv, ReaderInv', FilterHead
    PROVE  FilterInv'
<1>1. /\ pc = "filter"
      /\ UNCHANGED <<fl, tot, eof, want, stream, start, plan, astray, out, files>>
      /\ \/ /\ Head(filters).offset > 0
            /\ pc' = "deliver"
            /\ UNCHANGED <<win, filters, outbuf, err, res>>
         \/ /\ Head(filters).offset <= 0
            /\ Buffered(win) < Head(filters).length
            /\ filters' = Tail(filters)
            /\ res' = (IF err \in {"nil", "EOF"} THEN "invalid" ELSE err)
            /\ err' = "nil"
            /\ pc' = IF res' = "nil" THEN "idle" ELSE "ended"
            /\ UNCHANGED <<win, outbuf>>
         \/ /\ Head(filters).offset <= 0
            /\ ~ (Buffered(win) < Head(filters).length)
            /\ filters' = Tail(filters)
            /\ outbuf' = Apply(Head(filters), Tokens(Unread(win, Head(filters).length)))
            /\ pc' = "chain"
            /\ UNCHANGED <<err, res>>
  BY DEF FilterHead, Fileless, TooFew, Fails
<1>2. filters # <<>> /\ Head(filters) = filters[1] /\ fl = <<>> /\ res # "invalid"
  <2>1. filters # <<>> /\ filters \in Seq(Block)
    BY <1>1 DEF FilterInv, ReaderInv, StepInv, ReaderTypeOK
  <2>2. fl = <<>> /\ res # "invalid"
    BY <1>1 DEF FilterInv, CollectInv, FillInv
  <2> QED
    BY <2>1, <2>2
<1>3. CASE pc' = "deliver" /\ UNCHANGED <<win, filters, outbuf, err, res>>
  <2>1. CollectInv' /\ DropInv' /\ SoundInv'
    <3>1. pc # "chain" /\ pc' # "chain" /\ (Refused => Refused') /\ (Stopped => Stopped')
      BY <1>1, <1>3 DEF Refused, Stopped
    <3> QED
      BY <1>1, <1>2, <1>3, <3>1, QuietStep
  <2>2. FillInv'
    BY <1>2, <1>3 DEF FillInv
  <2>3. RefusedInv'
    BY <1>1, <1>3, SameRefused DEF Refused
  <2> QED
    BY <2>1, <2>2, <2>3 DEF FilterInv
<1>4. CASE /\ Head(filters).offset <= 0
           /\ Buffered(win) < Head(filters).length
           /\ filters' = Tail(filters)
           /\ res' = (IF err \in {"nil", "EOF"} THEN "invalid" ELSE err)
           /\ err' = "nil"
           /\ pc' = IF res' = "nil" THEN "idle" ELSE "ended"
           /\ UNCHANGED <<win, outbuf>>
  <2>1. pc' = "ended"
    BY <1>4
  <2> QED
    BY <1>1, <1>2, <1>4, <2>1, HeadFails DEF FilterInv
<1>5. CASE /\ Head(filters).offset <= 0
           /\ ~ (Buffered(win) < Head(filters).length)
           /\ filters' = Tail(filters)
           /\ outbuf' = Apply(Head(filters), Tokens(Unread(win, Head(filters).length)))
           /\ pc' = "chain"
           /\ UNCHANGED <<err, res>>
  BY <1>1, <1>2, <1>5, HeadTakes DEF FilterInv
<1> QED
  BY <1>1, <1>3, <1>4, <1>5

\* The first filter moves back: the blocks of the queue stay.
LEMMA QueueShift ==
    ASSUME ReaderInv, filters # <<>>, NEW n \in Int,
           filters' = <<Behind(filters[1], n)>> \o Tail(filters)
    PROVE  /\ Len(filters') = Len(filters) /\ 1 \in 1..Len(filters)
           /\ \A i \in 1..Len(filters) :
                 /\ filters'[i].id = filters[i].id /\ filters'[i].length = filters[i].length
                 /\ filters'[i].offset = IF i = 1 THEN filters[1].offset - n
                                         ELSE filters[i].offset
           /\ \A k : Waits(k)' <=> Waits(k)
<1> DEFINE b == Behind(filters[1], n)
<1>1. filters \in Seq(Block)
  BY DEF ReaderInv, ReaderTypeOK
<1>2. Len(filters) \in Nat \ {0} /\ 1 \in 1..Len(filters)
  BY <1>1, EmptySeq
<1>3. b.id = filters[1].id /\ b.length = filters[1].length /\ b.offset = filters[1].offset - n
  <2> DEFINE f == filters[1]
             q == f.offset - n
  <2>1. f \in Block
    BY <1>1, <1>2, ElementOfSeq
  <2>2. b = [f EXCEPT !.offset = q]
    BY DEF Behind
  <2> HIDE DEF b, f, q
  <2>3. b.id = f.id /\ b.length = f.length /\ b.offset = q
    BY <2>1, <2>2 DEF Block
  <2> QED
    BY <2>3 DEF f, q
<1> HIDE DEF b
<1>4. filters' = <<b>> \o Tail(filters)
  BY DEF b
<1>5. /\ Len(filters') = Len(filters) /\ filters'[1] = b
      /\ \A i \in 2..Len(filters) : filters'[i] = filters[i]
  <2>1. Len(Tail(filters)) = Len(filters) - 1
    BY <1>1, <1>2
  <2>2. Tail(filters) \in Seq(Block) /\ \A i \in 1..Len(filters) - 1 : Tail(filters)[i] = filters[i + 1]
    BY <1>1, <1>2
  <2>3. Len(filters') = Len(filters)
    BY <1>2, <1>4, <2>1, <2>2
  <2>4. filters'[1] = b
    BY <1>4, <2>2
  <2>5. ASSUME NEW i \in 2..Len(filters) PROVE filters'[i] = filters[i]
    <3>1. i - 1 \in 1..Len(filters) - 1 /\ i - 1 + 1 = i /\ i \in 1..Len(filters) /\ i > 1
      BY <1>2
    <3>2. filters'[i] = Tail(filters)[i - 1]
      BY <1>2, <1>4, <2>1, <2>2, <3>1
    <3> QED
      BY <2>2, <3>1, <3>2
  <2> QED
    BY <2>3, <2>4, <2>5
<1>6. ASSUME NEW i \in 1..Len(filters)
      PROVE  /\ filters'[i].id = filters[i].id /\ filters'[i].length = filters[i].length
             /\ filters'[i].offset = IF i = 1 THEN filters[1].offset - n
                                         ELSE filters[i].offset
  <2>1. CASE i = 1
    BY <1>3, <1>5, <2>1
  <2>2. CASE i # 1
    <3>1. i \in 2..Len(filters)
      BY <1>2, <2>2
    <3> QED
      BY <1>5, <2>2, <3>1
  <2> QED
    BY <2>1, <2>2
<1>7. \A k : Waits(k)' <=> Waits(k)
  BY <1>5, <1>6 DEF Waits
<1> QED
  BY <1>2, <1>5, <1>6, <1>7

LEMMA ShiftSound ==
    ASSUME ReaderInv, QueueInv, DoneInv, filters # <<>>, NEW n \in Int,
           filters' = <<Behind(filters[1], n)>> \o Tail(filters),
           UNCHANGED <<plan, fl>>,
           From' = From + n, plan[filters[1].id].at >= From',
           Taken' \in Nat, Taken <= Taken'
    PROVE  QueueInv' /\ DoneInv'
<1>1. /\ Len(filters') = Len(filters) /\ 1 \in 1..Len(filters)
      /\ \A i \in 1..Len(filters) :
            /\ filters'[i].id = filters[i].id /\ filters'[i].length = filters[i].length
            /\ filters'[i].offset = IF i = 1 THEN filters[1].offset - n
                                    ELSE filters[i].offset
      /\ \A k : Waits(k)' <=> Waits(k)
  BY QueueShift
<1>2. Settled' = Settled
  BY DEF Settled
<1>3. From \in Nat /\ plan[filters[1].id].at \in Int /\ Len(filters) \in Nat
  <2>1. filters[1].id \in 1..Len(plan) /\ From \in Nat
    BY <1>1, QueuedAhead
  <2> QED
    BY <2>1, BlockTypes
<1>4. QueueInv'
  <2>1. \A i \in 1..Len(filters) : QueuedBlock(i)'
    BY <1>1, <1>2 DEF QueueInv, QueuedBlock
  <2>2. \A i, j \in 1..Len(filters) : i < j =>
          /\ filters'[i].id < filters'[j].id
          /\ plan[filters'[i].id].at <= plan[filters'[j].id].at
    BY <1>1 DEF QueueInv
  <2>3. ASSUME NEW i \in 1..Len(filters)
        PROVE  /\ filters'[i].offset = plan[filters'[i].id].at - Before(i)'
               /\ filters'[i].offset >= 0
    <3>1. CASE i = 1
      <4> DEFINE a == plan[filters[1].id].at
      <4>1. filters[1].offset = a - From
        BY <1>1 DEF QueueInv, Before
      <4>2. filters'[1].offset = filters[1].offset - n /\ filters'[1].id = filters[1].id
        BY <1>1
      <4>3. a \in Int /\ a >= From' /\ From' = From + n /\ From \in Int
        BY <1>3
      <4>4. Before(1)' = From'
        BY DEF Before
      <4> HIDE DEF a
      <4>5. filters'[1].offset = a - From' /\ filters'[1].offset >= 0
        BY <4>1, <4>2, <4>3
      <4> QED
        BY <3>1, <4>2, <4>4, <4>5 DEF a
    <3>2. CASE i # 1
      <4>1. i - 1 \in 1..Len(filters)
        BY <1>3, <3>2
      <4>2. Before(i)' = Before(i)
        BY <1>1, <3>2, <4>1 DEF Before
      <4> QED
        BY <1>1, <3>2, <4>2 DEF QueueInv
    <3> QED
      BY <3>1, <3>2
  <2> QED
    BY <1>1, <2>1, <2>2, <2>3 DEF QueueInv
<1>5. DoneInv'
  <2> SUFFICES ASSUME NEW k \in 1..Settled, plan[k].dropped = 0, ~ Waits(k)
               PROVE  Ends(k) <= Taken' /\ \A i \in 1..Len(filters) : k < filters'[i].id
    BY <1>1, <1>2 DEF DoneInv, Ends
  <2>1. Ends(k) <= Taken /\ \A i \in 1..Len(filters) : k < filters[i].id
    BY DEF DoneInv
  <2>2. Ends(k) \in Int /\ Taken \in Int
    <3>1. k \in 1..Len(plan)
      BY BlockTypes DEF Settled
    <3> QED
      BY <3>1, BlockTypes
  <2> QED
    BY <1>1, <2>1, <2>2
<1> QED
  BY <1>4, <1>5

\* The block whose filter ran last is before the next of the queue, which it
\* does not overlap.
LEMMA ChainBlock ==
    ASSUME FilterInv, Sound, pc = "chain", filters # <<>>
    PROVE  LET k == filters[1].id
           IN  \E c \in Planned :
                  /\ k \in Planned /\ c < k
                  /\ plan[c].at = tot /\ plan[c].length = Len(outbuf)
                  /\ Len(outbuf) \in Nat \ {0} /\ Taken = tot + Len(outbuf) /\ From = tot
                  /\ tot \in Nat
                  /\ filters[1].length = plan[k].length
                  /\ plan[k].at \in Int /\ plan[k].at >= tot
                  /\ filters[1].offset = plan[k].at - tot
                  /\ k \in 1..Len(plan)
<1>1. ReaderInv /\ CollectInv /\ QueueInv /\ DoneInv /\ ChainInv /\ fl = <<>> /\ outbuf # <<>>
  BY DEF FilterInv, SoundInv, Stopped, CollectInv, ReaderInv, StepInv
<1>2. PICK c \in Planned : plan[c].at = tot /\ plan[c].length = Len(outbuf) /\ ~ Waits(c)
  BY <1>1 DEF ChainInv
<1>3. /\ Len(outbuf) \in Nat \ {0} /\ Taken = tot + Len(outbuf) /\ From = tot /\ tot \in Nat
  BY <1>1, EmptySeq DEF ReaderInv, ReaderTypeOK, Taken, From
<1>4. LET k == filters[1].id
      IN  /\ k \in Planned /\ k \in 1..Len(plan) /\ 1 \in 1..Len(filters)
          /\ filters[1].length = plan[k].length
          /\ plan[k].at \in Int /\ plan[k].at >= From
          /\ filters[1].offset = plan[k].at - From
  BY <1>1, FirstPlanned
<1>5. c \in 1..Settled /\ plan[c].dropped = 0
  <2>1. Settled = Len(plan)
    BY <1>1, BlockTypes DEF Settled
  <2> QED
    BY <1>1, <2>1, BlockTypes DEF Planned
<1>6. c < filters[1].id
  BY <1>1, <1>2, <1>4, <1>5 DEF DoneInv
<1> QED
  BY <1>2, <1>3, <1>4, <1>6

\* What holds of a filter step that leaves err and res alone.
LEMMA ChainRest ==
    ASSUME FilterInv, pc = "chain", pc' \in {"chain", "deliver"},
           UNCHANGED <<fl, tot, err, res, eof, stream, start, plan, astray>>,
           Taken' = Taken
    PROVE  /\ CollectInv' /\ DropInv' /\ FillInv' /\ RefusedInv' /\ fl = <<>>
           /\ Sound' => Sound
<1>1. ReaderInv /\ fl = <<>> /\ res # "invalid"
  BY DEF FilterInv, CollectInv, FillInv
<1>2. CollectInv' /\ DropInv'
  BY <1>1, SameBlocks
<1>3. FillInv'
  BY <1>1 DEF FillInv
<1>4. Refused' = Refused
  BY DEF Refused
<1>5. RefusedInv'
  BY <1>4, SameRefused
<1>6. Sound' => Sound
  <2>1. Taken \in Int /\ \A k \in DOMAIN plan : plan[k].at \in Int
    BY <1>1, BlockTypes
  <2>2. Taken <= Taken'
    BY <2>1
  <2> QED
    BY <1>4, <2>1, <2>2, SoundBefore
<1> QED
  BY <1>1, <1>2, <1>3, <1>5, <1>6

\* The next block is behind: its distance counts from what was taken.
LEMMA ChainMoves ==
    ASSUME FilterInv, Sound, pc = "chain", pc' = "deliver",
           filters # <<>>, filters[1].offset # 0,
           filters' = <<Behind(filters[1], Len(outbuf))>> \o Tail(filters),
           UNCHANGED <<fl, tot, outbuf, out, plan>>
    PROVE  QueueInv' /\ DoneInv' /\ MarksInv'
<1> DEFINE k == filters[1].id
           a == plan[k].at
           n == Len(outbuf)
<1>1. ReaderInv /\ QueueInv /\ DoneInv /\ MarksInv
  BY DEF FilterInv, SoundInv, Stopped
<1>2. PICK c \in Planned :
         /\ k \in Planned /\ c < k /\ plan[c].at = tot /\ plan[c].length = n
         /\ n \in Nat \ {0} /\ Taken = tot + n /\ From = tot /\ tot \in Nat
         /\ a \in Int /\ a >= tot /\ filters[1].offset = a - tot
  BY ChainBlock
<1>3. From' = Taken /\ Taken' = Taken
  BY DEF From, Taken
<1>4. a >= Taken
  <2>1. SUFFICES ASSUME a < Taken PROVE FALSE
    BY <1>2
  <2>2. plan[c].at < Taken
    BY <1>2
  <2>3. ApartOrEqual(c, k)
    BY <1>2, <2>1, <2>2 DEF Sound, TakenApart
  <2>4. ~ (Ends(c) <= a)
    <3>1. Ends(c) = Taken
      BY <1>2 DEF Ends
    <3> QED
      BY <1>2, <2>1, <3>1
  <2>5. a # tot
    BY <1>2
  <2> QED
    BY <1>2, <2>3, <2>4, <2>5 DEF ApartOrEqual
<1>5. QueueInv' /\ DoneInv'
  <2>1. n \in Int /\ From' = From + n /\ a >= From' /\ Taken' \in Nat /\ Taken <= Taken'
    BY <1>2, <1>3, <1>4
  <2> QED
    BY <1>1, <2>1, ShiftSound
<1>6. MarksInv'
  <2>1. \A j : Waits(j)' <=> Waits(j)
    BY <1>1, <1>2, QueueShift
  <2> QED
    BY <1>1, <2>1 DEF MarksInv, Marks, Covering, Passed, Planned, Ends
<1> QED
  BY <1>5, <1>6

\* The next block is another one at the same place: the file is not
\* well-formed.
LEMMA ChainRefuses ==
    ASSUME FilterInv, pc = "chain", filters # <<>>, filters[1].offset = 0,
           filters[1].length # Len(outbuf)
    PROVE  ~ WellFormed
<1> DEFINE k == filters[1].id
           n == Len(outbuf)
<1> SUFFICES ASSUME WellFormed PROVE FALSE
  OBVIOUS
<1>1. PICK c \in Planned :
         /\ k \in Planned /\ c < k /\ plan[c].at = tot /\ plan[c].length = n
         /\ n \in Nat \ {0} /\ tot \in Nat /\ filters[1].length = plan[k].length
         /\ plan[k].at \in Int /\ filters[1].offset = plan[k].at - tot
  BY WellFormedSound, ChainBlock
<1>2. ApartOrEqual(c, k)
  BY <1>1 DEF WellFormed
<1>3. plan[k].at = tot /\ Ends(c) = tot + n
  BY <1>1 DEF Ends
<1> QED
  BY <1>1, <1>2, <1>3 DEF ApartOrEqual

\* The next block is at the same place, and takes what the last made.
LEMMA ChainApplies ==
    ASSUME FilterInv, Sound, pc = "chain", pc' = "chain",
           filters # <<>>, filters[1].offset = 0, filters[1].length = Len(outbuf),
           filters' = Tail(filters), outbuf' = Apply(filters[1], outbuf),
           UNCHANGED <<fl, tot, out, plan>>
    PROVE  QueueInv' /\ DoneInv' /\ ChainInv' /\ MarksInv'
<1> DEFINE k == filters[1].id
           n == Len(outbuf)
<1>1. ReaderInv /\ QueueInv /\ DoneInv /\ MarksInv /\ PlaceInv /\ outbuf \in Seq(Marked)
  BY DEF FilterInv, SoundInv, Stopped, ReaderInv, ReaderTypeOK
<1>2. /\ k \in Planned /\ plan[k].at = tot /\ plan[k].length = n /\ k \in Nat
      /\ n \in Nat \ {0} /\ Taken = tot + n /\ From = tot /\ tot \in Nat
      /\ k \in 1..Len(plan)
  <2>1. PICK c \in Planned :
           /\ k \in Planned
           /\ n \in Nat \ {0} /\ Taken = tot + n /\ From = tot /\ tot \in Nat
           /\ filters[1].length = plan[k].length
           /\ plan[k].at \in Int /\ filters[1].offset = plan[k].at - tot
           /\ k \in 1..Len(plan)
    BY ChainBlock
  <2>2. plan[k].at = tot
    BY <2>1
  <2> QED
    BY <2>1, <2>2
<1>3. \A i \in 1..n : outbuf[i] \in Marked /\ outbuf[i] # <<>>
  BY <1>1, ElementOfSeq DEF PlaceInv, InPlace
<1>4. Len(outbuf') = n /\ \A i \in 1..n : outbuf'[i] = Append(outbuf[i], <<k, tot>>)
  <2>1. DOMAIN outbuf = 1..n
    BY <1>1
  <2>2. outbuf' = [i \in 1..n |-> Append(outbuf[i], <<k, tot>>)]
    BY <2>1 DEF Apply
  <2> HIDE DEF k, n
  <2> QED
    BY <1>2, <2>2
<1>5. Taken' = Taken /\ From' = tot /\ Ends(k) = Taken
  BY <1>2, <1>4 DEF Taken, From, Ends
<1>6. QueueInv' /\ DoneInv'
  <2>1. From' = plan[filters[1].id].at /\ Ends(filters[1].id) <= Taken' /\ Taken' \in Nat
    BY <1>2, <1>5
  <2>2. Taken <= Taken'
    BY <1>2, <1>5
  <2> QED
    BY <1>1, <2>1, <2>2, TailSound
<1>7. \A j : Waits(j)' <=> Waits(j) /\ j # k
  BY <1>1, QueueTail
<1> HIDE DEF k, n
<1>8. ChainInv'
  BY <1>2, <1>4, <1>7 DEF ChainInv, Planned
<1>9. ASSUME NEW i \in 1..n
      PROVE  Passed(tot + i)' = Passed(tot + i) \cup {k}
  <2>1. k \in Covering(tot + i)
    BY <1>2, <1>5 DEF Covering
  <2>2. Covering(tot + i)' = Covering(tot + i)
    BY DEF Covering, Planned, Ends
  <2>3. Passed(tot + i)' = {j \in Covering(tot + i) : ~ (Waits(j) /\ j # k)}
    BY <1>7, <2>2 DEF Passed
  <2> QED
    BY <2>1, <2>3 DEF Passed
<1>10. ASSUME NEW i \in 1..n, NEW j \in Passed(tot + i) PROVE j < k
  <2>1. j \in Planned /\ ~ Waits(j)
    BY DEF Passed, Covering
  <2>2. j \in 1..Settled /\ plan[j].dropped = 0
    <3>1. fl = <<>>
      BY DEF FilterInv, CollectInv
    <3>2. Settled = Len(plan)
      BY <1>1, <3>1, BlockTypes DEF Settled
    <3> QED
      BY <1>1, <2>1, <3>2, BlockTypes DEF Planned
  <2>3. 1 \in 1..Len(filters)
    BY <1>1, EmptySeq DEF ReaderInv, ReaderTypeOK
  <2> QED
    BY <1>1, <2>1, <2>2, <2>3 DEF DoneInv, k
<1>11. MarksInv'
  <2>1. \A i \in 1..Len(out) : Marks(out[i], Covering(i))'
    BY <1>1 DEF MarksInv, Marks, Covering, Planned, Ends
  <2>2. ASSUME NEW i \in 1..n PROVE Marks(outbuf[i], Passed(tot + i))'
    <3>1. Marks(outbuf[i], Passed(tot + i))
      BY <1>1 DEF MarksInv, n
    <3>2. Marks(Append(outbuf[i], <<k, tot>>), Passed(tot + i) \cup {k})
      BY <1>2, <1>3, <1>10, <3>1, MarkMore
    <3>3. Marks(outbuf'[i], Passed(tot + i)')
      BY <1>4, <1>9, <3>2
    <3> QED
      BY <3>3 DEF Marks
  <2> QED
    BY <1>4, <2>1, <2>2 DEF MarksInv
<1> QED
  BY <1>6, <1>8, <1>11

LEMMA FilterChained ==
    ASSUME FilterInv, ReaderInv', FilterChain
    PROVE  FilterInv'
<1>1. /\ pc = "chain"
      /\ UNCHANGED <<win, fl, tot, err, eof, stream, start, plan, astray, out>>
      /\ \/ filters = <<>> /\ pc' = "deliver" /\ UNCHANGED <<filters, outbuf, res>>
         \/ /\ filters # <<>> /\ filters[1].offset # 0
            /\ filters' = <<Behind(filters[1], Len(outbuf))>> \o Tail(filters)
            /\ pc' = "deliver" /\ UNCHANGED <<outbuf, res>>
         \/ /\ filters # <<>> /\ filters[1].offset = 0
            /\ filters[1].length # Len(outbuf)
            /\ res' = "invalid" /\ pc' = "ended" /\ UNCHANGED <<filters, outbuf>>
         \/ /\ filters # <<>> /\ filters[1].offset = 0
            /\ filters[1].length = Len(outbuf)
            /\ outbuf' = Apply(filters[1], outbuf) /\ filters' = Tail(filters)
            /\ UNCHANGED <<pc, res>>
  BY DEF FilterChain, Fileless
<1>2. ReaderInv /\ SoundInv /\ pc' # "filter" /\ pc' # "queue"
  BY <1>1 DEF FilterInv
<1>3. CASE filters = <<>> /\ pc' = "deliver" /\ UNCHANGED <<filters, outbuf, res>>
  <2>1. Taken' = Taken
    BY <1>1, <1>3 DEF Taken
  <2>2. /\ CollectInv' /\ DropInv' /\ FillInv' /\ RefusedInv' /\ fl = <<>>
        /\ Sound' => Sound
    BY <1>1, <1>3, <2>1, ChainRest
  <2>3. ASSUME Sound PROVE QueueInv' /\ DoneInv' /\ ChainInv' /\ MarksInv'
    <3>1. DoneInv /\ MarksInv
      BY <1>1, <1>2, <2>3 DEF SoundInv, Stopped
    <3>2. QueueInv' /\ ChainInv'
      BY <1>3 DEF QueueInv, ChainInv
    <3>3. DoneInv'
      BY <1>1, <1>3, <2>1, <3>1 DEF DoneInv, Waits, Ends, Settled
    <3>4. MarksInv'
      BY <1>1, <1>3, <3>1, SameMarks
    <3> QED
      BY <3>2, <3>3, <3>4
  <2> QED
    BY <2>2, <2>3 DEF SoundInv, FilterInv
<1>4. CASE /\ filters # <<>> /\ filters[1].offset # 0
           /\ filters' = <<Behind(filters[1], Len(outbuf))>> \o Tail(filters)
           /\ pc' = "deliver" /\ UNCHANGED <<outbuf, res>>
  <2>1. Taken' = Taken
    BY <1>1, <1>4 DEF Taken
  <2>2. /\ CollectInv' /\ DropInv' /\ FillInv' /\ RefusedInv' /\ fl = <<>>
        /\ Sound' => Sound
    BY <1>1, <1>4, <2>1, ChainRest
  <2>3. ASSUME Sound PROVE QueueInv' /\ DoneInv' /\ ChainInv' /\ MarksInv'
    <3>1. QueueInv' /\ DoneInv' /\ MarksInv'
      BY <1>1, <1>4, <2>3, ChainMoves
    <3>2. ChainInv'
      BY <1>4 DEF ChainInv
    <3> QED
      BY <3>1, <3>2
  <2> QED
    BY <2>2, <2>3 DEF SoundInv, FilterInv
<1>5. CASE /\ filters # <<>> /\ filters[1].offset = 0
           /\ filters[1].length # Len(outbuf)
           /\ res' = "invalid" /\ pc' = "ended" /\ UNCHANGED <<filters, outbuf>>
  <2>1. ~ WellFormed
    BY <1>1, <1>5, ChainRefuses
  <2>2. ~ WellFormed'
    BY <1>1, <2>1 DEF WellFormed, InForce, Planned, ApartOrEqual, Ends, Decoded
  <2>3. Refused'
    BY <1>5 DEF Refused
  <2>4. CollectInv' /\ DropInv'
    <3>1. fl = <<>>
      BY <1>1 DEF FilterInv, CollectInv
    <3> QED
      BY <1>1, <3>1, SameBlocks
  <2>5. FillInv'
    BY <1>5 DEF FillInv
  <2> QED
    BY <2>2, <2>3, <2>4, <2>5 DEF FilterInv, SoundInv, Sound, RefusedInv
<1>6. CASE /\ filters # <<>> /\ filters[1].offset = 0
           /\ filters[1].length = Len(outbuf)
           /\ outbuf' = Apply(filters[1], outbuf) /\ filters' = Tail(filters)
           /\ UNCHANGED <<pc, res>>
  <2>1. Taken' = Taken
    <3>1. DOMAIN outbuf = 1..Len(outbuf) /\ Len(outbuf) \in Nat
      BY <1>2 DEF ReaderInv, ReaderTypeOK
    <3>2. Len(outbuf') = Len(outbuf)
      BY <1>6, <3>1 DEF Apply
    <3> QED
      BY <1>1, <3>2 DEF Taken
  <2>2. /\ CollectInv' /\ DropInv' /\ FillInv' /\ RefusedInv' /\ fl = <<>>
        /\ Sound' => Sound
    BY <1>1, <1>6, <2>1, ChainRest
  <2>3. ASSUME Sound PROVE QueueInv' /\ DoneInv' /\ ChainInv' /\ MarksInv'
    BY <1>1, <1>6, <2>3, ChainApplies
  <2> QED
    BY <2>2, <2>3 DEF SoundInv, FilterInv
<1> QED
  BY <1>1, <1>3, <1>4, <1>5, <1>6

-----------------------------------------------------------------------------
(* Read: bytes are returned *)

\* Returned bytes keep their marks.
LEMMA MarksReturned ==
    ASSUME ReaderInv, NEW bytes \in Seq(Marked), out' = out \o bytes, UNCHANGED plan,
           \A i \in 1..Len(out) : Marks(out[i], Covering(i)),
           \A i \in 1..Len(bytes) : Marks(bytes[i], Covering(tot + i))
    PROVE  \A i \in 1..Len(out') : Marks(out[i], Covering(i))'
<1> DEFINE o == out'
<1>1. /\ out \in Seq(Marked) /\ Len(out) = tot /\ tot \in Nat /\ Len(bytes) \in Nat
  BY DEF ReaderInv, ReaderTypeOK, CountInv
<1>2. /\ Len(o) = tot + Len(bytes)
      /\ \A i \in 1..tot + Len(bytes) : o[i] = IF i <= tot THEN out[i] ELSE bytes[i - tot]
  <2>1. /\ Len(o) = Len(out) + Len(bytes)
        /\ \A i \in 1..Len(out) + Len(bytes) :
              o[i] = IF i <= Len(out) THEN out[i] ELSE bytes[i - Len(out)]
    BY <1>1, ConcatProperties
  <2> HIDE DEF o
  <2> QED
    BY <1>1, <2>1
<1>3. ASSUME NEW i \in 1..Len(o) PROVE Marks(o[i], Covering(i))
  <2> HIDE DEF o
  <2>1. CASE i <= tot
    <3>1. i \in 1..Len(out) /\ o[i] = out[i]
      BY <1>1, <1>2, <2>1
    <3> QED
      BY <3>1
  <2>2. CASE ~ (i <= tot)
    <3> DEFINE j == i - tot
    <3>1. j \in 1..Len(bytes) /\ tot + j = i /\ o[i] = bytes[j]
      BY <1>1, <1>2, <2>2
    <3> HIDE DEF j
    <3>2. Marks(bytes[j], Covering(tot + j))
      BY <3>1
    <3> QED
      BY <3>1, <3>2
  <2> QED
    BY <2>1, <2>2
<1>4. \A i : Covering(i)' = Covering(i)
  BY DEF Covering, Planned, Ends
<1> QED
  <2> SUFFICES ASSUME NEW i \in 1..Len(out') PROVE Marks(out[i], Covering(i))'
    OBVIOUS
  <2> DEFINE byte == o[i]
             blocks == Covering(i)
  <2>1. Marks(byte, blocks)
    BY <1>3
  <2>2. out'[i] = byte /\ Covering(i)' = blocks
    BY <1>4
  <2> HIDE DEF byte, blocks, o
  <2> QED
    BY <2>1, <2>2 DEF Marks

\* No block that is queued covers a byte before those that wait.
LEMMA NoneOver ==
    ASSUME ReaderInv, QueueInv, NEW i \in Nat, i <= From
    PROVE  Passed(i) = Covering(i)
<1> SUFFICES ASSUME NEW k \in Covering(i), Waits(k) PROVE FALSE
  BY DEF Passed
<1>1. PICK j \in 1..Len(filters) : filters[j].id = k
  BY DEF Waits
<1>2. plan[k].at >= From /\ From \in Nat /\ k \in 1..Len(plan)
  BY <1>1, QueuedAhead
<1>3. plan[k].at < i /\ plan[k].at \in Int
  BY <1>2, BlockTypes DEF Covering
<1> QED
  BY <1>2, <1>3

\* Filter output is returned.
LEMMA DeliverOutput ==
    ASSUME FilterInv, Sound, pc = "deliver", outbuf # <<>>,
           NEW n \in 1..Len(outbuf), tot' = tot + n, pc' = "idle",
           out' = out \o SubSeq(outbuf, 1, n),
           outbuf' = SubSeq(outbuf, n + 1, Len(outbuf)),
           UNCHANGED <<filters, plan, fl>>
    PROVE  Taken' = Taken /\ QueueInv' /\ DoneInv' /\ MarksInv'
<1> DEFINE head == SubSeq(outbuf, 1, n)
           m == Len(outbuf)
<1>1. /\ ReaderInv /\ QueueInv /\ DoneInv /\ MarksInv /\ fl = <<>>
      /\ outbuf \in Seq(Marked) /\ tot \in Nat /\ m \in Nat
  BY DEF FilterInv, SoundInv, Stopped, ReaderInv, ReaderTypeOK, CollectInv
<1>2. /\ head \in Seq(Marked) /\ Len(head) = n
      /\ \A i \in 1..n : head[i] = outbuf[i]
  <2> HIDE DEF head
  <2>1. head = SubSeq(outbuf, 1, n)
    BY DEF head
  <2> QED
    BY <1>1, <2>1
<1>3. Len(outbuf') = m - n /\ \A i \in 1..m - n : outbuf'[i] = outbuf[n + i]
  BY <1>1
<1> HIDE DEF head, m
<1>4. n \in 1..m
  BY DEF m
<1>5. Taken' = Taken /\ From' = From /\ Taken \in Nat /\ From = tot + m /\ Taken = tot + m
  <2>1. Taken' = (tot + n) + (m - n) /\ Taken = tot + m
    BY <1>3 DEF Taken, m
  <2>2. From' = Taken' /\ From = Taken
    BY DEF From
  <2> QED
    BY <1>1, <1>4, <2>1, <2>2
<1>6. QueueInv' /\ DoneInv'
  <2>1. Settled' = Settled
    BY DEF Settled
  <2>2. \A k \in 1..Settled : Ends(k) \in Int
    <3>1. \A k \in 1..Settled : k \in 1..Len(plan)
      BY <1>1, BlockTypes DEF Settled
    <3> QED
      BY <1>1, <3>1, BlockTypes
  <2>3. Taken <= Taken' /\ Taken \in Int /\ Taken' \in Int
    BY <1>5
  <2> QED
    BY <1>1, <1>5, <2>1, <2>2, <2>3, SameQueue
<1>7. MarksInv'
  <2>1. ASSUME NEW i \in 1..n PROVE Marks(head[i], Covering(tot + i))
    <3>1. i \in 1..m /\ tot + i \in Nat /\ tot + i <= From
      BY <1>1, <1>4, <1>5
    <3>2. Marks(outbuf[i], Passed(tot + i))
      BY <1>1, <3>1 DEF MarksInv, m
    <3>3. Passed(tot + i) = Covering(tot + i)
      BY <1>1, <3>1, NoneOver
    <3> QED
      BY <1>2, <3>2, <3>3
  <2>2. \A i \in 1..Len(out') : Marks(out[i], Covering(i))'
    <3>1. out' = out \o head
      BY DEF head
    <3>2. \A i \in 1..Len(out) : Marks(out[i], Covering(i))
      BY <1>1 DEF MarksInv
    <3> QED
      BY <1>1, <1>2, <2>1, <3>1, <3>2, MarksReturned
  <2>3. ASSUME NEW i \in 1..m - n PROVE Marks(outbuf[i], Passed(tot + i))'
    <3>1. n + i \in 1..m /\ (tot + n) + i = tot + (n + i)
      BY <1>1, <1>4
    <3>2. Marks(outbuf[n + i], Passed(tot + (n + i)))
      BY <1>1, <3>1 DEF MarksInv, m
    <3>3. Passed(tot + i)' = Passed(tot + (n + i))
      BY <3>1 DEF Passed, Covering, Waits, Planned, Ends
    <3>4. Marks(outbuf'[i], Passed(tot + i)')
      BY <1>3, <3>2, <3>3
    <3> QED
      BY <3>4 DEF Marks
  <2> QED
    BY <1>3, <2>2, <2>3 DEF MarksInv
<1> QED
  BY <1>5, <1>6, <1>7

\* Bytes up to the next block are returned as they are.
LEMMA DeliverPlain ==
    ASSUME FilterInv, Sound, pc = "deliver", outbuf = <<>>,
           NEW n \in 1..Buffered(win), tot' = tot + n, pc' = "idle",
           filters # <<>> => n <= filters[1].offset,
           out' = out \o Tokens(Unread(win, n)),
           filters' = (IF filters = <<>> THEN filters
                       ELSE <<Behind(filters[1], n)>> \o Tail(filters)),
           UNCHANGED <<outbuf, plan, fl>>
    PROVE  QueueInv' /\ DoneInv' /\ MarksInv'
<1> DEFINE u == Unread(win, n)
           v == Tokens(u)
<1>1. /\ ReaderInv /\ QueueInv /\ DoneInv /\ MarksInv /\ fl = <<>>
      /\ tot \in Nat /\ Len(outbuf) = 0
  BY DEF FilterInv, SoundInv, Stopped, ReaderInv, ReaderTypeOK, CollectInv
<1>2. n \in Nat \ {0} /\ u \in Seq(Nat) /\ Len(u) = n
  BY <1>1, UnreadInPlace
<1>3. v \in Seq(Marked) /\ Len(v) = n /\ \A i \in 1..n : v[i] = <<u[i]>>
  <2> HIDE DEF u
  <2>1. v \in Seq(Marked) /\ Len(v) = n
    BY <1>2, TokensKeep
  <2>2. DOMAIN u = 1..n
    BY <1>2
  <2> QED
    BY <2>1, <2>2 DEF Tokens
<1> HIDE DEF u, v
<1>4. Taken = tot /\ From = tot /\ Taken' = tot + n /\ From' = tot + n
  BY <1>1 DEF Taken, From
<1>5. Taken' \in Nat /\ Taken <= Taken' /\ From' = From + n
  BY <1>1, <1>2, <1>4
<1>6. Settled' = Settled /\ Settled = Len(plan)
  BY <1>1, BlockTypes DEF Settled
<1>7. filters # <<>> => /\ plan[filters[1].id].at >= From'
                        /\ plan[filters[1].id].at \in Int
  <2>1. SUFFICES ASSUME filters # <<>>
                 PROVE  /\ plan[filters[1].id].at >= From'
                        /\ plan[filters[1].id].at \in Int
    OBVIOUS
  <2> DEFINE a == plan[filters[1].id].at
  <2>2. a \in Int /\ filters[1].offset = a - From /\ n <= filters[1].offset
    BY <1>1, <2>1, FirstPlanned
  <2> HIDE DEF a
  <2>3. a >= From'
    BY <1>1, <1>2, <1>4, <2>2
  <2> QED
    BY <2>2, <2>3 DEF a
<1>8. QueueInv' /\ DoneInv'
  <2>1. CASE filters = <<>>
    <3>1. filters' = <<>> /\ QueueInv'
      BY <2>1 DEF QueueInv
    <3>2. DoneInv'
      <4> SUFFICES ASSUME NEW k \in 1..Settled, plan[k].dropped = 0
                   PROVE  Ends(k)' <= Taken'
        BY <1>6, <3>1 DEF DoneInv
      <4>1. Ends(k) <= Taken
        BY <1>1, <2>1 DEF DoneInv, Waits
      <4>2. Ends(k) \in Int /\ Ends(k)' = Ends(k)
        BY <1>1, <1>6, BlockTypes DEF Ends
      <4> QED
        BY <1>1, <1>2, <1>4, <4>1, <4>2
    <3> QED
      BY <3>1, <3>2
  <2>2. CASE filters # <<>>
    BY <1>1, <1>2, <1>5, <1>7, <2>2, ShiftSound
  <2> QED
    BY <2>1, <2>2
<1>9. ASSUME NEW i \in 1..n PROVE Covering(tot + i) = {}
  <2> SUFFICES ASSUME NEW k \in Covering(tot + i) PROVE FALSE
    OBVIOUS
  <2>1. /\ k \in 1..Settled /\ plan[k].dropped = 0 /\ plan[k].at < tot + i
        /\ tot + i <= Ends(k) /\ Ends(k) \in Int /\ plan[k].at \in Int
    BY <1>1, <1>6, BlockTypes DEF Covering, Planned
  <2>2. CASE ~ Waits(k)
    <3>1. Ends(k) <= tot
      BY <1>1, <1>4, <2>1, <2>2 DEF DoneInv
    <3> QED
      BY <1>1, <2>1, <3>1
  <2>3. CASE Waits(k)
    <3>1. PICK j \in 1..Len(filters) : filters[j].id = k
      BY <2>3 DEF Waits
    <3>2. filters # <<>> /\ 1 \in 1..Len(filters) /\ Len(filters) \in Nat
      BY <1>1, <3>1, BlockTypes
    <3>3. plan[filters[1].id].at <= plan[k].at
      <4>1. j = 1 \/ 1 < j
        BY <3>2
      <4> QED
        BY <1>1, <1>7, <3>1, <3>2, <4>1 DEF QueueInv
    <3> QED
      BY <1>1, <1>2, <1>4, <1>7, <2>1, <3>2, <3>3
  <2> QED
    BY <2>2, <2>3
<1>10. MarksInv'
  <2>1. ASSUME NEW i \in 1..n PROVE Marks(v[i], Covering(tot + i))
    <3> DEFINE x == u[i]
    <3>1. v[i] = <<x>> /\ Covering(tot + i) = {}
      BY <1>3, <1>9
    <3> HIDE DEF x
    <3>2. Len(<<x>>) = 1 /\ 2..1 = {} /\ 2..1 - 1 = {}
      OBVIOUS
    <3>3. Marks(<<x>>, {})
      BY <3>2 DEF Marks
    <3> QED
      BY <3>1, <3>3
  <2>2. \A i \in 1..Len(out') : Marks(out[i], Covering(i))'
    <3>1. out' = out \o v
      BY DEF u, v
    <3>2. \A i \in 1..Len(out) : Marks(out[i], Covering(i))
      BY <1>1 DEF MarksInv
    <3> QED
      BY <1>1, <1>3, <2>1, <3>1, <3>2, MarksReturned
  <2>3. 1..Len(outbuf') = {}
    BY <1>1
  <2> QED
    BY <2>2, <2>3 DEF MarksInv
<1> QED
  BY <1>8, <1>10

LEMMA FilterDelivered ==
    ASSUME FilterInv, ReaderInv', Deliver
    PROVE  FilterInv'
<1> DEFINE n == IF outbuf # <<>> THEN Smaller(want, Len(outbuf))
                ELSE Smaller(Limit, Buffered(win))
<1>1. /\ pc = "deliver" /\ res' = "nil" /\ pc' = "idle" /\ tot' = tot + n
      /\ outbuf # <<>> =>
            /\ out' = out \o SubSeq(outbuf, 1, n)
            /\ outbuf' = SubSeq(outbuf, n + 1, Len(outbuf))
            /\ UNCHANGED filters
      /\ outbuf = <<>> =>
            /\ out' = out \o Tokens(Unread(win, n))
            /\ filters' = (IF filters = <<>> THEN filters
                           ELSE <<Behind(filters[1], n)>> \o Tail(filters))
            /\ UNCHANGED outbuf
      /\ UNCHANGED <<fl, err, eof, stream, start, plan, astray>>
  BY DEF Deliver
<1>2. ReaderInv /\ SoundInv /\ fl = <<>> /\ res # "invalid" /\ tot \in Nat
  BY <1>1 DEF FilterInv, CollectInv, FillInv, ReaderInv, ReaderTypeOK
<1>3. /\ outbuf # <<>> => n \in 1..Len(outbuf)
      /\ outbuf = <<>> => n \in 1..Buffered(win)
      /\ outbuf = <<>> /\ filters # <<>> => n <= filters[1].offset
  <2>1. /\ want \in Nat
        /\ outbuf # <<>> => n \in 1..Len(outbuf)
        /\ outbuf = <<>> => n \in 1..Buffered(win)
    BY <1>1, <1>2, DeliverCounts
  <2>2. ASSUME outbuf = <<>>, filters # <<>> PROVE n <= filters[1].offset
    <3>1. 1 \in 1..Len(filters)
      BY <1>2, <2>2, EmptySeq DEF ReaderInv, ReaderTypeOK
    <3>2. filters[1].offset \in Int
      BY <1>2, <3>1, BlockTypes
    <3>3. Limit <= filters[1].offset /\ Limit \in Int
      BY <2>1, <2>2, <3>2 DEF Limit
    <3>4. Buffered(win) \in Int
      <4>1. IsWindow(win) /\ win.size \in Nat
        BY <1>2 DEF ReaderInv, RingOK, IsWindow
      <4> QED
        BY <4>1, RingSpace
    <3>5. n = Smaller(Limit, Buffered(win))
      BY <2>2
    <3> QED
      BY <3>2, <3>3, <3>4, <3>5 DEF Smaller
  <2> QED
    BY <2>1, <2>2
<1> HIDE DEF n
<1>4. CollectInv' /\ DropInv'
  <2>1. CollectInv /\ DropInv /\ Settled' = Settled /\ Len(fl) = 0
    BY <1>1, <1>2 DEF FilterInv, Settled
  <2> QED
    BY <1>1, <1>2, <2>1 DEF CollectInv, DropInv
<1>5. FillInv'
  BY <1>1 DEF FillInv
<1>6. Refused' = Refused
  BY <1>1, <1>2 DEF Refused
<1>7. RefusedInv'
  BY <1>1, <1>6, SameRefused
<1>8. Taken \in Int /\ Taken' \in Int /\ Taken <= Taken'
  <2>1. CASE outbuf # <<>>
    <3> DEFINE m == Len(outbuf)
    <3>1. outbuf \in Seq(Marked) /\ m \in Nat
      BY <1>2 DEF ReaderInv, ReaderTypeOK
    <3>2. Len(outbuf') = m - n
      BY <1>1, <1>3, <2>1, <3>1
    <3>3. Taken = tot + m /\ Taken' = (tot + n) + (m - n) /\ n \in 1..m
      BY <1>1, <1>3, <2>1, <3>2 DEF Taken
    <3> HIDE DEF m
    <3> QED
      BY <1>2, <3>1, <3>3
  <2>2. CASE outbuf = <<>>
    <3>1. Len(outbuf) = 0 /\ Len(outbuf') = 0 /\ n \in Nat
      BY <1>1, <1>3, <2>2
    <3>2. Taken = tot + 0 /\ Taken' = tot + n + 0
      BY <1>1, <3>1 DEF Taken
    <3> QED
      BY <1>2, <3>1, <3>2
  <2> QED
    BY <2>1, <2>2
<1>9. ASSUME Sound' PROVE QueueInv' /\ DoneInv' /\ ChainInv' /\ MarksInv'
  <2>1. Sound
    <3>1. \A j \in DOMAIN plan : plan[j].at \in Int
      BY <1>2, BlockTypes
    <3>2. (Refused => Refused') /\ (astray => astray')
      BY <1>1, <1>6
    <3> QED
      BY <1>1, <1>8, <1>9, <3>1, <3>2, SoundBefore
  <2>2. QueueInv' /\ DoneInv' /\ MarksInv'
    <3>1. CASE outbuf # <<>>
      BY <1>1, <1>3, <2>1, <3>1, DeliverOutput
    <3>2. CASE outbuf = <<>>
      BY <1>1, <1>3, <2>1, <3>2, DeliverPlain
    <3> QED
      BY <3>1, <3>2
  <2>3. ChainInv'
    BY <1>1 DEF ChainInv
  <2> QED
    BY <2>2, <2>3
<1> QED
  BY <1>4, <1>5, <1>7, <1>9 DEF FilterInv, SoundInv

-----------------------------------------------------------------------------
(* The invariant, and what it says of the bytes and of the errors. *)

LEMMA FilterStutter ==
    ASSUME FilterInv, UNCHANGED Unpanicked
    PROVE  FilterInv'
<1>1. ReaderInv'
  BY ReaderStutter DEF FilterInv
<1>2. /\ fl # <<>> => pc' \in {"fill", "queue"}
      /\ UNCHANGED <<plan, fl, tot, filters, out, outbuf, astray, pc, res, err,
                     win, eof, stream, start>>
  BY DEF Unpanicked, FilterInv, CollectInv
<1>3. CollectInv' /\ DropInv' /\ Settled' = Settled
  BY <1>2, SameBlocks
<1>4. Refused' = Refused /\ Stopped' = Stopped /\ Taken' = Taken /\ From' = From
  BY <1>2 DEF Refused, Stopped, Taken, From
<1>5. RefusedInv'
  BY <1>2, <1>4, SameRefused
<1>6. FillInv'
  BY <1>2 DEF FilterInv, FillInv, NeedsMore
<1>7. SoundInv'
  <2>1. ASSUME Sound' PROVE (~ Stopped' => QueueInv' /\ DoneInv' /\ ChainInv') /\ MarksInv'
    <3>1. ReaderInv /\ SoundInv
      BY DEF FilterInv
    <3>2. /\ Taken \in Int /\ Taken <= Taken' /\ Taken' \in Int
          /\ \A k \in DOMAIN plan : plan[k].at \in Int
          /\ \A k \in 1..Settled : Ends(k) \in Int
      <4>1. /\ Taken \in Int /\ \A k \in DOMAIN plan : plan[k].at \in Int
            /\ \A k \in 1..Len(plan) : Ends(k) \in Int
        BY <3>1, BlockTypes
      <4>2. \A k \in 1..Settled : k \in 1..Len(plan)
        BY <3>1, BlockTypes DEF Settled
      <4> QED
        BY <1>4, <4>1, <4>2
    <3>3. Sound
      BY <1>2, <1>4, <2>1, <3>2, SoundBefore
    <3>4. MarksInv'
      BY <1>2, <3>1, <3>3, SameMarks DEF SoundInv
    <3>5. ASSUME ~ Stopped' PROVE QueueInv' /\ DoneInv' /\ ChainInv'
      <4>1. QueueInv /\ DoneInv /\ ChainInv
        BY <1>4, <3>1, <3>3, <3>5 DEF SoundInv
      <4>2. QueueInv' /\ DoneInv'
        BY <1>2, <1>3, <1>4, <3>2, <4>1, SameQueue
      <4>3. ChainInv'
        BY <1>2, <4>1 DEF ChainInv, Planned, Waits
      <4> QED
        BY <4>2, <4>3
    <3> QED
      BY <3>4, <3>5
  <2> QED
    BY <2>1 DEF SoundInv
<1> QED
  BY <1>1, <1>3, <1>5, <1>6, <1>7 DEF FilterInv

LEMMA FilterNext ==
    ASSUME FilterInv, ~ Abandon, Next
    PROVE  FilterInv'
<1>1. ReaderInv'
  BY ReaderNext DEF FilterInv
<1>2. ASSUME Literal PROVE FilterInv'
  <2>1. /\ Filling
        /\ UNCHANGED <<filters, fl, outbuf, tot, err, eof, pc, want, res, start,
                       plan, astray, out, files>>
    BY <1>2 DEF Literal
  <2> QED
    BY <1>1, <2>1, FilterGrown
<1>3. ASSUME NEW len \in Lengths, NEW off \in Distances, Match(len, off) PROVE FilterInv'
  <2>1. /\ Filling
        /\ UNCHANGED <<filters, fl, outbuf, tot, err, eof, pc, want, res, start,
                       plan, astray, out, files>>
    BY <1>3 DEF Match
  <2> QED
    BY <1>1, <2>1, FilterGrown
<1>4. CASE UNCHANGED vars \/ FilterPanics
  BY <1>4, PanicChangesNothing, FilterStutter
<1>5. ASSUME Finished PROVE FilterInv'
  BY <1>4, <1>5 DEF Finished
<1> QED
  BY <1>1, <1>2, <1>3, <1>4, <1>5, FilterRead, FilterAnnounced, FilterFillEnds, FilterQueue,
     FilterFilled, FilterFirst, FilterChained, FilterDelivered, FilterNextFile DEF Next, Works

\* The blocks fill collects, those in the queue, those that are done and the
\* marks of the bytes agree, until a block is wrong (decode_reader.go
\* queueFilter, fill, processFilters, Read).
THEOREM FilterInvariance ==
    ASSUME ~ Abandon
    PROVE  Spec => []FilterInv
<1>1. Init => FilterInv
  BY FilterInit
<1>2. FilterInv /\ [Next]_vars => FilterInv'
  BY FilterNext, FilterStutter, PanicChangesNothing
<1> QED
  BY <1>1, <1>2, PTL DEF Spec

\* The caller gets the file: every byte in its place, passed through exactly
\* the filters planned for it, in their order, each told where its block is
\* (decode_reader.go queueFilter, processFilters, Read).
THEOREM FiltersRight ==
    ASSUME ~ Abandon
    PROVE  Spec => []OutputRight
<1>1. FilterInv => OutputRight
  <2> SUFFICES ASSUME FilterInv, WellFormed
               PROVE  /\ Len(out) <= Decoded
                      /\ \A i \in DOMAIN out : Filtered(out[i], i, Covering(i))
    BY DEF OutputRight
  <2>1. ReaderInv /\ DOMAIN out = 1..Len(out)
    BY DEF FilterInv, ReaderInv, ReaderTypeOK
  <2>2. BytesInPlace
    BY <2>1, BytesPlaced
  <2>3. MarksInv
    BY WellFormedSound DEF FilterInv, SoundInv
  <2>4. ASSUME NEW i \in 1..Len(out) PROVE Filtered(out[i], i, Covering(i))
    <3>1. out[i][1] = stream[start + i]
      BY <2>2 DEF BytesInPlace, InPlace
    <3>2. Marks(out[i], Covering(i))
      BY <2>3 DEF MarksInv
    <3> QED
      BY <3>1, <3>2 DEF Filtered, Marks
  <2> QED
    BY <2>1, <2>2, <2>4 DEF BytesInPlace
<1> QED
  BY <1>1, FilterInvariance, PTL

\* A well-formed file is never refused because of its filters: fill gives each
\* what it needs, and the offset that processFilters moves on is never wrong
\* (decode_reader.go queueFilter, processFilters).
THEOREM NeverRefused ==
    ASSUME ~ Abandon
    PROVE  Spec => []NoFalseInvalid
<1>1. FilterInv => NoFalseInvalid
  BY DEF FilterInv, RefusedInv, Refused, NoFalseInvalid
<1> QED
  BY <1>1, FilterInvariance, PTL
=============================================================================
