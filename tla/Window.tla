-------------------------------- MODULE Window --------------------------------
(***************************************************************************)
(* The sliding window of src/unrar/decode_reader.go: a ring buffer between *)
(* a decoder, which writes bytes and copies earlier ones, and a reader.    *)
(*                                                                         *)
(* A window is a record: its size, the bytes buf, the indices r and w of   *)
(* the next read and write, and l and o, length and offset of a copy that  *)
(* waits for space.  One place stays free, so that r = w means empty.      *)
(***************************************************************************)
EXTENDS Integers, Sequences

Smaller(m, n) == IF m <= n THEN m ELSE n

\* Before the first reset there is no buffer; its length is 0.
Fresh == [size |-> 0, buf |-> [i \in {} |-> 0], r |-> 0, w |-> 0, l |-> 0, o |-> 0]

Buffered(win) == (win.w - win.r) % win.size

Available(win) == (win.r - win.w - 1) % win.size

\* The write index n bytes on.
Forward(win, n) == (win.w + n) % win.size

WriteByte(win, c) == [win EXCEPT !.buf[win.w] = c, !.w = Forward(win, 1)]

\* Mutant: one place more, so that a full window looks empty.
SpaceAll(win) == IF win.r = win.w THEN win.size ELSE (win.r - win.w) % win.size

\* The space copyBytes may use.
Space(win) == Available(win)

\* The k-th byte that is copied: the source repeats when it is shorter than
\* the copy.
Copied(win, off, k) == win.buf[(win.w - off + (k % off)) % win.size]

\* As much as there is space for; the rest waits in l and o.
CopyBytes(win, len, off) ==
    LET n == Smaller(len % win.size, Space(win))
        waiting == (len % win.size) > n
    IN  [win EXCEPT
            !.buf = [i \in DOMAIN win.buf |->
                        LET k == (i - win.w) % win.size
                        IN  IF k < n THEN Copied(win, off, k) ELSE win.buf[i]],
            !.w = Forward(win, n),
            !.l = IF waiting THEN (len % win.size) - n ELSE win.l,
            !.o = IF waiting THEN off ELSE win.o]

\* The first n unread bytes.
Unread(win, n) == [k \in 1..n |-> win.buf[(win.r + k - 1) % win.size]]

\* Mutant: the copy that waited goes on with the length left, at any place.
ContinueOnce(win) == [win EXCEPT !.l = 0]

\* The copy that waited goes on.
Continue(win) == CopyBytes([win EXCEPT !.l = 0], win.l, win.o)

\* The window after reading n of its bytes.
AfterRead(win, n) ==
    LET moved == [win EXCEPT !.r = (win.r + n) % win.size]
    IN  IF win.l > 0 /\ n > 0 THEN Continue(moved) ELSE moved

\* reset for a file: a larger buffer, in which the old bytes come first unless
\* they are cleared; or the old one, zeroed when it is cleared.
Reset(win, size, clear) ==
    LET zeros == [i \in 0..size - 1 |-> 0]
        kept == [i \in 0..size - 1 |->
                    IF i < win.size THEN win.buf[(win.w + i) % win.size] ELSE 0]
        w == IF clear THEN 0 ELSE IF size > win.size THEN win.size ELSE win.w
        bigger == size > win.size
    IN  [win EXCEPT
            !.size = IF bigger THEN size ELSE win.size,
            !.buf = IF clear THEN (IF bigger THEN zeros
                                   ELSE [i \in DOMAIN win.buf |-> 0])
                    ELSE IF bigger THEN kept ELSE win.buf,
            !.w = w,
            !.r = w]
=============================================================================
