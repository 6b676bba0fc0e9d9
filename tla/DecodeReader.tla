----------------------------- MODULE DecodeReader -----------------------------
(***************************************************************************)
(* decodeReader (src/unrar/decode_reader.go): files of an archive, decoded *)
(* into the window, filtered and read.  The decoders (decode29.go,         *)
(* decode50.go) are their fill loop: any sequence of literals, matches and *)
(* filter blocks, the end of the file, or damaged input.                   *)
(*                                                                         *)
(* A literal is the number of its place in the stream, so that a byte out  *)
(* of place shows.  A filter keeps the length of its block and marks every *)
(* byte with its number and the file offset it was told.                   *)
(***************************************************************************)
EXTENDS Window

CONSTANTS
    Sizes,        \* window sizes of the archive's files
    Lengths,      \* lengths of matches
    Distances,    \* distances of matches
    Gaps,         \* offsets of filter blocks from the write position
    Blocks,       \* lengths of filter blocks
    Resets,       \* whether a filter block may drop the ones before
    Reads,        \* sizes of the caller's buffer
    MaxQueue,     \* maxQueuedFilters
    Abandon,      \* a file may be left before its end
    MaxStream,    \* bound: bytes decoded between two cleared windows
    MaxFilters,   \* bound: filter blocks in the first file, one fewer in each later one
    MaxFiles      \* bound: files

ASSUME ReaderAssumption ==
    /\ Sizes \subseteq Nat \ {0, 1} /\ Sizes # {}
    /\ \A s \in Sizes : Lengths \cup Blocks \subseteq 1..s - 1
                        /\ Distances \subseteq 1..s
    /\ Gaps \subseteq Nat /\ Resets \subseteq BOOLEAN
    /\ Reads \subseteq Nat \ {0}
    /\ Abandon \in BOOLEAN
    /\ {MaxQueue, MaxStream, MaxFilters, MaxFiles} \subseteq Nat

VARIABLES
    win,       \* d.win
    filters,   \* d.filters, offsets relative to the previous one
    fl,        \* filter blocks the decoder's fill collects
    outbuf,    \* filter output not yet read
    tot,       \* bytes of the file returned
    err,       \* d.err
    eof,       \* the decoder is at the end of the file
    pc,        \* where Read is
    want,      \* len(p)
    res,       \* error of the last Read that returned
    stream,    \* ghost: bytes decoded since the window was last cleared
    start,     \* ghost: length of the stream when the file began
    plan,      \* ghost: filter blocks of the file, at places in the file, and
               \* the number of the block that dropped them, or 0
    astray,    \* ghost: a filter block was beyond the window, one more than the
               \* queue holds, or left from the last file
    out,       \* ghost: what was returned of the file
    files,     \* files begun
    panicked   \* whether the decoder has panicked, which nobody recovers from

vars == <<win, filters, fl, outbuf, tot, err, eof, pc, want, res,
          stream, start, plan, astray, out, files, panicked>>

Fileless == <<stream, start, plan, astray, out, files>>

Decoded == Len(stream) - start
Empty == Buffered(win) = 0

Init ==
    /\ \E s \in Sizes : win = Reset(Fresh, s, TRUE)
    /\ filters = <<>> /\ fl = <<>> /\ outbuf = <<>>
    /\ tot = 0
    /\ err = "nil" /\ eof = FALSE
    /\ pc = "idle" /\ want = 0 /\ res = "nil"
    /\ stream = <<>> /\ start = 0
    /\ plan = <<>> /\ astray = FALSE
    /\ out = <<>>
    /\ files = 1 /\ panicked = FALSE

-----------------------------------------------------------------------------
(* Read: is more data needed? *)

\* Mutant: a block is filtered with what the window has.
NeedsMoreNever == FALSE

\* The filter at the current place needs more than the window has.
NeedsMore ==
    /\ filters # <<>>
    /\ filters[1].offset = 0 /\ filters[1].length > Buffered(win)

\* After the end of a file Next may read on, to drain a solid one.
Read ==
    /\ pc = "idle" \/ (pc = "ended" /\ res = "EOF")
    /\ want' \in Reads
    /\ pc' = IF outbuf # <<>> THEN "deliver"
             ELSE IF Empty \/ NeedsMore THEN "fill"
             ELSE IF filters # <<>> THEN "filter"
             ELSE "deliver"
    /\ UNCHANGED <<win, filters, fl, outbuf, tot, err, eof, res, Fileless>>

-----------------------------------------------------------------------------
(* fill: the decoder's loop, then the queue of its filter blocks *)

Filling == pc = "fill" /\ err = "nil" /\ ~eof /\ Available(win) > 0

Literal ==
    /\ Filling
    /\ Len(stream) < MaxStream
    /\ stream' = Append(stream, Len(stream) + 1)
    /\ win' = WriteByte(win, Len(stream) + 1)
    /\ UNCHANGED <<filters, fl, outbuf, tot, err, eof, pc, want, res, start,
                   plan, astray, out, files>>

\* What a match adds to a stream; before its first byte the window holds 0.
Matched(s, len, off) ==
    [k \in 1..len |->
        LET i == Len(s) - off + 1 + ((k - 1) % off) IN IF i > 0 THEN s[i] ELSE 0]

Match(len, off) ==
    /\ Filling
    /\ Len(stream) + len <= MaxStream
    /\ stream' = stream \o Matched(stream, len, off)
    /\ win' = CopyBytes(win, len, off)
    /\ UNCHANGED <<filters, fl, outbuf, tot, err, eof, pc, want, res, start,
                   plan, astray, out, files>>

\* Relative to the read index, from the write index.
FromReadIndex(n) == n + Buffered(win)

\* A reset drops the blocks that were not processed: the others began before
\* the place that is read.
Drop(by) ==
    [k \in DOMAIN plan |->
        IF plan[k].at < tot \/ plan[k].dropped # 0 THEN plan[k]
        ELSE [plan[k] EXCEPT !.dropped = by]]

FilterBlock(n, len, reset) ==
    /\ Filling
    /\ Len(plan) + files <= MaxFilters
    /\ fl' = Append(fl, [offset |-> FromReadIndex(n), length |-> len,
                         reset |-> reset, id |-> Len(plan) + 1])
    /\ plan' = Append(IF reset THEN Drop(Len(plan) + 1) ELSE plan,
                      [at |-> Decoded + n, length |-> len, dropped |-> 0])
    /\ UNCHANGED <<win, filters, outbuf, tot, err, eof, pc, want, res, stream,
                   start, astray, out, files>>

\* decodeSym of format 5 adds the window's bytes to the offset of a filter block
\* that readFilter could not read: there is none (decode50.go:194).
FilterPanics ==
    /\ Filling
    /\ panicked' = TRUE
    /\ UNCHANGED <<win, filters, fl, outbuf, tot, err, eof, pc, want, res, Fileless>>

\* The window is full, the file ends, or the input is damaged; an error that
\* was not yet reported keeps the decoder from going on.
FillEnds ==
    /\ pc = "fill"
    /\ \/ err # "nil" /\ UNCHANGED <<err, eof>>
       \/ err = "nil" /\ eof /\ err' = "EOF" /\ UNCHANGED eof
       \/ err = "nil" /\ ~eof /\ Available(win) = 0 /\ UNCHANGED <<err, eof>>
       \/ Filling /\ eof' = TRUE /\ err' = "EOF"
       \/ Filling /\ err' = "corrupt" /\ UNCHANGED eof
    /\ pc' = "queue"
    /\ UNCHANGED <<win, filters, fl, outbuf, tot, want, res, Fileless>>

\* What is left of the offset behind each of the queued blocks.
Remains(f, queue) ==
    LET rest[i \in 0..Len(queue)] ==
            IF i = 0 THEN f.offset ELSE rest[i - 1] - queue[i].offset
    IN  rest

\* A queued block starts after the new one.
Precedes(f, queue) == \E i \in DOMAIN queue : Remains(f, queue)[i] < 0

\* The queue a block is added to.
QueueFor(f) == IF f.reset THEN <<>> ELSE filters

Queue ==
    /\ pc = "queue" /\ fl # <<>>
    /\ LET f == Head(fl)
           queue == QueueFor(f)
           offset == Remains(f, queue)[Len(queue)]
           failure == IF Len(queue) >= MaxQueue THEN "tooMany"
                      ELSE IF Precedes(f, queue) THEN "invalid" ELSE "nil"
       IN  IF failure # "nil"
           THEN /\ filters' = queue
                /\ err' = failure
                /\ fl' = <<>>
                /\ astray' = (astray \/ failure = "tooMany")
           ELSE /\ filters' = Append(queue,
                     [f EXCEPT !.offset = offset % win.size,
                               !.length = f.length % win.size])
                /\ astray' = (astray \/ offset >= win.size \/ f.length >= win.size)
                /\ fl' = Tail(fl)
                /\ UNCHANGED err
    /\ UNCHANGED <<win, outbuf, tot, eof, pc, want, res, stream, start, plan,
                   out, files>>

\* Read returns an error: it is handed to the caller once.
Fails(e) ==
    /\ res' = e
    /\ err' = "nil"
    /\ pc' = IF e = "nil" THEN "idle" ELSE "ended"

\* Mutant: Read goes on with an empty window.
EmptyIgnored == FALSE

NothingDecoded == Empty

Filled ==
    /\ pc = "queue" /\ fl = <<>>
    /\ \/ /\ NothingDecoded
          /\ Fails(err)
       \/ /\ ~NothingDecoded
          /\ pc' = IF filters # <<>> THEN "filter" ELSE "deliver"
          /\ UNCHANGED <<res, err>>
    /\ UNCHANGED <<win, filters, fl, outbuf, tot, eof, want, Fileless>>

-----------------------------------------------------------------------------
(* processFilters *)

\* A filter's function: marks the bytes with its number and the offset told.
Apply(f, bytes) == [i \in DOMAIN bytes |-> Append(bytes[i], <<f.id, tot>>)]

Tokens(bytes) == [i \in DOMAIN bytes |-> <<bytes[i]>>]

\* fill did not return enough bytes.
TooFew(f) == Buffered(win) < f.length

FilterHead ==
    /\ pc = "filter"
    /\ LET f == Head(filters)
       IN  \/ /\ f.offset > 0
              /\ pc' = "deliver"
              /\ UNCHANGED <<win, filters, outbuf, err, res>>
           \/ /\ f.offset <= 0 /\ TooFew(f)
              /\ filters' = Tail(filters)
              /\ Fails(IF err \in {"nil", "EOF"} THEN "invalid" ELSE err)
              /\ UNCHANGED <<win, outbuf>>
           \/ /\ f.offset <= 0 /\ ~TooFew(f)
              /\ filters' = Tail(filters)
              /\ outbuf' = Apply(f, Tokens(Unread(win, f.length)))
              /\ win' = AfterRead(win, f.length)
              /\ pc' = "chain"
              /\ UNCHANGED <<err, res>>
    /\ UNCHANGED <<fl, tot, eof, want, Fileless>>

\* Mutant: the next filter keeps its distance.
BehindKept(f, n) == f

\* The next filter, once n bytes before it were taken.
Behind(f, n) == [f EXCEPT !.offset = f.offset - n]

\* Filters at the same place take each other's output.
FilterChain ==
    /\ pc = "chain"
    /\ \/ /\ filters = <<>>
          /\ pc' = "deliver"
          /\ UNCHANGED <<filters, outbuf, err, res>>
       \/ /\ filters # <<>> /\ filters[1].offset # 0
          /\ filters' = <<Behind(filters[1], Len(outbuf))>> \o Tail(filters)
          /\ pc' = "deliver"
          /\ UNCHANGED <<outbuf, err, res>>
       \/ /\ filters # <<>> /\ filters[1].offset = 0
          /\ IF filters[1].length # Len(outbuf)
             THEN res' = "invalid" /\ pc' = "ended" /\ UNCHANGED <<filters, outbuf>>
             ELSE /\ outbuf' = Apply(filters[1], outbuf)
                  /\ filters' = Tail(filters)
                  /\ UNCHANGED <<pc, res>>
          /\ UNCHANGED err
    /\ UNCHANGED <<win, fl, tot, eof, want, Fileless>>

-----------------------------------------------------------------------------
(* Read: the bytes returned *)

\* Only data up to the beginning of the next filter.
Limit == IF filters # <<>> /\ filters[1].offset < want
         THEN filters[1].offset ELSE want

Deliver ==
    /\ pc = "deliver"
    /\ LET n == IF outbuf # <<>> THEN Smaller(want, Len(outbuf))
                ELSE Smaller(Limit, Buffered(win))
       IN  /\ IF outbuf # <<>>
              THEN /\ out' = out \o SubSeq(outbuf, 1, n)
                   /\ outbuf' = SubSeq(outbuf, n + 1, Len(outbuf))
                   /\ UNCHANGED <<win, filters>>
              ELSE /\ out' = out \o Tokens(Unread(win, n))
                   /\ win' = AfterRead(win, n)
                   /\ filters' = IF filters = <<>> THEN filters
                                 ELSE <<Behind(filters[1], n)>> \o Tail(filters)
                   /\ UNCHANGED outbuf
           /\ tot' = tot + n
    /\ res' = "nil"
    /\ pc' = "idle"
    /\ UNCHANGED <<fl, err, eof, want, stream, start, plan, astray, files>>

-----------------------------------------------------------------------------
(* init: the next file *)

\* A solid file continues the stream of the one before, which was read to its
\* end; another file begins with a cleared window.
NextFile(solid, size) ==
    /\ files < MaxFiles
    /\ \/ pc = "ended" /\ res = "EOF"
       \/ Abandon /\ ~solid /\ pc \in {"idle", "ended"}
    /\ files' = files + 1
    /\ win' = Reset(win, size, ~solid)
    /\ filters' = IF solid THEN filters ELSE <<>>
    /\ err' = "nil" /\ outbuf' = <<>> /\ tot' = 0 /\ eof' = FALSE
    /\ stream' = IF solid THEN stream ELSE <<>>
    /\ start' = Len(stream')
    /\ plan' = <<>> /\ out' = <<>>
    /\ astray' = (solid /\ filters # <<>>)
    /\ pc' = "idle" /\ res' = "nil"
    /\ UNCHANGED <<fl, want>>

Finished ==
    /\ pc = "ended"
    /\ UNCHANGED vars

Works ==
    \/ Read
    \/ Literal
    \/ \E len \in Lengths, off \in Distances : Match(len, off)
    \/ \E n \in Gaps, len \in Blocks, reset \in Resets : FilterBlock(n, len, reset)
    \/ FillEnds \/ Queue \/ Filled
    \/ FilterHead \/ FilterChain \/ Deliver
    \/ \E solid \in BOOLEAN, size \in Sizes : NextFile(solid, size)
    \/ Finished

Next ==
    \/ ~panicked /\ Works /\ UNCHANGED panicked
    \/ ~panicked /\ FilterPanics
    \/ panicked /\ UNCHANGED vars

Spec == Init /\ [][Next]_vars

-----------------------------------------------------------------------------
(* Properties *)

\* However the ring wraps, and whether a match was finished at once or after
\* a read made room: the window ends with what the stream ends with.
WindowHoldsStream ==
    \A s \in Sizes : \A d \in 1..s :
        LET written == Len(stream) - win.l
        IN  (\A t \in Sizes : s <= t) /\ d <= written
              => win.buf[(win.w - d) % win.size] = stream[written - d + 1]

\* Blocks that were not dropped.
Planned == {k \in DOMAIN plan : plan[k].dropped = 0}

\* Block i was not dropped before block j.
InForce(i, j) == plan[i].dropped = 0 \/ j < plan[i].dropped

Ends(k) == plan[k].at + plan[k].length

\* Block j is at the place of block i, or behind it.
ApartOrEqual(i, j) ==
    \/ Ends(i) <= plan[j].at
    \/ plan[i].at = plan[j].at /\ plan[i].length = plan[j].length

\* Blocks a correct encoder plans: in order, equal or apart, inside the file,
\* near enough for the window, and no more than the queue holds.
WellFormed ==
    /\ ~astray
    /\ \A i, j \in DOMAIN plan : i < j /\ InForce(i, j) => plan[i].at <= plan[j].at
    /\ \A i, j \in Planned : i < j => ApartOrEqual(i, j)
    /\ eof => \A k \in Planned : Ends(k) <= Decoded

\* The blocks that cover the i-th byte of the file.
Covering(i) == {k \in Planned : plan[k].at < i /\ i <= Ends(k)}

\* The i-th byte of the file as it is returned: passed through the filters of
\* these blocks, in their order, each told where its block is.
Filtered(byte, i, blocks) ==
    /\ byte[1] = stream[start + i]
    /\ \A j \in 2..Len(byte) - 1 : byte[j][1] < byte[j + 1][1]
    /\ {byte[j] : j \in 2..Len(byte)} = {<<k, plan[k].at>> : k \in blocks}

\* The caller gets the file: every byte in its place, passed through exactly
\* the filters planned for it, in their order, each told where its block is.
OutputRight ==
    WellFormed => /\ Len(out) <= Decoded
                  /\ \A i \in DOMAIN out : Filtered(out[i], i, Covering(i))

\* The end of a file is reported after its last byte.
EndsComplete == res = "EOF" /\ WellFormed => Len(out) = Decoded

\* A well-formed file is never refused because of its filters.
NoFalseInvalid == res = "invalid" => ~WellFormed

\* A Read that reports no error returns bytes: the caller cannot spin.
ReturnsNothing == pc' = "idle" /\ files' = files /\ Len(out') = Len(out)

ReadProgresses == [][(pc \in {"queue", "deliver"}) => ~ReturnsNothing]_vars
=============================================================================
