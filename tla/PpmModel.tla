------------------------------ MODULE PpmModel ------------------------------
(* The PPM model of the unrar package (src/unrar/ppm_model.go): contexts     *)
(* with the symbols that followed them, each with a frequency and the way to *)
(* the next context, built in the memory of SubAllocator.  One action is one *)
(* ReadByte.  The range coder, and the binary and escape statistics that     *)
(* steer it, are its input: which symbol was coded.  Contexts and state      *)
(* lists keep their addresses and sizes; what they hold is a record.         *)
EXTENDS SubAllocator

CONSTANTS Symbols,    \* 0..n, the 256 bytes
          Coded(_),   \* the symbols that may follow a text read so far
          MaxOrder,   \* model.maxOrder
          MaxFreq,    \* maxFreq
          EscWrap,    \* 256: escCount and charMask are bytes
          InitEscs,   \* some of expEscape
          MaxReads    \* bound: bytes read between two restarts

VARIABLES mem,        \* the memory, with the contexts in mem.ctx by address
          c,          \* the current context, 0: the model starts over
          orderFall,  \* how much the current order is below MaxOrder
          escCount,   \* the value that marks a masked symbol
          charMask,   \* its mark of every symbol
          initEsc,    \* set when the only symbol of a context is escaped from
          history     \* the symbols read since the last restart

vars == <<mem, c, orderFall, escCount, charMask, initEsc, history>>

(* A context is [sfx, st, summ, blk, name]: its suffix, states, summFreq,    *)
(* the block of the states (none for a single one) and, for the properties   *)
(* only, the symbols it stands for.  A state is [sym, freq, succ]; succ is   *)
(* positive for a context, negative for a byte of the text, else 0.          *)
Single(st, sfx, name) == [sfx |-> sfx, st |-> <<st>>, summ |-> 0, blk |-> 0, name |-> name]

(* The list for n states: two states in a unit.                              *)
ListIndex(n) == Units2Index((n + 1) \div 2)

RestartedMemory ==
    LET m == AllocContext(FreshMemory)
        b == AllocUnits(m.m, ListIndex(Cardinality(Symbols)))
        all == [i \in 1..Cardinality(Symbols) |-> [sym |-> i - 1, freq |-> 1, succ |-> 0]]
        root == [sfx |-> 0, st |-> all, summ |-> Len(all) + 1, blk |-> b.n, name |-> <<>>]
    IN  [m |-> b.m @@ [ctx |-> m.n :> root], n |-> m.n]

Init == /\ mem = RestartedMemory.m /\ c = RestartedMemory.n
        /\ orderFall = MaxOrder
        /\ escCount = 1 /\ charMask = [s \in Symbols |-> 0]
        /\ initEsc = 0
        /\ history = <<>>
-----------------------------------------------------------------------------
(* findState answers the last state when there is none for the symbol.       *)
Find(st, sym) == IF \E i \in DOMAIN st : st[i].sym = sym
                 THEN CHOOSE i \in DOMAIN st : st[i].sym = sym ELSE Len(st)

Swapped(st, i) == [st EXCEPT ![i] = st[i - 1], ![i - 1] = st[i]]

(* A context and its suffixes, the longest first.                            *)
Chain(m, x) == LET chain[y \in Nat] == IF y = 0 THEN <<>>
                                       ELSE <<y>> \o chain[m.ctx[y].sfx]
               IN  chain[x]

(* The states are moved to a list of another size, or cut where they are.    *)
ShrinkStates(m, x, st) ==
    LET i1 == ListIndex(Len(m.ctx[x].st))
        i2 == ListIndex(Len(st))
        b == m.ctx[x].blk
        r == RemoveFreeBlock(m, i2)
        Holding(mm, blk) == [mm EXCEPT !.ctx[x].st = st, !.ctx[x].blk = blk]
    IN  IF Len(st) = 1 THEN Holding(AddFreeBlock(m, b, i1), 0)
        ELSE IF i1 = i2 THEN Holding(m, b)
        ELSE IF HasFree(m, i2) THEN Holding(AddFreeBlock(r.m, b, i1), r.n)
        ELSE Holding(FreeUnits(m, b + Index2Units[i2], Index2Units[i1] - Index2Units[i2]), b)

(* A list moves into the block b, if there is one, and out of its old one.   *)
Housed(b, x) == IF b.n = 0 THEN b ELSE [b EXCEPT !.m.ctx[x].blk = b.n]
Rehoused(b, old, i) == IF b.n = 0 THEN b ELSE [b EXCEPT !.m = AddFreeBlock(@, old, i)]

(* expandStates makes room for one more state; n = 0 when there is none.     *)
ExpandStates(m, x) ==
    LET ns == Len(m.ctx[x].st)
        i1 == ListIndex(ns)
        i2 == ListIndex(ns + 1)
        new == Housed(AllocUnits(m, i2), x)
    IN  IF ns = 1 THEN new
        ELSE IF ns % 2 = 1 \/ i1 = i2 THEN [m |-> m, n |-> m.ctx[x].blk]
        ELSE Rehoused(new, m.ctx[x].blk, i1)
-----------------------------------------------------------------------------
(* rescale halves the frequencies of a context, sorts the states anew and    *)
(* drops those that fall to 0; the escape's share is what summFreq exceeds   *)
(* the sum by.                                                               *)

InsertedByFreq(done, s) == SelectSeq(done, LAMBDA t : t.freq >= s.freq) \o <<s>>
                               \o SelectSeq(done, LAMBDA t : t.freq < s.freq)
SumFreq(st) == FoldLeft(LAMBDA n, s : n + s.freq, 0, st)

Half(f, of) == (IF of = 0 THEN f ELSE f + 1) \div 2

(* The loop for the last state of all halves at least once.                  *)
LastOne(s, esc) ==
    LET halved[f \in Nat, e \in Nat] == IF e \div 2 <= 1 THEN f - f \div 2
                                        ELSE halved[f - f \div 2, e \div 2]
    IN  [s EXCEPT !.freq = halved[s.freq, esc]]

Rescale(m, x, sym, of) ==
    LET st == m.ctx[x].st
        k == Find(st, sym)
        bumped == [st EXCEPT ![k].freq = @ + 4]
        sorted == FoldLeft(LAMBDA done, s : InsertedByFreq(done, [s EXCEPT !.freq = Half(@, of)]),
                           <<>>, bumped)
        kept == SelectSeq(sorted, LAMBDA s : s.freq > 0)
        esc == m.ctx[x].summ + 4 - SumFreq(bumped) + Len(st) - Len(kept)
        cut == IF Len(kept) = Len(st) THEN [m EXCEPT !.ctx[x].st = kept]
               ELSE ShrinkStates(m, x, kept)
    IN  IF st[k].freq <= MaxFreq THEN m
        ELSE IF Len(kept) = 1 THEN [cut EXCEPT !.ctx[x].st = <<LastOne(kept[1], esc)>>]
        ELSE [cut EXCEPT !.ctx[x].summ = SumFreq(kept) + esc - esc \div 2]
-----------------------------------------------------------------------------
(* Decoding a symbol: the current context is tried, and after each escape    *)
(* the next suffix with more states, without the masked ones.                *)

Visits(m, x) ==
    LET chain == Chain(m, x)
        More(i) == i = 1 \/ Len(m.ctx[chain[i]].st) # Len(m.ctx[chain[i - 1]].st)
    IN  SelectSeq([i \in 1..Len(chain) |-> i], More)

(* decodeSymbol2 lists as many unmasked states as there are not masked ones. *)
Unmasked(st, mask, esc, masked) ==
    LET open == SelectSeq([i \in 1..Len(st) |-> st[i].sym], LAMBDA s : mask[s] # esc)
    IN  IF Len(open) < Len(st) - masked THEN {} \* the loop runs off the list
        ELSE ToSet(SubSeq(open, 1, Len(st) - masked))

Offered(m, x, i, r, esc) ==
    LET st == m.ctx[Chain(m, x)[i]].st
    IN  IF i = 1 THEN {s.sym : s \in ToSet(st)} ELSE Unmasked(st, r.mask, esc, r.masked)

(* at: the place in the chain where the symbol is offered, 0 if nowhere.     *)
Search(m, x, mask, esc, sym) ==
    FoldLeft(LAMBDA r, i :
                 LET offered == Offered(m, x, i, r, esc)
                 IN  IF r.at # 0 THEN r
                     ELSE IF sym \in offered THEN [r EXCEPT !.at = i]
                     ELSE [at |-> 0, masked |-> Len(m.ctx[Chain(m, x)[i]].st),
                           mask |-> [s \in Symbols |-> IF s \in offered THEN esc ELSE r.mask[s]]],
             [at |-> 0, masked |-> 0, mask |-> mask], Visits(m, x))

(* Mutant of Bumped: the sum is left as it was.                              *)
BumpedAlone(ctx, k, by) == [ctx EXCEPT !.st[k].freq = @ + by]

(* A frequency and the sum rise together.                                    *)
Bumped(ctx, k, by) == [ctx EXCEPT !.st[k].freq = @ + by, !.summ = @ + by]

(* What decodeBinSymbol, decodeSymbol1 and decodeSymbol2 do to the state.    *)
Counted(m, x, first, sym, of) ==
    LET st == m.ctx[x].st
        k == Find(st, sym)
        more == [m EXCEPT !.ctx[x] = Bumped(@, k, 4)]
    IN  IF first /\ Len(st) = 1
        THEN [m EXCEPT !.ctx[x].st[1].freq = IF @ < MaxFreq + 4 THEN @ + 1 ELSE @]
        ELSE IF ~first \/ k = 1 THEN Rescale(more, x, sym, of)
        ELSE IF st[k].freq + 4 <= st[k - 1].freq THEN more
        ELSE Rescale([more EXCEPT !.ctx[x].st = Swapped(@, k)], x, sym, of)
-----------------------------------------------------------------------------
(* The first frequency in a new context, from the symbol's share in the      *)
(* context it extends.                                                       *)
FirstFreq(ctx, sym) ==
    LET cf == ctx.st[Find(ctx.st, sym)].freq - 1
        s0 == ctx.summ - Len(ctx.st) - cf
    IN  IF Len(ctx.st) = 1 THEN ctx.st[1].freq
        ELSE IF 2 * cf > s0 THEN 1 + (2 * cf + 3 * s0 - 1) \div (2 * s0)
        ELSE IF 5 * cf > s0 THEN 2 ELSE 1

(* createSuccessors makes the next context, and those of the suffixes that   *)
(* had none either; each is the suffix of the one before.                    *)
CreateSuccessors(m, x, sym, of) ==
    LET suffixes == Tail(Chain(m, x))
        k(y) == Find(m.ctx[y].st, sym)
        succ(y) == m.ctx[y].st[k(y)].succ
        d == SelectInSeq(suffixes, LAMBDA y : succ(y) # succ(x))
        without == (IF of # 0 THEN <<x>> ELSE <<>>)
                      \o (IF d = 0 THEN suffixes ELSE SubSeq(suffixes, 1, d - 1))
        base == IF d = 0 THEN Last(Chain(m, x)) ELSE succ(suffixes[d])
        next == SuccByte(m, succ(x))
        up == [sym |-> next, freq |-> FirstFreq(m.ctx[base], next), succ |-> succ(x) - 1]
        Made(n, y, sfx) == n :> Single(up, sfx, Append(m.ctx[y].name, sym))
        Linked(b, y, sfx) ==
            IF b.n = 0 THEN b
            ELSE [b EXCEPT !.m.ctx = Made(b.n, y, sfx) @@ [@ EXCEPT ![y].st[k(y)].succ = b.n]]
        Make(y, r) == IF r.n = 0 THEN r ELSE Linked(AllocContext(r.m), y, r.n)
    IN  IF without = <<>> THEN [m |-> m, n |-> base]
        ELSE FoldRight(Make, without, [m |-> m, n |-> base])

(* A symbol found by its context's suffix too counts there as well.          *)
SuffixCounted(m, x, sym) ==
    LET y == m.ctx[x].sfx
        st == m.ctx[y].st
        k == Find(st, sym)
        up == k > 1 /\ st[k].freq >= st[k - 1].freq
        j == IF up THEN k - 1 ELSE k
        moved == [m EXCEPT !.ctx[y].st = IF up THEN Swapped(@, k) ELSE @]
    IN  IF y = 0 \/ m.ctx[x].st[Find(m.ctx[x].st, sym)].freq >= MaxFreq \div 4 THEN m
        ELSE IF Len(st) = 1
        THEN [m EXCEPT !.ctx[y].st[1].freq = IF @ < 32 THEN @ + 1 ELSE @]
        ELSE IF st[k].freq >= MaxFreq - 9 THEN moved
        ELSE [moved EXCEPT !.ctx[y] = Bumped(@, j, 2)]

NewFreq(cf, sf) == 1 + (IF cf > sf THEN 1 ELSE 0)
                     + Cardinality({t \in {4, 6, 9, 12, 15} : cf >= t * sf})

WithShare(summ, f) == summ + (IF f >= 4 THEN f ELSE 3)

(* A context that was escaped from gets the symbol, with its share in the    *)
(* context min where it was found.                                           *)
WithSymbol(ctx, min, sym, succ, ie) ==
    LET n == Len(min.st)
        ns == Len(ctx.st)
        s == min.st[Find(min.st, sym)]
        doubled == IF ctx.st[1].freq < MaxFreq \div 4 - 1 THEN 2 * ctx.st[1].freq ELSE MaxFreq - 4
        st == IF ns = 1 THEN [ctx.st EXCEPT ![1].freq = doubled] ELSE ctx.st
        summ == IF ns = 1 THEN doubled + ie + (IF n > 3 THEN 1 ELSE 0)
                ELSE ctx.summ + (IF 4 * ns <= n /\ ctx.summ <= 8 * ns THEN 2 ELSE 0)
                              + (IF 2 * ns < n THEN 1 ELSE 0)
        f == NewFreq(2 * s.freq * (summ + 6), min.summ - n - (s.freq - 1) + summ)
    IN  [ctx EXCEPT !.st = Append(st, [sym |-> sym, freq |-> f, succ |-> succ]),
                    !.summ = WithShare(summ, f)]

Grown(m, escaped, min, sym, succ, ie) ==
    LET Filled(b, y) ==
            IF b.n = 0 THEN b
            ELSE [b EXCEPT !.m.ctx[y] = WithSymbol(@, m.ctx[min], sym, succ, ie)]
    IN  FoldLeft(LAMBDA r, y : IF r.n = 0 THEN r ELSE Filled(ExpandStates(r.m, y), y),
                 [m |-> m, n |-> min], escaped)

(* update answers the next context, 0 when the memory is used up.            *)
NextContext(r, x, of) == [m |-> r.m, c |-> IF r.n = 0 THEN 0 ELSE x, of |-> of]

(* The successor is there; those that escaped get the symbol.                *)
Succeeded(new, escaped, x, sym, at, of, ie) ==
    LET last == of = 1
        m == IF last /\ escaped # <<>> THEN Popped(new.m) ELSE new.m
    IN  IF new.n = 0 THEN NextContext(new, 0, of)
        ELSE NextContext(Grown(m, escaped, x, sym, IF last THEN new.n ELSE at, ie), new.n, of - 1)

Extended(m, escaped, x, sym, of, ie) ==
    LET k == Find(m.ctx[x].st, sym)
        succ == m.ctx[x].st[k].succ
        pushed == Pushed(m, sym)
        at == PushedAt(m)
        Led(r) == [r EXCEPT !.m.ctx[x].st[k].succ = r.n]
        To(r) == NextContext(r, r.n, 0)
    IN  IF of = 0 THEN To(Led(CreateSuccessors(m, x, sym, 0)))
        ELSE IF at = 0 THEN [m |-> pushed, c |-> 0, of |-> of]
        ELSE IF succ = 0
        THEN NextContext(Grown([pushed EXCEPT !.ctx[x].st[k].succ = at], escaped, x, sym, at, ie),
                         x, of)
        ELSE Succeeded(IF succ > 0 THEN [m |-> pushed, n |-> succ]
                       ELSE CreateSuccessors(pushed, x, sym, of), escaped, x, sym, at, of, ie)

Updated(m, escaped, x, sym, of, ie) ==
    LET s == m.ctx[x].st[Find(m.ctx[x].st, sym)]
    IN  IF of = 0 /\ s.succ > 0 THEN [m |-> m, c |-> s.succ, of |-> 0]
        ELSE Extended(SuffixCounted(m, x, sym), escaped, x, sym, of, ie)
-----------------------------------------------------------------------------
(* Mutant of Fallen: only the suffixes that were tried count.                *)
FallenTried(m, x, of, at) == of + Cardinality({i \in ToSet(Visits(m, x)) : i <= at}) - 1

(* Every suffix passed on the way from an escape counts, tried or not.       *)
Fallen(m, x, of, at) == of + at - 1

(* Mutant of CleanMask: the marks stay.                                      *)
MaskKept(esc, mask) == mask

(* The marks are cleared when the mark in use comes round to 0.              *)
NextMark(esc) == IF esc = 0 THEN 1 ELSE esc
CleanMask(esc, mask) == IF esc = 0 THEN [s \in Symbols |-> 0] ELSE mask

(* ReadByte, in the model as it is or as restart leaves it.                  *)
ReadByteIn(m, x, of, esc, mask, before, sym, ie) ==
    LET r == Search(m, x, mask, esc, sym)
        chain == Chain(m, x)
        found == chain[r.at]
        escapes == r.at > 1
        fall == Fallen(m, x, of, r.at)
        ie1 == IF escapes /\ Len(m.ctx[x].st) = 1 THEN ie ELSE initEsc
        esc1 == IF escapes THEN (esc + 1) % EscWrap ELSE esc
    IN  /\ sym \in Coded(before) /\ Len(before) < MaxReads
        /\ r.at # 0
        /\ \E u \in {Updated(Counted(m, found, ~escapes, sym, fall), SubSeq(chain, 1, r.at - 1),
                             found, sym, fall, ie1)} :
               mem' = u.m /\ c' = u.c /\ orderFall' = u.of
        /\ initEsc' = ie1
        /\ escCount' = NextMark(esc1)
        /\ charMask' = CleanMask(esc1, r.mask)
        /\ history' = Append(before, sym)

ReadByte(sym, ie) ==
    IF c # 0 THEN ReadByteIn(mem, c, orderFall, escCount, charMask, history, sym, ie)
    ELSE ReadByteIn(RestartedMemory.m, RestartedMemory.n, MaxOrder, 1,
                    [s \in Symbols |-> 0], <<>>, sym, ie)

Next == \E sym \in Symbols, ie \in InitEscs : ReadByte(sym, ie)

Spec == Init /\ [][Next]_vars
-----------------------------------------------------------------------------
(* Every unit of the memory is text, unused, free or part of one context or  *)
(* list, and of only one: no block is lost or handed out twice by splitting, *)
(* gluing, shrinking and expanding, also when the memory is used up.         *)
Covers(n, size, u) == n <= u /\ u < n + size
Claims(u) ==
    LET lists == {x \in DOMAIN mem.ctx : mem.ctx[x].blk # 0}
        free == {<<i, j>> \in Indexes \X (1..Cardinality(AllUnits)) : j <= Len(mem.free[i])}
    IN  Cardinality({x \in DOMAIN mem.ctx : x = u})
      + Cardinality({x \in lists : Covers(mem.ctx[x].blk,
                                          Index2Units[ListIndex(Len(mem.ctx[x].st))], u)})
      + Cardinality({f \in free : Covers(mem.free[f[1]][f[2]], Index2Units[f[1]], u)})
      + (IF u < mem.hi1 \div UnitBytes THEN 1 ELSE 0)
      + (IF mem.lo2 <= u /\ u < mem.hi2 THEN 1 ELSE 0)
UnitsPartitioned == \A u \in AllUnits : Claims(u) = 1

(* The current context is what was read last, and orderFall is what it lacks *)
(* to the full order: pointers never lead to a context of another text.      *)
CurrentIsRecent == c # 0 => /\ IsSuffix(mem.ctx[c].name, history)
                            /\ orderFall = MaxOrder - Len(mem.ctx[c].name)

(* A suffix is the context without its first symbol and has all its symbols. *)
SuffixRight(x) ==
    LET y == mem.ctx[x].sfx
    IN  IF y = 0 THEN mem.ctx[x].name = <<>>
        ELSE /\ mem.ctx[y].name = Tail(mem.ctx[x].name)
             /\ \A s \in ToSet(mem.ctx[x].st) : \E t \in ToSet(mem.ctx[y].st) : t.sym = s.sym

(* A symbol's successor is the context of what it makes of its own context,  *)
(* cut to the longest that exists, or lies in the text.                      *)
SuccessorRight(x, s) ==
    LET name == Append(mem.ctx[x].name, s.sym)
    IN  CASE s.succ = 0 -> Len(name) = 1
          [] s.succ > 0 -> IsSuffix(mem.ctx[s.succ].name, name)
          [] OTHER -> -s.succ \in Heap1Start + 1..Heap1Lo(mem)

(* The contexts form a tree of suffixes that agrees with the text read: no   *)
(* state is built from a byte not yet written, and no pointer is stale.      *)
ContextsRight == c # 0 => \A x \in DOMAIN mem.ctx :
                    /\ SuffixRight(x)
                    /\ \A s \in ToSet(mem.ctx[x].st) : s.sym \in Symbols /\ SuccessorRight(x, s)

(* The escape of a context with several states always has a share left:      *)
(* summFreq is more than the sum, so no scale is 0 and no quotient divides   *)
(* by 0 ("look at why this happens", says decodeSymbol1 of a scale of 0).    *)
EscapeLeft == c # 0 => \A x \in DOMAIN mem.ctx :
                /\ \A s \in ToSet(mem.ctx[x].st) : s.freq > 0
                /\ Len(mem.ctx[x].st) > 1 => mem.ctx[x].summ > SumFreq(mem.ctx[x].st)

(* Whatever was masked before, every symbol can be coded: the escapes lead   *)
(* to a context that offers it.                                              *)
EverySymbolOffered == c # 0 => \A sym \in Symbols :
                                 Search(mem, c, charMask, escCount, sym).at # 0
=============================================================================
