------------------------------ MODULE Requests ------------------------------
(***************************************************************************)
(* The requests of a task (src/raw_http.go, run and initURL in             *)
(* src/download.go).  A header is a prepared request that ends in          *)
(* "Range: bytes=".  Every proxy of the task sends through the header that *)
(* t.header points to when it starts: AppendInt writes the offset into the *)
(* spare bytes behind that one shared buffer, under the header's mutex.    *)
(* An answer of status 200 says that the link has expired: the proxy that  *)
(* gets it fetches a new link and replaces t.header, without a lock, while *)
(* others send through the old header or fetch links of their own.         *)
(*                                                                         *)
(* The web site and the server are external: a link is known by the epoch  *)
(* it was issued in and works until that epoch ends; a fault may lead to   *)
(* another file.  DownloadTask has the splitting and merging of ranges;    *)
(* here they are fixed.                                                    *)
(***************************************************************************)
EXTENDS Integers, FiniteSets

CONSTANTS
    Proxies,     \* the proxies that work on the task
    None,        \* nothing written, nobody, no range
    Lengths,     \* the length of every file a server may send
    File,        \* the file the task is for
    Starts,      \* first bytes of the ranges
    MaxExpiries, \* bound: epochs of links that end
    MaxFaults    \* bound: failed calls, refused or useless answers

Length == Lengths[File]

ASSUME RequestsAssumption ==
    /\ Lengths \in [DOMAIN Lengths -> Nat]
    /\ File \in DOMAIN Lengths /\ Length # 0
    /\ 0 \in Starts /\ Starts \subseteq 0..Length - 1
    /\ MaxExpiries \in Nat /\ MaxFaults \in Nat
    /\ None \notin Proxies \cup Int
    /\ IsFiniteSet(Proxies)

\* A header is garbage once neither t.header nor a proxy refers to it, so one
\* more than the proxies are in use at a time.
Headers == 0..Cardinality(Proxies)

VARIABLES
    header,         \* t.header
    link, area, holder,
                    \* of each header: its link, the offset in the spare bytes
                    \* of its buffer, the proxy that holds its mutex
    epoch,          \* external: the epoch whose links work
    pc, range, mine,
                    \* per proxy: where it is, its thread (by the first byte),
                    \* the header it sends through
    request,        \* per proxy: the request it has sent
    body,           \* per proxy: the byte the answer continues with
    fetched,        \* per proxy: the link getFileURL returned
    cur,            \* thread.cur of each range
    stored,         \* the byte, by file and offset, that is stored at each offset
    dropped,        \* the ranges that Go removed unfinished
    panicked,       \* whether the process has ended in a panic
    faults

vars == <<header, link, area, holder, epoch, pc, range, mine, request, body,
          fetched, cur, stored, dropped, panicked, faults>>

headers == <<header, link, area, holder>>
ranges == <<cur, stored, dropped>>

End(r) == LET later == {s \in Starts \cup {Length} : r < s}
          IN  CHOOSE e \in later : \A s \in later : e <= s

Idle(r) == \A p \in Proxies : range[p] # r
Open == {r \in Starts \ dropped : Idle(r) /\ cur[r] < End(r)}
InUse == {header} \cup {mine[p] : p \in {q \in Proxies : pc[q] \in {"lock", "write"}}}

Init ==
    /\ header = 0 /\ link = [h \in Headers |-> 0]
    /\ area = [h \in Headers |-> None] /\ holder = [h \in Headers |-> None]
    /\ epoch = 0
    /\ pc = [p \in Proxies |-> "idle"] /\ range = [p \in Proxies |-> None]
    /\ mine = [p \in Proxies |-> 0]
    /\ request = [p \in Proxies |-> None] /\ body = [p \in Proxies |-> None]
    /\ fetched = [p \in Proxies |-> None]
    /\ cur = [r \in Starts |-> r]
    /\ stored = [x \in 0..Length - 1 |-> None]
    /\ dropped = {} /\ panicked = FALSE
    /\ faults = 0

Goto(p, l) == pc' = [pc EXCEPT ![p] = l]

Fault == faults < MaxFaults /\ faults' = faults + 1

\* run returns: the thread is free again, the connection closed.
Return(p) ==
    /\ Goto(p, "idle")
    /\ range' = [range EXCEPT ![p] = None]
    /\ request' = [request EXCEPT ![p] = None]
    /\ body' = [body EXCEPT ![p] = None]
    /\ fetched' = [fetched EXCEPT ![p] = None]
    /\ mine' = [mine EXCEPT ![p] = 0]

-----------------------------------------------------------------------------
(* SendHeader *)

\* run takes t.header, once, before it waits for that header's mutex.
Start(p) ==
    /\ pc[p] = "idle" /\ Open # {}
    /\ range' = [range EXCEPT ![p] = CHOOSE r \in Open : \A s \in Open : r <= s]
    /\ mine' = [mine EXCEPT ![p] = header]
    /\ Goto(p, "lock")
    /\ UNCHANGED <<headers, epoch, request, body, fetched, ranges, faults>>

\* Mutant: the mutex of the header is not taken.
FreeAlways(h) == TRUE

Free(h) == holder[h] = None

\* AppendInt: the offset goes into the spare bytes of the header's buffer.
Append(p) ==
    /\ pc[p] = "lock" /\ Free(mine[p])
    /\ holder' = [holder EXCEPT ![mine[p]] = p]
    /\ area' = [area EXCEPT ![mine[p]] = cur[range[p]]]
    /\ Goto(p, "write")
    /\ UNCHANGED <<header, link, epoch, range, mine, request, body, fetched,
                   ranges, faults>>

\* conn.Write sends what the buffer holds, or fails.
Write(p) ==
    /\ pc[p] = "write"
    /\ holder' = [holder EXCEPT ![mine[p]] = None]
    /\ \/ /\ request' = [request EXCEPT ![p] =
                            [link |-> link[mine[p]], from |-> area[mine[p]]]]
          /\ mine' = [mine EXCEPT ![p] = 0]
          /\ Goto(p, "head")
          /\ UNCHANGED <<range, body, fetched, faults>>
       \/ Fault /\ Return(p)
    /\ UNCHANGED <<header, link, area, epoch, ranges>>

-----------------------------------------------------------------------------
(* readHead and the checks of the answer *)

Works(l) == l = epoch

\* Mutant: any length will do.
SameLengthAlways(p, n) == TRUE

SameLength(p, n) == n + cur[range[p]] = Length

\* Status 206 with the rest of file f from the offset that was asked for.
Partial(p, f) ==
    LET from == request[p].from IN
    /\ from < Lengths[f]
    /\ IF SameLength(p, Lengths[f] - from)
         THEN /\ body' = [body EXCEPT ![p] = [file |-> f, at |-> from]]
              /\ Goto(p, "receive")
              /\ UNCHANGED <<range, mine, request, fetched>>
         ELSE Return(p)

Head(p) ==
    /\ pc[p] = "head"
    /\ \/ Works(request[p].link) /\ Partial(p, File) /\ UNCHANGED faults
       \/ /\ ~ Works(request[p].link) \* status 200
          /\ Goto(p, "fetch")
          /\ UNCHANGED <<range, mine, request, body, fetched, faults>>
       \/ Fault /\ \E f \in DOMAIN Lengths \ {File} : Partial(p, f)
       \/ Fault /\ Return(p) \* another status, or the connection broke
    /\ UNCHANGED <<headers, epoch, ranges>>

-----------------------------------------------------------------------------
(* initURL *)

\* getFileURL returns a link that works now, or "".  Or it never returns: an
\* answer to its POST request that is no link makes it repeat that request, with
\* a body that was read, and look for the page's mark in the answer (main.go:104).
FetchLink(p) ==
    /\ pc[p] = "fetch"
    /\ \/ /\ fetched' = [fetched EXCEPT ![p] = epoch]
          /\ Goto(p, "renew")
          /\ UNCHANGED <<range, mine, request, body, faults>>
       \/ Fault /\ Return(p)
       \/ /\ Fault /\ Goto(p, "hung")
          /\ UNCHANGED <<range, mine, request, body, fetched>>
    /\ UNCHANGED <<headers, epoch, ranges>>

\* Mutant: the new header is made and t.header keeps the old one.
ReplacedNever(h) == header

Replaced(h) == h

\* t.header = NewHeader(fUrl): a new object, whatever t.header is by now.
Renew(p) ==
    /\ pc[p] = "renew"
    /\ \E h \in {CHOOSE g \in Headers : g \notin InUse} :
          /\ header' = Replaced(h)
          /\ link' = [link EXCEPT ![h] = fetched[p]]
          /\ area' = [area EXCEPT ![h] = None]
    /\ Return(p)
    /\ UNCHANGED <<holder, epoch, ranges, faults>>

-----------------------------------------------------------------------------
(* Download *)

\* The next byte arrives; at the end of the range run returns nil.
Receive(p) ==
    LET r == range[p] IN
    /\ pc[p] = "receive"
    /\ stored' = [stored EXCEPT ![cur[r]] = body[p]]
    /\ cur' = [cur EXCEPT ![r] = @ + 1]
    /\ IF cur[r] + 1 = End(r)
         THEN Return(p)
         ELSE /\ body' = [body EXCEPT ![p].at = @ + 1]
              /\ UNCHANGED <<pc, range, mine, request, fetched>>
    /\ UNCHANGED <<headers, epoch, dropped, faults>>

\* The connection fails.  On Linux the error of splice may be lost in that of
\* prepareRead, which is nil: then run returns nil and Go removes the range.
Breaks(p) ==
    /\ pc[p] = "receive" /\ Fault /\ Return(p)
    /\ dropped' \in {dropped, dropped \cup {range[p]}}
    /\ UNCHANGED <<headers, epoch, cur, stored>>

\* A panic of one goroutine ends the process: Close of a connection that could
\* not be dialled, an answer too short for readHead or a file that Download
\* cannot open, and getFileURL when its POST request or a page fails it.
Panics(p) ==
    /\ \/ pc[p] = "idle" /\ Open # {}
       \/ pc[p] \in {"head", "fetch"}
    /\ Fault /\ panicked' = TRUE
    /\ UNCHANGED <<headers, epoch, pc, range, mine, request, body, fetched, ranges>>

\* The links issued so far stop working.
Expire ==
    /\ epoch < MaxExpiries /\ epoch' = epoch + 1
    /\ UNCHANGED <<headers, pc, range, mine, request, body, fetched, ranges,
                   panicked, faults>>

Hung(p) == pc[p] = "hung"

\* Nobody will do more for the range.
Settled(r) ==
    \/ cur[r] = End(r)
    \/ r \in dropped
    \/ \E p \in Proxies : Hung(p) /\ range[p] = r

Ended ==
    \/ panicked
    \/ \A r \in Starts : Settled(r)
    \/ \A p \in Proxies : Hung(p)

Done == Ended /\ UNCHANGED vars

Runs(p) ==
    \/ Start(p) \/ Append(p) \/ Write(p) \/ Head(p) \/ FetchLink(p)
    \/ Renew(p) \/ Receive(p) \/ Breaks(p)

Step(p) ==
    /\ ~ panicked
    /\ \/ Runs(p) /\ UNCHANGED panicked
       \/ Panics(p)

Next == (\E p \in Proxies : Step(p)) \/ (Expire /\ ~ panicked) \/ Done

(***************************************************************************)
(* Fairness: a goroutine that can run runs, and a connection answers or    *)
(* breaks.  Links need not expire.                                         *)
(***************************************************************************)
Spec == Init /\ [][Next]_vars /\ \A p \in Proxies : WF_vars(Step(p))

-----------------------------------------------------------------------------
(***************************************************************************)
(* A request that went out asks for the offset its own proxy is at, with   *)
(* every proxy writing its offset into one shared buffer and the header    *)
(* replaced meanwhile (raw_http.go:56, download.go:260).                   *)
(***************************************************************************)
AsksOwnOffset ==
    \A p \in Proxies :
        pc[p] = "head" => request[p].from = cur[range[p]]

(***************************************************************************)
(* Every byte that is stored belongs at its offset, and to the file or to  *)
(* another of exactly its length: the only thing that tells another file,  *)
(* which a refreshed link or a proxy can give, from this one is the length *)
(* that follows from offset and answer (download.go:273-279).  So a        *)
(* neighbouring volume of the same length gets into the file unnoticed,    *)
(* even half of it, and nothing else does.                                 *)
(***************************************************************************)
Twins == {f \in DOMAIN Lengths : Lengths[f] = Length}

StoredRight ==
    \A r \in Starts : \A x \in r..cur[r] - 1 :
        stored[x] \in {[file |-> f, at |-> x] : f \in Twins}

(***************************************************************************)
(* Every range is fetched to its end, unless the transfer was dropped as   *)
(* complete (download_linux.go:52) or its proxy waits for ever in          *)
(* getFileURL (main.go:104), unless all proxies do, or the program panics: *)
(* links expire under the requests, and a proxy that was slow to fetch a   *)
(* link may put an older one in the place of a newer (download.go:268),    *)
(* yet an old link is answered with status 200 and so is refreshed again.  *)
(***************************************************************************)
AllFetched == <>Ended
=============================================================================
