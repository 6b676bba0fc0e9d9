---------------------------- MODULE DownloadTask ----------------------------
(***************************************************************************)
(* One file being downloaded by several proxies (src/download.go and the   *)
(* per-platform Download loops).  A task keeps a slice of ranges, each a   *)
(* DownloadThread [cur:end]; every proxy repeatedly takes a range or       *)
(* splits one (getThread), fetches it over a connection (run, Download)    *)
(* and hands it back (the tail of Go).  A ticker goroutine saves the       *)
(* ranges to the ".stat" file and declares the task complete when none is  *)
(* left; a restarted program resumes from that file.                       *)
(*                                                                         *)
(* Bytes are numbered 0..Length-1.  A range is worked on while cur < end,  *)
(* so the byte `end' itself belongs to it only on paper.  Reads and writes *)
(* of `cur' that the code does outside the lock are steps of their own.    *)
(***************************************************************************)
EXTENDS Integers, Sequences, FiniteSets

CONSTANTS
    Proxies,     \* goroutines running runProxy on this task
    None,        \* nil: no thread held, lock free
    Length,      \* size of the file (t.length)
    MinSplit,    \* a range is split only when longer than this (64<<10)
    MaxRead,     \* most bytes one read or splice delivers (bufSize)
    Linux,       \* TRUE: splice loop of download_linux.go
    MaxThreads,  \* bound: DownloadThread objects alive at a time
    MaxFaults,   \* bound: failed dials, requests and reads
    MaxCrashes,  \* bound: times the process is killed and restarted
    MaxSaves     \* bound: calls of SaveStat

ASSUME ConstantsAssumption ==
    /\ Length \in Nat \ {0}
    /\ MinSplit \in Nat \ {0}
    /\ MaxRead \in Nat
    /\ MaxThreads \in Nat \ {0}
    /\ MaxFaults \in Nat
    /\ MaxCrashes \in Nat
    /\ MaxSaves \in Nat
    /\ Linux \in BOOLEAN
    /\ None \notin Proxies
    /\ None \notin 1..MaxThreads

\* One goroutine for each entry of the list of proxies; without one nothing runs.
ASSUME ProxiesAssumption == IsFiniteSet(Proxies) /\ Proxies # {}

Threads == 1..MaxThreads
Bytes == 0..(Length - 1)
Offsets == 0..Length
States == {"noWork", "ready", "receive"}

VARIABLES
    ranges,    \* t.ranges: sequence of threads
    cur, end,  \* next byte and end of each thread
    state,     \* thread.state
    mu,        \* owner of t.Mutex when it is held across steps
    prev, l,   \* locals of the getThread call that owns the lock
    pc,        \* where each proxy is
    held,      \* the local `thread' of Go
    err,       \* Go's local err is not nil
    ticker,    \* where the ticker goroutine is
    buf,       \* SaveStat's buffer: lines cur:end
    stat,      \* lines of the .stat file
    written,   \* bytes present in the output file
    panic,     \* why the process died, "no" while it lives
    faults, crashes, saves,
    seams,     \* ghost: byte before the middle of every split
    dropped,   \* ghost: bytes of ranges removed before they were fetched
    torn,      \* ghost: bytes whose line a crash inside SaveStat lost
    missed     \* ghost: proxies whose scan at the end of Go stopped before their range

proxyVars == <<pc, held, err>>
lockVars == <<mu, prev, l>>
rangeVars == <<ranges, cur, end, state>>
tickVars == <<ticker, buf, stat, saves>>
ghostVars == <<seams, dropped, torn, missed>>
vars == <<rangeVars, lockVars, proxyVars, tickVars, written, panic,
          faults, crashes, ghostVars>>

Lines == [cur : Offsets, end : Offsets]
Locations == {"idle", "split", "start", "dial", "loop", "read", "finish", "left"}

-----------------------------------------------------------------------------
(* Helpers *)

Registered == {ranges[i] : i \in DOMAIN ranges}
Held == {held[p] : p \in Proxies} \ {None}
FreeThreads == Threads \ (Registered \cup Held)

\* Bytes not yet fetched, as getThread measures them.
Remaining(t) == end[t] - cur[t]

\* The bytes a range answers for, its end included.
Closed(lo, hi) == {b \in Bytes : lo <= b /\ b <= hi}

Covered == {b \in Bytes : \E t \in Registered : cur[t] <= b /\ b <= end[t]}
CoveredBy(lines) ==
    {b \in Bytes : \E i \in DOMAIN lines : lines[i].cur <= b /\ b <= lines[i].end}
Gone == seams \cup dropped \cup torn

\* Lines init keeps, and the bytes a program started now would work on: all of
\* them when it keeps no line.
Resumable(lines) == {i \in DOMAIN lines : lines[i].cur < lines[i].end}
OnDisk(lines) == IF Resumable(lines) = {} THEN Bytes ELSE CoveredBy(lines)

\* The increasing enumerations of a set of at most MaxThreads indices
\* (exactly one exists).
Listings(K) ==
    UNION {{f \in [1..n -> K] :
               /\ \A k \in K : \E j \in 1..n : f[j] = k
               /\ \A i, j \in 1..n : i < j => f[i] < f[j]} : n \in 0..MaxThreads}

\* Mutant: the copy is forgotten, so the last range goes instead.
WithoutCopy(s, pos) == [i \in 1..(Len(s) - 1) |-> s[i]]

\* What slices hold after copy(s[pos:], s[pos+1:]); s = s[:len(s)-1].
Without(s, pos) ==
    [i \in 1..(Len(s) - 1) |-> IF i < pos THEN s[i] ELSE s[i + 1]]

Prefix(s, n) == [i \in 1..n |-> s[i]]

Alive == panic = "no"

-----------------------------------------------------------------------------
Init ==
    /\ ranges = <<1>>
    /\ cur = [t \in Threads |-> 0]
    /\ end = [t \in Threads |-> IF t = 1 THEN Length ELSE 0]
    /\ state = [t \in Threads |-> "noWork"]
    /\ mu = None /\ prev = None /\ l = 0
    /\ pc = [p \in Proxies |-> "idle"]
    /\ held = [p \in Proxies |-> None]
    /\ err = [p \in Proxies |-> FALSE]
    /\ ticker = "tick" /\ buf = <<>> /\ stat = <<>>
    /\ written = {}
    /\ panic = "no"
    /\ faults = 0 /\ crashes = 0 /\ saves = 0
    /\ seams = {} /\ dropped = {} /\ torn = {} /\ missed = {}

-----------------------------------------------------------------------------
(* getThread *)

Locking(p) == Alive /\ pc[p] = "idle" /\ mu = None

\* Mutants: only long ranges are taken again; a range is idle until data arrives.
IdleLongOnly ==
    {i \in DOMAIN ranges : state[ranges[i]] = "noWork" /\ Remaining(ranges[i]) > MinSplit}
IdleUntilReceiving == {i \in DOMAIN ranges : state[ranges[i]] # "receive"}

Idle == {i \in DOMAIN ranges : state[ranges[i]] = "noWork"}

\* `_len > l': the first range of the greatest positive length.
Longest(i) ==
    /\ Remaining(ranges[i]) > 0
    /\ \A j \in DOMAIN ranges :
          /\ Remaining(ranges[j]) <= Remaining(ranges[i])
          /\ j < i => Remaining(ranges[j]) < Remaining(ranges[i])

\* No range: getThread and then Go return nil, the proxy is done here.
NothingLeft(p) ==
    /\ Locking(p)
    /\ ranges = <<>>
    /\ pc' = [pc EXCEPT ![p] = "left"]
    /\ UNCHANGED <<rangeVars, lockVars, held, err, tickVars, written, panic,
                   faults, crashes, ghostVars>>

\* The first range nobody works on.
TakeIdle(p) ==
    /\ Locking(p)
    /\ \E i \in Idle :
          /\ \A j \in Idle : i <= j
          /\ state' = [state EXCEPT ![ranges[i]] = "ready"]
          /\ held' = [held EXCEPT ![p] = ranges[i]]
    /\ pc' = [pc EXCEPT ![p] = "start"]
    /\ UNCHANGED <<ranges, cur, end, lockVars, err, tickVars, written, panic,
                   faults, crashes, ghostVars>>

\* Every range is busy and the longest is too short to split.
TooSmall(p) ==
    /\ Locking(p)
    /\ Idle = {}
    /\ \E i \in DOMAIN ranges : Longest(i) /\ Remaining(ranges[i]) <= MinSplit
    /\ pc' = [pc EXCEPT ![p] = "left"]
    /\ UNCHANGED <<rangeVars, lockVars, held, err, tickVars, written, panic,
                   faults, crashes, ghostVars>>

\* Every range is busy and none has bytes left: prev stays nil and the fresh
\* thread [0:0] is returned although it is in no range.
TakeStray(p) ==
    /\ Locking(p)
    /\ ranges # <<>> /\ Idle = {}
    /\ \A i \in DOMAIN ranges : Remaining(ranges[i]) <= 0
    /\ \E t \in FreeThreads :
          /\ \A u \in FreeThreads : t <= u
          /\ cur' = [cur EXCEPT ![t] = 0]
          /\ end' = [end EXCEPT ![t] = 0]
          /\ state' = [state EXCEPT ![t] = "ready"]
          /\ held' = [held EXCEPT ![p] = t]
    /\ pc' = [pc EXCEPT ![p] = "start"]
    /\ UNCHANGED <<ranges, lockVars, err, tickVars, written, panic,
                   faults, crashes, ghostVars>>

\* Every range is busy: remember the longest one.  Its owner goes on moving
\* its cur, without the lock, until Split reads it again.
ScanSplit(p) ==
    /\ Locking(p)
    /\ Idle = {}
    /\ \E i \in DOMAIN ranges :
          /\ Longest(i)
          /\ Remaining(ranges[i]) > MinSplit
          /\ prev' = ranges[i]
          /\ l' = Remaining(ranges[i])
    /\ mu' = p
    /\ pc' = [pc EXCEPT ![p] = "split"]
    /\ UNCHANGED <<rangeVars, held, err, tickVars, written, panic,
                   faults, crashes, ghostVars>>

\* Mutant: parentheses left out.
MiddleUnparenthesized(t) == cur[t] + end[t] \div 2

Middle(t) == (cur[t] + end[t]) \div 2

Split(p) ==
    LET mid == Middle(prev) IN
    /\ Alive /\ pc[p] = "split"
    /\ \E t \in FreeThreads :
          /\ \A u \in FreeThreads : t <= u
          /\ cur' = [cur EXCEPT ![t] = mid]
          /\ end' = [end EXCEPT ![t] = end[prev], ![prev] = mid - 1]
          /\ state' = [state EXCEPT ![t] = "ready"]
          /\ ranges' = Append(ranges, t)
          /\ held' = [held EXCEPT ![p] = t]
    /\ seams' = seams \cup {mid - 1}
    /\ mu' = None /\ prev' = None /\ l' = 0
    /\ pc' = [pc EXCEPT ![p] = "start"]
    /\ UNCHANGED <<err, tickVars, written, panic, faults, crashes, dropped, torn,
                   missed>>

-----------------------------------------------------------------------------
(* The middle of Go: dial, run and Download *)

Start(p) ==
    /\ Alive /\ pc[p] = "start"
    /\ pc' = [pc EXCEPT ![p] = IF cur[held[p]] < end[held[p]] THEN "dial" ELSE "finish"]
    /\ UNCHANGED <<rangeVars, lockVars, held, err, tickVars, written, panic,
                   faults, crashes, ghostVars>>

\* Bytes [c, c+n) reach the file at their own offset and cur moves past them.
Fetch(p, n) ==
    LET t == held[p] IN
    /\ cur[t] + n <= Length
    /\ written' = written \cup {b \in Bytes : cur[t] <= b /\ b < cur[t] + n}
    /\ cur' = [cur EXCEPT ![t] = cur[t] + n]

\* What WriteAt stores of n bytes: nothing once the ticker has closed t.f.
Stored(n) == IF ticker = "done" THEN 0 ELSE n

\* The splice loop writes through a file of its own.
FileOpen == Linux \/ ticker # "done"

\* The request is answered 206; what the header's reader buffered of the body
\* is flushed through Write, whose error nobody looks at.
Connect(p) ==
    /\ Alive /\ pc[p] = "dial"
    /\ \E n \in 0..MaxRead : Fetch(p, Stored(n))
    /\ state' = [state EXCEPT ![held[p]] = "receive"]
    /\ pc' = [pc EXCEPT ![p] = "loop"]
    /\ UNCHANGED <<ranges, end, lockVars, held, err, tickVars, panic,
                   faults, crashes, ghostVars>>

\* run fails: the request cannot be sent, the answer is not 206, or the
\* length disagrees.
RunFails(p) ==
    /\ Alive /\ pc[p] = "dial"
    /\ faults < MaxFaults
    /\ faults' = faults + 1
    /\ err' = [err EXCEPT ![p] = TRUE]
    /\ pc' = [pc EXCEPT ![p] = "finish"]
    /\ UNCHANGED <<rangeVars, lockVars, held, tickVars, written, panic,
                   crashes, ghostVars>>

\* The dial fails and conn.Close() is called on the nil *net.TCPConn.
DialFails(p) ==
    /\ Alive /\ pc[p] = "dial"
    /\ faults < MaxFaults
    /\ faults' = faults + 1
    /\ panic' = "nilConn"
    /\ UNCHANGED <<rangeVars, lockVars, proxyVars, tickVars, written, crashes,
                   ghostVars>>

\* `for t.cur < t.end': end is read without the lock.
Loop(p) ==
    /\ Alive /\ pc[p] = "loop"
    /\ pc' = [pc EXCEPT ![p] = IF cur[held[p]] < end[held[p]] THEN "read" ELSE "finish"]
    /\ UNCHANGED <<rangeVars, lockVars, held, err, tickVars, written, panic,
                   faults, crashes, ghostVars>>

\* One read and its write.  The answer runs to the end of the file, so a read
\* may pass the end of the range.  A write to the closed file ends the loop.
Receive(p) ==
    /\ Alive /\ pc[p] = "read"
    /\ \E n \in 1..MaxRead : Fetch(p, IF FileOpen THEN n ELSE 0)
    /\ err' = [err EXCEPT ![p] = ~FileOpen]
    /\ pc' = [pc EXCEPT ![p] = IF FileOpen THEN "loop" ELSE "finish"]
    /\ UNCHANGED <<ranges, end, state, lockVars, held, tickVars, panic,
                   faults, crashes, ghostVars>>

\* The read fails or times out.  A socket error of the splice loop is replaced
\* by the result of prepareRead, which is nil on a descriptor still open.
Reported(kind) == ~(Linux /\ kind = "socket")

ReceiveFails(p) ==
    /\ Alive /\ pc[p] = "read"
    /\ faults < MaxFaults
    /\ faults' = faults + 1
    /\ \E kind \in {"socket", "timeout"} : err' = [err EXCEPT ![p] = Reported(kind)]
    /\ pc' = [pc EXCEPT ![p] = "finish"]
    /\ UNCHANGED <<rangeVars, lockVars, held, tickVars, written, panic,
                   crashes, ghostVars>>

-----------------------------------------------------------------------------
(* The end of Go, under the lock *)

\* Ranges that end just before the thread's next byte.
Adjacent(T) == {i \in DOMAIN ranges : end[ranges[i]] + 1 = cur[T]}

\* The scan stops at the second of the events "found the thread" and "found an
\* adjacent range".
AdjacentBefore(T, i) == Cardinality({j \in Adjacent(T) : j < i})
Positions(T) == {i \in DOMAIN ranges : ranges[i] = T}
MergedInto(T) ==
    {i \in Adjacent(T) :
        AdjacentBefore(T, i) + (IF \E j \in Positions(T) : j <= i THEN 1 ELSE 0) <= 1}

\* pos, counted from 1; it stays at the first range when the thread is not met.
Pos(T) ==
    IF \E i \in Positions(T) : AdjacentBefore(T, i) <= 1
    THEN CHOOSE i \in Positions(T) : AdjacentBefore(T, i) <= 1
    ELSE 1

\* Two adjacent ranges come before the thread's own: pos stays at the first range.
MissesOwn(T) ==
    Positions(T) # {} /\ ~\E i \in Positions(T) : AdjacentBefore(T, i) <= 1

\* Mutant: a finished range is not removed.
MergedOnly(p) == MergedInto(held[p]) # {}

MergedOrFinished(p) == MergedInto(held[p]) # {} \/ ~err[p]

\* Mutant: the adjacent range is extended by the wrong field.
EndAfterMergeToCur(T) ==
    [t \in Threads |->
        IF \E i \in MergedInto(T) : ranges[i] = t THEN cur[T] ELSE end[t]]

EndAfterMerge(T) ==
    [t \in Threads |->
        IF \E i \in MergedInto(T) : ranges[i] = t THEN end[T] ELSE end[t]]

\* Mutant: the thread stays marked as worked on.
NotReleased(T) == state

Released(T) == [state EXCEPT ![T] = "noWork"]

\* What the removal of range R gives up: nothing when R is the thread and an
\* adjacent range took its bytes over; what the loop left of it when R is the
\* thread; all of R when it is another's.
GivenUp(T, R) ==
    IF R # T THEN Closed(cur[R], EndAfterMerge(T)[R])
    ELSE IF MergedInto(T) # {} THEN {}
    ELSE Closed(cur[T], end[T] - 1)

Finish(p) ==
    LET T == held[p] IN
    /\ Alive /\ pc[p] = "finish" /\ mu = None
    /\ MergedOrFinished(p) => ranges # <<>>
    /\ end' = EndAfterMerge(T)
    /\ ranges' = IF MergedOrFinished(p) THEN Without(ranges, Pos(T)) ELSE ranges
    /\ dropped' = IF MergedOrFinished(p)
                  THEN dropped \cup GivenUp(T, ranges[Pos(T)]) ELSE dropped
    /\ missed' = missed \cup {q \in {p} : MissesOwn(T)}
    /\ state' = Released(T)
    /\ held' = [held EXCEPT ![p] = None]
    /\ err' = [err EXCEPT ![p] = FALSE]
    /\ pc' = [pc EXCEPT ![p] = "idle"]
    /\ UNCHANGED <<cur, lockVars, tickVars, written, panic, faults, crashes,
                   seams, torn>>

\* t.ranges[pos+1:] on an empty slice.
FinishPanics(p) ==
    /\ Alive /\ pc[p] = "finish" /\ mu = None
    /\ MergedOrFinished(p) /\ ranges = <<>>
    /\ panic' = "emptyRanges"
    /\ UNCHANGED <<rangeVars, lockVars, proxyVars, tickVars, written, faults,
                   crashes, ghostVars>>

-----------------------------------------------------------------------------
(* The ticker goroutine and SaveStat *)

Complete ==
    /\ Alive /\ ticker = "tick"
    /\ ranges = <<>>
    /\ ticker' = "done"
    /\ stat' = <<>>
    /\ UNCHANGED <<rangeVars, lockVars, proxyVars, buf, saves, written,
                   panic, faults, crashes, ghostVars>>

\* Mutant: only ranges being worked on are saved.
SavedBusy == {i \in DOMAIN ranges : state[ranges[i]] # "noWork"}

\* `if r.cur > r.end { continue }'
Saved == {i \in DOMAIN ranges : cur[ranges[i]] <= end[ranges[i]]}

\* The locked half of SaveStat.  len(t.ranges) was read without the lock.
Snapshot ==
    /\ Alive /\ ticker = "tick" /\ mu = None
    /\ ranges # <<>>
    /\ saves < MaxSaves
    /\ saves' = saves + 1
    /\ \E f \in Listings(Saved) :
          buf' = [j \in DOMAIN f |-> [cur |-> cur[ranges[f[j]]], end |-> end[ranges[f[j]]]]]
    /\ ticker' = IF Saved = {} THEN "clear" ELSE "truncate"
    /\ UNCHANGED <<rangeVars, lockVars, proxyVars, stat, written, panic,
                   faults, crashes, ghostVars>>

\* An empty buffer: t.ranges = nil, after the lock was released.
Clear ==
    /\ Alive /\ ticker = "clear"
    /\ ranges' = <<>>
    /\ ticker' = "tick"
    /\ UNCHANGED <<cur, end, state, lockVars, proxyVars, buf, stat, saves,
                   written, panic, faults, crashes, ghostVars>>

\* The file is cut to the size of the new text: with lines of equal width, the
\* first lines of the old text stay, and padding is read back as no range.
Truncate ==
    /\ Alive /\ ticker = "truncate"
    /\ stat' = Prefix(stat, IF Len(buf) < Len(stat) THEN Len(buf) ELSE Len(stat))
    /\ ticker' = "write"
    /\ UNCHANGED <<rangeVars, lockVars, proxyVars, buf, saves, written, panic,
                   faults, crashes, ghostVars>>

WriteStat ==
    /\ Alive /\ ticker = "write"
    /\ stat' = buf
    /\ buf' = <<>>
    /\ ticker' = "tick"
    /\ UNCHANGED <<rangeVars, lockVars, proxyVars, saves, written, panic,
                   faults, crashes, ghostVars>>

-----------------------------------------------------------------------------
(* The process dies (killed, or after a panic) and init resumes the task *)

\* The ranges init reads back: thread j is the j-th line kept.  With none
\* kept the whole file is one range again.
Reload(lines) ==
    \E f \in Listings(Resumable(lines)) :
        /\ ranges' = IF f = <<>> THEN <<1>> ELSE [j \in DOMAIN f |-> j]
        /\ cur' = [t \in Threads |-> IF t \in DOMAIN f THEN lines[f[t]].cur ELSE 0]
        /\ end' = [t \in Threads |->
                      IF t \in DOMAIN f THEN lines[f[t]].end
                      ELSE IF t = 1 THEN Length ELSE 0]

Restart ==
    /\ ticker # "done"
    /\ crashes < MaxCrashes
    /\ crashes' = crashes + 1
    /\ Reload(stat)
    /\ state' = [t \in Threads |-> "noWork"]
    /\ mu' = None /\ prev' = None /\ l' = 0
    /\ pc' = [p \in Proxies |-> "idle"]
    /\ held' = [p \in Proxies |-> None]
    /\ err' = [p \in Proxies |-> FALSE]
    /\ ticker' = "tick" /\ buf' = <<>>
    /\ panic' = "no"
    /\ torn' = IF ticker = "write"
               THEN torn \cup (CoveredBy(buf) \ OnDisk(stat)) ELSE torn
    /\ UNCHANGED <<stat, saves, written, faults, seams, dropped, missed>>

-----------------------------------------------------------------------------
ProxyStep(p) ==
    \/ NothingLeft(p) \/ TakeIdle(p) \/ TooSmall(p) \/ TakeStray(p)
    \/ ScanSplit(p) \/ Split(p)
    \/ Start(p) \/ Connect(p) \/ RunFails(p) \/ DialFails(p)
    \/ Loop(p) \/ Receive(p) \/ ReceiveFails(p)
    \/ Finish(p) \/ FinishPanics(p)

Tick == Complete \/ Snapshot \/ Clear \/ Truncate \/ WriteStat

\* The program may stop when it is dead, or complete with no proxy on it.
Stopped ==
    /\ ~Alive \/ (ticker = "done" /\ \A p \in Proxies : pc[p] = "left")
    /\ UNCHANGED vars

Next ==
    \/ \E p \in Proxies : ProxyStep(p)
    \/ Tick
    \/ Restart
    \/ Stopped

Spec == Init /\ [][Next]_vars

\* A goroutine that can run eventually does; the network's faults are bounded.
Fairness == (\A p \in Proxies : WF_vars(ProxyStep(p))) /\ WF_vars(Tick)
FairSpec == Spec /\ Fairness

-----------------------------------------------------------------------------
(* Properties *)

\* Types of all variables: offsets stay inside the file.
TypeOK ==
    /\ ranges \in Seq(Threads)
    /\ cur \in [Threads -> Offsets]
    /\ end \in [Threads -> Offsets]
    /\ state \in [Threads -> States]
    /\ mu \in Proxies \cup {None}
    /\ prev \in Threads \cup {None}
    /\ l \in Offsets
    /\ pc \in [Proxies -> Locations]
    /\ held \in [Proxies -> Threads \cup {None}]
    /\ err \in [Proxies -> BOOLEAN]
    /\ ticker \in {"tick", "clear", "truncate", "write", "done"}
    /\ buf \in Seq(Lines)
    /\ stat \in Seq(Lines)
    /\ written \subseteq Bytes
    /\ panic \in {"no", "nilConn", "emptyRanges"}
    /\ faults \in 0..MaxFaults
    /\ crashes \in 0..MaxCrashes
    /\ saves \in 0..MaxSaves
    /\ seams \subseteq Bytes
    /\ dropped \subseteq Bytes
    /\ torn \subseteq Bytes
    /\ missed \subseteq Proxies

\* No byte disappears unexplained: each is in the file, is still answered for
\* by a range, or was given up in one of the three ways the ghosts record
\* (splitting, racing the scan, merging and removing ranges never lose another).
Accounted == Bytes \subseteq written \cup Covered \cup Gone

\* Killed at any moment but between SaveStat's Truncate and its write, the
\* program resumes with a ".stat" file that still leads to every byte.
ResumeAccounted ==
    ticker \notin {"write", "done"} => Bytes \subseteq written \cup OnDisk(stat) \cup Gone

\* Without faults and crashes the racing splits lose the byte before each
\* middle at most: ranges removed without being the finished one, and ranges
\* cleared by SaveStat under a working owner, held nothing else.  The exception
\* is a scan that met two ranges ending where the proxy stands before its own.
OnlySeamsLost ==
    faults = 0 /\ crashes = 0 /\ missed = {} => Bytes \subseteq written \cup Covered \cup seams

\* Two proxies never fetch for the same thread: cur has one writer.
Exclusive == \A p, q \in Proxies : held[p] # None /\ held[p] = held[q] => p = q

\* A range marked as being worked on has a proxy working on it, whatever failed,
\* was merged or removed in between: nothing else would ever make it idle again.
NoOrphan ==
    \A t \in Registered : state[t] # "noWork" => \E p \in Proxies : held[p] = t

\* Splitting never makes more ranges than there are proxies, in any order of
\* failures, merges and restarts: getThread prefers an idle range.
RangesBounded == Len(ranges) <= Cardinality(Proxies)

\* While a range is left some proxy still works for the task: a proxy leaves
\* only when others are busy with all of the ranges.
SomeoneStays == Alive /\ ranges # <<>> => \E p \in Proxies : pc[p] # "left"

\* The task ends: the ".stat" file is removed, unless the program panicked.
Terminates == <>(ticker = "done" \/ ~Alive)

\* What the log line "task complete" says when the ".stat" file is removed.
CompleteMeansWhole == ticker = "done" => written = Bytes

-----------------------------------------------------------------------------
(* The task as the download of one file: the ranges and the proxies hidden. *)

Promise == INSTANCE FileDownload WITH
    lost <- Gone, saved <- OnDisk(stat), saving <- (ticker = "write"),
    complete <- (ticker = "done")

\* However ranges are split, merged, saved and resumed, the task only writes
\* runs of bytes, completes when none is left, and saves what leads to them.
ImplementsFileDownload == Promise!Spec

=============================================================================
