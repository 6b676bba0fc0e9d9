------------------------- MODULE DownloadTaskProofs -------------------------
(***************************************************************************)
(* Proofs about DownloadTask for any number of proxies, any file length,   *)
(* split threshold and read size, and any bounds on faults and restarts.   *)
(* Accounted is not inductive by itself: merging a range relies on what    *)
(* its owner fetched past its end, splitting on what the owner of `prev'   *)
(* fetched since the scan, resuming on what SaveStat wrote.  What is said  *)
(* of owners, of the number of ranges and of the bytes lost without a      *)
(* fault rests on who works on what (OwnInv): a proxy leaves, and a range  *)
(* is split, only when every range is somebody's.                          *)
(***************************************************************************)
EXTENDS DownloadTask, FiniteSetTheorems, TLAPS

Working == {"start", "dial", "loop", "read", "finish"}

\* Whoever is past getThread holds a thread.
WorkInv == \A p \in Proxies : pc[p] \in Working => held[p] \in Threads

\* Bytes a thread fetched past its end are in the file.
Overshoot ==
    \A t \in Threads : \A b \in Bytes : end[t] < b /\ b < cur[t] => b \in written

\* The end of a range is the end of the file or the byte a split skipped.
KnownEnd(e) == e = Length \/ e \in seams

EndsInv ==
    /\ \A t \in Registered : KnownEnd(end[t])
    /\ \A p \in Proxies : pc[p] \in Working =>
          \/ KnownEnd(end[held[p]])
          \/ cur[held[p]] = 0 /\ end[held[p]] = 0 /\ pc[p] \in {"start", "finish"}

\* Between scan and split, the owner of prev only moved forward.
LockInv ==
    \A p \in Proxies : pc[p] = "split" =>
        /\ mu = p
        /\ prev \in Threads
        /\ KnownEnd(end[prev])
        /\ MinSplit < l /\ l <= end[prev]
        /\ end[prev] - l <= cur[prev]
        /\ \A b \in Bytes : end[prev] - l <= b /\ b < cur[prev] => b \in written

\* What the ".stat" file and SaveStat's buffer still lead to.
StatInv ==
    /\ \A i \in DOMAIN stat : KnownEnd(stat[i].end)
    /\ \A i \in DOMAIN buf : KnownEnd(buf[i].end)
    /\ ResumeAccounted
    /\ ticker = "clear" => Bytes \subseteq written \cup Gone
    /\ ticker \in {"truncate", "write"} => Bytes \subseteq written \cup CoveredBy(buf) \cup Gone

IInv ==
    /\ TypeOK
    /\ Accounted
    /\ WorkInv
    /\ Overshoot
    /\ EndsInv
    /\ LockInv
    /\ StatInv

-----------------------------------------------------------------------------
(* Operators the actions are built from *)

\* Removing one element leaves a sequence of the same kind, one shorter.
LEMMA WithoutType ==
    ASSUME NEW S, NEW s \in Seq(S), s # <<>>, NEW pos \in DOMAIN s
    PROVE  Without(s, pos) \in Seq(S)
<1>1. Len(s) \in Nat /\ Len(s) > 0 /\ DOMAIN s = 1..Len(s)
  OBVIOUS
<1>2. \A i \in 1..(Len(s) - 1) : s[i] \in S /\ s[i + 1] \in S
  BY <1>1
<1>3. Without(s, pos) \in [1..(Len(s) - 1) -> S]
  BY <1>2 DEF Without
<1> QED
  BY <1>1, <1>3

\* ... and nothing but that element leaves the sequence.
LEMMA WithoutKeeps ==
    ASSUME NEW S, NEW s \in Seq(S), NEW pos \in DOMAIN s, NEW i \in DOMAIN s, i # pos
    PROVE  \E j \in DOMAIN Without(s, pos) : Without(s, pos)[j] = s[i]
<1>1. Len(s) \in Nat /\ DOMAIN s = 1..Len(s) /\ DOMAIN Without(s, pos) = 1..(Len(s) - 1)
  BY DEF Without
<1>2. CASE i < pos
  <2>1. i \in 1..(Len(s) - 1) /\ Without(s, pos)[i] = s[i]
    BY <1>1, <1>2 DEF Without
  <2> QED
    BY <1>1, <2>1
<1>3. CASE i > pos
  <2>1. i - 1 \in 1..(Len(s) - 1) /\ ~(i - 1 < pos) /\ (i - 1) + 1 = i
    BY <1>1, <1>3
  <2>2. Without(s, pos)[i - 1] = s[i]
    BY <2>1 DEF Without
  <2> QED
    BY <1>1, <2>1, <2>2
<1> QED
  BY <1>1, <1>2, <1>3

\* ... and no element enters it.
LEMMA WithoutAddsNothing ==
    ASSUME NEW S, NEW s \in Seq(S), NEW pos \in DOMAIN s,
           NEW j \in DOMAIN Without(s, pos)
    PROVE  \E i \in DOMAIN s : Without(s, pos)[j] = s[i]
<1>1. Len(s) \in Nat /\ DOMAIN s = 1..Len(s) /\ j \in 1..(Len(s) - 1)
  BY DEF Without
<1>2. j \in DOMAIN s /\ j + 1 \in DOMAIN s
  BY <1>1
<1> QED
  BY <1>1, <1>2 DEF Without

\* The position that Finish removes is one of the slice.
LEMMA PosInRanges ==
    ASSUME NEW T, ranges \in Seq(Threads), ranges # <<>>
    PROVE  Pos(T) \in DOMAIN ranges
<1>1. 1 \in DOMAIN ranges
  OBVIOUS
<1>2. CASE \E i \in Positions(T) : AdjacentBefore(T, i) <= 1
  <2>1. Pos(T) \in Positions(T)
    BY <1>2 DEF Pos
  <2> QED
    BY <2>1 DEF Positions
<1>3. CASE ~\E i \in Positions(T) : AdjacentBefore(T, i) <= 1
  BY <1>1, <1>3 DEF Pos
<1> QED
  BY <1>2, <1>3

\* Merging moves ends only to the thread's own end, and only of adjacent ranges.
LEMMA MergeEnd ==
    ASSUME NEW T \in Threads, NEW t \in Threads,
           ranges \in Seq(Threads), end \in [Threads -> Offsets]
    PROVE  /\ EndAfterMerge(T) \in [Threads -> Offsets]
           /\ \/ EndAfterMerge(T)[t] = end[t]
              \/ /\ EndAfterMerge(T)[t] = end[T]
                 /\ end[t] + 1 = cur[T]
                 /\ t \in Registered
<1>1. EndAfterMerge(T) \in [Threads -> Offsets]
  BY DEF EndAfterMerge
<1>2. CASE \E i \in MergedInto(T) : ranges[i] = t
  <2>1. PICK i \in MergedInto(T) : ranges[i] = t
    BY <1>2
  <2>2. i \in DOMAIN ranges /\ end[ranges[i]] + 1 = cur[T]
    BY DEF MergedInto, Adjacent
  <2> QED
    BY <1>1, <1>2, <2>1, <2>2 DEF EndAfterMerge, Registered
<1>3. CASE ~\E i \in MergedInto(T) : ranges[i] = t
  BY <1>1, <1>3 DEF EndAfterMerge
<1> QED
  BY <1>2, <1>3

-----------------------------------------------------------------------------
(* The initial states *)

LEMMA InitIInv == Init => IInv
<1> SUFFICES ASSUME Init PROVE IInv
  OBVIOUS
<1> USE ConstantsAssumption DEF Init
<1>1. 1 \in Threads
  BY DEF Threads
<1>2. TypeOK
  BY <1>1 DEF TypeOK, Offsets, States, Locations, Lines
<1>3. Registered = {1}
  BY DEF Registered
<1>4. Accounted
  BY <1>1, <1>3 DEF Accounted, Covered, Bytes
<1>5. WorkInv /\ Overshoot /\ EndsInv /\ LockInv
  BY <1>1, <1>3 DEF WorkInv, Working, Overshoot, EndsInv, KnownEnd, LockInv, Bytes
<1>6. StatInv
  BY DEF StatInv, ResumeAccounted, OnDisk, Resumable
<1> QED
  BY <1>2, <1>4, <1>5, <1>6 DEF IInv

-----------------------------------------------------------------------------
(* Types *)

LEMMA ListingType ==
    ASSUME NEW K, NEW f \in Listings(K)
    PROVE  \E n \in 0..MaxThreads :
              /\ f \in [1..n -> K]
              /\ \A k \in K : \E j \in 1..n : f[j] = k
  BY DEF Listings

LEMMA RestartType ==
    ASSUME TypeOK, Restart
    PROVE  TypeOK'
<1> USE ConstantsAssumption DEF TypeOK, Offsets, Locations, States
<1>1. PICK f \in Listings(Resumable(stat)) :
         /\ ranges' = IF f = <<>> THEN <<1>> ELSE [j \in DOMAIN f |-> j]
         /\ cur' = [t \in Threads |-> IF t \in DOMAIN f THEN stat[f[t]].cur ELSE 0]
         /\ end' = [t \in Threads |-> IF t \in DOMAIN f THEN stat[f[t]].end
                                      ELSE IF t = 1 THEN Length ELSE 0]
  BY DEF Restart, Reload
<1>2. PICK n \in 0..MaxThreads : f \in [1..n -> Resumable(stat)]
  BY ListingType
<1>3. \A j \in 1..n : stat[f[j]] \in Lines
  BY <1>2 DEF Resumable
<1>4. cur' \in [Threads -> 0..Length] /\ end' \in [Threads -> 0..Length]
  BY <1>1, <1>2, <1>3 DEF Lines
<1>5. 1 \in Threads /\ [j \in 1..n |-> j] \in [1..n -> Threads]
  BY <1>2 DEF Threads
<1>6. ranges' \in Seq(Threads)
  <2>1. <<1>> \in Seq(Threads)
    BY <1>5
  <2>2. DOMAIN f = 1..n /\ n \in Nat
    BY <1>2
  <2>3. [j \in DOMAIN f |-> j] \in Seq(Threads)
    BY <1>5, <2>2
  <2> QED
    BY <1>1, <2>1, <2>3
<1>7. torn' \subseteq Bytes
  BY DEF Restart, CoveredBy
<1>8. /\ state' \in [Threads -> States] /\ mu' = None /\ prev' = None /\ l' = 0
      /\ pc' \in [Proxies -> Locations] /\ held' \in [Proxies -> Threads \cup {None}]
      /\ err' \in [Proxies -> BOOLEAN]
  BY DEF Restart
<1>9. /\ ticker' = "tick" /\ buf' = <<>> /\ panic' = "no" /\ crashes' \in 0..MaxCrashes
      /\ UNCHANGED <<stat, saves, written, faults, seams, dropped, missed>>
  BY DEF Restart
<1> QED
  BY <1>4, <1>6, <1>7, <1>8, <1>9

\* A write stays inside the file.
LEMMA FetchInside ==
    ASSUME NEW c \in 0..Length, NEW n \in 0..MaxRead, c + n <= Length
    PROVE  c + n \in 0..Length
<1>1. Length \in Int /\ MaxRead \in Int
  BY ConstantsAssumption
<1> QED
  BY <1>1

LEMMA TypeStep ==
    ASSUME TypeOK, LockInv, WorkInv, Next
    PROVE  TypeOK'
<1> USE ConstantsAssumption DEF TypeOK, lockVars, proxyVars, rangeVars, tickVars,
        ghostVars, vars, Offsets, Locations, States
<1>1. ASSUME NEW p \in Proxies, ProxyStep(p) PROVE TypeOK'
  <2>1. CASE NothingLeft(p) \/ TooSmall(p)
    BY <2>1 DEF NothingLeft, TooSmall
  <2>2. CASE TakeIdle(p)
    <3>1. PICK i \in Idle : /\ state' = [state EXCEPT ![ranges[i]] = "ready"]
                            /\ held' = [held EXCEPT ![p] = ranges[i]]
      BY <2>2 DEF TakeIdle
    <3>2. ranges[i] \in Threads
      BY DEF Idle
    <3> QED
      BY <2>2, <3>1, <3>2 DEF TakeIdle
  <2>3. CASE TakeStray(p)
    <3>1. PICK t \in FreeThreads : /\ cur' = [cur EXCEPT ![t] = 0]
                                   /\ end' = [end EXCEPT ![t] = 0]
                                   /\ state' = [state EXCEPT ![t] = "ready"]
                                   /\ held' = [held EXCEPT ![p] = t]
      BY <2>3 DEF TakeStray
    <3>2. t \in Threads
      BY DEF FreeThreads
    <3> QED
      BY <2>3, <3>1, <3>2 DEF TakeStray
  <2>4. CASE ScanSplit(p)
    <3>1. PICK i \in DOMAIN ranges : /\ Longest(i)
                                     /\ prev' = ranges[i]
                                     /\ l' = Remaining(ranges[i])
      BY <2>4 DEF ScanSplit
    <3>2. ranges[i] \in Threads
      OBVIOUS
    <3>3. Remaining(ranges[i]) > 0
      BY <3>1 DEF Longest
    <3>4. cur[ranges[i]] \in 0..Length /\ end[ranges[i]] \in 0..Length
      BY <3>2
    <3>5. l' \in 0..Length
      BY <3>1, <3>3, <3>4 DEF Remaining
    <3> QED
      BY <2>4, <3>1, <3>2, <3>5 DEF ScanSplit
  <2>5. CASE Split(p)
    <3> DEFINE mid == Middle(prev)
    <3>1. PICK t \in FreeThreads : /\ cur' = [cur EXCEPT ![t] = mid]
                                   /\ end' = [end EXCEPT ![t] = end[prev], ![prev] = mid - 1]
                                   /\ state' = [state EXCEPT ![t] = "ready"]
                                   /\ ranges' = Append(ranges, t)
                                   /\ held' = [held EXCEPT ![p] = t]
      BY <2>5 DEF Split
    <3>2. t \in Threads
      BY DEF FreeThreads
    <3>3. prev \in Threads /\ MinSplit < l /\ l <= end[prev]
      BY <2>5 DEF Split, LockInv
    <3>4. mid \in 1..Length /\ mid - 1 \in Bytes
      BY <3>3 DEF Bytes, Middle
    <3>5. mid \in Offsets /\ mid - 1 \in Offsets
      BY <3>4 DEF Bytes
    <3>6. seams' \subseteq Bytes
      BY <2>5, <3>4 DEF Split
    <3> HIDE DEF mid
    <3>7. end' \in [Threads -> Offsets]
      <4> DEFINE e == end[prev]
      <4>1. e \in Offsets
        BY <3>3
      <4> HIDE DEF e, Offsets
      <4> QED
        BY <3>1, <3>2, <3>3, <3>5, <4>1 DEF e
    <3>9. cur' \in [Threads -> Offsets]
      BY <3>1, <3>2, <3>5
    <3>8. /\ ranges' \in Seq(Threads)
          /\ state' \in [Threads -> States]
          /\ held' \in [Proxies -> Threads \cup {None}]
      BY <3>1, <3>2
    <3>10. /\ mu' = None /\ prev' = None /\ l' = 0
           /\ pc' = [pc EXCEPT ![p] = "start"]
           /\ UNCHANGED <<err, tickVars, written, panic, faults, crashes, dropped, torn, missed>>
      BY <2>5 DEF Split
    <3> QED
      BY <3>6, <3>7, <3>8, <3>9, <3>10
  <2>6. CASE Start(p) \/ Loop(p)
    BY <2>6 DEF Start, Loop
  <2>10. CASE RunFails(p)
    BY <2>10 DEF RunFails
  <2>11. CASE DialFails(p)
    BY <2>11 DEF DialFails
  <2>12. CASE FinishPanics(p)
    BY <2>12 DEF FinishPanics
  <2>7. CASE ReceiveFails(p)
    BY <2>7 DEF ReceiveFails, Reported
  <2>8. CASE Connect(p) \/ Receive(p)
    <3>1. PICK n \in 0..MaxRead : Fetch(p, n)
      BY <2>8 DEF Connect, Receive, Stored
    <3>2. held[p] \in Threads
      BY <2>8 DEF Connect, Receive, WorkInv, Working
    <3>3. cur[held[p]] + n \in 0..Length
      BY <3>1, <3>2, FetchInside DEF Fetch
    <3>4. cur' \in [Threads -> 0..Length]
      BY <3>1, <3>2, <3>3 DEF Fetch
    <3>5. written' \subseteq Bytes
      BY <3>1 DEF Fetch
    <3> QED
      BY <2>8, <3>2, <3>4, <3>5 DEF Connect, Receive, FileOpen
  <2>9. CASE Finish(p)
    <3> DEFINE T == held[p]
    <3>1. T \in Threads
      BY <2>9 DEF Finish, WorkInv, Working
    <3>2. EndAfterMerge(T) \in [Threads -> Offsets]
      BY <3>1, MergeEnd
    <3>3. ranges' \in Seq(Threads)
      <4>1. CASE MergedOrFinished(p)
        BY <2>9, <3>1, <4>1, PosInRanges, WithoutType DEF Finish
      <4>2. CASE ~MergedOrFinished(p)
        BY <2>9, <4>2 DEF Finish
      <4> QED
        BY <4>1, <4>2
    <3>4. dropped' \subseteq Bytes
      BY <2>9 DEF Finish, GivenUp, Closed
    <3> QED
      BY <2>9, <3>1, <3>2, <3>3, <3>4 DEF Finish, Released
  <2> QED
    BY <1>1, <2>1, <2>2, <2>3, <2>4, <2>5, <2>6, <2>7, <2>8, <2>9,
       <2>10, <2>11, <2>12 DEF ProxyStep
<1>2. CASE Tick
  <2>1. CASE Complete
    BY <2>1 DEF Complete
  <2>2. CASE Snapshot
    <3>1. PICK f \in Listings(Saved) :
             buf' = [j \in DOMAIN f |-> [cur |-> cur[ranges[f[j]]], end |-> end[ranges[f[j]]]]]
      BY <2>2 DEF Snapshot
    <3>2. PICK n \in 0..MaxThreads : f \in [1..n -> Saved]
      BY ListingType
    <3>3. \A j \in 1..n : ranges[f[j]] \in Threads
      BY <3>2 DEF Saved
    <3>4. buf' \in [1..n -> Lines]
      BY <3>1, <3>2, <3>3 DEF Lines
    <3>5. buf' \in Seq(Lines)
      BY <3>4
    <3> QED
      BY <2>2, <3>5 DEF Snapshot
  <2>3. CASE Clear
    BY <2>3 DEF Clear
  <2>4. CASE Truncate
    <3> DEFINE n == IF Len(buf) < Len(stat) THEN Len(buf) ELSE Len(stat)
    <3>1. n \in Nat /\ n <= Len(stat)
      OBVIOUS
    <3>2. Prefix(stat, n) \in [1..n -> Lines]
      BY <3>1 DEF Prefix
    <3>3. stat' = Prefix(stat, n)
      BY <2>4 DEF Truncate
    <3> HIDE DEF n
    <3>4. stat' \in Seq(Lines)
      BY <3>1, <3>2, <3>3
    <3> QED
      BY <2>4, <3>4 DEF Truncate
  <2>5. CASE WriteStat
    BY <2>5 DEF WriteStat
  <2> QED
    BY <1>2, <2>1, <2>2, <2>3, <2>4, <2>5 DEF Tick
<1>3. CASE Restart
  BY <1>3, RestartType
<1>4. CASE Stopped
  BY <1>4 DEF Stopped
<1> QED
  BY <1>1, <1>2, <1>3, <1>4 DEF Next


-----------------------------------------------------------------------------
(* Which actions touch what *)

\* Steps of a proxy that move it without touching a range or the file.
QuietStep(p) ==
    \/ NothingLeft(p) \/ TakeIdle(p) \/ TooSmall(p) \/ ScanSplit(p)
    \/ Start(p) \/ RunFails(p) \/ DialFails(p) \/ Loop(p) \/ ReceiveFails(p)
    \/ FinishPanics(p)

FetchStep(p) == Connect(p) \/ Receive(p)

fileVars == <<ranges, cur, end, written, seams, dropped, torn>>

LEMMA NextCases ==
    ASSUME Next
    PROVE  \/ \E p \in Proxies : \/ QuietStep(p) \/ FetchStep(p) \/ TakeStray(p)
                                 \/ Split(p) \/ Finish(p)
           \/ Complete \/ Snapshot \/ Clear \/ Truncate \/ WriteStat
           \/ Restart \/ Stopped
<1>1. ASSUME NEW p \in Proxies, ProxyStep(p)
      PROVE  QuietStep(p) \/ FetchStep(p) \/ TakeStray(p) \/ Split(p) \/ Finish(p)
  BY <1>1 DEF ProxyStep, QuietStep, FetchStep
<1> QED
  BY <1>1 DEF Next, Tick

LEMMA QuietFrame ==
    ASSUME NEW p \in Proxies, QuietStep(p)
    PROVE  UNCHANGED <<fileVars, tickVars>>
<1> USE DEF fileVars, tickVars, rangeVars, ghostVars
<1>1. CASE NothingLeft(p) \/ TakeIdle(p) \/ TooSmall(p) \/ ScanSplit(p)
  BY <1>1 DEF NothingLeft, TakeIdle, TooSmall, ScanSplit
<1>2. CASE Start(p) \/ RunFails(p) \/ DialFails(p) \/ Loop(p)
  BY <1>2 DEF Start, RunFails, DialFails, Loop
<1>3. CASE ReceiveFails(p) \/ FinishPanics(p)
  BY <1>3 DEF ReceiveFails, FinishPanics
<1> QED
  BY <1>1, <1>2, <1>3 DEF QuietStep

LEMMA TickFrame ==
    ASSUME Complete \/ Snapshot \/ Truncate \/ WriteStat
    PROVE  UNCHANGED <<fileVars, lockVars, proxyVars>>
  BY DEF Complete, Snapshot, Truncate, WriteStat, fileVars, rangeVars, ghostVars

LEMMA FetchFacts ==
    ASSUME TypeOK, WorkInv, NEW p \in Proxies, FetchStep(p)
    PROVE  \E n \in Nat : \E t \in Threads :
              /\ t = held[p]
              /\ cur' = [cur EXCEPT ![t] = cur[t] + n]
              /\ written' = written \cup {b \in Bytes : cur[t] <= b /\ b < cur[t] + n}
              /\ UNCHANGED <<ranges, end, seams, dropped, torn, mu, prev, l, tickVars, held>>
<1> USE ConstantsAssumption
<1>1. PICK n \in 0..MaxRead : Fetch(p, n)
  BY DEF FetchStep, Connect, Receive, Stored
<1>2. held[p] \in Threads
  BY DEF FetchStep, Connect, Receive, WorkInv, Working
<1>3. UNCHANGED <<ranges, end, seams, dropped, torn, mu, prev, l, tickVars, held>>
  BY DEF FetchStep, Connect, Receive, lockVars, ghostVars
<1>4. n \in Nat
  BY <1>1
<1> QED
  BY <1>1, <1>2, <1>3, <1>4 DEF Fetch

\* The middle of a split lies between what the owner of prev had fetched at
\* the scan and the end of prev, even if the owner has passed that end since.
LEMMA SplitFacts ==
    ASSUME TypeOK, LockInv, NEW p \in Proxies, Split(p)
    PROVE  \E mid \in Nat : \E t \in FreeThreads :
              /\ prev \in Threads /\ KnownEnd(end[prev])
              /\ cur' = [cur EXCEPT ![t] = mid]
              /\ end' = [end EXCEPT ![t] = end[prev], ![prev] = mid - 1]
              /\ ranges' = Append(ranges, t)
              /\ held' = [held EXCEPT ![p] = t]
              /\ seams' = seams \cup {mid - 1}
              /\ 1 <= mid
              /\ cur[prev] <= end[prev] => cur[prev] <= mid /\ mid <= end[prev]
              /\ end[prev] < cur[prev] => mid <= cur[prev]
              /\ \A b \in Bytes : mid <= b /\ b < cur[prev] => b \in written
<1> USE ConstantsAssumption DEF TypeOK, Offsets
<1> DEFINE mid == Middle(prev)
<1>1. PICK t \in FreeThreads :
         /\ cur' = [cur EXCEPT ![t] = mid]
         /\ end' = [end EXCEPT ![t] = end[prev], ![prev] = mid - 1]
         /\ ranges' = Append(ranges, t)
         /\ held' = [held EXCEPT ![p] = t]
  BY DEF Split
<1>2. /\ prev \in Threads /\ KnownEnd(end[prev])
      /\ MinSplit < l /\ l <= end[prev]
      /\ end[prev] - l <= cur[prev]
      /\ \A b \in Bytes : end[prev] - l <= b /\ b < cur[prev] => b \in written
  BY DEF Split, LockInv
<1>3. cur[prev] \in Nat /\ end[prev] \in Nat /\ l \in Nat
  BY <1>2
<1>4. mid \in Nat /\ 1 <= mid /\ end[prev] - l <= mid
  BY <1>2, <1>3 DEF Middle
<1>5. /\ cur[prev] <= end[prev] => cur[prev] <= mid /\ mid <= end[prev]
      /\ end[prev] < cur[prev] => mid <= cur[prev]
  BY <1>3 DEF Middle
<1>6. seams' = seams \cup {mid - 1}
  BY DEF Split
<1>7. \A b \in Bytes : mid <= b /\ b < cur[prev] => b \in written
  BY <1>2, <1>3, <1>4 DEF Bytes
<1> HIDE DEF mid
<1> QED
  BY <1>1, <1>2, <1>4, <1>5, <1>6, <1>7


\* Appending the new thread registers it and nothing else.
LEMMA SplitRegisters ==
    ASSUME TypeOK, NEW t \in Threads, ranges' = Append(ranges, t)
    PROVE  Registered' = Registered \cup {t}
<1>1. ranges \in Seq(Threads)
  BY DEF TypeOK
<1>2. DOMAIN ranges' = 1..(Len(ranges) + 1) /\ DOMAIN ranges = 1..Len(ranges) /\ Len(ranges) \in Nat
  BY <1>1
<1>3. ranges'[Len(ranges) + 1] = t /\ \A i \in DOMAIN ranges : ranges'[i] = ranges[i]
  BY <1>1
<1>4. \A i \in DOMAIN ranges' : i \in DOMAIN ranges \/ i = Len(ranges) + 1
  BY <1>2
<1> QED
  BY <1>2, <1>3, <1>4 DEF Registered

\* Finish registers nothing.
LEMMA FinishRegisters ==
    ASSUME TypeOK, NEW p \in Proxies, Finish(p)
    PROVE  Registered' \subseteq Registered
<1>1. CASE MergedOrFinished(p)
  <2>1. ranges # <<>> /\ ranges' = Without(ranges, Pos(held[p]))
    BY <1>1 DEF Finish
  <2>2. ranges \in Seq(Threads) /\ Pos(held[p]) \in DOMAIN ranges
    BY <2>1, PosInRanges DEF TypeOK
  <2>3. \A j \in DOMAIN ranges' : \E i \in DOMAIN ranges : ranges'[j] = ranges[i]
    BY <2>1, <2>2, WithoutAddsNothing
  <2> QED
    BY <2>3 DEF Registered
<1>2. CASE ~MergedOrFinished(p)
  BY <1>2 DEF Finish, Registered
<1> QED
  BY <1>1, <1>2

-----------------------------------------------------------------------------
(* Every byte stays accounted for *)

LEMMA AccountedFinish ==
    ASSUME IInv, NEW p \in Proxies, Finish(p)
    PROVE  Accounted'
<1> USE ConstantsAssumption
<1> DEFINE T == held[p]
<1>1. TypeOK /\ Overshoot /\ EndsInv /\ WorkInv
  BY DEF IInv
<1>2. /\ ranges \in Seq(Threads) /\ end \in [Threads -> 0..Length]
      /\ cur \in [Threads -> 0..Length]
  BY <1>1 DEF TypeOK, Offsets
<1>3. T \in Threads
  BY <1>1 DEF Finish, WorkInv, Working
<1>4. cur' = cur /\ end' = EndAfterMerge(T) /\ written' = written /\ seams' = seams /\ torn' = torn
  BY DEF Finish
<1> SUFFICES ASSUME NEW b \in Bytes, b \notin written', b \notin Gone'
             PROVE  b \in Covered'
  BY DEF Accounted
<1>5. b \notin written /\ b \notin Gone /\ b \notin dropped'
  BY <1>4 DEF Gone, Finish
<1>6. PICK u \in Registered : cur[u] <= b /\ b <= end[u]
  BY <1>5 DEF IInv, Accounted, Covered
<1>7. u \in Threads /\ end[u] \in Nat /\ cur[u] \in Nat /\ end[T] \in Nat /\ cur[T] \in Nat /\ b \in Nat
  BY <1>2, <1>3 DEF Registered, Bytes
<1>8. b <= end'[u]
  <2>1. end'[u] = end[u] \/ (end'[u] = end[T] /\ end[u] + 1 = cur[T])
    BY <1>2, <1>3, <1>4, <1>7, MergeEnd DEF Offsets
  <2>2. CASE end'[u] = end[T] /\ end[u] + 1 = cur[T]
    <3>1. b < cur[T]
      BY <1>6, <1>7, <2>2
    <3>2. ~(end[T] < b)
      BY <1>1, <1>3, <1>5, <3>1 DEF Overshoot
    <3> QED
      BY <1>7, <2>2, <3>2
  <2> QED
    BY <1>6, <2>1, <2>2
<1>9. CASE u \in Registered'
  BY <1>4, <1>6, <1>8, <1>9 DEF Covered
<1>10. CASE u \notin Registered'
  <2>1. ranges # <<>> /\ Pos(T) \in DOMAIN ranges
    BY <1>2, <1>6, PosInRanges DEF Registered
  <2>2. MergedOrFinished(p) /\ ranges' = Without(ranges, Pos(T))
    BY <1>6, <1>10 DEF Finish, Registered
  <2>3. \A v \in Registered : v # ranges[Pos(T)] => v \in Registered'
    <3> SUFFICES ASSUME NEW v \in Registered, v # ranges[Pos(T)] PROVE v \in Registered'
      OBVIOUS
    <3>1. PICK i \in DOMAIN ranges : ranges[i] = v
      BY DEF Registered
    <3>2. \E j \in DOMAIN Without(ranges, Pos(T)) : Without(ranges, Pos(T))[j] = ranges[i]
      BY <1>2, <2>1, <3>1, WithoutKeeps
    <3> QED
      BY <2>2, <3>1, <3>2 DEF Registered
  <2>4. u = ranges[Pos(T)]
    BY <1>6, <1>10, <2>3
  <2>5. b \notin GivenUp(T, u)
    BY <1>5, <2>2, <2>4 DEF Finish
  <2>6. CASE u # T
    BY <1>4, <1>6, <1>8, <2>5, <2>6 DEF GivenUp, Closed
  <2>7. CASE u = T /\ MergedInto(T) = {}
    <3>1. end[T] = b
      BY <1>6, <1>7, <2>5, <2>7 DEF GivenUp, Closed
    <3>2. b = Length \/ b \in seams
      BY <1>1, <1>6, <2>7, <3>1 DEF EndsInv, KnownEnd
    <3> QED
      BY <1>5, <3>2 DEF Gone, Bytes
  <2>8. CASE u = T /\ MergedInto(T) # {}
    <3>1. PICK i \in MergedInto(T) : TRUE
      BY <2>8
    <3> DEFINE r == ranges[i]
    <3>2. i \in DOMAIN ranges /\ end[r] + 1 = cur[T]
      BY DEF MergedInto, Adjacent
    <3>3. r \in Registered /\ r \in Threads /\ end[r] \in Nat /\ cur[r] \in Nat
      BY <1>2, <3>2 DEF Registered
    <3>4. end'[r] = end[T]
      BY <1>4, <3>3 DEF EndAfterMerge
    <3>5. r # T
      BY <1>6, <1>7, <2>8, <3>2
    <3>6. r \in Registered'
      BY <2>3, <2>4, <2>8, <3>3, <3>5
    <3>7. end[r] < b
      BY <1>6, <1>7, <2>8, <3>2, <3>3
    <3>8. cur[r] <= b
      BY <1>1, <1>5, <1>7, <3>3, <3>7 DEF Overshoot
    <3> QED
      BY <1>4, <1>6, <2>8, <3>4, <3>6, <3>8 DEF Covered
  <2> QED
    BY <2>6, <2>7, <2>8
<1> QED
  BY <1>9, <1>10

LEMMA AccountedStep ==
    ASSUME IInv, Next
    PROVE  Accounted'
<1> USE ConstantsAssumption
<1>1. TypeOK /\ Accounted /\ WorkInv /\ LockInv /\ StatInv
  BY DEF IInv
<1>2. ASSUME UNCHANGED fileVars PROVE Accounted'
  BY <1>1, <1>2 DEF fileVars, Accounted, Covered, Registered, Gone
<1>3. ASSUME NEW p \in Proxies, QuietStep(p) PROVE Accounted'
  BY <1>2, <1>3, QuietFrame
<1>4. ASSUME NEW p \in Proxies, FetchStep(p) PROVE Accounted'
  <2>1. PICK n \in Nat, t \in Threads :
           /\ t = held[p]
           /\ cur' = [cur EXCEPT ![t] = cur[t] + n]
           /\ written' = written \cup {b \in Bytes : cur[t] <= b /\ b < cur[t] + n}
           /\ UNCHANGED <<ranges, end, seams, dropped, torn, mu, prev, l, tickVars, held>>
    BY <1>1, <1>4, FetchFacts
  <2>2. cur \in [Threads -> 0..Length] /\ ranges \in Seq(Threads)
    BY <1>1 DEF TypeOK, Offsets
  <2>3. Registered' = Registered /\ Registered \subseteq Threads /\ Gone' = Gone
    BY <2>1, <2>2 DEF Registered, Gone
  <2> SUFFICES ASSUME NEW b \in Bytes, b \notin written', b \notin Gone'
               PROVE  b \in Covered'
    BY DEF Accounted
  <2>4. PICK u \in Registered : cur[u] <= b /\ b <= end[u]
    BY <1>1, <2>1, <2>3 DEF Accounted, Covered
  <2>5. cur'[u] <= b
    BY <2>1, <2>2, <2>3, <2>4 DEF Bytes
  <2> QED
    BY <2>1, <2>3, <2>4, <2>5 DEF Covered
<1>5. ASSUME NEW p \in Proxies, TakeStray(p) PROVE Accounted'
  <2>1. PICK t \in FreeThreads : cur' = [cur EXCEPT ![t] = 0] /\ end' = [end EXCEPT ![t] = 0]
    BY <1>5 DEF TakeStray
  <2>2. t \notin Registered /\ UNCHANGED <<ranges, written, seams, dropped, torn>>
    BY <1>5 DEF TakeStray, FreeThreads, ghostVars
  <2>3. cur \in [Threads -> Offsets] /\ end \in [Threads -> Offsets] /\ ranges \in Seq(Threads)
    BY <1>1 DEF TypeOK
  <2>4. \A u \in Registered : cur'[u] = cur[u] /\ end'[u] = end[u]
    BY <2>1, <2>2, <2>3
  <2> QED
    BY <1>1, <2>2, <2>4 DEF Accounted, Covered, Registered, Gone
<1>6. ASSUME NEW p \in Proxies, Split(p) PROVE Accounted'
  <2>1. PICK mid \in Nat, t \in FreeThreads :
           /\ prev \in Threads /\ KnownEnd(end[prev])
           /\ cur' = [cur EXCEPT ![t] = mid]
           /\ end' = [end EXCEPT ![t] = end[prev], ![prev] = mid - 1]
           /\ ranges' = Append(ranges, t)
           /\ held' = [held EXCEPT ![p] = t]
           /\ seams' = seams \cup {mid - 1}
           /\ 1 <= mid
           /\ cur[prev] <= end[prev] => cur[prev] <= mid /\ mid <= end[prev]
           /\ end[prev] < cur[prev] => mid <= cur[prev]
           /\ \A b \in Bytes : mid <= b /\ b < cur[prev] => b \in written
    BY <1>1, <1>6, SplitFacts
  <2>2. t \in Threads /\ t \notin Registered /\ UNCHANGED <<written, dropped, torn>>
    BY <1>6 DEF Split, FreeThreads
  <2>3. /\ cur \in [Threads -> 0..Length] /\ end \in [Threads -> 0..Length]
        /\ ranges \in Seq(Threads) /\ Registered \subseteq Threads
    BY <1>1 DEF TypeOK, Offsets, Registered
  <2>4. Registered' = Registered \cup {t}
    BY <1>1, <2>1, <2>2, SplitRegisters
  <2> SUFFICES ASSUME NEW b \in Bytes, b \notin written', b \notin Gone'
               PROVE  b \in Covered'
    BY DEF Accounted
  <2>5. b \notin written /\ b \notin Gone
    BY <2>1, <2>2 DEF Gone
  <2>6. PICK u \in Registered : cur[u] <= b /\ b <= end[u]
    BY <1>1, <2>5 DEF Accounted, Covered
  <2>7. CASE u # prev
    <3>1. cur'[u] = cur[u] /\ end'[u] = end[u]
      BY <2>1, <2>2, <2>3, <2>7
    <3> QED
      BY <2>4, <2>6, <3>1 DEF Covered
  <2>8. CASE u = prev
    <3>1. /\ cur'[prev] = cur[prev] /\ end'[prev] = mid - 1
          /\ cur'[t] = mid /\ end'[t] = end[prev]
      BY <2>1, <2>2, <2>3, <2>6, <2>8
    <3>2. b <= mid - 1 \/ mid <= b
      BY <2>1 DEF Bytes
    <3> QED
      BY <2>4, <2>6, <2>8, <3>1, <3>2 DEF Covered
  <2> QED
    BY <2>7, <2>8
<1>7. ASSUME NEW p \in Proxies, Finish(p) PROVE Accounted'
  BY <1>7, AccountedFinish
<1>8. CASE Complete \/ Snapshot \/ Truncate \/ WriteStat
  BY <1>2, <1>8, TickFrame
<1>9. CASE Clear
  BY <1>1, <1>9 DEF Clear, StatInv, Accounted, Gone, ghostVars
<1>10. CASE Restart
  <2>1. PICK f \in Listings(Resumable(stat)) :
           /\ ranges' = IF f = <<>> THEN <<1>> ELSE [j \in DOMAIN f |-> j]
           /\ cur' = [t \in Threads |-> IF t \in DOMAIN f THEN stat[f[t]].cur ELSE 0]
           /\ end' = [t \in Threads |-> IF t \in DOMAIN f THEN stat[f[t]].end
                                        ELSE IF t = 1 THEN Length ELSE 0]
    BY <1>10 DEF Restart, Reload
  <2>2. PICK n \in 0..MaxThreads :
           /\ f \in [1..n -> Resumable(stat)]
           /\ \A k \in Resumable(stat) : \E j \in 1..n : f[j] = k
    BY ListingType
  <2>3. stat \in Seq(Lines) /\ UNCHANGED <<written, seams, dropped>>
    BY <1>1, <1>10 DEF TypeOK, Restart
  <2> SUFFICES ASSUME NEW b \in Bytes, b \notin written', b \notin Gone'
               PROVE  b \in Covered'
    BY DEF Accounted
  <2>4. b \notin written /\ b \notin Gone /\ b \notin torn'
    BY <1>10, <2>3 DEF Gone, Restart
  <2>5. b \in OnDisk(stat)
    <3>1. CASE ticker = "write"
      BY <1>1, <1>10, <2>4, <3>1 DEF Restart, StatInv
    <3>2. CASE ticker # "write"
      BY <1>1, <1>10, <2>4, <3>2 DEF Restart, StatInv, ResumeAccounted
    <3> QED
      BY <3>1, <3>2
  <2>6. CASE f = <<>>
    <3>1. 1 \in Threads /\ Registered' = {1}
      BY <2>1, <2>6 DEF Threads, Registered
    <3>2. cur'[1] = 0 /\ end'[1] = Length
      BY <2>1, <2>6, <3>1
    <3> QED
      BY <3>1, <3>2 DEF Covered, Bytes
  <2>7. CASE f # <<>>
    <3>1. DOMAIN f = 1..n
      BY <2>2
    <3>2. Resumable(stat) # {}
      <4>1. n # 0
        <5>1. SUFFICES ASSUME n = 0 PROVE f = <<>>
          BY <2>7
        <5>2. DOMAIN f = {} /\ f = [j \in DOMAIN f |-> f[j]]
          BY <2>2, <5>1
        <5> QED
          BY <5>2
      <4>2. 1 \in 1..n
        BY <4>1
      <4> QED
        BY <2>2, <4>2
    <3>3. PICK i \in DOMAIN stat : stat[i].cur <= b /\ b <= stat[i].end
      BY <2>5, <3>2 DEF OnDisk, CoveredBy
    <3>4. stat[i].cur \in 0..Length /\ stat[i].end \in 0..Length
      <4>1. stat[i] \in Lines
        BY <2>3
      <4> QED
        BY <4>1 DEF Lines, Offsets
    <3>5. CASE i \in Resumable(stat)
      <4>1. PICK j \in 1..n : f[j] = i
        BY <2>2, <3>5
      <4>2. j \in Threads /\ j \in Registered'
        BY <2>1, <2>7, <3>1, <4>1 DEF Threads, Registered
      <4>3. cur'[j] = stat[i].cur /\ end'[j] = stat[i].end
        BY <2>1, <3>1, <4>1, <4>2
      <4> QED
        BY <3>3, <4>2, <4>3 DEF Covered
    <3>6. CASE i \notin Resumable(stat)
      <4>1. stat[i].end = b
        BY <3>3, <3>4, <3>6 DEF Resumable, Bytes
      <4> QED
        BY <1>1, <2>4, <3>3, <4>1 DEF StatInv, KnownEnd, Gone, Bytes
    <3> QED
      BY <3>5, <3>6
  <2> QED
    BY <2>6, <2>7
<1>11. CASE Stopped
  BY <1>2, <1>11 DEF Stopped, vars, fileVars, rangeVars, ghostVars
<1> QED
  BY <1>3, <1>4, <1>5, <1>6, <1>7, <1>8, <1>9, <1>10, <1>11, NextCases


-----------------------------------------------------------------------------
(* The strengthening *)

LEMMA WorkStep ==
    ASSUME TypeOK, WorkInv, Next
    PROVE  WorkInv'
<1> USE DEF WorkInv, Working, TypeOK, proxyVars
<1>1. ASSUME NEW p \in Proxies, ProxyStep(p) PROVE WorkInv'
  <2>1. CASE NothingLeft(p) \/ TooSmall(p) \/ ScanSplit(p)
    BY <2>1 DEF NothingLeft, TooSmall, ScanSplit
  <2>2. CASE TakeIdle(p)
    BY <2>2 DEF TakeIdle, Idle
  <2>3. CASE TakeStray(p)
    BY <2>3 DEF TakeStray, FreeThreads
  <2>4. CASE Split(p)
    BY <2>4 DEF Split, FreeThreads
  <2>5. CASE Start(p) \/ RunFails(p) \/ DialFails(p) \/ Loop(p)
    BY <2>5 DEF Start, RunFails, DialFails, Loop
  <2>6. CASE Connect(p) \/ Receive(p) \/ ReceiveFails(p)
    BY <2>6 DEF Connect, Receive, ReceiveFails
  <2>7. CASE Finish(p) \/ FinishPanics(p)
    BY <2>7 DEF Finish, FinishPanics
  <2> QED
    BY <1>1, <2>1, <2>2, <2>3, <2>4, <2>5, <2>6, <2>7 DEF ProxyStep
<1>2. CASE Tick
  BY <1>2 DEF Tick, Complete, Snapshot, Clear, Truncate, WriteStat
<1>3. CASE Restart
  BY <1>3 DEF Restart
<1>4. CASE Stopped
  BY <1>4 DEF Stopped, vars
<1> QED
  BY <1>1, <1>2, <1>3, <1>4 DEF Next

LEMMA OvershootStep ==
    ASSUME IInv, Next
    PROVE  Overshoot'
<1> USE ConstantsAssumption
<1>1. TypeOK /\ WorkInv /\ LockInv /\ Overshoot
  BY DEF IInv
<1>2. /\ cur \in [Threads -> 0..Length] /\ end \in [Threads -> 0..Length]
      /\ ranges \in Seq(Threads)
  BY <1>1 DEF TypeOK, Offsets
<1>3. ASSUME UNCHANGED <<cur, end, written>> PROVE Overshoot'
  BY <1>1, <1>3 DEF Overshoot
<1>4. ASSUME NEW p \in Proxies, FetchStep(p) PROVE Overshoot'
  <2>1. PICK n \in Nat, t \in Threads :
           /\ t = held[p]
           /\ cur' = [cur EXCEPT ![t] = cur[t] + n]
           /\ written' = written \cup {b \in Bytes : cur[t] <= b /\ b < cur[t] + n}
           /\ UNCHANGED <<ranges, end, seams, dropped, torn, mu, prev, l, tickVars, held>>
    BY <1>1, <1>4, FetchFacts
  <2> SUFFICES ASSUME NEW u \in Threads, NEW b \in Bytes, end[u] < b, b < cur'[u], b \notin written'
               PROVE  FALSE
    BY <2>1 DEF Overshoot
  <2>2. ~(b < cur[u])
    BY <1>1, <2>1 DEF Overshoot
  <2>3. u = t
    BY <1>2, <2>1, <2>2
  <2> QED
    BY <1>2, <2>1, <2>2, <2>3 DEF Bytes
<1>5. ASSUME NEW p \in Proxies, TakeStray(p) PROVE Overshoot'
  <2>1. PICK t \in FreeThreads : cur' = [cur EXCEPT ![t] = 0] /\ end' = [end EXCEPT ![t] = 0]
    BY <1>5 DEF TakeStray
  <2>2. t \in Threads /\ written' = written
    BY <1>5 DEF TakeStray, FreeThreads
  <2> QED
    BY <1>1, <1>2, <2>1, <2>2 DEF Overshoot, Bytes
<1>6. ASSUME NEW p \in Proxies, Split(p) PROVE Overshoot'
  <2>1. PICK mid \in Nat, t \in FreeThreads :
           /\ prev \in Threads /\ KnownEnd(end[prev])
           /\ cur' = [cur EXCEPT ![t] = mid]
           /\ end' = [end EXCEPT ![t] = end[prev], ![prev] = mid - 1]
           /\ ranges' = Append(ranges, t)
           /\ held' = [held EXCEPT ![p] = t]
           /\ seams' = seams \cup {mid - 1}
           /\ 1 <= mid
           /\ cur[prev] <= end[prev] => cur[prev] <= mid /\ mid <= end[prev]
           /\ end[prev] < cur[prev] => mid <= cur[prev]
           /\ \A b \in Bytes : mid <= b /\ b < cur[prev] => b \in written
    BY <1>1, <1>6, SplitFacts
  <2>2. t \in Threads /\ written' = written
    BY <1>6 DEF Split, FreeThreads
  <2> SUFFICES ASSUME NEW u \in Threads, NEW b \in Bytes, end'[u] < b, b < cur'[u]
               PROVE  b \in written
    BY <2>2 DEF Overshoot
  <2>3. CASE u # t /\ u # prev
    BY <1>1, <1>2, <2>1, <2>3 DEF Overshoot
  <2>4. CASE u = prev
    <3>1. end'[u] = mid - 1
      BY <1>2, <2>1, <2>4
    <3>2. mid <= b
      BY <2>1, <3>1 DEF Bytes
    <3>3. cur'[u] = IF prev = t THEN mid ELSE cur[prev]
      BY <1>2, <2>1, <2>2, <2>4
    <3> QED
      BY <2>1, <3>2, <3>3 DEF Bytes
  <2>5. CASE u = t /\ t # prev
    <3>1. end'[u] = end[prev] /\ cur'[u] = mid
      BY <1>2, <2>1, <2>2, <2>5
    <3>2. end[prev] < b /\ b < cur[prev]
      BY <1>2, <2>1, <3>1 DEF Bytes
    <3> QED
      BY <1>1, <2>1, <3>2 DEF Overshoot
  <2> QED
    BY <2>3, <2>4, <2>5
<1>7. ASSUME NEW p \in Proxies, Finish(p) PROVE Overshoot'
  <2> DEFINE T == held[p]
  <2>1. T \in Threads
    BY <1>1, <1>7 DEF Finish, WorkInv, Working
  <2>2. cur' = cur /\ end' = EndAfterMerge(T) /\ written' = written
    BY <1>7 DEF Finish
  <2> SUFFICES ASSUME NEW u \in Threads, NEW b \in Bytes, end'[u] < b, b < cur[u]
               PROVE  b \in written
    BY <2>2 DEF Overshoot
  <2>3. end'[u] = end[u] \/ (end'[u] = end[T] /\ end[u] + 1 = cur[T])
    BY <1>2, <2>1, <2>2, MergeEnd DEF Offsets
  <2>4. CASE end'[u] = end[u]
    BY <1>1, <2>4 DEF Overshoot
  <2>5. CASE end'[u] = end[T] /\ end[u] + 1 = cur[T]
    <3>1. b < cur[T] \/ end[u] < b
      BY <1>2, <2>1, <2>5 DEF Bytes
    <3> QED
      BY <1>1, <2>1, <2>5, <3>1 DEF Overshoot
  <2> QED
    BY <2>3, <2>4, <2>5
<1>8. ASSUME NEW p \in Proxies, QuietStep(p) PROVE Overshoot'
  BY <1>3, <1>8, QuietFrame DEF fileVars
<1>9. CASE Complete \/ Snapshot \/ Truncate \/ WriteStat
  BY <1>3, <1>9, TickFrame DEF fileVars
<1>10. CASE Clear \/ Stopped
  BY <1>3, <1>10 DEF Clear, Stopped, vars, rangeVars
<1>11. CASE Restart
  <2>1. PICK f \in Listings(Resumable(stat)) :
           /\ cur' = [t \in Threads |-> IF t \in DOMAIN f THEN stat[f[t]].cur ELSE 0]
           /\ end' = [t \in Threads |-> IF t \in DOMAIN f THEN stat[f[t]].end
                                        ELSE IF t = 1 THEN Length ELSE 0]
    BY <1>11 DEF Restart, Reload
  <2>2. PICK n \in 0..MaxThreads : f \in [1..n -> Resumable(stat)]
    BY ListingType
  <2> SUFFICES ASSUME NEW u \in Threads, NEW b \in Bytes, end'[u] < b, b < cur'[u]
               PROVE  FALSE
    BY DEF Overshoot
  <2>3. CASE u \in DOMAIN f
    <3>1. f[u] \in DOMAIN stat /\ stat[f[u]].cur < stat[f[u]].end
      BY <2>2, <2>3 DEF Resumable
    <3>2. stat[f[u]] \in Lines
      BY <1>1, <3>1 DEF TypeOK
    <3> QED
      BY <2>1, <2>3, <3>1, <3>2 DEF Lines, Offsets, Bytes
  <2>4. CASE u \notin DOMAIN f
    BY <2>1, <2>4 DEF Bytes
  <2> QED
    BY <2>3, <2>4
<1> QED
  BY <1>4, <1>5, <1>6, <1>7, <1>8, <1>9, <1>10, <1>11, NextCases


\* The file and the ghosts only grow.
LEMMA Monotone ==
    ASSUME TypeOK, WorkInv, Next
    PROVE  written \subseteq written' /\ seams \subseteq seams' /\ Gone \subseteq Gone'
<1>1. ASSUME NEW p \in Proxies, QuietStep(p) PROVE UNCHANGED <<written, seams, dropped, torn>>
  BY <1>1, QuietFrame DEF fileVars
<1>2. ASSUME NEW p \in Proxies, FetchStep(p)
      PROVE  written \subseteq written' /\ UNCHANGED <<seams, dropped, torn>>
  BY <1>2, FetchFacts
<1>3. ASSUME NEW p \in Proxies, TakeStray(p) PROVE UNCHANGED <<written, seams, dropped, torn>>
  BY <1>3 DEF TakeStray, ghostVars
<1>4. ASSUME NEW p \in Proxies, Split(p)
      PROVE  seams \subseteq seams' /\ UNCHANGED <<written, dropped, torn>>
  BY <1>4 DEF Split
<1>5. ASSUME NEW p \in Proxies, Finish(p)
      PROVE  dropped \subseteq dropped' /\ UNCHANGED <<written, seams, torn>>
  BY <1>5 DEF Finish
<1>6. ASSUME Complete \/ Snapshot \/ Truncate \/ WriteStat
      PROVE  UNCHANGED <<written, seams, dropped, torn>>
  BY <1>6, TickFrame DEF fileVars
<1>7. ASSUME Clear \/ Stopped PROVE UNCHANGED <<written, seams, dropped, torn>>
  BY <1>7 DEF Clear, Stopped, vars, ghostVars
<1>8. ASSUME Restart PROVE torn \subseteq torn' /\ UNCHANGED <<written, seams, dropped>>
  BY <1>8 DEF Restart
<1> QED
  BY <1>1, <1>2, <1>3, <1>4, <1>5, <1>6, <1>7, <1>8, NextCases DEF Gone

LEMMA EndsStep ==
    ASSUME IInv, Next
    PROVE  EndsInv'
<1> USE ConstantsAssumption
<1>1. TypeOK /\ WorkInv /\ LockInv /\ EndsInv /\ StatInv
  BY DEF IInv
<1>2. /\ cur \in [Threads -> 0..Length] /\ end \in [Threads -> 0..Length]
      /\ ranges \in Seq(Threads) /\ Registered \subseteq Threads
      /\ pc \in [Proxies -> Locations] /\ held \in [Proxies -> Threads \cup {None}]
  BY <1>1 DEF TypeOK, Offsets, Registered
<1>3. \A e : KnownEnd(e) => KnownEnd(e)'
  BY <1>1, Monotone DEF KnownEnd
<1>4. ASSUME UNCHANGED <<ranges, cur, end, pc, held>> PROVE EndsInv'
  BY <1>1, <1>3, <1>4 DEF EndsInv, Registered
<1>5. ASSUME NEW p \in Proxies, QuietStep(p) PROVE EndsInv'
  <2>1. UNCHANGED <<ranges, cur, end, seams>> /\ Registered' = Registered
    BY <1>5, QuietFrame DEF fileVars, Registered
  <2> SUFFICES ASSUME NEW q \in Proxies, pc'[q] \in Working
               PROVE  \/ KnownEnd(end[held'[q]])
                      \/ cur[held'[q]] = 0 /\ end[held'[q]] = 0 /\ pc'[q] \in {"start", "finish"}
    BY <1>1, <2>1 DEF EndsInv, KnownEnd
  <2> USE DEF Working, EndsInv
  <2>2. CASE NothingLeft(p) \/ TooSmall(p) \/ ScanSplit(p)
    BY <1>1, <1>2, <2>2 DEF NothingLeft, TooSmall, ScanSplit
  <2>3. CASE TakeIdle(p)
    <3>1. PICK i \in DOMAIN ranges : held' = [held EXCEPT ![p] = ranges[i]]
      BY <2>3 DEF TakeIdle, Idle
    <3>2. ranges[i] \in Registered
      BY DEF Registered
    <3>3. pc' = [pc EXCEPT ![p] = "start"]
      BY <2>3 DEF TakeIdle
    <3> QED
      BY <1>1, <1>2, <3>1, <3>2, <3>3
  <2>4. CASE Start(p)
    <3>1. held[p] \in Threads
      BY <1>1, <2>4 DEF Start, WorkInv
    <3>2. cur[held[p]] < end[held[p]] => ~(cur[held[p]] = 0 /\ end[held[p]] = 0)
      BY <1>2, <3>1
    <3> QED
      BY <1>1, <1>2, <2>4, <3>2 DEF Start
  <2>5. CASE RunFails(p) \/ DialFails(p) \/ Loop(p)
    BY <1>1, <1>2, <2>5 DEF RunFails, DialFails, Loop, proxyVars
  <2>6. CASE ReceiveFails(p) \/ FinishPanics(p)
    BY <1>1, <1>2, <2>6 DEF ReceiveFails, FinishPanics, proxyVars
  <2> QED
    BY <1>5, <2>2, <2>3, <2>4, <2>5, <2>6 DEF QuietStep
<1>6. ASSUME NEW p \in Proxies, FetchStep(p) PROVE EndsInv'
  <2>1. PICK n \in Nat, t \in Threads :
           /\ t = held[p]
           /\ cur' = [cur EXCEPT ![t] = cur[t] + n]
           /\ UNCHANGED <<ranges, end, seams, held>>
    BY <1>1, <1>6, FetchFacts
  <2>2. /\ pc[p] \in {"dial", "read"}
        /\ \E loc \in {"loop", "finish"} : pc' = [pc EXCEPT ![p] = loc]
    BY <1>6 DEF FetchStep, Connect, Receive
  <2>3. KnownEnd(end[t])
    BY <1>1, <2>1, <2>2 DEF EndsInv, Working
  <2>4. \A u \in Threads : u # t => cur'[u] = cur[u]
    BY <1>2, <2>1
  <2>5. \A q \in Proxies : pc'[q] \in Working => held[q] \in Threads
    BY <1>1, <1>2, <2>1, <2>2 DEF WorkInv, Working
  <2> QED
    BY <1>1, <1>2, <2>1, <2>2, <2>3, <2>4, <2>5 DEF EndsInv, Registered, KnownEnd, Working
<1>7. ASSUME NEW p \in Proxies, TakeStray(p) PROVE EndsInv'
  <2>1. PICK t \in FreeThreads : /\ cur' = [cur EXCEPT ![t] = 0]
                                 /\ end' = [end EXCEPT ![t] = 0]
                                 /\ held' = [held EXCEPT ![p] = t]
    BY <1>7 DEF TakeStray
  <2>2. /\ t \in Threads /\ t \notin Registered /\ t \notin Held
        /\ pc' = [pc EXCEPT ![p] = "start"] /\ ranges' = ranges /\ seams' = seams
    BY <1>7 DEF TakeStray, FreeThreads, ghostVars
  <2>3. \A u \in Threads : u # t => cur'[u] = cur[u] /\ end'[u] = end[u]
    BY <1>2, <2>1
  <2>4. cur'[t] = 0 /\ end'[t] = 0
    BY <1>2, <2>1, <2>2
  <2>5. \A q \in Proxies : q # p /\ pc[q] \in Working => held[q] \in Threads /\ held[q] # t
    <3> SUFFICES ASSUME NEW q \in Proxies, pc[q] \in Working PROVE held[q] \in Threads /\ held[q] # t
      OBVIOUS
    <3>1. held[q] \in Threads
      BY <1>1 DEF WorkInv
    <3>2. held[q] # None
      BY <3>1 DEF Threads
    <3> QED
      BY <2>2, <3>1, <3>2 DEF Held
  <2>6. \A u \in Registered' : KnownEnd(end[u])'
    BY <1>1, <1>2, <2>2, <2>3 DEF EndsInv, Registered, KnownEnd
  <2>7. ASSUME NEW q \in Proxies, pc'[q] \in Working
        PROVE  \/ KnownEnd(end[held[q]])'
               \/ cur'[held'[q]] = 0 /\ end'[held'[q]] = 0 /\ pc'[q] \in {"start", "finish"}
    <3>1. CASE q = p
      BY <1>2, <2>1, <2>2, <2>4, <3>1
    <3>2. CASE q # p
      <4>1. held'[q] = held[q] /\ pc'[q] = pc[q]
        BY <1>2, <2>1, <2>2, <3>2
      <4> QED
        BY <1>1, <2>2, <2>3, <2>5, <2>7, <3>2, <4>1 DEF EndsInv, KnownEnd
    <3> QED
      BY <3>1, <3>2
  <2> QED
    BY <2>6, <2>7 DEF EndsInv
<1>8. ASSUME NEW p \in Proxies, Split(p) PROVE EndsInv'
  <2>1. PICK mid \in Nat, t \in FreeThreads :
           /\ prev \in Threads /\ KnownEnd(end[prev])
           /\ cur' = [cur EXCEPT ![t] = mid]
           /\ end' = [end EXCEPT ![t] = end[prev], ![prev] = mid - 1]
           /\ ranges' = Append(ranges, t)
           /\ held' = [held EXCEPT ![p] = t]
           /\ seams' = seams \cup {mid - 1}
    BY <1>1, <1>8, SplitFacts
  <2>2. /\ t \in Threads /\ t \notin Registered /\ t \notin Held
        /\ pc' = [pc EXCEPT ![p] = "start"]
    BY <1>8 DEF Split, FreeThreads
  <2>3. /\ end'[t] = Length \/ end'[t] \in seams'
        /\ end'[prev] = Length \/ end'[prev] \in seams'
    <3>1. end'[prev] = mid - 1
      BY <1>2, <2>1
    <3>2. t # prev => end'[t] = end[prev]
      BY <1>2, <2>1, <2>2
    <3>3. CASE t = prev
      BY <2>1, <3>1, <3>3
    <3>4. CASE t # prev
      BY <2>1, <3>1, <3>2, <3>4 DEF KnownEnd
    <3> QED
      BY <3>3, <3>4
  <2>4. \A u \in Threads : u # t /\ u # prev => cur'[u] = cur[u] /\ end'[u] = end[u]
    BY <1>2, <2>1
  <2>5. Registered' \subseteq Registered \cup {t}
    BY <1>1, <2>1, <2>2, SplitRegisters
  <2>6. ASSUME NEW u \in Registered' PROVE KnownEnd(end[u])'
    BY <1>1, <1>2, <2>1, <2>3, <2>4, <2>5 DEF EndsInv, KnownEnd
  <2>7. ASSUME NEW q \in Proxies, pc'[q] \in Working
        PROVE  \/ KnownEnd(end[held[q]])'
               \/ cur'[held'[q]] = 0 /\ end'[held'[q]] = 0 /\ pc'[q] \in {"start", "finish"}
    <3>1. CASE q = p
      BY <1>2, <2>1, <2>3, <3>1 DEF KnownEnd
    <3>2. CASE q # p
      <4>1. held'[q] = held[q] /\ pc'[q] = pc[q]
        BY <1>2, <2>1, <2>2, <3>2
      <4>2. held[q] \in Threads
        BY <1>1, <2>7, <4>1 DEF WorkInv
      <4>3. held[q] # None
        BY <4>2 DEF Threads
      <4>4. held[q] # t
        BY <2>2, <4>3 DEF Held
      <4>5. CASE held[q] = prev
        BY <2>3, <4>1, <4>5 DEF KnownEnd
      <4>6. CASE held[q] # prev
        <5>1. cur'[held[q]] = cur[held[q]] /\ end'[held[q]] = end[held[q]]
          BY <2>4, <4>2, <4>4, <4>6
        <5> QED
          BY <1>1, <2>1, <2>7, <4>1, <5>1 DEF EndsInv, KnownEnd
      <4> QED
        BY <4>5, <4>6
    <3> QED
      BY <3>1, <3>2
  <2> QED
    BY <2>6, <2>7 DEF EndsInv
<1>9. ASSUME NEW p \in Proxies, Finish(p) PROVE EndsInv'
  <2> DEFINE T == held[p]
  <2>1. T \in Threads /\ pc[p] \in Working
    BY <1>1, <1>9 DEF Finish, WorkInv, Working
  <2>2. /\ cur' = cur /\ end' = EndAfterMerge(T) /\ seams' = seams
        /\ held' = [held EXCEPT ![p] = None] /\ pc' = [pc EXCEPT ![p] = "idle"]
    BY <1>9 DEF Finish
  <2>3. \A u \in Threads : end'[u] = end[u] \/ KnownEnd(end[u])'
    <3> SUFFICES ASSUME NEW u \in Threads, end'[u] # end[u] PROVE KnownEnd(end[u])'
      OBVIOUS
    <3>1. end'[u] = end[T] /\ end[u] + 1 = cur[T]
      BY <1>2, <2>1, <2>2, MergeEnd DEF Offsets
    <3>2. cur[T] # 0
      BY <1>2, <3>1
    <3> QED
      BY <1>1, <2>1, <2>2, <3>1, <3>2 DEF EndsInv, KnownEnd
  <2>4. Registered' \subseteq Registered
    BY <1>1, <1>9, FinishRegisters
  <2>5. \A u \in Registered' : KnownEnd(end[u])'
    BY <1>1, <1>2, <2>2, <2>3, <2>4 DEF EndsInv, KnownEnd
  <2>6. ASSUME NEW q \in Proxies, pc'[q] \in Working
        PROVE  \/ KnownEnd(end[held[q]])'
               \/ cur'[held'[q]] = 0 /\ end'[held'[q]] = 0 /\ pc'[q] \in {"start", "finish"}
    <3>1. q # p
      BY <1>2, <2>2, <2>6 DEF Working
    <3>2. held'[q] = held[q] /\ pc'[q] = pc[q]
      BY <1>2, <2>2, <3>1
    <3>3. held[q] \in Threads
      BY <1>1, <2>6, <3>2 DEF WorkInv
    <3>4. end'[held[q]] = end[held[q]] \/ KnownEnd(end[held[q]])'
      BY <2>3, <3>2, <3>3 DEF KnownEnd
    <3> QED
      BY <1>1, <2>2, <2>6, <3>2, <3>4 DEF EndsInv, KnownEnd
  <2> QED
    BY <2>5, <2>6 DEF EndsInv
<1>10. CASE Complete \/ Snapshot \/ Truncate \/ WriteStat
  BY <1>4, <1>10, TickFrame DEF fileVars, proxyVars
<1>11. CASE Clear
  <2>1. UNCHANGED <<cur, end, pc, held>> /\ Registered' = {}
    BY <1>11 DEF Clear, proxyVars, Registered
  <2> QED
    BY <1>1, <1>3, <2>1 DEF EndsInv
<1>12. CASE Restart
  <2>1. PICK f \in Listings(Resumable(stat)) :
           /\ ranges' = IF f = <<>> THEN <<1>> ELSE [j \in DOMAIN f |-> j]
           /\ end' = [t \in Threads |-> IF t \in DOMAIN f THEN stat[f[t]].end
                                        ELSE IF t = 1 THEN Length ELSE 0]
    BY <1>12 DEF Restart, Reload
  <2>2. PICK n \in 0..MaxThreads : f \in [1..n -> Resumable(stat)]
    BY ListingType
  <2>3. \A q \in Proxies : pc'[q] = "idle"
    BY <1>12 DEF Restart
  <2>4. ASSUME NEW u \in Registered' PROVE KnownEnd(end'[u])
    <3>1. CASE f = <<>>
      <4>1. u = 1 /\ 1 \in Threads
        BY <2>1, <3>1 DEF Registered, Threads
      <4> QED
        BY <2>1, <3>1, <4>1 DEF KnownEnd
    <3>2. CASE f # <<>>
      <4>1. u \in DOMAIN f
        BY <2>1, <3>2 DEF Registered
      <4>2. u \in Threads /\ f[u] \in DOMAIN stat
        BY <2>2, <4>1 DEF Threads, Resumable
      <4> QED
        BY <1>1, <2>1, <4>1, <4>2 DEF StatInv
    <3> QED
      BY <3>1, <3>2
  <2>5. seams' = seams
    BY <1>12 DEF Restart
  <2> QED
    BY <2>3, <2>4, <2>5 DEF EndsInv, Working, KnownEnd
<1>13. CASE Stopped
  BY <1>4, <1>13 DEF Stopped, vars, rangeVars, proxyVars
<1> QED
  BY <1>5, <1>6, <1>7, <1>8, <1>9, <1>10, <1>11, <1>12, <1>13, NextCases


LEMMA LockStep ==
    ASSUME IInv, Next
    PROVE  LockInv'
<1> USE ConstantsAssumption
<1>1. TypeOK /\ WorkInv /\ LockInv /\ EndsInv
  BY DEF IInv
<1>2. /\ cur \in [Threads -> 0..Length] /\ end \in [Threads -> 0..Length]
      /\ ranges \in Seq(Threads) /\ Registered \subseteq Threads
      /\ pc \in [Proxies -> Locations]
  BY <1>1 DEF TypeOK, Offsets, Registered
<1>3. mu = None => \A q \in Proxies : pc[q] # "split"
  BY <1>1 DEF LockInv
<1>4. ASSUME UNCHANGED <<cur, end, mu, prev, l, written, seams>>,
             \A q \in Proxies : pc'[q] = "split" => pc[q] = "split"
      PROVE  LockInv'
  BY <1>1, <1>4 DEF LockInv, KnownEnd
<1>5. ASSUME NEW p \in Proxies, QuietStep(p) PROVE LockInv'
  <2>1. UNCHANGED <<cur, end, written, seams>>
    BY <1>5, QuietFrame DEF fileVars
  <2>2. CASE ScanSplit(p)
    <3>1. mu = None /\ pc' = [pc EXCEPT ![p] = "split"] /\ mu' = p
      BY <2>2 DEF ScanSplit, Locking
    <3>2. PICK i \in DOMAIN ranges : /\ Remaining(ranges[i]) > MinSplit
                                     /\ prev' = ranges[i]
                                     /\ l' = Remaining(ranges[i])
      BY <2>2 DEF ScanSplit
    <3>3. prev' \in Threads /\ KnownEnd(end[prev'])
      BY <1>1, <1>2, <3>2 DEF EndsInv, Registered
    <3>4. l' = end[prev'] - cur[prev'] /\ MinSplit < l'
      BY <1>2, <3>2, <3>3 DEF Remaining
    <3>5. cur[prev'] \in Nat /\ end[prev'] \in Nat
      BY <1>2, <3>3
    <3>6. l' <= end[prev'] /\ end[prev'] - l' <= cur[prev']
      BY <3>4, <3>5
    <3>7. \A q \in Proxies : pc'[q] = "split" => q = p
      BY <1>2, <1>3, <3>1
    <3>8. \A b \in Bytes : ~(end[prev'] - l' <= b /\ b < cur[prev'])
      BY <3>4, <3>5 DEF Bytes
    <3> QED
      BY <2>1, <3>1, <3>3, <3>4, <3>6, <3>7, <3>8 DEF LockInv, KnownEnd
  <2>3. CASE NothingLeft(p) \/ TakeIdle(p) \/ TooSmall(p)
    BY <1>2, <1>4, <2>1, <2>3 DEF NothingLeft, TakeIdle, TooSmall, lockVars
  <2>4. CASE Start(p) \/ Loop(p)
    BY <1>2, <1>4, <2>1, <2>4 DEF Start, Loop, lockVars
  <2>5. CASE RunFails(p) \/ ReceiveFails(p)
    BY <1>2, <1>4, <2>1, <2>5 DEF RunFails, ReceiveFails, lockVars
  <2>6. CASE DialFails(p) \/ FinishPanics(p)
    BY <1>4, <2>1, <2>6 DEF DialFails, FinishPanics, lockVars, proxyVars
  <2> QED
    BY <1>5, <2>2, <2>3, <2>4, <2>5, <2>6 DEF QuietStep
<1>6. ASSUME NEW p \in Proxies, FetchStep(p) PROVE LockInv'
  <2>1. PICK n \in Nat, t \in Threads :
           /\ cur' = [cur EXCEPT ![t] = cur[t] + n]
           /\ written' = written \cup {b \in Bytes : cur[t] <= b /\ b < cur[t] + n}
           /\ UNCHANGED <<ranges, end, seams, mu, prev, l>>
    BY <1>1, <1>6, FetchFacts
  <2>2. \A q \in Proxies : pc'[q] = "split" => pc[q] = "split"
    BY <1>2, <1>6 DEF FetchStep, Connect, Receive
  <2> SUFFICES ASSUME NEW q \in Proxies, pc[q] = "split"
               PROVE  /\ mu = q /\ prev \in Threads /\ KnownEnd(end[prev])
                      /\ MinSplit < l /\ l <= end[prev]
                      /\ end[prev] - l <= cur'[prev]
                      /\ \A b \in Bytes : end[prev] - l <= b /\ b < cur'[prev] => b \in written'
    BY <2>1, <2>2 DEF LockInv, KnownEnd
  <2>3. /\ mu = q /\ prev \in Threads /\ KnownEnd(end[prev])
        /\ MinSplit < l /\ l <= end[prev]
        /\ end[prev] - l <= cur[prev]
        /\ \A b \in Bytes : end[prev] - l <= b /\ b < cur[prev] => b \in written
    BY <1>1 DEF LockInv
  <2>4. cur[prev] \in Nat /\ end[prev] \in Nat /\ l \in Nat
    BY <1>1, <1>2, <2>3 DEF TypeOK, Offsets
  <2>5. cur'[prev] = cur[prev] \/ (prev = t /\ cur'[prev] = cur[prev] + n)
    BY <1>2, <2>1, <2>3
  <2>6. end[prev] - l <= cur'[prev]
    BY <2>3, <2>4, <2>5
  <2>7. ASSUME NEW b \in Bytes, end[prev] - l <= b, b < cur'[prev] PROVE b \in written'
    <3>1. CASE b < cur[prev]
      BY <2>1, <2>3, <2>7, <3>1
    <3>2. CASE ~(b < cur[prev])
      BY <2>1, <2>4, <2>5, <2>7, <3>2 DEF Bytes
    <3> QED
      BY <3>1, <3>2
  <2> QED
    BY <2>3, <2>6, <2>7
<1>7. ASSUME NEW p \in Proxies, TakeStray(p) PROVE LockInv'
  BY <1>2, <1>3, <1>7 DEF TakeStray, Locking, LockInv
<1>8. ASSUME NEW p \in Proxies, Split(p) PROVE LockInv'
  <2>1. \A q \in Proxies : q # p => pc[q] # "split"
    BY <1>1, <1>8 DEF Split, LockInv
  <2>2. pc' = [pc EXCEPT ![p] = "start"]
    BY <1>8 DEF Split
  <2> QED
    BY <1>2, <2>1, <2>2 DEF LockInv
<1>9. ASSUME NEW p \in Proxies, Finish(p) PROVE LockInv'
  <2>1. mu = None /\ pc' = [pc EXCEPT ![p] = "idle"]
    BY <1>9 DEF Finish
  <2> QED
    BY <1>2, <1>3, <2>1 DEF LockInv
<1>10. CASE Complete \/ Snapshot \/ Truncate \/ WriteStat
  BY <1>4, <1>10, TickFrame DEF fileVars, proxyVars, lockVars
<1>11. CASE Clear \/ Stopped
  BY <1>4, <1>11 DEF Clear, Stopped, vars, rangeVars, lockVars, proxyVars, ghostVars
<1>12. CASE Restart
  BY <1>12 DEF Restart, LockInv
<1> QED
  BY <1>5, <1>6, <1>7, <1>8, <1>9, <1>10, <1>11, <1>12, NextCases

LEMMA StatStep ==
    ASSUME IInv, Next
    PROVE  StatInv'
<1> USE ConstantsAssumption
<1>1. TypeOK /\ WorkInv /\ LockInv /\ EndsInv /\ StatInv /\ Accounted
  BY DEF IInv
<1>2. /\ written \subseteq written' /\ Gone \subseteq Gone'
      /\ \A e : KnownEnd(e) => KnownEnd(e)'
  BY <1>1, Monotone DEF KnownEnd
<1>3. ASSUME UNCHANGED tickVars PROVE StatInv'
  BY <1>1, <1>2, <1>3 DEF tickVars, StatInv, ResumeAccounted, OnDisk, Resumable, CoveredBy
<1>4. ASSUME NEW p \in Proxies, QuietStep(p) \/ FetchStep(p) PROVE StatInv'
  BY <1>1, <1>3, <1>4, QuietFrame, FetchFacts
<1>5. ASSUME NEW p \in Proxies, TakeStray(p) \/ Split(p) \/ Finish(p) PROVE StatInv'
  BY <1>3, <1>5 DEF TakeStray, Split, Finish
<1>6. CASE Complete
  <2>1. stat' = <<>> /\ buf' = buf /\ ticker' = "done"
    BY <1>6 DEF Complete
  <2> QED
    BY <1>1, <1>2, <2>1 DEF StatInv, ResumeAccounted
<1>7. CASE Snapshot
  <2>1. PICK f \in Listings(Saved) :
           buf' = [j \in DOMAIN f |-> [cur |-> cur[ranges[f[j]]], end |-> end[ranges[f[j]]]]]
    BY <1>7 DEF Snapshot
  <2>2. PICK n \in 0..MaxThreads :
           /\ f \in [1..n -> Saved]
           /\ \A k \in Saved : \E j \in 1..n : f[j] = k
    BY ListingType
  <2>3. /\ stat' = stat /\ ticker = "tick" /\ UNCHANGED <<written, seams, dropped, torn>>
        /\ ticker' = IF Saved = {} THEN "clear" ELSE "truncate"
    BY <1>7 DEF Snapshot, ghostVars
  <2>4. \A b \in Bytes : b \in written \/ b \in Gone \/ b \in CoveredBy(buf')
    <3> SUFFICES ASSUME NEW b \in Bytes, b \notin written, b \notin Gone
                 PROVE  b \in CoveredBy(buf')
      OBVIOUS
    <3>1. PICK i \in DOMAIN ranges : cur[ranges[i]] <= b /\ b <= end[ranges[i]]
      BY <1>1 DEF Accounted, Covered, Registered
    <3>2. cur[ranges[i]] \in Nat /\ end[ranges[i]] \in Nat
      BY <1>1 DEF TypeOK, Offsets
    <3>3. i \in Saved
      BY <3>1, <3>2 DEF Saved, Bytes
    <3>4. PICK j \in 1..n : f[j] = i
      BY <2>2, <3>3
    <3>5. j \in DOMAIN buf' /\ buf'[j] = [cur |-> cur[ranges[i]], end |-> end[ranges[i]]]
      BY <2>1, <2>2, <3>4
    <3> QED
      BY <3>1, <3>5 DEF CoveredBy
  <2>5. Saved = {} => Bytes \subseteq written \cup Gone
    <3> SUFFICES ASSUME Saved = {}, NEW b \in Bytes, b \notin written, b \notin Gone
                 PROVE  FALSE
      OBVIOUS
    <3>1. PICK i \in DOMAIN ranges : cur[ranges[i]] <= b /\ b <= end[ranges[i]]
      BY <1>1 DEF Accounted, Covered, Registered
    <3>2. cur[ranges[i]] \in Nat /\ end[ranges[i]] \in Nat
      BY <1>1 DEF TypeOK, Offsets
    <3> QED
      BY <3>1, <3>2 DEF Saved, Bytes
  <2>6. \A j \in DOMAIN buf' : KnownEnd(buf'[j].end)
    <3> SUFFICES ASSUME NEW j \in DOMAIN buf' PROVE KnownEnd(buf'[j].end)
      OBVIOUS
    <3>1. j \in 1..n /\ buf'[j].end = end[ranges[f[j]]]
      BY <2>1, <2>2
    <3>2. f[j] \in DOMAIN ranges
      BY <2>2, <3>1 DEF Saved
    <3> QED
      BY <1>1, <3>1, <3>2 DEF EndsInv, Registered
  <2>7. ResumeAccounted'
    BY <1>1, <2>3 DEF StatInv, ResumeAccounted, OnDisk, Resumable, CoveredBy, Gone
  <2>8. CoveredBy(buf)' = CoveredBy(buf')
    BY DEF CoveredBy
  <2> QED
    BY <1>1, <2>3, <2>4, <2>5, <2>6, <2>7, <2>8 DEF StatInv, KnownEnd, Gone
<1>8. CASE Clear
  <2>1. UNCHANGED <<buf, stat, written, seams, dropped, torn>> /\ ticker = "clear" /\ ticker' = "tick"
    BY <1>8 DEF Clear, ghostVars
  <2> QED
    BY <1>1, <2>1 DEF StatInv, ResumeAccounted, OnDisk, Resumable, CoveredBy, Gone, KnownEnd
<1>9. CASE Truncate
  <2> DEFINE n == IF Len(buf) < Len(stat) THEN Len(buf) ELSE Len(stat)
  <2>1. /\ stat' = Prefix(stat, n) /\ buf' = buf
        /\ ticker = "truncate" /\ ticker' = "write"
        /\ UNCHANGED <<written, seams, dropped, torn>>
    BY <1>9 DEF Truncate, ghostVars
  <2>2. n \in Nat /\ n <= Len(stat) /\ DOMAIN stat = 1..Len(stat)
    BY <1>1 DEF TypeOK
  <2> HIDE DEF n
  <2>3. \A i \in DOMAIN stat' : i \in DOMAIN stat /\ stat'[i] = stat[i]
    BY <2>1, <2>2 DEF Prefix
  <2> QED
    BY <1>1, <2>1, <2>3 DEF StatInv, ResumeAccounted, CoveredBy, Gone, KnownEnd
<1>10. CASE WriteStat
  <2>1. /\ stat' = buf /\ buf' = <<>>
        /\ ticker = "write" /\ ticker' = "tick"
        /\ UNCHANGED <<written, seams, dropped, torn>>
    BY <1>10 DEF WriteStat, ghostVars
  <2>2. Bytes \subseteq written \cup CoveredBy(buf) \cup Gone
    BY <1>1, <2>1 DEF StatInv
  <2>3. ResumeAccounted'
    BY <2>1, <2>2 DEF ResumeAccounted, OnDisk, Resumable, CoveredBy, Gone
  <2>4. DOMAIN buf' = {}
    BY <2>1
  <2> QED
    BY <1>1, <2>1, <2>3, <2>4 DEF StatInv, KnownEnd
<1>11. CASE Restart
  <2>1. /\ stat' = stat /\ buf' = <<>> /\ ticker # "done" /\ ticker' = "tick"
        /\ UNCHANGED <<written, seams, dropped>>
        /\ torn' = IF ticker = "write"
                   THEN torn \cup (CoveredBy(buf) \ OnDisk(stat)) ELSE torn
    BY <1>11 DEF Restart
  <2>2. Bytes \subseteq written \cup OnDisk(stat) \cup Gone'
    <3>1. CASE ticker = "write"
      BY <1>1, <2>1, <3>1 DEF StatInv, Gone
    <3>2. CASE ticker # "write"
      BY <1>1, <2>1, <3>2 DEF StatInv, ResumeAccounted, Gone
    <3> QED
      BY <3>1, <3>2
  <2>3. OnDisk(stat)' = OnDisk(stat)
    BY <2>1 DEF OnDisk, Resumable, CoveredBy
  <2>4. DOMAIN buf' = {}
    BY <2>1
  <2> QED
    BY <1>1, <2>1, <2>2, <2>3, <2>4 DEF StatInv, ResumeAccounted, KnownEnd
<1>12. CASE Stopped
  BY <1>3, <1>12 DEF Stopped, vars
<1> QED
  BY <1>4, <1>5, <1>6, <1>7, <1>8, <1>9, <1>10, <1>11, <1>12, NextCases

-----------------------------------------------------------------------------
(* Who works on what *)

\* A held thread is marked busy and has one holder, a busy range has a holder,
\* and only proxies past getThread hold anything.
OwnInv ==
    /\ Exclusive
    /\ NoOrphan
    /\ \A p \in Proxies : held[p] # None => state[held[p]] # "noWork"
    /\ \A p \in Proxies : pc[p] \notin Working => held[p] = None

LEMMA OwnTake ==
    ASSUME TypeOK, OwnInv, NEW p \in Proxies, NEW t \in Threads,
           held[p] = None, \A q \in Proxies : held[q] # t,
           Registered' \subseteq Registered \cup {t},
           state' = [state EXCEPT ![t] = "ready"],
           held' = [held EXCEPT ![p] = t],
           pc' = [pc EXCEPT ![p] = "start"]
    PROVE  OwnInv'
<1> USE DEF TypeOK
<1>1. held'[p] = t /\ \A q \in Proxies : q # p => held'[q] = held[q]
  OBVIOUS
<1>2. state'[t] = "ready" /\ \A u \in Threads : u # t => state'[u] = state[u]
  OBVIOUS
<1>3. Exclusive'
  BY <1>1 DEF OwnInv, Exclusive
<1>4. NoOrphan'
  <2> SUFFICES ASSUME NEW u \in Registered', state'[u] # "noWork"
               PROVE  \E q \in Proxies : held'[q] = u
    BY DEF NoOrphan
  <2>1. CASE u = t
    BY <1>1, <2>1
  <2>2. CASE u # t
    <3>1. u \in Registered /\ u \in Threads
      <4>1. Registered \subseteq Threads
        BY DEF Registered
      <4> QED
        BY <2>2, <4>1
    <3>2. PICK q \in Proxies : held[q] = u
      BY <1>2, <2>2, <3>1 DEF OwnInv, NoOrphan
    <3>3. q # p
      BY <3>1, <3>2, ConstantsAssumption DEF Threads
    <3> QED
      BY <1>1, <3>2, <3>3
  <2> QED
    BY <2>1, <2>2
<1>5. \A q \in Proxies : held'[q] # None => state'[held'[q]] # "noWork"
  <2> SUFFICES ASSUME NEW q \in Proxies, held'[q] # None PROVE state'[held'[q]] # "noWork"
    OBVIOUS
  <2>1. CASE q = p
    BY <1>1, <1>2, <2>1
  <2>2. CASE q # p
    BY <1>1, <1>2, <2>2 DEF OwnInv
  <2> QED
    BY <2>1, <2>2
<1>6. \A q \in Proxies : pc'[q] \notin Working => held'[q] = None
  BY <1>1 DEF OwnInv, Working
<1> QED
  BY <1>3, <1>4, <1>5, <1>6 DEF OwnInv

\* Steps that keep every holder and every mark, except that a mark may change
\* among busy ones.
LEMMA OwnKeep ==
    ASSUME TypeOK, OwnInv,
           Registered' \subseteq Registered, held' = held,
           \A t \in Threads : state'[t] = "noWork" <=> state[t] = "noWork",
           \A q \in Proxies : pc'[q] \notin Working => pc[q] \notin Working
    PROVE  OwnInv'
<1>1. Exclusive'
  BY DEF OwnInv, Exclusive
<1>2. NoOrphan'
  <2>1. Registered \subseteq Threads
    BY DEF TypeOK, Registered
  <2> QED
    BY <2>1 DEF OwnInv, NoOrphan
<1>3. \A q \in Proxies : held'[q] # None => state'[held'[q]] # "noWork"
  BY DEF OwnInv, TypeOK
<1>4. \A q \in Proxies : pc'[q] \notin Working => held'[q] = None
  BY DEF OwnInv
<1> QED
  BY <1>1, <1>2, <1>3, <1>4 DEF OwnInv

LEMMA OwnStep ==
    ASSUME TypeOK, WorkInv, OwnInv, Next
    PROVE  OwnInv'
<1> USE ConstantsAssumption
<1>1. /\ pc \in [Proxies -> Locations] /\ held \in [Proxies -> Threads \cup {None}]
      /\ state \in [Threads -> States] /\ ranges \in Seq(Threads)
  BY DEF TypeOK
<1>2. ASSUME NEW p \in Proxies, ProxyStep(p) PROVE OwnInv'
  <2>1. CASE NothingLeft(p) \/ TooSmall(p) \/ ScanSplit(p)
    BY <1>1, <2>1, OwnKeep DEF NothingLeft, TooSmall, ScanSplit, Locking, rangeVars, Registered, Working
  <2>2. CASE TakeIdle(p)
    <3>1. PICK i \in Idle : /\ state' = [state EXCEPT ![ranges[i]] = "ready"]
                            /\ held' = [held EXCEPT ![p] = ranges[i]]
      BY <2>2 DEF TakeIdle
    <3>2. ranges[i] \in Threads /\ state[ranges[i]] = "noWork"
      BY <1>1 DEF Idle
    <3>3. \A q \in Proxies : held[q] # ranges[i]
      BY <3>2 DEF OwnInv, Threads
    <3>4. held[p] = None /\ pc' = [pc EXCEPT ![p] = "start"] /\ Registered' = Registered
      BY <2>2 DEF TakeIdle, Locking, OwnInv, Working, Registered
    <3> QED
      BY <3>1, <3>2, <3>3, <3>4, OwnTake
  <2>3. CASE TakeStray(p)
    <3>1. PICK t \in FreeThreads : /\ state' = [state EXCEPT ![t] = "ready"]
                                   /\ held' = [held EXCEPT ![p] = t]
      BY <2>3 DEF TakeStray
    <3>2. t \in Threads /\ \A q \in Proxies : held[q] # t
      BY DEF FreeThreads, Held, Threads
    <3>3. held[p] = None /\ pc' = [pc EXCEPT ![p] = "start"] /\ Registered' = Registered
      BY <2>3 DEF TakeStray, Locking, OwnInv, Working, Registered
    <3> QED
      BY <3>1, <3>2, <3>3, OwnTake
  <2>4. CASE Split(p)
    <3>1. PICK t \in FreeThreads : /\ state' = [state EXCEPT ![t] = "ready"]
                                   /\ ranges' = Append(ranges, t)
                                   /\ held' = [held EXCEPT ![p] = t]
      BY <2>4 DEF Split
    <3>2. t \in Threads /\ \A q \in Proxies : held[q] # t
      BY DEF FreeThreads, Held, Threads
    <3>3. held[p] = None /\ pc' = [pc EXCEPT ![p] = "start"]
      BY <2>4 DEF Split, OwnInv, Working
    <3> QED
      BY <3>1, <3>2, <3>3, SplitRegisters, OwnTake
  <2>5. CASE Start(p) \/ Loop(p)
    BY <1>1, <2>5, OwnKeep DEF Start, Loop, rangeVars, Registered, Working
  <2>6. CASE RunFails(p) \/ ReceiveFails(p)
    BY <1>1, <2>6, OwnKeep DEF RunFails, ReceiveFails, rangeVars, Registered, Working
  <2>7. CASE DialFails(p) \/ FinishPanics(p)
    BY <2>7, OwnKeep DEF DialFails, FinishPanics, rangeVars, proxyVars, Registered
  <2>8. CASE Connect(p)
    <3>1. held[p] \in Threads /\ held[p] # None
      BY <2>8 DEF Connect, WorkInv, Working, Threads
    <3>2. state[held[p]] # "noWork" /\ state' = [state EXCEPT ![held[p]] = "receive"]
      BY <2>8, <3>1 DEF Connect, OwnInv
    <3>3. \A t \in Threads : state'[t] = "noWork" <=> state[t] = "noWork"
      BY <1>1, <3>1, <3>2
    <3> QED
      BY <1>1, <2>8, <3>3, OwnKeep DEF Connect, Registered, Working
  <2>9. CASE Receive(p)
    BY <1>1, <2>9, OwnKeep DEF Receive, Registered, Working
  <2>10. CASE Finish(p)
    <3> DEFINE T == held[p]
    <3>1. T \in Threads /\ T # None
      BY <2>10 DEF Finish, WorkInv, Working, Threads
    <3>2. /\ state' = [state EXCEPT ![T] = "noWork"]
          /\ held' = [held EXCEPT ![p] = None] /\ pc' = [pc EXCEPT ![p] = "idle"]
      BY <2>10 DEF Finish, Released
    <3>3. Registered' \subseteq Registered
      BY <2>10, FinishRegisters
    <3>4. \A q \in Proxies : q # p => held'[q] = held[q] /\ held[q] # T
      BY <1>1, <3>1, <3>2 DEF OwnInv, Exclusive
    <3>5. held'[p] = None /\ state'[T] = "noWork" /\ \A u \in Threads : u # T => state'[u] = state[u]
      BY <1>1, <3>1, <3>2
    <3>6. Exclusive'
      <4> SUFFICES ASSUME NEW q \in Proxies, NEW r \in Proxies,
                          held'[q] # None, held'[q] = held'[r]
                   PROVE  q = r
        BY DEF Exclusive
      <4>1. q # p /\ r # p
        BY <3>5
      <4>2. held'[q] = held[q] /\ held'[r] = held[r]
        BY <3>4, <4>1
      <4> QED
        BY <4>2 DEF OwnInv, Exclusive
    <3>7. NoOrphan'
      <4> SUFFICES ASSUME NEW u \in Registered', state'[u] # "noWork"
                   PROVE  \E q \in Proxies : held'[q] = u
        BY DEF NoOrphan
      <4>1. u \in Registered /\ u \in Threads /\ u # T
        BY <1>1, <3>3, <3>5 DEF Registered
      <4>2. PICK q \in Proxies : held[q] = u
        BY <3>5, <4>1 DEF OwnInv, NoOrphan
      <4> QED
        BY <3>4, <4>1, <4>2
    <3>8. \A q \in Proxies : held'[q] # None => state'[held'[q]] # "noWork"
      BY <1>1, <3>4, <3>5 DEF OwnInv
    <3>9. \A q \in Proxies : pc'[q] \notin Working => held'[q] = None
      BY <1>1, <3>2, <3>4, <3>5 DEF OwnInv
    <3> QED
      BY <3>6, <3>7, <3>8, <3>9 DEF OwnInv
  <2> QED
    BY <1>2, <2>1, <2>2, <2>3, <2>4, <2>5, <2>6, <2>7, <2>8, <2>9, <2>10 DEF ProxyStep
<1>3. CASE Complete \/ Snapshot \/ Truncate \/ WriteStat
  <2>1. UNCHANGED <<ranges, state, held, pc>>
    BY <1>3 DEF Complete, Snapshot, Truncate, WriteStat, rangeVars, proxyVars
  <2> QED
    BY <2>1, OwnKeep DEF Registered
<1>4. CASE Clear
  BY <1>4, OwnKeep DEF Clear, proxyVars, Registered
<1>5. CASE Restart
  <2>1. /\ \A q \in Proxies : held'[q] = None
        /\ state' = [t \in Threads |-> "noWork"]
    BY <1>5 DEF Restart
  <2>2. Registered' \subseteq Threads
    <3>1. TypeOK'
      BY <1>5, RestartType
    <3> QED
      BY <3>1 DEF TypeOK, Registered
  <2>3. Exclusive' /\ NoOrphan'
    BY <2>1, <2>2 DEF Exclusive, NoOrphan
  <2> QED
    BY <2>1, <2>3 DEF OwnInv
<1>6. CASE Stopped
  BY <1>6, OwnKeep DEF Stopped, vars, rangeVars, proxyVars, Registered
<1> QED
  BY <1>2, <1>3, <1>4, <1>5, <1>6 DEF Next, Tick

-----------------------------------------------------------------------------
(* Theorems *)

LEMMA IInvStep == IInv /\ [Next]_vars => IInv'
<1> SUFFICES ASSUME IInv, [Next]_vars PROVE IInv'
  OBVIOUS
<1>1. CASE Next
  BY <1>1, TypeStep, AccountedStep, WorkStep, OvershootStep, EndsStep, LockStep, StatStep DEF IInv
<1>2. CASE UNCHANGED vars
  <2> USE <1>2 DEF vars, rangeVars, lockVars, proxyVars, tickVars, ghostVars, IInv
  <2>1. TypeOK' /\ WorkInv' /\ Overshoot'
    BY DEF TypeOK, WorkInv, Overshoot
  <2>2. Accounted'
    BY DEF Accounted, Covered, Registered, Gone
  <2>3. EndsInv' /\ LockInv'
    BY DEF EndsInv, LockInv, Registered, KnownEnd
  <2>4. StatInv'
    BY DEF StatInv, ResumeAccounted, OnDisk, Resumable, CoveredBy, Gone, KnownEnd
  <2> QED
    BY <2>1, <2>2, <2>3, <2>4
<1> QED
  BY <1>1, <1>2

\* The inductive invariant holds in every reachable state.
THEOREM Invariance == Spec => []IInv
  BY InitIInv, IInvStep, PTL DEF Spec

\* Every variable keeps its type: no interleaving of splits, merges, restarts
\* and SaveStat moves an offset out of the file.
THEOREM TypeCorrect == Spec => []TypeOK
<1>1. IInv => TypeOK
  BY DEF IInv
<1> QED
  BY <1>1, Invariance, PTL

\* No byte disappears unexplained, whatever the number of proxies.
THEOREM EveryByteAccounted == Spec => []Accounted
<1>1. IInv => Accounted
  BY DEF IInv
<1> QED
  BY <1>1, Invariance, PTL

\* Outside SaveStat's truncate-write window the ".stat" file on disk leads to
\* every byte that is not in the file, so a kill there loses nothing.
THEOREM EveryByteResumable == Spec => []ResumeAccounted
<1>1. IInv => ResumeAccounted
  BY DEF IInv, StatInv
<1> QED
  BY <1>1, Invariance, PTL

\* Who holds which thread, with what that rests on, holds in every reachable state.
LEMMA OwnInvariance == Spec => []OwnInv
<1>1. Init => OwnInv
  <2> SUFFICES ASSUME Init PROVE OwnInv
    OBVIOUS
  <2>1. 1 \in Threads /\ Registered = {1}
    BY ConstantsAssumption DEF Init, Threads, Registered
  <2> QED
    BY <2>1 DEF Init, OwnInv, Exclusive, NoOrphan
<1>2. IInv /\ OwnInv /\ [Next]_vars => OwnInv'
  <2> SUFFICES ASSUME IInv, OwnInv, [Next]_vars PROVE OwnInv'
    OBVIOUS
  <2>1. CASE Next
    BY <2>1, OwnStep DEF IInv
  <2>2. CASE UNCHANGED vars
    BY <2>2, OwnKeep DEF IInv, vars, rangeVars, proxyVars, Registered
  <2> QED
    BY <2>1, <2>2
<1> QED
  BY <1>1, <1>2, Invariance, PTL DEF Spec

\* A thread is never held by two proxies, so its cur has a single writer, however
\* proxies come, fail, merge and are restarted.
THEOREM OneWriter == Spec => []Exclusive
<1>1. OwnInv => Exclusive
  BY DEF OwnInv
<1> QED
  BY <1>1, OwnInvariance, PTL

\* A range that stays marked as being worked on has a proxy working on it: no
\* failure or merge leaves it behind where getThread would not take it again.
THEOREM NobodyOrphaned == Spec => []NoOrphan
<1>1. OwnInv => NoOrphan
  BY DEF OwnInv
<1> QED
  BY <1>1, OwnInvariance, PTL

-----------------------------------------------------------------------------
(* A proxy leaves only when others are busy with all of the ranges. *)

LEMMA StaysStep ==
    ASSUME TypeOK, OwnInv, SomeoneStays, Next
    PROVE  SomeoneStays'
<1> SUFFICES ASSUME Alive', ranges' # <<>>
             PROVE  \E p \in Proxies : pc'[p] # "left"
  BY DEF SomeoneStays
<1> USE DEF TypeOK
<1>1. ASSUME NEW p \in Proxies, ProxyStep(p)
      PROVE  \E q \in Proxies : pc'[q] # "left"
  <2>1. CASE NothingLeft(p)
    BY <2>1 DEF NothingLeft, rangeVars
  <2>2. CASE TooSmall(p)
    <3>1. PICK i \in DOMAIN ranges : TRUE
      BY <2>2 DEF TooSmall
    <3>2. ranges[i] \in Registered /\ ranges[i] \in Threads /\ state[ranges[i]] # "noWork"
      BY <2>2, <3>1 DEF TooSmall, Idle, Registered
    <3>3. PICK q \in Proxies : held[q] = ranges[i]
      BY <3>2 DEF OwnInv, NoOrphan
    <3>4. pc[q] \in Working
      BY <3>2, <3>3, ConstantsAssumption DEF OwnInv, Threads
    <3>5. q # p /\ pc' = [pc EXCEPT ![p] = "left"]
      BY <2>2, <3>4 DEF TooSmall, Locking, Working
    <3> QED
      BY <3>4, <3>5 DEF Working
  <2>3. CASE DialFails(p) \/ FinishPanics(p)
    BY <2>3 DEF DialFails, FinishPanics, Alive
  <2>4. CASE TakeIdle(p) \/ TakeStray(p) \/ ScanSplit(p) \/ Split(p)
    BY <2>4 DEF TakeIdle, TakeStray, ScanSplit, Split
  <2>5. CASE Start(p) \/ Connect(p) \/ RunFails(p) \/ Loop(p)
    BY <2>5 DEF Start, Connect, RunFails, Loop
  <2>6. CASE Receive(p) \/ ReceiveFails(p) \/ Finish(p)
    BY <2>6 DEF Receive, ReceiveFails, Finish
  <2> QED
    BY <1>1, <2>1, <2>2, <2>3, <2>4, <2>5, <2>6 DEF ProxyStep
<1>2. CASE Complete \/ Snapshot \/ Truncate \/ WriteStat \/ Stopped
  <2>1. UNCHANGED <<ranges, pc, panic>>
    BY <1>2 DEF Complete, Snapshot, Truncate, WriteStat, Stopped, vars, rangeVars, proxyVars
  <2> QED
    BY <2>1 DEF SomeoneStays, Alive
<1>3. CASE Clear
  BY <1>3 DEF Clear
<1>4. CASE Restart
  BY <1>4, ProxiesAssumption DEF Restart
<1> QED
  BY <1>1, <1>2, <1>3, <1>4 DEF Next, Tick

\* While a range is left and the process lives, some proxy is still on the task.
THEOREM SomeoneWorks == Spec => []SomeoneStays
<1>1. Init => SomeoneStays
  BY ProxiesAssumption DEF Init, SomeoneStays
<1>2. IInv /\ OwnInv /\ SomeoneStays /\ [Next]_vars => SomeoneStays'
  <2> SUFFICES ASSUME IInv, OwnInv, SomeoneStays, [Next]_vars PROVE SomeoneStays'
    OBVIOUS
  <2>1. CASE Next
    BY <2>1, StaysStep DEF IInv
  <2>2. CASE UNCHANGED vars
    BY <2>2 DEF vars, rangeVars, proxyVars, SomeoneStays, Alive
  <2> QED
    BY <2>1, <2>2
<1> QED
  BY <1>1, <1>2, Invariance, OwnInvariance, PTL DEF Spec

-----------------------------------------------------------------------------
(* Never more ranges than proxies. *)

N == Cardinality(Proxies)

\* The ranges are distinct, as few as the proxies in memory, in SaveStat's
\* buffer and on disk, and all busy between the two halves of a split.
BoundInv ==
    /\ \A i, j \in DOMAIN ranges : ranges[i] = ranges[j] => i = j
    /\ RangesBounded
    /\ Len(buf) <= N /\ Len(stat) <= N
    /\ \A p \in Proxies : pc[p] = "split" => \A t \in Registered : state[t] # "noWork"

LEMMA ProxiesCount == N \in Nat /\ 1 <= N
<1>1. N \in Nat
  BY ProxiesAssumption, FS_CardinalityType DEF N
<1>2. N # 0
  BY ProxiesAssumption, FS_EmptySet DEF N
<1> QED
  BY <1>1, <1>2

\* A set of n things put one to one into m things: n <= m.
LEMMA Injected ==
    ASSUME NEW n \in Nat, NEW T, IsFiniteSet(T), NEW f \in [1..n -> T],
           \A i, j \in 1..n : f[i] = f[j] => i = j
    PROVE  n <= Cardinality(T)
<1>1. f \in Injection(1..n, T)
  BY DEF Injection, IsInjective
<1>2. Cardinality(1..n) <= Cardinality(T)
  BY <1>1, FS_Injection
<1>3. Cardinality(1..n) = n
  BY FS_Interval
<1> QED
  BY <1>2, <1>3

\* A listing of indices up to n has at most n elements.
LEMMA ListingBound ==
    ASSUME NEW n \in Nat, NEW K \in SUBSET (1..n), NEW f \in Listings(K)
    PROVE  \E k \in 0..n : DOMAIN f = 1..k
<1>1. PICK k \in 0..MaxThreads : /\ f \in [1..k -> K]
                                 /\ \A i, j \in 1..k : i < j => f[i] < f[j]
  BY DEF Listings
<1>2. k \in Nat
  BY <1>1, ConstantsAssumption
<1>3. f \in [1..k -> 1..n]
  BY <1>1
<1>4. \A i, j \in 1..k : f[i] = f[j] => i = j
  BY <1>1, <1>2, <1>3
<1>5. IsFiniteSet(1..n) /\ Cardinality(1..n) = n
  BY FS_Interval
<1>6. k <= n
  BY <1>2, <1>3, <1>4, <1>5, Injected
<1> QED
  BY <1>1, <1>2, <1>6

\* When every range is busy, each has a proxy of its own, none of them p.
LEMMA BusyCount ==
    ASSUME TypeOK, OwnInv, BoundInv, NEW p \in Proxies, held[p] = None,
           \A t \in Registered : state[t] # "noWork"
    PROVE  Len(ranges) + 1 <= N
<1> DEFINE n == Len(ranges)
           owner == [i \in 1..n |-> CHOOSE q \in Proxies : held[q] = ranges[i]]
<1>1. n \in Nat /\ DOMAIN ranges = 1..n /\ \A i \in 1..n : ranges[i] \in Threads
  BY DEF TypeOK
<1>2. \A i \in 1..n : \E q \in Proxies : held[q] = ranges[i]
  BY <1>1 DEF OwnInv, NoOrphan, Registered
<1>3. \A i \in 1..n : owner[i] \in Proxies /\ held[owner[i]] = ranges[i]
  BY <1>2
<1>4. \A i \in 1..n : owner[i] # p
  BY <1>1, <1>3, ConstantsAssumption DEF Threads
<1>5. owner \in [1..n -> Proxies \ {p}]
  BY <1>3, <1>4
<1>6. \A i, j \in 1..n : owner[i] = owner[j] => i = j
  BY <1>1, <1>3 DEF BoundInv
<1>7. IsFiniteSet(Proxies \ {p}) /\ Cardinality(Proxies \ {p}) = N - 1
  BY ProxiesAssumption, FS_RemoveElement DEF N
<1> HIDE DEF owner
<1>8. n <= N - 1
  BY <1>1, <1>5, <1>6, <1>7, Injected
<1> QED
  BY <1>1, <1>8, ProxiesCount

\* Removing an element of a sequence without repetitions leaves none.
LEMMA WithoutDistinct ==
    ASSUME NEW S, NEW s \in Seq(S), NEW pos \in DOMAIN s,
           \A i, j \in DOMAIN s : s[i] = s[j] => i = j
    PROVE  /\ Len(Without(s, pos)) = Len(s) - 1
           /\ \A i, j \in DOMAIN Without(s, pos) :
                 Without(s, pos)[i] = Without(s, pos)[j] => i = j
<1> DEFINE w == Without(s, pos)
           at(i) == IF i < pos THEN i ELSE i + 1
<1>1. Len(s) \in Nat /\ DOMAIN s = 1..Len(s) /\ Len(s) - 1 \in Nat
  <2>1. Len(s) \in Nat /\ DOMAIN s = 1..Len(s)
    OBVIOUS
  <2> QED
    BY <2>1
<1>2. w = [i \in 1..(Len(s) - 1) |-> s[at(i)]]
  BY DEF Without
<1>3. \A i \in 1..(Len(s) - 1) : at(i) \in DOMAIN s
  BY <1>1
<1>4. \A i, j \in 1..(Len(s) - 1) : at(i) = at(j) => i = j
  BY <1>1
<1> HIDE DEF at
<1>5. Len(w) = Len(s) - 1
  BY <1>1, <1>2
<1> QED
  BY <1>2, <1>3, <1>4, <1>5

\* The end of Go never makes the slice longer, nor repeats a range in it.
LEMMA FinishLength ==
    ASSUME TypeOK, BoundInv, NEW p \in Proxies, Finish(p)
    PROVE  /\ Len(ranges') <= Len(ranges)
           /\ \A i, j \in DOMAIN ranges' : ranges'[i] = ranges'[j] => i = j
<1>1. ranges \in Seq(Threads) /\ Len(ranges) \in Nat
  BY DEF TypeOK
<1>2. CASE MergedOrFinished(p)
  <2>1. ranges # <<>> /\ ranges' = Without(ranges, Pos(held[p]))
    BY <1>2 DEF Finish
  <2>2. Pos(held[p]) \in DOMAIN ranges
    BY <1>1, <2>1, PosInRanges
  <2> QED
    BY <1>1, <2>1, <2>2, WithoutDistinct DEF BoundInv
<1>3. CASE ~MergedOrFinished(p)
  BY <1>1, <1>3 DEF Finish, BoundInv
<1> QED
  BY <1>2, <1>3

\* Between the halves of a split nobody but its proxy takes or returns a range.
LEMMA SplitStaysBusy ==
    ASSUME IInv, BoundInv, Next, NEW p \in Proxies, pc'[p] = "split"
    PROVE  \A t \in Registered' : state'[t] # "noWork"
<1> USE ConstantsAssumption
<1>1. /\ pc \in [Proxies -> Locations] /\ held \in [Proxies -> Threads \cup {None}]
      /\ state \in [Threads -> States] /\ ranges \in Seq(Threads)
  BY DEF IInv, TypeOK
<1>2. \A q \in Proxies : pc[q] = "split" =>
          mu = q /\ \A t \in Registered : state[t] # "noWork"
  BY DEF IInv, LockInv, BoundInv
<1>3. Registered \subseteq Threads
  BY <1>1 DEF Registered
<1>4. ASSUME UNCHANGED <<ranges, state>>, pc[p] = "split"
      PROVE  \A t \in Registered' : state'[t] # "noWork"
  BY <1>2, <1>4 DEF Registered
<1>5. ASSUME NEW q \in Proxies, ProxyStep(q)
      PROVE  \A t \in Registered' : state'[t] # "noWork"
  <2>1. CASE ScanSplit(q)
    <3>1. Idle = {} /\ UNCHANGED <<ranges, state>>
      BY <2>1 DEF ScanSplit, rangeVars
    <3> QED
      BY <3>1 DEF Idle, Registered
  <2>2. CASE NothingLeft(q) \/ TooSmall(q)
    BY <1>1, <1>4, <2>2 DEF NothingLeft, TooSmall, rangeVars
  <2>3. CASE TakeIdle(q) \/ TakeStray(q) \/ Finish(q) \/ FinishPanics(q)
    <3>1. mu = None
      BY <2>3 DEF TakeIdle, TakeStray, Locking, Finish, FinishPanics
    <3>2. pc[p] # "split"
      BY <1>2, <3>1
    <3> QED
      BY <1>1, <2>3, <3>2 DEF TakeIdle, TakeStray, Finish, FinishPanics, proxyVars
  <2>4. CASE Split(q)
    <3>1. pc' = [pc EXCEPT ![q] = "start"] /\ pc[q] = "split"
      BY <2>4 DEF Split
    <3>2. p # q /\ pc[p] = "split"
      BY <1>1, <3>1
    <3> QED
      BY <1>2, <3>1, <3>2
  <2>5. CASE Start(q) \/ RunFails(q) \/ DialFails(q) \/ Loop(q) \/ ReceiveFails(q)
    BY <1>1, <1>4, <2>5 DEF Start, RunFails, DialFails, Loop, ReceiveFails, rangeVars, proxyVars
  <2>6. CASE Connect(q)
    <3>1. /\ ranges' = ranges /\ state' = [state EXCEPT ![held[q]] = "receive"]
          /\ pc' = [pc EXCEPT ![q] = "loop"]
      BY <2>6 DEF Connect
    <3>2. pc[p] = "split"
      BY <1>1, <3>1
    <3> QED
      BY <1>1, <1>2, <1>3, <3>1, <3>2 DEF Registered
  <2>7. CASE Receive(q)
    <3>1. UNCHANGED <<ranges, state>> /\ pc' = [pc EXCEPT ![q] = IF FileOpen THEN "loop" ELSE "finish"]
      BY <2>7 DEF Receive
    <3> QED
      BY <1>1, <1>4, <3>1
  <2> QED
    BY <1>5, <2>1, <2>2, <2>3, <2>4, <2>5, <2>6, <2>7 DEF ProxyStep
<1>6. CASE Complete \/ Snapshot \/ Truncate \/ WriteStat \/ Stopped
  BY <1>4, <1>6 DEF Complete, Snapshot, Truncate, WriteStat, Stopped, vars, rangeVars, proxyVars
<1>7. CASE Clear
  BY <1>7 DEF Clear, Registered
<1>8. CASE Restart
  BY <1>8 DEF Restart
<1> QED
  BY <1>5, <1>6, <1>7, <1>8 DEF Next, Tick

LEMMA BoundStep ==
    ASSUME IInv, OwnInv, BoundInv, Next
    PROVE  BoundInv'
<1>1. /\ ranges \in Seq(Threads) /\ Len(ranges) \in Nat
      /\ buf \in Seq(Lines) /\ Len(buf) \in Nat
      /\ stat \in Seq(Lines) /\ Len(stat) \in Nat
      /\ N \in Nat /\ 1 <= N
  BY ProxiesCount DEF IInv, TypeOK
<1>2. /\ \A i, j \in DOMAIN ranges : ranges[i] = ranges[j] => i = j
      /\ Len(ranges) <= N /\ Len(buf) <= N /\ Len(stat) <= N
  BY DEF BoundInv, RangesBounded, N
<1>3. SUFFICES /\ \A i, j \in DOMAIN ranges' : ranges'[i] = ranges'[j] => i = j
               /\ Len(ranges') <= N /\ Len(buf') <= N /\ Len(stat') <= N
  BY <1>3, SplitStaysBusy DEF BoundInv, RangesBounded, N
<1>4. ASSUME NEW p \in Proxies, ProxyStep(p)
      PROVE  /\ \A i, j \in DOMAIN ranges' : ranges'[i] = ranges'[j] => i = j
             /\ Len(ranges') <= N /\ Len(buf') <= N /\ Len(stat') <= N
  <2>1. CASE Split(p)
    <3>1. PICK t \in FreeThreads : ranges' = Append(ranges, t)
      BY <2>1 DEF Split
    <3>2. t \in Threads /\ t \notin Registered
      BY DEF FreeThreads
    <3>3. \A i \in DOMAIN ranges : ranges[i] # t
      BY <3>2 DEF Registered
    <3>4. held[p] = None /\ \A u \in Registered : state[u] # "noWork"
      BY <2>1 DEF Split, OwnInv, Working, BoundInv
    <3>5. Len(ranges) + 1 <= N
      BY <3>4, BusyCount DEF IInv
    <3>6. UNCHANGED <<buf, stat>>
      BY <2>1 DEF Split, tickVars
    <3>7. /\ Len(ranges') = Len(ranges) + 1 /\ DOMAIN ranges' = 1..(Len(ranges) + 1)
          /\ DOMAIN ranges = 1..Len(ranges)
          /\ ranges'[Len(ranges) + 1] = t
          /\ \A i \in 1..Len(ranges) : ranges'[i] = ranges[i]
      BY <1>1, <3>1, <3>2
    <3> QED
      BY <1>1, <1>2, <3>3, <3>5, <3>6, <3>7
  <2>2. CASE Finish(p)
    <3>1. UNCHANGED <<buf, stat>>
      BY <2>2 DEF Finish, tickVars
    <3>2. Len(ranges') \in Nat
      BY TypeStep DEF IInv, TypeOK
    <3> QED
      BY <1>1, <1>2, <2>2, <3>1, <3>2, FinishLength DEF IInv
  <2>3. CASE ~Split(p) /\ ~Finish(p)
    <3>1. UNCHANGED <<ranges, buf, stat>>
      <4>1. CASE QuietStep(p)
        BY <4>1, QuietFrame DEF fileVars, tickVars
      <4>2. CASE FetchStep(p) \/ TakeStray(p)
        BY <4>2 DEF FetchStep, Connect, Receive, TakeStray, tickVars
      <4> QED
        BY <1>4, <2>3, <4>1, <4>2 DEF ProxyStep, QuietStep, FetchStep
    <3> QED
      BY <1>2, <3>1
  <2> QED
    BY <2>1, <2>2, <2>3
<1>5. CASE Complete
  <2>1. UNCHANGED <<ranges, buf>> /\ stat' = <<>>
    BY <1>5 DEF Complete, rangeVars
  <2> QED
    BY <1>1, <1>2, <2>1
<1>6. CASE Snapshot
  <2>1. PICK f \in Listings(Saved) :
           buf' = [j \in DOMAIN f |-> [cur |-> cur[ranges[f[j]]], end |-> end[ranges[f[j]]]]]
    BY <1>6 DEF Snapshot
  <2>2. Saved \in SUBSET (1..Len(ranges))
    BY <1>1 DEF Saved
  <2>3. PICK k \in 0..Len(ranges) : DOMAIN f = 1..k
    BY <1>1, <2>2, ListingBound
  <2>4. Len(buf') = k
    BY <1>1, <2>1, <2>3
  <2>5. UNCHANGED <<ranges, stat>>
    BY <1>6 DEF Snapshot, rangeVars
  <2> QED
    BY <1>1, <1>2, <2>3, <2>4, <2>5
<1>7. CASE Clear
  <2>1. UNCHANGED <<buf, stat>> /\ ranges' = <<>>
    BY <1>7 DEF Clear
  <2> QED
    BY <1>1, <1>2, <2>1
<1>8. CASE Truncate
  <2> DEFINE n == IF Len(buf) < Len(stat) THEN Len(buf) ELSE Len(stat)
  <2>1. UNCHANGED <<ranges, buf>> /\ stat' = [i \in 1..n |-> stat[i]]
    BY <1>8 DEF Truncate, rangeVars, Prefix
  <2>2. n \in Nat /\ n <= Len(stat)
    BY <1>1
  <2> HIDE DEF n
  <2>3. Len(stat') = n
    BY <2>1, <2>2
  <2> QED
    BY <1>1, <1>2, <2>1, <2>2, <2>3
<1>9. CASE WriteStat
  <2>1. UNCHANGED ranges /\ stat' = buf /\ buf' = <<>>
    BY <1>9 DEF WriteStat, rangeVars
  <2> QED
    BY <1>1, <1>2, <2>1
<1>10. CASE Restart
  <2>1. PICK f \in Listings(Resumable(stat)) :
           ranges' = IF f = <<>> THEN <<1>> ELSE [j \in DOMAIN f |-> j]
    BY <1>10 DEF Restart, Reload
  <2>2. Resumable(stat) \in SUBSET (1..Len(stat))
    BY <1>1 DEF Resumable
  <2>3. PICK k \in 0..Len(stat) : DOMAIN f = 1..k
    BY <1>1, <2>2, ListingBound
  <2>4. UNCHANGED stat /\ buf' = <<>>
    BY <1>10 DEF Restart
  <2>5. CASE f = <<>>
    <3>1. ranges' = <<1>>
      BY <2>1, <2>5
    <3> QED
      BY <1>1, <1>2, <2>4, <3>1
  <2>6. CASE f # <<>>
    <3>1. ranges' = [j \in 1..k |-> j] /\ k \in Nat
      BY <1>1, <2>1, <2>3, <2>6
    <3>2. Len(ranges') = k
      BY <3>1
    <3> QED
      BY <1>1, <1>2, <2>3, <2>4, <3>1, <3>2
  <2> QED
    BY <2>5, <2>6
<1>11. CASE Stopped
  BY <1>2, <1>11 DEF Stopped, vars, rangeVars, tickVars
<1> QED
  BY <1>4, <1>5, <1>6, <1>7, <1>8, <1>9, <1>10, <1>11 DEF Next, Tick

\* Splitting never makes more ranges than there are proxies, and neither the
\* ".stat" file nor a restart adds any.
THEOREM NoMoreThanProxies == Spec => []RangesBounded
<1>1. Init => BoundInv
  <2> SUFFICES ASSUME Init PROVE BoundInv
    OBVIOUS
  <2>1. Len(ranges) = 1 /\ Len(buf) = 0 /\ Len(stat) = 0
    BY DEF Init
  <2> QED
    BY <2>1, ProxiesCount DEF Init, BoundInv, RangesBounded, N
<1>2. IInv /\ OwnInv /\ BoundInv /\ [Next]_vars => BoundInv'
  <2> SUFFICES ASSUME IInv, OwnInv, BoundInv, [Next]_vars PROVE BoundInv'
    OBVIOUS
  <2>1. CASE Next
    BY <2>1, BoundStep
  <2>2. CASE UNCHANGED vars
    BY <2>2 DEF vars, rangeVars, proxyVars, tickVars, BoundInv, RangesBounded, Registered
  <2> QED
    BY <2>1, <2>2
<1>3. BoundInv => RangesBounded
  BY DEF BoundInv
<1> QED
  BY <1>1, <1>2, <1>3, Invariance, OwnInvariance, PTL DEF Spec
-----------------------------------------------------------------------------
(* What is lost when nothing fails and no scan misses its own range. *)

Whole == Bytes \subseteq written \cup seams

Undisturbed == faults = 0 /\ crashes = 0 /\ missed = {}

\* A range leaves the slice only when its proxy is through with it; the other
\* ways (a thread that getThread made up, SaveStat's t.ranges = nil) are open only
\* when every byte is in the file or a seam, and stay so.
LossInv ==
    Undisturbed =>
      /\ Bytes \subseteq written \cup Covered \cup seams
      /\ ticker \in {"clear", "done"} => Whole
      /\ \A p \in Proxies : pc[p] \in Working => held[p] \in Registered \/ Whole
      /\ \A p \in Proxies : pc[p] = "finish" =>
            Whole \/ Closed(cur[held[p]], end[held[p]]) \subseteq written \cup seams

\* ... the same for the states in which some byte is neither written nor a seam.
OpenLoss ==
    /\ Bytes \subseteq written \cup Covered \cup seams
    /\ ticker \notin {"clear", "done"}
    /\ \A p \in Proxies : pc[p] \in Working => held[p] \in Registered
    /\ \A p \in Proxies : pc[p] = "finish" =>
          Closed(cur[held[p]], end[held[p]]) \subseteq written \cup seams

LEMMA WholeStays ==
    ASSUME IInv, Next
    PROVE  (Whole => Whole') /\ (Undisturbed' => Undisturbed)
<1>1. written \subseteq written' /\ seams \subseteq seams'
  BY Monotone DEF IInv
<1>3. missed \subseteq missed' /\ (faults' = faults \/ faults' = faults + 1)
      /\ (crashes' = crashes \/ crashes' = crashes + 1)
  <2>1. ASSUME NEW p \in Proxies, ProxyStep(p)
        PROVE  missed \subseteq missed' /\ (faults' = faults \/ faults' = faults + 1) /\ crashes' = crashes
    <3>1. CASE NothingLeft(p) \/ TakeIdle(p) \/ TooSmall(p) \/ TakeStray(p) \/ ScanSplit(p)
      BY <3>1 DEF NothingLeft, TakeIdle, TooSmall, TakeStray, ScanSplit, ghostVars
    <3>2. CASE Split(p) \/ Start(p) \/ Connect(p) \/ RunFails(p) \/ DialFails(p)
      BY <3>2 DEF Split, Start, Connect, RunFails, DialFails, ghostVars
    <3>3. CASE Loop(p) \/ Receive(p) \/ ReceiveFails(p) \/ Finish(p) \/ FinishPanics(p)
      BY <3>3 DEF Loop, Receive, ReceiveFails, Finish, FinishPanics, ghostVars
    <3> QED
      BY <2>1, <3>1, <3>2, <3>3 DEF ProxyStep
  <2>2. CASE Complete \/ Snapshot \/ Clear \/ Truncate \/ WriteStat
    BY <2>2 DEF Complete, Snapshot, Clear, Truncate, WriteStat, ghostVars
  <2>3. CASE Restart \/ Stopped
    BY <2>3 DEF Restart, Stopped, vars, ghostVars
  <2> QED
    BY <2>1, <2>2, <2>3 DEF Next, Tick
<1>4. faults \in Nat /\ crashes \in Nat
  BY ConstantsAssumption DEF IInv, TypeOK
<1> QED
  BY <1>1, <1>3, <1>4 DEF Whole, Undisturbed

\* Steps that touch neither a range nor the file nor a proxy.
LEMMA OpenKeeps ==
    ASSUME OpenLoss, UNCHANGED <<fileVars, held, pc>>, ticker' \notin {"clear", "done"}
    PROVE  OpenLoss'
  BY DEF OpenLoss, fileVars, Covered, Registered

\* A range of which nothing is left but its end, a seam, is through.
LEMMA NothingBelowEnd ==
    ASSUME TypeOK, EndsInv, NEW t \in Registered, ~(cur[t] < end[t])
    PROVE  Closed(cur[t], end[t]) \subseteq seams
<1>1. t \in Threads /\ KnownEnd(end[t])
  BY DEF TypeOK, EndsInv, Registered
<1>2. cur[t] \in Nat /\ end[t] \in Nat
  BY <1>1, ConstantsAssumption DEF TypeOK, Offsets
<1> SUFFICES ASSUME NEW b \in Bytes, cur[t] <= b, b <= end[t] PROVE b \in seams
  BY DEF Closed
<1>3. b = end[t] /\ b # Length
  BY <1>2, ConstantsAssumption DEF Bytes
<1> QED
  BY <1>1, <1>3 DEF KnownEnd

LEMMA OpenQuiet ==
    ASSUME IInv, OpenLoss, NEW p \in Proxies, QuietStep(p), Undisturbed, Undisturbed'
    PROVE  OpenLoss'
<1>1. TypeOK /\ WorkInv /\ EndsInv
  BY DEF IInv
<1>2. UNCHANGED <<fileVars, tickVars>>
  BY QuietFrame
<1>3. /\ pc \in [Proxies -> Locations] /\ held \in [Proxies -> Threads \cup {None}]
  BY <1>1 DEF TypeOK
<1>4. Bytes \subseteq written' \cup Covered' \cup seams' /\ Registered' = Registered
      /\ ticker' \notin {"clear", "done"}
  BY <1>2 DEF OpenLoss, fileVars, tickVars, Covered, Registered
<1>5. CASE NothingLeft(p) \/ TooSmall(p) \/ ScanSplit(p)
  BY <1>2, <1>3, <1>4, <1>5 DEF NothingLeft, TooSmall, ScanSplit, OpenLoss, fileVars, Working
<1>6. CASE TakeIdle(p)
  <2>1. PICK i \in DOMAIN ranges : held' = [held EXCEPT ![p] = ranges[i]]
    BY <1>6 DEF TakeIdle, Idle
  <2>2. ranges[i] \in Registered /\ pc' = [pc EXCEPT ![p] = "start"]
    BY <1>6, <2>1 DEF TakeIdle, Registered
  <2> QED
    BY <1>2, <1>3, <1>4, <2>1, <2>2 DEF OpenLoss, fileVars, Working
<1>7. CASE Start(p) \/ Loop(p)
  <2>1. /\ held' = held /\ pc[p] \in Working
        /\ \A q \in Proxies : q # p => pc'[q] = pc[q]
        /\ pc'[p] \in {"dial", "read", "finish"}
        /\ pc'[p] = "finish" => ~(cur[held[p]] < end[held[p]])
    BY <1>3, <1>7 DEF Start, Loop, Working
  <2>2. held[p] \in Registered
    BY <2>1 DEF OpenLoss
  <2>3. pc'[p] = "finish" => Closed(cur[held[p]], end[held[p]]) \subseteq seams
    BY <1>1, <2>1, <2>2, NothingBelowEnd
  <2> QED
    BY <1>2, <1>4, <2>1, <2>2, <2>3 DEF OpenLoss, fileVars, Working
<1>8. CASE RunFails(p) \/ DialFails(p) \/ ReceiveFails(p)
  BY <1>8 DEF RunFails, DialFails, ReceiveFails, Undisturbed
<1>9. CASE FinishPanics(p)
  BY <1>2, <1>4, <1>9, OpenKeeps DEF FinishPanics, proxyVars, tickVars
<1> QED
  BY <1>5, <1>6, <1>7, <1>8, <1>9 DEF QuietStep

LEMMA OpenFetch ==
    ASSUME IInv, OwnInv, OpenLoss, NEW p \in Proxies, FetchStep(p)
    PROVE  OpenLoss'
<1>1. TypeOK /\ WorkInv
  BY DEF IInv
<1>2. PICK n \in Nat, t \in Threads :
         /\ t = held[p]
         /\ cur' = [cur EXCEPT ![t] = cur[t] + n]
         /\ written' = written \cup {b \in Bytes : cur[t] <= b /\ b < cur[t] + n}
         /\ UNCHANGED <<ranges, end, seams, tickVars, held>>
  BY <1>1, FetchFacts
<1>3. /\ pc \in [Proxies -> Locations]
      /\ cur \in [Threads -> 0..Length] /\ end \in [Threads -> 0..Length]
  BY <1>1 DEF TypeOK, Offsets
<1>4. pc' = [pc EXCEPT ![p] = "loop"] /\ pc[p] \in Working
  BY DEF FetchStep, Connect, Receive, Working, FileOpen, OpenLoss
<1>5. Registered' = Registered /\ Registered \subseteq Threads
  BY <1>1, <1>2 DEF Registered, TypeOK
<1>6. Bytes \subseteq written' \cup Covered' \cup seams'
  <2> SUFFICES ASSUME NEW b \in Bytes, b \notin written', b \notin seams
               PROVE  b \in Covered'
    BY <1>2
  <2>1. PICK u \in Registered : cur[u] <= b /\ b <= end[u]
    BY <1>2 DEF OpenLoss, Covered
  <2>2. b \in Int /\ cur[t] \in Int /\ cur[t] + n \in Int
    BY <1>2, <1>3, ConstantsAssumption DEF Bytes
  <2>3. cur'[u] <= b
    BY <1>2, <1>3, <1>5, <2>1, <2>2
  <2> QED
    BY <1>2, <1>5, <2>1, <2>3 DEF Covered
<1>7. ASSUME NEW q \in Proxies, pc'[q] = "finish"
      PROVE  Closed(cur'[held'[q]], end'[held'[q]]) \subseteq written' \cup seams'
  <2>1. q # p /\ pc[q] = "finish"
    BY <1>3, <1>4, <1>7
  <2>2. held[q] # t /\ held[q] \in Threads
    BY <1>1, <1>2, <2>1, ConstantsAssumption DEF OwnInv, Exclusive, Threads, WorkInv, Working
  <2>3. cur'[held[q]] = cur[held[q]]
    BY <1>2, <1>3, <2>2
  <2> QED
    BY <1>2, <2>1, <2>3 DEF OpenLoss
<1> QED
  BY <1>2, <1>3, <1>4, <1>5, <1>6, <1>7 DEF OpenLoss, tickVars, Closed
\* The halves of a split cover what was covered, its seam excepted, whatever the
\* owner of prev did since the scan.
LEMMA OpenSplit ==
    ASSUME IInv, OwnInv, OpenLoss, NEW p \in Proxies, Split(p)
    PROVE  OpenLoss'
<1>1. TypeOK /\ WorkInv /\ LockInv
  BY DEF IInv
<1>2. PICK mid \in Nat, t \in FreeThreads :
         /\ prev \in Threads
         /\ cur' = [cur EXCEPT ![t] = mid]
         /\ end' = [end EXCEPT ![t] = end[prev], ![prev] = mid - 1]
         /\ ranges' = Append(ranges, t)
         /\ held' = [held EXCEPT ![p] = t]
         /\ seams' = seams \cup {mid - 1}
         /\ cur[prev] <= end[prev] => cur[prev] <= mid /\ mid <= end[prev]
         /\ end[prev] < cur[prev] => mid <= cur[prev]
  BY <1>1, SplitFacts
<1>3. /\ pc \in [Proxies -> Locations] /\ held \in [Proxies -> Threads \cup {None}]
      /\ cur \in [Threads -> 0..Length] /\ end \in [Threads -> 0..Length]
  BY <1>1 DEF TypeOK, Offsets
<1>4. /\ t \in Threads /\ t \notin Registered /\ \A q \in Proxies : held[q] # t
  BY ConstantsAssumption DEF FreeThreads, Held, Threads
<1>5. Registered' = Registered \cup {t} /\ Registered \subseteq Threads
  <2>1. Registered' = Registered \cup {t}
    BY <1>1, <1>2, <1>4, SplitRegisters
  <2>2. Registered \subseteq Threads
    BY <1>1 DEF TypeOK, Registered
  <2> QED
    BY <2>1, <2>2
<1>6. /\ UNCHANGED <<written, ticker>> /\ pc' = [pc EXCEPT ![p] = "start"]
  BY DEF Split, tickVars
<1>7. \A u \in Threads : u # t => /\ cur'[u] = cur[u]
                                  /\ end'[u] = IF u = prev THEN mid - 1 ELSE end[u]
  BY <1>2, <1>3
<1>8. cur'[t] = mid /\ (prev # t => end'[t] = end[prev])
  BY <1>2, <1>3, <1>4
<1>9. cur[prev] \in Int /\ end[prev] \in Int /\ \A b \in Bytes : b \in Int
  BY <1>2, <1>3, ConstantsAssumption DEF Bytes
<1>10. Bytes \subseteq written' \cup Covered' \cup seams'
  <2> SUFFICES ASSUME NEW b \in Bytes, b \notin written', b \notin seams'
               PROVE  b \in Covered'
    OBVIOUS
  <2>1. PICK u \in Registered : cur[u] <= b /\ b <= end[u]
    BY <1>2, <1>6 DEF OpenLoss, Covered
  <2>2. u # t /\ u \in Threads /\ u \in Registered' /\ t \in Registered'
    BY <1>4, <1>5
  <2>3. CASE u # prev
    BY <1>7, <2>1, <2>2, <2>3 DEF Covered
  <2>4. CASE u = prev /\ b <= mid - 1
    BY <1>7, <2>1, <2>2, <2>4 DEF Covered
  <2>5. CASE u = prev /\ ~(b <= mid - 1)
    <3>1. mid <= b
      BY <1>9, <2>5
    <3>2. end'[t] = end[prev]
      BY <1>8, <2>2, <2>5
    <3> QED
      BY <1>8, <2>1, <2>2, <2>5, <3>1, <3>2 DEF Covered
  <2> QED
    BY <2>3, <2>4, <2>5
<1>11. ASSUME NEW q \in Proxies, pc'[q] = "finish"
       PROVE  Closed(cur'[held'[q]], end'[held'[q]]) \subseteq written' \cup seams'
  <2>1. q # p /\ pc[q] = "finish" /\ held'[q] = held[q]
    BY <1>2, <1>3, <1>6, <1>11
  <2>2. held[q] # t /\ held[q] \in Threads
    BY <1>1, <1>4, <2>1 DEF WorkInv, Working
  <2>3. Closed(cur[held[q]], end[held[q]]) \subseteq written \cup seams
    BY <2>1 DEF OpenLoss
  <2>4. CASE held[q] # prev
    BY <1>2, <1>6, <1>7, <2>1, <2>2, <2>3, <2>4
  <2>5. CASE held[q] = prev
    <3>1. cur'[held'[q]] = cur[prev] /\ end'[held'[q]] = mid - 1
      BY <1>7, <2>1, <2>2, <2>5
    <3>2. \A b \in Bytes : cur[prev] <= b /\ b <= mid - 1 => b <= end[prev]
      BY <1>2, <1>9
    <3>3. Closed(cur[prev], mid - 1) \subseteq Closed(cur[prev], end[prev])
      BY <3>2 DEF Closed
    <3> QED
      BY <1>2, <1>6, <2>3, <2>5, <3>1, <3>3
  <2> QED
    BY <2>4, <2>5
<1>12. \A q \in Proxies : pc'[q] \in Working => held'[q] \in Registered'
  BY <1>2, <1>3, <1>5, <1>6 DEF OpenLoss
<1>13. ticker' \notin {"clear", "done"}
  BY <1>6 DEF OpenLoss
<1> QED
  BY <1>10, <1>11, <1>12, <1>13 DEF OpenLoss, Closed

\* The end of Go removes the thread's own range, of which nothing is left; ranges
\* extended by the merge reach into bytes that are written or seams.
LEMMA OpenFinish ==
    ASSUME IInv, OwnInv, OpenLoss, NEW p \in Proxies, Finish(p), missed' = {}
    PROVE  OpenLoss'
<1> DEFINE T == held[p]
<1>1. TypeOK /\ WorkInv /\ Overshoot
  BY DEF IInv
<1>2. /\ ranges \in Seq(Threads) /\ pc \in [Proxies -> Locations]
      /\ held \in [Proxies -> Threads \cup {None}]
      /\ cur \in [Threads -> 0..Length] /\ end \in [Threads -> 0..Length]
  BY <1>1 DEF TypeOK, Offsets
<1>3. /\ pc[p] = "finish" /\ cur' = cur /\ end' = EndAfterMerge(T)
      /\ UNCHANGED <<written, seams, ticker>>
      /\ held' = [held EXCEPT ![p] = None] /\ pc' = [pc EXCEPT ![p] = "idle"]
      /\ ranges' = IF MergedOrFinished(p) THEN Without(ranges, Pos(T)) ELSE ranges
      /\ ~MissesOwn(T)
  BY DEF Finish, tickVars
<1>4. T \in Threads /\ T \in Registered
  BY <1>1, <1>3 DEF WorkInv, Working, OpenLoss
<1>5. Closed(cur[T], end[T]) \subseteq written \cup seams
  BY <1>3 DEF OpenLoss
<1>6. \A u \in Registered : u # T => u \in Registered'
  <2> SUFFICES ASSUME NEW u \in Registered, u # T PROVE u \in Registered'
    OBVIOUS
  <2>1. CASE ~MergedOrFinished(p)
    BY <1>3, <2>1 DEF Registered
  <2>2. CASE MergedOrFinished(p)
    <3>1. Positions(T) # {}
      BY <1>4 DEF Positions, Registered
    <3>2. \E i \in Positions(T) : AdjacentBefore(T, i) <= 1
      BY <1>3, <3>1 DEF MissesOwn
    <3>3. Pos(T) \in Positions(T)
      BY <3>2 DEF Pos
    <3>4. Pos(T) \in DOMAIN ranges /\ ranges[Pos(T)] = T
      BY <3>3 DEF Positions
    <3>5. PICK i \in DOMAIN ranges : ranges[i] = u
      BY DEF Registered
    <3>6. \E j \in DOMAIN Without(ranges, Pos(T)) : Without(ranges, Pos(T))[j] = ranges[i]
      BY <1>2, <3>4, <3>5, WithoutKeeps
    <3> QED
      BY <1>3, <2>2, <3>5, <3>6 DEF Registered
  <2> QED
    BY <2>1, <2>2
<1>7. \A u \in Threads : end'[u] = end[u] \/ (end'[u] = end[T] /\ end[u] + 1 = cur[T])
  BY <1>2, <1>3, <1>4, MergeEnd DEF Offsets
<1>8. \A b \in Bytes, u \in Threads : b \in Int /\ cur[u] \in Int /\ end[u] \in Int
  BY <1>2, ConstantsAssumption DEF Bytes
<1>9. Bytes \subseteq written' \cup Covered' \cup seams'
  <2> SUFFICES ASSUME NEW b \in Bytes, b \notin written, b \notin seams
               PROVE  b \in Covered'
    BY <1>3
  <2>1. PICK u \in Registered : cur[u] <= b /\ b <= end[u]
    BY DEF OpenLoss, Covered
  <2>2. u \in Threads
    BY <1>2 DEF Registered
  <2>3. u # T
    BY <1>5, <2>1 DEF Closed
  <2>4. b <= end'[u]
    <3>1. CASE end'[u] = end[u]
      BY <2>1, <3>1
    <3>2. CASE end'[u] = end[T] /\ end[u] + 1 = cur[T]
      <4>1. b < cur[T]
        BY <1>4, <1>8, <2>1, <2>2, <3>2
      <4>2. ~(end[T] < b)
        BY <1>1, <1>4, <4>1 DEF Overshoot
      <4> QED
        BY <1>4, <1>8, <3>2, <4>2
    <3> QED
      BY <1>7, <2>2, <3>1, <3>2
  <2> QED
    BY <1>3, <1>6, <2>1, <2>3, <2>4 DEF Covered
<1>10. ASSUME NEW q \in Proxies, pc'[q] = "finish"
       PROVE  Closed(cur'[held'[q]], end'[held'[q]]) \subseteq written' \cup seams'
  <2> DEFINE U == held[q]
  <2>1. q # p /\ pc[q] = "finish" /\ held'[q] = U
    BY <1>2, <1>3, <1>10
  <2>2. U \in Threads /\ Closed(cur[U], end[U]) \subseteq written \cup seams
    BY <1>1, <2>1 DEF WorkInv, Working, OpenLoss
  <2> SUFFICES ASSUME NEW b \in Bytes, cur[U] <= b, b <= end'[U]
               PROVE  b \in written \cup seams
    BY <1>3, <2>1 DEF Closed
  <2>3. CASE b <= end[U]
    BY <2>2, <2>3 DEF Closed
  <2>4. CASE ~(b <= end[U])
    <3>1. end'[U] = end[T] /\ end[U] + 1 = cur[T]
      BY <1>7, <2>2, <2>4
    <3>2. cur[T] <= b /\ b <= end[T]
      BY <1>4, <1>8, <2>2, <2>4, <3>1
    <3> QED
      BY <1>5, <3>2 DEF Closed
  <2> QED
    BY <2>3, <2>4
<1>11. \A q \in Proxies : pc'[q] \in Working => held'[q] \in Registered'
  <2> SUFFICES ASSUME NEW q \in Proxies, pc'[q] \in Working PROVE held'[q] \in Registered'
    OBVIOUS
  <2>1. q # p /\ pc[q] \in Working /\ held'[q] = held[q]
    BY <1>2, <1>3 DEF Working
  <2>2. held[q] \in Registered /\ held[q] # T
    BY <1>4, <2>1, ConstantsAssumption DEF OpenLoss, OwnInv, Exclusive, Threads
  <2> QED
    BY <1>6, <2>1, <2>2
<1> QED
  BY <1>3, <1>9, <1>10, <1>11 DEF OpenLoss, Closed
LEMMA LossStep ==
    ASSUME IInv, OwnInv, LossInv, Next
    PROVE  LossInv'
<1>1. Whole' => LossInv'
  BY DEF Whole, LossInv
<1> SUFFICES ASSUME Undisturbed', ~Whole' PROVE OpenLoss'
  BY <1>1 DEF LossInv, OpenLoss
<1>2. Undisturbed /\ ~Whole
  BY WholeStays
<1>3. OpenLoss
  BY <1>2 DEF LossInv, OpenLoss
<1>4. TypeOK
  BY DEF IInv
<1>5. Covered # {}
  BY <1>2, <1>3 DEF OpenLoss, Whole
<1>6. PICK b \in Bytes, t \in Registered : cur[t] <= b /\ b <= end[t] /\ b \notin seams
  <2>1. PICK c \in Bytes : c \notin written /\ c \notin seams
    BY <1>2 DEF Whole
  <2> QED
    BY <1>3, <2>1 DEF OpenLoss, Covered
<1>7. PICK i \in DOMAIN ranges : ranges[i] = t
  BY DEF Registered
<1>8. t \in Threads /\ cur[t] \in Int /\ end[t] \in Int /\ b \in Int
  BY <1>4, <1>7, ConstantsAssumption DEF TypeOK, Offsets, Bytes
<1>9. ASSUME NEW p \in Proxies, QuietStep(p) \/ FetchStep(p) \/ TakeStray(p)
                                \/ Split(p) \/ Finish(p)
      PROVE  OpenLoss'
  <2>1. CASE QuietStep(p)
    BY <1>2, <1>3, <2>1, OpenQuiet
  <2>2. CASE FetchStep(p)
    BY <1>3, <2>2, OpenFetch
  <2>3. CASE TakeStray(p)
    <3>1. ~(cur[t] < end[t])
      BY <1>7, <1>8, <2>3 DEF TakeStray, Remaining
    <3>2. Closed(cur[t], end[t]) \subseteq seams
      BY <3>1, NothingBelowEnd DEF IInv
    <3> QED
      BY <1>6, <3>2 DEF Closed
  <2>4. CASE Split(p)
    BY <1>3, <2>4, OpenSplit
  <2>5. CASE Finish(p)
    BY <1>3, <2>5, OpenFinish DEF Undisturbed
  <2> QED
    BY <1>9, <2>1, <2>2, <2>3, <2>4, <2>5
<1>10. CASE Complete
  BY <1>7, <1>10 DEF Complete
<1>11. CASE Snapshot \/ Truncate \/ WriteStat
  <2>1. UNCHANGED <<fileVars, held, pc>>
    BY <1>11, TickFrame DEF proxyVars
  <2>2. CASE Snapshot
    <3>1. i \in Saved
      BY <1>6, <1>7, <1>8 DEF Saved
    <3>2. ticker' = "truncate"
      BY <2>2, <3>1 DEF Snapshot
    <3> QED
      BY <1>3, <2>1, <3>2, OpenKeeps
  <2>3. CASE Truncate \/ WriteStat
    BY <1>3, <2>1, <2>3, OpenKeeps DEF Truncate, WriteStat
  <2> QED
    BY <1>11, <2>2, <2>3
<1>12. CASE Clear
  BY <1>3, <1>12 DEF Clear, OpenLoss
<1>13. CASE Restart
  BY <1>4, <1>13, ConstantsAssumption DEF Restart, Undisturbed, TypeOK
<1>14. CASE Stopped
  BY <1>3, <1>14, OpenKeeps DEF Stopped, vars, rangeVars, proxyVars, tickVars, ghostVars,
     fileVars, OpenLoss
<1> QED
  BY <1>9, <1>10, <1>11, <1>12, <1>13, <1>14, NextCases

\* Without faults and crashes, and unless a scan at the end of Go stopped before
\* the proxy's own range, the bytes lost are those before the middle of a split:
\* for any number of proxies racing to split, finish and merge.
THEOREM LostAreSeams == Spec => []OnlySeamsLost
<1>1. Init => LossInv
  <2> SUFFICES ASSUME Init PROVE LossInv
    OBVIOUS
  <2>1. Covered = Bytes
    <3>1. Registered = {1} /\ 1 \in Threads
      BY ConstantsAssumption DEF Init, Registered, Threads
    <3> QED
      BY <3>1, ConstantsAssumption DEF Init, Covered, Bytes
  <2> QED
    BY <2>1 DEF Init, LossInv, Working
<1>2. IInv /\ OwnInv /\ LossInv /\ [Next]_vars => LossInv'
  <2> SUFFICES ASSUME IInv, OwnInv, LossInv, [Next]_vars PROVE LossInv'
    OBVIOUS
  <2>1. CASE Next
    BY <2>1, LossStep
  <2>2. CASE UNCHANGED vars
    BY <2>2 DEF vars, rangeVars, proxyVars, tickVars, ghostVars, LossInv, Undisturbed,
       Whole, Covered, Registered, Closed
  <2> QED
    BY <2>1, <2>2
<1>3. LossInv => OnlySeamsLost
  BY DEF LossInv, OnlySeamsLost, Undisturbed
<1> QED
  BY <1>1, <1>2, <1>3, Invariance, OwnInvariance, PTL DEF Spec

-----------------------------------------------------------------------------
(* DownloadTask implements FileDownload: however proxies split, merge,     *)
(* save and resume, seen through the mapping of `Promise' a step of the    *)
(* task is a step of the one download, or changes nothing of it.  The      *)
(* facts the mapping needs of a state are the inductive invariant: what    *)
(* the ranges, and between two steps of SaveStat its buffer, still lead    *)
(* to.                                                                     *)

\* A run of bytes may be described by any lower bound and any length: the bytes
\* of [lo, lo+n) that exist are a run of the abstract download.
LEMMA RunOfBytes ==
    ASSUME NEW lo \in Nat, NEW n \in Nat
    PROVE  {b \in Bytes : lo <= b /\ b < lo + n} \in Promise!Runs
<1> DEFINE low == IF lo <= Length THEN lo ELSE Length
           high == IF lo + n <= Length THEN lo + n ELSE Length
           run(x, y) == {b \in Bytes : x <= b /\ b < y}
<1>1. Length \in Nat
  BY ConstantsAssumption
<1>2. low \in 0..Length /\ high \in 0..Length
  BY <1>1
<1>3. \A b \in Bytes : (lo <= b /\ b < lo + n) <=> (low <= b /\ b < high)
  BY <1>1 DEF Bytes
<1>4. run(lo, lo + n) = run(low, high)
  BY <1>3
<1> HIDE DEF low, high
<1>5. run(low, high) \in Promise!Runs
  BY <1>2 DEF Promise!Runs, Promise!Bytes, Bytes
<1> QED
  BY <1>4, <1>5

\* ... so are the bytes of a closed interval, and no byte at all.
LEMMA ClosedIsRun ==
    ASSUME NEW lo \in Nat, NEW hi \in Nat
    PROVE  Closed(lo, hi) \in Promise!Runs
<1>1. CASE lo <= hi
  <2> DEFINE n == hi + 1 - lo
  <2>1. n \in Nat /\ lo + n = hi + 1
    BY <1>1
  <2>2. \A b \in Bytes : b <= hi <=> b < lo + n
    BY <2>1 DEF Bytes
  <2> HIDE DEF n
  <2>3. Closed(lo, hi) = {b \in Bytes : lo <= b /\ b < lo + n}
    BY <2>2 DEF Closed
  <2> QED
    BY <2>1, <2>3, RunOfBytes
<1>2. CASE hi < lo
  <2>1. \A b \in Bytes : ~(lo <= b /\ b <= hi) /\ ~(lo <= b /\ b < lo + 0)
    BY <1>2 DEF Bytes
  <2>2. Closed(lo, hi) = {b \in Bytes : lo <= b /\ b < lo + 0}
    BY <2>1 DEF Closed
  <2> QED
    BY <2>2, RunOfBytes
<1> QED
  BY <1>1, <1>2

LEMMA NothingIsRun == {} \in Promise!Runs
<1>1. \A b \in Bytes : ~(0 <= b /\ b < 0 + 0)
  BY ConstantsAssumption DEF Bytes
<1>2. {} = {b \in Bytes : 0 <= b /\ b < 0 + 0}
  BY <1>1
<1> QED
  BY <1>2, RunOfBytes

-----------------------------------------------------------------------------
\* The first state: nothing written, and an absent ".stat" file leads to all bytes.
LEMMA PromiseInit == Init => Promise!Init
<1> SUFFICES ASSUME Init PROVE Promise!Init
  OBVIOUS
<1>1. OnDisk(stat) = Bytes /\ Gone = {}
  BY DEF Init, OnDisk, Resumable, Gone
<1> QED
  BY <1>1 DEF Init, Promise!Init, Promise!Bytes, Bytes

\* What the abstract state is a function of does not change.
LEMMA PromiseStutter ==
    ASSUME UNCHANGED <<written, seams, dropped, torn, stat>>,
           (ticker' = "write") = (ticker = "write"),
           (ticker' = "done") = (ticker = "done")
    PROVE  UNCHANGED Promise!vars
  BY DEF Promise!vars, Gone, OnDisk, Resumable, CoveredBy

\* getThread, the checks and failures of run and Download change nothing.
LEMMA PromiseQuiet ==
    ASSUME NEW p \in Proxies, QuietStep(p) \/ TakeStray(p)
    PROVE  UNCHANGED Promise!vars
<1>1. UNCHANGED <<written, seams, dropped, torn, stat, ticker>>
  <2>1. CASE QuietStep(p)
    BY <2>1, QuietFrame DEF fileVars, tickVars
  <2>2. CASE TakeStray(p)
    BY <2>2 DEF TakeStray, tickVars, ghostVars
  <2> QED
    BY <2>1, <2>2
<1> QED
  BY <1>1, PromiseStutter

\* One read and its write are a Fetch, of no byte when the file is closed.
LEMMA PromiseFetch ==
    ASSUME TypeOK, WorkInv, NEW p \in Proxies, FetchStep(p)
    PROVE  Promise!Fetch
<1>1. PICK n \in Nat, t \in Threads :
         /\ written' = written \cup {b \in Bytes : cur[t] <= b /\ b < cur[t] + n}
         /\ UNCHANGED <<seams, dropped, torn, tickVars>>
  BY FetchFacts
<1>2. cur[t] \in Nat
  BY ConstantsAssumption DEF TypeOK, Offsets
<1>3. {b \in Bytes : cur[t] <= b /\ b < cur[t] + n} \in Promise!Runs
  BY <1>2, RunOfBytes
<1>4. UNCHANGED <<Gone, OnDisk(stat), ticker>>
  BY <1>1 DEF tickVars, Gone, OnDisk, Resumable, CoveredBy
<1> QED
  BY <1>1, <1>3, <1>4 DEF Promise!Fetch

\* A split gives up the byte before its middle.
LEMMA PromiseSplit ==
    ASSUME TypeOK, LockInv, WorkInv, Next, NEW p \in Proxies, Split(p)
    PROVE  Promise!GiveUp
<1>1. PICK mid \in Nat : seams' = seams \cup {mid - 1} /\ 1 <= mid
  BY SplitFacts
<1>2. mid - 1 \in Bytes
  BY <1>1, TypeStep DEF TypeOK
<1>3. mid - 1 \in Nat
  BY <1>1
<1>4. \A b \in Bytes : b = mid - 1 <=> mid - 1 <= b /\ b <= mid - 1
  BY <1>1 DEF Bytes
<1>5. Closed(mid - 1, mid - 1) = {mid - 1}
  BY <1>2, <1>4 DEF Closed
<1>6. UNCHANGED <<written, dropped, torn, OnDisk(stat), ticker>>
  BY DEF Split, tickVars, OnDisk, Resumable, CoveredBy
<1>7. Gone' = Gone \cup Closed(mid - 1, mid - 1)
  BY <1>1, <1>5, <1>6 DEF Gone
<1> QED
  BY <1>3, <1>6, <1>7, ClosedIsRun DEF Promise!GiveUp

\* Removing a range gives up what GivenUp says of it, which is one run; a range
\* handed back to be taken again gives up nothing.
LEMMA PromiseFinish ==
    ASSUME TypeOK, WorkInv, NEW p \in Proxies, Finish(p)
    PROVE  Promise!GiveUp
<1> DEFINE T == held[p]
           R == ranges[Pos(T)]
<1>1. T \in Threads
  BY DEF Finish, WorkInv, Working
<1>2. UNCHANGED <<written, seams, torn, OnDisk(stat), ticker>>
  BY DEF Finish, tickVars, OnDisk, Resumable, CoveredBy
<1>3. \E run \in Promise!Runs : dropped' = dropped \cup run
  <2>1. CASE MergedOrFinished(p)
    <3>1. ranges # <<>> /\ dropped' = dropped \cup GivenUp(T, R)
      BY <2>1 DEF Finish
    <3>2. R \in Threads
      BY <3>1, PosInRanges DEF TypeOK
    <3>3. cur[R] \in Nat /\ cur[T] \in Nat /\ end[T] \in Nat
      BY <1>1, <3>2, ConstantsAssumption DEF TypeOK, Offsets
    <3>4. EndAfterMerge(T)[R] \in Nat
      <4>1. EndAfterMerge(T) \in [Threads -> Offsets]
        BY <1>1, <3>2, MergeEnd DEF TypeOK
      <4> QED
        BY <3>2, <4>1, ConstantsAssumption DEF Offsets
    <3>5. Closed(cur[T], end[T] - 1) \in Promise!Runs
      <4>1. CASE end[T] = 0
        <5>1. \A b \in Bytes : ~(b <= end[T] - 1)
          BY <4>1 DEF Bytes
        <5>2. Closed(cur[T], end[T] - 1) = {}
          BY <5>1 DEF Closed
        <5> QED
          BY <5>2, NothingIsRun
      <4>2. CASE end[T] # 0
        <5>1. end[T] - 1 \in Nat
          BY <3>3, <4>2
        <5> QED
          BY <3>3, <5>1, ClosedIsRun
      <4> QED
        BY <4>1, <4>2
    <3>6. Closed(cur[R], EndAfterMerge(T)[R]) \in Promise!Runs
      BY <3>3, <3>4, ClosedIsRun
    <3>7. GivenUp(T, R) \in Promise!Runs
      BY <3>5, <3>6, NothingIsRun DEF GivenUp
    <3> QED
      BY <3>1, <3>7
  <2>2. CASE ~MergedOrFinished(p)
    BY <2>2, NothingIsRun DEF Finish
  <2> QED
    BY <2>1, <2>2
<1>4. PICK run \in Promise!Runs : dropped' = dropped \cup run
  BY <1>3
<1>5. Gone' = Gone \cup run
  BY <1>2, <1>4 DEF Gone
<1> QED
  BY <1>2, <1>4, <1>5 DEF Promise!GiveUp

-----------------------------------------------------------------------------
\* The ticker: without ranges no byte is left, so the task is complete.
LEMMA PromiseComplete ==
    ASSUME Accounted, Complete
    PROVE  Promise!Finish
<1>1. /\ ranges = <<>> /\ ticker = "tick" /\ ticker' = "done" /\ stat' = <<>>
      /\ UNCHANGED <<written, seams, dropped, torn>>
  BY DEF Complete, ghostVars
<1>2. Covered = {}
  BY <1>1 DEF Covered, Registered
<1>3. Promise!Left = {}
  BY <1>2 DEF Accounted, Promise!Left, Promise!Bytes, Bytes
<1>4. OnDisk(stat)' = Bytes
  BY <1>1 DEF OnDisk, Resumable
<1> QED
  BY <1>1, <1>3, <1>4 DEF Promise!Finish, Promise!Bytes, Bytes, Gone

\* Listing the ranges and clearing them touch neither file.
LEMMA PromiseTick ==
    ASSUME Snapshot \/ Clear
    PROVE  UNCHANGED Promise!vars
<1>1. /\ UNCHANGED <<written, seams, dropped, torn, stat>>
      /\ ticker \notin {"write", "done"} /\ ticker' \notin {"write", "done"}
  BY DEF Snapshot, Clear, ghostVars
<1> QED
  BY <1>1, PromiseStutter

\* Truncating starts a save, and leaves the file with any lines at all.
LEMMA PromiseTruncate ==
    ASSUME Truncate
    PROVE  Promise!BeginSave
<1>1. /\ ticker = "truncate" /\ ticker' = "write"
      /\ UNCHANGED <<written, seams, dropped, torn>>
  BY DEF Truncate, ghostVars
<1>2. OnDisk(stat)' \in SUBSET Bytes
  BY DEF OnDisk, CoveredBy
<1> QED
  BY <1>1, <1>2 DEF Promise!BeginSave, Promise!Bytes, Bytes, Gone

\* Writing the buffer ends it: the buffer leads to every byte that is left now,
\* although it was listed before the proxies went on.
LEMMA PromiseWrite ==
    ASSUME StatInv, WriteStat
    PROVE  Promise!EndSave
<1>1. /\ ticker = "write" /\ ticker' = "tick" /\ stat' = buf
      /\ UNCHANGED <<written, seams, dropped, torn>>
  BY DEF WriteStat, ghostVars
<1>2. OnDisk(stat)' = OnDisk(buf)
  BY <1>1 DEF OnDisk, Resumable, CoveredBy
<1>3. OnDisk(buf) \in SUBSET Bytes /\ CoveredBy(buf) \subseteq OnDisk(buf)
  BY DEF OnDisk, CoveredBy
<1>4. Promise!Left \subseteq OnDisk(buf)
  BY <1>1, <1>3 DEF StatInv, Promise!Left, Promise!Bytes, Bytes
<1> QED
  BY <1>1, <1>2, <1>3, <1>4 DEF Promise!EndSave, Promise!Bytes, Bytes, Gone

\* A new process finds in the ".stat" file whatever is left, and only a kill
\* between the two steps of SaveStat takes bytes away.
LEMMA PromiseRestart ==
    ASSUME StatInv, Restart
    PROVE  Promise!Restart
<1> DEFINE gone == IF ticker = "write" THEN CoveredBy(buf) \ OnDisk(stat) ELSE {}
<1>1. /\ ticker # "done" /\ ticker' = "tick"
      /\ UNCHANGED <<written, seams, dropped, stat>>
      /\ torn' = torn \cup gone
  BY DEF Restart
<1>2. OnDisk(stat)' = OnDisk(stat)
  BY <1>1 DEF OnDisk, Resumable, CoveredBy
<1>3. gone \in SUBSET (Promise!Bytes \ OnDisk(stat)) /\ (gone # {} => ticker = "write")
  BY DEF CoveredBy, Bytes, Promise!Bytes
<1>4. Gone' = Gone \cup gone
  BY <1>1 DEF Gone
<1>5. Promise!Left' \subseteq OnDisk(stat)
  <2>1. CASE ticker = "write"
    <3>1. Bytes \subseteq written \cup CoveredBy(buf) \cup Gone
      BY <2>1 DEF StatInv
    <3> QED
      BY <1>1, <1>4, <2>1, <3>1 DEF Promise!Left, Promise!Bytes, Bytes
  <2>2. CASE ticker # "write"
    <3>1. Bytes \subseteq written \cup OnDisk(stat) \cup Gone
      BY <1>1, <2>2 DEF StatInv, ResumeAccounted
    <3> QED
      BY <1>1, <1>4, <3>1 DEF Promise!Left, Promise!Bytes, Bytes
  <2> QED
    BY <2>1, <2>2
<1> HIDE DEF gone
<1> QED
  BY <1>1, <1>2, <1>3, <1>4, <1>5 DEF Promise!Restart

-----------------------------------------------------------------------------
\* Every step of the task is a step of the download or leaves it as it was.
LEMMA PromiseStep == IInv /\ [Next]_vars => [Promise!Next]_(Promise!vars)
<1> SUFFICES ASSUME IInv, [Next]_vars
             PROVE  Promise!Next \/ UNCHANGED Promise!vars
  OBVIOUS
<1>1. TypeOK /\ Accounted /\ WorkInv /\ LockInv /\ StatInv
  BY DEF IInv
<1>2. CASE UNCHANGED vars \/ Stopped
  BY <1>2, PromiseStutter DEF Stopped, vars, ghostVars, tickVars
<1>3. CASE Next /\ ~Stopped
  <2>1. ASSUME NEW p \in Proxies, QuietStep(p) \/ TakeStray(p)
        PROVE  UNCHANGED Promise!vars
    BY <2>1, PromiseQuiet
  <2>2. ASSUME NEW p \in Proxies, FetchStep(p) PROVE Promise!Next
    BY <1>1, <2>2, PromiseFetch DEF Promise!Next
  <2>3. ASSUME NEW p \in Proxies, Split(p) \/ Finish(p) PROVE Promise!Next
    BY <1>1, <1>3, <2>3, PromiseSplit, PromiseFinish DEF Promise!Next
  <2>4. CASE Snapshot \/ Clear
    BY <2>4, PromiseTick
  <2>5. CASE Complete \/ Truncate \/ WriteStat \/ Restart
    BY <1>1, <2>5, PromiseComplete, PromiseTruncate, PromiseWrite, PromiseRestart
       DEF Promise!Next
  <2> QED
    BY <1>3, <2>1, <2>2, <2>3, <2>4, <2>5, NextCases
<1> QED
  BY <1>2, <1>3

\* The task implements the download of one file: splitting, merging, saving and
\* resuming never do anything but write a run of bytes, give a run up, save what
\* leads to the rest, complete with nothing left, or resume from what was saved.
THEOREM Refinement == Spec => ImplementsFileDownload
  BY PromiseInit, PromiseStep, Invariance, PTL
     DEF Spec, ImplementsFileDownload, Promise!Spec
=============================================================================
