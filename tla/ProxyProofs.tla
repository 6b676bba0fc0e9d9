---------------------------- MODULE ProxyProofs -----------------------------
(***************************************************************************)
(* Proofs about Proxy, for any number of proxies, lines of urls.txt,       *)
(* ranges, splits and faults: a task is initialised once, the mutex is     *)
(* lost only when no line is left, and a lone proxy forgets neither a line *)
(* nor a range.                                                            *)
(***************************************************************************)
EXTENDS Proxy, NumberLemmas, FiniteSetTheorems

Places == {"lock", "gone", "init", "read", "go", "work", "relock", "invalid"}

ProxyTypeOK ==
    /\ line \in 0..Tasks
    /\ curTask \in Lines \cup {None}
    /\ owner \in Proxies \cup {None}
    /\ once \in SUBSET Lines
    /\ loaded \in [Lines -> Nat]
    /\ idle \in [Lines -> Nat]
    /\ ticker \in [Lines -> {"off", "on", "done"}]
    /\ pc \in [Proxies -> Places]
    /\ task \in [Proxies -> Lines \cup {None}]

\* The current task is the line read last; without one no line is left.
LineInv ==
    /\ curTask # None => line = curTask
    /\ curTask = None => Pending(line) = {}

\* Who initialises a task, or has left the loop, holds the mutex, so the task
\* it saw is still the current one; a ticker runs only for a task with once = 1.
LockInv ==
    /\ \A p \in Proxies : pc[p] = "init" =>
          owner = p /\ curTask # None /\ curTask \notin once
    /\ \A p \in Proxies : pc[p] = "gone" => owner = p /\ curTask = None
    /\ \A t \in Lines : ticker[t] # "off" => t \in once

\* The lines that are neither downloaded nor started are those not handed out
\* yet, and the current one.
AllHandedOut == Lines \ Downloaded \subseteq once \cup Pending(line) \cup {curTask}

\* Nobody but g is a proxy.
Lone(g) == \A p \in Proxies \ {g} : pc[p] = "invalid"

\* Its line, and every range it has to do, is the one it works on.
Faithful(g) ==
    /\ AllHandedOut
    /\ pc[g] = "read" => curTask # None /\ curTask \in once
    /\ pc[g] \in {"go", "work", "relock"} =>
          task[g] = curTask /\ curTask # None /\ curTask \in once
    /\ pc[g] = "relock" => idle[curTask] = 0
    /\ \A t \in once : t # curTask => idle[t] = 0

LoneInv ==
    /\ \E p \in Proxies : pc[p] # "invalid"
    /\ \A g \in Proxies : Lone(g) => Faithful(g)

IInv == ProxyTypeOK /\ LineInv /\ LockInv /\ LoneInv

-----------------------------------------------------------------------------
(* nextTask *)

\* nextTask returns the line it read last, or nil at the end of urls.txt, and
\* every line not handed out before is that one or still to come.
LEMMA NextLine ==
    ASSUME NEW n \in 0..Tasks
    PROVE  /\ LineAfter(n) \in 0..Tasks
           /\ TaskAfter(n) \in Lines \cup {None}
           /\ TaskAfter(n) # None => LineAfter(n) = TaskAfter(n)
           /\ TaskAfter(n) = None => Pending(LineAfter(n)) = {}
           /\ Pending(n) \subseteq Pending(LineAfter(n)) \cup {TaskAfter(n)}
<1>1. Tasks \in Nat /\ None \notin Lines
  BY ProxyAssumption DEF Lines
<1>2. CASE Pending(n) = {}
  <2>1. TaskAfter(n) = None /\ LineAfter(n) = Tasks
    BY <1>2 DEF TaskAfter, LineAfter
  <2>2. Pending(Tasks) = {}
    BY <1>1 DEF Pending, Lines
  <2> QED
    BY <1>1, <1>2, <2>1, <2>2
<1>3. CASE Pending(n) # {}
  <2>1. Pending(n) \in SUBSET Nat
    BY <1>1 DEF Pending, Lines
  <2>2. \E m \in Pending(n) : \A k \in Pending(n) : m <= k
    BY <1>3, <2>1, SmallestOf
  <2> DEFINE m == First(Pending(n))
  <2>3. m \in Pending(n) /\ \A k \in Pending(n) : m <= k
    BY <2>2 DEF First
  <2>4. TaskAfter(n) = m /\ LineAfter(n) = m
    BY <1>3 DEF TaskAfter, LineAfter
  <2> HIDE DEF m
  <2>5. m \in Lines /\ m \in 0..Tasks /\ m # None
    BY <1>1, <2>3 DEF Pending, Lines
  <2>6. ASSUME NEW k \in Pending(n), k # m PROVE k \in Pending(m)
    <3>1. m <= k /\ k \in Lines /\ k \notin Downloaded
      BY <2>3 DEF Pending
    <3>2. m < k
      BY <1>1, <2>5, <2>6, <3>1 DEF Lines
    <3> QED
      BY <3>1, <3>2 DEF Pending
  <2> QED
    BY <2>4, <2>5, <2>6
<1> QED
  BY <1>2, <1>3

-----------------------------------------------------------------------------
(* The invariant *)

LEMMA ProxyInitial == Init => IInv
<1> SUFFICES ASSUME Init PROVE IInv
  OBVIOUS
<1>1. Tasks \in Nat /\ 0 \in 0..Tasks
  BY ProxyAssumption
<1>2. pc \in [Proxies -> {"lock", "invalid"}] /\ pc # [p \in Proxies |-> "invalid"]
  BY DEF Init, Started
<1>3. /\ LineAfter(0) \in 0..Tasks
      /\ TaskAfter(0) \in Lines \cup {None}
      /\ TaskAfter(0) # None => LineAfter(0) = TaskAfter(0)
      /\ TaskAfter(0) = None => Pending(LineAfter(0)) = {}
      /\ Pending(0) \subseteq Pending(LineAfter(0)) \cup {TaskAfter(0)}
  BY <1>1, NextLine
<1>4. ProxyTypeOK
  BY <1>2, <1>3 DEF Init, ProxyTypeOK, Places
<1>5. LineInv
  BY <1>3 DEF Init, LineInv
<1>6. LockInv
  BY <1>2 DEF Init, LockInv
<1>7. LoneInv
  <2>1. \E p \in Proxies : pc[p] # "invalid"
    BY <1>2
  <2>2. Lines \ Downloaded \subseteq Pending(0)
    BY DEF Lines, Pending
  <2>3. AllHandedOut
    BY <1>3, <2>2 DEF Init, AllHandedOut
  <2>4. once = {} /\ \A g \in Proxies : pc[g] \in {"lock", "invalid"}
    BY <1>2 DEF Init
  <2> QED
    BY <2>1, <2>3, <2>4 DEF LoneInv, Faithful
<1> QED
  BY <1>4, <1>5, <1>6, <1>7 DEF IInv

\* Types, the line read last and the mutex survive every step.
LEMMA ProxyLock ==
    ASSUME IInv, [Next]_vars
    PROVE  ProxyTypeOK' /\ LineInv' /\ LockInv'
<1> USE DEF IInv, ProxyTypeOK, LineInv, LockInv, Places
<1>0. Tasks \in Nat /\ None \notin Lines /\ None \notin Proxies
  BY ProxyAssumption DEF Lines
<1>1. ASSUME NEW p \in Proxies, Leave(p) PROVE ProxyTypeOK' /\ LineInv' /\ LockInv'
  BY <1>1, <1>0 DEF Leave, Goto, Pending
<1>2. ASSUME NEW p \in Proxies, Enter(p) PROVE ProxyTypeOK' /\ LineInv' /\ LockInv'
  BY <1>2, <1>0 DEF Enter, Goto, NeedsInit, Pending
<1>3. ASSUME NEW p \in Proxies, InitLoad(p) PROVE ProxyTypeOK' /\ LineInv' /\ LockInv'
  BY <1>3, <1>0 DEF InitLoad, Pending
<1>4. ASSUME NEW p \in Proxies, InitReturns(p), UNCHANGED <<loaded, idle, ticker>>
      PROVE ProxyTypeOK' /\ LineInv' /\ LockInv'
  BY <1>4, <1>0 DEF InitReturns, Goto, Pending
<1>5. ASSUME NEW p \in Proxies, InitSucceeds(p) PROVE ProxyTypeOK' /\ LineInv' /\ LockInv'
  BY <1>5, <1>0 DEF InitSucceeds, InitReturns, Goto, Pending
<1>6. ASSUME NEW p \in Proxies, ReadTask(p) PROVE ProxyTypeOK' /\ LineInv' /\ LockInv'
  BY <1>6, <1>0 DEF ReadTask, Goto, Pending
<1>7. ASSUME NEW p \in Proxies, TaskEnds(p) PROVE ProxyTypeOK' /\ LineInv' /\ LockInv'
  <2>1. /\ LineAfter(line) \in 0..Tasks
        /\ TaskAfter(line) \in Lines \cup {None}
        /\ TaskAfter(line) # None => LineAfter(line) = TaskAfter(line)
        /\ TaskAfter(line) = None => Pending(LineAfter(line)) = {}
    BY NextLine
  <2>2. \A q \in Proxies : pc[q] \notin {"init", "gone"}
    BY <1>7, <1>0 DEF TaskEnds
  <2>3. \A q \in Proxies : pc'[q] \notin {"init", "gone"}
    BY <1>7, <2>2 DEF TaskEnds, Goto
  <2> QED
    BY <1>7, <2>1, <2>3 DEF TaskEnds, Goto, Pending
<1>8. ASSUME NEW p \in Proxies,
             GoNil(p) \/ GoTakes(p) \/ GoSplits(p) \/ GoLeaves(p)
               \/ WorkDone(p) \/ WorkFails(p) \/ TaskSwitched(p)
      PROVE ProxyTypeOK' /\ LineInv' /\ LockInv'
  BY <1>8, <1>0 DEF GoNil, GoTakes, GoSplits, GoLeaves, WorkDone, WorkFails,
     TaskSwitched, InGo, Goto, Pending
<1>9. ASSUME NEW t \in Lines, Complete(t) PROVE ProxyTypeOK' /\ LineInv' /\ LockInv'
  BY <1>9, <1>0 DEF Complete, Pending
<1>10. CASE Exit \/ Stopped \/ UNCHANGED vars
  BY <1>10, <1>0 DEF Exit, Stopped, vars, Pending
<1> QED
  BY <1>1, <1>2, <1>3, <1>4, <1>5, <1>6, <1>7, <1>8, <1>9, <1>10
     DEF Next, ProxyStep, InitFails

\* A line of ips.txt that is no address never becomes a proxy, nor the reverse.
LEMMA InvalidStays ==
    ASSUME IInv, [Next]_vars, NEW p \in Proxies
    PROVE  pc'[p] = "invalid" <=> pc[p] = "invalid"
<1> USE DEF IInv, ProxyTypeOK, Places
<1>1. CASE \E q \in Proxies : ProxyStep(q)
  <2>1. PICK q \in Proxies : ProxyStep(q)
    BY <1>1
  <2>2. pc[q] # "invalid" /\ pc'[q] # "invalid" /\ pc' = [pc EXCEPT ![q] = pc'[q]]
    BY <2>1 DEF ProxyStep, Leave, Enter, InitLoad, InitFails, InitSucceeds, InitReturns,
       ReadTask, GoNil, GoTakes, GoSplits, GoLeaves, WorkDone, WorkFails, TaskEnds,
       TaskSwitched, InGo, Goto
  <2> QED
    BY <2>2
<1>2. CASE (\E t \in Lines : Complete(t)) \/ Exit \/ Stopped \/ UNCHANGED vars
  BY <1>2 DEF Complete, Exit, Stopped, vars
<1> QED
  BY <1>1, <1>2 DEF Next

LEMMA FaithfulStays ==
    ASSUME IInv, [Next]_vars, NEW g \in Proxies, Lone(g), Faithful(g)
    PROVE  Faithful(g)'
<1> USE DEF IInv, ProxyTypeOK, Places, LockInv, Faithful
<1>0. Tasks \in Nat /\ None \notin Lines /\ None \notin Proxies
  BY ProxyAssumption DEF Lines
<1>1. CASE \E p \in Proxies : ProxyStep(p)
  <2>1. PICK p \in Proxies : ProxyStep(p)
    BY <1>1
  <2>2. p = g
    BY <2>1 DEF Lone, ProxyStep, Leave, Enter, InitLoad, InitFails, InitSucceeds,
       InitReturns, ReadTask, GoNil, GoTakes, GoSplits, GoLeaves, WorkDone, WorkFails,
       TaskEnds, TaskSwitched, InGo
  <2>3. CASE Leave(g) \/ GoNil(g)
    BY <2>3, <1>0 DEF Leave, GoNil, Goto, AllHandedOut, Pending
  <2>4. CASE Enter(g)
    BY <2>4, <1>0 DEF Enter, Goto, NeedsInit, AllHandedOut, Pending
  <2>5. CASE InitLoad(g)
    BY <2>5, <1>0 DEF InitLoad, AllHandedOut, Pending
  <2>6. CASE InitFails(g)
    BY <2>6, <1>0 DEF InitFails, InitReturns, Goto, AllHandedOut, Pending
  <2>7. CASE InitSucceeds(g)
    BY <2>7, <1>0 DEF InitSucceeds, InitReturns, Goto, AllHandedOut, Pending
  <2>8. CASE ReadTask(g)
    BY <2>8, <1>0 DEF ReadTask, Goto, AllHandedOut, Pending
  <2>9. CASE GoTakes(g)
    BY <2>9, <1>0 DEF GoTakes, InGo, Goto, AllHandedOut, Pending
  <2>10. CASE GoSplits(g) \/ GoLeaves(g)
    BY <2>10, <1>0 DEF GoSplits, GoLeaves, InGo, Exhausted, Goto, AllHandedOut, Pending
  <2>11. CASE WorkDone(g) \/ WorkFails(g)
    BY <2>11, <1>0 DEF WorkDone, WorkFails, Goto, AllHandedOut, Pending
  <2>12. CASE TaskEnds(g)
    <3>1. /\ curTask \in once /\ curTask # None /\ idle[curTask] = 0
          /\ once' = once /\ idle' = idle
          /\ line' = LineAfter(line) /\ curTask' = TaskAfter(line) /\ pc'[g] = "lock"
      BY <2>12 DEF TaskEnds, Goto
    <3>2. Pending(line) \subseteq Pending(LineAfter(line)) \cup {TaskAfter(line)}
      BY NextLine
    <3>3. Pending(LineAfter(line)) = Pending(line)'
      BY <3>1 DEF Pending
    <3>4. AllHandedOut'
      BY <3>1, <3>2, <3>3 DEF AllHandedOut
    <3> QED
      BY <3>1, <3>4
  <2>13. CASE TaskSwitched(g)
    BY <2>13, <1>0 DEF TaskSwitched, EndsTask, Goto, AllHandedOut, Pending
  <2> QED
    BY <2>1, <2>2, <2>3, <2>4, <2>5, <2>6, <2>7, <2>8, <2>9, <2>10, <2>11, <2>12, <2>13
       DEF ProxyStep
<1>2. CASE (\E t \in Lines : Complete(t)) \/ Exit \/ Stopped \/ UNCHANGED vars
  BY <1>2, <1>0 DEF Complete, Exit, Stopped, vars, AllHandedOut, Pending
<1> QED
  BY <1>1, <1>2 DEF Next

LEMMA ProxyStepInv == IInv /\ [Next]_vars => IInv'
<1> SUFFICES ASSUME IInv, [Next]_vars PROVE IInv'
  OBVIOUS
<1>1. ProxyTypeOK' /\ LineInv' /\ LockInv'
  BY ProxyLock
<1>2. \A p \in Proxies : pc'[p] = "invalid" <=> pc[p] = "invalid"
  BY InvalidStays
<1>3. \A g \in Proxies : Lone(g)' => Lone(g)
  BY <1>2 DEF Lone
<1>4. (\E p \in Proxies : pc[p] # "invalid") /\ \A g \in Proxies : Lone(g) => Faithful(g)
  BY DEF IInv, LoneInv
<1>5. \A g \in Proxies : Lone(g) => Faithful(g)'
  BY <1>4, FaithfulStays
<1>6. LoneInv'
  BY <1>2, <1>3, <1>4, <1>5 DEF LoneInv
<1> QED
  BY <1>1, <1>6 DEF IInv

\* Of any number of proxies: types, the line read last, who holds the mutex;
\* and what a lone proxy has done with the lines and ranges it was given.
THEOREM ProxyInvariance == Spec => []IInv
<1>1. Init => IInv
  BY ProxyInitial
<1>2. IInv /\ [Next]_vars => IInv'
  BY ProxyStepInv
<1> QED
  BY <1>1, <1>2, PTL DEF Spec

-----------------------------------------------------------------------------
(* The properties *)

\* runProxy's once: a task that has been initialised is not initialised again,
\* so no range of its ".stat" file is loaded twice and no second ticker starts.
THEOREM InitOnce == Spec => OnlyOnce
<1>1. ASSUME IInv, [Next]_vars, NEW t \in Lines
      PROVE  /\ t \in once => loaded'[t] = loaded[t]
             /\ ticker[t] # "off" => ticker'[t] \in {ticker[t], "done"}
  <2> USE DEF IInv, ProxyTypeOK, LockInv
  <2>1. ASSUME NEW p \in Proxies, InitLoad(p) \/ InitSucceeds(p) \/ InitFails(p)
        PROVE  /\ t \in once => loaded'[t] = loaded[t]
               /\ ticker[t] # "off" => ticker'[t] \in {ticker[t], "done"}
    BY <1>1, <2>1 DEF InitLoad, InitSucceeds, InitFails, InitReturns
  <2>2. ASSUME NEW p \in Proxies, ProxyStep(p),
               ~(InitLoad(p) \/ InitSucceeds(p) \/ InitFails(p))
        PROVE  loaded' = loaded /\ ticker' = ticker
    BY <2>2 DEF ProxyStep, Leave, Enter, ReadTask, GoNil, GoTakes, GoSplits, GoLeaves,
       WorkDone, WorkFails, TaskEnds, TaskSwitched
  <2>3. ASSUME NEW u \in Lines, Complete(u)
        PROVE  loaded' = loaded /\ ticker'[t] \in {ticker[t], "done"}
    BY <1>1, <2>3 DEF Complete
  <2>4. CASE Exit \/ Stopped \/ UNCHANGED vars
    BY <2>4 DEF Exit, Stopped, vars
  <2> QED
    BY <1>1, <2>1, <2>2, <2>3, <2>4 DEF Next
<1>2. IInv /\ [Next]_vars =>
          [\A t \in Lines :
              /\ t \in once => loaded'[t] = loaded[t]
              /\ ticker[t] # "off" => ticker'[t] \in {ticker[t], "done"}]_vars
  BY <1>1
<1> QED
  BY <1>2, ProxyInvariance, PTL DEF Spec, OnlyOnce

\* The loop's break, which keeps taskMutex, is only reached when no line is
\* left; and when every proxy has left, every line had its turn.
THEOREM LinesStarted == Spec => []AllStarted
<1>1. IInv => AllStarted
  <2> SUFFICES ASSUME IInv PROVE AllStarted
    OBVIOUS
  <2> USE DEF IInv, LockInv, LineInv
  <2>1. ASSUME NEW p \in Proxies, pc[p] = "gone"
        PROVE  curTask = None /\ Pending(line) = {} /\ owner = p
    BY <2>1
  <2>2. ASSUME \A p \in Proxies : Left(p) PROVE Lines \ Downloaded \subseteq once
    <3>1. PICK g \in Proxies : pc[g] # "invalid"
      BY DEF LoneInv
    <3>2. pc[g] = "gone"
      BY <2>2, <3>1 DEF Left
    <3>3. Lone(g)
      BY <2>1, <2>2, <3>2 DEF Left, Lone
    <3>4. AllHandedOut /\ None \notin Lines
      BY <3>3, ProxyAssumption DEF LoneInv, Faithful, Lines
    <3> QED
      BY <2>1, <3>2, <3>4 DEF AllHandedOut
  <2> QED
    BY <2>1, <2>2 DEF AllStarted
<1> QED
  BY <1>1, ProxyInvariance, PTL

\* What a lone proxy gives up has no idle range left, also after failures.
THEOREM RangesKept == Spec => []NoLostRange
<1>1. IInv => NoLostRange
  <2> SUFFICES ASSUME IInv, Alone, NEW t \in once, t # curTask, idle[t] > 0 PROVE FALSE
    BY DEF NoLostRange
  <2> DEFINE valid == {p \in Proxies : pc[p] # "invalid"}
  <2>1. IsFiniteSet(valid)
    BY FS_Subset, ProxyAssumption
  <2>2. PICK g : valid = {g}
    BY <2>1, FS_Singleton DEF Alone
  <2>3. g \in Proxies /\ Lone(g)
    BY <2>2 DEF Lone
  <2>4. idle[t] = 0
    BY <2>3 DEF IInv, LoneInv, Faithful
  <2> QED
    BY <2>4
<1> QED
  BY <1>1, ProxyInvariance, PTL
=============================================================================
