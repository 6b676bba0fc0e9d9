-------------------------------- MODULE Proxy --------------------------------
(***************************************************************************)
(* The proxies (src/proxy.go) and the list of tasks they share             *)
(* (src/main.go).  One goroutine per proxy takes the current task under    *)
(* taskMutex, initialises it if nobody has, and works on it until Go       *)
(* returns nil; it then asks for the next task.  The current task is read  *)
(* a second time after taskMutex was released, so everything another proxy *)
(* does in between is visible to it.                                       *)
(*                                                                         *)
(* A task is abstracted to its number of idle ranges; DownloadTask has the *)
(* ranges themselves.                                                      *)
(***************************************************************************)
EXTENDS Integers, FiniteSets

CONSTANTS
    Proxies,     \* lines of ips.txt, each a goroutine if it is an address
    None,        \* nil
    Tasks,       \* bound: number of lines of urls.txt
    Downloaded,  \* lines whose file exists without a ".stat" file
    MaxRanges,   \* bound: ranges a ".stat" file yields
    MaxSplits,   \* bound: times the ranges of a task are split
    MaxFaults    \* bound: failed links, lengths and transfers

ASSUME ProxyAssumption ==
    /\ IsFiniteSet(Proxies)
    /\ Tasks \in Nat
    /\ Downloaded \subseteq 1..Tasks
    /\ MaxRanges \in Nat \ {0}
    /\ MaxSplits \in Nat
    /\ MaxFaults \in Nat
    /\ None \notin Proxies
    /\ None \notin 1..Tasks

VARIABLES
    line,     \* lines of urls.txt read so far
    curTask,  \* the global curTask
    owner,    \* holder of taskMutex
    once,     \* lines whose task has once = 1
    loaded,   \* ranges init has put into each task
    idle,     \* ranges of each task that nobody works on
    splits,   \* ranges split off so far, per task
    ticker,   \* the ticker goroutine of each task
    pc, task, \* per proxy: where it is, its local `task'
    main,     \* main is waiting on wg, or has returned
    panic, faults

vars == <<line, curTask, owner, once, loaded, idle, splits, ticker, pc, task,
          main, panic, faults>>

Lines == 1..Tasks
Busy(t) == {p \in Proxies : pc[p] = "work" /\ task[p] = t}
Running == panic = "no" /\ main = "waiting"

-----------------------------------------------------------------------------
(* nextTask: the next line that is not downloaded already, nil at the end *)

\* Mutant: the line after the current one is passed over.
PendingAfterNext(n) == {t \in Lines : n + 1 < t /\ t \notin Downloaded}

Pending(n) == {t \in Lines : n < t /\ t \notin Downloaded}
First(S) == CHOOSE t \in S : \A u \in S : t <= u

TaskAfter(n) == IF Pending(n) = {} THEN None ELSE First(Pending(n))
LineAfter(n) == IF Pending(n) = {} THEN Tasks ELSE First(Pending(n))

(* runProxys passes over the lines that are no addresses; one is left here.  *)
Started == [Proxies -> {"lock", "invalid"}] \ {[p \in Proxies |-> "invalid"]}
Left(p) == pc[p] \in {"gone", "invalid"}

Init ==
    /\ line = LineAfter(0)
    /\ curTask = TaskAfter(0)
    /\ owner = None
    /\ once = {}
    /\ loaded = [t \in Lines |-> 0]
    /\ idle = [t \in Lines |-> 0]
    /\ splits = [t \in Lines |-> 0]
    /\ ticker = [t \in Lines |-> "off"]
    /\ pc \in Started
    /\ task = [p \in Proxies |-> None]
    /\ main = "waiting"
    /\ panic = "no" /\ faults = 0

Goto(p, loc) == pc' = [pc EXCEPT ![p] = loc]

-----------------------------------------------------------------------------
(* runProxy, from taskMutex.Lock to taskMutex.Unlock *)

\* No task: break leaves the loop without Unlock; wg.Done.
Leave(p) ==
    /\ Running /\ pc[p] = "lock" /\ owner = None
    /\ curTask = None
    /\ owner' = p
    /\ Goto(p, "gone")
    /\ UNCHANGED <<line, curTask, once, loaded, idle, splits, ticker, task,
                   main, panic, faults>>

\* Mutant: once is not looked at.
NeedsInitAlways(t) == TRUE

NeedsInit(t) == t \notin once

Enter(p) ==
    /\ Running /\ pc[p] = "lock" /\ owner = None
    /\ curTask # None
    /\ IF NeedsInit(curTask)
       THEN owner' = p /\ Goto(p, "init")
       ELSE owner' = owner /\ Goto(p, "read")
    /\ UNCHANGED <<line, curTask, once, loaded, idle, splits, ticker, task,
                   main, panic, faults>>

\* init appends the ranges of the ".stat" file without the task's own lock.
InitLoad(p) ==
    /\ Running /\ pc[p] = "init"
    /\ loaded[curTask] < MaxRanges
    /\ loaded' = [loaded EXCEPT ![curTask] = @ + 1]
    /\ idle' = [idle EXCEPT ![curTask] = @ + 1]
    /\ UNCHANGED <<line, curTask, owner, once, splits, ticker, pc, task, main,
                   panic, faults>>

\* Whatever init returned, once is set and the lock released.
InitReturns(p) ==
    /\ Running /\ pc[p] = "init"
    /\ once' = once \cup {curTask}
    /\ owner' = None
    /\ Goto(p, "read")
    /\ UNCHANGED <<line, curTask, splits, task, main, panic>>

\* No link, before a line was read, or no length: no ticker is started.
InitFails(p) ==
    /\ faults < MaxFaults
    /\ faults' = faults + 1
    /\ InitReturns(p)
    /\ UNCHANGED <<loaded, idle, ticker>>

\* Without a range in the ".stat" file the whole file is one.
InitSucceeds(p) ==
    /\ InitReturns(p)
    /\ IF loaded[curTask] = 0
       THEN /\ loaded' = [loaded EXCEPT ![curTask] = 1]
            /\ idle' = [idle EXCEPT ![curTask] = 1]
       ELSE UNCHANGED <<loaded, idle>>
    /\ ticker' = [ticker EXCEPT ![curTask] = "on"]
    /\ UNCHANGED faults

\* `task := curTask', after the unlock.
ReadTask(p) ==
    /\ Running /\ pc[p] = "read"
    /\ task' = [task EXCEPT ![p] = curTask]
    /\ Goto(p, "go")
    /\ UNCHANGED <<line, curTask, owner, once, loaded, idle, splits, ticker,
                   main, panic, faults>>

-----------------------------------------------------------------------------
(* The inner loop: Go *)

\* Mutant: Go returns nil although a range is idle.
ExhaustedAlways(t) == TRUE

Exhausted(t) == idle[t] = 0

InGo(p) == Running /\ pc[p] = "go" /\ task[p] # None

GoNil(p) ==
    /\ Running /\ pc[p] = "go" /\ task[p] = None
    /\ panic' = "nilTask"
    /\ UNCHANGED <<line, curTask, owner, once, loaded, idle, splits, ticker,
                   pc, task, main, faults>>

GoTakes(p) ==
    /\ InGo(p)
    /\ idle[task[p]] > 0
    /\ idle' = [idle EXCEPT ![task[p]] = @ - 1]
    /\ Goto(p, "work")
    /\ UNCHANGED <<line, curTask, owner, once, loaded, splits, ticker, task,
                   main, panic, faults>>

\* Every range is busy and the longest is long enough.
GoSplits(p) ==
    /\ InGo(p)
    /\ Exhausted(task[p]) /\ Busy(task[p]) # {}
    /\ splits[task[p]] < MaxSplits
    /\ splits' = [splits EXCEPT ![task[p]] = @ + 1]
    /\ Goto(p, "work")
    /\ UNCHANGED <<line, curTask, owner, once, loaded, idle, ticker, task,
                   main, panic, faults>>

\* Go returns nil: no range, or all busy and too short.
GoLeaves(p) ==
    /\ InGo(p)
    /\ Exhausted(task[p])
    /\ Goto(p, "relock")
    /\ UNCHANGED <<line, curTask, owner, once, loaded, idle, splits, ticker,
                   task, main, panic, faults>>

\* ErrNext: the range is finished and removed.
WorkDone(p) ==
    /\ Running /\ pc[p] = "work"
    /\ Goto(p, "go")
    /\ UNCHANGED <<line, curTask, owner, once, loaded, idle, splits, ticker,
                   task, main, panic, faults>>

\* Another error: the range is idle again and the proxy sleeps.
WorkFails(p) ==
    /\ Running /\ pc[p] = "work"
    /\ faults < MaxFaults
    /\ faults' = faults + 1
    /\ idle' = [idle EXCEPT ![task[p]] = @ + 1]
    /\ Goto(p, "go")
    /\ UNCHANGED <<line, curTask, owner, once, loaded, splits, ticker, task,
                   main, panic>>

-----------------------------------------------------------------------------
(* The end of runProxy's loop, under taskMutex *)

\* Mutant: the comparison with curTask never holds.
EndsTaskNever(p) == FALSE

EndsTask(p) == task[p] = curTask

\* The task is still current: nextTask.
TaskEnds(p) ==
    /\ Running /\ pc[p] = "relock" /\ owner = None
    /\ EndsTask(p)
    /\ curTask' = TaskAfter(line)
    /\ line' = LineAfter(line)
    /\ Goto(p, "lock")
    /\ UNCHANGED <<owner, once, loaded, idle, splits, ticker, task, main,
                   panic, faults>>

\* Another proxy has moved on; curTask.filename is read for the log line.
TaskSwitched(p) ==
    /\ Running /\ pc[p] = "relock" /\ owner = None
    /\ ~EndsTask(p)
    /\ IF curTask = None
       THEN panic' = "nilCurTask" /\ UNCHANGED pc
       ELSE UNCHANGED panic /\ Goto(p, "lock")
    /\ UNCHANGED <<line, curTask, owner, once, loaded, idle, splits, ticker,
                   task, main, faults>>

-----------------------------------------------------------------------------
\* The ticker finds no range left.
Complete(t) ==
    /\ Running /\ ticker[t] = "on"
    /\ idle[t] = 0 /\ Busy(t) = {}
    /\ ticker' = [ticker EXCEPT ![t] = "done"]
    /\ UNCHANGED <<line, curTask, owner, once, loaded, idle, splits, pc, task,
                   main, panic, faults>>

\* wg.Wait returns: main returns and the process ends.
Exit ==
    /\ Running
    /\ \A p \in Proxies : Left(p)
    /\ main' = "returned"
    /\ UNCHANGED <<line, curTask, owner, once, loaded, idle, splits, ticker,
                   pc, task, panic, faults>>

Stopped == ~Running /\ UNCHANGED vars

ProxyStep(p) ==
    \/ Leave(p) \/ Enter(p) \/ InitLoad(p) \/ InitFails(p) \/ InitSucceeds(p)
    \/ ReadTask(p) \/ GoNil(p) \/ GoTakes(p) \/ GoSplits(p) \/ GoLeaves(p)
    \/ WorkDone(p) \/ WorkFails(p) \/ TaskEnds(p) \/ TaskSwitched(p)

Next ==
    \/ \E p \in Proxies : ProxyStep(p)
    \/ \E t \in Lines : Complete(t)
    \/ Exit
    \/ Stopped

Spec == Init /\ [][Next]_vars

\* Goroutines that can run do; taskMutex is handed over (Go's mutexes do not
\* starve a waiter), hence strong fairness for the steps that need it.
Fairness ==
    /\ \A p \in Proxies : WF_vars(ProxyStep(p))
    /\ \A p \in Proxies : SF_vars(Enter(p)) /\ SF_vars(TaskEnds(p) \/ TaskSwitched(p))
    /\ \A t \in Lines : WF_vars(Complete(t))
    /\ WF_vars(Exit)
FairSpec == Spec /\ Fairness

-----------------------------------------------------------------------------
(* Properties *)

\* The comment of init: a task is initialised once.  A second init would load
\* ranges again and start a second ticker on the same ".stat" file.
OnlyOnce ==
    [][\A t \in Lines :
          /\ t \in once => loaded'[t] = loaded[t]
          /\ ticker[t] # "off" => ticker'[t] \in {ticker[t], "done"}]_vars

Alone == Cardinality({p \in Proxies : pc[p] # "invalid"}) = 1

\* A lone proxy keeps a task for as long as it has work: a range that becomes
\* idle again by a failure is not forgotten when the task loses its place.
NoLostRange ==
    Alone => \A t \in once : t # curTask /\ idle[t] > 0 =>
        \E p \in Proxies : task[p] = t /\ pc[p] \in {"go", "work"}

\* Every line that is not downloaded already has been started by the time the
\* proxies have left, and the mutex is lost only when no line is left.  The
\* first part is about a lone proxy: of several, only one ever leaves, and they
\* may pass a line by whose init was never called (ReadTask, TaskEnds).
AllStarted ==
    /\ (\A p \in Proxies : Left(p)) => Lines \ Downloaded \subseteq once
    /\ (\E p \in Proxies : pc[p] = "gone") => curTask = None /\ Pending(line) = {}

\* All lines are handed out in the end, whatever fails.
TasksRunOut == <>(curTask = None \/ panic # "no")

\* The log line "no task left, waiting for exit": the program ends, with any
\* number of proxies, and with one.
Exits == <>(main = "returned" \/ panic # "no")
ExitsAlone == Alone => Exits
=============================================================================
