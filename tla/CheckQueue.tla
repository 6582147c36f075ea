----------------------------- MODULE CheckQueue -----------------------------
(***************************************************************************)
(* The parallel script-check queue of checkqueue.h (CCheckQueue,           *)
(* CCheckQueueControl), as ConnectBlock uses it: one master at a time      *)
(* opens a session under ControlMutex, adds batches of checks, joins the   *)
(* workers in Loop until nothing is left to do, and closes the session.    *)
(*                                                                         *)
(* Everything a thread does while it holds `mutex' is one action; the      *)
(* checks a thread executes without the mutex are another.  The stack of   *)
(* queued checks is a set and a thread takes any nNow of them: the LIFO    *)
(* order is one of the choices.                                            *)
(***************************************************************************)
EXTENDS Integers, FiniteSets, FiniteSetsExt

CONSTANTS
    Workers,        \* threads that run Thread()
    Masters,        \* threads that open CCheckQueueControl sessions
    Checks,         \* the checks a session may add, each at most once
    FailingChecks,  \* those whose operator() returns false
    nBatchSize,     \* the largest batch
    NoMaster        \* ControlMutex is free

ASSUME CheckQueueAssumption ==
    /\ IsFiniteSet(Checks)
    /\ IsFiniteSet(Workers)
    /\ IsFiniteSet(Masters)
    /\ FailingChecks \subseteq Checks
    /\ Workers \cap Masters = {}
    /\ NoMaster \notin Masters
    /\ nBatchSize \in Nat \ {0}

VARIABLES
    queue,      \* checks not yet taken by a thread
    nIdle,      \* threads counted as waiting on a condition variable
    nTotal,     \* threads counted as being in Loop
    fAllOk,     \* the temporary evaluation result
    nTodo,      \* checks that have not been accounted for yet
    control,    \* the master that holds ControlMutex, or NoMaster
    pc,         \* where each thread is
    vChecks,    \* each thread's own batch, until it is accounted for
    fOk,        \* each thread's own result
    fDone,      \* the session's master has called Wait
    interrupted,\* the threads whose cond.wait has thrown
    added,      \* history: the checks added in this session
    fRet        \* history: what the master's last Wait returned

shared == <<queue, nIdle, nTotal, fAllOk, nTodo>>
session == <<control, fDone, interrupted, added, fRet>>
vars == <<shared, pc, vChecks, fOk, session>>

Threads == Workers \cup Masters

\* "out"      a master outside a session, or a worker before Thread()
\* "adding"   a master inside a session, before Wait
\* "enter"    about to take the mutex for the first time in Loop
\* "exec"     holds a batch, not the mutex
\* "cleanup"  has executed its batch, about to take the mutex
\* "waiting"  blocked in cond.wait
\* "notified" woken, about to take the mutex again
\* "returned" a master whose Wait has returned; the destructor is next
\* "gone"     a worker whose wait was interrupted at shutdown
PC == {"out", "adding", "enter", "exec", "cleanup", "waiting", "notified",
       "returned", "gone"}

IdlePC == {"waiting", "notified"}
LoopPC == IdlePC \cup {"exec", "cleanup"}

TypeOK ==
    /\ queue \in SUBSET Checks
    /\ nIdle \in Nat
    /\ nTotal \in Nat
    /\ fAllOk \in BOOLEAN
    /\ nTodo \in Nat
    /\ control \in Masters \cup {NoMaster}
    /\ pc \in [Threads -> PC]
    /\ vChecks \in [Threads -> SUBSET Checks]
    /\ fOk \in [Threads -> BOOLEAN]
    /\ fDone \in BOOLEAN
    /\ interrupted \in SUBSET Threads
    /\ added \in SUBSET Checks
    /\ fRet \in BOOLEAN

Init ==
    /\ queue = {}
    /\ nIdle = 0
    /\ nTotal = 0
    /\ fAllOk = TRUE
    /\ nTodo = 0
    /\ control = NoMaster
    /\ pc = [t \in Threads |-> IF t \in Workers THEN "enter" ELSE "out"]
    /\ vChecks = [t \in Threads |-> {}]
    /\ fOk = [t \in Threads |-> TRUE]
    /\ fDone = FALSE
    /\ interrupted = {}
    /\ added = {}
    /\ fRet = TRUE

-----------------------------------------------------------------------------
(* CCheckQueue::Loop                                                       *)

\* mutant: fAllOk is not reset for the next session
ReturnResultKeepsFailure(t, pcs, total, idle, ok) ==
    /\ nTotal' = total - 1
    /\ nIdle' = idle
    /\ fRet' = ok
    /\ fAllOk' = ok
    /\ fDone' = TRUE
    /\ pc' = [pcs EXCEPT ![t] = "returned"]
    /\ vChecks' = [vChecks EXCEPT ![t] = {}]
    /\ UNCHANGED <<queue, fOk, control, interrupted, added>>

\* The thread leaves Loop.  fQuit is never set in this code, so only a
\* master does; it resets fAllOk for the next session.
ReturnResult(t, pcs, total, idle, ok) ==
    /\ nTotal' = total - 1
    /\ nIdle' = idle
    /\ fRet' = ok
    /\ fAllOk' = TRUE
    /\ fDone' = TRUE
    /\ pc' = [pcs EXCEPT ![t] = "returned"]
    /\ vChecks' = [vChecks EXCEPT ![t] = {}]
    /\ UNCHANGED <<queue, fOk, control, interrupted, added>>

\* nothing queued: block on condMaster or condWorker
WaitForWork(t, pcs, total, idle, ok) ==
    /\ nIdle' = idle + 1
    /\ nTotal' = total
    /\ fAllOk' = ok
    /\ pc' = [pcs EXCEPT ![t] = "waiting"]
    /\ vChecks' = [vChecks EXCEPT ![t] = {}]
    /\ UNCHANGED <<queue, fOk, session>>

BatchLength(total, idle) ==
    Max({1, Min({nBatchSize, Cardinality(queue) \div (total + idle + 1)})})

TakeBatch(t, pcs, total, idle, ok) ==
    \E batch \in SUBSET queue :
        /\ Cardinality(batch) = BatchLength(total, idle)
        /\ queue' = queue \ batch
        /\ vChecks' = [vChecks EXCEPT ![t] = batch]
        /\ fOk' = [fOk EXCEPT ![t] = ok]
        /\ pc' = [pcs EXCEPT ![t] = "exec"]
        /\ nIdle' = idle
        /\ nTotal' = total
        /\ fAllOk' = ok
        /\ UNCHANGED session

\* From "logically, the do loop starts here" to the end of the critical
\* section; the arguments are the values the code before it left behind.
LoopBody(t, pcs, total, idle, ok, todo) ==
    /\ nTodo' = todo
    /\ \/ /\ queue = {}
          /\ t \in Masters /\ todo = 0
          /\ ReturnResult(t, pcs, total, idle, ok)
       \/ /\ queue = {}
          /\ ~(t \in Masters /\ todo = 0)
          /\ WaitForWork(t, pcs, total, idle, ok)
       \/ /\ queue # {}
          /\ TakeBatch(t, pcs, total, idle, ok)

\* first iteration: nTotal++
EnterLoop(t) ==
    /\ pc[t] = "enter"
    /\ LoopBody(t, pc, nTotal + 1, nIdle, fAllOk, nTodo)

\* the work itself, done without the mutex; a thread that starts with
\* fOk = FALSE, or meets a failing check, skips the rest of its batch
ExecuteBatch(t) ==
    /\ pc[t] = "exec"
    /\ fOk' = [fOk EXCEPT ![t] = fOk[t] /\ vChecks[t] \cap FailingChecks = {}]
    /\ pc' = [pc EXCEPT ![t] = "cleanup"]
    /\ UNCHANGED <<shared, vChecks, session>>

\* mutant: the worker that finishes last does not notify the master
NotifyNobody(t, todo) == pc

\* condMaster.notify_one() when a worker has accounted for the last check
NotifyMaster(t, todo) ==
    [u \in Threads |->
        IF /\ t \notin Masters /\ todo = 0
           /\ u \in Masters /\ pc[u] = "waiting"
        THEN "notified" ELSE pc[u]]

\* mutant: a batch is only accounted for when all its checks passed
CleanUpOnlyOnSuccess(t) ==
    /\ pc[t] = "cleanup"
    /\ LET todo == IF fOk[t] THEN nTodo - Cardinality(vChecks[t]) ELSE nTodo
       IN  LoopBody(t, NotifyMaster(t, todo), nTotal, nIdle,
                    fAllOk /\ fOk[t], todo)

\* next iterations: account for the batch in the same critical section
CleanUp(t) ==
    /\ pc[t] = "cleanup"
    /\ LET todo == nTodo - Cardinality(vChecks[t])
       IN  LoopBody(t, NotifyMaster(t, todo), nTotal, nIdle,
                    fAllOk /\ fOk[t], todo)

\* mutant: nIdle is not lowered after the wait
WakeStaysIdle(t) ==
    /\ pc[t] = "notified"
    /\ LoopBody(t, pc, nTotal, nIdle, fAllOk, nTodo)

\* cond.wait returns, because of a notification or spuriously: nIdle--
Wake(t) ==
    /\ pc[t] = "notified"
    /\ LoopBody(t, pc, nTotal, nIdle - 1, fAllOk, nTodo)

SpuriousWake(t) ==
    /\ pc[t] = "waiting"
    /\ LoopBody(t, pc, nTotal, nIdle - 1, fAllOk, nTodo)

\* threadGroup.interrupt_all() at shutdown, once for each thread: cond.wait
\* throws, and the thread leaves Loop without undoing nIdle++ and nTotal++
\* and takes with it any notification it had received.  A worker ends.  A
\* master (msghand, ThreadImport, a miner) leaves Wait with fDone unset, so
\* that ~CCheckQueueControl enters Loop again.
Interrupt(t) ==
    /\ t \notin interrupted
    /\ pc[t] \in IdlePC
    /\ interrupted' = interrupted \cup {t}
    /\ pc' = [pc EXCEPT ![t] = IF t \in Workers THEN "gone" ELSE "enter"]
    /\ UNCHANGED <<shared, vChecks, fOk, control, fDone, added, fRet>>

-----------------------------------------------------------------------------
(* CCheckQueueControl and CCheckQueue::Add                                 *)

\* the exception ends the thread of an interrupted master
OpenSession(m) ==
    /\ pc[m] = "out"
    /\ m \notin interrupted
    /\ control = NoMaster
    /\ control' = m
    /\ fDone' = FALSE
    /\ added' = {}
    /\ pc' = [pc EXCEPT ![m] = "adding"]
    /\ UNCHANGED <<shared, vChecks, fOk, interrupted, fRet>>

\* one new check wakes one waiting worker if there is one, more wake all
NotifyWorkers(n) ==
    LET waiting == {w \in Workers : pc[w] = "waiting"}
        wake(W) == [u \in Threads |-> IF u \in W THEN "notified" ELSE pc[u]]
    IN  IF n = 1 /\ waiting # {}
        THEN {wake({w}) : w \in waiting}
        ELSE {wake(waiting)}

Add(m, batch) ==
    /\ pc[m] = "adding"
    /\ batch \cap added = {}
    /\ queue' = queue \cup batch
    /\ nTodo' = nTodo + Cardinality(batch)
    /\ added' = added \cup batch
    /\ pc' \in NotifyWorkers(Cardinality(batch))
    /\ UNCHANGED <<nIdle, nTotal, fAllOk, vChecks, fOk, control, fDone,
                   interrupted, fRet>>

\* control.Wait()
Wait(m) ==
    /\ pc[m] = "adding"
    /\ pc' = [pc EXCEPT ![m] = "enter"]
    /\ UNCHANGED <<shared, vChecks, fOk, session>>

\* mutant: the destructor releases ControlMutex without waiting
DestroyAtOnce(m) ==
    /\ pc[m] \in {"adding", "returned"}
    /\ control' = NoMaster
    /\ pc' = [pc EXCEPT ![m] = "out"]
    /\ UNCHANGED <<shared, vChecks, fOk, fDone, interrupted, added, fRet>>

\* ~CCheckQueueControl: Wait if the session was abandoned before Wait,
\* then release ControlMutex
Destroy(m) ==
    /\ pc[m] \in {"adding", "returned"}
    /\ IF ~fDone
       THEN /\ pc' = [pc EXCEPT ![m] = "enter"]
            /\ UNCHANGED <<shared, vChecks, fOk, session>>
       ELSE /\ control' = NoMaster
            /\ pc' = [pc EXCEPT ![m] = "out"]
            /\ UNCHANGED <<shared, vChecks, fOk, fDone, interrupted, added, fRet>>

-----------------------------------------------------------------------------

LoopStep(t) ==
    EnterLoop(t) \/ ExecuteBatch(t) \/ CleanUp(t) \/ Wake(t)

MasterStep(m) ==
    \/ OpenSession(m) \/ Wait(m) \/ Destroy(m)
    \/ \E batch \in SUBSET Checks \ {{}} : Add(m, batch)

\* shutdown has interrupted every thread and nobody is left to move
AllEnded ==
    /\ interrupted = Threads
    /\ control = NoMaster
    /\ UNCHANGED vars

Next ==
    \/ \E t \in Threads : LoopStep(t) \/ SpuriousWake(t) \/ Interrupt(t)
    \/ \E m \in Masters : MasterStep(m)
    \/ AllEnded

\* A thread that can take the mutex eventually does, and a master that has
\* opened a session goes on to close it: ConnectBlock cannot be left
\* without running the destructor.  Nobody is forced to open a session,
\* and workers that block need never be woken.
Fairness ==
    /\ \A t \in Threads : WF_vars(LoopStep(t))
    /\ \A m \in Masters : WF_vars(Destroy(m))

Spec == Init /\ [][Next]_vars /\ Fairness

-----------------------------------------------------------------------------
(* Properties                                                              *)

\* checks that are queued or in a thread's batch
Pending == {c \in Checks : c \in queue \/ \E t \in Threads : c \in vChecks[t]}

\* nTodo counts exactly the checks that are queued or in a thread's batch
\* (the comment on nTodo), and no check is in two places.
TodoAccounting ==
    /\ nTodo = Cardinality(Pending)
    /\ \A t \in Threads : vChecks[t] \cap queue = {}
    /\ \A t, u \in Threads : t # u => vChecks[t] \cap vChecks[u] = {}

\* nIdle and nTotal, which decide how large a batch is, count the threads
\* that wait and the threads in Loop, and one more for every thread that was
\* interrupted, master or worker, whether or not it came back: the drift
\* never exceeds the number of interruptions and nIdle-- never wraps.
LoopCounters ==
    /\ nIdle = Cardinality({t \in Threads : pc[t] \in IdlePC})
                 + Cardinality(interrupted)
    /\ nTotal = Cardinality({t \in Threads : pc[t] \in LoopPC})
                 + Cardinality(interrupted)

\* Wait returns true exactly when every check of its own session passes,
\* whichever threads executed, skipped or were interrupted, and whatever
\* an earlier or abandoned session left in fAllOk.
ResultExact ==
    \A m \in Masters :
        pc[m] = "returned" => (fRet <=> added \cap FailingChecks = {})

\* Between sessions the queue is as it was constructed: nothing queued,
\* no batch still being executed, no failure carried into the next block.
CleanBetweenSessions ==
    control = NoMaster => Pending = {} /\ nTodo = 0 /\ fAllOk

\* A session that is opened is closed: the master is never left waiting
\* for a notification that does not come.
SessionCloses ==
    \A m \in Masters : control = m ~> control # m
=============================================================================
