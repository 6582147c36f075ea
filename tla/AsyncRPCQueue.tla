---------------------------- MODULE AsyncRPCQueue ----------------------------
(***************************************************************************)
(* The queue of asynchronous RPC operations (asyncrpcqueue.cpp) and the    *)
(* life of an operation (asyncrpcoperation.cpp): RPC threads add           *)
(* operations, worker threads run them, z_getoperationresult collects what *)
(* has finished, and the thread that stops the node closes the queue or    *)
(* lets it finish and joins the workers.                                   *)
(*                                                                         *)
(* A section under lock_ is one action, except cancelAllOperations, which  *)
(* holds lock_ while it cancels one operation after the other: state_ is   *)
(* an atomic that the workers change without lock_, and cancel tests it    *)
(* and sets it in two steps.                                               *)
(***************************************************************************)
EXTENDS Naturals, Sequences

CONSTANTS
    Workers,    \* threads addWorker may spawn
    Ops,        \* operations the RPC calls may create
    NoOp        \* no operation: an empty shared_ptr

ASSUME NoOpAssumption == NoOp \notin Ops

VARIABLES
    operation_map_,         \* the operations known to the queue
    operation_id_queue_,    \* the ids waiting for a worker
    closed_, finish_,       \* atomics, stored without lock_
    lock_,                  \* held by cancelAllOperations over several steps
    state_,                 \* state_ of each operation; "NONE" before it exists
    runs,                   \* how often main_impl of an operation was entered
    wpc, wop,               \* where each worker is in run, and its operation
    spc, sop, stodo,        \* where the stopping thread is, and what it cancels
    rpc, rop,               \* where z_getoperationresult is, and its operation
    reported                \* what z_getoperationresult said of an operation

queueVars  == <<operation_map_, operation_id_queue_, lock_>>
flagVars   == <<closed_, finish_>>
opVars     == <<state_, runs>>
workerVars == <<wpc, wop>>
stopVars   == <<spc, sop, stodo>>
readVars   == <<rpc, rop, reported>>
vars == <<queueVars, flagVars, opVars, workerVars, stopVars, readVars>>

Finished == {"CANCELLED", "FAILED", "SUCCESS"}
States   == Finished \cup {"READY", "EXECUTING"}

Spawned == {w \in Workers : wpc[w] # "none"}
Alive   == {w \in Spawned : wpc[w] # "exited"}

\* the operations addOperation has taken in: z_getoperationresult removes some
Accepted == operation_map_ \cup {o \in Ops : reported[o] # "NONE"}

Init ==
    /\ operation_map_ = {} /\ operation_id_queue_ = <<>> /\ lock_ = FALSE
    /\ closed_ = FALSE /\ finish_ = FALSE
    /\ state_ = [o \in Ops |-> "NONE"] /\ runs = [o \in Ops |-> 0]
    /\ wpc = [w \in Workers |-> "none"] /\ wop = [w \in Workers |-> NoOp]
    /\ spc = "up" /\ sop = NoOp /\ stodo = {}
    /\ rpc = "idle" /\ rop = NoOp /\ reported = [o \in Ops |-> "NONE"]

-----------------------------------------------------------------------------
(* The condition variable.  A worker that is notified competes for lock_.  *)

NotifyOne ==
    IF \E w \in Workers : wpc[w] = "waiting"
    THEN \E w \in Workers : wpc[w] = "waiting" /\ wpc' = [wpc EXCEPT ![w] = "loop"]
    ELSE wpc' = wpc

NotifyAll ==
    wpc' = [w \in Workers |-> IF wpc[w] = "waiting" THEN "loop" ELSE wpc[w]]

\* StartRPC, on the thread that will also stop the queue
AddWorker(w) ==
    /\ ~lock_ /\ spc = "up" /\ wpc[w] = "none"
    /\ wpc' = [wpc EXCEPT ![w] = "loop"]
    /\ UNCHANGED <<queueVars, flagVars, opVars, wop, stopVars, readVars>>

-----------------------------------------------------------------------------
(* RPC calls.                                                              *)

\* Bug: only finishing keeps new operations out, closing does not.
AddToClosed(o) ==
    /\ ~lock_ /\ state_[o] = "NONE"
    /\ state_' = [state_ EXCEPT ![o] = "READY"]
    /\ IF finish_
       THEN UNCHANGED <<operation_map_, operation_id_queue_, wpc>>
       ELSE /\ operation_map_' = operation_map_ \cup {o}
            /\ operation_id_queue_' = Append(operation_id_queue_, o)
            /\ NotifyOne
    /\ UNCHANGED <<lock_, flagVars, runs, wop, stopVars, readVars>>

\* Bug: the sleeping worker is not notified.
AddSilently(o) ==
    /\ ~lock_ /\ state_[o] = "NONE"
    /\ state_' = [state_ EXCEPT ![o] = "READY"]
    /\ IF closed_ \/ finish_
       THEN UNCHANGED <<operation_map_, operation_id_queue_>>
       ELSE /\ operation_map_' = operation_map_ \cup {o}
            /\ operation_id_queue_' = Append(operation_id_queue_, o)
    /\ UNCHANGED <<lock_, flagVars, runs, workerVars, stopVars, readVars>>

\* an RPC call creates the operation and adds it; a queue that is closing
\* leaves it out, and the caller is not told
AddOperation(o) ==
    /\ ~lock_ /\ state_[o] = "NONE"
    /\ state_' = [state_ EXCEPT ![o] = "READY"]
    /\ IF closed_ \/ finish_
       THEN UNCHANGED <<operation_map_, operation_id_queue_, wpc>>
       ELSE /\ operation_map_' = operation_map_ \cup {o}
            /\ operation_id_queue_' = Append(operation_id_queue_, o)
            /\ NotifyOne
    /\ UNCHANGED <<lock_, flagVars, runs, wop, stopVars, readVars>>

\* z_getoperationresult runs under cs_main and cs_wallet: one call at a time
GetOperation(o) ==
    /\ ~lock_ /\ rpc = "idle" /\ o \in operation_map_
    /\ rpc' = "status" /\ rop' = o
    /\ UNCHANGED <<queueVars, flagVars, opVars, workerVars, stopVars, reported>>

\* getStatus loads state_ once for the status it reports
GetStatus ==
    /\ rpc = "status"
    /\ IF state_[rop] \in Finished
       THEN /\ reported' = [reported EXCEPT ![rop] = state_[rop]]
            /\ rpc' = "pop" /\ rop' = rop
       ELSE rpc' = "idle" /\ rop' = NoOp /\ UNCHANGED reported
    /\ UNCHANGED <<queueVars, flagVars, opVars, workerVars, stopVars>>

PopOperation ==
    /\ ~lock_ /\ rpc = "pop"
    /\ operation_map_' = operation_map_ \ {rop}
    /\ rpc' = "idle" /\ rop' = NoOp
    /\ UNCHANGED <<operation_id_queue_, lock_, flagVars, opVars, workerVars,
                   stopVars, reported>>

-----------------------------------------------------------------------------
(* AsyncRPCQueue::run and the operation's main.                            *)

RunWait(w) ==
    /\ ~lock_ /\ wpc[w] = "loop"
    /\ operation_id_queue_ = <<>> /\ ~closed_ /\ ~finish_
    /\ wpc' = [wpc EXCEPT ![w] = "waiting"]
    /\ UNCHANGED <<queueVars, flagVars, opVars, wop, stopVars, readVars>>

SpuriousWake(w) ==
    /\ wpc[w] = "waiting"
    /\ wpc' = [wpc EXCEPT ![w] = "loop"]
    /\ UNCHANGED <<queueVars, flagVars, opVars, wop, stopVars, readVars>>

\* Bug: a worker leaves as soon as the queue is finishing.
RunExitEarly(w) ==
    /\ ~lock_ /\ wpc[w] = "loop"
    /\ closed_ \/ finish_
    /\ operation_id_queue_' = <<>>
    /\ wpc' = [wpc EXCEPT ![w] = "exited"]
    /\ UNCHANGED <<operation_map_, lock_, flagVars, opVars, wop, stopVars, readVars>>

RunExit(w) ==
    /\ ~lock_ /\ wpc[w] = "loop"
    /\ closed_ \/ (finish_ /\ operation_id_queue_ = <<>>)
    /\ operation_id_queue_' = <<>>
    /\ wpc' = [wpc EXCEPT ![w] = "exited"]
    /\ UNCHANGED <<operation_map_, lock_, flagVars, opVars, wop, stopVars, readVars>>

\* Bug: the id is read and not popped.
RunTakeNoPop(w) ==
    /\ ~lock_ /\ wpc[w] = "loop" /\ ~closed_ /\ operation_id_queue_ # <<>>
    /\ Head(operation_id_queue_) \in operation_map_
    /\ wop' = [wop EXCEPT ![w] = Head(operation_id_queue_)]
    /\ wpc' = [wpc EXCEPT ![w] = "check"]
    /\ UNCHANGED <<queueVars, flagVars, opVars, stopVars, readVars>>

\* an id that is no longer in the map is dropped
RunTake(w) ==
    /\ ~lock_ /\ wpc[w] = "loop" /\ ~closed_ /\ operation_id_queue_ # <<>>
    /\ LET key == Head(operation_id_queue_) IN
       IF key \in operation_map_
       THEN /\ wop' = [wop EXCEPT ![w] = key]
            /\ wpc' = [wpc EXCEPT ![w] = "check"]
       ELSE UNCHANGED workerVars
    /\ operation_id_queue_' = Tail(operation_id_queue_)
    /\ UNCHANGED <<operation_map_, lock_, flagVars, opVars, stopVars, readVars>>

\* run and then main ask isCancelled; the later answer decides
MainCheck(w) ==
    /\ wpc[w] = "check"
    /\ IF state_[wop[w]] = "CANCELLED"
       THEN /\ wpc' = [wpc EXCEPT ![w] = "loop"]
            /\ wop' = [wop EXCEPT ![w] = NoOp]
       ELSE wpc' = [wpc EXCEPT ![w] = "start"] /\ wop' = wop
    /\ UNCHANGED <<queueVars, flagVars, opVars, stopVars, readVars>>

MainStart(w) ==
    /\ wpc[w] = "start"
    /\ state_' = [state_ EXCEPT ![wop[w]] = "EXECUTING"]
    /\ wpc' = [wpc EXCEPT ![w] = "work"]
    /\ UNCHANGED <<queueVars, flagVars, runs, wop, stopVars, readVars>>

\* main_impl returns or throws; every exception is caught
MainImpl(w) ==
    /\ wpc[w] = "work"
    /\ runs' = [runs EXCEPT ![wop[w]] = @ + 1]
    /\ wpc' = [wpc EXCEPT ![w] = "done"]
    /\ UNCHANGED <<queueVars, flagVars, state_, wop, stopVars, readVars>>

MainEnd(w) ==
    /\ wpc[w] = "done"
    /\ \E s \in {"SUCCESS", "FAILED"} : state_' = [state_ EXCEPT ![wop[w]] = s]
    /\ wpc' = [wpc EXCEPT ![w] = "loop"]
    /\ wop' = [wop EXCEPT ![w] = NoOp]
    /\ UNCHANGED <<queueVars, flagVars, runs, stopVars, readVars>>

-----------------------------------------------------------------------------
(* closeAndWait, from StopRPC and from the destructor, and finishAndWait.  *)

\* the flag is stored before lock_ is taken
Close ==
    /\ spc = "up" \/ (spc = "joined" /\ ~closed_)
    /\ closed_' = TRUE /\ spc' = "cancel"
    /\ UNCHANGED <<queueVars, finish_, opVars, workerVars, sop, stodo, readVars>>

Finish ==
    /\ spc = "up"
    /\ finish_' = TRUE /\ spc' = "notify"
    /\ UNCHANGED <<queueVars, closed_, opVars, workerVars, sop, stodo, readVars>>

\* Bug: the map is walked without the lock.
CancelAllUnlocked ==
    /\ ~lock_ /\ spc = "cancel"
    /\ stodo' = operation_map_ /\ spc' = "each"
    /\ UNCHANGED <<queueVars, flagVars, opVars, workerVars, sop, readVars>>

CancelAllOperations ==
    /\ ~lock_ /\ spc = "cancel"
    /\ lock_' = TRUE /\ stodo' = operation_map_ /\ spc' = "each"
    /\ UNCHANGED <<operation_map_, operation_id_queue_, flagVars, opVars,
                   workerVars, sop, readVars>>

\* AsyncRPCOperation::cancel, its test of isReady ...
CancelTest(o) ==
    /\ spc = "each" /\ o \in stodo
    /\ IF state_[o] = "READY"
       THEN spc' = "set" /\ sop' = o /\ stodo' = stodo
       ELSE spc' = spc /\ sop' = sop /\ stodo' = stodo \ {o}
    /\ UNCHANGED <<queueVars, flagVars, opVars, workerVars, readVars>>

\* ... and its set_state
CancelSet ==
    /\ spc = "set"
    /\ state_' = [state_ EXCEPT ![sop] = "CANCELLED"]
    /\ spc' = "each" /\ sop' = NoOp /\ stodo' = stodo \ {sop}
    /\ UNCHANGED <<queueVars, flagVars, runs, workerVars, readVars>>

CancelEnd ==
    /\ spc = "each" /\ stodo = {}
    /\ NotifyAll
    /\ lock_' = FALSE /\ spc' = "notify"
    /\ UNCHANGED <<operation_map_, operation_id_queue_, flagVars, opVars, wop,
                   sop, stodo, readVars>>

\* Bug: the workers are joined without being woken.
WaitSilently ==
    /\ ~lock_ /\ spc = "notify"
    /\ spc' = "join"
    /\ UNCHANGED <<queueVars, flagVars, opVars, workerVars, sop, stodo, readVars>>

\* wait_for_worker_threads
WaitNotify ==
    /\ ~lock_ /\ spc = "notify"
    /\ NotifyAll
    /\ spc' = "join"
    /\ UNCHANGED <<queueVars, flagVars, opVars, wop, sop, stodo, readVars>>

Join ==
    /\ spc = "join" /\ Alive = {}
    /\ spc' = "joined"
    /\ UNCHANGED <<queueVars, flagVars, opVars, workerVars, sop, stodo, readVars>>

-----------------------------------------------------------------------------

RunSteps(w) ==
    \/ RunWait(w) \/ RunExit(w) \/ RunTake(w)
    \/ MainCheck(w) \/ MainStart(w) \/ MainImpl(w) \/ MainEnd(w)

ReadSteps == GetStatus \/ PopOperation

StopSteps ==
    \/ CancelAllOperations \/ CancelSet \/ CancelEnd \/ WaitNotify \/ Join
    \/ \E o \in Ops : CancelTest(o)

Next ==
    \/ \E w \in Workers : AddWorker(w) \/ SpuriousWake(w) \/ RunSteps(w)
    \/ \E o \in Ops : AddOperation(o) \/ GetOperation(o)
    \/ ReadSteps
    \/ Close \/ Finish \/ StopSteps

\* threads that run keep running, main_impl returns, lock_ is granted; nobody
\* has to add an operation, ask for a result or stop the node
Spec == /\ Init /\ [][Next]_vars
        /\ \A w \in Workers : WF_vars(RunSteps(w))
        /\ WF_vars(StopSteps)

-----------------------------------------------------------------------------
(* Properties.                                                             *)

WorkerPCs == {"none", "loop", "waiting", "check", "start", "work", "done", "exited"}
StopPCs   == {"up", "cancel", "each", "set", "notify", "join", "joined"}

QueueTypes ==
    /\ operation_map_ \subseteq Ops /\ operation_id_queue_ \in Seq(Ops)
    /\ closed_ \in BOOLEAN /\ finish_ \in BOOLEAN /\ lock_ \in BOOLEAN

OpTypes ==
    /\ state_ \in [Ops -> States \cup {"NONE"}] /\ runs \in [Ops -> Nat]
    /\ reported \in [Ops -> Finished \cup {"NONE"}]

WorkerTypes ==
    /\ wpc \in [Workers -> WorkerPCs] /\ wop \in [Workers -> Ops \cup {NoOp}]
    /\ \A w \in Workers : wop[w] \in Ops <=> wpc[w] \in {"check", "start", "work", "done"}

StopTypes ==
    /\ spc \in StopPCs /\ (lock_ <=> spc \in {"each", "set"})
    /\ stodo \subseteq operation_map_ /\ (~lock_ => stodo = {})
    /\ IF spc = "set" THEN sop \in stodo ELSE sop = NoOp

ReadTypes ==
    /\ rpc \in {"idle", "status", "pop"}
    /\ IF rpc = "idle" THEN rop = NoOp ELSE rop \in operation_map_

\* The types; a worker has an operation exactly between taking and ending it,
\* and lock_ is held, with operations to cancel, exactly in cancelAllOperations.
TypeOK == QueueTypes /\ OpTypes /\ WorkerTypes /\ StopTypes /\ ReadTypes

\* However many workers there are, and whatever is removed, cancelled or closed
\* meanwhile, an operation (a payment) is carried out at most once.
RunsOnce == \A o \in Ops : runs[o] <= 1

\* Once closeAndWait has returned nothing is left half-way: every operation the
\* queue ever took in has succeeded, failed or been cancelled, and no id waits
\* (if there was a worker to drop the ids).
SettledWhenClosed ==
    spc = "joined" /\ closed_ =>
        /\ \A o \in Accepted : state_[o] \in Finished
        /\ Spawned # {} => operation_id_queue_ = <<>>

\* finishAndWait loses nothing: with a worker, every operation that was taken
\* in has been carried out when it returns, also one added as finish_ was set.
FinishDrains ==
    spc = "joined" /\ ~closed_ /\ Spawned # {} =>
        \A o \in Accepted : runs[o] = 1 /\ state_[o] \in {"SUCCESS", "FAILED"}

\* Whoever stops the queue gets to the end of the joins: no worker sleeps
\* through the flag, which is stored outside lock_.
StopEnds == spc \in {"cancel", "notify"} ~> spc = "joined"

\* With a worker, an operation that was taken in does not stay for ever in the
\* queue: it is run or cancelled.
OperationsSettle ==
    \A o \in Ops : o \in operation_map_ /\ Spawned # {} ~> state_[o] \in Finished
=============================================================================
