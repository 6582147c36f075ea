------------------------ MODULE AsyncRPCQueue_proofs ------------------------
(***************************************************************************)
(* Proofs about AsyncRPCQueue for any number of workers and operations.    *)
(*                                                                         *)
(* IInv follows an operation from the queue to a worker: it is in at most  *)
(* one of these places, its id is queued at most once, and main_impl has   *)
(* not been entered before it reaches "work".  What cancel, the atomics    *)
(* and the lost ids of a closed queue leave possible is said by ReadyInv:  *)
(* an operation that is still READY waits for a worker, or, in a closed    *)
(* queue, for cancelAllOperations.                                         *)
(***************************************************************************)
EXTENDS AsyncRPCQueue, Integers, TLAPS

\* An id is queued once, and its operation is untouched by any worker.
QueueInv ==
    \A i \in DOMAIN operation_id_queue_ :
        /\ \A j \in DOMAIN operation_id_queue_ :
               operation_id_queue_[i] = operation_id_queue_[j] => i = j
        /\ state_[operation_id_queue_[i]] \in {"READY", "CANCELLED"}
        /\ runs[operation_id_queue_[i]] = 0
        /\ \A w \in Workers : wop[w] # operation_id_queue_[i]

\* A worker has its operation for itself, and enters main_impl once.
HeldInv ==
    \A w \in Workers : wop[w] \in Ops =>
        /\ \A v \in Workers : wop[v] = wop[w] => v = w
        /\ state_[wop[w]] # "NONE"
        /\ wpc[w] \in {"check", "start"} => state_[wop[w]] \in {"READY", "CANCELLED"}
        /\ runs[wop[w]] = IF wpc[w] = "done" THEN 1 ELSE 0

\* What the state of an operation says about where it has been.
StateInv ==
    \A o \in Ops :
        /\ runs[o] \in {0, 1}
        /\ state_[o] = "NONE" => o \notin operation_map_ /\ runs[o] = 0
        /\ state_[o] = "EXECUTING" =>
               \E w \in Workers : wop[w] = o /\ wpc[w] \in {"work", "done"}
        /\ state_[o] \in {"SUCCESS", "FAILED"} => runs[o] = 1
        /\ state_[o] = "CANCELLED" => closed_
        /\ reported[o] # "NONE" => state_[o] \notin {"NONE", "READY"}

\* An operation that is READY will be taken by a worker or cancelled.
ReadyInv ==
    \A o \in operation_map_ : state_[o] = "READY" =>
        IF closed_ THEN spc = "cancel" \/ o \in stodo
        ELSE \/ \E i \in DOMAIN operation_id_queue_ : operation_id_queue_[i] = o
             \/ \E w \in Workers : wop[w] = o

\* A worker leaves an empty queue that takes nothing in any more.
StopInv ==
    /\ spc \in {"cancel", "each", "set"} => closed_
    /\ (\E w \in Workers : wpc[w] = "exited") =>
           operation_id_queue_ = <<>> /\ (closed_ \/ finish_)
    /\ spc = "joined" => Alive = {}

IInv == TypeOK /\ QueueInv /\ HeldInv /\ StateInv /\ ReadyInv /\ StopInv

-----------------------------------------------------------------------------

\* The initial states: nothing is queued, held or known.
LEMMA InitInv == Init => IInv
<1> SUFFICES ASSUME Init PROVE IInv
  OBVIOUS
<1>1. QueueTypes
  <2>1. operation_map_ \subseteq Ops /\ operation_id_queue_ \in Seq(Ops)
    BY DEF Init
  <2>2. closed_ \in BOOLEAN /\ finish_ \in BOOLEAN /\ lock_ \in BOOLEAN
    BY DEF Init
  <2> QED
    BY <2>1, <2>2 DEF QueueTypes
<1>2. OpTypes /\ ReadTypes
  BY DEF Init, OpTypes, ReadTypes, States, Finished
<1>3. WorkerTypes /\ StopTypes
  BY NoOpAssumption DEF Init, WorkerTypes, StopTypes, WorkerPCs, StopPCs
<1>4. QueueInv /\ HeldInv /\ ReadyInv
  BY NoOpAssumption DEF Init, QueueInv, HeldInv, ReadyInv
<1>5. StateInv /\ StopInv
  BY DEF Init, StateInv, StopInv, Alive, Spawned
<1> QED
  BY <1>1, <1>2, <1>3, <1>4, <1>5 DEF IInv, TypeOK

\* What Append does, for addOperation.
LEMMA AppendFacts ==
  ASSUME NEW S, NEW s \in Seq(S), NEW e \in S
  PROVE  /\ Append(s, e) \in Seq(S)
         /\ DOMAIN Append(s, e) = DOMAIN s \cup {Len(s) + 1}
         /\ \A i \in DOMAIN s : Append(s, e)[i] = s[i]
         /\ Append(s, e)[Len(s) + 1] = e
         /\ Len(s) + 1 \notin DOMAIN s
  OBVIOUS

\* What Head and Tail do, for a worker that takes an id.
LEMMA TailFacts ==
  ASSUME NEW S, NEW s \in Seq(S), s # <<>>
  PROVE  /\ Tail(s) \in Seq(S) /\ Head(s) \in S /\ Head(s) = s[1] /\ 1 \in DOMAIN s
         /\ \A i \in DOMAIN Tail(s) : i + 1 \in DOMAIN s /\ Tail(s)[i] = s[i + 1] /\ i + 1 # 1
         /\ \A i \in DOMAIN s : i # 1 => i - 1 \in DOMAIN Tail(s) /\ Tail(s)[i - 1] = s[i]
  OBVIOUS

-----------------------------------------------------------------------------
(* Types.                                                                  *)

\* AddWorker, notifications and the steps of the workers keep the types.
LEMMA WorkerStepTypes ==
  ASSUME TypeOK, NEW w \in Workers, AddWorker(w) \/ SpuriousWake(w) \/ RunSteps(w)
  PROVE  TypeOK'
<1> USE NoOpAssumption
<1>1. ASSUME AddWorker(w) \/ SpuriousWake(w) \/ RunWait(w) PROVE TypeOK'
  <2>1. WorkerTypes'
    BY <1>1 DEF TypeOK, WorkerTypes, AddWorker, SpuriousWake, RunWait, WorkerPCs
  <2> QED
    BY <1>1, <2>1 DEF TypeOK, QueueTypes, OpTypes, StopTypes, ReadTypes, AddWorker,
       SpuriousWake, RunWait, queueVars, flagVars, opVars, stopVars, readVars
<1>2. ASSUME RunExit(w) PROVE TypeOK'
  <2>1. WorkerTypes' /\ QueueTypes'
    BY <1>2 DEF TypeOK, WorkerTypes, QueueTypes, RunExit, WorkerPCs, flagVars
  <2> QED
    BY <1>2, <2>1 DEF TypeOK, OpTypes, StopTypes, ReadTypes, RunExit, opVars,
       stopVars, readVars
<1>3. ASSUME RunTake(w) PROVE TypeOK'
  <2>1. QueueTypes' /\ Head(operation_id_queue_) \in Ops
    BY <1>3, TailFacts DEF TypeOK, QueueTypes, RunTake, flagVars
  <2>2. WorkerTypes'
    BY <1>3, <2>1 DEF TypeOK, WorkerTypes, RunTake, WorkerPCs, workerVars
  <2> QED
    BY <1>3, <2>1, <2>2 DEF TypeOK, OpTypes, StopTypes, ReadTypes, RunTake, opVars,
       stopVars, readVars
<1>4. ASSUME MainCheck(w) \/ MainStart(w) \/ MainImpl(w) \/ MainEnd(w) PROVE TypeOK'
  <2>1. WorkerTypes'
    BY <1>4 DEF TypeOK, WorkerTypes, MainCheck, MainStart, MainImpl, MainEnd, WorkerPCs
  <2>2. OpTypes'
    BY <1>4 DEF TypeOK, OpTypes, MainCheck, MainStart, MainImpl, MainEnd,
       States, Finished, opVars, readVars
  <2> QED
    BY <1>4, <2>1, <2>2 DEF TypeOK, QueueTypes, StopTypes, ReadTypes, MainCheck,
       MainStart, MainImpl, MainEnd, queueVars, flagVars, stopVars, readVars
<1> QED
  BY <1>1, <1>2, <1>3, <1>4 DEF RunSteps

\* The RPC calls keep the types: only the reader removes from the map.
LEMMA CallTypes ==
  ASSUME TypeOK, (\E o \in Ops : AddOperation(o) \/ GetOperation(o)) \/ ReadSteps
  PROVE  TypeOK'
<1>1. ASSUME NEW o \in Ops, AddOperation(o) PROVE TypeOK'
  <2>1. QueueTypes' /\ operation_map_ \subseteq operation_map_'
    BY <1>1, AppendFacts DEF TypeOK, QueueTypes, AddOperation, flagVars
  <2>2. WorkerTypes'
    BY <1>1 DEF TypeOK, WorkerTypes, AddOperation, NotifyOne, WorkerPCs
  <2>3. OpTypes'
    BY <1>1 DEF TypeOK, OpTypes, AddOperation, States, Finished, readVars
  <2> QED
    BY <1>1, <2>1, <2>2, <2>3 DEF TypeOK, StopTypes, ReadTypes, AddOperation,
       stopVars, readVars
<1>2. ASSUME NEW o \in Ops, GetOperation(o) PROVE TypeOK'
  BY <1>2 DEF TypeOK, QueueTypes, OpTypes, WorkerTypes, StopTypes, ReadTypes,
     GetOperation, queueVars, flagVars, opVars, workerVars, stopVars
<1>3. ASSUME GetStatus PROVE TypeOK'
  <2>1. OpTypes' /\ ReadTypes'
    BY <1>3 DEF TypeOK, QueueTypes, OpTypes, ReadTypes, GetStatus, queueVars, opVars
  <2> QED
    BY <1>3, <2>1 DEF TypeOK, QueueTypes, WorkerTypes, StopTypes, GetStatus,
       queueVars, flagVars, workerVars, stopVars
<1>4. ASSUME PopOperation PROVE TypeOK'
  BY <1>4 DEF TypeOK, QueueTypes, OpTypes, WorkerTypes, StopTypes, ReadTypes,
     PopOperation, flagVars, opVars, workerVars, stopVars
<1> QED
  BY <1>1, <1>2, <1>3, <1>4 DEF ReadSteps

\* The stopping thread keeps the types.
LEMMA StopStepTypes ==
  ASSUME TypeOK, Close \/ Finish \/ StopSteps
  PROVE  TypeOK'
<1> USE NoOpAssumption
<1>1. StopTypes'
  BY DEF TypeOK, QueueTypes, StopTypes, Close, Finish, StopSteps, CancelAllOperations,
     CancelTest, CancelSet, CancelEnd, WaitNotify, Join, queueVars, StopPCs
<1>2. QueueTypes' /\ ReadTypes'
  BY DEF TypeOK, QueueTypes, ReadTypes, Close, Finish, StopSteps, CancelAllOperations,
     CancelTest, CancelSet, CancelEnd, WaitNotify, Join, queueVars, flagVars, readVars
<1>3. WorkerTypes'
  BY DEF TypeOK, WorkerTypes, Close, Finish, StopSteps, CancelAllOperations,
     CancelTest, CancelSet, CancelEnd, WaitNotify, Join, NotifyAll, workerVars, WorkerPCs
<1>4. OpTypes'
  BY DEF TypeOK, OpTypes, StopTypes, QueueTypes, Close, Finish, StopSteps,
     CancelAllOperations, CancelTest, CancelSet, CancelEnd, WaitNotify, Join, opVars,
     readVars, States, Finished
<1> QED
  BY <1>1, <1>2, <1>3, <1>4 DEF TypeOK

\* Types are preserved by every step.
LEMMA TypeNext == TypeOK /\ [Next]_vars => TypeOK'
<1> SUFFICES ASSUME TypeOK, [Next]_vars PROVE TypeOK'
  OBVIOUS
<1>1. CASE UNCHANGED vars
  BY <1>1 DEF TypeOK, QueueTypes, OpTypes, WorkerTypes, StopTypes, ReadTypes, vars,
     queueVars, flagVars, opVars, workerVars, stopVars, readVars
<1> QED
  BY <1>1, WorkerStepTypes, CallTypes, StopStepTypes DEF Next

\* The queue keeps its types, whatever the threads do (every field of
\* AsyncRPCQueue, the states of the operations and the places of the threads).
THEOREM TypeCorrect == Spec => []TypeOK
<1>1. Init => TypeOK
  BY InitInv DEF IInv
<1> QED
  BY <1>1, TypeNext, PTL DEF Spec

-----------------------------------------------------------------------------
(* The inductive invariant.                                                *)

\* Steps that touch no operation, worker place other than waiting, or flag.
LEMMA QuietSteps ==
  ASSUME IInv, TypeOK',
         UNCHANGED <<operation_map_, operation_id_queue_, closed_, finish_, state_, runs,
                     wop, reported, stodo>>,
         \A w \in Workers : wpc'[w] # wpc[w] => wpc[w] \in {"none", "loop", "waiting"}
                                                /\ wpc'[w] \in {"loop", "waiting"},
         spc' # spc => spc # "cancel" /\ spc' \notin {"cancel", "each", "set", "joined"},
         spc = "joined" => wpc' = wpc
  PROVE  IInv'
<1>1. QueueInv' /\ ReadyInv'
  BY DEF IInv, QueueInv, ReadyInv
<1>2. HeldInv'
  BY DEF IInv, HeldInv, TypeOK, WorkerTypes
<1>3. StateInv'
  BY DEF IInv, StateInv, TypeOK, WorkerTypes
<1>4. StopInv'
  BY DEF IInv, StopInv, Alive, Spawned
<1> QED
  BY <1>1, <1>2, <1>3, <1>4 DEF IInv

\* A worker that exits leaves an empty queue; in a closed queue what it drops
\* is cancelled.
LEMMA ExitInv ==
  ASSUME IInv, TypeOK', NEW w \in Workers, RunExit(w)
  PROVE  IInv'
<1>1. QueueInv'
  BY DEF RunExit, QueueInv
<1>2. HeldInv' /\ StateInv'
  BY DEF IInv, HeldInv, StateInv, TypeOK, WorkerTypes, RunExit, opVars, flagVars, readVars
<1>3. ReadyInv'
  BY DEF IInv, ReadyInv, TypeOK, QueueTypes, RunExit, opVars, flagVars, stopVars
<1>4. StopInv'
  BY DEF IInv, StopInv, TypeOK, WorkerTypes, RunExit, Alive, Spawned, flagVars, stopVars
<1> QED
  BY <1>1, <1>2, <1>3, <1>4 DEF IInv

\* Taking an id moves its operation from the queue to the worker.
LEMMA TakeInv ==
  ASSUME IInv, TypeOK', NEW w \in Workers, RunTake(w)
  PROVE  IInv'
<1> DEFINE q == operation_id_queue_
<1>1. /\ q \in Seq(Ops) /\ q # <<>> /\ q' = Tail(q) /\ wop[w] \notin Ops
      /\ \A v \in Workers : wpc[v] # "exited"
  BY DEF IInv, TypeOK, QueueTypes, WorkerTypes, StopInv, RunTake
<1>2. /\ Head(q) = q[1] /\ 1 \in DOMAIN q /\ q[1] \in Ops
      /\ \A i \in DOMAIN Tail(q) : i + 1 \in DOMAIN q /\ Tail(q)[i] = q[i + 1] /\ i + 1 # 1
      /\ \A i \in DOMAIN q : i # 1 => i - 1 \in DOMAIN Tail(q) /\ Tail(q)[i - 1] = q[i]
  BY <1>1, TailFacts
<1>3. \A v \in Workers : wop'[v] = wop[v] \/ (v = w /\ wop'[v] = q[1])
  BY <1>2 DEF IInv, TypeOK, WorkerTypes, RunTake, workerVars
<1>4. QueueInv'
  <2> SUFFICES ASSUME NEW i \in DOMAIN q'
               PROVE  /\ \A j \in DOMAIN q' : q'[i] = q'[j] => i = j
                      /\ state_'[q'[i]] \in {"READY", "CANCELLED"}
                      /\ runs'[q'[i]] = 0
                      /\ \A v \in Workers : wop'[v] # q'[i]
    BY DEF QueueInv
  <2>1. i \in Int /\ \A j \in DOMAIN q' : j \in Int
    BY <1>1, TailFacts
  <2>2. \A j \in DOMAIN q' : q'[i] = q'[j] => i = j
    BY <1>1, <1>2, <2>1 DEF IInv, QueueInv
  <2>3. q'[i] # q[1]
    BY <1>1, <1>2, <2>1 DEF IInv, QueueInv
  <2> QED
    BY <1>1, <1>2, <1>3, <2>2, <2>3 DEF IInv, QueueInv, RunTake, opVars
<1>5. HeldInv'
  BY <1>1, <1>2, <1>3 DEF IInv, TypeOK, WorkerTypes, QueueInv, HeldInv, RunTake, opVars, workerVars
<1>6. StateInv'
  BY <1>1, <1>3 DEF IInv, TypeOK, WorkerTypes, StateInv, RunTake, opVars, workerVars, flagVars,
     readVars
<1>7. ReadyInv'
  <2> SUFFICES ASSUME NEW o \in operation_map_, state_[o] = "READY", ~closed_
               PROVE  \/ \E i \in DOMAIN q' : q'[i] = o
                      \/ \E v \in Workers : wop'[v] = o
    BY DEF RunTake, ReadyInv, flagVars, opVars
  <2>1. CASE \E v \in Workers : wop[v] = o
    BY <2>1, <1>1, <1>3 DEF IInv, TypeOK, QueueTypes
  <2>2. CASE \E i \in DOMAIN q : q[i] = o
    <3>1. PICK i \in DOMAIN q : q[i] = o
      BY <2>2
    <3>2. CASE i = 1
      BY <3>1, <3>2, <1>2 DEF RunTake, IInv, TypeOK, WorkerTypes
    <3>3. CASE i # 1
      BY <3>1, <3>3, <1>1, <1>2
    <3> QED
      BY <3>2, <3>3
  <2> QED
    BY <2>1, <2>2 DEF IInv, ReadyInv
<1>8. StopInv'
  BY <1>1 DEF IInv, StopInv, TypeOK, WorkerTypes, RunTake, Alive, Spawned, flagVars, stopVars,
     workerVars
<1> QED
  BY <1>4, <1>5, <1>6, <1>7, <1>8 DEF IInv

\* The steps of main: only the worker that holds an operation runs it.
LEMMA MainInv ==
  ASSUME IInv, TypeOK', NEW w \in Workers,
         MainCheck(w) \/ MainStart(w) \/ MainImpl(w) \/ MainEnd(w)
  PROVE  IInv'
<1>1. wop[w] \in Ops /\ wpc[w] \in {"check", "start", "work", "done"}
  BY DEF IInv, TypeOK, WorkerTypes, MainCheck, MainStart, MainImpl, MainEnd
<1>2. QueueInv'
  BY <1>1, NoOpAssumption DEF IInv, TypeOK, QueueTypes, OpTypes, WorkerTypes, QueueInv, MainCheck, MainStart,
     MainImpl, MainEnd, queueVars, opVars
<1>3. HeldInv'
  BY <1>1, NoOpAssumption DEF IInv, TypeOK, OpTypes, WorkerTypes, HeldInv, MainCheck, MainStart, MainImpl,
     MainEnd, opVars
<1>4. StateInv'
  BY <1>1 DEF IInv, TypeOK, OpTypes, WorkerTypes, HeldInv, StateInv, MainCheck, MainStart,
     MainImpl, MainEnd, queueVars, flagVars, opVars, readVars
<1>5. ReadyInv'
  BY <1>1, NoOpAssumption DEF IInv, TypeOK, QueueTypes, OpTypes, WorkerTypes, ReadyInv, MainCheck,
     MainStart, MainImpl, MainEnd, queueVars, flagVars, opVars, stopVars
<1>6. StopInv'
  BY <1>1 DEF IInv, TypeOK, WorkerTypes, StopInv, Alive, Spawned, MainCheck, MainStart,
     MainImpl, MainEnd, queueVars, flagVars, stopVars
<1> QED
  BY <1>2, <1>3, <1>4, <1>5, <1>6 DEF IInv

\* addOperation: a new operation is queued once, unless nobody would take it.
LEMMA AddInv ==
  ASSUME IInv, TypeOK', NEW o \in Ops, AddOperation(o)
  PROVE  IInv'
<1> DEFINE q == operation_id_queue_
<1>1. /\ q \in Seq(Ops)
      /\ \/ q' = q /\ operation_map_' = operation_map_ /\ wpc' = wpc
         \/ q' = Append(q, o) /\ ~closed_ /\ ~finish_
            /\ operation_map_' = operation_map_ \cup {o}
  BY DEF IInv, TypeOK, QueueTypes, AddOperation
<1>2. /\ DOMAIN Append(q, o) = DOMAIN q \cup {Len(q) + 1}
      /\ \A i \in DOMAIN q : Append(q, o)[i] = q[i]
      /\ Append(q, o)[Len(q) + 1] = o
      /\ Len(q) + 1 \notin DOMAIN q
  BY <1>1, AppendFacts
<1>3. /\ state_[o] = "NONE" /\ state_' = [state_ EXCEPT ![o] = "READY"]
      /\ o \notin operation_map_ /\ runs[o] = 0 /\ reported[o] = "NONE"
      /\ \A i \in DOMAIN q : q[i] # o
      /\ \A w \in Workers : wop[w] # o
  BY DEF IInv, AddOperation, QueueInv, HeldInv, StateInv
<1>4. \A w \in Workers : wpc'[w] # wpc[w] => wpc[w] = "waiting" /\ wpc'[w] = "loop"
  BY DEF AddOperation, NotifyOne, IInv, TypeOK, WorkerTypes
<1>5. QueueInv'
  <2>1. CASE q' = q
    BY <2>1, <1>3 DEF IInv, TypeOK, OpTypes, QueueInv, AddOperation
  <2>2. CASE q' = Append(q, o)
    <3>1. \A i \in DOMAIN q' : (i \in DOMAIN q /\ q'[i] = q[i]) \/ (i = Len(q) + 1 /\ q'[i] = o)
      BY <2>2, <1>2
    <3>2. \A i, j \in DOMAIN q' : q'[i] = q'[j] => i = j
      BY <3>1, <1>3 DEF IInv, QueueInv
    <3>3. \A i \in DOMAIN q' : /\ state_'[q'[i]] \in {"READY", "CANCELLED"}
                               /\ runs'[q'[i]] = 0
                               /\ \A w \in Workers : wop'[w] # q'[i]
      BY <3>1, <1>3 DEF IInv, TypeOK, OpTypes, QueueInv, AddOperation
    <3> QED
      BY <3>2, <3>3 DEF QueueInv
  <2> QED
    BY <1>1, <2>1, <2>2
<1>6. HeldInv'
  BY <1>3, <1>4 DEF IInv, TypeOK, OpTypes, WorkerTypes, HeldInv, AddOperation
<1>7. StateInv'
  BY <1>1, <1>3, <1>4 DEF IInv, TypeOK, OpTypes, WorkerTypes, StateInv, AddOperation,
     flagVars, readVars
<1>8. ReadyInv'
  <2>1. CASE q' = q /\ operation_map_' = operation_map_
    BY <2>1, <1>3 DEF IInv, TypeOK, OpTypes, ReadyInv, AddOperation, flagVars, stopVars
  <2>2. CASE q' = Append(q, o) /\ ~closed_ /\ operation_map_' = operation_map_ \cup {o}
    <3> SUFFICES ASSUME NEW x \in operation_map_', state_'[x] = "READY"
                 PROVE  \/ \E i \in DOMAIN q' : q'[i] = x
                        \/ \E w \in Workers : wop'[w] = x
      BY <2>2 DEF ReadyInv, AddOperation, flagVars
    <3>1. CASE x = o
      BY <3>1, <2>2, <1>2
    <3>2. CASE x # o
      <4>1. x \in operation_map_ /\ state_[x] = "READY"
        BY <3>2, <2>2, <1>3 DEF IInv, TypeOK, QueueTypes, OpTypes
      <4> QED
        BY <4>1, <2>2, <1>2 DEF IInv, ReadyInv, AddOperation
    <3> QED
      BY <3>1, <3>2
  <2> QED
    BY <1>1, <2>1, <2>2
<1>9. StopInv'
  BY <1>1, <1>4 DEF IInv, StopInv, Alive, Spawned, AddOperation, flagVars, stopVars
<1> QED
  BY <1>5, <1>6, <1>7, <1>8, <1>9 DEF IInv

\* z_getoperationresult reports operations that were started or cancelled.
LEMMA ReadInv ==
  ASSUME IInv, TypeOK', (\E o \in Ops : GetOperation(o)) \/ ReadSteps
  PROVE  IInv'
<1>1. QueueInv' /\ HeldInv' /\ StopInv'
  BY DEF IInv, QueueInv, HeldInv, StopInv, Alive, Spawned, GetOperation, ReadSteps, GetStatus,
     PopOperation, queueVars, flagVars, opVars, workerVars, stopVars
<1>2. StateInv'
  BY DEF IInv, TypeOK, QueueTypes, OpTypes, ReadTypes, StateInv, GetOperation, ReadSteps,
     GetStatus, PopOperation, Finished, queueVars, flagVars, opVars, workerVars
<1>3. ReadyInv'
  BY DEF IInv, ReadyInv, GetOperation, ReadSteps, GetStatus, PopOperation, queueVars,
     flagVars, opVars, workerVars, stopVars
<1> QED
  BY <1>1, <1>2, <1>3 DEF IInv

\* Closing and cancelling: what is still READY is on the list to cancel.
LEMMA CloseInv ==
  ASSUME IInv, TypeOK', Close \/ Finish \/ CancelAllOperations \/ CancelSet
                        \/ (\E o \in Ops : CancelTest(o)) \/ CancelEnd \/ Join
  PROVE  IInv'
<1>1. \A w \in Workers : wpc'[w] # wpc[w] => wpc[w] = "waiting" /\ wpc'[w] = "loop"
  BY DEF IInv, TypeOK, WorkerTypes, Close, Finish, CancelAllOperations, CancelSet, CancelTest, CancelEnd,
     Join, NotifyAll, workerVars
<1>2. CASE CancelSet
  <2>1. sop \in Ops /\ sop \in operation_map_ /\ closed_ /\ state_[sop] # "NONE"
    BY <1>2 DEF IInv, TypeOK, QueueTypes, StopTypes, StopInv, StateInv, CancelSet
  <2>2. QueueInv' /\ HeldInv'
    BY <1>2, <2>1 DEF IInv, TypeOK, QueueTypes, OpTypes, QueueInv, HeldInv, CancelSet,
       queueVars, workerVars
  <2>3. StateInv'
    BY <1>2, <2>1 DEF IInv, TypeOK, OpTypes, StateInv, CancelSet, queueVars, flagVars,
       workerVars, readVars
  <2>4. ReadyInv' /\ StopInv'
    BY <1>2, <2>1 DEF IInv, TypeOK, QueueTypes, OpTypes, ReadyInv, StopInv, Alive, Spawned, CancelSet,
       queueVars, flagVars, workerVars
  <2> QED
    BY <2>2, <2>3, <2>4 DEF IInv
<1>3. CASE ~CancelSet
  <2>1. UNCHANGED <<operation_map_, operation_id_queue_, state_, runs, wop, reported>>
        /\ (closed_ => closed_') /\ (finish_ => finish_')
    BY <1>3 DEF IInv, TypeOK, QueueTypes, Close, Finish, CancelAllOperations, CancelTest,
       CancelEnd, Join, queueVars, flagVars, opVars, workerVars, readVars
  <2>2. QueueInv' /\ HeldInv'
    BY <1>1, <2>1 DEF IInv, TypeOK, WorkerTypes, QueueInv, HeldInv
  <2>3. StateInv'
    BY <1>1, <2>1 DEF IInv, TypeOK, WorkerTypes, StateInv
  <2>4. ReadyInv'
    BY <1>3, <2>1 DEF IInv, TypeOK, QueueTypes, StopTypes, ReadyInv, StopInv, Close, Finish,
       CancelAllOperations, CancelTest, CancelEnd, Join, flagVars
  <2>5. StopInv'
    BY <1>1, <1>3, <2>1 DEF IInv, StopInv, Alive, Spawned, Close, Finish,
       CancelAllOperations, CancelTest, CancelEnd, Join, flagVars, workerVars
  <2> QED
    BY <2>2, <2>3, <2>4, <2>5 DEF IInv
<1> QED
  BY <1>2, <1>3

\* The invariant is preserved by every step.
LEMMA InvNext == IInv /\ [Next]_vars => IInv'
<1> SUFFICES ASSUME IInv, [Next]_vars PROVE IInv'
  OBVIOUS
<1>0. TypeOK'
  BY TypeNext DEF IInv
<1>1. CASE UNCHANGED vars
  BY <1>1, <1>0, QuietSteps DEF vars, queueVars, flagVars, opVars, workerVars, stopVars, readVars
<1>2. ASSUME NEW w \in Workers, AddWorker(w) \/ SpuriousWake(w) \/ RunWait(w) PROVE IInv'
  BY <1>0, <1>2, QuietSteps DEF AddWorker, SpuriousWake, RunWait, queueVars, flagVars, opVars,
     stopVars, readVars, IInv, TypeOK, WorkerTypes, StopInv, Alive, Spawned
<1>3. ASSUME WaitNotify PROVE IInv'
  BY <1>0, <1>3, QuietSteps DEF WaitNotify, NotifyAll, queueVars, flagVars, opVars, readVars,
     IInv, TypeOK, WorkerTypes
<1> QED
  BY <1>0, <1>1, <1>2, <1>3, ExitInv, TakeInv, MainInv, AddInv, ReadInv, CloseInv
  DEF Next, RunSteps, StopSteps

-----------------------------------------------------------------------------
(* No worker sleeps when it must not.                                      *)

AwakePCs == {"loop", "check", "start", "work", "done"}

\* The flag that sends the workers home is set before they are notified.
FlagFirst == spc # "up" => closed_ \/ finish_

\* Once the stopping thread joins, nobody sleeps: a worker that was between
\* its test of the flags and its wait held lock_ and was notified after it.
NobodyJoinedAsleep ==
    spc \in {"join", "joined"} => \A w \in Workers : wpc[w] # "waiting"

\* While ids wait and there are workers, some worker is on its way to them:
\* notify_one is enough although a notified worker may find the queue empty.
WorkIsWatched ==
    operation_id_queue_ # <<>> /\ Spawned # {} =>
        \E w \in Workers : wpc[w] \in AwakePCs

\* the two ways to sleep for ever are excluded
WakeInv == FlagFirst /\ NobodyJoinedAsleep /\ WorkIsWatched

\* Steps that change no worker's program counter and queue no id.
LEMMA StillWatched ==
    ASSUME WorkIsWatched, wpc' = wpc, UNCHANGED operation_id_queue_
    PROVE  WorkIsWatched'
  BY DEF WorkIsWatched, Spawned

\* A worker that is awake stays so, and others may wake up.
LEMMA WokenWatched ==
    ASSUME WorkIsWatched, UNCHANGED operation_id_queue_,
           \A w \in Workers : /\ wpc[w] \in AwakePCs => wpc'[w] \in AwakePCs
                              /\ wpc[w] = "none" => wpc'[w] = "none"
    PROVE  WorkIsWatched'
  BY DEF WorkIsWatched, Spawned

\* Every step of a worker.
LEMMA WorkerWakes ==
    ASSUME IInv, WakeInv, NEW w \in Workers,
           AddWorker(w) \/ SpuriousWake(w) \/ RunSteps(w)
    PROVE  WakeInv'
<1>t. wpc \in [Workers -> WorkerPCs]
  BY DEF IInv, TypeOK, WorkerTypes
<1>1. UNCHANGED <<spc, flagVars>>
  BY DEF AddWorker, SpuriousWake, RunSteps, RunWait, RunExit, RunTake, MainCheck, MainStart,
         MainImpl, MainEnd, stopVars, flagVars, workerVars
<1>2. FlagFirst'
  BY <1>1 DEF WakeInv, FlagFirst, flagVars
<1>3. NobodyJoinedAsleep'
  <2>1. CASE RunWait(w)
    BY <1>1, <2>1 DEF RunWait, WakeInv, FlagFirst, NobodyJoinedAsleep
  <2>2. CASE ~RunWait(w)
    <3>1. \A v \in Workers : wpc'[v] = "waiting" => wpc[v] = "waiting"
      BY <1>t, <2>2 DEF AddWorker, SpuriousWake, RunSteps, RunExit, RunTake, MainCheck, MainStart,
             MainImpl, MainEnd, workerVars
    <3> QED
      BY <1>1, <3>1 DEF WakeInv, NobodyJoinedAsleep
  <2> QED
    BY <2>1, <2>2
<1>4. WorkIsWatched'
  <2>1. CASE RunWait(w) \/ RunExit(w)
    BY <2>1 DEF RunWait, RunExit, WorkIsWatched, queueVars
  <2>2. CASE AddWorker(w) \/ SpuriousWake(w)
    BY <1>t, <2>2 DEF AddWorker, SpuriousWake, WorkIsWatched, AwakePCs
  <2>3. CASE RunTake(w) \/ MainCheck(w) \/ MainStart(w) \/ MainImpl(w) \/ MainEnd(w)
    <3>1. wpc'[w] \in AwakePCs
      BY <1>t, <2>3 DEF RunTake, MainCheck, MainStart, MainImpl, MainEnd, workerVars, AwakePCs
    <3> QED
      BY <3>1 DEF WorkIsWatched
  <2> QED
    BY <2>1, <2>2, <2>3 DEF RunSteps
<1> QED
  BY <1>2, <1>3, <1>4 DEF WakeInv

\* An id is queued in the same section that wakes a worker, and only while
\* no worker has left.
LEMMA AddWakes ==
    ASSUME IInv, WakeInv, NEW o \in Ops, AddOperation(o)
    PROVE  WakeInv'
<1>t. wpc \in [Workers -> WorkerPCs]
  BY DEF IInv, TypeOK, WorkerTypes
<1>1. UNCHANGED <<spc, flagVars>>
  BY DEF AddOperation, stopVars
<1>2. CASE closed_ \/ finish_
  <2>1. wpc' = wpc /\ UNCHANGED operation_id_queue_
    BY <1>2 DEF AddOperation
  <2> QED
    BY <1>1, <2>1, StillWatched DEF WakeInv, FlagFirst, NobodyJoinedAsleep, flagVars
<1>3. CASE ~(closed_ \/ finish_)
  <2>1. NotifyOne
    BY <1>3 DEF AddOperation
  <2>2. spc = "up"
    BY <1>3 DEF WakeInv, FlagFirst
  <2>3. \A w \in Workers : wpc[w] # "exited"
    BY <1>3 DEF IInv, StopInv
  <2>4. ASSUME NEW v \in Spawned' PROVE \E w \in Workers : wpc'[w] \in AwakePCs
    <3>1. CASE \E w \in Workers : wpc[w] = "waiting"
      <4>1. PICK w \in Workers : wpc' = [wpc EXCEPT ![w] = "loop"]
        BY <2>1, <3>1 DEF NotifyOne
      <4> QED
        BY <1>t, <4>1 DEF AwakePCs
    <3>2. CASE ~\E w \in Workers : wpc[w] = "waiting"
      <4>1. wpc' = wpc
        BY <2>1, <3>2 DEF NotifyOne
      <4>2. v \in Workers /\ wpc[v] # "none"
        BY <2>4, <4>1 DEF Spawned
      <4> QED
        BY <1>t, <2>3, <3>2, <4>1, <4>2 DEF WorkerPCs, AwakePCs
    <3> QED
      BY <3>1, <3>2
  <2> QED
    BY <1>1, <2>2, <2>4 DEF WakeInv, FlagFirst, NobodyJoinedAsleep, WorkIsWatched
<1> QED
  BY <1>2, <1>3

\* The stopping thread sets its flag first and notifies before it joins.
LEMMA StopWakes ==
    ASSUME IInv, WakeInv, Close \/ Finish \/ StopSteps
    PROVE  WakeInv'
<1>t. wpc \in [Workers -> WorkerPCs]
  BY DEF IInv, TypeOK, WorkerTypes
<1>1. CASE Close \/ Finish
  <2>1. wpc' = wpc /\ UNCHANGED operation_id_queue_ /\ (closed_' \/ finish_')
           /\ spc' \in {"cancel", "notify"}
    BY <1>1 DEF Close, Finish, workerVars, queueVars
  <2> QED
    BY <2>1, StillWatched DEF WakeInv, FlagFirst, NobodyJoinedAsleep
<1>2. ASSUME StopSteps PROVE WakeInv'
  <2>1. UNCHANGED <<flagVars, operation_id_queue_>> /\ spc # "up"
    BY <1>2 DEF StopSteps, CancelAllOperations, CancelSet, CancelEnd, WaitNotify, Join,
                CancelTest, queueVars
  <2>2. FlagFirst'
    BY <2>1 DEF WakeInv, FlagFirst, flagVars
  <2>3. \/ wpc' = wpc
        \/ wpc' = [w \in Workers |-> IF wpc[w] = "waiting" THEN "loop" ELSE wpc[w]]
    BY <1>2 DEF StopSteps, CancelAllOperations, CancelSet, CancelEnd, WaitNotify, Join,
                CancelTest, NotifyAll, workerVars
  <2>4. WorkIsWatched'
    BY <1>t, <2>1, <2>3, WokenWatched DEF WakeInv, AwakePCs
  <2>5. NobodyJoinedAsleep'
    <3>1. CASE WaitNotify
      BY <1>t, <3>1 DEF WaitNotify, NotifyAll, NobodyJoinedAsleep
    <3>2. CASE Join
      BY <3>2 DEF Join, WakeInv, NobodyJoinedAsleep, workerVars
    <3>3. CASE ~WaitNotify /\ ~Join
      <4>1. spc' \notin {"join", "joined"}
        BY <1>2, <3>3 DEF StopSteps, CancelAllOperations, CancelSet, CancelEnd, CancelTest
      <4> QED
        BY <4>1 DEF NobodyJoinedAsleep
    <3> QED
      BY <3>1, <3>2, <3>3
  <2> QED
    BY <2>2, <2>4, <2>5 DEF WakeInv
<1> QED
  BY <1>1, <1>2

\* Every step preserves the wakeups.
LEMMA WakeNext == IInv /\ WakeInv /\ [Next]_vars => WakeInv'
<1> SUFFICES ASSUME IInv, WakeInv, [Next]_vars PROVE WakeInv'
  OBVIOUS
<1>1. ASSUME UNCHANGED vars \/ ReadSteps \/ \E o \in Ops : GetOperation(o) PROVE WakeInv'
  <2>1. wpc' = wpc /\ UNCHANGED <<operation_id_queue_, spc, flagVars>>
    BY <1>1 DEF vars, ReadSteps, GetStatus, PopOperation, GetOperation, queueVars, workerVars,
                stopVars
  <2> QED
    BY <2>1, StillWatched DEF WakeInv, FlagFirst, NobodyJoinedAsleep, flagVars
<1> QED
  BY <1>1, WorkerWakes, AddWakes, StopWakes DEF Next

-----------------------------------------------------------------------------
(* The theorems.                                                           *)

\* The inductive invariant holds in every state.
LEMMA Invariance == Spec => []IInv
  BY InitInv, InvNext, PTL DEF Spec

\* run, with any number of workers, enters an operation's main_impl once at
\* most, although cancel, z_getoperationresult and close interfere.
THEOREM CarriedOutOnce == Spec => []RunsOnce
<1>1. IInv => RunsOnce
  BY DEF IInv, StateInv, RunsOnce
<1> QED
  BY <1>1, Invariance, PTL

\* After closeAndWait every operation addOperation took in is settled, and
\* the workers have dropped every id.
THEOREM ClosedIsSettled == Spec => []SettledWhenClosed
<1>1. IInv => SettledWhenClosed
  <2> SUFFICES ASSUME IInv, spc = "joined", closed_
               PROVE  /\ \A o \in Accepted : state_[o] \in Finished
                      /\ Spawned # {} => operation_id_queue_ = <<>>
    BY DEF SettledWhenClosed
  <2>1. \A w \in Workers : wpc[w] \in {"none", "exited"} /\ wop[w] \notin Ops
    BY DEF IInv, StopInv, TypeOK, WorkerTypes, Alive, Spawned
  <2>2. Spawned # {} => operation_id_queue_ = <<>>
    BY <2>1 DEF IInv, StopInv, Spawned
  <2>3. ASSUME NEW o \in Accepted PROVE state_[o] \in Finished
    <3>1. o \in Ops /\ state_[o] \in States \cup {"NONE"}
      BY <2>3 DEF IInv, TypeOK, QueueTypes, OpTypes, Accepted
    <3>2. state_[o] # "NONE" /\ state_[o] # "EXECUTING"
      BY <2>1, <2>3, <3>1 DEF IInv, StateInv, Accepted
    <3>3. state_[o] # "READY"
      BY <2>3, <3>1 DEF IInv, StateInv, ReadyInv, TypeOK, StopTypes, Accepted
    <3> QED
      BY <3>1, <3>2, <3>3 DEF States, Finished
  <2> QED
    BY <2>2, <2>3
<1> QED
  BY <1>1, Invariance, PTL

\* finishAndWait carries out everything addOperation took in.
THEOREM FinishLosesNothing == Spec => []FinishDrains
<1>1. IInv => FinishDrains
  <2> SUFFICES ASSUME IInv, spc = "joined", ~closed_, Spawned # {}, NEW o \in Accepted
               PROVE  runs[o] = 1 /\ state_[o] \in {"SUCCESS", "FAILED"}
    BY DEF FinishDrains
  <2>1. \A w \in Workers : wpc[w] \in {"none", "exited"} /\ wop[w] \notin Ops
    BY DEF IInv, StopInv, TypeOK, WorkerTypes, Alive, Spawned
  <2>2. operation_id_queue_ = <<>>
    BY <2>1 DEF IInv, StopInv, Spawned
  <2>3. o \in Ops /\ state_[o] \in States \cup {"NONE"}
    BY DEF IInv, TypeOK, QueueTypes, OpTypes, Accepted
  <2>4. state_[o] \notin {"NONE", "EXECUTING", "CANCELLED"}
    BY <2>1, <2>3 DEF IInv, StateInv, Accepted
  <2>5. state_[o] # "READY"
    BY <2>1, <2>2, <2>3 DEF IInv, StateInv, ReadyInv, Accepted
  <2>6. state_[o] \in {"SUCCESS", "FAILED"}
    BY <2>3, <2>4, <2>5 DEF States, Finished
  <2> QED
    BY <2>3, <2>6 DEF IInv, StateInv
<1> QED
  BY <1>1, Invariance, PTL

\* The safety half of stopping: when wait_for_worker_threads joins, no worker
\* is asleep, although the flags are stored without lock_.
THEOREM NobodySleepsThroughStop == Spec => []NobodyJoinedAsleep
<1>1. Init => WakeInv
  BY DEF Init, WakeInv, FlagFirst, NobodyJoinedAsleep, WorkIsWatched
<1> QED
  BY <1>1, Invariance, WakeNext, PTL DEF Spec, WakeInv

\* The safety half of settling: no id waits in the queue while every worker
\* there is sleeps or has left, so no notification of addOperation is lost.
THEOREM NobodySleepsOverWork == Spec => []WorkIsWatched
<1>1. Init => WakeInv
  BY DEF Init, WakeInv, FlagFirst, NobodyJoinedAsleep, WorkIsWatched
<1> QED
  BY <1>1, Invariance, WakeNext, PTL DEF Spec, WakeInv
=============================================================================
