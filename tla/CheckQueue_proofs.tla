-------------------------- MODULE CheckQueue_proofs --------------------------
(***************************************************************************)
(* The safety properties of the check queue, for any number of workers,    *)
(* masters and checks and any batch size.                                  *)
(***************************************************************************)
EXTENDS CheckQueue, FiniteSetTheorems, TLAPS

-----------------------------------------------------------------------------
(* The inductive invariant                                                 *)

\* only a thread that executes or is about to account for a batch has one
BatchOwners ==
    \A t \in Threads :
        vChecks[t] # {} <=> pc[t] \in {"exec", "cleanup"}

\* ControlMutex belongs to the one master inside a session; an interrupted
\* master goes on to its destructor, a worker leaves Loop only interrupted
Sessions ==
    /\ \A m \in Masters : pc[m] # "out" <=> control = m
    /\ \A m \in Masters : pc[m] # "gone"
    /\ \A w \in Workers : pc[w] \notin {"out", "adding", "returned"}
    /\ \A m \in Masters : control = m => (fDone <=> pc[m] = "returned")

\* a check is only pending in the session that added it
PendingAdded == Pending \subseteq added

\* what fAllOk and each thread's fOk know of the checks
Verdicts ==
    /\ fAllOk /\ control # NoMaster /\ ~fDone =>
          (added \ Pending) \cap FailingChecks = {}
    /\ ~fAllOk => added \cap FailingChecks # {}
    /\ \A t \in Threads :
          /\ pc[t] \in {"exec", "cleanup"} /\ ~fOk[t] =>
                added \cap FailingChecks # {}
          /\ pc[t] = "cleanup" /\ fOk[t] =>
                vChecks[t] \cap FailingChecks = {}

\* once Wait has returned the queue is as constructed
AfterWait ==
    control = NoMaster \/ fDone => Pending = {} /\ fAllOk

IInv ==
    /\ TypeOK
    /\ TodoAccounting
    /\ LoopCounters
    /\ BatchOwners
    /\ Sessions
    /\ PendingAdded
    /\ Verdicts
    /\ AfterWait
    /\ ResultExact
-----------------------------------------------------------------------------
(* Facts about the operators                                               *)

\* The pending checks are finitely many: nTodo can count them.
LEMMA PendingFinite ==
    IsFiniteSet(Pending) /\ Cardinality(Pending) \in Nat
  BY CheckQueueAssumption, FS_Subset, FS_CardinalityType DEF Pending

\* Every set of threads is finite, so nIdle and nTotal can count one.
LEMMA ThreadsFinite ==
    ASSUME NEW S \in SUBSET Threads
    PROVE  IsFiniteSet(S) /\ Cardinality(S) \in Nat
  <1>1. IsFiniteSet(Threads)
    BY CheckQueueAssumption, FS_Union DEF Threads
  <1> QED BY <1>1, FS_Subset, FS_CardinalityType

\* Accounting for a thread's batch (nTodo -= nNow) leaves the number of the
\* other pending checks.
LEMMA RemoveBatch ==
    ASSUME TypeOK, TodoAccounting, NEW t \in Threads
    PROVE  /\ nTodo - Cardinality(vChecks[t]) = Cardinality(Pending \ vChecks[t])
           /\ nTodo - Cardinality(vChecks[t]) \in Nat
  <1>1. vChecks[t] \subseteq Pending
    BY DEF TypeOK, Pending
  <1>2. Pending \cap vChecks[t] = vChecks[t]
    BY <1>1
  <1>3. /\ IsFiniteSet(Pending \ vChecks[t])
        /\ Cardinality(Pending \ vChecks[t])
             = Cardinality(Pending) - Cardinality(Pending \cap vChecks[t])
    BY PendingFinite, FS_Difference
  <1>4. Cardinality(Pending \ vChecks[t]) \in Nat
    BY <1>3, FS_CardinalityType
  <1> QED
    BY <1>2, <1>3, <1>4 DEF TodoAccounting

\* Adding a thread to a set of counted threads, or removing one, moves the
\* count by one: the increments and decrements of nIdle and nTotal.
LEMMA CountStep ==
    ASSUME NEW S \in SUBSET Threads, NEW T \in SUBSET Threads,
           NEW t \in Threads
    PROVE  /\ t \notin S /\ T = S \cup {t} =>
                Cardinality(T) = Cardinality(S) + 1
           /\ t \in S /\ T = S \ {t} => Cardinality(T) = Cardinality(S) - 1
  BY ThreadsFinite, FS_AddElement, FS_RemoveElement

\* A batch is never empty ("Don't do batches smaller than 1").
LEMMA BatchNotEmpty ==
    ASSUME TypeOK, NEW total \in Nat, NEW idle \in Nat
    PROVE  BatchLength(total, idle) \in Nat \ {0}
  <1> DEFINE q == Cardinality(queue) \div (total + idle + 1)
             n == Min({nBatchSize, q})
  <1>1. Cardinality(queue) \in Nat
    BY CheckQueueAssumption, FS_Subset, FS_CardinalityType DEF TypeOK
  <1>2. q \in Nat
    BY <1>1
  <1>3. n \in Nat
    <2> HIDE DEF q
    <2>1. \E x \in {nBatchSize, q} : \A y \in {nBatchSize, q} : x <= y
      BY <1>2, CheckQueueAssumption
    <2> QED BY <1>2, <2>1, CheckQueueAssumption DEF Min
  <1>4. Max({1, n}) \in Nat \ {0}
    <2> HIDE DEF n
    <2>1. \E x \in {1, n} : \A y \in {1, n} : x >= y
      BY <1>3
    <2> QED BY <1>3, <2>1 DEF Max
  <1> QED BY <1>4 DEF BatchLength

-----------------------------------------------------------------------------
(* One critical section of Loop preserves the invariant                    *)

\* What the code before "the do loop starts here" may pass to LoopBody.
Arrives(t, pcs, total, idle, ok, todo) ==
    /\ pc[t] \in {"enter", "cleanup", "waiting", "notified"}
    /\ total = IF pc[t] = "enter" THEN nTotal + 1 ELSE nTotal
    /\ idle = IF pc[t] \in IdlePC THEN nIdle - 1 ELSE nIdle
    /\ ok = (fAllOk /\ (pc[t] = "cleanup" => fOk[t]))
    /\ todo = nTodo - Cardinality(vChecks[t])
    /\ pcs \in [Threads -> PC]
    /\ \A u \in Threads : \/ pcs[u] = pc[u]
                          \/ /\ u \in Masters /\ pc[u] = "waiting"
                             /\ pcs[u] = "notified"

\* The counters a critical section starts from are those of the threads
\* other than the one that holds the mutex.
LEMMA ArrivesCounts ==
    ASSUME IInv, NEW t \in Threads, NEW pcs, NEW total, NEW idle, NEW ok,
           NEW todo, Arrives(t, pcs, total, idle, ok, todo)
    PROVE  /\ idle = Cardinality({u \in Threads : pc[u] \in IdlePC} \ {t})
                       + Cardinality(interrupted)
           /\ total = Cardinality({u \in Threads : pc[u] \in LoopPC} \ {t}) + 1
                       + Cardinality(interrupted)
           /\ idle \in Nat
           /\ total \in Nat
           /\ todo \in Nat
           /\ todo = Cardinality(Pending \ vChecks[t])
  <1> DEFINE I == {u \in Threads : pc[u] \in IdlePC}
             L == {u \in Threads : pc[u] \in LoopPC}
             k == Cardinality(interrupted)
  <1>k. k \in Nat
    BY ThreadsFinite DEF IInv, TypeOK
  <1>1. /\ Cardinality(I) \in Nat /\ Cardinality(I \ {t}) \in Nat
        /\ Cardinality(L) \in Nat /\ Cardinality(L \ {t}) \in Nat
    BY ThreadsFinite
  <1>2. /\ t \in I => Cardinality(I \ {t}) = Cardinality(I) - 1
        /\ t \in L => Cardinality(L \ {t}) = Cardinality(L) - 1
    BY CountStep
  <1>3. /\ t \notin I => I \ {t} = I
        /\ t \notin L => L \ {t} = L
    OBVIOUS
  <1>4. nIdle = Cardinality(I) + k /\ nTotal = Cardinality(L) + k
    BY DEF IInv, LoopCounters
  <1>5. /\ t \in I <=> pc[t] \in IdlePC
        /\ t \in L <=> pc[t] # "enter"
    BY DEF Arrives, IdlePC, LoopPC
  <1> HIDE DEF I, L, k
  <1>a. /\ total = IF pc[t] = "enter" THEN nTotal + 1 ELSE nTotal
        /\ idle = IF pc[t] \in IdlePC THEN nIdle - 1 ELSE nIdle
    BY DEF Arrives
  <1>6. idle = Cardinality(I \ {t}) + k
    <2>1. CASE pc[t] \in IdlePC
      <3>1. /\ idle = (Cardinality(I) + k) - 1
            /\ Cardinality(I \ {t}) = Cardinality(I) - 1
        BY <2>1, <1>2, <1>4, <1>5, <1>a
      <3>2. \A c, d \in Nat : (c + d) - 1 = (c - 1) + d
        OBVIOUS
      <3> QED BY <3>1, <3>2, <1>1, <1>k
    <2>2. CASE pc[t] \notin IdlePC
      BY <2>2, <1>3, <1>4, <1>5, <1>a
    <2> QED BY <2>1, <2>2
  <1>7. total = Cardinality(L \ {t}) + 1 + k
    <2>1. CASE pc[t] = "enter"
      <3>1. total = Cardinality(L) + k + 1 /\ L \ {t} = L
        BY <2>1, <1>3, <1>4, <1>5, <1>a
      <3> QED BY <3>1, <1>k, <1>1
    <2>2. CASE pc[t] # "enter"
      <3>1. /\ total = Cardinality(L) + k
            /\ Cardinality(L \ {t}) = Cardinality(L) - 1
        BY <2>2, <1>2, <1>4, <1>5, <1>a
      <3>2. \A c, d \in Nat : c + d = (c - 1) + 1 + d
        OBVIOUS
      <3> QED BY <3>1, <3>2, <1>1, <1>k
    <2> QED BY <2>1, <2>2
  <1>8. todo \in Nat /\ todo = Cardinality(Pending \ vChecks[t])
    BY RemoveBatch DEF Arrives, IInv
  <1>9. idle \in Nat /\ total \in Nat
    BY <1>k, <1>1, <1>6, <1>7
  <1> QED BY <1>6, <1>7, <1>8, <1>9 DEF I, L, k

\* Whatever branch LoopBody takes, the pending checks lose exactly the batch
\* that is accounted for, and the other threads' batches are not touched.
LEMMA LoopBodyPending ==
    ASSUME IInv, NEW t \in Threads, NEW pcs, NEW total, NEW idle, NEW ok,
           NEW todo, Arrives(t, pcs, total, idle, ok, todo),
           LoopBody(t, pcs, total, idle, ok, todo)
    PROVE  /\ TypeOK'
           /\ Pending' = Pending \ vChecks[t]
           /\ TodoAccounting'
  <1>a. idle \in Nat /\ total \in Nat /\ total - 1 \in Nat /\ todo \in Nat
    <2>1. /\ Cardinality({u \in Threads : pc[u] \in LoopPC} \ {t}) \in Nat
          /\ Cardinality(interrupted) \in Nat
      BY ThreadsFinite DEF IInv, TypeOK
    <2>2. total = Cardinality({u \in Threads : pc[u] \in LoopPC} \ {t}) + 1
                    + Cardinality(interrupted)
      BY ArrivesCounts
    <2>3. idle \in Nat /\ todo \in Nat
      BY ArrivesCounts
    <2> QED BY <2>1, <2>2, <2>3
  <1>c. todo = Cardinality(Pending \ vChecks[t])
    BY ArrivesCounts
  <1>b. ok \in BOOLEAN
    BY DEF TypeOK, Arrives, IInv
  <1> USE DEF IInv, Arrives
  <1>1. CASE queue = {} /\ t \in Masters /\ todo = 0
    <2>1. ReturnResult(t, pcs, total, idle, ok) /\ nTodo' = todo
      BY <1>1 DEF LoopBody
    <2>2. TypeOK'
      BY <2>1, <1>a, <1>b DEF TypeOK, ReturnResult, PC
    <2>3. Pending' = Pending \ vChecks[t]
      BY <1>1, <2>1 DEF TypeOK, TodoAccounting, ReturnResult, Pending
    <2>4. nTodo' = Cardinality(Pending')
      BY <2>1, <2>3, <1>c
    <2>5. TodoAccounting'
      BY <2>1, <2>4 DEF TypeOK, TodoAccounting, ReturnResult
    <2> QED BY <2>2, <2>3, <2>5
  <1>2. CASE queue = {} /\ ~(t \in Masters /\ todo = 0)
    <2>1. WaitForWork(t, pcs, total, idle, ok) /\ nTodo' = todo
      BY <1>2 DEF LoopBody
    <2>2. TypeOK'
      BY <2>1, <1>a, <1>b DEF TypeOK, WaitForWork, PC, session
    <2>3. Pending' = Pending \ vChecks[t]
      BY <1>2, <2>1 DEF TypeOK, TodoAccounting, WaitForWork, Pending
    <2>4. nTodo' = Cardinality(Pending')
      BY <2>1, <2>3, <1>c
    <2>5. TodoAccounting'
      BY <2>1, <2>4 DEF TypeOK, TodoAccounting, WaitForWork
    <2> QED BY <2>2, <2>3, <2>5
  <1>3. CASE queue # {}
    <2>1. TakeBatch(t, pcs, total, idle, ok) /\ nTodo' = todo
      BY <1>3 DEF LoopBody
    <2>2. PICK batch \in SUBSET queue :
            TakeBatch(t, pcs, total, idle, ok)!(batch)
      BY <2>1 DEF TakeBatch
    <2>3. TypeOK'
      BY <2>1, <2>2, <1>a, <1>b DEF TypeOK, PC, session
    <2>4. Pending' = Pending \ vChecks[t]
      BY <2>2 DEF TypeOK, TodoAccounting, Pending
    <2>5. nTodo' = Cardinality(Pending')
      BY <2>1, <2>4, <1>c
    <2>6. TodoAccounting'
      BY <2>2, <2>5 DEF TypeOK, TodoAccounting
    <2> QED BY <2>3, <2>4, <2>6
  <1> QED BY <1>1, <1>2, <1>3

\* The counters after a critical section count the threads of the new state.
LEMMA LoopBodyCounters ==
    ASSUME IInv, NEW t \in Threads, NEW pcs, NEW total, NEW idle, NEW ok,
           NEW todo, Arrives(t, pcs, total, idle, ok, todo),
           LoopBody(t, pcs, total, idle, ok, todo)
    PROVE  LoopCounters'
  <1> DEFINE I == {u \in Threads : pc[u] \in IdlePC} \ {t}
             L == {u \in Threads : pc[u] \in LoopPC} \ {t}
             I2 == {u \in Threads : pc'[u] \in IdlePC}
             L2 == {u \in Threads : pc'[u] \in LoopPC}
             k == Cardinality(interrupted)
  <1>k. k \in Nat /\ Cardinality(interrupted') = k
    BY ThreadsFinite DEF IInv, TypeOK, LoopBody, ReturnResult, WaitForWork,
                         TakeBatch, session
  <1>1. idle = Cardinality(I) + k /\ total = Cardinality(L) + 1 + k
    BY ArrivesCounts
  <1>2. /\ Cardinality(I) \in Nat /\ Cardinality(L) \in Nat
    BY ThreadsFinite
  <1>3. /\ t \notin I /\ I2 = I \cup {t} => Cardinality(I2) = Cardinality(I) + 1
        /\ t \notin L /\ L2 = L \cup {t} => Cardinality(L2) = Cardinality(L) + 1
    BY CountStep
  <1>4. t \notin I /\ t \notin L
    OBVIOUS
  <1>5. \A u \in Threads : /\ pcs[u] \in IdlePC <=> pc[u] \in IdlePC
                           /\ pcs[u] \in LoopPC <=> pc[u] \in LoopPC
    BY DEF Arrives, IdlePC, LoopPC
  <1>6. pcs \in [Threads -> PC]
    BY DEF Arrives
  <1>7. CASE queue = {} /\ t \in Masters /\ todo = 0
    <2>1. ReturnResult(t, pcs, total, idle, ok)
      BY <1>7 DEF LoopBody
    <2>2. I2 = I /\ L2 = L
      BY <2>1, <1>5, <1>6 DEF ReturnResult, IdlePC, LoopPC
    <2>3. nIdle' = idle /\ nTotal' = total - 1
      BY <2>1 DEF ReturnResult
    <2>4. nIdle' = Cardinality(I2) + k /\ nTotal' = Cardinality(L2) + k
      <3>1. \A c, d \in Nat : (c + 1 + d) - 1 = c + d
        OBVIOUS
      <3> HIDE DEF I, L, I2, L2, k
      <3> QED BY <2>2, <2>3, <3>1, <1>1, <1>2, <1>k
    <2> QED BY <2>4, <1>k DEF LoopCounters
  <1>8. CASE queue = {} /\ ~(t \in Masters /\ todo = 0)
    <2>1. WaitForWork(t, pcs, total, idle, ok)
      BY <1>8 DEF LoopBody
    <2>2. I2 = I \cup {t} /\ L2 = L \cup {t}
      BY <2>1, <1>5, <1>6 DEF WaitForWork, IdlePC, LoopPC
    <2>3. nIdle' = idle + 1 /\ nTotal' = total
      BY <2>1 DEF WaitForWork
    <2>4. nIdle' = Cardinality(I2) + k /\ nTotal' = Cardinality(L2) + k
      <3> HIDE DEF I, L, I2, L2, k
      <3> QED BY <2>2, <2>3, <1>1, <1>2, <1>3, <1>4, <1>k
    <2> QED BY <2>4, <1>k DEF LoopCounters
  <1>9. CASE queue # {}
    <2>1. TakeBatch(t, pcs, total, idle, ok)
      BY <1>9 DEF LoopBody
    <2>2. /\ pc' = [pcs EXCEPT ![t] = "exec"]
          /\ nIdle' = idle /\ nTotal' = total
      BY <2>1 DEF TakeBatch
    <2>3. I2 = I /\ L2 = L \cup {t}
      BY <2>2, <1>5, <1>6 DEF IdlePC, LoopPC
    <2>4. nIdle' = Cardinality(I2) + k /\ nTotal' = Cardinality(L2) + k
      <3> HIDE DEF I, L, I2, L2, k
      <3> QED BY <2>2, <2>3, <1>1, <1>2, <1>3, <1>4, <1>k
    <2> QED BY <2>4, <1>k DEF LoopCounters
  <1> QED BY <1>7, <1>8, <1>9

\* A critical section of Loop preserves the whole invariant.
LEMMA LoopBodyInv ==
    ASSUME IInv, NEW t \in Threads, NEW pcs, NEW total, NEW idle, NEW ok,
           NEW todo, Arrives(t, pcs, total, idle, ok, todo),
           LoopBody(t, pcs, total, idle, ok, todo)
    PROVE  IInv'
  <1>1. TypeOK' /\ TodoAccounting' /\ Pending' = Pending \ vChecks[t]
    BY LoopBodyPending
  <1>2. LoopCounters'
    BY LoopBodyCounters
  <1>3. total \in Nat /\ idle \in Nat /\ todo = Cardinality(Pending \ vChecks[t])
    BY ArrivesCounts
  <1>4. ok \in BOOLEAN /\ fAllOk \in BOOLEAN /\ fOk \in [Threads -> BOOLEAN]
    BY DEF Arrives, IInv, TypeOK
  <1>5. vChecks[t] # {} <=> pc[t] = "cleanup"
    BY DEF IInv, BatchOwners, Arrives
  <1>6. control # NoMaster \/ ok
    BY <1>5 DEF IInv, AfterWait, Arrives, Pending, TypeOK
  <1>7. t \in Masters => control = t /\ ~fDone
    BY CheckQueueAssumption DEF IInv, Sessions, Arrives, Threads
  <1>8. ~ok => added \cap FailingChecks # {}
    BY <1>4, <1>5 DEF IInv, Verdicts, Arrives
  <1>9. ok /\ control # NoMaster /\ ~fDone =>
          (added \ Pending') \cap FailingChecks = {}
    BY <1>1, <1>4, <1>5 DEF IInv, Verdicts, Arrives, TypeOK, PendingAdded
  <1>10. (control = NoMaster \/ fDone) => Pending' = {} /\ ok
    BY <1>1, <1>4, <1>5 DEF IInv, AfterWait, Arrives, Pending, TypeOK
  <1>11. Pending' \subseteq added
    BY <1>1 DEF IInv, PendingAdded
  <1>p. /\ pcs \in [Threads -> PC]
        /\ \A u \in Threads : \A k \in PC \ {"waiting", "notified"} :
              pcs[u] = k <=> pc[u] = k
    BY DEF Arrives, PC
  <1>12. CASE queue = {} /\ t \in Masters /\ todo = 0
    <2>1. ReturnResult(t, pcs, total, idle, ok)
      BY <1>12 DEF LoopBody
    <2>2. Pending' = {}
      BY <1>1, <1>3, <1>12, PendingFinite, FS_Difference, FS_EmptySet
    <2>3. BatchOwners'
      BY <2>1 DEF ReturnResult, IInv, BatchOwners, Arrives, TypeOK
    <2>4. Sessions'
      <3>1. /\ pc' = [pcs EXCEPT ![t] = "returned"]
            /\ control' = control /\ fDone' = TRUE
        BY <2>1 DEF ReturnResult
      <3>2. /\ \A m \in Masters : pc[m] # "out" <=> control = m
            /\ \A m \in Masters : pc[m] # "gone"
            /\ \A w \in Workers : pc[w] \notin {"out", "adding", "returned"}
        BY DEF IInv, Sessions
      <3>3. /\ \A m \in Masters : pc'[m] # "out" <=> control' = m
            /\ \A m \in Masters : pc'[m] # "gone"
            /\ \A w \in Workers : pc'[w] \notin {"out", "adding", "returned"}
        BY <1>7, <1>12, <1>p, <3>1, <3>2, CheckQueueAssumption DEF Threads, PC
      <3>4. \A m \in Masters : control' = m => (fDone' <=> pc'[m] = "returned")
        BY <1>7, <1>12, <1>p, <3>1 DEF Threads
      <3> QED BY <3>3, <3>4 DEF Sessions
    <2>5. PendingAdded' /\ AfterWait'
      BY <2>1, <2>2 DEF ReturnResult, PendingAdded, AfterWait
    <2>6. Verdicts'
      BY <2>1 DEF ReturnResult, IInv, Verdicts, Arrives, TypeOK
    <2>7. ResultExact'
      <3>1. fRet' = ok /\ added' = added
        BY <2>1 DEF ReturnResult
      <3>2. ok => added \cap FailingChecks = {}
        BY <2>2, <1>6, <1>7, <1>9, <1>12, CheckQueueAssumption
      <3> QED BY <3>1, <3>2, <1>4, <1>8 DEF ResultExact
    <2> QED BY <1>1, <1>2, <2>3, <2>4, <2>5, <2>6, <2>7 DEF IInv
  <1>13. CASE queue = {} /\ ~(t \in Masters /\ todo = 0)
    <2>1. WaitForWork(t, pcs, total, idle, ok)
      BY <1>13 DEF LoopBody
    <2>3. BatchOwners'
      BY <2>1 DEF WaitForWork, IInv, BatchOwners, Arrives, TypeOK
    <2>4. Sessions'
      BY <2>1, <1>7, CheckQueueAssumption
         DEF WaitForWork, IInv, Sessions, Arrives, TypeOK, Threads, session
    <2>5. PendingAdded' /\ AfterWait'
      BY <2>1, <1>10, <1>11 DEF WaitForWork, PendingAdded, AfterWait, session
    <2>6. Verdicts'
      BY <2>1, <1>8, <1>9
         DEF WaitForWork, IInv, Verdicts, Arrives, TypeOK, session
    <2>7. ResultExact'
      BY <2>1 DEF WaitForWork, ResultExact, IInv, Arrives, TypeOK, Threads, session
    <2> QED BY <1>1, <1>2, <2>3, <2>4, <2>5, <2>6, <2>7 DEF IInv
  <1>14. CASE queue # {}
    <2>1. TakeBatch(t, pcs, total, idle, ok)
      BY <1>14 DEF LoopBody
    <2>2. PICK batch \in SUBSET queue :
            TakeBatch(t, pcs, total, idle, ok)!(batch)
      BY <2>1 DEF TakeBatch
    <2>a. batch # {}
      <3>1. BatchLength(total, idle) \in Nat \ {0}
        BY <1>3, BatchNotEmpty DEF IInv
      <3> QED BY <3>1, <2>2, FS_EmptySet
    <2>b. control # NoMaster /\ ~fDone
      BY <1>14 DEF IInv, AfterWait, Pending, TypeOK
    <2>3. BatchOwners'
      BY <2>2, <2>a DEF IInv, BatchOwners, Arrives, TypeOK
    <2>4. Sessions'
      BY <2>2, <1>7, CheckQueueAssumption
         DEF IInv, Sessions, Arrives, TypeOK, Threads, session
    <2>5. PendingAdded' /\ AfterWait'
      BY <2>2, <2>b, <1>11 DEF PendingAdded, AfterWait, session
    <2>6. Verdicts'
      BY <2>2, <1>4, <1>8, <1>9
         DEF IInv, Verdicts, Arrives, TypeOK, session
    <2>7. ResultExact'
      BY <2>2 DEF ResultExact, IInv, Arrives, TypeOK, Threads, session
    <2> QED BY <1>1, <1>2, <2>3, <2>4, <2>5, <2>6, <2>7 DEF IInv
  <1> QED BY <1>12, <1>13, <1>14

-----------------------------------------------------------------------------
(* The other actions                                                       *)

\* A step that leaves the queue, the batches and the counters' sets alone
\* leaves the bookkeeping alone.
LEMMA SameBooks ==
    ASSUME IInv, UNCHANGED <<shared, vChecks, interrupted>>,
           \A u \in Threads : /\ pc'[u] \in IdlePC <=> pc[u] \in IdlePC
                              /\ pc'[u] \in LoopPC <=> pc[u] \in LoopPC
    PROVE  TodoAccounting' /\ LoopCounters' /\ Pending' = Pending
  <1>1. /\ {u \in Threads : pc'[u] \in IdlePC} = {u \in Threads : pc[u] \in IdlePC}
        /\ {u \in Threads : pc'[u] \in LoopPC} = {u \in Threads : pc[u] \in LoopPC}
    OBVIOUS
  <1>2. LoopCounters'
    BY <1>1 DEF IInv, LoopCounters, shared
  <1>3. Pending' = Pending
    BY DEF Pending, shared
  <1>4. TodoAccounting'
    BY <1>3 DEF IInv, TodoAccounting, shared
  <1> QED BY <1>2, <1>3, <1>4

\* Adding checks raises nTodo by the number of the checks it adds.
LEMMA AddBooks ==
    ASSUME IInv, NEW m \in Masters, NEW batch \in SUBSET Checks, Add(m, batch)
    PROVE  /\ Pending' = Pending \cup batch
           /\ nTodo' = Cardinality(Pending') /\ nTodo' \in Nat
  <1>1. Pending' = Pending \cup batch
    BY DEF Add, Pending, IInv, TypeOK
  <1>2. Pending \cap batch = {}
    BY DEF Add, IInv, PendingAdded
  <1>3. IsFiniteSet(batch) /\ Cardinality(batch) \in Nat
    BY CheckQueueAssumption, FS_Subset, FS_CardinalityType
  <1>4. Cardinality(Pending \cup batch)
          = Cardinality(Pending) + Cardinality(batch) - Cardinality(Pending \cap batch)
    BY <1>3, PendingFinite, FS_Union
  <1>5. Cardinality(Pending \cap batch) = 0
    BY <1>2, FS_EmptySet
  <1>6. nTodo' = nTodo + Cardinality(batch) /\ nTodo = Cardinality(Pending)
    BY DEF Add, IInv, TodoAccounting
  <1>7. \A a, b \in Nat : a + b - 0 = a + b /\ a + b \in Nat
    OBVIOUS
  <1> QED BY <1>1, <1>3, <1>4, <1>5, <1>6, <1>7, PendingFinite

\* What a notification may do to the program counters.
LEMMA NotifyWorkersEffect ==
    ASSUME IInv, NEW n, pc' \in NotifyWorkers(n)
    PROVE  /\ pc' \in [Threads -> PC]
           /\ \A u \in Threads : \/ pc'[u] = pc[u]
                                 \/ /\ u \in Workers /\ pc[u] = "waiting"
                                    /\ pc'[u] = "notified"
  BY DEF NotifyWorkers, IInv, TypeOK, PC, Threads

\* An interrupted thread leaves the waiting threads and those in Loop, and
\* the counters keep the one it had added to each of them.
LEMMA InterruptCounts ==
    ASSUME IInv, NEW t \in Threads, Interrupt(t)
    PROVE  LoopCounters'
  <1> DEFINE I == {u \in Threads : pc[u] \in IdlePC}
             L == {u \in Threads : pc[u] \in LoopPC}
             I2 == {u \in Threads : pc'[u] \in IdlePC}
             L2 == {u \in Threads : pc'[u] \in LoopPC}
  <1>1. /\ pc \in [Threads -> PC] /\ interrupted \in SUBSET Threads
        /\ nIdle = Cardinality(I) + Cardinality(interrupted)
        /\ nTotal = Cardinality(L) + Cardinality(interrupted)
    BY DEF IInv, TypeOK, LoopCounters
  <1>2. /\ t \in I /\ t \in L /\ t \notin interrupted
        /\ interrupted' = interrupted \cup {t}
        /\ nIdle' = nIdle /\ nTotal' = nTotal
    BY DEF Interrupt, IdlePC, LoopPC, shared
  <1>3. I2 = I \ {t} /\ L2 = L \ {t}
    BY <1>1 DEF Interrupt, IdlePC, LoopPC
  <1>4. /\ Cardinality(I2) = Cardinality(I) - 1
        /\ Cardinality(L2) = Cardinality(L) - 1
    BY <1>2, <1>3, CountStep
  <1>5. Cardinality(interrupted') = Cardinality(interrupted) + 1
    BY <1>1, <1>2, CountStep
  <1>6. /\ Cardinality(I) \in Nat /\ Cardinality(L) \in Nat
        /\ Cardinality(interrupted) \in Nat
    BY <1>1, ThreadsFinite
  <1>7. /\ nIdle' = Cardinality(I2) + Cardinality(interrupted')
        /\ nTotal' = Cardinality(L2) + Cardinality(interrupted')
    <2> HIDE DEF I, L, I2, L2
    <2> QED BY <1>1, <1>2, <1>4, <1>5, <1>6
  <1> QED BY <1>7 DEF LoopCounters

\* The initial state satisfies the invariant.
LEMMA InitInv == Init => IInv
  <1> SUFFICES ASSUME Init PROVE IInv
    OBVIOUS
  <1>1. TypeOK
    BY DEF Init, TypeOK, PC, Threads
  <1>2. Pending = {}
    BY DEF Init, Pending
  <1>3. TodoAccounting
    BY <1>2, FS_EmptySet DEF Init, TodoAccounting
  <1>4. /\ {u \in Threads : pc[u] \in IdlePC} = {}
        /\ {u \in Threads : pc[u] \in LoopPC} = {}
    BY DEF Init, IdlePC, LoopPC, Threads
  <1>5. LoopCounters
    BY <1>4, FS_EmptySet DEF Init, LoopCounters
  <1>6. BatchOwners /\ PendingAdded /\ AfterWait
    BY <1>2 DEF Init, BatchOwners, PendingAdded, AfterWait, Threads
  <1>7. Sessions
    BY CheckQueueAssumption DEF Init, Sessions, Threads
  <1>8. Verdicts /\ ResultExact
    BY CheckQueueAssumption DEF Init, Verdicts, ResultExact, Threads
  <1> QED BY <1>1, <1>3, <1>5, <1>6, <1>7, <1>8 DEF IInv

\* Every step preserves the invariant.
LEMMA NextInv == IInv /\ [Next]_vars => IInv'
  <1> SUFFICES ASSUME IInv, [Next]_vars PROVE IInv'
    OBVIOUS
  <1>t. TypeOK
    BY DEF IInv
  <1>1. ASSUME NEW t \in Threads, EnterLoop(t) PROVE IInv'
    <2>1. vChecks[t] = {} /\ Cardinality(vChecks[t]) = 0
      BY <1>1, FS_EmptySet DEF EnterLoop, IInv, BatchOwners
    <2>2. Arrives(t, pc, nTotal + 1, nIdle, fAllOk, nTodo)
      BY <1>1, <1>t, <2>1 DEF EnterLoop, Arrives, TypeOK, IdlePC
    <2> QED BY <1>1, <2>2, LoopBodyInv DEF EnterLoop
  <1>2. ASSUME NEW t \in Threads, Wake(t) \/ SpuriousWake(t) PROVE IInv'
    <2>1. vChecks[t] = {} /\ Cardinality(vChecks[t]) = 0
      BY <1>2, FS_EmptySet DEF Wake, SpuriousWake, IInv, BatchOwners
    <2>2. Arrives(t, pc, nTotal, nIdle - 1, fAllOk, nTodo)
      BY <1>2, <1>t, <2>1 DEF Wake, SpuriousWake, Arrives, TypeOK, IdlePC
    <2> QED BY <1>2, <2>2, LoopBodyInv DEF Wake, SpuriousWake
  <1>3. ASSUME NEW t \in Threads, CleanUp(t) PROVE IInv'
    <2> DEFINE todo == nTodo - Cardinality(vChecks[t])
    <2>1. Arrives(t, NotifyMaster(t, todo), nTotal, nIdle, fAllOk /\ fOk[t], todo)
      <3>1. NotifyMaster(t, todo) \in [Threads -> PC]
        BY <1>t DEF NotifyMaster, TypeOK, PC
      <3>2. \A u \in Threads :
               \/ NotifyMaster(t, todo)[u] = pc[u]
               \/ /\ u \in Masters /\ pc[u] = "waiting"
                  /\ NotifyMaster(t, todo)[u] = "notified"
        BY DEF NotifyMaster
      <3> HIDE DEF todo
      <3>3. todo = nTodo - Cardinality(vChecks[t])
        BY DEF todo
      <3> QED BY <1>3, <1>t, <3>1, <3>2, <3>3 DEF CleanUp, Arrives, IdlePC, TypeOK
    <2> QED BY <1>3, <2>1, LoopBodyInv DEF CleanUp
  <1>4. ASSUME NEW t \in Threads, ExecuteBatch(t) PROVE IInv'
    <2> USE <1>4 DEF ExecuteBatch
    <2>1. TodoAccounting' /\ LoopCounters' /\ Pending' = Pending
      BY <1>t, SameBooks DEF TypeOK, IdlePC, LoopPC, session
    <2>2. TypeOK'
      BY <1>t DEF TypeOK, PC, shared, session
    <2>3. BatchOwners' /\ Sessions' /\ PendingAdded' /\ AfterWait' /\ ResultExact'
      BY <1>t, <2>1 DEF IInv, BatchOwners, Sessions, PendingAdded, AfterWait,
                        ResultExact, TypeOK, shared, session, Threads
    <2>4. Verdicts'
      <3>1. vChecks[t] \subseteq added
        BY <1>t DEF IInv, PendingAdded, Pending, TypeOK
      <3> QED BY <1>t, <2>1, <3>1 DEF IInv, Verdicts, TypeOK, shared, session
    <2> QED BY <2>1, <2>2, <2>3, <2>4 DEF IInv
  <1>5. ASSUME NEW t \in Threads, Interrupt(t) PROVE IInv'
    <2> USE <1>5 DEF Interrupt
    <2>1. TypeOK'
      BY <1>t DEF TypeOK, PC, shared
    <2>2. Pending' = Pending /\ TodoAccounting'
      BY DEF IInv, TodoAccounting, Pending, shared
    <2>3. LoopCounters'
      BY InterruptCounts
    <2>4. BatchOwners' /\ PendingAdded' /\ AfterWait' /\ ResultExact' /\ Verdicts'
      BY <1>t, <2>2 DEF IInv, BatchOwners, PendingAdded, AfterWait, Verdicts,
                        ResultExact, TypeOK, shared, Threads, IdlePC
    <2>5. Sessions'
      BY <1>t, CheckQueueAssumption DEF IInv, Sessions, TypeOK, Threads, IdlePC
    <2> QED BY <2>1, <2>2, <2>3, <2>4, <2>5 DEF IInv
  <1>6. ASSUME NEW m \in Masters, OpenSession(m) PROVE IInv'
    <2> USE <1>6 DEF OpenSession
    <2>1. TodoAccounting' /\ LoopCounters' /\ Pending' = Pending
      BY <1>t, SameBooks DEF TypeOK, IdlePC, LoopPC, Threads
    <2>2. TypeOK'
      BY <1>t DEF TypeOK, PC, shared, Threads
    <2>3. Pending = {} /\ fAllOk
      BY DEF IInv, AfterWait
    <2>4. BatchOwners' /\ PendingAdded' /\ AfterWait'
      BY <1>t, <2>1, <2>3 DEF IInv, BatchOwners, PendingAdded, AfterWait,
                              TypeOK, shared, Threads
    <2>5. Sessions'
      BY <1>t, CheckQueueAssumption DEF IInv, Sessions, TypeOK, Threads
    <2>6. Verdicts' /\ ResultExact'
      BY <1>t, <2>1, <2>3, CheckQueueAssumption
         DEF IInv, Verdicts, ResultExact, Sessions, BatchOwners, Pending, TypeOK, shared, Threads
    <2> QED BY <2>1, <2>2, <2>4, <2>5, <2>6 DEF IInv
  <1>7. ASSUME NEW m \in Masters, NEW batch \in SUBSET Checks, Add(m, batch)
        PROVE  IInv'
    <2>1. /\ pc' \in [Threads -> PC]
          /\ \A u \in Threads : \/ pc'[u] = pc[u]
                                \/ /\ u \in Workers /\ pc[u] = "waiting"
                                   /\ pc'[u] = "notified"
      BY <1>7, NotifyWorkersEffect DEF Add
    <2>2. /\ Pending' = Pending \cup batch
          /\ nTodo' = Cardinality(Pending') /\ nTodo' \in Nat
      BY <1>7, AddBooks
    <2>3. control = m /\ ~fDone
      BY <1>7 DEF Add, IInv, Sessions
    <2>4. TypeOK'
      BY <1>7, <1>t, <2>1, <2>2 DEF Add, TypeOK
    <2>5. TodoAccounting'
      BY <1>7, <1>t, <2>2 DEF Add, TodoAccounting, IInv, PendingAdded, Pending, TypeOK
    <2>6. LoopCounters'
      <3>1. /\ {u \in Threads : pc'[u] \in IdlePC} = {u \in Threads : pc[u] \in IdlePC}
            /\ {u \in Threads : pc'[u] \in LoopPC} = {u \in Threads : pc[u] \in LoopPC}
        BY <2>1 DEF IdlePC, LoopPC
      <3> QED BY <1>7, <3>1 DEF Add, IInv, LoopCounters
    <2>7. BatchOwners' /\ PendingAdded' /\ AfterWait'
      BY <1>7, <2>1, <2>2, <2>3, CheckQueueAssumption
         DEF Add, IInv, BatchOwners, PendingAdded, AfterWait
    <2>8. Sessions'
      BY <1>7, <2>1, CheckQueueAssumption DEF Add, IInv, Sessions, Threads
    <2>9. Verdicts'
      BY <1>7, <2>1, <2>2 DEF Add, IInv, Verdicts
    <2>10. ResultExact'
      BY <1>7, <2>1, <2>3 DEF Add, IInv, ResultExact, Sessions, Threads
    <2> QED BY <2>2, <2>4, <2>5, <2>6, <2>7, <2>8, <2>9, <2>10 DEF IInv
  <1>8. ASSUME NEW m \in Masters, Wait(m) \/ Destroy(m) PROVE IInv'
    <2>1. CASE Wait(m) \/ (Destroy(m) /\ ~fDone)
      <3>1. /\ pc[m] = "adding" /\ control = m /\ ~fDone
            /\ pc' = [pc EXCEPT ![m] = "enter"]
            /\ UNCHANGED <<shared, vChecks, fOk, session>>
        BY <2>1, <1>8, CheckQueueAssumption DEF Wait, Destroy, IInv, Sessions
      <3>2. TodoAccounting' /\ LoopCounters' /\ Pending' = Pending
        BY <1>t, <3>1, SameBooks DEF TypeOK, IdlePC, LoopPC, Threads, session
      <3>3. TypeOK'
        BY <1>t, <3>1 DEF TypeOK, PC, shared, session, Threads
      <3>4. BatchOwners' /\ PendingAdded' /\ AfterWait' /\ ResultExact' /\ Verdicts'
        BY <1>t, <3>1, <3>2 DEF IInv, BatchOwners, PendingAdded, AfterWait,
              Verdicts, ResultExact, TypeOK, shared, session, Threads
      <3>5. Sessions'
        BY <1>t, <3>1, CheckQueueAssumption
           DEF IInv, Sessions, TypeOK, session, Threads
      <3> QED BY <3>2, <3>3, <3>4, <3>5 DEF IInv
    <2>2. CASE Destroy(m) /\ fDone
      <3>1. /\ pc[m] = "returned" /\ control = m
            /\ pc' = [pc EXCEPT ![m] = "out"] /\ control' = NoMaster
            /\ UNCHANGED <<shared, vChecks, fOk, fDone, interrupted, added, fRet>>
        BY <2>2, CheckQueueAssumption DEF Destroy, IInv, Sessions
      <3>2. TodoAccounting' /\ LoopCounters' /\ Pending' = Pending
        BY <1>t, <3>1, SameBooks DEF TypeOK, IdlePC, LoopPC, Threads
      <3>3. TypeOK'
        BY <1>t, <3>1 DEF TypeOK, PC, shared, Threads
      <3>4. BatchOwners' /\ PendingAdded' /\ AfterWait' /\ ResultExact' /\ Verdicts'
        BY <1>t, <2>2, <3>1, <3>2 DEF IInv, BatchOwners, PendingAdded, AfterWait,
              Verdicts, ResultExact, TypeOK, shared, Threads
      <3>5. Sessions'
        BY <1>t, <3>1, CheckQueueAssumption
           DEF IInv, Sessions, TypeOK, Threads
      <3> QED BY <3>2, <3>3, <3>4, <3>5 DEF IInv
    <2> QED BY <1>8, <2>1, <2>2
  <1>9. CASE UNCHANGED vars
    <2>1. TodoAccounting' /\ LoopCounters' /\ Pending' = Pending
      BY <1>9, SameBooks DEF vars, session
    <2> QED BY <1>9, <2>1 DEF vars, IInv, TypeOK, BatchOwners, Sessions,
              PendingAdded, Verdicts, AfterWait, ResultExact, shared, session
  <1> QED
    BY <1>1, <1>2, <1>3, <1>4, <1>5, <1>6, <1>7, <1>8, <1>9
    DEF Next, LoopStep, MasterStep, AllEnded

-----------------------------------------------------------------------------
(* No wakeup is lost                                                       *)

\* A master only sleeps on condMaster while other threads hold every check
\* that is left: it slept on an empty queue with nTodo # 0, nobody but the
\* master adds checks, and the worker that lowers nTodo to 0 notifies it.
Awaited ==
    \A m \in Masters : pc[m] = "waiting" => queue = {} /\ nTodo # 0

\* the thread a sleeping master waits for: a worker outside the mutex with
\* a batch in its hands, which no interruption reaches
MasterWillBeWoken ==
    \A m \in Masters : pc[m] = "waiting" =>
        \E w \in Workers : pc[w] \in {"exec", "cleanup"} /\ vChecks[w] # {}

\* A critical section of Loop leaves no master asleep over an empty nTodo,
\* provided the notification before it did not.
LEMMA LoopAwaits ==
    ASSUME IInv, Awaited, NEW t \in Threads, NEW pcs \in [Threads -> PC],
           NEW total, NEW idle, NEW ok, NEW todo,
           \A m \in Masters \ {t} :
              pcs[m] = "waiting" => pc[m] = "waiting" /\ todo # 0,
           LoopBody(t, pcs, total, idle, ok, todo)
    PROVE  Awaited'
  <1>1. nTodo' = todo
    BY DEF LoopBody
  <1>2. CASE queue = {} /\ t \in Masters /\ todo = 0
    <2>1. queue' = {} /\ pc' = [pcs EXCEPT ![t] = "returned"]
      BY <1>2 DEF LoopBody, ReturnResult
    <2> QED BY <1>1, <2>1 DEF Awaited, Threads
  <1>3. CASE queue = {} /\ ~(t \in Masters /\ todo = 0)
    <2>1. queue' = {} /\ pc' = [pcs EXCEPT ![t] = "waiting"]
      BY <1>3 DEF LoopBody, WaitForWork
    <2> QED BY <1>1, <1>3, <2>1 DEF Awaited, Threads
  <1>4. CASE queue # {}
    <2>1. pc' = [pcs EXCEPT ![t] = "exec"]
      BY <1>4 DEF LoopBody, TakeBatch
    <2> QED BY <1>4, <2>1 DEF Awaited, Threads
  <1> QED BY <1>2, <1>3, <1>4

\* Every step keeps the checks a sleeping master waits for in other hands.
LEMMA AwaitedNext == IInv /\ Awaited /\ [Next]_vars => Awaited'
  <1> SUFFICES ASSUME IInv, Awaited, [Next]_vars PROVE Awaited'
    OBVIOUS
  <1>t. pc \in [Threads -> PC]
    BY DEF IInv, TypeOK
  <1>s. \A m, n \in Masters : pc[m] # "out" /\ pc[n] # "out" => m = n
    BY DEF IInv, Sessions
  <1>1. ASSUME NEW t \in Threads, EnterLoop(t) \/ Wake(t) \/ SpuriousWake(t)
        PROVE  Awaited'
    <2>1. PICK total, idle : LoopBody(t, pc, total, idle, fAllOk, nTodo)
      BY <1>1 DEF EnterLoop, Wake, SpuriousWake
    <2>2. \A m \in Masters \ {t} :
             pc[m] = "waiting" => pc[m] = "waiting" /\ nTodo # 0
      BY DEF Awaited
    <2> QED BY <1>t, <2>1, <2>2, LoopAwaits
  <1>2. ASSUME NEW t \in Threads, CleanUp(t) PROVE Awaited'
    <2> DEFINE todo == nTodo - Cardinality(vChecks[t])
               pcs == NotifyMaster(t, todo)
    <2>1. LoopBody(t, pcs, nTotal, nIdle, fAllOk /\ fOk[t], todo)
      BY <1>2 DEF CleanUp
    <2>2. pcs \in [Threads -> PC]
      BY <1>t DEF NotifyMaster, PC
    <2>3. \A m \in Masters \ {t} :
             pcs[m] = "waiting" => pc[m] = "waiting" /\ todo # 0
      <3> SUFFICES ASSUME NEW m \in Masters \ {t}, pcs[m] = "waiting"
                   PROVE  pc[m] = "waiting" /\ todo # 0
        OBVIOUS
      <3> HIDE DEF todo
      <3>1. m \in Threads
        BY DEF Threads
      <3>2. pc[m] = "waiting" /\ ~(t \notin Masters /\ todo = 0)
        BY <3>1 DEF NotifyMaster
      <3>3. t \notin Masters
        BY <1>2, <1>s, <3>2 DEF CleanUp
      <3> QED BY <3>2, <3>3
    <2> HIDE DEF todo, pcs
    <2> QED BY <2>1, <2>2, <2>3, LoopAwaits
  <1>3. ASSUME NEW t \in Threads, ExecuteBatch(t) \/ Interrupt(t)
        PROVE  Awaited'
    BY <1>3, <1>t DEF ExecuteBatch, Interrupt, Awaited, shared, Threads
  <1>4. ASSUME NEW m \in Masters, OpenSession(m) \/ Wait(m) \/ Destroy(m)
        PROVE  Awaited'
    BY <1>4, <1>t DEF OpenSession, Wait, Destroy, Awaited, shared, Threads
  <1>5. ASSUME NEW m \in Masters, NEW batch \in SUBSET Checks, Add(m, batch)
        PROVE  Awaited'
    <2>1. \A u \in Threads : pc'[u] = "waiting" => pc[u] = "waiting"
      BY <1>5, NotifyWorkersEffect DEF Add
    <2>2. \A n \in Masters : pc[n] # "waiting"
      BY <1>5, <1>s DEF Add
    <2> QED BY <2>1, <2>2 DEF Awaited, Threads
  <1>6. CASE UNCHANGED vars
    BY <1>6 DEF vars, shared, Awaited
  <1> QED BY <1>1, <1>2, <1>3, <1>4, <1>5, <1>6
       DEF Next, LoopStep, MasterStep, AllEnded

\* While a master sleeps, a worker holds a batch.
LEMMA SomeWorkerBusy == IInv /\ Awaited => MasterWillBeWoken
  <1> SUFFICES ASSUME IInv, Awaited, NEW m \in Masters, pc[m] = "waiting"
               PROVE  \E w \in Workers :
                         pc[w] \in {"exec", "cleanup"} /\ vChecks[w] # {}
    BY DEF MasterWillBeWoken
  <1>1. queue = {} /\ nTodo # 0
    BY DEF Awaited
  <1>2. Pending # {}
    BY <1>1, FS_EmptySet DEF IInv, TodoAccounting
  <1>3. PICK c \in Checks, t \in Threads : c \in vChecks[t]
    BY <1>1, <1>2 DEF Pending
  <1>4. pc[t] \in {"exec", "cleanup"}
    BY <1>3 DEF IInv, BatchOwners
  <1>5. t \notin Masters
    BY <1>4 DEF IInv, Sessions
  <1> QED BY <1>3, <1>4, <1>5 DEF Threads

-----------------------------------------------------------------------------
(* The theorems                                                            *)

\* The invariant holds in every reachable state of Loop, Add and the
\* session protocol.
THEOREM InvariantHolds == Spec => []IInv
  BY InitInv, NextInv, PTL DEF Spec

\* Type correctness of the queue; nTodo, an unsigned int, never wraps.
THEOREM TypeCorrect == Spec => []TypeOK
  BY InvariantHolds, PTL DEF IInv

\* nTodo counts the queued checks and those in the threads' batches.
THEOREM TodoCounts == Spec => []TodoAccounting
  BY InvariantHolds, PTL DEF IInv

\* nIdle and nTotal count the waiting threads and the threads in Loop, and
\* one more for each thread, master or worker, whose wait was interrupted.
THEOREM CountersExact == Spec => []LoopCounters
  BY InvariantHolds, PTL DEF IInv

\* Wait returns true exactly when all checks of the session pass.
THEOREM WaitIsExact == Spec => []ResultExact
  BY InvariantHolds, PTL DEF IInv

\* Between two sessions nothing is pending and no failure is remembered.
THEOREM SessionsAreIsolated == Spec => []CleanBetweenSessions
  <1>1. IInv => CleanBetweenSessions
    BY FS_EmptySet DEF IInv, AfterWait, CleanBetweenSessions, TodoAccounting
  <1> QED BY <1>1, InvariantHolds, PTL

\* No notification of condMaster is lost: whenever the master sleeps in
\* Loop, some worker is outside the mutex with a batch it has still to
\* account for, whichever threads were interrupted meanwhile, and the one
\* that accounts for the last check notifies the master.
THEOREM NoLostWakeup == Spec => []MasterWillBeWoken
  <1>1. Init => Awaited
    BY CheckQueueAssumption DEF Init, Awaited, Threads
  <1> QED
    BY <1>1, AwaitedNext, SomeWorkerBusy, InvariantHolds, PTL DEF Spec
=============================================================================
