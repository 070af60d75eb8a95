------------------------- MODULE ThreadWorkerProofs -------------------------
(* The worker of libwebp keeps its promises, for any number of jobs: each   *)
(* job is run once, a synced owner has the data to itself, no failure and   *)
(* no wakeup is lost.                                                       *)
EXTENDS ThreadWorker, TLAPS

(* The inductive invariant: where the two sides can be together.            *)
MainIsAt ==
  /\ main = "out" <=> call = "none"
  /\ main \in {"create", "created"} <=> call = "reset"
  /\ main = "create" => thread = "none"
  /\ main = "created" => thread = "lock" /\ status = "NOT_OK"
  /\ main = "return" => call = "sync" /\ status = "OK"
  /\ main = "signal" => call \in {"launch", "end"}
  /\ main = "signal" /\ call = "launch" => status # "NOT_OK"
  /\ main = "signal" /\ call = "end" => status = "NOT_OK"
  /\ main = "join" => call = "end" /\ status = "NOT_OK"
  /\ "main" \in waiting => main = "asleep"

ThreadIsAt ==
  /\ thread = "none" => status = "NOT_OK" /\ main \in {"out", "create"}
  /\ thread # "none" /\ status = "NOT_OK" =>
       main = "created" \/ (call = "end" /\ main \in {"signal", "join"})
  /\ thread \in {"last", "gone"} => status = "NOT_OK" /\ main # "created"
  /\ thread = "run" => status = "WORK"
  /\ "thread" \in waiting => thread = "asleep"

Counts == /\ given = IF status = "WORK" THEN ran + 1 ELSE ran
          /\ had_error = failed
          /\ main = "out" /\ ret = "ok" => status # "WORK" /\ failed = 0
          /\ main \in {"create", "created"} => failed = 0
          /\ call \in {"sync", "launch", "end"} => ret = "none"

IInv == TypeOK /\ MainIsAt /\ ThreadIsAt /\ Counts /\ NoLostWakeup

-----------------------------------------------------------------------------
LEMMA InitIInv == Init => IInv
  BY DEF Init, IInv, TypeOK, Outside, MainIsAt, ThreadIsAt, Counts,
         NoLostWakeup, Threads

LEMMA SignalWakes ==
  ASSUME TypeOK, Signal
  PROVE  waiting' \subseteq waiting /\ waiting' \subseteq Threads
  BY DEF TypeOK, Signal

(* Signalling wakes the other side, which alone can be asleep.              *)
LEMMA SignalEmpties ==
  ASSUME NEW t \in Threads, waiting \subseteq {t}, Signal
  PROVE  waiting' = {}
  BY DEF Signal, Threads

LEMMA NextIInv == IInv /\ [Next]_vars => IInv'
<1> SUFFICES ASSUME IInv, [Next]_vars PROVE IInv'
  OBVIOUS
<1> USE DEF IInv, TypeOK, Outside, MainIsAt, ThreadIsAt, Counts, NoLostWakeup,
            Threads
<1>1. CASE CallReset
  BY <1>1 DEF CallReset
<1>2. CASE SyncWithout
  BY <1>2 DEF SyncWithout
<1>3. CASE Call
  BY <1>3 DEF Call
<1>4. CASE CreateThread
  BY <1>4 DEF CreateThread
<1>5. CASE CreateFails
  BY <1>5 DEF CreateFails
<1>6. CASE Created
  BY <1>6 DEF Created
<1>7. CASE Lock
  BY <1>7 DEF Lock
<1>8. CASE Wait
  BY <1>8 DEF Wait
<1>9. CASE Wake
  BY <1>9 DEF Wake
<1>10. CASE Assign
  BY <1>10 DEF Assign, NewStatus
<1>11. CASE MainSignals
  <2>1. waiting \subseteq {"thread"}
    BY <1>11 DEF MainSignals
  <2>2. waiting' = {}
    BY <1>11, <2>1, SignalEmpties DEF MainSignals
  <2> QED BY <1>11, <2>2 DEF MainSignals
<1>12. CASE Join
  BY <1>12 DEF Join
<1>13. CASE ReturnSync
  BY <1>13 DEF ReturnSync
<1>14. CASE ThreadLock
  BY <1>14 DEF ThreadLock
<1>15. CASE ThreadWait
  BY <1>15 DEF ThreadWait
<1>16. CASE ThreadWake
  BY <1>16 DEF ThreadWake
<1>17. CASE StartJob
  BY <1>17 DEF StartJob
<1>18. CASE EndJob
  BY <1>18 DEF EndJob
<1>19. CASE ThreadDone
  BY <1>19 DEF ThreadDone
<1>20. CASE ThreadSignals
  <2>1. waiting \subseteq {"main"}
    BY <1>20 DEF ThreadSignals
  <2>2. waiting' = {}
    BY <1>20, <2>1, SignalEmpties DEF ThreadSignals
  <2> QED BY <1>20, <2>2 DEF ThreadSignals
<1>21. CASE SpuriousWakeup
  BY <1>21 DEF SpuriousWakeup
<1>22. CASE UNCHANGED vars
  BY <1>22 DEF vars
<1> QED
  BY <1>1, <1>2, <1>3, <1>4, <1>5, <1>6, <1>7, <1>8, <1>9, <1>10, <1>11,
     <1>12, <1>13, <1>14, <1>15, <1>16, <1>17, <1>18, <1>19, <1>20, <1>21,
     <1>22
     DEF Next, OwnerCalls, MainStep, ThreadStep

(* Every variable of the worker keeps its type, and the mutex is held by    *)
(* exactly who is in a critical section.                                    *)
THEOREM WorkerTypeCorrect == Spec => []TypeOK
<1>1. IInv => TypeOK
  BY DEF IInv
<1> QED BY <1>1, InitIInv, NextIInv, PTL DEF Spec

(* An owner that has synced finds every job run, once, and the thread       *)
(* outside the hook.                                                        *)
THEOREM SyncedOwnerIsAlone == Spec => []SyncedMeansDone
<1>1. IInv => SyncedMeansDone
  BY DEF IInv, MainIsAt, ThreadIsAt, Counts, SyncedMeansDone
<1> QED BY <1>1, InitIInv, NextIInv, PTL DEF Spec

(* No failure of a job is lost between the mutex and the owner.             *)
THEOREM FailuresAreTold == Spec => []SyncTellsOfFailure
<1>1. IInv => SyncTellsOfFailure
  BY DEF IInv, Counts, SyncTellsOfFailure
<1> QED BY <1>1, InitIInv, NextIInv, PTL DEF Spec

(* A usable worker has a thread: it cannot miss its own start.              *)
THEOREM UsableWorkerHasThread == Spec => []ThreadServes
<1>1. IInv => ThreadServes
  BY DEF IInv, ThreadIsAt, ThreadServes
<1> QED BY <1>1, InitIInv, NextIInv, PTL DEF Spec

(* Neither side sleeps through the change it waits for.                     *)
THEOREM NoWakeupIsLost == Spec => []NoLostWakeup
<1>1. IInv => NoLostWakeup
  BY DEF IInv
<1> QED BY <1>1, InitIInv, NextIInv, PTL DEF Spec

-----------------------------------------------------------------------------
LEMMA StepSimulation ==
  ASSUME IInv, [Next]_vars
  PROVE  [Slot!SlotNext]_(Slot!slotVars)
<1> USE DEF Slot!SlotNext, Slot!slotVars
<1>1. CASE CallReset
  BY <1>1 DEF CallReset, Slot!Forget
<1>2. CASE Created
  BY <1>2 DEF Created, Slot!Open, IInv, MainIsAt
<1>3. CASE Assign
  <2>1. call \in {"sync", "launch", "end"}
    BY <1>3 DEF Assign, IInv, TypeOK, MainIsAt, Outside
  <2>2. CASE call = "sync"
    BY <1>3, <2>2 DEF Assign, NewStatus
  <2>3. CASE call = "launch"
    BY <1>3, <2>3 DEF Assign, NewStatus, Slot!Give
  <2>4. CASE call = "end"
    BY <1>3, <2>4 DEF Assign, NewStatus, Slot!Close
  <2> QED BY <2>1, <2>2, <2>3, <2>4
<1>4. CASE EndJob
  BY <1>4 DEF EndJob, Slot!Finish, IInv, ThreadIsAt
<1>5. CASE \/ SyncWithout \/ Call \/ CreateThread \/ CreateFails
           \/ Lock \/ Wait \/ Wake \/ MainSignals \/ Join \/ ReturnSync
  BY <1>5 DEF SyncWithout, Call, CreateThread, CreateFails, Lock, Wait, Wake,
              MainSignals, Join, ReturnSync
<1>6. CASE \/ ThreadLock \/ ThreadWait \/ ThreadWake \/ StartJob
           \/ ThreadDone \/ ThreadSignals \/ SpuriousWakeup
  BY <1>6 DEF ThreadLock, ThreadWait, ThreadWake, StartJob, ThreadDone,
              ThreadSignals, SpuriousWakeup
<1>7. CASE UNCHANGED vars
  BY <1>7 DEF vars
<1> QED BY <1>1, <1>2, <1>3, <1>4, <1>5, <1>6, <1>7
        DEF Next, OwnerCalls, MainStep, ThreadStep

(* The worker, with its mutex and its condition variable, is a slot for one *)
(* job: none is dropped, none run twice, and it closes only between jobs.   *)
THEOREM WorkerImplementsJobSlot == Spec => ImplementsJobSlot
<1>1. Init => Slot!SlotInit
  BY DEF Init, Slot!SlotInit
<1>2. IInv /\ [Next]_vars => [Slot!SlotNext]_(Slot!slotVars)
  BY StepSimulation
<1> QED BY <1>1, <1>2, InitIInv, NextIInv, PTL
        DEF Spec, ImplementsJobSlot, Slot!SlotSpec

(* What Sync() says of the jobs it has waited for is true of all of them.   *)
THEOREM SyncIsTrue == Spec => []SyncKeepsItsWord
<1> QED BY SyncedOwnerIsAlone, FailuresAreTold, PTL DEF SyncKeepsItsWord

(* Nobody waits for a thread that is not there or a signal that has passed. *)
THEOREM EverybodyIsServed == Spec => []NobodyIsMissed
<1> QED BY WorkerTypeCorrect, UsableWorkerHasThread, NoWakeupIsLost, PTL
        DEF NobodyIsMissed
=============================================================================
