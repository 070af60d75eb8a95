---------------------------- MODULE ThreadWorker ----------------------------
(* WebPWorker: src/utils/thread_utils.c of libwebp, compiled with           *)
(* WEBP_USE_THREAD and on Windows' own condition variables.  One owner, the *)
(* thread that decodes, calls the worker; the worker's thread runs the jobs.*)
(* They share one mutex and one condition variable, on which both wait, and *)
(* each signals it after it has let go of the mutex.                        *)
EXTENDS Integers

CONSTANT MaxJobs      \* bound: the jobs launched in a behaviour

VARIABLES status,     \* worker->status
          had_error,  \* worker->had_error
          owner,      \* who holds impl->mutex
          waiting,    \* who sleeps on impl->condition
          main,       \* where the owner of the worker is
          call,       \* the call it is in
          ret,        \* what its last call told it
          thread,     \* where the thread is; "none": impl is NULL
          given, ran, \* the jobs launched, and finished
          failed      \* whether a job failed since the last reset

vars == <<status, had_error, owner, waiting, main, call, ret, thread,
          given, ran, failed>>

ASSUME MaxJobsAssumption == MaxJobs \in Nat

Threads == {"main", "thread"}

NewStatus(c) == CASE c = "launch" -> "WORK"
                  [] c = "end" -> "NOT_OK"
                  [] OTHER -> "OK"

Init == /\ status = "NOT_OK" /\ had_error = 0
        /\ owner = "nobody" /\ waiting = {}
        /\ main = "out" /\ call = "none" /\ ret = "none"
        /\ thread = "none" /\ given = 0 /\ ran = 0 /\ failed = 0

\* The slip of not waking anyone.
NoSignal == UNCHANGED waiting

(* pthread_cond_signal: WakeConditionVariable wakes one sleeper, if any.    *)
Signal == IF waiting = {} THEN UNCHANGED waiting
          ELSE \E t \in waiting : waiting' = waiting \ {t}

-----------------------------------------------------------------------------
(* Reset().  Every owner in the library calls it for a worker that is new   *)
(* or idle; of a busy one it would clear had_error while the hook runs, and *)
(* then call Sync().  The new thread finds the mutex locked until the       *)
(* status says that it is usable.                                           *)
CallReset ==
  /\ main = "out" /\ status # "WORK"
  /\ had_error' = 0 /\ failed' = 0
  /\ IF status = "NOT_OK"
     THEN main' = "create" /\ call' = "reset" /\ owner' = "main"
          /\ UNCHANGED ret
     ELSE ret' = "ok" /\ UNCHANGED <<main, call, owner>>
  /\ UNCHANGED <<status, waiting, thread, given, ran>>

CreateThread ==
  /\ main = "create"
  /\ thread' = "lock" /\ main' = "created"
  /\ UNCHANGED <<status, had_error, owner, waiting, call, ret, given, ran,
                 failed>>

(* No memory, no mutex, no condition variable or no thread.                 *)
CreateFails ==
  /\ main = "create"
  /\ main' = "out" /\ call' = "none" /\ owner' = "nobody" /\ ret' = "error"
  /\ UNCHANGED <<status, had_error, waiting, thread, given, ran, failed>>

Created ==
  /\ main = "created"
  /\ status' = "OK" /\ owner' = "nobody"
  /\ main' = "out" /\ call' = "none" /\ ret' = "ok"
  /\ UNCHANGED <<had_error, waiting, thread, given, ran, failed>>

-----------------------------------------------------------------------------
(* Sync(), Launch() and End(), by way of ChangeState().  Without a thread   *)
(* Launch() and End() do nothing, and Sync() only looks at had_error.       *)
SyncWithout ==
  /\ main = "out" /\ thread = "none"
  /\ ret' = IF had_error = 0 THEN "ok" ELSE "error"
  /\ UNCHANGED <<status, had_error, owner, waiting, main, call, thread,
                 given, ran, failed>>

Call ==
  /\ main = "out" /\ thread # "none"
  /\ \E c \in {"sync", "launch", "end"} :
       /\ c = "launch" => given < MaxJobs
       /\ call' = c
  /\ main' = "lock" /\ ret' = "none"
  /\ UNCHANGED <<status, had_error, owner, waiting, thread, given, ran,
                 failed>>

Lock ==
  /\ main = "lock" /\ owner = "nobody"
  /\ owner' = "main" /\ main' = "check"
  /\ UNCHANGED <<status, had_error, waiting, call, ret, thread, given, ran,
                 failed>>

(* Wait for the job that is running or still to run.                        *)
Wait ==
  /\ main = "check" /\ status = "WORK"
  /\ owner' = "nobody" /\ waiting' = waiting \union {"main"}
  /\ main' = "asleep"
  /\ UNCHANGED <<status, had_error, call, ret, thread, given, ran, failed>>

Wake ==
  /\ main = "asleep" /\ "main" \notin waiting /\ owner = "nobody"
  /\ owner' = "main" /\ main' = "check"
  /\ UNCHANGED <<status, had_error, waiting, call, ret, thread, given, ran,
                 failed>>

\* The slip of not waiting for the job that is under way.
AssignAtOnce ==
  /\ main = "check"
  /\ status' = NewStatus(call)
  /\ given' = IF call = "launch" THEN given + 1 ELSE given
  /\ owner' = "nobody"
  /\ main' = IF call = "sync" THEN "return" ELSE "signal"
  /\ UNCHANGED <<had_error, waiting, call, ret, thread, ran, failed>>

Assign ==
  /\ main = "check" /\ status = "OK"
  /\ status' = NewStatus(call)
  /\ given' = IF call = "launch" THEN given + 1 ELSE given
  /\ owner' = "nobody"
  /\ main' = IF call = "sync" THEN "return" ELSE "signal"
  /\ UNCHANGED <<had_error, waiting, call, ret, thread, ran, failed>>

\* The slip of leaving the thread asleep when it is to finish.
MainSignalsWork ==
  /\ main = "signal"
  /\ IF call = "end" THEN main' = "join" /\ UNCHANGED <<call, waiting>>
     ELSE main' = "out" /\ call' = "none" /\ Signal
  /\ UNCHANGED <<status, had_error, owner, ret, thread, given, ran, failed>>

MainSignals ==
  /\ main = "signal"
  /\ Signal
  /\ IF call = "end" THEN main' = "join" /\ UNCHANGED call
     ELSE main' = "out" /\ call' = "none"
  /\ UNCHANGED <<status, had_error, owner, ret, thread, given, ran, failed>>

(* pthread_join, and the mutex, the condition and impl are gone.            *)
Join ==
  /\ main = "join" /\ thread = "gone"
  /\ thread' = "none" /\ main' = "out" /\ call' = "none"
  /\ UNCHANGED <<status, had_error, owner, waiting, ret, given, ran, failed>>

(* Sync() reads had_error after it has let go of the mutex.                 *)
ReturnSync ==
  /\ main = "return"
  /\ main' = "out" /\ call' = "none"
  /\ ret' = IF had_error = 0 THEN "ok" ELSE "error"
  /\ UNCHANGED <<status, had_error, owner, waiting, thread, given, ran,
                 failed>>

-----------------------------------------------------------------------------
(* ThreadLoop(), which holds the mutex while the hook runs.                 *)
ThreadLock ==
  /\ thread = "lock" /\ owner = "nobody"
  /\ owner' = "thread" /\ thread' = "check"
  /\ UNCHANGED <<status, had_error, waiting, main, call, ret, given, ran,
                 failed>>

ThreadWait ==
  /\ thread = "check" /\ status = "OK"
  /\ owner' = "nobody" /\ waiting' = waiting \union {"thread"}
  /\ thread' = "asleep"
  /\ UNCHANGED <<status, had_error, main, call, ret, given, ran, failed>>

ThreadWake ==
  /\ thread = "asleep" /\ "thread" \notin waiting /\ owner = "nobody"
  /\ owner' = "thread" /\ thread' = "check"
  /\ UNCHANGED <<status, had_error, waiting, main, call, ret, given, ran,
                 failed>>

StartJob ==
  /\ thread = "check" /\ status = "WORK"
  /\ thread' = "run"
  /\ UNCHANGED <<status, had_error, owner, waiting, main, call, ret, given,
                 ran, failed>>

\* The slip of keeping the error of the last job only.
EndJobForgets ==
  /\ thread = "run"
  /\ \E bad \in 0..1 :
       /\ had_error' = bad
       /\ failed' = IF bad = 1 THEN 1 ELSE failed
  /\ ran' = ran + 1
  /\ status' = "OK" /\ owner' = "nobody" /\ thread' = "signal"
  /\ UNCHANGED <<waiting, main, call, ret, given>>

(* Execute() or-s the error of the hook into had_error.                     *)
EndJob ==
  /\ thread = "run"
  /\ \E bad \in 0..1 :
       /\ had_error' = IF bad = 1 THEN 1 ELSE had_error
       /\ failed' = IF bad = 1 THEN 1 ELSE failed
  /\ ran' = ran + 1
  /\ status' = "OK" /\ owner' = "nobody" /\ thread' = "signal"
  /\ UNCHANGED <<waiting, main, call, ret, given>>

ThreadDone ==
  /\ thread = "check" /\ status = "NOT_OK"
  /\ owner' = "nobody" /\ thread' = "last"
  /\ UNCHANGED <<status, had_error, waiting, main, call, ret, given, ran,
                 failed>>

ThreadSignals ==
  /\ thread \in {"signal", "last"}
  /\ Signal
  /\ thread' = IF thread = "signal" THEN "lock" ELSE "gone"
  /\ UNCHANGED <<status, had_error, owner, main, call, ret, given, ran,
                 failed>>

-----------------------------------------------------------------------------
(* A condition variable may wake a sleeper that nobody has signalled.       *)
SpuriousWakeup ==
  /\ \E t \in waiting : waiting' = waiting \ {t}
  /\ UNCHANGED <<status, had_error, owner, main, call, ret, thread, given,
                 ran, failed>>

OwnerCalls == CallReset \/ SyncWithout \/ Call

MainStep == \/ CreateThread \/ CreateFails \/ Created
            \/ Lock \/ Wait \/ Wake \/ Assign \/ MainSignals \/ Join
            \/ ReturnSync

ThreadStep == \/ ThreadLock \/ ThreadWait \/ ThreadWake \/ StartJob
              \/ EndJob \/ ThreadDone \/ ThreadSignals

Next == OwnerCalls \/ MainStep \/ ThreadStep \/ SpuriousWakeup

(* A thread that can go on does, a hook returns, and a thread that finds    *)
(* the critical section free again and again enters it at some time.        *)
Fairness == /\ WF_vars(MainStep) /\ SF_vars(Lock \/ Wake)
            /\ WF_vars(ThreadStep) /\ SF_vars(ThreadLock \/ ThreadWake)

Spec == Init /\ [][Next]_vars

FairSpec == Spec /\ Fairness

-----------------------------------------------------------------------------
Outside == {"out", "lock", "asleep", "signal", "join", "return"}

(* Every variable keeps its type, and the mutex is held exactly by who is   *)
(* in a critical section.                                                   *)
TypeOK ==
  /\ status \in {"NOT_OK", "OK", "WORK"} /\ had_error \in 0..1
  /\ owner \in {"nobody", "main", "thread"} /\ waiting \subseteq Threads
  /\ main \in Outside \union {"create", "created", "check"}
  /\ call \in {"none", "reset", "sync", "launch", "end"}
  /\ ret \in {"none", "ok", "error"}
  /\ thread \in {"none", "lock", "check", "asleep", "run", "signal", "last",
                 "gone"}
  /\ given \in Nat /\ ran \in Nat /\ failed \in 0..1
  /\ owner = "main" <=> main \in {"create", "created", "check"}
  /\ owner = "thread" <=> thread \in {"check", "run"}

(* When Sync() has returned, every job that was launched is finished, each  *)
(* was run once, and the thread is nowhere in the hook: the owner may touch *)
(* what it shares with the job until it launches the next.                  *)
SyncedMeansDone ==
  call = "sync" /\ main = "return" => ran = given /\ thread # "run"

(* Sync() tells of a failure in any of the jobs since the last reset,       *)
(* though it looks after letting go of the mutex.                           *)
SyncTellsOfFailure ==
  /\ main = "return" => had_error = failed
  /\ main = "out" /\ ret = "ok" => failed = 0

(* A Sync() that returns has waited for every job, and tells of its failure: *)
(* SyncedMeansDone and SyncTellsOfFailure.                                   *)
SyncKeepsItsWord == SyncedMeansDone /\ SyncTellsOfFailure

(* While the owner sees a usable worker there is a thread to serve it: it   *)
(* never starts to find the status of a worker that is not ready, which it  *)
(* would take for an order to finish.                                       *)
ThreadServes ==
  status \in {"OK", "WORK"} => thread \notin {"none", "last", "gone"}

(* Neither side sleeps through the change it waits for: while the other     *)
(* has made it, it has still to signal.                                     *)
NoLostWakeup ==
  /\ "thread" \in waiting /\ status # "OK" => main = "signal"
  /\ "main" \in waiting /\ status # "WORK" => thread = "signal"

(* Nobody waits for one who is not there, or who does not know of it:       *)
(* ThreadServes and NoLostWakeup; nor do two hold the mutex: TypeOK.        *)
NobodyIsMissed == TypeOK /\ ThreadServes /\ NoLostWakeup

(* The mutex and the condition variable make a slot for one job.            *)
Slot == INSTANCE JobSlot WITH slot <- status

ImplementsJobSlot == Slot!SlotSpec

(* No call blocks for ever: no signal is lost though it is sent after the   *)
(* mutex is free, and no two threads wait for each other.                   *)
CallsReturn == main # "out" ~> main = "out"

(* A job that is launched is run, whatever the owner does next.             *)
JobsAreRun == \A n \in 1..MaxJobs : given = n ~> ran >= n

(* What is asked of the worker is done in the end: CallsReturn, JobsAreRun. *)
AllIsDone == CallsReturn /\ JobsAreRun
=============================================================================
