------------------------------ MODULE JobSlot ------------------------------
(* What a WebPWorker (src/utils/thread_utils.h of libwebp) promises its     *)
(* owner: a slot for one job at a time.  A job is taken once, none is       *)
(* dropped and none overwritten, the slot closes only between jobs, and a   *)
(* job that failed is remembered until the next reset.  How a mutex and a   *)
(* condition variable bring this about is the business of ThreadWorker.     *)
EXTENDS Integers

VARIABLES slot,        \* worker->status
          given,       \* how many jobs have been launched
          ran,         \* how many of them are finished
          had_error    \* whether one failed since the last reset

slotVars == <<slot, given, ran, had_error>>

SlotInit == slot = "NOT_OK" /\ given = 0 /\ ran = 0 /\ had_error = 0

(* Reset(), of a worker that has no thread or is idle.                      *)
Forget == slot # "WORK" /\ had_error' = 0 /\ UNCHANGED <<slot, given, ran>>

Open == slot = "NOT_OK" /\ slot' = "OK" /\ UNCHANGED <<given, ran, had_error>>

(* Launch().                                                                *)
Give == slot = "OK" /\ slot' = "WORK" /\ given' = given + 1
        /\ UNCHANGED <<ran, had_error>>

(* The hook returns, in the thread of the worker.                           *)
Finish == /\ slot = "WORK" /\ slot' = "OK" /\ ran' = ran + 1
          /\ had_error' \in {had_error, 1}
          /\ UNCHANGED given

(* End().                                                                   *)
Close == slot = "OK" /\ slot' = "NOT_OK" /\ UNCHANGED <<given, ran, had_error>>

SlotNext == Forget \/ Open \/ Give \/ Finish \/ Close

SlotSpec == SlotInit /\ [][SlotNext]_slotVars
=============================================================================
