------------------------ MODULE FramePipelineProofs ------------------------
(* The parsing thread and the worker of the lossy decoder never touch the   *)
(* same buffer, and the output outlives the job: for pictures of every      *)
(* height.                                                                  *)
EXTENDS FramePipeline, TLAPS

(* The part of the type that the buffers need.                              *)
Types ==
  /\ slot \in {"NOT_OK", "OK", "WORK"} /\ had_error \in 0..1
  /\ mt_method \in {0, 2} /\ filter_type \in 0..2
  /\ pc \in {"setup", "rows", "process", "inline", "exit", "clear", "done"}
  /\ stage \in {"none", "reconstruct", "filter", "put"}
  /\ torn_down \in 0..1
  /\ mb_data \in 0..1 /\ f_info \in 0..1
  /\ mb_y \in Int /\ cache_id \in Int
  /\ ctx \in [id: Int, mb_y: Int, filter_row: 0..1, mb_data: 0..1,
              f_info: 0..1]
  /\ parsed \in [0..1 -> Int] /\ strengths \in [0..1 -> Int]

(* Who runs FinishRow, and when.                                            *)
Phases ==
  /\ mt_method = 0 => slot = "NOT_OK"
  /\ slot = "WORK" <=> mt_method = 2 /\ stage # "none"
  /\ pc = "inline" <=> mt_method = 0 /\ stage # "none"
  /\ pc = "setup" => slot = "NOT_OK"
  /\ pc \in {"rows", "process"} /\ mt_method = 2 => slot # "NOT_OK"
  /\ pc \in {"clear", "done"} => stage = "none"
  /\ torn_down = 1 => pc \in {"clear", "done"}

(* Whose the buffers are, and what they hold.                               *)
Buffers ==
  /\ mt_method = 2 => mb_data # ctx.mb_data
  /\ mt_method = 2 /\ filter_type > 0 => f_info # ctx.f_info
  /\ mt_method = 0 => mb_data = ctx.mb_data /\ f_info = ctx.f_info
  /\ ctx.filter_row = 1 => filter_type > 0
  /\ pc = "process" =>
       /\ parsed[mb_data] = mb_y
       /\ filter_type > 0 => strengths[f_info] = mb_y
  /\ stage # "none" =>
       /\ parsed[ctx.mb_data] = ctx.mb_y
       /\ ctx.filter_row = 1 => strengths[ctx.f_info] = ctx.mb_y

IInv == Types /\ Phases /\ Buffers

-----------------------------------------------------------------------------
LEMMA InitIInv == Init => IInv
  BY DEF Init, SlotInit, IInv, Types, Phases, Buffers, None

(* The end of a row, in either thread, leaves the buffers alone.            *)
LEMMA RowDoneIInv ==
  ASSUME IInv, stage = "put", NEW good \in 0..1, RowDone(good)
  PROVE  IInv'
<1> USE DEF IInv, Types, Phases, Buffers
<1>1. CASE mt_method = 0
  BY <1>1 DEF RowDone, slotVars, config
<1>2. CASE mt_method = 2
  BY <1>2 DEF RowDone, Finish, config
<1> QED BY <1>1, <1>2

LEMMA NextIInv == IInv /\ [Next]_vars => IInv'
<1> SUFFICES ASSUME IInv, [Next]_vars PROVE IInv'
  OBVIOUS
<1> USE DEF IInv, Types, Phases, Buffers, config, parser, slotVars
<1>1. CASE SetupFails
  BY <1>1 DEF SetupFails
<1>2. CASE Enter
  BY <1>2 DEF Enter, Open
<1>3. CASE InitFails
  BY <1>3 DEF InitFails, Open
<1>4. CASE ParseRow
  BY <1>4 DEF ParseRow
<1>5. CASE ParseFails
  BY <1>5 DEF ParseFails, None
<1>6. CASE ProcessInline
  <2>1. FilterRowFlag \in 0..1 /\ (FilterRowFlag = 1 => filter_type > 0)
    BY DEF FilterRowFlag
  <2>2. /\ ctx'.id = ctx.id /\ ctx'.mb_y = mb_y
        /\ ctx'.filter_row = FilterRowFlag
        /\ ctx'.mb_data = ctx.mb_data /\ ctx'.f_info = ctx.f_info
        /\ ctx' \in [id: Int, mb_y: Int, filter_row: 0..1, mb_data: 0..1,
                     f_info: 0..1]
    BY <1>6, <2>1 DEF ProcessInline
  <2> QED BY <1>6, <2>1, <2>2 DEF ProcessInline
<1>7. CASE Spawn
  <2>1. FilterRowFlag \in 0..1 /\ (FilterRowFlag = 1 => filter_type > 0)
    BY DEF FilterRowFlag
  <2>2. NextCache(cache_id) \in Int
    BY DEF NextCache
  <2> QED BY <1>7, <2>1, <2>2 DEF Spawn, Synced
<1>8. CASE ProcessAborts
  BY <1>8 DEF ProcessAborts
<1>9. CASE LastSync
  BY <1>9 DEF LastSync
<1>10. CASE Exit
  BY <1>10 DEF Exit, Synced
<1>11. CASE Clear
  BY <1>11 DEF Clear, Close
<1>12. CASE ReconstructRow
  BY <1>12 DEF ReconstructRow
<1>13. CASE FilterRow
  BY <1>13 DEF FilterRow
<1>14. CASE PutRow
  BY <1>14, RowDoneIInv DEF PutRow
<1>15. CASE PutFails
  BY <1>15, RowDoneIInv DEF PutFails
<1>16. CASE AlphaFails
  BY <1>16, RowDoneIInv DEF AlphaFails
<1>17. CASE UNCHANGED vars
  BY <1>17 DEF vars
<1> QED
  BY <1>1, <1>2, <1>3, <1>4, <1>5, <1>6, <1>7, <1>8, <1>9, <1>10, <1>11,
     <1>12, <1>13, <1>14, <1>15, <1>16, <1>17
     DEF Next, ParserStep, FinishRowStep

(* A job works on the row it was launched for, in buffers that the parsing  *)
(* thread does not touch.                                                   *)
THEOREM ThreadsShareNoBuffer == Spec => []JobHasItsRow
<1>1. IInv => JobHasItsRow
  BY DEF IInv, Phases, Buffers, JobHasItsRow
<1> QED BY <1>1, InitIInv, NextIInv, PTL DEF Spec

(* No job is left when the caller's output is torn down.                    *)
THEOREM NoJobAfterTeardown == Spec => []TornDownIsQuiet
<1>1. IInv => TornDownIsQuiet
  BY DEF IInv, Types, Phases, TornDownIsQuiet
<1> QED BY <1>1, InitIInv, NextIInv, PTL DEF Spec

-----------------------------------------------------------------------------
LEMMA StepUsesSlot == ASSUME IInv, [Next]_vars PROVE [SlotNext]_slotVars
<1> USE DEF slotVars, SlotNext
<1>1. ASSUME NEW good \in 0..1, RowDone(good) PROVE [SlotNext]_slotVars
  BY <1>1 DEF RowDone
<1>2. CASE Spawn
  BY <1>2 DEF Spawn, Synced, Give, IInv, Types, Phases
<1>3. CASE Enter \/ InitFails \/ Clear
  BY <1>3 DEF Enter, InitFails, Clear
<1>4. CASE PutRow \/ PutFails \/ AlphaFails
  BY <1>1, <1>4 DEF PutRow, PutFails, AlphaFails
<1>5. CASE \/ SetupFails \/ ParseRow \/ ParseFails \/ ProcessInline
           \/ ProcessAborts \/ LastSync \/ Exit \/ ReconstructRow \/ FilterRow
  BY <1>5 DEF SetupFails, ParseRow, ParseFails, ProcessInline, ProcessAborts,
              LastSync, Exit, ReconstructRow, FilterRow
<1>6. CASE UNCHANGED vars
  BY <1>6 DEF vars
<1> QED BY <1>2, <1>3, <1>4, <1>5, <1>6 DEF Next, ParserStep, FinishRowStep

(* The decoder asks of its worker only what a slot for one job gives, in an *)
(* order it allows: no job is launched over another.                        *)
THEOREM DecoderUsesSlot == Spec => UsesSlot
<1>1. Init => SlotInit
  BY DEF Init
<1>2. IInv /\ [Next]_vars => [SlotNext]_slotVars
  BY StepUsesSlot
<1> QED BY <1>1, <1>2, InitIInv, NextIInv, PTL DEF Spec, UsesSlot, SlotSpec

(* The two threads are apart, in what they work on and when it is torn down. *)
THEOREM ThreadsAreApart == Spec => []JobsAreApart
<1> QED BY ThreadsShareNoBuffer, NoJobAfterTeardown, PTL DEF JobsAreApart

-----------------------------------------------------------------------------
(* The rows that reach the caller.  StartOf(y) is where the pixels that row  *)
(* y hands out begin, and so where those of the row before it end.           *)
StartOf(y) == IF y = 0 THEN 0
              ELSE IF y >= br_mb_y THEN height ELSE 16 * y - Extra

(* No row has failed yet, as far as a next one depends on it.                *)
Going == \/ mt_method = 2 /\ had_error = 0
         \/ mt_method = 0 /\ pc \in {"setup", "rows", "process"}

(* Which row and which cache line it is the turn of.                         *)
Turns ==
  /\ cache_id \in 0..num_caches - 1 /\ ctx.id \in 0..num_caches - 1
  /\ mb_y <= br_mb_y /\ (pc = "process" => mb_y < br_mb_y)
  /\ pc = "setup" => mb_y = 0
  /\ stage # "none" =>
       /\ cache_id = NextCache(ctx.id)
       /\ ctx.mb_y < br_mb_y
       /\ mb_y = (IF mt_method = 2 THEN ctx.mb_y + 1 ELSE ctx.mb_y)
       /\ had_error = 0
       /\ ctx.filter_row = 1 <=> filter_type > 0

(* The bottom of the row before is in front of the line whose turn it is.    *)
Lines ==
  /\ stage = "none" /\ Going /\ mb_y \in 1..br_mb_y - 1 =>
       tail[cache_id - 1].row = mb_y - 1
  /\ stage # "none" /\ ctx.mb_y > 0 => tail[ctx.id - 1].row = ctx.mb_y - 1
  /\ stage \in {"filter", "put"} => tail[ctx.id].row = ctx.mb_y
  /\ stage = "put" /\ ctx.mb_y > 0 /\ filter_type > 0 =>
       tail[ctx.id - 1].settled = 1

(* How far the caller has been handed the picture.                           *)
Progress ==
  /\ stage = "none" /\ Going => put.to = StartOf(mb_y)
  /\ stage # "none" => put.to = StartOf(ctx.mb_y)
  /\ mt_method = 0 => had_error = 0
  /\ pc \in {"exit", "clear", "done"} /\ ok = 1 =>
       stage = "none" /\ had_error = 0 /\ put.to = height

RowInv == TypeOK /\ Turns /\ Lines /\ Progress /\ HeldBackIsSettled

(* The last macroblock row reaches to the bottom, and the rows held back at  *)
(* the end of the one before it are still inside of the picture.             *)
LEMMA Geometry ==
  ASSUME TypeOK
  PROVE  /\ height \in Nat \ {0}
         /\ Extra \in {0, 2, 8} /\ (Extra = 0 <=> filter_type = 0)
         /\ br_mb_y \in Nat \ {0} /\ 16 * br_mb_y >= height
         /\ 16 * (br_mb_y - 1) < height
         /\ num_caches \in 1..3 /\ (mt_method = 0 => num_caches = 1)
         /\ (mt_method = 2 => num_caches > 1)
<1>1. height \in Nat \ {0} /\ filter_type \in 0..2 /\ mt_method \in {0, 2}
  BY HeightsAssumption DEF TypeOK
<1>2. Extra \in {0, 2, 8} /\ (Extra = 0 <=> filter_type = 0)
  <2>1. CASE filter_type = 0
    BY <2>1 DEF Extra, kFilterExtraRows
  <2>2. CASE filter_type = 1
    BY <2>2 DEF Extra, kFilterExtraRows
  <2>3. CASE filter_type = 2
    BY <2>3 DEF Extra, kFilterExtraRows
  <2> QED BY <1>1, <2>1, <2>2, <2>3
<1>3. /\ mb_h \in Nat \ {0} /\ 16 * mb_h >= height /\ 16 * (mb_h - 1) < height
  BY <1>1 DEF mb_h
<1>4. br_mb_y = mb_h
  BY <1>1, <1>2 DEF br_mb_y, mb_h
<1> QED BY <1>1, <1>2, <1>3, <1>4 DEF num_caches

(* The rows of a macroblock row end where those of the next begin.           *)
LEMMA RowsMeet ==
  ASSUME TypeOK, ctx.mb_y < br_mb_y
  PROVE  /\ YStart = StartOf(ctx.mb_y) /\ YEnd = StartOf(ctx.mb_y + 1)
         /\ YStart \in Nat /\ YEnd \in Nat
<1>1. PICK y \in Nat : y = ctx.mb_y
  BY DEF TypeOK
<1>2. PICK b \in Nat, h \in Nat, e \in {0, 2, 8} :
        /\ b = br_mb_y /\ h = height /\ e = Extra
        /\ 16 * b >= h /\ 16 * (b - 1) < h
  BY Geometry
<1>3. YStart = StartOf(ctx.mb_y) /\ YStart \in Nat
  BY <1>1, <1>2 DEF YStart, StartOf, FirstRow
<1>4. YEnd = StartOf(ctx.mb_y + 1) /\ YEnd \in Nat
  <2>1. CASE y >= b - 1
    BY <1>1, <1>2, <2>1 DEF YEnd, StartOf, LastRow
  <2>2. CASE ~(y >= b - 1)
    BY <1>1, <1>2, <2>2 DEF YEnd, StartOf, LastRow
  <2> QED BY <2>1, <2>2
<1> QED BY <1>3, <1>4

LEMMA InitRowInv == Init => RowInv
<1> SUFFICES ASSUME Init PROVE RowInv
  OBVIOUS
<1>1. TypeOK
  BY HeightsAssumption DEF Init, SlotInit, TypeOK, None, NoTail, TailType
<1>2. Turns
  BY <1>1, Geometry DEF Init, SlotInit, Turns
<1>3. Lines /\ HeldBackIsSettled
  BY DEF Init, Lines, HeldBackIsSettled, None
<1>4. Progress
  BY DEF Init, SlotInit, Progress, StartOf
<1> QED BY <1>1, <1>2, <1>3, <1>4 DEF RowInv

(* What no step changes: the picture, and so everything reckoned from it.    *)
Fixed == /\ height' = height /\ filter_type' = filter_type
         /\ mt_method' = mt_method
         /\ Extra' = Extra /\ br_mb_y' = br_mb_y /\ num_caches' = num_caches

LEMMA NextFixed == ASSUME [Next]_vars PROVE Fixed
<1>1. config' = config
  BY DEF Next, ParserStep, FinishRowStep, vars, SetupFails, Enter, InitFails,
         ParseRow, ParseFails, ProcessInline, Spawn, ProcessAborts, LastSync,
         Exit, Clear, ReconstructRow, FilterRow, PutRow, PutFails, AlphaFails,
         RowDone
<1>2. height' = height /\ filter_type' = filter_type /\ mt_method' = mt_method
  BY <1>1 DEF config
<1> QED
  BY <1>2 DEF Fixed, Extra, br_mb_y, mb_h, num_caches

LEMMA NextTypeOK == ASSUME TypeOK, Turns, [Next]_vars PROVE TypeOK'
<1> USE DEF TypeOK, slotVars, config, parser
<1>1. CASE SetupFails
  BY <1>1 DEF SetupFails
<1>2. CASE Enter
  BY <1>2 DEF Enter, Open
<1>3. CASE InitFails
  BY <1>3 DEF InitFails, Open
<1>4. CASE ParseRow
  BY <1>4 DEF ParseRow
<1>5. CASE ParseFails
  BY <1>5 DEF ParseFails, None
<1>6. CASE ProcessInline
  <2>1. FilterRowFlag \in 0..1
    BY DEF FilterRowFlag
  <2>2. ctx' \in [id: 0..2, mb_y: Nat, filter_row: 0..1, mb_data: 0..1,
                  f_info: 0..1]
    BY <1>6, <2>1 DEF ProcessInline
  <2> QED BY <1>6, <2>2 DEF ProcessInline
<1>7. CASE Spawn
  <2>1. FilterRowFlag \in 0..1
    BY DEF FilterRowFlag
  <2>2. NextCache(cache_id) \in 0..2
    BY Geometry DEF Turns, NextCache
  <2> QED BY <1>7, <2>1, <2>2 DEF Spawn
<1>8. CASE ProcessAborts
  BY <1>8 DEF ProcessAborts
<1>9. CASE LastSync
  BY <1>9 DEF LastSync
<1>10. CASE Exit
  BY <1>10 DEF Exit
<1>11. CASE Clear
  BY <1>11 DEF Clear, Close
<1>12. CASE ReconstructRow
  BY <1>12 DEF ReconstructRow, TailType
<1>13. CASE FilterRow
  <2>1. PICK i \in -1..1 : i = ctx.id - 1
    OBVIOUS
  <2>2. [tail[i] EXCEPT !.settled = 1] \in TailType
    BY DEF TailType
  <2>3. [tail EXCEPT ![i].settled = 1] \in [-1..2 -> TailType]
    BY <2>2
  <2>4. tail' \in [-1..2 -> TailType]
    BY <1>13, <2>1, <2>3 DEF FilterRow
  <2> QED BY <1>13, <2>4 DEF FilterRow
<1>14. ASSUME stage = "put", NEW good \in 0..1, RowDone(good)
       PROVE  /\ slot' \in {"NOT_OK", "OK", "WORK"} /\ given' \in Nat
              /\ ran' \in Nat /\ had_error' \in 0..1
              /\ pc' \in {"setup", "rows", "process", "inline", "exit", "clear",
                          "done"}
              /\ ok' \in 0..1 /\ mb_y' \in Nat /\ stage' = "none"
  BY <1>14 DEF RowDone, Finish
<1>15. Rotated \in [-1..2 -> TailType]
  BY DEF Rotated
<1>16. stage = "put" => Handed \in [row: Nat, from: Nat, to: Nat,
                                    above: {None} \union Nat, settled: 0..1]
  <2> HAVE stage = "put"
  <2>1. YStart \in Nat /\ YEnd \in Nat
    BY RowsMeet DEF Turns
  <2>2. (IF FirstRow \/ Extra = 0 THEN ctx.mb_y - 1 ELSE tail[ctx.id - 1].row)
           \in {None} \union Nat
    BY DEF TailType, None
  <2>3. (IF FirstRow \/ Extra = 0 THEN 1 ELSE tail[ctx.id - 1].settled) \in 0..1
    BY DEF TailType
  <2> QED BY <2>1, <2>2, <2>3 DEF Handed
<1>17. CASE PutRow
  BY <1>14, <1>15, <1>16, <1>17 DEF PutRow, RowDone
<1>18. CASE PutFails
  BY <1>14, <1>15, <1>18 DEF PutFails, RowDone
<1>19. CASE AlphaFails
  BY <1>14, <1>19 DEF AlphaFails, RowDone
<1>20. CASE UNCHANGED vars
  BY <1>20 DEF vars
<1> QED
  BY <1>1, <1>2, <1>3, <1>4, <1>5, <1>6, <1>7, <1>8, <1>9, <1>10, <1>11,
     <1>12, <1>13, <1>17, <1>18, <1>19, <1>20
     DEF Next, ParserStep, FinishRowStep

(* The end of a row leaves the line in front of the next one as that row,    *)
(* unless it failed, and then no row follows.                                *)
LEMMA RowDoneRowInv ==
  ASSUME IInv, RowInv, Fixed, TypeOK', stage = "put",
         NEW good \in 0..1, RowDone(good),
         good = 1 => put' = Handed /\ tail' = Rotated,
         good = 0 => put' = put
  PROVE  Turns' /\ Lines' /\ Progress' /\ HeldBackIsSettled'
<1> USE DEF RowInv
<1>1. PICK y \in Nat, b \in Nat \ {0} :
        /\ y = ctx.mb_y /\ b = br_mb_y /\ y < b
        /\ mb_y = IF mt_method = 2 THEN y + 1 ELSE y
  BY Geometry DEF TypeOK, Turns
<1>2. /\ stage' = "none" /\ ctx' = ctx /\ cache_id' = cache_id
      /\ mt_method = 0 \/ mt_method = 2
      /\ mt_method = 0 => had_error' = had_error
      /\ good = 1 => mb_y' = y + 1 /\ had_error' = had_error
      /\ good = 0 => mb_y' = mb_y
      /\ pc' # "setup" /\ (pc' = "process" => pc = "process" /\ mb_y' = mb_y)
      /\ ok' = 0 \/ pc' \notin {"exit", "clear", "done"}
  <2>1. CASE mt_method = 0
    BY <1>1, <2>1 DEF RowDone, slotVars, config
  <2>2. CASE mt_method = 2
    <3>1. pc # "setup"
      BY <2>2 DEF IInv, Phases
    <3>2. ok = 0 \/ pc \notin {"exit", "clear", "done"}
      BY DEF Progress, TypeOK
    <3> QED BY <1>1, <2>2, <3>1, <3>2 DEF RowDone, Finish, config
  <2> QED BY <2>1, <2>2 DEF TypeOK
<1>3. good = 0 => ~Going'
  BY DEF RowDone, Finish, config, slotVars, Going, TypeOK
<1>4. Turns'
  BY <1>1, <1>2 DEF Turns, Fixed, NextCache
<1>5. CASE good = 0
  BY <1>2, <1>3, <1>4, <1>5 DEF Lines, Progress, HeldBackIsSettled, Fixed
<1>6. CASE good = 1
  <2>1. put'.to = StartOf(y + 1) /\ put'.row = y
    BY <1>1, <1>6, RowsMeet DEF Handed
  <2>2. Progress'
    <3>1. StartOf(mb_y)' = StartOf(y + 1)
      BY <1>2, <1>6 DEF StartOf, Fixed
    <3>2. mt_method' = 0 => had_error' = 0
      BY <1>2 DEF Fixed, Progress
    <3> QED BY <1>2, <1>6, <2>1, <3>1, <3>2 DEF Progress
  <2>3. HeldBackIsSettled'
    <3>1. filter_type \in 0..2 /\ (Extra = 0 <=> filter_type = 0)
      BY Geometry DEF TypeOK
    <3> QED BY <1>1, <1>6, <3>1 DEF HeldBackIsSettled, Handed, FirstRow, Lines
  <2>4. Lines'
    <3> SUFFICES ASSUME mb_y' \in 1..br_mb_y - 1
                 PROVE  tail'[cache_id - 1].row = y
      BY <1>1, <1>2, <1>6 DEF Lines, Fixed
    <3>1. tail' = Rotated /\ tail[ctx.id].row = y /\ ~LastRow
      BY <1>1, <1>2, <1>6 DEF Lines, LastRow
    <3>2. tail \in [-1..2 -> TailType] /\ ctx.id \in 0..2
      BY DEF TypeOK
    <3>3. cache_id = IF ctx.id + 1 = num_caches THEN 0 ELSE ctx.id + 1
      BY DEF Turns, NextCache
    <3> QED BY <3>1, <3>2, <3>3 DEF Rotated
  <2> QED BY <1>4, <2>2, <2>3, <2>4
<1> QED BY <1>5, <1>6

LEMMA NextRowInv == ASSUME IInv, RowInv, [Next]_vars PROVE RowInv'
<1> USE DEF RowInv
<1>1. Fixed /\ TypeOK'
  BY NextFixed, NextTypeOK
<1>2. SUFFICES Turns' /\ Lines' /\ Progress' /\ HeldBackIsSettled'
  BY <1>1
<1>3. /\ StartOf(mb_y)' = StartOf(mb_y')
      /\ StartOf(ctx.mb_y)' = StartOf(ctx'.mb_y)
  BY <1>1 DEF Fixed, StartOf
<1>4. /\ mt_method \in {0, 2} /\ mb_y \in Nat /\ ctx.mb_y \in Nat
      /\ br_mb_y \in Nat \ {0} /\ num_caches \in 1..3 /\ ctx.id \in 0..2
      /\ mt_method = 0 => num_caches = 1
      /\ ok \in 0..1 /\ had_error \in 0..1
  BY Geometry DEF TypeOK
<1>5. CASE SetupFails \/ Enter \/ InitFails
  <2>1. /\ pc = "setup" /\ pc' \in {"clear", "rows", "exit"}
        /\ pc' = "rows" \/ ok' = 0
        /\ UNCHANGED <<parser, ctx, stage, tail, put, had_error>>
    BY <1>5 DEF SetupFails, Enter, InitFails, Open, slotVars
  <2>2. stage = "none"
    BY <2>1, <1>4 DEF IInv, Phases
  <2>3. Turns' /\ HeldBackIsSettled'
    BY <1>1, <1>4, <2>1, <2>2 DEF Turns, HeldBackIsSettled, Fixed, parser
  <2>4. Going' => Going
    BY <1>1, <2>1 DEF Going, Fixed
  <2>5. Lines' /\ Progress'
    BY <1>1, <1>3, <2>1, <2>2, <2>4 DEF Lines, Progress, Fixed, parser
  <2> QED BY <2>3, <2>5
<1>6. CASE ParseRow \/ ParseFails
  <2>1. /\ pc = "rows" /\ mb_y < br_mb_y
        /\ pc' = "process" \/ (pc' = "exit" /\ ok' = 0)
        /\ UNCHANGED <<slotVars, parser, ctx, stage, tail, put>>
    BY <1>6 DEF ParseRow, ParseFails
  <2>2. Turns' /\ HeldBackIsSettled'
    BY <1>1, <1>4, <2>1
       DEF Turns, HeldBackIsSettled, Fixed, parser, slotVars, NextCache
  <2>3. Going' => Going
    BY <1>1, <2>1 DEF Going, Fixed, slotVars
  <2>4. Lines' /\ Progress'
    BY <1>1, <1>3, <2>1, <2>3 DEF Lines, Progress, Fixed, parser, slotVars
  <2> QED BY <2>2, <2>4
<1>7. CASE ProcessInline
  <2>1. /\ pc = "process" /\ mt_method = 0 /\ pc' = "inline"
        /\ stage' = "reconstruct"
        /\ ctx'.id = ctx.id /\ ctx'.mb_y = mb_y
        /\ ctx'.filter_row = FilterRowFlag
        /\ UNCHANGED <<slotVars, parser, tail, put>>
    BY <1>7 DEF ProcessInline, TypeOK
  <2>2. /\ stage = "none" /\ Going /\ ctx.id = 0 /\ cache_id = 0
        /\ mb_y < br_mb_y /\ had_error = 0
    BY <1>4, <2>1 DEF IInv, Phases, Going, Turns, Progress
  <2>3. FilterRowFlag = 1 <=> filter_type > 0
    BY <1>4, <2>2 DEF FilterRowFlag
  <2>4. Turns' /\ HeldBackIsSettled'
    BY <1>1, <1>4, <2>1, <2>2, <2>3
       DEF Turns, HeldBackIsSettled, Fixed, parser, slotVars, NextCache
  <2>5. Lines' /\ Progress'
    BY <1>1, <1>3, <1>4, <2>1, <2>2
       DEF Lines, Progress, Fixed, parser, slotVars, Going
  <2> QED BY <2>4, <2>5
<1>8. CASE Spawn
  <2>1. /\ pc = "process" /\ mt_method = 2 /\ pc' = "rows"
        /\ Synced /\ had_error = 0 /\ had_error' = had_error
        /\ stage' = "reconstruct" /\ mb_y' = mb_y + 1
        /\ ctx'.id = cache_id /\ ctx'.mb_y = mb_y
        /\ ctx'.filter_row = FilterRowFlag
        /\ cache_id' = NextCache(cache_id)
        /\ UNCHANGED <<tail, put>>
    BY <1>8 DEF Spawn, TypeOK
  <2>2. stage = "none" /\ Going /\ mb_y < br_mb_y
    BY <1>4, <2>1 DEF IInv, Phases, Going, Turns, Synced
  <2>3. FilterRowFlag = 1 <=> filter_type > 0
    BY <1>4, <2>2 DEF FilterRowFlag
  <2>4. NextCache(cache_id)' = NextCache(cache_id')
    BY <1>1 DEF NextCache, Fixed
  <2>5. NextCache(cache_id) \in 0..num_caches - 1
    BY <1>4 DEF Turns, NextCache
  <2>6. Turns' /\ HeldBackIsSettled'
    BY <1>1, <1>4, <2>1, <2>2, <2>3, <2>5
       DEF Turns, HeldBackIsSettled, Fixed, NextCache
  <2>7. Lines' /\ Progress'
    BY <1>1, <1>3, <1>4, <2>1, <2>2 DEF Lines, Progress, Fixed
  <2> QED BY <2>6, <2>7
<1>9. CASE ProcessAborts \/ LastSync \/ Exit \/ Clear
  <2>1. /\ pc' \in {"exit", "clear", "done"}
        /\ stage = "none"
        /\ UNCHANGED <<parser, ctx, stage, tail, put, had_error>>
    BY <1>4, <1>9 DEF ProcessAborts, LastSync, Exit, Clear, Close, slotVars,
                     IInv, Phases, Synced
  <2>2. ok' = 1 => had_error = 0 /\ put.to = height
    <3>1. CASE ProcessAborts
      BY <3>1 DEF ProcessAborts
    <3>2. CASE LastSync
      <4> SUFFICES ASSUME ok' = 1 PROVE had_error = 0 /\ put.to = height
        OBVIOUS
      <4>1. had_error = 0 /\ pc = "rows" /\ mb_y >= br_mb_y
        BY <1>4, <3>2 DEF LastSync, Progress
      <4>2. Going /\ mb_y = br_mb_y
        BY <1>4, <4>1 DEF Going, Turns
      <4> QED BY <1>4, <2>1, <4>1, <4>2 DEF Progress, StartOf
    <3>3. CASE Exit \/ Clear
      BY <1>4, <3>3 DEF Exit, Clear, Progress
    <3> QED BY <1>9, <3>1, <3>2, <3>3
  <2>3. Turns' /\ HeldBackIsSettled'
    BY <1>1, <1>4, <2>1 DEF Turns, HeldBackIsSettled, Fixed, parser
  <2>4. Going' => Going
    BY <1>1, <2>1 DEF Going, Fixed
  <2>5. Lines' /\ Progress'
    BY <1>1, <1>3, <2>1, <2>2, <2>4 DEF Lines, Progress, Fixed, parser
  <2> QED BY <2>3, <2>5
<1>10. CASE ReconstructRow
  <2>1. /\ stage = "reconstruct" /\ stage' = "filter"
        /\ UNCHANGED <<slotVars, pc, ok, parser, ctx, put>>
    BY <1>10 DEF ReconstructRow
  <2>2. /\ tail'[ctx.id].row = ctx.mb_y
        /\ tail'[ctx.id - 1] = tail[ctx.id - 1]
    BY <1>4, <1>10 DEF ReconstructRow, IInv, Buffers, TypeOK
  <2>3. Turns' /\ HeldBackIsSettled'
    BY <1>1, <1>4, <2>1
       DEF Turns, HeldBackIsSettled, Fixed, parser, slotVars, NextCache
  <2>4. Lines' /\ Progress'
    BY <1>1, <1>3, <1>4, <2>1, <2>2
       DEF Lines, Progress, Fixed, parser, slotVars
  <2> QED BY <2>3, <2>4
<1>11. CASE FilterRow
  <2>1. /\ stage = "filter" /\ stage' = "put"
        /\ UNCHANGED <<slotVars, pc, ok, parser, ctx, put>>
    BY <1>11 DEF FilterRow
  <2>2. /\ tail'[ctx.id] = tail[ctx.id]
        /\ tail'[ctx.id - 1].row = tail[ctx.id - 1].row
        /\ ctx.mb_y > 0 /\ filter_type > 0 => tail'[ctx.id - 1].settled = 1
    <3>1. PICK i \in 0..2 : i = ctx.id
      BY <1>4
    <3>2. tail[i - 1] \in TailType
      BY DEF TypeOK
    <3>3. CASE ctx.filter_row = 1 /\ ~FirstRow
      <4>1. tail' = [tail EXCEPT ![i - 1] = [tail[i - 1] EXCEPT !.settled = 1]]
        BY <1>11, <3>1, <3>3 DEF FilterRow
      <4>2. /\ tail'[i - 1] = [tail[i - 1] EXCEPT !.settled = 1]
            /\ tail'[i] = tail[i]
        BY <4>1 DEF TypeOK
      <4> QED BY <3>1, <3>2, <4>2 DEF TailType
    <3>4. CASE ~(ctx.filter_row = 1 /\ ~FirstRow)
      BY <1>4, <1>11, <2>1, <3>4 DEF FilterRow, FirstRow, Turns
    <3> QED BY <3>3, <3>4
  <2>3. Turns' /\ HeldBackIsSettled'
    BY <1>1, <1>4, <2>1
       DEF Turns, HeldBackIsSettled, Fixed, parser, slotVars, NextCache
  <2>4. Lines' /\ Progress'
    BY <1>1, <1>3, <1>4, <2>1, <2>2
       DEF Lines, Progress, Fixed, parser, slotVars
  <2> QED BY <2>3, <2>4
<1>12. CASE PutRow \/ PutFails \/ AlphaFails
  BY <1>1, <1>12, RowDoneRowInv DEF PutRow, PutFails, AlphaFails
<1>13. CASE UNCHANGED vars
  <2>1. UNCHANGED <<slotVars, pc, ok, parser, ctx, stage, tail, put>>
    BY <1>13 DEF vars
  <2> QED
    BY <1>1, <1>3, <2>1
       DEF Turns, Lines, Progress, HeldBackIsSettled, Fixed, parser, slotVars,
           NextCache, Going
<1> QED
  BY <1>5, <1>6, <1>7, <1>8, <1>9, <1>10, <1>11, <1>12, <1>13
     DEF Next, ParserStep, FinishRowStep

(* Whatever the height, the filter and the number of threads: each piece     *)
(* that the caller is handed holds the rows it says, those held back          *)
(* filtered, and a picture that is reported as decoded was handed out whole. *)
THEOREM PictureIsWhole == Spec => []RowsAreWhole
<1>1. RowInv => RowsAreWhole
  <2> HAVE RowInv
  <2>1. DecodedIsComplete
    BY DEF RowInv, Progress, DecodedIsComplete
  <2> QED BY <2>1 DEF RowInv, RowsAreWhole
<1> QED
  BY <1>1, InitIInv, NextIInv, InitRowInv, NextRowInv, PTL DEF Spec

(* The pieces follow each other without a gap and without an overlap, also   *)
(* where a row of the picture waits for the filter of the next.              *)
THEOREM PiecesMeet == Spec => RowsAreContiguous
<1>1. ASSUME RowInv, [Next]_vars PROVE [put' # put => put'.from = put.to]_vars
  <2> SUFFICES ASSUME Next, put' # put PROVE put'.from = put.to
    BY <1>1
  <2>1. stage = "put" /\ put' = Handed
    BY DEF Next, ParserStep, FinishRowStep, SetupFails, Enter, InitFails,
           ParseRow, ParseFails, ProcessInline, Spawn, ProcessAborts,
           LastSync, Exit, Clear, ReconstructRow, FilterRow, PutRow, PutFails,
           AlphaFails
  <2>2. put'.from = StartOf(ctx.mb_y)
    BY <1>1, <2>1, RowsMeet DEF RowInv, Turns, Handed
  <2> QED BY <1>1, <2>1, <2>2 DEF RowInv, Progress
<1> QED
  BY <1>1, InitIInv, NextIInv, InitRowInv, NextRowInv, PTL
     DEF Spec, RowsAreContiguous

=============================================================================
