--------------------------- MODULE FramePipeline ---------------------------
(* The lossy decoder of libwebp (VP8Decode in src/dec/vp8_dec.c, the rows   *)
(* in src/dec/frame_dec.c).  The caller's thread parses the macroblock rows *)
(* one after the other; each is reconstructed, filtered and handed to the   *)
(* caller by FinishRow, which runs in a WebPWorker (a JobSlot) when the     *)
(* picture is wide (mt_method 2) and in the same thread otherwise (0).      *)
(* Two buffers of parsed macroblocks, and two of filter strengths, are      *)
(* swapped between the threads.  The deblocking filter of a row changes the *)
(* bottom pixels of the row above, so these leave the cache one row late;   *)
(* "tail" is the bottom of a row, kFilterExtraRows high, in a cache line.   *)
EXTENDS JobSlot

CONSTANT Heights        \* the heights a picture may have, in pixels

VARIABLES mt_method, filter_type, height,  \* of this picture
          pc,           \* where the parsing thread is
          ok,           \* its verdict so far
          mb_y, cache_id, mb_data, f_info, \* the parsing thread's own
          ctx,          \* dec->thread_ctx: what FinishRow works on
          parsed,       \* the row whose macroblocks each mb_data holds
          strengths,    \* the row whose strengths each f_info holds
          stage,        \* how far FinishRow is
          tail,         \* what the bottoms of the cache lines hold
          put,          \* the last rows handed to the caller
          torn_down     \* io->teardown() has been called

config == <<mt_method, filter_type, height>>
parser == <<mb_y, cache_id, mb_data, f_info>>
vars == <<slotVars, config, pc, ok, parser, ctx, parsed, strengths, stage,
          tail, put, torn_down>>

ASSUME HeightsAssumption == Heights \subseteq Nat \ {0}

None == -1              \* no row

kFilterExtraRows == [t \in 0..2 |-> CASE t = 0 -> 0 [] t = 1 -> 2 [] t = 2 -> 8]
Extra == kFilterExtraRows[filter_type]

mb_h == (height + 15) \div 16
br_mb_y == LET rows == (height + 15 + Extra) \div 16
           IN IF rows > mb_h THEN mb_h ELSE rows

num_caches == IF mt_method = 0 THEN 1 ELSE IF filter_type > 0 THEN 3 ELSE 2

(* The bottom of cache line i is followed by line i + 1 in memory; -1 is    *)
(* the room in front of the cache.                                          *)
TailType == [row: {None} \union Nat, settled: 0..1]
NoTail == [row |-> None, settled |-> 0]

-----------------------------------------------------------------------------
(* VP8Decode up to the headers; a new decoder has no worker thread yet.     *)
Init == /\ SlotInit
        /\ mt_method \in {0, 2} /\ filter_type \in 0..2 /\ height \in Heights
        /\ pc = "setup" /\ ok = 1
        /\ mb_y = 0 /\ cache_id = 0 /\ mb_data = 0 /\ f_info = 0
        /\ ctx = [id |-> 0, mb_y |-> 0, filter_row |-> 0,
                  mb_data |-> IF mt_method = 2 THEN 1 ELSE 0,
                  f_info |-> IF filter_type > 0 /\ mt_method > 0
                             THEN 1 ELSE 0]
        /\ parsed = [b \in 0..1 |-> None] /\ strengths = [b \in 0..1 |-> None]
        /\ stage = "none"
        /\ tail = [i \in -1..2 |-> NoTail]
        /\ put = [row |-> 0, from |-> 0, to |-> 0, above |-> None,
                  settled |-> 1]
        /\ torn_down = 0

(* io->setup() of the caller fails: nothing to tear down.                   *)
SetupFails ==
  /\ pc = "setup"
  /\ pc' = "clear" /\ ok' = 0
  /\ UNCHANGED <<slotVars, config, parser, ctx, parsed, strengths, stage,
                 tail, put, torn_down>>

(* VP8EnterCritical and VP8InitFrame, which brings the worker up.           *)
Enter ==
  /\ pc = "setup"
  /\ IF mt_method > 0 THEN Open ELSE UNCHANGED slotVars
  /\ pc' = "rows"
  /\ UNCHANGED <<config, ok, parser, ctx, parsed, strengths, stage, tail, put,
                 torn_down>>

(* The thread does not come up, or there is no memory; the worker stays.    *)
InitFails ==
  /\ pc = "setup"
  /\ \/ mt_method > 0 /\ Open
     \/ UNCHANGED slotVars
  /\ pc' = "exit" /\ ok' = 0
  /\ UNCHANGED <<config, parser, ctx, parsed, strengths, stage, tail, put,
                 torn_down>>

-----------------------------------------------------------------------------
(* ParseFrame: the macroblocks of a row, with their filter strengths, go to *)
(* the buffers of the parsing thread.                                       *)
ParseRow ==
  /\ pc = "rows" /\ mb_y < br_mb_y
  /\ parsed' = [parsed EXCEPT ![mb_data] = mb_y]
  /\ strengths' = IF filter_type > 0
                  THEN [strengths EXCEPT ![f_info] = mb_y] ELSE strengths
  /\ pc' = "process"
  /\ UNCHANGED <<slotVars, config, ok, parser, ctx, stage, tail, put,
                 torn_down>>

(* The file ends early, maybe amid a row, maybe while a job is running.     *)
ParseFails ==
  /\ pc = "rows" /\ mb_y < br_mb_y
  /\ \/ UNCHANGED <<parsed, strengths>>
     \/ /\ parsed' = [parsed EXCEPT ![mb_data] = None]
        /\ strengths' = IF filter_type > 0
                        THEN [strengths EXCEPT ![f_info] = None] ELSE strengths
  /\ pc' = "exit" /\ ok' = 0
  /\ UNCHANGED <<slotVars, config, parser, ctx, stage, tail, put, torn_down>>

FilterRowFlag ==
  IF filter_type > 0 /\ mb_y <= br_mb_y THEN 1 ELSE 0

(* VP8ProcessRow in one thread: the row is finished before the next.        *)
ProcessInline ==
  /\ pc = "process" /\ mt_method = 0
  /\ ctx' = [ctx EXCEPT !.mb_y = mb_y, !.filter_row = FilterRowFlag]
  /\ stage' = "reconstruct" /\ pc' = "inline"
  /\ UNCHANGED <<slotVars, config, ok, parser, parsed, strengths, tail, put,
                 torn_down>>

(* The cache lines are used in turn.                                        *)
NextCache(id) == IF id + 1 = num_caches THEN 0 ELSE id + 1

\* The slip of not waiting.
NotSynced == TRUE

(* VP8ProcessRow with a worker: Sync(), which waits for the job before,     *)
(* then the buffers are swapped and the job is launched.                    *)
Synced == slot # "WORK"

\* The slip of swapping the macroblocks and not the filter strengths.
SpawnSwapsHalf ==
  /\ pc = "process" /\ mt_method = 2
  /\ Synced /\ had_error = 0
  /\ ctx' = [id |-> cache_id, mb_y |-> mb_y, filter_row |-> FilterRowFlag,
             mb_data |-> mb_data, f_info |-> ctx.f_info]
  /\ mb_data' = ctx.mb_data
  /\ slot' = "WORK" /\ given' = given + 1 /\ UNCHANGED <<ran, had_error>>
  /\ stage' = "reconstruct"
  /\ cache_id' = NextCache(cache_id)
  /\ mb_y' = mb_y + 1 /\ pc' = "rows"
  /\ UNCHANGED <<config, ok, f_info, parsed, strengths, tail, put, torn_down>>

Spawn ==
  /\ pc = "process" /\ mt_method = 2
  /\ Synced /\ had_error = 0
  /\ ctx' = [id |-> cache_id, mb_y |-> mb_y, filter_row |-> FilterRowFlag,
             mb_data |-> mb_data,
             f_info |-> IF FilterRowFlag = 1 THEN f_info ELSE ctx.f_info]
  /\ mb_data' = ctx.mb_data
  /\ f_info' = IF FilterRowFlag = 1 THEN ctx.f_info ELSE f_info
  /\ slot' = "WORK" /\ given' = given + 1 /\ UNCHANGED <<ran, had_error>>
  /\ stage' = "reconstruct"
  /\ cache_id' = NextCache(cache_id)
  /\ mb_y' = mb_y + 1 /\ pc' = "rows"
  /\ UNCHANGED <<config, ok, parsed, strengths, tail, put, torn_down>>

(* The job before failed: "Output aborted."                                 *)
ProcessAborts ==
  /\ pc = "process" /\ mt_method = 2
  /\ Synced /\ had_error = 1
  /\ pc' = "exit" /\ ok' = 0
  /\ UNCHANGED <<slotVars, config, parser, ctx, parsed, strengths, stage,
                 tail, put, torn_down>>

(* After the last row the parser waits for its job and asks how it went.    *)
LastSync ==
  /\ pc = "rows" /\ mb_y >= br_mb_y
  /\ mt_method > 0 => Synced
  /\ ok' = IF mt_method > 0 /\ had_error = 1 THEN 0 ELSE ok
  /\ pc' = "exit"
  /\ UNCHANGED <<slotVars, config, parser, ctx, parsed, strengths, stage,
                 tail, put, torn_down>>

(* VP8ExitCritical: whatever happened, the job is over before the teardown. *)
Exit ==
  /\ pc = "exit"
  /\ mt_method > 0 => Synced
  /\ ok' = IF mt_method > 0 /\ had_error = 1 THEN 0 ELSE ok
  /\ torn_down' = 1 /\ pc' = "clear"
  /\ UNCHANGED <<slotVars, config, parser, ctx, parsed, strengths, stage,
                 tail, put>>

(* VP8Clear, at once after a failure or with VP8Delete: End().              *)
Clear ==
  /\ pc = "clear"
  /\ \/ Close
     \/ slot = "NOT_OK" /\ UNCHANGED slotVars
  /\ pc' = "done"
  /\ UNCHANGED <<config, ok, parser, ctx, parsed, strengths, stage, tail, put,
                 torn_down>>

-----------------------------------------------------------------------------
(* FinishRow, in the worker's thread or in the parser's.                    *)
FirstRow == ctx.mb_y = 0
LastRow == ctx.mb_y >= br_mb_y - 1

ReconstructRow ==
  /\ stage = "reconstruct"
  /\ tail' = [tail EXCEPT ![ctx.id] =
                 [row |-> parsed[ctx.mb_data], settled |-> 0]]
  /\ stage' = "filter"
  /\ UNCHANGED <<slotVars, config, pc, ok, parser, ctx, parsed, strengths,
                 put, torn_down>>

(* The horizontal edge of the row above is in front of this cache line.     *)
FilterRow ==
  /\ stage = "filter"
  /\ tail' = IF ctx.filter_row = 1 /\ ~FirstRow
             THEN [tail EXCEPT ![ctx.id - 1].settled = 1] ELSE tail
  /\ stage' = "put"
  /\ UNCHANGED <<slotVars, config, pc, ok, parser, ctx, parsed, strengths,
                 put, torn_down>>

YStart == IF FirstRow THEN 0 ELSE 16 * ctx.mb_y - Extra

\* The slip of handing out the bottom of a row before it is settled.
YEndTooFar == LET end == 16 * (ctx.mb_y + 1)
              IN IF end > height THEN height ELSE end

YEnd == LET end == IF LastRow THEN 16 * (ctx.mb_y + 1)
                   ELSE 16 * (ctx.mb_y + 1) - Extra
        IN IF end > height THEN height ELSE end

(* io->put() takes the pixels from YStart on: the first Extra of them come  *)
(* from the bottom of the line in front.                                    *)
Handed == [row |-> ctx.mb_y, from |-> YStart, to |-> YEnd,
           above |-> IF FirstRow \/ Extra = 0 THEN ctx.mb_y - 1
                     ELSE tail[ctx.id - 1].row,
           settled |-> IF FirstRow \/ Extra = 0 THEN 1
                       ELSE tail[ctx.id - 1].settled]

\* The slip of rotating the line in front instead of the last one.
RotatedTooSoon == IF ctx.id = 0 /\ ~LastRow
                  THEN [tail EXCEPT ![-1] = tail[ctx.id]] ELSE tail

Rotated == IF ctx.id + 1 = num_caches /\ ~LastRow
           THEN [tail EXCEPT ![-1] = tail[ctx.id]] ELSE tail

\* The slip of an error path that leaves the job unfinished.
RowDoneIfGood(good) ==
  /\ stage' = "none"
  /\ IF mt_method = 0
     THEN /\ IF good = 1 THEN pc' = "rows" /\ mb_y' = mb_y + 1 /\ UNCHANGED ok
             ELSE pc' = "exit" /\ ok' = 0 /\ UNCHANGED mb_y
          /\ UNCHANGED slotVars
     ELSE /\ IF good = 1 THEN Finish /\ UNCHANGED had_error
             ELSE UNCHANGED slotVars
          /\ UNCHANGED <<pc, ok, mb_y>>
  /\ UNCHANGED <<config, cache_id, mb_data, f_info, ctx, parsed, strengths,
                 torn_down>>

(* The job is over: the worker hands its verdict to the next Sync(); inline *)
(* the parser has it at once.                                               *)
RowDone(good) ==
  /\ stage' = "none"
  /\ IF mt_method = 0
     THEN /\ IF good = 1 THEN pc' = "rows" /\ mb_y' = mb_y + 1 /\ UNCHANGED ok
             ELSE pc' = "exit" /\ ok' = 0 /\ UNCHANGED mb_y
          /\ UNCHANGED slotVars
     ELSE /\ Finish /\ had_error' = (IF good = 1 THEN had_error ELSE 1)
          /\ UNCHANGED <<pc, ok, mb_y>>
  /\ UNCHANGED <<config, cache_id, mb_data, f_info, ctx, parsed, strengths,
                 torn_down>>

PutRow ==
  /\ stage = "put"
  /\ put' = Handed /\ tail' = Rotated
  /\ RowDone(1)

(* io->put() refuses the rows; the cache is rotated all the same.           *)
PutFails ==
  /\ stage = "put"
  /\ tail' = Rotated /\ UNCHANGED put
  /\ RowDone(0)

(* The alpha plane of these rows is broken: FinishRow returns early.        *)
AlphaFails ==
  /\ stage = "put"
  /\ UNCHANGED <<put, tail>>
  /\ RowDone(0)

-----------------------------------------------------------------------------
ParserStep == \/ SetupFails \/ Enter \/ InitFails \/ ParseRow \/ ParseFails
              \/ ProcessInline \/ Spawn \/ ProcessAborts \/ LastSync \/ Exit
              \/ Clear

FinishRowStep == ReconstructRow \/ FilterRow \/ PutRow \/ PutFails
                 \/ AlphaFails

Next == ParserStep \/ FinishRowStep

Spec == Init /\ [][Next]_vars

(* A thread that can go on does; the worker of the slot runs its job.       *)
FairSpec == Spec /\ WF_vars(ParserStep) /\ WF_vars(FinishRowStep)

-----------------------------------------------------------------------------
(* Every variable keeps its type.                                           *)
TypeOK ==
  /\ slot \in {"NOT_OK", "OK", "WORK"} /\ given \in Nat /\ ran \in Nat
  /\ had_error \in 0..1
  /\ mt_method \in {0, 2} /\ filter_type \in 0..2 /\ height \in Heights
  /\ pc \in {"setup", "rows", "process", "inline", "exit", "clear", "done"}
  /\ ok \in 0..1 /\ torn_down \in 0..1
  /\ mb_y \in Nat /\ cache_id \in 0..2 /\ mb_data \in 0..1 /\ f_info \in 0..1
  /\ ctx \in [id: 0..2, mb_y: Nat, filter_row: 0..1, mb_data: 0..1,
              f_info: 0..1]
  /\ parsed \in [0..1 -> {None} \union Nat]
  /\ strengths \in [0..1 -> {None} \union Nat]
  /\ stage \in {"none", "reconstruct", "filter", "put"}
  /\ tail \in [-1..2 -> TailType]
  /\ put \in [row: Nat, from: Nat, to: Nat, above: {None} \union Nat,
              settled: 0..1]

(* While a job runs, parsing and the job touch different buffers, and those *)
(* of the job hold the row it was launched for.                             *)
JobHasItsRow ==
  stage # "none" =>
    /\ parsed[ctx.mb_data] = ctx.mb_y
    /\ ctx.filter_row = 1 => strengths[ctx.f_info] = ctx.mb_y
    /\ slot = "WORK" => /\ ctx.mb_data # mb_data
                        /\ ctx.filter_row = 1 => ctx.f_info # f_info

(* The rows the caller is handed follow each other without gap or overlap:  *)
(* not one pixel row is lost where two macroblock rows meet.                *)
RowsAreContiguous == [][put' # put => put'.from = put.to]_vars

(* The pixels that were held back are, when they are handed out, those of   *)
(* the row above, and filtered on both sides: the cache rotates in time.    *)
HeldBackIsSettled == put.settled = 1 /\ put.above = put.row - 1

(* A picture that is reported as decoded is complete, and every failure, in *)
(* whichever thread, comes out.                                             *)
DecodedIsComplete == pc = "done" /\ ok = 1 => put.to = height /\ had_error = 0

(* The caller's output is torn down when no job can write to it any more.   *)
TornDownIsQuiet == torn_down = 1 => stage = "none" /\ slot # "WORK"

(* A job works on what is its own, and only while it may: JobHasItsRow for  *)
(* its buffers, TornDownIsQuiet for the output of the caller.               *)
JobsAreApart == JobHasItsRow /\ TornDownIsQuiet

(* What is handed out is what the picture is made of: HeldBackIsSettled for *)
(* each piece, DecodedIsComplete for all of them; and every index is in its *)
(* range: TypeOK.                                                           *)
RowsAreWhole == TypeOK /\ HeldBackIsSettled /\ DecodedIsComplete

(* The decoder uses its worker as a slot for one job, in its order.         *)
UsesSlot == SlotSpec

(* Decoding ends, in success or failure, and no thread waits for ever.      *)
DecodeEnds == <>(pc = "done" /\ slot = "NOT_OK")
=============================================================================
