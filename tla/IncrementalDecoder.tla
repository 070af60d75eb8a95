------------------------ MODULE IncrementalDecoder ------------------------
(* WebPIDecoder: libwebp's src/dec/idec_dec.c, with what it calls.  A file  *)
(* comes in pieces, copied by WebPIAppend or in the caller's own growing    *)
(* buffer by WebPIUpdate; every call decodes what it can and comes back to  *)
(* what it could not.  Meanwhile the bytes move: addresses are integers,    *)
(* and each reader is a pointer that has to move with them.  A byte is a    *)
(* position in the file; what a unit of work costs is given by the file.    *)
EXTENDS Integers, Sequences, FiniteSets

CONSTANTS Files,             \* the layouts of the files
          Callers,           \* options the decoder is created with
          Bases,             \* addresses the allocator gives, and the caller has
          Part0Base,         \* that of the copy of partition #0
          ChunkSize,         \* CHUNK_SIZE
          FrameHeaderSize,   \* VP8_FRAME_HEADER_SIZE
          MaxMbSize,         \* MAX_MB_SIZE
          SyncEveryNRows,    \* SYNC_EVERY_N_ROWS
          NumArgbCacheRows,  \* NUM_ARGB_CACHE_ROWS
          Faults             \* what goes wrong in a call, "none" among them

Null == 0

VARIABLES file,    \* the file that comes in
          caller,  \* threads, a slow output, the bottom of the cropped window
          given,   \* bytes of the file handed in so far
          idec,    \* the decoder
          ret      \* what the last call returned

vars == <<file, caller, given, idec, ret>>

-----------------------------------------------------------------------------
\* The file.

Total(g, n) == LET sum[i \in 0..n] == IF i = 0 THEN 0 ELSE sum[i - 1] + g[i]
               IN sum[n]

(* Lossy: headers, alpha, frame header, partition #0, the sizes of the      *)
(* partitions, the partitions.  Row y, whose macroblocks take cost[y + 1]   *)
(* bytes each, is in the partition y % parts.                               *)
IsLossy == file.kind = "lossy"
AlphaAt == file.payload - 1 - file.alpha
Part0At == file.payload + FrameHeaderSize
PartsAt == Part0At + file.part0 + file.parts - 1
MbH == Len(file.cost)

InPart(p) == [y \in 1..MbH |-> IF (y - 1) % file.parts = p
                               THEN file.mb_w * file.cost[y] ELSE 0]
PartSize(p) == Total(InPart(p), MbH)
PartAt(p) == PartsAt + Total([q \in 1..p |-> PartSize(q - 1)], p)

(* Where partition p is read when y rows and x macroblocks are decoded.     *)
MbAt(p, y, x) ==
  PartAt(p) + Total(InPart(p), y)
    + IF y < MbH /\ y % file.parts = p THEN x * file.cost[y + 1] ELSE 0

(* Lossless: headers, then symbols; a symbol is a pixel or a copy of many,  *)
(* here with the rows that it completes.                                    *)
Costs == [i \in DOMAIN file.symbols |-> file.symbols[i].cost]
RowsOf == [i \in DOMAIN file.symbols |-> file.symbols[i].rows]
SymbolAt(i) == file.head + Total(Costs, i)
RowAt(i) == Total(RowsOf, i)

(* A file has room for what its headers say of it, and a lossless one for   *)
(* the rows that are asked for.  The last partition of a lossy one is not   *)
(* empty: ParsePartitions would wait for it (vp8_dec.c:241).                *)
(* SYNC_EVERY_N_ROWS is half of NUM_ARGB_CACHE_ROWS.                        *)
LossyFile ==
  [kind: {"lossy"}, alpha: Nat, levels: BOOLEAN, payload: Nat, part0: Nat,
   intro: Nat, mb_w: Nat \ {0}, parts: Nat \ {0}, cost: Seq(Nat)]

LosslessFile ==
  [kind: {"lossless"}, payload: Nat, head: Nat, symbols: Seq([cost: Nat, rows: Nat])]

ASSUME FileAssumption ==
  /\ Files \subseteq LossyFile \union LosslessFile
  /\ \A f \in Files :
       IF f.kind = "lossy"
       THEN /\ f.alpha < f.payload /\ f.intro <= f.part0
            /\ \E y \in DOMAIN f.cost : /\ f.cost[y] > 0
                                      /\ (y - 1) % f.parts = f.parts - 1
       ELSE /\ f.head >= FrameHeaderSize
            /\ \A c \in Callers :
                 c.crop_bottom <= Total([n \in DOMAIN f.symbols |-> f.symbols[n].rows],
                                        Len(f.symbols))

ASSUME DecoderAssumption ==
  /\ Bases \subseteq Nat \ {Null} /\ Part0Base \in Nat
  /\ ChunkSize \in Nat \ {0} /\ FrameHeaderSize \in Nat \ {0}
  /\ SyncEveryNRows \in Nat \ {0} /\ NumArgbCacheRows \in Nat
  /\ SyncEveryNRows <= NumArgbCacheRows
  /\ Callers \subseteq [threads: BOOLEAN, slow: BOOLEAN, crop_bottom: Nat \ {0}]

FileSize == IF IsLossy THEN PartAt(file.parts)
            ELSE file.payload + SymbolAt(Len(file.symbols))
ChunkBytes == FileSize - file.payload   \* idec->chunk_size
Height == IF IsLossy THEN MbH ELSE caller.crop_bottom

-----------------------------------------------------------------------------
\* The decoder.

Reader(buf, end) == [buf |-> buf, end |-> end]
NoReader == Reader(Null, Null)
NoJob == -1

NewDecoder ==
  [state |-> "webp_header", status |-> "SUSPENDED", fault |-> "none",
   mode |-> "none", buf |-> Null, buf_size |-> 0, start |-> 0, end |-> 0,
   first |-> 0,                      \* position in the file of buf[0]
   part0_size |-> 0, part0_buf |-> Null, io_data |-> Null, io_size |-> 0,
   dec |-> "none", output |-> "none", slow |-> caller.slow, set_up |-> 0,
   br |-> NoReader, parts |-> <<>>, alpha_data |-> Null,
   alpha_reader |-> Null, is_alpha_decoded |-> FALSE,
   mb_x |-> 0, mb_y |-> 0, last_mb_y |-> -1, job |-> NoJob,
   had_error |-> FALSE, last_y |-> 0,
   vp8l |-> [buf |-> Null, len |-> 0, pos |-> 0], incremental |-> FALSE,
   last_pixel |-> 0, saved_pos |-> 0, saved_last_pixel |-> 0,
   next_sync_row |-> 0, last_row |-> 0, num_rows |-> 0]

MemDataSize(i) == i.end - i.start

NeedCompressedAlpha(i) ==
  /\ i.state # "webp_header" /\ i.dec = "lossy"
  /\ i.alpha_data # Null /\ ~i.is_alpha_decoded

RemapBitReader(r, offset) ==
  IF r.buf = Null THEN r ELSE Reader(r.buf + offset, r.end + offset)

(* Partition #0 stays where it is if it was copied; the last partition ends *)
(* where the data does.                                                     *)
RemapParts(i, offset) ==
  LET Moved(r) == RemapBitReader(r, offset)
      j == [i EXCEPT !.parts = [p \in DOMAIN @ |-> Moved(@[p])],
                     !.br = IF i.mode = "map" THEN Moved(@) ELSE @]
  IN IF j.parts = <<>> THEN j
     ELSE [j EXCEPT !.parts[Len(j.parts)].end = i.buf + i.end]

RemapAlpha(i, offset) ==
  IF ~NeedCompressedAlpha(i) THEN i
  ELSE [i EXCEPT !.alpha_data = @ + offset,
                 !.alpha_reader = IF @ = Null THEN Null
                                  ELSE i.alpha_data + offset + 1]

DoRemap(i, offset) ==
  LET j == [i EXCEPT !.io_data = i.buf + i.start, !.io_size = MemDataSize(i)]
  IN CASE j.dec = "none" -> j
       [] j.dec = "lossy" -> RemapAlpha(RemapParts(j, offset), offset)
       [] j.dec = "lossless" -> [j EXCEPT !.vp8l.buf = j.io_data,
                                          !.vp8l.len = j.io_size]

\* The slip of rounding the other way.
RoundedDown(n) == (n \div ChunkSize) * ChunkSize

RoundedUp(n) == ((n + ChunkSize - 1) \div ChunkSize) * ChunkSize

(* A larger buffer at base, with what is still needed of the old one.       *)
Grown(i, base, n) ==
  LET old_start == IF i.buf = Null THEN Null ELSE i.buf + i.start
      old_base == IF NeedCompressedAlpha(i) THEN i.alpha_data ELSE old_start
      new_mem_start == old_start - old_base
      current_size == MemDataSize(i) + new_mem_start
  IN [i EXCEPT !.buf = base, !.buf_size = RoundedUp(current_size + n),
               !.start = new_mem_start, !.end = current_size,
               !.first = @ + old_base - i.buf]

AppendToMemBuffer(i, base, n) ==
  LET old_start == IF i.buf = Null THEN Null ELSE i.buf + i.start
      g == IF i.end + n > i.buf_size THEN Grown(i, base, n) ELSE i
      j == [g EXCEPT !.end = @ + n]
  IN DoRemap(j, j.buf + j.start - old_start)

RemapMemBuffer(i, base, n) ==
  LET old_start == IF i.buf = Null THEN Null ELSE i.buf + i.start
      j == [i EXCEPT !.buf = base, !.end = n, !.buf_size = n]
  IN DoRemap(j, j.buf + j.start - old_start)

-----------------------------------------------------------------------------
\* Leaving the decoder.

(* FinishRow, in the call or in the worker: alpha is decoded up to the row, *)
(* or all at once where its levels were quantized.                          *)
FinishRow(i, y) ==
  IF i.fault = "put" THEN [i EXCEPT !.had_error = TRUE]
  ELSE LET done == y + 1 = MbH \/ file.levels
           decodes == i.alpha_data # Null /\ ~i.is_alpha_decoded
       IN [i EXCEPT !.last_y = y + 1,
                    !.is_alpha_decoded = @ \/ (decodes /\ done),
                    !.alpha_reader = IF ~decodes THEN @
                                     ELSE IF done THEN Null
                                     ELSE i.alpha_data + 1]

Sync(i) == IF i.job = NoJob THEN i ELSE [FinishRow(i, i.job) EXCEPT !.job = NoJob]

VP8ExitCritical(i) == [Sync(i) EXCEPT !.set_up = @ - 1]

IDecError(i, error) ==
  LET j == IF i.state = "vp8_data" THEN VP8ExitCritical(i) ELSE i
  IN [j EXCEPT !.state = "error", !.status = error]

Suspended(i) == [i EXCEPT !.status = "SUSPENDED"]

FinishDecoding(i) ==
  LET j == [i EXCEPT !.state = "done", !.status = "OK"]
  IN IF ~i.slow THEN j
     ELSE IF i.fault = "copy"
     THEN [j EXCEPT !.status = "INVALID_PARAM", !.output = "none"]
     ELSE [j EXCEPT !.slow = FALSE]

ChangeState(i, new_state, consumed_bytes) ==
  [i EXCEPT !.state = new_state, !.status = "OK", !.start = @ + consumed_bytes,
            !.io_data = i.buf + i.start + consumed_bytes,
            !.io_size = MemDataSize(i) - consumed_bytes]

-----------------------------------------------------------------------------
\* The headers.

(* WebPParseHeaders wants the whole of the alpha, and the dimensions.       *)
DecodeWebPHeaders(i) ==
  CASE i.fault = "headers" -> IDecError(i, "BITSTREAM_ERROR")
    [] i.fault # "headers" /\ MemDataSize(i) < file.payload + FrameHeaderSize ->
         Suspended(i)
    [] OTHER ->
         IF i.fault = "new" THEN [i EXCEPT !.status = "OUT_OF_MEMORY"]
         ELSE IF IsLossy
         THEN ChangeState([i EXCEPT !.dec = "lossy",
                             !.alpha_data = IF file.alpha = 0 THEN Null
                                            ELSE i.buf + i.start + AlphaAt],
                          "vp8_header", file.payload)
         ELSE ChangeState([i EXCEPT !.dec = "lossless"], "vp8l_header",
                          file.payload)

DecodeVP8FrameHeader(i) ==
  IF MemDataSize(i) < FrameHeaderSize THEN Suspended(i)
  ELSE IF i.fault = "frame" THEN IDecError(i, "BITSTREAM_ERROR")
  ELSE [i EXCEPT !.part0_size = file.part0 + FrameHeaderSize,
                 !.io_data = i.buf + i.start, !.io_size = MemDataSize(i),
                 !.state = "vp8_parts0", !.status = "OK"]

(* VP8GetHeaders reads the beginning of partition #0, and ParsePartitions   *)
(* finds the others: all of them but the last have to be there.             *)
Partition0(i) ==
  LET at == i.io_data + FrameHeaderSize
  IN [i EXCEPT !.br = Reader(at + file.intro, at + file.part0)]

ParsePartitions(i) ==
  LET buf_end == i.io_data + i.io_size
      Bounded(a) == IF a > buf_end THEN buf_end ELSE a
      Start(p) == Bounded(i.io_data + PartAt(p) - file.payload)
  IN [i EXCEPT !.parts = [p \in 1..file.parts |->
        Reader(Start(p - 1), IF p < file.parts THEN Start(p) ELSE buf_end)]]

PartitionsAreThere(i) == file.payload + i.io_size > PartAt(file.parts - 1)

SizesAreThere(i) == file.payload + i.io_size >= PartsAt

(* CopyParts0Data, and the preparations up to VP8InitFrame.                 *)
EnterData(i) ==
  LET part_size == i.br.end - i.br.buf
      copied == [i EXCEPT
        !.part0_buf = IF i.mode = "append" THEN Part0Base ELSE Null,
        !.br = IF i.mode = "append"
               THEN Reader(Part0Base, Part0Base + part_size) ELSE @,
        !.start = @ + part_size]
      entered == [copied EXCEPT !.set_up = @ + 1, !.state = "vp8_data"]
  IN CASE part_size = 0 -> IDecError(i, "BITSTREAM_ERROR")
       [] part_size > 0 /\ i.fault = "part0" /\ i.mode = "append" ->
            IDecError(i, "OUT_OF_MEMORY")
       [] OTHER ->
            IF i.fault = "setup" THEN IDecError(copied, "USER_ABORT")
            ELSE IF i.fault = "init" THEN IDecError(entered, "OUT_OF_MEMORY")
            ELSE [entered EXCEPT !.status = "OK"]

DecodePartition0(i) ==
  IF MemDataSize(i) < i.part0_size THEN Suspended(i)
  ELSE IF i.fault = "frame" THEN IDecError(i, "BITSTREAM_ERROR")
  ELSE IF ~SizesAreThere(i) THEN Suspended(Partition0(i))
  ELSE LET j == ParsePartitions(Partition0(i))
       IN IF ~PartitionsAreThere(i) THEN Suspended(j)
          ELSE IF i.fault = "output" THEN IDecError(j, "OUT_OF_MEMORY")
          ELSE EnterData([j EXCEPT !.output = "set"])

(* The lossless header is read anew until it is all there.                  *)
DecodeVP8LHeader(i) ==
  LET whole == MemDataSize(i) >= ChunkBytes
  IN CASE MemDataSize(i) < ChunkBytes \div 8 -> Suspended(i)
       [] MemDataSize(i) >= ChunkBytes \div 8
            /\ (i.fault = "frame" \/ MemDataSize(i) < file.head) ->
            IF whole THEN IDecError(i, "BITSTREAM_ERROR") ELSE Suspended(i)
       [] OTHER ->
            LET j == [i EXCEPT !.vp8l = [buf |-> i.io_data, len |-> i.io_size,
                                         pos |-> file.head]]
            IN IF i.fault = "output" THEN IDecError(j, "OUT_OF_MEMORY")
               ELSE [j EXCEPT !.output = "set", !.state = "vp8l_data",
                              !.status = "OK"]

-----------------------------------------------------------------------------
\* The macroblocks.

(* The modes of a row are read once, however often its decoding is resumed. *)
ParseIntraModeRow(i) ==
  IF i.last_mb_y = i.mb_y THEN i
  ELSE [i EXCEPT !.br.buf = @ + 1, !.last_mb_y = i.mb_y]

VP8ProcessRow(i) ==
  IF ~caller.threads THEN FinishRow(i, i.mb_y)
  ELSE LET s == Sync(i) IN IF s.had_error THEN s ELSE [s EXCEPT !.job = i.mb_y]

(* VP8DecodeMB: one that runs dry has used up what there was.               *)
Cost(i) == file.cost[i.mb_y + 1]
Part(i) == (i.mb_y % file.parts) + 1

DecodeMB(i) ==
  LET r == i.parts[Part(i)]
  IN [i EXCEPT !.parts[Part(i)].buf =
        IF r.buf + Cost(i) <= r.end THEN r.buf + Cost(i) ELSE r.end]

(* "We shouldn't fail when MAX_MB data was available".                      *)
TooMuch(i) == file.parts = 1 /\ MemDataSize(i) > MaxMbSize

RunsDry(i) == i.parts[Part(i)].buf + Cost(i) > i.parts[Part(i)].end

\* The slip of coming back with the worker at work.
SuspendedUnsynced(i) ==
  IF TooMuch(i)
  THEN IDecError(DecodeMB(i), "BITSTREAM_ERROR") ELSE Suspended(i)

(* RestoreContext puts the reader back to where the macroblock begins.      *)
SuspendedAtMB(i) ==
  LET j == Sync(DecodeMB(i))
  IN IF TooMuch(i) \/ j.had_error
     THEN IDecError(j, "BITSTREAM_ERROR")
     ELSE Suspended([j EXCEPT !.parts[Part(i)] = i.parts[Part(i)]])

(* With one partition, what it has passed is not kept any longer.           *)
Released(i) == IF file.parts > 1 THEN i
               ELSE [i EXCEPT !.start = i.parts[1].buf - i.buf]

RowDone(i) ==
  LET j == VP8ProcessRow(i)
  IN IF j.had_error THEN IDecError(j, "USER_ABORT")
     ELSE [j EXCEPT !.mb_x = 0, !.mb_y = @ + 1]

NextMB(i) ==
  IF i.fault = "modes" /\ i.last_mb_y # i.mb_y THEN IDecError(i, "BITSTREAM_ERROR")
  ELSE LET j == ParseIntraModeRow(i)
       IN IF RunsDry(j) THEN SuspendedAtMB(j)
          ELSE LET d == [Released(DecodeMB(j)) EXCEPT !.mb_x = @ + 1]
               IN IF d.mb_x < file.mb_w THEN d ELSE RowDone(d)

Decoding(i) == i.state = "vp8_data" /\ i.status = "OK" /\ i.mb_y < MbH

DecodeRemaining(i) ==
  LET after[n \in 0..MbH * file.mb_w] ==
        IF n = 0 THEN i
        ELSE LET j == after[n - 1] IN IF Decoding(j) THEN NextMB(j) ELSE j
      last == after[MbH * file.mb_w]
      e == VP8ExitCritical(last)
  IN IF last.status # "OK" THEN last
     ELSE IF e.had_error THEN [e EXCEPT !.state = "error", !.status = "USER_ABORT"]
     ELSE FinishDecoding(e)

-----------------------------------------------------------------------------
\* The pixels of a lossless image.

Row(i) == RowAt(i.last_pixel)

(* ProcessRows: last_y stands for last_out_row.                             *)
ProcessRows(i, row) ==
  LET n == row - i.last_row
  IN [i EXCEPT !.last_row = row, !.num_rows = n,
               !.last_y = IF n > 0 THEN @ + n ELSE @]

(* The rows from Row(i) on that a symbol completes go out in batches.       *)
Batches(i, row) ==
  LET out[r \in Row(i)..row] ==
        IF r = Row(i) THEN i
        ELSE LET j == out[r - 1]
             IN IF r % NumArgbCacheRows = 0 /\ r <= caller.crop_bottom
                THEN ProcessRows(j, r) ELSE j
  IN out[row]

\* The slip of a check-point in the first row only.
SavedAtStart(i) ==
  IF Row(i) < i.next_sync_row \/ ~i.incremental THEN i
  ELSE [i EXCEPT !.saved_pos = i.vp8l.pos, !.saved_last_pixel = i.last_pixel,
                 !.next_sync_row = 99]

(* SaveState, every so many rows.                                          *)
Saved(i) ==
  IF Row(i) < i.next_sync_row \/ ~i.incremental THEN i
  ELSE [i EXCEPT !.saved_pos = i.vp8l.pos, !.saved_last_pixel = i.last_pixel,
                 !.next_sync_row = Row(i) + SyncEveryNRows]

(* The position of the saved reader; its buffer is set by the next call.    *)
RestoreState(i) ==
  [i EXCEPT !.vp8l.pos = i.saved_pos, !.last_pixel = i.saved_last_pixel,
            !.status = "SUSPENDED"]

NextSymbol(i) ==
  LET s == Saved(i)
      symbol == file.symbols[s.last_pixel + 1]
  IN IF s.vp8l.pos + symbol.cost > s.vp8l.len
     THEN IF s.incremental THEN RestoreState(s) ELSE IDecError(s, "BITSTREAM_ERROR")
     ELSE [Batches(s, Row(s) + symbol.rows) EXCEPT !.last_pixel = @ + 1,
                                                  !.vp8l.pos = @ + symbol.cost]

DecodeVP8LData(i) ==
  LET incremental == MemDataSize(i) < ChunkBytes
      begun == [i EXCEPT !.incremental = incremental, !.next_sync_row = Row(i),
                         !.status = "OK"]
      symbols == Len(file.symbols)
      after[n \in 0..symbols] ==
        IF n = 0 THEN begun
        ELSE LET j == after[n - 1]
             IN IF j.status = "OK" /\ Row(j) < caller.crop_bottom
                THEN NextSymbol(j) ELSE j
      last == after[symbols]
  IN IF i.fault = "init" THEN IDecError(i, "OUT_OF_MEMORY")
     ELSE IF last.status # "OK" THEN last
     ELSE FinishDecoding(ProcessRows(last, caller.crop_bottom))

-----------------------------------------------------------------------------
\* The calls.

\* The slip of one state per call.
IDecodeOneState(i) ==
  CASE i.state = "webp_header" -> DecodeWebPHeaders(i)
    [] i.state = "vp8_header" -> DecodeVP8FrameHeader(i)
    [] i.state = "vp8_parts0" -> DecodePartition0(i)
    [] i.state = "vp8_data" -> DecodeRemaining([i EXCEPT !.status = "OK"])
    [] i.state = "vp8l_header" -> DecodeVP8LHeader(i)
    [] i.state = "vp8l_data" -> DecodeVP8LData(i)

(* Each state whose work is done goes on to the next.                       *)
IDecode(i) ==
  LET a == IF i.state = "webp_header" THEN DecodeWebPHeaders(i) ELSE i
      b == IF a.state = "vp8_header" THEN DecodeVP8FrameHeader(a) ELSE a
      c == IF b.state = "vp8_parts0" THEN DecodePartition0(b) ELSE b
      d == IF c.state = "vp8_data" THEN DecodeRemaining([c EXCEPT !.status = "OK"])
           ELSE c
      e == IF d.state = "vp8l_header" THEN DecodeVP8LHeader(d) ELSE d
  IN IF e.state = "vp8l_data" THEN DecodeVP8LData(e) ELSE e

(* The code example of decode.h stops at an error.                          *)
MayCall == ret \in {"none", "SUSPENDED", "refused"}

Goes(i) == idec' = [i EXCEPT !.fault = "none"] /\ ret' = i.status

Init == /\ file \in Files /\ caller \in Callers
        /\ given = 0 /\ ret = "none" /\ idec = NewDecoder

WebPIAppend(n, base, fault) ==
  /\ MayCall /\ idec.mode # "map" /\ base # idec.buf
  /\ given' = given + n
  /\ Goes(IDecode(AppendToMemBuffer([idec EXCEPT !.mode = "append",
                                                 !.fault = fault], base, n)))
  /\ UNCHANGED <<file, caller>>

(* The caller's buffer may have moved, and what it was is forgotten.        *)
WebPIUpdate(n, base, fault) ==
  /\ MayCall /\ idec.mode # "append" /\ given + n >= idec.buf_size
  /\ given' = given + n
  /\ Goes(IDecode(RemapMemBuffer([idec EXCEPT !.mode = "map",
                                              !.fault = fault], base, given + n)))
  /\ UNCHANGED <<file, caller>>

(* The other call of the two, or a shorter buffer than before: the mode is  *)
(* taken nevertheless.  A failed allocation in WebPIAppend is as harmless.  *)
Refused(mode) ==
  /\ MayCall
  /\ idec.mode # "none" \/ mode = "append"
  /\ ret' = "refused"
  /\ idec' = [idec EXCEPT !.mode = IF @ = "none" THEN mode ELSE @]
  /\ UNCHANGED <<file, caller, given>>

(* IDecCheckStatus.                                                         *)
CallAfterEnd ==
  /\ ret = "OK" \/ idec.state = "error"
  /\ ret' = IF idec.state = "done" THEN "OK" ELSE "BITSTREAM_ERROR"
  /\ UNCHANGED <<file, caller, given, idec>>

(* WebPIDelete, and a new decoder.                                          *)
WebPIDelete ==
  /\ given' = 0 /\ ret' = "none" /\ idec' = NewDecoder
  /\ UNCHANGED <<file, caller>>

Next ==
  \/ \E n \in 0..FileSize - given, base \in Bases, fault \in Faults :
       WebPIAppend(n, base, fault) \/ WebPIUpdate(n, base, fault)
  \/ \E mode \in {"append", "map"} : Refused(mode)
  \/ CallAfterEnd \/ WebPIDelete

Spec == Init /\ [][Next]_vars

-----------------------------------------------------------------------------
\* What is asked of it.

(* Where in the file a pointer into the buffer points.                      *)
At(a) == a - idec.buf + idec.first

(* The buffer holds the file up to where it was given, and no less than the *)
(* decoder has yet to read (the asserts at idec_dec.c:187 and 214 and 320). *)
MemHolds ==
  /\ idec.start <= idec.end /\ idec.end <= idec.buf_size
  /\ idec.buf # Null => idec.first + idec.end = given
  /\ idec.mode \in {"none", "append", "map"}
  /\ idec.status \in {"OK", "SUSPENDED", "OUT_OF_MEMORY", "USER_ABORT",
                      "BITSTREAM_ERROR", "INVALID_PARAM"}

LossyReadersFollow ==
  /\ \A p \in 0..file.parts - 1 :
       LET r == idec.parts[p + 1]
       IN /\ At(r.buf) = MbAt(p, idec.mb_y, idec.mb_x) /\ r.buf >= idec.buf
          /\ At(r.end) = IF p = file.parts - 1 THEN given ELSE PartAt(p + 1)
  /\ idec.br.buf - (IF idec.mode = "append" THEN Part0Base
                    ELSE idec.buf + Part0At + file.intro) = idec.last_mb_y + 1

(* Every pointer into the data is where its reader left off in the file:    *)
(* after any number of pieces and of buffers that moved, a macroblock or a  *)
(* symbol is read from its own first byte, from memory that is still there. *)
ReadersFollow ==
  /\ idec.state = "vp8_data" => LossyReadersFollow
  /\ idec.state = "vp8l_data" =>
       /\ At(idec.vp8l.buf) = file.payload /\ idec.vp8l.buf >= idec.buf
       /\ idec.vp8l.pos = SymbolAt(idec.last_pixel)
       /\ idec.vp8l.len = given - file.payload
  /\ NeedCompressedAlpha(idec) =>
       /\ At(idec.alpha_data) = AlphaAt /\ idec.alpha_data >= idec.buf
       /\ idec.alpha_reader \in {Null, idec.alpha_data + 1}

(* What is still to be read is in memory, and is read from where it is:     *)
(* MemHolds for the buffer, ReadersFollow for the pointers into it.         *)
DataIsHeld == MemHolds /\ ReadersFollow

(* Between calls nobody else reads the data, which the next call may move   *)
(* before it looks at anything, and all rows decoded have been put out, to  *)
(* an output that is there; the output is set up once exactly while there   *)
(* are macroblocks to decode (idec_dec.c:460, "past this point, teardown()  *)
(* must always be called in case of error").                                *)
LeftAtRest ==
  /\ idec.job = NoJob
  /\ idec.state = "vp8_data" => idec.last_y = idec.mb_y
  /\ idec.state \in {"vp8_data", "vp8l_data"} => idec.output = "set"
  /\ idec.set_up = (IF idec.state = "vp8_data" THEN 1 ELSE 0)

(* Rows decoded again after a check-point are not put out again, and never  *)
(* more of them at once than argb_cache has room for (the assert at         *)
(* vp8l_dec.c:826).                                                         *)
RowsComeOnce ==
  /\ idec.num_rows \in 0..NumArgbCacheRows
  /\ ~IsLossy => idec.last_y = idec.last_row

(* The picture that comes into view with its file: ProgressiveImage.        *)
Outcome == CASE ret \in {"none", "SUSPENDED", "OK", "refused"} -> ret
             [] OTHER -> "error"

Progressive == INSTANCE ProgressiveImage
  WITH size <- FileSize, height <- Height, rows <- idec.last_y, outcome <- Outcome

ImplementsProgressive == Progressive!Spec
=============================================================================
