----------------------------- MODULE OutputRows -----------------------------
(* From the rows of samples that a decoder has finished to the rows of the  *)
(* RGB output: libwebp's FinishRow (src/dec/frame_dec.c), io_dec.c and      *)
(* alpha_dec.c for lossy pictures, ProcessRows (src/dec/vp8l_dec.c) for     *)
(* lossless ones, with the rescaler.  Samples come in pieces that suit      *)
(* neither the chroma, nor the upsampler, which is always a row behind, nor *)
(* the rescaler, nor the alpha plane, which is decoded as far as is needed. *)
(* What a row of the output holds is the rows of the source it is made of.  *)
EXTENDS Rescaler, FiniteSets

CONSTANTS Pictures,           \* what is decoded, and how it is asked for
          MbSize,             \* rows of a macroblock
          NumArgbCacheRows    \* NUM_ARGB_CACHE_ROWS

(* WebPIoInitFromOptions: the window lies in the picture, and begins at an  *)
(* even row of a lossy one.  kFilterExtraRows: 0, 2 or 8 of 16 rows.        *)
IsPicture(p) ==
  /\ p.crop_top \in Nat /\ p.crop_bottom \in Nat /\ p.height \in Nat
  /\ p.crop_top < p.crop_bottom /\ p.crop_bottom <= p.height
  /\ p.kind = "lossy" => p.crop_top % 2 = 0
  /\ p.scaled_height \in Nat
  /\ p.extra \in Nat /\ p.extra % 2 = 0 /\ p.extra < MbSize

ASSUME PicturesAssumption ==
  /\ MbSize \in Nat \ {0} /\ MbSize % 2 = 0
  /\ \A p \in Pictures : IsPicture(p)

VARIABLES pic,      \* the picture, and the options it is decoded with
          row,      \* the next macroblock row, or lossless row, to finish
          alpha,    \* the alpha plane and its decoder
          params,   \* WebPDecParams: the output's position, samples kept
          out,      \* the rows of the output
          status    \* "ok", "failed"

vars == <<pic, row, alpha, params, out, status>>

-----------------------------------------------------------------------------
\* The picture.

IsLossy == pic.kind = "lossy"
IsScaled == pic.scaled_height > 0
Mode == pic.colorspace                 \* "rgb", "rgba", "premultiplied"
IsAlphaMode == Mode # "rgb"
MbH == pic.crop_bottom - pic.crop_top  \* io->mb_h of the setup
UvH(h) == (h + 1) \div 2
OutHeight == IF IsScaled THEN pic.scaled_height ELSE MbH

(* WebPIoInitFromOptions.                                                   *)
FancyUpsampling == pic.fancy /\ ~IsScaled

(* VP8EnterCritical: macroblock rows that the cropped picture takes.        *)
MacroblockRows(h) == (h + MbSize - 1) \div MbSize
BrMbY == MinOf(MacroblockRows(pic.crop_bottom + pic.extra), MacroblockRows(pic.height))

(* A piece of the cropped picture: io->mb_y, io->mb_h, and for lossy ones   *)
(* the row of the alpha plane where it begins.                              *)
Piece(mb_y, mb_h, a) == [mb_y |-> mb_y, mb_h |-> mb_h, a |-> a]
NoAlpha == -1

-----------------------------------------------------------------------------
\* The alpha plane.

NoPlane == [plane |-> FALSE, initialized |-> FALSE, decoded |-> FALSE,
            smoothed |-> FALSE, prev_line |-> -1, last_row |-> 0,
            above |-> [r \in {} |-> -1]]

HasAlpha == IsLossy /\ pic.alpha # "none"

\* The slip of not keeping the last row of a piece.
UnfilteredAlone(a, first, last) ==
  [a EXCEPT !.above = [r \in DOMAIN @ \union first..last - 1 |->
                         IF r < first \/ r >= last THEN @[r]
                         ELSE IF r = first THEN a.prev_line ELSE r - 1]]

(* The row that is unfiltered by the one above it, in above: -1 for none.   *)
Unfiltered(a, first, last) ==
  [a EXCEPT !.above = [r \in DOMAIN @ \union first..last - 1 |->
                         IF r < first \/ r >= last THEN @[r]
                         ELSE IF r = first THEN a.prev_line ELSE r - 1],
            !.prev_line = IF first < last THEN last - 1 ELSE @]

(* ExtractPalettedAlphaRows leaves out the rows above of the window unless  *)
(* the filter calls for them; ExtractAlphaRows does not.                    *)
Extracted(a, last) ==
  LET top == IF pic.alpha = "paletted" /\ pic.filter \in {"none", "horizontal"}
             THEN pic.crop_top ELSE a.last_row
  IN [Unfiltered(a, MaxOf(a.last_row, top), MaxOf(last, MaxOf(a.last_row, top)))
        EXCEPT !.last_row = last]

(* ALPHDecode of the rows first..last - 1.                                  *)
ALPHDecode(a, first, last) ==
  LET d == IF pic.alpha = "raw" THEN Unfiltered(a, first, last)
           ELSE IF a.last_row >= last THEN a ELSE Extracted(a, last)
  IN [d EXCEPT !.decoded = last >= pic.crop_bottom]

(* VP8DecompressAlphaRows: the first call allocates, and decodes all of a   *)
(* plane whose levels were quantized; the last one frees the decoder, and   *)
(* smoothes the levels.                                                     *)
DecompressAlphaRows(first, last) ==
  IF alpha.decoded THEN alpha
  ELSE LET n == IF ~alpha.initialized /\ pic.levels THEN pic.crop_bottom ELSE last
           d == ALPHDecode([alpha EXCEPT !.plane = TRUE, !.initialized = TRUE],
                           first, n)
       IN IF ~d.decoded THEN d
          ELSE [d EXCEPT !.initialized = FALSE,
                         !.smoothed = pic.levels /\ pic.dithering]

(* Every error but one comes before the end of the plane; smoothing it may  *)
(* fail as well.                                                            *)
AlphaErrors(first, last) ==
  {NoPlane} \union
  IF DecompressAlphaRows(first, last).smoothed /\ ~alpha.decoded
  THEN {[NoPlane EXCEPT !.decoded = TRUE]} ELSE {}

-----------------------------------------------------------------------------
\* Rows of the output.

Opaque == -1
Unwritten == [colour |-> <<>>, alpha |-> Opaque, multiplied |-> 0]

Colour(c) == [colour |-> c, alpha |-> Opaque, multiplied |-> 0]

Premultiplied(r) ==
  [r EXCEPT !.multiplied = IF Mode = "premultiplied" THEN @ + 1 ELSE @]

(* The rows rs are written over o from row y on.                            *)
Written(o, y, rs) ==
  [j \in DOMAIN o |-> IF j \in y..y + Len(rs) - 1 THEN rs[j - y + 1] ELSE o[j]]

WithAlpha(o, y, as) ==
  [j \in DOMAIN o |-> IF j \in y..y + Len(as) - 1
                      THEN Premultiplied([o[j] EXCEPT !.alpha = as[j - y + 1]])
                      ELSE o[j]]

(* What a piece leaves: the output, and the rows of it that are done.       *)
Emitted(p, o, n) == [params |-> p, out |-> o, num_lines_out |-> n, asserts |-> TRUE]

-----------------------------------------------------------------------------
\* Rows that are not scaled.

(* A row of luma, the row of chroma next to it, the one further off.        *)
Sampled(y, near, far) == Colour(<<y, near, far>>)

EmitSampledRGB(io, p, o) ==
  Emitted(p, Written(o, io.mb_y, [i \in 1..io.mb_h |->
            LET y == io.mb_y + i - 1 IN Sampled(y, y \div 2, y \div 2)]), io.mb_h)

(* upsample: the two rows of a pair lie between the chroma rows top and cur *)
Upsampled(y, top, cur) == <<Sampled(y, top, cur), Sampled(y + 1, cur, top)>>

\* The slip of reporting the row that waits for the chroma below it.
AllFancyLines(io) == io.mb_h + IF io.mb_y = 0 THEN 0 ELSE 1

(* The rows that a piece finishes.                                          *)
FancyLines(io) ==
  io.mb_h + (IF io.mb_y = 0 THEN 0 ELSE 1)
          - IF pic.crop_top + io.mb_y + io.mb_h < pic.crop_bottom THEN 1 ELSE 0

EmitFancyRGB(io, p, o) ==
  LET y == io.mb_y
      y_end == io.mb_y + io.mb_h
      uv == io.mb_y \div 2
      pairs == (io.mb_h - 1) \div 2
      last_y == y + 2 * pairs + 1     \* cur_y behind the loop
      last_uv == uv + pairs
      start == IF y = 0 THEN Written(o, 0, <<Sampled(0, uv, uv)>>)
               ELSE Written(o, y - 1, <<Sampled(p.tmp_y, p.tmp_uv, uv),
                                        Sampled(y, uv, p.tmp_uv)>>)
      body[k \in 0..pairs] ==
        IF k = 0 THEN start
        ELSE Written(body[k - 1], y + 2 * k - 1,
                     Upsampled(y + 2 * k - 1, uv + k - 1, uv + k))
  IN IF pic.crop_top + y_end < pic.crop_bottom
     THEN Emitted([p EXCEPT !.tmp_y = last_y, !.tmp_uv = last_uv], body[pairs],
                  FancyLines(io))
     ELSE Emitted(p, IF y_end % 2 = 1 THEN body[pairs]
                     ELSE Written(body[pairs], last_y,
                                  <<Sampled(last_y, last_uv, last_uv)>>), FancyLines(io))

\* The slip of forgetting that the upsampler is a row behind.
AlphaSourceInStep(io) == [start |-> io.mb_y, num_rows |-> io.mb_h, a |-> io.a]

(* GetAlphaSourceRow: the upsampler's delay once more.                      *)
GetAlphaSourceRow(io) ==
  LET back == FancyUpsampling /\ io.mb_y > 0
      start == IF back THEN io.mb_y - 1 ELSE io.mb_y
      is_last == pic.crop_top + io.mb_y + io.mb_h = pic.crop_bottom
  IN [start |-> start, a |-> IF back THEN io.a - 1 ELSE io.a,
      num_rows |-> IF ~FancyUpsampling THEN io.mb_h
                   ELSE IF is_last THEN MbH - start
                   ELSE IF back THEN io.mb_h ELSE io.mb_h - 1]

EmitAlphaRGB(io, e) ==
  LET s == GetAlphaSourceRow(io)
  IN IF io.a = NoAlpha THEN e
     ELSE [e EXCEPT !.out = WithAlpha(@, s.start, [i \in 1..s.num_rows |-> s.a + i - 1]),
                    !.asserts = @ /\ s.num_rows = e.num_lines_out]

-----------------------------------------------------------------------------
\* Rows that are scaled.

ScaledRows(ys, us) == [i \in DOMAIN ys |-> Colour(<<ys[i], us[i]>>)]

\* The slip of looking at the luma only.
LumaPending(p) == HasPendingOutput(p.scaler_y)

(* ExportRGB: "U/V can be +1/-1 line from the Y one".                       *)
BothPending(p) == HasPendingOutput(p.scaler_y) /\ HasPendingOutput(p.scaler_u)

ExportRGB(p, max) ==
  LET out_[k \in 0..max] ==
        IF k = 0 THEN [params |-> p, ys |-> <<>>, us |-> <<>>]
        ELSE LET t == out_[k - 1]
             IN IF ~BothPending(t.params) THEN t
                ELSE [params |-> [t.params EXCEPT !.scaler_y = ExportRow(@),
                                                  !.scaler_u = ExportRow(@)],
                      ys |-> Append(t.ys, Exported(t.params.scaler_y)),
                      us |-> Append(t.us, Exported(t.params.scaler_u))]
  IN out_[max]

(* A round of the loop of EmitRescaledRGB: j rows of luma and uv_j of       *)
(* chroma have been used.                                                   *)
RescaleRound(io, t) ==
  LET y == Import(t.params.scaler_y, io.mb_h - t.j, io.mb_y + t.j)
      uv_left == UvH(io.mb_h) - t.uv_j
      needed == NeededLines(t.params.scaler_u, uv_left)
      u == IF needed = 0 THEN t.params.scaler_u
           ELSE Import(t.params.scaler_u, uv_left, io.mb_y \div 2 + t.uv_j)
      e == ExportRGB([t.params EXCEPT !.scaler_y = y, !.scaler_u = u], OutHeight)
  IN [params |-> e.params, j |-> t.j + y.src_y - t.params.scaler_y.src_y,
      uv_j |-> t.uv_j + u.src_y - t.params.scaler_u.src_y,
      rows |-> t.rows \o ScaledRows(e.ys, e.us)]

EmitRescaledRGB(io, p, o) ==
  LET most == 2 * io.mb_h + OutHeight + 1
      round[k \in 0..most] ==
        IF k = 0 THEN [params |-> p, j |-> 0, uv_j |-> 0, rows |-> <<>>]
        ELSE LET t == round[k - 1] IN IF t.j < io.mb_h THEN RescaleRound(io, t) ELSE t
      e == round[most]
  IN [Emitted(e.params, Written(o, p.last_y, e.rows), Len(e.rows))
        EXCEPT !.asserts = e.j = io.mb_h]

(* EmitRescaledAlphaRGB: as many rows of alpha as of colours; the samples   *)
(* begin at the row that the scaler has come to, which may be one of a      *)
(* piece before.                                                            *)
AlphaRound(io, e, t) ==
  LET src_y == t.params.scaler_a.src_y
      offset == src_y - io.mb_y
      a == Import(t.params.scaler_a, io.mb_h + io.mb_y - src_y,
                  io.a + offset - pic.crop_top)
      x == Export(a, t.lines_left)
      y_end == e.params.last_y + e.num_lines_out
  IN [params |-> [t.params EXCEPT !.scaler_a = x.scaler],
      lines_left |-> t.lines_left - Len(x.rows),
      out |-> WithAlpha(t.out, y_end - t.lines_left, x.rows)]

EmitRescaledAlphaRGB(io, e) ==
  LET most == io.mb_h + OutHeight + 1
      round[k \in 0..most] ==
        IF k = 0 THEN [params |-> e.params, lines_left |-> e.num_lines_out, out |-> e.out]
        ELSE LET t == round[k - 1] IN IF t.lines_left > 0 THEN AlphaRound(io, e, t) ELSE t
      last == round[most]
  IN IF io.a = NoAlpha THEN e
     ELSE [e EXCEPT !.params = last.params, !.out = last.out,
                    !.asserts = @ /\ last.lines_left = 0]

-----------------------------------------------------------------------------
\* CustomPut, and the rows of a lossless picture.

Emit(io, p, o) ==
  IF IsScaled THEN EmitRescaledRGB(io, p, o)
  ELSE IF FancyUpsampling THEN EmitFancyRGB(io, p, o) ELSE EmitSampledRGB(io, p, o)

EmitAlpha(io, e) ==
  IF ~IsAlphaMode THEN e
  ELSE IF IsScaled THEN EmitRescaledAlphaRGB(io, e) ELSE EmitAlphaRGB(io, e)

CustomPut(io) ==
  LET e == EmitAlpha(io, Emit(io, params, out))
  IN [e EXCEPT !.params.last_y = @ + e.num_lines_out,
               !.asserts = @ /\ io.mb_y % 2 = 0]

(* EmitRescaledRowsRGBA premultiplies the rows that it says it needs.       *)
ArgbRound(io, t) ==
  LET s == t.params.scaler_y
      needed == NeededLines(s, io.mb_h - t.j)
      in == Import(s, io.mb_h - t.j, io.mb_y + t.j)
      x == Export(in, OutHeight)
      imported == in.src_y - s.src_y
  IN [params |-> [t.params EXCEPT !.scaler_y = x.scaler], j |-> t.j + imported,
      rows |-> t.rows \o [i \in DOMAIN x.rows |-> Colour(<<x.rows[i]>>)],
      asserts |-> t.asserts /\ needed > 0 /\ imported = needed]

EmitRescaledRows(io, p, o) ==
  LET round[k \in 0..io.mb_h] ==
        IF k = 0 THEN [params |-> p, j |-> 0, rows |-> <<>>, asserts |-> TRUE]
        ELSE LET t == round[k - 1] IN IF t.j < io.mb_h THEN ArgbRound(io, t) ELSE t
      e == round[io.mb_h]
  IN [Emitted(e.params, Written(o, p.last_y, e.rows), Len(e.rows))
        EXCEPT !.asserts = e.asserts /\ e.j = io.mb_h]

EmitRows(io, p, o) ==
  Emitted(p, Written(o, p.last_y, [i \in 1..io.mb_h |-> Colour(<<io.mb_y + i - 1>>)]),
          io.mb_h)

ArgbRows(io) ==
  LET e == IF IsScaled THEN EmitRescaledRows(io, params, out)
           ELSE EmitRows(io, params, out)
  IN [e EXCEPT !.params.last_y = @ + e.num_lines_out]

-----------------------------------------------------------------------------
\* The decoders' loops.

(* FinishRow of macroblock row y: the extra rows are held back.             *)
YStart == IF row = 0 THEN 0 ELSE row * MbSize - pic.extra
YEnd == MinOf(pic.crop_bottom,
              (row + 1) * MbSize - IF row >= BrMbY - 1 THEN 0 ELSE pic.extra)

FinishesRow == IsLossy /\ status = "ok" /\ row < BrMbY

(* What the window takes of the rows first..last - 1.                       *)
Window(first, last, has_alpha) ==
  LET start == MaxOf(first, pic.crop_top)
  IN Piece(start - pic.crop_top, last - start,
           IF has_alpha THEN start ELSE NoAlpha)

Goes(e) == /\ params' = [e.params EXCEPT !.asserts = @ /\ e.asserts]
           /\ out' = e.out

FinishRow ==
  /\ FinishesRow
  /\ row' = row + 1
  /\ alpha' = IF HasAlpha /\ YStart < YEnd THEN DecompressAlphaRows(YStart, YEnd)
              ELSE alpha
  /\ IF MaxOf(YStart, pic.crop_top) < YEnd
     THEN Goes(CustomPut(Window(YStart, YEnd, HasAlpha)))
     ELSE UNCHANGED <<params, out>>
  /\ UNCHANGED <<pic, status>>

AlphaFails ==
  /\ FinishesRow /\ HasAlpha /\ YStart < YEnd /\ ~alpha.decoded
  /\ alpha' \in AlphaErrors(YStart, YEnd)
  /\ status' = "failed"
  /\ UNCHANGED <<pic, row, params, out>>

(* ProcessRows up to last, in batches that fit argb_cache.                  *)
ProcessRows(last) ==
  /\ ~IsLossy /\ row < last /\ last <= pic.crop_bottom
  /\ last - row <= NumArgbCacheRows
  /\ row' = last
  /\ IF MaxOf(row, pic.crop_top) < last
     THEN Goes(ArgbRows(Window(row, last, FALSE)))
     ELSE UNCHANGED <<params, out>>
  /\ UNCHANGED <<pic, alpha, status>>

Init ==
  /\ pic \in Pictures
  /\ row = 0 /\ alpha = NoPlane /\ status = "ok"
  /\ params = [last_y |-> 0, tmp_y |-> -1, tmp_uv |-> -1, asserts |-> TRUE,
               scaler_y |-> WebPRescalerInit(MbH, OutHeight),
               scaler_u |-> WebPRescalerInit(UvH(MbH), OutHeight),
               scaler_a |-> WebPRescalerInit(MbH, OutHeight)]
  /\ out = [j \in 0..OutHeight - 1 |-> Unwritten]

Next == FinishRow \/ AlphaFails \/ \E last \in 1..pic.crop_bottom : ProcessRows(last)

Spec == Init /\ [][Next]_vars

-----------------------------------------------------------------------------
\* What is asked of it.

(* Chroma for a row of luma that is not scaled: the upsampler takes the two *)
(* rows about it, and the one at the edge twice.                            *)
Neighbour(j) ==
  LET far == IF j % 2 = 0 THEN j \div 2 - 1 ELSE j \div 2 + 1
  IN IF far \in 0..UvH(MbH) - 1 THEN far ELSE j \div 2

ColourOf(j) ==
  CASE IsLossy /\ IsScaled -> <<Shares(j, MbH, OutHeight), Shares(j, UvH(MbH), OutHeight)>>
    [] IsLossy /\ ~IsScaled ->
         <<j, j \div 2, IF FancyUpsampling THEN Neighbour(j) ELSE j \div 2>>
    [] ~IsLossy /\ IsScaled -> <<Shares(j, MbH, OutHeight)>>
    [] OTHER -> <<j>>

AlphaOf(j) ==
  IF ~HasAlpha \/ ~IsAlphaMode THEN Opaque
  ELSE IF IsScaled THEN Shares(j, MbH, OutHeight) ELSE pic.crop_top + j

(* The rows that are reported as done hold what they should: their own luma *)
(* and chroma, in the right proportions, their own alpha, multiplied by it  *)
(* once; whatever the pieces were that the samples came in.                 *)
RowsAreRight ==
  \A j \in 0..params.last_y - 1 :
    /\ out[j].colour = ColourOf(j) /\ out[j].alpha = AlphaOf(j)
    /\ out[j].multiplied = (IF HasAlpha /\ Mode = "premultiplied" THEN 1 ELSE 0)

(* Nothing of the picture is left behind when all of it has come in: not a  *)
(* row of the output, not a row of chroma that luma was not ready for.      *)
AllRowsCome ==
  status = "ok" /\ row = (IF IsLossy THEN BrMbY ELSE pic.crop_bottom) =>
    /\ params.last_y = OutHeight
    /\ IsScaled => /\ params.scaler_y.src_y = MbH
                   /\ IsLossy => params.scaler_u.src_y = UvH(MbH)

(* The asserts of io_dec.c, vp8l_dec.c and rescaler.c: alpha and colour     *)
(* come to the same number of rows, what is needed is what is taken, no row *)
(* is read or written past the end; and the loops end.                      *)
AssertsHold ==
  /\ params.asserts
  /\ \A s \in {params.scaler_y, params.scaler_u, params.scaler_a} :
       s.src_y <= s.src_height /\ s.dst_y <= s.dst_height

(* Where a palette, a horizontal filter and a window that begins further    *)
(* down come together AlphaIsReady does not hold.                           *)
WrongAlpha(p) == /\ p.alpha = "paletted" /\ p.filter = "horizontal"
                 /\ p.crop_top > 0

(* The alpha of a row that is done has been decoded, from the row above it, *)
(* and smoothed if it has to be.                                            *)
AlphaIsReady ==
  HasAlpha /\ status = "ok" =>
    \A r \in pic.crop_top..pic.crop_bottom - 1 :
      (IsScaled /\ r < pic.crop_top + params.scaler_a.src_y)
        \/ (~IsScaled /\ r < pic.crop_top + params.last_y) =>
        /\ alpha.plane /\ r \in DOMAIN alpha.above
        /\ pic.filter # "none" => alpha.above[r] = r - 1
        /\ pic.levels /\ pic.dithering => alpha.smoothed

(* A row that was reported as done stays as it is: a viewer that draws the  *)
(* picture as it comes need not draw it twice.                              *)
RowsAreFinal == [][\A j \in 0..params.last_y - 1 : out'[j] = out[j]]_vars

(* The columns of a row that is scaled hold the same shares as the rows.    *)
ColumnsAreRight ==
  row = 0 /\ IsScaled =>
    LET c == Columns(MbH, OutHeight)
    IN \A k \in 1..OutHeight : c[k].out = Shares(k - 1, MbH, OutHeight)

(* The shares of the source in a picture, along both of its axes:           *)
(* RowsAreRight and ColumnsAreRight.                                        *)
SharesAreRight == RowsAreRight /\ ColumnsAreRight
=============================================================================
