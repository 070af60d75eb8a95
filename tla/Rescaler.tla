------------------------------ MODULE Rescaler ------------------------------
(* WebPRescaler: libwebp's src/utils/rescaler_utils.c and the C forms in    *)
(* src/dsp/rescaler.c.  Rows come in one by one, and a row goes out when    *)
(* enough of them are in.  What a row holds is written as the shares of the *)
(* source rows in it; the fixed-point products that weigh a sample are      *)
(* exact here.                                                              *)
EXTENDS Integers, Sequences

MaxOf(a, b) == IF a > b THEN a ELSE b
MinOf(a, b) == IF a < b THEN a ELSE b

-----------------------------------------------------------------------------
\* What scaling means.

(* Enlarged: row k of dst lies between two of the src rows, in dst - 1      *)
(* parts; the first and the last rows coincide.                             *)
Interpolated(k, r, src, dst) ==
  LET at == (k * (src - 1)) \div (dst - 1)
      part == (k * (src - 1)) % (dst - 1)
  IN IF r = at THEN dst - 1 - part ELSE IF r = at + 1 THEN part ELSE 0

(* Reduced: the part of source row r that lies in row k, where the picture  *)
(* is src * dst high.                                                       *)
Averaged(k, r, src, dst) ==
  MaxOf(0, MinOf((r + 1) * dst, (k + 1) * src) - MaxOf(r * dst, k * src))

Share(k, r, src, dst) ==
  IF src < dst THEN Interpolated(k, r, src, dst) ELSE Averaged(k, r, src, dst)

Shares(k, src, dst) == [r \in 0..src - 1 |-> Share(k, r, src, dst)]

-----------------------------------------------------------------------------
\* Rows.

Nothing(src) == [r \in 0..src - 1 |-> 0]

WebPRescalerInit(src_height, dst_height) ==
  LET y_expand == src_height < dst_height
      y_add == IF y_expand THEN src_height - 1 ELSE src_height
      y_sub == IF y_expand THEN dst_height - 1 ELSE dst_height
  IN [src_height |-> src_height, dst_height |-> dst_height,
      y_expand |-> y_expand, y_add |-> y_add, y_sub |-> y_sub,
      y_accum |-> IF y_expand THEN y_sub ELSE y_add, src_y |-> 0, dst_y |-> 0,
      irow |-> Nothing(src_height), frow |-> Nothing(src_height)]

OutputDone(s) == s.dst_y >= s.dst_height

\* The slip of an output row that is due only when the input is past it.
PendingPast(s) == ~OutputDone(s) /\ s.y_accum < 0

HasPendingOutput(s) == ~OutputDone(s) /\ s.y_accum <= 0

NeededLines(s, max_num_lines) ==
  MinOf((s.y_accum + s.y_sub - 1) \div s.y_sub, max_num_lines)

(* Source row y weighs y_sub.                                               *)
Whole(s, y) == [r \in 0..s.src_height - 1 |-> IF r = y THEN s.y_sub ELSE 0]

ImportRow(s, y) ==
  LET new == Whole(s, y)
  IN [s EXCEPT !.frow = new,
               !.irow = IF s.y_expand THEN s.frow
                        ELSE [r \in DOMAIN @ |-> @[r] + new[r]],
               !.src_y = @ + 1, !.y_accum = @ - s.y_sub]

(* The row that goes out, and what is left of the last one in for the next. *)
Fraction(s) == [r \in DOMAIN s.frow |-> (s.frow[r] * (-s.y_accum)) \div s.y_sub]

Exported(s) ==
  [r \in DOMAIN s.irow |->
     IF s.y_expand
     THEN (s.frow[r] * (s.y_sub + s.y_accum) + s.irow[r] * (-s.y_accum)) \div s.y_sub
     ELSE s.irow[r] - Fraction(s)[r]]

ExportRow(s) ==
  [s EXCEPT !.irow = IF s.y_expand THEN @ ELSE Fraction(s),
            !.y_accum = @ + s.y_add, !.dst_y = @ + 1]

(* WebPRescalerImport of up to n rows, the first of them row y of the       *)
(* source: it stops when a row is ready.                                    *)
Import(s, n, y) ==
  LET in[k \in 0..MaxOf(n, 0)] ==
        IF k = 0 THEN s
        ELSE LET t == in[k - 1]
             IN IF HasPendingOutput(t) THEN t ELSE ImportRow(t, y + k - 1)
  IN in[MaxOf(n, 0)]

(* Export of all the rows that are ready, but max at most.                  *)
Export(s, max) ==
  LET out[k \in 0..max] ==
        IF k = 0 THEN [scaler |-> s, rows |-> <<>>]
        ELSE LET t == out[k - 1]
             IN IF ~HasPendingOutput(t.scaler) THEN t
                ELSE [scaler |-> ExportRow(t.scaler),
                      rows |-> Append(t.rows, Exported(t.scaler))]
  IN out[max]

-----------------------------------------------------------------------------
\* Columns: WebPRescalerImportRowShrink_C, WebPRescalerImportRowExpand_C.

(* A step of the outer loop, from what is left of the column before.        *)
ColumnShrink(c, src, dst) ==
  LET accum == c.accum + src
      taken == (accum + dst - 1) \div dst
      rest == accum - taken * dst
      base == c.x_in + taken - 1
      sum == [x \in 0..src - 1 |->
                c.left[x] + IF x \in c.x_in..base THEN dst ELSE 0]
      frac == [x \in 0..src - 1 |-> IF x = base THEN -rest ELSE 0]
  IN [accum |-> rest, x_in |-> c.x_in + taken, left |-> frac,
      out |-> [x \in 0..src - 1 |-> sum[x] - frac[x]]]

ColumnExpand(c, src, dst) ==
  LET shifts == c.accum - (src - 1) < 0
      accum == c.accum - (src - 1) + IF shifts THEN dst - 1 ELSE 0
      right == IF shifts THEN c.x_in + 1 ELSE c.x_in
      left == MaxOf(right - 1, 0)
  IN [accum |-> accum, x_in |-> right,
      out |-> [x \in 0..src - 1 |-> (IF x = left THEN accum ELSE 0)
                                    + IF x = right THEN dst - 1 - accum ELSE 0]]

FirstExpanded(src, dst) ==
  LET right == IF src > 1 THEN 1 ELSE 0
  IN [accum |-> dst - 1, x_in |-> right,
      out |-> [x \in 0..src - 1 |-> IF x = 0 THEN dst - 1 ELSE 0]]

Columns(src, dst) ==
  LET column[k \in 0..dst] ==
        IF k = 0 THEN [accum |-> 0, x_in |-> 0, left |-> Nothing(src), out |-> Nothing(src)]
        ELSE IF src >= dst THEN ColumnShrink(column[k - 1], src, dst)
        ELSE IF k = 1 THEN FirstExpanded(src, dst)
        ELSE ColumnExpand(column[k - 1], src, dst)
  IN column
=============================================================================
