-------------------------- MODULE OutputRowsProofs --------------------------
(* That the rows of the output are right, whatever the pieces were that the *)
(* samples came in: io_dec.c, alpha_dec.c and the rescaler of libwebp, and  *)
(* the plug-in's DIB, for all pictures, sizes and widths.                   *)
(* What a step leaves is shown to be a function of the rows that have come: *)
(* a scaler is ScalerAt(src, dst, m, k) when m rows are in and k are out,   *)
(* and k follows from m (Fits, Ready).  The loops of a piece keep that, so  *)
(* does the piece (PutOut), so does a step (OutputInv).                     *)
EXTENDS DibOutput, TLAPS, WellFoundedInduction

-----------------------------------------------------------------------------
\* The rescaler keeps the account of its rows, wherever it is.

(* y_accum counts the rows: what came in is paid for at y_sub a row, what   *)
(* went out at y_add.                                                       *)
Balance(s) ==
  (IF s.y_expand THEN s.y_sub ELSE s.y_add) - s.src_y * s.y_sub + s.dst_y * s.y_add

IsBalanced(s) ==
  /\ s.src_height \in Nat \ {0} /\ s.dst_height \in Nat \ {0}
  /\ s.y_expand = (s.src_height < s.dst_height)
  /\ s.y_add = IF s.y_expand THEN s.src_height - 1 ELSE s.src_height
  /\ s.y_sub = IF s.y_expand THEN s.dst_height - 1 ELSE s.dst_height
  /\ s.src_y \in Nat /\ s.dst_y \in Nat
  /\ s.dst_y <= s.dst_height
  /\ s.y_accum = Balance(s)

IsScaler(s) ==
  \E h, d, e, a, b, c, y, z, i, f :
    s = [src_height |-> h, dst_height |-> d, y_expand |-> e, y_add |-> a, y_sub |-> b,
         y_accum |-> c, src_y |-> y, dst_y |-> z, irow |-> i, frow |-> f]

(* A product, and one more of it.                                            *)
LEMMA OneMore == \A a, b \in Int : (a + 1) * b = a * b + b
  OBVIOUS

(* The types of the fields of a scaler whose account is kept.                *)
LEMMA BalancedTypes ==
  ASSUME NEW s, IsBalanced(s)
  PROVE  /\ s.src_height \in Nat \ {0} /\ s.dst_height \in Nat \ {0}
         /\ s.y_expand \in BOOLEAN /\ s.y_add \in Nat /\ s.y_sub \in Nat
         /\ s.src_y \in Nat /\ s.dst_y \in Nat /\ s.y_accum \in Int
<1>1. /\ s.src_height \in Nat \ {0} /\ s.dst_height \in Nat \ {0}
      /\ s.y_expand = (s.src_height < s.dst_height)
      /\ s.src_y \in Nat /\ s.dst_y \in Nat
  BY DEF IsBalanced
<1>2. s.y_add \in Nat
  BY <1>1 DEF IsBalanced
<1>3. s.y_sub \in Nat
  BY <1>1 DEF IsBalanced
<1>4. s.src_y * s.y_sub \in Int /\ s.dst_y * s.y_add \in Int
  BY <1>1, <1>2, <1>3
<1>5. s.y_accum \in Int
  BY <1>2, <1>3, <1>4 DEF IsBalanced, Balance
<1> QED
  BY <1>1, <1>2, <1>3, <1>5

(* WebPRescalerInit, src/utils/rescaler_utils.c: the balance holds at first.*)
THEOREM StartsBalanced ==
  ASSUME NEW src \in Nat \ {0}, NEW dst \in Nat \ {0}
  PROVE  IsBalanced(WebPRescalerInit(src, dst)) /\ IsScaler(WebPRescalerInit(src, dst))
<1> DEFINE s == WebPRescalerInit(src, dst)
<1>1. IsScaler(s)
  BY DEF WebPRescalerInit, IsScaler
<1>2. /\ s.src_height = src /\ s.dst_height = dst /\ s.y_expand = (src < dst)
      /\ s.y_add = (IF src < dst THEN src - 1 ELSE src)
      /\ s.y_sub = (IF src < dst THEN dst - 1 ELSE dst)
      /\ s.src_y = 0 /\ s.dst_y = 0
      /\ s.y_accum = IF src < dst THEN dst - 1 ELSE src
  BY DEF WebPRescalerInit
<1>3. s.src_y * s.y_sub = 0 /\ s.dst_y * s.y_add = 0
  <2>1. \A x \in Int : 0 * x = 0
    OBVIOUS
  <2> QED
    BY <1>2, <2>1
<1>4. s.y_accum = Balance(s) /\ IsBalanced(s)
  <2> HIDE DEF s
  <2>1. CASE src < dst
    <3>1. /\ s.y_expand = TRUE /\ s.y_sub = dst - 1 /\ s.y_accum = dst - 1
          /\ s.y_add = src - 1
      BY <1>2, <2>1
    <3>2. s.y_accum = Balance(s)
      BY <1>3, <3>1 DEF Balance
    <3> QED
      BY <1>2, <2>1, <3>1, <3>2 DEF IsBalanced
  <2>2. CASE ~(src < dst)
    <3>1. ~s.y_expand /\ s.y_add = src /\ s.y_accum = src /\ s.y_sub = dst
      BY <1>2, <2>2, Zenon
    <3>2. s.y_accum = Balance(s)
      BY <1>3, <3>1 DEF Balance
    <3> QED
      BY <1>2, <2>2, <3>1, <3>2 DEF IsBalanced
  <2> QED
    BY <2>1, <2>2
<1> QED
  BY <1>1, <1>4

(* A row that comes in keeps the balance.                                   *)
THEOREM ImportKeepsBalance ==
  ASSUME NEW s, NEW y, IsBalanced(s), IsScaler(s)
  PROVE  IsBalanced(ImportRow(s, y)) /\ IsScaler(ImportRow(s, y))
<1> DEFINE t == ImportRow(s, y)
<1> PICK h, d, e, a, b, c, sy, dy, i, f :
      s = [src_height |-> h, dst_height |-> d, y_expand |-> e, y_add |-> a, y_sub |-> b,
           y_accum |-> c, src_y |-> sy, dst_y |-> dy, irow |-> i, frow |-> f]
  BY DEF IsScaler
<1> DEFINE new == Whole(s, y)
           in == IF e THEN f ELSE [r \in DOMAIN i |-> i[r] + new[r]]
<1>0. t = [src_height |-> h, dst_height |-> d, y_expand |-> e, y_add |-> a, y_sub |-> b,
           y_accum |-> c - b, src_y |-> sy + 1, dst_y |-> dy, irow |-> in, frow |-> new]
  <2> HIDE DEF new
  <2>1. t = [s EXCEPT !.frow = new, !.irow = in, !.src_y = sy + 1, !.y_accum = c - b]
    BY DEF ImportRow, new
  <2> HIDE DEF in, t
  <2> QED
    BY <2>1
<1>1. IsScaler(t)
  BY <1>0 DEF IsScaler
<1>2. /\ t.src_height = s.src_height /\ t.dst_height = s.dst_height
      /\ t.y_expand = s.y_expand /\ t.y_add = s.y_add /\ t.y_sub = s.y_sub
      /\ t.src_y = s.src_y + 1 /\ t.dst_y = s.dst_y
      /\ t.y_accum = s.y_accum - s.y_sub
  BY DEF ImportRow
<1>3. Balance(t) = Balance(s) - s.y_sub
  <2>1. (s.src_y + 1) * s.y_sub = s.src_y * s.y_sub + s.y_sub
    BY OneMore, BalancedTypes
  <2>2. s.src_y * s.y_sub \in Int /\ s.dst_y * s.y_add \in Int
    BY BalancedTypes
  <2> QED
    BY <1>2, <2>1, <2>2, BalancedTypes DEF Balance
<1>4. t.y_accum = Balance(t)
  BY <1>2, <1>3 DEF IsBalanced
<1>5. IsBalanced(t)
  BY <1>2, <1>4 DEF IsBalanced
<1> QED
  BY <1>1, <1>5

(* A row that goes out keeps the balance.                                   *)
THEOREM ExportKeepsBalance ==
  ASSUME NEW s, IsBalanced(s), IsScaler(s), HasPendingOutput(s)
  PROVE  IsBalanced(ExportRow(s)) /\ IsScaler(ExportRow(s))
<1> DEFINE t == ExportRow(s)
<1> PICK h, d, e, a, b, c, sy, dy, i, f :
      s = [src_height |-> h, dst_height |-> d, y_expand |-> e, y_add |-> a, y_sub |-> b,
           y_accum |-> c, src_y |-> sy, dst_y |-> dy, irow |-> i, frow |-> f]
  BY DEF IsScaler
<1> DEFINE left == IF e THEN i ELSE Fraction(s)
<1>0. t = [src_height |-> h, dst_height |-> d, y_expand |-> e, y_add |-> a, y_sub |-> b,
           y_accum |-> c + a, src_y |-> sy, dst_y |-> dy + 1, irow |-> left, frow |-> f]
  <2>1. t = [s EXCEPT !.irow = left, !.y_accum = c + a, !.dst_y = dy + 1]
    BY DEF ExportRow
  <2> HIDE DEF left, t
  <2> QED
    BY <2>1
<1>1. IsScaler(t)
  BY <1>0 DEF IsScaler
<1>2. /\ t.src_height = s.src_height /\ t.dst_height = s.dst_height
      /\ t.y_expand = s.y_expand /\ t.y_add = s.y_add /\ t.y_sub = s.y_sub
      /\ t.src_y = s.src_y /\ t.dst_y = s.dst_y + 1
      /\ t.y_accum = s.y_accum + s.y_add
  BY DEF ExportRow
<1>3. Balance(t) = Balance(s) + s.y_add
  <2>1. (s.dst_y + 1) * s.y_add = s.dst_y * s.y_add + s.y_add
    BY OneMore, BalancedTypes
  <2>2. s.src_y * s.y_sub \in Int /\ s.dst_y * s.y_add \in Int
    BY BalancedTypes
  <2> QED
    BY <1>2, <2>1, <2>2, BalancedTypes DEF Balance
<1>4. t.y_accum = Balance(t)
  BY <1>2, <1>3 DEF IsBalanced
<1>5. t.dst_y <= t.dst_height
  BY <1>2, BalancedTypes DEF HasPendingOutput, OutputDone
<1>6. IsBalanced(t)
  BY <1>2, <1>4, <1>5, BalancedTypes DEF IsBalanced
<1> QED
  BY <1>1, <1>6

(* A product of naturals is not negative.                                    *)
LEMMA Product == \A a, b \in Nat : a * b >= 0
  OBVIOUS

(* When all of the input is in, and nothing is pending, all of the output   *)
(* is out: no row is lost, and no row is asked for past the end.            *)
THEOREM NothingIsLeft ==
  ASSUME NEW s, IsBalanced(s), s.src_y >= s.src_height, ~HasPendingOutput(s)
  PROVE  OutputDone(s)
<1> DEFINE src == s.src_height
           dst == s.dst_height
<1> SUFFICES ASSUME s.dst_y < dst PROVE FALSE
  BY BalancedTypes DEF OutputDone
<1>1. s.y_accum > 0
  BY BalancedTypes DEF HasPendingOutput, OutputDone
<1>2. CASE s.y_expand
  <2>1. s.y_add = src - 1 /\ s.y_sub = dst - 1
    BY <1>2 DEF IsBalanced
  <2>2. s.y_accum = (dst - 1) - s.src_y * (dst - 1) + s.dst_y * (src - 1)
    BY <1>2, <2>1 DEF IsBalanced, Balance
  <2>3. PICK over \in Nat : s.src_y = src + over
    <3>1. s.src_y - src \in Nat /\ s.src_y = src + (s.src_y - src)
      BY BalancedTypes
    <3> QED
      BY <3>1
  <2>4. PICK rest \in Nat : s.dst_y + rest = dst - 1
    <3>1. dst - 1 - s.dst_y \in Nat /\ s.dst_y + (dst - 1 - s.dst_y) = dst - 1
      BY BalancedTypes
    <3> QED
      BY <3>1
  <2>5. PICK a \in Int, d \in Int, k \in Int : a = src - 1 /\ d = dst - 1 /\ k = s.dst_y
    BY BalancedTypes
  <2>6. s.y_accum = 0 - over * (dst - 1) - rest * (src - 1)
    <3>1. s.y_accum = d - (a + 1 + over) * d + k * a
      <4>1. a + 1 + over = s.src_y
        BY <2>3, <2>5, BalancedTypes
      <4> QED
        BY <2>2, <2>5, <4>1
    <3>2. d - (a + 1 + over) * d + k * a = 0 - over * d - rest * a
      <4>1. k = d - rest
        BY <2>4, <2>5
      <4>2. d - (a + 1 + over) * d + (d - rest) * a = 0 - over * d - rest * a
        OBVIOUS
      <4> QED
        BY <4>1, <4>2
    <3> QED
      BY <2>5, <3>1, <3>2
  <2>7. over * (dst - 1) >= 0 /\ rest * (src - 1) >= 0
    BY Product, BalancedTypes
  <2>8. over * (dst - 1) \in Int /\ rest * (src - 1) \in Int
    BY BalancedTypes
  <2> QED
    BY <1>1, <2>6, <2>7, <2>8
<1>3. CASE ~s.y_expand
  <2>1. s.y_add = src /\ s.y_sub = dst
    BY <1>3 DEF IsBalanced
  <2>2. s.y_accum = src - s.src_y * dst + s.dst_y * src
    BY <1>3, <2>1 DEF IsBalanced, Balance
  <2>3. PICK over \in Nat : s.src_y = src + over
    <3>1. s.src_y - src \in Nat /\ s.src_y = src + (s.src_y - src)
      BY BalancedTypes
    <3> QED
      BY <3>1
  <2>4. PICK rest \in Nat : s.dst_y + 1 + rest = dst
    <3>1. dst - 1 - s.dst_y \in Nat /\ s.dst_y + 1 + (dst - 1 - s.dst_y) = dst
      BY BalancedTypes
    <3> QED
      BY <3>1
  <2>5. PICK a \in Int, d \in Int, k \in Int : a = src /\ d = dst /\ k = s.dst_y
    BY BalancedTypes
  <2>6. s.y_accum = 0 - over * dst - rest * src
    <3>1. s.y_accum = a - (a + over) * d + k * a
      BY <2>2, <2>3, <2>5
    <3>2. a - (a + over) * d + k * a = 0 - over * d - rest * a
      <4>1. k = d - 1 - rest
        BY <2>4, <2>5
      <4>2. a - (a + over) * d + (d - 1 - rest) * a = 0 - over * d - rest * a
        OBVIOUS
      <4> QED
        BY <4>1, <4>2
    <3> QED
      BY <2>5, <3>1, <3>2
  <2>7. over * dst >= 0 /\ rest * src >= 0
    BY Product, BalancedTypes
  <2>8. over * dst \in Int /\ rest * src \in Int
    BY BalancedTypes
  <2> QED
    BY <1>1, <2>6, <2>7, <2>8
<1> QED
  BY <1>2, <1>3

(* EmitRescaledRGB exports while luma and chroma both have a row: when both *)
(* are in, and one has none, all the rows of both are out.                  *)
THEOREM ScalersEndTogether ==
  ASSUME NEW y, NEW u, IsBalanced(y), IsBalanced(u),
         y.dst_height = u.dst_height, y.dst_y = u.dst_y,
         y.src_y >= y.src_height, u.src_y >= u.src_height,
         ~(HasPendingOutput(y) /\ HasPendingOutput(u))
  PROVE  OutputDone(y) /\ OutputDone(u)
  BY NothingIsLeft DEF OutputDone

-----------------------------------------------------------------------------
(* Products of numbers that are not constants.                               *)
LEMMA Times ==
  /\ \A a, b \in Nat : a * b \in Nat
  /\ \A a, b \in Int : a * b \in Int
  /\ \A a, b \in Int : (a + 1) * b = a * b + b
  /\ \A a, b \in Int : (a - 1) * b = a * b - b
  /\ \A a, b \in Int : a * (b + 1) = a * b + a
  /\ \A a, b \in Int : a * (b - 1) = a * b - a
  OBVIOUS

(* A product grows with its first factor.                                    *)
LEMMA TimesGrows == \A a, b \in Int : \A c \in Nat : a <= b => a * c <= b * c
<1> SUFFICES ASSUME NEW a \in Int, NEW b \in Int, NEW c \in Nat, a <= b
             PROVE  a * c <= b * c
  OBVIOUS
<1>1. PICK d \in Nat : b = a + d
  <2>1. b - a \in Nat /\ b = a + (b - a)
    OBVIOUS
  <2> QED BY <2>1
<1>2. b * c = a * c + d * c /\ d * c \in Nat /\ a * c \in Int
  BY <1>1
<1> QED BY <1>2

-----------------------------------------------------------------------------
(* A scaler of src rows to dst has a row ready when m are in and k are out.  *)
Ready(src, dst, m, k) ==
  /\ k < dst
  /\ IF src < dst THEN k * (src - 1) <= (m - 1) * (dst - 1)
     ELSE (k + 1) * src <= m * dst

(* It takes no row while one is ready, and gives none before.                *)
Fits(src, dst, m, k) ==
  /\ m \in 0..src /\ k \in 0..dst
  /\ m > 0 => ~Ready(src, dst, m - 1, k)
  /\ k > 0 => Ready(src, dst, m, k - 1)

(* The scaler then.                                                          *)
RowWhole(src, dst, y) ==
  [r \in 0..src - 1 |-> IF r = y THEN (IF src < dst THEN dst - 1 ELSE dst) ELSE 0]

(* What of the rows that are in lies behind the k rows that are out.         *)
Rest(src, dst, m, k) ==
  [r \in 0..src - 1 |-> IF r < m THEN MaxOf(0, (r + 1) * dst - MaxOf(r * dst, k * src))
                        ELSE 0]

Accum(src, dst, m, k) ==
  IF src < dst THEN k * (src - 1) - (m - 1) * (dst - 1) ELSE (k + 1) * src - m * dst

ScalerAt(src, dst, m, k) ==
  [src_height |-> src, dst_height |-> dst, y_expand |-> src < dst,
   y_add |-> IF src < dst THEN src - 1 ELSE src,
   y_sub |-> IF src < dst THEN dst - 1 ELSE dst,
   y_accum |-> Accum(src, dst, m, k), src_y |-> m, dst_y |-> k,
   irow |-> IF src < dst THEN RowWhole(src, dst, m - 2) ELSE Rest(src, dst, m, k),
   frow |-> RowWhole(src, dst, m - 1)]

(* The fields of a scaler that has taken m rows and given k.                 *)
LEMMA ScalerFields ==
  ASSUME NEW src, NEW dst, NEW m, NEW k, NEW s, s = ScalerAt(src, dst, m, k)
  PROVE  /\ s.src_height = src /\ s.dst_height = dst /\ s.y_expand = (src < dst)
         /\ s.y_add = (IF src < dst THEN src - 1 ELSE src)
         /\ s.y_sub = (IF src < dst THEN dst - 1 ELSE dst)
         /\ s.y_accum = Accum(src, dst, m, k) /\ s.src_y = m /\ s.dst_y = k
         /\ s.irow = (IF src < dst THEN RowWhole(src, dst, m - 2) ELSE Rest(src, dst, m, k))
         /\ s.frow = RowWhole(src, dst, m - 1)
  BY DEF ScalerAt

(* A row that is ready stays so when more rows come in, and so do the rows   *)
(* before it.                                                                *)
LEMMA ReadyGrows ==
  ASSUME NEW src \in Nat \ {0}, NEW dst \in Nat \ {0}, NEW m \in Int, NEW n \in Int,
         NEW k \in Nat, NEW l \in Nat, m <= n, l <= k, Ready(src, dst, m, k)
  PROVE  Ready(src, dst, n, l)
<1>1. CASE src < dst
  <2>1. k * (src - 1) <= (m - 1) * (dst - 1) /\ k < dst
    BY <1>1 DEF Ready
  <2>2. l * (src - 1) <= k * (src - 1) /\ (m - 1) * (dst - 1) <= (n - 1) * (dst - 1)
    BY TimesGrows
  <2>3. /\ l * (src - 1) \in Int /\ k * (src - 1) \in Int
        /\ (m - 1) * (dst - 1) \in Int /\ (n - 1) * (dst - 1) \in Int
    OBVIOUS
  <2>4. l * (src - 1) <= (n - 1) * (dst - 1) /\ l < dst
    BY <2>1, <2>2, <2>3
  <2> QED BY <1>1, <2>4 DEF Ready
<1>2. CASE ~(src < dst)
  <2>1. (k + 1) * src <= m * dst /\ k < dst
    BY <1>2 DEF Ready
  <2>2. (l + 1) * src <= (k + 1) * src /\ m * dst <= n * dst
    BY TimesGrows
  <2>3. /\ (l + 1) * src \in Int /\ (k + 1) * src \in Int
        /\ m * dst \in Int /\ n * dst \in Int
    OBVIOUS
  <2>4. (l + 1) * src <= n * dst /\ l < dst
    BY <2>1, <2>2, <2>3
  <2> QED BY <1>2, <2>4 DEF Ready
<1> QED BY <1>1, <1>2

(* With all of the rows in, all that are not out are ready; none before any  *)
(* is in.                                                                    *)
LEMMA ReadyEnds ==
  ASSUME NEW src \in Nat \ {0}, NEW dst \in Nat \ {0}
  PROVE  /\ \A k \in 0..dst - 1 : Ready(src, dst, src, k)
         /\ \A k \in Nat : ~Ready(src, dst, 0, k)
         /\ \A m \in Nat : m < src => ~Ready(src, dst, m, dst - 1)
<1>1. ASSUME NEW k \in 0..dst - 1 PROVE Ready(src, dst, src, k)
  <2>1. CASE src < dst
    <3>1. k * (src - 1) <= (dst - 1) * (src - 1)
      BY TimesGrows
    <3>2. (dst - 1) * (src - 1) = (src - 1) * (dst - 1)
      OBVIOUS
    <3> QED BY <2>1, <3>1, <3>2 DEF Ready
  <2>2. CASE ~(src < dst)
    <3>1. (k + 1) * src <= dst * src
      BY TimesGrows
    <3>2. dst * src = src * dst
      OBVIOUS
    <3> QED BY <2>2, <3>1, <3>2 DEF Ready
  <2> QED BY <2>1, <2>2
<1>2. ASSUME NEW k \in Nat, Ready(src, dst, 0, k) PROVE FALSE
  <2>1. CASE src < dst
    <3>1. k * (src - 1) \in Nat /\ (0 - 1) * (dst - 1) = 1 - dst
      OBVIOUS
    <3> QED BY <1>2, <2>1, <3>1 DEF Ready
  <2>2. CASE ~(src < dst)
    <3>1. (k + 1) * src = k * src + src /\ k * src \in Nat /\ 0 * dst = 0
      OBVIOUS
    <3> QED BY <1>2, <2>2, <3>1 DEF Ready
  <2> QED BY <2>1, <2>2
<1>3. ASSUME NEW m \in Nat, m < src, Ready(src, dst, m, dst - 1) PROVE FALSE
  <2>0. PICK d \in Nat : src = m + 1 + d
    <3>1. src - 1 - m \in Nat /\ src = m + 1 + (src - 1 - m)
      BY <1>3
    <3> QED BY <3>1
  <2>1. CASE src < dst
    <3>1. (dst - 1) * (src - 1) <= (m - 1) * (dst - 1)
      BY <1>3, <2>1 DEF Ready
    <3>2. (dst - 1) * (src - 1) = (m - 1) * (dst - 1) + (dst - 1) + d * (dst - 1)
      BY <2>0
    <3>3. d * (dst - 1) \in Nat /\ (m - 1) * (dst - 1) \in Int
      OBVIOUS
    <3> QED BY <2>1, <3>1, <3>2, <3>3
  <2>2. CASE ~(src < dst)
    <3>1. (dst - 1 + 1) * src <= m * dst
      BY <1>3, <2>2 DEF Ready
    <3>2. (dst - 1 + 1) * src = m * dst + dst + d * dst
      BY <2>0
    <3>3. d * dst \in Nat /\ m * dst \in Int
      OBVIOUS
    <3> QED BY <3>1, <3>2, <3>3
  <2> QED BY <2>1, <2>2
<1> QED BY <1>1, <1>2, <1>3

(* All the rows are out only when all of them are in.                        *)
LEMMA FitsAtEnd ==
  ASSUME NEW src \in Nat \ {0}, NEW dst \in Nat \ {0}, NEW m, NEW k, Fits(src, dst, m, k)
  PROVE  /\ m \in Nat /\ k \in Nat /\ m <= src /\ k <= dst
         /\ k = dst => m = src
         /\ m = src /\ ~Ready(src, dst, m, k) => k = dst
  BY ReadyEnds DEF Fits

-----------------------------------------------------------------------------
\* A scaler, as a function of the rows that came in and went out.
(* WebPRescalerInit.                                                         *)
LEMMA InitScaler ==
  ASSUME NEW src \in Nat \ {0}, NEW dst \in Nat \ {0}
  PROVE  /\ WebPRescalerInit(src, dst) = ScalerAt(src, dst, 0, 0)
         /\ Fits(src, dst, 0, 0)
<1>1. Accum(src, dst, 0, 0) = IF src < dst THEN dst - 1 ELSE src
  <2>1. 0 * (src - 1) = 0 /\ (0 - 1) * (dst - 1) = 1 - dst /\ (0 + 1) * src = src /\ 0 * dst = 0
    OBVIOUS
  <2> QED BY <2>1 DEF Accum
<1>2. RowWhole(src, dst, 0 - 1) = Nothing(src) /\ RowWhole(src, dst, 0 - 2) = Nothing(src)
  BY DEF RowWhole, Nothing
<1>3. Rest(src, dst, 0, 0) = Nothing(src)
  BY DEF Rest, Nothing
<1>4. WebPRescalerInit(src, dst) = ScalerAt(src, dst, 0, 0)
  BY <1>1, <1>2, <1>3 DEF WebPRescalerInit, ScalerAt
<1> QED BY <1>4 DEF Fits

(* y_accum is a number.                                                      *)
LEMMA AccumType ==
  ASSUME NEW src \in Nat \ {0}, NEW dst \in Nat \ {0}, NEW m \in Int, NEW k \in Int
  PROVE  Accum(src, dst, m, k) \in Int
<1>1. /\ k * (src - 1) \in Int /\ (m - 1) * (dst - 1) \in Int
      /\ (k + 1) * src \in Int /\ m * dst \in Int
  OBVIOUS
<1> QED BY <1>1 DEF Accum

(* A row is ready when y_accum has come down to 0.                           *)
LEMMA ReadyIsAccum ==
  ASSUME NEW src \in Nat \ {0}, NEW dst \in Nat \ {0}, NEW m \in Int, NEW k \in Nat
  PROVE  Ready(src, dst, m, k) <=> k < dst /\ Accum(src, dst, m, k) <= 0
<1>1. /\ k * (src - 1) \in Int /\ (m - 1) * (dst - 1) \in Int
      /\ (k + 1) * src \in Int /\ m * dst \in Int
  OBVIOUS
<1> QED BY <1>1 DEF Accum, Ready

(* WebPRescalerHasPendingOutput, y_accum <= 0 in rescaler.h, says that a row *)
(* is ready, and nothing else.                                               *)
LEMMA PendingIsReady ==
  ASSUME NEW src \in Nat \ {0}, NEW dst \in Nat \ {0}, NEW m \in Int, NEW k \in Nat
  PROVE  HasPendingOutput(ScalerAt(src, dst, m, k)) <=> Ready(src, dst, m, k)
<1> DEFINE s == ScalerAt(src, dst, m, k)
<1>1. s.dst_y = k /\ s.dst_height = dst /\ s.y_accum = Accum(src, dst, m, k)
  BY DEF ScalerAt
<1>2. k < dst <=> ~(k >= dst)
  OBVIOUS
<1> HIDE DEF s
<1> QED BY <1>1, <1>2, ReadyIsAccum DEF HasPendingOutput, OutputDone, s

YSub(src, dst) == IF src < dst THEN dst - 1 ELSE dst
YAdd(src, dst) == IF src < dst THEN src - 1 ELSE src

(* A row that comes in takes y_sub off y_accum.                              *)
LEMMA AccumIn ==
  ASSUME NEW src \in Nat \ {0}, NEW dst \in Nat \ {0}, NEW m \in Int, NEW k \in Int
  PROVE  Accum(src, dst, m + 1, k) = Accum(src, dst, m, k) - YSub(src, dst)
<1>1. /\ k * (src - 1) \in Int /\ (m - 1) * (dst - 1) \in Int
      /\ (k + 1) * src \in Int /\ m * dst \in Int
  OBVIOUS
<1>2. /\ (m + 1 - 1) * (dst - 1) = (m - 1) * (dst - 1) + (dst - 1)
      /\ (m + 1) * dst = m * dst + dst
  OBVIOUS
<1> QED BY <1>1, <1>2 DEF Accum, YSub

(* A row that goes out puts y_add on it.                                     *)
LEMMA AccumOut ==
  ASSUME NEW src \in Nat \ {0}, NEW dst \in Nat \ {0}, NEW m \in Int, NEW k \in Int
  PROVE  Accum(src, dst, m, k + 1) = Accum(src, dst, m, k) + YAdd(src, dst)
<1>1. /\ k * (src - 1) \in Int /\ (m - 1) * (dst - 1) \in Int
      /\ (k + 1) * src \in Int /\ m * dst \in Int
  OBVIOUS
<1>2. /\ (k + 1) * (src - 1) = k * (src - 1) + (src - 1)
      /\ (k + 1 + 1) * src = (k + 1) * src + src
  OBVIOUS
<1> QED BY <1>1, <1>2 DEF Accum, YAdd

(* A row comes in: row m.                                                    *)
LEMMA ImportScaler ==
  ASSUME NEW src \in Nat \ {0}, NEW dst \in Nat \ {0}, NEW m \in Nat, NEW k \in Nat,
         m < src, Fits(src, dst, m, k), ~Ready(src, dst, m, k)
  PROVE  /\ ImportRow(ScalerAt(src, dst, m, k), m) = ScalerAt(src, dst, m + 1, k)
         /\ Fits(src, dst, m + 1, k)
<1> DEFINE s == ScalerAt(src, dst, m, k)
           new == Whole(s, m)
           in == IF s.y_expand THEN s.frow ELSE [r \in DOMAIN s.irow |-> s.irow[r] + new[r]]
<1>1. new = RowWhole(src, dst, m + 1 - 1)
  BY DEF Whole, RowWhole, ScalerAt
<1>2. in = IF src < dst THEN RowWhole(src, dst, m + 1 - 2) ELSE Rest(src, dst, m + 1, k)
  <2>1. CASE src < dst
    <3>1. s.frow = RowWhole(src, dst, m - 1) /\ s.y_expand = (src < dst)
      BY DEF ScalerAt
    <3>2. m - 1 = m + 1 - 2
      OBVIOUS
    <3> HIDE DEF s
    <3>3. in = s.frow
      BY <2>1, <3>1
    <3> QED BY <2>1, <3>1, <3>2, <3>3
  <2>2. CASE ~(src < dst)
    <3>1. in = [r \in 0..src - 1 |-> Rest(src, dst, m, k)[r] + new[r]]
      <4>1. s.irow = Rest(src, dst, m, k) /\ ~s.y_expand
        BY <2>2 DEF ScalerAt
      <4>2. DOMAIN Rest(src, dst, m, k) = 0..src - 1
        BY DEF Rest
      <4> QED BY <4>1, <4>2
    <3>2. k * src <= m * dst
      <4>1. CASE k = 0
        <5>1. k * src = 0 /\ m * dst \in Nat
          BY <4>1
        <5> QED BY <5>1
      <4>2. CASE k > 0
        <5>1. Ready(src, dst, m, k - 1)
          BY <4>2 DEF Fits
        <5>2. (k - 1 + 1) * src <= m * dst /\ k - 1 + 1 = k
          BY <2>2, <5>1 DEF Ready
        <5> QED BY <5>2
      <4> QED BY <4>1, <4>2
    <3>3. ASSUME NEW r \in 0..src - 1
          PROVE  Rest(src, dst, m, k)[r] + new[r] = Rest(src, dst, m + 1, k)[r]
      <4>0. new[r] = IF r = m THEN dst ELSE 0
        BY <1>1, <2>2 DEF RowWhole
      <4>1. /\ Rest(src, dst, m, k)[r] = (IF r < m THEN MaxOf(0, (r + 1) * dst - MaxOf(r * dst, k * src)) ELSE 0)
            /\ Rest(src, dst, m + 1, k)[r] = (IF r < m + 1 THEN MaxOf(0, (r + 1) * dst - MaxOf(r * dst, k * src)) ELSE 0)
        BY DEF Rest
      <4>2. (r + 1) * dst \in Int /\ r * dst \in Int /\ k * src \in Int /\ (r + 1) * dst = r * dst + dst
        OBVIOUS
      <4>3. MaxOf(0, (r + 1) * dst - MaxOf(r * dst, k * src)) \in Int
        BY <4>2 DEF MaxOf
      <4>4. CASE r = m
        <5>1. MaxOf(0, (r + 1) * dst - MaxOf(r * dst, k * src)) = dst
          BY <3>2, <4>2, <4>4 DEF MaxOf
        <5> QED BY <4>0, <4>1, <4>4, <5>1
      <4>5. CASE r # m
        BY <4>0, <4>1, <4>3, <4>5
      <4> QED BY <4>4, <4>5
    <3>4. Rest(src, dst, m + 1, k) = [r \in 0..src - 1 |-> Rest(src, dst, m + 1, k)[r]]
      BY DEF Rest
    <3> HIDE DEF in, new
    <3>5. in = Rest(src, dst, m + 1, k)
      BY <3>1, <3>3, <3>4
    <3> QED BY <2>2, <3>5
  <2> QED BY <2>1, <2>2
<1>3. ImportRow(s, m) = ScalerAt(src, dst, m + 1, k)
  <2>1. ImportRow(s, m) = [s EXCEPT !.frow = new, !.irow = in, !.src_y = s.src_y + 1,
                                    !.y_accum = s.y_accum - s.y_sub]
    BY DEF ImportRow
  <2>2. s.y_accum - s.y_sub = Accum(src, dst, m + 1, k) /\ s.src_y + 1 = m + 1
    <3>1. /\ s.y_accum = Accum(src, dst, m, k) /\ s.src_y = m
          /\ s.y_sub = YSub(src, dst)
      BY DEF ScalerAt, YSub
    <3> HIDE DEF s
    <3>2. Accum(src, dst, m + 1, k) = Accum(src, dst, m, k) - YSub(src, dst)
      <4>1. m \in Int /\ k \in Int
        OBVIOUS
      <4> QED BY <4>1, AccumIn
    <3>3. s.y_accum - s.y_sub = Accum(src, dst, m + 1, k)
      BY <3>1, <3>2
    <3> QED BY <3>1, <3>3
  <2> HIDE DEF in, new
  <2>3. ImportRow(s, m) = [s EXCEPT !.frow = new, !.irow = in, !.src_y = m + 1,
                                    !.y_accum = Accum(src, dst, m + 1, k)]
    BY <2>1, <2>2
  <2> DEFINE e == src < dst
             a == IF src < dst THEN src - 1 ELSE src
             b == IF src < dst THEN dst - 1 ELSE dst
             c == Accum(src, dst, m + 1, k)
  <2>4. ScalerAt(src, dst, m + 1, k) =
          [src_height |-> src, dst_height |-> dst, y_expand |-> e, y_add |-> a, y_sub |-> b,
           y_accum |-> c, src_y |-> m + 1, dst_y |-> k, irow |-> in, frow |-> new]
    BY <1>1, <1>2 DEF ScalerAt
  <2>5. PICK d, i, f : s =
          [src_height |-> src, dst_height |-> dst, y_expand |-> e, y_add |-> a, y_sub |-> b,
           y_accum |-> d, src_y |-> m, dst_y |-> k, irow |-> i, frow |-> f]
    BY DEF ScalerAt
  <2>6. ImportRow(s, m) = [s EXCEPT !.frow = new, !.irow = in, !.src_y = m + 1, !.y_accum = c]
    BY <2>3
  <2> HIDE DEF s, a, b, c, e
  <2> QED BY <2>4, <2>5, <2>6
<1>4. Fits(src, dst, m + 1, k)
  <2>1. k > 0 => Ready(src, dst, m + 1, k - 1)
    BY ReadyGrows DEF Fits
  <2>2. m + 1 - 1 = m /\ m + 1 \in 0..src
    OBVIOUS
  <2> QED BY <2>1, <2>2 DEF Fits
<1> QED BY <1>3, <1>4

(* Division undoes multiplication.                                           *)
LEMMA Quotient ==
  /\ \A d \in Nat \ {0}, x \in Int : (d * x) \div d = x
  /\ \A d \in Nat \ {0} : 0 \div d = 0
<1>1. ASSUME NEW d \in Nat \ {0}, NEW x \in Int PROVE (d * x) \div d = x
  <2> DEFINE q == (d * x) \div d
  <2>1. q \in Int /\ d * q <= d * x /\ d * x < d * (q + 1)
    <3>1. d * x \in Int
      OBVIOUS
    <3>2. \A n \in Int : n \div d \in Int /\ d * (n \div d) <= n /\ n < d * (n \div d) + d
      OBVIOUS
    <3>3. d * (q + 1) = d * q + d
      BY <3>1, <3>2
    <3> HIDE DEF q
    <3> QED BY <3>1, <3>2, <3>3 DEF q
  <2> HIDE DEF q
  <2>2. CASE x < q
    <3>1. PICK e \in Nat : q = x + 1 + e
      <4>1. q - x - 1 \in Nat /\ q = x + 1 + (q - x - 1)
        BY <2>1, <2>2
      <4> QED BY <4>1
    <3>2. d * q = d * x + d + d * e /\ d * e \in Nat /\ d * x \in Int
      BY <3>1
    <3> QED BY <2>1, <3>2
  <2>3. CASE q < x
    <3>1. PICK e \in Nat : x = q + 1 + e
      <4>1. x - q - 1 \in Nat /\ x = q + 1 + (x - q - 1)
        BY <2>1, <2>3
      <4> QED BY <4>1
    <3>2. d * x = d * (q + 1) + d * e /\ d * e \in Nat /\ d * (q + 1) \in Int
      BY <2>1, <3>1
    <3> QED BY <2>1, <3>2
  <2>4. q = x
    BY <2>1, <2>2, <2>3
  <2> QED BY <2>4 DEF q
<1>2. ASSUME NEW d \in Nat \ {0} PROVE 0 \div d = 0
  <2>1. (d * 0) \div d = 0 /\ d * 0 = 0
    BY <1>1
  <2> QED BY <2>1
<1> QED BY <1>1, <1>2

(* y_accum when a row is ready.                                              *)
LEMMA AccumReady ==
  ASSUME NEW src \in Nat \ {0}, NEW dst \in Nat \ {0}, NEW m \in Nat, NEW k \in Nat,
         Fits(src, dst, m, k), Ready(src, dst, m, k)
  PROVE  /\ Accum(src, dst, m, k) <= 0 /\ 0 < Accum(src, dst, m, k) + YSub(src, dst)
         /\ m > 0 /\ k < dst /\ Accum(src, dst, m, k) \in Int
         /\ YSub(src, dst) \in Nat \ {0}
<1>0. m \in Int /\ k \in Int /\ m - 1 \in Int /\ m - 1 + 1 = m
  OBVIOUS
<1>1. Accum(src, dst, m, k) <= 0 /\ k < dst
  BY <1>0, ReadyIsAccum
<1>2. m > 0
  BY ReadyEnds
<1>3. ~Ready(src, dst, m - 1, k)
  BY <1>2 DEF Fits
<1>4. ~(Accum(src, dst, m - 1, k) <= 0)
  BY <1>0, <1>1, <1>3, ReadyIsAccum
<1>5. Accum(src, dst, m, k) = Accum(src, dst, m - 1, k) - YSub(src, dst)
  <2>1. \A a \in Int : Accum(src, dst, a + 1, k) = Accum(src, dst, a, k) - YSub(src, dst)
    BY <1>0, AccumIn
  <2>2. Accum(src, dst, m - 1 + 1, k) = Accum(src, dst, m - 1, k) - YSub(src, dst)
    BY <1>0, <2>1
  <2> QED BY <1>0, <2>2
<1>6. Accum(src, dst, m, k) \in Int /\ Accum(src, dst, m - 1, k) \in Int
  BY <1>0, AccumType
<1>7. YSub(src, dst) \in Nat \ {0}
  BY DEF YSub
<1> QED BY <1>1, <1>2, <1>4, <1>5, <1>6, <1>7

(* A row that holds all of one row of the source, in units of y_sub: its     *)
(* share there,                                                              *)
LEMMA WholeAt ==
  ASSUME NEW src \in Nat \ {0}, NEW dst \in Nat \ {0}, NEW y \in 0..src - 1, NEW x \in Int
  PROVE  /\ RowWhole(src, dst, y)[y] * x = YSub(src, dst) * x
         /\ (RowWhole(src, dst, y)[y] * x) \div YSub(src, dst) = x
<1>1. RowWhole(src, dst, y)[y] = YSub(src, dst)
  BY DEF RowWhole, YSub
<1>2. YSub(src, dst) \in Nat \ {0}
  BY DEF YSub
<1>3. (YSub(src, dst) * x) \div YSub(src, dst) = x
  BY <1>2, Quotient
<1> QED BY <1>1, <1>3

(* and its share of every other row.                                         *)
LEMMA WholeElsewhere ==
  ASSUME NEW src \in Nat \ {0}, NEW dst \in Nat \ {0}, NEW y \in Int, NEW x \in Int,
         NEW r \in 0..src - 1, r # y
  PROVE  /\ RowWhole(src, dst, y)[r] * x = 0
         /\ (RowWhole(src, dst, y)[r] * x) \div YSub(src, dst) = 0
<1>1. RowWhole(src, dst, y)[r] = 0
  BY DEF RowWhole
<1>2. 0 * x = 0 /\ YSub(src, dst) \in Nat \ {0}
  BY DEF YSub
<1>3. 0 \div YSub(src, dst) = 0
  BY <1>2, Quotient
<1> QED BY <1>1, <1>2, <1>3

(* What is left of the last row in.                                          *)
LEMMA FractionIsRest ==
  ASSUME NEW src \in Nat \ {0}, NEW dst \in Nat \ {0}, NEW m \in Nat, NEW k \in Nat,
         Fits(src, dst, m, k), Ready(src, dst, m, k), ~(src < dst)
  PROVE  /\ Fraction(ScalerAt(src, dst, m, k)) = Rest(src, dst, m, k + 1)
         /\ \A r \in 0..src - 1 : Rest(src, dst, m, k + 1)[r]
                                    = IF r = m - 1 THEN 0 - Accum(src, dst, m, k) ELSE 0
<1> DEFINE s == ScalerAt(src, dst, m, k)
           A == Accum(src, dst, m, k)
<1>0. /\ A <= 0 /\ 0 < A + YSub(src, dst) /\ m > 0 /\ A \in Int
      /\ YSub(src, dst) \in Nat \ {0} /\ YSub(src, dst) = dst
  BY AccumReady DEF YSub
<1>1. Fraction(s) = [r \in 0..src - 1 |->
                       (RowWhole(src, dst, m - 1)[r] * (-A)) \div YSub(src, dst)]
  <2>1. s.frow = RowWhole(src, dst, m - 1) /\ s.y_accum = A /\ s.y_sub = YSub(src, dst)
    BY DEF ScalerAt, YSub
  <2>2. DOMAIN RowWhole(src, dst, m - 1) = 0..src - 1
    BY DEF RowWhole
  <2> HIDE DEF s, A
  <2> QED BY <2>1, <2>2 DEF Fraction
<1>2. A = (k + 1) * src - m * dst
  BY DEF Accum
<1> HIDE DEF A
<1>3. ASSUME NEW r \in 0..src - 1
      PROVE  /\ (RowWhole(src, dst, m - 1)[r] * (-A)) \div YSub(src, dst)
                  = (IF r = m - 1 THEN 0 - A ELSE 0)
             /\ Rest(src, dst, m, k + 1)[r] = (IF r = m - 1 THEN 0 - A ELSE 0)
  <2>1. (RowWhole(src, dst, m - 1)[r] * (-A)) \div YSub(src, dst)
          = (IF r = m - 1 THEN -A ELSE 0)
    <3>1. PICK x \in Int, y \in Int : x = -A /\ y = m - 1
      BY <1>0
    <3>2. r = y => (RowWhole(src, dst, y)[r] * x) \div YSub(src, dst) = x
      BY WholeAt
    <3>3. r # y => (RowWhole(src, dst, y)[r] * x) \div YSub(src, dst) = 0
      <4> SUFFICES ASSUME r # y
                   PROVE  (RowWhole(src, dst, y)[r] * x) \div YSub(src, dst) = 0
        OBVIOUS
      <4>1. RowWhole(src, dst, y)[r] = 0
        BY DEF RowWhole
      <4>2. 0 * x = 0
        OBVIOUS
      <4>3. 0 \div YSub(src, dst) = 0
        BY <1>0, Quotient
      <4> QED BY <4>1, <4>2, <4>3
    <3> QED BY <3>1, <3>2, <3>3
  <2>2. -A = 0 - A
    BY <1>0
  <2>3. Rest(src, dst, m, k + 1)[r]
          = IF r < m THEN MaxOf(0, (r + 1) * dst - MaxOf(r * dst, (k + 1) * src)) ELSE 0
    BY DEF Rest
  <2>4. /\ (r + 1) * dst = r * dst + dst /\ r * dst \in Nat /\ m * dst \in Nat
        /\ (k + 1) * src \in Nat
    OBVIOUS
  <2>5. CASE r = m - 1
    <3>1. (r + 1) * dst = m * dst
      BY <2>5
    <3>2. MaxOf(r * dst, (k + 1) * src) = (k + 1) * src
      BY <1>0, <1>2, <2>4, <3>1 DEF MaxOf
    <3>3. MaxOf(0, (r + 1) * dst - (k + 1) * src) = 0 - A
      BY <1>0, <1>2, <2>4, <3>1 DEF MaxOf
    <3> QED BY <2>1, <2>2, <2>3, <2>5, <3>2, <3>3
  <2>6. CASE r < m - 1
    <3>1. (r + 1) * dst <= (m - 1) * dst /\ (m - 1) * dst = m * dst - dst
      BY <2>6, TimesGrows
    <3>2. (r + 1) * dst < (k + 1) * src
      BY <1>0, <1>2, <2>4, <3>1
    <3>3. MaxOf(0, (r + 1) * dst - MaxOf(r * dst, (k + 1) * src)) = 0
      BY <2>4, <3>2 DEF MaxOf
    <3> QED BY <2>1, <2>3, <2>6, <3>3
  <2>7. CASE r >= m
    BY <2>1, <2>3, <2>7
  <2> QED BY <2>5, <2>6, <2>7
<1>4. Rest(src, dst, m, k + 1) = [r \in 0..src - 1 |-> Rest(src, dst, m, k + 1)[r]]
  BY DEF Rest
<1>5. Fraction(s) = Rest(src, dst, m, k + 1)
  BY <1>1, <1>3, <1>4
<1> QED BY <1>3, <1>5 DEF A

(* After a row went out the scaler is where it may be: the next row was not  *)
(* ready too early.                                                          *)
LEMMA FitsOut ==
  ASSUME NEW src \in Nat \ {0}, NEW dst \in Nat \ {0}, NEW m \in Nat, NEW k \in Nat,
         Fits(src, dst, m, k), Ready(src, dst, m, k)
  PROVE  Fits(src, dst, m, k + 1)
<1>1. m \in 0..src /\ k + 1 \in 0..dst /\ k + 1 - 1 = k
  BY DEF Fits, Ready
<1>2. ASSUME m > 0, Ready(src, dst, m - 1, k + 1) PROVE FALSE
  <2>1. Ready(src, dst, m - 1, k)
    <3>1. m - 1 \in Int /\ k + 1 \in Nat /\ k <= k + 1 /\ m - 1 <= m - 1
      OBVIOUS
    <3> QED BY <1>2, <3>1, ReadyGrows
  <2> QED BY <1>2, <2>1 DEF Fits
<1> QED BY <1>1, <1>2 DEF Fits

(* A row goes out.                                                           *)
LEMMA ExportScaler ==
  ASSUME NEW src \in Nat \ {0}, NEW dst \in Nat \ {0}, NEW m \in Nat, NEW k \in Nat,
         Fits(src, dst, m, k), Ready(src, dst, m, k)
  PROVE  ExportRow(ScalerAt(src, dst, m, k)) = ScalerAt(src, dst, m, k + 1)
<1> DEFINE s == ScalerAt(src, dst, m, k)
           e == src < dst
           a == IF src < dst THEN src - 1 ELSE src
           b == IF src < dst THEN dst - 1 ELSE dst
           c == Accum(src, dst, m, k + 1)
           i == IF src < dst THEN RowWhole(src, dst, m - 2) ELSE Rest(src, dst, m, k + 1)
           f == RowWhole(src, dst, m - 1)
<1>1. ScalerAt(src, dst, m, k + 1) =
        [src_height |-> src, dst_height |-> dst, y_expand |-> e, y_add |-> a, y_sub |-> b,
         y_accum |-> c, src_y |-> m, dst_y |-> k + 1, irow |-> i, frow |-> f]
  BY DEF ScalerAt
<1>2. PICK d, j : s =
        [src_height |-> src, dst_height |-> dst, y_expand |-> e, y_add |-> a, y_sub |-> b,
         y_accum |-> d, src_y |-> m, dst_y |-> k, irow |-> j, frow |-> f]
  BY DEF ScalerAt
<1>3. s.y_accum + s.y_add = c
  <2>1. s.y_accum = Accum(src, dst, m, k) /\ s.y_add = YAdd(src, dst)
    BY DEF ScalerAt, YAdd
  <2>2. m \in Int /\ k \in Int
    OBVIOUS
  <2>3. Accum(src, dst, m, k + 1) = Accum(src, dst, m, k) + YAdd(src, dst)
    BY <2>2, AccumOut
  <2> HIDE DEF s
  <2> QED BY <2>1, <2>3
<1>4. (IF s.y_expand THEN s.irow ELSE Fraction(s)) = i
  <2>1. s.y_expand = (src < dst)
    BY DEF ScalerAt
  <2>2. CASE src < dst
    <3>1. s.irow = RowWhole(src, dst, m - 2)
      BY <2>2 DEF ScalerAt
    <3> HIDE DEF s
    <3> QED BY <2>1, <2>2, <3>1
  <2>3. CASE ~(src < dst)
    <3>1. Fraction(s) = Rest(src, dst, m, k + 1)
      BY <2>3, FractionIsRest
    <3> HIDE DEF s
    <3> QED BY <2>1, <2>3, <3>1
  <2> QED BY <2>2, <2>3
<1>5. s.dst_y + 1 = k + 1
  BY DEF ScalerAt
<1> HIDE DEF s, a, b, c, e, i, f
<1>6. ExportRow(s) = [s EXCEPT !.irow = i, !.y_accum = c, !.dst_y = k + 1]
  BY <1>3, <1>4, <1>5 DEF ExportRow
<1>7. ExportRow(s) = ScalerAt(src, dst, m, k + 1)
  BY <1>1, <1>2, <1>6
<1> QED BY <1>7 DEF s

(* It holds what scaling means: enlarged.                                    *)
LEMMA Division ==
  ASSUME NEW n \in Int, NEW d \in Nat \ {0}, NEW q \in Int, NEW r \in 0..d - 1,
         n = d * q + r
  PROVE  n \div d = q /\ n % d = r
<1> DEFINE p == n \div d
           t == n % d
<1>1. p \in Int /\ t \in 0..d - 1 /\ n = d * p + t
  OBVIOUS
<1> HIDE DEF p, t
<1>2. CASE p < q
  <2>1. PICK e \in Nat : q = p + 1 + e
    <3>1. q - p - 1 \in Nat /\ q = p + 1 + (q - p - 1)
      BY <1>1, <1>2
    <3> QED BY <3>1
  <2>2. d * q = d * p + d + d * e /\ d * e \in Nat /\ d * p \in Int
    BY <1>1, <2>1
  <2> QED BY <1>1, <2>2
<1>3. CASE q < p
  <2>1. PICK e \in Nat : p = q + 1 + e
    <3>1. p - q - 1 \in Nat /\ p = q + 1 + (p - q - 1)
      BY <1>1, <1>3
    <3> QED BY <3>1
  <2>2. d * p = d * q + d + d * e /\ d * e \in Nat /\ d * q \in Int
    BY <1>1, <2>1
  <2> QED BY <1>1, <2>2
<1>4. p = q
  BY <1>1, <1>2, <1>3
<1>5. t = r
  <2>1. d * p = d * q /\ d * q \in Int
    BY <1>4
  <2> QED BY <1>1, <2>1
<1> QED BY <1>4, <1>5 DEF p, t

(* WebPRescalerExportRowExpand: the row between the last two that came in,   *)
(* weighted by y_accum, holds the shares of bilinear interpolation.          *)
LEMMA ExportedEnlarged ==
  ASSUME NEW src \in Nat \ {0}, NEW dst \in Nat \ {0}, NEW m \in Nat, NEW k \in Nat,
         Fits(src, dst, m, k), Ready(src, dst, m, k), src < dst, NEW r \in 0..src - 1
  PROVE  (RowWhole(src, dst, m - 1)[r] * (YSub(src, dst) + Accum(src, dst, m, k))
            + RowWhole(src, dst, m - 2)[r] * (-Accum(src, dst, m, k))) \div YSub(src, dst)
           = Interpolated(k, r, src, dst)
<1> DEFINE A == Accum(src, dst, m, k)
           B == YSub(src, dst)
           at == (k * (src - 1)) \div (dst - 1)
           part == (k * (src - 1)) % (dst - 1)
<1>0. /\ A <= 0 /\ 0 < A + B /\ m > 0 /\ A \in Int
      /\ B \in Nat \ {0} /\ B = dst - 1
  BY AccumReady DEF YSub
<1>1. A = k * (src - 1) - (m - 1) * (dst - 1)
  BY DEF Accum
<1> SUFFICES (RowWhole(src, dst, m - 1)[r] * (B + A) + RowWhole(src, dst, m - 2)[r] * (-A)) \div B
               = Interpolated(k, r, src, dst)
  OBVIOUS
<1> HIDE DEF A, B
<1>2. k * (src - 1) \in Int /\ (m - 1) * (dst - 1) \in Int /\ B * (m - 1) \in Int
      /\ B * (m - 1) = (m - 1) * (dst - 1)
  BY <1>0
<1>3. PICK x \in Int, z \in Int, y \in Int, w \in Int :
        x = B + A /\ z = -A /\ y = m - 1 /\ w = m - 2
  BY <1>0
<1>4. RowWhole(src, dst, m - 1)[r] * (B + A) = IF r = m - 1 THEN B * (B + A) ELSE 0
  <2>1. r = y => RowWhole(src, dst, y)[r] * x = YSub(src, dst) * x
    BY WholeAt
  <2>2. r # y => RowWhole(src, dst, y)[r] * x = 0
    BY WholeElsewhere
  <2> QED BY <1>3, <2>1, <2>2 DEF B
<1>5. RowWhole(src, dst, m - 2)[r] * (-A) = IF r = m - 2 THEN B * (-A) ELSE 0
  <2>1. r = w => RowWhole(src, dst, w)[r] * z = YSub(src, dst) * z
    BY WholeAt
  <2>2. r # w => RowWhole(src, dst, w)[r] * z = 0
    BY WholeElsewhere
  <2> QED BY <1>3, <2>1, <2>2 DEF B
<1>6. (B * (B + A)) \div B = B + A /\ (B * (-A)) \div B = 0 - A /\ 0 \div B = 0
  <2>1. (B * x) \div B = x /\ (B * z) \div B = z /\ 0 \div B = 0
    BY <1>0, Quotient
  <2> QED BY <1>0, <1>3, <2>1
<1>7. (RowWhole(src, dst, m - 1)[r] * (B + A) + RowWhole(src, dst, m - 2)[r] * (-A)) \div B
        = IF r = m - 1 THEN B + A ELSE IF r = m - 2 THEN 0 - A ELSE 0
  <2>0. B * (B + A) \in Int /\ B * (-A) \in Int /\ m - 1 # m - 2
    BY <1>0
  <2>1. CASE r = m - 1
    BY <1>4, <1>5, <1>6, <2>0, <2>1
  <2>2. CASE r = m - 2
    BY <1>4, <1>5, <1>6, <2>0, <2>2
  <2>3. CASE r # m - 1 /\ r # m - 2
    BY <1>4, <1>5, <1>6, <2>0, <2>3
  <2> QED BY <2>1, <2>2, <2>3
<1>8. Interpolated(k, r, src, dst)
        = IF r = at THEN dst - 1 - part ELSE IF r = at + 1 THEN part ELSE 0
  BY DEF Interpolated
<1>9. CASE A = 0
  <2>1. at = m - 1 /\ part = 0
    <3>1. k * (src - 1) = (dst - 1) * (m - 1) + 0 /\ 0 \in 0..dst - 1 - 1 /\ dst - 1 \in Nat \ {0}
          /\ m - 1 \in Int /\ k * (src - 1) \in Int
      BY <1>0, <1>1, <1>2, <1>9
    <3> QED BY <3>1, Division
  <2> HIDE DEF at, part
  <2> QED BY <1>0, <1>7, <1>8, <1>9, <2>1
<1>10. CASE A < 0
  <2>1. at = m - 2 /\ part = A + B
    <3>1. (dst - 1) * (m - 2) = (m - 1) * (dst - 1) - (dst - 1)
      OBVIOUS
    <3>2. k * (src - 1) = (dst - 1) * (m - 2) + (A + B) /\ A + B \in 0..dst - 1 - 1
          /\ dst - 1 \in Nat \ {0} /\ m - 2 \in Int /\ k * (src - 1) \in Int
      BY <1>0, <1>1, <1>2, <1>10, <3>1
    <3> QED BY <3>2, Division
  <2> HIDE DEF at, part
  <2> QED BY <1>0, <1>7, <1>8, <1>10, <2>1
<1> QED BY <1>0, <1>9, <1>10

-----------------------------------------------------------------------------
\* Loops, and the rows that a scaler puts out.
(* ... and reduced.                                                          *)
LEMMA ExportedReduced ==
  ASSUME NEW src \in Nat \ {0}, NEW dst \in Nat \ {0}, NEW m \in Nat, NEW k \in Nat,
         Fits(src, dst, m, k), Ready(src, dst, m, k), ~(src < dst), NEW r \in 0..src - 1
  PROVE  Rest(src, dst, m, k)[r] - Rest(src, dst, m, k + 1)[r] = Averaged(k, r, src, dst)
<1> DEFINE A == Accum(src, dst, m, k)
<1>0. /\ A <= 0 /\ 0 < A + dst /\ m > 0 /\ A \in Int
  BY AccumReady DEF YSub
<1>1. A = (k + 1) * src - m * dst
  BY DEF Accum
<1>2. Rest(src, dst, m, k + 1)[r] = IF r = m - 1 THEN 0 - A ELSE 0
  BY FractionIsRest
<1> HIDE DEF A
<1>3. Rest(src, dst, m, k)[r]
        = IF r < m THEN MaxOf(0, (r + 1) * dst - MaxOf(r * dst, k * src)) ELSE 0
  BY DEF Rest
<1>4. PICK a \in Int, b \in Int, c \in Int, d \in Int :
        /\ a = r * dst /\ b = k * src /\ c = (k + 1) * src /\ d = m * dst
  BY Times
<1>5. (r + 1) * dst = a + dst /\ c = b + src /\ A = c - d
  BY <1>1, <1>4
<1>10. r < m => Rest(src, dst, m, k)[r] = MaxOf(0, a + dst - MaxOf(a, b))
  <2>1. (r + 1) * dst = a + dst /\ r * dst = a /\ k * src = b
    BY <1>4, <1>5
  <2>2. r * dst \in Int /\ (r + 1) * dst \in Int /\ k * src \in Int
    BY Times
  <2> QED BY <1>3, <2>1, <2>2 DEF MaxOf
<1>6. Averaged(k, r, src, dst) = MaxOf(0, MinOf(a + dst, c) - MaxOf(a, b))
  BY <1>4, <1>5 DEF Averaged
<1>7. CASE r = m - 1
  <2>1. d = a + dst
    BY <1>4, <1>5, <1>7
  <2>2. Rest(src, dst, m, k)[r] = MaxOf(0, a + dst - MaxOf(a, b))
    BY <1>7, <1>10
  <2> QED BY <1>0, <1>2, <1>5, <1>6, <1>7, <2>1, <2>2 DEF MaxOf, MinOf
<1>8. CASE r < m - 1
  <2>1. a + dst <= d - dst
    <3>1. (r + 1) * dst <= (m - 1) * dst /\ (m - 1) * dst = m * dst - dst
      BY <1>8, TimesGrows
    <3> QED BY <1>4, <1>5, <3>1
  <2>2. Rest(src, dst, m, k)[r] = MaxOf(0, a + dst - MaxOf(a, b))
    BY <1>8, <1>10
  <2>3. MinOf(a + dst, c) = a + dst
    BY <1>0, <1>5, <2>1 DEF MinOf
  <2>4. MaxOf(0, a + dst - MaxOf(a, b)) \in Int
    BY DEF MaxOf
  <2>5. Rest(src, dst, m, k + 1)[r] = 0
    BY <1>2, <1>8
  <2>6. Averaged(k, r, src, dst) = MaxOf(0, a + dst - MaxOf(a, b))
    <3>1. MaxOf(a, b) \in Int
      BY DEF MaxOf
    <3> QED BY <1>6, <2>3, <3>1
  <2> QED BY <2>2, <2>4, <2>5, <2>6
<1>9. CASE r >= m
  <2>1. d <= a
    BY <1>4, <1>9, TimesGrows
  <2>2. MaxOf(0, MinOf(a + dst, c) - MaxOf(a, b)) = 0
    BY <1>0, <1>5, <2>1 DEF MinOf, MaxOf
  <2> QED BY <1>2, <1>3, <1>6, <1>9, <2>2
<1> QED BY <1>7, <1>8, <1>9

(* An output row is made of the shares that it should be.                    *)
LEMMA ExportedIsRight ==
  ASSUME NEW src \in Nat \ {0}, NEW dst \in Nat \ {0}, NEW m \in Nat, NEW k \in Nat,
         Fits(src, dst, m, k), Ready(src, dst, m, k)
  PROVE  Exported(ScalerAt(src, dst, m, k)) = Shares(k, src, dst)
<1> DEFINE s == ScalerAt(src, dst, m, k)
<1>0. /\ s.y_expand = (src < dst) /\ s.frow = RowWhole(src, dst, m - 1)
      /\ s.y_sub = YSub(src, dst) /\ s.y_accum = Accum(src, dst, m, k)
  BY DEF ScalerAt, YSub
<1>1. CASE src < dst
  <2>1. s.irow = RowWhole(src, dst, m - 2) /\ DOMAIN RowWhole(src, dst, m - 2) = 0..src - 1
    BY <1>1 DEF ScalerAt, RowWhole
  <2> HIDE DEF s
  <2>2. Exported(s) = [r \in 0..src - 1 |->
          (RowWhole(src, dst, m - 1)[r] * (YSub(src, dst) + Accum(src, dst, m, k))
            + RowWhole(src, dst, m - 2)[r] * (-Accum(src, dst, m, k))) \div YSub(src, dst)]
    BY <1>0, <1>1, <2>1 DEF Exported
  <2>3. Exported(s) = [r \in 0..src - 1 |-> Interpolated(k, r, src, dst)]
    BY <1>1, <2>2, ExportedEnlarged
  <2>4. \A r : Share(k, r, src, dst) = Interpolated(k, r, src, dst)
    BY <1>1 DEF Share
  <2> QED BY <2>3, <2>4 DEF Shares, s
<1>2. CASE ~(src < dst)
  <2>1. s.irow = Rest(src, dst, m, k) /\ DOMAIN Rest(src, dst, m, k) = 0..src - 1
    BY <1>2 DEF ScalerAt, Rest
  <2>2. Fraction(s) = Rest(src, dst, m, k + 1)
    BY <1>2, FractionIsRest
  <2> HIDE DEF s
  <2>3. Exported(s) = [r \in 0..src - 1 |->
          Rest(src, dst, m, k)[r] - Rest(src, dst, m, k + 1)[r]]
    BY <1>0, <1>2, <2>1, <2>2 DEF Exported
  <2>4. Exported(s) = [r \in 0..src - 1 |-> Averaged(k, r, src, dst)]
    BY <1>2, <2>3, ExportedReduced
  <2>5. \A r : Share(k, r, src, dst) = Averaged(k, r, src, dst)
    BY <1>2 DEF Share
  <2> QED BY <2>4, <2>5 DEF Shares, s
<1> QED BY <1>1, <1>2

-----------------------------------------------------------------------------
(* Loops.  Each is a recursive function on 0..n; induction over a set of     *)
(* numbers says what becomes of it.                                          *)
LEMMA Least ==
  ASSUME NEW T, T \subseteq Nat, T # {}
  PROVE  \E x \in T : \A y \in T : x <= y
<1> DEFINE Below == OpToRel(<, Nat)
<1>1. \A x, y \in Nat : <<x, y>> \in Below <=> x < y
  BY DEF OpToRel
<1>2. IsWellFoundedOn(Below, Nat)
  BY NatLessThanWellFounded, Zenon
<1> HIDE DEF Below
<1>3. PICK x \in T : \A y \in T : ~(<<y, x>> \in Below)
  BY <1>2, WFMin, Zenon
<1>4. ASSUME NEW y \in T PROVE x <= y
  <2>1. x \in Nat /\ y \in Nat /\ ~(<<y, x>> \in Below)
    BY <1>3
  <2>2. ~(y < x)
    BY <2>1, <1>1, Zenon
  <2> QED BY <2>1, <2>2
<1> QED BY <1>4

(* Induction over a set: no operator is instantiated, so that the provers    *)
(* can use it.                                                               *)
LEMMA SetInduction ==
  ASSUME NEW S, 0 \in S, \A n \in Nat : n \in S => n + 1 \in S
  PROVE  Nat \subseteq S
<1> SUFFICES ASSUME NEW n \in Nat, n \notin S PROVE FALSE
  OBVIOUS
<1>1. PICK x \in Nat \ S : \A y \in Nat \ S : x <= y
  BY Least
<1>2. x # 0 /\ x - 1 \in Nat /\ x - 1 \in S
  BY <1>1
<1> QED BY <1>2

Loop(a, F, n, f) == f = [k \in 0..n |-> IF k = 0 THEN a ELSE F[k][f[k - 1]]]

(* A loop whose round k takes what is in S[k - 1] to what is in S[k].        *)
LEMMA LoopExists ==
  ASSUME NEW a, NEW S, NEW F, NEW n \in Nat,
         a \in S[0], \A k \in 1..n : \A t \in S[k - 1] : F[k][t] \in S[k]
  PROVE  \E f : Loop(a, F, n, f) /\ \A k \in 0..n : f[k] \in S[k]
<1> DEFINE Is(f, m) == f = [k \in 0..m |-> IF k = 0 THEN a ELSE F[k][f[k - 1]]]
           T == {m \in Nat : \E f : Is(f, m)}
<1>1. 0 \in T
  <2>1. [k \in 0..0 |-> a] = [k \in 0..0 |-> IF k = 0 THEN a ELSE F[k][[j \in 0..0 |-> a][k - 1]]]
    OBVIOUS
  <2>2. Is([k \in 0..0 |-> a], 0)
    BY <2>1
  <2> QED BY <2>2
<1>2. ASSUME NEW m \in Nat, m \in T PROVE m + 1 \in T
  <2>1. PICK f : f = [k \in 0..m |-> IF k = 0 THEN a ELSE F[k][f[k - 1]]]
    BY <1>2
  <2> DEFINE h == [k \in 0..m + 1 |-> IF k <= m THEN f[k] ELSE F[m + 1][f[m]]]
  <2>2. ASSUME NEW k \in 0..m + 1 PROVE h[k] = IF k = 0 THEN a ELSE F[k][h[k - 1]]
    <3>1. CASE k = 0
      BY <2>1, <3>1
    <3>2. CASE k # 0 /\ k <= m
      <4>1. k \in 0..m /\ k - 1 \in 0..m
        BY <3>2
      <4>2. f[k] = F[k][f[k - 1]]
        BY <2>1, <3>2, <4>1
      <4>3. h[k] = f[k] /\ h[k - 1] = f[k - 1]
        BY <3>2, <4>1
      <4> QED BY <3>2, <4>2, <4>3
    <3>3. CASE k = m + 1
      <4>1. k - 1 = m /\ ~(k <= m) /\ k # 0 /\ m \in 0..m + 1
        BY <3>3
      <4>2. h[k] = F[m + 1][f[m]] /\ h[m] = f[m]
        BY <4>1
      <4> QED BY <3>3, <4>1, <4>2
    <3> QED BY <3>1, <3>2, <3>3
  <2>3. h = [k \in 0..m + 1 |-> IF k = 0 THEN a ELSE F[k][h[k - 1]]]
    BY <2>2
  <2> HIDE DEF h
  <2>4. Is(h, m + 1)
    BY <2>3
  <2> QED BY <2>4
<1> HIDE DEF T
<1>3. Nat \subseteq T
  BY <1>1, <1>2, SetInduction
<1>4. PICK f : f = [k \in 0..n |-> IF k = 0 THEN a ELSE F[k][f[k - 1]]]
  BY <1>3 DEF T
<1> DEFINE U == {k \in Nat : k <= n => f[k] \in S[k]}
<1>5. 0 \in U
  BY <1>4
<1>6. ASSUME NEW k \in Nat, k \in U PROVE k + 1 \in U
  <2> SUFFICES ASSUME k + 1 <= n PROVE f[k + 1] \in S[k + 1]
    OBVIOUS
  <2>1. PICK j \in 1..n : j = k + 1 /\ j - 1 = k
    OBVIOUS
  <2>2. f[j] = F[j][f[j - 1]]
    BY <1>4
  <2>3. f[j - 1] \in S[j - 1]
    BY <1>6, <2>1
  <2> QED BY <2>1, <2>2, <2>3
<1> HIDE DEF U
<1>7. Nat \subseteq U
  BY <1>5, <1>6, SetInduction
<1>8. \A k \in 0..n : f[k] \in S[k]
  BY <1>7 DEF U
<1> QED BY <1>4, <1>8 DEF Loop

(* What holds of the loop's variables at first, and stays so in a round,     *)
(* holds after every round: the loops of io_dec.c and rescaler.c are         *)
(* functions of the number of rounds.                                        *)
LEMMA LoopStays ==
  ASSUME NEW S, NEW f, NEW n \in Nat,
         f[0] \in S[0], \A k \in 1..n : f[k - 1] \in S[k - 1] => f[k] \in S[k]
  PROVE  \A k \in 0..n : f[k] \in S[k]
<1> DEFINE U == {k \in Nat : k <= n => f[k] \in S[k]}
<1>1. 0 \in U
  OBVIOUS
<1>2. ASSUME NEW k \in Nat, k \in U PROVE k + 1 \in U
  <2> SUFFICES ASSUME k + 1 <= n PROVE f[k + 1] \in S[k + 1]
    OBVIOUS
  <2>1. PICK j \in 1..n : j = k + 1 /\ j - 1 = k
    OBVIOUS
  <2>2. f[j - 1] \in S[j - 1]
    BY <1>2, <2>1
  <2> QED BY <2>1, <2>2
<1> HIDE DEF U
<1>3. Nat \subseteq U
  BY <1>1, <1>2, SetInduction
<1> QED BY <1>3 DEF U

(* Where a scaler can be that takes n rows at most, from the one at m.       *)
Imported(src, dst, m, k, n) ==
  {j \in m..m + n : Fits(src, dst, j, k) /\ (j = m + n \/ Ready(src, dst, j, k))}

(* WebPRescalerImport: rows come in until one is ready or the piece is used  *)
(* up.                                                                       *)
LEMMA ImportRows ==
  ASSUME NEW src \in Nat \ {0}, NEW dst \in Nat \ {0}, NEW m \in Nat, NEW k \in Nat,
         Fits(src, dst, m, k), NEW n \in Int, m + MaxOf(n, 0) <= src
  PROVE  \E j \in Imported(src, dst, m, k, MaxOf(n, 0)) :
           Import(ScalerAt(src, dst, m, k), n, m) = ScalerAt(src, dst, j, k)
<1> DEFINE N == MaxOf(n, 0)
           s == ScalerAt(src, dst, m, k)
           step(i, t) == IF HasPendingOutput(t) THEN t ELSE ImportRow(t, m + i - 1)
           Is(f) == f = [i \in 0..N |-> IF i = 0 THEN s ELSE step(i, f[i - 1])]
           f == CHOOSE f : Is(f)
           S == [i \in 0..N |-> {ScalerAt(src, dst, j, k) : j \in Imported(src, dst, m, k, i)}]
           F == [i \in 1..N |-> [t \in S[i - 1] |-> step(i, t)]]
<1>1. Import(s, n, m) = f[N]
  BY DEF Import
<1>2. N \in Nat /\ m + N <= src
  BY DEF MaxOf
<1> HIDE DEF N
<1>3. s \in S[0]
  <2>1. m \in Imported(src, dst, m, k, 0) /\ 0 \in 0..N
    BY <1>2 DEF Imported
  <2> QED BY <2>1
<1>4. ASSUME NEW i \in 1..N, NEW t \in S[i - 1] PROVE step(i, t) \in S[i]
  <2>0. i - 1 \in 0..N /\ i \in 0..N /\ i \in Nat
    BY <1>2
  <2>1. PICK j \in Imported(src, dst, m, k, i - 1) : t = ScalerAt(src, dst, j, k)
    BY <2>0
  <2>2. /\ j \in Nat /\ j >= m /\ j <= m + i - 1 /\ Fits(src, dst, j, k)
        /\ j = m + i - 1 \/ Ready(src, dst, j, k)
    BY <1>2, <2>0 DEF Imported
  <2>3. HasPendingOutput(t) <=> Ready(src, dst, j, k)
    BY <2>1, <2>2, PendingIsReady
  <2>4. CASE Ready(src, dst, j, k)
    <3>1. j \in Imported(src, dst, m, k, i)
      BY <2>0, <2>2, <2>4 DEF Imported
    <3> QED BY <2>0, <2>1, <2>3, <2>4, <3>1
  <2>5. CASE ~Ready(src, dst, j, k)
    <3>1. j = m + i - 1 /\ j < src /\ j + 1 = m + i
      BY <1>2, <2>0, <2>2, <2>5
    <3>2. /\ ImportRow(ScalerAt(src, dst, j, k), j) = ScalerAt(src, dst, j + 1, k)
          /\ Fits(src, dst, j + 1, k)
      BY <2>2, <2>5, <3>1, ImportScaler
    <3>3. j + 1 \in Imported(src, dst, m, k, i)
      BY <2>0, <3>1, <3>2 DEF Imported
    <3>4. step(i, t) = ScalerAt(src, dst, j + 1, k)
      BY <2>1, <2>3, <2>5, <3>1, <3>2
    <3> QED BY <2>0, <3>3, <3>4
  <2> QED BY <2>4, <2>5
<1> HIDE DEF step, S
<1>5. \A i \in 1..N : \A t \in S[i - 1] : F[i][t] \in S[i]
  BY <1>4
<1> HIDE DEF F
<1>6. PICK g : Loop(s, F, N, g) /\ \A i \in 0..N : g[i] \in S[i]
  BY <1>2, <1>3, <1>5, LoopExists
<1>7. Is(g)
  <2>1. ASSUME NEW i \in 0..N PROVE g[i] = IF i = 0 THEN s ELSE step(i, g[i - 1])
    <3>1. CASE i = 0
      BY <1>6, <3>1 DEF Loop
    <3>2. CASE i # 0
      <4>1. i \in 1..N /\ i - 1 \in 0..N
        BY <1>2, <3>2
      <4>2. g[i] = F[i][g[i - 1]] /\ g[i - 1] \in S[i - 1]
        BY <1>6, <3>2, <4>1 DEF Loop
      <4> QED BY <3>2, <4>1, <4>2 DEF F
    <3> QED BY <3>1, <3>2
  <2> QED BY <1>6, <2>1 DEF Loop
<1>8. Is(f)
  BY <1>7
<1> HIDE DEF f
<1>9. \A i \in 0..N : f[i] \in S[i]
  <2>1. f[0] \in S[0]
    BY <1>2, <1>3, <1>8
  <2>2. ASSUME NEW i \in 1..N, f[i - 1] \in S[i - 1] PROVE f[i] \in S[i]
    <3>1. i \in 0..N /\ i # 0
      BY <1>2
    <3>2. f[i] = step(i, f[i - 1])
      BY <1>8, <3>1
    <3> QED BY <1>4, <2>2, <3>2
  <2> QED BY <1>2, <2>1, <2>2, LoopStays
<1>10. f[N] \in S[N]
  BY <1>2, <1>9
<1> QED BY <1>1, <1>2, <1>10 DEF S, N

(* n rows of the output, from row k on.                                      *)
SharesFrom(src, dst, k, n) == [i \in 1..n |-> Shares(k + i - 1, src, dst)]

(* Rows of shares, and one more.                                             *)
LEMMA SharesAppend ==
  ASSUME NEW src, NEW dst, NEW k \in Nat, NEW n \in Nat
  PROVE  Append(SharesFrom(src, dst, k, n), Shares(k + n, src, dst))
              = SharesFrom(src, dst, k, n + 1)
  BY DEF SharesFrom

(* No row of shares.                                                         *)
LEMMA SharesNone ==
  ASSUME NEW src, NEW dst, NEW k \in Nat
  PROVE  SharesFrom(src, dst, k, 0) = <<>>
  BY DEF SharesFrom

(* As many rows of shares as were asked for.                                 *)
LEMMA SharesLength ==
  ASSUME NEW src, NEW dst, NEW k, NEW n \in Nat
  PROVE  Len(SharesFrom(src, dst, k, n)) = n
  BY DEF SharesFrom

(* How far a scaler can be after n rows at most went out.                    *)
Gone(src, dst, m, k, n) ==
  {i \in 0..n : Fits(src, dst, m, k + i) /\ (i = n \/ ~Ready(src, dst, m, k + i))}

(* WebPRescalerExport: the rows that are ready go out, up to max, each with  *)
(* its shares.                                                               *)
LEMMA ExportRows ==
  ASSUME NEW src \in Nat \ {0}, NEW dst \in Nat \ {0}, NEW m \in Nat, NEW k \in Nat,
         Fits(src, dst, m, k), NEW max \in Nat
  PROVE  \E n \in Gone(src, dst, m, k, max) :
           Export(ScalerAt(src, dst, m, k), max)
             = [scaler |-> ScalerAt(src, dst, m, k + n), rows |-> SharesFrom(src, dst, k, n)]
<1> DEFINE s == [scaler |-> ScalerAt(src, dst, m, k), rows |-> <<>>]
           step(i, t) == IF ~HasPendingOutput(t.scaler) THEN t
                         ELSE [scaler |-> ExportRow(t.scaler),
                               rows |-> Append(t.rows, Exported(t.scaler))]
           Is(f) == f = [i \in 0..max |-> IF i = 0 THEN s ELSE step(i, f[i - 1])]
           f == CHOOSE f : Is(f)
           at(n) == [scaler |-> ScalerAt(src, dst, m, k + n), rows |-> SharesFrom(src, dst, k, n)]
           S == [i \in 0..max |-> {at(n) : n \in Gone(src, dst, m, k, i)}]
           F == [i \in 1..max |-> [t \in S[i - 1] |-> step(i, t)]]
<1>1. Export(ScalerAt(src, dst, m, k), max) = f[max]
  BY DEF Export
<1>3. s \in S[0]
  <2>1. k + 0 = k /\ 0 \in 0..max /\ 0 \in 0..0
    OBVIOUS
  <2>2. 0 \in Gone(src, dst, m, k, 0)
    BY <2>1 DEF Gone
  <2>3. at(0) = s
    BY <2>1, SharesNone
  <2> HIDE DEF at, s
  <2> QED BY <2>1, <2>2, <2>3
<1>4. ASSUME NEW i \in 1..max, NEW t \in S[i - 1] PROVE step(i, t) \in S[i]
  <2>0. i - 1 \in 0..max /\ i \in 0..max /\ i \in Nat
    OBVIOUS
  <2>1. PICK n \in Gone(src, dst, m, k, i - 1) : t = at(n)
    BY <2>0
  <2>2. /\ n \in Nat /\ n <= i - 1 /\ Fits(src, dst, m, k + n) /\ k + n \in Nat
        /\ n = i - 1 \/ ~Ready(src, dst, m, k + n)
    BY <2>0 DEF Gone
  <2>3. t.scaler = ScalerAt(src, dst, m, k + n) /\ t.rows = SharesFrom(src, dst, k, n)
    BY <2>1
  <2>4. HasPendingOutput(t.scaler) <=> Ready(src, dst, m, k + n)
    <3>1. PICK l \in Nat : l = k + n /\ l \in Nat /\ m \in Int
      BY <2>2
    <3>2. HasPendingOutput(ScalerAt(src, dst, m, l)) <=> Ready(src, dst, m, l)
      BY <3>1, PendingIsReady
    <3> QED BY <2>3, <3>1, <3>2
  <2>5. CASE ~Ready(src, dst, m, k + n)
    <3>1. n \in Gone(src, dst, m, k, i)
      BY <2>0, <2>2, <2>5 DEF Gone
    <3>2. step(i, t) = t
      BY <2>4, <2>5
    <3> HIDE DEF at, step
    <3> QED BY <2>0, <2>1, <3>1, <3>2
  <2>6. CASE Ready(src, dst, m, k + n)
    <3>1. n = i - 1 /\ n + 1 = i /\ k + (n + 1) = k + n + 1
      BY <2>2, <2>6
    <3>2. /\ ExportRow(t.scaler) = ScalerAt(src, dst, m, k + n + 1)
          /\ Exported(t.scaler) = Shares(k + n, src, dst)
          /\ Fits(src, dst, m, k + n + 1)
      BY <2>2, <2>3, <2>6, ExportScaler, ExportedIsRight, FitsOut
    <3>3. n + 1 \in Gone(src, dst, m, k, i)
      BY <2>0, <3>1, <3>2 DEF Gone
    <3>4. Append(t.rows, Exported(t.scaler)) = SharesFrom(src, dst, k, n + 1)
      <4>1. Append(SharesFrom(src, dst, k, n), Shares(k + n, src, dst))
              = SharesFrom(src, dst, k, n + 1)
        BY <2>2, SharesAppend
      <4> HIDE DEF at, step, S
      <4> QED BY <2>3, <3>2, <4>1
    <3>5. step(i, t) = at(n + 1)
      BY <2>4, <2>6, <3>1, <3>2, <3>4
    <3> HIDE DEF at, step
    <3> QED BY <2>0, <3>3, <3>5
  <2> QED BY <2>5, <2>6
<1> HIDE DEF step, S, s
<1>5. \A i \in 1..max : \A t \in S[i - 1] : F[i][t] \in S[i]
  BY <1>4
<1> HIDE DEF F
<1>6. PICK g : Loop(s, F, max, g) /\ \A i \in 0..max : g[i] \in S[i]
  BY <1>3, <1>5, LoopExists
<1>7. Is(g)
  <2>1. ASSUME NEW i \in 0..max PROVE g[i] = IF i = 0 THEN s ELSE step(i, g[i - 1])
    <3>1. CASE i = 0
      BY <1>6, <3>1 DEF Loop
    <3>2. CASE i # 0
      <4>1. i \in 1..max /\ i - 1 \in 0..max
        BY <3>2
      <4>2. g[i] = F[i][g[i - 1]] /\ g[i - 1] \in S[i - 1]
        BY <1>6, <3>2, <4>1 DEF Loop
      <4> QED BY <3>2, <4>1, <4>2 DEF F
    <3> QED BY <3>1, <3>2
  <2> QED BY <1>6, <2>1 DEF Loop
<1>8. Is(f)
  BY <1>7
<1> HIDE DEF f
<1>9. \A i \in 0..max : f[i] \in S[i]
  <2>1. f[0] \in S[0]
    BY <1>3, <1>8
  <2>2. ASSUME NEW i \in 1..max, f[i - 1] \in S[i - 1] PROVE f[i] \in S[i]
    <3>1. i \in 0..max /\ i # 0
      OBVIOUS
    <3>2. f[i] = step(i, f[i - 1])
      BY <1>8, <3>1
    <3> QED BY <1>4, <2>2, <3>2
  <2> QED BY <2>1, <2>2, LoopStays
<1>10. f[max] \in S[max]
  BY <1>9
<1> QED BY <1>1, <1>10 DEF S

-----------------------------------------------------------------------------
\* Luma and chroma together.
Params(l, ty, tu, ok, y, u, a) ==
  [last_y |-> l, tmp_y |-> ty, tmp_uv |-> tu, asserts |-> ok,
   scaler_y |-> y, scaler_u |-> u, scaler_a |-> a]

(* The fields of WebPDecParams.                                              *)
LEMMA ParamsFields ==
  ASSUME NEW l, NEW ty, NEW tu, NEW ok, NEW y, NEW u, NEW a, NEW p,
         p = Params(l, ty, tu, ok, y, u, a)
  PROVE  /\ p.last_y = l /\ p.tmp_y = ty /\ p.tmp_uv = tu /\ p.asserts = ok
         /\ p.scaler_y = y /\ p.scaler_u = u /\ p.scaler_a = a
  BY DEF Params

WithScalers(p, x, z) == [p EXCEPT !.scaler_y = x, !.scaler_u = z]
WithTmp(p, x, z) == [p EXCEPT !.tmp_y = x, !.tmp_uv = z]
WithScalerA(p, x) == [p EXCEPT !.scaler_a = x]
WithScalerY(p, x) == [p EXCEPT !.scaler_y = x]
WithLastY(p, x) == [p EXCEPT !.last_y = x]
WithAsserts(p, x) == [p EXCEPT !.asserts = x]

(* WebPDecParams with one or two of its fields set.                          *)
LEMMA ParamsUpdates ==
  ASSUME NEW l, NEW ty, NEW tu, NEW ok, NEW y, NEW u, NEW a, NEW p, NEW x, NEW z,
         p = Params(l, ty, tu, ok, y, u, a)
  PROVE  /\ WithScalers(p, x, z) = Params(l, ty, tu, ok, x, z, a)
         /\ WithTmp(p, x, z) = Params(l, x, z, ok, y, u, a)
         /\ WithScalerA(p, x) = Params(l, ty, tu, ok, y, u, x)
         /\ WithScalerY(p, x) = Params(l, ty, tu, ok, x, u, a)
         /\ WithLastY(p, x) = Params(x, ty, tu, ok, y, u, a)
         /\ WithAsserts(p, x) = Params(l, ty, tu, x, y, u, a)
<1>1. p = [last_y |-> l, tmp_y |-> ty, tmp_uv |-> tu, asserts |-> ok,
           scaler_y |-> y, scaler_u |-> u, scaler_a |-> a]
  BY DEF Params
<1>2. PICK q1 : q1 = [p EXCEPT !.scaler_y = x, !.scaler_u = z] /\ WithScalers(p, x, z) = [p EXCEPT !.scaler_y = x, !.scaler_u = z]
  BY DEF WithScalers
<1>3. PICK q2 : q2 = [p EXCEPT !.tmp_y = x, !.tmp_uv = z] /\ WithTmp(p, x, z) = [p EXCEPT !.tmp_y = x, !.tmp_uv = z]
  BY DEF WithTmp
<1>4. PICK q3 : q3 = [p EXCEPT !.scaler_a = x] /\ WithScalerA(p, x) = [p EXCEPT !.scaler_a = x]
  BY DEF WithScalerA
<1>5. PICK q4 : q4 = [p EXCEPT !.scaler_y = x] /\ WithScalerY(p, x) = [p EXCEPT !.scaler_y = x]
  BY DEF WithScalerY
<1>6. PICK q5 : q5 = [p EXCEPT !.last_y = x] /\ WithLastY(p, x) = [p EXCEPT !.last_y = x]
  BY DEF WithLastY
<1>7. PICK q6 : q6 = [p EXCEPT !.asserts = x] /\ WithAsserts(p, x) = [p EXCEPT !.asserts = x]
  BY DEF WithAsserts
<1>8. q1 = Params(l, ty, tu, ok, x, z, a)
  <2>1. PICK r : r = [p EXCEPT !.scaler_y = x]
    OBVIOUS
  <2>2. q1 = [r EXCEPT !.scaler_u = z]
    BY <1>2, <2>1, Zenon
  <2>3. r = [last_y |-> l, tmp_y |-> ty, tmp_uv |-> tu, asserts |-> ok,
             scaler_y |-> x, scaler_u |-> u, scaler_a |-> a]
    BY <1>1, <2>1
  <2> QED BY <2>2, <2>3 DEF Params
<1>9. q2 = Params(l, x, z, ok, y, u, a)
  <2>1. PICK r : r = [p EXCEPT !.tmp_y = x]
    OBVIOUS
  <2>2. q2 = [r EXCEPT !.tmp_uv = z]
    BY <1>3, <2>1, Zenon
  <2>3. r = [last_y |-> l, tmp_y |-> x, tmp_uv |-> tu, asserts |-> ok,
             scaler_y |-> y, scaler_u |-> u, scaler_a |-> a]
    BY <1>1, <2>1
  <2> QED BY <2>2, <2>3 DEF Params
<1>10. q3 = Params(l, ty, tu, ok, y, u, x)
  BY <1>1, <1>4 DEF Params
<1>11. q4 = Params(l, ty, tu, ok, x, u, a)
  BY <1>1, <1>5 DEF Params
<1>12. q5 = Params(x, ty, tu, ok, y, u, a)
  BY <1>1, <1>6 DEF Params
<1>13. q6 = Params(l, ty, tu, x, y, u, a)
  BY <1>1, <1>7 DEF Params
<1> QED BY <1>2, <1>3, <1>4, <1>5, <1>6, <1>7, <1>8, <1>9, <1>10, <1>11, <1>12, <1>13

(* Luma and chroma together.                                                 *)
GoneBoth(src, chroma, dst, m, c, k, n) ==
  {i \in 0..n : /\ Fits(src, dst, m, k + i) /\ Fits(chroma, dst, c, k + i)
                /\ i = n \/ ~(Ready(src, dst, m, k + i) /\ Ready(chroma, dst, c, k + i))}

(* The loop of ExportRGB waits for luma and chroma both.                     *)
LEMMA BothPendingIsReady ==
  ASSUME NEW src \in Nat \ {0}, NEW chroma \in Nat \ {0}, NEW dst \in Nat \ {0},
         NEW m \in Nat, NEW c \in Nat, NEW k \in Nat, NEW p,
         p.scaler_y = ScalerAt(src, dst, m, k), p.scaler_u = ScalerAt(chroma, dst, c, k)
  PROVE  BothPending(p) <=> Ready(src, dst, m, k) /\ Ready(chroma, dst, c, k)
<1>1. m \in Int /\ c \in Int
  OBVIOUS
<1>2. HasPendingOutput(p.scaler_y) <=> Ready(src, dst, m, k)
  BY <1>1, PendingIsReady
<1>3. HasPendingOutput(p.scaler_u) <=> Ready(chroma, dst, c, k)
  BY <1>1, PendingIsReady
<1> QED BY <1>2, <1>3 DEF BothPending

BothOut(x, src, chroma, dst, m, c, k, max, l, ty, tu, ok, a) ==
  \E n \in GoneBoth(src, chroma, dst, m, c, k, max) :
    x = [params |-> Params(l, ty, tu, ok, ScalerAt(src, dst, m, k + n),
                           ScalerAt(chroma, dst, c, k + n), a),
         ys |-> SharesFrom(src, dst, k, n), us |-> SharesFrom(chroma, dst, k, n)]

(* ExportRGB: rows go out of both scalers as long as both have one, and the  *)
(* two are never a row apart.                                                *)
LEMMA ExportBoth ==
  ASSUME NEW src \in Nat \ {0}, NEW chroma \in Nat \ {0}, NEW dst \in Nat \ {0},
         NEW m \in Nat, NEW c \in Nat, NEW k \in Nat,
         Fits(src, dst, m, k), Fits(chroma, dst, c, k), NEW max \in Nat,
         NEW l, NEW ty, NEW tu, NEW ok, NEW a
  PROVE  BothOut(ExportRGB(Params(l, ty, tu, ok, ScalerAt(src, dst, m, k),
                                  ScalerAt(chroma, dst, c, k), a), max),
                 src, chroma, dst, m, c, k, max, l, ty, tu, ok, a)
<1> DEFINE y(n) == ScalerAt(src, dst, m, k + n)
           u(n) == ScalerAt(chroma, dst, c, k + n)
           p == Params(l, ty, tu, ok, ScalerAt(src, dst, m, k), ScalerAt(chroma, dst, c, k), a)
           s == [params |-> p, ys |-> <<>>, us |-> <<>>]
           step(i, t) == IF ~BothPending(t.params) THEN t
                         ELSE [params |-> [t.params EXCEPT !.scaler_y = ExportRow(@),
                                                           !.scaler_u = ExportRow(@)],
                               ys |-> Append(t.ys, Exported(t.params.scaler_y)),
                               us |-> Append(t.us, Exported(t.params.scaler_u))]
           Is(f) == f = [i \in 0..max |-> IF i = 0 THEN s ELSE step(i, f[i - 1])]
           f == CHOOSE f : Is(f)
           at(n) == [params |-> Params(l, ty, tu, ok, y(n), u(n), a),
                     ys |-> SharesFrom(src, dst, k, n), us |-> SharesFrom(chroma, dst, k, n)]
           S == [i \in 0..max |-> {at(n) : n \in GoneBoth(src, chroma, dst, m, c, k, i)}]
           F == [i \in 1..max |-> [t \in S[i - 1] |-> step(i, t)]]
<1>1. ExportRGB(p, max) = f[max]
  BY DEF ExportRGB
<1>3. s \in S[0]
  <2>1. k + 0 = k /\ 0 \in 0..max /\ 0 \in 0..0
    OBVIOUS
  <2>2. 0 \in GoneBoth(src, chroma, dst, m, c, k, 0)
    BY <2>1 DEF GoneBoth
  <2>3. at(0) = s
    BY <2>1, SharesNone
  <2> HIDE DEF at, s
  <2> QED BY <2>1, <2>2, <2>3
<1>4. ASSUME NEW i \in 1..max, NEW t \in S[i - 1] PROVE step(i, t) \in S[i]
  <2>0. i - 1 \in 0..max /\ i \in 0..max /\ i \in Nat
    OBVIOUS
  <2>1. PICK n \in GoneBoth(src, chroma, dst, m, c, k, i - 1) : t = at(n)
    BY <2>0
  <2>2. /\ n \in Nat /\ n <= i - 1 /\ Fits(src, dst, m, k + n) /\ Fits(chroma, dst, c, k + n)
        /\ k + n \in Nat
        /\ n = i - 1 \/ ~(Ready(src, dst, m, k + n) /\ Ready(chroma, dst, c, k + n))
    BY <2>0 DEF GoneBoth
  <2>3. /\ t.params = Params(l, ty, tu, ok, y(n), u(n), a)
        /\ t.ys = SharesFrom(src, dst, k, n) /\ t.us = SharesFrom(chroma, dst, k, n)
    BY <2>1
  <2>4. /\ t.params.scaler_y = y(n) /\ t.params.scaler_u = u(n)
        /\ BothPending(t.params) <=> Ready(src, dst, m, k + n) /\ Ready(chroma, dst, c, k + n)
    <3>1. PICK j \in Nat : j = k + n
      BY <2>2
    <3>2. t.params.scaler_y = y(n) /\ t.params.scaler_u = u(n)
      <4> HIDE DEF y, u, at, step, S, F, f, s, p
      <4>1. PICK q : q = Params(l, ty, tu, ok, y(n), u(n), a)
        OBVIOUS
      <4>2. q.scaler_y = y(n) /\ q.scaler_u = u(n)
        BY <4>1, ParamsFields
      <4> QED BY <2>3, <4>1, <4>2
    <3>3. t.params.scaler_y = ScalerAt(src, dst, m, j) /\ t.params.scaler_u = ScalerAt(chroma, dst, c, j)
      BY <3>1, <3>2
    <3> HIDE DEF at, step
    <3>4. BothPending(t.params) <=> Ready(src, dst, m, j) /\ Ready(chroma, dst, c, j)
      BY <3>3, BothPendingIsReady
    <3> QED BY <3>1, <3>2, <3>4
  <2>5. CASE ~(Ready(src, dst, m, k + n) /\ Ready(chroma, dst, c, k + n))
    <3>1. n \in GoneBoth(src, chroma, dst, m, c, k, i)
      BY <2>0, <2>2, <2>5 DEF GoneBoth
    <3>2. step(i, t) = t
      BY <2>4, <2>5
    <3> HIDE DEF at, step
    <3> QED BY <2>0, <2>1, <3>1, <3>2
  <2>6. CASE Ready(src, dst, m, k + n) /\ Ready(chroma, dst, c, k + n)
    <3>1. n = i - 1 /\ n + 1 = i /\ k + (n + 1) = k + n + 1
      BY <2>2, <2>6
    <3>0. PICK j \in Nat : j = k + n
      BY <2>2
    <3>2. /\ ExportRow(y(n)) = y(n + 1) /\ Exported(y(n)) = Shares(k + n, src, dst)
          /\ Fits(src, dst, m, k + n + 1)
      <4>1. m \in Int /\ Fits(src, dst, m, j) /\ Ready(src, dst, m, j)
        BY <2>2, <2>6, <3>0
      <4>2. /\ ExportRow(ScalerAt(src, dst, m, j)) = ScalerAt(src, dst, m, j + 1)
            /\ Exported(ScalerAt(src, dst, m, j)) = Shares(j, src, dst)
            /\ Fits(src, dst, m, j + 1)
        BY <4>1, ExportScaler, ExportedIsRight, FitsOut
      <4> QED BY <3>0, <3>1, <4>2
    <3>3. /\ ExportRow(u(n)) = u(n + 1) /\ Exported(u(n)) = Shares(k + n, chroma, dst)
          /\ Fits(chroma, dst, c, k + n + 1)
      <4>1. c \in Int /\ Fits(chroma, dst, c, j) /\ Ready(chroma, dst, c, j)
        BY <2>2, <2>6, <3>0
      <4>2. /\ ExportRow(ScalerAt(chroma, dst, c, j)) = ScalerAt(chroma, dst, c, j + 1)
            /\ Exported(ScalerAt(chroma, dst, c, j)) = Shares(j, chroma, dst)
            /\ Fits(chroma, dst, c, j + 1)
        BY <4>1, ExportScaler, ExportedIsRight, FitsOut
      <4> QED BY <3>0, <3>1, <4>2
    <3>4. n + 1 \in GoneBoth(src, chroma, dst, m, c, k, i)
      BY <2>0, <3>1, <3>2, <3>3 DEF GoneBoth
    <3>5. Append(SharesFrom(src, dst, k, n), Shares(k + n, src, dst))
              = SharesFrom(src, dst, k, n + 1)
      BY <2>2, SharesAppend
    <3>6. Append(SharesFrom(chroma, dst, k, n), Shares(k + n, chroma, dst))
              = SharesFrom(chroma, dst, k, n + 1)
      BY <2>2, SharesAppend
    <3>7. [t.params EXCEPT !.scaler_y = y(n + 1), !.scaler_u = u(n + 1)]
            = Params(l, ty, tu, ok, y(n + 1), u(n + 1), a)
      <4>2. PICK q : q = t.params
        OBVIOUS
      <4> HIDE DEF y, u, at, step, S, F, f, s, p
      <4>3. PICK v, w, v1, w1 : v = y(n) /\ w = u(n) /\ v1 = y(n + 1) /\ w1 = u(n + 1)
        OBVIOUS
      <4>4. q = Params(l, ty, tu, ok, v, w, a)
        BY <2>3, <4>2, <4>3
      <4>5. WithScalers(q, v1, w1) = Params(l, ty, tu, ok, v1, w1, a)
        BY <4>4, ParamsUpdates
      <4> QED BY <4>2, <4>3, <4>5, Zenon DEF WithScalers
    <3> HIDE DEF y, u, S, s
    <3>8. step(i, t) = [params |-> [t.params EXCEPT !.scaler_y = y(n + 1), !.scaler_u = u(n + 1)],
                        ys |-> SharesFrom(src, dst, k, n + 1),
                        us |-> SharesFrom(chroma, dst, k, n + 1)]
      <4> HIDE DEF at
      <4> QED BY <2>3, <2>4, <2>6, <3>2, <3>3, <3>5, <3>6
    <3>9. step(i, t) = at(n + 1)
      BY <3>7, <3>8
    <3> HIDE DEF at, step
    <3> QED BY <2>0, <3>4, <3>9 DEF S
  <2> QED BY <2>5, <2>6
<1> HIDE DEF step, S, s
<1>5. \A i \in 1..max : \A t \in S[i - 1] : F[i][t] \in S[i]
  BY <1>4
<1> HIDE DEF F
<1>6. PICK g : Loop(s, F, max, g) /\ \A i \in 0..max : g[i] \in S[i]
  BY <1>3, <1>5, LoopExists
<1>7. Is(g)
  <2>1. ASSUME NEW i \in 0..max PROVE g[i] = IF i = 0 THEN s ELSE step(i, g[i - 1])
    <3>1. CASE i = 0
      BY <1>6, <3>1 DEF Loop
    <3>2. CASE i # 0
      <4>1. i \in 1..max /\ i - 1 \in 0..max
        BY <3>2
      <4>2. g[i] = F[i][g[i - 1]] /\ g[i - 1] \in S[i - 1]
        BY <1>6, <3>2, <4>1 DEF Loop
      <4> QED BY <3>2, <4>1, <4>2 DEF F
    <3> QED BY <3>1, <3>2
  <2> QED BY <1>6, <2>1 DEF Loop
<1>8. Is(f)
  BY <1>7
<1> HIDE DEF f
<1>9. \A i \in 0..max : f[i] \in S[i]
  <2>1. f[0] \in S[0]
    BY <1>3, <1>8
  <2>2. ASSUME NEW i \in 1..max, f[i - 1] \in S[i - 1] PROVE f[i] \in S[i]
    <3>1. i \in 0..max /\ i # 0
      OBVIOUS
    <3>2. f[i] = step(i, f[i - 1])
      BY <1>8, <3>1
    <3> QED BY <1>4, <2>2, <3>2
  <2> QED BY <2>1, <2>2, LoopStays
<1>10. f[max] \in S[max]
  BY <1>9
<1>11. \E n \in GoneBoth(src, chroma, dst, m, c, k, max) : f[max] = at(n)
  <2> HIDE DEF at
  <2> QED BY <1>10 DEF S
<1> HIDE DEF p
<1>12. \E n \in GoneBoth(src, chroma, dst, m, c, k, max) : ExportRGB(p, max) = at(n)
  <2> HIDE DEF at
  <2> QED BY <1>1, <1>11
<1> QED BY <1>12 DEF p, BothOut

-----------------------------------------------------------------------------
\* Chroma is never behind luma by more than the last row of it.
(* What two numbers of a product say of it.                                  *)
LEMMA Cancelled ==
  ASSUME NEW a \in Int, NEW b \in Int, NEW d \in Nat \ {0}, a * d <= b * d
  PROVE  a <= b
<1> SUFFICES ASSUME b + 1 <= a PROVE FALSE
  OBVIOUS
<1>1. (b + 1) * d <= a * d
  BY TimesGrows
<1>2. (b + 1) * d = b * d + d /\ b * d \in Int /\ a * d \in Int
  OBVIOUS
<1> QED BY <1>1, <1>2

(* The chroma that belongs to a row of luma, and the one below, will do for  *)
(* what the luma will do for.                                                *)
LEMMA ChromaFollows ==
  ASSUME NEW h \in Nat \ {0}, NEW u \in Nat \ {0}, NEW d \in Nat \ {0},
         h <= 2 * u, 2 * u <= h + 1,
         NEW m \in Nat, NEW c \in Nat, NEW k \in Nat, m + 1 <= 2 * c, Ready(h, d, m, k)
  PROVE  Ready(u, d, c, k)
<1>0. k < d
  BY DEF Ready
<1>1. CASE h < d
  <2>1. u < d /\ k * (h - 1) <= (m - 1) * (d - 1)
    BY <1>1 DEF Ready
  <2>2. (2 * u - 2) * k <= (h - 1) * k /\ (m - 1) * (d - 1) <= (2 * c - 2) * (d - 1)
    <3>1. 2 * u - 2 \in Int /\ h - 1 \in Int /\ m - 1 \in Int /\ 2 * c - 2 \in Int /\ d - 1 \in Nat
      OBVIOUS
    <3> QED BY <3>1, TimesGrows
  <2>3. /\ (2 * u - 2) * k = 2 * (k * (u - 1)) /\ (h - 1) * k = k * (h - 1)
        /\ (2 * c - 2) * (d - 1) = 2 * ((c - 1) * (d - 1))
    OBVIOUS
  <2>4. /\ k * (u - 1) \in Int /\ k * (h - 1) \in Int /\ (c - 1) * (d - 1) \in Int
        /\ (m - 1) * (d - 1) \in Int
    OBVIOUS
  <2>5. k * (u - 1) <= (c - 1) * (d - 1)
    BY <2>1, <2>2, <2>3, <2>4
  <2> QED BY <1>0, <2>1, <2>5 DEF Ready
<1>2. CASE ~(h < d) /\ ~(u < d)
  <2>1. (k + 1) * h <= m * d
    BY <1>2 DEF Ready
  <2>2. (2 * u) * (k + 1) <= (h + 1) * (k + 1) /\ (m + 1) * d <= (2 * c) * d
    <3>1. 2 * u \in Int /\ h + 1 \in Int /\ m + 1 \in Int /\ 2 * c \in Int /\ k + 1 \in Nat
      OBVIOUS
    <3> QED BY <3>1, TimesGrows
  <2>3. /\ (2 * u) * (k + 1) = 2 * ((k + 1) * u) /\ (h + 1) * (k + 1) = (k + 1) * h + k + 1
        /\ (m + 1) * d = m * d + d /\ (2 * c) * d = 2 * (c * d)
    OBVIOUS
  <2>4. (k + 1) * u \in Int /\ (k + 1) * h \in Int /\ m * d \in Int /\ c * d \in Int
    OBVIOUS
  <2>5. (k + 1) * u <= c * d
    BY <1>0, <2>1, <2>2, <2>3, <2>4
  <2> QED BY <1>0, <1>2, <2>5 DEF Ready
<1>3. CASE ~(h < d) /\ u < d
  <2>1. (k + 1) * h <= m * d
    BY <1>3 DEF Ready
  <2>2. (2 * u - 2) * k <= (h - 1) * k /\ (m - 1) * (d - 1) <= (2 * c - 2) * (d - 1)
    <3>1. 2 * u - 2 \in Int /\ h - 1 \in Int /\ m - 1 \in Int /\ 2 * c - 2 \in Int /\ d - 1 \in Nat
      OBVIOUS
    <3> QED BY <3>1, TimesGrows
  <2>3. ((k + 1) * h) * (d - 1) <= (m * d) * (d - 1)
    <3>1. (k + 1) * h \in Int /\ m * d \in Int /\ d - 1 \in Nat
      OBVIOUS
    <3> QED BY <2>1, <3>1, TimesGrows
  <2>4. 0 <= (h - d) * (d - k - 1)
    <3>1. h - d \in Nat /\ d - k - 1 \in Nat
      BY <1>0, <1>3
    <3> QED BY <3>1, Times
  <2>5. ((m - 1) * (d - 1)) * d - (k * (h - 1)) * d
          = ((m * d) * (d - 1) - ((k + 1) * h) * (d - 1)) + (h - d) * (d - k - 1)
    OBVIOUS
  <2>6. (k * (h - 1)) * d <= ((m - 1) * (d - 1)) * d
    <3>1. /\ ((m - 1) * (d - 1)) * d \in Int /\ (k * (h - 1)) * d \in Int
          /\ (m * d) * (d - 1) \in Int /\ ((k + 1) * h) * (d - 1) \in Int
          /\ (h - d) * (d - k - 1) \in Int
      OBVIOUS
    <3> QED BY <2>3, <2>4, <2>5, <3>1
  <2>7. k * (h - 1) <= (m - 1) * (d - 1)
    <3>1. k * (h - 1) \in Int /\ (m - 1) * (d - 1) \in Int
      OBVIOUS
    <3> QED BY <2>6, <3>1, Cancelled
  <2>8. /\ (2 * u - 2) * k = 2 * (k * (u - 1)) /\ (h - 1) * k = k * (h - 1)
        /\ (2 * c - 2) * (d - 1) = 2 * ((c - 1) * (d - 1))
    OBVIOUS
  <2>9. /\ k * (u - 1) \in Int /\ k * (h - 1) \in Int /\ (c - 1) * (d - 1) \in Int
        /\ (m - 1) * (d - 1) \in Int
    OBVIOUS
  <2>10. k * (u - 1) <= (c - 1) * (d - 1)
    BY <2>2, <2>7, <2>8, <2>9
  <2> QED BY <1>0, <1>3, <2>10 DEF Ready
<1> QED BY <1>1, <1>2, <1>3

(* Nor does it do for more than the luma that it belongs to.                 *)
LEMMA ChromaNotBefore ==
  ASSUME NEW h \in Nat \ {0}, NEW u \in Nat \ {0}, NEW d \in Nat \ {0},
         h <= 2 * u, 2 * u <= h + 1,
         NEW m \in Nat, NEW c \in Nat, NEW k \in Nat, 2 * c <= m, Ready(u, d, c, k)
  PROVE  Ready(h, d, m, k)
<1>0. k < d
  BY DEF Ready
<1>1. CASE h < d
  <2>1. u < d /\ k * (u - 1) <= (c - 1) * (d - 1)
    BY <1>1 DEF Ready
  <2>2. (h - 1) * k <= (2 * u - 1) * k /\ (2 * c - 1) * (d - 1) <= (m - 1) * (d - 1)
    <3>1. 2 * u - 1 \in Int /\ h - 1 \in Int /\ m - 1 \in Int /\ 2 * c - 1 \in Int /\ d - 1 \in Nat
      OBVIOUS
    <3> QED BY <3>1, TimesGrows
  <2>3. /\ (2 * u - 1) * k = 2 * (k * (u - 1)) + k /\ (h - 1) * k = k * (h - 1)
        /\ (2 * c - 1) * (d - 1) = 2 * ((c - 1) * (d - 1)) + (d - 1)
    OBVIOUS
  <2>4. /\ k * (u - 1) \in Int /\ k * (h - 1) \in Int /\ (c - 1) * (d - 1) \in Int
        /\ (m - 1) * (d - 1) \in Int
    OBVIOUS
  <2>5. k * (h - 1) <= (m - 1) * (d - 1)
    BY <1>0, <2>1, <2>2, <2>3, <2>4
  <2> QED BY <1>0, <1>1, <2>5 DEF Ready
<1>2. CASE ~(h < d) /\ ~(u < d)
  <2>1. (k + 1) * u <= c * d
    BY <1>2 DEF Ready
  <2>2. h * (k + 1) <= (2 * u) * (k + 1) /\ (2 * c) * d <= m * d
    <3>1. 2 * u \in Int /\ h \in Int /\ m \in Int /\ 2 * c \in Int /\ k + 1 \in Nat
      OBVIOUS
    <3> QED BY <3>1, TimesGrows
  <2>3. /\ (2 * u) * (k + 1) = 2 * ((k + 1) * u) /\ h * (k + 1) = (k + 1) * h
        /\ (2 * c) * d = 2 * (c * d)
    OBVIOUS
  <2>4. (k + 1) * u \in Int /\ (k + 1) * h \in Int /\ m * d \in Int /\ c * d \in Int
    OBVIOUS
  <2>5. (k + 1) * h <= m * d
    BY <2>1, <2>2, <2>3, <2>4
  <2> QED BY <1>0, <1>2, <2>5 DEF Ready
<1>3. CASE ~(h < d) /\ u < d
  <2>1. k * (u - 1) <= (c - 1) * (d - 1)
    BY <1>3 DEF Ready
  <2>2. (2 * c) * (d * (d - 1)) <= m * (d * (d - 1)) /\ (h - 2) * (k * d) <= (2 * u - 2) * (k * d)
    <3>1. 2 * c \in Int /\ m \in Int /\ h - 2 \in Int /\ 2 * u - 2 \in Int /\ d - 1 \in Nat
      OBVIOUS
    <3>2. d * (d - 1) \in Nat /\ k * d \in Nat
      BY <3>1, Times
    <3> QED BY <3>1, <3>2, TimesGrows
  <2>3. (k * (u - 1)) * d <= ((c - 1) * (d - 1)) * d
    <3>1. k * (u - 1) \in Int /\ (c - 1) * (d - 1) \in Int
      OBVIOUS
    <3> QED BY <2>1, <3>1, TimesGrows
  <2>4. 0 <= (2 * d - h) * (d - k - 1)
    <3>1. 2 * d - h \in Nat /\ d - k - 1 \in Nat
      BY <1>0, <1>3
    <3> QED BY <3>1, Times
  <2>5. (m * d) * (d - 1) - ((k + 1) * h) * (d - 1)
          = (m * (d * (d - 1)) - (2 * c) * (d * (d - 1)))
              + 2 * (((c - 1) * (d - 1)) * d - (k * (u - 1)) * d)
              + ((2 * u - 2) * (k * d) - (h - 2) * (k * d)) + (2 * d - h) * (d - k - 1)
    OBVIOUS
  <2>6. ((k + 1) * h) * (d - 1) <= (m * d) * (d - 1)
    <3>1. /\ (m * d) * (d - 1) \in Int /\ ((k + 1) * h) * (d - 1) \in Int
          /\ m * (d * (d - 1)) \in Int /\ (2 * c) * (d * (d - 1)) \in Int
          /\ ((c - 1) * (d - 1)) * d \in Int /\ (k * (u - 1)) * d \in Int
          /\ (2 * u - 2) * (k * d) \in Int /\ (h - 2) * (k * d) \in Int
          /\ (2 * d - h) * (d - k - 1) \in Int
      OBVIOUS
    <3> QED BY <2>2, <2>3, <2>4, <2>5, <3>1
  <2>7. (k + 1) * h <= m * d
    <3>1. (k + 1) * h \in Int /\ m * d \in Int /\ d - 1 \in Nat \ {0}
      BY <1>3
    <3> QED BY <2>6, <3>1, Cancelled
  <2> QED BY <1>0, <1>3, <2>7 DEF Ready
<1> QED BY <1>1, <1>2, <1>3

(* The quotient rounded up.                                                  *)
LEMMA RoundedUp ==
  ASSUME NEW a \in Int, NEW b \in Nat \ {0}
  PROVE  \E q \in Int : /\ (a + b - 1) \div b = q
                        /\ q * b >= a /\ (q - 1) * b < a
<1> DEFINE x == a + b - 1
           q == x \div b
           r == x % b
<1>1. x \in Int /\ q \in Int /\ r \in 0..b - 1 /\ x = b * q + r
  OBVIOUS
<1>2. b * q = q * b /\ (q - 1) * b = q * b - b /\ q * b \in Int
  BY <1>1
<1>3. x = a + b - 1
  OBVIOUS
<1> HIDE DEF x, q, r
<1>4. q * b >= a /\ (q - 1) * b < a
  BY <1>1, <1>2, <1>3
<1> QED BY <1>1, <1>4 DEF q, x

(* How many rows a scaler says that it needs: none if one is ready, and else *)
(* as many as it takes in.                                                   *)
LEMMA NeededIsImported ==
  ASSUME NEW src \in Nat \ {0}, NEW dst \in Nat \ {0}, NEW m \in Nat, NEW k \in Nat,
         Fits(src, dst, m, k), k < dst, NEW n \in Nat,
         NEW s, s = ScalerAt(src, dst, m, k)
  PROVE  /\ Ready(src, dst, m, k) => NeededLines(s, n) = 0
         /\ ~Ready(src, dst, m, k) /\ n > 0 => NeededLines(s, n) > 0
         /\ ~Ready(src, dst, m, k) /\ n > 0 =>
              \A j \in Imported(src, dst, m, k, n) : j - m = NeededLines(s, n)
         /\ ~Ready(src, dst, m, k) /\ n = 0 => NeededLines(s, n) = 0
<1>0. m \in Int /\ k \in Int
  OBVIOUS
<1>a. PICK A \in Int : A = Accum(src, dst, m, k)
  BY <1>0, AccumType
<1>b. PICK B \in Nat \ {0} : B = YSub(src, dst)
  BY DEF YSub
<1>1. A \in Int /\ B \in Nat \ {0}
  OBVIOUS
<1>2. s.y_accum = A /\ s.y_sub = B
  BY <1>a, <1>b, ScalerFields DEF YSub
<1>3. PICK q \in Int : (A + B - 1) \div B = q /\ q * B >= A /\ (q - 1) * B < A
  BY <1>1, RoundedUp
<1>4. NeededLines(s, n) = MinOf(q, n)
  BY <1>2, <1>3 DEF NeededLines
<1>5. ASSUME Ready(src, dst, m, k) PROVE q = 0
  <2>1. A <= 0 /\ 0 < A + B
    BY <1>5, <1>a, <1>b, AccumReady
  <2>2. q < 1
    <3> SUFFICES ASSUME 0 <= q - 1 PROVE FALSE
      BY <1>3
    <3>1. q - 1 \in Nat
      BY <1>3
    <3>2. (q - 1) * B \in Nat
      BY <1>1, <3>1, Times
    <3> QED BY <1>1, <1>3, <2>1, <3>2
  <2>3. q > -1
    <3> SUFFICES ASSUME q <= -1 PROVE FALSE
      BY <1>3
    <3>1. q * B <= (-1) * B
      BY <1>1, <1>3, TimesGrows
    <3>2. (-1) * B = -B /\ q * B \in Int
      BY <1>1, <1>3
    <3> QED BY <1>1, <1>3, <2>1, <3>1, <3>2
  <2> QED BY <1>3, <2>2, <2>3
<1>6. ASSUME ~Ready(src, dst, m, k) PROVE q > 0
  <2>0. Ready(src, dst, m, k) <=> k < dst /\ Accum(src, dst, m, k) <= 0
    BY <1>0, ReadyIsAccum
  <2>1. A > 0
    BY <1>6, <1>a, <2>0
  <2> SUFFICES ASSUME q <= 0 PROVE FALSE
    BY <1>3
  <2>2. q * B <= 0 * B
    BY <1>1, <1>3, TimesGrows
  <2>3. 0 * B = 0 /\ q * B \in Int
    BY <1>1, <1>3
  <2> QED BY <1>1, <1>3, <2>1, <2>2, <2>3
<1>7. ASSUME ~Ready(src, dst, m, k), n > 0, NEW j \in Imported(src, dst, m, k, n)
      PROVE j - m = MinOf(q, n)
  <2>1. /\ j \in Nat /\ j >= m /\ j <= m + n /\ Fits(src, dst, j, k)
        /\ j = m + n \/ Ready(src, dst, j, k)
    BY DEF Imported
  <2>2. \A i \in Int : Ready(src, dst, m + i, k) <=> A - i * B <= 0
    <3> TAKE i \in Int
    <3>1. PICK l \in Int : l = m + i
      OBVIOUS
    <3>2. Ready(src, dst, l, k) <=> Accum(src, dst, l, k) <= 0
      BY <3>1, ReadyIsAccum
    <3>3. Accum(src, dst, l, k) = A - i * B
      <4>1. Accum(src, dst, l, k) = Accum(src, dst, m + i, k)
        BY <3>1
      <4>2. /\ k * (src - 1) \in Int /\ (m - 1) * (dst - 1) \in Int
            /\ (k + 1) * src \in Int /\ m * dst \in Int /\ i * (dst - 1) \in Int /\ i * dst \in Int
        OBVIOUS
      <4>3. /\ (m + i - 1) * (dst - 1) = (m - 1) * (dst - 1) + i * (dst - 1)
            /\ (m + i) * dst = m * dst + i * dst
        OBVIOUS
      <4>4. CASE src < dst
        <5>1. A = k * (src - 1) - (m - 1) * (dst - 1) /\ B = dst - 1
          BY <1>a, <1>b, <4>4 DEF Accum, YSub
        <5> QED BY <4>1, <4>2, <4>3, <4>4, <5>1 DEF Accum
      <4>5. CASE ~(src < dst)
        <5>1. A = (k + 1) * src - m * dst /\ B = dst
          BY <1>a, <1>b, <4>5 DEF Accum, YSub
        <5> QED BY <4>1, <4>2, <4>3, <4>5, <5>1 DEF Accum
      <4> QED BY <4>4, <4>5
    <3> QED BY <3>1, <3>2, <3>3
  <2>3. q * B \in Int /\ (q - 1) * B \in Int /\ q - 1 \in Int
    BY <1>1, <1>3
  <2>4. Ready(src, dst, m + q, k)
    <3>1. A - q * B <= 0
      BY <1>1, <1>3, <2>3
    <3> QED BY <1>3, <2>2, <3>1
  <2>5. ~Ready(src, dst, m + (q - 1), k)
    <3>1. ~(A - (q - 1) * B <= 0)
      BY <1>1, <1>3, <2>3
    <3> QED BY <2>2, <2>3, <3>1
  <2>6. q > 0
    BY <1>6, <1>7
  <2>7. j <= m + q
    <3> SUFFICES ASSUME m + q <= j - 1 PROVE FALSE
      BY <1>3, <2>1
    <3>1. PICK a \in Int : a = m + q
      BY <1>3
    <3>2. PICK b \in Int : b = j - 1
      BY <2>1
    <3>3. ~Ready(src, dst, b, k)
      <4>1. j > 0
        BY <2>1, <2>6, <3>1, <3>2
      <4> QED BY <2>1, <3>2, <4>1 DEF Fits
    <3>4. Ready(src, dst, a, k) /\ a <= b
      BY <2>4, <3>1, <3>2
    <3> QED BY <3>3, <3>4, ReadyGrows
  <2>8. CASE q <= n
    <3>1. j >= m + q
      <4> SUFFICES ASSUME j <= m + (q - 1) PROVE FALSE
        BY <1>3, <2>1
      <4>1. PICK a \in Int : a = m + (q - 1)
        BY <1>3
      <4>2. Ready(src, dst, j, k)
        BY <1>3, <2>1, <2>8
      <4>3. ~Ready(src, dst, a, k) /\ j <= a /\ j \in Int
        BY <2>1, <2>5, <4>1
      <4> QED BY <4>2, <4>3, ReadyGrows
    <3> QED BY <1>3, <2>1, <2>7, <2>8, <3>1 DEF MinOf
  <2>9. CASE ~(q <= n)
    <3>1. j = m + n
      <4> SUFFICES ASSUME Ready(src, dst, j, k) PROVE FALSE
        BY <2>1
      <4>1. PICK a \in Int : a = m + (q - 1)
        BY <1>3
      <4>2. ~Ready(src, dst, a, k) /\ j <= a /\ j \in Int
        BY <1>3, <2>1, <2>5, <2>9, <4>1
      <4> QED BY <4>2, ReadyGrows
    <3> QED BY <1>3, <2>9, <3>1 DEF MinOf
  <2> QED BY <2>8, <2>9
<1> QED BY <1>3, <1>4, <1>5, <1>6, <1>7 DEF MinOf

(* A round of the loop of EmitRescaledRGB: with the last of the luma all of  *)
(* the chroma has come, and until then each round takes a row of either.     *)
InStep(h, u, d, m, c, k, b, w, m1, c1) ==
  /\ m1 \in Nat /\ c1 \in Nat /\ m <= m1 /\ c <= c1 /\ m1 <= m + b /\ c1 <= c + w
  /\ Fits(h, d, m1, k) /\ Fits(u, d, c1, k)
  /\ m1 = m + b => c1 = c + w
  /\ m1 < m + b => m1 + c1 > m + c

(* A round imports of luma and chroma: while a row of luma is left, a round  *)
(* that finishes no row has used all there is of one of the two, and chroma  *)
(* is never behind luma by more than its last row.                           *)
LEMMA Together ==
  ASSUME NEW h \in Nat \ {0}, NEW u \in Nat \ {0}, NEW d \in Nat \ {0},
         h <= 2 * u, 2 * u <= h + 1,
         NEW m \in Nat, NEW c \in Nat, NEW k \in Nat, NEW b \in Nat \ {0}, NEW w \in Nat,
         ~(Ready(h, d, m, k) /\ Ready(u, d, c, k)),
         m + b <= 2 * (c + w), 2 * (c + w) <= m + b + 1,
         NEW m1 \in Imported(h, d, m, k, b), NEW c1 \in Imported(u, d, c, k, w)
  PROVE  InStep(h, u, d, m, c, k, b, w, m1, c1)
<1>1. /\ m1 \in Nat /\ m <= m1 /\ m1 <= m + b /\ Fits(h, d, m1, k)
      /\ m1 = m + b \/ Ready(h, d, m1, k)
  BY DEF Imported
<1>2. /\ c1 \in Nat /\ c <= c1 /\ c1 <= c + w /\ Fits(u, d, c1, k)
      /\ c1 = c + w \/ Ready(u, d, c1, k)
  BY DEF Imported
<1>3. ASSUME m1 = m + b PROVE c1 = c + w
  <2> SUFFICES ASSUME c1 # c + w PROVE FALSE
    OBVIOUS
  <2>1. Ready(u, d, c1, k) /\ c1 <= c + w - 1
    BY <1>2
  <2>2. PICK l \in Nat : l = m1 - 1
    BY <1>1, <1>3
  <2>3. ~Ready(h, d, l, k)
    BY <1>1, <1>3, <2>2 DEF Fits
  <2>4. 2 * c1 <= l
    BY <1>1, <1>2, <1>3, <2>1, <2>2
  <2> QED BY <1>2, <2>1, <2>3, <2>4, ChromaNotBefore
<1>4. ASSUME m1 < m + b PROVE m1 + c1 > m + c
  <2> SUFFICES ASSUME m1 = m, c1 = c PROVE FALSE
    BY <1>1, <1>2
  <2>1. Ready(h, d, m, k)
    BY <1>1, <1>4
  <2>2. c = c + w /\ ~Ready(u, d, c, k)
    BY <1>2, <2>1
  <2>3. m + 1 <= 2 * c
    BY <2>2
  <2> QED BY <2>1, <2>2, <2>3, ChromaFollows
<1> QED BY <1>1, <1>2, <1>3, <1>4 DEF InStep

(* The rows that come out.                                                   *)
ColoursFrom(h, u, d, k, n) ==
  [i \in 1..n |-> Colour(<<Shares(k + i - 1, h, d), Shares(k + i - 1, u, d)>>)]

(* The rows of both scalers make rows of colours.                            *)
LEMMA ColoursScaled ==
  ASSUME NEW h, NEW u, NEW d, NEW k \in Nat, NEW n \in Nat
  PROVE  /\ ScaledRows(SharesFrom(h, d, k, n), SharesFrom(u, d, k, n)) = ColoursFrom(h, u, d, k, n)
         /\ Len(ColoursFrom(h, u, d, k, n)) = n
<1>1. DOMAIN SharesFrom(h, d, k, n) = 1..n
  BY DEF SharesFrom
<1>2. ASSUME NEW x \in 1..n
      PROVE SharesFrom(h, d, k, n)[x] = Shares(k + x - 1, h, d) /\ SharesFrom(u, d, k, n)[x] = Shares(k + x - 1, u, d)
  BY DEF SharesFrom
<1>3. ScaledRows(SharesFrom(h, d, k, n), SharesFrom(u, d, k, n)) = ColoursFrom(h, u, d, k, n)
  BY <1>1, <1>2 DEF ScaledRows, ColoursFrom
<1>4. Len(ColoursFrom(h, u, d, k, n)) = n
  BY DEF ColoursFrom
<1> QED BY <1>3, <1>4

Joined(p, q, r) == p \o q = r

(* Rows of colours, and the ones behind them.                                *)
LEMMA ColoursJoined ==
  ASSUME NEW h, NEW u, NEW d, NEW k \in Nat, NEW n \in Nat, NEW i \in Nat,
         NEW l \in Nat, l = k + n, NEW z \in Nat, z = n + i
  PROVE  Joined(ColoursFrom(h, u, d, k, n), ColoursFrom(h, u, d, l, i),
                ColoursFrom(h, u, d, k, z))
<1> DEFINE f(x) == Colour(<<Shares(x, h, d), Shares(x, u, d)>>)
           p == [x \in 1..n |-> f(k + x - 1)]
           q == [x \in 1..i |-> f(l + x - 1)]
           r == [x \in 1..z |-> f(k + x - 1)]
<1>1. ColoursFrom(h, u, d, k, n) = p /\ ColoursFrom(h, u, d, l, i) = q
      /\ ColoursFrom(h, u, d, k, z) = r
  BY DEF ColoursFrom
<1> HIDE DEF f
<1>2. p \in Seq({f(x) : x \in Int}) /\ q \in Seq({f(x) : x \in Int}) /\ r \in Seq({f(x) : x \in Int})
  OBVIOUS
<1>3. Len(p) = n /\ Len(q) = i /\ Len(r) = z
  OBVIOUS
<1>4. ASSUME NEW x \in 1..z PROVE (p \o q)[x] = r[x]
  <2>1. CASE x <= n
    BY <1>2, <1>3, <2>1
  <2>2. CASE ~(x <= n)
    <3>1. (p \o q)[x] = q[x - n] /\ x - n \in 1..i
      BY <1>2, <1>3, <2>2
    <3>2. l + (x - n) - 1 = k + x - 1
      OBVIOUS
    <3> QED BY <3>1, <3>2
  <2> QED BY <2>1, <2>2
<1>5. p \o q = r
  BY <1>2, <1>3, <1>4
<1> QED BY <1>1, <1>5 DEF Joined

-----------------------------------------------------------------------------
\* The loop of EmitRescaledRGB.
(* The rounds of EmitRescaledRGB: what is left of a piece of b rows of luma  *)
(* and w of chroma after j and v of them, with i rows out.                   *)
RoundAt(h, u, d, n, e, k, l, ty, tu, ok, a, j, v, i) ==
  [params |-> Params(l, ty, tu, ok, ScalerAt(h, d, n + j, k + i), ScalerAt(u, d, e + v, k + i), a),
   j |-> j, uv_j |-> v, rows |-> ColoursFrom(h, u, d, k, i)]

InRound(h, u, d, n, e, k, b, w, r, j, v, i) ==
  /\ j \in 0..b /\ v \in 0..w /\ i \in Nat
  /\ Fits(h, d, n + j, k + i) /\ Fits(u, d, e + v, k + i)
  /\ ~(Ready(h, d, n + j, k + i) /\ Ready(u, d, e + v, k + i))
  /\ j = b => v = w
  /\ j < b => r <= j + v

(* A piece of b rows of luma and w of chroma from row n on.                  *)
PieceIs(io, d, n, b, w) == d = OutHeight /\ io.mb_y = n /\ io.mb_h = b /\ w = UvH(b)

Used(t, j, v) == t.j = j /\ t.uv_j = v

RoundTaken(x, rows, h, u, d, n, e, m, c, k, b, w, l, ty, tu, ok, a) ==
  \E m1 \in Imported(h, d, m, k, b), c1 \in Imported(u, d, c, k, w) :
    \E g \in GoneBoth(h, u, d, m1, c1, k, d) :
      x = [params |-> Params(l, ty, tu, ok, ScalerAt(h, d, m1, k + g),
                             ScalerAt(u, d, c1, k + g), a),
           j |-> m1 - n, uv_j |-> c1 - e,
           rows |-> rows \o ScaledRows(SharesFrom(h, d, k, g), SharesFrom(u, d, k, g))]

(* A round of EmitRescaledRGB takes luma and as much chroma as the scaler    *)
(* asks for, and exports what is ready.                                      *)
LEMMA RoundImports ==
  ASSUME NEW h \in Nat \ {0}, NEW u \in Nat \ {0}, NEW d \in Nat \ {0},
         h <= 2 * u, 2 * u <= h + 1,
         NEW io, NEW b \in Nat \ {0}, NEW w \in Nat, 2 * w >= b, 2 * w <= b + 1,
         NEW n \in Nat, NEW e \in Nat, n = 2 * e, n + b <= h, PieceIs(io, d, n, b, w),
         NEW j \in 0..b - 1, NEW v \in 0..w, NEW m \in Nat, m = n + j, NEW c \in Nat, c = e + v,
         NEW k \in Nat, Fits(h, d, m, k), Fits(u, d, c, k),
         ~(Ready(h, d, m, k) /\ Ready(u, d, c, k)),
         NEW t, Used(t, j, v),
         NEW l, NEW ty, NEW tu, NEW ok, NEW a,
         t.params = Params(l, ty, tu, ok, ScalerAt(h, d, m, k), ScalerAt(u, d, c, k), a),
         NEW bl \in Nat \ {0}, bl = b - j, NEW wl \in Nat, wl = w - v
  PROVE  RoundTaken(RescaleRound(io, t), t.rows, h, u, d, n, e, m, c, k, bl, wl, l, ty, tu, ok, a)
<1> DEFINE ys == ScalerAt(h, d, m, k)
           us == ScalerAt(u, d, c, k)
<1>1. t.params.scaler_y = ys /\ t.params.scaler_u = us
  <2>1. PICK p : p = t.params
    OBVIOUS
  <2> HIDE DEF ys, us
  <2>2. p = Params(l, ty, tu, ok, ys, us, a)
    BY <2>1 DEF ys, us
  <2>3. p.scaler_y = ys /\ p.scaler_u = us
    BY <2>2, ParamsFields
  <2> QED BY <2>1, <2>3
<1>0. t.j = j /\ t.uv_j = v
  BY DEF Used
<1>2. ys.src_y = m /\ us.src_y = c
  BY DEF ScalerAt
<1>3. bl = b - j
  OBVIOUS
<1>4. wl = w - v
  OBVIOUS
<1>5. MaxOf(bl, 0) = bl /\ MaxOf(wl, 0) = wl
  BY DEF MaxOf
<1>6. PICK m1 \in Imported(h, d, m, k, bl) : Import(ys, bl, m) = ScalerAt(h, d, m1, k)
  <2>1. bl \in Int /\ m + MaxOf(bl, 0) <= h
    BY <1>3, <1>5
  <2>2. \E x \in Imported(h, d, m, k, MaxOf(bl, 0)) : Import(ys, bl, m) = ScalerAt(h, d, x, k)
    BY <2>1, ImportRows
  <2> QED BY <1>5, <2>2
<1>7. c + wl <= u
  BY <1>4
<1>8. PICK c1 \in Imported(u, d, c, k, wl) :
        /\ Ready(u, d, c, k) \/ wl = 0 => c1 = c
        /\ ~(Ready(u, d, c, k) \/ wl = 0) => Import(us, wl, c) = ScalerAt(u, d, c1, k)
  <2>1. CASE Ready(u, d, c, k) \/ wl = 0
    <3>1. c \in Imported(u, d, c, k, wl)
      BY <2>1 DEF Imported
    <3> QED BY <2>1, <3>1
  <2>2. CASE ~(Ready(u, d, c, k) \/ wl = 0)
    <3>1. wl \in Int /\ c + MaxOf(wl, 0) <= u
      BY <1>5, <1>7
    <3>2. \E x \in Imported(u, d, c, k, MaxOf(wl, 0)) : Import(us, wl, c) = ScalerAt(u, d, x, k)
      BY <3>1, ImportRows
    <3> QED BY <1>5, <2>2, <3>2
  <2> QED BY <2>1, <2>2
<1>9. k < d
  <2>1. m < h
    BY <1>3
  <2> QED BY <2>1, FitsAtEnd
<1>10. NeededLines(us, wl) = 0 <=> Ready(u, d, c, k) \/ wl = 0
  <2> HIDE DEF us
  <2>1. us = ScalerAt(u, d, c, k)
    BY DEF us
  <2>2. Ready(u, d, c, k) => NeededLines(us, wl) = 0
    BY <1>9, <2>1, NeededIsImported
  <2>3. ~Ready(u, d, c, k) /\ wl > 0 => NeededLines(us, wl) > 0
    BY <1>9, <2>1, NeededIsImported
  <2>4. ~Ready(u, d, c, k) /\ wl = 0 => NeededLines(us, wl) = 0
    BY <1>9, <2>1, NeededIsImported
  <2> QED BY <2>2, <2>3, <2>4
<1>11. (IF NeededLines(us, wl) = 0 THEN us ELSE Import(us, wl, c)) = ScalerAt(u, d, c1, k)
  BY <1>8, <1>10
<1>12. m1 \in Nat /\ c1 \in Nat /\ Fits(h, d, m1, k) /\ Fits(u, d, c1, k)
  BY DEF Imported
<1>13. PICK g \in GoneBoth(h, u, d, m1, c1, k, d) :
         ExportRGB(Params(l, ty, tu, ok, ScalerAt(h, d, m1, k), ScalerAt(u, d, c1, k), a), d)
           = [params |-> Params(l, ty, tu, ok, ScalerAt(h, d, m1, k + g),
                                ScalerAt(u, d, c1, k + g), a),
              ys |-> SharesFrom(h, d, k, g), us |-> SharesFrom(u, d, k, g)]
  <2>1. d \in Nat
    OBVIOUS
  <2>2. BothOut(ExportRGB(Params(l, ty, tu, ok, ScalerAt(h, d, m1, k),
                                 ScalerAt(u, d, c1, k), a), d),
                h, u, d, m1, c1, k, d, l, ty, tu, ok, a)
    BY <1>12, <2>1, ExportBoth
  <2> QED BY <2>2 DEF BothOut
<1> DEFINE y1 == ScalerAt(h, d, m1, k)
           u1 == ScalerAt(u, d, c1, k)
           ex == ExportRGB(Params(l, ty, tu, ok, y1, u1, a), d)
<1>14. y1.src_y = m1 /\ u1.src_y = c1
  BY DEF ScalerAt
<1>15. [t.params EXCEPT !.scaler_y = y1, !.scaler_u = u1] = Params(l, ty, tu, ok, y1, u1, a)
  <2>1. PICK p : p = t.params
    OBVIOUS
  <2>2. PICK x, z : x = ys /\ z = us
    OBVIOUS
  <2>3. PICK x1, z1 : x1 = y1 /\ z1 = u1
    OBVIOUS
  <2> HIDE DEF ys, us, y1, u1
  <2>4. p = Params(l, ty, tu, ok, x, z, a)
    BY <2>1, <2>2 DEF ys, us
  <2>5. WithScalers(p, x1, z1) = Params(l, ty, tu, ok, x1, z1, a)
    BY <2>4, ParamsUpdates
  <2> QED BY <2>1, <2>3, <2>5, Zenon DEF WithScalers
<1>16. /\ io.mb_h - t.j = bl /\ io.mb_y + t.j = m /\ UvH(io.mb_h) - t.uv_j = wl
       /\ io.mb_y \div 2 + t.uv_j = c /\ OutHeight = d
  <2>1. io.mb_h = b /\ io.mb_y = n /\ UvH(io.mb_h) = w /\ OutHeight = d
    BY DEF PieceIs
  <2>2. n \div 2 + v = c /\ n + j = m
    OBVIOUS
  <2> QED BY <1>0, <1>3, <1>4, <2>1, <2>2
<1> HIDE DEF ys, us, y1, u1
<1>17. RescaleRound(io, t)
         = [params |-> ex.params, j |-> j + m1 - m, uv_j |-> v + c1 - c,
            rows |-> t.rows \o ScaledRows(ex.ys, ex.us)]
  <2>1. Import(ys, bl, m) = y1
    BY <1>6 DEF y1
  <2>2. (IF NeededLines(us, wl) = 0 THEN us ELSE Import(us, wl, c)) = u1
    BY <1>11 DEF u1
  <2> HIDE DEF ex
  <2>3. RescaleRound(io, t) =
          LET y == Import(ys, bl, m)
              uu == IF NeededLines(us, wl) = 0 THEN us ELSE Import(us, wl, c)
              ee == ExportRGB([t.params EXCEPT !.scaler_y = y, !.scaler_u = uu], d)
          IN [params |-> ee.params, j |-> t.j + y.src_y - ys.src_y,
              uv_j |-> t.uv_j + uu.src_y - us.src_y,
              rows |-> t.rows \o ScaledRows(ee.ys, ee.us)]
    BY <1>1, <1>16, Zenon DEF RescaleRound
  <2>4. RescaleRound(io, t) =
          LET ee == ExportRGB([t.params EXCEPT !.scaler_y = y1, !.scaler_u = u1], d)
          IN [params |-> ee.params, j |-> t.j + y1.src_y - ys.src_y,
              uv_j |-> t.uv_j + u1.src_y - us.src_y,
              rows |-> t.rows \o ScaledRows(ee.ys, ee.us)]
    BY <2>1, <2>2, <2>3, Zenon
  <2>5. RescaleRound(io, t) =
           [params |-> ex.params, j |-> t.j + y1.src_y - ys.src_y,
              uv_j |-> t.uv_j + u1.src_y - us.src_y,
              rows |-> t.rows \o ScaledRows(ex.ys, ex.us)]
    BY <1>15, <2>4, Zenon DEF ex
  <2> QED BY <1>0, <1>2, <1>14, <2>5
<1>18. /\ ex.params = Params(l, ty, tu, ok, ScalerAt(h, d, m1, k + g), ScalerAt(u, d, c1, k + g), a)
       /\ ex.ys = SharesFrom(h, d, k, g) /\ ex.us = SharesFrom(u, d, k, g)
  BY <1>13 DEF y1, u1
<1> HIDE DEF ex
<1>19. j + m1 - m = m1 - n /\ v + c1 - c = c1 - e
  BY <1>12
<1>20. RescaleRound(io, t)
         = [params |-> Params(l, ty, tu, ok, ScalerAt(h, d, m1, k + g), ScalerAt(u, d, c1, k + g), a),
            j |-> m1 - n, uv_j |-> c1 - e,
            rows |-> t.rows \o ScaledRows(SharesFrom(h, d, k, g), SharesFrom(u, d, k, g))]
  BY <1>17, <1>18, <1>19
<1> QED BY <1>20 DEF RoundTaken

IsRound(t, h, u, d, n, e, k, b, w, l, ty, tu, ok, a, r) ==
  \E j \in 0..b, v \in 0..w, i \in Nat :
    /\ InRound(h, u, d, n, e, k, b, w, r, j, v, i)
    /\ t = RoundAt(h, u, d, n, e, k, l, ty, tu, ok, a, j, v, i)

(* It advances the loop: a row more of luma or of chroma has been used.      *)
LEMMA RoundAdvances ==
  ASSUME NEW h \in Nat \ {0}, NEW u \in Nat \ {0}, NEW d \in Nat \ {0},
         h <= 2 * u, 2 * u <= h + 1,
         NEW b \in Nat \ {0}, NEW w \in Nat, 2 * w >= b, 2 * w <= b + 1,
         NEW n \in Nat, NEW e \in Nat, n = 2 * e,
         NEW k \in Nat, NEW r \in Nat, NEW l, NEW ty, NEW tu, NEW ok, NEW a,
         NEW j \in 0..b - 1, NEW v \in 0..w, NEW i \in Nat,
         NEW m \in Nat, NEW c \in Nat, NEW q \in Nat, m = n + j, c = e + v, q = k + i,
         Fits(h, d, m, q), Fits(u, d, c, q), ~(Ready(h, d, m, q) /\ Ready(u, d, c, q)),
         r <= j + v,
         NEW bl \in Nat \ {0}, NEW wl \in Nat, bl = b - j, wl = w - v,
         NEW x, RoundTaken(x, ColoursFrom(h, u, d, k, i), h, u, d, n, e, m, c, q, bl, wl,
                           l, ty, tu, ok, a)
  PROVE  IsRound(x, h, u, d, n, e, k, b, w, l, ty, tu, ok, a, r + 1)
<1>1. PICK m1 \in Imported(h, d, m, q, bl), c1 \in Imported(u, d, c, q, wl) :
        \E g \in GoneBoth(h, u, d, m1, c1, q, d) :
          x = [params |-> Params(l, ty, tu, ok, ScalerAt(h, d, m1, q + g),
                                 ScalerAt(u, d, c1, q + g), a),
               j |-> m1 - n, uv_j |-> c1 - e,
               rows |-> ColoursFrom(h, u, d, k, i)
                          \o ScaledRows(SharesFrom(h, d, q, g), SharesFrom(u, d, q, g))]
  BY DEF RoundTaken
<1>2. PICK g \in GoneBoth(h, u, d, m1, c1, q, d) :
          x = [params |-> Params(l, ty, tu, ok, ScalerAt(h, d, m1, q + g),
                                 ScalerAt(u, d, c1, q + g), a),
               j |-> m1 - n, uv_j |-> c1 - e,
               rows |-> ColoursFrom(h, u, d, k, i)
                          \o ScaledRows(SharesFrom(h, d, q, g), SharesFrom(u, d, q, g))]
  BY <1>1
<1>3. /\ m1 \in Nat /\ c1 \in Nat /\ m <= m1 /\ c <= c1 /\ m1 <= m + bl /\ c1 <= c + wl
      /\ Fits(h, d, m1, q) /\ Fits(u, d, c1, q)
      /\ m1 = m + bl => c1 = c + wl
      /\ m1 < m + bl => m1 + c1 > m + c
  <2>1. m + bl <= 2 * (c + wl) /\ 2 * (c + wl) <= m + bl + 1
    OBVIOUS
  <2>2. InStep(h, u, d, m, c, q, bl, wl, m1, c1)
    BY <2>1, Together
  <2> QED BY <2>2 DEF InStep
<1>4. g \in Nat /\ g <= d
  BY DEF GoneBoth
<1>5. PICK k1 \in Nat : k1 = q + g
  BY <1>4
<1>6. Fits(h, d, m1, k1) /\ Fits(u, d, c1, k1) /\ ~(Ready(h, d, m1, k1) /\ Ready(u, d, c1, k1))
  <2>1. g = d \/ ~(Ready(h, d, m1, k1) /\ Ready(u, d, c1, k1))
    BY <1>5 DEF GoneBoth
  <2>2. g = d => ~(k1 < d)
    BY <1>5
  <2>3. g = d => ~Ready(h, d, m1, k1)
    BY <2>2 DEF Ready
  <2>4. Fits(h, d, m1, k1) /\ Fits(u, d, c1, k1)
    BY <1>5 DEF GoneBoth
  <2> QED BY <2>1, <2>3, <2>4
<1>7. PICK j1 \in 0..b, v1 \in 0..w, i1 \in Nat : j1 = m1 - n /\ v1 = c1 - e /\ i1 = i + g
  BY <1>3, <1>4
<1>8. n + j1 = m1 /\ e + v1 = c1 /\ k + i1 = k1
  BY <1>3, <1>4, <1>5, <1>7
<1>9. InRound(h, u, d, n, e, k, b, w, r + 1, j1, v1, i1)
  <2>1. j1 = b => v1 = w
    BY <1>3, <1>8
  <2>2. j1 < b => r + 1 <= j1 + v1
    BY <1>3, <1>7, <1>8
  <2> QED BY <1>6, <1>8, <2>1, <2>2 DEF InRound
<1>10. ColoursFrom(h, u, d, k, i) \o ScaledRows(SharesFrom(h, d, q, g), SharesFrom(u, d, q, g))
         = ColoursFrom(h, u, d, k, i1)
  <2>1. ScaledRows(SharesFrom(h, d, q, g), SharesFrom(u, d, q, g)) = ColoursFrom(h, u, d, q, g)
    BY <1>4, ColoursScaled
  <2>2. ColoursFrom(h, u, d, k, i) \o ColoursFrom(h, u, d, q, g) = ColoursFrom(h, u, d, k, i1)
    <3>1. PICK y \in Nat : y = g
      BY <1>4
    <3>2. i1 \in Nat /\ i1 = i + y /\ q = k + i
      BY <1>7, <3>1
    <3>3. Joined(ColoursFrom(h, u, d, k, i), ColoursFrom(h, u, d, q, y),
                 ColoursFrom(h, u, d, k, i1))
      BY <3>2, ColoursJoined
    <3> QED BY <3>1, <3>3 DEF Joined
  <2> QED BY <1>7, <2>1, <2>2
<1>11. x = RoundAt(h, u, d, n, e, k, l, ty, tu, ok, a, j1, v1, i1)
  BY <1>2, <1>5, <1>7, <1>8, <1>10 DEF RoundAt
<1> QED BY <1>9, <1>11 DEF IsRound

(* A round keeps what is known of the loop, of one that is done too.         *)
LEMMA RoundKeeps ==
  ASSUME NEW h \in Nat \ {0}, NEW u \in Nat \ {0}, NEW d \in Nat \ {0},
         h <= 2 * u, 2 * u <= h + 1,
         NEW io, NEW b \in Nat \ {0}, NEW w \in Nat, 2 * w >= b, 2 * w <= b + 1,
         NEW n \in Nat, NEW e \in Nat, n = 2 * e, n + b <= h, PieceIs(io, d, n, b, w),
         NEW k \in Nat, NEW r \in Nat, NEW l, NEW ty, NEW tu, NEW ok, NEW a,
         NEW t, IsRound(t, h, u, d, n, e, k, b, w, l, ty, tu, ok, a, r)
  PROVE  IsRound(IF t.j < b THEN RescaleRound(io, t) ELSE t,
                 h, u, d, n, e, k, b, w, l, ty, tu, ok, a, r + 1)
<1>1. PICK j \in 0..b, v \in 0..w, i \in Nat :
        /\ InRound(h, u, d, n, e, k, b, w, r, j, v, i)
        /\ t = RoundAt(h, u, d, n, e, k, l, ty, tu, ok, a, j, v, i)
  BY DEF IsRound
<1>2. /\ t.j = j /\ t.uv_j = v /\ t.rows = ColoursFrom(h, u, d, k, i)
      /\ t.params = Params(l, ty, tu, ok, ScalerAt(h, d, n + j, k + i),
                           ScalerAt(u, d, e + v, k + i), a)
  BY <1>1 DEF RoundAt
<1>3. CASE ~(j < b)
  <2>1. InRound(h, u, d, n, e, k, b, w, r + 1, j, v, i)
    BY <1>1, <1>3 DEF InRound
  <2> QED BY <1>1, <1>2, <1>3, <2>1 DEF IsRound
<1>4. CASE j < b
  <2>1. PICK m \in Nat, c \in Nat, q \in Nat : m = n + j /\ c = e + v /\ q = k + i
    OBVIOUS
  <2>2. /\ Fits(h, d, m, q) /\ Fits(u, d, c, q) /\ ~(Ready(h, d, m, q) /\ Ready(u, d, c, q))
        /\ r <= j + v
    BY <1>1, <1>4, <2>1 DEF InRound
  <2>3. PICK bl \in Nat \ {0}, wl \in Nat : bl = b - j /\ wl = w - v
    BY <1>4
  <2>4. j \in 0..b - 1
    BY <1>4
  <2>5. t.params = Params(l, ty, tu, ok, ScalerAt(h, d, m, q), ScalerAt(u, d, c, q), a)
    BY <1>2, <2>1
  <2>6. RoundTaken(RescaleRound(io, t), t.rows, h, u, d, n, e, m, c, q, bl, wl,
                   l, ty, tu, ok, a)
    <3>1. Used(t, j, v)
      BY <1>2 DEF Used
    <3> QED BY <2>1, <2>2, <2>3, <2>4, <2>5, <3>1, RoundImports
  <2>7. PICK x : x = RescaleRound(io, t)
    OBVIOUS
  <2>8. RoundTaken(x, ColoursFrom(h, u, d, k, i), h, u, d, n, e, m, c, q, bl, wl,
                   l, ty, tu, ok, a)
    BY <1>2, <2>6, <2>7
  <2>9. IsRound(x, h, u, d, n, e, k, b, w, l, ty, tu, ok, a, r + 1)
    BY <2>1, <2>2, <2>3, <2>4, <2>8, RoundAdvances
  <2> QED BY <1>2, <1>4, <2>7, <2>9
<1> QED BY <1>3, <1>4

(* A piece of a picture that is scaled.                                      *)
ScaledOut(x, o, h, u, d, n, e, b, w, k, ty, tu, ok, a) ==
  \E i \in Nat :
    /\ Fits(h, d, n + b, k + i) /\ Fits(u, d, e + w, k + i)
    /\ ~(Ready(h, d, n + b, k + i) /\ Ready(u, d, e + w, k + i))
    /\ x = Emitted(Params(k, ty, tu, ok, ScalerAt(h, d, n + b, k + i),
                          ScalerAt(u, d, e + w, k + i), a),
                   Written(o, k, ColoursFrom(h, u, d, k, i)), i)

RoundsOf(h, u, d, n, e, k, b, w, l, ty, tu, ok, a, r) ==
  {t \in {RoundAt(h, u, d, n, e, k, l, ty, tu, ok, a, j, v, i) : j \in 0..b, v \in 0..w, i \in Nat} :
     IsRound(t, h, u, d, n, e, k, b, w, l, ty, tu, ok, a, r)}

(* The set of the states that the loop may be in after r rounds.             *)
LEMMA RoundsOfIs ==
  ASSUME NEW h, NEW u, NEW d, NEW n, NEW e, NEW k, NEW b, NEW w, NEW l, NEW ty, NEW tu,
         NEW ok, NEW a, NEW r, NEW t
  PROVE  t \in RoundsOf(h, u, d, n, e, k, b, w, l, ty, tu, ok, a, r)
           <=> IsRound(t, h, u, d, n, e, k, b, w, l, ty, tu, ok, a, r)
  BY DEF RoundsOf, IsRound

(* EmitRescaledRGB: the loop ends with the whole piece used, luma and chroma *)
(* at the same row of the output, and the rows in between are the shares of  *)
(* the source.                                                               *)
LEMMA EmitScaled ==
  ASSUME NEW h \in Nat \ {0}, NEW u \in Nat \ {0}, NEW d \in Nat \ {0},
         h <= 2 * u, 2 * u <= h + 1,
         NEW io, NEW b \in Nat \ {0}, NEW w \in Nat, 2 * w >= b, 2 * w <= b + 1,
         NEW n \in Nat, NEW e \in Nat, n = 2 * e, n + b <= h, PieceIs(io, d, n, b, w),
         NEW k \in Nat, NEW ty, NEW tu, NEW ok, NEW a, NEW o,
         Fits(h, d, n, k), Fits(u, d, e, k), ~(Ready(h, d, n, k) /\ Ready(u, d, e, k)),
         NEW p, p = Params(k, ty, tu, ok, ScalerAt(h, d, n, k), ScalerAt(u, d, e, k), a)
  PROVE  ScaledOut(EmitRescaledRGB(io, p, o), o, h, u, d, n, e, b, w, k, ty, tu, ok, a)
<1> DEFINE most == 2 * io.mb_h + OutHeight + 1
           s == [params |-> p, j |-> 0, uv_j |-> 0, rows |-> <<>>]
           step(t) == IF t.j < io.mb_h THEN RescaleRound(io, t) ELSE t
           Is(f) == f = [i \in 0..most |-> IF i = 0 THEN s ELSE step(f[i - 1])]
           f == CHOOSE f : Is(f)
           R(i) == RoundsOf(h, u, d, n, e, k, b, w, k, ty, tu, ok, a, i)
           S == [i \in 0..most |-> R(i)]
           F == [i \in 1..most |-> [t \in S[i - 1] |-> step(t)]]
<1>1. EmitRescaledRGB(io, p, o)
        = [Emitted(f[most].params, Written(o, p.last_y, f[most].rows), Len(f[most].rows))
            EXCEPT !.asserts = f[most].j = io.mb_h]
  BY DEF EmitRescaledRGB
<1>2. io.mb_h = b /\ OutHeight = d /\ most \in Nat /\ most > 2 * b
  <2>1. io.mb_h = b /\ OutHeight = d
    BY DEF PieceIs
  <2> QED BY <2>1
<1> HIDE DEF most
<1>3. s \in S[0]
  <2>1. Fits(h, d, n + 0, k + 0) /\ Fits(u, d, e + 0, k + 0)
        /\ ~(Ready(h, d, n + 0, k + 0) /\ Ready(u, d, e + 0, k + 0))
    <3>1. n + 0 = n /\ k + 0 = k /\ e + 0 = e
      OBVIOUS
    <3> QED BY <3>1
  <2>2. InRound(h, u, d, n, e, k, b, w, 0, 0, 0, 0)
    BY <2>1 DEF InRound
  <2>3. s = RoundAt(h, u, d, n, e, k, k, ty, tu, ok, a, 0, 0, 0)
    <3>1. n + 0 = n /\ k + 0 = k /\ e + 0 = e
      OBVIOUS
    <3>2. ColoursFrom(h, u, d, k, 0) = <<>>
      BY DEF ColoursFrom
    <3> QED BY <3>1, <3>2 DEF RoundAt
  <2>4. IsRound(s, h, u, d, n, e, k, b, w, k, ty, tu, ok, a, 0)
    <3> HIDE DEF s
    <3> QED BY <2>2, <2>3 DEF IsRound
  <2>5. 0 \in 0..most
    BY <1>2
  <2> HIDE DEF s
  <2> QED BY <2>4, <2>5, RoundsOfIs
<1>4. ASSUME NEW i \in 1..most, NEW t \in S[i - 1] PROVE step(t) \in S[i]
  <2>1. i - 1 \in 0..most /\ i \in 0..most
    BY <1>2
  <2>2. t \in R(i - 1)
    BY <2>1
  <2>3. PICK r \in Nat : r = i - 1 /\ r + 1 = i
    BY <1>2
  <2>4. IsRound(t, h, u, d, n, e, k, b, w, k, ty, tu, ok, a, r)
    BY <2>2, <2>3, RoundsOfIs
  <2>5. IsRound(IF t.j < b THEN RescaleRound(io, t) ELSE t,
                 h, u, d, n, e, k, b, w, k, ty, tu, ok, a, r + 1)
    BY <2>4, RoundKeeps
  <2>6. step(t) = IF t.j < b THEN RescaleRound(io, t) ELSE t
    BY <1>2
  <2>7. IsRound(step(t), h, u, d, n, e, k, b, w, k, ty, tu, ok, a, i)
    <3> HIDE DEF step
    <3> QED BY <2>3, <2>5, <2>6
  <2> HIDE DEF step
  <2> QED BY <2>1, <2>7, RoundsOfIs
<1> HIDE DEF step, S, s
<1>5. \A i \in 1..most : \A t \in S[i - 1] : F[i][t] \in S[i]
  BY <1>4
<1> HIDE DEF F
<1>6. PICK g : Loop(s, F, most, g) /\ \A i \in 0..most : g[i] \in S[i]
  BY <1>2, <1>3, <1>5, LoopExists
<1>7. Is(g)
  <2>1. ASSUME NEW i \in 0..most PROVE g[i] = IF i = 0 THEN s ELSE step(g[i - 1])
    <3>1. CASE i = 0
      BY <1>6, <3>1 DEF Loop
    <3>2. CASE i # 0
      <4>1. i \in 1..most /\ i - 1 \in 0..most
        BY <1>2, <3>2
      <4>2. g[i] = F[i][g[i - 1]] /\ g[i - 1] \in S[i - 1]
        BY <1>6, <3>2, <4>1 DEF Loop
      <4> QED BY <3>2, <4>1, <4>2 DEF F
    <3> QED BY <3>1, <3>2
  <2> QED BY <1>6, <2>1 DEF Loop
<1>8. Is(f)
  BY <1>7
<1> HIDE DEF f
<1>9. \A i \in 0..most : f[i] \in S[i]
  <2>1. f[0] \in S[0]
    BY <1>2, <1>3, <1>8
  <2>2. ASSUME NEW i \in 1..most, f[i - 1] \in S[i - 1] PROVE f[i] \in S[i]
    <3>1. i \in 0..most /\ i # 0
      BY <1>2
    <3>2. f[i] = step(f[i - 1])
      BY <1>8, <3>1
    <3> QED BY <1>4, <2>2, <3>2
  <2> QED BY <1>2, <2>1, <2>2, LoopStays
<1>10. PICK q \in Nat : q = most
  BY <1>2
<1>11. f[q] \in S[q]
  BY <1>9, <1>10
<1>12. PICK t : t = f[q]
  OBVIOUS
<1>13. IsRound(t, h, u, d, n, e, k, b, w, k, ty, tu, ok, a, q)
  <2>1. t \in R(q)
    BY <1>10, <1>11, <1>12 DEF S
  <2> QED BY <2>1, RoundsOfIs
<1>14. EmitRescaledRGB(io, p, o)
        = [Emitted(t.params, Written(o, p.last_y, t.rows), Len(t.rows))
            EXCEPT !.asserts = t.j = b]
  BY <1>1, <1>2, <1>10, <1>12
<1>15. p.last_y = k
  BY ParamsFields
<1>16. PICK j \in 0..b, v \in 0..w, i \in Nat :
        /\ InRound(h, u, d, n, e, k, b, w, q, j, v, i)
        /\ t = RoundAt(h, u, d, n, e, k, k, ty, tu, ok, a, j, v, i)
  BY <1>13 DEF IsRound
<1>17. j = b /\ v = w
  BY <1>2, <1>10, <1>16 DEF InRound
<1>18. /\ t.params = Params(k, ty, tu, ok, ScalerAt(h, d, n + b, k + i),
                            ScalerAt(u, d, e + w, k + i), a)
       /\ t.j = b /\ t.rows = ColoursFrom(h, u, d, k, i)
  BY <1>16, <1>17 DEF RoundAt
<1>19. Len(t.rows) = i
  BY <1>18, ColoursScaled
<1> DEFINE P == Params(k, ty, tu, ok, ScalerAt(h, d, n + b, k + i), ScalerAt(u, d, e + w, k + i), a)
           O == Written(o, k, ColoursFrom(h, u, d, k, i))
<1>20. PICK z : z = Emitted(P, O, i)
  OBVIOUS
<1>21. EmitRescaledRGB(io, p, o) = [z EXCEPT !.asserts = TRUE]
  BY <1>14, <1>15, <1>18, <1>19, <1>20
<1>22. PICK y : y = [z EXCEPT !.asserts = TRUE]
  OBVIOUS
<1>23. y = Emitted(P, O, i)
  <2> HIDE DEF P, O
  <2>1. z = [params |-> P, out |-> O, num_lines_out |-> i, asserts |-> TRUE]
    BY <1>20 DEF Emitted
  <2>2. y = [params |-> P, out |-> O, num_lines_out |-> i, asserts |-> TRUE]
    BY <1>22, <2>1
  <2> QED BY <2>2 DEF Emitted
<1>24. EmitRescaledRGB(io, p, o) = Emitted(P, O, i)
  BY <1>21, <1>22, <1>23
<1>25. /\ Fits(h, d, n + b, k + i) /\ Fits(u, d, e + w, k + i)
       /\ ~(Ready(h, d, n + b, k + i) /\ Ready(u, d, e + w, k + i))
  BY <1>16, <1>17 DEF InRound
<1> QED BY <1>24, <1>25 DEF ScaledOut

-----------------------------------------------------------------------------
\* The loop of EmitRescaledAlphaRGB.
(* The alpha of the rows k..k + x - 1, and of g rows more.                   *)
LEMMA AlphaJoined ==
  ASSUME NEW o, NEW k \in Nat, NEW x \in Nat, NEW g \in Nat, NEW q \in Nat, q = k + x,
         NEW z \in Nat, z = x + g, NEW h, NEW d, DOMAIN o \subseteq Int
  PROVE  WithAlpha(WithAlpha(o, k, SharesFrom(h, d, k, x)), q, SharesFrom(h, d, q, g))
           = WithAlpha(o, k, SharesFrom(h, d, k, z))
<1> DEFINE A == SharesFrom(h, d, k, x)
           B == SharesFrom(h, d, q, g)
           C == SharesFrom(h, d, k, z)
           w == WithAlpha(o, k, A)
           f(j, s) == Premultiplied([o[j] EXCEPT !.alpha = s])
<1>1. Len(A) = x /\ Len(B) = g /\ Len(C) = z
  BY SharesLength
<1>2. /\ \A i \in 1..x : A[i] = Shares(k + i - 1, h, d)
      /\ \A i \in 1..g : B[i] = Shares(q + i - 1, h, d)
      /\ \A i \in 1..z : C[i] = Shares(k + i - 1, h, d)
  BY DEF SharesFrom
<1> HIDE DEF A, B, C
<1>3. w = [j \in DOMAIN o |-> IF j \in k..k + x - 1 THEN f(j, A[j - k + 1]) ELSE o[j]]
  BY <1>1 DEF WithAlpha
<1>4. WithAlpha(w, q, B)
        = [j \in DOMAIN w |-> IF j \in q..q + g - 1
                              THEN Premultiplied([w[j] EXCEPT !.alpha = B[j - q + 1]]) ELSE w[j]]
  BY <1>1 DEF WithAlpha
<1>5. WithAlpha(o, k, C) = [j \in DOMAIN o |-> IF j \in k..k + z - 1 THEN f(j, C[j - k + 1]) ELSE o[j]]
  BY <1>1 DEF WithAlpha
<1> HIDE DEF f, w
<1>6. DOMAIN w = DOMAIN o
  BY <1>3
<1>7. ASSUME NEW j \in DOMAIN o
      PROVE  (IF j \in q..q + g - 1
              THEN Premultiplied([w[j] EXCEPT !.alpha = B[j - q + 1]]) ELSE w[j])
               = (IF j \in k..k + z - 1 THEN f(j, C[j - k + 1]) ELSE o[j])
  <2>0. j \in Int
    OBVIOUS
  <2>1. CASE j \in q..q + g - 1
    <3>1. j \notin k..k + x - 1 /\ j \in k..k + z - 1
      BY <2>0, <2>1
    <3>2. w[j] = o[j]
      BY <1>3, <3>1
    <3>3. PICK i1 \in 1..g : i1 = j - q + 1
      BY <2>0, <2>1
    <3>4. PICK i2 \in 1..z : i2 = j - k + 1
      BY <2>0, <3>1
    <3>5. q + i1 - 1 = k + i2 - 1
      BY <2>0, <3>3, <3>4
    <3>6. B[j - q + 1] = C[j - k + 1]
      BY <1>2, <3>3, <3>4, <3>5
    <3> QED BY <2>1, <3>1, <3>2, <3>6 DEF f
  <2>2. CASE j \in k..k + x - 1
    <3>1. j \notin q..q + g - 1 /\ j \in k..k + z - 1
      BY <2>0, <2>2
    <3>2. PICK i1 \in 1..x : i1 = j - k + 1
      BY <2>0, <2>2
    <3>3. i1 \in 1..z
      OBVIOUS
    <3>4. A[j - k + 1] = C[j - k + 1]
      BY <1>2, <3>2, <3>3
    <3> QED BY <1>3, <2>2, <3>1, <3>4
  <2>3. CASE j \notin k..k + x - 1 /\ j \notin q..q + g - 1
    <3>1. j \notin k..k + z - 1
      BY <2>0, <2>3
    <3> QED BY <1>3, <2>3, <3>1
  <2> QED BY <2>1, <2>2, <2>3
<1>8. WithAlpha(w, q, B) = WithAlpha(o, k, C)
  BY <1>4, <1>5, <1>6, <1>7
<1> QED BY <1>8 DEF w, A, B, C

(* No row of alpha changes nothing of the output.                            *)
LEMMA NoAlphaYet ==
  ASSUME NEW o, NEW k \in Nat, NEW h, NEW d, DOMAIN o \subseteq Int,
         o = [j \in DOMAIN o |-> o[j]]
  PROVE  WithAlpha(o, k, SharesFrom(h, d, k, 0)) = o
<1>1. Len(SharesFrom(h, d, k, 0)) = 0
  BY SharesLength
<1>2. \A j \in DOMAIN o : j \notin k..k + 0 - 1
  OBVIOUS
<1> QED BY <1>1, <1>2 DEF WithAlpha

(* The rounds of EmitRescaledAlphaRGB: x of the i rows have their alpha.     *)
AlphaAt(h, d, m, k, i, x, l, ty, tu, ok, y, u, o) ==
  [params |-> Params(l, ty, tu, ok, y, u, ScalerAt(h, d, m, k + x)), lines_left |-> i - x,
   out |-> WithAlpha(o, k, SharesFrom(h, d, k, x))]

IsAlphaRound(t, h, d, M, k, i, l, ty, tu, ok, y, u, o, r) ==
  \E m \in 0..M, x \in 0..i :
    /\ Fits(h, d, m, k + x)
    /\ x < i => r <= x
    /\ t = AlphaAt(h, d, m, k, i, x, l, ty, tu, ok, y, u, o)

(* The piece ends in row M of the plane, and row K of the output.            *)
AlphaEnds(io, e, M, K) ==
  /\ io.mb_h + io.mb_y = M /\ io.a = io.mb_y + pic.crop_top
  /\ io.mb_y \in Int /\ io.mb_h \in Int /\ pic.crop_top \in Int
  /\ e.params.last_y \in Int /\ e.num_lines_out \in Int
  /\ e.params.last_y + e.num_lines_out = K

TwiceAlpha(o, k, q, h, d, x, g, z) ==
  WithAlpha(WithAlpha(o, k, SharesFrom(h, d, k, x)), q, SharesFrom(h, d, q, g))
    = WithAlpha(o, k, SharesFrom(h, d, k, z))

RoundWith(t, e, x) ==
  [params |-> [t.params EXCEPT !.scaler_a = x.scaler],
   lines_left |-> t.lines_left - Len(x.rows),
   out |-> WithAlpha(t.out, (e.params.last_y + e.num_lines_out) - t.lines_left, x.rows)]

(* Rows of alpha, and the ones behind them.                                  *)
LEMMA AlphaTwice ==
  ASSUME NEW o, NEW k \in Nat, NEW x \in Nat, NEW g \in Nat, NEW q \in Nat, q = k + x,
         NEW z \in Nat, z = x + g, NEW h, NEW d, DOMAIN o \subseteq Int
  PROVE  TwiceAlpha(o, k, q, h, d, x, g, z)
  BY AlphaJoined DEF TwiceAlpha

(* A round of EmitRescaledAlphaRGB gives a row at least: the colours of the  *)
(* piece could not have been finished otherwise.                             *)
LEMMA AlphaRoundIs ==
  ASSUME NEW h \in Nat \ {0}, NEW d \in Nat \ {0}, NEW M \in Nat, M <= h,
         NEW k \in Nat, NEW i \in Nat, NEW K \in Nat, K = k + i,
         NEW m \in 0..M, NEW x \in 0..i, x < i, NEW q \in Nat, q = k + x, Fits(h, d, m, q),
         NEW K1 \in Nat, K1 = K - 1, Ready(h, d, M, K1),
         NEW io, NEW e, AlphaEnds(io, e, M, K),
         NEW l, NEW ty, NEW tu, NEW ok, NEW y, NEW u, NEW o, DOMAIN o \subseteq Int,
         NEW r \in Nat, r <= x,
         NEW t, t = AlphaAt(h, d, m, k, i, x, l, ty, tu, ok, y, u, o)
  PROVE  IsAlphaRound(AlphaRound(io, e, t), h, d, M, k, i, l, ty, tu, ok, y, u, o, r + 1)
<1> DEFINE s == ScalerAt(h, d, m, q)
<1>1. /\ t.params = Params(l, ty, tu, ok, y, u, s) /\ t.lines_left = i - x
      /\ t.out = WithAlpha(o, k, SharesFrom(h, d, k, x))
  BY DEF AlphaAt
<1>2. s.src_y = m
  BY DEF ScalerAt
<1>3. PICK n \in Nat : n = M - m
  OBVIOUS
<1>4. PICK m1 \in Imported(h, d, m, q, n) : Import(s, n, m) = ScalerAt(h, d, m1, q)
  <2>1. MaxOf(n, 0) = n /\ m + n <= h /\ n \in Int /\ m \in Nat
    BY <1>3 DEF MaxOf
  <2>2. \E j \in Imported(h, d, m, q, MaxOf(n, 0)) : Import(s, n, m) = ScalerAt(h, d, j, q)
    BY <2>1, ImportRows
  <2> QED BY <2>1, <2>2
<1>5. m1 \in 0..M /\ Fits(h, d, m1, q) /\ (m1 = M \/ Ready(h, d, m1, q))
  BY <1>3 DEF Imported
<1>6. Ready(h, d, m1, q)
  <2>1. q <= K1
    OBVIOUS
  <2>2. Ready(h, d, M, q)
    <3>1. M \in Int /\ M <= M
      OBVIOUS
    <3> QED BY <2>1, <3>1, ReadyGrows
  <2> QED BY <1>5, <2>2
<1>7. PICK left \in Nat \ {0} : left = i - x
  OBVIOUS
<1>8. PICK g \in Gone(h, d, m1, q, left) :
        Export(ScalerAt(h, d, m1, q), left)
             = [scaler |-> ScalerAt(h, d, m1, q + g), rows |-> SharesFrom(h, d, q, g)]
  <2>1. m1 \in Nat /\ left \in Nat
    BY <1>5
  <2> QED BY <1>5, <2>1, ExportRows
<1>9. g \in Nat /\ g <= left /\ Fits(h, d, m1, q + g) /\ (g = left \/ ~Ready(h, d, m1, q + g))
  BY DEF Gone
<1>10. g > 0
  <2> SUFFICES ASSUME g = 0 PROVE FALSE
    BY <1>9
  <2>1. q + g = q
    OBVIOUS
  <2> QED BY <1>6, <1>9, <2>1
<1>11. PICK x1 \in 0..i : x1 = x + g
  BY <1>7, <1>9
<1>12. q + g = k + x1 /\ left - g = i - x1
  BY <1>7, <1>9, <1>11
<1> DEFINE S1 == ScalerAt(h, d, m1, k + x1)
           A1 == SharesFrom(h, d, q, g)
<1>13. AlphaRound(io, e, t)
         = [params |-> [t.params EXCEPT !.scaler_a = S1], lines_left |-> left - Len(A1),
            out |-> WithAlpha(t.out, q, A1)]
  <2>1. t.params.scaler_a = s
    <3>1. PICK p, z : p = t.params /\ z = s
      OBVIOUS
    <3> HIDE DEF s
    <3>2. p = Params(l, ty, tu, ok, y, u, z)
      BY <1>1, <3>1
    <3>3. p.scaler_a = z
      BY <3>2, ParamsFields
    <3> QED BY <3>1, <3>3
  <2>2. /\ io.mb_h + io.mb_y - m = n /\ io.a + ((m - io.mb_y) - pic.crop_top) = m
        /\ (e.params.last_y + e.num_lines_out) - left = q
    <3>1. /\ io.mb_h + io.mb_y = M /\ io.a = io.mb_y + pic.crop_top
          /\ io.mb_y \in Int /\ io.mb_h \in Int /\ pic.crop_top \in Int
          /\ e.params.last_y \in Int /\ e.num_lines_out \in Int
          /\ e.params.last_y + e.num_lines_out = K
      BY DEF AlphaEnds
    <3>2. n = M - m /\ q = K - left
      BY <1>3, <1>7
    <3>3. PICK v \in Int, w \in Int : v = io.mb_y /\ w = pic.crop_top
      BY <3>1
    <3>4. (v + w) + ((m - v) - w) = m
      OBVIOUS
    <3>5. io.a + ((m - io.mb_y) - pic.crop_top) = m
      BY <3>1, <3>3, <3>4
    <3>6. io.mb_h + io.mb_y - m = n
      <4>1. PICK v1 \in Int, w1 \in Int : v1 = io.mb_h /\ w1 = io.mb_y
        BY <3>1
      <4>2. v1 + w1 = M
        BY <3>1, <4>1
      <4>3. v1 + w1 - m = n
        BY <3>2, <4>2
      <4> QED BY <4>1, <4>3
    <3>7. (e.params.last_y + e.num_lines_out) - left = q
      <4>1. PICK v1 \in Int, w1 \in Int : v1 = e.params.last_y /\ w1 = e.num_lines_out
        BY <3>1
      <4>2. v1 + w1 = K
        BY <3>1, <4>1
      <4>3. v1 + w1 - left = q
        BY <3>2, <4>2
      <4> QED BY <4>1, <4>3
    <3> QED BY <3>5, <3>6, <3>7
  <2> DEFINE a == Import(s, n, m)
             ex == Export(a, left)
  <2>3. AlphaRound(io, e, t)
         = [params |-> [t.params EXCEPT !.scaler_a = ex.scaler], lines_left |-> left - Len(ex.rows),
            out |-> WithAlpha(t.out, q, ex.rows)]
    <3>1. t.lines_left = left
      BY <1>1, <1>7
    <3> HIDE DEF s
    <3>2. AlphaRound(io, e, t) =
            RoundWith(t, e, Export(Import(t.params.scaler_a, io.mb_h + io.mb_y - t.params.scaler_a.src_y,
                             io.a + ((t.params.scaler_a.src_y - io.mb_y) - pic.crop_top)),
                      t.lines_left))
      BY Zenon DEF AlphaRound, RoundWith
    <3>3. t.params.scaler_a.src_y = m
      BY <1>2, <2>1
    <3> HIDE DEF s
    <3>4. io.a + ((t.params.scaler_a.src_y - io.mb_y) - pic.crop_top) = m
      BY <2>2, <3>3
    <3>5. /\ io.mb_h + io.mb_y - t.params.scaler_a.src_y = n
          /\ (e.params.last_y + e.num_lines_out) - t.lines_left = q
      BY <2>2, <3>1, <3>3
    <3>6. ex = Export(Import(t.params.scaler_a, io.mb_h + io.mb_y - t.params.scaler_a.src_y,
                             io.a + ((t.params.scaler_a.src_y - io.mb_y) - pic.crop_top)),
                      t.lines_left)
      BY <2>1, <3>1, <3>4, <3>5
    <3> HIDE DEF ex
    <3>7. AlphaRound(io, e, t) =
            [params |-> [t.params EXCEPT !.scaler_a = ex.scaler],
             lines_left |-> t.lines_left - Len(ex.rows),
             out |-> WithAlpha(t.out, (e.params.last_y + e.num_lines_out) - t.lines_left, ex.rows)]
      <4>1. AlphaRound(io, e, t) = RoundWith(t, e, ex)
        BY <3>2, <3>6, Zenon
      <4> QED BY <4>1, Zenon DEF RoundWith
    <3> QED BY <3>1, <3>5, <3>7
  <2>4. ex.scaler = S1 /\ ex.rows = A1
    BY <1>4, <1>8, <1>12
  <2> HIDE DEF ex, S1, A1
  <2> QED BY <2>3, <2>4
<1>14. [t.params EXCEPT !.scaler_a = S1] = Params(l, ty, tu, ok, y, u, S1)
  <2>1. PICK p, z, z1 : p = t.params /\ z = s /\ z1 = S1
    OBVIOUS
  <2> HIDE DEF s, S1
  <2>2. p = Params(l, ty, tu, ok, y, u, z)
    BY <1>1, <2>1
  <2>3. WithScalerA(p, z1) = Params(l, ty, tu, ok, y, u, z1)
    BY <2>2, ParamsUpdates
  <2> QED BY <2>1, <2>3, Zenon DEF WithScalerA
<1>15. Len(A1) = g
  <2>1. PICK g1 \in Nat : g1 = g
    BY <1>9
  <2>2. Len(SharesFrom(h, d, q, g1)) = g1
    <3> HIDE DEF S1, A1, s
    <3> QED BY SharesLength
  <2> QED BY <2>1, <2>2
<1>16. WithAlpha(t.out, q, A1) = WithAlpha(o, k, SharesFrom(h, d, k, x1))
  <2>1. PICK g1 \in Nat : g1 = g
    BY <1>9
  <2>2. x \in Nat /\ x1 \in Nat /\ x1 = x + g1
    BY <1>11, <2>1
  <2>3. TwiceAlpha(o, k, q, h, d, x, g1, x1)
    <3> HIDE DEF S1, A1, s
    <3> QED BY <2>2, AlphaTwice
  <2> QED BY <1>1, <2>1, <2>3 DEF TwiceAlpha
<1>17. AlphaRound(io, e, t) = AlphaAt(h, d, m1, k, i, x1, l, ty, tu, ok, y, u, o)
  <2> HIDE DEF S1, A1, s
  <2>1. AlphaRound(io, e, t)
         = [params |-> Params(l, ty, tu, ok, y, u, S1), lines_left |-> i - x1,
            out |-> WithAlpha(o, k, SharesFrom(h, d, k, x1))]
    BY <1>12, <1>13, <1>14, <1>15, <1>16
  <2> QED BY <2>1 DEF AlphaAt, S1
<1>18. Fits(h, d, m1, k + x1) /\ r + 1 <= x1
  BY <1>9, <1>10, <1>11, <1>12
<1> QED BY <1>5, <1>11, <1>17, <1>18 DEF IsAlphaRound

(* The alpha of a piece of a picture that is scaled: as many rows as came of *)
(* the colours.                                                              *)
AlphaOut(x, h, d, M, k, i, l, ty, tu, ok, y, u, o) ==
  \E m \in 0..M :
    /\ Fits(h, d, m, k + i)
    /\ x = Emitted(Params(l, ty, tu, ok, y, u, ScalerAt(h, d, m, k + i)),
                   WithAlpha(o, k, SharesFrom(h, d, k, i)), i)

WithOut(e, p, o, b) == [e EXCEPT !.params = p, !.out = o, !.asserts = @ /\ b]

IsEmitted(e, n) == \E p, o : e = Emitted(p, o, n)

(* What a piece leaves, with other parameters and another output.            *)
LEMMA EmittedUpdate ==
  ASSUME NEW n, NEW e, IsEmitted(e, n), NEW p1, NEW o1, NEW z, z = TRUE
  PROVE  WithOut(e, p1, o1, z) = Emitted(p1, o1, n)
<1>0. PICK b, p, o : b = TRUE /\ e = Emitted(p, o, n)
  BY DEF IsEmitted
<1>1. e = [params |-> p, out |-> o, num_lines_out |-> n, asserts |-> b]
  BY <1>0 DEF Emitted
<1>2. PICK e1 : e1 = [e EXCEPT !.params = p1]
  OBVIOUS
<1>3. PICK e2 : e2 = [e1 EXCEPT !.out = o1]
  OBVIOUS
<1>4. PICK e3 : e3 = [e2 EXCEPT !.asserts = @ /\ z]
  OBVIOUS
<1>5. WithOut(e, p1, o1, z) = e3
  BY <1>2, <1>3, <1>4, Zenon DEF WithOut
<1>8. e1 = [params |-> p1, out |-> o, num_lines_out |-> n, asserts |-> b]
  BY <1>1, <1>2
<1>6. e2 = [params |-> p1, out |-> o1, num_lines_out |-> n, asserts |-> b]
  BY <1>3, <1>8
<1>7. e3 = [params |-> p1, out |-> o1, num_lines_out |-> n, asserts |-> TRUE]
  BY <1>0, <1>4, <1>6
<1> QED BY <1>5, <1>7 DEF Emitted

AlphaRoundsOf(h, d, M, k, i, l, ty, tu, ok, y, u, o, r) ==
  {t \in {AlphaAt(h, d, m, k, i, x, l, ty, tu, ok, y, u, o) : m \in 0..M, x \in 0..i} :
     IsAlphaRound(t, h, d, M, k, i, l, ty, tu, ok, y, u, o, r)}

(* The set of the states that the loop may be in after r rounds.             *)
LEMMA AlphaRoundsOfIs ==
  ASSUME NEW h, NEW d, NEW M, NEW k, NEW i, NEW l, NEW ty, NEW tu,
         NEW ok, NEW y, NEW u, NEW o, NEW r, NEW t
  PROVE  t \in AlphaRoundsOf(h, d, M, k, i, l, ty, tu, ok, y, u, o, r)
           <=> IsAlphaRound(t, h, d, M, k, i, l, ty, tu, ok, y, u, o, r)
  BY DEF AlphaRoundsOf, IsAlphaRound

IsRows(o) == DOMAIN o \subseteq Int /\ o = [j \in DOMAIN o |-> o[j]]

(* A round keeps what is known of the loop, of one that is done too.         *)
LEMMA AlphaRoundKeeps ==
  ASSUME NEW h \in Nat \ {0}, NEW d \in Nat \ {0}, NEW M \in Nat, M <= h,
         NEW k \in Nat, NEW i \in Nat, NEW K \in Nat, K = k + i, Fits(h, d, M, K),
         NEW io, NEW e, AlphaEnds(io, e, M, K),
         NEW l, NEW ty, NEW tu, NEW ok, NEW y, NEW u, NEW o, DOMAIN o \subseteq Int,
         NEW r \in Nat, NEW t, IsAlphaRound(t, h, d, M, k, i, l, ty, tu, ok, y, u, o, r)
  PROVE  IsAlphaRound(IF t.lines_left > 0 THEN AlphaRound(io, e, t) ELSE t,
                      h, d, M, k, i, l, ty, tu, ok, y, u, o, r + 1)
<1>1. PICK m \in 0..M, x \in 0..i :
         /\ Fits(h, d, m, k + x)
         /\ x < i => r <= x
         /\ t = AlphaAt(h, d, m, k, i, x, l, ty, tu, ok, y, u, o)
  BY DEF IsAlphaRound
<1>2. t.lines_left = i - x
  BY <1>1 DEF AlphaAt
<1>3. CASE x < i
  <2>1. t.lines_left > 0
    BY <1>2, <1>3
  <2>2. PICK q \in Nat : q = k + x
    OBVIOUS
  <2>3. PICK K1 \in Nat : K1 = K - 1
    BY <1>3
  <2>4. Ready(h, d, M, K1)
    BY <1>3, <2>3 DEF Fits
  <2>5. Fits(h, d, m, q) /\ r <= x
    BY <1>1, <1>3, <2>2
  <2>6. IsAlphaRound(AlphaRound(io, e, t), h, d, M, k, i, l, ty, tu, ok, y, u, o, r + 1)
    BY <1>1, <1>3, <2>2, <2>3, <2>4, <2>5, AlphaRoundIs
  <2> QED BY <2>1, <2>6
<1>4. CASE ~(x < i)
  <2>1. ~(t.lines_left > 0)
    BY <1>2, <1>4
  <2>2. IsAlphaRound(t, h, d, M, k, i, l, ty, tu, ok, y, u, o, r + 1)
    BY <1>1, <1>4 DEF IsAlphaRound
  <2> QED BY <2>1, <2>2
<1> QED BY <1>3, <1>4

(* EmitRescaledAlphaRGB: as many rows of alpha as there are of colours, with *)
(* the same shares of the source; the assert behind the loop holds.          *)
LEMMA EmitAlphaScaled ==
  ASSUME NEW h \in Nat \ {0}, NEW d \in Nat \ {0}, d = OutHeight, NEW M \in Nat, M <= h,
         NEW k \in Nat, NEW i \in Nat, NEW K \in Nat, K = k + i, Fits(h, d, M, K),
         NEW m \in 0..M, Fits(h, d, m, k),
         NEW ty, NEW tu, NEW ok, NEW y, NEW u, NEW o,
         IsRows(o),
         NEW e, e = Emitted(Params(k, ty, tu, ok, y, u, ScalerAt(h, d, m, k)), o, i),
         NEW io, AlphaEnds(io, e, M, K), io.mb_h \in Nat, io.a # NoAlpha
  PROVE  AlphaOut(EmitRescaledAlphaRGB(io, e), h, d, M, k, i, k, ty, tu, ok, y, u, o)
<1> DEFINE most == io.mb_h + OutHeight + 1
           s == [params |-> e.params, lines_left |-> e.num_lines_out, out |-> e.out]
           step(t) == IF t.lines_left > 0 THEN AlphaRound(io, e, t) ELSE t
           Is(f) == f = [j \in 0..most |-> IF j = 0 THEN s ELSE step(f[j - 1])]
           f == CHOOSE f : Is(f)
           R(r) == AlphaRoundsOf(h, d, M, k, i, k, ty, tu, ok, y, u, o, r)
           S == [r \in 0..most |-> R(r)]
           F == [r \in 1..most |-> [t \in S[r - 1] |-> step(t)]]
<1>1. EmitRescaledAlphaRGB(io, e)
        = WithOut(e, f[most].params, f[most].out, f[most].lines_left = 0)
  BY Zenon DEF EmitRescaledAlphaRGB, WithOut
<1>2. most \in Nat /\ most > i
  <2>1. i <= d
    BY DEF Fits
  <2> QED BY <2>1
<1> HIDE DEF most
<1>3. s \in S[0]
  <2>1. e.num_lines_out = i - 0 /\ e.out = o
        /\ e.params = Params(k, ty, tu, ok, y, u, ScalerAt(h, d, m, k))
    BY DEF Emitted
  <2>2. WithAlpha(o, k, SharesFrom(h, d, k, 0)) = o
    BY NoAlphaYet DEF IsRows
  <2>3. k + 0 = k /\ 0 \in 0..i
    OBVIOUS
  <2>4. s = AlphaAt(h, d, m, k, i, 0, k, ty, tu, ok, y, u, o)
    BY <2>1, <2>2, <2>3 DEF AlphaAt
  <2>5. IsAlphaRound(s, h, d, M, k, i, k, ty, tu, ok, y, u, o, 0)
    <3> HIDE DEF s
    <3> QED BY <2>3, <2>4 DEF IsAlphaRound
  <2>6. 0 \in 0..most
    BY <1>2
  <2> HIDE DEF s
  <2> QED BY <2>5, <2>6, AlphaRoundsOfIs
<1>4. ASSUME NEW r \in 1..most, NEW t \in S[r - 1] PROVE step(t) \in S[r]
  <2>1. r - 1 \in 0..most /\ r \in 0..most
    BY <1>2
  <2>2. t \in R(r - 1)
    BY <2>1
  <2>3. PICK b \in Nat : b = r - 1 /\ b + 1 = r
    BY <1>2
  <2>4. IsAlphaRound(t, h, d, M, k, i, k, ty, tu, ok, y, u, o, b)
    BY <2>2, <2>3, AlphaRoundsOfIs
  <2>5. IsAlphaRound(step(t), h, d, M, k, i, k, ty, tu, ok, y, u, o, b + 1)
    <3>1. DOMAIN o \subseteq Int
      BY DEF IsRows
    <3> QED BY <2>4, <3>1, AlphaRoundKeeps
  <2>7. IsAlphaRound(step(t), h, d, M, k, i, k, ty, tu, ok, y, u, o, r)
    <3> HIDE DEF step
    <3> QED BY <2>3, <2>5
  <2> HIDE DEF step
  <2> QED BY <2>1, <2>7, AlphaRoundsOfIs
<1> HIDE DEF step, S, s
<1>5. \A r \in 1..most : \A t \in S[r - 1] : F[r][t] \in S[r]
  BY <1>4
<1> HIDE DEF F
<1>6. PICK g : Loop(s, F, most, g) /\ \A r \in 0..most : g[r] \in S[r]
  BY <1>2, <1>3, <1>5, LoopExists
<1>7. Is(g)
  <2>1. ASSUME NEW r \in 0..most PROVE g[r] = IF r = 0 THEN s ELSE step(g[r - 1])
    <3>1. CASE r = 0
      BY <1>6, <3>1 DEF Loop
    <3>2. CASE r # 0
      <4>1. r \in 1..most /\ r - 1 \in 0..most
        BY <1>2, <3>2
      <4>2. g[r] = F[r][g[r - 1]] /\ g[r - 1] \in S[r - 1]
        BY <1>6, <3>2, <4>1 DEF Loop
      <4> QED BY <3>2, <4>1, <4>2 DEF F
    <3> QED BY <3>1, <3>2
  <2> QED BY <1>6, <2>1 DEF Loop
<1>8. Is(f)
  BY <1>7
<1> HIDE DEF f
<1>9. \A r \in 0..most : f[r] \in S[r]
  <2>1. f[0] \in S[0]
    BY <1>2, <1>3, <1>8
  <2>2. ASSUME NEW r \in 1..most, f[r - 1] \in S[r - 1] PROVE f[r] \in S[r]
    <3>1. r \in 0..most /\ r # 0
      BY <1>2
    <3>2. f[r] = step(f[r - 1])
      BY <1>8, <3>1
    <3> QED BY <1>4, <2>2, <3>2
  <2> QED BY <1>2, <2>1, <2>2, LoopStays
<1>10. PICK q \in Nat : q = most
  BY <1>2
<1>11. PICK t : t = f[q]
  OBVIOUS
<1>12. IsAlphaRound(t, h, d, M, k, i, k, ty, tu, ok, y, u, o, q)
  <2>1. t \in R(q)
    BY <1>9, <1>10, <1>11 DEF S
  <2> QED BY <2>1, AlphaRoundsOfIs
<1>13. EmitRescaledAlphaRGB(io, e) = WithOut(e, t.params, t.out, t.lines_left = 0)
  BY <1>1, <1>10, <1>11
<1>14. PICK m1 \in 0..M, x \in 0..i :
         /\ Fits(h, d, m1, k + x)
         /\ x < i => q <= x
         /\ t = AlphaAt(h, d, m1, k, i, x, k, ty, tu, ok, y, u, o)
  BY <1>12 DEF IsAlphaRound
<1>15. x = i
  BY <1>2, <1>10, <1>14
<1>16. /\ t.params = Params(k, ty, tu, ok, y, u, ScalerAt(h, d, m1, k + i))
       /\ (t.lines_left = 0) = TRUE /\ t.out = WithAlpha(o, k, SharesFrom(h, d, k, i))
  BY <1>14, <1>15 DEF AlphaAt
<1>17. EmitRescaledAlphaRGB(io, e) = Emitted(t.params, t.out, i)
  <2>0. PICK z : z = (t.lines_left = 0) /\ z = TRUE
    BY <1>16
  <2>1. EmitRescaledAlphaRGB(io, e) = WithOut(e, t.params, t.out, z)
    BY <1>13, <2>0, Zenon
  <2>2. PICK P0 : P0 = Params(k, ty, tu, ok, y, u, ScalerAt(h, d, m, k))
    OBVIOUS
  <2>3. PICK p1, o1 : p1 = t.params /\ o1 = t.out
    OBVIOUS
  <2>4. e = Emitted(P0, o, i)
    BY <2>2
  <2>5. WithOut(e, p1, o1, z) = Emitted(p1, o1, i)
    <3>1. IsEmitted(e, i)
      BY <2>4 DEF IsEmitted
    <3> HIDE DEF f, F, S, R, s, step, most
    <3>2. z = TRUE
      BY <2>0
    <3> QED BY <3>1, <3>2, EmittedUpdate
  <2> QED BY <2>1, <2>3, <2>5
<1> QED BY <1>14, <1>15, <1>16, <1>17 DEF AlphaOut

-----------------------------------------------------------------------------
\* The loop of EmitRescaledRowsRGBA.
(* The rows that come out of a lossless picture.                             *)
LumaFrom(h, d, k, n) == [i \in 1..n |-> Colour(<<Shares(k + i - 1, h, d)>>)]

(* As many rows of a lossless picture as were asked for.                     *)
LEMMA LumaLength ==
  ASSUME NEW h, NEW d, NEW k, NEW n \in Nat
  PROVE  Len(LumaFrom(h, d, k, n)) = n
  BY DEF LumaFrom

(* Rows of a lossless picture, and the ones behind them.                     *)
LEMMA LumaJoined ==
  ASSUME NEW h, NEW d, NEW k \in Nat, NEW n \in Nat, NEW i \in Nat,
         NEW l \in Nat, l = k + n, NEW z \in Nat, z = n + i
  PROVE  Joined(LumaFrom(h, d, k, n), LumaFrom(h, d, l, i), LumaFrom(h, d, k, z))
<1> DEFINE f(x) == Colour(<<Shares(x, h, d)>>)
           p == [x \in 1..n |-> f(k + x - 1)]
           q == [x \in 1..i |-> f(l + x - 1)]
           r == [x \in 1..z |-> f(k + x - 1)]
<1>1. LumaFrom(h, d, k, n) = p /\ LumaFrom(h, d, l, i) = q /\ LumaFrom(h, d, k, z) = r
  BY DEF LumaFrom
<1> HIDE DEF f
<1>2. p \in Seq({f(x) : x \in Int}) /\ q \in Seq({f(x) : x \in Int}) /\ r \in Seq({f(x) : x \in Int})
  OBVIOUS
<1>3. Len(p) = n /\ Len(q) = i /\ Len(r) = z
  OBVIOUS
<1>4. ASSUME NEW x \in 1..z PROVE (p \o q)[x] = r[x]
  <2>1. CASE x <= n
    BY <1>2, <1>3, <2>1
  <2>2. CASE ~(x <= n)
    <3>1. (p \o q)[x] = q[x - n] /\ x - n \in 1..i
      BY <1>2, <1>3, <2>2
    <3>2. l + (x - n) - 1 = k + x - 1
      OBVIOUS
    <3> QED BY <3>1, <3>2
  <2> QED BY <2>1, <2>2
<1>5. p \o q = r
  BY <1>2, <1>3, <1>4
<1> QED BY <1>1, <1>5 DEF Joined

(* The rounds of EmitRescaledRowsRGBA.                                       *)
ArgbAt(h, d, n, k, l, ty, tu, ok, u, a, j, i) ==
  [params |-> Params(l, ty, tu, ok, ScalerAt(h, d, n + j, k + i), u, a), j |-> j,
   rows |-> LumaFrom(h, d, k, i), asserts |-> TRUE]

InArgb(h, d, n, k, b, r, j, i) ==
  /\ j \in 0..b /\ i \in Nat
  /\ Fits(h, d, n + j, k + i) /\ ~Ready(h, d, n + j, k + i)
  /\ j < b => r <= j

IsArgbRound(t, h, d, n, k, b, l, ty, tu, ok, u, a, r) ==
  \E j \in 0..b, i \in Nat :
    /\ InArgb(h, d, n, k, b, r, j, i)
    /\ t = ArgbAt(h, d, n, k, l, ty, tu, ok, u, a, j, i)

LinesAre(io, d, n, b) == d = OutHeight /\ io.mb_y = n /\ io.mb_h = b

(* The round once the scaler has taken its rows and given others.            *)
ArgbTaken(t, x, in, needed) ==
  [params |-> WithScalerY(t.params, x.scaler), j |-> t.j + (in.src_y - t.params.scaler_y.src_y),
   rows |-> t.rows \o [i \in DOMAIN x.rows |-> Colour(<<x.rows[i]>>)],
   asserts |-> t.asserts /\ needed > 0 /\ in.src_y - t.params.scaler_y.src_y = needed]

Relumed(s, z) == [i \in DOMAIN s |-> Colour(<<s[i]>>)] = z

(* WebPDecParams with another scaler of luma.                                *)
LEMMA ScalerYUpdate ==
  ASSUME NEW l, NEW ty, NEW tu, NEW ok, NEW y, NEW u, NEW a, NEW p, NEW x,
         p = Params(l, ty, tu, ok, y, u, a)
  PROVE  WithScalerY(p, x) = Params(l, ty, tu, ok, x, u, a)
<1>1. p = [last_y |-> l, tmp_y |-> ty, tmp_uv |-> tu, asserts |-> ok,
           scaler_y |-> y, scaler_u |-> u, scaler_a |-> a]
  BY DEF Params
<1>2. PICK q : q = [p EXCEPT !.scaler_y = x] /\ WithScalerY(p, x) = [p EXCEPT !.scaler_y = x]
  BY DEF WithScalerY
<1> QED BY <1>1, <1>2 DEF Params

(* The rows of one scaler make rows of a lossless picture.                   *)
LEMMA LumaRelumed ==
  ASSUME NEW h, NEW d, NEW k \in Nat, NEW n \in Nat, NEW s, s = SharesFrom(h, d, k, n)
  PROVE  Relumed(s, LumaFrom(h, d, k, n))
<1>1. DOMAIN s = 1..n
  BY DEF SharesFrom
<1>2. ASSUME NEW x \in 1..n PROVE s[x] = Shares(k + x - 1, h, d)
  BY DEF SharesFrom
<1>3. [i \in DOMAIN s |-> Colour(<<s[i]>>)] = LumaFrom(h, d, k, n)
  BY <1>1, <1>2 DEF LumaFrom
<1> QED BY <1>3 DEF Relumed

(* A round of EmitRescaledRowsRGBA takes what the scaler said it needs, a    *)
(* row at least, and exports what is ready: its asserts hold.                *)
LEMMA ArgbRoundIs ==
  ASSUME NEW h \in Nat \ {0}, NEW d \in Nat \ {0}, NEW io, NEW n \in Nat, NEW b \in Nat,
         n + b <= h, LinesAre(io, d, n, b), NEW k \in Nat,
         NEW r \in Nat, NEW j \in 0..b, NEW i \in Nat, InArgb(h, d, n, k, b, r, j, i), j < b,
         NEW m \in Nat, m = n + j, NEW q \in Nat, q = k + i,
         NEW l, NEW ty, NEW tu, NEW ok, NEW u, NEW a,
         NEW t, t = ArgbAt(h, d, n, k, l, ty, tu, ok, u, a, j, i)
  PROVE  IsArgbRound(ArgbRound(io, t), h, d, n, k, b, l, ty, tu, ok, u, a, r + 1)
<1> DEFINE s == ScalerAt(h, d, m, q)
<1>1. /\ t.params = Params(l, ty, tu, ok, s, u, a) /\ t.j = j
      /\ t.rows = LumaFrom(h, d, k, i) /\ t.asserts = TRUE
  BY DEF ArgbAt
<1>2. t.params.scaler_y = s /\ s.src_y = m
  <2>1. s.src_y = m
    BY DEF ScalerAt
  <2>2. PICK p, z : p = t.params /\ z = s
    OBVIOUS
  <2> HIDE DEF s
  <2>3. p = Params(l, ty, tu, ok, z, u, a)
    BY <1>1, <2>2
  <2>4. p.scaler_y = z
    BY <2>3, ParamsFields
  <2> QED BY <2>1, <2>2, <2>4
<1>3. Fits(h, d, m, q) /\ ~Ready(h, d, m, q) /\ r <= j
  BY DEF InArgb
<1>4. PICK bl \in Nat \ {0} : bl = b - j
  OBVIOUS
<1>5. PICK m1 \in Imported(h, d, m, q, bl) : Import(s, bl, m) = ScalerAt(h, d, m1, q)
  <2>1. MaxOf(bl, 0) = bl /\ m + bl <= h /\ bl \in Int
    BY <1>4 DEF MaxOf
  <2>2. \E x \in Imported(h, d, m, q, MaxOf(bl, 0)) : Import(s, bl, m) = ScalerAt(h, d, x, q)
    BY <1>3, <2>1, ImportRows
  <2> QED BY <2>1, <2>2
<1>6. m1 \in Nat /\ m <= m1 /\ m1 <= m + bl /\ Fits(h, d, m1, q)
  BY DEF Imported
<1>7. q < d
  <2>1. m < h
    BY <1>4
  <2> QED BY <1>3, <2>1, FitsAtEnd
<1>8. PICK needed : needed = NeededLines(s, bl)
  OBVIOUS
<1>9. needed > 0 /\ m1 - m = needed
  <2> HIDE DEF s
  <2>0. s = ScalerAt(h, d, m, q)
    BY DEF s
  <2>1. bl \in Nat /\ bl > 0
    OBVIOUS
  <2>2. NeededLines(s, bl) > 0
    BY <1>3, <1>7, <2>0, <2>1, NeededIsImported
  <2>3. \A x \in Imported(h, d, m, q, bl) : x - m = NeededLines(s, bl)
    BY <1>3, <1>7, <2>0, <2>1, NeededIsImported
  <2> QED BY <1>8, <2>2, <2>3
<1>10. PICK g \in Gone(h, d, m1, q, d) :
         Export(ScalerAt(h, d, m1, q), d)
           = [scaler |-> ScalerAt(h, d, m1, q + g), rows |-> SharesFrom(h, d, q, g)]
  <2>1. d \in Nat
    OBVIOUS
  <2> QED BY <1>6, <2>1, ExportRows
<1>11. g \in Nat /\ Fits(h, d, m1, q + g) /\ (g = d \/ ~Ready(h, d, m1, q + g))
  BY DEF Gone
<1>12. PICK q1 \in Nat : q1 = q + g
  BY <1>11
<1>13. Fits(h, d, m1, q1) /\ ~Ready(h, d, m1, q1)
  <2>1. g = d => ~(q1 < d)
    BY <1>12
  <2>2. g = d => ~Ready(h, d, m1, q1)
    BY <2>1 DEF Ready
  <2> QED BY <1>11, <1>12, <2>2
<1>14. PICK j1 \in 0..b : j1 = j + (m1 - m)
  <2>1. j + (m1 - m) \in 0..b
    BY <1>4, <1>6
  <2> QED BY <2>1
<1>15. PICK i1 \in Nat : i1 = i + g
  BY <1>11
<1>16. m1 = n + j1 /\ q1 = k + i1 /\ r + 1 <= j1
  <2>1. m1 \in Nat /\ m <= m1 /\ m1 - m > 0
    <3>1. needed > 0 /\ m1 - m = needed
      BY <1>9
    <3> QED BY <1>6, <3>1
  <2>2. m1 = n + j1
    BY <1>14, <2>1
  <2>3. g \in Nat
    BY <1>11
  <2>4. q1 = k + i1
    BY <1>12, <1>15, <2>3
  <2>5. r <= j
    BY <1>3
  <2>6. r + 1 <= j1
    BY <1>14, <2>1, <2>5
  <2> QED BY <2>2, <2>4, <2>6
<1> DEFINE in == Import(s, bl, m)
           x == Export(in, d)
<1>17. ArgbRound(io, t) = ArgbTaken(t, x, in, needed)
  <2>1. io.mb_h - t.j = bl /\ io.mb_y + t.j = m /\ OutHeight = d
    <3>1. io.mb_h = b /\ io.mb_y = n /\ OutHeight = d
      BY DEF LinesAre
    <3>2. b - j = bl /\ n + j = m
      BY <1>4
    <3> QED BY <1>1, <3>1, <3>2
  <2> HIDE DEF s
  <2>2. ArgbRound(io, t) = ArgbTaken(t, Export(Import(t.params.scaler_y, io.mb_h - t.j, io.mb_y + t.j), OutHeight),
                                     Import(t.params.scaler_y, io.mb_h - t.j, io.mb_y + t.j),
                                     NeededLines(t.params.scaler_y, io.mb_h - t.j))
    BY Zenon DEF ArgbRound, ArgbTaken, WithScalerY
  <2>3. /\ in = Import(t.params.scaler_y, io.mb_h - t.j, io.mb_y + t.j)
        /\ x = Export(Import(t.params.scaler_y, io.mb_h - t.j, io.mb_y + t.j), OutHeight)
        /\ needed = NeededLines(t.params.scaler_y, io.mb_h - t.j)
    BY <1>2, <1>8, <2>1
  <2> HIDE DEF in, x
  <2> QED BY <2>2, <2>3
<1>18. in.src_y - t.params.scaler_y.src_y = m1 - m
  <2>1. in.src_y = m1
    BY <1>5 DEF ScalerAt
  <2> QED BY <1>2, <2>1
<1>19. x.scaler = ScalerAt(h, d, m1, q1) /\ x.rows = SharesFrom(h, d, q, g)
  BY <1>5, <1>10, <1>12
<1>20. WithScalerY(t.params, x.scaler) = Params(l, ty, tu, ok, ScalerAt(h, d, m1, q1), u, a)
  <2>1. PICK p, z, z1 : p = t.params /\ z = s /\ z1 = x.scaler
    OBVIOUS
  <2> HIDE DEF s, x, in
  <2>2. p = Params(l, ty, tu, ok, z, u, a)
    BY <1>1, <2>1
  <2>3. WithScalerY(p, z1) = Params(l, ty, tu, ok, z1, u, a)
    BY <2>2, ScalerYUpdate
  <2> QED BY <1>19, <2>1, <2>3
<1> HIDE DEF x, in, s
<1>21. t.rows \o [y \in DOMAIN x.rows |-> Colour(<<x.rows[y]>>)] = LumaFrom(h, d, k, i1)
  <2>1. PICK sh : sh = x.rows
    OBVIOUS
  <2>2. sh = SharesFrom(h, d, q, g)
    BY <1>19, <2>1
  <2>4. PICK g1 \in Nat : g1 = g
    BY <1>11
  <2>6. Relumed(sh, LumaFrom(h, d, q, g1))
    <3>1. sh = SharesFrom(h, d, q, g1)
      BY <2>2, <2>4
    <3> QED BY <3>1, LumaRelumed
  <2>3. [y \in DOMAIN sh |-> Colour(<<sh[y]>>)] = LumaFrom(h, d, q, g)
    BY <2>4, <2>6 DEF Relumed
  <2>5. Joined(LumaFrom(h, d, k, i), LumaFrom(h, d, q, g1), LumaFrom(h, d, k, i1))
    BY <1>15, <2>4, LumaJoined
  <2> QED BY <1>1, <2>1, <2>3, <2>4, <2>5 DEF Joined
<1>22. (t.asserts /\ needed > 0 /\ in.src_y - t.params.scaler_y.src_y = needed) = TRUE
  BY <1>1, <1>9, <1>18
<1>23. t.j + (in.src_y - t.params.scaler_y.src_y) = j1
  BY <1>1, <1>14, <1>18
<1>24. ArgbRound(io, t)
         = [params |-> Params(l, ty, tu, ok, ScalerAt(h, d, m1, q1), u, a), j |-> j1,
            rows |-> LumaFrom(h, d, k, i1), asserts |-> TRUE]
  BY <1>17, <1>20, <1>21, <1>22, <1>23 DEF ArgbTaken
<1>25. ArgbRound(io, t) = ArgbAt(h, d, n, k, l, ty, tu, ok, u, a, j1, i1)
  BY <1>16, <1>24 DEF ArgbAt
<1>26. InArgb(h, d, n, k, b, r + 1, j1, i1)
  BY <1>13, <1>16 DEF InArgb
<1> QED BY <1>25, <1>26 DEF IsArgbRound

LumaOut(x, o, h, d, n, b, k, ty, tu, ok, u, a) ==
  \E i \in Nat :
    /\ Fits(h, d, n + b, k + i) /\ ~Ready(h, d, n + b, k + i)
    /\ x = Emitted(Params(k, ty, tu, ok, ScalerAt(h, d, n + b, k + i), u, a),
                   Written(o, k, LumaFrom(h, d, k, i)), i)

ArgbRoundsOf(h, d, n, k, b, l, ty, tu, ok, u, a, r) ==
  {t \in {ArgbAt(h, d, n, k, l, ty, tu, ok, u, a, j, i) : j \in 0..b, i \in Nat} :
     IsArgbRound(t, h, d, n, k, b, l, ty, tu, ok, u, a, r)}

(* The set of the states that the loop may be in after r rounds.             *)
LEMMA ArgbRoundsOfIs ==
  ASSUME NEW h, NEW d, NEW n, NEW k, NEW b, NEW l, NEW ty, NEW tu,
         NEW ok, NEW u, NEW a, NEW r, NEW t
  PROVE  t \in ArgbRoundsOf(h, d, n, k, b, l, ty, tu, ok, u, a, r)
           <=> IsArgbRound(t, h, d, n, k, b, l, ty, tu, ok, u, a, r)
  BY DEF ArgbRoundsOf, IsArgbRound

(* A round keeps what is known of the loop, of one that is done too.         *)
LEMMA ArgbRoundKeeps ==
  ASSUME NEW h \in Nat \ {0}, NEW d \in Nat \ {0}, NEW io, NEW n \in Nat, NEW b \in Nat,
         n + b <= h, LinesAre(io, d, n, b), NEW k \in Nat,
         NEW l, NEW ty, NEW tu, NEW ok, NEW u, NEW a,
         NEW r \in Nat, NEW t, IsArgbRound(t, h, d, n, k, b, l, ty, tu, ok, u, a, r)
  PROVE  IsArgbRound(IF t.j < b THEN ArgbRound(io, t) ELSE t,
                     h, d, n, k, b, l, ty, tu, ok, u, a, r + 1)
<1>1. PICK j \in 0..b, i \in Nat : /\ InArgb(h, d, n, k, b, r, j, i)
                                   /\ t = ArgbAt(h, d, n, k, l, ty, tu, ok, u, a, j, i)
  BY DEF IsArgbRound
<1>2. t.j = j
  BY <1>1 DEF ArgbAt
<1>3. CASE j < b
  <2>1. PICK m \in Nat, q \in Nat : m = n + j /\ q = k + i
    OBVIOUS
  <2>2. IsArgbRound(ArgbRound(io, t), h, d, n, k, b, l, ty, tu, ok, u, a, r + 1)
    BY <1>1, <1>3, <2>1, ArgbRoundIs
  <2> QED BY <1>2, <1>3, <2>2
<1>4. CASE ~(j < b)
  <2>1. InArgb(h, d, n, k, b, r + 1, j, i)
    BY <1>1, <1>4 DEF InArgb
  <2>2. IsArgbRound(t, h, d, n, k, b, l, ty, tu, ok, u, a, r + 1)
    BY <1>1, <2>1 DEF IsArgbRound
  <2> QED BY <1>2, <1>4, <2>2
<1> QED BY <1>3, <1>4

(* EmitRescaledRowsRGBA: the loop ends with the whole piece used, and its    *)
(* rows are the shares of the source.                                        *)
LEMMA EmitLuma ==
  ASSUME NEW h \in Nat \ {0}, NEW d \in Nat \ {0}, NEW io, NEW n \in Nat, NEW b \in Nat,
         n + b <= h, LinesAre(io, d, n, b), NEW k \in Nat,
         Fits(h, d, n, k), ~Ready(h, d, n, k),
         NEW ty, NEW tu, NEW ok, NEW u, NEW a, NEW o,
         NEW p, p = Params(k, ty, tu, ok, ScalerAt(h, d, n, k), u, a)
  PROVE  LumaOut(EmitRescaledRows(io, p, o), o, h, d, n, b, k, ty, tu, ok, u, a)
<1> DEFINE s == [params |-> p, j |-> 0, rows |-> <<>>, asserts |-> TRUE]
           step(t) == IF t.j < io.mb_h THEN ArgbRound(io, t) ELSE t
           Is(f) == f = [j \in 0..io.mb_h |-> IF j = 0 THEN s ELSE step(f[j - 1])]
           f == CHOOSE f : Is(f)
           R(r) == ArgbRoundsOf(h, d, n, k, b, k, ty, tu, ok, u, a, r)
           S == [r \in 0..b |-> R(r)]
           F == [r \in 1..b |-> [t \in S[r - 1] |-> step(t)]]
<1>1. EmitRescaledRows(io, p, o)
        = [Emitted(f[io.mb_h].params, Written(o, p.last_y, f[io.mb_h].rows), Len(f[io.mb_h].rows))
            EXCEPT !.asserts = f[io.mb_h].asserts /\ f[io.mb_h].j = io.mb_h]
  BY Zenon DEF EmitRescaledRows
<1>2. io.mb_h = b
  BY DEF LinesAre
<1>3. s \in S[0]
  <2>1. n + 0 = n /\ k + 0 = k /\ 0 \in 0..b
    OBVIOUS
  <2>2. LumaFrom(h, d, k, 0) = <<>>
    BY DEF LumaFrom
  <2>3. s = ArgbAt(h, d, n, k, k, ty, tu, ok, u, a, 0, 0)
    BY <2>1, <2>2 DEF ArgbAt
  <2>4. InArgb(h, d, n, k, b, 0, 0, 0)
    BY <2>1 DEF InArgb
  <2>5. IsArgbRound(s, h, d, n, k, b, k, ty, tu, ok, u, a, 0)
    <3> HIDE DEF s
    <3> QED BY <2>1, <2>3, <2>4 DEF IsArgbRound
  <2> HIDE DEF s
  <2> QED BY <2>1, <2>5, ArgbRoundsOfIs
<1>4. ASSUME NEW r \in 1..b, NEW t \in S[r - 1] PROVE step(t) \in S[r]
  <2>1. r - 1 \in 0..b /\ r \in 0..b
    OBVIOUS
  <2>2. t \in R(r - 1)
    BY <2>1
  <2>3. PICK c \in Nat : c = r - 1 /\ c + 1 = r
    OBVIOUS
  <2>4. IsArgbRound(t, h, d, n, k, b, k, ty, tu, ok, u, a, c)
    BY <2>2, <2>3, ArgbRoundsOfIs
  <2>5. IsArgbRound(IF t.j < b THEN ArgbRound(io, t) ELSE t,
                    h, d, n, k, b, k, ty, tu, ok, u, a, c + 1)
    BY <2>4, ArgbRoundKeeps
  <2>6. step(t) = IF t.j < b THEN ArgbRound(io, t) ELSE t
    BY <1>2
  <2>7. IsArgbRound(step(t), h, d, n, k, b, k, ty, tu, ok, u, a, r)
    <3> HIDE DEF step
    <3> QED BY <2>3, <2>5, <2>6
  <2> HIDE DEF step
  <2> QED BY <2>1, <2>7, ArgbRoundsOfIs
<1> HIDE DEF step, S, s
<1>5. \A r \in 1..b : \A t \in S[r - 1] : F[r][t] \in S[r]
  BY <1>4
<1> HIDE DEF F
<1>6. PICK g : Loop(s, F, b, g) /\ \A r \in 0..b : g[r] \in S[r]
  BY <1>3, <1>5, LoopExists
<1>7. Is(g)
  <2>1. ASSUME NEW r \in 0..b PROVE g[r] = IF r = 0 THEN s ELSE step(g[r - 1])
    <3>1. CASE r = 0
      BY <1>6, <3>1 DEF Loop
    <3>2. CASE r # 0
      <4>1. r \in 1..b /\ r - 1 \in 0..b
        BY <3>2
      <4>2. g[r] = F[r][g[r - 1]] /\ g[r - 1] \in S[r - 1]
        BY <1>6, <3>2, <4>1 DEF Loop
      <4> QED BY <3>2, <4>1, <4>2 DEF F
    <3> QED BY <3>1, <3>2
  <2> QED BY <1>2, <1>6, <2>1 DEF Loop
<1>8. Is(f)
  BY <1>7
<1> HIDE DEF f
<1>9. \A r \in 0..b : f[r] \in S[r]
  <2>1. f[0] \in S[0]
    BY <1>2, <1>3, <1>8
  <2>2. ASSUME NEW r \in 1..b, f[r - 1] \in S[r - 1] PROVE f[r] \in S[r]
    <3>1. r \in 0..b /\ r # 0
      OBVIOUS
    <3>2. f[r] = step(f[r - 1])
      BY <1>2, <1>8, <3>1
    <3> QED BY <1>4, <2>2, <3>2
  <2> QED BY <2>1, <2>2, LoopStays
<1>10. PICK t : t = f[b]
  OBVIOUS
<1>11. IsArgbRound(t, h, d, n, k, b, k, ty, tu, ok, u, a, b)
  <2>1. t \in R(b)
    BY <1>9, <1>10 DEF S
  <2> QED BY <2>1, ArgbRoundsOfIs
<1>12. PICK j \in 0..b, i \in Nat : /\ InArgb(h, d, n, k, b, b, j, i)
                                    /\ t = ArgbAt(h, d, n, k, k, ty, tu, ok, u, a, j, i)
  BY <1>11 DEF IsArgbRound
<1>13. j = b
  BY <1>12 DEF InArgb
<1>14. /\ t.params = Params(k, ty, tu, ok, ScalerAt(h, d, n + b, k + i), u, a)
       /\ t.rows = LumaFrom(h, d, k, i) /\ (t.asserts /\ t.j = b) = TRUE
  BY <1>12, <1>13 DEF ArgbAt
<1>15. Len(t.rows) = i
  BY <1>14, LumaLength
<1>16. p.last_y = k
  BY ParamsFields
<1> DEFINE P == Params(k, ty, tu, ok, ScalerAt(h, d, n + b, k + i), u, a)
           O == Written(o, k, LumaFrom(h, d, k, i))
<1>20. PICK z : z = Emitted(P, O, i)
  OBVIOUS
<1>21. EmitRescaledRows(io, p, o) = [z EXCEPT !.asserts = t.asserts /\ t.j = b]
  BY <1>1, <1>2, <1>10, <1>14, <1>15, <1>16, <1>20, Zenon
<1>22. PICK y : y = [z EXCEPT !.asserts = t.asserts /\ t.j = b]
  OBVIOUS
<1>23. y = Emitted(P, O, i)
  <2> HIDE DEF P, O
  <2>1. z = [params |-> P, out |-> O, num_lines_out |-> i, asserts |-> TRUE]
    BY <1>20 DEF Emitted
  <2>2. y = [params |-> P, out |-> O, num_lines_out |-> i, asserts |-> TRUE]
    BY <1>14, <1>22, <2>1
  <2> QED BY <2>2 DEF Emitted
<1>24. EmitRescaledRows(io, p, o) = Emitted(P, O, i)
  BY <1>21, <1>22, <1>23
<1>25. Fits(h, d, n + b, k + i) /\ ~Ready(h, d, n + b, k + i)
  BY <1>12, <1>13 DEF InArgb
<1> QED BY <1>24, <1>25 DEF LumaOut

-----------------------------------------------------------------------------
\* Columns.
(* The columns: what ColumnShrink has taken after column k, and what of its  *)
(* last column of the source is left.                                        *)
Left(src, x, left) == [i \in 0..src - 1 |-> IF i = x - 1 THEN left ELSE 0]

AveragedAt(k, i, src, dst, X, Y, A, R) ==
  Averaged(k, i, src, dst)
    = (IF i = X - 1 THEN -A ELSE 0) + (IF i \in X..Y - 1 THEN dst ELSE 0)
        - (IF i = Y - 1 THEN -R ELSE 0)

(* The share of a column that is made smaller, from the two ends that it has *)
(* in common with its neighbours.                                            *)
LEMMA AveragedIs ==
  ASSUME NEW src \in Nat \ {0}, NEW dst \in Nat \ {0}, NEW k \in Nat, NEW i \in 0..src - 1,
         NEW X \in Nat, NEW Y \in Nat, X < Y,
         NEW A \in Int, A = k * src - X * dst, -dst < A, A <= 0,
         NEW R \in Int, R = (k + 1) * src - Y * dst, -dst < R, R <= 0, dst <= src
  PROVE  AveragedAt(k, i, src, dst, X, Y, A, R)
<1> USE DEF AveragedAt
<1>1. PICK K \in Int, L \in Int, P \in Int, Q \in Int, U \in Int, V \in Int :
        /\ K = k * src /\ L = (k + 1) * src /\ P = X * dst /\ Q = Y * dst
        /\ U = i * dst /\ V = (i + 1) * dst
  OBVIOUS
<1>2. L = K + src /\ V = U + dst /\ A = K - P /\ R = L - Q
  BY <1>1
<1>3. Averaged(k, i, src, dst) = MaxOf(0, MinOf(V, L) - MaxOf(U, K))
  BY <1>1 DEF Averaged
<1>4. CASE i + 1 < X
  <2>1. (i + 1) * dst <= (X - 1) * dst /\ (X - 1) * dst = P - dst
    BY <1>1, <1>4, TimesGrows
  <2>2. V <= P - dst
    BY <1>1, <2>1
  <2>3. V <= K /\ V <= L
    BY <1>2, <2>2
  <2> QED BY <1>3, <1>4, <2>3 DEF MaxOf, MinOf
<1>5. CASE i + 1 = X
  <2>1. V = P
    BY <1>1, <1>5
  <2>2. MaxOf(U, K) = K /\ MinOf(V, L) = V /\ V - K = -A
    BY <1>2, <2>1 DEF MaxOf, MinOf
  <2> QED BY <1>3, <1>5, <2>2 DEF MaxOf
<1>6. CASE X <= i /\ i < Y - 1
  <2>1. X * dst <= i * dst /\ (i + 1) * dst <= (Y - 1) * dst /\ (Y - 1) * dst = Q - dst
    BY <1>1, <1>6, TimesGrows
  <2>2. P <= U /\ V <= Q - dst
    BY <1>1, <2>1
  <2>3. MaxOf(U, K) = U /\ MinOf(V, L) = V
    BY <1>2, <2>2 DEF MaxOf, MinOf
  <2> QED BY <1>2, <1>3, <1>6, <2>3 DEF MaxOf
<1>7. CASE i = Y - 1
  <2>1. X * dst <= i * dst /\ (i + 1) * dst = Q
    BY <1>1, <1>7, TimesGrows
  <2>2. P <= U /\ V = Q
    BY <1>1, <2>1
  <2>3. MaxOf(U, K) = U /\ MinOf(V, L) = L /\ L - U = R + dst
    BY <1>2, <2>2 DEF MaxOf, MinOf
  <2> QED BY <1>2, <1>3, <1>7, <2>3 DEF MaxOf
<1>8. CASE i >= Y
  <2>1. Y * dst <= i * dst
    BY <1>8, TimesGrows
  <2>2. Q <= U
    BY <1>1, <2>1
  <2>3. L <= U
    BY <1>2, <2>2
  <2> QED BY <1>2, <1>3, <1>8, <2>3 DEF MaxOf, MinOf
<1> QED BY <1>4, <1>5, <1>6, <1>7, <1>8

ShrunkTo(src, dst, k, x) ==
  [accum |-> k * src - x * dst, x_in |-> x, left |-> Left(src, x, x * dst - k * src),
   out |-> IF k = 0 THEN Nothing(src) ELSE Shares(k - 1, src, dst)]

Shrunk(src, dst, k) ==
  {ShrunkTo(src, dst, k, x) : x \in {i \in 0..src : -dst < k * src - i * dst /\ k * src <= i * dst}}

(* WebPRescalerImportRowShrink: a column of the output holds the area of the *)
(* source that it covers, what is left over goes into the next one.          *)
LEMMA ColumnShrinks ==
  ASSUME NEW src \in Nat \ {0}, NEW dst \in Nat \ {0}, dst <= src, NEW k \in Nat, k < dst,
         NEW l \in Nat, l = k + 1, NEW c \in Shrunk(src, dst, k)
  PROVE  ColumnShrink(c, src, dst) \in Shrunk(src, dst, l)
<1>1. PICK X \in 0..src : /\ -dst < k * src - X * dst /\ k * src <= X * dst
                          /\ c = ShrunkTo(src, dst, k, X)
  BY DEF Shrunk
<1>2. PICK A \in Int : A = k * src - X * dst
  OBVIOUS
<1>3. -dst < A /\ A <= 0 /\ X * dst - k * src = -A
  <2>1. k * src \in Int /\ X * dst \in Int
    OBVIOUS
  <2> QED BY <1>1, <1>2, <2>1
<1>4. c.accum = A /\ c.x_in = X /\ c.left = Left(src, X, -A)
  BY <1>1, <1>2, <1>3 DEF ShrunkTo
<1>5. PICK q \in Int : ((A + src) + dst - 1) \div dst = q /\ q * dst >= A + src /\ (q - 1) * dst < A + src
  BY <1>2, RoundedUp
<1>6. q >= 1
  <2> SUFFICES ASSUME q <= 0 PROVE FALSE
    BY <1>5
  <2>1. q * dst <= 0 * dst
    BY <1>5, TimesGrows
  <2>2. q * dst <= 0
    BY <2>1
  <2> QED BY <1>2, <1>3, <1>5, <2>2
<1>7. PICK Y \in Nat : Y = X + q
  BY <1>5, <1>6
<1>8. PICK R \in Int : R = A + src - q * dst
  BY <1>2, <1>5
<1>9. -dst < R /\ R <= 0
  <2>1. (q - 1) * dst = q * dst - dst /\ q * dst \in Int
    BY <1>5
  <2> QED BY <1>2, <1>5, <1>8, <2>1
<1>10. R = l * src - Y * dst /\ Y * dst \in Int /\ l * src \in Int
  <2>1. l * src = k * src + src /\ Y * dst = X * dst + q * dst
    BY <1>5, <1>7
  <2>2. k * src \in Int /\ X * dst \in Int /\ q * dst \in Int
    BY <1>5
  <2> QED BY <1>2, <1>8, <2>1, <2>2
<1>11. Y \in 0..src
  <2> SUFFICES ASSUME src + 1 <= Y PROVE FALSE
    BY <1>7
  <2>1. (src + 1) * dst <= Y * dst
    BY <1>7, TimesGrows
  <2>2. l * src <= dst * src
    BY TimesGrows
  <2>3. (src + 1) * dst = dst * src + dst /\ dst * src \in Int
    OBVIOUS
  <2> QED BY <1>9, <1>10, <2>1, <2>2, <2>3
<1> DEFINE base == X + q - 1
           sum == [i \in 0..src - 1 |-> c.left[i] + IF i \in X..base THEN dst ELSE 0]
           frac == [i \in 0..src - 1 |-> IF i = base THEN -R ELSE 0]
<1>12. ColumnShrink(c, src, dst)
         = [accum |-> R, x_in |-> Y, left |-> frac, out |-> [i \in 0..src - 1 |-> sum[i] - frac[i]]]
  <2>1. PICK taken : taken = (c.accum + src + dst - 1) \div dst
    OBVIOUS
  <2>2. taken = q
    <3>1. c.accum + src + dst - 1 = (A + src) + dst - 1
      BY <1>2, <1>4
    <3> QED BY <1>5, <2>1, <3>1
  <2>3. (c.accum + src) - taken * dst = R
    BY <1>4, <1>8, <2>2
  <2>4. ColumnShrink(c, src, dst) =
          LET rest == (c.accum + src) - taken * dst
              b == c.x_in + taken - 1
              s == [x \in 0..src - 1 |->
                      c.left[x] + IF x \in c.x_in..b THEN dst ELSE 0]
              f == [x \in 0..src - 1 |-> IF x = b THEN -rest ELSE 0]
          IN [accum |-> rest, x_in |-> c.x_in + taken, left |-> f,
              out |-> [x \in 0..src - 1 |-> s[x] - f[x]]]
    BY <2>1, Zenon DEF ColumnShrink
  <2> QED BY <1>4, <1>7, <2>2, <2>3, <2>4, Zenon
<1>13. base = Y - 1
  BY <1>5, <1>7
<1>14. frac = Left(src, Y, Y * dst - l * src)
  <2>1. Y * dst - l * src = -R
    BY <1>10
  <2> QED BY <1>13, <2>1 DEF Left
<1>15. ASSUME NEW i \in 0..src - 1 PROVE sum[i] - frac[i] = Share(k, i, src, dst)
  <2>1. Averaged(k, i, src, dst)
           = (IF i = X - 1 THEN -A ELSE 0) + (IF i \in X..Y - 1 THEN dst ELSE 0)
               - (IF i = Y - 1 THEN -R ELSE 0)
    <3>1. X < Y /\ R = (k + 1) * src - Y * dst /\ X \in Nat
      BY <1>5, <1>6, <1>7, <1>10
    <3>2. A = k * src - X * dst /\ -dst < A /\ A <= 0 /\ -dst < R /\ R <= 0
      BY <1>2, <1>3, <1>9
    <3> HIDE DEF sum, frac, base
    <3>3. AveragedAt(k, i, src, dst, X, Y, A, R)
      BY <3>1, <3>2, AveragedIs
    <3> QED BY <3>3 DEF AveragedAt
  <2>2. c.left[i] = IF i = X - 1 THEN -A ELSE 0
    BY <1>4 DEF Left
  <2>3. sum[i] = (IF i = X - 1 THEN -A ELSE 0) + (IF i \in X..Y - 1 THEN dst ELSE 0)
    BY <1>13, <2>2
  <2>4. frac[i] = IF i = Y - 1 THEN -R ELSE 0
    BY <1>13
  <2>5. Share(k, i, src, dst) = Averaged(k, i, src, dst)
    BY DEF Share
  <2> HIDE DEF sum, frac
  <2>6. PICK a \in Int, b \in Int, f \in Int :
          /\ a = (IF i = X - 1 THEN -A ELSE 0) /\ b = (IF i \in X..Y - 1 THEN dst ELSE 0)
          /\ f = (IF i = Y - 1 THEN -R ELSE 0)
    BY <1>2, <1>8
  <2> QED BY <2>1, <2>3, <2>4, <2>5, <2>6
<1>16. [i \in 0..src - 1 |-> sum[i] - frac[i]] = Shares(l - 1, src, dst)
  <2>1. l - 1 = k
    OBVIOUS
  <2> HIDE DEF sum, frac
  <2> QED BY <1>15, <2>1 DEF Shares
<1>17. ColumnShrink(c, src, dst) = ShrunkTo(src, dst, l, Y)
  <2>1. l # 0
    OBVIOUS
  <2> HIDE DEF sum, frac, base
  <2> QED BY <1>10, <1>12, <1>14, <1>16, <2>1 DEF ShrunkTo
<1>18. -dst < l * src - Y * dst /\ l * src <= Y * dst
  BY <1>9, <1>10
<1> QED BY <1>11, <1>17, <1>18 DEF Shrunk

(* What ColumnExpand has taken after column k.                               *)
ExpandedTo(src, dst, k, a, r) ==
  [accum |-> a, x_in |-> r, out |-> Shares(k - 1, src, dst)]

Between(src, dst, k, a, r) ==
  /\ a \in 0..dst - 1 /\ r \in Nat
  /\ IF src = 1 THEN r = 0 /\ a = dst - 1
     ELSE r > 0 /\ (k - 1) * (src - 1) = r * (dst - 1) - a

IsExpanded(c, src, dst, k) ==
  \E a \in 0..dst - 1, r \in Nat : Between(src, dst, k, a, r) /\ c = ExpandedTo(src, dst, k, a, r)

(* The share of a column that is enlarged, from the two columns it lies      *)
(* between.                                                                  *)
LEMMA InterpolatedIs ==
  ASSUME NEW src \in Nat \ {0}, NEW dst \in Nat \ {0}, src < dst, NEW k \in Nat,
         NEW l \in Nat, l = k + 1, NEW a, NEW r, Between(src, dst, l, a, r),
         NEW i \in 0..src - 1
  PROVE  Interpolated(k, i, src, dst)
           = (IF i = MaxOf(r - 1, 0) THEN a ELSE 0) + (IF i = r THEN dst - 1 - a ELSE 0)
<1>0. PICK D \in Nat \ {0} : D = dst - 1
  OBVIOUS
<1>1. CASE src = 1
  <2>1. r = 0 /\ a = D /\ i = 0
    BY <1>0, <1>1 DEF Between
  <2>2. k * (src - 1) = D * 0 + 0 /\ 0 \in 0..D - 1 /\ k * (src - 1) \in Int
    BY <1>1
  <2>3. (k * (src - 1)) \div D = 0 /\ (k * (src - 1)) % D = 0
    BY <2>2, Division
  <2> QED BY <1>0, <2>1, <2>3 DEF Interpolated, MaxOf
<1>2. CASE src # 1
  <2>1. a \in 0..D /\ r \in Nat \ {0} /\ (l - 1) * (src - 1) = r * D - a
    BY <1>0, <1>2 DEF Between
  <2>2. l - 1 = k
    OBVIOUS
  <2>3. PICK N \in Int : N = k * (src - 1)
    OBVIOUS
  <2>4. N = r * D - a
    BY <2>1, <2>2, <2>3
  <2>5. MaxOf(r - 1, 0) = r - 1
    BY <2>1 DEF MaxOf
  <2>6. Interpolated(k, i, src, dst)
          = IF i = N \div D THEN D - (N % D) ELSE IF i = (N \div D) + 1 THEN N % D ELSE 0
    BY <1>0, <2>3 DEF Interpolated
  <2>7. CASE a = 0
    <3>1. N = D * r + 0 /\ 0 \in 0..D - 1 /\ r \in Int
      BY <1>0, <2>1, <2>4, <2>7
    <3>2. N \div D = r /\ N % D = 0
      BY <3>1, Division
    <3>3. Interpolated(k, i, src, dst) = IF i = r THEN D ELSE 0
      BY <2>1, <2>6, <3>2
    <3>4. dst - 1 - a = D
      BY <1>0, <2>7
    <3> QED BY <2>1, <2>5, <2>7, <3>3, <3>4
  <2>8. CASE a # 0
    <3>1. PICK q \in Int, t \in 0..D - 1 : q = r - 1 /\ t = D - a
      BY <1>0, <2>1, <2>8
    <3>2. N = D * q + t
      <4>1. D * q = r * D - D /\ r * D \in Int
        BY <2>1, <3>1
      <4> QED BY <2>1, <2>4, <3>1, <4>1
    <3>3. N \div D = q /\ N % D = t
      BY <3>2, Division
    <3>4. Interpolated(k, i, src, dst)
            = IF i = r - 1 THEN a ELSE IF i = r THEN D - a ELSE 0
      BY <2>1, <2>6, <3>1, <3>3
    <3> QED BY <1>0, <2>1, <2>5, <3>4
  <2> QED BY <2>7, <2>8
<1> QED BY <1>1, <1>2

(* WebPRescalerImportRowExpand: the next column of the output lies between   *)
(* two of the source.                                                        *)
LEMMA ColumnExpands ==
  ASSUME NEW src \in Nat \ {0}, NEW dst \in Nat \ {0}, src < dst, NEW k \in Nat \ {0},
         NEW l \in Nat, l = k + 1, NEW c, IsExpanded(c, src, dst, k)
  PROVE  IsExpanded(ColumnExpand(c, src, dst), src, dst, l)
<1>1. PICK a \in 0..dst - 1, r \in Nat : Between(src, dst, k, a, r) /\ c = ExpandedTo(src, dst, k, a, r)
  BY DEF IsExpanded
<1>2. c.accum = a /\ c.x_in = r
  BY <1>1 DEF ExpandedTo
<1> DEFINE shifts == a - (src - 1) < 0
<1>3. PICK a1 \in 0..dst - 1 : a1 = a - (src - 1) + IF shifts THEN dst - 1 ELSE 0
  OBVIOUS
<1>4. PICK r1 \in Nat : r1 = IF shifts THEN r + 1 ELSE r
  OBVIOUS
<1>5. Between(src, dst, l, a1, r1)
  <2>1. CASE src = 1
    <3>1. r = 0 /\ a = dst - 1
      BY <1>1, <2>1 DEF Between
    <3>2. ~shifts
      BY <2>1, <3>1
    <3>3. r1 = 0 /\ a1 = dst - 1
      BY <1>3, <1>4, <2>1, <3>1, <3>2
    <3> QED BY <2>1, <3>3 DEF Between
  <2>2. CASE src # 1
    <3>1. r > 0 /\ (k - 1) * (src - 1) = r * (dst - 1) - a
      BY <1>1, <2>2 DEF Between
    <3>2. PICK P \in Int, Q \in Int : P = (k - 1) * (src - 1) /\ Q = r * (dst - 1)
      OBVIOUS
    <3>3. (l - 1) * (src - 1) = P + (src - 1) /\ (r + 1) * (dst - 1) = Q + (dst - 1)
      BY <3>2
    <3>4. (l - 1) * (src - 1) = r1 * (dst - 1) - a1
      <4>1. CASE shifts
        <5>1. r1 = r + 1 /\ a1 = a - (src - 1) + (dst - 1)
          BY <1>3, <1>4, <4>1
        <5>2. r1 * (dst - 1) = Q + (dst - 1)
          BY <3>3, <5>1
        <5> QED BY <3>1, <3>2, <3>3, <5>1, <5>2
      <4>2. CASE ~shifts
        <5>1. r1 = r /\ a1 = a - (src - 1)
          BY <1>3, <1>4, <4>2
        <5>2. r1 * (dst - 1) = Q
          BY <3>2, <5>1
        <5> QED BY <3>1, <3>2, <3>3, <5>1, <5>2
      <4> QED BY <4>1, <4>2
    <3>5. r1 > 0
      BY <1>4, <3>1
    <3> QED BY <2>2, <3>4, <3>5 DEF Between
  <2> QED BY <2>1, <2>2
<1> DEFINE o == [i \in 0..src - 1 |-> (IF i = MaxOf(r1 - 1, 0) THEN a1 ELSE 0)
                                      + IF i = r1 THEN dst - 1 - a1 ELSE 0]
<1>6. ColumnExpand(c, src, dst) = [accum |-> a1, x_in |-> r1, out |-> o]
  BY <1>2, <1>3, <1>4 DEF ColumnExpand
<1>7. o = Shares(l - 1, src, dst)
  <2>1. ASSUME NEW i \in 0..src - 1 PROVE o[i] = Share(k, i, src, dst)
    <3>1. Interpolated(k, i, src, dst)
           = (IF i = MaxOf(r1 - 1, 0) THEN a1 ELSE 0) + (IF i = r1 THEN dst - 1 - a1 ELSE 0)
      BY <1>5, InterpolatedIs
    <3>2. Share(k, i, src, dst) = Interpolated(k, i, src, dst)
      BY DEF Share
    <3> QED BY <3>1, <3>2
  <2>2. l - 1 = k
    OBVIOUS
  <2>3. o = [i \in 0..src - 1 |-> o[i]]
    OBVIOUS
  <2> HIDE DEF o
  <2> QED BY <2>1, <2>2, <2>3 DEF Shares
<1>8. ColumnExpand(c, src, dst) = ExpandedTo(src, dst, l, a1, r1)
  BY <1>6, <1>7 DEF ExpandedTo
<1> QED BY <1>5, <1>8 DEF IsExpanded

(* It begins with the first of them.                                         *)
LEMMA FirstIsExpanded ==
  ASSUME NEW src \in Nat \ {0}, NEW dst \in Nat \ {0}, src < dst
  PROVE  IsExpanded(FirstExpanded(src, dst), src, dst, 1)
<1> DEFINE r == IF src > 1 THEN 1 ELSE 0
           a == dst - 1
           o == [x \in 0..src - 1 |-> IF x = 0 THEN dst - 1 ELSE 0]
<1>1. Between(src, dst, 1, a, r) /\ r \in Nat /\ a \in 0..dst - 1
  <2>1. (1 - 1) * (src - 1) = 0 /\ 1 * (dst - 1) - (dst - 1) = 0
    OBVIOUS
  <2> QED BY <2>1 DEF Between
<1>2. o = Shares(1 - 1, src, dst)
  <2>1. ASSUME NEW i \in 0..src - 1 PROVE o[i] = Share(0, i, src, dst)
    <3>1. Interpolated(0, i, src, dst)
           = (IF i = MaxOf(r - 1, 0) THEN a ELSE 0) + (IF i = r THEN dst - 1 - a ELSE 0)
      <4>1. 0 \in Nat /\ 1 \in Nat /\ 1 = 0 + 1
        OBVIOUS
      <4> HIDE DEF r, a
      <4> QED BY <1>1, <4>1, InterpolatedIs
    <3>2. Share(0, i, src, dst) = Interpolated(0, i, src, dst)
      BY DEF Share
    <3>3. MaxOf(r - 1, 0) = 0
      BY DEF MaxOf
    <3> QED BY <3>1, <3>2, <3>3
  <2>2. 1 - 1 = 0
    OBVIOUS
  <2>3. o = [i \in 0..src - 1 |-> o[i]]
    OBVIOUS
  <2> HIDE DEF o
  <2> QED BY <2>1, <2>2, <2>3 DEF Shares
<1>3. FirstExpanded(src, dst) = ExpandedTo(src, dst, 1, a, r)
  BY <1>2 DEF FirstExpanded, ExpandedTo
<1> HIDE DEF a, r
<1> QED BY <1>1, <1>3 DEF IsExpanded

(* Column k, however it is made.                                             *)
Start(src) == [accum |-> 0, x_in |-> 0, left |-> Nothing(src), out |-> Nothing(src)]

NextColumn(src, dst, k, c) ==
  IF src >= dst THEN ColumnShrink(c, src, dst)
  ELSE IF k = 1 THEN FirstExpanded(src, dst) ELSE ColumnExpand(c, src, dst)

ColumnSet(src, dst, k) ==
  IF src >= dst THEN Shrunk(src, dst, k)
  ELSE IF k = 0 THEN {Start(src)}
  ELSE {c \in {ExpandedTo(src, dst, k, a, r) : a \in 0..dst - 1, r \in Nat} :
          IsExpanded(c, src, dst, k)}

(* Whichever of the two it is, column k follows from the one before it.      *)
LEMMA ColumnSetNext ==
  ASSUME NEW src \in Nat \ {0}, NEW dst \in Nat \ {0}, NEW k \in 1..dst,
         NEW c \in ColumnSet(src, dst, k - 1)
  PROVE  NextColumn(src, dst, k, c) \in ColumnSet(src, dst, k)
<1>1. PICK j \in Nat : j = k - 1 /\ k = j + 1
  OBVIOUS
<1>2. CASE src >= dst
  <2>1. c \in Shrunk(src, dst, j)
    BY <1>1, <1>2 DEF ColumnSet
  <2>2. dst <= src /\ j < dst /\ k \in Nat
    BY <1>1, <1>2
  <2>3. ColumnShrink(c, src, dst) \in Shrunk(src, dst, k)
    BY <1>1, <2>1, <2>2, ColumnShrinks
  <2> QED BY <1>2, <2>3 DEF NextColumn, ColumnSet
<1>3. CASE ~(src >= dst)
  <2>1. src < dst /\ k # 0 /\ k \in Nat
    BY <1>3
  <2>2. IsExpanded(NextColumn(src, dst, k, c), src, dst, k)
    <3>1. CASE k = 1
      BY <1>3, <2>1, <3>1, FirstIsExpanded DEF NextColumn
    <3>2. CASE k # 1
      <4>1. j \in Nat \ {0}
        BY <1>1, <3>2
      <4>2. IsExpanded(c, src, dst, j)
        BY <1>1, <1>3, <4>1 DEF ColumnSet
      <4>3. IsExpanded(ColumnExpand(c, src, dst), src, dst, k)
        BY <1>1, <2>1, <4>1, <4>2, ColumnExpands
      <4> QED BY <1>3, <3>2, <4>3 DEF NextColumn
    <3> QED BY <3>1, <3>2
  <2> QED BY <1>3, <2>1, <2>2 DEF ColumnSet, IsExpanded
<1> QED BY <1>2, <1>3

(* What it puts out are the shares of column k - 1.                          *)
LEMMA ColumnSetOut ==
  ASSUME NEW src \in Nat \ {0}, NEW dst \in Nat \ {0}, NEW k \in 1..dst,
         NEW c \in ColumnSet(src, dst, k)
  PROVE  c.out = Shares(k - 1, src, dst)
<1>1. CASE src >= dst
  BY <1>1 DEF ColumnSet, Shrunk, ShrunkTo
<1>2. CASE ~(src >= dst)
  BY <1>2 DEF ColumnSet, IsExpanded, ExpandedTo
<1> QED BY <1>1, <1>2

(* The columns of a row hold the same shares as the rows of a picture, for   *)
(* every width.                                                              *)
LEMMA ColumnsAre ==
  ASSUME NEW src \in Nat \ {0}, NEW dst \in Nat \ {0}, NEW k \in 1..dst
  PROVE  Columns(src, dst)[k].out = Shares(k - 1, src, dst)
<1> DEFINE s == Start(src)
           step(i, t) == NextColumn(src, dst, i, t)
           Is(f) == f = [i \in 0..dst |-> IF i = 0 THEN s ELSE step(i, f[i - 1])]
           f == CHOOSE f : Is(f)
           S == [i \in 0..dst |-> ColumnSet(src, dst, i)]
           F == [i \in 1..dst |-> [t \in S[i - 1] |-> step(i, t)]]
<1>1. Columns(src, dst) = f
  BY Zenon DEF Columns, Start, NextColumn
<1>2. s \in S[0]
  <2>1. CASE src >= dst
    <3>1. 0 * src - 0 * dst = 0 /\ 0 * dst - 0 * src = 0 /\ 0 * src <= 0 * dst
      OBVIOUS
    <3>2. Left(src, 0, 0) = Nothing(src)
      BY DEF Left, Nothing
    <3>3. Start(src) = ShrunkTo(src, dst, 0, 0)
      BY <3>1, <3>2 DEF Start, ShrunkTo
    <3>4. 0 \in {i \in 0..src : -dst < 0 * src - i * dst /\ 0 * src <= i * dst}
      BY <3>1
    <3> QED BY <2>1, <3>3, <3>4 DEF ColumnSet, Shrunk
  <2>2. CASE ~(src >= dst)
    BY <2>2 DEF ColumnSet
  <2> QED BY <2>1, <2>2
<1>3. ASSUME NEW i \in 1..dst, NEW t \in S[i - 1] PROVE step(i, t) \in S[i]
  <2>1. i - 1 \in 0..dst /\ i \in 0..dst
    OBVIOUS
  <2>2. t \in ColumnSet(src, dst, i - 1)
    BY <2>1
  <2>3. NextColumn(src, dst, i, t) \in ColumnSet(src, dst, i)
    BY <2>2, ColumnSetNext
  <2> QED BY <2>1, <2>3
<1> HIDE DEF step, S, s
<1>5. \A i \in 1..dst : \A t \in S[i - 1] : F[i][t] \in S[i]
  BY <1>3
<1> HIDE DEF F
<1>6. PICK g : Loop(s, F, dst, g) /\ \A i \in 0..dst : g[i] \in S[i]
  BY <1>2, <1>5, LoopExists
<1>7. Is(g)
  <2>1. ASSUME NEW i \in 0..dst PROVE g[i] = IF i = 0 THEN s ELSE step(i, g[i - 1])
    <3>1. CASE i = 0
      BY <1>6, <3>1 DEF Loop
    <3>2. CASE i # 0
      <4>1. i \in 1..dst /\ i - 1 \in 0..dst
        BY <3>2
      <4>2. g[i] = F[i][g[i - 1]] /\ g[i - 1] \in S[i - 1]
        BY <1>6, <3>2, <4>1 DEF Loop
      <4> QED BY <3>2, <4>1, <4>2 DEF F
    <3> QED BY <3>1, <3>2
  <2> QED BY <1>6, <2>1 DEF Loop
<1>8. Is(f)
  BY <1>7
<1> HIDE DEF f
<1>9. \A i \in 0..dst : f[i] \in S[i]
  <2>1. f[0] \in S[0]
    BY <1>2, <1>8
  <2>2. ASSUME NEW i \in 1..dst, f[i - 1] \in S[i - 1] PROVE f[i] \in S[i]
    <3>1. i \in 0..dst /\ i # 0
      OBVIOUS
    <3>2. f[i] = step(i, f[i - 1])
      BY <1>8, <3>1
    <3> QED BY <1>3, <2>2, <3>2
  <2> QED BY <2>1, <2>2, LoopStays
<1>10. f[k] \in ColumnSet(src, dst, k)
  BY <1>9 DEF S
<1> QED BY <1>1, <1>10, ColumnSetOut

-----------------------------------------------------------------------------
\* Rows of the output, drawn and finished.
(* The output with the colours of its rows k..k + n - 1, and with all that   *)
(* is in them.                                                               *)
Draw(o, k, n) ==
  [j \in DOMAIN o |-> IF j \in k..k + n - 1 THEN Colour(ColourOf(j)) ELSE o[j]]

Multiplied == IF HasAlpha /\ Mode = "premultiplied" THEN 1 ELSE 0

RightRow(j) == [colour |-> ColourOf(j), alpha |-> AlphaOf(j), multiplied |-> Multiplied]

Finish(o, k, n) ==
  [j \in DOMAIN o |-> IF j \in k..k + n - 1 THEN RightRow(j) ELSE o[j]]

(* The rows rs are those from row k on.                                      *)
AreRows(rs, k, n) ==
  Len(rs) = n /\ \A x \in 1..n : \A j \in Nat : j = k + x - 1 => rs[x] = Colour(ColourOf(j))

(* Rows with the right colours are drawn.                                    *)
LEMMA DrawnRows ==
  ASSUME NEW o, IsRows(o), NEW k \in Nat, NEW n \in Nat, NEW rs, AreRows(rs, k, n)
  PROVE  Written(o, k, rs) = Draw(o, k, n)
<1>1. ASSUME NEW j \in DOMAIN o
      PROVE  (IF j \in k..k + Len(rs) - 1 THEN rs[j - k + 1] ELSE o[j])
               = (IF j \in k..k + n - 1 THEN Colour(ColourOf(j)) ELSE o[j])
  <2>1. j \in Int
    BY DEF IsRows
  <2>2. CASE j \in k..k + n - 1
    <3>1. PICK x \in 1..n : x = j - k + 1
      BY <2>1, <2>2
    <3>2. j \in Nat /\ j = k + x - 1
      BY <2>1, <2>2, <3>1
    <3>3. rs[x] = Colour(ColourOf(j))
      BY <3>2 DEF AreRows
    <3> QED BY <2>2, <3>1, <3>3 DEF AreRows
  <2>3. CASE j \notin k..k + n - 1
    BY <2>3 DEF AreRows
  <2> QED BY <2>2, <2>3
<1> QED BY <1>1 DEF Written, Draw

(* What is drawn, or finished, are rows of the output still.                 *)
LEMMA DrawIsRows ==
  ASSUME NEW o, IsRows(o), NEW k, NEW n
  PROVE  /\ IsRows(Draw(o, k, n)) /\ DOMAIN Draw(o, k, n) = DOMAIN o
         /\ IsRows(Finish(o, k, n)) /\ DOMAIN Finish(o, k, n) = DOMAIN o
<1>1. /\ DOMAIN Draw(o, k, n) = DOMAIN o /\ DOMAIN Finish(o, k, n) = DOMAIN o
      /\ Draw(o, k, n) = [j \in DOMAIN Draw(o, k, n) |-> Draw(o, k, n)[j]]
      /\ Finish(o, k, n) = [j \in DOMAIN Finish(o, k, n) |-> Finish(o, k, n)[j]]
  BY DEF Draw, Finish
<1>2. DOMAIN o \subseteq Int
  BY DEF IsRows
<1> QED BY <1>1, <1>2 DEF IsRows

DrawTwice(o, k, n, m, i) == Draw(Draw(o, k, n), m, i) = Draw(o, k, n + i)

(* Rows that are drawn, and the ones behind them.                            *)
LEMMA DrawMore ==
  ASSUME NEW o, IsRows(o), NEW k \in Nat, NEW n \in Nat, NEW m \in Nat, m = k + n, NEW i \in Nat
  PROVE  DrawTwice(o, k, n, m, i)
<1> DEFINE w == Draw(o, k, n)
<1>1. DOMAIN w = DOMAIN o /\ \A j \in DOMAIN o : w[j] = IF j \in k..k + n - 1 THEN Colour(ColourOf(j)) ELSE o[j]
  BY DEF Draw
<1>2. ASSUME NEW j \in DOMAIN o
      PROVE  (IF j \in m..m + i - 1 THEN Colour(ColourOf(j)) ELSE w[j])
               = (IF j \in k..k + (n + i) - 1 THEN Colour(ColourOf(j)) ELSE o[j])
  <2>0. j \in Int
    BY DEF IsRows
  <2>1. CASE j \in m..m + i - 1
    <3>1. j \in k..k + (n + i) - 1
      BY <2>0, <2>1
    <3> QED BY <2>1, <3>1
  <2>2. CASE j \notin m..m + i - 1 /\ j \in k..k + n - 1
    <3>1. j \in k..k + (n + i) - 1
      BY <2>0, <2>2
    <3> QED BY <1>1, <2>2, <3>1
  <2>3. CASE j \notin m..m + i - 1 /\ j \notin k..k + n - 1
    <3>1. j \notin k..k + (n + i) - 1
      BY <2>0, <2>3
    <3> QED BY <1>1, <2>3, <3>1
  <2> QED BY <2>1, <2>2, <2>3
<1> HIDE DEF w
<1>3. Draw(w, m, i) = Draw(o, k, n + i)
  BY <1>1, <1>2 DEF Draw
<1> QED BY <1>3 DEF w, DrawTwice

(* Without alpha that is all.                                                *)
LEMMA DrawnIsFinished ==
  ASSUME NEW o, NEW k, NEW n, ~HasAlpha \/ ~IsAlphaMode
  PROVE  Draw(o, k, n) = Finish(o, k, n)
<1>1. ASSUME NEW j PROVE Colour(ColourOf(j)) = RightRow(j)
  <2>1. AlphaOf(j) = Opaque
    BY DEF AlphaOf
  <2>2. Multiplied = 0
    BY DEF Multiplied, IsAlphaMode
  <2> QED BY <2>1, <2>2 DEF Colour, RightRow
<1> QED BY <1>1 DEF Draw, Finish

(* A row of colours gets its alpha, and is multiplied by it once.            *)
LEMMA RowWithAlpha ==
  ASSUME NEW c, NEW a, HasAlpha
  PROVE  Premultiplied([Colour(c) EXCEPT !.alpha = a])
           = [colour |-> c, alpha |-> a, multiplied |-> Multiplied]
<1>1. PICK z : z = Colour(c)
  OBVIOUS
<1>2. z = [colour |-> c, alpha |-> Opaque, multiplied |-> 0]
  BY <1>1 DEF Colour
<1>3. PICK y : y = [z EXCEPT !.alpha = a]
  OBVIOUS
<1>4. y = [colour |-> c, alpha |-> a, multiplied |-> 0]
  BY <1>2, <1>3
<1>5. Premultiplied(y) = [y EXCEPT !.multiplied = IF Mode = "premultiplied" THEN @ + 1 ELSE @]
  BY DEF Premultiplied
<1>6. PICK x : x = [y EXCEPT !.multiplied = IF Mode = "premultiplied" THEN @ + 1 ELSE @]
  OBVIOUS
<1>7. x = [colour |-> c, alpha |-> a, multiplied |-> Multiplied]
  <2>1. CASE Mode = "premultiplied"
    <3>1. x = [y EXCEPT !.multiplied = @ + 1]
      BY <1>6, <2>1
    <3>2. x = [colour |-> c, alpha |-> a, multiplied |-> 1]
      BY <1>4, <3>1
    <3> QED BY <2>1, <3>2 DEF Multiplied
  <2>2. CASE Mode # "premultiplied"
    <3>1. x = [y EXCEPT !.multiplied = @]
      BY <1>6, <2>2
    <3>2. x = y
      BY <1>4, <3>1
    <3> QED BY <1>4, <2>2, <3>2 DEF Multiplied
  <2> QED BY <2>1, <2>2
<1> QED BY <1>1, <1>3, <1>5, <1>6, <1>7

AreAlphas(as, k, n) ==
  Len(as) = n /\ \A x \in 1..n : \A j \in Nat : j = k + x - 1 => as[x] = AlphaOf(j)

(* Rows that are drawn and get their alpha are finished.                     *)
LEMMA FinishedRows ==
  ASSUME NEW o, IsRows(o), NEW k \in Nat, NEW n \in Nat, NEW as, AreAlphas(as, k, n), HasAlpha
  PROVE  WithAlpha(Draw(o, k, n), k, as) = Finish(o, k, n)
<1> DEFINE w == Draw(o, k, n)
<1>1. DOMAIN w = DOMAIN o /\ \A j \in DOMAIN o : w[j] = IF j \in k..k + n - 1 THEN Colour(ColourOf(j)) ELSE o[j]
  BY DEF Draw
<1>2. ASSUME NEW j \in DOMAIN o
      PROVE  (IF j \in k..k + Len(as) - 1 THEN Premultiplied([w[j] EXCEPT !.alpha = as[j - k + 1]])
              ELSE w[j])
               = (IF j \in k..k + n - 1 THEN RightRow(j) ELSE o[j])
  <2>0. j \in Int /\ Len(as) = n
    BY DEF IsRows, AreAlphas
  <2>1. CASE j \in k..k + n - 1
    <3>1. PICK x \in 1..n : x = j - k + 1
      BY <2>0, <2>1
    <3>2. j \in Nat /\ j = k + x - 1
      BY <2>0, <2>1, <3>1
    <3>3. as[j - k + 1] = AlphaOf(j)
      BY <3>1, <3>2 DEF AreAlphas
    <3>4. w[j] = Colour(ColourOf(j))
      BY <1>1, <2>1
    <3>5. Premultiplied([w[j] EXCEPT !.alpha = as[j - k + 1]]) = RightRow(j)
      <4>1. PICK c, a : c = ColourOf(j) /\ a = AlphaOf(j)
        OBVIOUS
      <4>2. Premultiplied([Colour(c) EXCEPT !.alpha = a])
              = [colour |-> c, alpha |-> a, multiplied |-> Multiplied]
        BY RowWithAlpha
      <4> HIDE DEF w
      <4>3. Premultiplied([w[j] EXCEPT !.alpha = as[j - k + 1]])
              = Premultiplied([Colour(c) EXCEPT !.alpha = a])
        BY <3>3, <3>4, <4>1, Zenon
      <4> QED BY <4>1, <4>2, <4>3 DEF RightRow
    <3> QED BY <2>0, <2>1, <3>5
  <2>2. CASE j \notin k..k + n - 1
    BY <1>1, <2>0, <2>2
  <2> QED BY <2>1, <2>2
<1> HIDE DEF w
<1>3. WithAlpha(w, k, as) = Finish(o, k, n)
  BY <1>1, <1>2 DEF WithAlpha, Finish
<1> QED BY <1>3 DEF w

-----------------------------------------------------------------------------
\* Rows that are not scaled.
(* EmitSampledRGB: a piece that is not upsampled is drawn.                   *)
LEMMA EmitSampled ==
  ASSUME NEW io, NEW n \in Nat, NEW b \in Nat, io.mb_y = n, io.mb_h = b,
         IsLossy, ~IsScaled, ~FancyUpsampling, NEW o, IsRows(o), NEW p
  PROVE  EmitSampledRGB(io, p, o) = Emitted(p, Draw(o, n, b), b)
<1> DEFINE rs == [i \in 1..b |-> Sampled(n + i - 1, (n + i - 1) \div 2, (n + i - 1) \div 2)]
<1>1. AreRows(rs, n, b)
  <2>1. ASSUME NEW x \in 1..b, NEW j \in Nat, j = n + x - 1 PROVE rs[x] = Colour(ColourOf(j))
    <3>1. rs[x] = Sampled(j, j \div 2, j \div 2)
      BY <2>1
    <3> QED BY <3>1 DEF Sampled, ColourOf
  <2>2. Len(rs) = b
    OBVIOUS
  <2> HIDE DEF rs
  <2> QED BY <2>1, <2>2 DEF AreRows
<1>2. EmitSampledRGB(io, p, o) = Emitted(p, Written(o, n, rs), b)
  BY DEF EmitSampledRGB
<1> HIDE DEF rs
<1>3. Written(o, n, rs) = Draw(o, n, b)
  BY <1>1, DrawnRows
<1> QED BY <1>2, <1>3

(* The rows of chroma that the upsampler takes for a row of luma.            *)
Fancies(h) == IsLossy /\ ~IsScaled /\ FancyUpsampling /\ h = MbH /\ h \in Nat

(* Chroma of an even row: the row above it is the further one.               *)
LEMMA FancyEven ==
  ASSUME NEW h, Fancies(h), NEW j \in Nat, NEW q \in Nat, j = 2 * q, j < h
  PROVE  Colour(ColourOf(j)) = Sampled(j, q, IF q = 0 THEN 0 ELSE q - 1)
<1>1. j \div 2 = q /\ j % 2 = 0
  OBVIOUS
<1>2. h \in Nat /\ h = MbH
  BY DEF Fancies
<1>3. UvH(MbH) \in Nat /\ q < UvH(MbH)
  BY <1>2 DEF UvH
<1>4. Neighbour(j) = IF q = 0 THEN 0 ELSE q - 1
  BY <1>1, <1>3 DEF Neighbour
<1>5. ColourOf(j) = <<j, j \div 2, Neighbour(j)>>
  BY DEF Fancies, ColourOf
<1> QED BY <1>1, <1>4, <1>5 DEF Sampled

(* Chroma of an odd row: the row below it is the further one.                *)
LEMMA FancyOdd ==
  ASSUME NEW h, Fancies(h), NEW j \in Nat, NEW q \in Nat, j + 1 = 2 * q, j < h,
         NEW p \in Nat, p = q - 1
  PROVE  Colour(ColourOf(j)) = Sampled(j, p, IF j + 1 < h THEN q ELSE p)
<1>1. j \div 2 = p /\ j % 2 = 1
  OBVIOUS
<1>2. h \in Nat /\ h = MbH
  BY DEF Fancies
<1>3. UvH(MbH) \in Nat /\ (j + 1 < h => q < UvH(MbH)) /\ (~(j + 1 < h) => q = UvH(MbH))
  BY <1>2 DEF UvH
<1>4. Neighbour(j) = IF j + 1 < h THEN q ELSE p
  BY <1>1, <1>3 DEF Neighbour
<1>5. ColourOf(j) = <<j, j \div 2, Neighbour(j)>>
  BY DEF Fancies, ColourOf
<1> QED BY <1>1, <1>4, <1>5 DEF Sampled

(* Rows that a pair of chroma rows is for.                                   *)
LEMMA OneRow ==
  ASSUME NEW j \in Nat, NEW r, r = Colour(ColourOf(j))
  PROVE  AreRows(<<r>>, j, 1)
<1>1. Len(<<r>>) = 1
  OBVIOUS
<1>2. ASSUME NEW x \in 1..1, NEW i \in Nat, i = j + x - 1 PROVE <<r>>[x] = Colour(ColourOf(i))
  <2>1. x = 1 /\ i = j
    BY <1>2
  <2> QED BY <2>1
<1> QED BY <1>1, <1>2 DEF AreRows

(* A pair of rows.                                                           *)
LEMMA TwoRows ==
  ASSUME NEW j \in Nat, NEW k \in Nat, k = j + 1, NEW r, r = Colour(ColourOf(j)),
         NEW s, s = Colour(ColourOf(k))
  PROVE  AreRows(<<r, s>>, j, 2)
<1>1. Len(<<r, s>>) = 2
  OBVIOUS
<1>2. ASSUME NEW x \in 1..2, NEW i \in Nat, i = j + x - 1 PROVE <<r, s>>[x] = Colour(ColourOf(i))
  <2>1. CASE x = 1
    BY <1>2, <2>1
  <2>2. CASE x = 2
    <3>1. i = k
      BY <1>2, <2>2
    <3> QED BY <2>2, <3>1
  <2> QED BY <2>1, <2>2
<1> QED BY <1>1, <1>2 DEF AreRows

(* The rows from l on, up to row j.                                          *)
DrawnTo(o, l, j) == Draw(o, l, j + 1 - l)

FancyStart(io, p, o) ==
  IF io.mb_y = 0 THEN Written(o, 0, <<Sampled(0, io.mb_y \div 2, io.mb_y \div 2)>>)
  ELSE Written(o, io.mb_y - 1, <<Sampled(p.tmp_y, p.tmp_uv, io.mb_y \div 2),
                                 Sampled(io.mb_y, io.mb_y \div 2, p.tmp_uv)>>)

Held(p, n, e) == n > 0 => p.tmp_y = n - 1 /\ p.tmp_uv = e - 1

(* EmitFancyRGB begins with the row that it held back, if there is one.      *)
LEMMA FancyStarts ==
  ASSUME NEW h, Fancies(h), NEW io, NEW n \in Nat, NEW e \in Nat, n = 2 * e, n < h, io.mb_y = n,
         NEW p, Held(p, n, e), NEW o, IsRows(o), NEW l \in Nat, l = IF n = 0 THEN 0 ELSE n - 1
  PROVE  FancyStart(io, p, o) = DrawnTo(o, l, n)
<1>1. io.mb_y \div 2 = e
  OBVIOUS
<1>2. CASE n = 0
  <2>1. e = 0 /\ l = 0 /\ n + 1 - l = 1
    BY <1>2
  <2>2. PICK r : r = Sampled(0, 0, 0)
    OBVIOUS
  <2>3. r = Colour(ColourOf(0))
    BY <1>2, <2>1, <2>2, FancyEven
  <2>4. AreRows(<<r>>, 0, 1)
    BY <2>3, OneRow
  <2>5. Written(o, 0, <<r>>) = Draw(o, 0, 1)
    BY <2>4, DrawnRows
  <2>6. FancyStart(io, p, o) = Written(o, 0, <<r>>)
    BY <1>1, <1>2, <2>1, <2>2 DEF FancyStart
  <2> QED BY <2>1, <2>5, <2>6 DEF DrawnTo
<1>3. CASE n # 0
  <2>1. PICK f \in Nat : f = e - 1
    BY <1>3
  <2>0. h \in Nat
    BY DEF Fancies
  <2>2. l = n - 1 /\ n + 1 - l = 2 /\ l + 1 = n /\ l < h /\ l + 1 < h /\ l + 1 = 2 * e
    BY <1>3, <2>0, <2>1
  <2>3. p.tmp_y = l /\ p.tmp_uv = f
    BY <1>3, <2>1, <2>2 DEF Held
  <2>4. PICK r, s : r = Sampled(l, f, e) /\ s = Sampled(n, e, f)
    OBVIOUS
  <2>5. r = Colour(ColourOf(l))
    BY <2>1, <2>2, <2>4, FancyOdd
  <2>6. s = Colour(ColourOf(n))
    BY <1>3, <2>1, <2>4, FancyEven
  <2>7. AreRows(<<r, s>>, l, 2)
    BY <2>2, <2>5, <2>6, TwoRows
  <2>8. Written(o, l, <<r, s>>) = Draw(o, l, 2)
    BY <2>7, DrawnRows
  <2>9. FancyStart(io, p, o) = Written(o, l, <<r, s>>)
    BY <1>1, <1>3, <2>2, <2>3, <2>4 DEF FancyStart
  <2> QED BY <2>2, <2>8, <2>9 DEF DrawnTo
<1> QED BY <1>2, <1>3

(* A pair of rows follows that lies between two rows of chroma.              *)
LEMMA FancyPair ==
  ASSUME NEW h, Fancies(h), NEW o, IsRows(o), NEW l \in Nat,
         NEW j \in Nat, NEW q \in Nat \ {0}, j + 1 = 2 * q, j + 1 < h, l <= j,
         NEW i \in Nat, i = j - 1, NEW k \in Nat, k = j + 1, NEW f \in Nat, f = q - 1
  PROVE  Written(DrawnTo(o, l, i), j, Upsampled(j, f, q)) = DrawnTo(o, l, k)
<1>1. PICK r, s : r = Sampled(j, f, q) /\ s = Sampled(k, q, f)
  OBVIOUS
<1>0. h \in Nat /\ j < h /\ k < h /\ k = 2 * q
  <2>1. h \in Nat
    BY DEF Fancies
  <2> QED BY <2>1
<1>2. r = Colour(ColourOf(j))
  <2>1. Colour(ColourOf(j)) = Sampled(j, f, IF j + 1 < h THEN q ELSE f)
    BY <1>0, FancyOdd
  <2> QED BY <1>1, <2>1
<1>3. s = Colour(ColourOf(k))
  <2>1. Colour(ColourOf(k)) = Sampled(k, q, IF q = 0 THEN 0 ELSE q - 1)
    BY <1>0, FancyEven
  <2> QED BY <1>1, <2>1
<1>4. AreRows(<<r, s>>, j, 2)
  BY <1>2, <1>3, TwoRows
<1>5. Upsampled(j, f, q) = <<r, s>>
  BY <1>1 DEF Upsampled
<1>6. PICK c \in Nat : c = j - l
  OBVIOUS
<1>7. i + 1 - l = c /\ k + 1 - l = c + 2 /\ j = l + c
  BY <1>6
<1>8. IsRows(Draw(o, l, c))
  BY DrawIsRows
<1>9. Written(Draw(o, l, c), j, <<r, s>>) = Draw(Draw(o, l, c), j, 2)
  BY <1>4, <1>8, DrawnRows
<1>10. DrawTwice(o, l, c, j, 2)
  BY <1>7, DrawMore
<1> QED BY <1>5, <1>7, <1>9, <1>10 DEF DrawTwice, DrawnTo

(* The last row of a picture of even height has chroma on one side only.     *)
LEMMA FancyEnd ==
  ASSUME NEW h, Fancies(h), NEW o, IsRows(o), NEW l \in Nat,
         NEW j \in Nat, NEW q \in Nat \ {0}, j + 1 = 2 * q, j + 1 = h, l <= j,
         NEW i \in Nat, i = j - 1, NEW f \in Nat, f = q - 1
  PROVE  Written(DrawnTo(o, l, i), j, <<Sampled(j, f, f)>>) = DrawnTo(o, l, j)
<1>1. PICK r : r = Sampled(j, f, f)
  OBVIOUS
<1>2. r = Colour(ColourOf(j))
  <2>1. j < h /\ ~(j + 1 < h)
    BY DEF Fancies
  <2> QED BY <1>1, <2>1, FancyOdd
<1>4. AreRows(<<r>>, j, 1)
  BY <1>2, OneRow
<1>6. PICK c \in Nat : c = j - l
  OBVIOUS
<1>7. i + 1 - l = c /\ j + 1 - l = c + 1 /\ j = l + c
  BY <1>6
<1>8. IsRows(Draw(o, l, c))
  BY DrawIsRows
<1>9. Written(Draw(o, l, c), j, <<r>>) = Draw(Draw(o, l, c), j, 1)
  BY <1>4, <1>8, DrawnRows
<1>10. DrawTwice(o, l, c, j, 1)
  BY <1>7, DrawMore
<1> QED BY <1>1, <1>7, <1>9, <1>10 DEF DrawTwice, DrawnTo

(* A piece that is upsampled: the rows that it finishes, and what it holds   *)
(* back for the next one.                                                    *)
FancyOut(x, io, p, o, h, n, b, l) ==
  \E i \in Nat, c \in Nat :
    /\ x = Emitted(IF n + b < h THEN WithTmp(p, n + b - 1, c) ELSE p, Draw(o, l, i), i)
    /\ l + i = IF n + b < h THEN n + b - 1 ELSE h
    /\ n + b < h => 2 * (c + 1) = n + b
    /\ i = FancyLines(io)

(* EmitFancyRGB: a piece finishes its rows but the last one, and the one     *)
(* that the piece before held back; the samples that are kept are those of   *)
(* the row held back.                                                        *)
LEMMA EmitFancy ==
  ASSUME NEW h, Fancies(h), NEW io, NEW n \in Nat, NEW e \in Nat, n = 2 * e,
         NEW b \in Nat \ {0}, n + b <= h, n + b < h => b % 2 = 0, io.mb_y = n, io.mb_h = b,
         pic.crop_top \in Nat, pic.crop_bottom \in Nat,
         NEW p, Held(p, n, e), NEW o, IsRows(o), NEW l \in Nat, l = IF n = 0 THEN 0 ELSE n - 1
  PROVE  FancyOut(EmitFancyRGB(io, p, o), io, p, o, h, n, b, l)
<1> DEFINE pairs == (io.mb_h - 1) \div 2
           s == FancyStart(io, p, o)
           step(k, t) == Written(t, io.mb_y + 2 * k - 1,
                                 Upsampled(io.mb_y + 2 * k - 1, (io.mb_y \div 2) + k - 1,
                                           (io.mb_y \div 2) + k))
           Is(f) == f = [k \in 0..pairs |-> IF k = 0 THEN s ELSE step(k, f[k - 1])]
           f == CHOOSE f : Is(f)
           S == [k \in 0..pairs |-> {DrawnTo(o, l, n + 2 * k)}]
           F == [k \in 1..pairs |-> [t \in S[k - 1] |-> step(k, t)]]
           last_y == (io.mb_y + 2 * pairs) + 1
           last_uv == (io.mb_y \div 2) + pairs
<1>h. h \in Nat /\ h = MbH
  BY DEF Fancies
<1>1. EmitFancyRGB(io, p, o)
        = IF pic.crop_top + (io.mb_y + io.mb_h) < pic.crop_bottom
          THEN Emitted(WithTmp(p, last_y, last_uv), f[pairs], FancyLines(io))
          ELSE Emitted(p, IF (io.mb_y + io.mb_h) % 2 = 1 THEN f[pairs]
                          ELSE Written(f[pairs], last_y, <<Sampled(last_y, last_uv, last_uv)>>),
                       FancyLines(io))
  BY Zenon DEF EmitFancyRGB, FancyStart, WithTmp
<1>2. PICK q \in Nat : q = pairs
  OBVIOUS
<1>3. io.mb_y \div 2 = e
  OBVIOUS
<1>4. b = 2 * q + 1 \/ b = 2 * q + 2
  BY <1>2
<1>5. n + 2 * q < h
  BY <1>4, <1>h
<1>6. last_y = n + 2 * q + 1 /\ last_uv = e + q
  BY <1>2, <1>3
<1> HIDE DEF pairs, last_y, last_uv
<1>7. s \in S[0]
  <2>1. n < h
    BY <1>h
  <2>2. s = DrawnTo(o, l, n)
    BY <2>1, FancyStarts
  <2>3. n + 2 * 0 = n /\ 0 \in 0..pairs
    BY <1>2
  <2> HIDE DEF s
  <2> QED BY <2>2, <2>3
<1>8. ASSUME NEW k \in 1..pairs, NEW t \in S[k - 1] PROVE step(k, t) \in S[k]
  <2>0. k \in Nat \ {0} /\ k <= q /\ k - 1 \in 0..pairs /\ k \in 0..pairs
    BY <1>2
  <2>1. t = DrawnTo(o, l, n + 2 * (k - 1))
    BY <2>0
  <2>2. PICK j \in Nat : j = n + 2 * k - 1
    BY <2>0
  <2>3. PICK c \in Nat \ {0} : c = e + k
    BY <2>0
  <2>4. PICK i \in Nat, j1 \in Nat, c1 \in Nat : i = j - 1 /\ j1 = j + 1 /\ c1 = c - 1
    BY <2>0, <2>2, <2>3
  <2>5. j + 1 = 2 * c /\ j + 1 < h /\ l <= j
    BY <1>5, <1>h, <2>0, <2>2, <2>3
  <2>6. Written(DrawnTo(o, l, i), j, Upsampled(j, c1, c)) = DrawnTo(o, l, j1)
    BY <2>4, <2>5, FancyPair
  <2>7. /\ n + 2 * (k - 1) = i /\ n + 2 * k = j1
        /\ io.mb_y + 2 * k - 1 = j /\ (io.mb_y \div 2) + k - 1 = c1 /\ (io.mb_y \div 2) + k = c
    BY <1>3, <2>0, <2>2, <2>3, <2>4
  <2>8. step(k, t) = DrawnTo(o, l, n + 2 * k)
    <3>1. t = DrawnTo(o, l, i)
      BY <2>1, <2>7
    <3>2. step(k, t) = Written(t, j, Upsampled(j, c1, c))
      BY <2>7
    <3> HIDE DEF step
    <3> QED BY <2>6, <2>7, <3>1, <3>2
  <2> HIDE DEF step
  <2> QED BY <2>0, <2>8
<1>9. f[q] = DrawnTo(o, l, n + 2 * q)
  <2> HIDE DEF step, S, s
  <2>1. \A k \in 1..pairs : \A t \in S[k - 1] : F[k][t] \in S[k]
    BY <1>8
  <2>2. PICK g : Loop(s, F, pairs, g) /\ \A k \in 0..pairs : g[k] \in S[k]
    <3> HIDE DEF F
    <3> QED BY <1>2, <1>7, <2>1, LoopExists
  <2>3. Is(g)
    <3>1. ASSUME NEW k \in 0..pairs PROVE g[k] = IF k = 0 THEN s ELSE step(k, g[k - 1])
      <4>1. CASE k = 0
        BY <2>2, <4>1 DEF Loop
      <4>2. CASE k # 0
        <5>1. k \in 1..pairs /\ k - 1 \in 0..pairs
          BY <1>2, <4>2
        <5> HIDE DEF F
        <5>2. g[k] = F[k][g[k - 1]] /\ g[k - 1] \in S[k - 1]
          BY <2>2, <4>2, <5>1 DEF Loop
        <5> QED BY <4>2, <5>1, <5>2 DEF F
      <4> QED BY <4>1, <4>2
    <3> HIDE DEF F
    <3> QED BY <2>2, <3>1 DEF Loop
  <2>4. Is(f)
    BY <2>3
  <2> HIDE DEF f, F
  <2>5. f[0] \in S[0]
    BY <1>2, <1>7, <2>4
  <2>6. ASSUME NEW k \in 1..pairs, f[k - 1] \in S[k - 1] PROVE f[k] \in S[k]
    <3>1. k \in 0..pairs /\ k # 0
      BY <1>2
    <3>2. f[k] = step(k, f[k - 1])
      BY <2>4, <3>1
    <3> QED BY <1>8, <2>6, <3>2
  <2>7. \A k \in 0..pairs : f[k] \in S[k]
    BY <1>2, <2>5, <2>6, LoopStays
  <2>8. f[q] \in S[q] /\ q \in 0..pairs
    BY <1>2, <2>7
  <2> QED BY <2>8 DEF S
<1> HIDE DEF f
<1>10. f[pairs] = DrawnTo(o, l, n + 2 * q)
  BY <1>2, <1>9
<1>11. pic.crop_top + (io.mb_y + io.mb_h) < pic.crop_bottom <=> n + b < h
  BY <1>h DEF MbH
<1>12. FancyLines(io) = b + (IF n = 0 THEN 0 ELSE 1) - (IF n + b < h THEN 1 ELSE 0)
  <2>1. pic.crop_top + io.mb_y + io.mb_h < pic.crop_bottom <=> n + b < h
    BY <1>11
  <2> QED BY <2>1 DEF FancyLines
<1>13. CASE n + b < h
  <2>1. b = 2 * q + 2
    BY <1>4, <1>13
  <2>0. l <= n /\ b >= 2
    BY <2>1
  <2>2. PICK i \in Nat : i = n + b - 1 - l
    <3>1. n + b - 1 - l \in Nat
      BY <2>0
    <3> QED BY <3>1
  <2>3. DrawnTo(o, l, n + 2 * q) = Draw(o, l, i)
    <3>1. n + 2 * q + 1 - l = i
      BY <2>1, <2>2
    <3> QED BY <3>1 DEF DrawnTo
  <2>4. i = FancyLines(io)
    BY <1>12, <1>13, <2>2
  <2>5. PICK c \in Nat : c = e + q
    OBVIOUS
  <2>6. 2 * (c + 1) = n + b /\ last_y = n + b - 1 /\ last_uv = c
    BY <1>6, <2>1, <2>5
  <2>7. EmitFancyRGB(io, p, o) = Emitted(WithTmp(p, n + b - 1, c), Draw(o, l, i), i)
    BY <1>1, <1>10, <1>11, <1>13, <2>3, <2>4, <2>6
  <2>8. l + i = n + b - 1
    BY <2>2
  <2> QED BY <1>13, <2>4, <2>6, <2>7, <2>8 DEF FancyOut
<1>14. CASE ~(n + b < h)
  <2>1. n + b = h
    BY <1>14, <1>h
  <2>2. PICK i \in Nat : i = h - l
    BY <2>1
  <2>3. PICK w : w = IF (io.mb_y + io.mb_h) % 2 = 1 THEN f[pairs]
                     ELSE Written(f[pairs], last_y, <<Sampled(last_y, last_uv, last_uv)>>)
    OBVIOUS
  <2>4. w = Draw(o, l, i)
    <3>1. CASE b = 2 * q + 1
      <4>1. (io.mb_y + io.mb_h) % 2 = 1
        BY <3>1
      <4>2. n + 2 * q + 1 - l = i
        BY <2>1, <2>2, <3>1
      <4> QED BY <1>10, <2>3, <4>1, <4>2 DEF DrawnTo
    <3>2. CASE b = 2 * q + 2
      <4>1. (io.mb_y + io.mb_h) % 2 # 1
        BY <3>2
      <4>2. PICK j \in Nat, c \in Nat \ {0}, k \in Nat, a \in Nat :
               j = h - 1 /\ c = e + q + 1 /\ k = j - 1 /\ a = e + q
        BY <2>1, <3>2
      <4>3. j + 1 = 2 * c /\ j + 1 = h /\ l <= j /\ a = c - 1
        BY <2>1, <3>2, <4>2
      <4>6. k = j - 1 /\ Fancies(h) /\ IsRows(o)
        BY <4>2
      <4>4. Written(DrawnTo(o, l, k), j, <<Sampled(j, a, a)>>) = DrawnTo(o, l, j)
        BY <4>3, <4>6, FancyEnd
      <4>5. k = n + 2 * q /\ last_y = j /\ last_uv = a /\ j + 1 - l = i
        BY <1>6, <2>1, <2>2, <3>2, <4>2
      <4> QED BY <1>10, <2>3, <4>1, <4>4, <4>5 DEF DrawnTo
    <3> QED BY <1>4, <3>1, <3>2
  <2>5. i = FancyLines(io)
    BY <1>12, <1>14, <2>1, <2>2
  <2>6. EmitFancyRGB(io, p, o) = Emitted(p, Draw(o, l, i), i)
    BY <1>1, <1>11, <1>14, <2>3, <2>4, <2>5
  <2>7. l + i = h /\ 0 \in Nat
    BY <1>h, <2>2
  <2> QED BY <1>14, <2>5, <2>6, <2>7 DEF FancyOut
<1> QED BY <1>13, <1>14

WithOutOnly(e, o, b) == [e EXCEPT !.out = o, !.asserts = @ /\ b]

EmittedWith(e, p, n) == \E o : e = Emitted(p, o, n)

(* What a piece leaves, with another output.                                 *)
LEMMA EmittedOutUpdate ==
  ASSUME NEW n, NEW e, NEW p, EmittedWith(e, p, n), NEW o1, NEW z, z = TRUE
  PROVE  WithOutOnly(e, o1, z) = Emitted(p, o1, n)
<1>0. PICK b, o : b = TRUE /\ e = Emitted(p, o, n)
  BY DEF EmittedWith
<1>1. e = [params |-> p, out |-> o, num_lines_out |-> n, asserts |-> b]
  BY <1>0 DEF Emitted
<1>2. PICK e2 : e2 = [e EXCEPT !.out = o1]
  OBVIOUS
<1>3. PICK e3 : e3 = [e2 EXCEPT !.asserts = @ /\ z]
  OBVIOUS
<1>4. WithOutOnly(e, o1, z) = e3
  BY <1>2, <1>3, Zenon DEF WithOutOnly
<1>5. e2 = [params |-> p, out |-> o1, num_lines_out |-> n, asserts |-> b]
  BY <1>1, <1>2
<1>6. e3 = [params |-> p, out |-> o1, num_lines_out |-> n, asserts |-> TRUE]
  BY <1>0, <1>3, <1>5
<1> QED BY <1>4, <1>6 DEF Emitted

(* Where the rows of a piece that is not scaled begin, and how many it ends: *)
(* the upsampler is a row behind.                                            *)
PlainRows(io, n, l, i) ==
  IF FancyUpsampling THEN l = (IF n = 0 THEN 0 ELSE n - 1) /\ i = FancyLines(io)
  ELSE l = n /\ i = io.mb_h

(* GetAlphaSourceRow goes back by the rows that the upsampler goes back.     *)
LEMMA AlphaSource ==
  ASSUME NEW io, NEW n \in Nat, NEW b \in Nat \ {0}, io.mb_y = n, io.mb_h = b, n + b <= MbH,
         MbH \in Nat, pic.crop_top \in Nat, pic.crop_bottom \in Nat, io.a = pic.crop_top + n,
         NEW l, NEW i, PlainRows(io, n, l, i)
  PROVE  /\ GetAlphaSourceRow(io).start = l /\ GetAlphaSourceRow(io).num_rows = i
         /\ GetAlphaSourceRow(io).a = pic.crop_top + l
         /\ l \in Nat /\ i \in Nat
<1>1. CASE FancyUpsampling
  <2>1. l = (IF n = 0 THEN 0 ELSE n - 1) /\ i = FancyLines(io)
    BY <1>1 DEF PlainRows
  <2>2. pic.crop_top + (n + b) <= pic.crop_bottom /\ MbH = pic.crop_bottom - pic.crop_top
    BY DEF MbH
  <2>3. i = b + (IF n = 0 THEN 0 ELSE 1) - (IF pic.crop_top + n + b < pic.crop_bottom THEN 1 ELSE 0)
    BY <2>1 DEF FancyLines
  <2>4. GetAlphaSourceRow(io)
          = [start |-> IF n > 0 THEN n - 1 ELSE n,
             a |-> IF n > 0 THEN io.a - 1 ELSE io.a,
             num_rows |-> IF pic.crop_top + n + b = pic.crop_bottom
                          THEN MbH - (IF n > 0 THEN n - 1 ELSE n)
                          ELSE IF n > 0 THEN b ELSE b - 1]
    BY <1>1, Zenon DEF GetAlphaSourceRow
  <2>5. GetAlphaSourceRow(io).start = l
    BY <2>1, <2>4
  <2>6. GetAlphaSourceRow(io).a = pic.crop_top + l
    BY <2>1, <2>4
  <2>7. GetAlphaSourceRow(io).num_rows = i
    BY <2>2, <2>3, <2>4
  <2>8. l \in Nat /\ i \in Nat
    BY <2>1, <2>2, <2>3
  <2> QED BY <2>5, <2>6, <2>7, <2>8
<1>2. CASE ~FancyUpsampling
  <2>1. l = n /\ i = b
    BY <1>2 DEF PlainRows
  <2>2. GetAlphaSourceRow(io) = [start |-> n, a |-> io.a, num_rows |-> b]
    BY <1>2, Zenon DEF GetAlphaSourceRow
  <2> QED BY <2>1, <2>2
<1> QED BY <1>1, <1>2

EmittedAs(e, p, o, n) == e = Emitted(p, o, n)

(* EmitAlphaRGB: GetAlphaSourceRow is a row behind as the upsampler is, so   *)
(* the rows of alpha are those of the colours, and its assert holds.         *)
LEMMA EmitAlphaPlain ==
  ASSUME HasAlpha, IsAlphaMode, ~IsScaled,
         NEW io, NEW n \in Nat, NEW b \in Nat \ {0}, io.mb_y = n, io.mb_h = b, n + b <= MbH,
         MbH \in Nat, pic.crop_top \in Nat, pic.crop_bottom \in Nat, io.a = pic.crop_top + n,
         NEW l, NEW i, PlainRows(io, n, l, i),
         NEW o, IsRows(o), NEW p, NEW e, EmittedAs(e, p, Draw(o, l, i), i)
  PROVE  EmitAlphaRGB(io, e) = Emitted(p, Finish(o, l, i), i)
<1>1. l \in Nat /\ i \in Nat
  BY AlphaSource
<1>2. PICK s : s = GetAlphaSourceRow(io)
  OBVIOUS
<1>3. s.start = l /\ s.num_rows = i /\ s.a = pic.crop_top + l
  BY <1>2, AlphaSource
<1>4. io.a # NoAlpha
  BY DEF NoAlpha
<1>5. PICK as : as = [x \in 1..s.num_rows |-> s.a + x - 1]
  OBVIOUS
<1>6. EmitAlphaRGB(io, e) = WithOutOnly(e, WithAlpha(e.out, s.start, as), s.num_rows = e.num_lines_out)
  BY <1>2, <1>4, <1>5, Zenon DEF EmitAlphaRGB, WithOutOnly
<1>7. e.out = Draw(o, l, i) /\ e.num_lines_out = i
  BY DEF Emitted, EmittedAs
<1>8. AreAlphas(as, l, i)
  <2>1. as = [x \in 1..i |-> (pic.crop_top + l) + x - 1]
    BY <1>3, <1>5
  <2>2. ASSUME NEW x \in 1..i, NEW j \in Nat, j = l + x - 1 PROVE as[x] = AlphaOf(j)
    <3>1. as[x] = pic.crop_top + j
      BY <1>1, <2>1, <2>2
    <3> QED BY <3>1 DEF AlphaOf
  <2>3. Len(as) = i
    BY <1>1, <2>1
  <2> QED BY <2>2, <2>3 DEF AreAlphas
<1>9. WithAlpha(e.out, s.start, as) = Finish(o, l, i)
  <2>1. WithAlpha(Draw(o, l, i), l, as) = Finish(o, l, i)
    BY <1>1, <1>8, FinishedRows
  <2> QED BY <1>3, <1>7, <2>1
<1>10. PICK z : z = (s.num_rows = e.num_lines_out) /\ z = TRUE
  BY <1>3, <1>7
<1>11. EmittedWith(e, p, i)
  BY DEF EmittedWith, EmittedAs
<1>12. PICK o1 : o1 = Finish(o, l, i)
  OBVIOUS
<1>13. z = TRUE
  BY <1>10
<1>14. WithOutOnly(e, o1, z) = Emitted(p, o1, i)
  BY <1>11, <1>13, EmittedOutUpdate
<1>15. EmitAlphaRGB(io, e) = WithOutOnly(e, o1, z)
  BY <1>6, <1>9, <1>10, <1>12, Zenon
<1> QED BY <1>12, <1>14, <1>15

-----------------------------------------------------------------------------
\* What a piece leaves: CustomPut, and its counterpart for lossless rows.
Progress(e, b) == [e EXCEPT !.params.last_y = @ + e.num_lines_out, !.asserts = @ /\ b]
Onward(e) == [e EXCEPT !.params.last_y = @ + e.num_lines_out]

(* WebPDecParams with another last_y.                                        *)
LEMMA LastYUpdate ==
  ASSUME NEW l, NEW ty, NEW tu, NEW ok, NEW y, NEW u, NEW a, NEW p, NEW x,
         p = Params(l, ty, tu, ok, y, u, a)
  PROVE  WithLastY(p, x) = Params(x, ty, tu, ok, y, u, a)
<1>1. p = [last_y |-> l, tmp_y |-> ty, tmp_uv |-> tu, asserts |-> ok,
           scaler_y |-> y, scaler_u |-> u, scaler_a |-> a]
  BY DEF Params
<1>2. PICK q : q = [p EXCEPT !.last_y = x] /\ WithLastY(p, x) = [p EXCEPT !.last_y = x]
  BY DEF WithLastY
<1> QED BY <1>1, <1>2 DEF Params

(* WebPDecParams with other asserts.                                         *)
LEMMA AssertsUpdate ==
  ASSUME NEW l, NEW ty, NEW tu, NEW ok, NEW y, NEW u, NEW a, NEW p, NEW x,
         p = Params(l, ty, tu, ok, y, u, a)
  PROVE  WithAsserts(p, x) = Params(l, ty, tu, x, y, u, a)
<1>1. p = [last_y |-> l, tmp_y |-> ty, tmp_uv |-> tu, asserts |-> ok,
           scaler_y |-> y, scaler_u |-> u, scaler_a |-> a]
  BY DEF Params
<1>2. PICK q : q = [p EXCEPT !.asserts = x] /\ WithAsserts(p, x) = [p EXCEPT !.asserts = x]
  BY DEF WithAsserts
<1> QED BY <1>1, <1>2 DEF Params

(* WebPDecParams with the samples of another row held back.                  *)
LEMMA TmpUpdate ==
  ASSUME NEW l, NEW ty, NEW tu, NEW ok, NEW y, NEW u, NEW a, NEW p, NEW x, NEW z,
         p = Params(l, ty, tu, ok, y, u, a)
  PROVE  WithTmp(p, x, z) = Params(l, x, z, ok, y, u, a)
  BY ParamsUpdates

(* CustomPut, and its counterpart for lossless rows, count the rows that     *)
(* came out.                                                                 *)
LEMMA ProgressIs ==
  ASSUME NEW l, NEW ty, NEW tu, NEW ok, NEW y, NEW u, NEW a, NEW o, NEW i, NEW p,
         p = Params(l, ty, tu, ok, y, u, a),
         NEW e, EmittedAs(e, p, o, i), NEW z, z = TRUE
  PROVE  /\ EmittedAs(Progress(e, z), Params(l + i, ty, tu, ok, y, u, a), o, i)
         /\ EmittedAs(Onward(e), Params(l + i, ty, tu, ok, y, u, a), o, i)
<1>0. PICK b : b = TRUE
  OBVIOUS
<1>1. e = [params |-> p, out |-> o, num_lines_out |-> i, asserts |-> b]
  BY <1>0 DEF Emitted, EmittedAs
<1>2. PICK q : q = WithLastY(p, l + i)
  OBVIOUS
<1>3. q = Params(l + i, ty, tu, ok, y, u, a)
  <2>1. PICK v : v = l + i
    OBVIOUS
  <2>2. WithLastY(p, v) = Params(v, ty, tu, ok, y, u, a)
    <3>1. p = Params(l, ty, tu, ok, y, u, a)
      OBVIOUS
    <3> QED BY <3>1, LastYUpdate
  <2> QED BY <1>2, <2>1, <2>2
<1>4. PICK e2 : e2 = [e EXCEPT !.params = q]
  OBVIOUS
<1>5. PICK e3 : e3 = [e2 EXCEPT !.asserts = @ /\ z]
  OBVIOUS
<1>6. e.params = p /\ e.num_lines_out = i /\ p.last_y = l
  BY <1>1, ParamsFields
<1>7. q = [e.params EXCEPT !.last_y = e.params.last_y + e.num_lines_out]
  BY <1>2, <1>6 DEF WithLastY
<1>8. Onward(e) = e2
  BY <1>4, <1>7 DEF Onward
<1>9. Progress(e, z) = e3
  BY <1>4, <1>5, <1>7 DEF Progress
<1>10. e2 = [params |-> q, out |-> o, num_lines_out |-> i, asserts |-> b]
  BY <1>1, <1>4
<1>11. e3 = [params |-> q, out |-> o, num_lines_out |-> i, asserts |-> TRUE]
  BY <1>0, <1>5, <1>10
<1> QED BY <1>0, <1>3, <1>8, <1>9, <1>10, <1>11 DEF Emitted, EmittedAs

(* The rows that come of the scaler are the rows that are asked for.         *)
LEMMA ColoursAreRows ==
  ASSUME IsLossy, IsScaled, NEW h, h = MbH, NEW u, u = UvH(MbH), NEW d, d = OutHeight,
         NEW k \in Nat, NEW n \in Nat
  PROVE  AreRows(ColoursFrom(h, u, d, k, n), k, n)
<1>1. PICK s : s = ColoursFrom(h, u, d, k, n)
  OBVIOUS
<1>2. s = [i \in 1..n |-> Colour(<<Shares(k + i - 1, h, d), Shares(k + i - 1, u, d)>>)]
  BY <1>1 DEF ColoursFrom
<1>3. Len(s) = n
  BY <1>2
<1>4. ASSUME NEW x \in 1..n, NEW j \in Nat, j = k + x - 1 PROVE s[x] = Colour(ColourOf(j))
  <2>1. s[x] = Colour(<<Shares(j, h, d), Shares(j, u, d)>>)
    BY <1>2, <1>4
  <2>2. ColourOf(j) = <<Shares(j, MbH, OutHeight), Shares(j, UvH(MbH), OutHeight)>>
    BY Zenon DEF ColourOf
  <2> QED BY <2>1, <2>2
<1> QED BY <1>1, <1>3, <1>4 DEF AreRows

(* The shares of a lossless picture are the rows asked for.                  *)
LEMMA LumaAreRows ==
  ASSUME ~IsLossy, IsScaled, NEW h, h = MbH, NEW d, d = OutHeight,
         NEW k \in Nat, NEW n \in Nat
  PROVE  AreRows(LumaFrom(h, d, k, n), k, n)
<1>1. PICK s : s = LumaFrom(h, d, k, n)
  OBVIOUS
<1>2. s = [i \in 1..n |-> Colour(<<Shares(k + i - 1, h, d)>>)]
  BY <1>1 DEF LumaFrom
<1>3. Len(s) = n
  BY <1>2
<1>4. ASSUME NEW x \in 1..n, NEW j \in Nat, j = k + x - 1 PROVE s[x] = Colour(ColourOf(j))
  <2>1. s[x] = Colour(<<Shares(j, h, d)>>)
    BY <1>2, <1>4
  <2>2. ColourOf(j) = <<Shares(j, MbH, OutHeight)>>
    BY Zenon DEF ColourOf
  <2> QED BY <2>1, <2>2
<1> QED BY <1>1, <1>3, <1>4 DEF AreRows

(* The shares of a plane of alpha are the alphas asked for.                  *)
LEMMA SharesAreAlphas ==
  ASSUME HasAlpha, IsAlphaMode, IsScaled, NEW h, h = MbH, NEW d, d = OutHeight,
         NEW k \in Nat, NEW n \in Nat
  PROVE  AreAlphas(SharesFrom(h, d, k, n), k, n)
<1>1. PICK s : s = SharesFrom(h, d, k, n)
  OBVIOUS
<1>2. s = [i \in 1..n |-> Shares(k + i - 1, h, d)]
  BY <1>1 DEF SharesFrom
<1>3. Len(s) = n
  BY <1>2
<1>4. ASSUME NEW x \in 1..n, NEW j \in Nat, j = k + x - 1 PROVE s[x] = AlphaOf(j)
  <2>1. s[x] = Shares(j, h, d)
    BY <1>2, <1>4
  <2>2. AlphaOf(j) = Shares(j, MbH, OutHeight)
    BY Zenon DEF AlphaOf
  <2> QED BY <2>1, <2>2
<1> QED BY <1>1, <1>3, <1>4 DEF AreAlphas

(* EmitRows: a lossless piece that is not scaled is finished.                *)
LEMMA EmitPlain ==
  ASSUME ~IsLossy, ~IsScaled, NEW io, NEW n \in Nat, NEW b \in Nat, io.mb_y = n, io.mb_h = b,
         NEW o, IsRows(o), NEW p, p.last_y = n
  PROVE  EmittedAs(EmitRows(io, p, o), p, Finish(o, n, b), b)
<1>1. PICK s : s = [i \in 1..io.mb_h |-> Colour(<<io.mb_y + i - 1>>)]
  OBVIOUS
<1>2. EmitRows(io, p, o) = Emitted(p, Written(o, n, s), b)
  BY <1>1 DEF EmitRows
<1>3. AreRows(s, n, b)
  <2>1. Len(s) = b
    BY <1>1
  <2>2. ASSUME NEW x \in 1..b, NEW j \in Nat, j = n + x - 1 PROVE s[x] = Colour(ColourOf(j))
    <3>1. s[x] = Colour(<<j>>)
      BY <1>1, <2>2
    <3>2. ColourOf(j) = <<j>>
      BY Zenon DEF ColourOf
    <3> QED BY <3>1, <3>2
  <2> QED BY <2>1, <2>2 DEF AreRows
<1>4. Written(o, n, s) = Draw(o, n, b)
  BY <1>3, DrawnRows
<1>5. ~HasAlpha
  BY DEF HasAlpha
<1>6. Draw(o, n, b) = Finish(o, n, b)
  BY <1>5, DrawnIsFinished
<1> QED BY <1>2, <1>4, <1>6 DEF EmittedAs

Sized == /\ MbH \in Nat \ {0} /\ OutHeight \in Nat \ {0}
         /\ pic.crop_top \in Nat /\ pic.crop_bottom \in Nat

PieceOf(io, n, b) ==
  /\ io.mb_y = n /\ io.mb_h = b
  /\ io.a = IF HasAlpha THEN pic.crop_top + n ELSE NoAlpha

(* The scaler of the alpha is where the colours were when it was last        *)
(* needed.                                                                   *)
AlphaScalerAt(a, n, l) ==
  IF HasAlpha /\ IsAlphaMode
  THEN \E m \in 0..n : Fits(MbH, OutHeight, m, l) /\ a = ScalerAt(MbH, OutHeight, m, l)
  ELSE a = ScalerAt(MbH, OutHeight, 0, 0)

(* n rows of luma have come and c of chroma, l rows of the output are done.  *)
InStepAt(n, c, l) ==
  LET h == MbH
      u == UvH(MbH)
      d == OutHeight
  IN Fits(h, d, n, l) /\ Fits(u, d, c, l) /\ ~(Ready(h, d, n, l) /\ Ready(u, d, c, l))

ScalersAt(l, ty, tu, n, c, k, a) ==
  Params(l, ty, tu, TRUE, ScalerAt(MbH, OutHeight, n, k), ScalerAt(UvH(MbH), OutHeight, c, k), a)

ScaledPut(x, o, n, c, l) ==
  \E i, ty, tu, a :
    /\ i \in Nat
    /\ EmittedAs(x, ScalersAt(l, ty, tu, n, c, l + i, a), Finish(o, l, i), i)
    /\ InStepAt(n, c, l + i) /\ AlphaScalerAt(a, n, l + i)

(* Chroma has half the rows, rounded up.                                     *)
LEMMA ChromaHeight ==
  ASSUME NEW h \in Nat \ {0}
  PROVE  UvH(h) \in Nat \ {0} /\ h <= 2 * UvH(h) /\ 2 * UvH(h) <= h + 1
  BY DEF UvH

(* A scaled piece with alpha: the scaler of alpha follows the colours.       *)
LEMMA AlphaPut ==
  ASSUME Sized, IsScaled, HasAlpha, IsAlphaMode,
         NEW io, NEW n \in Nat, NEW b \in Nat \ {0}, NEW M \in Nat, M = n + b, M <= MbH,
         PieceOf(io, n, b), NEW o, IsRows(o), NEW l \in Nat, NEW i \in Nat, NEW k \in Nat, k = l + i,
         NEW h, h = MbH, NEW d, d = OutHeight,
         Fits(h, d, M, k), NEW m \in 0..M, Fits(h, d, m, l),
         NEW ty, NEW tu, NEW y, NEW u, NEW e,
         EmittedAs(e, Params(l, ty, tu, TRUE, y, u, ScalerAt(h, d, m, l)), Draw(o, l, i), i)
  PROVE  \E a : /\ EmittedAs(EmitAlpha(io, e), Params(l, ty, tu, TRUE, y, u, a), Finish(o, l, i), i)
                /\ AlphaScalerAt(a, M, k)
<1>0. h \in Nat \ {0} /\ d \in Nat \ {0}
  BY DEF Sized
<1>1. PICK ok : ok = TRUE
  OBVIOUS
<1>2. PICK w : w = Draw(o, l, i)
  OBVIOUS
<1>3. IsRows(w)
  BY <1>2, DrawIsRows
<1>4. e = Emitted(Params(l, ty, tu, ok, y, u, ScalerAt(h, d, m, l)), w, i)
  BY <1>1, <1>2 DEF EmittedAs
<1>5. io.mb_h \in Nat /\ io.a # NoAlpha
  BY DEF PieceOf, Sized, NoAlpha
<1>6. AlphaEnds(io, e, M, k)
  <2>1. PICK p : p = Params(l, ty, tu, ok, y, u, ScalerAt(h, d, m, l))
    OBVIOUS
  <2>2. p.last_y = l
    BY <2>1, ParamsFields
  <2>3. e.params = p /\ e.num_lines_out = i
    BY <1>4, <2>1 DEF Emitted
  <2> QED BY <2>2, <2>3 DEF AlphaEnds, PieceOf, Sized
<1>7. EmitAlpha(io, e) = EmitRescaledAlphaRGB(io, e)
  BY Zenon DEF EmitAlpha
<1>8. AlphaOut(EmitRescaledAlphaRGB(io, e), h, d, M, l, i, l, ty, tu, ok, y, u, w)
  BY <1>0, <1>3, <1>4, <1>5, <1>6, EmitAlphaScaled
<1>9. PICK m1 \in 0..M :
        /\ Fits(h, d, m1, k)
        /\ EmitAlpha(io, e) = Emitted(Params(l, ty, tu, ok, y, u, ScalerAt(h, d, m1, k)),
                                      WithAlpha(w, l, SharesFrom(h, d, l, i)), i)
  BY <1>7, <1>8 DEF AlphaOut
<1>10. WithAlpha(w, l, SharesFrom(h, d, l, i)) = Finish(o, l, i)
  <2>1. PICK as : as = SharesFrom(h, d, l, i) /\ AreAlphas(as, l, i)
    BY SharesAreAlphas
  <2> QED BY <1>2, <2>1, FinishedRows
<1>11. PICK a : a = ScalerAt(h, d, m1, k)
  OBVIOUS
<1>12. AlphaScalerAt(a, M, k)
  BY <1>9, <1>11 DEF AlphaScalerAt
<1>13. EmittedAs(EmitAlpha(io, e), Params(l, ty, tu, TRUE, y, u, a), Finish(o, l, i), i)
  BY <1>1, <1>9, <1>10, <1>11 DEF EmittedAs
<1> QED BY <1>12, <1>13

(* A piece without alpha is left as it is.                                   *)
LEMMA NoAlphaPut ==
  ASSUME NEW io, NEW n, NEW b, PieceOf(io, n, b), ~HasAlpha \/ ~IsAlphaMode, NEW e
  PROVE  EmitAlpha(io, e) = e
<1>1. CASE ~IsAlphaMode
  BY <1>1, Zenon DEF EmitAlpha
<1>2. CASE ~HasAlpha
  <2>1. io.a = NoAlpha
    BY <1>2 DEF PieceOf
  <2> QED BY <2>1, Zenon DEF EmitAlpha, EmitAlphaRGB, EmitRescaledAlphaRGB
<1> QED BY <1>1, <1>2

(* A scaled lossy piece leaves the scalers in step, and the rows that it     *)
(* finished.                                                                 *)
LEMMA PutScaled ==
  ASSUME Sized, IsLossy, IsScaled,
         NEW io, NEW n \in Nat, NEW e \in Nat, n = 2 * e, NEW b \in Nat \ {0}, n + b <= MbH,
         PieceOf(io, n, b), NEW o, IsRows(o), NEW l \in Nat,
         NEW ty, NEW tu, NEW a, NEW p, p = ScalersAt(l, ty, tu, n, e, l, a),
         InStepAt(n, e, l), AlphaScalerAt(a, n, l)
  PROVE  ScaledPut(EmitAlpha(io, Emit(io, p, o)), o, n + b, e + UvH(b), l)
<1>1. PICK h, u, d, ok : h = MbH /\ u = UvH(MbH) /\ d = OutHeight /\ ok = TRUE
  OBVIOUS
<1>2. /\ h \in Nat \ {0} /\ u \in Nat \ {0} /\ d \in Nat \ {0}
      /\ h <= 2 * u /\ 2 * u <= h + 1
  BY <1>1, ChromaHeight DEF Sized
<1>3. PICK w : w = UvH(b) /\ w \in Nat /\ 2 * w >= b /\ 2 * w <= b + 1
  BY ChromaHeight
<1>4. PieceIs(io, d, n, b, w)
  BY <1>1, <1>3 DEF PieceIs, PieceOf
<1>5. /\ Fits(h, d, n, l) /\ Fits(u, d, e, l) /\ ~(Ready(h, d, n, l) /\ Ready(u, d, e, l))
  BY <1>1 DEF InStepAt
<1>6. p = Params(l, ty, tu, ok, ScalerAt(h, d, n, l), ScalerAt(u, d, e, l), a)
  BY <1>1 DEF ScalersAt
<1>7. PICK x : x = Emit(io, p, o) /\ x = EmitRescaledRGB(io, p, o)
  BY Zenon DEF Emit
<1>8. ScaledOut(x, o, h, u, d, n, e, b, w, l, ty, tu, ok, a)
  <2>1. n + b <= h
    BY <1>1
  <2> QED BY <1>2, <1>3, <1>4, <1>5, <1>6, <1>7, <2>1, EmitScaled
<1>9. PICK i \in Nat :
        /\ Fits(h, d, n + b, l + i) /\ Fits(u, d, e + w, l + i)
        /\ ~(Ready(h, d, n + b, l + i) /\ Ready(u, d, e + w, l + i))
        /\ x = Emitted(Params(l, ty, tu, ok, ScalerAt(h, d, n + b, l + i),
                              ScalerAt(u, d, e + w, l + i), a),
                       Written(o, l, ColoursFrom(h, u, d, l, i)), i)
  BY <1>8 DEF ScaledOut
<1>10. PICK M \in Nat, k \in Nat, c \in Nat : M = n + b /\ k = l + i /\ c = e + w
  BY <1>3
<1>11. Written(o, l, ColoursFrom(h, u, d, l, i)) = Draw(o, l, i)
  BY <1>1, ColoursAreRows, DrawnRows
<1>12. PICK y, v : y = ScalerAt(h, d, M, k) /\ v = ScalerAt(u, d, c, k)
  OBVIOUS
<1>13. EmittedAs(x, Params(l, ty, tu, TRUE, y, v, a), Draw(o, l, i), i)
  BY <1>1, <1>9, <1>10, <1>11, <1>12 DEF EmittedAs
<1>14. \E a1 : /\ EmittedAs(EmitAlpha(io, x), Params(l, ty, tu, TRUE, y, v, a1), Finish(o, l, i), i)
               /\ AlphaScalerAt(a1, M, k)
  <2>1. CASE HasAlpha /\ IsAlphaMode
    <3>1. PICK m \in 0..n : Fits(h, d, m, l) /\ a = ScalerAt(h, d, m, l)
      BY <1>1, <2>1 DEF AlphaScalerAt
    <3>2. m \in 0..M /\ M <= MbH /\ Fits(h, d, M, k)
      BY <1>9, <1>10
    <3>3. EmittedAs(x, Params(l, ty, tu, TRUE, y, v, ScalerAt(h, d, m, l)), Draw(o, l, i), i)
      BY <1>13, <3>1
    <3> QED BY <1>1, <1>10, <2>1, <3>1, <3>2, <3>3, AlphaPut
  <2>2. CASE ~(HasAlpha /\ IsAlphaMode)
    <3>1. EmitAlpha(io, x) = x
      BY <2>2, NoAlphaPut
    <3>2. Draw(o, l, i) = Finish(o, l, i)
      BY <2>2, DrawnIsFinished
    <3>3. AlphaScalerAt(a, M, k)
      BY <2>2 DEF AlphaScalerAt
    <3>4. EmittedAs(EmitAlpha(io, x), Params(l, ty, tu, TRUE, y, v, a), Finish(o, l, i), i)
      BY <1>13, <3>1, <3>2
    <3> QED BY <3>3, <3>4
  <2> QED BY <2>1, <2>2
<1>15. InStepAt(M, c, k)
  BY <1>1, <1>9, <1>10 DEF InStepAt
<1>16. PICK a1 : /\ EmittedAs(EmitAlpha(io, x), Params(l, ty, tu, TRUE, y, v, a1), Finish(o, l, i), i)
                 /\ AlphaScalerAt(a1, M, k)
  BY <1>14
<1>17. EmittedAs(EmitAlpha(io, x), ScalersAt(l, ty, tu, M, c, k, a1), Finish(o, l, i), i)
  BY <1>1, <1>12, <1>16 DEF ScalersAt
<1>18. ScaledPut(EmitAlpha(io, x), o, M, c, l)
  BY <1>10, <1>15, <1>16, <1>17 DEF ScaledPut
<1> QED BY <1>3, <1>7, <1>10, <1>18

PlainParams(l, ty, tu) ==
  Params(l, ty, tu, TRUE, ScalerAt(MbH, OutHeight, 0, 0),
         ScalerAt(UvH(MbH), OutHeight, 0, 0), ScalerAt(MbH, OutHeight, 0, 0))

(* The upsampler is a row behind until the last rows have come, and keeps    *)
(* the row of luma, and that of chroma, that it has not used.                *)
Behind(n) == IsLossy /\ FancyUpsampling /\ 0 < n /\ n < MbH
PlainRowAt(n) == IF Behind(n) THEN n - 1 ELSE n
HeldAt(n, ty, tu) == Behind(n) => ty = n - 1 /\ 2 * (tu + 1) = n /\ tu \in Nat

PlainPut(x, o, n, l) ==
  \E i, ty, tu :
    /\ i \in Nat
    /\ EmittedAs(x, PlainParams(l, ty, tu), Finish(o, l, i), i)
    /\ l + i = PlainRowAt(n) /\ HeldAt(n, ty, tu)

IsPlain(p, l, ty, tu) == p = PlainParams(l, ty, tu)

UnscaledOut(x, io, o, n, b, l) ==
  \E i, q, ty, tu :
    /\ i \in Nat
    /\ EmittedAs(x, q, Draw(o, l, i), i)
    /\ IsPlain(q, l, ty, tu) /\ PlainRows(io, n, l, i)
    /\ l + i = PlainRowAt(n + b) /\ HeldAt(n + b, ty, tu)

(* The colours of a lossy piece that is not scaled, upsampled or not.        *)
LEMMA EmitUnscaled ==
  ASSUME Sized, IsLossy, ~IsScaled,
         NEW io, NEW n \in Nat, NEW e \in Nat, n = 2 * e, NEW b \in Nat \ {0}, n + b <= MbH,
         n + b < MbH => b % 2 = 0, PieceOf(io, n, b), NEW o, IsRows(o),
         NEW ty, NEW tu, NEW l, l = PlainRowAt(n), HeldAt(n, ty, tu),
         NEW p, IsPlain(p, l, ty, tu)
  PROVE  UnscaledOut(Emit(io, p, o), io, o, n, b, l)
<1>1. PICK h : h = MbH /\ h \in Nat \ {0}
  BY DEF Sized
<1>2. io.mb_y = n /\ io.mb_h = b /\ n < h
  BY <1>1 DEF PieceOf
<1>3. CASE ~FancyUpsampling
  <2>1. Emit(io, p, o) = EmitSampledRGB(io, p, o)
    BY <1>3, Zenon DEF Emit
  <2>2. l = n /\ n + b = PlainRowAt(n + b)
    BY <1>3 DEF PlainRowAt, Behind
  <2>3. EmittedAs(Emit(io, p, o), p, Draw(o, l, b), b)
    BY <1>2, <1>3, <2>1, <2>2, EmitSampled DEF EmittedAs
  <2>4. HeldAt(n + b, ty, tu)
    BY <1>3 DEF HeldAt, Behind
  <2>5. PlainRows(io, n, l, b)
    BY <1>2, <1>3, <2>2 DEF PlainRows
  <2>6. b \in Nat /\ l + b = PlainRowAt(n + b)
    BY <2>2
  <2> QED BY <2>3, <2>4, <2>5, <2>6 DEF UnscaledOut
<1>4. CASE FancyUpsampling
  <2>1. Emit(io, p, o) = EmitFancyRGB(io, p, o)
    BY <1>4, Zenon DEF Emit
  <2>2. Fancies(h)
    BY <1>1, <1>4 DEF Fancies
  <2>3. l = (IF n = 0 THEN 0 ELSE n - 1) /\ l \in Nat
    BY <1>1, <1>2, <1>4 DEF PlainRowAt, Behind
  <2>4. p.tmp_y = ty /\ p.tmp_uv = tu
    <3>1. PICK ok, y, u, a : p = Params(l, ty, tu, ok, y, u, a)
      BY DEF PlainParams, IsPlain
    <3> QED BY <3>1, ParamsFields
  <2>5. Held(p, n, e)
    BY <1>1, <1>2, <1>4, <2>4 DEF Held, HeldAt, Behind
  <2>6. FancyOut(EmitFancyRGB(io, p, o), io, p, o, h, n, b, l)
    <3>1. n + b <= h /\ (n + b < h => b % 2 = 0) /\ pic.crop_top \in Nat /\ pic.crop_bottom \in Nat
      BY <1>1 DEF Sized
    <3> QED BY <1>2, <2>2, <2>3, <2>5, <3>1, EmitFancy
  <2>7. PICK i \in Nat, c \in Nat :
          /\ EmitFancyRGB(io, p, o) = Emitted(IF n + b < h THEN WithTmp(p, n + b - 1, c) ELSE p,
                                              Draw(o, l, i), i)
          /\ l + i = IF n + b < h THEN n + b - 1 ELSE h
          /\ n + b < h => 2 * (c + 1) = n + b
          /\ i = FancyLines(io)
    BY <2>6 DEF FancyOut
  <2>8. PlainRows(io, n, l, i)
    BY <1>4, <2>3, <2>7 DEF PlainRows
  <2>9. l + i = PlainRowAt(n + b)
    BY <1>1, <1>4, <2>7 DEF PlainRowAt, Behind
  <2>10. CASE n + b < h
    <3>1. PICK v, q : v = n + b - 1 /\ q = WithTmp(p, v, c)
      OBVIOUS
    <3>2. EmittedAs(Emit(io, p, o), q, Draw(o, l, i), i)
      BY <2>1, <2>7, <2>10, <3>1 DEF EmittedAs
    <3>3. IsPlain(q, l, v, c)
      <4>1. PICK ok, y, u, a : p = Params(l, ty, tu, ok, y, u, a) /\ ok = TRUE
                             /\ y = ScalerAt(MbH, OutHeight, 0, 0) /\ u = ScalerAt(UvH(MbH), OutHeight, 0, 0)
                             /\ a = ScalerAt(MbH, OutHeight, 0, 0)
        BY DEF PlainParams, IsPlain
      <4>3. p = Params(l, ty, tu, ok, y, u, a)
        BY <4>1
      <4>2. WithTmp(p, v, c) = Params(l, v, c, ok, y, u, a)
        BY <4>3, TmpUpdate
      <4> QED BY <3>1, <4>1, <4>2 DEF PlainParams, IsPlain
    <3>4. HeldAt(n + b, v, c)
      BY <2>7, <2>10, <3>1 DEF HeldAt
    <3> QED BY <2>8, <2>9, <3>2, <3>3, <3>4 DEF UnscaledOut
  <2>11. CASE ~(n + b < h)
    <3>1. EmittedAs(Emit(io, p, o), p, Draw(o, l, i), i)
      BY <2>1, <2>7, <2>11 DEF EmittedAs
    <3>2. HeldAt(n + b, ty, tu)
      BY <1>1, <2>11 DEF HeldAt, Behind
    <3> QED BY <2>8, <2>9, <3>1, <3>2 DEF UnscaledOut
  <2> QED BY <2>10, <2>11
<1> QED BY <1>3, <1>4

(* A lossy piece that is not scaled, with its alpha.                         *)
LEMMA PutUnscaled ==
  ASSUME Sized, IsLossy, ~IsScaled,
         NEW io, NEW n \in Nat, NEW e \in Nat, n = 2 * e, NEW b \in Nat \ {0}, n + b <= MbH,
         n + b < MbH => b % 2 = 0, PieceOf(io, n, b), NEW o, IsRows(o),
         NEW ty, NEW tu, NEW l, l = PlainRowAt(n), HeldAt(n, ty, tu),
         NEW p, IsPlain(p, l, ty, tu)
  PROVE  PlainPut(EmitAlpha(io, Emit(io, p, o)), o, n + b, l)
<1>1. PICK i, q, ty1, tu1 :
        /\ i \in Nat
        /\ EmittedAs(Emit(io, p, o), q, Draw(o, l, i), i)
        /\ IsPlain(q, l, ty1, tu1) /\ PlainRows(io, n, l, i)
        /\ l + i = PlainRowAt(n + b) /\ HeldAt(n + b, ty1, tu1)
  BY EmitUnscaled DEF UnscaledOut
<1>2. PICK x : x = Emit(io, p, o)
  OBVIOUS
<1>3. EmittedAs(EmitAlpha(io, x), q, Finish(o, l, i), i)
  <2>1. CASE HasAlpha /\ IsAlphaMode
    <3>1. EmitAlpha(io, x) = EmitAlphaRGB(io, x)
      BY <2>1, Zenon DEF EmitAlpha
    <3>2. /\ io.mb_y = n /\ io.mb_h = b /\ io.a = pic.crop_top + n
          /\ MbH \in Nat /\ pic.crop_top \in Nat /\ pic.crop_bottom \in Nat
      BY <2>1 DEF PieceOf, Sized
    <3>3. EmittedAs(x, q, Draw(o, l, i), i) /\ PlainRows(io, n, l, i)
      BY <1>1, <1>2
    <3>4. EmitAlphaRGB(io, x) = Emitted(q, Finish(o, l, i), i)
      BY <2>1, <3>2, <3>3, EmitAlphaPlain
    <3> QED BY <3>1, <3>4 DEF EmittedAs
  <2>2. CASE ~(HasAlpha /\ IsAlphaMode)
    <3>1. EmitAlpha(io, x) = x
      BY <2>2, NoAlphaPut
    <3>2. Draw(o, l, i) = Finish(o, l, i)
      BY <2>2, DrawnIsFinished
    <3> QED BY <1>1, <1>2, <3>1, <3>2
  <2> QED BY <2>1, <2>2
<1>4. q = PlainParams(l, ty1, tu1)
  BY <1>1 DEF IsPlain
<1> QED BY <1>1, <1>2, <1>3, <1>4 DEF PlainPut

LumaParams(l, ty, tu, n, k) ==
  Params(l, ty, tu, TRUE, ScalerAt(MbH, OutHeight, n, k),
         ScalerAt(UvH(MbH), OutHeight, 0, 0), ScalerAt(MbH, OutHeight, 0, 0))

LumaAt(n, k) == Fits(MbH, OutHeight, n, k) /\ ~Ready(MbH, OutHeight, n, k)

(* The parameters when n rows of the picture have come and k of the output   *)
(* are done.                                                                 *)
ParamsAt(p, n, k) ==
  /\ k \in Nat
  /\ ~IsScaled => \E ty, tu : /\ p = PlainParams(k, ty, tu)
                              /\ k = PlainRowAt(n) /\ HeldAt(n, ty, tu)
  /\ IsScaled /\ IsLossy =>
       \E ty, tu, a : /\ p = ScalersAt(k, ty, tu, n, UvH(n), k, a)
                      /\ InStepAt(n, UvH(n), k) /\ AlphaScalerAt(a, n, k)
  /\ IsScaled /\ ~IsLossy => \E ty, tu : p = LumaParams(k, ty, tu, n, k) /\ LumaAt(n, k)

PutOut(x, o, n, l) ==
  \E q, i, nl :
    i \in Nat /\ EmittedAs(x, q, Finish(o, l, i), nl) /\ ParamsAt(q, n, l + i)

(* What a piece leaves, put together.                                        *)
LEMMA PutOutIs ==
  ASSUME NEW x, NEW o, NEW n, NEW l, NEW q, NEW i \in Nat, NEW k \in Nat, NEW nl, NEW w,
         EmittedAs(x, q, w, nl), w = Finish(o, l, i), k = l + i, ParamsAt(q, n, k)
  PROVE  PutOut(x, o, n, l)
<1>1. EmittedAs(x, q, Finish(o, l, i), nl) /\ ParamsAt(q, n, l + i)
  OBVIOUS
<1> QED BY <1>1 DEF PutOut

(* The chroma of a piece follows the chroma before it: pieces begin at even  *)
(* rows.                                                                     *)
LEMMA ChromaSum ==
  ASSUME NEW n \in Nat, NEW e \in Nat, n = 2 * e, NEW b \in Nat
  PROVE  UvH(n) = e /\ e + UvH(b) = UvH(n + b)
  BY DEF UvH

(* CustomPut (src/dec/io_dec.c): a lossy piece leaves the parameters as the  *)
(* rows that have come want them, and finishes the rows in between.          *)
LEMMA CustomPutIs ==
  ASSUME Sized, IsLossy,
         NEW io, NEW n \in Nat, NEW e \in Nat, n = 2 * e, NEW b \in Nat \ {0}, n + b <= MbH,
         n + b < MbH => b % 2 = 0, PieceOf(io, n, b), IsRows(out),
         NEW l, ParamsAt(params, n, l)
  PROVE  PutOut(CustomPut(io), out, n + b, l)
<1>1. PICK x, p, o : x = EmitAlpha(io, Emit(io, p, o)) /\ p = params /\ o = out
  OBVIOUS
<1>2. PICK z : z = (io.mb_y % 2 = 0)
  OBVIOUS
<1>3. z = TRUE
  <2>1. io.mb_y % 2 = 0
    BY DEF PieceOf
  <2> QED BY <1>2, <2>1
<1>4. CustomPut(io) = Progress(x, z)
  BY <1>1, <1>2, Zenon DEF CustomPut, Progress
<1>5. l \in Nat /\ IsRows(o) /\ UvH(n) = e /\ e + UvH(b) = UvH(n + b)
  BY <1>1, ChromaSum DEF ParamsAt
<1>6. CASE IsScaled
  <2>1. PICK ty, tu, a : /\ p = ScalersAt(l, ty, tu, n, e, l, a)
                         /\ InStepAt(n, e, l) /\ AlphaScalerAt(a, n, l)
    BY <1>1, <1>5, <1>6 DEF ParamsAt
  <2>2. ScaledPut(x, o, n + b, e + UvH(b), l)
    <3>1. p = ScalersAt(l, ty, tu, n, e, l, a)
      BY <2>1
    <3>2. ScaledPut(EmitAlpha(io, Emit(io, p, o)), o, n + b, e + UvH(b), l)
      BY <1>5, <1>6, <2>1, <3>1, PutScaled
    <3> QED BY <1>1, <3>2
  <2>9. PICK m \in Nat : m = n + b
    OBVIOUS
  <2>3. PICK c : m = n + b /\ c = UvH(m)
    BY <2>9
  <2>4. PICK i, ty1, tu1, a1 :
          /\ i \in Nat
          /\ EmittedAs(x, ScalersAt(l, ty1, tu1, m, c, l + i, a1), Finish(o, l, i), i)
          /\ InStepAt(m, c, l + i) /\ AlphaScalerAt(a1, m, l + i)
    BY <1>5, <2>2, <2>3 DEF ScaledPut
  <2>5. PICK k \in Nat : k = l + i
    BY <1>5, <2>4
  <2>6. EmittedAs(CustomPut(io), ScalersAt(k, ty1, tu1, m, c, k, a1), Finish(o, l, i), i)
    <3>1. PICK ok, y, u : ok = TRUE /\ y = ScalerAt(MbH, OutHeight, m, k)
                          /\ u = ScalerAt(UvH(MbH), OutHeight, c, k)
      OBVIOUS
    <3>2. PICK q, w : q = Params(l, ty1, tu1, ok, y, u, a1) /\ w = Finish(o, l, i)
      OBVIOUS
    <3>3. EmittedAs(x, q, w, i)
      BY <2>4, <2>5, <3>1, <3>2 DEF ScalersAt
    <3>4. q = Params(l, ty1, tu1, ok, y, u, a1)
      BY <3>2
    <3>5. EmittedAs(Progress(x, z), Params(l + i, ty1, tu1, ok, y, u, a1), w, i)
      BY <1>3, <3>3, <3>4, ProgressIs
    <3> QED BY <1>4, <2>5, <3>1, <3>2, <3>5 DEF ScalersAt
  <2>7. PICK q, w, x2 : /\ q = ScalersAt(k, ty1, tu1, m, c, k, a1) /\ w = Finish(o, l, i)
                        /\ x2 = CustomPut(io)
    OBVIOUS
  <2>8. ParamsAt(q, m, k)
    BY <1>6, <2>3, <2>4, <2>5, <2>7 DEF ParamsAt
  <2>10. EmittedAs(x2, q, w, i) /\ w = Finish(o, l, i)
    BY <2>6, <2>7
  <2>11. PutOut(x2, o, m, l)
    BY <2>4, <2>5, <2>8, <2>10, PutOutIs
  <2> QED BY <1>1, <2>3, <2>7, <2>11
<1>7. CASE ~IsScaled
  <2>1. PICK ty, tu : /\ p = PlainParams(l, ty, tu)
                      /\ l = PlainRowAt(n) /\ HeldAt(n, ty, tu)
    BY <1>1, <1>7 DEF ParamsAt
  <2>2. PlainPut(x, o, n + b, l)
    <3>1. IsPlain(p, l, ty, tu)
      BY <2>1 DEF IsPlain
    <3>2. l = PlainRowAt(n) /\ HeldAt(n, ty, tu)
      BY <2>1
    <3>3. PlainPut(EmitAlpha(io, Emit(io, p, o)), o, n + b, l)
      BY <1>5, <1>7, <3>1, <3>2, PutUnscaled
    <3> QED BY <1>1, <3>3
  <2>3. PICK m \in Nat : m = n + b
    OBVIOUS
  <2>4. PICK i, ty1, tu1 :
          /\ i \in Nat
          /\ EmittedAs(x, PlainParams(l, ty1, tu1), Finish(o, l, i), i)
          /\ l + i = PlainRowAt(m) /\ HeldAt(m, ty1, tu1)
    BY <2>2, <2>3 DEF PlainPut
  <2>5. PICK k \in Nat : k = l + i
    BY <1>5, <2>4
  <2>6. EmittedAs(CustomPut(io), PlainParams(k, ty1, tu1), Finish(o, l, i), i)
    <3>1. PICK ok, y, u, a : ok = TRUE /\ y = ScalerAt(MbH, OutHeight, 0, 0)
                          /\ u = ScalerAt(UvH(MbH), OutHeight, 0, 0) /\ a = y
      OBVIOUS
    <3>2. PICK q, w : q = Params(l, ty1, tu1, ok, y, u, a) /\ w = Finish(o, l, i)
      OBVIOUS
    <3>3. EmittedAs(x, q, w, i)
      BY <2>4, <3>1, <3>2 DEF PlainParams
    <3>4. q = Params(l, ty1, tu1, ok, y, u, a)
      BY <3>2
    <3>5. EmittedAs(Progress(x, z), Params(l + i, ty1, tu1, ok, y, u, a), w, i)
      BY <1>3, <3>3, <3>4, ProgressIs
    <3> QED BY <1>4, <2>5, <3>1, <3>2, <3>5 DEF PlainParams
  <2>7. PICK q, w, x2 : /\ q = PlainParams(k, ty1, tu1) /\ w = Finish(o, l, i)
                        /\ x2 = CustomPut(io)
    OBVIOUS
  <2>8. ParamsAt(q, m, k)
    BY <1>7, <2>4, <2>5, <2>7 DEF ParamsAt
  <2>10. EmittedAs(x2, q, w, i) /\ w = Finish(o, l, i)
    BY <2>6, <2>7
  <2>11. PutOut(x2, o, m, l)
    BY <2>4, <2>5, <2>8, <2>10, PutOutIs
  <2> QED BY <1>1, <2>3, <2>7, <2>11
<1> QED BY <1>6, <1>7

(* The rows of a lossless picture do the same (src/dec/vp8l_dec.c).          *)
LEMMA ArgbRowsIs ==
  ASSUME Sized, ~IsLossy,
         NEW io, NEW n \in Nat, NEW b \in Nat \ {0}, n + b <= MbH,
         PieceOf(io, n, b), IsRows(out), NEW l, ParamsAt(params, n, l)
  PROVE  PutOut(ArgbRows(io), out, n + b, l)
<1>1. PICK p, o : p = params /\ o = out
  OBVIOUS
<1>2. PICK m \in Nat : m = n + b
  OBVIOUS
<1>3. io.mb_y = n /\ io.mb_h = b /\ l \in Nat /\ IsRows(o) /\ ~HasAlpha
  BY <1>1 DEF PieceOf, ParamsAt, HasAlpha
<1>4. CASE IsScaled
  <2>1. PICK h, d, ok : h = MbH /\ d = OutHeight /\ ok = TRUE
    OBVIOUS
  <2>2. PICK u, a : u = ScalerAt(UvH(MbH), OutHeight, 0, 0) /\ a = ScalerAt(h, d, 0, 0)
    OBVIOUS
  <2>3. PICK x : x = EmitRescaledRows(io, p, o)
    OBVIOUS
  <2>4. ArgbRows(io) = Onward(x)
    BY <1>1, <1>4, <2>3, Zenon DEF ArgbRows, Onward
  <2>5. PICK ty, tu : p = LumaParams(l, ty, tu, n, l) /\ LumaAt(n, l)
    BY <1>1, <1>4 DEF ParamsAt
  <2>6. p = Params(l, ty, tu, ok, ScalerAt(h, d, n, l), u, a)
    BY <2>1, <2>2, <2>5 DEF LumaParams
  <2>7. LumaOut(EmitRescaledRows(io, p, o), o, h, d, n, b, l, ty, tu, ok, u, a)
    <3>1. h \in Nat \ {0} /\ d \in Nat \ {0} /\ n + b <= h /\ Fits(h, d, n, l) /\ ~Ready(h, d, n, l)
      BY <2>1, <2>5 DEF Sized, LumaAt
    <3>2. LinesAre(io, d, n, b)
      BY <1>3, <2>1 DEF LinesAre
    <3> QED BY <1>3, <2>6, <3>1, <3>2, EmitLuma
  <2>8. PICK i \in Nat :
          /\ Fits(h, d, n + b, l + i) /\ ~Ready(h, d, n + b, l + i)
          /\ x = Emitted(Params(l, ty, tu, ok, ScalerAt(h, d, n + b, l + i), u, a),
                         Written(o, l, LumaFrom(h, d, l, i)), i)
    BY <2>3, <2>7 DEF LumaOut
  <2>9. PICK k \in Nat : k = l + i
    BY <1>3
  <2>10. Written(o, l, LumaFrom(h, d, l, i)) = Finish(o, l, i)
    <3>1. Written(o, l, LumaFrom(h, d, l, i)) = Draw(o, l, i)
      BY <1>3, <1>4, <2>1, LumaAreRows, DrawnRows
    <3> QED BY <1>3, <3>1, DrawnIsFinished
  <2>11. EmittedAs(ArgbRows(io), LumaParams(k, ty, tu, m, k), Finish(o, l, i), i)
    <3>1. PICK y : y = ScalerAt(h, d, m, k)
      OBVIOUS
    <3>2. PICK q, w : q = Params(l, ty, tu, ok, y, u, a) /\ w = Finish(o, l, i)
      OBVIOUS
    <3>3. EmittedAs(x, q, w, i)
      BY <1>2, <2>8, <2>9, <2>10, <3>1, <3>2 DEF EmittedAs
    <3>4. q = Params(l, ty, tu, ok, y, u, a)
      BY <3>2
    <3>5. PICK z : z = TRUE
      OBVIOUS
    <3>6. EmittedAs(Onward(x), Params(l + i, ty, tu, ok, y, u, a), w, i)
      BY <3>3, <3>4, <3>5, ProgressIs
    <3> QED BY <2>1, <2>2, <2>4, <2>9, <3>1, <3>2, <3>6 DEF LumaParams
  <2>12. LumaAt(m, k)
    BY <1>2, <2>1, <2>8, <2>9 DEF LumaAt
  <2>13. PICK q, w, x2 : /\ q = LumaParams(k, ty, tu, m, k) /\ w = Finish(o, l, i)
                         /\ x2 = ArgbRows(io)
    OBVIOUS
  <2>14. ParamsAt(q, m, k)
    BY <1>4, <2>12, <2>13 DEF ParamsAt
  <2>15. EmittedAs(x2, q, w, i) /\ w = Finish(o, l, i)
    BY <2>11, <2>13
  <2>16. PutOut(x2, o, m, l)
    BY <2>9, <2>14, <2>15, PutOutIs
  <2> QED BY <1>1, <1>2, <2>13, <2>16
<1>5. CASE ~IsScaled
  <2>1. PICK x : x = EmitRows(io, p, o)
    OBVIOUS
  <2>2. ArgbRows(io) = Onward(x)
    BY <1>1, <1>5, <2>1, Zenon DEF ArgbRows, Onward
  <2>3. PICK ty, tu : p = PlainParams(l, ty, tu) /\ l = PlainRowAt(n)
    BY <1>1, <1>5 DEF ParamsAt
  <2>4. l = n /\ m = PlainRowAt(m) /\ \A t, v : HeldAt(m, t, v)
    BY <2>3 DEF PlainRowAt, HeldAt, Behind
  <2>5. PICK ok, y, u, a : ok = TRUE /\ y = ScalerAt(MbH, OutHeight, 0, 0)
                          /\ u = ScalerAt(UvH(MbH), OutHeight, 0, 0) /\ a = y
    OBVIOUS
  <2>6. p = Params(l, ty, tu, ok, y, u, a)
    BY <2>3, <2>5 DEF PlainParams
  <2>7. p.last_y = n
    BY <2>4, <2>6, ParamsFields
  <2>8. PICK w : w = Finish(o, l, b)
    OBVIOUS
  <2>9. EmittedAs(x, p, w, b)
    BY <1>3, <1>5, <2>1, <2>4, <2>7, <2>8, EmitPlain
  <2>10. EmittedAs(ArgbRows(io), PlainParams(m, ty, tu), Finish(o, l, b), b)
    <3>1. PICK z : z = TRUE
      OBVIOUS
    <3>2. EmittedAs(Onward(x), Params(l + b, ty, tu, ok, y, u, a), w, b)
      BY <2>6, <2>9, <3>1, ProgressIs
    <3> QED BY <1>2, <2>2, <2>4, <2>5, <2>8, <3>2 DEF PlainParams
  <2>11. PICK q, x2 : q = PlainParams(m, ty, tu) /\ x2 = ArgbRows(io)
    OBVIOUS
  <2>12. ParamsAt(q, m, m)
    BY <1>5, <2>4, <2>11 DEF ParamsAt
  <2>13. b \in Nat /\ m = l + b
    BY <1>2, <2>4
  <2>14. EmittedAs(x2, q, w, b) /\ w = Finish(o, l, b)
    BY <2>8, <2>10, <2>11
  <2>15. PutOut(x2, o, m, l)
    BY <2>12, <2>13, <2>14, PutOutIs
  <2> QED BY <1>1, <1>2, <2>11, <2>15
<1> QED BY <1>4, <1>5

-----------------------------------------------------------------------------
\* The invariant of the decoders' loops.
(* Rows of the picture that are finished when r macroblock rows are: the     *)
(* filter holds the extra rows back until the last one.                      *)
Done(r) == IF r = 0 THEN 0 ELSE IF r = BrMbY THEN pic.crop_bottom ELSE r * MbSize - pic.extra

(* Rows of the window that have come by then, or with the lossless row r.    *)
Came(r) == MaxOf((IF IsLossy THEN Done(r) ELSE r) - pic.crop_top, 0)

LastRow == IF IsLossy THEN BrMbY ELSE pic.crop_bottom

(* The rows that are done are right.                                        *)
RowsInv ==
  /\ DOMAIN out = 0..OutHeight - 1 /\ IsRows(out)
  /\ \A j \in 0..params.last_y - 1 : out[j] = RightRow(j)

(* The rows of alpha in the window have been decoded to row x, each from the *)
(* one above it.                                                             *)
DecodedTo(a, x) ==
  \A r \in pic.crop_top..x - 1 :
    r \in DOMAIN a.above /\ (pic.filter # "none" => a.above[r] = r - 1)

(* The inductive invariant of the rows of the output.                        *)
OutputInv ==
  /\ pic \in Pictures /\ row \in 0..LastRow
  /\ ParamsAt(params, Came(row), params.last_y)
  /\ RowsInv

(* What a picture of Pictures is.                                            *)
LEMMA PictureIs ==
  ASSUME pic \in Pictures
  PROVE  /\ pic.crop_top \in Nat /\ pic.crop_bottom \in Nat /\ pic.height \in Nat
         /\ pic.crop_top < pic.crop_bottom /\ pic.crop_bottom <= pic.height
         /\ IsLossy => pic.crop_top % 2 = 0
         /\ pic.scaled_height \in Nat
         /\ pic.extra \in Nat /\ pic.extra % 2 = 0 /\ pic.extra < MbSize
         /\ MbSize \in Nat \ {0} /\ MbSize % 2 = 0
  BY PicturesAssumption DEF IsPicture, IsLossy

(* The sizes of what is decoded are above 0.                                 *)
LEMMA PictureSized ==
  ASSUME pic \in Pictures
  PROVE  /\ Sized /\ MbH + pic.crop_top = pic.crop_bottom
         /\ ~IsScaled => OutHeight = MbH
<1>1. MbH \in Nat \ {0} /\ MbH + pic.crop_top = pic.crop_bottom
  BY PictureIs DEF MbH
<1>2. OutHeight \in Nat \ {0} /\ (~IsScaled => OutHeight = MbH)
  BY <1>1, PictureIs DEF OutHeight, IsScaled
<1> QED BY <1>1, <1>2, PictureIs DEF Sized

(* The macroblock rows end with the window, or with the picture.             *)
LEMMA RowsEnd ==
  ASSUME pic \in Pictures
  PROVE  /\ BrMbY \in Nat \ {0}
         /\ BrMbY * MbSize >= pic.crop_bottom
         /\ \A r \in Nat : r < BrMbY => r * MbSize - pic.extra < pic.crop_bottom
<1>1. PICK b, x, s : b = pic.crop_bottom /\ x = pic.extra /\ s = MbSize
  OBVIOUS
<1>2. b \in Nat \ {0} /\ x \in Nat /\ s \in Nat \ {0}
  BY <1>1, PictureIs
<1>3. PICK p \in Int : (b + x + s - 1) \div s = p /\ p * s >= b + x /\ (p - 1) * s < b + x
  <2>1. PICK a \in Int : a = b + x
    BY <1>2
  <2>2. \E p \in Int : (a + s - 1) \div s = p /\ p * s >= a /\ (p - 1) * s < a
    BY <1>2, RoundedUp
  <2> QED BY <2>1, <2>2
<1>4. PICK h \in Nat : h = pic.height /\ b <= h
  BY <1>1, PictureIs
<1>5. PICK q \in Int : (h + s - 1) \div s = q /\ q * s >= h /\ (q - 1) * s < h
  BY <1>2, RoundedUp
<1>6. PICK m \in Int : m = BrMbY /\ m <= p /\ m <= q /\ (m = p \/ m = q)
  BY <1>1, <1>3, <1>4, <1>5 DEF BrMbY, MacroblockRows, MinOf
<1>7. m * s >= b
  <2>1. p * s >= b /\ q * s >= b
    <3>1. p * s \in Int /\ q * s \in Int
      BY <1>2, Times
    <3> QED BY <1>2, <1>3, <1>4, <1>5, <3>1
  <2> QED BY <1>6, <2>1
<1>8. m > 0
  <2>1. ASSUME m <= 0 PROVE FALSE
    <3>1. m * s <= 0 * s /\ 0 * s = 0 /\ m * s \in Int
      BY <1>2, <2>1, Times, TimesGrows
    <3> QED BY <1>2, <1>7, <3>1
  <2> QED BY <2>1
<1>9. ASSUME NEW r \in Nat, r < m PROVE r * s - x < b
  <2>1. r * s <= (p - 1) * s
    <3>1. PICK p1 \in Int : p1 = p - 1
      OBVIOUS
    <3>2. r <= p1
      BY <1>6, <1>9, <3>1
    <3>3. r * s <= p1 * s
      BY <1>2, <3>2, TimesGrows
    <3> QED BY <3>1, <3>3
  <2>2. r * s \in Int /\ (p - 1) * s \in Int
    BY <1>2, Times
  <2> QED BY <1>2, <1>3, <2>1, <2>2
<1> QED BY <1>1, <1>6, <1>7, <1>8, <1>9

(* A multiple of an even number is even.                                     *)
LEMMA EvenTimes ==
  ASSUME NEW r \in Nat, NEW s \in Nat, s % 2 = 0
  PROVE  (r * s) % 2 = 0
<1>1. PICK h \in Nat : s = 2 * h
  <2>1. s = 2 * (s \div 2) /\ s \div 2 \in Nat
    OBVIOUS
  <2> QED BY <2>1
<1>2. PICK m \in Nat : m = r * h
  BY Times
<1>3. r * s = 2 * m
  BY <1>1, <1>2
<1> QED BY <1>3

(* What FinishRow takes up of macroblock row r.                              *)
LEMMA RowIs ==
  ASSUME pic \in Pictures, row \in Nat, row < BrMbY
  PROVE  /\ YStart = Done(row) /\ YEnd = Done(row + 1)
         /\ Done(row) \in Nat /\ Done(row + 1) \in Nat /\ Done(row) < Done(row + 1)
         /\ Done(row) % 2 = 0
         /\ row + 1 < BrMbY => Done(row + 1) % 2 = 0 /\ Done(row + 1) < pic.crop_bottom
         /\ row + 1 = BrMbY => Done(row + 1) = pic.crop_bottom
         /\ Done(row + 1) <= pic.crop_bottom
<1>1. PICK r, b, x, s : r \in Nat /\ r = row /\ b = pic.crop_bottom /\ x = pic.extra /\ s = MbSize
  OBVIOUS
<1>2. /\ r \in Nat /\ b \in Nat \ {0} /\ x \in Nat /\ s \in Nat \ {0} /\ x < s
      /\ s % 2 = 0 /\ x % 2 = 0
  BY <1>1, PictureIs
<1>3. PICK m \in Nat \ {0} : m = BrMbY /\ m * s >= b /\ (\A k \in Nat : k < m => k * s - x < b)
  BY <1>1, RowsEnd
<1>4. PICK y \in Nat, z \in Nat : y = r * s /\ z = (r + 1) * s /\ z = y + s
  BY <1>2, Times
<1>5. y % 2 = 0 /\ z % 2 = 0
  <2>1. y % 2 = 0
    BY <1>2, <1>4, EvenTimes
  <2> QED BY <1>2, <1>4, <2>1
<1>6. y - x < b /\ (r > 0 => y >= s)
  <2>1. y - x < b
    BY <1>1, <1>2, <1>3, <1>4
  <2>2. ASSUME r > 0 PROVE y >= s
    <3>1. 1 * s <= r * s /\ 1 * s = s
      BY <1>2, <2>2, TimesGrows
    <3> QED BY <1>4, <3>1
  <2> QED BY <2>1, <2>2
<1>7. Done(row) = IF r = 0 THEN 0 ELSE y - x
  BY <1>1, <1>3, <1>4 DEF Done
<1>8. Done(row + 1) = IF r + 1 = m THEN b ELSE z - x
  BY <1>1, <1>3, <1>4 DEF Done
<1>9. YStart = Done(row)
  BY <1>1, <1>4, <1>7 DEF YStart
<1>10. CASE r + 1 < m
  <2>1. z - x < b
    BY <1>2, <1>3, <1>4, <1>10
  <2>2. YEnd = z - x
    <3>1. (row + 1) * MbSize - (IF row >= BrMbY - 1 THEN 0 ELSE pic.extra) = z - x
      BY <1>1, <1>3, <1>4, <1>10
    <3> QED BY <1>1, <1>2, <2>1, <3>1 DEF YEnd, MinOf
  <2> QED BY <1>1, <1>2, <1>3, <1>4, <1>5, <1>6, <1>7, <1>8, <1>9, <1>10, <2>1, <2>2
<1>11. CASE r + 1 = m
  <2>1. YEnd = b
    <3>1. (row + 1) * MbSize - (IF row >= BrMbY - 1 THEN 0 ELSE pic.extra) = z
      BY <1>1, <1>3, <1>4, <1>11
    <3>2. z >= b
      BY <1>3, <1>4, <1>11
    <3> QED BY <1>1, <1>2, <3>1, <3>2 DEF YEnd, MinOf
  <2> QED BY <1>1, <1>2, <1>3, <1>4, <1>5, <1>6, <1>7, <1>8, <1>9, <1>11, <2>1
<1> QED BY <1>1, <1>3, <1>10, <1>11

(* Everything about the picture stays with it.                              *)
LEMMA PictureStays ==
  ASSUME UNCHANGED pic
  PROVE  /\ IsLossy' = IsLossy /\ IsScaled' = IsScaled /\ HasAlpha' = HasAlpha
         /\ IsAlphaMode' = IsAlphaMode /\ MbH' = MbH /\ OutHeight' = OutHeight
         /\ Mode' = Mode /\ BrMbY' = BrMbY
         /\ FancyUpsampling' = FancyUpsampling
         /\ \A n : UvH(n)' = UvH(n)
  BY DEF IsLossy, IsScaled, HasAlpha, IsAlphaMode, MbH, OutHeight, Mode, FancyUpsampling, UvH,
         BrMbY, MacroblockRows

(* What a row of the output should hold does not depend on anything but the  *)
(* picture.                                                                  *)
LEMMA RightRowStays ==
  ASSUME UNCHANGED pic, NEW j
  PROVE  ColourOf(j)' = ColourOf(j) /\ AlphaOf(j)' = AlphaOf(j) /\ RightRow(j)' = RightRow(j)
<1>1. Neighbour(j)' = Neighbour(j)
  BY PictureStays DEF Neighbour, UvH
<1>2. ColourOf(j)' = ColourOf(j)
  BY <1>1, PictureStays DEF ColourOf, UvH
<1>3. AlphaOf(j)' = AlphaOf(j)
  BY PictureStays DEF AlphaOf
<1>4. Multiplied' = Multiplied
  BY PictureStays DEF Multiplied
<1> QED BY <1>2, <1>3, <1>4 DEF RightRow

(* Nor does what the parameters should be after n rows.                      *)
LEMMA ParamsStay ==
  ASSUME UNCHANGED pic, NEW p, NEW n, NEW k, ParamsAt(p, n, k)
  PROVE  ParamsAt(p, n, k)'
<1>1. \A m, ty, tu : HeldAt(m, ty, tu)' <=> HeldAt(m, ty, tu)
  BY PictureStays DEF HeldAt, Behind
<1>2. \A m : PlainRowAt(m)' = PlainRowAt(m)
  BY PictureStays DEF PlainRowAt, Behind
<1>3. \A m, c, l : InStepAt(m, c, l)' <=> InStepAt(m, c, l)
  BY PictureStays DEF InStepAt
<1>4. \A a, m, l : AlphaScalerAt(a, m, l)' <=> AlphaScalerAt(a, m, l)
  BY PictureStays DEF AlphaScalerAt
<1>5. \A m, l : LumaAt(m, l)' <=> LumaAt(m, l)
  BY PictureStays DEF LumaAt
<1>6. \A l, ty, tu : PlainParams(l, ty, tu)' = PlainParams(l, ty, tu)
  BY PictureStays DEF PlainParams
<1>7. \A l, ty, tu, m, c, i, a : ScalersAt(l, ty, tu, m, c, i, a)' = ScalersAt(l, ty, tu, m, c, i, a)
  BY PictureStays DEF ScalersAt
<1>8. \A l, ty, tu, m, i : LumaParams(l, ty, tu, m, i)' = LumaParams(l, ty, tu, m, i)
  BY PictureStays DEF LumaParams
<1> QED BY <1>1, <1>2, <1>3, <1>4, <1>5, <1>6, <1>7, <1>8, PictureStays DEF ParamsAt

(* The parameters tell the rows that are done, and that the asserts have     *)
(* held.                                                                     *)
LEMMA ParamsLast ==
  ASSUME NEW p, NEW n, NEW k, ParamsAt(p, n, k)
  PROVE  p.last_y = k /\ p.asserts = TRUE /\ WithAsserts(p, TRUE) = p
<1>1. \E l, ty, tu, y, u, a : l = k /\ p = Params(l, ty, tu, TRUE, y, u, a)
  BY DEF ParamsAt, PlainParams, ScalersAt, LumaParams
<1>2. PICK ok : ok = TRUE
  OBVIOUS
<1>3. PICK ty, tu, y, u, a : p = Params(k, ty, tu, ok, y, u, a)
  BY <1>1, <1>2
<1>4. p.last_y = k /\ p.asserts = ok
  BY <1>3, ParamsFields
<1>5. WithAsserts(p, ok) = Params(k, ty, tu, ok, y, u, a)
  BY <1>3, AssertsUpdate
<1> QED BY <1>2, <1>3, <1>4, <1>5

(* No more rows are done than the output has.                                *)
LEMMA ParamsBound ==
  ASSUME pic \in Pictures, NEW p, NEW n \in Nat, n <= MbH, NEW k, ParamsAt(p, n, k)
  PROVE  k \in Nat /\ k <= OutHeight
<1>1. MbH \in Nat \ {0} /\ OutHeight \in Nat \ {0} /\ (~IsScaled => OutHeight = MbH)
  BY PictureSized DEF Sized
<1>2. CASE IsScaled
  <2>1. Fits(MbH, OutHeight, n, k)
    BY <1>2 DEF ParamsAt, InStepAt, LumaAt
  <2> QED BY <1>1, <2>1, FitsAtEnd
<1>3. CASE ~IsScaled
  <2>1. k \in Nat /\ k = PlainRowAt(n)
    BY <1>3 DEF ParamsAt
  <2>2. k <= n
    BY <2>1 DEF PlainRowAt, Behind
  <2> QED BY <1>1, <1>3, <2>1, <2>2
<1> QED BY <1>2, <1>3

(* A piece of the picture leaves the rows right that were done, and those    *)
(* that it ends.                                                             *)
LEMMA PieceIsRight ==
  ASSUME NEW e, NEW n, NEW l, l = params.last_y, PutOut(e, out, n, l), Goes(e), UNCHANGED pic,
         RowsInv, l \in Nat, pic \in Pictures, n \in Nat, n <= MbH
  PROVE  /\ ParamsAt(params', n, params'.last_y) /\ l <= params'.last_y
         /\ RowsInv'
         /\ \A j \in DOMAIN out : j < l => out'[j] = out[j]
<1>1. PICK q, i, nl :
        i \in Nat /\ EmittedAs(e, q, Finish(out, l, i), nl) /\ ParamsAt(q, n, l + i)
  BY DEF PutOut
<1>2. e.params = q /\ e.out = Finish(out, l, i) /\ e.asserts = TRUE
  BY <1>1 DEF EmittedAs, Emitted
<1>3. q.last_y = l + i /\ q.asserts = TRUE /\ WithAsserts(q, TRUE) = q
  BY <1>1, ParamsLast
<1>4. params' = q
  <2>1. params' = [e.params EXCEPT !.asserts = @ /\ e.asserts]
    BY DEF Goes
  <2>2. PICK z : z = (q.asserts /\ e.asserts)
    OBVIOUS
  <2>3. z = TRUE
    BY <1>2, <1>3, <2>2
  <2>4. params' = WithAsserts(q, z)
    BY <1>2, <2>1, <2>2, Zenon DEF WithAsserts
  <2> QED BY <1>3, <2>3, <2>4
<1>5. out' = Finish(out, l, i)
  BY <1>2 DEF Goes
<1>6. PICK k \in Nat : k = l + i
  BY <1>1
<1>7. params'.last_y = k /\ ParamsAt(params', n, k)
  BY <1>1, <1>3, <1>4, <1>6
<1>8. DOMAIN out' = DOMAIN out /\ \A j \in DOMAIN out : out'[j] = IF j \in l..l + i - 1 THEN RightRow(j) ELSE out[j]
  BY <1>5 DEF Finish
<1>9. IsRows(out')
  BY <1>5, DrawIsRows DEF RowsInv
<1>10. OutHeight' = OutHeight
  BY PictureStays
<1>11. IsRows(out)'
  BY <1>9 DEF IsRows
<1>12. ASSUME NEW j \in 0..k - 1 PROVE out'[j] = RightRow(j)
  <2>1. k <= OutHeight /\ OutHeight \in Nat
    BY <1>1, <1>6, ParamsBound, PictureSized DEF Sized
  <2>2. j \in DOMAIN out
    BY <2>1 DEF RowsInv
  <2>3. CASE j < l
    <3>1. out[j] = RightRow(j)
      BY <2>3 DEF RowsInv
    <3> QED BY <1>8, <2>2, <2>3, <3>1
  <2>4. CASE ~(j < l)
    <3>1. j \in l..l + i - 1
      BY <1>1, <1>6, <2>4
    <3> QED BY <1>8, <2>2, <3>1
  <2> QED BY <2>3, <2>4
<1>13. RowsInv'
  <2>1. \A j \in 0..params'.last_y - 1 : out'[j] = RightRow(j)'
    BY <1>7, <1>12, RightRowStays
  <2> QED BY <1>8, <1>10, <1>11, <2>1 DEF RowsInv
<1>14. ASSUME NEW j \in DOMAIN out, j < l PROVE out'[j] = out[j]
  BY <1>8, <1>14
<1> QED BY <1>1, <1>6, <1>7, <1>13, <1>14

(* The rows that have come depend on the picture and the macroblock row      *)
(* only.                                                                     *)
LEMMA CameStays ==
  ASSUME UNCHANGED pic, NEW r, r = row'
  PROVE  Came(row)' = Came(r) /\ LastRow' = LastRow /\ Done(row)' = Done(r)
<1>1. Done(row)' = Done(r)
  BY PictureStays DEF Done
<1>2. LastRow' = LastRow
  BY PictureStays DEF LastRow
<1>3. Came(row)' = Came(r)
  <2>1. Came(row)' = MaxOf((IF IsLossy' THEN Done(row)' ELSE row') - pic'.crop_top, 0)
    BY DEF Came
  <2> QED BY <1>1, <2>1, PictureStays DEF Came
<1> QED BY <1>1, <1>2, <1>3

(* They lie in the window.                                                   *)
LEMMA CameIs ==
  ASSUME pic \in Pictures, row \in Nat, row <= LastRow
  PROVE  Came(row) \in Nat /\ Came(row) <= MbH
<1>1. MbH \in Nat \ {0} /\ MbH + pic.crop_top = pic.crop_bottom
  BY PictureSized DEF Sized
<1>2. CASE IsLossy
  <2>1. Done(row) \in Nat /\ Done(row) <= pic.crop_bottom
    <3>1. BrMbY \in Nat \ {0} /\ row <= BrMbY
      BY <1>2, RowsEnd DEF LastRow
    <3>2. CASE row < BrMbY
      BY <3>1, <3>2, RowIs, PictureIs
    <3>3. CASE row = BrMbY
      BY <3>1, <3>3, PictureIs DEF Done
    <3> QED BY <3>1, <3>2, <3>3
  <2> QED BY <1>1, <1>2, <2>1, PictureIs DEF Came, MaxOf
<1>3. CASE ~IsLossy
  BY <1>1, <1>3, PictureIs DEF Came, LastRow, MaxOf
<1> QED BY <1>2, <1>3

(* What every step leaves of the rows that were done.                        *)
Kept(l) == /\ l <= params'.last_y
           /\ \A j \in DOMAIN out : j < l => out'[j] = out[j]

(* A step before the window, or of the alpha plane only, leaves the output   *)
(* as it is.                                                                 *)
LEMMA NothingCame ==
  ASSUME OutputInv, UNCHANGED <<pic, params, out>>, row' \in 0..LastRow,
         NEW r, r = row', Came(r) = Came(row), NEW l, l = params.last_y
  PROVE  OutputInv' /\ Kept(l)
<1>1. pic' = pic /\ params' = params /\ out' = out
  OBVIOUS
<1>2. /\ pic \in Pictures /\ ParamsAt(params, Came(row), l) /\ RowsInv
  BY DEF OutputInv
<1>3. l \in Nat
  BY <1>2 DEF ParamsAt
<1>4. Kept(l)
  BY <1>1, <1>3 DEF Kept
<1>5. row' \in 0..LastRow' /\ Came(row)' = Came(row)
  BY <1>1, CameStays
<1>6. ParamsAt(params, Came(row), params.last_y)'
  <2>1. PICK p, n : p = params' /\ n = Came(row)' /\ p = params /\ n = Came(row)
    BY <1>1, <1>5
  <2>2. ParamsAt(p, n, l)'
    BY <1>1, <1>2, <2>1, ParamsStay
  <2>3. p.last_y = l
    BY <2>1
  <2> QED BY <2>1, <2>2, <2>3
<1>7. RowsInv'
  <2>1. \A j : RightRow(j)' = RightRow(j)
    BY <1>1, RightRowStays
  <2>2. OutHeight' = OutHeight
    BY <1>1, PictureStays
  <2>3. IsRows(out)'
    BY <1>1, <1>2 DEF IsRows, RowsInv
  <2> QED BY <1>1, <1>2, <2>1, <2>2, <2>3 DEF RowsInv
<1>8. pic' \in Pictures
  BY <1>1, <1>2
<1> QED BY <1>4, <1>5, <1>6, <1>7, <1>8 DEF OutputInv

(* A step that puts out a piece leaves the output right, and the rows that   *)
(* were done as they were.                                                   *)
LEMMA PieceCame ==
  ASSUME OutputInv, UNCHANGED pic, row' \in 0..LastRow, NEW r, r = row', NEW n, n = Came(r),
         n \in Nat, n <= MbH, NEW l, l = params.last_y,
         NEW e, PutOut(e, out, n, l), Goes(e)
  PROVE  OutputInv' /\ Kept(l)
<1>1. pic' = pic
  OBVIOUS
<1>2. /\ pic \in Pictures /\ ParamsAt(params, Came(row), l) /\ RowsInv
  BY DEF OutputInv
<1>3. l \in Nat
  BY <1>2 DEF ParamsAt
<1>4. /\ ParamsAt(params', n, params'.last_y) /\ l <= params'.last_y
      /\ RowsInv'
      /\ \A j \in DOMAIN out : j < l => out'[j] = out[j]
  BY <1>1, <1>2, <1>3, PieceIsRight
<1>5. Kept(l)
  BY <1>4 DEF Kept
<1>6. row' \in 0..LastRow' /\ Came(row)' = n
  BY <1>1, CameStays
<1>7. ParamsAt(params, Came(row), params.last_y)'
  <2>1. PICK p, k : p = params' /\ k = params'.last_y
    OBVIOUS
  <2>2. ParamsAt(p, n, k)'
    BY <1>1, <1>4, <2>1, ParamsStay
  <2> QED BY <1>6, <2>1, <2>2
<1>8. pic' \in Pictures
  BY <1>1, <1>2
<1> QED BY <1>4, <1>5, <1>6, <1>7, <1>8 DEF OutputInv

(* What the window takes of the rows first..last - 1 begins where the piece  *)
(* before it ended.                                                          *)
LEMMA WindowIs ==
  ASSUME pic \in Pictures, NEW first \in Nat, NEW last \in Nat, first < last,
         MaxOf(first, pic.crop_top) < last, last <= pic.crop_bottom,
         NEW n, n = MaxOf(first - pic.crop_top, 0), NEW m, m = MaxOf(last - pic.crop_top, 0)
  PROVE  \E b \in Nat \ {0} :
           /\ n \in Nat /\ m = n + b /\ m <= MbH
           /\ PieceOf(Window(first, last, HasAlpha), n, b)
<1>1. PICK t \in Nat : t = pic.crop_top
  BY PictureIs
<1>2. PICK s \in Nat : s = MaxOf(first, t) /\ s = t + n /\ n \in Nat
  BY <1>1 DEF MaxOf
<1>3. PICK b \in Nat \ {0} : b = last - s
  BY <1>1, <1>2
<1>4. m = n + b /\ m = last - t
  BY <1>1, <1>2, <1>3 DEF MaxOf
<1>5. m <= MbH
  BY <1>1, <1>4, PictureSized, PictureIs DEF Sized
<1>6. PICK io : io = Window(first, last, HasAlpha)
  OBVIOUS
<1>7. io = [mb_y |-> s - t, mb_h |-> last - s, a |-> IF HasAlpha THEN s ELSE NoAlpha]
  BY <1>1, <1>2, <1>6 DEF Window, Piece
<1>8. PieceOf(io, n, b)
  BY <1>1, <1>2, <1>3, <1>7 DEF PieceOf
<1> QED BY <1>2, <1>4, <1>5, <1>6, <1>8

(* FinishRow (src/dec/frame_dec.c): the rows that the filter has finished.   *)
LEMMA FinishRowIsRight ==
  ASSUME OutputInv, FinishRow
  PROVE  OutputInv' /\ Kept(params.last_y)
<1>1. /\ IsLossy /\ row < BrMbY /\ row' = row + 1 /\ UNCHANGED pic
      /\ pic \in Pictures /\ row \in Nat /\ LastRow = BrMbY /\ BrMbY \in Nat
  <2>1. IsLossy /\ row < BrMbY /\ row' = row + 1 /\ UNCHANGED pic
    BY DEF FinishRow, FinishesRow
  <2>2. pic \in Pictures /\ row \in 0..LastRow
    BY DEF OutputInv
  <2>3. LastRow = BrMbY
    BY <2>1 DEF LastRow
  <2> QED BY <2>1, <2>2, <2>3, RowsEnd
<1>2. /\ YStart = Done(row) /\ YEnd = Done(row + 1)
      /\ Done(row) \in Nat /\ Done(row + 1) \in Nat /\ Done(row) < Done(row + 1)
      /\ Done(row) % 2 = 0
      /\ row + 1 < BrMbY => Done(row + 1) % 2 = 0 /\ Done(row + 1) < pic.crop_bottom
      /\ row + 1 = BrMbY => Done(row + 1) = pic.crop_bottom
      /\ Done(row + 1) <= pic.crop_bottom
  BY <1>1, RowIs
<1>3. PICK r, x, y, t, l :
        r = row' /\ r = row + 1 /\ x = Done(row) /\ y = Done(r) /\ t = pic.crop_top
          /\ l = params.last_y
  BY <1>1
<1>4. /\ x \in Nat /\ y \in Nat /\ t \in Nat /\ x < y /\ x % 2 = 0 /\ t % 2 = 0
      /\ YStart = x /\ YEnd = y /\ y <= pic.crop_bottom
      /\ Came(row) = MaxOf(x - t, 0) /\ Came(r) = MaxOf(y - t, 0)
  BY <1>1, <1>2, <1>3, PictureIs DEF Came
<1>5. r \in 0..LastRow
  BY <1>1, <1>3
<1>6. CASE MaxOf(YStart, pic.crop_top) < YEnd
  <2>1. PICK io : io = Window(x, y, HasAlpha) /\ Goes(CustomPut(io))
    BY <1>4, <1>6 DEF FinishRow
  <2>2. PICK n, m : n = MaxOf(x - t, 0) /\ m = MaxOf(y - t, 0)
    OBVIOUS
  <2>3. PICK b \in Nat \ {0} :
          n \in Nat /\ m = n + b /\ m <= MbH /\ PieceOf(Window(x, y, HasAlpha), n, b)
    BY <1>1, <1>3, <1>4, <1>6, <2>2, WindowIs
  <2>4. n % 2 = 0
    BY <1>4, <2>2 DEF MaxOf
  <2>5. PICK e \in Nat : n = 2 * e
    <3>1. n = 2 * (n \div 2) /\ n \div 2 \in Nat
      BY <2>3, <2>4
    <3> QED BY <3>1
  <2>6. n + b < MbH => b % 2 = 0
    <3>1. ASSUME n + b < MbH PROVE b % 2 = 0
      <4>1. MbH + t = pic.crop_bottom /\ MbH \in Nat
        BY <1>1, <1>3, PictureSized DEF Sized
      <4>2. y < pic.crop_bottom
        BY <1>4, <2>2, <2>3, <3>1, <4>1 DEF MaxOf
      <4>3. y % 2 = 0
        BY <1>1, <1>2, <1>3, <4>2
      <4>4. m = y - t
        BY <1>4, <2>2, <2>3 DEF MaxOf
      <4>5. m % 2 = 0
        BY <1>4, <2>3, <4>3, <4>4
      <4> QED BY <2>3, <2>4, <4>5
    <3> QED BY <3>1
  <2>7. PieceOf(io, n, b) /\ n + b <= MbH
    BY <2>1, <2>3
  <2>8. Sized /\ IsRows(out) /\ ParamsAt(params, n, l)
    BY <1>1, <1>3, <1>4, <2>2, PictureSized DEF OutputInv, RowsInv
  <2>9. PutOut(CustomPut(io), out, n + b, l)
    BY <1>1, <2>3, <2>5, <2>6, <2>7, <2>8, CustomPutIs
  <2>10. PICK e1 : e1 = CustomPut(io)
    OBVIOUS
  <2>11. PutOut(e1, out, m, l) /\ Goes(e1) /\ m \in Nat /\ m = Came(r)
    BY <1>4, <2>1, <2>2, <2>3, <2>9, <2>10
  <2> QED BY <1>1, <1>3, <1>5, <2>3, <2>11, PieceCame
<1>7. CASE ~(MaxOf(YStart, pic.crop_top) < YEnd)
  <2>1. UNCHANGED <<pic, params, out>>
    BY <1>1, <1>7 DEF FinishRow
  <2>2. Came(r) = Came(row)
    BY <1>3, <1>4, <1>7 DEF MaxOf
  <2> QED BY <1>3, <1>5, <2>1, <2>2, NothingCame
<1> QED BY <1>6, <1>7

(* ProcessRows (src/dec/vp8l_dec.c): the rows of a batch.                    *)
LEMMA ProcessRowsIsRight ==
  ASSUME OutputInv, NEW last \in Nat, ProcessRows(last)
  PROVE  OutputInv' /\ Kept(params.last_y)
<1>1. /\ ~IsLossy /\ row < last /\ last <= pic.crop_bottom /\ row' = last /\ UNCHANGED pic
      /\ pic \in Pictures /\ row \in Nat /\ LastRow = pic.crop_bottom /\ ~HasAlpha
  <2>1. ~IsLossy /\ row < last /\ last <= pic.crop_bottom /\ row' = last /\ UNCHANGED pic
    BY DEF ProcessRows
  <2>2. pic \in Pictures /\ row \in 0..LastRow
    BY DEF OutputInv
  <2>3. LastRow = pic.crop_bottom /\ ~HasAlpha
    BY <2>1 DEF LastRow, HasAlpha
  <2> QED BY <2>1, <2>2, <2>3, PictureIs
<1>2. PICK t, l : t = pic.crop_top /\ l = params.last_y
  OBVIOUS
<1>3. /\ t \in Nat /\ Came(row) = MaxOf(row - t, 0) /\ Came(last) = MaxOf(last - t, 0)
      /\ last \in 0..LastRow
  BY <1>1, <1>2, PictureIs DEF Came
<1>4. CASE MaxOf(row, pic.crop_top) < last
  <2>1. PICK io : io = Window(row, last, HasAlpha) /\ Goes(ArgbRows(io))
    <3>1. HasAlpha = FALSE
      BY <1>1, Zenon DEF HasAlpha
    <3>2. Goes(ArgbRows(Window(row, last, FALSE)))
      BY <1>4 DEF ProcessRows
    <3> QED BY <3>1, <3>2
  <2>2. PICK n, m : n = MaxOf(row - t, 0) /\ m = MaxOf(last - t, 0)
    OBVIOUS
  <2>3. PICK b \in Nat \ {0} :
          n \in Nat /\ m = n + b /\ m <= MbH /\ PieceOf(Window(row, last, HasAlpha), n, b)
    BY <1>1, <1>2, <1>4, <2>2, WindowIs
  <2>4. Sized /\ IsRows(out) /\ ParamsAt(params, n, l)
    BY <1>1, <1>2, <1>3, <2>2, PictureSized DEF OutputInv, RowsInv
  <2>5. PutOut(ArgbRows(io), out, n + b, l)
    BY <1>1, <2>1, <2>3, <2>4, ArgbRowsIs
  <2>6. PICK e : e = ArgbRows(io)
    OBVIOUS
  <2>7. PutOut(e, out, m, l) /\ Goes(e) /\ m \in Nat /\ m = Came(last)
    BY <1>3, <2>1, <2>2, <2>3, <2>5, <2>6
  <2> QED BY <1>1, <1>2, <1>3, <2>3, <2>7, PieceCame
<1>5. CASE ~(MaxOf(row, pic.crop_top) < last)
  <2>1. UNCHANGED <<pic, params, out>>
    BY <1>1, <1>5 DEF ProcessRows
  <2>2. Came(last) = Came(row)
    BY <1>1, <1>2, <1>3, <1>5 DEF MaxOf
  <2> QED BY <1>1, <1>2, <1>3, <2>1, <2>2, NothingCame
<1> QED BY <1>4, <1>5

-----------------------------------------------------------------------------
\* The theorems about the rows of the output.
(* Setup: nothing has come, and no row is done.                              *)
LEMMA OutputStarts ==
  ASSUME Init
  PROVE  OutputInv
<1>1. pic \in Pictures /\ row = 0
  BY DEF Init
<1>2. /\ MbH \in Nat \ {0} /\ OutHeight \in Nat \ {0} /\ UvH(MbH) \in Nat \ {0} /\ Sized
  BY <1>1, PictureSized, ChromaHeight DEF Sized
<1>3. PICK h, u, d : h = MbH /\ u = UvH(MbH) /\ d = OutHeight
  OBVIOUS
<1>4. /\ WebPRescalerInit(h, d) = ScalerAt(h, d, 0, 0) /\ WebPRescalerInit(u, d) = ScalerAt(u, d, 0, 0)
      /\ Fits(h, d, 0, 0) /\ Fits(u, d, 0, 0) /\ ~Ready(h, d, 0, 0)
  BY <1>2, <1>3, InitScaler, ReadyEnds
<1>5. PICK ty, tu, y, v : /\ ty = -1 /\ tu = -1 /\ y = ScalerAt(h, d, 0, 0)
                          /\ v = ScalerAt(u, d, 0, 0)
  OBVIOUS
<1>6. params = Params(0, ty, tu, TRUE, y, v, y)
  BY <1>3, <1>4, <1>5 DEF Init, Params
<1>7. Came(row) = 0 /\ UvH(0) = 0
  BY <1>1, PictureIs DEF Came, Done, MaxOf, UvH
<1>8. ParamsAt(params, 0, 0)
  <2>1. ASSUME ~IsScaled
        PROVE  \E t, s : params = PlainParams(0, t, s) /\ 0 = PlainRowAt(0) /\ HeldAt(0, t, s)
    <3>1. params = PlainParams(0, ty, tu)
      BY <1>3, <1>5, <1>6 DEF PlainParams
    <3>2. 0 = PlainRowAt(0) /\ HeldAt(0, ty, tu)
      BY DEF PlainRowAt, HeldAt, Behind
    <3> QED BY <3>1, <3>2
  <2>2. ASSUME IsScaled, IsLossy
        PROVE  \E t, s, a : /\ params = ScalersAt(0, t, s, 0, UvH(0), 0, a)
                            /\ InStepAt(0, UvH(0), 0) /\ AlphaScalerAt(a, 0, 0)
    <3>1. params = ScalersAt(0, ty, tu, 0, UvH(0), 0, y)
      BY <1>3, <1>5, <1>6, <1>7 DEF ScalersAt
    <3>2. InStepAt(0, UvH(0), 0)
      BY <1>3, <1>4, <1>7 DEF InStepAt
    <3>3. AlphaScalerAt(y, 0, 0)
      <4>1. 0 \in 0..0
        OBVIOUS
      <4> QED BY <1>3, <1>4, <1>5, <4>1 DEF AlphaScalerAt
    <3> QED BY <3>1, <3>2, <3>3
  <2>3. ASSUME IsScaled, ~IsLossy
        PROVE  \E t, s : params = LumaParams(0, t, s, 0, 0) /\ LumaAt(0, 0)
    <3>1. params = LumaParams(0, ty, tu, 0, 0)
      BY <1>3, <1>5, <1>6 DEF LumaParams
    <3>2. LumaAt(0, 0)
      BY <1>3, <1>4 DEF LumaAt
    <3> QED BY <3>1, <3>2
  <2>4. 0 \in Nat
    OBVIOUS
  <2> QED BY <2>1, <2>2, <2>3, <2>4 DEF ParamsAt
<1>9. params.last_y = 0
  BY <1>8, ParamsLast
<1>10. RowsInv
  <2>1. out = [j \in 0..OutHeight - 1 |-> Unwritten]
    BY DEF Init
  <2>2. PICK c : c = Unwritten
    OBVIOUS
  <2>3. DOMAIN out = 0..OutHeight - 1 /\ \A j \in DOMAIN out : out[j] = c
    BY <2>1, <2>2
  <2>4. IsRows(out)
    BY <1>2, <2>1, <2>2, <2>3 DEF IsRows
  <2> QED BY <1>9, <2>3, <2>4 DEF RowsInv
<1>11. row \in 0..LastRow
  BY <1>1, RowsEnd, PictureIs DEF LastRow
<1> QED BY <1>1, <1>7, <1>8, <1>9, <1>10, <1>11 DEF OutputInv

(* Every step keeps the invariant, and the rows that are done.               *)
LEMMA OutputStays ==
  ASSUME OutputInv, [Next]_vars
  PROVE  OutputInv' /\ Kept(params.last_y)
<1>1. CASE FinishRow
  BY <1>1, FinishRowIsRight
<1>2. CASE AlphaFails \/ UNCHANGED vars
  <2>1. UNCHANGED <<pic, row, params, out>>
    BY <1>2 DEF AlphaFails, vars
  <2>2. row \in 0..LastRow
    BY DEF OutputInv
  <2> QED BY <2>1, <2>2, NothingCame
<1>3. ASSUME NEW last \in 1..pic.crop_bottom, ProcessRows(last)
      PROVE  OutputInv' /\ Kept(params.last_y)
  <2>1. last \in Nat
    BY PictureIs DEF OutputInv
  <2> QED BY <1>3, <2>1, ProcessRowsIsRight
<1> QED BY <1>1, <1>2, <1>3 DEF Next

(* The inductive invariant: however the picture comes in pieces, scalers,    *)
(* samples held back and rows of the output are a function of the number of  *)
(* rows that have come.                                                      *)
THEOREM OutputInvariant == Spec => []OutputInv
<1>1. Init => OutputInv
  BY OutputStarts
<1>2. OutputInv /\ [Next]_vars => OutputInv'
  BY OutputStays
<1> QED BY <1>1, <1>2, PTL DEF Spec

(* What the invariant says of the rows of the output.                        *)
LEMMA RowsAreDone ==
  ASSUME OutputInv
  PROVE  /\ pic \in Pictures /\ Came(row) \in Nat /\ Came(row) <= MbH
         /\ params.last_y \in Nat /\ params.last_y <= OutHeight
         /\ OutHeight \in Nat \ {0} /\ MbH \in Nat \ {0}
         /\ DOMAIN out = 0..OutHeight - 1
         /\ \A j \in 0..params.last_y - 1 : out[j] = RightRow(j)
<1>1. pic \in Pictures /\ row \in 0..LastRow /\ ParamsAt(params, Came(row), params.last_y)
  BY DEF OutputInv
<1>2. MbH \in Nat \ {0} /\ OutHeight \in Nat \ {0}
  BY <1>1, PictureSized DEF Sized
<1>3. row \in Nat /\ row <= LastRow
  BY <1>1, RowsEnd, PictureIs DEF LastRow
<1>4. Came(row) \in Nat /\ Came(row) <= MbH
  BY <1>1, <1>3, CameIs
<1>5. params.last_y \in Nat /\ params.last_y <= OutHeight
  BY <1>1, <1>4, ParamsBound
<1> QED BY <1>1, <1>2, <1>4, <1>5 DEF OutputInv, RowsInv

(* Every row that io_dec.c reports as done holds its own luma, chroma and    *)
(* alpha in the right proportions, multiplied once, and so do the columns:   *)
(* for all pictures, sizes of macroblock rows and scaled heights.            *)
THEOREM SharesRight == Spec => []SharesAreRight
<1>1. OutputInv => SharesAreRight
  <2>1. ASSUME OutputInv PROVE RowsAreRight
    <3>1. ASSUME NEW j \in 0..params.last_y - 1
          PROVE  /\ out[j].colour = ColourOf(j) /\ out[j].alpha = AlphaOf(j)
                 /\ out[j].multiplied = (IF HasAlpha /\ Mode = "premultiplied" THEN 1 ELSE 0)
      <4>1. out[j] = [colour |-> ColourOf(j), alpha |-> AlphaOf(j), multiplied |-> Multiplied]
        BY <2>1, <3>1, RowsAreDone DEF RightRow
      <4> QED BY <4>1 DEF Multiplied
    <3> QED BY <3>1 DEF RowsAreRight
  <2>2. ASSUME OutputInv PROVE ColumnsAreRight
    <3>1. PICK h, d : h = MbH /\ d = OutHeight /\ h \in Nat \ {0} /\ d \in Nat \ {0}
      BY <2>2, RowsAreDone
    <3>2. \A k \in 1..d : Columns(h, d)[k].out = Shares(k - 1, h, d)
      BY <3>1, ColumnsAre
    <3> QED BY <3>1, <3>2, Zenon DEF ColumnsAreRight
  <2> QED BY <2>1, <2>2 DEF SharesAreRight
<1> QED BY <1>1, OutputInvariant, PTL

(* A row that was reported as done is never written again.                   *)
THEOREM RowsFinal == Spec => RowsAreFinal
<1>1. OutputInv /\ [Next]_vars => [\A j \in 0..params.last_y - 1 : out'[j] = out[j]]_vars
  <2>1. ASSUME OutputInv, [Next]_vars, NEW j \in 0..params.last_y - 1 PROVE out'[j] = out[j]
    <3>1. j \in DOMAIN out /\ j < params.last_y
      BY <2>1, RowsAreDone
    <3>2. Kept(params.last_y)
      BY <2>1, OutputStays
    <3> QED BY <3>1, <3>2 DEF Kept
  <2> QED BY <2>1
<1> QED BY <1>1, OutputInvariant, PTL DEF RowsAreFinal, Spec

(* A scaler takes no row and gives none past the end.                        *)
LEMMA ScalerEnds ==
  ASSUME NEW h \in Nat \ {0}, NEW d \in Nat \ {0}, NEW m, NEW k, Fits(h, d, m, k),
         NEW s, s = ScalerAt(h, d, m, k)
  PROVE  s.src_y = m /\ s.dst_y = k /\ s.src_y <= s.src_height /\ s.dst_y <= s.dst_height
<1>1. s.src_y = m /\ s.dst_y = k /\ s.src_height = h /\ s.dst_height = d
  BY ScalerFields
<1>2. m \in Nat /\ k \in Nat /\ m <= h /\ k <= d
  BY FitsAtEnd
<1> QED BY <1>1, <1>2

ScalerOk(s) == s.src_y <= s.src_height /\ s.dst_y <= s.dst_height

(* The scalers are within their bounds, and that of the alpha has not come   *)
(* further than the picture.                                                 *)
LEMMA ScalersAreOk ==
  ASSUME OutputInv
  PROVE  /\ ScalerOk(params.scaler_y) /\ ScalerOk(params.scaler_u) /\ ScalerOk(params.scaler_a)
         /\ params.scaler_a.src_y \in 0..Came(row)
         /\ ~IsScaled => params.last_y = PlainRowAt(Came(row))
<1>1. PICK h, u, d, p, n, k : /\ h = MbH /\ u = UvH(MbH) /\ d = OutHeight /\ p = params
                              /\ n = Came(row) /\ k = params.last_y
  OBVIOUS
<1>2. ParamsAt(p, n, k) /\ n \in Nat /\ n <= h
  BY <1>1, RowsAreDone DEF OutputInv
<1>3. h \in Nat \ {0} /\ u \in Nat \ {0} /\ d \in Nat \ {0}
  BY <1>1, RowsAreDone, ChromaHeight
<1>4. Fits(h, d, 0, 0) /\ Fits(u, d, 0, 0)
  BY <1>3, InitScaler
<1>5. PICK y0, u0 : y0 = ScalerAt(h, d, 0, 0) /\ u0 = ScalerAt(u, d, 0, 0)
  OBVIOUS
<1>6. ScalerOk(y0) /\ ScalerOk(u0) /\ y0.src_y = 0
  BY <1>3, <1>4, <1>5, ScalerEnds DEF ScalerOk
<1>7. CASE ~IsScaled
  <2>1. PICK ty, tu : p = PlainParams(k, ty, tu) /\ k = PlainRowAt(n)
    BY <1>2, <1>7 DEF ParamsAt
  <2>2. PICK ok : p = Params(k, ty, tu, ok, y0, u0, y0)
    BY <1>1, <1>5, <2>1 DEF PlainParams
  <2>3. p.scaler_y = y0 /\ p.scaler_u = u0 /\ p.scaler_a = y0
    BY <2>2, ParamsFields
  <2> QED BY <1>1, <1>2, <1>6, <2>1, <2>3
<1>8. CASE IsScaled /\ ~IsLossy
  <2>1. PICK ty, tu : p = LumaParams(k, ty, tu, n, k) /\ LumaAt(n, k)
    BY <1>2, <1>8 DEF ParamsAt
  <2>2. PICK y : y = ScalerAt(h, d, n, k)
    OBVIOUS
  <2>3. PICK ok : p = Params(k, ty, tu, ok, y, u0, y0)
    BY <1>1, <1>5, <2>1, <2>2 DEF LumaParams
  <2>4. p.scaler_y = y /\ p.scaler_u = u0 /\ p.scaler_a = y0
    BY <2>3, ParamsFields
  <2>5. ScalerOk(y)
    BY <1>1, <1>3, <2>1, <2>2, ScalerEnds DEF ScalerOk, LumaAt
  <2> QED BY <1>1, <1>2, <1>6, <1>8, <2>4, <2>5
<1>9. CASE IsScaled /\ IsLossy
  <2>0. PICK c : c = UvH(n)
    OBVIOUS
  <2>1. PICK ty, tu, a : p = ScalersAt(k, ty, tu, n, c, k, a) /\ InStepAt(n, c, k) /\ AlphaScalerAt(a, n, k)
    BY <1>2, <1>9, <2>0 DEF ParamsAt
  <2>2. PICK y, v : y = ScalerAt(h, d, n, k) /\ v = ScalerAt(u, d, c, k)
    OBVIOUS
  <2>3. PICK ok : p = Params(k, ty, tu, ok, y, v, a)
    BY <1>1, <2>1, <2>2 DEF ScalersAt
  <2>4. p.scaler_y = y /\ p.scaler_u = v /\ p.scaler_a = a
    BY <2>3, ParamsFields
  <2>5. ScalerOk(y) /\ ScalerOk(v)
    BY <1>1, <1>3, <2>1, <2>2, ScalerEnds DEF ScalerOk, InStepAt
  <2>6. ScalerOk(a) /\ a.src_y \in 0..n
    <3>1. CASE HasAlpha /\ IsAlphaMode
      <4>1. PICK m \in 0..n : Fits(h, d, m, k) /\ a = ScalerAt(h, d, m, k)
        BY <1>1, <2>1, <3>1 DEF AlphaScalerAt
      <4> QED BY <1>3, <4>1, ScalerEnds DEF ScalerOk
    <3>2. CASE ~(HasAlpha /\ IsAlphaMode)
      <4>1. a = y0
        BY <1>1, <1>5, <2>1, <3>2 DEF AlphaScalerAt
      <4> QED BY <1>2, <1>6, <4>1
    <3> QED BY <3>1, <3>2
  <2> QED BY <1>1, <1>9, <2>4, <2>5, <2>6
<1> QED BY <1>7, <1>8, <1>9

(* No assert of io_dec.c, vp8l_dec.c and rescaler.c fails, and the loops end *)
(* in the rounds that the model gives them.                                  *)
THEOREM AssertsStand == Spec => []AssertsHold
<1>1. OutputInv => AssertsHold
  <2>1. ASSUME OutputInv PROVE params.asserts
    <3>1. ParamsAt(params, Came(row), params.last_y)
      BY <2>1 DEF OutputInv
    <3>2. params.asserts = TRUE
      BY <3>1, ParamsLast
    <3> QED BY <3>2
  <2>2. ASSUME OutputInv PROVE ScalerOk(params.scaler_y) /\ ScalerOk(params.scaler_u) /\ ScalerOk(params.scaler_a)
    BY <2>2, ScalersAreOk
  <2> QED BY <2>1, <2>2 DEF AssertsHold, ScalerOk
<1> QED BY <1>1, OutputInvariant, PTL

(* The last macroblock row brings the last row of the window.                *)
LEMMA AllHasCome ==
  ASSUME OutputInv, row = LastRow
  PROVE  Came(row) = MbH
<1>1. pic \in Pictures /\ MbH + pic.crop_top = pic.crop_bottom /\ MbH \in Nat
  BY PictureSized DEF OutputInv, Sized
<1>2. (IF IsLossy THEN Done(row) ELSE row) = pic.crop_bottom
  <2>1. CASE IsLossy
    <3>1. row = BrMbY /\ BrMbY \in Nat \ {0}
      BY <1>1, <2>1, RowsEnd DEF LastRow
    <3> QED BY <2>1, <3>1 DEF Done
  <2>2. CASE ~IsLossy
    BY <2>2 DEF LastRow
  <2> QED BY <2>1, <2>2
<1> QED BY <1>1, <1>2, PictureIs DEF Came, MaxOf

(* Then every row of the output is done, and both scalers have used all of   *)
(* their source.                                                             *)
LEMMA AllComes ==
  ASSUME OutputInv, row = LastRow
  PROVE  /\ params.last_y = OutHeight
         /\ IsScaled => /\ params.scaler_y.src_y = MbH
                        /\ IsLossy => params.scaler_u.src_y = UvH(MbH)
<1>1. PICK h, u, d, p, k : /\ h = MbH /\ u = UvH(MbH) /\ d = OutHeight /\ p = params
                           /\ k = params.last_y
  OBVIOUS
<1>2. ParamsAt(p, h, k) /\ pic \in Pictures
  BY <1>1, AllHasCome DEF OutputInv
<1>3. h \in Nat \ {0} /\ u \in Nat \ {0} /\ d \in Nat \ {0} /\ k \in Nat /\ k <= d
  BY <1>1, RowsAreDone, ChromaHeight
<1>4. CASE ~IsScaled
  <2>1. k = PlainRowAt(h)
    BY <1>2, <1>4 DEF ParamsAt
  <2>2. k = h
    BY <1>1, <1>3, <2>1 DEF PlainRowAt, Behind
  <2>3. d = h
    BY <1>1, <1>2, <1>4, PictureSized
  <2> QED BY <1>1, <1>4, <2>2, <2>3
<1>5. CASE IsScaled /\ ~IsLossy
  <2>1. PICK ty, tu : p = LumaParams(k, ty, tu, h, k) /\ LumaAt(h, k)
    BY <1>2, <1>5 DEF ParamsAt
  <2>2. Fits(h, d, h, k) /\ ~Ready(h, d, h, k)
    BY <1>1, <2>1 DEF LumaAt
  <2>3. k = d
    BY <1>3, <2>2, FitsAtEnd
  <2>4. PICK y, v, a, ok : y = ScalerAt(h, d, h, k) /\ p = Params(k, ty, tu, ok, y, v, a)
    BY <1>1, <2>1 DEF LumaParams
  <2>5. p.scaler_y = y
    BY <2>4, ParamsFields
  <2>6. y.src_y = h
    BY <1>3, <2>2, <2>4, ScalerEnds
  <2> QED BY <1>1, <1>5, <2>3, <2>5, <2>6
<1>6. CASE IsScaled /\ IsLossy
  <2>1. PICK ty, tu, a : p = ScalersAt(k, ty, tu, h, UvH(h), k, a) /\ InStepAt(h, UvH(h), k)
    BY <1>2, <1>6 DEF ParamsAt
  <2>2. Fits(h, d, h, k) /\ Fits(u, d, u, k) /\ ~(Ready(h, d, h, k) /\ Ready(u, d, u, k))
    BY <1>1, <2>1 DEF InStepAt
  <2>3. k = d
    <3>1. ASSUME k < d PROVE FALSE
      <4>1. k \in 0..d - 1
        BY <1>3, <3>1
      <4> QED BY <1>3, <2>2, <4>1, ReadyEnds
    <3> QED BY <1>3, <3>1
  <2>4. PICK y, v, ok : /\ y = ScalerAt(h, d, h, k) /\ v = ScalerAt(u, d, u, k)
                        /\ p = Params(k, ty, tu, ok, y, v, a)
    BY <1>1, <2>1 DEF ScalersAt
  <2>5. p.scaler_y = y /\ p.scaler_u = v
    BY <2>4, ParamsFields
  <2>6. y.src_y = h /\ v.src_y = u
    BY <1>3, <2>2, <2>4, ScalerEnds
  <2> QED BY <1>1, <1>6, <2>3, <2>5, <2>6
<1> QED BY <1>4, <1>5, <1>6

(* Nothing of the picture is left behind, in the upsampler, in a scaler or   *)
(* in the rows that the filter holds back.                                   *)
THEOREM NothingIsLeftBehind == Spec => []AllRowsCome
<1>1. OutputInv => AllRowsCome
  BY AllComes DEF AllRowsCome, LastRow
<1> QED BY <1>1, OutputInvariant, PTL

-----------------------------------------------------------------------------
\* The alpha plane.
(* The alpha plane and its decoder, and their updates.                       *)
Plane(pl, in, de, sm, pv, lr, ab) ==
  [plane |-> pl, initialized |-> in, decoded |-> de, smoothed |-> sm, prev_line |-> pv,
   last_row |-> lr, above |-> ab]

IsPlane(a) == \E pl, in, de, sm, pv, lr, ab : a = Plane(pl, in, de, sm, pv, lr, ab)

WithAbove(a, f, v) == [a EXCEPT !.above = f, !.prev_line = v]
WithPlaneRow(a, x) == [a EXCEPT !.last_row = x]
WithDecoded(a, b) == [a EXCEPT !.decoded = b]
Started(a) == [a EXCEPT !.plane = TRUE, !.initialized = TRUE]
Smoothed(a, b) == [a EXCEPT !.initialized = FALSE, !.smoothed = b]

(* The alpha decoder with one or two of its fields set.                      *)
LEMMA PlaneUpdates ==
  ASSUME NEW a, IsPlane(a), NEW f, NEW v, NEW x, NEW b
  PROVE  /\ \E q : /\ q = WithAbove(a, f, v) /\ IsPlane(q)
                   /\ q.above = f /\ q.prev_line = v /\ q.last_row = a.last_row
                   /\ q.plane = a.plane /\ q.initialized = a.initialized
         /\ \E q : /\ q = WithPlaneRow(a, x) /\ IsPlane(q)
                   /\ q.above = a.above /\ q.prev_line = a.prev_line /\ q.last_row = x
                   /\ q.plane = a.plane /\ q.initialized = a.initialized
         /\ \E q : /\ q = WithDecoded(a, b) /\ IsPlane(q) /\ q.decoded = b
                   /\ q.above = a.above /\ q.prev_line = a.prev_line /\ q.last_row = a.last_row
                   /\ q.plane = a.plane /\ q.initialized = a.initialized
<1>1. PICK pl, in, de, sm, pv, lr, ab : a = Plane(pl, in, de, sm, pv, lr, ab)
  BY DEF IsPlane
<1>2. a = [plane |-> pl, initialized |-> in, decoded |-> de, smoothed |-> sm, prev_line |-> pv,
           last_row |-> lr, above |-> ab]
  BY <1>1 DEF Plane
<1>3. PICK q1 : q1 = [a EXCEPT !.above = f]
  OBVIOUS
<1>4. q1 = [plane |-> pl, initialized |-> in, decoded |-> de, smoothed |-> sm, prev_line |-> pv,
            last_row |-> lr, above |-> f]
  BY <1>2, <1>3
<1>5. PICK q2 : q2 = [q1 EXCEPT !.prev_line = v]
  OBVIOUS
<1>6. q2 = [plane |-> pl, initialized |-> in, decoded |-> de, smoothed |-> sm, prev_line |-> v,
            last_row |-> lr, above |-> f]
  BY <1>4, <1>5
<1>7. q2 = WithAbove(a, f, v)
  BY <1>3, <1>5, Zenon DEF WithAbove
<1>8. PICK q3 : q3 = [a EXCEPT !.last_row = x]
  OBVIOUS
<1>9. q3 = [plane |-> pl, initialized |-> in, decoded |-> de, smoothed |-> sm, prev_line |-> pv,
            last_row |-> x, above |-> ab]
  BY <1>2, <1>8
<1>10. PICK q4 : q4 = [a EXCEPT !.decoded = b]
  OBVIOUS
<1>11. q4 = [plane |-> pl, initialized |-> in, decoded |-> b, smoothed |-> sm, prev_line |-> pv,
             last_row |-> lr, above |-> ab]
  BY <1>2, <1>10
<1>12. IsPlane(q2) /\ IsPlane(q3) /\ IsPlane(q4)
  <2>1. q2 = Plane(pl, in, de, sm, v, lr, f)
    BY <1>6 DEF Plane
  <2>2. q3 = Plane(pl, in, de, sm, pv, x, ab)
    BY <1>9 DEF Plane
  <2>3. q4 = Plane(pl, in, b, sm, pv, lr, ab)
    BY <1>11 DEF Plane
  <2> QED BY <2>1, <2>2, <2>3 DEF IsPlane
<1>13. /\ q2.above = f /\ q2.prev_line = v /\ q2.last_row = a.last_row
       /\ q2.plane = a.plane /\ q2.initialized = a.initialized
  BY <1>2, <1>6
<1>14. /\ q3.above = a.above /\ q3.prev_line = a.prev_line /\ q3.last_row = x
       /\ q3.plane = a.plane /\ q3.initialized = a.initialized
  BY <1>2, <1>9
<1>15. /\ q4.decoded = b
       /\ q4.above = a.above /\ q4.prev_line = a.prev_line /\ q4.last_row = a.last_row
       /\ q4.plane = a.plane /\ q4.initialized = a.initialized
  BY <1>2, <1>11
<1>16. q3 = WithPlaneRow(a, x) /\ q4 = WithDecoded(a, b)
  BY <1>8, <1>10 DEF WithPlaneRow, WithDecoded
<1> QED BY <1>7, <1>12, <1>13, <1>14, <1>15, <1>16

(* The alpha decoder after its first call.                                   *)
LEMMA PlaneStarts ==
  ASSUME NEW a, IsPlane(a)
  PROVE  \E q : /\ q = Started(a) /\ IsPlane(q) /\ q.plane = TRUE /\ q.initialized = TRUE
                /\ q.above = a.above /\ q.prev_line = a.prev_line /\ q.last_row = a.last_row
<1>1. PICK pl, in, de, sm, pv, lr, ab : a = Plane(pl, in, de, sm, pv, lr, ab)
  BY DEF IsPlane
<1>2. a = [plane |-> pl, initialized |-> in, decoded |-> de, smoothed |-> sm, prev_line |-> pv,
           last_row |-> lr, above |-> ab]
  BY <1>1 DEF Plane
<1>3. PICK z : z = TRUE
  OBVIOUS
<1>4. PICK q1 : q1 = [a EXCEPT !.plane = z]
  OBVIOUS
<1>5. q1 = [plane |-> z, initialized |-> in, decoded |-> de, smoothed |-> sm, prev_line |-> pv,
            last_row |-> lr, above |-> ab]
  BY <1>2, <1>4
<1>6. PICK q2 : q2 = [q1 EXCEPT !.initialized = z]
  OBVIOUS
<1>7. q2 = [plane |-> z, initialized |-> z, decoded |-> de, smoothed |-> sm, prev_line |-> pv,
            last_row |-> lr, above |-> ab]
  BY <1>5, <1>6
<1>8. q2 = Started(a)
  BY <1>3, <1>4, <1>6, Zenon DEF Started
<1>9. IsPlane(q2)
  BY <1>7 DEF IsPlane, Plane
<1>10. /\ q2.plane = z /\ q2.initialized = z
       /\ q2.above = a.above /\ q2.prev_line = a.prev_line /\ q2.last_row = a.last_row
  BY <1>2, <1>7
<1> QED BY <1>3, <1>8, <1>9, <1>10

(* The alpha decoder after its last call.                                    *)
LEMMA PlaneEnds ==
  ASSUME NEW a, IsPlane(a), NEW b
  PROVE  \E q : /\ q = Smoothed(a, b) /\ IsPlane(q) /\ q.smoothed = b
                /\ q.decoded = a.decoded /\ q.plane = a.plane /\ q.above = a.above
<1>1. PICK pl, in, de, sm, pv, lr, ab : a = Plane(pl, in, de, sm, pv, lr, ab)
  BY DEF IsPlane
<1>2. a = [plane |-> pl, initialized |-> in, decoded |-> de, smoothed |-> sm, prev_line |-> pv,
           last_row |-> lr, above |-> ab]
  BY <1>1 DEF Plane
<1>3. PICK z : z = FALSE
  OBVIOUS
<1>4. PICK q1 : q1 = [a EXCEPT !.initialized = z]
  OBVIOUS
<1>5. q1 = [plane |-> pl, initialized |-> z, decoded |-> de, smoothed |-> sm, prev_line |-> pv,
            last_row |-> lr, above |-> ab]
  BY <1>2, <1>4
<1>6. PICK q2 : q2 = [q1 EXCEPT !.smoothed = b]
  OBVIOUS
<1>7. q2 = [plane |-> pl, initialized |-> z, decoded |-> de, smoothed |-> b, prev_line |-> pv,
            last_row |-> lr, above |-> ab]
  BY <1>5, <1>6
<1>8. q2 = Smoothed(a, b)
  BY <1>3, <1>4, <1>6, Zenon DEF Smoothed
<1>9. IsPlane(q2)
  BY <1>7 DEF IsPlane, Plane
<1> QED BY <1>2, <1>7, <1>8, <1>9

(* The rows of alpha as far as x, and what is kept of them for the next.     *)
Filled(a, x) ==
  /\ DecodedTo(a, x)
  /\ pic.alpha # "raw" => a.last_row = x
  /\ pic.filter # "none" => a.prev_line = x - 1

(* A plane of alpha as far as row x, with more of it to come or not.         *)
IsAlphaPlane(a, x, more) ==
  /\ IsPlane(a)
  /\ a.decoded => /\ a.plane /\ DecodedTo(a, pic.crop_bottom)
                  /\ pic.levels /\ pic.dithering => a.smoothed
  /\ ~a.decoded => more /\ Filled(a, x)

(* The inductive invariant of the alpha plane: it has come as far as the     *)
(* macroblock rows, and no call has been left out.                           *)
PlaneInv ==
  HasAlpha /\ status = "ok" =>
    /\ IsAlphaPlane(alpha, Done(row), row < BrMbY)
    /\ row = 0 => ~alpha.decoded /\ ~alpha.initialized
    /\ row > 0 => alpha.plane /\ (alpha.decoded \/ (alpha.initialized /\ ~pic.levels))

Keeps(a, b) == a.plane = b.plane /\ a.initialized = b.initialized

(* Unfiltering the rows from s on, which may leave out rows above the        *)
(* window, decodes as far as n: from the row above each, if that matters.    *)
LEMMA UnfilteredFills ==
  ASSUME pic \in Pictures, NEW a, IsPlane(a), NEW f \in Nat, NEW s \in Nat, NEW n \in Nat,
         f < n, DecodedTo(a, f), f <= s, s <= MaxOf(f, pic.crop_top),
         pic.filter # "none" => a.prev_line = f - 1 /\ s = f
  PROVE  LET q == Unfiltered(a, s, MaxOf(n, s))
         IN /\ IsPlane(q) /\ Keeps(q, a) /\ q.last_row = a.last_row
            /\ DecodedTo(q, n)
            /\ pic.filter # "none" => q.prev_line = n - 1
<1> DEFINE m == MaxOf(n, s)
           ab == [r \in DOMAIN a.above \union s..m - 1 |->
                    IF r < s \/ r >= m THEN a.above[r]
                    ELSE IF r = s THEN a.prev_line ELSE r - 1]
           v == IF s < m THEN m - 1 ELSE a.prev_line
<1>1. m \in Nat /\ m >= n /\ m >= s /\ (s = f => m = n)
  BY DEF MaxOf
<1>2. Unfiltered(a, s, m) = WithAbove(a, ab, v)
  BY Zenon DEF Unfiltered, WithAbove
<1>3. PICK q : /\ q = WithAbove(a, ab, v) /\ IsPlane(q)
               /\ q.above = ab /\ q.prev_line = v /\ q.last_row = a.last_row
               /\ q.plane = a.plane /\ q.initialized = a.initialized
  <2> HIDE DEF ab, v
  <2> QED BY PlaneUpdates
<1>4. DecodedTo(q, n)
  <2>1. ASSUME NEW r \in pic.crop_top..n - 1
        PROVE  r \in DOMAIN q.above /\ (pic.filter # "none" => q.above[r] = r - 1)
    <3>0. r \in Int /\ pic.crop_top \in Nat /\ pic.crop_top <= r /\ r < n
      BY PictureIs
    <3>1. CASE r < f
      <4>1. r \in pic.crop_top..f - 1
        BY <3>0, <3>1
      <4>2. r \in DOMAIN a.above /\ (pic.filter # "none" => a.above[r] = r - 1)
        BY <4>1 DEF DecodedTo
      <4>3. r \in DOMAIN ab /\ ab[r] = a.above[r]
        BY <3>0, <3>1, <4>2
      <4> QED BY <1>3, <4>2, <4>3
    <3>2. CASE ~(r < f)
      <4>1. r >= s /\ r < m
        BY <1>1, <3>0, <3>2 DEF MaxOf
      <4>2. r \in DOMAIN ab /\ ab[r] = (IF r = s THEN a.prev_line ELSE r - 1)
        BY <1>1, <3>0, <4>1
      <4> QED BY <1>3, <4>2
    <3> QED BY <3>1, <3>2
  <2> QED BY <2>1 DEF DecodedTo
<1>5. pic.filter # "none" => q.prev_line = n - 1
  BY <1>1, <1>3
<1> HIDE DEF m, ab, v
<1>6. Unfiltered(a, s, MaxOf(n, s)) = q
  BY <1>2, <1>3 DEF m
<1> QED BY <1>3, <1>4, <1>5, <1>6 DEF Keeps

(* ALPHDecode (src/dec/alpha_dec.c): the plane is decoded as far as was      *)
(* asked for, raw or compressed, and the next call begins there.             *)
LEMMA ALPHDecodeFills ==
  ASSUME pic \in Pictures, ~WrongAlpha(pic), NEW a, IsPlane(a), NEW f \in Nat, NEW n \in Nat,
         f < n, Filled(a, f), NEW z, z = (n >= pic.crop_bottom)
  PROVE  \E q : /\ q = ALPHDecode(a, f, n) /\ IsPlane(q) /\ q.decoded = z
                /\ Keeps(q, a) /\ Filled(q, n)
<1>1. /\ DecodedTo(a, f) /\ (pic.alpha # "raw" => a.last_row = f)
      /\ (pic.filter # "none" => a.prev_line = f - 1)
  BY DEF Filled
<1>2. PICK d : /\ d = (IF pic.alpha = "raw" THEN Unfiltered(a, f, n)
                       ELSE IF a.last_row >= n THEN a ELSE Extracted(a, n))
  OBVIOUS
<1>3. ALPHDecode(a, f, n) = WithDecoded(d, z)
  BY <1>2, Zenon DEF ALPHDecode, WithDecoded
<1>4. IsPlane(d) /\ Keeps(d, a) /\ Filled(d, n)
  <2>1. CASE pic.alpha = "raw"
    <3>1. MaxOf(n, f) = n /\ f <= MaxOf(f, pic.crop_top)
      BY PictureIs DEF MaxOf
    <3>2. d = Unfiltered(a, f, MaxOf(n, f))
      BY <1>2, <2>1, <3>1
    <3>3. /\ IsPlane(d) /\ Keeps(d, a) /\ DecodedTo(d, n)
          /\ pic.filter # "none" => d.prev_line = n - 1
      BY <1>1, <3>1, <3>2, UnfilteredFills
    <3> QED BY <2>1, <3>3 DEF Filled
  <2>2. CASE pic.alpha # "raw"
    <3>1. a.last_row = f /\ d = Extracted(a, n)
      BY <1>1, <1>2, <2>2
    <3>2. PICK top : top = IF pic.alpha = "paletted" /\ pic.filter \in {"none", "horizontal"}
                           THEN pic.crop_top ELSE a.last_row
      OBVIOUS
    <3>3. PICK s \in Nat : /\ s = MaxOf(a.last_row, top)
                           /\ f <= s /\ s <= MaxOf(f, pic.crop_top)
                           /\ pic.filter # "none" => s = f
      <4>1. CASE pic.alpha = "paletted" /\ pic.filter \in {"none", "horizontal"}
        <5>1. top = pic.crop_top
          BY <3>2, <4>1
        <5>2. pic.filter # "none" => pic.crop_top = 0
          BY <4>1, PictureIs DEF WrongAlpha
        <5> QED BY <3>1, <5>1, <5>2, PictureIs DEF MaxOf
      <4>2. CASE ~(pic.alpha = "paletted" /\ pic.filter \in {"none", "horizontal"})
        BY <3>1, <3>2, <4>2, PictureIs DEF MaxOf
      <4> QED BY <4>1, <4>2
    <3>4. PICK u : u = Unfiltered(a, s, MaxOf(n, s))
      OBVIOUS
    <3>5. /\ IsPlane(u) /\ Keeps(u, a) /\ DecodedTo(u, n)
          /\ pic.filter # "none" => u.prev_line = n - 1
      BY <1>1, <3>3, <3>4, UnfilteredFills
    <3>6. d = WithPlaneRow(u, n)
      BY <3>1, <3>2, <3>3, <3>4, Zenon DEF Extracted, WithPlaneRow
    <3>7. /\ IsPlane(d) /\ d.above = u.above /\ d.prev_line = u.prev_line /\ d.last_row = n
          /\ d.plane = u.plane /\ d.initialized = u.initialized
      BY <3>5, <3>6, PlaneUpdates
    <3>8. DecodedTo(d, n)
      BY <3>5, <3>7 DEF DecodedTo
    <3> QED BY <3>5, <3>7, <3>8 DEF Filled, Keeps
  <2> QED BY <2>1, <2>2
<1>5. PICK q : /\ q = WithDecoded(d, z) /\ IsPlane(q) /\ q.decoded = z
               /\ q.above = d.above /\ q.prev_line = d.prev_line /\ q.last_row = d.last_row
               /\ q.plane = d.plane /\ q.initialized = d.initialized
  BY <1>4, PlaneUpdates
<1>6. Keeps(q, a) /\ Filled(q, n)
  <2>1. DecodedTo(q, n)
    BY <1>4, <1>5 DEF DecodedTo, Filled
  <2> QED BY <1>4, <1>5, <2>1 DEF Filled, Keeps
<1> QED BY <1>3, <1>5, <1>6

(* A call of VP8DecompressAlphaRows for the rows that FinishRow takes up.    *)
LEMMA DecompressFills ==
  ASSUME pic \in Pictures, ~WrongAlpha(pic), NEW f \in Nat, NEW l \in Nat, f < l,
         l <= pic.crop_bottom, NEW more \in BOOLEAN, ~more => l = pic.crop_bottom,
         IsPlane(alpha), ~alpha.decoded, Filled(alpha, f),
         alpha.initialized => ~pic.levels
  PROVE  /\ IsAlphaPlane(DecompressAlphaRows(f, l), l, more)
         /\ DecompressAlphaRows(f, l).plane
         /\ ~DecompressAlphaRows(f, l).decoded =>
              DecompressAlphaRows(f, l).initialized /\ ~pic.levels
<1>1. PICK n : n = IF ~alpha.initialized /\ pic.levels THEN pic.crop_bottom ELSE l
  OBVIOUS
<1>2. n \in Nat /\ f < n /\ l <= n /\ n <= pic.crop_bottom /\ (n # pic.crop_bottom => n = l /\ ~pic.levels)
  BY <1>1, PictureIs
<1>3. PICK a : /\ a = Started(alpha) /\ IsPlane(a) /\ a.plane = TRUE /\ a.initialized = TRUE
               /\ a.above = alpha.above /\ a.prev_line = alpha.prev_line
               /\ a.last_row = alpha.last_row
  BY PlaneStarts
<1>4. Filled(a, f)
  BY <1>3 DEF Filled, DecodedTo
<1>5. PICK z : z = (n >= pic.crop_bottom)
  OBVIOUS
<1>6. PICK d : /\ d = ALPHDecode(a, f, n) /\ IsPlane(d) /\ d.decoded = z
               /\ Keeps(d, a) /\ Filled(d, n)
  BY <1>2, <1>3, <1>4, <1>5, ALPHDecodeFills
<1>7. PICK x : x = DecompressAlphaRows(f, l)
  OBVIOUS
<1>8. x = IF ~d.decoded THEN d ELSE Smoothed(d, pic.levels /\ pic.dithering)
  BY <1>1, <1>3, <1>6, <1>7, Zenon DEF DecompressAlphaRows, Started, Smoothed
<1>9. d.plane = TRUE /\ d.initialized = TRUE
  BY <1>3, <1>6 DEF Keeps
<1>10. CASE d.decoded
  <2>1. n = pic.crop_bottom
    <3>1. n >= pic.crop_bottom
      BY <1>5, <1>6, <1>10, Zenon
    <3> QED BY <1>2, <3>1, PictureIs
  <2>2. PICK b : b = (pic.levels /\ pic.dithering)
    OBVIOUS
  <2>3. x = Smoothed(d, b)
    BY <1>8, <1>10, <2>2
  <2>4. /\ IsPlane(x) /\ x.smoothed = b /\ x.decoded = d.decoded /\ x.plane = d.plane
        /\ x.above = d.above
    BY <1>6, <2>3, PlaneEnds
  <2>5. DecodedTo(x, pic.crop_bottom)
    BY <1>6, <2>1, <2>4 DEF Filled, DecodedTo
  <2>6. pic.levels /\ pic.dithering => x.smoothed
    BY <2>2, <2>4
  <2>7. x.plane /\ x.decoded
    BY <1>9, <1>10, <2>4
  <2> QED BY <1>7, <2>4, <2>5, <2>6, <2>7 DEF IsAlphaPlane
<1>11. CASE ~d.decoded
  <2>1. x = d
    BY <1>8, <1>11
  <2>2. n # pic.crop_bottom
    <3>1. ~(n >= pic.crop_bottom)
      BY <1>5, <1>6, <1>11, Zenon
    <3> QED BY <3>1, PictureIs
  <2>3. n = l /\ ~pic.levels /\ more
    BY <1>2, <2>2
  <2>4. x.plane /\ x.initialized /\ ~x.decoded
    BY <1>9, <1>11, <2>1
  <2> QED BY <1>6, <1>7, <2>1, <2>3, <2>4 DEF IsAlphaPlane
<1> QED BY <1>10, <1>11

(* No alpha has been asked for at first.                                     *)
LEMMA PlaneBegins ==
  ASSUME Init
  PROVE  PlaneInv
<1>1. pic \in Pictures /\ row = 0 /\ alpha = NoPlane
  BY DEF Init
<1>2. PICK no : no = FALSE
  OBVIOUS
<1>3. PICK ab : ab = [r \in {} |-> -1]
  OBVIOUS
<1>4. alpha = [plane |-> no, initialized |-> no, decoded |-> no, smoothed |-> no,
               prev_line |-> -1, last_row |-> 0, above |-> ab]
  BY <1>1, <1>2, <1>3, Zenon DEF NoPlane
<1>5. IsPlane(alpha)
  BY <1>4 DEF IsPlane, Plane
<1>6. alpha.decoded = no /\ alpha.initialized = no /\ alpha.prev_line = -1 /\ alpha.last_row = 0
  BY <1>4
<1>7. Done(row) = 0 /\ row < BrMbY
  BY <1>1, RowsEnd DEF Done
<1>8. Filled(alpha, 0)
  <2>1. DecodedTo(alpha, 0)
    BY <1>1, PictureIs DEF DecodedTo
  <2> QED BY <1>6, <2>1 DEF Filled
<1>9. ~alpha.decoded /\ ~alpha.initialized
  BY <1>2, <1>6
<1>10. IsAlphaPlane(alpha, Done(row), row < BrMbY)
  BY <1>5, <1>7, <1>8, <1>9 DEF IsAlphaPlane
<1> QED BY <1>1, <1>9, <1>10 DEF PlaneInv

(* A plane that has been decoded stays, as far as it goes.                   *)
LEMMA DecompressIsRight ==
  ASSUME pic \in Pictures, ~WrongAlpha(pic), row \in Nat, row < BrMbY, HasAlpha, PlaneInv,
         status = "ok", NEW x, x = DecompressAlphaRows(YStart, YEnd)
  PROVE  /\ IsAlphaPlane(x, Done(row + 1), row + 1 < BrMbY)
         /\ x.plane /\ (x.decoded \/ (x.initialized /\ ~pic.levels))
<1>1. PICK f \in Nat, l \in Nat :
        /\ f = YStart /\ l = YEnd /\ f = Done(row) /\ l = Done(row + 1) /\ f < l
        /\ l <= pic.crop_bottom /\ (~(row + 1 < BrMbY) => l = pic.crop_bottom)
  BY RowIs, RowsEnd
<1>2. PICK more \in BOOLEAN : more = (row + 1 < BrMbY)
  <2>1. (row + 1 < BrMbY) \in BOOLEAN
    BY RowsEnd
  <2> QED BY <2>1, Zenon
<1>3. /\ IsAlphaPlane(alpha, f, row < BrMbY)
      /\ row = 0 => ~alpha.decoded /\ ~alpha.initialized
      /\ row > 0 => alpha.plane /\ (alpha.decoded \/ (alpha.initialized /\ ~pic.levels))
  BY <1>1 DEF PlaneInv
<1>4. CASE alpha.decoded
  <2>1. x = alpha
    BY <1>4, Zenon DEF DecompressAlphaRows
  <2>2. row > 0
    BY <1>3, <1>4
  <2> QED BY <1>3, <1>4, <2>1, <2>2 DEF IsAlphaPlane
<1>5. CASE ~alpha.decoded
  <2>1. IsPlane(alpha) /\ Filled(alpha, f) /\ (alpha.initialized => ~pic.levels)
    BY <1>3, <1>5 DEF IsAlphaPlane
  <2>2. ~more => l = pic.crop_bottom
    BY <1>1, <1>2
  <2>3. x = DecompressAlphaRows(f, l)
    BY <1>1
  <2>4. /\ IsAlphaPlane(x, l, more) /\ x.plane
        /\ ~x.decoded => x.initialized /\ ~pic.levels
    BY <1>1, <1>5, <2>1, <2>2, <2>3, DecompressFills
  <2>5. IsAlphaPlane(x, l, row + 1 < BrMbY)
    BY <1>2, <2>4 DEF IsAlphaPlane
  <2> QED BY <1>1, <2>4, <2>5
<1> QED BY <1>4, <1>5

(* What an alpha plane should be depends on the picture only.                *)
LEMMA AlphaPlaneStays ==
  ASSUME UNCHANGED pic, NEW a, NEW x, NEW m, IsAlphaPlane(a, x, m)
  PROVE  IsAlphaPlane(a, x, m)'
<1>1. pic' = pic
  OBVIOUS
<1>2. \A y : DecodedTo(a, y)' <=> DecodedTo(a, y)
  BY <1>1 DEF DecodedTo
<1>3. Filled(a, x)' <=> Filled(a, x)
  BY <1>1, <1>2 DEF Filled
<1>4. IsPlane(a)' <=> IsPlane(a)
  BY DEF IsPlane
<1> QED BY <1>1, <1>2, <1>3, <1>4 DEF IsAlphaPlane

(* FinishRow asks for the alpha of the rows that it takes up.                *)
LEMMA FinishRowFills ==
  ASSUME OutputInv, PlaneInv, ~WrongAlpha(pic), FinishRow
  PROVE  PlaneInv'
<1>1. /\ pic \in Pictures /\ row \in Nat /\ row < BrMbY /\ row' = row + 1 /\ status = "ok"
      /\ status' = status /\ pic' = pic /\ IsLossy
  BY DEF OutputInv, FinishRow, FinishesRow, LastRow
<1>2. HasAlpha' = HasAlpha /\ BrMbY' = BrMbY
  BY <1>1, PictureStays
<1>3. ASSUME HasAlpha PROVE PlaneInv'
  <2>1. YStart < YEnd
    BY <1>1, RowIs
  <2>2. PICK x : x = DecompressAlphaRows(YStart, YEnd) /\ x = alpha'
    BY <1>3, <2>1 DEF FinishRow
  <2>3. /\ IsAlphaPlane(x, Done(row + 1), row + 1 < BrMbY)
        /\ x.plane /\ (x.decoded \/ (x.initialized /\ ~pic.levels))
    BY <1>1, <1>3, <2>2, DecompressIsRight
  <2>4. PICK r, d, m : /\ r = row + 1 /\ d = Done(row + 1) /\ m = (row + 1 < BrMbY)
    OBVIOUS
  <2>5. IsAlphaPlane(x, d, m)
    BY <2>3, <2>4
  <2>6. IsAlphaPlane(x, d, m)'
    BY <1>1, <2>5, AlphaPlaneStays
  <2>7. Done(row)' = d
    BY <1>1, <2>4, CameStays
  <2>8. m = (row < BrMbY)'
    BY <1>1, <1>2, <2>4
  <2>9. IsAlphaPlane(alpha, Done(row), row < BrMbY)'
    BY <2>2, <2>6, <2>7, <2>8
  <2>10. row' > 0
    BY <1>1
  <2>11. alpha'.plane /\ (alpha'.decoded \/ (alpha'.initialized /\ ~pic'.levels))
    BY <1>1, <2>2, <2>3
  <2> QED BY <2>9, <2>10, <2>11 DEF PlaneInv
<1> QED BY <1>2, <1>3 DEF PlaneInv

(* Every step keeps the alpha plane as far as the macroblock rows have come. *)
LEMMA PlaneStays ==
  ASSUME OutputInv, PlaneInv, \A p \in Pictures : ~WrongAlpha(p), [Next]_vars
  PROVE  PlaneInv'
<1>1. ~WrongAlpha(pic)
  BY DEF OutputInv
<1>2. CASE FinishRow
  BY <1>1, <1>2, FinishRowFills
<1>3. CASE AlphaFails
  BY <1>3 DEF AlphaFails, PlaneInv
<1>4. ASSUME NEW last \in 1..pic.crop_bottom, ProcessRows(last) PROVE PlaneInv'
  <2>1. ~HasAlpha /\ pic' = pic
    BY <1>4 DEF ProcessRows, HasAlpha
  <2>2. ~HasAlpha'
    BY <2>1, PictureStays
  <2> QED BY <2>2 DEF PlaneInv
<1>5. CASE UNCHANGED vars
  <2>1. pic' = pic /\ row' = row /\ alpha' = alpha /\ status' = status
    BY <1>5 DEF vars
  <2>2. PICK a, d, r, m : a = alpha /\ d = Done(row) /\ r = row /\ m = (row < BrMbY)
    OBVIOUS
  <2>3. HasAlpha' = HasAlpha /\ BrMbY' = BrMbY /\ Done(row)' = d
    BY <2>1, <2>2, PictureStays, CameStays
  <2>4. ASSUME IsAlphaPlane(alpha, Done(row), row < BrMbY)
        PROVE  IsAlphaPlane(alpha, Done(row), row < BrMbY)'
    <3>1. IsAlphaPlane(a, d, m)'
      BY <2>1, <2>2, <2>4, AlphaPlaneStays
    <3>2. m = (row < BrMbY)' /\ a = alpha'
      BY <2>1, <2>2, <2>3
    <3> QED BY <2>3, <3>1, <3>2
  <2> QED BY <2>1, <2>3, <2>4 DEF PlaneInv
<1> QED BY <1>2, <1>3, <1>4, <1>5 DEF Next

(* The rows of the window that have been used are rows that FinishRow has    *)
(* taken up.                                                                 *)
LEMMA AlphaIsDecoded ==
  ASSUME OutputInv, PlaneInv
  PROVE  AlphaIsReady
<1> SUFFICES ASSUME HasAlpha, status = "ok", NEW r \in pic.crop_top..pic.crop_bottom - 1,
                    \/ IsScaled /\ r < pic.crop_top + params.scaler_a.src_y
                    \/ ~IsScaled /\ r < pic.crop_top + params.last_y
             PROVE  /\ alpha.plane /\ r \in DOMAIN alpha.above
                    /\ pic.filter # "none" => alpha.above[r] = r - 1
                    /\ pic.levels /\ pic.dithering => alpha.smoothed
  BY DEF AlphaIsReady
<1>1. PICK t \in Nat, b \in Nat : t = pic.crop_top /\ b = pic.crop_bottom /\ t < b
  BY PictureIs DEF OutputInv
<1>2. PICK n \in Nat : n = Came(row) /\ r < t + n
  <2>1. PICK n \in Nat : n = Came(row)
    BY RowsAreDone
  <2>2. CASE IsScaled
    BY <1>1, <2>1, <2>2, ScalersAreOk
  <2>3. CASE ~IsScaled
    <3>1. PICK m \in Nat : m = params.last_y /\ m <= n
      <4>1. params.last_y = PlainRowAt(n) /\ params.last_y \in Nat
        BY <2>1, <2>3, ScalersAreOk, RowsAreDone
      <4>2. PlainRowAt(n) <= n
        BY <2>1 DEF PlainRowAt, Behind
      <4> QED BY <4>1, <4>2
    <3> QED BY <1>1, <2>1, <2>3, <3>1
  <2> QED BY <2>1, <2>2, <2>3
<1>3. row \in Nat /\ row <= BrMbY /\ pic \in Pictures /\ IsLossy
  BY RowsEnd DEF OutputInv, LastRow, HasAlpha
<1>4. PICK d \in Nat : d = Done(row) /\ r < d
  <2>1. Done(row) \in Nat
    <3>1. CASE row < BrMbY
      BY <1>3, <3>1, RowIs
    <3>2. CASE row = BrMbY
      BY <1>1, <1>3, <3>2, RowsEnd DEF Done
    <3> QED BY <1>3, <3>1, <3>2, RowsEnd
  <2>2. n = MaxOf(Done(row) - t, 0)
    BY <1>1, <1>2, <1>3 DEF Came
  <2>3. r \in Int /\ t <= r
    BY <1>1
  <2> QED BY <1>1, <1>2, <2>1, <2>2, <2>3 DEF MaxOf
<1>5. row > 0
  BY <1>1, <1>3, <1>4 DEF Done
<1>6. /\ IsAlphaPlane(alpha, d, row < BrMbY) /\ alpha.plane
      /\ alpha.decoded \/ (alpha.initialized /\ ~pic.levels)
  BY <1>4, <1>5 DEF PlaneInv
<1>7. DecodedTo(alpha, d) \/ DecodedTo(alpha, pic.crop_bottom)
  BY <1>6 DEF IsAlphaPlane, Filled
<1>8. r \in DOMAIN alpha.above /\ (pic.filter # "none" => alpha.above[r] = r - 1)
  <2>1. r \in pic.crop_top..d - 1 /\ r \in pic.crop_top..pic.crop_bottom - 1
    BY <1>1, <1>4
  <2> QED BY <1>7, <2>1 DEF DecodedTo
<1>9. pic.levels /\ pic.dithering => alpha.smoothed
  BY <1>6 DEF IsAlphaPlane
<1> QED BY <1>6, <1>8, <1>9

(* The alpha of a row that is done has been decoded, from the row above it,  *)
(* and smoothed if it has to be; whatever the picture, unless a palette, a   *)
(* horizontal filter and a window further down come together, where          *)
(* ExtractPalettedAlphaRows skips rows.                                      *)
THEOREM AlphaReady == (\A p \in Pictures : ~WrongAlpha(p)) => (Spec => []AlphaIsReady)
<1> SUFFICES ASSUME \A p \in Pictures : ~WrongAlpha(p) PROVE Spec => []AlphaIsReady
  OBVIOUS
<1>1. Init => PlaneInv
  BY PlaneBegins
<1>2. OutputInv /\ PlaneInv /\ [Next]_vars => PlaneInv'
  BY PlaneStays
<1>3. OutputInv /\ PlaneInv => AlphaIsReady
  BY AlphaIsDecoded
<1> QED BY <1>1, <1>2, <1>3, OutputInvariant, PTL DEF Spec

-----------------------------------------------------------------------------
\* The DIB.
(* Where row j of the page begins: the last one first.                       *)
PlaceOf(j) == Rgba - j * Stride

(* Rows of the page that have come into the DIB.                             *)
Shown == IF HasAlphaPage THEN next_y ELSE params.last_y

(* The inductive invariant of the DIB.                                       *)
DibInv ==
  /\ width \in Nat
  /\ next_y \in 0..OutHeight /\ to = PlaceOf(next_y)
  /\ width > 0 =>
       /\ \A b \in DOMAIN dib : \E j \in 0..OutHeight - 1 : b = PlaceOf(j)
       /\ \A j \in 0..Shown - 1 : PlaceOf(j) \in DOMAIN dib /\ dib[PlaceOf(j)] = RightRow(j)

(* Rows of the DIB, padded to four bytes.                                    *)
LEMMA StrideIs ==
  ASSUME width \in Nat
  PROVE  /\ Stride \in Nat /\ RowSize \in Nat /\ RowSize <= Stride
         /\ width > 0 => RowSize > 0
<1>1. PICK r \in Nat : r = RowSize /\ (width > 0 => r > 0)
  BY DEF RowSize
<1>2. PICK q \in Nat : q = (r + 3) \div 4 /\ q * 4 >= r
  OBVIOUS
<1> QED BY <1>1, <1>2 DEF Stride

(* Places are whole rows apart.                                              *)
LEMMA PlacesAre ==
  ASSUME width \in Nat, OutHeight \in Nat \ {0}, NEW j \in Nat, j <= OutHeight
  PROVE  /\ PlaceOf(j) \in Int /\ PlaceOf(j) = (OutHeight - 1 - j) * Stride
         /\ PlaceOf(j + 1) = PlaceOf(j) - Stride
         /\ j < OutHeight => PlaceOf(j) >= 0 /\ PlaceOf(j) + RowSize <= ImageSize
         /\ \A k \in Nat : j < k => PlaceOf(k) + Stride <= PlaceOf(j)
<1>1. PICK s \in Nat, h \in Nat \ {0}, r \in Nat : s = Stride /\ h = OutHeight /\ r = RowSize /\ r <= s
  BY StrideIs
<1>2. PICK x \in Int : x = (h - 1) * s
  BY Times
<1>3. PICK z \in Int : z = h * s /\ z = x + s
  BY <1>1, <1>2, Times
<1>4. \A k \in Int : k * s \in Int
  BY Times
<1>5. PICK y \in Int : y = j * s
  BY <1>4
<1>6. \A k : PlaceOf(k) = x - k * s
  BY <1>1, <1>2 DEF PlaceOf, Rgba
<1>7. PICK m \in Int : m = h - 1 - j
  OBVIOUS
<1>8. m * s = x - y
  <2>1. PICK a \in Int : a = h - 1 /\ m + j = a
    BY <1>7
  <2>2. (m + j) * s = m * s + j * s
    OBVIOUS
  <2>3. m * s \in Int
    BY <1>4
  <2> QED BY <1>2, <1>5, <2>1, <2>2, <2>3
<1>9. PlaceOf(j) = x - y
  BY <1>5, <1>6
<1>10. PlaceOf(j + 1) = x - y - s
  <2>1. (j + 1) * s = y + s
    BY <1>5, Times
  <2>2. PlaceOf(j + 1) = x - ((j + 1) * s)
    BY <1>6
  <2> QED BY <2>1, <2>2
<1>11. ASSUME j < h PROVE x - y >= 0 /\ x - y + r <= z
  <2>1. 0 <= m
    BY <1>7, <1>11
  <2>2. 0 * s <= m * s /\ 0 * s = 0
    BY <2>1, TimesGrows
  <2>3. y >= 0
    BY <1>5, Times
  <2> QED BY <1>1, <1>3, <1>8, <2>2, <2>3
<1>12. ASSUME NEW k \in Nat, j < k PROVE PlaceOf(k) + s <= x - y
  <2>1. PICK a \in Nat : a = j + 1 /\ a <= k
    BY <1>12
  <2>2. a * s <= k * s
    BY <2>1, TimesGrows
  <2>3. a * s = y + s
    BY <1>5, <2>1, Times
  <2>4. k * s \in Int
    BY <1>4
  <2>5. PlaceOf(k) = x - k * s
    BY <1>6
  <2> QED BY <2>2, <2>3, <2>4, <2>5
<1>13. ImageSize = z
  BY <1>1, <1>3, Times DEF ImageSize
<1> QED BY <1>1, <1>7, <1>8, <1>9, <1>10, <1>11, <1>12, <1>13

(* Nothing but the decoder of OutputRows works on a page: compositing leaves *)
(* it alone.                                                                 *)
THEOREM DecodesAlone == DibSpec => Spec
<1>1. DibInit => Init
  BY DEF DibInit
<1>2. [DibNext]_<<vars, dibVars>> => [Next]_vars
  BY DEF DibNext, Decode, CompositeRow, vars, dibVars
<1> QED BY <1>1, <1>2, PTL DEF DibSpec, Spec

(* PageDecode has allocated the DIB, and nothing is in it.                   *)
LEMMA DibStarts ==
  ASSUME DibInit
  PROVE  DibInv
<1>1. OutputInv /\ params.last_y = 0
  <2>1. Init
    BY DEF DibInit
  <2> QED BY <2>1, OutputStarts DEF Init
<1>2. width \in Nat
  BY WidthsAssumption DEF DibInit
<1>3. next_y = 0 /\ OutHeight \in Nat \ {0} /\ 0 \in 0..OutHeight
  BY <1>1, RowsAreDone DEF DibInit
<1>4. to = PlaceOf(next_y)
  <2>1. PICK s \in Nat, h \in Nat \ {0} : s = Stride /\ h = OutHeight
    BY <1>2, <1>3, StrideIs
  <2>2. PICK x \in Int : x = (h - 1) * s
    BY Times
  <2>3. 0 * s = 0
    OBVIOUS
  <2> QED BY <1>3, <2>1, <2>2, <2>3 DEF DibInit, PlaceOf, Rgba
<1>5. DOMAIN dib = {}
  <2>1. PICK c : c = Unwritten
    OBVIOUS
  <2>2. dib = [b \in {} |-> c]
    BY <2>1 DEF DibInit
  <2> QED BY <2>2
<1>6. Shown = 0
  BY <1>1, <1>3 DEF Shown
<1> QED BY <1>2, <1>3, <1>4, <1>5, <1>6 DEF DibInv

(* Two rows never have the same place.                                       *)
LEMMA PlaceIsOne ==
  ASSUME width \in Nat, width > 0, OutHeight \in Nat \ {0},
         NEW j \in 0..OutHeight - 1, NEW k \in 0..OutHeight - 1, PlaceOf(j) = PlaceOf(k)
  PROVE  j = k
<1>1. j \in Nat /\ k \in Nat /\ j <= OutHeight /\ k <= OutHeight
  OBVIOUS
<1>2. PICK s \in Nat : s = Stride /\ s > 0
  BY StrideIs
<1>3. PlaceOf(j) \in Int /\ (j < k => PlaceOf(k) + s <= PlaceOf(j))
  BY <1>1, <1>2, PlacesAre
<1>4. PlaceOf(k) \in Int /\ (k < j => PlaceOf(j) + s <= PlaceOf(k))
  BY <1>1, <1>2, PlacesAre
<1> QED BY <1>1, <1>2, <1>3, <1>4

(* A row that holds something is not one that has not been written.          *)
LEMMA RightIsWritten ==
  ASSUME NEW j
  PROVE  RightRow(j) # Unwritten
<1>1. ColourOf(j) # <<>>
  BY DEF ColourOf
<1>2. RightRow(j).colour = ColourOf(j)
  BY DEF RightRow
<1>3. Unwritten.colour = <<>>
  BY DEF Unwritten
<1> QED BY <1>1, <1>2, <1>3

(* The places depend on the page only.                                       *)
LEMMA PageStays ==
  ASSUME UNCHANGED <<pic, width>>
  PROVE  /\ \A j : PlaceOf(j)' = PlaceOf(j)
         /\ OutHeight' = OutHeight /\ HasAlphaPage' = HasAlphaPage
<1>1. OutHeight' = OutHeight
  BY PictureStays
<1> QED BY <1>1 DEF PlaceOf, Rgba, Stride, RowSize, HasAlphaPage

(* What a step of the decoder finds of RowsAreDone.                          *)
LEMMA RowsAreDoneNext ==
  OutputInv' => (/\ params.last_y \in Nat /\ params.last_y <= OutHeight
                 /\ \A j \in 0..params.last_y - 1 : out[j] = RightRow(j))'
<1>1. OutputInv => /\ params.last_y \in Nat /\ params.last_y <= OutHeight
                   /\ \A j \in 0..params.last_y - 1 : out[j] = RightRow(j)
  BY RowsAreDone
<1> QED BY <1>1, PTL

(* Pages without alpha: the decoder writes its rows into the DIB itself.     *)
LEMMA DecodePlaces ==
  ASSUME OutputInv, OutputInv', DibInv, Decode, UNCHANGED pic
  PROVE  DibInv'
<1>1. /\ width' = width /\ next_y' = next_y /\ to' = to /\ pic' = pic /\ width \in Nat
      /\ next_y \in 0..OutHeight /\ to = PlaceOf(next_y)
  BY DEF Decode, DibInv
<1>2. /\ \A j : PlaceOf(j)' = PlaceOf(j)
      /\ OutHeight' = OutHeight /\ HasAlphaPage' = HasAlphaPage
  BY <1>1, PageStays
<1>3. \A j : RightRow(j)' = RightRow(j)
  BY <1>1, RightRowStays
<1>4. OutHeight \in Nat \ {0} /\ DOMAIN out = 0..OutHeight - 1
  BY RowsAreDone
<1>5. CASE ~(width > 0 /\ ~HasAlphaPage)
  <2>1. dib' = dib
    BY <1>5 DEF Decode
  <2>2. width > 0 => Shown' = Shown
    BY <1>1, <1>2, <1>5 DEF Shown
  <2> QED BY <1>1, <1>2, <1>3, <2>1, <2>2 DEF DibInv
<1>6. CASE width > 0 /\ ~HasAlphaPage
  <2> DEFINE rows == {j \in DOMAIN out : out'[j] # Unwritten}
             places == {PlaceOf(j) : j \in rows}
  <2>3. dib' = [b \in DOMAIN dib \union places |->
                  IF b \in places THEN out'[CHOOSE j \in rows : PlaceOf(j) = b] ELSE dib[b]]
    <3>1. dib' = Placed
      BY <1>6 DEF Decode
    <3>2. Placed = [b \in DOMAIN dib \union places |->
                      IF b \in places THEN out'[CHOOSE j \in rows : PlaceOf(j) = b] ELSE dib[b]]
      BY Zenon DEF Placed, PlaceOf
    <3> HIDE DEF rows, places
    <3> QED BY <3>1, <3>2
  <2>1. rows = {j \in DOMAIN out : out'[j] # Unwritten}
    OBVIOUS
  <2>2. places = {PlaceOf(j) : j \in rows}
    OBVIOUS
  <2> HIDE DEF rows, places
  <2>4. \A b \in DOMAIN dib' : \E j \in 0..OutHeight - 1 : b = PlaceOf(j)
    <3>1. \A b \in DOMAIN dib : \E j \in 0..OutHeight - 1 : b = PlaceOf(j)
      BY <1>6 DEF DibInv
    <3> QED BY <1>4, <2>1, <2>2, <2>3, <3>1
  <2>5. Shown' = params'.last_y
    BY <1>2, <1>6 DEF Shown
  <2>6. ASSUME NEW j \in 0..params'.last_y - 1
        PROVE  PlaceOf(j) \in DOMAIN dib' /\ dib'[PlaceOf(j)] = RightRow(j)
    <3>1. out'[j] = RightRow(j) /\ j \in 0..OutHeight - 1
      <4>1. /\ params'.last_y \in Nat /\ params'.last_y <= OutHeight'
            /\ \A k \in 0..params'.last_y - 1 : out'[k] = RightRow(k)'
        BY RowsAreDoneNext
      <4> QED BY <1>2, <1>3, <1>4, <2>6, <4>1
    <3>2. j \in rows
      BY <1>4, <2>1, <3>1, RightIsWritten
    <3>3. PICK b : b = PlaceOf(j) /\ b \in places
      BY <2>2, <3>2
    <3>4. PICK k : k = CHOOSE i \in rows : PlaceOf(i) = b
      OBVIOUS
    <3>5. k \in rows /\ PlaceOf(k) = b
      BY <3>2, <3>3, <3>4
    <3>6. k = j
      BY <1>1, <1>4, <1>6, <2>1, <3>1, <3>3, <3>5, PlaceIsOne
    <3>7. dib'[b] = out'[k] /\ b \in DOMAIN dib'
      BY <2>3, <3>3, <3>4
    <3> QED BY <3>1, <3>3, <3>6, <3>7
  <2> QED BY <1>1, <1>2, <1>3, <2>4, <2>5, <2>6 DEF DibInv
<1> QED BY <1>5, <1>6

(* Pages with alpha: compositeBGRAtoBGR walks upwards by the stride.         *)
LEMMA CompositePlaces ==
  ASSUME OutputInv, DibInv, CompositeRow
  PROVE  DibInv'
<1>1. /\ width' = width /\ pic' = pic /\ width \in Nat /\ width > 0 /\ HasAlphaPage
      /\ next_y \in 0..OutHeight /\ next_y < OutHeight /\ next_y' = next_y + 1
      /\ to = PlaceOf(next_y) /\ to' = to - Stride /\ IsDecoded
      /\ out' = out /\ params' = params
  BY DEF CompositeRow, DibInv, vars, Up
<1>2. PICK n : n = next_y
  OBVIOUS
<1>3. /\ OutHeight \in Nat \ {0} /\ n \in Nat /\ n < OutHeight /\ n <= OutHeight
      /\ n \in 0..OutHeight - 1
  BY <1>1, <1>2, RowsAreDone
<1>4. PlaceOf(n + 1) = PlaceOf(n) - Stride
  BY <1>1, <1>3, PlacesAre
<1>5. /\ \A j : PlaceOf(j)' = PlaceOf(j) /\ RightRow(j)' = RightRow(j)
      /\ OutHeight' = OutHeight /\ HasAlphaPage' = HasAlphaPage
  BY <1>1, PageStays, RightRowStays
<1>6. Shown = n /\ Shown' = n + 1
  BY <1>1, <1>2, <1>5 DEF Shown
<1>7. out[n] = RightRow(n)
  <2>1. row = LastRow
    BY <1>1 DEF IsDecoded, LastRow
  <2>2. params.last_y = OutHeight
    BY <2>1, AllComes
  <2> QED BY <1>3, <2>2, RowsAreDone
<1>8. PICK b : b = to /\ b = PlaceOf(n)
  BY <1>1, <1>2
<1>9. dib' = [c \in DOMAIN dib \union {b} |-> IF c = b THEN out[n] ELSE dib[c]]
  BY <1>2, <1>8 DEF CompositeRow
<1>10. \A c \in DOMAIN dib' : \E j \in 0..OutHeight - 1 : c = PlaceOf(j)
  <2>1. \A c \in DOMAIN dib : \E j \in 0..OutHeight - 1 : c = PlaceOf(j)
    BY <1>1 DEF DibInv
  <2> QED BY <1>3, <1>8, <1>9, <2>1
<1>11. ASSUME NEW j \in 0..(n + 1) - 1
       PROVE  PlaceOf(j) \in DOMAIN dib' /\ dib'[PlaceOf(j)] = RightRow(j)
  <2>1. CASE j = n
    BY <1>7, <1>8, <1>9, <2>1
  <2>2. CASE j # n
    <3>1. j \in 0..n - 1 /\ j \in 0..OutHeight - 1
      BY <1>3, <1>11, <2>2
    <3>2. PlaceOf(j) \in DOMAIN dib /\ dib[PlaceOf(j)] = RightRow(j)
      BY <1>1, <1>6, <3>1 DEF DibInv
    <3>3. PlaceOf(j) # b
      BY <1>1, <1>3, <1>8, <2>2, <3>1, PlaceIsOne
    <3> QED BY <1>9, <3>2, <3>3
  <2> QED BY <2>1, <2>2
<1>12. to' = PlaceOf(next_y)'
  BY <1>1, <1>2, <1>4, <1>5
<1>13. next_y' \in 0..OutHeight'
  BY <1>1, <1>2, <1>3, <1>5
<1> QED BY <1>1, <1>5, <1>6, <1>10, <1>11, <1>12, <1>13 DEF DibInv

(* Every step of the page keeps its rows in their places.                    *)
LEMMA DibStays ==
  ASSUME OutputInv, OutputInv', DibInv, [DibNext]_<<vars, dibVars>>
  PROVE  DibInv'
<1>1. CASE Decode
  <2>1. UNCHANGED pic
    BY <1>1 DEF Decode, Next, FinishRow, AlphaFails, ProcessRows
  <2> QED BY <1>1, <2>1, DecodePlaces
<1>2. CASE CompositeRow
  BY <1>2, CompositePlaces
<1>3. CASE UNCHANGED <<vars, dibVars>>
  <2>1. /\ pic' = pic /\ params' = params /\ width' = width /\ dib' = dib
        /\ next_y' = next_y /\ to' = to
    BY <1>3 DEF vars, dibVars
  <2>2. /\ \A j : PlaceOf(j)' = PlaceOf(j) /\ RightRow(j)' = RightRow(j)
        /\ OutHeight' = OutHeight /\ HasAlphaPage' = HasAlphaPage
    BY <2>1, PageStays, RightRowStays
  <2>3. Shown' = Shown
    BY <2>1, <2>2 DEF Shown
  <2> QED BY <2>1, <2>2, <2>3 DEF DibInv
<1> QED BY <1>1, <1>2, <1>3 DEF DibNext

(* Which is what is asked of the DIB.                                        *)
LEMMA DibIsRight ==
  ASSUME OutputInv, DibInv
  PROVE  DibHoldsThePage
<1> SUFFICES ASSUME width > 0
             PROVE  /\ CheckDecBuffer
                    /\ \A b \in DOMAIN dib : b >= 0 /\ b + RowSize <= ImageSize
                    /\ \A b, c \in DOMAIN dib : b < c => b + RowSize <= c
                    /\ IsDecoded /\ (HasAlphaPage => next_y = OutHeight) =>
                         \A j \in 0..OutHeight - 1 :
                           LET b == (OutHeight - 1 - j) * Stride
                           IN /\ b \in DOMAIN dib
                              /\ dib[b].colour = ColourOf(j) /\ dib[b].alpha = AlphaOf(j)
  BY DEF DibHoldsThePage
<1>1. /\ width \in Nat
      /\ \A b \in DOMAIN dib : \E j \in 0..OutHeight - 1 : b = PlaceOf(j)
      /\ \A j \in 0..Shown - 1 : PlaceOf(j) \in DOMAIN dib /\ dib[PlaceOf(j)] = RightRow(j)
  BY DEF DibInv
<1>2. OutHeight \in Nat \ {0}
  BY RowsAreDone
<1>3. Stride \in Nat /\ RowSize \in Nat /\ RowSize <= Stride
  BY <1>1, StrideIs
<1>4. CheckDecBuffer
  <2>1. PICK s \in Nat, h \in Nat \ {0}, r \in Nat : s = Stride /\ h = OutHeight /\ r = RowSize /\ r <= s
    BY <1>2, <1>3
  <2>2. s * (h - 1) = s * h - s /\ s * h \in Int
    BY Times
  <2> QED BY <2>1, <2>2 DEF CheckDecBuffer, ImageSize
<1>5. \A b \in DOMAIN dib : b >= 0 /\ b + RowSize <= ImageSize
  BY <1>1, <1>2, PlacesAre
<1>6. ASSUME NEW b \in DOMAIN dib, NEW c \in DOMAIN dib, b < c
      PROVE  b + RowSize <= c
  <2>1. PICK j \in 0..OutHeight - 1 : b = PlaceOf(j)
    BY <1>1
  <2>2. PICK k \in 0..OutHeight - 1 : c = PlaceOf(k)
    BY <1>1
  <2>3. j \in Nat /\ k \in Nat /\ j <= OutHeight /\ k <= OutHeight
    BY <1>2
  <2>4. PlaceOf(j) \in Int /\ (j < k => PlaceOf(k) + Stride <= PlaceOf(j))
    BY <1>1, <1>2, <2>3, PlacesAre
  <2>5. PlaceOf(k) \in Int /\ (k < j => PlaceOf(j) + Stride <= PlaceOf(k))
    BY <1>1, <1>2, <2>3, PlacesAre
  <2> QED BY <1>3, <1>6, <2>1, <2>2, <2>3, <2>4, <2>5
<1>7. ASSUME IsDecoded, HasAlphaPage => next_y = OutHeight, NEW j \in 0..OutHeight - 1
      PROVE  LET b == (OutHeight - 1 - j) * Stride
             IN /\ b \in DOMAIN dib
                /\ dib[b].colour = ColourOf(j) /\ dib[b].alpha = AlphaOf(j)
  <2>1. row = LastRow
    BY <1>7 DEF IsDecoded, LastRow
  <2>2. params.last_y = OutHeight
    BY <2>1, AllComes
  <2>3. j \in 0..Shown - 1
    BY <1>7, <2>2 DEF Shown
  <2>4. PICK b : b = PlaceOf(j) /\ b \in DOMAIN dib /\ dib[b] = RightRow(j)
    BY <1>1, <2>3
  <2>5. dib[b].colour = ColourOf(j) /\ dib[b].alpha = AlphaOf(j)
    BY <2>4 DEF RightRow
  <2>6. j \in Nat /\ j <= OutHeight
    BY <1>2, <1>7
  <2>7. (OutHeight - 1 - j) * Stride = b
    BY <1>1, <1>2, <2>4, <2>6, PlacesAre
  <2> QED BY <2>4, <2>5, <2>7
<1> QED BY <1>4, <1>5, <1>6, <1>7

(* The DIB (src/plugin/WebPlugin.cpp, src/codec/WebPDecoder.cpp): nothing is *)
(* written outside of it or over another row, libwebp's check of the buffer  *)
(* passes, and a finished page is there, each row in its place; for every    *)
(* width, height and picture.                                                *)
THEOREM PageIsHeld == DibSpec => []DibHoldsThePage
<1>1. DibInit => DibInv
  BY DibStarts
<1>2. OutputInv /\ OutputInv' /\ DibInv /\ [DibNext]_<<vars, dibVars>> => DibInv'
  BY DibStays
<1>3. OutputInv /\ DibInv => DibHoldsThePage
  BY DibIsRight
<1>4. DibSpec => []OutputInv
  BY DecodesAlone, OutputInvariant
<1> QED BY <1>1, <1>2, <1>3, <1>4, PTL DEF DibSpec
=============================================================================
