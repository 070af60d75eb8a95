------------------------- MODULE AnimDecoderProofs -------------------------
(* The animation decoder renders what the compositor of the container does, *)
(* for every animation and every size of canvas, as long as scaling leaves  *)
(* every frame at least a pixel; its scaled rectangles stay on the canvas,  *)
(* and apart where no product wraps around; and the arithmetic on its       *)
(* pixels keeps its bounds, for every channel and every alpha a byte can    *)
(* hold, not only for those a run tries.                                    *)
EXTENDS AnimDecoder, PixelBlend, TLAPS

-----------------------------------------------------------------------------
(* Division.                                                                *)

(* The quotient is the largest number that fits.                            *)
LEMMA QuotientFits ==
  ASSUME NEW n \in Nat, NEW d \in Nat \ {0}
  PROVE  /\ n \div d \in Nat
         /\ d * (n \div d) <= n
         /\ n < d * (n \div d) + d
  BY Z3

LEMMA QuotientIsLargest ==
  ASSUME NEW n \in Nat, NEW d \in Nat \ {0}, NEW q \in Nat, d * q <= n
  PROVE  q <= n \div d
<1> DEFINE k == n \div d
<1>1. k \in Nat /\ n < d * k + d
  BY QuotientFits
<1>2. SUFFICES ASSUME k + 1 <= q PROVE FALSE
  BY <1>1
<1> HIDE DEF k
<1>3. d * (k + 1) <= d * q
  BY <1>1, <1>2, Z3
<1>4. d * (k + 1) = d * k + d
  BY <1>1, Z3
<1>5. d * k \in Nat /\ d * q \in Nat
  BY <1>1, Z3
<1> QED BY <1>1, <1>3, <1>4, <1>5

(* A remainder is no more than the number, and is the number if that is     *)
(* less than what it is divided by.                                         *)
LEMMA RemainderFits ==
  ASSUME NEW n \in Nat, NEW d \in Nat \ {0}
  PROVE  /\ n % d \in Nat /\ n % d <= n
         /\ n < d => n % d = n
  BY Z3

(* The length that SCALE_DIM rounds to where nothing wraps around, and the  *)
(* longest it ever gives.                                                   *)
Rounded(val, full, scaled) == (val * scaled) \div full

LEMMA ScaleRounds ==
  ASSUME NEW a \in Nat, NEW f \in Nat \ {0}, NEW s \in Nat
  PROVE  /\ ScaleDim(a, f, s) \in Nat /\ Rounded(a, f, s) \in Nat
         /\ ScaleDim(a, f, s) <= Rounded(a, f, s)
         /\ ~Wraps(a, s) => ScaleDim(a, f, s) = Rounded(a, f, s)
<1> DEFINE p == a * s
           q == p % UIntRange
           k == q \div f
<1>1. p \in Nat /\ UIntRange \in Nat \ {0}
  BY CanvasAssumption, Z3
<1>2. q \in Nat /\ q <= p /\ (p < UIntRange => q = p)
  <2> HIDE DEF p
  <2> QED BY <1>1, RemainderFits
<1>3. k \in Nat /\ f * k <= q
  <2> HIDE DEF q
  <2> QED BY <1>2, QuotientFits
<1>4. k <= p \div f
  <2>1. f * k \in Nat
    <3> HIDE DEF k
    <3> QED BY <1>3, Z3
  <2>2. f * k <= p
    <3> HIDE DEF k, q, p
    <3> QED BY <1>1, <1>2, <1>3, <2>1
  <2> HIDE DEF k, p
  <2> QED BY <1>1, <1>3, <2>2, QuotientIsLargest
<1>5. p \div f \in Nat
  <2> HIDE DEF p
  <2> QED BY <1>1, QuotientFits
<1>6. ~Wraps(a, s) => p < UIntRange
  <2> HIDE DEF p
  <2>1. ~(p >= UIntRange) => p < UIntRange
    BY <1>1
  <2> QED BY <2>1 DEF Wraps, p
<1>7. ~Wraps(a, s) => k = p \div f
  BY <1>2, <1>6
<1>8. ScaleDim(a, f, s) = k /\ Rounded(a, f, s) = p \div f
  BY DEF ScaleDim, Rounded
<1> HIDE DEF k, p
<1> QED BY <1>3, <1>4, <1>5, <1>7, <1>8

(* Rounding two lengths down never makes them longer than their sum.        *)
LEMMA RoundedAdds ==
  ASSUME NEW a \in Nat, NEW b \in Nat, NEW f \in Nat \ {0}, NEW s \in Nat
  PROVE  /\ Rounded(a, f, s) \in Nat
         /\ Rounded(a, f, s) + Rounded(b, f, s) <= Rounded(a + b, f, s)
<1> DEFINE i == Rounded(a, f, s)
           j == Rounded(b, f, s)
<1>1. a * s \in Nat /\ b * s \in Nat /\ (a + b) * s = a * s + b * s
  BY Z3
<1>2. i \in Nat /\ f * i <= a * s
  BY <1>1, QuotientFits DEF Rounded
<1>3. j \in Nat /\ f * j <= b * s
  BY <1>1, QuotientFits DEF Rounded
<1>4. f * (i + j) <= (a + b) * s
  <2> HIDE DEF i, j
  <2>1. f * (i + j) = f * i + f * j /\ f * i \in Nat /\ f * j \in Nat
    BY <1>2, <1>3, Z3
  <2> QED BY <2>1, <1>1, <1>2, <1>3
<1>5. i + j \in Nat /\ (a + b) * s \in Nat
  BY <1>1, <1>2, <1>3
<1>6. i + j <= ((a + b) * s) \div f
  <2> HIDE DEF i, j
  <2> QED BY <1>4, <1>5, QuotientIsLargest
<1> QED BY <1>2, <1>6 DEF Rounded

(* A longer length is not scaled to a shorter one.                          *)
LEMMA RoundedGrows ==
  ASSUME NEW a \in Nat, NEW b \in Nat, a <= b, NEW f \in Nat \ {0},
         NEW s \in Nat
  PROVE  Rounded(a, f, s) <= Rounded(b, f, s)
<1>1. b - a \in Nat /\ a + (b - a) = b
  OBVIOUS
<1>2. /\ Rounded(b - a, f, s) \in Nat
      /\ Rounded(a, f, s) + Rounded(b - a, f, s)
           <= Rounded(a + (b - a), f, s)
  BY <1>1, RoundedAdds
<1>3. Rounded(a, f, s) \in Nat /\ Rounded(b, f, s) \in Nat
  BY RoundedAdds
<1> QED BY <1>1, <1>2, <1>3

(* Two lengths that fit in a third still do when scaled.                    *)
LEMMA RoundedFit ==
  ASSUME NEW a \in Nat, NEW b \in Nat, NEW z \in Nat, a + b <= z,
         NEW f \in Nat \ {0}, NEW s \in Nat
  PROVE  Rounded(a, f, s) + Rounded(b, f, s) <= Rounded(z, f, s)
<1>1. a + b \in Nat
  OBVIOUS
<1>2. Rounded(a + b, f, s) <= Rounded(z, f, s)
  BY <1>1, RoundedGrows
<1>3. /\ Rounded(a, f, s) \in Nat /\ Rounded(b, f, s) \in Nat
      /\ Rounded(a + b, f, s) \in Nat /\ Rounded(z, f, s) \in Nat
      /\ Rounded(a, f, s) + Rounded(b, f, s) <= Rounded(a + b, f, s)
  BY <1>1, RoundedAdds
<1> QED BY <1>2, <1>3

(* The whole canvas is scaled to the whole canvas.                          *)
LEMMA RoundedWhole ==
  ASSUME NEW f \in Nat \ {0}, NEW s \in Nat
  PROVE  Rounded(f, f, s) = s
<1> DEFINE k == (f * s) \div f
<1>1. f * s \in Nat
  BY Z3
<1>2. s <= k
  BY <1>1, QuotientIsLargest
<1>3. k \in Nat /\ f * k <= f * s
  BY <1>1, QuotientFits
<1>4. k <= s
  <2> HIDE DEF k
  <2> QED BY <1>3, Z3
<1> HIDE DEF k
<1>5. k = s
  BY <1>2, <1>3, <1>4
<1> QED BY <1>5 DEF Rounded, k

(* Two lengths that fit in a third still do when scaled, if that one does   *)
(* not wrap around, or is given its full length.                            *)
LEMMA LengthsFit ==
  ASSUME NEW a \in Nat, NEW b \in Nat, NEW z \in Nat, a + b <= z,
         NEW f \in Nat \ {0}, NEW s \in Nat
  PROVE  /\ ScaleDim(a, f, s) + ScaleDim(b, f, s) <= Rounded(z, f, s)
         /\ ~Wraps(z, s) =>
              ScaleDim(a, f, s) + ScaleDim(b, f, s) <= ScaleDim(z, f, s)
<1>1. /\ ScaleDim(a, f, s) \in Nat /\ Rounded(a, f, s) \in Nat
      /\ ScaleDim(a, f, s) <= Rounded(a, f, s)
      /\ ScaleDim(b, f, s) \in Nat /\ Rounded(b, f, s) \in Nat
      /\ ScaleDim(b, f, s) <= Rounded(b, f, s)
      /\ Rounded(z, f, s) \in Nat
      /\ ~Wraps(z, s) => ScaleDim(z, f, s) = Rounded(z, f, s)
  BY ScaleRounds
<1>2. Rounded(a, f, s) + Rounded(b, f, s) <= Rounded(z, f, s)
  BY RoundedFit
<1>3. ScaleDim(a, f, s) + ScaleDim(b, f, s) <= Rounded(z, f, s)
  BY <1>1, <1>2
<1> QED BY <1>1, <1>3

-----------------------------------------------------------------------------
(* Frames.                                                                  *)

LEMMA FrameFacts ==
  ASSUME NEW a \in Anims, NEW n \in DOMAIN a
  PROVE  /\ n \in Nat \ {0} /\ n <= Len(a) /\ Len(a) \in Nat
         /\ a[n].x_offset \in Nat /\ a[n].y_offset \in Nat
         /\ a[n].width \in Nat \ {0} /\ a[n].height \in Nat \ {0}
         /\ a[n].has_alpha \in 0..1 /\ a[n].duration \in Nat
         /\ a[n].blend_method \in Blends /\ a[n].dispose_method \in Disposals
         /\ a[n].x_offset + a[n].width <= CanvasW
         /\ a[n].y_offset + a[n].height <= CanvasH
         /\ a[n].width <= MaxDimension /\ a[n].height <= MaxDimension
<1>1. a \in Seq(Frame) /\ InBounds(a[n])
  BY AnimsAssumption
<1>2. n \in 1..Len(a) /\ Len(a) \in Nat /\ a[n] \in Frame
  BY <1>1
<1>3. /\ a[n].x_offset \in 0..CanvasW - 1 /\ a[n].y_offset \in 0..CanvasH - 1
      /\ a[n].width \in 1..CanvasW /\ a[n].height \in 1..CanvasH
      /\ a[n].width <= MaxDimension /\ a[n].height <= MaxDimension
      /\ a[n].has_alpha \in 0..1 /\ a[n].duration \in Nat
      /\ a[n].blend_method \in Blends /\ a[n].dispose_method \in Disposals
  <2> DEFINE f == a[n]
  <2>1. f \in Frame
    BY <1>2
  <2> HIDE DEF f
  <2>2. /\ f.x_offset \in 0..CanvasW - 1 /\ f.y_offset \in 0..CanvasH - 1
        /\ f.width \in 1..CanvasW /\ f.height \in 1..CanvasH
        /\ f.width <= MaxDimension /\ f.height <= MaxDimension
        /\ f.has_alpha \in 0..1 /\ f.duration \in Nat
        /\ f.blend_method \in Blends /\ f.dispose_method \in Disposals
    BY <2>1 DEF Frame
  <2> QED BY <2>2 DEF f
<1>4. /\ a[n].x_offset \in Nat /\ a[n].y_offset \in Nat
      /\ a[n].width \in Nat \ {0} /\ a[n].height \in Nat \ {0}
  BY <1>3, CanvasAssumption
<1>5. a[n].x_offset + a[n].width <= CanvasW
      /\ a[n].y_offset + a[n].height <= CanvasH
  BY <1>1 DEF InBounds
<1> QED BY <1>2, <1>3, <1>4, <1>5

LEMMA AnimFacts ==
  ASSUME NEW a \in Anims
  PROVE  Len(a) \in Nat \ {0} /\ DOMAIN a = 1..Len(a)
  BY AnimsAssumption

(* A side of a bitstream is short enough for the whole of it not to wrap    *)
(* around on a canvas that is no longer.                                    *)
LEMMA ShortSide ==
  ASSUME NEW w \in Nat \ {0}, w <= MaxDimension, NEW o \in 1..w
  PROVE  ScaleDim(0, w, o) = 0 /\ ScaleDim(w, w, o) = o
<1>0. /\ MaxDimension \in Nat \ {0} /\ UIntRange \in Nat \ {0}
      /\ MaxDimension * MaxDimension < UIntRange /\ o \in Nat
  BY CanvasAssumption
<1>1. w * o <= MaxDimension * MaxDimension
  <2>1. w * o <= w * w
    BY <1>0, Z3
  <2>2. w * w <= w * MaxDimension
    BY <1>0, Z3
  <2>3. w * MaxDimension <= MaxDimension * MaxDimension
    BY <1>0, Z3
  <2>4. /\ w * o \in Nat /\ w * w \in Nat /\ w * MaxDimension \in Nat
        /\ MaxDimension * MaxDimension \in Nat
    BY <1>0, Z3
  <2> QED BY <2>1, <2>2, <2>3, <2>4
<1>2. w * o \in Nat /\ MaxDimension * MaxDimension \in Nat
  BY <1>0, Z3
<1>3. ~Wraps(w, o)
  BY <1>0, <1>1, <1>2 DEF Wraps
<1>4. 0 * o = 0
  BY <1>0, Z3
<1>5. ~Wraps(0, o)
  BY <1>0, <1>4 DEF Wraps
<1>6. Rounded(0, w, o) = 0
  BY <1>4, Z3 DEF Rounded
<1>7. Rounded(w, w, o) = o
  BY <1>0, RoundedWhole
<1>8. 0 \in Nat
  OBVIOUS
<1> QED BY <1>0, <1>3, <1>5, <1>6, <1>7, <1>8, ScaleRounds

(* A full frame is scaled to the whole of the canvas rendered on.           *)
LEMMA FullFrameIsEverything ==
  ASSUME NEW a \in Anims, NEW n \in DOMAIN a, IsFullFrame(a[n])
  PROVE  Rect(a[n]) = Pos
<1> DEFINE f == a[n]
<1>1. f.x_offset = 0 /\ f.y_offset = 0
  BY FrameFacts, CanvasAssumption DEF IsFullFrame
<1>2. /\ CanvasW <= MaxDimension /\ CanvasH <= MaxDimension
      /\ f.width = CanvasW /\ f.height = CanvasH
  BY FrameFacts DEF IsFullFrame
<1>3. /\ ScaleDim(0, CanvasW, OutW) = 0 /\ ScaleDim(0, CanvasH, OutH) = 0
      /\ ScaleDim(CanvasW, CanvasW, OutW) = OutW
      /\ ScaleDim(CanvasH, CanvasH, OutH) = OutH
  BY <1>2, CanvasAssumption, ShortSide
<1>4. /\ Left(f) = 0 /\ Top(f) = 0
      /\ ScaledW(f) = OutW /\ ScaledH(f) = OutH
  BY <1>1, <1>2, <1>3 DEF Left, Top, ScaledW, ScaledH
<1> QED BY <1>4, CanvasAssumption DEF Rect, Area, Pos

(* WebPDecode paints the rectangle the compositor goes by.                  *)
LEMMA PaintedIsRect ==
  ASSUME NEW f, Visible(f)
  PROVE  Painted(f) = Rect(f)
  BY DEF Visible, Painted, PaintedW, Rect

(* All the rows of a frame are its rectangle.                               *)
Drawn(n, canvas) ==
  [p \in Pos |-> IF p \in Rect(anim[n]) THEN {n} ELSE canvas[p]]

LEMMA PaintAllRows ==
  ASSUME NEW n, NEW canvas, Visible(anim[n])
  PROVE  Paint(n, ScaledH(anim[n]), canvas) = Drawn(n, canvas)
  BY PaintedIsRect DEF Paint, Drawn, Rect, Area

-----------------------------------------------------------------------------
(* The layout of the rectangles.                                            *)

LEMMA LayoutOfAnim ==
  ASSUME anim \in Anims
  PROVE  ScalingKeepsTheLayout
<1> SUFFICES ASSUME NEW m \in DOMAIN anim, NEW n \in DOMAIN anim
             PROVE
    /\ Left(anim[n]) + ScaledW(anim[n]) <= OutW
    /\ Top(anim[n]) + ScaledH(anim[n]) <= OutH
    /\ /\ anim[m].x_offset + anim[m].width <= anim[n].x_offset
       /\ ~Wraps(anim[n].x_offset, OutW)
       => Left(anim[m]) + ScaledW(anim[m]) <= Left(anim[n])
    /\ /\ anim[m].y_offset + anim[m].height <= anim[n].y_offset
       /\ ~Wraps(anim[n].y_offset, OutH)
       => Top(anim[m]) + ScaledH(anim[m]) <= Top(anim[n])
  BY DEF ScalingKeepsTheLayout
<1>0. /\ CanvasW \in Nat \ {0} /\ CanvasH \in Nat \ {0}
      /\ OutW \in Nat /\ OutH \in Nat
  BY CanvasAssumption
<1>1. ASSUME NEW k \in DOMAIN anim, NEW z \in Nat,
             anim[k].x_offset + anim[k].width <= z
      PROVE  /\ Left(anim[k]) + ScaledW(anim[k]) <= Rounded(z, CanvasW, OutW)
             /\ ~Wraps(z, OutW) => Left(anim[k]) + ScaledW(anim[k])
                                     <= ScaleDim(z, CanvasW, OutW)
  BY <1>0, <1>1, FrameFacts, LengthsFit DEF Left, ScaledW
<1>2. ASSUME NEW k \in DOMAIN anim, NEW z \in Nat,
             anim[k].y_offset + anim[k].height <= z
      PROVE  /\ Top(anim[k]) + ScaledH(anim[k]) <= Rounded(z, CanvasH, OutH)
             /\ ~Wraps(z, OutH) => Top(anim[k]) + ScaledH(anim[k])
                                     <= ScaleDim(z, CanvasH, OutH)
  BY <1>0, <1>2, FrameFacts, LengthsFit DEF Top, ScaledH
<1>3. Rounded(CanvasW, CanvasW, OutW) = OutW
      /\ Rounded(CanvasH, CanvasH, OutH) = OutH
  BY <1>0, RoundedWhole
<1>4. /\ Left(anim[n]) + ScaledW(anim[n]) <= OutW
      /\ Top(anim[n]) + ScaledH(anim[n]) <= OutH
  <2>1. /\ anim[n].x_offset + anim[n].width <= CanvasW
        /\ anim[n].y_offset + anim[n].height <= CanvasH
    BY FrameFacts
  <2>2. /\ Left(anim[n]) + ScaledW(anim[n]) <= Rounded(CanvasW, CanvasW, OutW)
        /\ Top(anim[n]) + ScaledH(anim[n]) <= Rounded(CanvasH, CanvasH, OutH)
    BY <1>0, <1>1, <1>2, <2>1
  <2> QED BY <1>3, <2>2
<1>5. ASSUME anim[m].x_offset + anim[m].width <= anim[n].x_offset,
             ~Wraps(anim[n].x_offset, OutW)
      PROVE  Left(anim[m]) + ScaledW(anim[m]) <= Left(anim[n])
  <2>1. anim[n].x_offset \in Nat
    BY FrameFacts
  <2> QED BY <1>1, <1>5, <2>1 DEF Left
<1>6. ASSUME anim[m].y_offset + anim[m].height <= anim[n].y_offset,
             ~Wraps(anim[n].y_offset, OutH)
      PROVE  Top(anim[m]) + ScaledH(anim[m]) <= Top(anim[n])
  <2>1. anim[n].y_offset \in Nat
    BY FrameFacts
  <2> QED BY <1>2, <1>6, <2>1 DEF Top
<1> QED BY <1>4, <1>5, <1>6

(* However long the canvas is and however far it is scaled down, each frame *)
(* of an animation is written within it; and where SCALE_DIM does not wrap  *)
(* around, no two frames that lie apart come to overlap.                    *)
THEOREM FramesKeepTheirPlaces == Spec => []ScalingKeepsTheLayout
<1> DEFINE A == anim \in Anims
<1>1. Init => A
  BY DEF Init
<1>2. A /\ [Next]_vars => A'
  BY DEF Next, GetNext, GetNextFails, GetNextAtEnd, Reset, vars
<1>3. A => ScalingKeepsTheLayout
  BY LayoutOfAnim
<1> QED BY <1>1, <1>2, <1>3, PTL DEF Spec

-----------------------------------------------------------------------------
(* The inductive invariant.  When the note on the last frame says that it   *)
(* was disposed of, and that the canvas it was drawn on was cleared or all  *)
(* covered by it, nothing is left on the canvas kept for the next frame.    *)

NothingLeft ==
  /\ next_frame > 1
  /\ prev_iter.dispose_method = "background"
  /\ IsFullFrame(prev_iter) \/ prev_frame_was_keyframe = 1
  => prev_frame_disposed = Blank

IInv == TypeOK /\ NothingLeft

LEMMA InitIInv == Init => IInv
<1> SUFFICES ASSUME Init PROVE IInv
  OBVIOUS
<1>1. TypeOK
  <2>1. Len(anim) \in Nat \ {0}
    BY AnimFacts DEF Init
  <2>2. Blank \in Canvas
    BY DEF Blank, Canvas
  <2> QED BY <2>1, <2>2 DEF Init, TypeOK
<1>2. NothingLeft
  BY DEF Init, NothingLeft
<1> QED BY <1>1, <1>2 DEF IInv

(* What a painted, and a blended, canvas holds.                             *)
LEMMA PaintType ==
  ASSUME NEW n \in Nat, NEW rows, NEW canvas \in Canvas
  PROVE  Paint(n, rows, canvas) \in Canvas
  BY DEF Paint, Canvas

LEMMA BlendType ==
  ASSUME NEW n \in Nat, NEW canvas \in Canvas, prev_frame_disposed \in Canvas
  PROVE  Blended(n, canvas) \in Canvas
  BY DEF Blended, BlendRow, Canvas

LEMMA DisposalType ==
  ASSUME NEW f, NEW canvas \in Canvas
  PROVE  Disposal(f, canvas) \in Canvas
  BY DEF Disposal, ZeroFillFrameRect, Canvas

LEMMA PreparedType ==
  ASSUME NEW n, prev_frame_disposed \in Canvas
  PROVE  Prepared(n) \in Canvas
  BY DEF Prepared, Blank, Canvas

(* A key-frame is drawn over nothing, and whatever lies outside a frame     *)
(* that covers the canvas is nothing: disposing of either leaves a blank.   *)
LEMMA KeyIsAlone ==
  ASSUME AllVisible, anim \in Anims, NEW n \in DOMAIN anim,
         anim[n].dispose_method = "background",
         IsKey(n) \/ IsFullFrame(anim[n])
  PROVE  Disposal(anim[n], Blended(n, Paint(n, ScaledH(anim[n]), Prepared(n))))
           = Blank
<1> DEFINE page == Blended(n, Paint(n, ScaledH(anim[n]), Prepared(n)))
<1>1. Visible(anim[n])
  BY DEF AllVisible
<1>2. Disposal(anim[n], page)
        = [p \in Pos |-> IF p \in Rect(anim[n]) THEN {} ELSE page[p]]
  BY DEF Disposal, ZeroFillFrameRect
<1>3. CASE IsFullFrame(anim[n])
  <2>1. Rect(anim[n]) = Pos
    BY <1>3, FullFrameIsEverything
  <2> HIDE DEF page
  <2> QED BY <1>2, <2>1 DEF Blank, page
<1>4. CASE IsKey(n)
  <2>1. page = Drawn(n, Blank)
    <3>1. Prepared(n) = Blank
      BY <1>4 DEF Prepared
    <3>2. Paint(n, ScaledH(anim[n]), Blank) = Drawn(n, Blank)
      BY <1>1, PaintAllRows
    <3>3. page = Paint(n, ScaledH(anim[n]), Prepared(n))
      BY <1>4 DEF Blended
    <3> QED BY <3>1, <3>2, <3>3
  <2> HIDE DEF page
  <2>2. Disposal(anim[n], page) = Blank
    BY <1>2, <2>1 DEF Blank, Drawn
  <2> QED BY <2>2 DEF page
<1> QED BY <1>3, <1>4

LEMMA NextIInv == AllVisible /\ IInv /\ [Next]_vars => IInv'
<1> SUFFICES ASSUME AllVisible, TypeOK, NothingLeft, [Next]_vars
             PROVE  TypeOK' /\ NothingLeft'
  BY DEF IInv
<1>0. /\ anim \in Anims /\ Len(anim) \in Nat \ {0}
      /\ DOMAIN anim = 1..Len(anim) /\ next_frame \in 1..Len(anim) + 1
      /\ next_frame \in Nat \ {0}
  BY AnimFacts DEF TypeOK
<1>1. CASE GetNext
  <2> DEFINE n == next_frame
             page == Blended(n, Paint(n, ScaledH(anim[n]), Prepared(n)))
  <2>1. n \in DOMAIN anim /\ n \in Nat
    BY <1>0, <1>1 DEF GetNext, HasMoreFrames
  <2>2. /\ curr_frame' = page
        /\ prev_frame_timestamp' = prev_frame_timestamp + anim[n].duration
        /\ prev_iter' = anim[n]
        /\ prev_frame_was_keyframe' = IF IsKey(n) THEN 1 ELSE 0
        /\ prev_frame_disposed' = Disposal(anim[n], page)
        /\ next_frame' = n + 1
        /\ anim' = anim
    BY <1>1 DEF GetNext
  <2>3. page \in Canvas /\ Disposal(anim[n], page) \in Canvas
    BY <2>1, PreparedType, PaintType, BlendType, DisposalType DEF TypeOK
  <2>4. anim[n].duration \in Nat
    BY <1>0, <2>1, FrameFacts
  <2> HIDE DEF page
  <2>5. TypeOK'
    <3>1. next_frame' \in 1..Len(anim') + 1 /\ next_frame' # 1
      BY <1>0, <2>1, <2>2
    <3>2. prev_iter' = anim'[next_frame' - 1]
      BY <2>1, <2>2
    <3>3. prev_frame_timestamp' \in Nat /\ prev_frame_was_keyframe' \in 0..1
      BY <2>2, <2>4 DEF TypeOK
    <3> QED BY <1>0, <2>2, <2>3, <3>1, <3>2, <3>3 DEF TypeOK
  <2>6. NothingLeft'
    <3> SUFFICES ASSUME anim[n].dispose_method = "background",
                        IsFullFrame(anim[n]) \/ IsKey(n)
                 PROVE  Disposal(anim[n], page) = Blank
      BY <2>2 DEF NothingLeft, Blank, IsFullFrame, Pos
    <3> QED BY <1>0, <2>1, KeyIsAlone DEF page
  <2> QED BY <2>5, <2>6
<1>2. CASE GetNextFails
  <2>1. curr_frame' \in Canvas
    <3>1. CASE UNCHANGED curr_frame
      BY <3>1 DEF TypeOK
    <3>2. CASE \E rows \in 0..ScaledH(anim[next_frame]) :
                 curr_frame' = Paint(next_frame, rows, Prepared(next_frame))
      BY <1>0, <3>2, PreparedType, PaintType DEF TypeOK
    <3> QED BY <1>2, <3>1, <3>2 DEF GetNextFails
  <2> QED BY <1>2, <2>1
          DEF GetNextFails, TypeOK, NothingLeft, IsFullFrame, Blank, Pos, Canvas
<1>3. CASE GetNextAtEnd
  BY <1>3 DEF GetNextAtEnd, TypeOK, NothingLeft, IsFullFrame, Blank, Pos, Canvas
<1>4. CASE Reset
  BY <1>0, <1>4 DEF Reset, TypeOK, NothingLeft, Canvas, Pos
<1>5. CASE UNCHANGED vars
  BY <1>5 DEF vars, TypeOK, NothingLeft, IsFullFrame, Blank, Pos, Canvas
<1> QED BY <1>1, <1>2, <1>3, <1>4, <1>5 DEF Next

(* Every variable of the animation decoder keeps its type, and its notes on *)
(* the last frame are of the frame before the next one.                     *)
THEOREM AnimDecoderTypeCorrect ==
  ASSUME AllVisible PROVE Spec => []TypeOK
<1>1. IInv => TypeOK
  BY DEF IInv
<1>2. IInv /\ [Next]_vars => IInv'
  BY NextIInv
<1> QED BY InitIInv, <1>1, <1>2, PTL DEF Spec

(* The short-cut for key-frames loses no pixel, in any animation that stays *)
(* visible at the size it is rendered at.                                   *)
THEOREM KeyFramesAreSound ==
  ASSUME AllVisible PROVE Spec => []KeyFrameLosesNothing
<1>1. IInv => KeyFrameLosesNothing
  <2> SUFFICES ASSUME IInv, next_frame \in 2..Len(anim), IsKey(next_frame),
                      NEW p \in Pos
               PROVE  \/ prev_frame_disposed[p] = {}
                      \/ p \in Rect(anim[next_frame])
                           /\ ( \/ anim[next_frame].has_alpha = 0
                                \/ anim[next_frame].blend_method = "no_blend" )
    BY DEF KeyFrameLosesNothing
  <2>1. anim \in Anims /\ next_frame \in DOMAIN anim /\ next_frame > 1
    BY AnimFacts DEF IInv, TypeOK
  <2>2. CASE /\ \/ anim[next_frame].has_alpha = 0
                \/ anim[next_frame].blend_method = "no_blend"
             /\ IsFullFrame(anim[next_frame])
    BY <2>1, <2>2, FullFrameIsEverything
  <2>3. CASE /\ prev_iter.dispose_method = "background"
             /\ IsFullFrame(prev_iter) \/ prev_frame_was_keyframe = 1
    BY <2>1, <2>3 DEF IInv, NothingLeft, Blank
  <2> QED BY <2>1, <2>2, <2>3 DEF IsKey, IsKeyFrame
<1>2. IInv /\ [Next]_vars => IInv'
  BY NextIInv
<1> QED BY InitIInv, <1>1, <1>2, PTL DEF Spec

-----------------------------------------------------------------------------
(* Step simulation: each step of the decoder is a step of the compositor.   *)

LEMMA SameGeometry ==
  /\ Compositor!Pos = Pos
  /\ \A f : Compositor!Rect(f) = Rect(f)
  /\ Compositor!Blank = Blank
  /\ Compositor!NoPage = NoPage
<1>1. Compositor!Pos = Pos
  BY DEF Pos, Compositor!Pos
<1>2. ASSUME NEW f PROVE Compositor!Rect(f) = Rect(f)
  BY <1>1 DEF Rect, Area, Left, Top, ScaledW, ScaledH, ScaleDim,
     Compositor!Rect, Compositor!Area, Compositor!Left, Compositor!Top,
     Compositor!ScaledW, Compositor!ScaledH, Compositor!ScaleDim
<1>3. Compositor!Blank = Blank
  BY <1>1 DEF Blank, Compositor!Blank
<1> QED BY <1>1, <1>2, <1>3 DEF NoPage, Compositor!NoPage

(* The page a call gives is the frame over what is beneath it.              *)
LEMMA PageIsOver ==
  ASSUME AllVisible, IInv, NEW n, n = next_frame, n \in DOMAIN anim
  PROVE  Blended(n, Paint(n, ScaledH(anim[n]), Prepared(n)))
           = Compositor!Over(n, Beneath)
<1> DEFINE f == anim[n]
           R == Rect(anim[n])
<1>0. anim \in Anims /\ n \in Nat \ {0} /\ Visible(f)
  BY AnimFacts DEF IInv, TypeOK, AllVisible
<1>1. f.has_alpha \in 0..1 /\ f.blend_method \in {"blend", "no_blend"}
  BY <1>0, FrameFacts DEF Blends
<1>2. \A canvas : Paint(n, ScaledH(f), canvas) = Drawn(n, canvas)
  BY <1>0, PaintAllRows
<1>3. Compositor!Over(n, Beneath)
        = [p \in Pos |-> IF p \notin R THEN Beneath[p]
                         ELSE IF f.has_alpha = 1 /\ f.blend_method = "blend"
                         THEN {n} \union Beneath[p] ELSE {n}]
  BY SameGeometry DEF Compositor!Over, Compositor!Translucent
<1>4. CASE IsKey(n)
  <2>1. Blended(n, Paint(n, ScaledH(f), Prepared(n))) = Drawn(n, Blank)
    <3>1. Prepared(n) = Blank
      BY <1>4 DEF Prepared
    <3>2. Blended(n, Paint(n, ScaledH(f), Prepared(n)))
            = Paint(n, ScaledH(f), Prepared(n))
      BY <1>4 DEF Blended
    <3> QED BY <1>2, <3>1, <3>2
  <2>2. CASE Beneath = Blank
    BY <1>3, <2>1, <2>2 DEF Blank, Drawn
  <2>3. CASE /\ f.has_alpha = 0 \/ f.blend_method = "no_blend"
             /\ IsFullFrame(f)
    <3>1. R = Pos
      BY <1>0, <2>3, FullFrameIsEverything
    <3>2. ~(f.has_alpha = 1 /\ f.blend_method = "blend")
      BY <2>3
    <3>3. Drawn(n, Blank) = [p \in Pos |-> {n}]
      BY <3>1 DEF Drawn
    <3>4. Compositor!Over(n, Beneath) = [p \in Pos |-> {n}]
      <4> HIDE DEF f, R
      <4> QED BY <1>3, <3>1, <3>2
    <3> QED BY <2>1, <3>3, <3>4
  <2>4. n = 1 => Beneath = Blank
    BY DEF Beneath
  <2>5. /\ n > 1
        /\ prev_iter.dispose_method = "background"
        /\ IsFullFrame(prev_iter) \/ prev_frame_was_keyframe = 1
        => Beneath = Blank
    BY DEF IInv, NothingLeft, Beneath
  <2> QED BY <1>0, <1>4, <2>2, <2>3, <2>4, <2>5 DEF IsKey, IsKeyFrame
<1>5. CASE ~IsKey(n)
  <2>1. n > 1 /\ n # 1
    BY <1>0, <1>5 DEF IsKey, IsKeyFrame
  <2>2. Beneath = prev_frame_disposed /\ Prepared(n) = prev_frame_disposed
    BY <1>5, <2>1 DEF Beneath, Prepared
  <2> DEFINE drawn == [p \in Pos |-> IF p \in R THEN {n}
                                     ELSE prev_frame_disposed[p]]
  <2>3. Paint(n, ScaledH(f), Prepared(n)) = drawn
    BY <1>2, <2>2 DEF Drawn
  <2>4. CASE f.blend_method = "blend"
    <3>1. Blended(n, drawn)
            = [p \in Pos |-> IF p \in R /\ f.has_alpha = 1
                             THEN drawn[p] \union prev_frame_disposed[p]
                             ELSE drawn[p]]
      BY <1>5, <2>1, <2>4 DEF Blended, BlendRow
    <3> HIDE DEF f, R
    <3>2. Blended(n, drawn)
            = [p \in Pos |-> IF p \notin R THEN prev_frame_disposed[p]
                             ELSE IF f.has_alpha = 1
                             THEN {n} \union prev_frame_disposed[p] ELSE {n}]
      BY <3>1
    <3> HIDE DEF drawn
    <3> QED BY <1>3, <2>2, <2>3, <2>4, <3>2 DEF f
  <2>5. CASE f.blend_method = "no_blend"
    <3>1. Blended(n, drawn) = drawn
      BY <2>5 DEF Blended
    <3> HIDE DEF R
    <3> QED BY <1>3, <2>2, <2>3, <2>5, <3>1
  <2> QED BY <1>1, <2>4, <2>5
<1> QED BY <1>4, <1>5

LEMMA InitSimulation == Init => Compositor!Init
  BY SameGeometry DEF Init, Compositor!Init, Beneath

LEMMA StepSimulation ==
  ASSUME AllVisible, IInv, IInv', [Next]_vars
  PROVE  [Compositor!Next]_(Compositor!vars)
<1>0. /\ anim \in Anims /\ Len(anim) \in Nat \ {0}
      /\ DOMAIN anim = 1..Len(anim) /\ next_frame \in 1..Len(anim) + 1
      /\ next_frame \in Nat \ {0}
  BY AnimFacts DEF IInv, TypeOK
<1>1. CASE GetNext
  <2> DEFINE n == next_frame
             page == Blended(n, Paint(n, ScaledH(anim[n]), Prepared(n)))
  <2>1. n \in DOMAIN anim /\ n \in Nat /\ n - 1 < Len(anim) /\ n - 1 + 1 = n
    BY <1>0, <1>1 DEF GetNext, HasMoreFrames
  <2>2. /\ prev_frame_timestamp' = prev_frame_timestamp + anim[n].duration
        /\ prev_frame_disposed' = Disposal(anim[n], page)
        /\ next_frame' = n + 1
        /\ anim' = anim
        /\ ret' = [page |-> n, canvas |-> page,
                   timestamp |-> prev_frame_timestamp']
    BY <1>1 DEF GetNext
  <2>3. page = Compositor!Over(n, Beneath)
    BY <2>1, PageIsOver
  <2>4. n + 1 # 1 /\ n + 1 - 1 = n
    BY <2>1
  <2>5. Beneath' = Disposal(anim[n], page)
    BY <2>2, <2>4 DEF Beneath
  <2>6. Disposal(anim[n], page) = Compositor!Disposed(n, page)
    BY SameGeometry DEF Disposal, ZeroFillFrameRect, Compositor!Disposed
  <2> HIDE DEF page
  <2>7. Compositor!Show
    BY <2>1, <2>2, <2>3, <2>4, <2>5, <2>6 DEF Compositor!Show
  <2> QED BY <2>7 DEF Compositor!Next
<1>2. CASE GetNextFails \/ GetNextAtEnd
  <2>1. /\ ret' = NoPage
        /\ UNCHANGED <<anim, prev_frame_disposed, prev_frame_timestamp,
                       next_frame>>
    BY <1>2 DEF GetNextFails, GetNextAtEnd
  <2>2. Compositor!Refuse
    BY <2>1, SameGeometry DEF Compositor!Refuse, Beneath
  <2> QED BY <2>2 DEF Compositor!Next
<1>3. CASE Reset
  <2>1. Compositor!Rewind
    BY <1>3, SameGeometry DEF Reset, Compositor!Rewind, Beneath
  <2> QED BY <2>1 DEF Compositor!Next
<1>4. CASE UNCHANGED vars
  BY <1>4 DEF vars, Compositor!vars, Beneath
<1> QED BY <1>1, <1>2, <1>3, <1>4 DEF Next

(* Every page the animation decoder renders is the page the container asks  *)
(* for: with its two canvases, its key-frames, its failed pages and its     *)
(* rewinds it implements the compositor, for every animation and every size *)
(* at which each frame keeps a pixel.                                       *)
THEOREM DecoderImplementsCompositor ==
  ASSUME AllVisible PROVE Spec => ImplementsCompositor
<1>1. IInv /\ [Next]_vars => IInv'
  BY NextIInv
<1>2. IInv /\ IInv' /\ [Next]_vars => [Compositor!Next]_(Compositor!vars)
  BY StepSimulation
<1> QED BY InitIInv, InitSimulation, <1>1, <1>2, PTL
        DEF Spec, ImplementsCompositor, Compositor!Spec

-----------------------------------------------------------------------------
(* The pixels.                                                               *)

(* The values of a uint8_t, and those of an alpha that needs arithmetic.      *)
Byte == 0..255
Translucent == 1..254

LEMMA Div255Within ==
  ASSUME NEW v \in Nat, v <= 65025
  PROVE  /\ Div255(v) \in 0..255
         /\ 255 * Div255(v) <= v + 254 /\ v <= 255 * Div255(v) + 254
<1>1. PICK q \in Nat : q = v \div 256 /\ 256 * q <= v /\ v < 256 * q + 256
  OBVIOUS
<1>2. PICK r \in Nat : /\ r = (v + 128 + q) \div 256
                       /\ 256 * r <= v + 128 + q /\ v + 128 + q < 256 * r + 256
  OBVIOUS
<1>3. r \in 0..255 /\ 255 * r <= v + 254 /\ v <= 255 * r + 254
  <2>1. q <= 254
    BY <1>1
  <2>2. q <= r /\ r <= q + 2
    BY <1>1, <1>2, <2>1
  <2>3. r \in 0..255
    BY <1>1, <1>2
  <2>4. 255 * r <= v + 254
    BY <1>2, <2>2
  <2>5. v <= 255 * r + 254
    BY <1>2, <2>2
  <2> QED BY <2>3, <2>4, <2>5
<1>4. Div255(v) = r
  BY <1>1, <1>2 DEF Div255
<1> QED BY <1>3, <1>4

LEMMA Quotient ==
  ASSUME NEW n \in Nat
  PROVE  /\ n \div 256 \in Nat
         /\ 256 * (n \div 256) <= n /\ n < 256 * (n \div 256) + 256
OBVIOUS

LEMMA QuotientInOrder ==
  ASSUME NEW m \in Nat, NEW n \in Nat, m <= n
  PROVE  m \div 256 <= n \div 256
<1> DEFINE p == m \div 256
           q == n \div 256
<1>1. p \in Nat /\ q \in Nat /\ 256 * p <= m /\ n < 256 * q + 256
  BY Quotient
<1> HIDE DEF p, q
<1>2. p <= q
  BY <1>1
<1> QED BY <1>2 DEF p, q

LEMMA Div255InOrder ==
  ASSUME NEW v \in Nat, NEW w \in Nat, v <= w
  PROVE  Div255(v) <= Div255(w)
<1> DEFINE p == v \div 256
           q == w \div 256
<1>1. p \in Nat /\ q \in Nat /\ p <= q
  BY Quotient, QuotientInOrder
<1> HIDE DEF p, q
<1>2. v + 128 + p \in Nat /\ w + 128 + q \in Nat /\ v + 128 + p <= w + 128 + q
  BY <1>1
<1>3. (v + 128 + p) \div 256 <= (w + 128 + q) \div 256
  BY <1>2, QuotientInOrder
<1> QED BY <1>3 DEF Div255, p, q

LEMMA ProductOfBytes ==
  ASSUME NEW c \in Byte, NEW a \in Byte
  PROVE  c * a \in Nat /\ c * a <= 255 * a
BY DEF Byte

LEMMA SumOfParts ==
  ASSUME NEW m \in Nat, NEW n \in Nat, NEW a \in Byte, NEW d \in Byte,
         a + d = 255, m <= 255 * a, n <= 255 * d
  PROVE  m + n \in Nat /\ m + n <= 65025
BY DEF Byte

(* The mean of two bytes, weighed with an alpha, is at most 255 times 255.   *)
IsMean(m) == m \in Nat /\ m <= 65025

LEMMA MeanOfBytes ==
  ASSUME NEW c \in Byte, NEW a \in Byte, NEW b \in Byte
  PROVE  IsMean(ExactMean(c, a, b))
<1> DEFINE d == 255 - a
           m == c * a
           n == b * d
<1>1. d \in Byte /\ a + d = 255
  BY DEF Byte
<1> HIDE DEF d
<1>2. m \in Nat /\ m <= 255 * a
  BY ProductOfBytes
<1>3. n \in Nat /\ n <= 255 * d
  BY <1>1, ProductOfBytes
<1> HIDE DEF m, n
<1>4. IsMean(m + n)
  BY <1>1, <1>2, <1>3 DEF IsMean, Byte
<1>5. ExactMean(c, a, b) = m + n
  BY Zenon DEF m, n, d, ExactMean
<1> QED BY <1>4, <1>5, Zenon

(* What DstFactor leaves of the canvas: no more than the frame has room for. *)
FactorFits(sa, da) ==
  /\ DstFactor(sa, da) \in 0..255
  /\ BlendAlpha(sa, da) = sa + DstFactor(sa, da)
  /\ BlendAlpha(sa, da) \in 1..255
  /\ BlendAlpha(sa, da) >= sa /\ BlendAlpha(sa, da) >= da - 1
  /\ da = 255 => BlendAlpha(sa, da) = 255

LEMMA FactorOfBytes ==
  ASSUME NEW sa \in Translucent, NEW da \in Byte
  PROVE  FactorFits(sa, da)
<1> USE DEF Byte, Translucent
<1>1. da * (256 - sa) <= 255 * (256 - sa) /\ da * (256 - sa) >= 0
  OBVIOUS
<1>2. da * (256 - sa) = 256 * da - da * sa /\ da * sa <= 255 * sa
  OBVIOUS
<1> QED BY <1>1, <1>2 DEF FactorFits, DstFactor, BlendAlpha

LEMMA Two24Type == Two24 \in Nat /\ Two24 = 4096 * 4096
BY DEF Two24

(* (v * scale) >> 24 in two halves is the quotient by 2^24.                  *)
LEMMA MulShift24IsQuotient ==
  ASSUME NEW v \in Nat, NEW q \in Nat
  PROVE  /\ MulShift24(v, q) \in Nat
         /\ MulShift24(v, q) * Two24 <= v * q
         /\ v * q < (MulShift24(v, q) + 1) * Two24
<1>1. PICK h \in Nat : h = q \div 4096
  OBVIOUS
<1>2. PICK l \in Nat : l = q % 4096 /\ q = 4096 * h + l
  BY <1>1
<1>3. PICK vh \in Nat : vh = v * h
  OBVIOUS
<1>4. PICK vl \in Nat : vl = v * l
  OBVIOUS
<1>5. 4096 * vh + vl = v * q
  BY <1>2, <1>3, <1>4
<1>6. PICK x \in Nat : x = vl \div 4096 /\ 4096 * x <= vl /\ vl < 4096 * x + 4096
  OBVIOUS
<1>7. PICK r \in Nat : /\ r = (vh + x) \div 4096
                       /\ 4096 * r <= vh + x /\ vh + x < 4096 * r + 4096
  OBVIOUS
<1>8. MulShift24(v, q) = r
  BY <1>1, <1>2, <1>3, <1>4, <1>6, <1>7 DEF MulShift24
<1>9. PICK p \in Nat : p = v * q /\ p = 4096 * vh + vl
  BY <1>5
<1>10. 16777216 * r <= p /\ p < 16777216 * r + 16777216
  BY <1>6, <1>7, <1>9
<1> QED BY <1>8, <1>9, <1>10, Two24Type

(* What blend_unscaled and scale are made of: b parts, between lo and hi.    *)
HasParts(s, sa, d, da, lo, hi) ==
  \E b \in 1..255, v \in Nat, q \in Nat :
     /\ b = BlendAlpha(sa, da) /\ v = BlendUnscaled(s, sa, d, da)
     /\ q = Scale(sa, da)
     /\ lo * b <= v /\ v <= hi * b
     /\ b * q <= Two24 /\ Two24 < b * q + b

LEMMA BlendParts ==
  ASSUME NEW s \in Byte, NEW sa \in Translucent, NEW d \in Byte, NEW da \in Byte,
         NEW lo \in Byte, NEW hi \in Byte, lo <= s, s <= hi,
         DstFactor(sa, da) # 0 => lo <= d /\ d <= hi
  PROVE  HasParts(s, sa, d, da, lo, hi)
<1>0. FactorFits(sa, da)
  BY FactorOfBytes, Zenon
<1> USE DEF Byte, Translucent
<1>1. PICK k \in 0..255 : k = DstFactor(sa, da)
  BY <1>0, Zenon DEF FactorFits
<1>2. PICK b \in 1..255 : b = BlendAlpha(sa, da) /\ b = sa + k
  BY <1>0, <1>1, Zenon DEF FactorFits
<1>3. PICK v \in Nat : /\ v = BlendUnscaled(s, sa, d, da)
                       /\ lo * b <= v /\ v <= hi * b
  <2> DEFINE m == s * sa
             ml == lo * sa
             mh == hi * sa
             n == d * k
             nl == lo * k
             nh == hi * k
  <2>1. m \in Nat /\ ml \in Nat /\ mh \in Nat /\ ml <= m /\ m <= mh
    OBVIOUS
  <2>2. n \in Nat /\ nl \in Nat /\ nh \in Nat /\ nl <= n /\ n <= nh
    <3>1. CASE k = 0
      BY <3>1
    <3>2. CASE k # 0
      <4>1. lo <= d /\ d <= hi
        BY <1>1, <3>2, Zenon
      <4> QED BY <4>1
    <3> QED BY <3>1, <3>2
  <2>3. lo * b = ml + nl /\ hi * b = mh + nh
    BY <1>2
  <2>4. BlendUnscaled(s, sa, d, da) = m + n
    BY <1>1, Zenon DEF BlendUnscaled
  <2> HIDE DEF m, ml, mh, n, nl, nh
  <2>5. m + n \in Nat /\ ml + nl <= m + n /\ m + n <= mh + nh
    BY <2>1, <2>2
  <2> QED BY <2>3, <2>4, <2>5
<1>4. PICK q \in Nat : /\ q = Scale(sa, da)
                       /\ b * q <= Two24 /\ Two24 < b * q + b
  <2>1. Two24 \div b \in Nat /\ b * (Two24 \div b) <= Two24
        /\ Two24 < b * (Two24 \div b) + b
    BY Two24Type
  <2> QED BY <1>2, <2>1, Zenon DEF Scale
<1> QED BY <1>2, <1>3, <1>4, Zenon DEF HasParts

(* The blend is between its parts, but for the one that the division by 256  *)
(* and that by 2^24 cost together.                                           *)
LiesBetween(s, sa, d, da, lo, hi) ==
  LET r == MulShift24(BlendUnscaled(s, sa, d, da), Scale(sa, da))
  IN  r \in Nat /\ lo - 1 <= r /\ r <= hi

LEMMA BlendBetween ==
  ASSUME NEW s \in Byte, NEW sa \in Translucent, NEW d \in Byte, NEW da \in Byte,
         NEW lo \in Byte, NEW hi \in Byte, lo <= s, s <= hi,
         DstFactor(sa, da) # 0 => lo <= d /\ d <= hi
  PROVE  LiesBetween(s, sa, d, da, lo, hi)
<1>0. HasParts(s, sa, d, da, lo, hi)
  BY BlendParts, Zenon
<1> USE DEF Byte, Translucent
<1>1. PICK b \in 1..255, v \in Nat, q \in Nat :
           /\ v = BlendUnscaled(s, sa, d, da) /\ q = Scale(sa, da)
           /\ lo * b <= v /\ v <= hi * b
           /\ b * q <= Two24 /\ Two24 < b * q + b
  BY <1>0, Zenon DEF HasParts
<1>2. PICK r \in Nat : /\ r = MulShift24(v, q)
                       /\ r * Two24 <= v * q /\ v * q < (r + 1) * Two24
  BY MulShift24IsQuotient
<1>3. PICK bq \in Nat : bq = b * q /\ bq <= Two24 /\ Two24 < bq + b
  BY <1>1, Two24Type
<1>4. v * q <= hi * bq /\ lo * bq <= v * q
  <2>1. v * q <= (hi * b) * q /\ (lo * b) * q <= v * q
    BY <1>1
  <2>2. (hi * b) * q = hi * bq /\ (lo * b) * q = lo * bq
    BY <1>3
  <2> QED BY <2>1, <2>2
<1>5. r <= hi
  <2>1. hi * bq <= hi * Two24
    BY <1>3, Two24Type
  <2>2. r * Two24 <= hi * Two24
    BY <1>2, <1>4, <2>1, Two24Type
  <2> QED BY <2>2, Two24Type
<1>6. lo - 1 <= r
  <2>1. lo * Two24 - lo * b <= lo * bq /\ lo * b <= 65025
    BY <1>3, Two24Type
  <2>2. lo * Two24 - 65025 < (r + 1) * Two24
    BY <1>2, <1>4, <2>1, Two24Type
  <2> QED BY <2>2, Two24Type
<1> QED BY <1>1, <1>2, <1>5, <1>6, Zenon DEF LiesBetween

(* Both assertions of BlendPixelNonPremult hold: the alphas add up to a byte *)
(* and the product of the division by 2^24 fits its 32 bits.                 *)
AssertionsOf(s, sa, d, da) ==
  /\ BlendAlpha(sa, da) \in 1..255
  /\ BlendUnscaled(s, sa, d, da) \div 256 < Two24 \div Scale(sa, da)

LEMMA AssertionsHold ==
  ASSUME NEW s \in Byte, NEW sa \in Translucent, NEW d \in Byte, NEW da \in Byte
  PROVE  AssertionsOf(s, sa, d, da)
<1>0. HasParts(s, sa, d, da, 0, 255)
  <2>1. 0 \in Byte /\ 255 \in Byte /\ 0 <= s /\ s <= 255 /\ 0 <= d /\ d <= 255
    BY DEF Byte
  <2> QED BY <2>1, BlendParts, Zenon
<1> USE DEF Byte, Translucent
<1>1. PICK b \in 1..255, v \in Nat, q \in Nat :
           /\ b = BlendAlpha(sa, da) /\ v = BlendUnscaled(s, sa, d, da)
           /\ q = Scale(sa, da) /\ v <= 255 * b
           /\ b * q <= Two24 /\ Two24 < b * q + b
  BY <1>0, Zenon DEF HasParts
<1>2. v \div 256 < b
  BY <1>1
<1>3. q \in Nat \ {0}
  <2>1. CASE q = 0
    <3>1. Two24 < b * q + b
      BY <1>1
    <3>2. Two24 < b
      BY <2>1, <3>1, Two24Type
    <3> QED BY <3>2, Two24Type
  <2> QED BY <2>1
<1>4. PICK n \in Nat : n = Two24 \div q /\ n * q <= Two24 /\ Two24 < n * q + q
  BY <1>3, Two24Type
<1>5. b <= n
  <2>1. b * q < (n + 1) * q
    BY <1>1, <1>4, Two24Type
  <2> QED BY <1>3, <2>1
<1>6. v \div 256 < n
  BY <1>2, <1>5
<1> QED BY <1>1, <1>4, <1>6, Zenon DEF AssertionsOf

LEMMA CompositeIsByte ==
  ASSUME NEW c \in Byte, NEW a \in Byte, NEW b \in Byte
  PROVE  Composite(c, a, b) \in Byte
<1>1. IsMean(ExactMean(c, a, b))
  BY MeanOfBytes, Zenon
<1>2. PICK m \in Nat : m = ExactMean(c, a, b) /\ m <= 65025
  BY <1>1 DEF IsMean
<1>3. Div255(m) \in 0..255
  BY <1>2, Div255Within
<1>4. Composite(c, a, b) \in {c, b, Div255(m)}
  BY <1>2 DEF Composite, ExactMean
<1> QED BY <1>3, <1>4 DEF Byte

-----------------------------------------------------------------------------
(* The inductive invariant: the pixel holds bytes all the way, and what the  *)
(* last step computed is what it was computed from, which no later step      *)
(* changes.                                                                  *)
Bytes == /\ src \in Byte /\ src_a \in Byte
         /\ dst \in Byte /\ dst_a \in Byte
         /\ curr \in Byte /\ curr_a \in Byte
         /\ bg \in Byte /\ out \in Byte

Steps == /\ at \in {"decoded", "blended", "shown"}
         /\ at = "blended" => /\ curr = BlendChannel(src, src_a, dst, dst_a)
                              /\ curr_a = BlendPixelAlpha(src_a, dst_a)
         /\ at = "shown" => out = Composite(curr, curr_a, bg)

PixelIInv == Bytes /\ Steps

LEMMA BlendedBytes ==
  ASSUME Bytes
  PROVE  /\ BlendChannel(src, src_a, dst, dst_a) \in Byte
         /\ BlendPixelAlpha(src_a, dst_a) \in Byte
<1> USE DEF Bytes
<1>1. CASE src_a = 255
  BY <1>1 DEF BlendChannel, BlendPixelAlpha, Byte
<1>2. CASE src_a = 0
  BY <1>2 DEF BlendChannel, BlendPixelAlpha
<1>3. CASE src_a \in Translucent
  <2>1. LiesBetween(src, src_a, dst, dst_a, 0, 255)
    <3>1. /\ 0 \in Byte /\ 255 \in Byte /\ 0 <= src /\ src <= 255
          /\ 0 <= dst /\ dst <= 255
      BY DEF Byte
    <3> QED BY <1>3, <3>1, BlendBetween, Zenon
  <2>2. MulShift24(BlendUnscaled(src, src_a, dst, dst_a), Scale(src_a, dst_a)) \in Byte
    BY <2>1 DEF LiesBetween, Byte
  <2>3. FactorFits(src_a, dst_a)
    BY <1>3, FactorOfBytes, Zenon
  <2>4. src_a # 255 /\ src_a # 0 /\ 1..255 \subseteq Byte
    BY <1>3 DEF Byte, Translucent
  <2> QED
    BY <2>2, <2>3, <2>4, Zenon DEF BlendChannel, BlendPixelAlpha, FactorFits
<1> QED BY <1>1, <1>2, <1>3 DEF Byte, Translucent

LEMMA BytesInvariant == PixelSpec => []PixelIInv
<1>1. PixelInit => PixelIInv
  BY PixelAssumption DEF PixelInit, PixelIInv, Bytes, Steps, kChecker, Byte
<1>2. PixelIInv /\ [PixelNext]_pixelVars => PixelIInv'
  <2> SUFFICES ASSUME PixelIInv, [PixelNext]_pixelVars PROVE PixelIInv'
    OBVIOUS
  <2>1. CASE BlendOver
    <3>1. curr' \in Byte /\ curr_a' \in Byte
      BY <2>1, BlendedBytes, Zenon DEF BlendOver, PixelIInv
    <3>2. Bytes'
      BY <2>1, <3>1 DEF BlendOver, PixelIInv, Bytes
    <3>3. Steps'
      BY <2>1 DEF BlendOver, Steps
    <3> QED BY <3>2, <3>3 DEF PixelIInv
  <2>2. CASE Show
    <3>1. Bytes'
      <4>1. Composite(curr, curr_a, bg) \in Byte
        BY CompositeIsByte, Zenon DEF PixelIInv, Bytes
      <4> QED BY <2>2, <4>1 DEF Show, PixelIInv, Bytes
    <3>2. Steps'
      BY <2>2 DEF Show, Steps
    <3> QED BY <3>1, <3>2 DEF PixelIInv
  <2>3. CASE UNCHANGED pixelVars
    BY <2>3 DEF pixelVars, PixelIInv, Bytes, Steps
  <2> QED BY <2>1, <2>2, <2>3 DEF PixelNext
<1> QED BY <1>1, <1>2, PTL DEF PixelSpec

(* A blend hides nothing that was opaque, whatever the bytes are (the blend  *)
(* of BlendPixelNonPremult).                                                 *)
THEOREM OpacityIsKept == PixelSpec => []BlendKeepsOpacity
<1>1. PixelIInv => BlendKeepsOpacity
  <2> SUFFICES ASSUME PixelIInv, at = "blended"
               PROVE  /\ curr_a >= src_a /\ curr_a >= dst_a - 1
                      /\ dst_a = 255 => curr_a = 255
    BY DEF BlendKeepsOpacity
  <2>1. src_a \in Byte /\ dst_a \in Byte /\ curr_a = BlendPixelAlpha(src_a, dst_a)
    BY DEF PixelIInv, Bytes, Steps
  <2>2. CASE src_a = 255
    BY <2>1, <2>2 DEF BlendPixelAlpha, Byte
  <2>3. CASE src_a = 0
    BY <2>1, <2>3 DEF BlendPixelAlpha, Byte
  <2>4. CASE src_a \in Translucent
    <3>1. curr_a = BlendAlpha(src_a, dst_a)
      <4>1. src_a # 255 /\ src_a # 0
        BY <2>4 DEF Translucent
      <4> QED BY <2>1, <4>1, Zenon DEF BlendPixelAlpha
    <3>2. FactorFits(src_a, dst_a)
      BY <2>1, <2>4, FactorOfBytes, Zenon
    <3> QED BY <3>1, <3>2, Zenon DEF FactorFits
  <2> QED BY <2>1, <2>2, <2>3, <2>4 DEF Byte, Translucent
<1> QED BY <1>1, BytesInvariant, PTL

(* The composite of compositeBGRAtoBGR, with its special cases.              *)
LEMMA CompositeWithin ==
  ASSUME NEW c \in Byte, NEW a \in Byte, NEW b \in Byte
  PROVE  WithinOne(Composite(c, a, b), ExactMean(c, a, b))
<1>0. IsMean(ExactMean(c, a, b))
  BY MeanOfBytes, Zenon
<1> USE DEF Byte, Translucent
<1>1. CASE a = 255
  BY <1>1 DEF Composite, ExactMean, WithinOne
<1>2. CASE a = 0
  BY <1>2 DEF Composite, ExactMean, WithinOne
<1>3. CASE a \in Translucent
  <2>1. PICK m \in Nat : m = ExactMean(c, a, b) /\ m <= 65025
    BY <1>0 DEF IsMean
  <2>2. WithinOne(Div255(m), m)
    BY <2>1, Div255Within DEF WithinOne
  <2>3. Composite(c, a, b) = Div255(m)
    BY <1>3, <2>1 DEF Composite, ExactMean
  <2> QED BY <2>1, <2>2, <2>3
<1> QED BY <1>1, <1>2, <1>3

(* What is shown is less than one away from the exact mean of the pixel and  *)
(* the checkerboard, whatever the bytes are (the composite of                *)
(* compositeBGRAtoBGR).                                                      *)
THEOREM ShownIsWithinOne == PixelSpec => []ShownWithinOne
<1>1. PixelIInv => ShownWithinOne
  <2> SUFFICES ASSUME PixelIInv, at = "shown"
               PROVE  WithinOne(out, ExactMean(curr, curr_a, bg))
    BY DEF ShownWithinOne
  <2>1. curr \in Byte /\ curr_a \in Byte /\ bg \in Byte
    BY DEF PixelIInv, Bytes
  <2>2. out = Composite(curr, curr_a, bg)
    BY DEF PixelIInv, Steps
  <2>3. WithinOne(Composite(curr, curr_a, bg), ExactMean(curr, curr_a, bg))
    BY <2>1, CompositeWithin, Zenon
  <2> QED BY <2>2, <2>3, Zenon
<1> QED BY <1>1, BytesInvariant, PTL

(* One more in the channel is never one less in the composite.               *)
LEMMA CompositeInOrder ==
  ASSUME NEW c \in 0..254, NEW a \in Byte, NEW b \in Byte
  PROVE  Composite(c, a, b) <= Composite(c + 1, a, b)
<1> USE DEF Byte, Translucent
<1>1. CASE a = 255
  BY <1>1 DEF Composite
<1>2. CASE a = 0
  BY <1>2 DEF Composite
<1>3. CASE a \in Translucent
  <2>1. PICK v \in Nat : v = c * a + b * (255 - a)
    OBVIOUS
  <2>2. PICK w \in Nat : w = (c + 1) * a + b * (255 - a) /\ w = v + a
    BY <2>1
  <2>3. Div255(v) <= Div255(w)
    BY <2>2, Div255InOrder
  <2>4. Composite(c, a, b) = Div255(v) /\ Composite(c + 1, a, b) = Div255(w)
    BY <1>3, <2>1, <2>2 DEF Composite
  <2> QED BY <2>3, <2>4
<1> QED BY <1>1, <1>2, <1>3

(* A brighter pixel is not shown darker, whatever the bytes are (the         *)
(* composite of compositeBGRAtoBGR).                                         *)
THEOREM ShowsInOrder == PixelSpec => []ShownInOrder
<1>1. PixelIInv => ShownInOrder
  <2> SUFFICES ASSUME PixelIInv, at = "shown", curr < 255
               PROVE  out <= Composite(curr + 1, curr_a, bg)
    BY Zenon DEF ShownInOrder
  <2>1. curr \in 0..254 /\ curr_a \in Byte /\ bg \in Byte
    BY DEF PixelIInv, Bytes, Byte
  <2>2. out = Composite(curr, curr_a, bg)
    BY DEF PixelIInv, Steps
  <2> QED BY <2>1, <2>2, CompositeInOrder, Zenon
<1> QED BY <1>1, BytesInvariant, PTL

(* What a viewer sees of a pixel is the mean of pixel and board, within one,  *)
(* and in the order of the channels.                                         *)
THEOREM ShowsFaithfully == PixelSpec => []ShownFaithfully
<1> QED BY ShownIsWithinOne, ShowsInOrder, PTL DEF ShownFaithfully

-----------------------------------------------------------------------------
(* What a blend stores is a byte and lies between what it blends, and its    *)
(* assertions hold, whatever the bytes are.                                  *)
THEOREM BlendStaysBetween == PixelSpec => []BlendIsBounded
<1>1. ASSUME PixelIInv PROVE FitsTheTypes
  <2>1. Bytes
    BY <1>1 DEF PixelIInv
  <2>2. CASE src_a \in Translucent
    <3>1. AssertionsOf(src, src_a, dst, dst_a)
      BY <2>1, <2>2, AssertionsHold, Zenon DEF Bytes
    <3> QED BY <2>1, <3>1, Zenon DEF Bytes, FitsTheTypes, AssertionsOf, Byte
  <2> QED BY <2>1, <2>2 DEF Bytes, FitsTheTypes, Byte, Translucent
<1>2. ASSUME PixelIInv, at = "blended"
      PROVE  /\ dst_a > 0 => Less(src, dst) - 1 <= curr /\ curr <= More(src, dst)
             /\ dst_a = 0 /\ src_a > 0 =>
                  curr \in {src - 1, src} /\ curr >= 0 /\ curr_a = src_a
  <2>1. /\ src \in Byte /\ src_a \in Byte /\ dst \in Byte
        /\ dst_a \in Byte /\ curr \in Byte
        /\ curr = BlendChannel(src, src_a, dst, dst_a)
        /\ curr_a = BlendPixelAlpha(src_a, dst_a)
    BY <1>2 DEF PixelIInv, Bytes, Steps
  <2>2. CASE src_a = 255
    BY <2>1, <2>2 DEF BlendChannel, BlendPixelAlpha, Less, More, Byte
  <2>3. CASE src_a = 0
    BY <2>1, <2>3 DEF BlendChannel, BlendPixelAlpha, Less, More, Byte
  <2>4. CASE src_a \in Translucent
    <3>1. /\ curr = MulShift24(BlendUnscaled(src, src_a, dst, dst_a),
                              Scale(src_a, dst_a))
          /\ curr_a = BlendAlpha(src_a, dst_a)
      BY <2>1, <2>4 DEF BlendChannel, BlendPixelAlpha, Translucent
    <3>2. CASE dst_a > 0
      <4> DEFINE lo == Less(src, dst)
                 hi == More(src, dst)
      <4>1. /\ lo \in Byte /\ hi \in Byte
            /\ lo <= src /\ src <= hi /\ lo <= dst /\ dst <= hi
        BY <2>1 DEF Less, More, Byte
      <4> HIDE DEF lo, hi
      <4>2. LiesBetween(src, src_a, dst, dst_a, lo, hi)
        BY <2>1, <2>4, <4>1, BlendBetween, Zenon
      <4>3. lo - 1 <= curr /\ curr <= hi
        BY <3>1, <4>2, Zenon DEF LiesBetween
      <4> QED BY <3>2, <4>3 DEF lo, hi
    <3>3. CASE dst_a = 0
      <4>1. DstFactor(src_a, dst_a) = 0
        BY <2>1, <2>4, <3>3 DEF DstFactor, Translucent
      <4>2. LiesBetween(src, src_a, dst, dst_a, src, src)
        <5>1. src <= src
          BY <2>1 DEF Byte
        <5> QED BY <2>1, <2>4, <4>1, <5>1, BlendBetween, Zenon
      <4>3. src - 1 <= curr /\ curr <= src
        BY <3>1, <4>2, Zenon DEF LiesBetween
      <4>4. curr_a = src_a
        BY <2>4, <3>1, <4>1 DEF BlendAlpha, Translucent
      <4> QED BY <2>1, <3>3, <4>3, <4>4 DEF Byte
    <3> QED BY <2>1, <3>2, <3>3 DEF Byte
  <2> QED BY <2>1, <2>2, <2>3, <2>4 DEF Byte, Translucent
<1>3. PixelIInv => BlendIsBounded
  BY <1>1, <1>2 DEF BlendIsBounded, BlendIsBetween
<1> QED BY <1>3, BytesInvariant, PTL
=============================================================================
