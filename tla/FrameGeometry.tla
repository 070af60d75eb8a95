--------------------------- MODULE FrameGeometry ---------------------------
(* The frames of an animation, and where a frame lies on the canvas the     *)
(* animation decoder of libwebp (src/demux/anim_decode.c) renders on.  The  *)
(* file gives a frame its rectangle in the coordinates of its own canvas    *)
(* (CanvasW x CanvasH); this repository's copy of the decoder renders on a  *)
(* canvas of OutW x OutH and scales each rectangle down to it.              *)
EXTENDS Integers, Sequences

CONSTANTS CanvasW, CanvasH,     \* the canvas of the file
          OutW, OutH,           \* the canvas rendered on
          MaxDimension,         \* the longest side of a bitstream: 14 bits
          UIntRange,            \* the values of an unsigned: 32 bits
          Anims                 \* the animations that may be opened

Blends == {"blend", "no_blend"}             \* WebPMuxAnimBlend
Disposals == {"none", "background"}         \* WebPMuxAnimDispose

(* The frames CheckFrameBounds of the demuxer accepts.  A canvas has sides  *)
(* of 24 bits, but the size of a frame is that of its bitstream.            *)
Frame == [x_offset: 0..CanvasW - 1, y_offset: 0..CanvasH - 1,
          width: {w \in 1..CanvasW : w <= MaxDimension},
          height: {h \in 1..CanvasH : h <= MaxDimension}, has_alpha: 0..1,
          blend_method: Blends, dispose_method: Disposals, duration: Nat]

InBounds(f) == /\ f.x_offset + f.width <= CanvasW
               /\ f.y_offset + f.height <= CanvasH

\* The slip of rounding up instead of down.
ScaleDimUp(val, full, scaled) ==
  ((val * scaled + full - 1) % UIntRange) \div full

(* The product is one of unsigned integers.  It wraps around for places far *)
(* out on a canvas longer than 65535, which the demuxer accepts: a frame    *)
(* there is drawn further to the left, or higher up, than the file has it.  *)
ScaleDim(val, full, scaled) == ((val * scaled) % UIntRange) \div full

Pos == (0..OutW - 1) \X (0..OutH - 1)

Left(f) == ScaleDim(f.x_offset, CanvasW, OutW)
Top(f) == ScaleDim(f.y_offset, CanvasH, OutH)
ScaledW(f) == ScaleDim(f.width, CanvasW, OutW)
ScaledH(f) == ScaleDim(f.height, CanvasH, OutH)

Area(f, w, h) == {p \in Pos : /\ Left(f) <= p[1] /\ p[1] < Left(f) + w
                              /\ Top(f) <= p[2] /\ p[2] < Top(f) + h}

(* What the compositor treats as the frame's rectangle.                     *)
Rect(f) == Area(f, ScaledW(f), ScaledH(f))

IsFullFrame(f) == f.width = CanvasW /\ f.height = CanvasH

(* The frames that keep at least a pixel in each direction when scaled.     *)
Visible(f) == ScaledW(f) > 0 /\ ScaledH(f) > 0

ASSUME CanvasAssumption ==
  /\ CanvasW \in Nat \ {0} /\ CanvasH \in Nat \ {0}
  /\ OutW \in 1..CanvasW /\ OutH \in 1..CanvasH
  /\ MaxDimension \in Nat \ {0} /\ UIntRange \in Nat \ {0}
  /\ MaxDimension * MaxDimension < UIntRange

ASSUME AnimsAssumption ==
  /\ Anims \subseteq Seq(Frame)
  /\ \A a \in Anims : Len(a) > 0 /\ \A n \in DOMAIN a : InBounds(a[n])
=============================================================================
