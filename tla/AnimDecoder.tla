---------------------------- MODULE AnimDecoder ----------------------------
(* WebPAnimDecoder: libwebp's src/demux/anim_decode.c, with the scaled      *)
(* canvas this repository adds to it.  The decoder keeps two canvases, one  *)
(* for the page and one, disposed, for the next frame to be drawn over; a   *)
(* key-frame starts from a cleared canvas instead; a page whose decoding    *)
(* fails leaves the first canvas half drawn; and a rewind clears neither.   *)
(* A pixel is the set of the frames whose colour it carries.                *)
EXTENDS FrameGeometry

VARIABLES anim,                     \* the animation: dec->demux
          curr_frame,               \* the page handed to the caller
          prev_frame_disposed,      \* what the next frame is drawn over
          prev_frame_timestamp,
          prev_iter,                \* the frame drawn last, or all zero
          prev_frame_was_keyframe,
          next_frame,               \* from 1
          ret                       \* what the last call gave the caller

vars == <<anim, curr_frame, prev_frame_disposed, prev_frame_timestamp,
          prev_iter, prev_frame_was_keyframe, next_frame, ret>>

Blank == [p \in Pos |-> {}]
NoPage == [page |-> 0, canvas |-> Blank, timestamp |-> 0]
ZeroIter == [x_offset |-> 0, y_offset |-> 0, width |-> 0, height |-> 0,
             has_alpha |-> 0, blend_method |-> "blend",
             dispose_method |-> "none", duration |-> 0]

HasMoreFrames == next_frame <= Len(anim)

-----------------------------------------------------------------------------
\* The slip of taking any disposed frame for one that left nothing behind.
DisposedIsKey(n, prev, prev_was_key) ==
  \/ n = 1
  \/ /\ anim[n].has_alpha = 0 \/ anim[n].blend_method = "no_blend"
     /\ IsFullFrame(anim[n])
  \/ prev.dispose_method = "background"

IsKeyFrame(n, prev, prev_was_key) ==
  \/ n = 1
  \/ /\ anim[n].has_alpha = 0 \/ anim[n].blend_method = "no_blend"
     /\ IsFullFrame(anim[n])
  \/ /\ prev.dispose_method = "background"
     /\ IsFullFrame(prev) \/ prev_was_key = 1

IsKey(n) == IsKeyFrame(n, prev_iter, prev_frame_was_keyframe)

(* A decode into a box with no width, or no height, keeps the proportions   *)
(* of the frame (WebPRescalerGetScaledDimensions); with neither it fails,   *)
(* and with no height the output buffer has no byte and it fails as well.   *)
PaintedW(f) == IF ScaledW(f) > 0 THEN ScaledW(f)
               ELSE (f.width * ScaledH(f) + f.height - 1) \div f.height

Painted(f) == Area(f, PaintedW(f), ScaledH(f))

(* WebPDecode overwrites the frame's pixels, here all of them or the first  *)
(* rows only, when it fails.                                                *)
Paint(n, rows, canvas) ==
  [p \in Pos |-> IF p \in Painted(anim[n]) /\ p[2] < Top(anim[n]) + rows
                 THEN {n} ELSE canvas[p]]

(* The canvas the frame is decoded on.                                      *)
Prepared(n) == IF IsKey(n) THEN Blank ELSE prev_frame_disposed

BlendRow(n, canvas) ==
  [p \in Pos |-> IF p \in Rect(anim[n]) /\ anim[n].has_alpha = 1
                 THEN canvas[p] \union prev_frame_disposed[p]
                 ELSE canvas[p]]

\* The slip of blending every frame, whatever it asks for.
AlwaysBlended(n, canvas) == IF n > 1 THEN BlendRow(n, canvas) ELSE canvas

Blended(n, canvas) ==
  IF n > 1 /\ anim[n].blend_method = "blend" /\ ~IsKey(n)
  THEN BlendRow(n, canvas) ELSE canvas

ZeroFillFrameRect(f, canvas) ==
  [p \in Pos |-> IF p \in Rect(f) THEN {} ELSE canvas[p]]

Disposal(f, canvas) ==
  IF f.dispose_method = "background" THEN ZeroFillFrameRect(f, canvas)
  ELSE canvas

-----------------------------------------------------------------------------
(* WebPAnimDecoderNew: both canvases are calloc()ed.                        *)
Init == /\ anim \in Anims
        /\ curr_frame = Blank /\ prev_frame_disposed = Blank
        /\ prev_frame_timestamp = 0 /\ prev_iter = ZeroIter
        /\ prev_frame_was_keyframe = 0 /\ next_frame = 1
        /\ ret = NoPage

GetNext ==
  /\ HasMoreFrames
  /\ ScaledH(anim[next_frame]) > 0
  /\ LET n == next_frame
         f == anim[n]
     IN /\ curr_frame' = Blended(n, Paint(n, ScaledH(f), Prepared(n)))
        /\ prev_frame_timestamp' = prev_frame_timestamp + f.duration
        /\ prev_iter' = f
        /\ prev_frame_was_keyframe' = IF IsKey(n) THEN 1 ELSE 0
        /\ prev_frame_disposed' = Disposal(f, curr_frame')
        /\ next_frame' = n + 1
        /\ ret' = [page |-> n, canvas |-> curr_frame',
                   timestamp |-> prev_frame_timestamp']
  /\ UNCHANGED anim

(* WebPDemuxGetFrame fails before the canvas is touched; or the bitstream   *)
(* of the frame is broken, or no memory is left: goto Error with the canvas *)
(* prepared and some rows of it drawn.                                      *)
GetNextFails ==
  /\ HasMoreFrames
  /\ \/ UNCHANGED curr_frame
     \/ \E rows \in 0..ScaledH(anim[next_frame]) :
          curr_frame' = Paint(next_frame, rows, Prepared(next_frame))
  /\ ret' = NoPage
  /\ UNCHANGED <<anim, prev_frame_disposed, prev_frame_timestamp, prev_iter,
                 prev_frame_was_keyframe, next_frame>>

GetNextAtEnd ==
  /\ ~HasMoreFrames
  /\ ret' = NoPage
  /\ UNCHANGED <<anim, curr_frame, prev_frame_disposed, prev_frame_timestamp,
                 prev_iter, prev_frame_was_keyframe, next_frame>>

Reset ==
  /\ prev_frame_timestamp' = 0 /\ prev_iter' = ZeroIter
  /\ prev_frame_was_keyframe' = 0 /\ next_frame' = 1
  /\ ret' = NoPage
  /\ UNCHANGED <<anim, curr_frame, prev_frame_disposed>>

Next == GetNext \/ GetNextFails \/ GetNextAtEnd \/ Reset

Spec == Init /\ [][Next]_vars

-----------------------------------------------------------------------------
Canvas == [Pos -> SUBSET Nat]

(* Every variable keeps its type, and the decoder's notes on the last frame *)
(* (prev_iter) are of the frame before next_frame.                          *)
TypeOK ==
  /\ anim \in Anims
  /\ curr_frame \in Canvas /\ prev_frame_disposed \in Canvas
  /\ prev_frame_timestamp \in Nat
  /\ next_frame \in 1..Len(anim) + 1
  /\ prev_iter = IF next_frame = 1 THEN ZeroIter ELSE anim[next_frame - 1]
  /\ prev_frame_was_keyframe \in 0..1

(* The short-cut of IsKeyFrame loses no pixel: when the next frame is taken *)
(* for a key-frame, and the canvas cleared for it, what was to lie beneath  *)
(* it is blank already, or is covered by it completely.                     *)
KeyFrameLosesNothing ==
  next_frame \in 2..Len(anim) /\ IsKey(next_frame) =>
    \A p \in Pos : \/ prev_frame_disposed[p] = {}
                   \/ p \in Rect(anim[next_frame])
                        /\ ( \/ anim[next_frame].has_alpha = 0
                             \/ anim[next_frame].blend_method = "no_blend" )

(* The page after a rewind, and the time it ends, are what they would be in *)
(* a new decoder, whatever the canvases still hold: the implementation of   *)
(* the compositor of the container by the two canvases.                     *)
Beneath == IF next_frame = 1 THEN Blank ELSE prev_frame_disposed

Compositor == INSTANCE AnimCompositor
                WITH pos <- next_frame - 1, beneath <- Beneath,
                     time <- prev_frame_timestamp

ImplementsCompositor == Compositor!Spec

(* The assumption it rests on: scaling leaves every frame at least a pixel. *)
AllVisible == \A a \in Anims : \A n \in DOMAIN a : Visible(a[n])

Wraps(val, scaled) == val * scaled >= UIntRange

(* No frame is written past the edge of the canvas rendered on, however it  *)
(* is rounded and even where SCALE_DIM wraps around.  Where it does not,    *)
(* rounding keeps the layout of the file: a frame is not moved onto one     *)
(* that lies to the left of it, or above it.                                *)
ScalingKeepsTheLayout ==
  \A m, n \in DOMAIN anim :
    /\ Left(anim[n]) + ScaledW(anim[n]) <= OutW
    /\ Top(anim[n]) + ScaledH(anim[n]) <= OutH
    /\ /\ anim[m].x_offset + anim[m].width <= anim[n].x_offset
       /\ ~Wraps(anim[n].x_offset, OutW)
       => Left(anim[m]) + ScaledW(anim[m]) <= Left(anim[n])
    /\ /\ anim[m].y_offset + anim[m].height <= anim[n].y_offset
       /\ ~Wraps(anim[n].y_offset, OutH)
       => Top(anim[m]) + ScaledH(anim[m]) <= Top(anim[n])
=============================================================================
