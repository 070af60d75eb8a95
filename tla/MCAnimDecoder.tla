--------------------------- MODULE MCAnimDecoder ---------------------------
(* Animations of up to three frames on a canvas of 6x4, rendered on 4x2.    *)
EXTENDS AnimDecoder

Box(x, y, w, h) == [x_offset |-> x, y_offset |-> y, width |-> w, height |-> h]

(* The whole canvas, its left part and a corner that overlaps it.             *)
Boxes == {Box(0, 0, 6, 4), Box(0, 0, 4, 4), Box(2, 2, 4, 2)}

MCFrames ==
  {[x_offset |-> b.x_offset, y_offset |-> b.y_offset,
    width |-> b.width, height |-> b.height, has_alpha |-> a,
    blend_method |-> m, dispose_method |-> d, duration |-> 1] :
      b \in Boxes, a \in 0..1, m \in Blends, d \in Disposals}

(* What the last frame would leave behind is never seen.                    *)
MCAnims == {a \in UNION {[1..n -> MCFrames] : n \in {1, 3}} :
              a[Len(a)].dispose_method = "none"}
=============================================================================
