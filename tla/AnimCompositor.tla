--------------------------- MODULE AnimCompositor ---------------------------
(* What a WebP animation decoder promises, in the words of the container:   *)
(* the pages of an animation come in order, each is its frame over what the *)
(* page before left behind, and a page may dispose of its rectangle before  *)
(* the next one is drawn.  There is one canvas, no key-frame, no buffer that*)
(* survives a rewind and no half-decoded page here: those are the business  *)
(* of AnimDecoder.  A pixel is the set of the frames whose colour it still  *)
(* carries: {} is transparent.                                              *)
EXTENDS FrameGeometry

VARIABLES anim,      \* the animation
          pos,       \* how many pages of this pass have been shown
          beneath,   \* what the next frame is drawn over
          time,      \* when the last page ends, in milliseconds
          ret        \* what the last call gave the caller

vars == <<anim, pos, beneath, time, ret>>

Blank == [p \in Pos |-> {}]
NoPage == [page |-> 0, canvas |-> Blank, timestamp |-> 0]

(* A frame is seen through only where it has alpha and asks to be blended.  *)
Translucent(f) == f.has_alpha = 1 /\ f.blend_method = "blend"

Over(n, canvas) ==
  [p \in Pos |-> IF p \notin Rect(anim[n]) THEN canvas[p]
                 ELSE IF Translucent(anim[n]) THEN {n} \union canvas[p]
                 ELSE {n}]

Disposed(n, canvas) ==
  IF anim[n].dispose_method = "background"
  THEN [p \in Pos |-> IF p \in Rect(anim[n]) THEN {} ELSE canvas[p]]
  ELSE canvas

Init == /\ anim \in Anims
        /\ pos = 0 /\ beneath = Blank /\ time = 0 /\ ret = NoPage

Show == /\ pos < Len(anim)
        /\ LET n == pos + 1
               canvas == Over(n, beneath)
           IN /\ pos' = n
              /\ beneath' = Disposed(n, canvas)
              /\ time' = time + anim[n].duration
              /\ ret' = [page |-> n, canvas |-> canvas, timestamp |-> time']
        /\ UNCHANGED anim

(* No page is left, or the page cannot be decoded: nothing is lost by it.   *)
Refuse == ret' = NoPage /\ UNCHANGED <<anim, pos, beneath, time>>

Rewind == pos' = 0 /\ beneath' = Blank /\ time' = 0 /\ ret' = NoPage
          /\ UNCHANGED anim

Next == Show \/ Refuse \/ Rewind

Spec == Init /\ [][Next]_vars
=============================================================================
