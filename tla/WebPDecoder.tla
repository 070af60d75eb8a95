----------------------------- MODULE WebPDecoder -----------------------------
(* The decoder objects of src/codec/WebPDecoder.{h,cpp} and the libwebp       *)
(* animation decoders they own.                                               *)
(*                                                                            *)
(* Both kinds of object live in a heap: `decoders` and `anims` map every      *)
(* address to the object allocated there, or to Null.  A WebPDecoder refers   *)
(* to its animation decoder by address, as anim_decoder_ does, so a leaked,   *)
(* shared or dangling animation decoder is a state of this model.             *)
(*                                                                            *)
(* The module has no next-state relation of its own: the plug-in (WebPlugin)  *)
(* drives the operations below, exactly as WebPlugin.cpp does.  Pixels are    *)
(* abstracted to the number of the animation frame they show; how a frame is  *)
(* composited is the subject of AnimDecoder.                                  *)
EXTENDS Integers, Sequences

CONSTANTS
    Handles,    \* addresses a WebPDecoder may be allocated at
    AnimPtrs,   \* addresses a WebPAnimDecoder may be allocated at
    Images,     \* the source files
    Null        \* the null pointer

\* A source file as the bitstream probe and the demuxer see it: the canvas
\* size, the animation flag, and the duration of each frame (one for a still).
ImageType == [w : Nat \ {0}, h : Nat \ {0}, animated : BOOLEAN,
              durations : Seq(Nat) \ {<<>>}]

\* The members of a WebPDecoder: the source, anim_decoder_, anim_scale_w_/h_.
DecoderType == [image : Images, anim : AnimPtrs \cup {Null}, scale : Nat \X Nat]

\* The members of a WebPAnimDecoder: the source, the size of its canvases,
\* next_frame (counted from 1).
AnimType == [image : Images, canvas : Nat \X Nat, next : Nat \ {0}]

ASSUME ImagesAssumption == Images \subseteq ImageType
ASSUME NullAssumption ==
    /\ Null \notin Handles
    /\ Null \notin AnimPtrs
    /\ Null \notin DecoderType
    /\ Null \notin AnimType

VARIABLES decoders, anims

decoderVars == <<decoders, anims>>

(****************************************************************************)
(* Sizes and delays: the pure functions of the class.                       *)
(****************************************************************************)
FullSize(im) == <<im.w, im.h>>

\* A scaled output pays only below 55% of the area; the division truncates.
ResolveOutputSize(im, req) ==
    IF req[1] <= 0 \/ req[2] <= 0
    THEN FullSize(im)
    ELSE IF req[1] * req[2] >= (im.w * im.h * 55) \div 100
         THEN FullSize(im)
         ELSE req

\* The scale getFrame asks of the animation decoder: 0 x 0 for no scaling.
ScaleFor(im, out) == IF out = FullSize(im) THEN <<0, 0>> ELSE out

\* The canvas WebPAnimDecoderNew allocates for a scale.
CanvasFor(im, scale) ==
    IF scale[1] > 0 /\ scale[2] > 0 THEN scale ELSE FullSize(im)

DefaultFrameDelayMs == 100

\* frame_delays_ as decode() fills it, index 0 first.
FrameDelay(im, i) ==
    LET d == im.durations[i + 1] IN IF d > 0 THEN d ELSE DefaultFrameDelayMs

\* Slip: one page too many.
CountsOneMore(h) ==
    LET im == decoders[h].image IN IF im.animated THEN Len(im.durations) + 1 ELSE 1

GetFrameCount(h) ==
    LET im == decoders[h].image IN IF im.animated THEN Len(im.durations) ELSE 1

GetFrameDelay(h, i) ==
    LET im == decoders[h].image IN
    IF ~im.animated \/ i < 0 \/ i >= Len(im.durations) THEN 0 ELSE FrameDelay(im, i)

(****************************************************************************)
(* The heap.                                                                *)
(****************************************************************************)
Open == {h \in Handles : decoders[h] # Null}
FreeHandles == Handles \ Open

DecoderTypeOK ==
    /\ decoders \in [Handles -> DecoderType \cup {Null}]
    /\ anims \in [AnimPtrs -> AnimType \cup {Null}]

DecoderInit ==
    /\ decoders = [h \in Handles |-> Null]
    /\ anims = [p \in AnimPtrs |-> Null]

\* WebPAnimDecoderDelete: the null pointer is ignored.
Deleted(heap, p) == [q \in AnimPtrs |-> IF q = p THEN Null ELSE heap[q]]

(****************************************************************************)
(* Lifecycle: `new WebPDecoder` followed by a successful decode(), and the  *)
(* destructor.                                                              *)
(****************************************************************************)
Decoded(im) == [image |-> im, anim |-> Null, scale |-> <<0, 0>>]

Construct(h, im) ==
    /\ h \in FreeHandles
    /\ decoders' = [decoders EXCEPT ![h] = Decoded(im)]
    /\ UNCHANGED anims

Destroy(h) ==
    /\ decoders' = [decoders EXCEPT ![h] = Null]
    /\ anims' = Deleted(anims, decoders[h].anim)

(****************************************************************************)
(* The animation decoder of one WebPDecoder.                                *)
(****************************************************************************)
NewAnim(im, scale) == [image |-> im, canvas |-> CanvasFor(im, scale), next |-> 1]

\* Slip: a new pass does not rewind.
NeverRewound(page, a) == a

\* WebPAnimDecoderReset, called by getFrame for index 0 only.
RewoundFor(page, a) == IF page = 0 THEN [a EXCEPT !.next = 1] ELSE a

HasMoreFrames(a) == a.next <= Len(a.image.durations)

\* Slip: the heights are not compared.
ReusableByWidth(h, scale) ==
    decoders[h].anim # Null /\ decoders[h].scale[1] = scale[1]

\* ensureAnimDecoder keeps the animation decoder when the scale is unchanged ...
Reusable(h, scale) == decoders[h].anim # Null /\ decoders[h].scale = scale

\* Slip: the old animation decoder is not deleted.
HeapNotDeleted(h) == anims

\* ... and otherwise deletes it before it asks for a new one.
HeapForNew(h) == Deleted(anims, decoders[h].anim)

\* Slip: anim_decoder_ is one static member, shared by all decoders.
SharedPtrs(h, scale) ==
    LET allocated == {p \in AnimPtrs : HeapForNew(h)[p] # Null} IN
    IF Reusable(h, scale) THEN {decoders[h].anim}
    ELSE IF allocated # {} THEN allocated ELSE AnimPtrs

\* The addresses ensureAnimDecoder may leave in anim_decoder_ when it succeeds.
EnsuredPtrs(h, scale) ==
    IF Reusable(h, scale)
    THEN {decoders[h].anim}
    ELSE {p \in AnimPtrs : HeapForNew(h)[p] = Null}

\* The heap, and the animation decoder at p, once it has succeeded.
EnsuredHeap(h, scale) == IF Reusable(h, scale) THEN anims ELSE HeapForNew(h)
EnsuredAnim(h, scale, p) ==
    IF Reusable(h, scale) THEN anims[p] ELSE NewAnim(decoders[h].image, scale)

(****************************************************************************)
(* getFrame.                                                                *)
(****************************************************************************)
\* A still image is decoded afresh by every call: nothing changes.
GetFrameStatic(h) ==
    /\ ~decoders[h].image.animated
    /\ UNCHANGED decoderVars

\* WebPAnimDecoderNew fails: the old animation decoder is gone, the recorded
\* scale is not updated.
GetFrameNoDecoder(h, out) ==
    /\ decoders[h].image.animated
    /\ ~Reusable(h, ScaleFor(decoders[h].image, out))
    /\ decoders' = [decoders EXCEPT ![h].anim = Null]
    /\ anims' = HeapForNew(h)

\* The animation decoder getFrame is about to ask for its next frame.
FrameSource(h, page, out, p) ==
    RewoundFor(page, EnsuredAnim(h, ScaleFor(decoders[h].image, out), p))

\* WebPAnimDecoderGetNext fails: at the end, on a corrupt frame, out of memory.
GetFrameFails(h, page, out, p) ==
    LET scale == ScaleFor(decoders[h].image, out) IN
    /\ decoders[h].image.animated
    /\ p \in EnsuredPtrs(h, scale)
    /\ decoders' = [decoders EXCEPT ![h].anim = p, ![h].scale = scale]
    /\ anims' = [EnsuredHeap(h, scale) EXCEPT ![p] = FrameSource(h, page, out, p)]

\* It delivers the frame it stands at, whatever page was asked for.
GetFrameAnimated(h, page, out, p) ==
    LET scale == ScaleFor(decoders[h].image, out)
        a == FrameSource(h, page, out, p) IN
    /\ decoders[h].image.animated
    /\ p \in EnsuredPtrs(h, scale)
    /\ HasMoreFrames(a)
    /\ decoders' = [decoders EXCEPT ![h].anim = p, ![h].scale = scale]
    /\ anims' = [EnsuredHeap(h, scale) EXCEPT ![p] = [a EXCEPT !.next = @ + 1]]

(****************************************************************************)
(* Properties of the heap and of the canvases.                              *)
(****************************************************************************)
\* Every animation decoder that is allocated belongs to exactly one open
\* decoder, and every anim_decoder_ points at an allocated one: no leak, no
\* sharing, no dangling pointer, through every failure of ensureAnimDecoder
\* and every order of opening and closing.
AnimsOwned ==
    /\ \A h \in Open : decoders[h].anim # Null => anims[decoders[h].anim] # Null
    /\ \A g, h \in Open : decoders[g].anim = decoders[h].anim /\ decoders[g].anim # Null
                          => g = h
    /\ \A p \in AnimPtrs : anims[p] # Null => \E h \in Open : decoders[h].anim = p

\* An animation decoder was made for its owner's file and for the scale the
\* owner has recorded: the canvas compositeBGRAtoBGR walks has the size of the
\* DIB it fills, also after a failed reconfiguration left an old scale behind.
CanvasMatchesScale ==
    \A h \in Open :
        LET d == decoders[h] IN
        d.anim # Null =>
            /\ anims[d.anim].image = d.image
            /\ anims[d.anim].canvas = CanvasFor(d.image, d.scale)
=============================================================================
