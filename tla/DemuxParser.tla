---------------------------- MODULE DemuxParser ----------------------------
(* WebPDemux: the chunk parser of libwebp's src/demux/demux.c, on a file    *)
(* that is complete (allow_partial = 0, the only way this program calls it, *)
(* so "more data needed" always ends as an error).                          *)
(*                                                                          *)
(* The parser walks the file once.  Only one chunk ahead matters to it, so  *)
(* the file is chosen while it is read: `read` holds the chunks passed and  *)
(* `next` the one ahead.  A chunk takes two units of the file, one for its  *)
(* header and one for its payload; the header and the fields of an ANMF     *)
(* take three.  An offset into the file is the position of a chunk in it.   *)
EXTENDS Integers, Sequences

CONSTANTS Canvases,     \* <<width, height>> of the VP8X chunk
          Sizes,        \* <<width, height>> of the bitstreams
          Offsets,      \* <<x_offset, y_offset>> of frames
          Options,      \* duration, blend and dispose method of a frame
          Payloads,     \* units an ANMF may declare for its sub-chunks
          MaxChunks     \* the longest file, in chunks

ASSUME ParserAssumption ==
  /\ Canvases \union Sizes \subseteq (Nat \ {0}) \X (Nat \ {0})
  /\ Offsets \subseteq Nat \X Nat
  /\ Payloads \subseteq Nat
  /\ MaxChunks \in Nat

VARIABLES
  is_ext_format,    \* the file starts with a VP8X chunk
  vp8x_rest,        \* what that chunk has behind its fields: 0, or 1 for more
  is_animation,     \* ANIMATION_FLAG of feature_flags
  alpha_flag,       \* ALPHA_FLAG of feature_flags
  canvas,           \* canvas_width, canvas_height
  anim_chunks,      \* an ANIM chunk was seen
  read, next,       \* the file: the chunks passed, the one ahead
  owed,             \* units of the file an ANMF still has to be followed by
  state,            \* "chunks", "store" (in StoreFrame), "ok" or "error"
  frame,            \* the Frame being filled by StoreFrame
  room, taken,      \* anmf_payload_size and mem->start - start_offset
  frames            \* the list of frames

header == <<is_ext_format, vp8x_rest, is_animation, canvas>>
file == <<read, next, owed>>
storing == <<frame, room, taken>>
vars == <<header, alpha_flag, anim_chunks, file, state, storing, frames>>

-----------------------------------------------------------------------------
(* The file.  A bitstream whose header WebPGetFeatures refuses has no size. *)
Broken == <<0, 0>>
Image == [kind: {"VP8"}, size: Sizes \union {Broken}, alpha: {0}]
           \union [kind: {"VP8L"}, size: Sizes \union {Broken}, alpha: 0..1]
AnmfChunk == [kind: {"ANMF"}, offset: Offsets, options: Options,
              payload: Payloads]

(* META: ICCP, EXIF, XMP and unknown chunks.  VP8X: a second one, or an     *)
(* ANIM or ANMF shorter than its fields, or an ANMF of too large an area.   *)
(* The size an ANMF declares is used for nothing else: the bitstream's size *)
(* overwrites it.                                                           *)
Chunk == [kind: {"ANIM", "META", "ALPH", "VP8X"}] \union Image
           \union AnmfChunk

(* Behind the last chunk: nothing, or what every parser refuses where it    *)
(* meets it, a chunk longer than the file or a scrap too short for one.     *)
End == [kind |-> "END"]
Bad == [kind |-> "BAD"]

ImageKinds == {"VP8", "VP8L"}
PartKinds == ImageKinds \union {"ALPH"}

Units(c) == IF c.kind = "ANMF" THEN 3 ELSE 2
Larger(a, b) == IF a > b THEN a ELSE b

(* Reading past the chunk ahead; the file cannot end before the payload an  *)
(* ANMF has declared.                                                       *)
Advance ==
  /\ read' = Append(read, next)
  /\ owed' = Larger(0, Larger(owed - Units(next),
                              IF next.kind = "ANMF" THEN next.payload ELSE 0))
  /\ next' \in (IF Len(read') < MaxChunks THEN Chunk ELSE {})
                 \union {Bad} \union (IF owed' = 0 THEN {End} ELSE {})

Here == Len(read) + 1

-----------------------------------------------------------------------------
(* The frames.  An offset of 0 stands for a component of size 0; a size of  *)
(* <<0, 0>> for one no bitstream has given yet.                             *)
NewFrame(offset, options) ==
  [frame_num |-> 0, offset |-> offset, options |-> options, size |-> <<0, 0>>,
   has_alpha |-> 0, complete |-> 0, alpha |-> 0, image |-> 0]

CheckFrameBounds(f, exact) ==
  IF exact THEN f.offset = <<0, 0>> /\ f.size = canvas
  ELSE /\ f.offset[1] + f.size[1] <= canvas[1]
       /\ f.offset[2] + f.size[2] <= canvas[2]

\* The slip of asking a frame of an animation only for its place.
ValidByOffset ==
  /\ frames # <<>>
  /\ \A k \in DOMAIN frames :
       /\ is_animation \/ frames[k].frame_num <= 1
       /\ frames[k].complete = 1
       /\ frames[k].alpha <= frames[k].image
       /\ is_animation \/ CheckFrameBounds(frames[k], TRUE)

IsValidExtendedFormat ==
  /\ frames # <<>>
  /\ \A k \in DOMAIN frames :
       /\ is_animation \/ frames[k].frame_num <= 1
       /\ frames[k].complete = 1
       /\ frames[k].alpha <= frames[k].image
       /\ CheckFrameBounds(frames[k], ~is_animation)

(* *frames_tail is always NULL: the test of the last frame tests nothing.   *)
AddFrame(f) == Append(frames, f)

(* num_frames: it is counted with the frames.                               *)
num_frames == Len(frames)

-----------------------------------------------------------------------------
(* WebPDemuxInternal has read the RIFF header and, in the extended format,  *)
(* ParseVP8X the VP8X chunk, "any trailing data" of which it skips;         *)
(* ParseSingleImage starts a file without one.                              *)
Init ==
  /\ is_ext_format \in BOOLEAN
  /\ vp8x_rest \in (IF is_ext_format THEN 0..1 ELSE {0})
  /\ is_animation \in (IF is_ext_format THEN BOOLEAN ELSE {FALSE})
  /\ alpha_flag \in (IF is_ext_format THEN BOOLEAN ELSE {FALSE})
  /\ canvas \in (IF is_ext_format THEN Canvases ELSE {<<0, 0>>})
  /\ next \in (IF is_ext_format THEN Chunk \union {Bad, End}
               ELSE Image \union {Bad})
  /\ anim_chunks = 0 /\ read = <<>> /\ owed = 0
  /\ state = "chunks"
  /\ frame = NewFrame(<<0, 0>>, "none") /\ room = 0 /\ taken = 0
  /\ frames = <<>>

Refuse == /\ state' = "error"
          /\ UNCHANGED <<header, alpha_flag, anim_chunks, file, storing,
                         frames>>

(* SizeIsInvalid, or fewer bytes than a header.                             *)
MeetBad == state \in {"chunks", "store"} /\ next = Bad /\ Refuse

-----------------------------------------------------------------------------
(* ParseVP8XChunks.                                                         *)
(* The first ANIM is read, every other is skipped.                          *)
ParseAnim ==
  /\ state = "chunks" /\ next.kind = "ANIM"
  /\ anim_chunks' = 1
  /\ Advance
  /\ UNCHANGED <<header, alpha_flag, state, storing, frames>>

SkipChunk ==
  /\ state = "chunks" /\ next.kind = "META"
  /\ Advance
  /\ UNCHANGED <<header, alpha_flag, anim_chunks, state, storing, frames>>

(* An ANMF before the ANIM; an image outside an ANMF in an animation; a     *)
(* second image.                                                            *)
ChunkOutOfPlace ==
  /\ state = "chunks"
  /\ \/ next.kind = "VP8X"
     \/ next.kind = "ANMF" /\ anim_chunks = 0
     \/ /\ next.kind \in PartKinds
        /\ anim_chunks = 1 \/ is_animation \/ frames # <<>>
  /\ Refuse

(* No memory for the Frame or the Chunk.                                    *)
NoMemory ==
  /\ state = "chunks" /\ next.kind \in PartKinds \union {"ANMF", "META"}
  /\ Refuse

(* ParseAnimationFrame up to its call of StoreFrame.                        *)
StartAnimationFrame ==
  /\ state = "chunks" /\ next.kind = "ANMF" /\ anim_chunks = 1
  /\ frame' = NewFrame(next.offset, next.options)
  /\ room' = next.payload /\ taken' = 0
  /\ state' = "store"
  /\ Advance
  /\ UNCHANGED <<header, alpha_flag, anim_chunks, frames>>

(* ParseSingleImage up to its call of StoreFrame.                           *)
StartSingleImage ==
  /\ state = "chunks" /\ next.kind \in PartKinds
  /\ anim_chunks = 0 /\ ~is_animation /\ frames = <<>>
  /\ frame' = NewFrame(<<0, 0>>, "none")
  /\ room' = 0 /\ taken' = 0
  /\ state' = "store"
  /\ UNCHANGED <<header, alpha_flag, anim_chunks, file, frames>>

EndOfChunks ==
  /\ state = "chunks" /\ next = End
  /\ state' = IF IsValidExtendedFormat THEN "ok" ELSE "error"
  /\ UNCHANGED <<header, alpha_flag, anim_chunks, file, storing, frames>>

-----------------------------------------------------------------------------
(* StoreFrame.                                                              *)
StoreAlpha ==
  /\ state = "store" /\ next.kind = "ALPH" /\ frame.alpha = 0
  /\ frame' = [frame EXCEPT !.alpha = Here, !.has_alpha = 1,
                            !.frame_num = num_frames + 1]
  /\ taken' = taken + Units(next)
  /\ Advance
  /\ UNCHANGED <<header, alpha_flag, anim_chunks, state, room, frames>>

(* A lossless image has its own alpha; or WebPGetFeatures fails.            *)
ImageRefused ==
  /\ state = "store"
  /\ \/ next.kind = "VP8L" /\ frame.alpha # 0
     \/ next.kind \in ImageKinds /\ next.size = Broken /\ frame.image = 0
  /\ Refuse

StoreImage ==
  /\ state = "store" /\ next.kind \in ImageKinds /\ next.size # Broken
  /\ frame.image = 0
  /\ next.kind = "VP8L" => frame.alpha = 0
  /\ frame' = [frame EXCEPT !.image = Here, !.size = next.size,
                            !.has_alpha = Larger(@, next.alpha),
                            !.frame_num = num_frames + 1, !.complete = 1]
  /\ taken' = taken + Units(next)
  /\ Advance
  /\ UNCHANGED <<header, alpha_flag, anim_chunks, state, room, frames>>

(* The chunk ahead is for the level above: a chunk of another kind, or of a *)
(* kind the frame has already.                                              *)
StoreStops ==
  \/ next.kind \in {"ANIM", "META", "ANMF", "VP8X", "END"}
  \/ next.kind = "ALPH" /\ frame.alpha # 0
  \/ next.kind = "VP8" /\ frame.image # 0
  \/ next.kind = "VP8L" /\ frame.alpha = 0 /\ frame.image # 0

\* The slip of not comparing what was stored with the size of the ANMF.
NotCompared == taken = 0 /\ next = End

(* The sub-chunks were longer than the ANMF; or there was not even one.     *)
Overruns == taken > room \/ (taken = 0 /\ next = End)

(* ParseAnimationFrame after its call of StoreFrame: a frame without a part *)
(* is left out, and so is every frame of a file that is no animation.       *)
EndAnimationFrame ==
  /\ state = "store" /\ anim_chunks = 1 /\ StoreStops
  /\ state' = IF Overruns THEN "error" ELSE "chunks"
  /\ frames' = IF ~Overruns /\ is_animation /\ frame.frame_num > 0
               THEN AddFrame(frame) ELSE frames
  /\ UNCHANGED <<header, alpha_flag, anim_chunks, file, storing>>

(* The alpha of a still is dropped when the flag is missing.                *)
ClearedAlpha(f) == IF ~alpha_flag /\ f.alpha # 0
                   THEN [f EXCEPT !.alpha = 0, !.has_alpha = 0] ELSE f

(* ParseSingleImage after its call of StoreFrame; what follows a simple     *)
(* file is not looked at.                                                   *)
EndSingleImage ==
  /\ state = "store" /\ anim_chunks = 0 /\ StoreStops
  /\ frames' = AddFrame(ClearedAlpha(frame))
  /\ IF is_ext_format
     THEN state' = "chunks" /\ UNCHANGED <<canvas, alpha_flag>>
     ELSE /\ state' = "ok"
          /\ canvas' = frame.size
          /\ alpha_flag' = (frames'[1].has_alpha = 1)
  /\ UNCHANGED <<is_ext_format, vp8x_rest, is_animation, anim_chunks, file,
                 storing>>

Next ==
  \/ MeetBad
  \/ ParseAnim \/ SkipChunk \/ ChunkOutOfPlace \/ NoMemory
  \/ EndOfChunks
  \/ StartAnimationFrame \/ StartSingleImage
  \/ StoreAlpha \/ StoreImage \/ ImageRefused
  \/ EndAnimationFrame \/ EndSingleImage

Spec == Init /\ [][Next]_vars

-----------------------------------------------------------------------------
Frame == [frame_num: Nat, offset: Offsets \union {<<0, 0>>},
          options: Options \union {"none"}, size: Sizes \union {Broken},
          has_alpha: 0..1, complete: 0..1, alpha: Nat, image: Nat]

(* Every variable of the demuxer keeps its type.                            *)
TypeOK ==
  /\ is_ext_format \in BOOLEAN /\ is_animation \in BOOLEAN
  /\ vp8x_rest \in 0..1
  /\ alpha_flag \in BOOLEAN /\ canvas \in Canvases \union Sizes \union {<<0, 0>>}
  /\ anim_chunks \in 0..1
  /\ read \in Seq(Chunk) /\ next \in Chunk \union {Bad, End} /\ owed \in Nat
  /\ state \in {"chunks", "store", "ok", "error"}
  /\ frame \in Frame /\ room \in Nat /\ taken \in Nat
  /\ frames \in Seq(Frame)

(* The frames of an accepted file are what the decoders take them for       *)
(* (AnimsAssumption of FrameGeometry): there is at least one, they are      *)
(* numbered from 1 as WebPDemuxGetFrame looks them up, each has an image    *)
(* and lies within the canvas; and a still is one frame, of the canvas's    *)
(* size.                                                                    *)
FramesSuitTheDecoder ==
  state = "ok" =>
    /\ frames # <<>>
    /\ \A k \in DOMAIN frames :
         /\ frames[k].frame_num = k /\ frames[k].complete = 1
         /\ frames[k].size \in Sizes
         /\ frames[k].offset[1] + frames[k].size[1] <= canvas[1]
         /\ frames[k].offset[2] + frames[k].size[2] <= canvas[2]
    /\ ~is_animation => /\ Len(frames) = 1
                        /\ frames[1].size = canvas
                        /\ frames[1].offset = <<0, 0>>

(* The span of the file GetFramePayload hands to the decoder is the image   *)
(* of the frame, or the alpha and the image with nothing between them: the  *)
(* "intervening chunks" it allows for never are there in an accepted file.  *)
PayloadIsTheFrame ==
  state = "ok" =>
    \A k \in DOMAIN frames :
      LET f == frames[k] IN
      /\ f.image \in DOMAIN read /\ read[f.image].kind \in ImageKinds
      /\ f.size = read[f.image].size
      /\ f.alpha # 0 => f.alpha = f.image - 1 /\ read[f.alpha].kind = "ALPH"

(* What the decoders are given of an accepted file is what they expect:     *)
(* FramesSuitTheDecoder for the frames, PayloadIsTheFrame for their bytes,  *)
(* TypeOK for the fields.                                                   *)
FramesAreSound == TypeOK /\ FramesSuitTheDecoder /\ PayloadIsTheFrame

FirstPart(f) == IF f.alpha # 0 THEN f.alpha ELSE f.image
PartsOf(f) == {f.alpha, f.image} \ {0}

(* Every alpha and image of an accepted animation is part of one frame, in  *)
(* the order of the file, and that frame has the place and the options of   *)
(* the ANMF right before it, which has room for its parts.                  *)
NoPartIsLost ==
  state = "ok" /\ is_animation =>
    /\ {p \in DOMAIN read : read[p].kind \in PartKinds}
         = UNION {PartsOf(frames[k]) : k \in DOMAIN frames}
    /\ \A k \in DOMAIN frames :
         LET anmf == read[FirstPart(frames[k]) - 1] IN
         /\ anmf.kind = "ANMF"
         /\ frames[k].offset = anmf.offset /\ frames[k].options = anmf.options
         /\ IF frames[k].alpha = 0 THEN anmf.payload >= 2
            ELSE anmf.payload >= 4
    /\ \A j, k \in DOMAIN frames :
         j < k => frames[j].image < FirstPart(frames[k])
=============================================================================
