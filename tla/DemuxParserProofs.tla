------------------------- MODULE DemuxParserProofs -------------------------
(* What DemuxParser promises of an accepted file, for every set of sizes,   *)
(* offsets and options and for files of any length.  The invariant adds to  *)
(* the types what is known of a frame while it is being stored (Storing),   *)
(* of the frames in the list (Listed), and of a file without a VP8X chunk   *)
(* (Simple).                                                                *)
EXTENDS FrontEnd, SequenceTheorems, TLAPS

(* The parts of a frame are chunks of the file, one right after the other.  *)
PartsOK(f, r) ==
  /\ f.complete = 1 <=> f.image # 0
  /\ f.image # 0 => /\ f.image \in 1..Len(r) /\ r[f.image].kind \in ImageKinds
                    /\ f.size = r[f.image].size /\ f.size \in Sizes
  /\ f.alpha # 0 => f.alpha \in 1..Len(r) /\ r[f.alpha].kind = "ALPH"
  /\ f.alpha # 0 /\ f.image # 0 => f.alpha \in {f.image - 1, f.image + 1}

Storing ==
  state = "store" =>
    /\ PartsOK(frame, read)
    /\ frame.frame_num \in {0, Len(frames) + 1}
    /\ frame.frame_num = 0 <=> frame.alpha = 0 /\ frame.image = 0
    /\ frame.alpha # 0 /\ frame.image = 0 => frame.alpha = Len(read)
    /\ frame.alpha = 0 /\ frame.image # 0 => frame.image = Len(read)
    /\ anim_chunks = 0 =>
         /\ ~is_animation /\ frames = <<>> /\ frame.offset = <<0, 0>>
         /\ frame.frame_num = 0 => next.kind \in PartKinds

Listed == \A k \in 1..Len(frames) :
            PartsOK(frames[k], read) /\ frames[k].frame_num = k

Simple ==
  ~is_ext_format =>
    /\ anim_chunks = 0 /\ ~is_animation
    /\ state = "chunks" => next.kind \in ImageKinds \union {"BAD"}
    /\ state \in {"chunks", "store"} => ~alpha_flag
    /\ state = "store" /\ frame.frame_num = 0 => next.kind \in ImageKinds
    /\ state = "store" /\ frame.frame_num # 0 => frame.image # 0

Accepted ==
  state = "ok" =>
    /\ Len(frames) > 0
    /\ \A k \in 1..Len(frames) :
         /\ frames[k].complete = 1
         /\ frames[k].alpha <= frames[k].image
         /\ CheckFrameBounds(frames[k], ~is_animation)
    /\ ~is_animation => Len(frames) = 1

IInv == TypeOK /\ Storing /\ Listed /\ Simple /\ Accepted

-----------------------------------------------------------------------------
LEMMA ChunkKinds ==
  ASSUME NEW c \in Chunk \union {Bad, End}
  PROVE  /\ c.kind \notin {"BAD", "END"} => c \in Chunk
         /\ c.kind = "ANMF" => c \in AnmfChunk
         /\ c.kind \in ImageKinds => c \in Image
  BY DEF Chunk, Image, AnmfChunk, Bad, End, ImageKinds

(* Advance lengthens the part of the file that was read, and only that.     *)
LEMMA Advances ==
  ASSUME TypeOK, next \in Chunk, Advance
  PROVE  /\ read' \in Seq(Chunk) /\ Len(read') = Len(read) + 1
         /\ read'[Here] = next
         /\ \A i \in 1..Len(read) : read'[i] = read[i]
         /\ next' \in Chunk \union {Bad, End} /\ owed' \in Nat
<1>1. read \in Seq(Chunk) /\ owed \in Nat
  BY DEF TypeOK
<1>2. read' = Append(read, next)
  BY DEF Advance
<1>3. next.kind = "ANMF" => next.payload \in Nat
  <2>1. next \in Chunk \union {Bad, End}
    OBVIOUS
  <2> QED BY <2>1, ChunkKinds, ParserAssumption DEF AnmfChunk
<1>4. owed' \in Nat
  BY <1>1, <1>3 DEF Advance, Larger, Units
<1>5. next' \in Chunk \union {Bad, End}
  BY DEF Advance
<1> QED BY <1>1, <1>2, <1>4, <1>5 DEF Here

LEMMA PartsStay ==
  ASSUME TypeOK, next \in Chunk, Advance, NEW f \in Frame, PartsOK(f, read)
  PROVE  PartsOK(f, read')
<1>1. /\ Len(read') = Len(read) + 1 /\ Len(read) \in Nat
      /\ \A i \in 1..Len(read) : read'[i] = read[i]
  BY Advances DEF TypeOK
<1>2. f.image \in Nat /\ f.alpha \in Nat
  BY DEF Frame
<1> QED BY <1>1, <1>2 DEF PartsOK

LEMMA AlphaKeepsType ==
  ASSUME NEW f \in Frame, NEW n \in Nat, NEW i \in Nat
  PROVE  [f EXCEPT !.alpha = i, !.has_alpha = 1, !.frame_num = n] \in Frame
<1>1. 1 \in 0..1
  OBVIOUS
<1> QED BY <1>1, Zenon DEF Frame

LEMMA ImageKeepsType ==
  ASSUME NEW f \in Frame, NEW n \in Nat, NEW i \in Nat,
         NEW s \in Sizes \union {Broken}, NEW a \in 0..1
  PROVE  [f EXCEPT !.image = i, !.size = s, !.has_alpha = a,
                   !.frame_num = n, !.complete = 1] \in Frame
<1>1. 1 \in 0..1
  OBVIOUS
<1> QED BY <1>1, Zenon DEF Frame

LEMMA ClearedKeepsType ==
  ASSUME NEW f \in Frame
  PROVE  [f EXCEPT !.alpha = 0, !.has_alpha = 0] \in Frame
<1>1. 0 \in 0..1 /\ 0 \in Nat
  OBVIOUS
<1> QED BY <1>1, Zenon DEF Frame

LEMMA NewFrameType ==
  ASSUME NEW o \in Offsets \union {<<0, 0>>},
         NEW p \in Options \union {"none"}
  PROVE  /\ NewFrame(o, p) \in Frame
         /\ NewFrame(o, p).alpha = 0 /\ NewFrame(o, p).image = 0
         /\ NewFrame(o, p).frame_num = 0 /\ NewFrame(o, p).offset = o
         /\ \A r : PartsOK(NewFrame(o, p), r)
  BY DEF NewFrame, Frame, Broken, PartsOK

-----------------------------------------------------------------------------
LEMMA InitTypeOK == Init => TypeOK
<1> SUFFICES ASSUME Init PROVE TypeOK
  OBVIOUS
<1>1. frame \in Frame
  BY NewFrameType DEF Init
<1>2. next \in Chunk \union {Bad, End}
  BY DEF Init, Chunk
<1>3. is_animation \in BOOLEAN /\ alpha_flag \in BOOLEAN
  BY DEF Init
<1>4. canvas \in Canvases \union Sizes \union {<<0, 0>>}
  BY DEF Init
<1>5. read \in Seq(Chunk) /\ frames \in Seq(Frame)
  BY DEF Init
<1> QED BY <1>1, <1>2, <1>3, <1>4, <1>5 DEF Init, TypeOK

LEMMA NextTypeOK == TypeOK /\ [Next]_vars => TypeOK'
<1> SUFFICES ASSUME TypeOK, [Next]_vars PROVE TypeOK'
  OBVIOUS
<1> USE DEF TypeOK
<1>u. CASE UNCHANGED vars
  BY <1>u DEF vars, header, file, storing
<1>r. CASE Refuse
  BY <1>r DEF Refuse, header, file, storing
<1>1. CASE ParseAnim
  <2>1. next \in Chunk
    BY <1>1, ChunkKinds DEF ParseAnim
  <2> QED BY <1>1, <2>1, Advances DEF ParseAnim, header, storing
<1>2. CASE SkipChunk
  <2>1. next \in Chunk
    BY <1>2, ChunkKinds DEF SkipChunk
  <2> QED BY <1>2, <2>1, Advances DEF SkipChunk, header, storing
<1>3. CASE EndOfChunks
  BY <1>3 DEF EndOfChunks, header, file, storing
<1>4. CASE StartAnimationFrame
  <2>1. next \in Chunk /\ next \in AnmfChunk
    BY <1>4, ChunkKinds DEF StartAnimationFrame
  <2>2. next.offset \in Offsets /\ next.options \in Options /\ next.payload \in Nat
    BY <2>1, ParserAssumption DEF AnmfChunk
  <2>3. frame' \in Frame
    BY <1>4, <2>2, NewFrameType DEF StartAnimationFrame
  <2> QED BY <1>4, <2>1, <2>2, <2>3, Advances DEF StartAnimationFrame, header
<1>5. CASE StartSingleImage
  <2>1. frame' \in Frame
    BY <1>5, NewFrameType DEF StartSingleImage
  <2> QED BY <1>5, <2>1 DEF StartSingleImage, header, file
<1>6. CASE StoreAlpha
  <2>1. next \in Chunk
    BY <1>6, ChunkKinds DEF StoreAlpha
  <2>2. frame' \in Frame
    <3>1. frame \in Frame /\ Here \in Nat /\ num_frames + 1 \in Nat
      BY DEF Here, num_frames
    <3>2. frame' = [frame EXCEPT !.alpha = Here, !.has_alpha = 1,
                                 !.frame_num = num_frames + 1]
      BY <1>6 DEF StoreAlpha
    <3> HIDE DEF TypeOK
    <3> QED BY <3>1, <3>2, AlphaKeepsType
  <2> QED BY <1>6, <2>1, <2>2, Advances DEF StoreAlpha, header, Units
<1>7. CASE StoreImage
  <2>1. next \in Chunk /\ next \in Image
    BY <1>7, ChunkKinds DEF StoreImage, ImageKinds
  <2>2. next.size \in Sizes \union {Broken} /\ next.alpha \in 0..1
    BY <2>1 DEF Image
  <2>3. frame' \in Frame
    <3>1. frame \in Frame /\ Here \in Nat /\ num_frames + 1 \in Nat
      BY DEF Here, num_frames
    <3>2. Larger(frame.has_alpha, next.alpha) \in 0..1
      BY <2>2 DEF Larger, Frame
    <3>3. frame' = [frame EXCEPT !.image = Here, !.size = next.size,
                      !.has_alpha = Larger(frame.has_alpha, next.alpha),
                      !.frame_num = num_frames + 1, !.complete = 1]
      BY <1>7 DEF StoreImage
    <3> HIDE DEF TypeOK
    <3> QED BY <2>2, <3>1, <3>2, <3>3, ImageKeepsType
  <2> QED BY <1>7, <2>1, <2>3, Advances DEF StoreImage, header, Units
<1>8. CASE EndAnimationFrame
  BY <1>8 DEF EndAnimationFrame, header, file, storing, AddFrame
<1>9. CASE EndSingleImage
  <2>1. ClearedAlpha(frame) \in Frame
    BY ClearedKeepsType DEF ClearedAlpha
  <2>2. frames' \in Seq(Frame)
    BY <1>9, <2>1 DEF EndSingleImage, AddFrame
  <2>3. frame.size \in Sizes \union {<<0, 0>>}
    BY DEF Frame, Broken
  <2>4. canvas' \in Canvases \union Sizes \union {<<0, 0>>} /\ alpha_flag' \in BOOLEAN
    BY <1>9, <2>3 DEF EndSingleImage
  <2> QED BY <1>9, <2>2, <2>4 DEF EndSingleImage, file, storing
<1> QED BY <1>u, <1>r, <1>1, <1>2, <1>3, <1>4, <1>5, <1>6, <1>7, <1>8, <1>9
        DEF Next, MeetBad, ChunkOutOfPlace, NoMemory, ImageRefused

(* The types of the demuxer, for files of any length.                       *)
THEOREM ParserTypeCorrect == Spec => []TypeOK
BY InitTypeOK, NextTypeOK, PTL DEF Spec

-----------------------------------------------------------------------------
LEMMA ListedStays ==
  ASSUME TypeOK, Listed, frames' = frames,
         read' = read \/ (next \in Chunk /\ Advance)
  PROVE  Listed'
<1> SUFFICES ASSUME NEW k \in 1..Len(frames)
             PROVE  PartsOK(frames[k], read')
  BY DEF Listed
<1>1. frames[k] \in Frame /\ PartsOK(frames[k], read)
  BY DEF TypeOK, Listed
<1>2. CASE read' = read
  BY <1>1, <1>2
<1>3. CASE next \in Chunk /\ Advance
  BY <1>1, <1>3, PartsStay
<1> QED BY <1>2, <1>3

LEMMA RefuseIsSafe ==
  ASSUME TypeOK, Listed, Simple, Refuse
  PROVE  Storing' /\ Listed' /\ Simple' /\ Accepted'
<1>1. Listed'
  BY ListedStays DEF Refuse, file
<1> QED BY <1>1 DEF Refuse, Storing, Simple, Accepted, header

LEMMA InitIInv == Init => IInv
<1> SUFFICES ASSUME Init PROVE IInv
  OBVIOUS
<1>1. TypeOK
  BY InitTypeOK
<1>2. Storing /\ Listed /\ Accepted
  BY DEF Init, Storing, Listed, Accepted
<1>3. Simple
  BY DEF Init, Simple, Image, Bad, ImageKinds
<1> QED BY <1>1, <1>2, <1>3 DEF IInv

(* A chunk that is passed between two frames.                               *)
LEMMA PassIsSafe ==
  ASSUME IInv, ParseAnim \/ SkipChunk
  PROVE  Storing' /\ Listed' /\ Simple' /\ Accepted'
<1>1. next \in Chunk /\ Advance /\ frames' = frames
  BY ChunkKinds DEF IInv, TypeOK, ParseAnim, SkipChunk
<1>2. Listed'
  BY <1>1, ListedStays DEF IInv
<1>3. is_ext_format /\ is_ext_format' = is_ext_format
  BY DEF IInv, Simple, ParseAnim, SkipChunk, header, ImageKinds
<1> QED BY <1>2, <1>3 DEF ParseAnim, SkipChunk, Storing, Simple, Accepted

LEMMA StartAnimationIsSafe ==
  ASSUME IInv, StartAnimationFrame
  PROVE  Storing' /\ Listed' /\ Simple' /\ Accepted'
<1>1. next \in Chunk /\ next \in AnmfChunk /\ Advance /\ frames' = frames
  BY ChunkKinds DEF IInv, TypeOK, StartAnimationFrame
<1>2. Listed'
  BY <1>1, ListedStays DEF IInv
<1>3. is_ext_format /\ is_ext_format' = is_ext_format
  BY DEF IInv, Simple, StartAnimationFrame, header
<1>4. /\ PartsOK(frame', read') /\ frame'.alpha = 0 /\ frame'.image = 0
      /\ frame'.frame_num = 0
  BY <1>1, NewFrameType DEF StartAnimationFrame, AnmfChunk
<1>5. Storing'
  BY <1>4 DEF StartAnimationFrame, Storing
<1> QED BY <1>2, <1>3, <1>5 DEF StartAnimationFrame, Simple, Accepted

LEMMA StartSingleIsSafe ==
  ASSUME IInv, StartSingleImage
  PROVE  Storing' /\ Listed' /\ Simple' /\ Accepted'
<1>1. read' = read /\ next' = next /\ frames' = frames /\ state' = "store"
  BY DEF StartSingleImage, file
<1>2. Listed'
  BY <1>1, ListedStays DEF IInv
<1>3. /\ PartsOK(frame', read') /\ frame'.alpha = 0 /\ frame'.image = 0
      /\ frame'.frame_num = 0 /\ frame'.offset = <<0, 0>>
  BY NewFrameType DEF StartSingleImage
<1>4. Storing'
  BY <1>1, <1>3 DEF StartSingleImage, Storing, header
<1>5. Simple'
  BY <1>1, <1>3 DEF IInv, Simple, StartSingleImage, header, PartKinds
<1> QED BY <1>1, <1>2, <1>4, <1>5 DEF Accepted

LEMMA EndOfChunksIsSafe ==
  ASSUME IInv, EndOfChunks
  PROVE  Storing' /\ Listed' /\ Simple' /\ Accepted'
<1>1. /\ read' = read /\ frames' = frames /\ canvas' = canvas
      /\ is_animation' = is_animation /\ state' \in {"ok", "error"}
  BY DEF EndOfChunks, file, header
<1>2. Listed'
  BY <1>1, ListedStays DEF IInv
<1>3. Simple'
  BY DEF IInv, Simple, EndOfChunks, header, End
<1>4. ASSUME state' = "ok" PROVE Accepted'
  <2>1. IsValidExtendedFormat /\ frames \in Seq(Frame)
    BY <1>4 DEF EndOfChunks, IInv, TypeOK
  <2>2. Len(frames) > 0 /\ DOMAIN frames = 1..Len(frames) /\ Len(frames) \in Nat
    BY <2>1 DEF IsValidExtendedFormat
  <2>3. \A k \in 1..Len(frames) : frames[k].frame_num = k
    BY DEF IInv, Listed
  <2>4. ~is_animation => Len(frames) = 1
    BY <2>1, <2>2, <2>3 DEF IsValidExtendedFormat
  <2>5. \A k \in 1..Len(frames) :
          /\ frames[k].complete = 1
          /\ frames[k].alpha <= frames[k].image
          /\ CheckFrameBounds(frames[k], ~is_animation)
    BY <2>1, <2>2 DEF IsValidExtendedFormat
  <2> QED BY <1>1, <2>2, <2>4, <2>5 DEF Accepted, CheckFrameBounds
<1> QED BY <1>1, <1>2, <1>3, <1>4 DEF Storing, Accepted

-----------------------------------------------------------------------------
(* StoreFrame: the part stored is the chunk right behind the one before.    *)
LEMMA StoreAlphaIsSafe ==
  ASSUME IInv, StoreAlpha
  PROVE  Storing' /\ Listed' /\ Simple' /\ Accepted'
<1>1. /\ next \in Chunk /\ next.kind = "ALPH" /\ Advance /\ frames' = frames
      /\ state = "store" /\ state' = "store" /\ frame \in Frame
  BY ChunkKinds DEF IInv, TypeOK, StoreAlpha
<1>2. Listed'
  BY <1>1, ListedStays DEF IInv
<1>3. /\ Len(read) \in Nat /\ Len(read') = Len(read) + 1
      /\ read'[Here] = next /\ Here = Len(read) + 1
      /\ Len(frames) \in Nat /\ num_frames = Len(frames)
  BY <1>1, Advances DEF IInv, TypeOK, Here, num_frames
<1>4. /\ frame'.alpha = Here /\ frame'.image = frame.image
      /\ frame'.frame_num = Len(frames) + 1 /\ frame'.size = frame.size
      /\ frame'.complete = frame.complete /\ frame'.offset = frame.offset
  BY <1>1, <1>3 DEF StoreAlpha, Frame
<1>5. PartsOK(frame, read') /\ frame.image \in Nat
  BY <1>1, PartsStay DEF IInv, Storing, Frame
<1>6. frame.image # 0 => frame.image = Len(read)
  BY <1>1 DEF IInv, Storing, StoreAlpha
<1>7. PartsOK(frame', read')
  BY <1>1, <1>3, <1>4, <1>5, <1>6 DEF PartsOK
<1>8. anim_chunks' = 0 => /\ ~is_animation' /\ frames' = <<>>
                          /\ frame'.offset = <<0, 0>>
  BY <1>1, <1>4 DEF StoreAlpha, IInv, Storing, header
<1>9. Storing'
  BY <1>1, <1>3, <1>4, <1>7, <1>8 DEF Storing
<1>10. Simple'
  BY <1>1, <1>3, <1>4 DEF IInv, Simple, Storing, StoreAlpha, header, ImageKinds
<1> QED BY <1>1, <1>2, <1>9, <1>10 DEF Accepted

LEMMA StoreImageIsSafe ==
  ASSUME IInv, StoreImage
  PROVE  Storing' /\ Listed' /\ Simple' /\ Accepted'
<1>1. /\ next \in Chunk /\ next \in Image /\ next.kind \in ImageKinds /\ Advance
      /\ frames' = frames
      /\ state = "store" /\ state' = "store" /\ frame \in Frame
  BY ChunkKinds DEF IInv, TypeOK, StoreImage, ImageKinds
<1>2. Listed'
  BY <1>1, ListedStays DEF IInv
<1>3. /\ Len(read) \in Nat /\ Len(read') = Len(read) + 1
      /\ read'[Here] = next /\ Here = Len(read) + 1
      /\ Len(frames) \in Nat /\ num_frames = Len(frames)
  BY <1>1, Advances DEF IInv, TypeOK, Here, num_frames
<1>4. /\ frame'.alpha = frame.alpha /\ frame'.image = Here
      /\ frame'.frame_num = Len(frames) + 1 /\ frame'.size = next.size
      /\ frame'.complete = 1 /\ frame'.offset = frame.offset
  BY <1>1, <1>3 DEF StoreImage, Frame
<1>5. PartsOK(frame, read') /\ frame.alpha \in Nat
  BY <1>1, PartsStay DEF IInv, Storing, Frame
<1>6. frame.alpha # 0 => frame.alpha = Len(read)
  BY <1>1 DEF IInv, Storing, StoreImage
<1>7. next.size \in Sizes
  BY <1>1 DEF StoreImage, Image
<1>8. PartsOK(frame', read')
  BY <1>1, <1>3, <1>4, <1>5, <1>6, <1>7 DEF PartsOK
<1>9. anim_chunks' = 0 => /\ ~is_animation' /\ frames' = <<>>
                          /\ frame'.offset = <<0, 0>>
  BY <1>1, <1>4 DEF StoreImage, IInv, Storing, header
<1>10. Storing'
  BY <1>1, <1>3, <1>4, <1>8, <1>9 DEF Storing
<1>11. Simple'
  BY <1>1, <1>3, <1>4 DEF IInv, Simple, StoreImage, header
<1> QED BY <1>1, <1>2, <1>10, <1>11 DEF Accepted

LEMMA EndAnimationIsSafe ==
  ASSUME IInv, EndAnimationFrame
  PROVE  Storing' /\ Listed' /\ Simple' /\ Accepted'
<1>1. /\ state = "store" /\ state' \in {"chunks", "error"} /\ read' = read
      /\ frame \in Frame /\ frames \in Seq(Frame)
  BY DEF IInv, TypeOK, EndAnimationFrame, file
<1>2. ASSUME frames' = frames PROVE Listed'
  BY <1>1, <1>2, ListedStays DEF IInv
<1>3. ASSUME frames' = Append(frames, frame), frame.frame_num > 0
      PROVE  Listed'
  <2>1. PartsOK(frame, read) /\ frame.frame_num = Len(frames) + 1
    BY <1>1, <1>3 DEF IInv, Storing
  <2>2. \A k \in 1..Len(frames) : PartsOK(frames[k], read) /\ frames[k].frame_num = k
    BY DEF IInv, Listed
  <2>3. ASSUME NEW k \in 1..Len(frames')
        PROVE  PartsOK(frames'[k], read') /\ frames'[k].frame_num = k
    <3>1. CASE k = Len(frames) + 1
      <4>1. frames'[k] = frame
        BY <1>1, <1>3, <3>1
      <4> QED BY <1>1, <2>1, <3>1, <4>1
    <3>2. CASE k # Len(frames) + 1
      <4>1. k \in 1..Len(frames) /\ frames'[k] = frames[k]
        BY <1>1, <1>3, <3>2
      <4> QED BY <1>1, <2>2, <4>1
    <3> QED BY <3>1, <3>2
  <2> QED BY <2>3 DEF Listed
<1>4. Listed'
  BY <1>2, <1>3 DEF EndAnimationFrame, AddFrame
<1>5. Simple'
  BY <1>1 DEF IInv, Simple, EndAnimationFrame, header
<1> QED BY <1>1, <1>4, <1>5 DEF Storing, Accepted

LEMMA EndSingleIsSafe ==
  ASSUME IInv, EndSingleImage
  PROVE  Storing' /\ Listed' /\ Simple' /\ Accepted'
<1> DEFINE f == ClearedAlpha(frame)
<1>1. /\ state = "store" /\ state' \in {"chunks", "ok"} /\ read' = read
      /\ frame \in Frame /\ frames = <<>> /\ anim_chunks = 0 /\ ~is_animation
      /\ frame.offset = <<0, 0>> /\ PartsOK(frame, read)
  BY DEF IInv, TypeOK, Storing, EndSingleImage, file
<1>2. frame.frame_num # 0
  <2>1. frame.frame_num = 0 =>
          /\ next.kind \in PartKinds /\ frame.alpha = 0 /\ frame.image = 0
    BY <1>1 DEF IInv, Storing, EndSingleImage
  <2> QED BY <2>1 DEF EndSingleImage, StoreStops, PartKinds, ImageKinds
<1>3. frame.frame_num = 1
  BY <1>1, <1>2 DEF IInv, Storing
<1>4. /\ f.image = frame.image /\ f.complete = frame.complete
      /\ f.size = frame.size /\ f.offset = frame.offset /\ f.frame_num = 1
      /\ f.alpha \in {0, frame.alpha} /\ (~alpha_flag => f.alpha = 0)
  BY <1>1, <1>3 DEF ClearedAlpha, Frame
<1>5. PartsOK(f, read)
  BY <1>1, <1>4 DEF PartsOK
<1>6. frames' = <<f>>
  BY <1>1 DEF EndSingleImage, AddFrame
<1> HIDE DEF f
<1>7. Len(frames') = 1 /\ frames'[1] = f
  BY <1>6
<1>8. Listed'
  BY <1>1, <1>4, <1>5, <1>7 DEF Listed
<1>9. Simple'
  BY <1>1 DEF IInv, Simple, EndSingleImage
<1>10. ASSUME state' = "ok" PROVE Accepted'
  <2>1. ~is_ext_format /\ canvas' = frame.size /\ is_animation' = is_animation
    BY <1>10 DEF EndSingleImage
  <2>2. f.alpha = 0 /\ frame.image # 0
    BY <1>1, <1>2, <1>4, <2>1 DEF IInv, Simple
  <2>3. f.complete = 1 /\ f.image \in Nat
    BY <1>1, <1>4, <2>2 DEF PartsOK, Frame
  <2> QED BY <1>1, <1>4, <1>7, <2>1, <2>2, <2>3 DEF Accepted, CheckFrameBounds
<1> QED BY <1>1, <1>8, <1>9, <1>10 DEF Storing, Accepted

-----------------------------------------------------------------------------
LEMMA NextIInv == IInv /\ [Next]_vars => IInv'
<1> SUFFICES ASSUME IInv, [Next]_vars PROVE IInv'
  OBVIOUS
<1>t. TypeOK'
  BY NextTypeOK DEF IInv
<1>u. CASE UNCHANGED vars
  BY <1>u DEF vars, header, file, storing, IInv, TypeOK, Storing, Listed, Simple,
              Accepted, CheckFrameBounds, PartsOK
<1>r. CASE Refuse
  BY <1>t, <1>r, RefuseIsSafe DEF IInv
<1>1. CASE ParseAnim \/ SkipChunk
  BY <1>t, <1>1, PassIsSafe DEF IInv
<1>2. CASE StartAnimationFrame
  BY <1>t, <1>2, StartAnimationIsSafe DEF IInv
<1>3. CASE StartSingleImage
  BY <1>t, <1>3, StartSingleIsSafe DEF IInv
<1>4. CASE EndOfChunks
  BY <1>t, <1>4, EndOfChunksIsSafe DEF IInv
<1>5. CASE StoreAlpha
  BY <1>t, <1>5, StoreAlphaIsSafe DEF IInv
<1>6. CASE StoreImage
  BY <1>t, <1>6, StoreImageIsSafe DEF IInv
<1>7. CASE EndAnimationFrame
  BY <1>t, <1>7, EndAnimationIsSafe DEF IInv
<1>8. CASE EndSingleImage
  BY <1>t, <1>8, EndSingleIsSafe DEF IInv
<1> QED BY <1>u, <1>r, <1>1, <1>2, <1>3, <1>4, <1>5, <1>6, <1>7, <1>8
        DEF Next, MeetBad, ChunkOutOfPlace, NoMemory, ImageRefused

(* What the decoders take for granted of the frames of an accepted file.    *)
THEOREM AcceptedFramesSuit == Spec => []FramesSuitTheDecoder
<1>1. IInv => FramesSuitTheDecoder
  <2> SUFFICES ASSUME IInv, state = "ok" PROVE FramesSuitTheDecoder
    BY DEF FramesSuitTheDecoder
  <2>1. /\ frames \in Seq(Frame) /\ Len(frames) > 0 /\ frames # <<>>
        /\ DOMAIN frames = 1..Len(frames)
    BY DEF IInv, TypeOK, Accepted
  <2>2. ASSUME NEW k \in 1..Len(frames)
        PROVE  /\ frames[k].frame_num = k /\ frames[k].complete = 1
               /\ frames[k].size \in Sizes
               /\ CheckFrameBounds(frames[k], ~is_animation)
    BY <2>1 DEF IInv, Listed, Accepted, PartsOK
  <2>3. \A n \in Sizes : n[1] \in Nat /\ n[2] \in Nat
    BY ParserAssumption
  <2>4. ASSUME NEW k \in 1..Len(frames)
        PROVE  /\ frames[k].offset[1] + frames[k].size[1] <= canvas[1]
               /\ frames[k].offset[2] + frames[k].size[2] <= canvas[2]
    BY <2>2, <2>3 DEF CheckFrameBounds
  <2>5. ~is_animation => /\ Len(frames) = 1 /\ frames[1].size = canvas
                         /\ frames[1].offset = <<0, 0>>
    BY <2>2 DEF IInv, Accepted, CheckFrameBounds
  <2> QED BY <2>1, <2>2, <2>4, <2>5 DEF FramesSuitTheDecoder
<1> QED BY <1>1, InitIInv, NextIInv, PTL DEF Spec

(* The span of the file that is decoded for a frame holds its alpha and its *)
(* image, and nothing else.                                                 *)
THEOREM PayloadsAreExact == Spec => []PayloadIsTheFrame
<1>1. IInv => PayloadIsTheFrame
  <2> SUFFICES ASSUME IInv, state = "ok", NEW k \in DOMAIN frames
               PROVE  /\ frames[k].image \in DOMAIN read
                      /\ read[frames[k].image].kind \in ImageKinds
                      /\ frames[k].size = read[frames[k].image].size
                      /\ frames[k].alpha # 0 =>
                           /\ frames[k].alpha = frames[k].image - 1
                           /\ read[frames[k].alpha].kind = "ALPH"
    BY DEF PayloadIsTheFrame
  <2>1. k \in 1..Len(frames) /\ frames[k] \in Frame /\ DOMAIN read = 1..Len(read)
    BY DEF IInv, TypeOK
  <2>2. /\ PartsOK(frames[k], read) /\ frames[k].complete = 1
        /\ frames[k].alpha <= frames[k].image
    BY <2>1 DEF IInv, Listed, Accepted
  <2>3. frames[k].image \in Nat /\ frames[k].alpha \in Nat
    BY <2>1 DEF Frame
  <2> QED BY <2>1, <2>2, <2>3 DEF PartsOK
<1> QED BY <1>1, InitIInv, NextIInv, PTL DEF Spec

(* The frames of an accepted file are what the decoders assume of them, and  *)
(* their payloads what the frames are made of.                               *)
THEOREM AcceptedFramesAreSound == Spec => []FramesAreSound
<1> QED BY ParserTypeCorrect, AcceptedFramesSuit, PayloadsAreExact, PTL
        DEF FramesAreSound

-----------------------------------------------------------------------------
(* Animations: which ANMF a frame is from, and whose the parts in the file   *)
(* are.  First and Last are the frame's ends in the file, Taken what its     *)
(* parts take of the ANMF's payload.                                         *)
First(f) == IF f.alpha = 0 \/ (f.image # 0 /\ f.image < f.alpha)
            THEN f.image ELSE f.alpha
Last(f) == Larger(f.alpha, f.image)
Taken(f) == (IF f.alpha = 0 THEN 0 ELSE 2) + (IF f.image = 0 THEN 0 ELSE 2)

IsAnmfOf(anmf, f) == /\ anmf.kind = "ANMF"
                     /\ f.offset = anmf.offset /\ f.options = anmf.options

PartsIn(r) == {p \in 1..Len(r) : r[p].kind \in PartKinds}
Owned == UNION {PartsOf(frames[k]) : k \in 1..Len(frames)}

(* While a frame is stored: its ANMF is right in front of it, the account of *)
(* its payload is right, and nothing lies between it and the frames before.  *)
AnmfOfFrame == IF frame.frame_num = 0 THEN Len(read) ELSE First(frame) - 1
Filling ==
  state = "store" =>
    /\ taken = Taken(frame)
    /\ AnmfOfFrame \in 1..Len(read)
    /\ IsAnmfOf(read[AnmfOfFrame], frame) /\ read[AnmfOfFrame].payload = room
    /\ PartsIn(read) = Owned \union PartsOf(frame)
    /\ \A k \in 1..Len(frames) : Last(frames[k]) <= AnmfOfFrame

(* Between frames every part is some frame's.                                *)
AllOwned == state # "store" => PartsIn(read) = Owned

(* Every frame of the list lies right behind its ANMF, which has room for    *)
(* it, and behind the frames before.                                         *)
FromItsAnmf(f, r) == /\ First(f) > 1 /\ IsAnmfOf(r[First(f) - 1], f)
                     /\ r[First(f) - 1].payload >= Taken(f)
InPlace == \A k \in 1..Len(frames) :
             /\ FromItsAnmf(frames[k], read)
             /\ \A j \in 1..k - 1 : Last(frames[j]) < First(frames[k])

PartsInv == is_animation /\ state # "error" => Filling /\ AllOwned /\ InPlace

-----------------------------------------------------------------------------
(* Reading a chunk adds at most itself to the parts of the file.             *)
LEMMA PartsAdvance ==
  ASSUME TypeOK, next \in Chunk, Advance
  PROVE  /\ next.kind \notin PartKinds => PartsIn(read') = PartsIn(read)
         /\ next.kind \in PartKinds => PartsIn(read') = PartsIn(read) \union {Here}
<1>1. /\ Len(read) \in Nat /\ Len(read') = Len(read) + 1 /\ Here = Len(read) + 1
      /\ read'[Here] = next /\ \A i \in 1..Len(read) : read'[i] = read[i]
  BY Advances DEF TypeOK, Here
<1>2. 1..Len(read') = 1..Len(read) \union {Here} /\ Here \notin 1..Len(read)
  BY <1>1
<1> QED BY <1>1, <1>2, Zenon DEF PartsIn

(* A frame that is added brings its parts.                                   *)
LEMMA OwnedGrows ==
  ASSUME frames \in Seq(Frame), NEW f \in Frame, frames' = Append(frames, f)
  PROVE  Owned' = Owned \union PartsOf(f)
<1>1. /\ Len(frames) \in Nat /\ Len(frames') = Len(frames) + 1
      /\ frames'[Len(frames) + 1] = f
      /\ \A k \in 1..Len(frames) : frames'[k] = frames[k]
  OBVIOUS
<1>2. 1..Len(frames') = 1..Len(frames) \union {Len(frames) + 1}
  BY <1>1
<1>3. ASSUME NEW x \in Owned' PROVE x \in Owned \union PartsOf(f)
  <2>1. PICK k \in 1..Len(frames') : x \in PartsOf(frames'[k])
    BY <1>3 DEF Owned
  <2>2. CASE k \in 1..Len(frames)
    BY <1>1, <2>1, <2>2 DEF Owned
  <2>3. CASE k = Len(frames) + 1
    BY <1>1, <2>1, <2>3
  <2> QED BY <1>2, <2>1, <2>2, <2>3
<1>4. ASSUME NEW x \in Owned PROVE x \in Owned'
  <2>1. PICK k \in 1..Len(frames) : x \in PartsOf(frames[k])
    BY <1>4 DEF Owned
  <2>2. k \in 1..Len(frames') /\ x \in PartsOf(frames'[k])
    BY <1>1, <1>2, <2>1
  <2> QED BY <2>2 DEF Owned
<1>5. ASSUME NEW x \in PartsOf(f) PROVE x \in Owned'
  <2>1. Len(frames) + 1 \in 1..Len(frames') /\ x \in PartsOf(frames'[Len(frames) + 1])
    BY <1>1, <1>2, <1>5
  <2> QED BY <2>1 DEF Owned
<1> QED BY <1>3, <1>4, <1>5

LEMMA FirstAndLast ==
  ASSUME NEW f \in Frame, NEW r \in Seq(Chunk), PartsOK(f, r)
  PROVE  /\ First(f) \in 0..Len(r) /\ Last(f) \in 0..Len(r)
         /\ First(f) <= Last(f) /\ Taken(f) \in Nat
<1>1. f.alpha \in Nat /\ f.image \in Nat /\ Len(r) \in Nat
  BY DEF Frame
<1> QED BY <1>1 DEF PartsOK, First, Last, Larger, Taken

(* The frames in the list stay where they are while the file is read.        *)
LEMMA InPlaceStays ==
  ASSUME IInv, InPlace, frames' = frames,
         read' = read \/ (next \in Chunk /\ Advance)
  PROVE  InPlace'
<1> SUFFICES ASSUME NEW k \in 1..Len(frames)
             PROVE  FromItsAnmf(frames[k], read')
  BY DEF InPlace
<1>1. FromItsAnmf(frames[k], read)
  BY DEF InPlace
<1>2. CASE read' = read
  BY <1>1, <1>2
<1>3. CASE next \in Chunk /\ Advance
  <2>1. \A i \in 1..Len(read) : read'[i] = read[i]
    BY <1>3, Advances DEF IInv
  <2>2. First(frames[k]) \in 0..Len(read)
    BY FirstAndLast DEF IInv, TypeOK, Listed
  <2>3. First(frames[k]) - 1 \in 1..Len(read)
    BY <1>1, <2>2 DEF FromItsAnmf, IInv, TypeOK
  <2> QED BY <1>1, <2>1, <2>3 DEF FromItsAnmf
<1> QED BY <1>2, <1>3

-----------------------------------------------------------------------------
LEMMA InitPartsInv == Init => PartsInv
<1> SUFFICES ASSUME Init PROVE PartsInv
  OBVIOUS
<1>1. PartsIn(read) = {} /\ Owned = {}
  BY DEF Init, PartsIn, Owned
<1> QED BY <1>1 DEF Init, PartsInv, Filling, AllOwned, InPlace

LEMMA PassKeepsParts ==
  ASSUME IInv, PartsInv, is_animation, ParseAnim \/ SkipChunk
  PROVE  PartsInv'
<1>1. /\ next \in Chunk /\ Advance /\ frames' = frames
      /\ next.kind \notin PartKinds /\ state = "chunks" /\ state' = "chunks"
  BY ChunkKinds DEF IInv, TypeOK, ParseAnim, SkipChunk, PartKinds, ImageKinds
<1>2. PartsIn(read') = PartsIn(read) /\ Owned' = Owned
  BY <1>1, PartsAdvance DEF IInv, Owned
<1>3. InPlace'
  BY <1>1, InPlaceStays DEF PartsInv
<1> QED BY <1>1, <1>2, <1>3 DEF PartsInv, AllOwned, Filling

LEMMA StartKeepsParts ==
  ASSUME IInv, PartsInv, is_animation, StartAnimationFrame
  PROVE  PartsInv'
<1>1. /\ next \in Chunk /\ next \in AnmfChunk /\ Advance /\ frames' = frames
      /\ next.kind = "ANMF" /\ state = "chunks" /\ state' = "store"
      /\ frame' = NewFrame(next.offset, next.options)
      /\ room' = next.payload /\ taken' = 0
  BY ChunkKinds DEF IInv, TypeOK, StartAnimationFrame
<1>2. PartsIn(read') = PartsIn(read) /\ Owned' = Owned
  BY <1>1, PartsAdvance DEF IInv, Owned, PartKinds, ImageKinds
<1>3. InPlace'
  BY <1>1, InPlaceStays DEF PartsInv
<1>4. /\ frame'.alpha = 0 /\ frame'.image = 0 /\ frame'.frame_num = 0
      /\ frame'.offset = next.offset /\ frame'.options = next.options
  BY <1>1 DEF NewFrame
<1>5. /\ Len(read) \in Nat /\ Len(read') = Len(read) + 1
      /\ read'[Len(read')] = next
  BY <1>1, Advances DEF IInv, TypeOK, Here
<1>6. AnmfOfFrame' = Len(read') /\ Len(read') \in 1..Len(read')
  BY <1>4, <1>5 DEF AnmfOfFrame
<1>7. ASSUME NEW k \in 1..Len(frames') PROVE Last(frames'[k]) <= AnmfOfFrame'
  <2>1. Last(frames[k]) \in 0..Len(read)
    BY <1>1, <1>7, FirstAndLast DEF IInv, TypeOK, Listed
  <2> QED BY <1>1, <1>5, <1>6, <2>1
<1>8. PartsOf(frame') = {} /\ Taken(frame') = 0
  BY <1>4 DEF PartsOf, Taken
<1>9. PartsIn(read') = Owned
  BY <1>1, <1>2 DEF PartsInv, AllOwned
<1>10. Filling'
  BY <1>1, <1>2, <1>4, <1>5, <1>6, <1>7, <1>8, <1>9 DEF Filling, IsAnmfOf
<1> QED BY <1>1, <1>3, <1>10 DEF PartsInv, AllOwned

(* StoreFrame: the part is the frame's, behind the same ANMF.                *)
LEMMA StoreKeepsParts ==
  ASSUME IInv, PartsInv, is_animation, StoreAlpha \/ StoreImage
  PROVE  PartsInv'
<1>1. /\ next \in Chunk /\ next.kind \in PartKinds /\ Advance /\ frames' = frames
      /\ state = "store" /\ state' = "store" /\ room' = room
      /\ frame \in Frame /\ taken' = taken + 2 /\ Units(next) = 2
  BY ChunkKinds DEF IInv, TypeOK, StoreAlpha, StoreImage, PartKinds, ImageKinds,
                    Units
<1>2. /\ Len(read) \in Nat /\ Len(read') = Len(read) + 1 /\ Here = Len(read) + 1
      /\ \A i \in 1..Len(read) : read'[i] = read[i]
      /\ frame.alpha \in Nat /\ frame.image \in Nat /\ num_frames \in Nat
  BY <1>1, Advances DEF IInv, TypeOK, Here, Frame, num_frames
<1>3. /\ frame'.frame_num = num_frames + 1
      /\ frame'.offset = frame.offset /\ frame'.options = frame.options
      /\ \/ /\ frame.alpha = 0 /\ frame'.alpha = Here
            /\ frame'.image = frame.image
         \/ /\ frame.image = 0 /\ frame'.image = Here
            /\ frame'.alpha = frame.alpha
  BY <1>1 DEF StoreAlpha, StoreImage, Frame
<1>4. /\ frame.frame_num = 0 <=> frame.alpha = 0 /\ frame.image = 0
      /\ frame.alpha # 0 /\ frame.image = 0 => frame.alpha = Len(read)
      /\ frame.alpha = 0 /\ frame.image # 0 => frame.image = Len(read)
  BY <1>1 DEF IInv, Storing
<1>5. AnmfOfFrame' = AnmfOfFrame
  BY <1>2, <1>3, <1>4 DEF AnmfOfFrame, First
<1>6. /\ taken = Taken(frame) /\ AnmfOfFrame \in 1..Len(read)
      /\ IsAnmfOf(read[AnmfOfFrame], frame) /\ read[AnmfOfFrame].payload = room
      /\ PartsIn(read) = Owned \union PartsOf(frame)
      /\ \A k \in 1..Len(frames) : Last(frames[k]) <= AnmfOfFrame
      /\ InPlace
  BY <1>1 DEF PartsInv, Filling
<1>7. taken' = Taken(frame')
  BY <1>1, <1>2, <1>3, <1>6 DEF Taken
<1>8. PartsOf(frame') = PartsOf(frame) \union {Here}
  BY <1>2, <1>3 DEF PartsOf
<1>9. PartsIn(read') = Owned' \union PartsOf(frame')
  BY <1>1, <1>6, <1>8, PartsAdvance DEF IInv, Owned
<1>10. /\ IsAnmfOf(read'[AnmfOfFrame'], frame')
       /\ read'[AnmfOfFrame'].payload = room' /\ AnmfOfFrame' \in 1..Len(read')
  BY <1>1, <1>2, <1>3, <1>5, <1>6 DEF IsAnmfOf
<1>11. \A k \in 1..Len(frames') : Last(frames'[k]) <= AnmfOfFrame'
  BY <1>1, <1>5, <1>6
<1>12. InPlace'
  BY <1>1, <1>6, InPlaceStays
<1> QED BY <1>1, <1>7, <1>9, <1>10, <1>11, <1>12 DEF PartsInv, Filling, AllOwned

(* The frame joins the list when its parts were no longer than its ANMF.     *)
LEMMA EndKeepsParts ==
  ASSUME IInv, PartsInv, is_animation, EndAnimationFrame
  PROVE  PartsInv'
<1> SUFFICES ASSUME ~Overruns PROVE PartsInv'
  BY DEF EndAnimationFrame, PartsInv
<1>1. /\ state = "store" /\ state' = "chunks" /\ read' = read
      /\ frame \in Frame /\ frames \in Seq(Frame) /\ read \in Seq(Chunk)
      /\ room \in Nat /\ taken \in Nat /\ Len(read) \in Nat
  BY DEF IInv, TypeOK, EndAnimationFrame, file
<1>2. /\ taken = Taken(frame) /\ AnmfOfFrame \in 1..Len(read)
      /\ IsAnmfOf(read[AnmfOfFrame], frame) /\ read[AnmfOfFrame].payload = room
      /\ PartsIn(read) = Owned \union PartsOf(frame)
      /\ \A k \in 1..Len(frames) : Last(frames[k]) <= AnmfOfFrame
      /\ InPlace
  BY <1>1 DEF PartsInv, Filling
<1>3. PartsOK(frame, read) /\ (frame.frame_num = 0 <=> frame.alpha = 0 /\ frame.image = 0)
  BY <1>1 DEF IInv, Storing
<1>4. CASE frame.frame_num > 0
  <2>1. frames' = Append(frames, frame)
    BY <1>4 DEF EndAnimationFrame, AddFrame
  <2>2. /\ Len(frames) \in Nat /\ Len(frames') = Len(frames) + 1
        /\ frames'[Len(frames) + 1] = frame
        /\ \A k \in 1..Len(frames) : frames'[k] = frames[k]
    BY <1>1, <2>1
  <2>3. AnmfOfFrame = First(frame) - 1 /\ First(frame) \in 0..Len(read)
    BY <1>1, <1>3, <1>4, FirstAndLast DEF AnmfOfFrame
  <2>4. room >= taken
    BY <1>1 DEF Overruns
  <2>5. FromItsAnmf(frame, read)
    BY <1>1, <1>2, <2>3, <2>4 DEF FromItsAnmf
  <2>6. \A j \in 1..Len(frames) : Last(frames[j]) < First(frame)
    <3> TAKE j \in 1..Len(frames)
    <3>1. Last(frames[j]) \in 0..Len(read)
      BY <1>1, FirstAndLast DEF IInv, Listed
    <3> QED BY <1>2, <2>3, <3>1
  <2>7. InPlace'
    <3>1. ASSUME NEW k \in 1..Len(frames')
          PROVE  /\ FromItsAnmf(frames'[k], read')
                 /\ \A j \in 1..k - 1 : Last(frames'[j]) < First(frames'[k])
      <4>1. CASE k = Len(frames) + 1
        BY <1>1, <2>2, <2>5, <2>6, <4>1
      <4>2. CASE k \in 1..Len(frames)
        BY <1>1, <1>2, <2>2, <4>2 DEF InPlace
      <4> QED BY <2>2, <4>1, <4>2
    <3> QED BY <3>1 DEF InPlace
  <2>8. AllOwned'
    BY <1>1, <1>2, <2>1, OwnedGrows DEF AllOwned
  <2> QED BY <1>1, <2>7, <2>8 DEF PartsInv, Filling
<1>5. CASE ~(frame.frame_num > 0)
  <2>1. frames' = frames
    BY <1>5 DEF EndAnimationFrame
  <2>2. frame.alpha = 0 /\ frame.image = 0
    BY <1>1, <1>3, <1>5 DEF Frame
  <2>3. PartsOf(frame) = {} /\ Owned' = Owned
    BY <2>1, <2>2 DEF PartsOf, Owned
  <2>4. InPlace'
    BY <1>1, <1>2, <2>1, InPlaceStays
  <2> QED BY <1>1, <1>2, <2>3, <2>4 DEF PartsInv, Filling, AllOwned
<1> QED BY <1>4, <1>5

LEMMA NextPartsInv == IInv /\ PartsInv /\ [Next]_vars => PartsInv'
<1> SUFFICES ASSUME IInv, PartsInv, [Next]_vars PROVE PartsInv'
  OBVIOUS
<1>r. CASE Refuse
  BY <1>r DEF Refuse, PartsInv
<1>u. CASE UNCHANGED vars
  BY <1>u DEF vars, header, file, storing, PartsInv, Filling, AllOwned, InPlace,
              AnmfOfFrame, Owned
<1>1. CASE ParseAnim \/ SkipChunk
  BY <1>1, PassKeepsParts DEF ParseAnim, SkipChunk, PartsInv, header
<1>2. CASE StartAnimationFrame
  BY <1>2, StartKeepsParts DEF StartAnimationFrame, PartsInv, header
<1>3. CASE StartSingleImage
  BY <1>3 DEF StartSingleImage, PartsInv, header
<1>4. CASE EndOfChunks
  BY <1>4, InPlaceStays
     DEF EndOfChunks, PartsInv, header, file, storing, Filling, AllOwned, Owned
<1>5. CASE StoreAlpha \/ StoreImage
  BY <1>5, StoreKeepsParts DEF StoreAlpha, StoreImage, PartsInv, header
<1>6. CASE EndAnimationFrame
  BY <1>6, EndKeepsParts DEF EndAnimationFrame, PartsInv, header
<1>7. CASE EndSingleImage
  BY <1>7 DEF EndSingleImage, PartsInv, IInv, Storing
<1> QED BY <1>r, <1>u, <1>1, <1>2, <1>3, <1>4, <1>5, <1>6, <1>7
        DEF Next, MeetBad, ChunkOutOfPlace, NoMemory, ImageRefused

LEMMA PartsAlways == Spec => [](IInv /\ PartsInv)
BY InitIInv, NextIInv, InitPartsInv, NextPartsInv, PTL DEF Spec

(* Every alpha and image of an accepted animation is part of just the frame  *)
(* whose ANMF it stands behind, whatever the order and number of chunks.     *)
THEOREM EveryPartHasItsFrame == Spec => []NoPartIsLost
<1>1. ASSUME IInv, PartsInv, state = "ok", is_animation
      PROVE  /\ {p \in DOMAIN read : read[p].kind \in PartKinds}
                  = UNION {PartsOf(frames[k]) : k \in DOMAIN frames}
             /\ \A k \in DOMAIN frames :
                  LET anmf == read[FirstPart(frames[k]) - 1] IN
                  /\ anmf.kind = "ANMF"
                  /\ frames[k].offset = anmf.offset
                  /\ frames[k].options = anmf.options
                  /\ IF frames[k].alpha = 0 THEN anmf.payload >= 2
                     ELSE anmf.payload >= 4
             /\ \A j, k \in DOMAIN frames :
                  j < k => frames[j].image < FirstPart(frames[k])
  <2>1. DOMAIN read = 1..Len(read) /\ DOMAIN frames = 1..Len(frames)
        /\ Len(frames) \in Nat
    BY <1>1 DEF IInv, TypeOK
  <2>2. AllOwned /\ InPlace
    BY <1>1 DEF PartsInv
  <2>3. {p \in DOMAIN read : read[p].kind \in PartKinds}
          = UNION {PartsOf(frames[k]) : k \in DOMAIN frames}
    BY <1>1, <2>1, <2>2 DEF AllOwned, PartsIn, Owned
  <2>4. ASSUME NEW k \in DOMAIN frames
        PROVE  /\ First(frames[k]) = FirstPart(frames[k])
               /\ Last(frames[k]) = frames[k].image
               /\ Taken(frames[k]) = (IF frames[k].alpha = 0 THEN 2 ELSE 4)
    <3>1. /\ frames[k].alpha \in Nat /\ frames[k].image \in Nat
          /\ frames[k].alpha <= frames[k].image /\ frames[k].image # 0
          /\ frames[k].alpha # 0 => frames[k].alpha \in {frames[k].image - 1,
                                                       frames[k].image + 1}
      <4>1. frames[k].alpha \in Nat /\ frames[k].image \in Nat
        <5>1. frames[k] \in Frame
          BY <1>1, <2>1 DEF IInv, TypeOK
        <5> QED BY <5>1 DEF Frame
      <4>2. PartsOK(frames[k], read)
        BY <1>1, <2>1 DEF IInv, Listed
      <4>3. frames[k].complete = 1 /\ frames[k].alpha <= frames[k].image
        BY <1>1, <2>1 DEF IInv, Accepted
      <4> QED BY <4>1, <4>2, <4>3 DEF PartsOK
    <3> QED BY <3>1 DEF First, FirstPart, Last, Larger, Taken
  <2>5. ASSUME NEW k \in DOMAIN frames
        PROVE  LET anmf == read[FirstPart(frames[k]) - 1] IN
                  /\ anmf.kind = "ANMF"
                  /\ frames[k].offset = anmf.offset
                  /\ frames[k].options = anmf.options
                  /\ IF frames[k].alpha = 0 THEN anmf.payload >= 2
                     ELSE anmf.payload >= 4
    BY <2>1, <2>2, <2>4 DEF InPlace, FromItsAnmf, IsAnmfOf
  <2>6. ASSUME NEW j \in DOMAIN frames, NEW k \in DOMAIN frames, j < k
        PROVE  frames[j].image < FirstPart(frames[k])
    <3>1. j \in 1..k - 1
      BY <2>1, <2>6
    <3> QED BY <2>1, <2>2, <2>4, <3>1 DEF InPlace
  <2> QED BY <2>3, <2>5, <2>6
<1>2. IInv /\ PartsInv => NoPartIsLost
  BY <1>1 DEF NoPartIsLost
<1> QED BY <1>2, PartsAlways, PTL

-----------------------------------------------------------------------------
(* What the decoders read in the headers of the same file.  AlphasShown: the *)
(* has_alpha of a frame is the one its headers give.  StillImage: in front   *)
(* of the image of a still there is no other.  SimpleImage: a file without a *)
(* VP8X chunk starts with its image.                                         *)
AlphaShown(f, r) ==
  f.has_alpha = IF f.alpha # 0 THEN 1
                ELSE IF f.image # 0 THEN r[f.image].alpha ELSE 0

AlphasShown ==
  /\ state = "store" => AlphaShown(frame, read)
  /\ is_animation => \A k \in 1..Len(frames) : AlphaShown(frames[k], read)

NoImageBefore(n, r) == \A p \in 1..n - 1 : r[p].kind \notin ImageKinds

StillImage ==
  ~is_animation /\ state # "error" =>
    /\ anim_chunks = 0 /\ frames = <<>> /\ state = "chunks" =>
         NoImageBefore(Len(read) + 1, read)
    /\ anim_chunks = 0 /\ state = "store" =>
         NoImageBefore(IF frame.image = 0 THEN Len(read) + 1 ELSE frame.image,
                       read)
    /\ frames # <<>> => NoImageBefore(frames[1].image, read)

SimpleImage ==
  ~is_ext_format =>
    /\ state = "chunks" \/ (state = "store" /\ frame.frame_num = 0) =>
         Len(read) = 0
    /\ state = "store" /\ frame.frame_num # 0 => frame.image = 1
    /\ state = "ok" => frames[1].image = 1

HeadersInv == AlphasShown /\ StillImage /\ SimpleImage

(* What was read of a file stays what it is.                                 *)
LEMMA AlphaShownStays ==
  ASSUME TypeOK, NEW f \in Frame, PartsOK(f, read), AlphaShown(f, read),
         read' = read \/ (next \in Chunk /\ Advance)
  PROVE  AlphaShown(f, read')
BY Advances DEF PartsOK, AlphaShown

LEMMA NoImageBeforeStays ==
  ASSUME TypeOK, NEW n \in Nat, n <= Len(read) + 1, NoImageBefore(n, read),
         read' = read \/ (next \in Chunk /\ Advance)
  PROVE  NoImageBefore(n, read')
<1>1. CASE read' = read
  BY <1>1 DEF NoImageBefore
<1>2. CASE next \in Chunk /\ Advance
  <2>1. Len(read) \in Nat /\ \A i \in 1..Len(read) : read'[i] = read[i]
    BY <1>2, Advances DEF TypeOK
  <2>2. \A p \in 1..n - 1 : p \in 1..Len(read)
    BY <2>1
  <2> QED BY <2>1, <2>2 DEF NoImageBefore
<1> QED BY <1>1, <1>2

(* A chunk that is no image leaves the file without one.                     *)
LEMMA NoImagePassed ==
  ASSUME TypeOK, next \in Chunk, Advance, next.kind \notin ImageKinds,
         NoImageBefore(Len(read) + 1, read)
  PROVE  NoImageBefore(Len(read') + 1, read')
<1>1. /\ Len(read) \in Nat /\ Len(read') = Len(read) + 1
      /\ read'[Len(read) + 1] = next
      /\ \A i \in 1..Len(read) : read'[i] = read[i]
  BY Advances DEF TypeOK, Here
<1>2. ASSUME NEW p \in 1..(Len(read') + 1) - 1 PROVE read'[p].kind \notin ImageKinds
  <2>1. p \in 1..(Len(read) + 1) - 1 \/ p = Len(read) + 1
    BY <1>1
  <2>2. (Len(read) + 1) - 1 = Len(read)
    BY <1>1
  <2> QED BY <1>1, <2>1, <2>2 DEF NoImageBefore
<1> QED BY <1>2 DEF NoImageBefore

(* The frame of a still has a part, and its image is kept.                   *)
LEMMA EndSingleAdds ==
  ASSUME IInv, EndSingleImage
  PROVE  /\ frame.frame_num # 0 /\ frames' # <<>> /\ read' = read
         /\ frames'[1].image = frame.image
         /\ anim_chunks = 0 /\ ~is_animation'
<1>1. frames = <<>> /\ anim_chunks = 0 /\ ~is_animation /\ frame \in Frame
  BY DEF IInv, TypeOK, Storing, EndSingleImage
<1>2. frame.frame_num # 0
  <2>1. frame.frame_num = 0 =>
          /\ next.kind \in PartKinds /\ frame.alpha = 0 /\ frame.image = 0
    BY <1>1 DEF IInv, Storing, EndSingleImage
  <2> QED BY <2>1 DEF EndSingleImage, StoreStops, PartKinds, ImageKinds
<1>3. ClearedAlpha(frame).image = frame.image
  BY <1>1 DEF ClearedAlpha, Frame
<1>4. frames' = <<ClearedAlpha(frame)>>
  BY <1>1 DEF EndSingleImage, AddFrame
<1> QED BY <1>1, <1>2, <1>3, <1>4 DEF EndSingleImage, file

LEMMA InitHeadersInv == Init => HeadersInv
BY DEF Init, HeadersInv, AlphasShown, AlphaShown, StillImage, SimpleImage,
       NoImageBefore, NewFrame

LEMMA NextAlphas == IInv /\ AlphasShown /\ [Next]_vars => AlphasShown'
<1> SUFFICES ASSUME IInv, AlphasShown, [Next]_vars PROVE AlphasShown'
  OBVIOUS
<1>t. TypeOK /\ frames \in Seq(Frame) /\ Len(frames) \in Nat /\ frame \in Frame
  BY DEF IInv, TypeOK
<1>f. ASSUME read' = read \/ (next \in Chunk /\ Advance), is_animation,
             NEW k \in 1..Len(frames)
      PROVE  AlphaShown(frames[k], read')
  <2>1. frames[k] \in Frame /\ PartsOK(frames[k], read)
    BY <1>t DEF IInv, Listed
  <2> QED BY <1>t, <1>f, <2>1, AlphaShownStays DEF AlphasShown
<1>u. CASE UNCHANGED vars
  BY <1>u DEF vars, header, file, storing, AlphasShown
<1>r. CASE Refuse
  BY <1>r DEF Refuse, header, file, AlphasShown
<1>1. CASE ParseAnim \/ SkipChunk
  <2>1. next \in Chunk /\ Advance
    BY <1>1, <1>t, ChunkKinds DEF TypeOK, ParseAnim, SkipChunk
  <2> QED BY <1>1, <1>f, <2>1 DEF ParseAnim, SkipChunk, header, AlphasShown
<1>2. CASE StartAnimationFrame
  <2>1. next \in Chunk /\ Advance
    BY <1>2, <1>t, ChunkKinds DEF TypeOK, StartAnimationFrame
  <2>2. AlphaShown(frame', read')
    BY <1>2 DEF StartAnimationFrame, NewFrame, AlphaShown
  <2> QED BY <1>2, <1>f, <2>1, <2>2 DEF StartAnimationFrame, header, AlphasShown
<1>3. CASE StartSingleImage
  <2>1. AlphaShown(frame', read')
    BY <1>3 DEF StartSingleImage, NewFrame, AlphaShown
  <2> QED BY <1>3, <2>1 DEF StartSingleImage, header, AlphasShown
<1>4. CASE EndOfChunks
  BY <1>4 DEF EndOfChunks, header, file, AlphasShown
<1>5. CASE StoreAlpha
  <2>1. next \in Chunk /\ Advance
    BY <1>5, <1>t, ChunkKinds DEF TypeOK, StoreAlpha
  <2>2. frame'.alpha # 0 /\ frame'.has_alpha = 1
    BY <1>5, <1>t DEF StoreAlpha, Frame, Here, TypeOK
  <2>3. AlphaShown(frame', read')
    BY <2>2 DEF AlphaShown
  <2> QED BY <1>5, <1>f, <2>1, <2>3 DEF StoreAlpha, header, AlphasShown
<1>6. CASE StoreImage
  <2>1. next \in Chunk /\ Advance /\ next.alpha \in 0..1
    <3>1. next \in Image /\ next \in Chunk
      BY <1>6, <1>t, ChunkKinds DEF TypeOK, StoreImage, ImageKinds
    <3> QED BY <1>6, <3>1 DEF Image, StoreImage
  <2>2. /\ frame'.alpha = frame.alpha /\ frame'.image = Here
        /\ frame'.has_alpha = Larger(frame.has_alpha, next.alpha)
    BY <1>6, <1>t DEF StoreImage, Frame
  <2>3. Here # 0 /\ read'[Here] = next
    BY <1>t, <2>1, Advances DEF TypeOK, Here
  <2>4. frame.has_alpha = IF frame.alpha # 0 THEN 1 ELSE 0
    BY <1>6 DEF StoreImage, AlphasShown, AlphaShown
  <2>5. AlphaShown(frame', read')
    BY <2>1, <2>2, <2>3, <2>4 DEF AlphaShown, Larger
  <2> QED BY <1>6, <1>f, <2>1, <2>5 DEF StoreImage, header, AlphasShown
<1>7. CASE EndAnimationFrame
  <2>1. AlphaShown(frame, read) /\ read' = read /\ state' # "store"
    BY <1>7 DEF EndAnimationFrame, AlphasShown, file
  <2>2. frames' = frames \/ frames' = Append(frames, frame)
    BY <1>7 DEF EndAnimationFrame, AddFrame
  <2>3. ASSUME is_animation', NEW k \in 1..Len(frames')
        PROVE  AlphaShown(frames'[k], read')
    <3>1. is_animation
      BY <1>7, <2>3 DEF EndAnimationFrame, header
    <3>2. frames'[k] = frame \/ (k \in 1..Len(frames) /\ frames'[k] = frames[k])
      BY <1>t, <2>2
    <3> QED BY <1>f, <2>1, <3>1, <3>2
  <2> QED BY <2>1, <2>3 DEF AlphasShown
<1>8. CASE EndSingleImage
  BY <1>8, EndSingleAdds DEF EndSingleImage, AlphasShown
<1> QED BY <1>u, <1>r, <1>1, <1>2, <1>3, <1>4, <1>5, <1>6, <1>7, <1>8
        DEF Next, MeetBad, ChunkOutOfPlace, NoMemory, ImageRefused

LEMMA NextStill == IInv /\ StillImage /\ [Next]_vars => StillImage'
<1> SUFFICES ASSUME IInv, StillImage, [Next]_vars,
                    ~is_animation, state # "error", state' # "error"
             PROVE  /\ anim_chunks' = 0 /\ frames' = <<>> /\ state' = "chunks" =>
                         NoImageBefore(Len(read') + 1, read')
                    /\ anim_chunks' = 0 /\ state' = "store" =>
                         NoImageBefore(IF frame'.image = 0 THEN Len(read') + 1
                                       ELSE frame'.image, read')
                    /\ frames' # <<>> => NoImageBefore(frames'[1].image, read')
  <2>1. [Next]_vars => is_animation' = is_animation
    BY DEF Next, vars, header, MeetBad, Refuse, ParseAnim, SkipChunk,
           ChunkOutOfPlace, NoMemory, StartAnimationFrame, StartSingleImage,
           EndOfChunks, StoreAlpha, ImageRefused, StoreImage,
           EndAnimationFrame, EndSingleImage
  <2>2. [Next]_vars /\ state = "error" => state' = "error"
    BY DEF Next, vars, MeetBad, Refuse, ParseAnim, SkipChunk,
           ChunkOutOfPlace, NoMemory, StartAnimationFrame, StartSingleImage,
           EndOfChunks, StoreAlpha, ImageRefused, StoreImage,
           EndAnimationFrame, EndSingleImage
  <2> QED BY <2>1, <2>2 DEF StillImage
<1>t. /\ TypeOK /\ frames \in Seq(Frame) /\ frame \in Frame
      /\ Len(read) \in Nat
  BY DEF IInv, TypeOK
<1>s. /\ anim_chunks = 0 /\ frames = <<>> /\ state = "chunks" =>
           NoImageBefore(Len(read) + 1, read)
      /\ anim_chunks = 0 /\ state = "store" =>
           NoImageBefore(IF frame.image = 0 THEN Len(read) + 1 ELSE frame.image,
                         read)
      /\ frames # <<>> => NoImageBefore(frames[1].image, read)
  BY DEF StillImage
<1>f. ASSUME frames # <<>>, read' = read \/ (next \in Chunk /\ Advance)
      PROVE  NoImageBefore(frames[1].image, read')
  <2>1. frames[1] \in Frame /\ PartsOK(frames[1], read)
    BY <1>t, <1>f DEF IInv, Listed
  <2>2. frames[1].image \in Nat /\ frames[1].image <= Len(read) + 1
    BY <1>t, <2>1 DEF PartsOK, Frame
  <2> QED BY <1>t, <1>s, <1>f, <2>2, NoImageBeforeStays
<1>i. frame.image \in Nat /\ (state = "store" => frame.image <= Len(read) + 1)
  BY <1>t DEF IInv, Storing, PartsOK, Frame
<1>u. CASE UNCHANGED vars
  BY <1>u, <1>s DEF vars, file, storing
<1>1. CASE ParseAnim \/ SkipChunk
  <2>1. /\ next \in Chunk /\ Advance /\ next.kind \notin ImageKinds
        /\ frames' = frames /\ state = "chunks" /\ state' = "chunks"
        /\ anim_chunks' = 0 => anim_chunks = 0
    BY <1>1, <1>t, ChunkKinds DEF TypeOK, ParseAnim, SkipChunk, ImageKinds
  <2> QED BY <1>t, <1>s, <1>f, <2>1, NoImagePassed
<1>2. CASE StartAnimationFrame
  <2>1. /\ next \in Chunk /\ Advance /\ frames' = frames
        /\ anim_chunks' # 0
    BY <1>2, <1>t, ChunkKinds DEF TypeOK, StartAnimationFrame
  <2> QED BY <1>f, <2>1
<1>3. CASE StartSingleImage
  <2>1. /\ read' = read /\ frames' = frames /\ frame'.image = 0
        /\ anim_chunks = 0 /\ frames = <<>> /\ state = "chunks" /\ state' = "store"
    BY <1>3 DEF StartSingleImage, file, NewFrame
  <2> QED BY <1>s, <2>1
<1>4. CASE EndOfChunks
  BY <1>4, <1>f DEF EndOfChunks, file
<1>5. CASE StoreAlpha
  <2>1. /\ next \in Chunk /\ Advance /\ next.kind \notin ImageKinds
        /\ frames' = frames /\ state = "store" /\ state' = "store"
        /\ anim_chunks' = anim_chunks
    BY <1>5, <1>t, ChunkKinds DEF TypeOK, StoreAlpha, ImageKinds
  <2>2. frame'.image = frame.image
    BY <1>5, <1>t DEF StoreAlpha, Frame
  <2>3. CASE frame.image = 0
    BY <1>t, <1>s, <1>f, <2>1, <2>2, <2>3, NoImagePassed
  <2>4. CASE frame.image # 0
    BY <1>t, <1>s, <1>f, <1>i, <2>1, <2>2, <2>4, NoImageBeforeStays
  <2> QED BY <2>3, <2>4
<1>6. CASE StoreImage
  <2>1. /\ next \in Chunk /\ Advance /\ frame.image = 0
        /\ frames' = frames /\ state = "store" /\ state' = "store"
        /\ anim_chunks' = anim_chunks
    BY <1>6, <1>t, ChunkKinds DEF TypeOK, StoreImage, ImageKinds
  <2>2. frame'.image = Len(read) + 1
    BY <1>6, <1>t DEF StoreImage, Frame, Here
  <2>3. Len(read) + 1 \in Nat /\ Len(read) + 1 # 0
    BY <1>t
  <2>4. anim_chunks = 0 => NoImageBefore(Len(read) + 1, read')
    BY <1>t, <1>s, <2>1, <2>3, NoImageBeforeStays
  <2> QED BY <1>f, <2>1, <2>2, <2>3, <2>4
<1>7. CASE EndAnimationFrame
  <2>1. anim_chunks' # 0 /\ read' = read /\ frames' = frames
    BY <1>7 DEF EndAnimationFrame, file
  <2> QED BY <1>f, <2>1
<1>8. CASE EndSingleImage
  <2>1. /\ read' = read /\ frames' # <<>> /\ anim_chunks = 0 /\ state = "store"
        /\ state' # "store" /\ frames'[1].image = frame.image
    BY <1>8, EndSingleAdds DEF EndSingleImage
  <2>2. NoImageBefore(0, read)
    BY DEF NoImageBefore
  <2>3. NoImageBefore(frame.image, read)
    BY <1>s, <2>1, <2>2
  <2> QED BY <2>1, <2>3
<1>9. ~Refuse
  BY DEF Refuse
<1> QED BY <1>u, <1>1, <1>2, <1>3, <1>4, <1>5, <1>6, <1>7, <1>8, <1>9
        DEF Next, MeetBad, ChunkOutOfPlace, NoMemory, ImageRefused

LEMMA NextSimple == IInv /\ SimpleImage /\ [Next]_vars => SimpleImage'
<1> SUFFICES ASSUME IInv, SimpleImage, [Next]_vars PROVE SimpleImage'
  OBVIOUS
<1>t. TypeOK /\ frame \in Frame
  BY DEF IInv, TypeOK
<1>u. CASE UNCHANGED vars
  BY <1>u DEF vars, header, file, storing, SimpleImage
<1>r. CASE Refuse
  BY <1>r DEF Refuse, header, SimpleImage
<1>1. CASE ParseAnim \/ SkipChunk \/ StartAnimationFrame
  BY <1>1 DEF ParseAnim, SkipChunk, StartAnimationFrame, header, IInv, Simple,
              SimpleImage, ImageKinds
<1>3. CASE StartSingleImage
  BY <1>3 DEF StartSingleImage, NewFrame, header, file, SimpleImage
<1>4. CASE EndOfChunks
  BY <1>4 DEF EndOfChunks, header, IInv, Simple, SimpleImage, ImageKinds, End
<1>5. CASE StoreAlpha
  <2>1. frame'.image = frame.image /\ frame'.frame_num # 0
    BY <1>5, <1>t DEF StoreAlpha, Frame, num_frames, TypeOK
  <2>2. ~is_ext_format => frame.frame_num # 0
    BY <1>5 DEF StoreAlpha, IInv, Simple, ImageKinds
  <2> QED BY <1>5, <2>1, <2>2 DEF StoreAlpha, header, SimpleImage
<1>6. CASE StoreImage
  <2>1. frame'.image = Len(read) + 1 /\ frame'.frame_num # 0
    BY <1>6, <1>t DEF StoreImage, Frame, Here, num_frames, TypeOK
  <2>2. ~is_ext_format => Len(read) = 0
    BY <1>6 DEF StoreImage, IInv, Simple, SimpleImage
  <2> QED BY <1>6, <2>1, <2>2 DEF StoreImage, header, SimpleImage
<1>7. CASE EndAnimationFrame
  BY <1>7 DEF EndAnimationFrame, header, IInv, Simple, SimpleImage
<1>8. CASE EndSingleImage
  BY <1>8, EndSingleAdds DEF EndSingleImage, SimpleImage
<1> QED BY <1>u, <1>r, <1>1, <1>3, <1>4, <1>5, <1>6, <1>7, <1>8
        DEF Next, MeetBad, ChunkOutOfPlace, NoMemory, ImageRefused

LEMMA HeadersAlways == Spec => [](IInv /\ HeadersInv)
<1>1. IInv /\ HeadersInv /\ [Next]_vars => HeadersInv'
  BY NextAlphas, NextStill, NextSimple DEF HeadersInv
<1> QED BY <1>1, InitIInv, NextIInv, InitHeadersInv, PTL DEF Spec

-----------------------------------------------------------------------------
(* The least and the greatest of a set, when it is known.                    *)
LEMMA MinIs ==
  ASSUME NEW S \in SUBSET Nat, NEW m \in S, \A y \in S : m <= y
  PROVE  Min(S) = m
<1>1. \A x, y \in Nat : x <= y /\ y <= x => x = y
  OBVIOUS
<1> QED BY <1>1, Zenon DEF Min

LEMMA MaxIs ==
  ASSUME NEW S \in SUBSET Nat, NEW m \in S, \A y \in S : m >= y
  PROVE  Max(S) = m
<1>1. \A x, y \in Nat : x >= y /\ y >= x => x = y
  OBVIOUS
<1> QED BY <1>1, Zenon DEF Max

(* A bitstream that the parser has kept has a size, and a lossy one has no   *)
(* alpha of its own.                                                         *)
LEMMA KeptImage ==
  ASSUME NEW f \in Frame, NEW r \in Seq(Chunk), PartsOK(f, r), f.image # 0
  PROVE  /\ f.image \in 1..Len(r) /\ r[f.image].kind \in ImageKinds
         /\ r[f.image].size = f.size /\ f.size # Broken
         /\ r[f.image].kind = "VP8" => r[f.image].alpha = 0
<1>1. /\ f.image \in 1..Len(r) /\ r[f.image].kind \in ImageKinds
      /\ f.size = r[f.image].size /\ f.size \in Sizes
  BY DEF PartsOK
<1>2. r[f.image] \in Chunk
  BY <1>1
<1>3. r[f.image] \in Image
  BY <1>1, <1>2, ChunkKinds
<1>4. Broken \notin Sizes
  BY ParserAssumption DEF Broken
<1> QED BY <1>1, <1>3, <1>4 DEF Image

(* A span of one chunk, and one of two.                                      *)
LEMMA SpanOfOne ==
  ASSUME NEW S, NEW s \in Seq(S), NEW n \in 1..Len(s)
  PROVE  /\ Len(SubSeq(s, n, n)) = 1 /\ SubSeq(s, n, n) \in Seq(S)
         /\ SubSeq(s, n, n)[1] = s[n]
<1>1. /\ n \in Int /\ (\A i \in n..n : s[i] \in S)
      /\ n - n + 1 = 1 /\ n + 1 - 1 = n /\ n <= n /\ 1 \in 1..1
  OBVIOUS
<1>2. /\ SubSeq(s, n, n) \in Seq(S)
      /\ Len(SubSeq(s, n, n)) = IF n <= n THEN n - n + 1 ELSE 0
      /\ \A i \in 1..n - n + 1 : SubSeq(s, n, n)[i] = s[n + i - 1]
  BY <1>1, SubSeqProperties
<1> QED BY <1>1, <1>2, Zenon

LEMMA SpanOfTwo ==
  ASSUME NEW S, NEW s \in Seq(S), NEW n \in 1..Len(s), n - 1 \in 1..Len(s)
  PROVE  /\ Len(SubSeq(s, n - 1, n)) = 2 /\ SubSeq(s, n - 1, n) \in Seq(S)
         /\ SubSeq(s, n - 1, n)[1] = s[n - 1] /\ SubSeq(s, n - 1, n)[2] = s[n]
<1> DEFINE m == n - 1
<1>1. /\ m \in Int /\ n \in Int /\ (\A i \in m..n : s[i] \in S)
      /\ n - m + 1 = 2 /\ m + 1 - 1 = m /\ m + 2 - 1 = n /\ m <= n
      /\ 1 \in 1..2 /\ 2 \in 1..2
  OBVIOUS
<1> HIDE DEF m
<1>2. /\ SubSeq(s, m, n) \in Seq(S)
      /\ Len(SubSeq(s, m, n)) = IF m <= n THEN n - m + 1 ELSE 0
      /\ \A i \in 1..n - m + 1 : SubSeq(s, m, n)[i] = s[m + i - 1]
  BY <1>1, SubSeqProperties
<1> QED BY <1>1, <1>2, Zenon DEF m

(* The payload of a page: its image, or its alpha and its image.             *)
LEMMA PagePayload ==
  ASSUME NEW f \in Frame, read \in Seq(Chunk), PartsOK(f, read),
         f.image # 0, f.alpha <= f.image
  PROVE  /\ GetFramePayload(f) \in Seq(Chunk)
         /\ f.alpha = 0 => /\ Len(GetFramePayload(f)) = 1
                           /\ GetFramePayload(f)[1] = read[f.image]
         /\ f.alpha # 0 => /\ Len(GetFramePayload(f)) = 2
                           /\ GetFramePayload(f)[2] = read[f.image]
                           /\ GetFramePayload(f)[1].kind = "ALPH"
<1>1. f.image \in 1..Len(read) /\ f.alpha \in Nat /\ Len(read) \in Nat
  BY DEF Frame, PartsOK
<1>2. CASE f.alpha = 0
  <2>1. GetFramePayload(f) = SubSeq(read, f.image, f.image)
    BY <1>2 DEF GetFramePayload
  <2>2. /\ Len(SubSeq(read, f.image, f.image)) = 1
        /\ SubSeq(read, f.image, f.image) \in Seq(Chunk)
        /\ SubSeq(read, f.image, f.image)[1] = read[f.image]
    BY <1>1, SpanOfOne, Zenon
  <2> QED BY <1>2, <2>1, <2>2, Zenon
<1>3. CASE f.alpha # 0
  <2>1. /\ f.alpha = f.image - 1 /\ f.alpha \in 1..Len(read)
        /\ read[f.alpha].kind = "ALPH"
    BY <1>1, <1>3 DEF PartsOK
  <2>2. GetFramePayload(f) = SubSeq(read, f.image - 1, f.image)
    BY <1>3, <2>1 DEF GetFramePayload
  <2>3. /\ Len(SubSeq(read, f.image - 1, f.image)) = 2
        /\ SubSeq(read, f.image - 1, f.image) \in Seq(Chunk)
        /\ SubSeq(read, f.image - 1, f.image)[1] = read[f.image - 1]
        /\ SubSeq(read, f.image - 1, f.image)[2] = read[f.image]
    <3>1. f.image - 1 \in 1..Len(read)
      BY <2>1
    <3> QED BY <1>1, <3>1, SpanOfTwo, Zenon
  <2> QED BY <1>3, <2>1, <2>2, <2>3, Zenon
<1> QED BY <1>2, <1>3

(* What the decoders read where there are no pages to be read: the image     *)
(* they come to, with the alpha they have met.                               *)
ImageMet(d, riff, vp8x) ==
  IF HasOptionalChunks(d, riff, vp8x) THEN FirstImage(d) ELSE 1
AlphaMet(d, riff, vp8x) ==
  IF HasOptionalChunks(d, riff, vp8x)
  THEN AlphaBefore(d, ImageMet(d, riff, vp8x)) ELSE 0

LEMMA HeadersOfPage ==
  ASSUME NEW d, ImageMet(d, FALSE, FALSE) # 0,
         d[ImageMet(d, FALSE, FALSE)].kind \in ImageKinds,
         d[ImageMet(d, FALSE, FALSE)].size # Broken
  PROVE  ParseHeadersInternal(d, FALSE, FALSE, "ParseHeaders") =
           LET i == ImageMet(d, FALSE, FALSE)
               a == AlphaMet(d, FALSE, FALSE)
           IN [status |-> "ok", size |-> d[i].size, alpha_data |-> a,
               image |-> i, has_alpha |-> AlphaOfHeaders(FALSE, d[i], a),
               has_animation |-> FALSE]
BY Zenon DEF ParseHeadersInternal, WrongVP8X, ImageMet, AlphaMet

LEMMA HeadersOfStill ==
  ASSUME is_ext_format \in BOOLEAN, ~WrongVP8X(is_ext_format), ~is_animation,
         ImageMet(read, TRUE, is_ext_format) # 0,
         read[ImageMet(read, TRUE, is_ext_format)].kind \in ImageKinds,
         read[ImageMet(read, TRUE, is_ext_format)].size # Broken,
         is_ext_format =>
           read[ImageMet(read, TRUE, is_ext_format)].size = canvas,
         NEW reader
  PROVE  ParseHeadersInternal(read, TRUE, is_ext_format, reader) =
           LET i == ImageMet(read, TRUE, is_ext_format)
               a == AlphaMet(read, TRUE, is_ext_format)
           IN [status |-> "ok", size |-> read[i].size, alpha_data |-> a,
               image |-> i,
               has_alpha |-> AlphaOfHeaders(is_ext_format, read[i], a),
               has_animation |-> FALSE]
<1>1. (is_ext_format /\ is_animation) = FALSE
  OBVIOUS
<1> QED BY <1>1, Zenon DEF ParseHeadersInternal, ImageMet, AlphaMet

(* The decoder of a page meets the size and the alpha of its frame.          *)
PageAgrees(f, page) ==
  /\ page.status = "ok" /\ page.size = f.size /\ page.has_alpha = f.has_alpha
  /\ page.alpha_data # 0 <=> f.alpha # 0

LEMMA RecordAgrees ==
  ASSUME NEW f, NEW i, NEW a, a # 0 <=> f.alpha # 0
  PROVE  PageAgrees(f, [status |-> "ok", size |-> f.size, alpha_data |-> a,
                        image |-> i, has_alpha |-> f.has_alpha,
                        has_animation |-> FALSE])
BY DEF PageAgrees

LEMMA NotEmpty == ASSUME NEW S, NEW s \in Seq(S), Len(s) # 0 PROVE s # <<>>
OBVIOUS

LEMMA PageHeaders ==
  ASSUME NEW f \in Frame, read \in Seq(Chunk), PartsOK(f, read),
         AlphaShown(f, read), f.image # 0, f.alpha <= f.image
  PROVE  PageAgrees(f, WebPParseHeaders(GetFramePayload(f), FALSE, FALSE))
<1> DEFINE d == GetFramePayload(f)
<1>1. /\ read[f.image].kind \in ImageKinds /\ read[f.image].size = f.size
      /\ f.size # Broken
      /\ read[f.image].kind = "VP8" => read[f.image].alpha = 0
  BY KeptImage
<1>2. /\ d \in Seq(Chunk)
      /\ f.alpha = 0 => Len(d) = 1 /\ d[1] = read[f.image]
      /\ f.alpha # 0 => Len(d) = 2 /\ d[2] = read[f.image] /\ d[1].kind = "ALPH"
  BY PagePayload, Zenon
<1> HIDE DEF d
<1>3. WebPParseHeaders(d, FALSE, FALSE)
        = ParseHeadersInternal(d, FALSE, FALSE, "ParseHeaders")
  BY DEF WebPParseHeaders
<1>4. 1 # 0 /\ 2 # 0
  OBVIOUS
<1>5. ASSUME f.alpha = 0
      PROVE  PageAgrees(f, ParseHeadersInternal(d, FALSE, FALSE, "ParseHeaders"))
  <2>1. d[1] = read[f.image]
    BY <1>2, <1>5, Zenon
  <2>2. ~HasOptionalChunks(d, FALSE, FALSE)
    BY <1>1, <2>1 DEF HasOptionalChunks, ImageKinds
  <2>3. ImageMet(d, FALSE, FALSE) = 1 /\ AlphaMet(d, FALSE, FALSE) = 0
    BY <2>2 DEF ImageMet, AlphaMet
  <2>4. /\ ImageMet(d, FALSE, FALSE) # 0 /\ d[1].kind \in ImageKinds
        /\ d[1].size # Broken
    BY <1>1, <1>4, <2>1, <2>3, Zenon
  <2>5. ParseHeadersInternal(d, FALSE, FALSE, "ParseHeaders")
          = [status |-> "ok", size |-> d[1].size, alpha_data |-> 0,
             image |-> 1, has_alpha |-> AlphaOfHeaders(FALSE, d[1], 0),
             has_animation |-> FALSE]
    BY <2>3, <2>4, HeadersOfPage
  <2>6. f.has_alpha = read[f.image].alpha
    BY <1>5 DEF AlphaShown
  <2>7. AlphaOfHeaders(FALSE, d[1], 0) = f.has_alpha
    BY <1>1, <2>1, <2>6 DEF AlphaOfHeaders, ImageKinds
  <2>8. ParseHeadersInternal(d, FALSE, FALSE, "ParseHeaders")
          = [status |-> "ok", size |-> f.size, alpha_data |-> 0, image |-> 1,
             has_alpha |-> f.has_alpha, has_animation |-> FALSE]
    BY <1>1, <2>1, <2>5, <2>7, Zenon
  <2>9. 0 # 0 <=> f.alpha # 0
    BY <1>5
  <2> QED BY <2>8, <2>9, RecordAgrees, Zenon
<1>6. ASSUME f.alpha # 0
      PROVE  PageAgrees(f, ParseHeadersInternal(d, FALSE, FALSE, "ParseHeaders"))
  <2>1. Len(d) = 2 /\ d[2] = read[f.image] /\ d[1].kind = "ALPH"
    BY <1>2, <1>6, Zenon
  <2>2. HasOptionalChunks(d, FALSE, FALSE)
    <3>1. d # <<>>
      BY <1>2, <1>4, <2>1, NotEmpty, Zenon
    <3> QED BY <2>1, <3>1 DEF HasOptionalChunks
  <2>3. FirstImage(d) = 2
    <3>1. {p \in DOMAIN d : d[p].kind \in ImageKinds} = {2}
      BY <1>1, <1>2, <2>1 DEF ImageKinds
    <3>2. {2} \in SUBSET Nat /\ 2 \in {2} /\ \A y \in {2} : 2 <= y
      OBVIOUS
    <3>3. Min({2}) = 2
      BY <3>2, MinIs
    <3> QED BY <3>1, <3>3 DEF FirstImage
  <2>4. AlphaBefore(d, 2) = 1
    <3>1. {p \in 1..2 - 1 : d[p].kind = "ALPH"} = {1}
      BY <2>1
    <3>2. {1} \in SUBSET Nat /\ 1 \in {1} /\ \A y \in {1} : 1 >= y
      OBVIOUS
    <3>3. Max({1}) = 1
      BY <3>2, MaxIs
    <3> QED BY <3>1, <3>3 DEF AlphaBefore
  <2>5. ImageMet(d, FALSE, FALSE) = 2 /\ AlphaMet(d, FALSE, FALSE) = 1
    BY <2>2, <2>3, <2>4 DEF ImageMet, AlphaMet
  <2>6. /\ ImageMet(d, FALSE, FALSE) # 0 /\ d[2].kind \in ImageKinds
        /\ d[2].size # Broken
    BY <1>1, <1>4, <2>1, <2>5, Zenon
  <2>7. ParseHeadersInternal(d, FALSE, FALSE, "ParseHeaders")
          = [status |-> "ok", size |-> d[2].size, alpha_data |-> 1,
             image |-> 2, has_alpha |-> AlphaOfHeaders(FALSE, d[2], 1),
             has_animation |-> FALSE]
    BY <2>5, <2>6, HeadersOfPage
  <2>8. f.has_alpha = 1 /\ AlphaOfHeaders(FALSE, d[2], 1) = 1
    BY <1>6 DEF AlphaShown, AlphaOfHeaders
  <2>9. ParseHeadersInternal(d, FALSE, FALSE, "ParseHeaders")
          = [status |-> "ok", size |-> f.size, alpha_data |-> 1, image |-> 2,
             has_alpha |-> f.has_alpha, has_animation |-> FALSE]
    BY <1>1, <2>1, <2>7, <2>8, Zenon
  <2>10. 1 # 0 <=> f.alpha # 0
    BY <1>6
  <2> QED BY <2>9, <2>10, RecordAgrees, Zenon
<1> QED BY <1>3, <1>5, <1>6 DEF d

(* The decoder of a still comes to the image that the demuxer has found, and *)
(* to no other alpha than its.                                               *)
LEMMA StillFrame ==
  ASSUME IInv, state = "ok", ~is_animation
  PROVE  /\ frames # <<>> /\ frames[1] \in Frame /\ PartsOK(frames[1], read)
         /\ frames[1].image # 0 /\ frames[1].alpha <= frames[1].image
         /\ frames[1].size = canvas /\ read \in Seq(Chunk)
         /\ frames[1].image \in Nat /\ frames[1].alpha \in Nat
<1>1. Len(frames) = 1 /\ frames \in Seq(Frame) /\ frames # <<>> /\ read \in Seq(Chunk)
  BY DEF IInv, TypeOK, Accepted
<1>2. frames[1] \in Frame /\ PartsOK(frames[1], read)
  BY <1>1 DEF IInv, Listed
<1>3. /\ frames[1].complete = 1 /\ frames[1].alpha <= frames[1].image
      /\ frames[1].size = canvas
  BY <1>1 DEF IInv, Accepted, CheckFrameBounds
<1>4. frames[1].image # 0
  BY <1>2, <1>3 DEF PartsOK
<1>5. frames[1].image \in Nat /\ frames[1].alpha \in Nat
  BY <1>2 DEF Frame
<1> QED BY <1>1, <1>2, <1>3, <1>4, <1>5

LEMMA StillMet ==
  ASSUME IInv, HeadersInv, state = "ok", ~is_animation
  PROVE  /\ ImageMet(read, TRUE, is_ext_format) = frames[1].image
         /\ frames[1].alpha \in {0, AlphaMet(read, TRUE, is_ext_format)}
<1> DEFINE f == frames[1]
<1>1. /\ frames # <<>> /\ f \in Frame /\ PartsOK(f, read) /\ f.image # 0
      /\ f.alpha <= f.image /\ read \in Seq(Chunk) /\ f.image \in Nat
      /\ f.alpha \in Nat
  BY StillFrame
<1>2. is_ext_format \in BOOLEAN
  BY DEF IInv, TypeOK
<1>3. /\ f.image \in 1..Len(read) /\ read[f.image].kind \in ImageKinds
      /\ f.alpha # 0 => /\ f.alpha = f.image - 1 /\ f.alpha \in 1..Len(read)
                        /\ read[f.alpha].kind = "ALPH"
  BY <1>1 DEF PartsOK
<1>4. NoImageBefore(f.image, read)
  BY <1>1 DEF HeadersInv, StillImage
<1> HIDE DEF f
<1>5. CASE ~is_ext_format
  <2>1. f.image = 1
    BY <1>5 DEF HeadersInv, SimpleImage, f
  <2>2. ~HasOptionalChunks(read, TRUE, is_ext_format)
    BY <1>5 DEF HasOptionalChunks
  <2>3. ImageMet(read, TRUE, is_ext_format) = 1
    BY <2>2 DEF ImageMet
  <2>4. f.alpha = 0
    BY <1>3, <2>1
  <2> QED BY <2>1, <2>3, <2>4 DEF f
<1>6. CASE is_ext_format
  <2>1. HasOptionalChunks(read, TRUE, is_ext_format)
    BY <1>6 DEF HasOptionalChunks
  <2>2. FirstImage(read) = f.image
    <3> DEFINE images == {p \in DOMAIN read : read[p].kind \in ImageKinds}
    <3>1. DOMAIN read = 1..Len(read) /\ Len(read) \in Nat
      BY <1>1
    <3>2. images \in SUBSET Nat /\ f.image \in images
      BY <1>3, <3>1
    <3>3. ASSUME NEW y \in images PROVE f.image <= y
      <4>1. y \in 1..Len(read) /\ read[y].kind \in ImageKinds
        BY <3>1
      <4>2. y \notin 1..f.image - 1
        BY <1>4, <4>1 DEF NoImageBefore
      <4> QED BY <1>1, <3>1, <4>1, <4>2
    <3>4. images # {} /\ FirstImage(read) = Min(images)
      BY <3>2 DEF FirstImage
    <3> HIDE DEF images
    <3> QED BY <3>2, <3>3, <3>4, MinIs
  <2>3. ImageMet(read, TRUE, is_ext_format) = f.image
    BY <2>1, <2>2 DEF ImageMet
  <2>4. ASSUME f.alpha # 0 PROVE AlphaBefore(read, f.image) = f.alpha
    <3> DEFINE alphas == {p \in 1..f.image - 1 : read[p].kind = "ALPH"}
    <3>1. /\ alphas \in SUBSET Nat /\ f.alpha \in alphas
          /\ \A y \in alphas : f.alpha >= y
      BY <1>1, <1>3, <2>4
    <3>2. alphas # {} /\ AlphaBefore(read, f.image) = Max(alphas)
      BY <3>1 DEF AlphaBefore
    <3> HIDE DEF alphas
    <3> QED BY <3>1, <3>2, MaxIs
  <2>5. AlphaMet(read, TRUE, is_ext_format) = AlphaBefore(read, f.image)
    BY <2>1, <2>3 DEF AlphaMet
  <2> QED BY <2>3, <2>4, <2>5 DEF f
<1> QED BY <1>2, <1>5, <1>6

LEMMA StillHeaders ==
  ASSUME IInv, HeadersInv, state = "ok", ~is_animation, ~WrongVP8X(is_ext_format), NEW reader
  PROVE  ParseHeadersInternal(read, TRUE, is_ext_format, reader)
           = [status |-> "ok", size |-> canvas,
              alpha_data |-> AlphaMet(read, TRUE, is_ext_format),
              image |-> frames[1].image,
              has_alpha |-> AlphaOfHeaders(is_ext_format,
                read[frames[1].image], AlphaMet(read, TRUE, is_ext_format)),
              has_animation |-> FALSE]
<1>1. ImageMet(read, TRUE, is_ext_format) = frames[1].image
  BY StillMet
<1>2. /\ frames[1].image # 0 /\ read[frames[1].image].kind \in ImageKinds
      /\ read[frames[1].image].size # Broken
      /\ read[frames[1].image].size = canvas
  BY StillFrame, KeptImage
<1>3. is_ext_format \in BOOLEAN
  BY DEF IInv, TypeOK
<1>4. ParseHeadersInternal(read, TRUE, is_ext_format, reader) =
           LET i == ImageMet(read, TRUE, is_ext_format)
               a == AlphaMet(read, TRUE, is_ext_format)
           IN [status |-> "ok", size |-> read[i].size, alpha_data |-> a,
               image |-> i,
               has_alpha |-> AlphaOfHeaders(is_ext_format, read[i], a),
               has_animation |-> FALSE]
  BY <1>1, <1>2, <1>3, HeadersOfStill, Zenon
<1> QED BY <1>1, <1>2, <1>4, Zenon

LEMMA FieldsOf ==
  ASSUME NEW r, NEW s, NEW a, NEW i, NEW h,
         r = [status |-> "ok", size |-> s, alpha_data |-> a, image |-> i,
              has_alpha |-> h, has_animation |-> FALSE]
  PROVE  /\ r.status = "ok" /\ r.size = s /\ r.alpha_data = a /\ r.image = i
         /\ r.has_alpha = h /\ r.has_animation = FALSE
OBVIOUS

(* A VP8X chunk that is too long ends the reading of either kind of headers. *)
LEMMA LongHeaders ==
  ASSUME IInv, WrongVP8X(is_ext_format), NEW reader
  PROVE  /\ ParseHeadersInternal(read, TRUE, is_ext_format, reader).status
              = "bitstream error"
         /\ WebPParseHeaders(read, TRUE, is_ext_format).status
              = "bitstream error"
<1>1. Fails("bitstream error").status = "bitstream error"
  BY DEF Fails
<1>2. \A r : ParseHeadersInternal(read, TRUE, is_ext_format, r)
               = Fails("bitstream error")
  BY Zenon DEF ParseHeadersInternal
<1>3. WebPParseHeaders(read, TRUE, is_ext_format)
        = ParseHeadersInternal(read, TRUE, is_ext_format, "ParseHeaders")
  BY <1>1, <1>2, Zenon DEF WebPParseHeaders
<1> QED BY <1>1, <1>2, <1>3, Zenon

(* The demuxer and the decoders take every accepted file for the same, but   *)
(* those with too long a VP8X chunk, which the decoders refuse.              *)
THEOREM ParsersAgree == Spec => []FrontEndAgrees
<1>1. ASSUME IInv, HeadersInv, state = "ok", ~is_animation, ~WrongVP8X(is_ext_format)
      PROVE  LET features == ParseHeadersInternal(read, TRUE, is_ext_format, "GetFeatures")
                 still == WebPParseHeaders(read, TRUE, is_ext_format)
             IN /\ features.status = "ok" /\ features.size = canvas
                /\ features.has_animation = FALSE
                /\ still.status = "ok" /\ still.size = canvas
                /\ still.image = frames[1].image
                /\ still.alpha_data # 0 => features.has_alpha = 1
                /\ frames[1].alpha \in {0, still.alpha_data}
  <2> DEFINE features == ParseHeadersInternal(read, TRUE, is_ext_format, "GetFeatures")
             still == WebPParseHeaders(read, TRUE, is_ext_format)
             a == AlphaMet(read, TRUE, is_ext_format)
  <2>1. still = ParseHeadersInternal(read, TRUE, is_ext_format, "ParseHeaders")
    BY <1>1 DEF WebPParseHeaders
  <2>2. /\ still.status = "ok" /\ still.size = canvas
        /\ still.image = frames[1].image /\ still.alpha_data = a
    <3>1. still
            = [status |-> "ok", size |-> canvas, alpha_data |-> a,
               image |-> frames[1].image,
               has_alpha |-> AlphaOfHeaders(is_ext_format, read[frames[1].image], a),
               has_animation |-> FALSE]
      BY <1>1, <2>1, StillHeaders
    <3> HIDE DEF still, a
    <3> QED BY <3>1, FieldsOf, Zenon
  <2>3. /\ features.status = "ok" /\ features.size = canvas
        /\ features.has_animation = FALSE
        /\ features.has_alpha
             = AlphaOfHeaders(is_ext_format, read[frames[1].image], a)
    <3>1. features
            = [status |-> "ok", size |-> canvas, alpha_data |-> a,
               image |-> frames[1].image,
               has_alpha |-> AlphaOfHeaders(is_ext_format, read[frames[1].image], a),
               has_animation |-> FALSE]
      BY <1>1, StillHeaders
    <3> HIDE DEF features, a
    <3> QED BY <3>1, FieldsOf, Zenon
  <2>4. frames[1].alpha \in {0, a}
    BY <1>1, StillMet
  <2>5. a # 0 => features.has_alpha = 1
    BY <2>3 DEF AlphaOfHeaders
  <2> HIDE DEF features, still, a
  <2> QED BY <2>2, <2>3, <2>4, <2>5 DEF features, still
<1>2. ASSUME IInv, HeadersInv, state = "ok", is_animation, ~WrongVP8X(is_ext_format)
      PROVE  LET features == ParseHeadersInternal(read, TRUE, is_ext_format, "GetFeatures")
             IN /\ features.status = "ok" /\ features.size = canvas
                /\ features.has_animation = is_animation
  <2>1. (is_ext_format /\ is_animation) = TRUE
    BY <1>2 DEF IInv, Simple, TypeOK
  <2>2. ParseHeadersInternal(read, TRUE, is_ext_format, "GetFeatures")
          = [Fails("ok") EXCEPT !.size = canvas, !.has_animation = is_animation,
                                !.has_alpha = IF alpha_flag THEN 1 ELSE 0]
    BY <1>2, <2>1, Zenon DEF ParseHeadersInternal
  <2> QED BY <2>2 DEF Fails
<1>3. ASSUME IInv, HeadersInv, state = "ok", is_animation,
             NEW k \in DOMAIN frames
      PROVE  PageAgrees(frames[k],
                WebPParseHeaders(GetFramePayload(frames[k]), FALSE, FALSE))
  <2>1. frames[k] \in Frame /\ k \in 1..Len(frames) /\ read \in Seq(Chunk)
    BY <1>3 DEF IInv, TypeOK
  <2>2. /\ PartsOK(frames[k], read) /\ AlphaShown(frames[k], read)
        /\ frames[k].complete = 1 /\ frames[k].alpha <= frames[k].image
    BY <1>3, <2>1 DEF IInv, Listed, Accepted, HeadersInv, AlphasShown
  <2>3. frames[k].image # 0
    BY <2>2 DEF PartsOK
  <2> QED BY <2>1, <2>2, <2>3, PageHeaders
<1>4. IInv /\ HeadersInv => FrontEndAgrees
  <2> SUFFICES ASSUME IInv, HeadersInv, state = "ok" PROVE FrontEndAgrees
    BY DEF FrontEndAgrees
  <2>1. is_animation \in BOOLEAN
    BY DEF IInv, TypeOK
  <2> DEFINE features == ParseHeadersInternal(read, TRUE, is_ext_format, "GetFeatures")
             still == WebPParseHeaders(read, TRUE, is_ext_format)
  <2>2. /\ features.status = IF WrongVP8X(is_ext_format) THEN "bitstream error" ELSE "ok"
        /\ ~is_animation => still.status = features.status
        /\ ~WrongVP8X(is_ext_format) =>
             /\ features.size = canvas
             /\ features.has_animation = is_animation
        /\ ~WrongVP8X(is_ext_format) /\ ~is_animation =>
             /\ still.size = canvas /\ still.image = frames[1].image
             /\ still.alpha_data # 0 => features.has_alpha = 1
             /\ frames[1].alpha \in {0, still.alpha_data}
    <3>1. CASE WrongVP8X(is_ext_format)
      <4>1. /\ features.status = "bitstream error"
            /\ still.status = "bitstream error"
        BY <3>1, LongHeaders, Zenon
      <4> HIDE DEF features, still
      <4> QED BY <3>1, <4>1
    <3>2. CASE ~WrongVP8X(is_ext_format) /\ ~is_animation
      <4>1. is_animation = FALSE
        BY <2>1, <3>2
      <4>2. /\ features.status = "ok" /\ features.size = canvas
            /\ features.has_animation = FALSE
            /\ still.status = "ok" /\ still.size = canvas
            /\ still.image = frames[1].image
            /\ still.alpha_data # 0 => features.has_alpha = 1
            /\ frames[1].alpha \in {0, still.alpha_data}
        BY <1>1, <3>2, Zenon
      <4> HIDE DEF features, still
      <4> QED BY <3>2, <4>1, <4>2
    <3>3. CASE ~WrongVP8X(is_ext_format) /\ is_animation
      <4>1. /\ features.status = "ok" /\ features.size = canvas
            /\ features.has_animation = is_animation
        BY <1>2, <3>3, Zenon
      <4> HIDE DEF features, still
      <4> QED BY <3>3, <4>1
    <3> QED BY <3>1, <3>2, <3>3
  <2>3. is_animation => \A k \in DOMAIN frames :
          PageAgrees(frames[k],
             WebPParseHeaders(GetFramePayload(frames[k]), FALSE, FALSE))
    BY <1>3
  <2> QED BY <2>2, <2>3, Zenon DEF FrontEndAgrees, File, PageAgrees
<1> QED BY <1>4, HeadersAlways, PTL
=============================================================================
