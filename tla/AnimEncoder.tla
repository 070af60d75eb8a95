---------------------------- MODULE AnimEncoder ----------------------------
(* WebPAnimEncoder: libwebp's src/mux/anim_encode.c.  The caller adds whole *)
(* canvases with their timestamps; the encoder turns each into a rectangle  *)
(* over the one before, or leaves it out when nothing changes, and keeps    *)
(* the last frames back, because the next one decides how they are disposed *)
(* of, and because it has yet to choose which of them is to be the          *)
(* key-frame.  A canvas is one row of pixels; a pixel is a colour.  The     *)
(* size of an encoded frame is a choice, and so is who wins by it.          *)
EXTENDS Integers, Sequences, FiniteSets

CONSTANTS W,               \* width of the canvas
          Opaque,          \* colours with the alpha 255
          Translucent,     \* colours with an alpha between
          Clear,           \* TRANSPARENT_COLOR
          SimilarColours,  \* pairs a lossy encoder may take for the same
          MaxDuration,     \* MAX_DURATION
          Callers          \* what the encoder is created with and given

Pixels == 0..W - 1
Colours == Opaque \union Translucent \union {Clear}
Canvas == [Pixels -> Colours]
Blank == [p \in Pixels |-> Clear]
Methods == {"lossless", "lossy"}

(* kmin and kmax may be any int; the caller has so many frames to add, and   *)
(* such steps from one to the next.                                          *)
CallerType ==
  [canvases: SUBSET Canvas, methods: SUBSET Methods, allow_mixed: BOOLEAN,
   minimize_size: BOOLEAN, kmin: Int, kmax: Int, frames: Nat,
   steps: SUBSET Int]

ASSUME EncoderAssumption ==
  W \in Nat \ {0} /\ MaxDuration \in Nat \ {0} /\ Callers \subseteq CallerType

(* The alpha of a colour is 255, 0 or between.                               *)
ASSUME ColoursAssumption ==
  Clear \notin Opaque \union Translucent /\ Opaque \intersect Translucent = {}

(* A FrameRectangle, and the pixels inside of it.                           *)
Rects == [x: Pixels, w: 0..W]
NoRect == [x |-> 0, w |-> 0]
OnePixel == [x |-> 0, w |-> 1]
Full == [x |-> 0, w |-> W]
Span(r) == {p \in Pixels : r.x <= p /\ p < r.x + r.w}

(* KEYFRAME_NONE and DELTA_INFINITY: the penalties of key-frames are 0..1.  *)
KeyframeNone == -1
DeltaInfinity == 2
Deltas == 0..1

VARIABLES caller,   \* who calls: the canvases it has, its options
          enc,      \* the encoder
          out,      \* what was pushed to the muxer, as a player sees it
          seen,     \* the canvas taken last, even if its call failed
          ret       \* what the last call returned

vars == <<caller, enc, out, seen, ret>>

-----------------------------------------------------------------------------
\* Options.

(* SanitizeEncoderOptions: 99 stands for INT_MAX.                           *)
Disabled == [kmin |-> 98, kmax |-> 99]
MaxCachedFrames == 30

KminFor(kmin, kmax) ==
  LET limit == kmax \div 2 + 1
  IN IF kmin >= kmax THEN kmax - 1
     ELSE IF kmin < limit /\ limit < kmax THEN limit ELSE kmin

Sanitized(kmin, kmax, minimize) ==
  IF kmax = 1 /\ ~minimize THEN [kmin |-> 0, kmax |-> 0]
  ELSE IF kmax <= 0 \/ minimize THEN Disabled
  ELSE LET k == KminFor(kmin, kmax)
       IN [kmin |-> IF kmax - k > MaxCachedFrames THEN kmax - MaxCachedFrames
                    ELSE k,
           kmax |-> kmax]

Options(c) == Sanitized(c.kmin, c.kmax, c.minimize_size)

CacheSize(o) == IF o.kmax - o.kmin + 1 < 2 THEN 2 ELSE o.kmax - o.kmin + 1

-----------------------------------------------------------------------------
\* Rectangles and pixels.

PixelsAreSimilar(a, b) == a = b \/ <<a, b>> \in SimilarColours

Same(method, a, b) == IF method = "lossless" THEN a = b ELSE PixelsAreSimilar(a, b)

Bounding(ps) ==
  IF ps = {} THEN NoRect
  ELSE LET first == CHOOSE p \in ps : \A q \in ps : p <= q
           last == CHOOSE p \in ps : \A q \in ps : q <= p
       IN [x |-> first, w |-> last - first + 1]

MinimizeChangeRectangle(method, prev, cur, rect) ==
  Bounding({p \in Span(rect) : ~Same(method, prev[p], cur[p])})

SnapToEvenOffsets(r) == [x |-> r.x - (r.x % 2), w |-> r.w + (r.x % 2)]

GetSubRect(method, prev, cur, seed, optimize, empty_rect_allowed) ==
  LET r == IF optimize THEN MinimizeChangeRectangle(method, prev, cur, seed)
           ELSE seed
  IN IF r.w > 0 THEN SnapToEvenOffsets(r)
     ELSE IF empty_rect_allowed THEN NoRect ELSE OnePixel

(* The lossy rectangle is sought inside of the lossless one.                *)
GetSubRects(prev, cur, optimize, empty_rect_allowed) ==
  LET ll == GetSubRect("lossless", prev, cur, Full, optimize, empty_rect_allowed)
  IN [lossless |-> ll,
      lossy |-> GetSubRect("lossy", prev, cur, ll, optimize, empty_rect_allowed)]

DisposeFrameRectangle(rect, canvas) ==
  [p \in Pixels |-> IF p \in Span(rect) THEN Clear ELSE canvas[p]]

(* IsLosslessBlendingPossible, IsLossyBlendingPossible.                     *)
IsBlendingPossible(method, prev, cur, rect) ==
  \A p \in Span(rect) : cur[p] \in Opaque \/ Same(method, prev[p], cur[p])

(* Over a frame that is blended, IncreaseTransparency takes out each pixel  *)
(* that stays; FlattenSimilarBlocks takes out blocks of them, when all of a *)
(* block is opaque: a block is a pixel here, or none when it juts out.      *)
Encodings(method, prev, cur, rect, blend) ==
  IF ~blend THEN {cur}
  ELSE LET stay == {p \in Span(rect) : Same(method, prev[p], cur[p])}
           Without(ps) == [p \in Pixels |-> IF p \in ps THEN Clear ELSE cur[p]]
       IN IF method = "lossless" THEN {Without(stay)}
          ELSE {Without(ps) : ps \in SUBSET {p \in stay : prev[p] \in Opaque}}

-----------------------------------------------------------------------------
\* What a player makes of a frame.

Frame(rect, blend, pixels) ==
  [rect |-> rect, blend |-> blend, pixels |-> pixels, dispose |-> "none"]

NoFrame == Frame(NoRect, FALSE, Blank)

(* A translucent colour over another colour gives neither of them.          *)
Mixed == "mixed"

Over(src, dst) ==
  IF src = Clear THEN dst
  ELSE IF src \in Opaque \/ dst = Clear THEN src ELSE Mixed

(* What is shown when f is drawn, the last frame having left the screen o.  *)
Drawn(o, f) ==
  LET under == IF o.frame.dispose = "background"
               THEN DisposeFrameRectangle(o.frame.rect, o.canvas) ELSE o.canvas
  IN [p \in Pixels |->
        IF p \notin Span(f.rect) THEN under[p]
        ELSE IF f.blend THEN Over(f.pixels[p], under[p]) ELSE f.pixels[p]]

Chosen(entry) == IF entry.is_key_frame THEN entry.key_frame ELSE entry.sub_frame

(* A pause too long for a frame is given to a transparent pixel that is     *)
(* added behind it.                                                         *)
PauseFrame == Frame(OnePixel, TRUE, Blank)

Play(o, entry) ==
  [canvas |-> Drawn(o, Chosen(entry)), frame |-> Chosen(entry),
   input |-> entry.input, time |-> o.time + entry.duration,
   out_frame_count |-> o.out_frame_count + 1,
   since_key |-> IF entry.is_key_frame THEN 0
                 ELSE IF entry.is_pause THEN o.since_key ELSE o.since_key + 1]

(* The screens that playing the frames es gives, one after another.         *)
Screens(o, es) ==
  LET screen[i \in 0..Len(es)] == IF i = 0 THEN o ELSE Play(screen[i - 1], es[i])
  IN screen

NothingShown == [canvas |-> Blank, frame |-> NoFrame, input |-> Blank,
                 time |-> 0, out_frame_count |-> 0, since_key |-> 0]

-----------------------------------------------------------------------------
\* The cache of frames: frames[1] is encoded_frames[start].

(* WebPAnimEncoderNewInternal.                                              *)
NewEncoder ==
  [prev_rect |-> NoRect, prev_canvas |-> Blank, frames |-> <<>>, start |-> 0,
   flush_count |-> 0, best_delta |-> DeltaInfinity, keyframe |-> KeyframeNone,
   count_since_key_frame |-> 0, prev_timestamp |-> 0,
   prev_candidate_undecided |-> FALSE, is_first_frame |-> TRUE,
   got_null_frame |-> FALSE, in_frame_count |-> 0]

State(e, o) == [enc |-> e, out |-> o]

(* The first n rounds of the loop of FlushFrames.                           *)
Pushed(s, n) ==
  State([s.enc EXCEPT !.frames = SubSeq(@, n + 1, Len(@)),
                      !.start = @ + n, !.flush_count = @ - n,
                      !.keyframe = IF @ < n THEN KeyframeNone ELSE @ - n],
        Screens(s.out, s.enc.frames)[n])

\* The slip of leaving the last frame where it is.
FlushInPlace(s) == Pushed(s, s.enc.flush_count)

FlushFrames(s) ==
  LET f == Pushed(s, s.enc.flush_count)
  IN IF Len(f.enc.frames) = 1 THEN [f EXCEPT !.enc.start = 0] ELSE f

Pause(duration, last) ==
  [sub_frame |-> PauseFrame, key_frame |-> NoFrame, is_key_frame |-> FALSE,
   is_pause |-> TRUE, duration |-> duration, input |-> last.input]

\* The slip of giving the whole sum to the pause.
IncreaseByAll(e, duration) ==
  LET count == Len(e.frames)
      sum == e.frames[count].duration + duration
  IN IF sum < MaxDuration THEN [e EXCEPT !.frames[count].duration = sum]
     ELSE [e EXCEPT !.frames = Append(@, Pause(sum, @[count])),
                    !.count_since_key_frame = @ + 1, !.flush_count = count,
                    !.prev_candidate_undecided = FALSE,
                    !.prev_rect = OnePixel]

IncreasePreviousDuration(e, duration) ==
  LET count == Len(e.frames)
      sum == e.frames[count].duration + duration
  IN IF sum < MaxDuration THEN [e EXCEPT !.frames[count].duration = sum]
     ELSE [e EXCEPT !.frames = Append(@, Pause(duration, @[count])),
                    !.count_since_key_frame = @ + 1, !.flush_count = count,
                    !.prev_candidate_undecided = FALSE,
                    !.prev_rect = OnePixel]

(* The beginning of WebPAnimEncoderAdd, up to the checks of the frame.      *)
Lengthened(t) ==
  State(IncreasePreviousDuration(enc, t - enc.prev_timestamp), out)

Started(t) ==
  IF enc.is_first_frame THEN State(enc, out)
  ELSE LET s == Lengthened(t)
       IN IF Len(s.enc.frames) = CacheSize(Options(caller)) THEN FlushFrames(s)
          ELSE s

-----------------------------------------------------------------------------
\* SetFrame: how a canvas may be encoded.

Considered(method) == IF caller.allow_mixed THEN Methods ELSE {method}

(* Nothing to encode: the frame before is shown for longer.                 *)
IsSkipped(e, method, cur) ==
  LET none == GetSubRects(e.prev_canvas, cur, TRUE, ~e.is_first_frame)
  IN \E m \in Considered(method) : none[m] = NoRect

\* The slip of disposing of a frame whose rectangle is not decided.
DisposalsAlwaysTried(e, method, none, background) ==
  IF caller.minimize_size THEN {"none", "background"}
  ELSE IF background[method].w < none[method].w THEN {"background"} ELSE {"none"}

(* What the frame before may be asked to leave, for a sub-frame.            *)
DisposalsTried(e, method, none, background) ==
  IF e.prev_candidate_undecided THEN {"none"}
  ELSE IF caller.minimize_size THEN {"none", "background"}
  ELSE IF background[method].w < none[method].w THEN {"background"} ELSE {"none"}

Candidate(rect, dispose, m, prev, cur, blend) ==
  {[frame |-> Frame(rect, blend, [p \in Pixels |-> IF p \in Span(rect) THEN c[p]
                                                  ELSE Clear]),
    dispose |-> dispose] : c \in Encodings(m, prev, cur, rect, blend)}

SubFrames(e, method, cur) ==
  LET disposed == DisposeFrameRectangle(e.prev_rect, e.prev_canvas)
      none == GetSubRects(e.prev_canvas, cur, TRUE, TRUE)
      background == GetSubRects(disposed, cur, TRUE, FALSE)
      Try(d, m) ==
        LET prev == IF d = "none" THEN e.prev_canvas ELSE disposed
            rect == IF d = "none" THEN none[m] ELSE background[m]
        IN Candidate(rect, d, m, prev, cur, IsBlendingPossible(m, prev, cur, rect))
  IN UNION {Try(d, m) : d \in DisposalsTried(e, method, none, background),
                        m \in Considered(method)}

(* A key-frame replaces all of the canvas; the first frame is one, over a   *)
(* canvas that is blank.                                                    *)
KeyFrames(e, method, cur) ==
  LET rects == GetSubRects(e.prev_canvas, cur, e.is_first_frame, FALSE)
  IN UNION {Candidate(rects[m], "none", m, e.prev_canvas, cur, FALSE) :
              m \in Considered(method)}

(* SetPreviousDisposeMethod.                                                *)
WithPreviousDispose(e, dispose) ==
  LET last == Len(e.frames)
  IN IF e.prev_candidate_undecided
     THEN [e EXCEPT !.frames[last].sub_frame.dispose = dispose,
                    !.frames[last].key_frame.dispose = dispose]
     ELSE IF e.frames[last].is_key_frame
     THEN [e EXCEPT !.frames[last].key_frame.dispose = dispose]
     ELSE [e EXCEPT !.frames[last].sub_frame.dispose = dispose]

-----------------------------------------------------------------------------
\* CacheFrame: what becomes of the encoder that has encoded the canvas cur.

Entry(sub, key, is_key, cur) ==
  [sub_frame |-> sub, key_frame |-> key, is_key_frame |-> is_key,
   is_pause |-> FALSE, duration |-> 0, input |-> cur]

Added(e, entry, rect) ==
  [e EXCEPT !.frames = Append(@, entry), !.prev_rect = rect,
            !.prev_canvas = entry.input, !.is_first_frame = FALSE,
            !.in_frame_count = @ + 1]

CachedFirst(e, method, cur) ==
  {[Added(e, Entry(NoFrame, k.frame, TRUE, cur), k.frame.rect)
      EXCEPT !.flush_count = 0, !.count_since_key_frame = 0,
             !.prev_candidate_undecided = FALSE] :
   k \in KeyFrames(e, method, cur)}

(* Too soon for a key-frame.                                                *)
CachedAsSubFrame(e, method, cur) ==
  {[Added(WithPreviousDispose(e, c.dispose),
          Entry(c.frame, NoFrame, FALSE, cur), c.frame.rect)
      EXCEPT !.flush_count = Len(e.frames),
             !.count_since_key_frame = @ + 1,
             !.prev_candidate_undecided = FALSE] :
   c \in SubFrames(e, method, cur)}

(* The frame costs less as a key-frame than those before it: it takes over. *)
PickedAsKey(e, position, delta) ==
  LET f == IF e.keyframe = KeyframeNone THEN e
           ELSE [e EXCEPT !.frames[e.keyframe + 1].is_key_frame = FALSE]
  IN [f EXCEPT !.frames[position + 1].is_key_frame = TRUE,
               !.prev_candidate_undecided = TRUE, !.keyframe = position,
               !.best_delta = delta, !.flush_count = position]

\* The slip of comparing with the key-frame of the last window.
WindowClosedOnly(e) ==
  IF e.count_since_key_frame < Options(caller).kmax THEN e
  ELSE [e EXCEPT !.flush_count = Len(e.frames) - 1, !.count_since_key_frame = 0,
                 !.keyframe = KeyframeNone]

(* The last chance of a key-frame has passed.                               *)
WindowClosed(e) ==
  IF e.count_since_key_frame < Options(caller).kmax THEN e
  ELSE [e EXCEPT !.flush_count = Len(e.frames) - 1, !.count_since_key_frame = 0,
                 !.keyframe = KeyframeNone, !.best_delta = DeltaInfinity]

(* The frame c that could as well be the key-frame k: it is delta that says. *)
InBothForms(e, c, k, cur) ==
  [Added(WithPreviousDispose(e, c.dispose), Entry(c.frame, k.frame, FALSE, cur),
         c.frame.rect) EXCEPT !.count_since_key_frame = @ + 1]

Compared(e, c, k, delta, cur) ==
  IF delta <= e.best_delta
  THEN [PickedAsKey(InBothForms(e, c, k, cur), Len(e.frames), delta)
          EXCEPT !.prev_rect = k.frame.rect]
  ELSE [InBothForms(e, c, k, cur) EXCEPT !.prev_candidate_undecided = FALSE]

CachedAsEither(e, method, cur) ==
  {WindowClosed(Compared(e, c, k, delta, cur)) :
     c \in SubFrames(e, method, cur), k \in KeyFrames(e, method, cur),
     delta \in Deltas}

MayBeKey(e) == e.count_since_key_frame + 1 > Options(caller).kmin

Cached(e, method, cur) ==
  IF e.is_first_frame THEN CachedFirst(e, method, cur)
  ELSE IF MayBeKey(e) THEN CachedAsEither(e, method, cur)
  ELSE CachedAsSubFrame(e, method, cur)

Skipped(e) == [e EXCEPT !.in_frame_count = @ + 1]

Accepted(e, method, cur) ==
  IF ~e.is_first_frame /\ IsSkipped(e, method, cur) THEN {Skipped(e)}
  ELSE Cached(e, method, cur)

(* WebPEncode fails: at once, or at the key-frame, when the sub-frame has   *)
(* left its traces already.                                                 *)
EncodingFailed(e, method, cur) ==
  {e} \union
  IF e.is_first_frame \/ ~MayBeKey(e) \/ IsSkipped(e, method, cur) THEN {}
  ELSE {[WithPreviousDispose(e, c.dispose) EXCEPT !.prev_rect = c.frame.rect] :
          c \in SubFrames(e, method, cur)}

-----------------------------------------------------------------------------
\* The calls.

Init == /\ caller \in Callers
        /\ enc = NewEncoder /\ out = NothingShown /\ seen = Blank
        /\ ret = "none"

Return(s, r) == enc' = s.enc /\ out' = s.out /\ ret' = r /\ UNCHANGED caller

(* mux.h: the call with NULL is the last before the assembly, and nothing   *)
(* is added once frames have been assembled.  A caller gives up when a call *)
(* fails, as examples/img2webp.c:314 does.                                  *)
MayCall == ret \in {"none", "ok"}

MayAdd == MayCall /\ ~enc.got_null_frame /\ enc.in_frame_count < caller.frames

Times == IF enc.is_first_frame THEN {0}
         ELSE {enc.prev_timestamp + d : d \in caller.steps}

Timely(t) == t - enc.prev_timestamp \in 0..MaxDuration - 1

Add(cur, method, t) ==
  /\ MayAdd /\ Timely(t)
  /\ LET s == Started(t)
     IN \E e \in Accepted(s.enc, method, cur) :
          LET f == FlushFrames(State(e, s.out))
          IN Return([f EXCEPT !.enc.prev_timestamp = t], "ok")
  /\ seen' = cur

AddFails(cur, method, t) ==
  /\ MayAdd /\ Timely(t)
  /\ LET s == Started(t)
     IN \E e \in EncodingFailed(s.enc, method, cur) :
          Return(State(e, s.out), "error")
  /\ UNCHANGED seen

(* The muxer takes n of the frames that are due, and then fails.            *)
AddIsNotMuxed(cur, method, t) ==
  /\ MayAdd /\ Timely(t)
  /\ LET s == Started(t)
     IN \E e \in Accepted(s.enc, method, cur) : \E n \in 0..e.flush_count - 1 :
          Return(Pushed(State(e, s.out), n), "error")
  /\ seen' = cur

PauseIsNotMuxed(t) ==
  /\ MayAdd /\ Timely(t) /\ ~enc.is_first_frame
  /\ LET s == Lengthened(t)
     IN /\ Len(s.enc.frames) = CacheSize(Options(caller))
        /\ \E n \in 0..s.enc.flush_count - 1 : Return(Pushed(s, n), "error")
  /\ UNCHANGED seen

(* A frame of another size, a config that is not valid: the duration of the *)
(* frame before has been increased by then.                                 *)
AddRefused(t) == MayAdd /\ Timely(t) /\ Return(Started(t), "error")
                 /\ UNCHANGED seen

(* Or there is no memory for the pixel of a pause.                          *)
AddTooLate(t) == MayAdd /\ ~enc.is_first_frame
                 /\ Return(State(enc, out), "error") /\ UNCHANGED seen

AddNull(t) ==
  /\ MayAdd /\ Timely(t)
  /\ LET s == Started(t)
     IN Return([s EXCEPT !.enc.got_null_frame = TRUE,
                         !.enc.prev_timestamp = t], "ok")
  /\ UNCHANGED seen

-----------------------------------------------------------------------------
\* WebPAnimEncoderAssemble.

AverageDuration == enc.prev_timestamp \div (enc.in_frame_count - 1)

(* All frames are due, the last one with a duration that is made up if the  *)
(* caller gave none.                                                        *)
Due ==
  LET e == IF ~enc.got_null_frame /\ enc.in_frame_count > 1 /\ enc.frames # <<>>
           THEN IncreasePreviousDuration(enc, AverageDuration) ELSE enc
  IN State([e EXCEPT !.flush_count = Len(e.frames)], out)

(* OptimizeSingleFrame: the frame is decoded on a blank canvas of its own,  *)
(* and the still made of it kept if it is smaller.                          *)
AsStill(o) ==
  [o EXCEPT !.canvas = [p \in Pixels |-> IF p \in Span(o.frame.rect)
                                         THEN o.frame.pixels[p] ELSE Clear]]

Assemble ==
  /\ MayCall /\ enc.in_frame_count > 0
  /\ LET f == FlushFrames(Due)
     IN \/ Return(f, "assembled")
        \/ /\ f.out.out_frame_count = 1
           /\ Return([f EXCEPT !.out = AsStill(@)], "assembled")
  /\ UNCHANGED seen

(* The muxer fails, at a frame or behind them all.                          *)
AssembleFails ==
  /\ MayCall /\ enc.in_frame_count > 0
  /\ \E n \in 0..Due.enc.flush_count : Return(Pushed(Due, n), "error")
  /\ UNCHANGED seen

(* The encoder is given up, and another one made.                           *)
Delete == /\ enc' = NewEncoder /\ out' = NothingShown /\ seen' = Blank
          /\ ret' = "none" /\ UNCHANGED caller

Next ==
  \/ \E t \in Times :
       \/ \E cur \in caller.canvases, method \in caller.methods :
            \/ Add(cur, method, t) \/ AddFails(cur, method, t)
            \/ AddIsNotMuxed(cur, method, t)
       \/ PauseIsNotMuxed(t) \/ AddRefused(t) \/ AddTooLate(t) \/ AddNull(t)
  \/ Assemble \/ AssembleFails \/ Delete

Spec == Init /\ [][Next]_vars

-----------------------------------------------------------------------------
(* The screens still to come, the first being the one shown.                *)
Coming == Screens(out, enc.frames)

FrameType == [rect: Rects, blend: BOOLEAN, pixels: Canvas,
              dispose: {"none", "background"}]

EntryType == [sub_frame: FrameType, key_frame: FrameType, is_key_frame: BOOLEAN,
              is_pause: BOOLEAN, duration: 0..MaxDuration - 1, input: Canvas]

Inside(f) == f.rect.x + f.rect.w <= W /\ f.rect.x % 2 = 0

(* Every field keeps its type, durations and rectangles what the container  *)
(* has room for: even offsets, inside of the canvas, fewer than 2^24 ms.    *)
TypeOK ==
  /\ caller \in Callers
  /\ enc.frames \in Seq(EntryType)
  /\ \A i \in DOMAIN enc.frames : /\ Inside(enc.frames[i].sub_frame)
                                 /\ Inside(enc.frames[i].key_frame)
  /\ enc.prev_rect \in Rects /\ enc.prev_canvas \in Canvas
  /\ enc.start \in Nat /\ enc.flush_count \in Nat
  /\ enc.best_delta \in Deltas \union {DeltaInfinity}
  /\ enc.keyframe \in Nat \union {KeyframeNone}
  /\ enc.count_since_key_frame \in Nat /\ enc.in_frame_count \in Nat
  /\ enc.prev_timestamp \in Nat /\ enc.is_first_frame \in BOOLEAN
  /\ enc.prev_candidate_undecided \in BOOLEAN /\ enc.got_null_frame \in BOOLEAN
  /\ out.canvas \in [Pixels -> Colours \union {Mixed}]
  /\ out.frame \in FrameType /\ Inside(out.frame)
  /\ out.time \in Nat /\ out.out_frame_count \in Nat
  /\ seen \in Canvas /\ ret \in {"none", "ok", "error", "assembled"}

(* The cache is used as an array of its size: no position lies behind it,   *)
(* what is due to be flushed is there, the frame that may have to give up   *)
(* being a key-frame is one and is still there (the asserts at              *)
(* anim_encode.c:323 and 1263).                                             *)
CacheInBounds ==
  /\ enc.start + Len(enc.frames) <= CacheSize(Options(caller))
  /\ enc.flush_count <= Len(enc.frames)
  /\ enc.keyframe # KeyframeNone =>
       /\ enc.keyframe < Len(enc.frames)
       /\ enc.frames[enc.keyframe + 1].is_key_frame

(* What the encoder keeps between calls is in its range: TypeOK for the      *)
(* fields, CacheInBounds for the positions of the cache.                     *)
StateIsSound == TypeOK /\ CacheInBounds

(* Every frame, played over those before it, shows the canvas it was made   *)
(* of, whichever of its two forms is taken in the end and whatever the      *)
(* frame before it is asked to leave; what was skipped looked the same.     *)
ShowsTheInput ==
  /\ \A i \in 0..Len(enc.frames) : \A p \in Pixels :
       PixelsAreSimilar(Coming[i].canvas[p], Coming[i].input[p])
  /\ \A p \in Pixels :
       PixelsAreSimilar(Coming[Len(enc.frames)].canvas[p], seen[p])

(* Callers of whom it is known for any number of canvases: those that use    *)
(* the lossless method only, and those that spare the lossy one two things,  *)
(* colours that drift from one canvas to the next, always similar to the     *)
(* last, and translucent ones, which it may draw over themselves.            *)
OnlyLossless(c) == c.methods \subseteq {"lossless"} /\ ~c.allow_mixed

SimilarityIsStable ==
  /\ SimilarColours \subseteq Opaque \X Opaque
  /\ \A a, b \in Opaque : <<a, b>> \in SimilarColours => <<b, a>> \in SimilarColours
  /\ \A a, b, d \in Opaque :
       <<a, b>> \in SimilarColours /\ <<b, d>> \in SimilarColours =>
         a = d \/ <<a, d>> \in SimilarColours

HasNoVeil(cur) == \A p \in Pixels : cur[p] \in Opaque \union {Clear}

IsSteady(c) ==
  OnlyLossless(c) \/ (SimilarityIsStable /\ \A cur \in c.canvases : HasNoVeil(cur))

CallersAreSteady == \A c \in Callers : IsSteady(c)

(* No time is lost or gained: the durations of the frames add up to the     *)
(* time of the last call (mux.h: a frame lasts until the next timestamp).   *)
DurationsAddUp ==
  ret \in {"none", "ok"} => Coming[Len(enc.frames)].time = enc.prev_timestamp

(* What the code keeps to: the key-frame of a window is anywhere in it, and *)
(* pauses do not count.                                                     *)
KeyFramesInReach ==
  LET o == Options(caller)
  IN out.since_key <= (IF o.kmax = 0 THEN 0 ELSE 2 * o.kmax - o.kmin - 2)
=============================================================================
