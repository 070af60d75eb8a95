------------------------- MODULE AnimEncoderProofs -------------------------
(* What the encoder of animations keeps, whatever is added to it, at what    *)
(* times and with which distances of key-frames, and whichever of its calls  *)
(* fail.                                                                     *)
EXTENDS AnimEncoder, WellFoundedInduction, TLAPS

-----------------------------------------------------------------------------
(* The encoder between two calls.  Kmax and Kmin are the distances that the  *)
(* options leave, Reach the end of the part of the cache in use.             *)
Kmax == Options(caller).kmax
Kmin == Options(caller).kmin
Size == CacheSize(Options(caller))
Reach(e) == e.start + Len(e.frames)

SoundFrame == {f \in FrameType : Inside(f)}
SoundEntry == [sub_frame: SoundFrame, key_frame: SoundFrame, is_key_frame: BOOLEAN,
               is_pause: BOOLEAN, duration: 0..MaxDuration - 1, input: Canvas]

EncType ==
  [prev_rect: Rects, prev_canvas: Canvas, frames: Seq(SoundEntry), start: Nat,
   flush_count: Nat, best_delta: Deltas \union {DeltaInfinity},
   keyframe: Nat \union {KeyframeNone}, count_since_key_frame: Nat,
   prev_timestamp: Nat, prev_candidate_undecided: BOOLEAN,
   is_first_frame: BOOLEAN, got_null_frame: BOOLEAN, in_frame_count: Nat]

OutType ==
  [canvas: [Pixels -> Colours \union {Mixed}], frame: SoundFrame, input: Canvas,
   time: Nat, out_frame_count: Nat, since_key: Nat]

KeyIsThere(e) ==
  e.keyframe # KeyframeNone =>
    e.keyframe < Len(e.frames) /\ e.frames[e.keyframe + 1].is_key_frame

InBounds(e) == Reach(e) <= Size /\ e.flush_count <= Len(e.frames) /\ KeyIsThere(e)

(* More than one frame is kept only while a window is open in which a        *)
(* key-frame was picked; the cache has grown no faster than the count since  *)
(* the window's first candidate.                                             *)
IsShort(e) == e.start = 0 /\ Len(e.frames) = 1
InWindow(e) == e.best_delta # DeltaInfinity => Reach(e) <= e.count_since_key_frame - Kmin

Window(e) ==
  /\ IsShort(e) \/ (e.best_delta # DeltaInfinity /\ e.count_since_key_frame < Kmax)
  /\ InWindow(e)

Untouched(e) ==
  /\ e.frames = <<>> /\ e.start = 0 /\ e.keyframe = KeyframeNone
  /\ e.best_delta = DeltaInfinity /\ e.count_since_key_frame = 0
  /\ e.in_frame_count = 0 /\ e.prev_timestamp = 0

Quiet(e) ==
  /\ e.flush_count = 0
  /\ e.is_first_frame => Untouched(e)
  /\ ~e.is_first_frame =>
       /\ e.frames # <<>> /\ e.in_frame_count > 0 /\ Window(e)
       /\ e.prev_timestamp <= (e.in_frame_count - 1) * (MaxDuration - 1)

IsQuiet == ret \in {"none", "ok"} /\ ~enc.got_null_frame

StateInv ==
  /\ caller \in Callers /\ enc \in EncType /\ out \in OutType
  /\ seen \in Canvas /\ ret \in {"none", "ok", "error", "assembled"}
  /\ InBounds(enc)
  /\ IsQuiet => Quiet(enc)

-----------------------------------------------------------------------------
(* Induction: a set of numbers that is not empty has a least one, because    *)
(* < is well-founded.  It is stated of sets, and so used with a set of those *)
(* numbers that have the property in question.                               *)
LEMMA Least ==
  ASSUME NEW T, T \subseteq Nat, T # {}
  PROVE  \E x \in T : \A y \in T : x <= y
<1> DEFINE Below == OpToRel(<, Nat)
<1>1. \A x, y \in Nat : <<x, y>> \in Below <=> x < y
  BY DEF OpToRel
<1>2. IsWellFoundedOn(Below, Nat)
  BY NatLessThanWellFounded, Zenon
<1> HIDE DEF Below
<1>3. PICK x \in T : \A y \in T : ~(<<y, x>> \in Below)
  BY <1>2, WFMin, Zenon
<1>4. ASSUME NEW y \in T PROVE x <= y
  <2>1. x \in Nat /\ y \in Nat /\ ~(<<y, x>> \in Below)
    BY <1>3
  <2>2. ~(y < x)
    BY <2>1, <1>1, Zenon
  <2> QED BY <2>1, <2>2
<1> QED BY <1>4

LEMMA SetInduction ==
  ASSUME NEW S, 0 \in S, \A n \in Nat : n \in S => n + 1 \in S
  PROVE  Nat \subseteq S
<1> SUFFICES ASSUME NEW n \in Nat, n \notin S PROVE FALSE
  OBVIOUS
<1>1. PICK x \in Nat \ S : \A y \in Nat \ S : x <= y
  BY Least
<1>2. x # 0 /\ x - 1 \in Nat /\ x - 1 \in S
  BY <1>1
<1> QED BY <1>2

-----------------------------------------------------------------------------
(* Options: SanitizeEncoderOptions leaves kmin below kmax.                   *)
LEMMA OptionsFit ==
  ASSUME caller \in Callers
  PROVE  /\ Kmax \in Nat /\ Kmin \in Int /\ Size \in Nat
         /\ (Kmax > 0 /\ Kmin < Kmax) \/ (Kmax = 0 /\ Kmin = 0)
         /\ Size >= 2 /\ Size >= Kmax - Kmin + 1
<1>1. caller.kmin \in Int /\ caller.kmax \in Int /\ caller.minimize_size \in BOOLEAN
  BY EncoderAssumption DEF CallerType
<1>2. ASSUME NEW k \in Int, NEW n \in Int, NEW m \in BOOLEAN
      PROVE  LET o == Sanitized(k, n, m)
             IN /\ o.kmax \in Nat /\ o.kmin \in Int
                /\ (o.kmax > 0 /\ o.kmin < o.kmax) \/ (o.kmax = 0 /\ o.kmin = 0)
  <2>1. CASE n = 1 /\ ~m
    BY <2>1 DEF Sanitized
  <2>2. CASE ~(n = 1 /\ ~m) /\ (n <= 0 \/ m)
    BY <2>2 DEF Sanitized, Disabled
  <2>3. CASE n > 1 /\ ~m
    <3>1. KminFor(k, n) \in Int /\ KminFor(k, n) < n
      BY <2>3 DEF KminFor
    <3> QED BY <2>3, <3>1 DEF Sanitized, MaxCachedFrames
  <2> QED BY <2>1, <2>2, <2>3
<1>3. /\ Kmax \in Nat /\ Kmin \in Int
      /\ (Kmax > 0 /\ Kmin < Kmax) \/ (Kmax = 0 /\ Kmin = 0)
  BY <1>1, <1>2 DEF Kmax, Kmin, Options
<1>4. Size = IF Kmax - Kmin + 1 < 2 THEN 2 ELSE Kmax - Kmin + 1
  BY DEF Size, CacheSize, Kmax, Kmin
<1> QED BY <1>3, <1>4

-----------------------------------------------------------------------------
(* Rectangles are inside of the canvas and begin at an even offset.          *)
SoundRect == {r \in Rects : r.x + r.w <= W /\ r.x % 2 = 0}

LEMMA FixedRects ==
  NoRect \in SoundRect /\ OnePixel \in SoundRect /\ Full \in SoundRect
BY EncoderAssumption DEF SoundRect, Rects, Pixels, NoRect, OnePixel, Full

(* The bounding rectangle holds what it is to bound.                         *)
LEMMA BoundingIsInside ==
  ASSUME NEW ps \in SUBSET Pixels
  PROVE  /\ Bounding(ps) \in Rects /\ Bounding(ps).x + Bounding(ps).w <= W
         /\ ps \subseteq Span(Bounding(ps))
<1>1. CASE ps = {}
  BY <1>1, EncoderAssumption DEF Bounding, NoRect, Rects, Pixels
<1>2. CASE ps # {}
  <2> DEFINE first == CHOOSE p \in ps : \A q \in ps : p <= q
             last == CHOOSE p \in ps : \A q \in ps : q <= p
  <2>1. \A p \in ps : p \in Nat /\ p <= W - 1
    BY EncoderAssumption DEF Pixels
  <2>2. first \in ps /\ \A q \in ps : first <= q
    BY <1>2, <2>1, Least
  <2>3. \E p \in ps : \A q \in ps : q <= p
    <3> DEFINE T == {W - 1 - p : p \in ps}
    <3>1. T \subseteq Nat /\ T # {}
      BY <1>2, <2>1, EncoderAssumption
    <3>2. PICK t \in T : \A u \in T : t <= u
      BY <3>1, Least
    <3>3. PICK p \in ps : t = W - 1 - p
      OBVIOUS
    <3>4. \A q \in ps : q <= p
      BY <2>1, <3>2, <3>3, EncoderAssumption
    <3> QED BY <3>4
  <2>4. last \in ps /\ \A q \in ps : q <= last
    BY <2>3
  <2>5. Bounding(ps) = [x |-> first, w |-> last - first + 1]
    BY <1>2 DEF Bounding
  <2> HIDE DEF first, last
  <2> QED
    BY <2>1, <2>2, <2>4, <2>5, EncoderAssumption DEF Rects, Pixels, Span
<1> QED BY <1>1, <1>2

LEMMA SnapIsSound ==
  ASSUME NEW r \in Rects, r.x + r.w <= W
  PROVE  /\ SnapToEvenOffsets(r) \in SoundRect
         /\ Span(r) \subseteq Span(SnapToEvenOffsets(r))
<1>1. r.x \in 0..W - 1 /\ r.w \in 0..W
  BY DEF Rects, Pixels
<1>2. /\ r.x % 2 \in 0..1 /\ r.x - (r.x % 2) \in 0..W - 1
      /\ (r.x - (r.x % 2)) % 2 = 0
  BY <1>1, EncoderAssumption
<1> QED
  BY <1>1, <1>2, EncoderAssumption DEF SnapToEvenOffsets, SoundRect, Rects, Pixels, Span

LEMMA SubRectIsSound ==
  ASSUME NEW method, NEW prev, NEW cur, NEW seed \in SoundRect,
         NEW optimize \in BOOLEAN, NEW empty \in BOOLEAN
  PROVE  GetSubRect(method, prev, cur, seed, optimize, empty) \in SoundRect
<1> DEFINE r == IF optimize THEN MinimizeChangeRectangle(method, prev, cur, seed)
                ELSE seed
<1>1. r \in Rects /\ r.x + r.w <= W
  <2>1. Span(seed) \subseteq Pixels
    BY DEF Span
  <2>2. {p \in Span(seed) : ~Same(method, prev[p], cur[p])} \in SUBSET Pixels
    BY <2>1
  <2>3. /\ MinimizeChangeRectangle(method, prev, cur, seed) \in Rects
        /\ LET b == MinimizeChangeRectangle(method, prev, cur, seed)
           IN b.x + b.w <= W
    BY <2>2, BoundingIsInside DEF MinimizeChangeRectangle
  <2> QED BY <2>3 DEF SoundRect
<1> HIDE DEF r
<1>2. SnapToEvenOffsets(r) \in SoundRect
  BY <1>1, SnapIsSound
<1> QED
  BY <1>2, FixedRects DEF GetSubRect, r

LEMMA SubRectsAreSound ==
  ASSUME NEW prev, NEW cur, NEW optimize \in BOOLEAN, NEW empty \in BOOLEAN,
         NEW m \in Methods
  PROVE  GetSubRects(prev, cur, optimize, empty)[m] \in SoundRect
<1> DEFINE ll == GetSubRect("lossless", prev, cur, Full, optimize, empty)
<1>1. ll \in SoundRect
  BY SubRectIsSound, FixedRects
<1> HIDE DEF ll
<1>2. GetSubRect("lossy", prev, cur, ll, optimize, empty) \in SoundRect
  BY <1>1, SubRectIsSound
<1> QED BY <1>1, <1>2 DEF GetSubRects, Methods, ll

-----------------------------------------------------------------------------
(* Frames, and what may be asked of the one before.                          *)
IsCandidate(c) == c.frame \in SoundFrame /\ c.dispose \in {"none", "background"}

LEMMA FixedFrames == NoFrame \in SoundFrame /\ PauseFrame \in SoundFrame
BY FixedRects DEF NoFrame, PauseFrame, Frame, SoundFrame, FrameType, Inside, Blank,
                  Canvas, Colours, SoundRect

LEMMA CandidateIsSound ==
  ASSUME NEW rect \in SoundRect, NEW dispose \in {"none", "background"},
         NEW m, NEW prev, NEW cur \in Canvas, NEW blend \in BOOLEAN,
         NEW c \in Candidate(rect, dispose, m, prev, cur, blend)
  PROVE  IsCandidate(c) /\ c.frame.rect = rect /\ c.dispose = dispose
<1>1. \A e \in Encodings(m, prev, cur, rect, blend) : e \in Canvas
  BY DEF Encodings, Canvas, Colours
<1>2. PICK e \in Canvas :
        c = [frame |-> Frame(rect, blend, [p \in Pixels |-> IF p \in Span(rect) THEN e[p]
                                                             ELSE Clear]),
             dispose |-> dispose]
  BY <1>1 DEF Candidate
<1>3. [p \in Pixels |-> IF p \in Span(rect) THEN e[p] ELSE Clear] \in Canvas
  BY DEF Canvas, Colours
<1> QED
  BY <1>2, <1>3 DEF IsCandidate, Frame, SoundFrame, FrameType, Inside, SoundRect

LEMMA ConsideredAreMethods ==
  ASSUME caller \in Callers, NEW method \in caller.methods
  PROVE  Considered(method) \subseteq Methods
BY EncoderAssumption DEF Considered, CallerType

LEMMA SubFramesAreSound ==
  ASSUME caller \in Callers, NEW e, NEW method \in caller.methods,
         NEW cur \in Canvas, NEW c \in SubFrames(e, method, cur)
  PROVE  IsCandidate(c)
<1> DEFINE disposed == DisposeFrameRectangle(e.prev_rect, e.prev_canvas)
           none == GetSubRects(e.prev_canvas, cur, TRUE, TRUE)
           background == GetSubRects(disposed, cur, TRUE, FALSE)
           Before(d) == IF d = "none" THEN e.prev_canvas ELSE disposed
           Changed(d, m) == IF d = "none" THEN none[m] ELSE background[m]
           Try(d, m) == Candidate(Changed(d, m), d, m, Before(d), cur,
                          IsBlendingPossible(m, Before(d), cur, Changed(d, m)))
           tried == DisposalsTried(e, method, none, background)
<1>1. PICK d \in tried, m \in Considered(method) : c \in Try(d, m)
  <2>1. SubFrames(e, method, cur) = UNION {Try(d, m) : d \in tried, m \in Considered(method)}
    BY DEF SubFrames
  <2> HIDE DEF Try, tried
  <2> QED BY <2>1
<1>2. d \in {"none", "background"}
  BY DEF DisposalsTried
<1>3. m \in Methods
  BY ConsideredAreMethods
<1>4. none[m] \in SoundRect /\ background[m] \in SoundRect
  BY <1>3, SubRectsAreSound
<1> HIDE DEF none, background
<1>5. Changed(d, m) \in SoundRect
  BY <1>4
<1>6. IsBlendingPossible(m, Before(d), cur, Changed(d, m)) \in BOOLEAN
  BY DEF IsBlendingPossible
<1> QED BY <1>1, <1>2, <1>5, <1>6, CandidateIsSound

LEMMA KeyFramesAreSound ==
  ASSUME caller \in Callers, NEW e, e.is_first_frame \in BOOLEAN,
         NEW method \in caller.methods,
         NEW cur \in Canvas, NEW k \in KeyFrames(e, method, cur)
  PROVE  IsCandidate(k)
<1> DEFINE rects == GetSubRects(e.prev_canvas, cur, e.is_first_frame, FALSE)
<1>1. PICK m \in Considered(method) :
        k \in Candidate(rects[m], "none", m, e.prev_canvas, cur, FALSE)
  BY DEF KeyFrames
<1>2. rects[m] \in SoundRect
  BY ConsideredAreMethods, SubRectsAreSound
<1> QED BY <1>1, <1>2, CandidateIsSound

LEMMA DisposedIsSound ==
  ASSUME NEW f \in SoundFrame, NEW d \in {"none", "background"}
  PROVE  [f EXCEPT !.dispose = d] \in SoundFrame
BY DEF SoundFrame, FrameType, Inside

(* The fields that count the frames stay as they are.                        *)
SameCounts(e, f) ==
  /\ f.start = e.start /\ f.flush_count = e.flush_count
  /\ f.best_delta = e.best_delta /\ f.keyframe = e.keyframe
  /\ f.count_since_key_frame = e.count_since_key_frame
  /\ f.prev_timestamp = e.prev_timestamp /\ f.is_first_frame = e.is_first_frame
  /\ f.got_null_frame = e.got_null_frame /\ f.in_frame_count = e.in_frame_count
  /\ Len(f.frames) = Len(e.frames)
  /\ \A i \in 1..Len(e.frames) : f.frames[i].is_key_frame = e.frames[i].is_key_frame

LEMMA PreviousDisposeIsSound ==
  ASSUME NEW e \in EncType, e.frames # <<>>, NEW d \in {"none", "background"}
  PROVE  LET f == WithPreviousDispose(e, d) IN f \in EncType /\ SameCounts(e, f)
<1> DEFINE last == Len(e.frames)
           x == e.frames[last]
           y == IF e.prev_candidate_undecided
                THEN [x EXCEPT !.sub_frame.dispose = d, !.key_frame.dispose = d]
                ELSE IF x.is_key_frame THEN [x EXCEPT !.key_frame.dispose = d]
                ELSE [x EXCEPT !.sub_frame.dispose = d]
           fs == [e.frames EXCEPT ![last] = y]
<1>1. e.frames \in Seq(SoundEntry) /\ last \in 1..Len(e.frames)
  BY DEF EncType
<1>2. x \in SoundEntry
  BY <1>1
<1>3. /\ [x.sub_frame EXCEPT !.dispose = d] \in SoundFrame
      /\ [x.key_frame EXCEPT !.dispose = d] \in SoundFrame
  BY <1>2, DisposedIsSound DEF SoundEntry
<1>4. y \in SoundEntry /\ y.is_key_frame = x.is_key_frame
  BY <1>2, <1>3 DEF SoundEntry
<1>5. WithPreviousDispose(e, d) = [e EXCEPT !.frames = fs]
  <2>1. CASE e.prev_candidate_undecided
    <3>1. y = [x EXCEPT !.sub_frame.dispose = d, !.key_frame.dispose = d]
      BY <2>1
    <3>2. fs = [e.frames EXCEPT ![last].sub_frame.dispose = d,
                                ![last].key_frame.dispose = d]
      BY <1>1, <1>2, <3>1 DEF SoundEntry
    <3> QED BY <2>1, <3>2 DEF WithPreviousDispose, EncType
  <2>2. CASE ~e.prev_candidate_undecided
    BY <2>2 DEF WithPreviousDispose
  <2> QED BY <2>1, <2>2
<1> HIDE DEF y
<1>6. /\ fs \in Seq(SoundEntry) /\ Len(fs) = last
      /\ \A i \in 1..last : fs[i].is_key_frame = e.frames[i].is_key_frame
  BY <1>1, <1>4
<1> HIDE DEF fs
<1> QED BY <1>5, <1>6 DEF EncType, SameCounts

-----------------------------------------------------------------------------
(* What a player has shown after each frame.                                 *)
LEMMA ScreensStep ==
  ASSUME NEW o, NEW es, Len(es) \in Nat
  PROVE  Screens(o, es) =
           [i \in 0..Len(es) |-> IF i = 0 THEN o ELSE Play(Screens(o, es)[i - 1], es[i])]
<1> DEFINE Shown(f, m) == f = [i \in 0..m |-> IF i = 0 THEN o ELSE Play(f[i - 1], es[i])]
           S == {m \in Nat : \E f : Shown(f, m)}
<1>1. 0 \in S
  <2>1. Shown([i \in 0..0 |-> o], 0)
    OBVIOUS
  <2> QED BY <2>1
<1>2. ASSUME NEW m \in Nat, m \in S PROVE m + 1 \in S
  <2>1. PICK f : Shown(f, m)
    BY <1>2
  <2> DEFINE g == [i \in 0..m + 1 |-> IF i <= m THEN f[i] ELSE Play(f[m], es[m + 1])]
  <2>2. \A i \in 0..m + 1 : g[i] = IF i = 0 THEN o ELSE Play(g[i - 1], es[i])
    BY <2>1
  <2>3. g = [i \in 0..m + 1 |-> IF i = 0 THEN o ELSE Play(g[i - 1], es[i])]
    BY <2>2
  <2> HIDE DEF g
  <2>4. Shown(g, m + 1)
    BY <2>3
  <2> HIDE DEF Shown
  <2> QED BY <2>4
<1>3. \E f : Shown(f, Len(es))
  <2> HIDE DEF S
  <2>1. Len(es) \in S
    BY <1>1, <1>2, SetInduction
  <2> QED BY <2>1 DEF S
<1>4. Screens(o, es) = CHOOSE f : Shown(f, Len(es))
  BY DEF Screens
<1> QED BY <1>3, <1>4

LEMMA ChosenIsSound ==
  ASSUME NEW x \in SoundEntry
  PROVE  Chosen(x) \in SoundFrame
BY DEF Chosen, SoundEntry

LEMMA PlayIsSound ==
  ASSUME NEW o \in OutType, NEW x \in SoundEntry
  PROVE  Play(o, x) \in OutType
<1> DEFINE f == Chosen(x)
<1>1. f \in SoundFrame
  BY ChosenIsSound
<1> HIDE DEF f
<1>2. Drawn(o, f) \in [Pixels -> Colours \union {Mixed}]
  <2>1. /\ o.canvas \in [Pixels -> Colours \union {Mixed}] /\ Clear \in Colours
        /\ f.pixels \in [Pixels -> Colours]
    BY <1>1 DEF OutType, SoundFrame, FrameType, Canvas, Colours
  <2>2. DisposeFrameRectangle(o.frame.rect, o.canvas) \in [Pixels -> Colours \union {Mixed}]
    BY <2>1 DEF DisposeFrameRectangle
  <2>3. \A a \in Colours, b \in Colours \union {Mixed} : Over(a, b) \in Colours \union {Mixed}
    BY DEF Over
  <2> QED BY <2>1, <2>2, <2>3 DEF Drawn
<1>3. x.input \in Canvas /\ x.duration \in Nat
  BY EncoderAssumption DEF SoundEntry
<1>4. x.is_pause \in BOOLEAN /\ x.is_key_frame \in BOOLEAN
  BY DEF SoundEntry
<1> QED BY <1>1, <1>2, <1>3, <1>4 DEF Play, OutType, f

LEMMA ScreensAreSound ==
  ASSUME NEW o \in OutType, NEW es \in Seq(SoundEntry)
  PROVE  Screens(o, es) \in [0..Len(es) -> OutType]
<1> DEFINE s == Screens(o, es)
           S == {i \in Nat : i <= Len(es) => s[i] \in OutType}
<1>1. s = [i \in 0..Len(es) |-> IF i = 0 THEN o ELSE Play(s[i - 1], es[i])]
  BY ScreensStep
<1> HIDE DEF s
<1>2. 0 \in S
  BY <1>1
<1>3. ASSUME NEW i \in Nat, i \in S PROVE i + 1 \in S
  <2>1. CASE i + 1 <= Len(es)
    <3>1. s[i] \in OutType /\ es[i + 1] \in SoundEntry /\ i + 1 \in 0..Len(es)
      BY <1>3, <2>1
    <3>2. s[i + 1] = Play(s[i], es[i + 1])
      BY <1>1, <3>1
    <3> QED BY <3>1, <3>2, PlayIsSound
  <2> QED BY <2>1
<1> HIDE DEF S
<1>4. Nat \subseteq S
  BY <1>2, <1>3, SetInduction
<1>5. \A i \in 0..Len(es) : s[i] \in OutType
  BY <1>4 DEF S
<1> QED BY <1>1, <1>5 DEF s

-----------------------------------------------------------------------------
(* Durations and pauses.                                                     *)
SameCall(e, f) ==
  /\ f.prev_timestamp = e.prev_timestamp /\ f.is_first_frame = e.is_first_frame
  /\ f.got_null_frame = e.got_null_frame /\ f.in_frame_count = e.in_frame_count

Paused(e, f) ==
  /\ f.start = e.start /\ f.flush_count = Len(e.frames)
  /\ f.best_delta = e.best_delta /\ f.keyframe = e.keyframe
  /\ f.count_since_key_frame = e.count_since_key_frame + 1
  /\ SameCall(e, f)
  /\ Len(f.frames) = Len(e.frames) + 1
  /\ \A i \in 1..Len(e.frames) : f.frames[i].is_key_frame = e.frames[i].is_key_frame

LEMMA IncreaseIsSound ==
  ASSUME NEW e \in EncType, e.frames # <<>>, NEW d \in 0..MaxDuration - 1
  PROVE  LET f == IncreasePreviousDuration(e, d)
         IN f \in EncType /\ (SameCounts(e, f) \/ Paused(e, f))
<1> DEFINE count == Len(e.frames)
           x == e.frames[count]
           sum == x.duration + d
           f == IncreasePreviousDuration(e, d)
<1>1. e.frames \in Seq(SoundEntry) /\ count \in 1..Len(e.frames) /\ count \in Nat
  BY DEF EncType
<1>2. x \in SoundEntry
  BY <1>1
<1>3. CASE sum < MaxDuration
  <2> DEFINE fs == [e.frames EXCEPT ![count].duration = sum]
  <2>1. f = [e EXCEPT !.frames = fs]
    BY <1>3 DEF IncreasePreviousDuration
  <2>2. [x EXCEPT !.duration = sum] \in SoundEntry
    BY <1>2, <1>3, EncoderAssumption DEF SoundEntry
  <2>3. /\ fs \in Seq(SoundEntry) /\ Len(fs) = count
        /\ \A i \in 1..count : fs[i].is_key_frame = e.frames[i].is_key_frame
    BY <1>1, <1>2, <2>2 DEF SoundEntry
  <2> HIDE DEF fs
  <2> QED BY <2>1, <2>3 DEF EncType, SameCounts
<1>4. CASE ~(sum < MaxDuration)
  <2> DEFINE p == Pause(d, x)
             fs == Append(e.frames, p)
  <2>1. f = [e EXCEPT !.frames = fs,
               !.count_since_key_frame = e.count_since_key_frame + 1,
               !.flush_count = count, !.prev_candidate_undecided = FALSE,
               !.prev_rect = OnePixel]
    BY <1>4 DEF IncreasePreviousDuration
  <2>2. p \in SoundEntry
    BY <1>2, FixedFrames, EncoderAssumption DEF Pause, SoundEntry
  <2> HIDE DEF p
  <2>3. /\ fs \in Seq(SoundEntry) /\ Len(fs) = count + 1
        /\ \A i \in 1..count : fs[i].is_key_frame = e.frames[i].is_key_frame
    BY <1>1, <2>2
  <2> HIDE DEF fs
  <2>4. OnePixel \in Rects
    BY FixedRects DEF SoundRect
  <2> HIDE DEF f
  <2>5. f \in EncType
    <3>1. e.count_since_key_frame + 1 \in Nat /\ FALSE \in BOOLEAN /\ count \in Nat
      BY <1>1 DEF EncType
    <3> HIDE DEF count
    <3> QED BY <2>1, <2>3, <2>4, <3>1 DEF EncType
  <2>6. Paused(e, f)
    BY <1>1, <2>1, <2>3 DEF EncType, Paused, SameCall
  <2> QED BY <2>5, <2>6 DEF f
<1> QED BY <1>3, <1>4

-----------------------------------------------------------------------------
(* Pushing the first n of the frames.                                        *)
PushedCounts(e, f, n) ==
  /\ f.flush_count = e.flush_count - n /\ f.best_delta = e.best_delta
  /\ f.keyframe = (IF e.keyframe < n THEN KeyframeNone ELSE e.keyframe - n)
  /\ f.count_since_key_frame = e.count_since_key_frame
  /\ SameCall(e, f)
  /\ Len(f.frames) = Len(e.frames) - n
  /\ \A i \in 1..Len(f.frames) : f.frames[i] = e.frames[i + n]

LEMMA PushedIsSound ==
  ASSUME NEW e \in EncType, NEW o \in OutType, KeyIsThere(e),
         NEW n \in 0..e.flush_count, e.flush_count <= Len(e.frames)
  PROVE  LET p == Pushed(State(e, o), n)
         IN /\ p = State(p.enc, p.out) /\ p.enc \in EncType /\ p.out \in OutType
            /\ PushedCounts(e, p.enc, n) /\ KeyIsThere(p.enc)
            /\ p.enc.start = e.start + n
<1> DEFINE fs == SubSeq(e.frames, n + 1, Len(e.frames))
           key == IF e.keyframe < n THEN KeyframeNone ELSE e.keyframe - n
           f == [e EXCEPT !.frames = fs, !.start = e.start + n,
                          !.flush_count = e.flush_count - n, !.keyframe = key]
           p == Pushed(State(e, o), n)
<1>1. /\ e.frames \in Seq(SoundEntry) /\ Len(e.frames) \in Nat
      /\ n \in 0..Len(e.frames) /\ e.flush_count \in Nat /\ e.start \in Nat
      /\ e.keyframe \in Nat \union {KeyframeNone}
  BY DEF EncType
<1>2. p = State(f, Screens(o, e.frames)[n])
  BY DEF Pushed, State
<1>3. Screens(o, e.frames)[n] \in OutType
  BY <1>1, ScreensAreSound
<1>4. /\ fs \in Seq(SoundEntry) /\ Len(fs) = Len(e.frames) - n
      /\ \A i \in 1..Len(fs) : fs[i] = e.frames[i + n]
  BY <1>1
<1>5. key \in Nat \union {KeyframeNone}
  BY <1>1 DEF KeyframeNone
<1> HIDE DEF fs, key
<1>6. f \in EncType
  <2>1. e.start + n \in Nat /\ e.flush_count - n \in Nat
    BY <1>1
  <2> QED BY <2>1, <1>4, <1>5 DEF EncType
<1>7. PushedCounts(e, f, n)
  BY <1>1, <1>4 DEF EncType, PushedCounts, SameCall, key
<1>8. f.start = e.start + n
  BY DEF EncType
<1>9. KeyIsThere(f)
  <2> SUFFICES ASSUME f.keyframe # KeyframeNone
               PROVE  f.keyframe < Len(f.frames) /\ f.frames[f.keyframe + 1].is_key_frame
    BY DEF KeyIsThere
  <2>1. f.keyframe = e.keyframe - n /\ n <= e.keyframe /\ e.keyframe # KeyframeNone
    BY <1>1, <1>7 DEF PushedCounts, KeyframeNone
  <2>2. e.keyframe < Len(e.frames) /\ e.frames[e.keyframe + 1].is_key_frame
    BY <2>1 DEF KeyIsThere
  <2>3. Len(f.frames) = Len(e.frames) - n /\ e.keyframe \in Nat
    BY <1>1, <1>7, <2>1 DEF PushedCounts
  <2>4. f.keyframe + 1 \in 1..Len(f.frames) /\ f.keyframe + 1 + n = e.keyframe + 1
    BY <1>1, <2>1, <2>2, <2>3
  <2>5. f.frames[f.keyframe + 1] = e.frames[e.keyframe + 1]
    BY <1>7, <2>4 DEF PushedCounts
  <2> QED BY <1>1, <2>1, <2>2, <2>3, <2>5
<1>10. p.enc = f /\ p.out = Screens(o, e.frames)[n]
  BY <1>2 DEF State
<1> HIDE DEF f, p
<1> QED BY <1>2, <1>3, <1>6, <1>7, <1>8, <1>9, <1>10 DEF p

LEMMA FlushIsSound ==
  ASSUME NEW e \in EncType, NEW o \in OutType, KeyIsThere(e),
         e.flush_count <= Len(e.frames)
  PROVE  LET p == FlushFrames(State(e, o))
             n == e.flush_count
         IN /\ p = State(p.enc, p.out) /\ p.enc \in EncType /\ p.out \in OutType
            /\ PushedCounts(e, p.enc, n) /\ KeyIsThere(p.enc)
            /\ p.enc.start = (IF Len(e.frames) = n + 1 THEN 0 ELSE e.start + n)
<1> DEFINE n == e.flush_count
           q == Pushed(State(e, o), n)
           p == FlushFrames(State(e, o))
<1>1. n \in Nat /\ n \in 0..e.flush_count /\ e.start \in Nat
  BY DEF EncType
<1>2. /\ q = State(q.enc, q.out) /\ q.enc \in EncType /\ q.out \in OutType
      /\ PushedCounts(e, q.enc, n) /\ KeyIsThere(q.enc) /\ q.enc.start = e.start + n
  BY <1>1, PushedIsSound
<1>3. p = IF Len(q.enc.frames) = 1 THEN [q EXCEPT !.enc.start = 0] ELSE q
  BY DEF FlushFrames, State
<1> HIDE DEF q
<1>4. Len(q.enc.frames) = 1 <=> Len(e.frames) = n + 1
  BY <1>1, <1>2 DEF PushedCounts, EncType
<1>5. PICK k \in EncType, r \in OutType : q = State(k, r) /\ k = q.enc
  BY <1>2
<1>6. CASE Len(e.frames) = n + 1
  <2>1. p = State([k EXCEPT !.start = 0], r)
    BY <1>3, <1>4, <1>5, <1>6 DEF State
  <2> DEFINE h == [k EXCEPT !.start = 0]
  <2>2. h \in EncType /\ h.start = 0 /\ h.frames = k.frames /\ h.keyframe = k.keyframe
    BY DEF EncType
  <2>3. PushedCounts(e, h, n)
    BY <1>2, <1>5 DEF PushedCounts, SameCall, EncType
  <2> HIDE DEF h
  <2>4. KeyIsThere(h)
    BY <1>2, <1>5, <2>2 DEF KeyIsThere
  <2>5. p = State(h, r) /\ p.enc = h /\ p.out = r
    BY <2>1 DEF State, h
  <2> HIDE DEF p
  <2> QED
    BY <1>6, <2>2, <2>3, <2>4, <2>5 DEF p
<1>7. CASE Len(e.frames) # n + 1
  <2>1. p = State(k, r)
    BY <1>3, <1>4, <1>5, <1>7
  <2> QED
    BY <1>1, <1>2, <1>5, <1>7, <2>1 DEF State, EncType, PushedCounts, SameCall
<1> QED BY <1>6, <1>7

-----------------------------------------------------------------------------
(* What WebPAnimEncoderAdd has when the frame before has been lengthened:    *)
(* room for one more.  A pause that was added is not flushed yet, but all    *)
(* that is in front of it will be.                                           *)
Ready(e) ==
  /\ ~e.is_first_frame /\ e.frames # <<>> /\ KeyIsThere(e)
  /\ Reach(e) < Size /\ InWindow(e)
  /\ \/ e.flush_count = 0 /\ Window(e)
     \/ /\ e.flush_count = Len(e.frames) - 1 /\ e.flush_count > 0
        /\ e.keyframe < e.flush_count

LEMMA QuietHasRoom ==
  ASSUME caller \in Callers, NEW e \in EncType, Quiet(e), ~e.is_first_frame
  PROVE  /\ Reach(e) + 1 <= Size
         /\ ~IsShort(e) => Reach(e) + 2 <= Size
<1>1. /\ e.start \in Nat /\ Len(e.frames) \in Nat /\ e.count_since_key_frame \in Nat
  BY DEF EncType
<1>2. IsShort(e) \/ (/\ e.best_delta # DeltaInfinity /\ e.count_since_key_frame < Kmax
                     /\ Reach(e) <= e.count_since_key_frame - Kmin)
  BY DEF Quiet, Window, InWindow
<1>3. CASE IsShort(e)
  BY <1>1, <1>3, OptionsFit DEF IsShort, Reach
<1>4. CASE ~IsShort(e)
  <2>1. Reach(e) \in Nat
    BY <1>1 DEF Reach
  <2> QED BY <1>1, <1>2, <1>4, <2>1, OptionsFit
<1> QED BY <1>3, <1>4

LEMMA KeyStays ==
  ASSUME NEW e, NEW f, KeyIsThere(e), f.keyframe = e.keyframe,
         e.keyframe \in Nat \union {KeyframeNone},
         Len(e.frames) \in Nat, Len(f.frames) \in Nat, Len(e.frames) <= Len(f.frames),
         \A i \in 1..Len(e.frames) : f.frames[i].is_key_frame = e.frames[i].is_key_frame
  PROVE  KeyIsThere(f)
<1> SUFFICES ASSUME e.keyframe # KeyframeNone
             PROVE  e.keyframe < Len(f.frames) /\ f.frames[e.keyframe + 1].is_key_frame
  BY DEF KeyIsThere
<1>1. e.keyframe \in Nat /\ e.keyframe < Len(e.frames) /\ e.frames[e.keyframe + 1].is_key_frame
  BY DEF KeyIsThere
<1>2. e.keyframe + 1 \in 1..Len(e.frames)
  BY <1>1
<1> QED BY <1>1, <1>2

LEMMA StartedIsReady ==
  ASSUME StateInv, MayAdd, NEW t \in Int, Timely(t)
  PROVE  LET s == Started(t)
         IN /\ s = State(s.enc, s.out) /\ s.enc \in EncType /\ s.out \in OutType
            /\ InBounds(s.enc) /\ SameCall(enc, s.enc)
            /\ enc.is_first_frame => s.enc = enc
            /\ ~enc.is_first_frame => Ready(s.enc)
<1> DEFINE s == Started(t)
<1>1. /\ caller \in Callers /\ enc \in EncType /\ out \in OutType /\ InBounds(enc)
      /\ Quiet(enc)
  BY DEF StateInv, IsQuiet, MayAdd, MayCall
<1>2. CASE enc.is_first_frame
  BY <1>1, <1>2 DEF Started, State, SameCall
<1>3. CASE ~enc.is_first_frame
  <2> DEFINE d == t - enc.prev_timestamp
             f == IncreasePreviousDuration(enc, d)
  <2>1. /\ enc.frames # <<>> /\ Window(enc) /\ enc.flush_count = 0
        /\ KeyIsThere(enc) /\ d \in 0..MaxDuration - 1
    BY <1>1, <1>3 DEF Quiet, InBounds, Timely
  <2>2. f \in EncType /\ (SameCounts(enc, f) \/ Paused(enc, f))
    BY <1>1, <2>1, IncreaseIsSound
  <2> HIDE DEF f
  <2>3. Lengthened(t) = State(f, out) /\ State(f, out).enc = f /\ State(f, out).out = out
    BY DEF Lengthened, State, f
  <2>4. s = IF Len(f.frames) = Size THEN FlushFrames(State(f, out)) ELSE State(f, out)
    BY <1>3, <2>3 DEF Started, Size
  <2>5. /\ Len(enc.frames) \in Nat \ {0} /\ enc.start \in Nat
        /\ enc.keyframe \in Nat \union {KeyframeNone}
        /\ enc.count_since_key_frame \in Nat /\ Size \in Nat /\ Kmin \in Int
    BY <1>1, <2>1, OptionsFit DEF EncType
  <2>6. /\ Reach(enc) = enc.start + Len(enc.frames) /\ Reach(enc) + 1 <= Size
        /\ ~IsShort(enc) => Reach(enc) + 2 <= Size
        /\ Reach(enc) \in Nat
    BY <1>1, <1>3, <2>5, QuietHasRoom DEF Reach
  <2>7. CASE SameCounts(enc, f)
    <3>1. Reach(f) = Reach(enc) /\ Len(f.frames) = Len(enc.frames)
      BY <2>7 DEF SameCounts, Reach
    <3>2. s = State(f, out)
      BY <2>4, <2>5, <2>6, <3>1
    <3>3. f.frames # <<>>
      BY <2>5, <3>1
    <3>4. KeyIsThere(f)
      BY <2>1, <2>5, <2>7, KeyStays DEF SameCounts
    <3>5. InBounds(f)
      BY <1>1, <2>7, <3>1, <3>4 DEF InBounds, SameCounts
    <3>6. Window(f) /\ InWindow(f)
      BY <2>1, <2>7, <3>1 DEF Window, InWindow, IsShort, SameCounts
    <3>7. Ready(f)
      BY <1>3, <2>1, <2>5, <2>6, <2>7, <3>1, <3>3, <3>4, <3>6 DEF Ready, SameCounts
    <3>8. SameCall(enc, f)
      BY <2>7 DEF SameCall, SameCounts
    <3> QED BY <1>1, <1>3, <2>2, <2>3, <3>2, <3>5, <3>7, <3>8
  <2>8. CASE Paused(enc, f)
    <3>1. /\ Len(f.frames) = Len(enc.frames) + 1 /\ f.start = enc.start
          /\ Reach(f) = Reach(enc) + 1 /\ f.flush_count = Len(enc.frames)
          /\ SameCall(enc, f) /\ f.keyframe = enc.keyframe
          /\ f.best_delta = enc.best_delta
          /\ f.count_since_key_frame = enc.count_since_key_frame + 1
      <4>1. Len(f.frames) = Len(enc.frames) + 1 /\ f.start = enc.start
        BY <2>8 DEF Paused
      <4>2. Reach(f) = Reach(enc) + 1
        BY <2>5, <4>1 DEF Reach
      <4> QED BY <2>8, <4>1, <4>2 DEF Paused
    <3>2. InWindow(f)
      BY <2>1, <2>5, <2>6, <3>1 DEF Window, InWindow
    <3>3. KeyIsThere(f)
      BY <2>1, <2>5, <2>8, <3>1, KeyStays DEF Paused
    <3>4. f.flush_count <= Len(f.frames)
      BY <2>5, <3>1
    <3>5. CASE Len(f.frames) = Size
      <4>1. s = FlushFrames(State(f, out))
        BY <2>4, <3>5
      <4>2. /\ s = State(s.enc, s.out) /\ s.enc \in EncType /\ s.out \in OutType
            /\ PushedCounts(f, s.enc, f.flush_count) /\ KeyIsThere(s.enc)
            /\ s.enc.start = 0
        BY <1>1, <2>2, <2>5, <3>1, <3>3, <3>4, <4>1, FlushIsSound
      <4> HIDE DEF s
      <4>3. Len(s.enc.frames) = 1 /\ s.enc.flush_count = 0
        BY <2>5, <3>1, <4>2 DEF PushedCounts
      <4>4. Reach(s.enc) = 1 /\ IsShort(s.enc) /\ s.enc.frames # <<>>
        <5>1. s.enc.frames # <<>>
          BY <4>3
        <5> QED BY <4>2, <4>3, <5>1 DEF Reach, IsShort
      <4>5. InWindow(s.enc) /\ Window(s.enc)
        <5>1. /\ s.enc.best_delta = f.best_delta
              /\ s.enc.count_since_key_frame = f.count_since_key_frame
          BY <4>2 DEF PushedCounts
        <5>2. Reach(enc) >= 1
          BY <2>5, <2>6
        <5> QED BY <2>5, <2>6, <3>1, <3>2, <4>4, <5>1, <5>2 DEF InWindow, Window
      <4>6. InBounds(s.enc) /\ Reach(s.enc) < Size
        BY <1>1, <4>2, <4>3, <4>4, OptionsFit DEF InBounds
      <4>7. Ready(s.enc) /\ SameCall(enc, s.enc)
        BY <1>3, <3>1, <4>2, <4>3, <4>4, <4>5, <4>6 DEF Ready, PushedCounts, SameCall
      <4> QED BY <1>3, <4>2, <4>6, <4>7 DEF s
    <3>6. CASE Len(f.frames) # Size
      <4>1. s = State(f, out)
        BY <2>4, <3>6
      <4>2. Reach(f) < Size
        BY <2>5, <2>6, <3>1, <3>6, OptionsFit DEF IsShort
      <4>3. InBounds(f)
        BY <2>5, <2>6, <3>1, <3>3, <3>4, <4>2 DEF InBounds
      <4>4. f.keyframe < f.flush_count /\ f.frames # <<>>
        BY <2>1, <2>5, <3>1 DEF KeyIsThere, KeyframeNone
      <4>5. Ready(f)
        BY <1>3, <2>5, <3>1, <3>2, <3>3, <4>2, <4>4 DEF Ready, SameCall
      <4> QED BY <1>3, <2>2, <1>1, <2>3, <3>1, <4>1, <4>3, <4>5
    <3> QED BY <3>5, <3>6
  <2> QED BY <2>2, <2>7, <2>8
<1> QED BY <1>2, <1>3

-----------------------------------------------------------------------------
(* A frame is added to the cache.                                            *)
Appended(e, f) ==
  /\ f.start = e.start /\ f.flush_count = e.flush_count
  /\ f.best_delta = e.best_delta /\ f.keyframe = e.keyframe
  /\ f.count_since_key_frame = e.count_since_key_frame
  /\ f.prev_timestamp = e.prev_timestamp /\ f.got_null_frame = e.got_null_frame
  /\ ~f.is_first_frame /\ f.in_frame_count = e.in_frame_count + 1
  /\ Len(f.frames) = Len(e.frames) + 1
  /\ \A i \in 1..Len(e.frames) : f.frames[i].is_key_frame = e.frames[i].is_key_frame

LEMMA AddedIsSound ==
  ASSUME NEW e \in EncType, NEW entry \in SoundEntry, NEW rect \in Rects
  PROVE  LET f == Added(e, entry, rect) IN f \in EncType /\ Appended(e, f)
<1> DEFINE fs == Append(e.frames, entry)
           f == [e EXCEPT !.frames = fs, !.prev_rect = rect, !.prev_canvas = entry.input,
                          !.is_first_frame = FALSE, !.in_frame_count = e.in_frame_count + 1]
<1>1. e.frames \in Seq(SoundEntry) /\ Len(e.frames) \in Nat
  BY DEF EncType
<1>2. /\ fs \in Seq(SoundEntry) /\ Len(fs) = Len(e.frames) + 1
      /\ \A i \in 1..Len(e.frames) : fs[i] = e.frames[i]
  BY <1>1
<1> HIDE DEF fs
<1>3. entry.input \in Canvas /\ e.in_frame_count + 1 \in Nat
  BY DEF SoundEntry, EncType
<1>4. f \in EncType
  BY <1>2, <1>3 DEF EncType
<1>5. Appended(e, f)
  BY <1>2 DEF EncType, Appended
<1>6. Added(e, entry, rect) = f
  BY DEF Added, fs
<1> QED BY <1>4, <1>5, <1>6

LEMMA EntryIsSound ==
  ASSUME NEW sub \in SoundFrame, NEW key \in SoundFrame, NEW is_key \in BOOLEAN,
         NEW cur \in Canvas
  PROVE  Entry(sub, key, is_key, cur) \in SoundEntry
BY EncoderAssumption DEF Entry, SoundEntry

(* What CacheFrame leaves: the flush that follows keeps one frame, unless a  *)
(* window is open.                                                           *)
Filled(e) ==
  /\ ~e.is_first_frame /\ e.frames # <<>> /\ KeyIsThere(e)
  /\ Reach(e) <= Size /\ e.flush_count <= Len(e.frames) - 1
  /\ \/ e.flush_count = Len(e.frames) - 1
     \/ e.best_delta # DeltaInfinity /\ e.count_since_key_frame < Kmax
  /\ e.best_delta # DeltaInfinity =>
       \/ e.flush_count = Len(e.frames) - 1 /\ e.count_since_key_frame - Kmin >= 1
       \/ Reach(e) <= e.count_since_key_frame - Kmin

(* Calls in which one more canvas is taken.                                  *)
NextCall(e, f) ==
  /\ f.prev_timestamp = e.prev_timestamp /\ f.got_null_frame = e.got_null_frame
  /\ f.in_frame_count = e.in_frame_count + 1

LEMMA CachedFirstIsSound ==
  ASSUME caller \in Callers, NEW e \in EncType, Quiet(e), e.is_first_frame = TRUE,
         NEW method \in caller.methods, NEW cur \in Canvas,
         NEW f \in CachedFirst(e, method, cur)
  PROVE  f \in EncType /\ Filled(f) /\ NextCall(e, f)
<1>1. PICK k \in KeyFrames(e, method, cur) :
        f = [Added(e, Entry(NoFrame, k.frame, TRUE, cur), k.frame.rect)
               EXCEPT !.flush_count = 0, !.count_since_key_frame = 0,
                      !.prev_candidate_undecided = FALSE]
  BY DEF CachedFirst
<1>2. k.frame \in SoundFrame
  <2>1. e.is_first_frame \in BOOLEAN
    BY DEF EncType
  <2> QED BY <2>1, KeyFramesAreSound DEF IsCandidate
<1>3. k.frame.rect \in Rects
  BY <1>2 DEF SoundFrame, FrameType
<1> DEFINE a == Added(e, Entry(NoFrame, k.frame, TRUE, cur), k.frame.rect)
<1>4. a \in EncType /\ Appended(e, a)
  BY <1>2, <1>3, FixedFrames, EntryIsSound, AddedIsSound
<1> HIDE DEF a
<1>5. f = [a EXCEPT !.flush_count = 0, !.count_since_key_frame = 0,
                    !.prev_candidate_undecided = FALSE]
  BY <1>1 DEF a
<1>6. f \in EncType
  BY <1>4, <1>5 DEF EncType
<1>7. Untouched(e)
  BY DEF Quiet
<1>8. /\ f.keyframe = KeyframeNone /\ f.best_delta = DeltaInfinity /\ f.start = 0
      /\ Len(f.frames) = 1 /\ f.flush_count = 0 /\ ~f.is_first_frame
  BY <1>4, <1>5, <1>7 DEF EncType, Appended, Untouched
<1>9. f.frames # <<>>
  <2>1. Len(f.frames) = 1
    BY <1>8
  <2>2. Len(<<>>) = 0
    OBVIOUS
  <2>3. Len(f.frames) # Len(<<>>)
    BY <2>1, <2>2
  <2> QED BY <2>3, Zenon
<1>10. NextCall(e, f)
  BY <1>4, <1>5 DEF EncType, Appended, NextCall
<1> QED
  BY <1>6, <1>8, <1>9, <1>10, OptionsFit DEF Filled, KeyIsThere, Reach

LEMMA CachedAsSubFrameIsSound ==
  ASSUME caller \in Callers, NEW e \in EncType, Ready(e),
         NEW method \in caller.methods, NEW cur \in Canvas,
         NEW f \in CachedAsSubFrame(e, method, cur)
  PROVE  f \in EncType /\ Filled(f) /\ NextCall(e, f)
<1>1. PICK c \in SubFrames(e, method, cur) :
        f = [Added(WithPreviousDispose(e, c.dispose),
                   Entry(c.frame, NoFrame, FALSE, cur), c.frame.rect)
               EXCEPT !.flush_count = Len(e.frames),
                      !.count_since_key_frame = @ + 1,
                      !.prev_candidate_undecided = FALSE]
  BY DEF CachedAsSubFrame
<1>2. c.frame \in SoundFrame /\ c.dispose \in {"none", "background"}
  BY SubFramesAreSound DEF IsCandidate
<1>3. c.frame.rect \in Rects
  BY <1>2 DEF SoundFrame, FrameType
<1> DEFINE d == WithPreviousDispose(e, c.dispose)
           a == Added(d, Entry(c.frame, NoFrame, FALSE, cur), c.frame.rect)
<1>4. d \in EncType /\ SameCounts(e, d)
  BY <1>2, PreviousDisposeIsSound DEF Ready
<1> HIDE DEF d
<1>5. a \in EncType /\ Appended(d, a)
  BY <1>2, <1>3, <1>4, FixedFrames, EntryIsSound, AddedIsSound
<1> HIDE DEF a
<1>6. f = [a EXCEPT !.flush_count = Len(e.frames),
                    !.count_since_key_frame = a.count_since_key_frame + 1,
                    !.prev_candidate_undecided = FALSE]
  BY <1>1 DEF a, d
<1>7. Len(e.frames) \in Nat \ {0} /\ e.count_since_key_frame \in Nat /\ e.start \in Nat
  BY DEF EncType, Ready
<1>8. f \in EncType
  <2> DEFINE n == Len(e.frames)
  <2>1. n \in Nat /\ a.count_since_key_frame + 1 \in Nat
    BY <1>5, <1>7 DEF EncType
  <2> HIDE DEF n
  <2> QED BY <1>5, <1>6, <2>1 DEF EncType, n
<1>9. /\ f.keyframe = e.keyframe /\ f.best_delta = e.best_delta /\ f.start = e.start
      /\ Len(f.frames) = Len(e.frames) + 1 /\ f.flush_count = Len(e.frames)
      /\ ~f.is_first_frame /\ f.count_since_key_frame = e.count_since_key_frame + 1
      /\ \A i \in 1..Len(e.frames) : f.frames[i].is_key_frame = e.frames[i].is_key_frame
      /\ NextCall(e, f)
  BY <1>4, <1>5, <1>6 DEF EncType, SameCounts, Appended, NextCall
<1>10. f.frames # <<>> /\ KeyIsThere(f)
  BY <1>7, <1>9, KeyStays, SMTT(30) DEF Ready, EncType
<1>11. Reach(f) = Reach(e) + 1 /\ Reach(e) \in Nat
  <2>1. f.start = e.start /\ Len(f.frames) = Len(e.frames) + 1
    BY <1>9
  <2> QED BY <1>7, <2>1 DEF Reach
<1> QED
  BY <1>7, <1>8, <1>9, <1>10, <1>11, OptionsFit, SMTT(30) DEF Filled, Ready, InWindow

LEMMA SeqReplaced ==
  ASSUME NEW S, NEW s \in Seq(S), NEW i \in 1..Len(s), NEW y \in S
  PROVE  /\ [s EXCEPT ![i] = y] \in Seq(S)
         /\ Len([s EXCEPT ![i] = y]) = Len(s)
         /\ [s EXCEPT ![i] = y][i] = y
OBVIOUS

LEMMA EncClosed ==
  ASSUME NEW a \in EncType, NEW n \in Nat
  PROVE  [a EXCEPT !.flush_count = n, !.count_since_key_frame = 0,
                   !.keyframe = KeyframeNone, !.best_delta = DeltaInfinity] \in EncType
BY DEF EncType

(* The key-frame moves to the last position.                                 *)
LEMMA PickedIsSound ==
  ASSUME NEW a \in EncType, KeyIsThere(a), a.frames # <<>>, NEW delta \in Deltas
  PROVE  LET f == PickedAsKey(a, Len(a.frames) - 1, delta)
         IN /\ f \in EncType /\ f.start = a.start
            /\ Len(f.frames) = Len(a.frames) /\ SameCall(a, f)
            /\ f.flush_count = Len(a.frames) - 1 /\ f.keyframe = Len(a.frames) - 1
            /\ f.best_delta # DeltaInfinity /\ KeyIsThere(f)
            /\ f.count_since_key_frame = a.count_since_key_frame
<1> DEFINE last == Len(a.frames)
           gs == IF a.keyframe = KeyframeNone THEN a.frames
                 ELSE [a.frames EXCEPT ![a.keyframe + 1].is_key_frame = FALSE]
           fs == [gs EXCEPT ![last].is_key_frame = TRUE]
           f == [a EXCEPT !.frames = fs, !.prev_candidate_undecided = TRUE,
                          !.keyframe = last - 1, !.best_delta = delta,
                          !.flush_count = last - 1]
<1>1. a.frames \in Seq(SoundEntry) /\ last \in Nat \ {0} /\ last \in 1..Len(a.frames)
  BY DEF EncType
<1>2. \A x \in SoundEntry : /\ [x EXCEPT !.is_key_frame = FALSE] \in SoundEntry
                            /\ [x EXCEPT !.is_key_frame = TRUE] \in SoundEntry
                            /\ [x EXCEPT !.is_key_frame = TRUE].is_key_frame = TRUE
  BY DEF SoundEntry
<1>3. gs \in Seq(SoundEntry) /\ Len(gs) = last
  <2>1. CASE a.keyframe = KeyframeNone
    BY <1>1, <2>1
  <2>2. CASE a.keyframe # KeyframeNone
    <3>1. a.keyframe + 1 \in 1..Len(a.frames)
      BY <1>1, <2>2 DEF EncType, KeyIsThere
    <3> DEFINE y == [a.frames[a.keyframe + 1] EXCEPT !.is_key_frame = FALSE]
    <3>2. y \in SoundEntry
      <4>1. a.frames[a.keyframe + 1] \in SoundEntry
        BY <1>1, <3>1
      <4> QED BY <1>2, <4>1, Zenon
    <3>3. gs = [a.frames EXCEPT ![a.keyframe + 1] = y]
      BY <2>2
    <3> HIDE DEF y
    <3>4. /\ [a.frames EXCEPT ![a.keyframe + 1] = y] \in Seq(SoundEntry)
          /\ Len([a.frames EXCEPT ![a.keyframe + 1] = y]) = Len(a.frames)
      BY <1>1, <3>1, <3>2, SeqReplaced
    <3> HIDE DEF gs
    <3> QED BY <3>3, <3>4, Zenon
  <2> QED BY <2>1, <2>2
<1> HIDE DEF gs
<1>4. fs \in Seq(SoundEntry) /\ Len(fs) = last /\ fs[last].is_key_frame = TRUE
  <2> DEFINE y == [gs[last] EXCEPT !.is_key_frame = TRUE]
  <2>1. y \in SoundEntry /\ y.is_key_frame = TRUE
    <3>1. gs[last] \in SoundEntry
      BY <1>1, <1>3
    <3> QED BY <1>2, <3>1, Zenon
  <2>2. fs = [gs EXCEPT ![last] = y]
    OBVIOUS
  <2> HIDE DEF y
  <2>3. last \in 1..Len(gs)
    BY <1>1, <1>3
  <2>4. /\ [gs EXCEPT ![last] = y] \in Seq(SoundEntry)
        /\ Len([gs EXCEPT ![last] = y]) = Len(gs)
        /\ [gs EXCEPT ![last] = y][last] = y
    BY <1>3, <2>1, <2>3, SeqReplaced
  <2> HIDE DEF last, fs
  <2> QED BY <1>3, <2>1, <2>2, <2>4
<1>5. last - 1 \in Nat
  BY <1>1
<1>6. PickedAsKey(a, last - 1, delta) = f
  <2>1. last - 1 + 1 = last
    BY <1>1
  <2>2. CASE a.keyframe = KeyframeNone
    BY <2>1, <2>2 DEF PickedAsKey, gs
  <2>3. CASE a.keyframe # KeyframeNone
    <3> DEFINE h == [a EXCEPT !.frames[a.keyframe + 1].is_key_frame = FALSE]
    <3>1. h = [a EXCEPT !.frames = gs]
      BY <2>3 DEF gs
    <3>2. PickedAsKey(a, last - 1, delta)
            = [h EXCEPT !.frames[last].is_key_frame = TRUE,
                 !.prev_candidate_undecided = TRUE, !.keyframe = last - 1,
                 !.best_delta = delta, !.flush_count = last - 1]
      BY <2>1, <2>3 DEF PickedAsKey
    <3> HIDE DEF h
    <3> QED BY <3>1, <3>2 DEF EncType
  <2> QED BY <2>2, <2>3
<1> HIDE DEF fs
<1>7. f \in EncType
  <2> DEFINE n == last - 1
  <2>1. n \in Nat
    BY <1>5
  <2> HIDE DEF n
  <2>2. f = [a EXCEPT !.frames = fs, !.prev_candidate_undecided = TRUE,
                      !.keyframe = n, !.best_delta = delta, !.flush_count = n]
    BY DEF n
  <2> QED BY <1>4, <2>1, <2>2 DEF EncType
<1>8. /\ f.start = a.start /\ f.frames = fs /\ SameCall(a, f)
      /\ f.flush_count = last - 1 /\ f.keyframe = last - 1
      /\ f.best_delta = delta /\ f.count_since_key_frame = a.count_since_key_frame
  BY DEF EncType, SameCall
<1> HIDE DEF f
<1>9. KeyIsThere(f)
  <2>1. f.keyframe + 1 = last /\ f.keyframe < Len(f.frames)
    BY <1>1, <1>4, <1>8
  <2> QED BY <1>4, <1>8, <2>1 DEF KeyIsThere
<1>10. f.best_delta # DeltaInfinity
  BY <1>8 DEF Deltas, DeltaInfinity
<1> QED BY <1>4, <1>6, <1>7, <1>8, <1>9, <1>10

(* A window closes when the count has come to kmax.                          *)
LEMMA WindowClosedIsSound ==
  ASSUME caller \in Callers, NEW a \in EncType, a.is_first_frame = FALSE,
         a.frames # <<>>, KeyIsThere(a), Reach(a) <= Size, a.flush_count <= Len(a.frames) - 1,
         a.best_delta # DeltaInfinity,
         \/ a.flush_count = Len(a.frames) - 1 /\ a.count_since_key_frame - Kmin >= 1
         \/ Reach(a) <= a.count_since_key_frame - Kmin
  PROVE  LET f == WindowClosed(a)
         IN f \in EncType /\ Filled(f) /\ SameCall(a, f)
<1> DEFINE f == WindowClosed(a)
<1>1. a.count_since_key_frame \in Nat /\ Len(a.frames) \in Nat \ {0} /\ Kmax \in Nat
  BY OptionsFit DEF EncType
<1>2. CASE a.count_since_key_frame < Kmax
  <2>1. f = a
    BY <1>2 DEF WindowClosed, Kmax
  <2> QED BY <1>2, <2>1 DEF Filled, SameCall
<1>3. CASE ~(a.count_since_key_frame < Kmax)
  <2> DEFINE n == Len(a.frames) - 1
  <2>1. n \in Nat
    BY <1>1
  <2> HIDE DEF n
  <2>2. f = [a EXCEPT !.flush_count = n, !.count_since_key_frame = 0,
                      !.keyframe = KeyframeNone, !.best_delta = DeltaInfinity]
    BY <1>3 DEF WindowClosed, Kmax, n
  <2>3. f \in EncType
    BY <2>1, <2>2, EncClosed, Zenon
  <2>4. /\ f.frames = a.frames /\ f.start = a.start /\ f.flush_count = n
        /\ f.keyframe = KeyframeNone /\ f.best_delta = DeltaInfinity /\ SameCall(a, f)
    BY <2>2 DEF EncType, SameCall
  <2> HIDE DEF f
  <2>5. n \in Nat /\ n = Len(f.frames) - 1 /\ n <= Len(f.frames) - 1
    BY <1>1, <2>4 DEF n
  <2>6. Reach(f) <= Size /\ KeyIsThere(f)
    BY <2>4 DEF Reach, KeyIsThere
  <2>7. Filled(f)
    BY <2>4, <2>5, <2>6 DEF Filled, SameCall
  <2> QED BY <2>3, <2>4, <2>7 DEF f
<1> QED BY <1>2, <1>3

(* The frame in both forms, before it is known which it will be.             *)
LEMMA BothIsSound ==
  ASSUME caller \in Callers, NEW e \in EncType, Ready(e), MayBeKey(e),
         NEW c, IsCandidate(c), NEW k, IsCandidate(k), NEW cur \in Canvas
  PROVE  LET a == InBothForms(e, c, k, cur)
         IN /\ a \in EncType /\ a.is_first_frame = FALSE /\ a.frames # <<>>
            /\ KeyIsThere(a) /\ Reach(a) <= Size /\ NextCall(e, a)
            /\ Len(a.frames) = Len(e.frames) + 1 /\ a.flush_count = e.flush_count
            /\ a.best_delta = e.best_delta /\ a.start = e.start
            /\ a.count_since_key_frame - Kmin >= 1
            /\ a.best_delta # DeltaInfinity => Reach(a) <= a.count_since_key_frame - Kmin
<1> DEFINE d == WithPreviousDispose(e, c.dispose)
           b == Added(d, Entry(c.frame, k.frame, FALSE, cur), c.frame.rect)
           a == [b EXCEPT !.count_since_key_frame = b.count_since_key_frame + 1]
<1>1. d \in EncType /\ SameCounts(e, d)
  BY PreviousDisposeIsSound DEF Ready, IsCandidate
<1> HIDE DEF d
<1>2. c.frame \in SoundFrame /\ k.frame \in SoundFrame /\ c.frame.rect \in Rects
  BY DEF SoundFrame, FrameType, IsCandidate
<1>3. b \in EncType /\ Appended(d, b)
  BY <1>1, <1>2, EntryIsSound, AddedIsSound
<1> HIDE DEF b
<1>4. Len(e.frames) \in Nat \ {0} /\ e.count_since_key_frame \in Nat /\ e.start \in Nat
  BY DEF EncType, Ready
<1>5. a \in EncType
  <2>1. b.count_since_key_frame + 1 \in Nat
    BY <1>3 DEF EncType
  <2> QED BY <1>3, <2>1 DEF EncType
<1>6. /\ a.keyframe = e.keyframe /\ a.best_delta = e.best_delta /\ a.start = e.start
      /\ Len(a.frames) = Len(e.frames) + 1 /\ a.flush_count = e.flush_count
      /\ a.is_first_frame = FALSE /\ a.count_since_key_frame = e.count_since_key_frame + 1
      /\ \A i \in 1..Len(e.frames) : a.frames[i].is_key_frame = e.frames[i].is_key_frame
      /\ NextCall(e, a)
  BY <1>1, <1>3 DEF EncType, SameCounts, Appended, NextCall
<1> HIDE DEF a
<1>7. a.frames # <<>> /\ KeyIsThere(a)
  <2>1. Len(a.frames) # Len(<<>>)
    BY <1>4, <1>6
  <2>2. KeyIsThere(a)
    BY <1>4, <1>6, KeyStays, SMTT(30) DEF Ready, EncType
  <2> QED BY <2>1, <2>2
<1>8. Reach(a) = Reach(e) + 1 /\ Reach(e) \in Nat
  <2>1. a.start = e.start /\ Len(a.frames) = Len(e.frames) + 1
    BY <1>6
  <2> QED BY <1>4, <2>1 DEF Reach
<1>9. e.count_since_key_frame + 1 > Kmin /\ Kmin \in Int
  BY OptionsFit DEF MayBeKey, Kmin
<1>10. Reach(a) <= Size
  BY <1>8, OptionsFit DEF Ready
<1>11. a.best_delta # DeltaInfinity => Reach(a) <= a.count_since_key_frame - Kmin
  BY <1>4, <1>6, <1>8, <1>9 DEF Ready, InWindow
<1>12. a.count_since_key_frame - Kmin >= 1
  BY <1>4, <1>6, <1>9
<1> QED BY <1>5, <1>6, <1>7, <1>10, <1>11, <1>12 DEF InBothForms, a, b, d

LEMMA CachedAsEitherIsSound ==
  ASSUME caller \in Callers, NEW e \in EncType, Ready(e), MayBeKey(e),
         NEW method \in caller.methods, NEW cur \in Canvas,
         NEW f \in CachedAsEither(e, method, cur)
  PROVE  f \in EncType /\ Filled(f) /\ NextCall(e, f)
<1> DEFINE position == Len(e.frames)
<1>1. PICK c \in SubFrames(e, method, cur), k \in KeyFrames(e, method, cur),
           delta \in Deltas : f = WindowClosed(Compared(e, c, k, delta, cur))
  BY DEF CachedAsEither
<1>2. IsCandidate(c)
  BY SubFramesAreSound
<1>3. IsCandidate(k)
  <2>1. e.is_first_frame \in BOOLEAN
    BY DEF EncType
  <2> QED BY <2>1, KeyFramesAreSound
<1> DEFINE a == InBothForms(e, c, k, cur)
           g == Compared(e, c, k, delta, cur)
<1>4. /\ a \in EncType /\ a.is_first_frame = FALSE /\ a.frames # <<>>
      /\ KeyIsThere(a) /\ Reach(a) <= Size /\ NextCall(e, a)
      /\ Len(a.frames) = position + 1 /\ a.flush_count = e.flush_count
      /\ a.best_delta = e.best_delta /\ a.start = e.start
      /\ a.count_since_key_frame - Kmin >= 1
      /\ a.best_delta # DeltaInfinity => Reach(a) <= a.count_since_key_frame - Kmin
  BY <1>2, <1>3, BothIsSound
<1>5. position \in Nat \ {0} /\ e.best_delta \in Deltas \union {DeltaInfinity}
  BY DEF EncType, Ready
<1>6. k.frame.rect \in Rects
  BY <1>3 DEF SoundFrame, FrameType, IsCandidate
<1>7. /\ g \in EncType /\ g.is_first_frame = FALSE /\ g.frames # <<>>
      /\ KeyIsThere(g) /\ Reach(g) <= Size /\ NextCall(e, g)
      /\ g.flush_count <= Len(g.frames) - 1 /\ g.best_delta # DeltaInfinity
      /\ \/ g.flush_count = Len(g.frames) - 1 /\ g.count_since_key_frame - Kmin >= 1
         \/ Reach(g) <= g.count_since_key_frame - Kmin
  <2>1. CASE delta <= e.best_delta
    <3> DEFINE p == PickedAsKey(a, Len(a.frames) - 1, delta)
    <3>1. /\ p \in EncType /\ p.start = a.start /\ Len(p.frames) = Len(a.frames)
          /\ SameCall(a, p) /\ p.flush_count = Len(a.frames) - 1
          /\ p.best_delta # DeltaInfinity /\ KeyIsThere(p)
          /\ p.count_since_key_frame = a.count_since_key_frame
      BY <1>4, PickedIsSound
    <3> HIDE DEF a
    <3>2. g = [p EXCEPT !.prev_rect = k.frame.rect]
      <4>1. Len(a.frames) - 1 = position
        BY <1>4, <1>5
      <4> QED BY <2>1, <4>1 DEF Compared, a
    <3> HIDE DEF p, g
    <3>3. g \in EncType
      BY <1>6, <3>1, <3>2 DEF EncType
    <3>4. /\ g.start = p.start /\ g.frames = p.frames /\ g.flush_count = p.flush_count
          /\ g.best_delta = p.best_delta /\ g.keyframe = p.keyframe /\ SameCall(p, g)
          /\ g.count_since_key_frame = p.count_since_key_frame
      BY <3>1, <3>2 DEF EncType, SameCall
    <3>5. g.is_first_frame = FALSE /\ NextCall(e, g)
      BY <1>4, <3>1, <3>4 DEF SameCall, NextCall
    <3>6. KeyIsThere(g)
      BY <3>1, <3>4 DEF KeyIsThere
    <3>7. Len(g.frames) = position + 1 /\ g.flush_count = Len(g.frames) - 1
      BY <1>4, <3>1, <3>4
    <3>8. g.frames # <<>>
      <4>1. Len(g.frames) # Len(<<>>)
        BY <1>5, <3>7
      <4> QED BY <4>1
    <3>9. Reach(g) <= Size
      <4>1. g.start = a.start /\ Len(g.frames) = Len(a.frames)
        BY <3>1, <3>4
      <4> QED BY <1>4, <4>1 DEF Reach
    <3> QED BY <1>4, <1>5, <3>1, <3>3, <3>4, <3>5, <3>6, <3>7, <3>8, <3>9
  <2>2. CASE ~(delta <= e.best_delta)
    <3> HIDE DEF a
    <3>1. g = [a EXCEPT !.prev_candidate_undecided = FALSE]
      BY <2>2 DEF Compared, a
    <3> HIDE DEF g
    <3>2. g \in EncType
      BY <1>4, <3>1 DEF EncType
    <3>3. /\ g.start = a.start /\ g.frames = a.frames /\ g.flush_count = a.flush_count
          /\ g.best_delta = a.best_delta /\ g.keyframe = a.keyframe /\ NextCall(e, g)
          /\ g.count_since_key_frame = a.count_since_key_frame
          /\ g.is_first_frame = FALSE
      BY <1>4, <3>1 DEF EncType, NextCall
    <3>4. e.best_delta # DeltaInfinity
      BY <1>5, <2>2 DEF Deltas, DeltaInfinity
    <3>5. KeyIsThere(g) /\ Reach(g) = Reach(a)
      BY <1>4, <3>3 DEF KeyIsThere, Reach
    <3>6. e.flush_count <= Len(e.frames) - 1
      BY <1>5 DEF Ready
    <3>7. g.flush_count <= Len(g.frames) - 1
      <4>1. e.flush_count \in Nat
        BY DEF EncType
      <4> QED BY <1>4, <1>5, <3>3, <3>6, <4>1
    <3> QED BY <1>4, <3>2, <3>3, <3>4, <3>5, <3>7
  <2> QED BY <2>1, <2>2
<1> HIDE DEF g
<1>8. f \in EncType /\ Filled(f) /\ SameCall(g, f)
  BY <1>1, <1>7, WindowClosedIsSound DEF g
<1>9. NextCall(e, f)
  BY <1>7, <1>8 DEF NextCall, SameCall
<1> QED BY <1>8, <1>9

(* What is flushed, at once or after the frame is cached, leaves a quiet     *)
(* encoder.                                                                  *)
Calm(e) ==
  /\ e.flush_count = 0 /\ ~e.is_first_frame /\ e.frames # <<>>
  /\ KeyIsThere(e) /\ Window(e) /\ Reach(e) <= Size

LEMMA FilledIsFlushed ==
  ASSUME caller \in Callers, NEW e \in EncType, NEW o \in OutType, Filled(e)
  PROVE  LET p == FlushFrames(State(e, o))
         IN /\ p = State(p.enc, p.out) /\ p.enc \in EncType /\ p.out \in OutType
            /\ Calm(p.enc) /\ SameCall(e, p.enc)
<1> DEFINE p == FlushFrames(State(e, o))
           n == e.flush_count
<1>1. /\ n \in Nat /\ e.start \in Nat /\ Len(e.frames) \in Nat /\ n <= Len(e.frames) - 1
      /\ KeyIsThere(e) /\ Reach(e) <= Size /\ e.count_since_key_frame \in Nat
  BY DEF EncType, Filled
<1>2. /\ p = State(p.enc, p.out) /\ p.enc \in EncType /\ p.out \in OutType
      /\ PushedCounts(e, p.enc, n) /\ KeyIsThere(p.enc)
      /\ p.enc.start = (IF Len(e.frames) = n + 1 THEN 0 ELSE e.start + n)
  BY <1>1, FlushIsSound
<1> HIDE DEF p
<1>3. /\ p.enc.flush_count = 0 /\ Len(p.enc.frames) = Len(e.frames) - n
      /\ p.enc.best_delta = e.best_delta /\ SameCall(e, p.enc)
      /\ p.enc.count_since_key_frame = e.count_since_key_frame
  BY <1>1, <1>2 DEF PushedCounts
<1>4. p.enc.frames # <<>>
  <2>1. Len(p.enc.frames) # Len(<<>>)
    BY <1>1, <1>3
  <2> QED BY <2>1
<1>5. ~p.enc.is_first_frame
  BY <1>3 DEF SameCall, Filled
<1>6. Window(p.enc) /\ Reach(p.enc) <= Size
  <2>1. CASE Len(e.frames) = n + 1
    <3>1. p.enc.start = 0 /\ Len(p.enc.frames) = 1
      BY <1>1, <1>2, <1>3, <2>1
    <3>2. Reach(p.enc) = 1 /\ IsShort(p.enc)
      BY <3>1 DEF Reach, IsShort
    <3>3. Reach(e) >= 1 /\ Reach(e) \in Int /\ Kmin \in Int
      <4>1. Len(e.frames) >= 1
        BY <1>1, <2>1
      <4> QED BY <1>1, <4>1, OptionsFit DEF Reach
    <3>4. InWindow(p.enc)
      BY <1>1, <1>3, <3>2, <3>3 DEF InWindow, Filled, Reach
    <3> QED BY <3>2, <3>4, OptionsFit DEF Window
  <2>2. CASE Len(e.frames) # n + 1
    <3>1. p.enc.start + Len(p.enc.frames) = e.start + Len(e.frames)
      BY <1>1, <1>2, <1>3, <2>2
    <3>2. Reach(p.enc) = Reach(e)
      BY <3>1 DEF Reach
    <3>3. n # Len(e.frames) - 1
      BY <1>1, <2>2
    <3> QED BY <1>1, <1>3, <3>2, <3>3 DEF Window, InWindow, Filled
  <2> QED BY <2>1, <2>2
<1> QED BY <1>2, <1>3, <1>4, <1>5, <1>6 DEF Calm, p

(* A frame that adds nothing leaves what it found.                           *)
LEMMA SkippedIsSound ==
  ASSUME caller \in Callers, NEW e \in EncType, Ready(e)
  PROVE  Skipped(e) \in EncType /\ Filled(Skipped(e)) /\ NextCall(e, Skipped(e))
<1> DEFINE f == Skipped(e)
<1>1. f \in EncType
  <2>1. e.in_frame_count + 1 \in Nat
    BY DEF EncType
  <2> QED BY <2>1 DEF EncType, Skipped
<1>2. /\ f.frames = e.frames /\ f.start = e.start /\ f.flush_count = e.flush_count
      /\ f.best_delta = e.best_delta /\ f.keyframe = e.keyframe /\ NextCall(e, f)
      /\ f.count_since_key_frame = e.count_since_key_frame
      /\ f.is_first_frame = e.is_first_frame
  BY DEF EncType, Skipped, NextCall
<1> HIDE DEF f
<1>3. KeyIsThere(f) /\ Reach(f) = Reach(e)
  BY <1>2 DEF KeyIsThere, Reach, Ready
<1>4. /\ Len(e.frames) \in Nat \ {0} /\ e.count_since_key_frame \in Nat /\ e.start \in Nat
      /\ e.flush_count \in Nat
  BY DEF EncType, Ready
<1>5. Reach(e) \in Nat /\ Size \in Nat /\ Kmin \in Int
  BY <1>4, OptionsFit DEF Reach
<1>6. \/ f.flush_count = Len(f.frames) - 1
      \/ f.best_delta # DeltaInfinity /\ f.count_since_key_frame < Kmax
  <2>1. CASE IsShort(e) /\ e.flush_count = 0
    <3>1. f.flush_count = Len(f.frames) - 1
      BY <1>2, <2>1 DEF IsShort
    <3> QED BY <3>1
  <2>2. CASE ~(IsShort(e) /\ e.flush_count = 0)
    BY <1>2, <2>2 DEF Ready, Window
  <2> QED BY <2>1, <2>2
<1>7. f.best_delta # DeltaInfinity => Reach(f) <= f.count_since_key_frame - Kmin
  BY <1>2, <1>3 DEF Ready, InWindow
<1>8. f.flush_count <= Len(f.frames) - 1
  BY <1>2, <1>4 DEF Ready
<1>9. Filled(f)
  BY <1>2, <1>3, <1>4, <1>5, <1>6, <1>7, <1>8 DEF Filled, Ready
<1> QED BY <1>1, <1>2, <1>9 DEF f

LEMMA AcceptedIsSound ==
  ASSUME caller \in Callers, NEW e \in EncType,
         e.is_first_frame => Quiet(e), ~e.is_first_frame => Ready(e),
         NEW method \in caller.methods, NEW cur \in Canvas,
         NEW f \in Accepted(e, method, cur)
  PROVE  f \in EncType /\ Filled(f) /\ NextCall(e, f)
<1>1. CASE e.is_first_frame
  <2>1. e.is_first_frame = TRUE
    BY <1>1 DEF EncType
  <2>2. f \in CachedFirst(e, method, cur)
    BY <1>1 DEF Accepted, Cached
  <2> QED BY <1>1, <2>1, <2>2, CachedFirstIsSound
<1>2. CASE ~e.is_first_frame
  <2>1. \/ f = Skipped(e)
        \/ f \in CachedAsSubFrame(e, method, cur)
        \/ MayBeKey(e) /\ f \in CachedAsEither(e, method, cur)
    BY <1>2 DEF Accepted, Cached
  <2> QED
    BY <1>2, <2>1, SkippedIsSound, CachedAsSubFrameIsSound, CachedAsEitherIsSound
<1> QED BY <1>1, <1>2

LEMMA FailedIsSound ==
  ASSUME caller \in Callers, NEW e \in EncType, InBounds(e),
         ~e.is_first_frame => e.frames # <<>>,
         NEW method \in caller.methods, NEW cur \in Canvas,
         NEW f \in EncodingFailed(e, method, cur)
  PROVE  f \in EncType /\ InBounds(f)
<1>1. CASE f = e
  BY <1>1
<1>2. CASE f # e
  <2>1. PICK c \in SubFrames(e, method, cur) :
          f = [WithPreviousDispose(e, c.dispose) EXCEPT !.prev_rect = c.frame.rect]
    BY <1>2 DEF EncodingFailed
  <2>2. e.frames # <<>>
    BY <1>2 DEF EncodingFailed
  <2>3. c.frame.rect \in Rects /\ c.dispose \in {"none", "background"}
    BY SubFramesAreSound DEF IsCandidate, SoundFrame, FrameType
  <2> DEFINE d == WithPreviousDispose(e, c.dispose)
  <2>4. d \in EncType /\ SameCounts(e, d)
    BY <2>2, <2>3, PreviousDisposeIsSound
  <2> HIDE DEF d
  <2>5. f = [d EXCEPT !.prev_rect = c.frame.rect]
    BY <2>1 DEF d
  <2>6. f \in EncType
    BY <2>3, <2>4, <2>5 DEF EncType
  <2>7. f.frames = d.frames /\ f.start = d.start /\ f.flush_count = d.flush_count
        /\ f.keyframe = d.keyframe
    BY <2>4, <2>5 DEF EncType
  <2>8. /\ Len(f.frames) = Len(e.frames) /\ f.start = e.start /\ f.keyframe = e.keyframe
        /\ f.flush_count = e.flush_count
        /\ \A i \in 1..Len(e.frames) : f.frames[i].is_key_frame = e.frames[i].is_key_frame
    BY <2>4, <2>7 DEF SameCounts
  <2>9. KeyIsThere(f)
    <3>1. Len(e.frames) \in Nat /\ e.keyframe \in Nat \union {KeyframeNone} /\ KeyIsThere(e)
      BY DEF EncType, InBounds
    <3> QED BY <2>8, <3>1, KeyStays
  <2> QED BY <2>6, <2>8, <2>9 DEF InBounds, Reach
<1> QED BY <1>1, <1>2

-----------------------------------------------------------------------------
(* The calls, one after another.                                             *)
LEMMA TimeIsInt ==
  ASSUME StateInv, NEW t \in Times
  PROVE  t \in Int
<1>1. caller.steps \subseteq Int /\ enc.prev_timestamp \in Nat
  BY EncoderAssumption DEF StateInv, CallerType, EncType
<1> QED BY <1>1 DEF Times

LEMMA GivenCanvas ==
  ASSUME caller \in Callers, NEW cur \in caller.canvases
  PROVE  cur \in Canvas
BY EncoderAssumption DEF CallerType

(* What StateInv asks after a call that has failed, or was the last.         *)
LEMMA KeptAfter ==
  ASSUME StateInv, NEW e \in EncType, NEW o \in OutType, InBounds(e), enc' = e, out' = o,
         UNCHANGED caller, seen' \in Canvas, ret' \in {"none", "ok", "error", "assembled"},
         ret' \in {"none", "ok"} => e.got_null_frame = TRUE
  PROVE  StateInv'
BY DEF StateInv, IsQuiet, InBounds, Size, Options, KeyIsThere, Reach

(* The timestamps go no further than the frames added so far may last.       *)
LEMMA StepsAddUp ==
  ASSUME NEW n \in Nat, n > 0, NEW p \in Int, NEW k \in Nat, p <= (n - 1) * k,
         NEW t \in Int, t - p \in 0..k
  PROVE  t <= n * k
<1>1. n * k = (n - 1) * k + k
  OBVIOUS
<1> DEFINE a == (n - 1) * k
           b == n * k
<1>2. a \in Int /\ b \in Int /\ b = a + k /\ p <= a
  BY <1>1
<1> HIDE DEF a, b
<1>3. t <= b
  BY <1>2
<1> QED BY <1>3 DEF b

LEMMA AddIsSound ==
  ASSUME StateInv, NEW t \in Times, NEW cur \in caller.canvases,
         NEW method \in caller.methods, Add(cur, method, t)
  PROVE  StateInv'
<1> DEFINE s == Started(t)
<1>1. /\ caller \in Callers /\ enc \in EncType /\ Quiet(enc) /\ ~enc.got_null_frame
      /\ t \in Int /\ cur \in Canvas /\ t - enc.prev_timestamp \in 0..MaxDuration - 1
  BY TimeIsInt, GivenCanvas DEF StateInv, Add, MayAdd, MayCall, IsQuiet, Timely
<1>2. /\ s = State(s.enc, s.out) /\ s.enc \in EncType /\ s.out \in OutType
      /\ SameCall(enc, s.enc)
      /\ enc.is_first_frame => s.enc = enc
      /\ ~enc.is_first_frame => Ready(s.enc)
  BY <1>1, StartedIsReady DEF Add
<1>3. PICK e \in Accepted(s.enc, method, cur) :
        Return([FlushFrames(State(e, s.out)) EXCEPT !.enc.prev_timestamp = t], "ok")
  BY DEF Add
<1> HIDE DEF s
<1>4. /\ s.enc.is_first_frame => Quiet(s.enc)
      /\ ~s.enc.is_first_frame => Ready(s.enc)
  <2>1. s.enc.is_first_frame = enc.is_first_frame
    BY <1>2 DEF SameCall
  <2> QED BY <1>1, <1>2, <2>1, Zenon
<1>6. e \in EncType /\ Filled(e) /\ NextCall(s.enc, e)
  BY <1>1, <1>2, <1>4, AcceptedIsSound
<1> DEFINE p == FlushFrames(State(e, s.out))
<1>7. /\ p = State(p.enc, p.out) /\ p.enc \in EncType /\ p.out \in OutType
      /\ Calm(p.enc) /\ SameCall(e, p.enc)
  BY <1>1, <1>2, <1>6, FilledIsFlushed
<1> HIDE DEF p
<1>8. /\ enc' = [p.enc EXCEPT !.prev_timestamp = t] /\ out' = p.out /\ ret' = "ok"
      /\ UNCHANGED caller
  <2>1. [p EXCEPT !.enc.prev_timestamp = t]
          = State([p.enc EXCEPT !.prev_timestamp = t], p.out)
    BY <1>7 DEF State
  <2> QED BY <1>3, <2>1 DEF Return, State, p
<1>9. seen' = cur
  BY DEF Add
<1>10. /\ enc.in_frame_count \in Nat /\ enc.prev_timestamp \in Nat /\ MaxDuration - 1 \in Nat
  BY <1>1, EncoderAssumption DEF EncType
<1>11. p.enc.in_frame_count = enc.in_frame_count + 1
  BY <1>1, <1>2, <1>6, <1>7 DEF SameCall, NextCall
<1>12. t \in Nat /\ t <= enc.in_frame_count * (MaxDuration - 1)
  <2>1. t \in Nat
    BY <1>1, <1>10
  <2>2. CASE enc.is_first_frame
    <3>1. enc.in_frame_count = 0 /\ t = 0
      BY <1>1, <2>2 DEF Quiet, Untouched, Times
    <3> QED BY <1>10, <3>1
  <2>3. CASE ~enc.is_first_frame
    <3>1. /\ enc.in_frame_count > 0
          /\ enc.prev_timestamp <= (enc.in_frame_count - 1) * (MaxDuration - 1)
      BY <1>1, <2>3 DEF Quiet
    <3> QED BY <1>1, <1>10, <2>1, <3>1, StepsAddUp
  <2> QED BY <2>1, <2>2, <2>3
<1>13. enc' \in EncType
  BY <1>7, <1>8, <1>12 DEF EncType
<1>14. /\ enc'.flush_count = p.enc.flush_count /\ enc'.frames = p.enc.frames
       /\ enc'.start = p.enc.start /\ enc'.keyframe = p.enc.keyframe
       /\ enc'.best_delta = p.enc.best_delta /\ enc'.prev_timestamp = t
       /\ enc'.count_since_key_frame = p.enc.count_since_key_frame
       /\ enc'.is_first_frame = p.enc.is_first_frame
       /\ enc'.in_frame_count = enc.in_frame_count + 1
  BY <1>7, <1>8, <1>11 DEF EncType
<1>15. InBounds(enc)'
  BY <1>7, <1>8, <1>14 DEF Calm, InBounds, KeyIsThere, Reach, Size, Options, EncType
<1>16. Quiet(enc)'
  <2>1. Window(enc)'
    BY <1>7, <1>8, <1>14 DEF Calm, Window, InWindow, IsShort, Reach, Kmax, Kmin, Options
  <2>2. enc'.in_frame_count > 0 /\ enc'.in_frame_count - 1 = enc.in_frame_count
    BY <1>10, <1>14
  <2>3. enc'.prev_timestamp <= (enc'.in_frame_count - 1) * (MaxDuration - 1)
    BY <1>12, <1>14, <2>2
  <2> QED BY <1>7, <1>14, <2>1, <2>2, <2>3 DEF Quiet, Calm
<1> QED
  BY <1>1, <1>7, <1>8, <1>9, <1>13, <1>15, <1>16 DEF StateInv

LEMMA PushedInBounds ==
  ASSUME NEW e \in EncType, NEW o \in OutType, InBounds(e), NEW n \in 0..e.flush_count
  PROVE  LET p == Pushed(State(e, o), n)
         IN /\ p = State(p.enc, p.out) /\ p.enc \in EncType /\ p.out \in OutType
            /\ InBounds(p.enc)
<1> DEFINE p == Pushed(State(e, o), n)
<1>1. KeyIsThere(e) /\ Reach(e) <= Size /\ e.flush_count <= Len(e.frames)
  BY DEF InBounds
<1>2. /\ p = State(p.enc, p.out) /\ p.enc \in EncType /\ p.out \in OutType
      /\ PushedCounts(e, p.enc, n) /\ KeyIsThere(p.enc) /\ p.enc.start = e.start + n
  BY <1>1, PushedIsSound
<1> HIDE DEF p
<1>3. /\ e.start \in Nat /\ Len(e.frames) \in Nat /\ e.flush_count \in Nat /\ n \in Nat
  BY DEF EncType
<1>4. /\ p.enc.flush_count = e.flush_count - n
      /\ Len(p.enc.frames) = Len(e.frames) - n
  BY <1>2 DEF PushedCounts
<1>5. Reach(p.enc) = Reach(e) /\ p.enc.flush_count <= Len(p.enc.frames)
  BY <1>1, <1>2, <1>3, <1>4 DEF Reach
<1> QED BY <1>1, <1>2, <1>5 DEF InBounds, p

LEMMA FlushInBounds ==
  ASSUME caller \in Callers, NEW e \in EncType, NEW o \in OutType, InBounds(e)
  PROVE  LET p == FlushFrames(State(e, o))
         IN /\ p = State(p.enc, p.out) /\ p.enc \in EncType /\ p.out \in OutType
            /\ InBounds(p.enc)
<1> DEFINE p == FlushFrames(State(e, o))
           n == e.flush_count
<1>1. KeyIsThere(e) /\ Reach(e) <= Size /\ n <= Len(e.frames)
  BY DEF InBounds
<1>2. /\ p = State(p.enc, p.out) /\ p.enc \in EncType /\ p.out \in OutType
      /\ PushedCounts(e, p.enc, n) /\ KeyIsThere(p.enc)
      /\ p.enc.start = (IF Len(e.frames) = n + 1 THEN 0 ELSE e.start + n)
  BY <1>1, FlushIsSound
<1> HIDE DEF p
<1>3. e.start \in Nat /\ Len(e.frames) \in Nat /\ n \in Nat /\ Size \in Nat
  BY OptionsFit DEF EncType
<1>4. p.enc.flush_count = 0 /\ Len(p.enc.frames) = Len(e.frames) - n
  BY <1>2, <1>3 DEF PushedCounts
<1> HIDE DEF n
<1>5. p.enc.start <= e.start + n /\ p.enc.start \in Int
  BY <1>2, <1>3
<1>6. Reach(p.enc) <= Size /\ p.enc.flush_count <= Len(p.enc.frames)
  BY <1>1, <1>3, <1>4, <1>5, SMTT(30) DEF Reach
<1> QED BY <1>2, <1>6 DEF InBounds, p

LEMMA IncreasedInBounds ==
  ASSUME caller \in Callers, NEW e \in EncType, Quiet(e), InBounds(e), e.frames # <<>>,
         NEW d \in 0..MaxDuration - 1
  PROVE  LET f == IncreasePreviousDuration(e, d) IN f \in EncType /\ InBounds(f)
<1> DEFINE f == IncreasePreviousDuration(e, d)
<1>1. f \in EncType /\ (SameCounts(e, f) \/ Paused(e, f))
  BY IncreaseIsSound
<1> HIDE DEF f
<1>2. /\ Len(e.frames) \in Nat /\ e.start \in Nat /\ e.flush_count \in Nat
      /\ e.keyframe \in Nat \union {KeyframeNone}
      /\ KeyIsThere(e) /\ e.flush_count <= Len(e.frames) /\ Reach(e) <= Size
  BY DEF EncType, InBounds
<1>3. CASE SameCounts(e, f)
  <2>1. KeyIsThere(f)
    BY <1>2, <1>3, KeyStays DEF SameCounts
  <2> QED BY <1>1, <1>2, <1>3, <2>1 DEF f, InBounds, Reach, SameCounts
<1>4. CASE Paused(e, f)
  <2>1. Len(f.frames) = Len(e.frames) + 1 /\ f.flush_count = Len(e.frames) /\ f.start = e.start
    BY <1>4 DEF Paused
  <2>2. KeyIsThere(f)
    BY <1>2, <1>4, <2>1, KeyStays DEF Paused
  <2>3. ~e.is_first_frame
    BY DEF Quiet, Untouched
  <2>4. Reach(e) + 1 <= Size
    BY <2>3, QuietHasRoom
  <2>5. Reach(f) <= Size /\ f.flush_count <= Len(f.frames)
    BY <1>2, <2>1, <2>4, SMTT(30) DEF Reach
  <2> QED BY <1>1, <2>2, <2>5 DEF f, InBounds
<1> QED BY <1>1, <1>3, <1>4

(* The mean of the steps so far is a duration, too.                          *)
LEMMA AverageIsADuration ==
  ASSUME NEW n \in Nat, n > 1, NEW p \in Nat, NEW k \in Nat, p <= (n - 1) * k
  PROVE  p \div (n - 1) \in 0..k
<1> DEFINE m == n - 1
           q == p \div m
<1>1. m \in Nat /\ m > 0 /\ p <= m * k
  OBVIOUS
<1> HIDE DEF m
<1>2. q \in Int /\ m * q <= p /\ p < m * q + m /\ q >= 0
  BY <1>1
<1> HIDE DEF q
<1>3. q <= k
  <2> SUFFICES ASSUME q >= k + 1 PROVE FALSE
    BY <1>2
  <2>1. m * q >= m * (k + 1) /\ m * (k + 1) = m * k + m
    BY <1>1, <1>2
  <2> DEFINE a == m * q
             b == m * k
             c == m * (k + 1)
  <2>2. a \in Int /\ b \in Int /\ c \in Int /\ a >= c /\ c = b + m /\ a <= p /\ p <= b
    BY <1>1, <1>2, <2>1
  <2> HIDE DEF a, b, c
  <2> QED BY <1>1, <2>2
<1> QED BY <1>2, <1>3 DEF q, m

(* What a call of WebPAnimEncoderAdd begins with.                            *)
Begun(t) ==
  LET s == Started(t)
  IN /\ s = State(s.enc, s.out) /\ s.enc \in EncType /\ s.out \in OutType
     /\ InBounds(s.enc)
     /\ s.enc.is_first_frame => Quiet(s.enc)
     /\ ~s.enc.is_first_frame => Ready(s.enc)

LEMMA EachCallBegins ==
  ASSUME StateInv, MayAdd, NEW t \in Times, Timely(t)
  PROVE  Begun(t) /\ t \in Nat
<1> DEFINE s == Started(t)
<1>1. caller \in Callers /\ enc \in EncType /\ Quiet(enc) /\ t \in Int
  BY TimeIsInt DEF StateInv, MayAdd, MayCall, IsQuiet
<1>2. /\ s = State(s.enc, s.out) /\ s.enc \in EncType /\ s.out \in OutType
      /\ InBounds(s.enc) /\ SameCall(enc, s.enc)
      /\ enc.is_first_frame => s.enc = enc
      /\ ~enc.is_first_frame => Ready(s.enc)
  BY <1>1, StartedIsReady
<1> HIDE DEF s
<1>3. /\ s.enc.is_first_frame => Quiet(s.enc)
      /\ ~s.enc.is_first_frame => Ready(s.enc)
  <2>1. s.enc.is_first_frame = enc.is_first_frame
    BY <1>2 DEF SameCall
  <2> QED BY <1>1, <1>2, <2>1, Zenon
<1>4. t \in Nat
  <2>1. enc.prev_timestamp \in Nat /\ t - enc.prev_timestamp \in Nat
    BY <1>1, EncoderAssumption DEF EncType, Timely
  <2> QED BY <1>1, <2>1
<1> QED BY <1>2, <1>3, <1>4 DEF Begun, s

LEMMA FailingCallsAreSound ==
  ASSUME StateInv, NEW t \in Times,
         \/ \E cur \in caller.canvases, method \in caller.methods :
              AddFails(cur, method, t) \/ AddIsNotMuxed(cur, method, t)
         \/ PauseIsNotMuxed(t) \/ AddRefused(t) \/ AddTooLate(t)
  PROVE  StateInv'
<1> DEFINE s == Started(t)
<1>1. /\ caller \in Callers /\ enc \in EncType /\ out \in OutType /\ InBounds(enc)
      /\ seen \in Canvas
  BY DEF StateInv
<1>2. ASSUME NEW cur \in caller.canvases, NEW method \in caller.methods,
             AddFails(cur, method, t)
      PROVE  StateInv'
  <2>1. Begun(t) /\ cur \in Canvas
    BY <1>1, <1>2, EachCallBegins, GivenCanvas DEF AddFails
  <2>2. PICK e \in EncodingFailed(s.enc, method, cur) : Return(State(e, s.out), "error")
    BY <1>2 DEF AddFails
  <2> HIDE DEF s
  <2>3. s.enc \in EncType /\ s.out \in OutType /\ InBounds(s.enc)
        /\ (~s.enc.is_first_frame => s.enc.frames # <<>>)
    BY <2>1 DEF Begun, Ready, s
  <2>4. e \in EncType /\ InBounds(e)
    BY <1>1, <2>1, <2>3, FailedIsSound
  <2>5. enc' = e /\ out' = s.out /\ ret' = "error" /\ UNCHANGED <<caller, seen>>
    BY <1>2, <2>2 DEF AddFails, Return, State
  <2> QED BY <1>1, <2>3, <2>4, <2>5, KeptAfter
<1>3. ASSUME NEW cur \in caller.canvases, NEW method \in caller.methods,
             AddIsNotMuxed(cur, method, t)
      PROVE  StateInv'
  <2>1. Begun(t) /\ cur \in Canvas
    BY <1>1, <1>3, EachCallBegins, GivenCanvas DEF AddIsNotMuxed
  <2>2. PICK e \in Accepted(s.enc, method, cur) : \E n \in 0..e.flush_count - 1 :
          Return(Pushed(State(e, s.out), n), "error")
    BY <1>3 DEF AddIsNotMuxed
  <2>3. PICK n \in 0..e.flush_count - 1 : Return(Pushed(State(e, s.out), n), "error")
    BY <2>2
  <2> HIDE DEF s
  <2>4. /\ s.enc \in EncType /\ s.out \in OutType
        /\ s.enc.is_first_frame => Quiet(s.enc)
        /\ ~s.enc.is_first_frame => Ready(s.enc)
    BY <2>1 DEF Begun, s
  <2>5. e \in EncType /\ Filled(e)
    BY <1>1, <2>1, <2>4, AcceptedIsSound
  <2>6. InBounds(e) /\ n \in 0..e.flush_count
    <3>1. e.flush_count \in Nat /\ Len(e.frames) \in Nat
      BY <2>5 DEF EncType
    <3> QED BY <2>5, <3>1 DEF Filled, InBounds
  <2> DEFINE p == Pushed(State(e, s.out), n)
  <2>7. /\ p = State(p.enc, p.out) /\ p.enc \in EncType /\ p.out \in OutType
        /\ InBounds(p.enc)
    BY <2>4, <2>5, <2>6, PushedInBounds
  <2>8. /\ enc' = p.enc /\ out' = p.out /\ ret' = "error" /\ UNCHANGED caller
        /\ seen' = cur
    BY <1>3, <2>3 DEF AddIsNotMuxed, Return
  <2> HIDE DEF p
  <2> QED BY <2>1, <2>7, <2>8, KeptAfter
<1>4. CASE PauseIsNotMuxed(t)
  <2> DEFINE d == t - enc.prev_timestamp
             f == IncreasePreviousDuration(enc, d)
  <2>1. /\ Quiet(enc) /\ ~enc.is_first_frame /\ d \in 0..MaxDuration - 1
        /\ enc.frames # <<>>
    BY <1>4 DEF PauseIsNotMuxed, StateInv, IsQuiet, MayAdd, MayCall, Timely, Quiet
  <2>2. f \in EncType /\ InBounds(f)
    BY <1>1, <2>1, IncreasedInBounds
  <2>3. Lengthened(t) = State(f, out)
    BY DEF Lengthened
  <2> HIDE DEF f
  <2>4. PICK n \in 0..f.flush_count - 1 : Return(Pushed(State(f, out), n), "error")
    BY <1>4, <2>3 DEF PauseIsNotMuxed, State
  <2>5. n \in 0..f.flush_count
    BY <2>2 DEF EncType
  <2> DEFINE p == Pushed(State(f, out), n)
  <2>6. /\ p = State(p.enc, p.out) /\ p.enc \in EncType /\ p.out \in OutType
        /\ InBounds(p.enc)
    BY <1>1, <2>2, <2>5, PushedInBounds
  <2>7. enc' = p.enc /\ out' = p.out /\ ret' = "error" /\ UNCHANGED <<caller, seen>>
    BY <1>4, <2>4 DEF PauseIsNotMuxed, Return
  <2> HIDE DEF p
  <2> QED BY <1>1, <2>6, <2>7, KeptAfter
<1>5. CASE AddRefused(t)
  <2>1. s.enc \in EncType /\ s.out \in OutType /\ InBounds(s.enc)
    BY <1>5, EachCallBegins DEF AddRefused, Begun
  <2>2. enc' = s.enc /\ out' = s.out /\ ret' = "error" /\ UNCHANGED <<caller, seen>>
    BY <1>5 DEF AddRefused, Return
  <2> HIDE DEF s
  <2> QED BY <1>1, <2>1, <2>2, KeptAfter
<1>6. CASE AddTooLate(t)
  <2>1. enc' = enc /\ out' = out /\ ret' = "error" /\ UNCHANGED <<caller, seen>>
    BY <1>6 DEF AddTooLate, Return, State
  <2> QED BY <1>1, <2>1, KeptAfter
<1> QED BY <1>2, <1>3, <1>4, <1>5, <1>6

LEMMA AddNullIsSound ==
  ASSUME StateInv, NEW t \in Times, AddNull(t)
  PROVE  StateInv'
<1> DEFINE s == Started(t)
           e == [s.enc EXCEPT !.got_null_frame = TRUE, !.prev_timestamp = t]
<1>1. /\ s = State(s.enc, s.out) /\ s.enc \in EncType /\ s.out \in OutType
      /\ InBounds(s.enc) /\ t \in Nat
  BY EachCallBegins DEF AddNull, Begun
<1>2. Return([s EXCEPT !.enc.got_null_frame = TRUE, !.enc.prev_timestamp = t], "ok")
  BY DEF AddNull
<1> HIDE DEF s
<1>3. enc' = e /\ out' = s.out /\ ret' = "ok" /\ UNCHANGED <<caller, seen>>
  <2>1. [s EXCEPT !.enc.got_null_frame = TRUE, !.enc.prev_timestamp = t] = State(e, s.out)
    <3> DEFINE k == [s.enc EXCEPT !.got_null_frame = TRUE]
               u == [s EXCEPT !.enc = k]
    <3>1. u = State(k, s.out)
      <4>1. PICK h \in EncType, o \in OutType : s = State(h, o) /\ h = s.enc /\ o = s.out
        BY <1>1
      <4> HIDE DEF k
      <4> QED BY <4>1 DEF State
    <3>2. u.enc = k /\ u.out = s.out
      BY <3>1 DEF State
    <3>3. e = [k EXCEPT !.prev_timestamp = t]
      BY <1>1 DEF EncType
    <3>4. [s EXCEPT !.enc.got_null_frame = TRUE, !.enc.prev_timestamp = t]
            = [u EXCEPT !.enc = [u.enc EXCEPT !.prev_timestamp = t]]
      OBVIOUS
    <3> HIDE DEF k, u, e
    <3> QED BY <3>1, <3>2, <3>3, <3>4 DEF State
  <2> QED BY <1>2, <2>1 DEF AddNull, Return, State
<1>4. e \in EncType /\ e.got_null_frame = TRUE
  BY <1>1 DEF EncType
<1>5. e.frames = s.enc.frames /\ e.start = s.enc.start /\ e.flush_count = s.enc.flush_count
      /\ e.keyframe = s.enc.keyframe
  BY <1>1 DEF EncType
<1> HIDE DEF e
<1>6. InBounds(e)
  BY <1>1, <1>5 DEF InBounds, KeyIsThere, Reach
<1> QED BY <1>1, <1>3, <1>4, <1>6, KeptAfter DEF StateInv

(* All frames are due: none lies behind the cache.                           *)
LEMMA DueIsSound ==
  ASSUME StateInv, MayCall, enc.in_frame_count > 0
  PROVE  Due = State(Due.enc, out) /\ Due.enc \in EncType /\ InBounds(Due.enc)
<1> DEFINE f == IF ~enc.got_null_frame /\ enc.in_frame_count > 1 /\ enc.frames # <<>>
                THEN IncreasePreviousDuration(enc, AverageDuration) ELSE enc
           n == Len(f.frames)
           e == [f EXCEPT !.flush_count = n]
<1>1. /\ caller \in Callers /\ enc \in EncType /\ InBounds(enc)
      /\ enc.in_frame_count \in Nat /\ enc.prev_timestamp \in Nat
      /\ MaxDuration - 1 \in Nat
  BY EncoderAssumption DEF StateInv, EncType
<1>2. f \in EncType /\ InBounds(f)
  <2>1. CASE ~enc.got_null_frame /\ enc.in_frame_count > 1 /\ enc.frames # <<>>
    <3>1. Quiet(enc)
      BY <2>1 DEF StateInv, IsQuiet, MayCall
    <3>2. ~enc.is_first_frame
      BY <2>1, <3>1 DEF Quiet, Untouched
    <3>3. enc.prev_timestamp <= (enc.in_frame_count - 1) * (MaxDuration - 1)
      BY <3>1, <3>2 DEF Quiet
    <3>4. AverageDuration \in 0..MaxDuration - 1
      BY <1>1, <2>1, <3>3, AverageIsADuration DEF AverageDuration
    <3> QED BY <1>1, <2>1, <3>1, <3>4, IncreasedInBounds
  <2>2. CASE ~(~enc.got_null_frame /\ enc.in_frame_count > 1 /\ enc.frames # <<>>)
    BY <1>1, <2>2
  <2> QED BY <2>1, <2>2
<1>3. Due = State(e, out)
  BY DEF Due
<1> HIDE DEF f
<1>4. n \in Nat
  BY <1>2 DEF EncType
<1> HIDE DEF n
<1>5. e \in EncType
  BY <1>2, <1>4 DEF EncType
<1>6. e.frames = f.frames /\ e.start = f.start /\ e.flush_count = n /\ e.keyframe = f.keyframe
  BY <1>2 DEF EncType
<1> HIDE DEF e
<1>7. InBounds(e)
  BY <1>2, <1>4, <1>6 DEF InBounds, KeyIsThere, Reach, n
<1>8. Due.enc = e
  BY <1>3 DEF State
<1> QED BY <1>3, <1>5, <1>7, <1>8

LEMMA AssemblyIsSound ==
  ASSUME StateInv, Assemble \/ AssembleFails
  PROVE  StateInv'
<1>1. MayCall /\ enc.in_frame_count > 0 /\ UNCHANGED <<caller, seen>>
  BY DEF Assemble, AssembleFails, Return
<1>2. caller \in Callers /\ out \in OutType /\ seen \in Canvas
  BY DEF StateInv
<1>3. PICK e \in EncType : Due = State(e, out) /\ Due.enc = e /\ InBounds(e)
  BY <1>1, DueIsSound
<1>4. CASE Assemble
  <2> DEFINE p == FlushFrames(State(e, out))
  <2>1. /\ p = State(p.enc, p.out) /\ p.enc \in EncType /\ p.out \in OutType
        /\ InBounds(p.enc)
    BY <1>2, <1>3, FlushInBounds
  <2>2. Return(p, "assembled") \/ Return([p EXCEPT !.out = AsStill(@)], "assembled")
    BY <1>3, <1>4 DEF Assemble
  <2> HIDE DEF p
  <2>3. AsStill(p.out) \in OutType
    <3>1. [q \in Pixels |-> IF q \in Span(p.out.frame.rect) THEN p.out.frame.pixels[q]
                            ELSE Clear] \in [Pixels -> Colours \union {Mixed}]
      BY <2>1 DEF OutType, SoundFrame, FrameType, Canvas, Colours
    <3> QED BY <2>1, <3>1 DEF AsStill, OutType
  <2>4. PICK o \in OutType : enc' = p.enc /\ out' = o /\ ret' = "assembled"
    <3>1. CASE Return(p, "assembled")
      BY <2>1, <3>1 DEF Return
    <3>2. CASE Return([p EXCEPT !.out = AsStill(@)], "assembled")
      <4>1. [p EXCEPT !.out = AsStill(@)] = State(p.enc, AsStill(p.out))
        BY <2>1 DEF State
      <4> QED BY <2>3, <3>2, <4>1 DEF Return, State
    <3> QED BY <2>2, <3>1, <3>2
  <2> QED BY <1>1, <1>2, <2>1, <2>4, KeptAfter
<1>5. CASE AssembleFails
  <2>1. PICK n \in 0..e.flush_count : Return(Pushed(State(e, out), n), "error")
    BY <1>3, <1>5 DEF AssembleFails
  <2> DEFINE p == Pushed(State(e, out), n)
  <2>2. /\ p = State(p.enc, p.out) /\ p.enc \in EncType /\ p.out \in OutType
        /\ InBounds(p.enc)
    BY <1>2, <1>3, PushedInBounds
  <2>3. enc' = p.enc /\ out' = p.out /\ ret' = "error"
    BY <2>1 DEF Return
  <2> HIDE DEF p
  <2> QED BY <1>1, <1>2, <2>2, <2>3, KeptAfter
<1> QED BY <1>4, <1>5

LEMMA NewIsSound ==
  ASSUME caller \in Callers
  PROVE  /\ NewEncoder \in EncType /\ NothingShown \in OutType /\ Blank \in Canvas
         /\ InBounds(NewEncoder) /\ Quiet(NewEncoder)
<1>1. Blank \in Canvas /\ NoRect \in Rects
  BY FixedRects DEF Blank, Canvas, Colours, SoundRect
<1>2. NewEncoder \in EncType
  BY <1>1 DEF NewEncoder, EncType
<1>3. NothingShown \in OutType
  <2>1. Blank \in [Pixels -> Colours \union {Mixed}]
    BY DEF Blank, Colours
  <2> QED BY <1>1, <2>1, FixedFrames DEF NothingShown, OutType
<1>4. Untouched(NewEncoder) /\ NewEncoder.flush_count = 0
  BY DEF NewEncoder, Untouched
<1>5. NewEncoder.is_first_frame = TRUE
  BY DEF NewEncoder
<1>6. Quiet(NewEncoder)
  BY <1>4, <1>5 DEF Quiet
<1>7. InBounds(NewEncoder)
  BY <1>4, OptionsFit DEF InBounds, KeyIsThere, Reach, Untouched
<1> QED BY <1>1, <1>2, <1>3, <1>6, <1>7

LEMMA StateHolds == Spec => []StateInv
<1>1. Init => StateInv
  <2> SUFFICES ASSUME Init PROVE StateInv
    OBVIOUS
  <2> QED BY NewIsSound DEF Init, StateInv, IsQuiet
<1>2. StateInv /\ [Next]_vars => StateInv'
  <2> SUFFICES ASSUME StateInv, [Next]_vars PROVE StateInv'
    OBVIOUS
  <2>1. CASE \E t \in Times : \E cur \in caller.canvases, method \in caller.methods :
               Add(cur, method, t)
    BY <2>1, AddIsSound
  <2>2. CASE \E t \in Times :
               \/ \E cur \in caller.canvases, method \in caller.methods :
                    AddFails(cur, method, t) \/ AddIsNotMuxed(cur, method, t)
               \/ PauseIsNotMuxed(t) \/ AddRefused(t) \/ AddTooLate(t)
    BY <2>2, FailingCallsAreSound
  <2>3. CASE \E t \in Times : AddNull(t)
    BY <2>3, AddNullIsSound
  <2>4. CASE Assemble \/ AssembleFails
    BY <2>4, AssemblyIsSound
  <2>5. CASE Delete
    <3>1. caller \in Callers /\ UNCHANGED caller /\ enc' = NewEncoder
          /\ out' = NothingShown /\ seen' = Blank /\ ret' = "none"
      BY <2>5 DEF Delete, StateInv
    <3>2. InBounds(enc)'
      BY <3>1, NewIsSound DEF InBounds, KeyIsThere, Reach, Size, Options
    <3>3. Quiet(enc)'
      BY <3>1, NewIsSound DEF Quiet, Untouched, Window, InWindow, IsShort, Reach,
                              Kmax, Kmin, Options
    <3> QED BY <3>1, <3>2, <3>3, NewIsSound DEF StateInv
  <2>6. CASE UNCHANGED vars
    BY <2>6 DEF vars, StateInv, InBounds, KeyIsThere, Reach, Size, Options, IsQuiet,
                Quiet, Untouched, Window, InWindow, IsShort, Kmax, Kmin
  <2> QED BY <2>1, <2>2, <2>3, <2>4, <2>5, <2>6 DEF Next
<1> QED BY <1>1, <1>2, PTL DEF Spec

(* StateIsSound: whatever is added, at what times and with what distances of *)
(* key-frames, and whichever calls fail, every field of WebPAnimEncoder      *)
(* keeps its range, no frame is written behind the cache that                *)
(* WebPAnimEncoderNewInternal sized, none is flushed that is not there, and  *)
(* the frame that may have to give up being a key-frame is one and is still  *)
(* there (the asserts of anim_encode.c, GetFrame and CacheFrame).            *)
THEOREM TheCacheIsLargeEnough == Spec => []StateIsSound
<1>1. StateInv => StateIsSound
  <2> SUFFICES ASSUME StateInv PROVE StateIsSound
    OBVIOUS
  <2>1. enc \in EncType /\ out \in OutType
    BY DEF StateInv
  <2>2. enc.frames \in Seq(SoundEntry)
    BY <2>1 DEF EncType
  <2>3. \A i \in DOMAIN enc.frames : enc.frames[i] \in SoundEntry
    BY <2>2
  <2>4. SoundEntry \subseteq EntryType
    BY DEF SoundEntry, SoundFrame, EntryType
  <2>5. enc.frames \in Seq(EntryType)
    BY <2>2, <2>3, <2>4
  <2>6. \A i \in DOMAIN enc.frames : /\ Inside(enc.frames[i].sub_frame)
                                    /\ Inside(enc.frames[i].key_frame)
    BY <2>3 DEF SoundEntry, SoundFrame
  <2>7. out.frame \in FrameType /\ Inside(out.frame)
    BY <2>1 DEF OutType, SoundFrame
  <2>8. TypeOK
    BY <2>1, <2>5, <2>6, <2>7 DEF TypeOK, StateInv, EncType, OutType
  <2>9. CacheInBounds
    BY DEF StateInv, CacheInBounds, InBounds, KeyIsThere, Reach, Size
  <2> QED BY <2>8, <2>9 DEF StateIsSound
<1> QED BY <1>1, StateHolds, PTL

-----------------------------------------------------------------------------
(* What a player makes of the frames, one by one.                            *)
Since(o, es, i) == Screens(o, es)[i].since_key
Time(o, es, i) == Screens(o, es)[i].time

LEMMA EachScreen ==
  ASSUME NEW o, NEW es, Len(es) \in Nat
  PROVE  /\ Screens(o, es)[0] = o
         /\ \A i \in Nat : i < Len(es) =>
              Screens(o, es)[i + 1] = Play(Screens(o, es)[i], es[i + 1])
<1> DEFINE s == Screens(o, es)
<1>1. s = [i \in 0..Len(es) |-> IF i = 0 THEN o ELSE Play(s[i - 1], es[i])]
  BY ScreensStep
<1> HIDE DEF s
<1>2. s[0] = o
  BY <1>1
<1>3. ASSUME NEW i \in Nat, i < Len(es) PROVE s[i + 1] = Play(s[i], es[i + 1])
  <2>1. i + 1 \in 0..Len(es) /\ i + 1 # 0 /\ i + 1 - 1 = i
    BY <1>3
  <2> QED BY <1>1, <2>1
<1> QED BY <1>2, <1>3 DEF s

LEMMA EachSince ==
  ASSUME NEW o, NEW es, Len(es) \in Nat
  PROVE  /\ Since(o, es, 0) = o.since_key
         /\ \A i \in Nat : i < Len(es) =>
              Since(o, es, i + 1) = IF es[i + 1].is_key_frame THEN 0
                                    ELSE IF es[i + 1].is_pause THEN Since(o, es, i)
                                    ELSE Since(o, es, i) + 1
<1>1. Since(o, es, 0) = o.since_key
  BY EachScreen DEF Since
<1>2. ASSUME NEW i \in Nat, i < Len(es)
      PROVE  Since(o, es, i + 1) = IF es[i + 1].is_key_frame THEN 0
                                   ELSE IF es[i + 1].is_pause THEN Since(o, es, i)
                                   ELSE Since(o, es, i) + 1
  <2>1. Screens(o, es)[i + 1] = Play(Screens(o, es)[i], es[i + 1])
    BY <1>2, EachScreen
  <2> QED BY <2>1 DEF Since, Play
<1> QED BY <1>1, <1>2

LEMMA EachTime ==
  ASSUME NEW o, NEW es, Len(es) \in Nat
  PROVE  /\ Time(o, es, 0) = o.time
         /\ \A i \in Nat : i < Len(es) =>
              Time(o, es, i + 1) = Time(o, es, i) + es[i + 1].duration
<1>1. Time(o, es, 0) = o.time
  BY EachScreen DEF Time
<1>2. ASSUME NEW i \in Nat, i < Len(es)
      PROVE  Time(o, es, i + 1) = Time(o, es, i) + es[i + 1].duration
  <2>1. Screens(o, es)[i + 1] = Play(Screens(o, es)[i], es[i + 1])
    BY <1>2, EachScreen
  <2> QED BY <2>1 DEF Time, Play
<1> QED BY <1>1, <1>2

LEMMA SincesAreNumbers ==
  ASSUME NEW o \in OutType, NEW es \in Seq(SoundEntry)
  PROVE  \A i \in 0..Len(es) : Since(o, es, i) \in Nat /\ Time(o, es, i) \in Nat
<1>1. \A i \in 0..Len(es) : Screens(o, es)[i] \in OutType
  BY ScreensAreSound
<1> QED BY <1>1 DEF Since, Time, OutType

(* The counts depend on nothing but the kinds of the frames, the times on    *)
(* nothing but their durations.                                              *)
SameKind(x, y) == x.is_key_frame = y.is_key_frame /\ x.is_pause = y.is_pause

LEMMA SameSince ==
  ASSUME NEW o \in OutType, NEW q \in OutType, o.since_key = q.since_key,
         NEW es \in Seq(SoundEntry), NEW fs \in Seq(SoundEntry),
         Len(es) <= Len(fs), \A j \in 1..Len(es) : SameKind(es[j], fs[j])
  PROVE  \A i \in 0..Len(es) : Since(o, es, i) = Since(q, fs, i)
<1> DEFINE n == Len(es)
<1> DEFINE S == {i \in Nat : i <= n => Since(o, es, i) = Since(q, fs, i)}
<1>0. Len(es) \in Nat /\ Len(fs) \in Nat
  OBVIOUS
<1>1. 0 \in S
  BY <1>0, EachSince
<1>2. ASSUME NEW i \in Nat, i \in S PROVE i + 1 \in S
  <2> SUFFICES ASSUME i + 1 <= n PROVE Since(o, es, i + 1) = Since(q, fs, i + 1)
    OBVIOUS
  <2>1. Since(o, es, i) = Since(q, fs, i)
    BY <1>2
  <2>2. i < Len(es) /\ i < Len(fs) /\ i + 1 \in 1..n
    OBVIOUS
  <2>3. SameKind(es[i + 1], fs[i + 1])
    BY <2>2
  <2>4. Since(o, es, i + 1) = IF es[i + 1].is_key_frame THEN 0
                              ELSE IF es[i + 1].is_pause THEN Since(o, es, i)
                              ELSE Since(o, es, i) + 1
    BY <1>0, <2>2, EachSince
  <2>5. Since(q, fs, i + 1) = IF fs[i + 1].is_key_frame THEN 0
                              ELSE IF fs[i + 1].is_pause THEN Since(q, fs, i)
                              ELSE Since(q, fs, i) + 1
    BY <1>0, <2>2, EachSince
  <2> QED BY <2>1, <2>3, <2>4, <2>5 DEF SameKind
<1> HIDE DEF S
<1>3. Nat \subseteq S
  BY <1>1, <1>2, SetInduction
<1> QED BY <1>3 DEF S

LEMMA SameTime ==
  ASSUME NEW o \in OutType, NEW q \in OutType, o.time = q.time,
         NEW es \in Seq(SoundEntry), NEW fs \in Seq(SoundEntry),
         Len(es) <= Len(fs), \A j \in 1..Len(es) : es[j].duration = fs[j].duration
  PROVE  \A i \in 0..Len(es) : Time(o, es, i) = Time(q, fs, i)
<1> DEFINE n == Len(es)
<1> DEFINE S == {i \in Nat : i <= n => Time(o, es, i) = Time(q, fs, i)}
<1>0. Len(es) \in Nat /\ Len(fs) \in Nat
  OBVIOUS
<1>1. 0 \in S
  BY <1>0, EachTime
<1>2. ASSUME NEW i \in Nat, i \in S PROVE i + 1 \in S
  <2> SUFFICES ASSUME i + 1 <= n PROVE Time(o, es, i + 1) = Time(q, fs, i + 1)
    OBVIOUS
  <2>1. Time(o, es, i) = Time(q, fs, i)
    BY <1>2
  <2>2. i < Len(es) /\ i < Len(fs) /\ i + 1 \in 1..n
    OBVIOUS
  <2>3. /\ Time(o, es, i + 1) = Time(o, es, i) + es[i + 1].duration
        /\ Time(q, fs, i + 1) = Time(q, fs, i) + fs[i + 1].duration
    BY <1>0, <2>2, EachTime
  <2> QED BY <2>1, <2>2, <2>3
<1> HIDE DEF S
<1>3. Nat \subseteq S
  BY <1>1, <1>2, SetInduction
<1> QED BY <1>3 DEF S

(* What is pushed has been shown; the rest follows as it would have.         *)
LEMMA RestIsShown ==
  ASSUME NEW o \in OutType, NEW es \in Seq(SoundEntry), NEW n \in 0..Len(es),
         NEW fs \in Seq(SoundEntry), Len(fs) = Len(es) - n,
         \A i \in 1..Len(fs) : fs[i] = es[i + n]
  PROVE  \A i \in 0..Len(fs) :
           Screens(Screens(o, es)[n], fs)[i] = Screens(o, es)[i + n]
<1> DEFINE q == Screens(o, es)[n]
           T == {i \in Nat : i <= Len(fs) => Screens(q, fs)[i] = Screens(o, es)[i + n]}
<1>1. Len(es) \in Nat /\ n \in Nat /\ Len(fs) \in Nat
  OBVIOUS
<1>2. 0 \in T
  BY <1>1, EachScreen
<1> HIDE DEF q
<1>3. ASSUME NEW i \in Nat, i \in T PROVE i + 1 \in T
  <2> SUFFICES ASSUME i + 1 <= Len(fs)
               PROVE  Screens(q, fs)[i + 1] = Screens(o, es)[i + 1 + n]
    OBVIOUS
  <2>1. Screens(q, fs)[i] = Screens(o, es)[i + n]
    BY <1>1, <1>3
  <2>2. /\ i < Len(fs) /\ i + n < Len(es) /\ i + n \in Nat /\ i + 1 + n = i + n + 1
        /\ i + 1 \in 1..Len(fs)
    BY <1>1
  <2>3. Screens(q, fs)[i + 1] = Play(Screens(q, fs)[i], fs[i + 1])
    BY <1>1, <2>2, EachScreen
  <2>4. Screens(o, es)[i + n + 1] = Play(Screens(o, es)[i + n], es[i + n + 1])
    BY <1>1, <2>2, EachScreen
  <2> QED BY <2>1, <2>2, <2>3, <2>4
<1> HIDE DEF T
<1>4. Nat \subseteq T
  BY <1>2, <1>3, SetInduction
<1> QED BY <1>1, <1>4 DEF T, q

(* Of what the calls make of the frames, only this matters for the times and *)
(* the distances of key-frames.                                              *)
Alike(x, y) == SameKind(x, y) /\ x.duration = y.duration

AllAlike(e, f) ==
  Len(f.frames) = Len(e.frames) /\ \A j \in 1..Len(e.frames) : Alike(e.frames[j], f.frames[j])

IsNew(x, key) == x.is_key_frame = key /\ x.is_pause = FALSE /\ x.duration = 0

Grown(e, f, key) ==
  /\ Len(f.frames) = Len(e.frames) + 1
  /\ \A j \in 1..Len(e.frames) : Alike(e.frames[j], f.frames[j])
  /\ IsNew(f.frames[Len(e.frames) + 1], key)

LEMMA DisposalKeepsKinds ==
  ASSUME NEW e \in EncType, e.frames # <<>>, NEW d \in {"none", "background"}
  PROVE  AllAlike(e, WithPreviousDispose(e, d))
<1> DEFINE last == Len(e.frames)
           x == e.frames[last]
           y == IF e.prev_candidate_undecided
                THEN [x EXCEPT !.sub_frame.dispose = d, !.key_frame.dispose = d]
                ELSE IF x.is_key_frame THEN [x EXCEPT !.key_frame.dispose = d]
                ELSE [x EXCEPT !.sub_frame.dispose = d]
           fs == [e.frames EXCEPT ![last] = y]
<1>1. e.frames \in Seq(SoundEntry) /\ last \in 1..Len(e.frames)
  BY DEF EncType
<1>2. x \in SoundEntry
  BY <1>1
<1>3. Alike(x, y)
  BY <1>2 DEF SoundEntry, Alike, SameKind
<1>4. WithPreviousDispose(e, d) = [e EXCEPT !.frames = fs]
  <2>1. CASE e.prev_candidate_undecided
    <3>1. y = [x EXCEPT !.sub_frame.dispose = d, !.key_frame.dispose = d]
      BY <2>1
    <3>2. fs = [e.frames EXCEPT ![last].sub_frame.dispose = d,
                                ![last].key_frame.dispose = d]
      BY <1>1, <1>2, <3>1 DEF SoundEntry
    <3> QED BY <2>1, <3>2 DEF WithPreviousDispose, EncType
  <2>2. CASE ~e.prev_candidate_undecided
    BY <2>2 DEF WithPreviousDispose
  <2> QED BY <2>1, <2>2
<1> HIDE DEF y
<1>5. Len(fs) = last /\ \A j \in 1..last : fs[j] = IF j = last THEN y ELSE e.frames[j]
  BY <1>1
<1> HIDE DEF fs
<1>6. WithPreviousDispose(e, d).frames = fs
  BY <1>4 DEF EncType
<1> QED BY <1>3, <1>5, <1>6 DEF AllAlike, Alike, SameKind

LEMMA AdditionKeepsKinds ==
  ASSUME NEW e \in EncType, NEW d \in EncType, AllAlike(e, d), NEW sub, NEW key,
         NEW is_key \in BOOLEAN, NEW cur, NEW rect
  PROVE  Grown(e, Added(d, Entry(sub, key, is_key, cur), rect), is_key)
<1> DEFINE x == Entry(sub, key, is_key, cur)
           f == Added(d, x, rect)
<1>1. d.frames \in Seq(SoundEntry) /\ Len(d.frames) = Len(e.frames) /\ Len(e.frames) \in Nat
  BY DEF EncType, AllAlike
<1>2. f.frames = Append(d.frames, x)
  BY DEF Added, EncType
<1>3. IsNew(x, is_key)
  BY DEF IsNew, Entry
<1> HIDE DEF x
<1> HIDE DEF f
<1>4. /\ Len(f.frames) = Len(e.frames) + 1
      /\ \A j \in 1..Len(e.frames) : f.frames[j] = d.frames[j]
      /\ f.frames[Len(e.frames) + 1] = x
  BY <1>1, <1>2
<1> QED BY <1>3, <1>4 DEF Grown, AllAlike, f, x

(* The frames between the old key-frame and the new one.                     *)
Moved(a, f) ==
  /\ Len(f.frames) = Len(a.frames)
  /\ \A j \in 1..Len(a.frames) - 1 :
       /\ f.frames[j].is_pause = a.frames[j].is_pause
       /\ f.frames[j].duration = a.frames[j].duration
       /\ f.frames[j].is_key_frame = (a.frames[j].is_key_frame /\ j # a.keyframe + 1)
  /\ LET x == a.frames[Len(a.frames)]
         y == f.frames[Len(a.frames)]
     IN y.is_key_frame = TRUE /\ y.is_pause = x.is_pause /\ y.duration = x.duration

LEMMA PickingMovesTheKey ==
  ASSUME NEW a \in EncType, KeyIsThere(a), a.frames # <<>>, NEW delta,
         a.keyframe # Len(a.frames) - 1
  PROVE  Moved(a, PickedAsKey(a, Len(a.frames) - 1, delta))
<1> DEFINE last == Len(a.frames)
           gs == IF a.keyframe = KeyframeNone THEN a.frames
                 ELSE [a.frames EXCEPT ![a.keyframe + 1].is_key_frame = FALSE]
           fs == [gs EXCEPT ![last].is_key_frame = TRUE]
           f == PickedAsKey(a, last - 1, delta)
<1>1. /\ a.frames \in Seq(SoundEntry) /\ last \in Nat \ {0} /\ last \in 1..Len(a.frames)
      /\ a.keyframe \in Nat \union {KeyframeNone}
  BY DEF EncType
<1>2. f.frames = fs
  <2>1. last - 1 + 1 = last
    BY <1>1
  <2>2. CASE a.keyframe = KeyframeNone
    BY <2>1, <2>2 DEF PickedAsKey, EncType
  <2>3. CASE a.keyframe # KeyframeNone
    BY <2>1, <2>3 DEF PickedAsKey, EncType
  <2> QED BY <2>2, <2>3
<1>3. /\ Len(gs) = last /\ gs \in Seq(SoundEntry)
      /\ \A j \in 1..last : /\ gs[j].is_pause = a.frames[j].is_pause
                            /\ gs[j].duration = a.frames[j].duration
                            /\ gs[j].is_key_frame
                                 = (a.frames[j].is_key_frame /\ j # a.keyframe + 1)
  <2>1. \A j \in 1..last : a.frames[j] \in SoundEntry
    BY <1>1
  <2>2. CASE a.keyframe = KeyframeNone
    BY <1>1, <2>1, <2>2 DEF KeyframeNone, SoundEntry
  <2>3. CASE a.keyframe # KeyframeNone
    <3>1. a.keyframe + 1 \in 1..last
      BY <1>1, <2>3 DEF KeyIsThere
    <3> DEFINE y == [a.frames[a.keyframe + 1] EXCEPT !.is_key_frame = FALSE]
    <3>2. /\ y \in SoundEntry /\ y.is_key_frame = FALSE
          /\ y.is_pause = a.frames[a.keyframe + 1].is_pause
          /\ y.duration = a.frames[a.keyframe + 1].duration
      BY <2>1, <3>1 DEF SoundEntry
    <3>3. gs = [a.frames EXCEPT ![a.keyframe + 1] = y]
      BY <2>3
    <3> HIDE DEF y
    <3> HIDE DEF gs
    <3>4. /\ Len(gs) = last /\ gs \in Seq(SoundEntry)
          /\ \A j \in 1..last : gs[j] = IF j = a.keyframe + 1 THEN y ELSE a.frames[j]
      BY <1>1, <3>1, <3>2, <3>3
    <3>5. \A j \in 1..last : a.frames[j].is_key_frame \in BOOLEAN
      BY <2>1 DEF SoundEntry
    <3> QED BY <2>1, <3>2, <3>4, <3>5
  <2> QED BY <2>2, <2>3
<1> HIDE DEF gs
<1>4. /\ Len(fs) = last
      /\ \A j \in 1..last - 1 : fs[j] = gs[j]
      /\ fs[last] = [gs[last] EXCEPT !.is_key_frame = TRUE]
  <2> DEFINE y == [gs[last] EXCEPT !.is_key_frame = TRUE]
  <2>1. fs = [gs EXCEPT ![last] = y] /\ gs \in Seq(SoundEntry) /\ last \in 1..Len(gs)
    BY <1>1, <1>3
  <2> HIDE DEF y, fs
  <2>2. /\ Len(fs) = Len(gs) /\ fs[last] = y
        /\ \A j \in 1..Len(gs) : j # last => fs[j] = gs[j]
    BY <2>1
  <2>3. \A j \in 1..last - 1 : j \in 1..Len(gs) /\ j # last
    BY <1>1, <1>3
  <2> QED BY <1>3, <2>2, <2>3 DEF y
<1>5. gs[last] \in SoundEntry
  BY <1>1, <1>3
<1>6. /\ fs[last].is_key_frame = TRUE /\ fs[last].is_pause = gs[last].is_pause
      /\ fs[last].duration = gs[last].duration
  BY <1>4, <1>5 DEF SoundEntry
<1> HIDE DEF fs, f
<1>7. Len(f.frames) = last
  BY <1>2, <1>4
<1>8. \A j \in 1..last - 1 : f.frames[j] = gs[j]
  BY <1>2, <1>4
<1>9. /\ f.frames[last].is_key_frame = TRUE
      /\ f.frames[last].is_pause = a.frames[last].is_pause
      /\ f.frames[last].duration = a.frames[last].duration
  BY <1>1, <1>2, <1>3, <1>6
<1>10. \A j \in 1..last - 1 : j \in 1..last
  BY <1>1
<1> QED BY <1>3, <1>7, <1>8, <1>9, <1>10 DEF Moved, f

(* What CacheFrame makes of the frames and the counts: a new frame, that is  *)
(* no key-frame, or takes over from the one before.                          *)
TakesOver(e, g) ==
  /\ Len(g.frames) = Len(e.frames) + 1
  /\ \A j \in 1..Len(e.frames) :
       /\ g.frames[j].is_pause = e.frames[j].is_pause
       /\ g.frames[j].duration = e.frames[j].duration
       /\ g.frames[j].is_key_frame = (e.frames[j].is_key_frame /\ j # e.keyframe + 1)
  /\ IsNew(g.frames[Len(e.frames) + 1], TRUE)

Skips(e, f) ==
  /\ f.frames = e.frames /\ f.keyframe = e.keyframe /\ f.best_delta = e.best_delta
  /\ f.count_since_key_frame = e.count_since_key_frame

IsFirst(e, f) ==
  /\ e.frames = <<>> /\ Grown(e, f, TRUE) /\ f.keyframe = KeyframeNone
  /\ f.best_delta = DeltaInfinity /\ f.count_since_key_frame = 0

AsSub(e, f) ==
  /\ Grown(e, f, FALSE) /\ f.keyframe = e.keyframe /\ f.best_delta = e.best_delta
  /\ f.count_since_key_frame = e.count_since_key_frame + 1 /\ ~MayBeKey(e)

AsEither(e, g) ==
  /\ MayBeKey(e) /\ g.count_since_key_frame = e.count_since_key_frame + 1
  /\ \/ /\ Grown(e, g, FALSE) /\ e.best_delta # DeltaInfinity
        /\ g.best_delta = e.best_delta /\ g.keyframe = e.keyframe
     \/ /\ TakesOver(e, g) /\ g.best_delta # DeltaInfinity
        /\ g.keyframe = Len(e.frames)

Closes(g, f) ==
  /\ g.count_since_key_frame >= Kmax /\ f.frames = g.frames
  /\ f.count_since_key_frame = 0 /\ f.keyframe = KeyframeNone
  /\ f.best_delta = DeltaInfinity

Settled(g, f) == (g.count_since_key_frame < Kmax /\ f = g) \/ Closes(g, f)

LEMMA FirstOutcome ==
  ASSUME caller \in Callers, NEW e \in EncType, Quiet(e), e.is_first_frame = TRUE,
         NEW method \in caller.methods, NEW cur \in Canvas,
         NEW f \in CachedFirst(e, method, cur)
  PROVE  IsFirst(e, f)
<1>1. PICK k \in KeyFrames(e, method, cur) :
        f = [Added(e, Entry(NoFrame, k.frame, TRUE, cur), k.frame.rect)
               EXCEPT !.flush_count = 0, !.count_since_key_frame = 0,
                      !.prev_candidate_undecided = FALSE]
  BY DEF CachedFirst
<1>2. IsCandidate(k)
  <2>1. e.is_first_frame \in BOOLEAN
    BY DEF EncType
  <2> QED BY <2>1, KeyFramesAreSound
<1>3. k.frame \in SoundFrame /\ k.frame.rect \in Rects
  BY <1>2 DEF IsCandidate, SoundFrame, FrameType
<1> DEFINE a == Added(e, Entry(NoFrame, k.frame, TRUE, cur), k.frame.rect)
<1>4. a \in EncType /\ Appended(e, a)
  BY <1>3, FixedFrames, EntryIsSound, AddedIsSound
<1>5. Grown(e, a, TRUE)
  <2>1. AllAlike(e, e)
    BY DEF AllAlike, Alike, SameKind
  <2> QED BY <2>1, AdditionKeepsKinds
<1> HIDE DEF a
<1>6. f = [a EXCEPT !.flush_count = 0, !.count_since_key_frame = 0,
                    !.prev_candidate_undecided = FALSE]
  BY <1>1 DEF a
<1>7. Untouched(e)
  BY DEF Quiet
<1>8. /\ f.frames = a.frames /\ f.keyframe = a.keyframe /\ f.best_delta = a.best_delta
      /\ f.count_since_key_frame = 0
  BY <1>4, <1>6 DEF EncType
<1> QED BY <1>4, <1>5, <1>7, <1>8 DEF IsFirst, Grown, Untouched, Appended

LEMMA SubFrameOutcome ==
  ASSUME caller \in Callers, NEW e \in EncType, Ready(e), ~MayBeKey(e),
         NEW method \in caller.methods, NEW cur \in Canvas,
         NEW f \in CachedAsSubFrame(e, method, cur)
  PROVE  AsSub(e, f)
<1>1. PICK c \in SubFrames(e, method, cur) :
        f = [Added(WithPreviousDispose(e, c.dispose),
                   Entry(c.frame, NoFrame, FALSE, cur), c.frame.rect)
               EXCEPT !.flush_count = Len(e.frames),
                      !.count_since_key_frame = @ + 1,
                      !.prev_candidate_undecided = FALSE]
  BY DEF CachedAsSubFrame
<1>2. IsCandidate(c)
  BY SubFramesAreSound
<1>3. c.frame \in SoundFrame /\ c.dispose \in {"none", "background"} /\ c.frame.rect \in Rects
  BY <1>2 DEF IsCandidate, SoundFrame, FrameType
<1> DEFINE d == WithPreviousDispose(e, c.dispose)
           a == Added(d, Entry(c.frame, NoFrame, FALSE, cur), c.frame.rect)
<1>4. d \in EncType /\ SameCounts(e, d) /\ AllAlike(e, d)
  BY <1>3, PreviousDisposeIsSound, DisposalKeepsKinds DEF Ready
<1> HIDE DEF d
<1>5. a \in EncType /\ Appended(d, a) /\ Grown(e, a, FALSE)
  BY <1>3, <1>4, FixedFrames, EntryIsSound, AddedIsSound, AdditionKeepsKinds
<1> HIDE DEF a
<1>6. f = [a EXCEPT !.flush_count = Len(e.frames),
                    !.count_since_key_frame = a.count_since_key_frame + 1,
                    !.prev_candidate_undecided = FALSE]
  BY <1>1 DEF a, d
<1>7. /\ f.frames = a.frames /\ f.keyframe = a.keyframe /\ f.best_delta = a.best_delta
      /\ f.count_since_key_frame = a.count_since_key_frame + 1
  BY <1>5, <1>6 DEF EncType
<1> QED BY <1>4, <1>5, <1>7 DEF AsSub, Grown, Appended, SameCounts

LEMMA EitherOutcome ==
  ASSUME caller \in Callers, NEW e \in EncType, Ready(e), MayBeKey(e),
         NEW method \in caller.methods, NEW cur \in Canvas,
         NEW f \in CachedAsEither(e, method, cur)
  PROVE  \E g \in EncType : AsEither(e, g) /\ Settled(g, f)
<1> DEFINE position == Len(e.frames)
<1>1. PICK c \in SubFrames(e, method, cur), k \in KeyFrames(e, method, cur),
           delta \in Deltas : f = WindowClosed(Compared(e, c, k, delta, cur))
  BY DEF CachedAsEither
<1>2. IsCandidate(c)
  BY SubFramesAreSound
<1>3. IsCandidate(k)
  <2>1. e.is_first_frame \in BOOLEAN
    BY DEF EncType
  <2> QED BY <2>1, KeyFramesAreSound
<1>4. /\ c.frame \in SoundFrame /\ c.dispose \in {"none", "background"}
      /\ c.frame.rect \in Rects /\ k.frame \in SoundFrame /\ k.frame.rect \in Rects
  BY <1>2, <1>3 DEF IsCandidate, SoundFrame, FrameType
<1> DEFINE a == InBothForms(e, c, k, cur)
<1>5. /\ a \in EncType /\ a.frames # <<>> /\ KeyIsThere(a)
      /\ Len(a.frames) = position + 1 /\ a.best_delta = e.best_delta
  <2> HIDE DEF a
  <2> QED BY <1>2, <1>3, BothIsSound, ZenonT(60) DEF a
<1> DEFINE d == WithPreviousDispose(e, c.dispose)
           b == Added(d, Entry(c.frame, k.frame, FALSE, cur), c.frame.rect)
           g == Compared(e, c, k, delta, cur)
<1>6. d \in EncType /\ SameCounts(e, d) /\ AllAlike(e, d)
  BY <1>4, PreviousDisposeIsSound, DisposalKeepsKinds DEF Ready
<1>7. a = [b EXCEPT !.count_since_key_frame = b.count_since_key_frame + 1]
  BY DEF InBothForms
<1> HIDE DEF a, d
<1>8. b \in EncType /\ Appended(d, b) /\ Grown(e, b, FALSE)
  BY <1>4, <1>6, EntryIsSound, AddedIsSound, AdditionKeepsKinds
<1> HIDE DEF b
<1>9. /\ a.frames = b.frames /\ a.keyframe = e.keyframe
      /\ a.count_since_key_frame = e.count_since_key_frame + 1
  BY <1>6, <1>7, <1>8 DEF EncType, Appended, SameCounts
<1>10. Grown(e, a, FALSE)
  BY <1>8, <1>9 DEF Grown
<1>11. position \in Nat \ {0} /\ e.best_delta \in Deltas \union {DeltaInfinity}
       /\ KeyIsThere(e) /\ e.keyframe \in Nat \union {KeyframeNone}
  BY DEF EncType, Ready
<1>12. g \in EncType /\ AsEither(e, g)
  <2>1. CASE delta <= e.best_delta
    <3> DEFINE p == PickedAsKey(a, Len(a.frames) - 1, delta)
    <3>1. /\ p \in EncType /\ p.keyframe = Len(a.frames) - 1
          /\ p.best_delta # DeltaInfinity
          /\ p.count_since_key_frame = a.count_since_key_frame
      BY <1>5, PickedIsSound
    <3>2. Moved(a, p)
      <4>1. a.keyframe # Len(a.frames) - 1
        BY <1>5, <1>9, <1>11 DEF KeyIsThere, KeyframeNone
      <4> QED BY <1>5, <4>1, PickingMovesTheKey
    <3>3. g = [p EXCEPT !.prev_rect = k.frame.rect]
      <4>1. Len(a.frames) - 1 = position
        BY <1>5, <1>11
      <4> QED BY <2>1, <4>1 DEF Compared, a
    <3> HIDE DEF p, g
    <3>4. g \in EncType /\ g.frames = p.frames /\ g.keyframe = p.keyframe
          /\ g.best_delta = p.best_delta
          /\ g.count_since_key_frame = p.count_since_key_frame
      BY <1>4, <3>1, <3>3 DEF EncType
    <3>5. Len(g.frames) = position + 1 /\ Len(a.frames) - 1 = position
      BY <1>5, <1>11, <3>2, <3>4 DEF Moved
    <3>6. \A j \in 1..position :
            /\ g.frames[j].is_pause = e.frames[j].is_pause
            /\ g.frames[j].duration = e.frames[j].duration
            /\ g.frames[j].is_key_frame = (e.frames[j].is_key_frame /\ j # e.keyframe + 1)
      BY <1>9, <1>10, <3>2, <3>4, <3>5 DEF Moved, Grown, Alike, SameKind
    <3>7. IsNew(g.frames[position + 1], TRUE)
      BY <1>5, <1>10, <3>2, <3>4 DEF Moved, Grown, IsNew
    <3>8. TakesOver(e, g)
      BY <3>5, <3>6, <3>7 DEF TakesOver
    <3> QED BY <1>5, <1>9, <1>11, <3>1, <3>4, <3>5, <3>8 DEF AsEither
  <2>2. CASE ~(delta <= e.best_delta)
    <3>1. g = [a EXCEPT !.prev_candidate_undecided = FALSE]
      BY <2>2 DEF Compared, a
    <3> HIDE DEF g
    <3>2. g \in EncType /\ g.frames = a.frames /\ g.keyframe = a.keyframe
          /\ g.best_delta = a.best_delta
          /\ g.count_since_key_frame = a.count_since_key_frame
      BY <1>5, <3>1 DEF EncType
    <3>3. e.best_delta # DeltaInfinity
      BY <1>11, <2>2 DEF Deltas, DeltaInfinity
    <3> QED BY <1>5, <1>9, <1>10, <3>2, <3>3 DEF AsEither, Grown
  <2> QED BY <2>1, <2>2
<1> HIDE DEF g
<1>13. Settled(g, f)
  <2>1. f = WindowClosed(g) /\ g.count_since_key_frame \in Nat /\ Kmax \in Nat
    BY <1>1, <1>12, OptionsFit DEF EncType, g
  <2>2. CASE g.count_since_key_frame < Kmax
    BY <2>1, <2>2 DEF WindowClosed, Kmax, Settled
  <2>3. CASE ~(g.count_since_key_frame < Kmax)
    <3>1. f = [g EXCEPT !.flush_count = Len(g.frames) - 1, !.count_since_key_frame = 0,
                        !.keyframe = KeyframeNone, !.best_delta = DeltaInfinity]
      BY <2>1, <2>3 DEF WindowClosed, Kmax
    <3> QED BY <1>12, <2>1, <2>3, <3>1 DEF Closes, EncType, Settled
  <2> QED BY <2>2, <2>3
<1> QED BY <1>12, <1>13

LEMMA Outcome ==
  ASSUME caller \in Callers, NEW e \in EncType,
         e.is_first_frame => Quiet(e), ~e.is_first_frame => Ready(e),
         NEW method \in caller.methods, NEW cur \in Canvas,
         NEW f \in Accepted(e, method, cur)
  PROVE  \/ e.is_first_frame /\ IsFirst(e, f)
         \/ /\ Ready(e)
            /\ \/ Skips(e, f) \/ AsSub(e, f)
               \/ \E g \in EncType : AsEither(e, g) /\ Settled(g, f)
<1>1. CASE e.is_first_frame
  <2>1. e.is_first_frame = TRUE
    BY <1>1 DEF EncType
  <2>2. f \in CachedFirst(e, method, cur)
    BY <1>1 DEF Accepted, Cached
  <2> QED BY <1>1, <2>1, <2>2, FirstOutcome
<1>2. CASE ~e.is_first_frame
  <2>1. \/ f = Skipped(e)
        \/ ~MayBeKey(e) /\ f \in CachedAsSubFrame(e, method, cur)
        \/ MayBeKey(e) /\ f \in CachedAsEither(e, method, cur)
    BY <1>2 DEF Accepted, Cached
  <2>2. CASE f = Skipped(e)
    BY <1>2, <2>2 DEF Skipped, Skips, EncType
  <2> QED BY <1>2, <2>1, <2>2, SubFrameOutcome, EitherOutcome
<1> QED BY <1>1, <1>2

-----------------------------------------------------------------------------
(* Time: what the frames last in all.                                        *)
Total(o, es) == Time(o, es, Len(es))

LEMMA LongerByOne ==
  ASSUME NEW o \in OutType, NEW es \in Seq(SoundEntry), NEW fs \in Seq(SoundEntry),
         Len(fs) = Len(es) + 1,
         \A j \in 1..Len(es) : fs[j].duration = es[j].duration
  PROVE  Total(o, fs) = Total(o, es) + fs[Len(fs)].duration
<1> DEFINE n == Len(es)
<1>1. n \in Nat /\ Len(fs) \in Nat /\ n < Len(fs) /\ n <= Len(fs) /\ n \in 0..Len(es)
  OBVIOUS
<1>2. Time(o, es, n) = Time(o, fs, n)
  <2>1. \A i \in 0..Len(es) : Time(o, es, i) = Time(o, fs, i)
    BY <1>1, SameTime
  <2> QED BY <1>1, <2>1
<1>3. Time(o, fs, n + 1) = Time(o, fs, n) + fs[n + 1].duration
  BY <1>1, EachTime
<1> QED BY <1>2, <1>3 DEF Total

LEMMA AsLong ==
  ASSUME NEW o \in OutType, NEW es \in Seq(SoundEntry), NEW fs \in Seq(SoundEntry),
         Len(fs) = Len(es),
         \A j \in 1..Len(es) : fs[j].duration = es[j].duration
  PROVE  Total(o, fs) = Total(o, es)
<1>1. Len(es) \in Nat /\ Len(fs) \in Nat /\ Len(es) <= Len(fs) /\ Len(es) \in 0..Len(es)
  OBVIOUS
<1>2. \A i \in 0..Len(es) : Time(o, es, i) = Time(o, fs, i)
  BY <1>1, SameTime
<1>3. Time(o, es, Len(es)) = Time(o, fs, Len(es))
  BY <1>1, <1>2
<1> QED BY <1>3 DEF Total

LEMMA LengthenedTime ==
  ASSUME NEW e \in EncType, e.frames # <<>>, NEW o \in OutType,
         NEW d \in 0..MaxDuration - 1
  PROVE  LET f == IncreasePreviousDuration(e, d)
         IN Total(o, f.frames) = Total(o, e.frames) + d
<1> DEFINE count == Len(e.frames)
           x == e.frames[count]
           sum == x.duration + d
           f == IncreasePreviousDuration(e, d)
<1>1. e.frames \in Seq(SoundEntry) /\ count \in 1..Len(e.frames) /\ count \in Nat
  BY DEF EncType
<1>2. x \in SoundEntry /\ f \in EncType /\ d \in Nat
  BY <1>1, IncreaseIsSound, EncoderAssumption
<1>3. f.frames \in Seq(SoundEntry)
  BY <1>2 DEF EncType
<1>4. CASE sum < MaxDuration
  <2> DEFINE y == [x EXCEPT !.duration = sum]
             fs == [e.frames EXCEPT ![count] = y]
             start == SubSeq(e.frames, 1, count - 1)
  <2>1. f.frames = fs
    <3>1. f = [e EXCEPT !.frames[count].duration = sum]
      BY <1>4 DEF IncreasePreviousDuration
    <3>2. fs = [e.frames EXCEPT ![count].duration = sum]
      BY <1>1, <1>2 DEF SoundEntry
    <3> QED BY <3>1, <3>2 DEF EncType
  <2>2. y.duration = x.duration + d
    BY <1>2 DEF SoundEntry
  <2> HIDE DEF y
  <2>3. Len(fs) = count /\ fs[count] = y /\ \A j \in 1..count - 1 : fs[j] = e.frames[j]
    BY <1>1
  <2> HIDE DEF fs
  <2>4. /\ start \in Seq(SoundEntry) /\ Len(start) = count - 1
        /\ \A j \in 1..count - 1 : start[j] = e.frames[j]
    BY <1>1
  <2> HIDE DEF start
  <2>5. Total(o, f.frames) = Total(o, start) + y.duration
    <3>1. Len(f.frames) = Len(start) + 1
      BY <1>1, <2>1, <2>3, <2>4
    <3>2. \A j \in 1..Len(start) : f.frames[j].duration = start[j].duration
      BY <2>1, <2>3, <2>4
    <3>3. f.frames[Len(f.frames)] = y
      BY <2>1, <2>3
    <3> HIDE DEF f
    <3> QED BY <1>3, <2>4, <3>1, <3>2, <3>3, LongerByOne
  <2>6. Total(o, e.frames) = Total(o, start) + x.duration
    <3>1. Len(e.frames) = Len(start) + 1
      BY <1>1, <2>4
    <3>2. \A j \in 1..Len(start) : e.frames[j].duration = start[j].duration
      BY <2>4
    <3> QED BY <1>1, <2>4, <3>1, <3>2, LongerByOne
  <2>7. Total(o, start) \in Nat /\ x.duration \in Nat
    <3>1. Len(start) \in 0..Len(start) /\ start \in Seq(SoundEntry)
      BY <2>4
    <3>2. Total(o, start) \in Nat
      BY <3>1, SincesAreNumbers DEF Total
    <3>3. x.duration \in Nat
      BY <1>2 DEF SoundEntry
    <3> QED BY <3>2, <3>3
  <2> HIDE DEF f, x
  <2> QED BY <1>2, <2>2, <2>5, <2>6, <2>7 DEF f
<1>5. CASE ~(sum < MaxDuration)
  <2> DEFINE p == Pause(d, x)
  <2>1. f.frames = Append(e.frames, p)
    BY <1>5 DEF IncreasePreviousDuration, EncType
  <2>2. p.duration = d
    BY DEF Pause
  <2> HIDE DEF p
  <2>3. /\ Len(f.frames) = Len(e.frames) + 1 /\ f.frames[Len(f.frames)] = p
        /\ \A j \in 1..Len(e.frames) : f.frames[j] = e.frames[j]
    BY <1>1, <2>1
  <2> HIDE DEF f
  <2> QED BY <1>1, <1>3, <2>2, <2>3, LongerByOne DEF f
<1> QED BY <1>4, <1>5

LEMMA AcceptedTime ==
  ASSUME caller \in Callers, NEW e \in EncType, NEW o \in OutType,
         e.is_first_frame => Quiet(e), ~e.is_first_frame => Ready(e),
         NEW method \in caller.methods, NEW cur \in Canvas,
         NEW f \in Accepted(e, method, cur)
  PROVE  Total(o, f.frames) = Total(o, e.frames)
<1>1. f \in EncType
  BY AcceptedIsSound
<1>2. e.frames \in Seq(SoundEntry) /\ f.frames \in Seq(SoundEntry) /\ Len(e.frames) \in Nat
  BY <1>1 DEF EncType
<1>3. Total(o, e.frames) \in Nat
  BY <1>2, SincesAreNumbers DEF Total
<1>4. CASE f.frames = e.frames
  BY <1>4
<1>5. ASSUME Len(f.frames) = Len(e.frames) + 1, f.frames[Len(f.frames)].duration = 0,
             \A j \in 1..Len(e.frames) : f.frames[j].duration = e.frames[j].duration
      PROVE  Total(o, f.frames) = Total(o, e.frames)
  <2>1. Total(o, f.frames) = Total(o, e.frames) + f.frames[Len(f.frames)].duration
    BY <1>2, <1>5, LongerByOne
  <2> QED BY <1>3, <1>5, <2>1
<1>6. CASE IsFirst(e, f) \/ AsSub(e, f)
  <2>1. /\ Len(f.frames) = Len(e.frames) + 1 /\ f.frames[Len(e.frames) + 1].duration = 0
        /\ \A j \in 1..Len(e.frames) : f.frames[j].duration = e.frames[j].duration
    BY <1>6 DEF IsFirst, AsSub, Grown, IsNew, Alike
  <2> QED BY <1>5, <2>1
<1>7. CASE \E g \in EncType : AsEither(e, g) /\ Settled(g, f)
  <2>1. PICK g \in EncType : AsEither(e, g) /\ f.frames = g.frames
    BY <1>7 DEF Settled, Closes
  <2>2. /\ Len(g.frames) = Len(e.frames) + 1 /\ g.frames[Len(e.frames) + 1].duration = 0
        /\ \A j \in 1..Len(e.frames) : g.frames[j].duration = e.frames[j].duration
    BY <2>1 DEF AsEither, TakesOver, Grown, IsNew, Alike
  <2> QED BY <1>5, <2>1, <2>2
<1> QED BY <1>4, <1>6, <1>7, Outcome DEF Skips

(* FlushFrames: the frames pushed have been shown, the others follow.        *)
LEMMA FlushedScreens ==
  ASSUME NEW e \in EncType, NEW o \in OutType, KeyIsThere(e),
         e.flush_count <= Len(e.frames)
  PROVE  LET p == FlushFrames(State(e, o))
         IN \A i \in 0..Len(p.enc.frames) :
              Screens(p.out, p.enc.frames)[i] = Screens(o, e.frames)[i + e.flush_count]
<1> DEFINE n == e.flush_count
           p == FlushFrames(State(e, o))
           q == Pushed(State(e, o), n)
<1>1. e.frames \in Seq(SoundEntry) /\ n \in 0..Len(e.frames)
  BY DEF EncType
<1>2. p.enc \in EncType /\ PushedCounts(e, p.enc, n)
  BY FlushIsSound
<1>3. q.out = Screens(o, e.frames)[n]
  BY DEF Pushed, State
<1>4. n \in 0..e.flush_count
  BY DEF EncType
<1>5. q = State(q.enc, q.out)
  BY <1>4, PushedIsSound
<1>6. p.out = q.out
  <2>1. p = IF Len(q.enc.frames) = 1 THEN [q EXCEPT !.enc.start = 0] ELSE q
    BY DEF FlushFrames, State
  <2> HIDE DEF q, p
  <2>2. [q EXCEPT !.enc.start = 0].out = q.out
    BY <1>5 DEF State
  <2> QED BY <2>1, <2>2
<1> HIDE DEF p, q
<1>7. Len(p.enc.frames) = Len(e.frames) - n
      /\ \A i \in 1..Len(p.enc.frames) : p.enc.frames[i] = e.frames[i + n]
  BY <1>2 DEF PushedCounts
<1> HIDE DEF n
<1>8. \A i \in 0..Len(p.enc.frames) :
        Screens(Screens(o, e.frames)[n], p.enc.frames)[i] = Screens(o, e.frames)[i + n]
  <2> DEFINE es == e.frames
             fs == p.enc.frames
  <2>1. /\ es \in Seq(SoundEntry) /\ n \in 0..Len(es) /\ Len(fs) = Len(es) - n
        /\ \A i \in 1..Len(fs) : fs[i] = es[i + n]
        /\ fs \in Seq(SoundEntry)
    BY <1>1, <1>2, <1>7 DEF EncType
  <2> HIDE DEF es, fs
  <2>2. \A i \in 0..Len(fs) : Screens(Screens(o, es)[n], fs)[i] = Screens(o, es)[i + n]
    BY <2>1, RestIsShown
  <2> QED BY <2>2 DEF es, fs
<1> QED BY <1>3, <1>6, <1>8 DEF p, n

LEMMA FlushedTime ==
  ASSUME NEW e \in EncType, NEW o \in OutType, KeyIsThere(e),
         e.flush_count <= Len(e.frames)
  PROVE  LET p == FlushFrames(State(e, o))
         IN Total(p.out, p.enc.frames) = Total(o, e.frames)
<1> DEFINE p == FlushFrames(State(e, o))
           n == e.flush_count
<1>1. p.enc \in EncType /\ PushedCounts(e, p.enc, n)
  BY FlushIsSound
<1>2. \A i \in 0..Len(p.enc.frames) :
        Screens(p.out, p.enc.frames)[i] = Screens(o, e.frames)[i + n]
  BY FlushedScreens
<1> HIDE DEF p
<1>3. /\ Len(p.enc.frames) = Len(e.frames) - n /\ Len(e.frames) \in Nat /\ n \in Nat
      /\ Len(p.enc.frames) \in Nat
  BY <1>1 DEF PushedCounts, EncType
<1> HIDE DEF n
<1>4. Len(p.enc.frames) \in 0..Len(p.enc.frames) /\ Len(p.enc.frames) + n = Len(e.frames)
  BY <1>3
<1>5. Screens(p.out, p.enc.frames)[Len(p.enc.frames)] = Screens(o, e.frames)[Len(e.frames)]
  BY <1>2, <1>4
<1> QED BY <1>5 DEF Total, Time, p

(* The frames last until the time of the call.                               *)
LEMMA StartedTime ==
  ASSUME StateInv, MayAdd, NEW t \in Times, Timely(t),
         Total(out, enc.frames) = enc.prev_timestamp
  PROVE  Total(Started(t).out, Started(t).enc.frames) = t
<1> DEFINE s == Started(t)
<1>1. /\ caller \in Callers /\ enc \in EncType /\ out \in OutType /\ InBounds(enc)
      /\ Quiet(enc) /\ t \in Int /\ enc.prev_timestamp \in Nat
  BY TimeIsInt DEF StateInv, IsQuiet, MayAdd, MayCall, EncType
<1>2. CASE enc.is_first_frame
  <2>1. s = State(enc, out)
    BY <1>2 DEF Started
  <2>2. t = 0 /\ enc.prev_timestamp = 0
    BY <1>1, <1>2 DEF Times, Quiet, Untouched
  <2> QED BY <2>1, <2>2 DEF State
<1>3. CASE ~enc.is_first_frame
  <2> DEFINE d == t - enc.prev_timestamp
             f == IncreasePreviousDuration(enc, d)
  <2>1. enc.frames # <<>> /\ d \in 0..MaxDuration - 1
    BY <1>1, <1>3 DEF Quiet, Timely
  <2>2. f \in EncType /\ InBounds(f)
    BY <1>1, <2>1, IncreasedInBounds
  <2>3. Total(out, f.frames) = Total(out, enc.frames) + d
    BY <1>1, <2>1, LengthenedTime
  <2>4. Total(out, f.frames) = t
    BY <1>1, <2>3
  <2> HIDE DEF f
  <2>5. Lengthened(t) = State(f, out)
    BY DEF Lengthened, f
  <2>6. s = FlushFrames(State(f, out)) \/ s = State(f, out)
    BY <1>3, <2>5 DEF Started, State
  <2>7. CASE s = State(f, out)
    BY <2>4, <2>7 DEF State
  <2>8. CASE s = FlushFrames(State(f, out))
    <3>1. KeyIsThere(f) /\ f.flush_count <= Len(f.frames)
      BY <2>2 DEF InBounds
    <3> DEFINE p == FlushFrames(State(f, out))
    <3>2. Total(p.out, p.enc.frames) = Total(out, f.frames)
      BY <1>1, <2>2, <3>1, FlushedTime
    <3> HIDE DEF p, s
    <3> QED BY <2>4, <2>8, <3>2 DEF p, s
  <2> QED BY <2>6, <2>7, <2>8
<1> QED BY <1>2, <1>3

LEMMA AddKeepsTime ==
  ASSUME StateInv, NEW t \in Times, NEW cur \in caller.canvases,
         NEW method \in caller.methods, Add(cur, method, t),
         Total(out, enc.frames) = enc.prev_timestamp
  PROVE  (Total(out, enc.frames) = enc.prev_timestamp)'
<1> DEFINE s == Started(t)
<1>1. /\ caller \in Callers /\ cur \in Canvas /\ MayAdd /\ Timely(t)
  BY GivenCanvas DEF StateInv, Add
<1>2. Begun(t)
  BY <1>1, EachCallBegins
<1>3. Total(s.out, s.enc.frames) = t
  BY <1>1, StartedTime
<1>4. PICK e \in Accepted(s.enc, method, cur) :
        Return([FlushFrames(State(e, s.out)) EXCEPT !.enc.prev_timestamp = t], "ok")
  BY DEF Add
<1>5. /\ s.enc \in EncType /\ s.out \in OutType
      /\ s.enc.is_first_frame => Quiet(s.enc)
      /\ ~s.enc.is_first_frame => Ready(s.enc)
  BY <1>2 DEF Begun
<1> HIDE DEF s
<1>6. e \in EncType /\ Filled(e)
  BY <1>1, <1>5, AcceptedIsSound
<1>7. Total(s.out, e.frames) = Total(s.out, s.enc.frames)
  BY <1>1, <1>5, AcceptedTime
<1> DEFINE p == FlushFrames(State(e, s.out))
<1>8. KeyIsThere(e) /\ e.flush_count <= Len(e.frames)
  <2>1. e.flush_count \in Nat /\ Len(e.frames) \in Nat
    BY <1>6 DEF EncType
  <2> QED BY <1>6, <2>1 DEF Filled
<1>9. /\ p = State(p.enc, p.out) /\ p.enc \in EncType
      /\ Total(p.out, p.enc.frames) = Total(s.out, e.frames)
  BY <1>5, <1>6, <1>8, FlushIsSound, FlushedTime
<1> HIDE DEF p
<1>10. enc' = [p.enc EXCEPT !.prev_timestamp = t] /\ out' = p.out
  <2>1. [p EXCEPT !.enc.prev_timestamp = t]
          = State([p.enc EXCEPT !.prev_timestamp = t], p.out)
    BY <1>9 DEF State
  <2> QED BY <1>4, <2>1 DEF Return, State, p
<1>11. enc'.frames = p.enc.frames /\ enc'.prev_timestamp = t
  BY <1>9, <1>10 DEF EncType
<1> QED BY <1>3, <1>7, <1>9, <1>10, <1>11

(* The call with NULL has the time of its call noted.                        *)
LEMMA NullGiven ==
  ASSUME StateInv, NEW t \in Times, AddNull(t)
  PROVE  LET s == Started(t)
         IN /\ enc'.frames = s.enc.frames /\ enc'.keyframe = s.enc.keyframe
            /\ enc'.prev_canvas = s.enc.prev_canvas /\ enc'.prev_timestamp = t
            /\ enc'.got_null_frame = TRUE /\ out' = s.out /\ UNCHANGED caller
<1> DEFINE s == Started(t)
<1>1. MayAdd /\ Timely(t)
  BY DEF AddNull
<1>2. s = State(s.enc, s.out) /\ s.enc \in EncType /\ s.out \in OutType
  BY <1>1, EachCallBegins DEF Begun
<1>4. Return([s EXCEPT !.enc.got_null_frame = TRUE, !.enc.prev_timestamp = t], "ok")
  BY DEF AddNull
<1> HIDE DEF s
<1>5. /\ enc' = [s.enc EXCEPT !.got_null_frame = TRUE, !.prev_timestamp = t]
      /\ out' = s.out
  <2> DEFINE k == [s.enc EXCEPT !.got_null_frame = TRUE]
             u == [s EXCEPT !.enc = k]
  <2>1. u = State(k, s.out)
    <3>1. PICK h \in EncType, o \in OutType : s = State(h, o) /\ h = s.enc /\ o = s.out
      BY <1>2
    <3> HIDE DEF k
    <3> QED BY <3>1 DEF State
  <2>2. u.enc = k /\ u.out = s.out
    BY <2>1 DEF State
  <2>3. [s.enc EXCEPT !.got_null_frame = TRUE, !.prev_timestamp = t]
          = [k EXCEPT !.prev_timestamp = t]
    BY <1>2 DEF EncType
  <2>4. [s EXCEPT !.enc.got_null_frame = TRUE, !.enc.prev_timestamp = t]
          = [u EXCEPT !.enc = [u.enc EXCEPT !.prev_timestamp = t]]
    OBVIOUS
  <2> DEFINE g == [k EXCEPT !.prev_timestamp = t]
  <2>5. [u EXCEPT !.enc = [u.enc EXCEPT !.prev_timestamp = t]] = State(g, s.out)
    <3> HIDE DEF k, u
    <3> QED BY <2>1, <2>2 DEF State
  <2> HIDE DEF g, k, u
  <2> QED BY <1>4, <2>3, <2>4, <2>5 DEF Return, State, g
<1>6. /\ enc'.frames = s.enc.frames /\ enc'.keyframe = s.enc.keyframe
      /\ enc'.prev_canvas = s.enc.prev_canvas /\ enc'.prev_timestamp = t
      /\ enc'.got_null_frame = TRUE
  BY <1>2, <1>5 DEF EncType
<1> QED BY <1>4, <1>5, <1>6 DEF Return, s

LEMMA AddNullKeepsTime ==
  ASSUME StateInv, NEW t \in Times, AddNull(t),
         Total(out, enc.frames) = enc.prev_timestamp
  PROVE  (Total(out, enc.frames) = enc.prev_timestamp)'
<1>1. Total(Started(t).out, Started(t).enc.frames) = t
  BY StartedTime DEF AddNull
<1>2. /\ enc'.frames = Started(t).enc.frames /\ enc'.prev_timestamp = t
      /\ out' = Started(t).out
  BY NullGiven
<1> QED BY <1>1, <1>2

(* DurationsAddUp: after each call that succeeds the frames, those pushed to *)
(* the muxer and those still kept, last in all until the time of that call,  *)
(* with the frames that were left out and the pauses that were split.        *)
THEOREM NoTimeIsLost == Spec => []DurationsAddUp
<1> DEFINE Inv == ret \in {"none", "ok"} => Total(out, enc.frames) = enc.prev_timestamp
<1>1. Init => Inv
  <2> SUFFICES ASSUME Init PROVE Inv
    OBVIOUS
  <2>1. enc.frames = <<>> /\ out.time = 0 /\ enc.prev_timestamp = 0
    BY DEF Init, NewEncoder, NothingShown
  <2>2. Len(enc.frames) = 0
    BY <2>1
  <2>3. Total(out, enc.frames) = out.time
    BY <2>2, EachTime DEF Total
  <2> QED BY <2>1, <2>3
<1>2. StateInv /\ Inv /\ [Next]_vars => Inv'
  <2> SUFFICES ASSUME StateInv, Inv, [Next]_vars PROVE Inv'
    OBVIOUS
  <2>1. CASE \E t \in Times : \E cur \in caller.canvases, method \in caller.methods :
               Add(cur, method, t)
    <3>1. MayCall
      BY <2>1 DEF Add, MayAdd
    <3> QED BY <2>1, <3>1, AddKeepsTime DEF MayCall
  <2>2. CASE \E t \in Times :
               \/ \E cur \in caller.canvases, method \in caller.methods :
                    AddFails(cur, method, t) \/ AddIsNotMuxed(cur, method, t)
               \/ PauseIsNotMuxed(t) \/ AddRefused(t) \/ AddTooLate(t)
    <3>1. ret' = "error"
      BY <2>2 DEF AddFails, AddIsNotMuxed, PauseIsNotMuxed, AddRefused, AddTooLate, Return
    <3> QED BY <3>1
  <2>3. CASE \E t \in Times : AddNull(t)
    <3>1. MayCall
      BY <2>3 DEF AddNull, MayAdd
    <3> QED BY <2>3, <3>1, AddNullKeepsTime DEF MayCall
  <2>4. CASE Assemble \/ AssembleFails
    <3>1. ret' \in {"assembled", "error"}
      BY <2>4 DEF Assemble, AssembleFails, Return
    <3> QED BY <3>1
  <2>5. CASE Delete
    <3>1. enc'.frames = <<>> /\ out'.time = 0 /\ enc'.prev_timestamp = 0
      BY <2>5 DEF Delete, NewEncoder, NothingShown
    <3>2. Len(enc'.frames) = 0
      BY <3>1
    <3>3. Total(out', enc'.frames) = out'.time
      BY <3>2, EachTime DEF Total
    <3> QED BY <3>1, <3>3
  <2>6. CASE UNCHANGED vars
    BY <2>6 DEF vars
  <2> QED BY <2>1, <2>2, <2>3, <2>4, <2>5, <2>6 DEF Next
<1>3. Inv => DurationsAddUp
  BY DEF DurationsAddUp, Coming, Total, Time
<1> QED BY <1>1, <1>2, <1>3, StateHolds, PTL DEF Spec

-----------------------------------------------------------------------------
(* Key-frames.  A frame may wait Rest frames for the first of a window to    *)
(* come, and the window then has so many for the key-frame to be picked.     *)
Lower(a, b) == IF a <= b THEN a ELSE b

Rest == IF Kmax = 0 THEN 0 ELSE Kmax - Kmin - 1
Bound == IF Kmax = 0 THEN 0 ELSE 2 * Kmax - Kmin - 2

AllInReach(o, e) == \A i \in 0..Len(e.frames) : Since(o, e.frames, i) <= Bound

(* The key-frame that was picked may still give way to a later one: then the *)
(* frames behind it are counted from the key-frame before it.                *)
MayGiveWay(o, e, c) ==
  /\ ~e.frames[e.keyframe + 1].is_pause
  /\ \A j \in e.keyframe + 2..Len(e.frames) : ~e.frames[j].is_key_frame
  /\ \A i \in e.keyframe + 1..Len(e.frames) :
       Since(o, e.frames, e.keyframe) + 1 + Since(o, e.frames, i)
         <= Rest + Lower(c, Kmax - 1)

(* Before the next frame is added: c frames have been counted, the last of   *)
(* them now frames behind a key-frame.                                       *)
Ahead(o, e) ==
  LET now == Since(o, e.frames, Len(e.frames))
      c == e.count_since_key_frame
  IN /\ AllInReach(o, e)
     /\ e.best_delta = DeltaInfinity =>
          /\ e.keyframe = KeyframeNone
          /\ now <= Rest + (IF Kmin <= 0 THEN 0 ELSE Lower(c, Kmin))
     /\ e.best_delta # DeltaInfinity => Kmax > 0 /\ now <= Lower(c, Kmax - 1) - Kmin - 1
     /\ e.keyframe # KeyframeNone => MayGiveWay(o, e, c)

LEMMA BoundsFit ==
  ASSUME caller \in Callers
  PROVE  /\ Kmax \in Nat /\ Kmin \in Int /\ Rest \in Nat /\ Bound \in Nat
         /\ Kmax = 0 => Kmin = 0 /\ Rest = 0 /\ Bound = 0
         /\ Kmax > 0 => /\ Kmin < Kmax /\ Rest = Kmax - Kmin - 1
                        /\ Bound = Rest + Kmax - 1
<1>1. /\ Kmax \in Nat /\ Kmin \in Int
      /\ (Kmax > 0 /\ Kmin < Kmax) \/ (Kmax = 0 /\ Kmin = 0)
  BY OptionsFit
<1>2. CASE Kmax = 0
  BY <1>1, <1>2 DEF Rest, Bound
<1>3. CASE Kmax > 0
  <2>1. Rest = Kmax - Kmin - 1 /\ Bound = 2 * Kmax - Kmin - 2
    BY <1>3 DEF Rest, Bound
  <2> QED BY <1>1, <1>3, <2>1
<1> QED BY <1>1, <1>2, <1>3

(* One more frame.                                                           *)
LEMMA MoreSince ==
  ASSUME NEW o \in OutType, NEW es \in Seq(SoundEntry), NEW fs \in Seq(SoundEntry),
         Len(fs) = Len(es) + 1, \A j \in 1..Len(es) : SameKind(es[j], fs[j])
  PROVE  /\ \A i \in 0..Len(es) : Since(o, fs, i) = Since(o, es, i)
         /\ Since(o, fs, Len(es) + 1) =
              IF fs[Len(es) + 1].is_key_frame THEN 0
              ELSE IF fs[Len(es) + 1].is_pause THEN Since(o, es, Len(es))
              ELSE Since(o, es, Len(es)) + 1
<1>1. /\ Len(es) \in Nat /\ Len(fs) \in Nat /\ Len(es) <= Len(fs) /\ Len(es) < Len(fs)
      /\ Len(es) \in 0..Len(es)
  OBVIOUS
<1>2. \A i \in 0..Len(es) : Since(o, es, i) = Since(o, fs, i)
  BY <1>1, SameSince
<1>3. Since(o, fs, Len(es) + 1) =
        IF fs[Len(es) + 1].is_key_frame THEN 0
        ELSE IF fs[Len(es) + 1].is_pause THEN Since(o, fs, Len(es))
        ELSE Since(o, fs, Len(es)) + 1
  BY <1>1, EachSince
<1>4. Since(o, es, Len(es)) = Since(o, fs, Len(es))
  BY <1>1, <1>2
<1> QED BY <1>2, <1>3, <1>4

(* A key-frame that gives way: the frames behind it are counted from the one *)
(* before.                                                                   *)
GivesWay(es, fs, k) ==
  /\ \A j \in 1..Len(es) : j # k + 1 => SameKind(es[j], fs[j])
  /\ es[k + 1].is_key_frame /\ ~fs[k + 1].is_key_frame /\ ~fs[k + 1].is_pause
  /\ \A j \in k + 2..Len(es) : ~es[j].is_key_frame

LEMMA Demotion ==
  ASSUME NEW o \in OutType, NEW es \in Seq(SoundEntry), NEW fs \in Seq(SoundEntry),
         Len(es) <= Len(fs), NEW k \in 0..Len(es) - 1, GivesWay(es, fs, k)
  PROVE  \A i \in 0..Len(es) :
           Since(o, fs, i) = IF i <= k THEN Since(o, es, i)
                             ELSE Since(o, es, k) + 1 + Since(o, es, i)
<1> DEFINE Lost(i) == IF i <= k THEN Since(o, es, i)
                      ELSE Since(o, es, k) + 1 + Since(o, es, i)
           S == {i \in Nat : i <= Len(es) => Since(o, fs, i) = Lost(i)}
<1>0. Len(es) \in Nat /\ Len(fs) \in Nat /\ k \in Nat /\ k < Len(es)
  OBVIOUS
<1>1. 0 \in S
  BY <1>0, EachSince
<1>2. ASSUME NEW i \in Nat, i \in S PROVE i + 1 \in S
  <2> HIDE DEF Lost
  <2> SUFFICES ASSUME i + 1 <= Len(es) PROVE Since(o, fs, i + 1) = Lost(i + 1)
    OBVIOUS
  <2>1. i < Len(es) /\ i < Len(fs) /\ i + 1 \in 1..Len(es) /\ i \in 0..Len(es)
    BY <1>0
  <2>2. Since(o, fs, i) = Lost(i)
    BY <1>2, <2>1
  <2> HIDE DEF S
  <2>3. Since(o, es, i + 1) = IF es[i + 1].is_key_frame THEN 0
                              ELSE IF es[i + 1].is_pause THEN Since(o, es, i)
                              ELSE Since(o, es, i) + 1
    BY <1>0, <2>1, EachSince
  <2>4. Since(o, fs, i + 1) = IF fs[i + 1].is_key_frame THEN 0
                              ELSE IF fs[i + 1].is_pause THEN Since(o, fs, i)
                              ELSE Since(o, fs, i) + 1
    BY <1>0, <2>1, EachSince
  <2>5. Since(o, es, i) \in Nat /\ Since(o, es, k) \in Nat
    <3>1. k \in 0..Len(es) /\ o \in OutType /\ es \in Seq(SoundEntry)
      BY <1>0
    <3> QED BY <2>1, <3>1, SincesAreNumbers
  <2>6. CASE i + 1 <= k
    <3>1. SameKind(es[i + 1], fs[i + 1]) /\ i <= k
      BY <1>0, <2>1, <2>6 DEF GivesWay
    <3> QED BY <2>2, <2>3, <2>4, <2>6, <3>1 DEF SameKind, Lost
  <2>7. CASE i = k
    <3>1. es[i + 1].is_key_frame /\ ~fs[i + 1].is_key_frame /\ ~fs[i + 1].is_pause
      BY <2>7 DEF GivesWay
    <3> QED BY <1>0, <2>2, <2>3, <2>4, <2>5, <2>7, <3>1 DEF Lost
  <2>8. CASE i > k
    <3>1. SameKind(es[i + 1], fs[i + 1]) /\ ~es[i + 1].is_key_frame /\ ~(i <= k) /\ ~(i + 1 <= k)
      BY <1>0, <2>1, <2>8 DEF GivesWay
    <3>2. ~fs[i + 1].is_key_frame /\ fs[i + 1].is_pause = es[i + 1].is_pause
      BY <3>1 DEF SameKind
    <3>3. Since(o, fs, i) = Since(o, es, k) + 1 + Since(o, es, i)
      BY <2>2, <3>1 DEF Lost
    <3> DEFINE step == IF es[i + 1].is_pause THEN 0 ELSE 1
    <3>4. Since(o, es, i + 1) = Since(o, es, i) + step
      BY <2>3, <2>5, <3>1
    <3>5. Since(o, fs, i + 1) = Since(o, es, k) + 1 + Since(o, es, i) + step
      BY <2>4, <2>5, <3>2, <3>3
    <3>6. step \in Nat
      OBVIOUS
    <3> HIDE DEF step
    <3>7. Lost(i + 1) = Since(o, es, k) + 1 + Since(o, es, i + 1)
      BY <3>1 DEF Lost
    <3> QED BY <2>5, <3>4, <3>5, <3>6, <3>7
  <2> QED BY <1>0, <2>6, <2>7, <2>8
<1> HIDE DEF S
<1>3. Nat \subseteq S
  BY <1>1, <1>2, SetInduction
<1> QED BY <1>3 DEF S

(* Pushing frames changes nothing of that.                                   *)
LEMMA PushedScreens ==
  ASSUME NEW e \in EncType, NEW o \in OutType, KeyIsThere(e),
         NEW n \in 0..e.flush_count, e.flush_count <= Len(e.frames)
  PROVE  LET p == Pushed(State(e, o), n)
         IN \A i \in 0..Len(p.enc.frames) :
              Screens(p.out, p.enc.frames)[i] = Screens(o, e.frames)[i + n]
<1> DEFINE p == Pushed(State(e, o), n)
           es == e.frames
           fs == p.enc.frames
<1>1. /\ es \in Seq(SoundEntry) /\ n \in 0..Len(es)
  BY DEF EncType
<1>2. p.enc \in EncType /\ PushedCounts(e, p.enc, n)
  BY PushedIsSound
<1>3. p.out = Screens(o, es)[n]
  BY DEF Pushed, State
<1> HIDE DEF p
<1>4. fs \in Seq(SoundEntry) /\ Len(fs) = Len(es) - n
      /\ \A i \in 1..Len(fs) : fs[i] = es[i + n]
  BY <1>2 DEF PushedCounts, EncType
<1> HIDE DEF es, fs
<1>5. \A i \in 0..Len(fs) : Screens(Screens(o, es)[n], fs)[i] = Screens(o, es)[i + n]
  BY <1>1, <1>4, RestIsShown
<1> QED BY <1>3, <1>5 DEF p, es, fs

PushedOn(o, e, q, f, n) ==
  /\ f \in EncType /\ PushedCounts(e, f, n)
  /\ \A i \in 0..Len(f.frames) : Screens(q, f.frames)[i] = Screens(o, e.frames)[i + n]

LEMMA PushedSince ==
  ASSUME NEW e \in EncType, NEW o, NEW q, NEW f, NEW n \in 0..Len(e.frames),
         PushedOn(o, e, q, f, n)
  PROVE  /\ n \in Nat /\ Len(e.frames) \in Nat /\ Len(f.frames) \in Nat
         /\ Len(f.frames) = Len(e.frames) - n
         /\ \A i \in 0..Len(f.frames) : Since(q, f.frames, i) = Since(o, e.frames, i + n)
<1>1. Len(f.frames) = Len(e.frames) - n /\ n \in Nat /\ Len(e.frames) \in Nat
      /\ Len(f.frames) \in Nat
  BY DEF PushedOn, PushedCounts, EncType
<1>2. \A i \in 0..Len(f.frames) : Since(q, f.frames, i) = Since(o, e.frames, i + n)
  BY DEF PushedOn, Since
<1> QED BY <1>1, <1>2

LEMMA PushedInReach ==
  ASSUME NEW e \in EncType, NEW o, NEW q, NEW f, NEW n \in 0..Len(e.frames),
         PushedOn(o, e, q, f, n), AllInReach(o, e)
  PROVE  AllInReach(q, f)
<1>1. /\ n \in Nat /\ Len(e.frames) \in Nat /\ Len(f.frames) \in Nat
      /\ Len(f.frames) = Len(e.frames) - n
      /\ \A i \in 0..Len(f.frames) : Since(q, f.frames, i) = Since(o, e.frames, i + n)
  BY PushedSince
<1>2. \A i \in 0..Len(f.frames) : i + n \in 0..Len(e.frames)
  BY <1>1
<1> QED BY <1>1, <1>2 DEF AllInReach

LEMMA PushedAhead ==
  ASSUME NEW e \in EncType, NEW o, NEW q, NEW f, NEW n \in 0..Len(e.frames),
         PushedOn(o, e, q, f, n), Ahead(o, e), KeyIsThere(e)
  PROVE  Ahead(q, f)
<1>1. /\ n \in Nat /\ Len(e.frames) \in Nat /\ Len(f.frames) \in Nat
      /\ Len(f.frames) = Len(e.frames) - n
      /\ \A i \in 0..Len(f.frames) : Since(q, f.frames, i) = Since(o, e.frames, i + n)
  BY PushedSince
<1>2. AllInReach(q, f)
  BY PushedInReach DEF Ahead
<1>3. Since(q, f.frames, Len(f.frames)) = Since(o, e.frames, Len(e.frames))
  <2>1. Len(f.frames) \in 0..Len(f.frames) /\ Len(f.frames) + n = Len(e.frames)
    BY <1>1
  <2> QED BY <1>1, <2>1
<1>4. /\ f.best_delta = e.best_delta
      /\ f.keyframe = (IF e.keyframe < n THEN KeyframeNone ELSE e.keyframe - n)
      /\ f.count_since_key_frame = e.count_since_key_frame
      /\ e.keyframe \in Nat \union {KeyframeNone}
      /\ \A i \in 1..Len(f.frames) : f.frames[i] = e.frames[i + n]
  BY DEF PushedOn, PushedCounts, EncType
<1>5. e.keyframe = KeyframeNone => f.keyframe = KeyframeNone
  BY <1>1, <1>4 DEF KeyframeNone
<1>6. ASSUME f.keyframe # KeyframeNone
      PROVE  MayGiveWay(q, f, f.count_since_key_frame)
  <2> DEFINE k == e.keyframe
  <2>1. k \in Nat /\ n <= k /\ f.keyframe = k - n /\ k # KeyframeNone /\ k < Len(e.frames)
    BY <1>1, <1>4, <1>6 DEF KeyframeNone, KeyIsThere
  <2>2. MayGiveWay(o, e, e.count_since_key_frame)
    BY <2>1 DEF Ahead
  <2>3. /\ f.keyframe + 1 \in 1..Len(f.frames) /\ f.keyframe + 1 + n = k + 1
        /\ f.keyframe \in 0..Len(f.frames) /\ f.keyframe + n = k
    BY <1>1, <2>1
  <2>4. ~f.frames[f.keyframe + 1].is_pause
    BY <1>4, <2>2, <2>3, SMTT(30) DEF MayGiveWay
  <2>5. ASSUME NEW j \in f.keyframe + 2..Len(f.frames)
        PROVE  ~f.frames[j].is_key_frame
    <3>1. j \in 1..Len(f.frames) /\ j + n \in k + 2..Len(e.frames)
      BY <1>1, <2>1, SMTT(30)
    <3> QED BY <1>4, <2>2, <3>1 DEF MayGiveWay
  <2>6. ASSUME NEW i \in f.keyframe + 1..Len(f.frames)
        PROVE  Since(q, f.frames, f.keyframe) + 1 + Since(q, f.frames, i)
                 <= Rest + Lower(f.count_since_key_frame, Kmax - 1)
    <3>1. i \in 0..Len(f.frames) /\ i + n \in k + 1..Len(e.frames)
      BY <1>1, <2>1
    <3>2. /\ Since(q, f.frames, i) = Since(o, e.frames, i + n)
          /\ Since(q, f.frames, f.keyframe) = Since(o, e.frames, k)
      BY <1>1, <2>3, <3>1
    <3> QED BY <1>4, <2>2, <3>1, <3>2 DEF MayGiveWay
  <2> QED BY <2>4, <2>5, <2>6 DEF MayGiveWay
<1> QED BY <1>2, <1>3, <1>4, <1>5, <1>6 DEF Ahead

-----------------------------------------------------------------------------
(* What the frames wait for, when one of them is added.                      *)
Lasts(e, f) ==
  /\ Len(f.frames) = Len(e.frames)
  /\ \A j \in 1..Len(e.frames) : SameKind(e.frames[j], f.frames[j])
  /\ f.keyframe = e.keyframe /\ f.best_delta = e.best_delta
  /\ f.count_since_key_frame = e.count_since_key_frame

Longer(e, f) ==
  /\ Len(f.frames) = Len(e.frames) + 1
  /\ \A j \in 1..Len(e.frames) : SameKind(e.frames[j], f.frames[j])
  /\ f.frames[Len(e.frames) + 1].is_key_frame = FALSE
  /\ f.keyframe = e.keyframe /\ f.best_delta = e.best_delta
  /\ f.count_since_key_frame = e.count_since_key_frame + 1

Pauses(e, f) == Longer(e, f) /\ f.frames[Len(e.frames) + 1].is_pause = TRUE

LEMMA LengthenedKinds ==
  ASSUME NEW e \in EncType, e.frames # <<>>, NEW d \in 0..MaxDuration - 1
  PROVE  LET f == IncreasePreviousDuration(e, d) IN Lasts(e, f) \/ Pauses(e, f)
<1> DEFINE count == Len(e.frames)
           x == e.frames[count]
           sum == x.duration + d
           f == IncreasePreviousDuration(e, d)
<1>1. e.frames \in Seq(SoundEntry) /\ count \in 1..Len(e.frames) /\ count \in Nat
  BY DEF EncType
<1>2. x \in SoundEntry
  BY <1>1
<1>3. CASE sum < MaxDuration
  <2> DEFINE y == [x EXCEPT !.duration = sum]
             fs == [e.frames EXCEPT ![count] = y]
  <2>1. f = [e EXCEPT !.frames = fs]
    <3>1. fs = [e.frames EXCEPT ![count].duration = sum]
      BY <1>1, <1>2 DEF SoundEntry
    <3> QED BY <1>3, <3>1 DEF IncreasePreviousDuration
  <2>2. SameKind(x, y)
    BY <1>2 DEF SoundEntry, SameKind
  <2> HIDE DEF y
  <2>3. Len(fs) = count /\ \A j \in 1..count : fs[j] = IF j = count THEN y ELSE e.frames[j]
    BY <1>1
  <2> HIDE DEF fs
  <2>4. \A j \in 1..count : SameKind(e.frames[j], fs[j])
    BY <2>2, <2>3 DEF SameKind
  <2> QED BY <2>1, <2>3, <2>4 DEF EncType, Lasts
<1>4. CASE ~(sum < MaxDuration)
  <2> DEFINE p == Pause(d, x)
             fs == Append(e.frames, p)
  <2>1. f = [e EXCEPT !.frames = fs,
               !.count_since_key_frame = e.count_since_key_frame + 1,
               !.flush_count = count, !.prev_candidate_undecided = FALSE,
               !.prev_rect = OnePixel]
    BY <1>4 DEF IncreasePreviousDuration
  <2>2. p.is_key_frame = FALSE /\ p.is_pause = TRUE
    BY DEF Pause
  <2> HIDE DEF p
  <2>3. /\ Len(fs) = count + 1 /\ fs[count + 1] = p
        /\ \A j \in 1..count : fs[j] = e.frames[j]
    BY <1>1
  <2>4. \A j \in 1..count : SameKind(e.frames[j], fs[j])
    BY <2>3 DEF SameKind
  <2> HIDE DEF fs
  <2> HIDE DEF f
  <2>5. /\ f.frames = fs /\ f.keyframe = e.keyframe /\ f.best_delta = e.best_delta
        /\ f.count_since_key_frame = e.count_since_key_frame + 1
    BY <2>1 DEF EncType
  <2> QED BY <2>2, <2>3, <2>4, <2>5 DEF Pauses, Longer, f
<1> QED BY <1>3, <1>4

LEMMA LastsAhead ==
  ASSUME NEW o \in OutType, NEW e \in EncType, NEW f \in EncType, Lasts(e, f),
         Ahead(o, e), KeyIsThere(e)
  PROVE  Ahead(o, f)
<1> DEFINE es == e.frames
           fs == f.frames
           n == Len(es)
           k == e.keyframe
<1>1. /\ es \in Seq(SoundEntry) /\ fs \in Seq(SoundEntry) /\ n \in Nat /\ Len(fs) = n
      /\ \A j \in 1..n : SameKind(es[j], fs[j])
      /\ k \in Nat \union {KeyframeNone}
  BY DEF EncType, Lasts
<1>2. \A i \in 0..n : Since(o, fs, i) = Since(o, es, i)
  <2>1. Len(es) <= Len(fs)
    BY <1>1
  <2>2. \A i \in 0..Len(es) : Since(o, es, i) = Since(o, fs, i)
    BY <1>1, <2>1, SameSince
  <2> QED BY <2>2
<1>3. Since(o, fs, Len(fs)) = Since(o, es, n)
  BY <1>1, <1>2
<1>4. AllInReach(o, f)
  BY <1>1, <1>2 DEF AllInReach, Ahead
<1>5. ASSUME k # KeyframeNone PROVE MayGiveWay(o, f, f.count_since_key_frame)
  <2>1. k \in Nat /\ k < n /\ k + 1 \in 1..n /\ k \in 0..n
    BY <1>1, <1>5 DEF KeyIsThere
  <2>2. MayGiveWay(o, e, e.count_since_key_frame)
    BY <1>5 DEF Ahead
  <2>3. ~fs[k + 1].is_pause
    BY <1>1, <2>1, <2>2 DEF MayGiveWay, SameKind
  <2>4. \A j \in k + 2..n : ~fs[j].is_key_frame
    <3>1. \A j \in k + 2..n : j \in 1..n
      BY <1>1, <2>1
    <3> QED BY <1>1, <2>2, <3>1 DEF MayGiveWay, SameKind
  <2>5. \A i \in k + 1..n : Since(o, fs, k) + 1 + Since(o, fs, i)
                              <= Rest + Lower(e.count_since_key_frame, Kmax - 1)
    <3>1. \A i \in k + 1..n : i \in 0..n
      BY <1>1, <2>1
    <3> QED BY <1>2, <2>1, <2>2, <3>1 DEF MayGiveWay
  <2> QED BY <1>1, <2>3, <2>4, <2>5 DEF MayGiveWay, Lasts
<1> QED BY <1>3, <1>4, <1>5 DEF Ahead, Lasts

LEMMA LongerSince ==
  ASSUME NEW o \in OutType, NEW e \in EncType, NEW f \in EncType, Longer(e, f)
  PROVE  LET n == Len(e.frames)
         IN /\ n \in Nat /\ Len(f.frames) = n + 1
            /\ \A i \in 0..n : Since(o, f.frames, i) = Since(o, e.frames, i)
            /\ Since(o, f.frames, n + 1) =
                 Since(o, e.frames, n) + (IF f.frames[n + 1].is_pause THEN 0 ELSE 1)
            /\ \A i \in 0..n : Since(o, e.frames, i) \in Nat
<1> DEFINE es == e.frames
           fs == f.frames
           n == Len(es)
<1>1. /\ es \in Seq(SoundEntry) /\ fs \in Seq(SoundEntry) /\ n \in Nat /\ Len(fs) = n + 1
      /\ \A j \in 1..n : SameKind(es[j], fs[j])
      /\ fs[n + 1].is_key_frame = FALSE
  BY DEF EncType, Longer
<1>2. \A i \in 0..n : Since(o, es, i) \in Nat
  BY <1>1, SincesAreNumbers
<1> HIDE DEF es, fs
<1>3. /\ \A i \in 0..n : Since(o, fs, i) = Since(o, es, i)
      /\ Since(o, fs, n + 1) = IF fs[n + 1].is_key_frame THEN 0
                               ELSE IF fs[n + 1].is_pause THEN Since(o, es, n)
                               ELSE Since(o, es, n) + 1
  BY <1>1, MoreSince
<1>4. Since(o, es, n) \in Nat
  BY <1>1, <1>2
<1> HIDE DEF n
<1> QED BY <1>1, <1>2, <1>3, <1>4 DEF es, fs, n

LEMMA LongerMayGiveWay ==
  ASSUME caller \in Callers, NEW o \in OutType, NEW e \in EncType, NEW f \in EncType,
         Longer(e, f), Ahead(o, e), KeyIsThere(e), e.keyframe # KeyframeNone,
         f.frames[Len(e.frames) + 1].is_pause \/ f.count_since_key_frame < Kmax
  PROVE  MayGiveWay(o, f, f.count_since_key_frame)
<1> DEFINE n == Len(e.frames)
           k == e.keyframe
           c == e.count_since_key_frame
           fs == f.frames
<1>1. /\ k \in Nat /\ k < n /\ n \in Nat /\ c \in Nat /\ Len(fs) = n + 1
      /\ f.keyframe = k /\ f.count_since_key_frame = c + 1
      /\ \A j \in 1..n : SameKind(e.frames[j], fs[j])
      /\ fs[n + 1].is_key_frame = FALSE
  BY DEF EncType, KeyIsThere, Longer
<1>2. MayGiveWay(o, e, c)
  BY DEF Ahead
<1>3. /\ \A i \in 0..n : Since(o, fs, i) = Since(o, e.frames, i)
      /\ Since(o, fs, n + 1) =
           Since(o, e.frames, n) + (IF fs[n + 1].is_pause THEN 0 ELSE 1)
      /\ \A i \in 0..n : Since(o, e.frames, i) \in Nat
  BY LongerSince
<1>4. Kmax \in Nat /\ Rest \in Nat
  BY BoundsFit
<1>5. ~fs[k + 1].is_pause
  <2>1. k + 1 \in 1..n
    BY <1>1
  <2> QED BY <1>1, <1>2, <2>1 DEF MayGiveWay, SameKind
<1>6. ASSUME NEW j \in k + 2..n + 1 PROVE ~fs[j].is_key_frame
  <2>1. CASE j = n + 1
    BY <1>1, <2>1
  <2>2. CASE j # n + 1
    <3>1. j \in 1..n /\ j \in k + 2..n
      BY <1>1, <2>2
    <3> QED BY <1>1, <1>2, <3>1 DEF MayGiveWay, SameKind
  <2> QED BY <2>1, <2>2
<1>7. ASSUME NEW i \in k + 1..n + 1
      PROVE  Since(o, fs, k) + 1 + Since(o, fs, i) <= Rest + Lower(c + 1, Kmax - 1)
  <2>1. Since(o, fs, k) = Since(o, e.frames, k) /\ Since(o, fs, k) \in Nat
    BY <1>1, <1>3
  <2>2. Lower(c, Kmax - 1) \in Int /\ Lower(c, Kmax - 1) <= Lower(c + 1, Kmax - 1)
        /\ Lower(c + 1, Kmax - 1) \in Int
    BY <1>1, <1>4 DEF Lower
  <2>3. CASE i # n + 1
    <3>1. i \in 0..n /\ i \in k + 1..n
      BY <1>1, <2>3
    <3>2. /\ Since(o, fs, i) = Since(o, e.frames, i) /\ Since(o, fs, i) \in Nat
          /\ Since(o, e.frames, k) + 1 + Since(o, e.frames, i) <= Rest + Lower(c, Kmax - 1)
      BY <1>2, <1>3, <3>1 DEF MayGiveWay
    <3> QED BY <1>4, <2>1, <2>2, <3>2
  <2>4. CASE i = n + 1
    <3>1. /\ Since(o, e.frames, k) + 1 + Since(o, e.frames, n) <= Rest + Lower(c, Kmax - 1)
          /\ Since(o, e.frames, n) \in Nat
      <4>1. n \in k + 1..n /\ n \in 0..n
        BY <1>1
      <4> QED BY <1>2, <1>3, <4>1 DEF MayGiveWay
    <3>2. CASE fs[n + 1].is_pause
      <4>1. Since(o, fs, i) = Since(o, e.frames, n)
        BY <1>3, <2>4, <3>1, <3>2
      <4> QED BY <1>4, <2>1, <2>2, <3>1, <4>1
    <3>3. CASE ~fs[n + 1].is_pause
      <4>1. Since(o, fs, i) = Since(o, e.frames, n) + 1
        BY <1>3, <2>4, <3>1, <3>3
      <4>2. Lower(c + 1, Kmax - 1) = Lower(c, Kmax - 1) + 1
        BY <1>1, <1>4, <3>3, SMTT(30) DEF Lower
      <4> QED BY <1>4, <2>1, <2>2, <3>1, <4>1, <4>2
    <3> QED BY <3>2, <3>3
  <2> QED BY <2>3, <2>4
<1> QED BY <1>1, <1>5, <1>6, <1>7 DEF MayGiveWay

LEMMA PausesAhead ==
  ASSUME caller \in Callers, NEW o \in OutType, NEW e \in EncType, NEW f \in EncType,
         Pauses(e, f), Ahead(o, e), KeyIsThere(e)
  PROVE  Ahead(o, f)
<1> DEFINE n == Len(e.frames)
           c == e.count_since_key_frame
           now == Since(o, e.frames, n)
<1>1. /\ n \in Nat /\ Len(f.frames) = n + 1
      /\ \A i \in 0..n : Since(o, f.frames, i) = Since(o, e.frames, i)
      /\ Since(o, f.frames, n + 1) = now /\ now \in Nat
  <2>1. f.frames[n + 1].is_pause = TRUE /\ Longer(e, f)
    BY DEF Pauses
  <2>2. /\ n \in Nat /\ Len(f.frames) = n + 1
        /\ \A i \in 0..n : Since(o, f.frames, i) = Since(o, e.frames, i)
        /\ Since(o, f.frames, n + 1) = now + (IF f.frames[n + 1].is_pause THEN 0 ELSE 1)
        /\ \A i \in 0..n : Since(o, e.frames, i) \in Nat
    BY <2>1, LongerSince
  <2>3. now \in Nat
    BY <2>2
  <2> HIDE DEF n, now
  <2> QED BY <2>1, <2>2, <2>3
<1>2. Kmax \in Nat /\ Rest \in Nat /\ Kmin \in Int /\ c \in Nat
  BY BoundsFit DEF EncType
<1>3. /\ f.keyframe = e.keyframe /\ f.best_delta = e.best_delta
      /\ f.count_since_key_frame = c + 1
  BY DEF Pauses, Longer
<1>4. AllInReach(o, f)
  <2>1. \A i \in 0..n : Since(o, e.frames, i) <= Bound
    BY DEF Ahead, AllInReach
  <2>2. now <= Bound
    BY <1>1, <2>1
  <2>3. ASSUME NEW i \in 0..n + 1 PROVE Since(o, f.frames, i) <= Bound
    <3>1. i = n + 1 \/ i \in 0..n
      BY <1>1
    <3> QED BY <1>1, <2>1, <2>2, <3>1
  <2> QED BY <1>1, <2>3 DEF AllInReach
<1>5. ASSUME e.best_delta = DeltaInfinity
      PROVE  now <= Rest + (IF Kmin <= 0 THEN 0 ELSE Lower(c + 1, Kmin))
  <2>1. now <= Rest + (IF Kmin <= 0 THEN 0 ELSE Lower(c, Kmin))
    BY <1>5 DEF Ahead
  <2> QED BY <1>1, <1>2, <2>1 DEF Lower
<1>6. ASSUME e.best_delta # DeltaInfinity
      PROVE  Kmax > 0 /\ now <= Lower(c + 1, Kmax - 1) - Kmin - 1
  <2>1. Kmax > 0 /\ now <= Lower(c, Kmax - 1) - Kmin - 1
    BY <1>6 DEF Ahead
  <2> QED BY <1>1, <1>2, <2>1 DEF Lower
<1>7. e.keyframe # KeyframeNone => MayGiveWay(o, f, f.count_since_key_frame)
  BY LongerMayGiveWay DEF Pauses
<1>8. e.best_delta = DeltaInfinity => e.keyframe = KeyframeNone
  BY DEF Ahead
<1>9. Since(o, f.frames, Len(f.frames)) = now
  BY <1>1
<1> HIDE DEF now
<1> QED BY <1>3, <1>4, <1>5, <1>6, <1>7, <1>8, <1>9 DEF Ahead

(* The first frame.                                                          *)
LEMMA FirstAhead ==
  ASSUME caller \in Callers, NEW o \in OutType, NEW e \in EncType, NEW f \in EncType,
         IsFirst(e, f), Ahead(o, e)
  PROVE  Ahead(o, f)
<1>1. /\ e.frames = <<>> /\ Len(f.frames) = 1 /\ f.frames[1].is_key_frame = TRUE
      /\ f.keyframe = KeyframeNone /\ f.best_delta = DeltaInfinity
      /\ f.count_since_key_frame = 0
  <2>1. Len(e.frames) = 0
    BY DEF IsFirst
  <2> QED BY <2>1 DEF IsFirst, Grown, IsNew
<1>2. Since(o, f.frames, 0) = o.since_key /\ Since(o, e.frames, 0) = o.since_key
  <2>1. Len(e.frames) = 0
    BY <1>1
  <2> QED BY <1>1, <2>1, EachSince
<1>3. Since(o, f.frames, 1) = 0
  <2>1. 0 < Len(f.frames) /\ Len(f.frames) \in Nat /\ 0 \in Nat /\ 0 + 1 = 1
    BY <1>1
  <2>2. Since(o, f.frames, 0 + 1) = IF f.frames[0 + 1].is_key_frame THEN 0
                                    ELSE IF f.frames[0 + 1].is_pause THEN Since(o, f.frames, 0)
                                    ELSE Since(o, f.frames, 0) + 1
    BY <2>1, EachSince
  <2> QED BY <1>1, <2>1, <2>2
<1>4. /\ Kmax \in Nat /\ Rest \in Nat /\ Kmin \in Int /\ Bound \in Nat
  BY BoundsFit
<1>5. o.since_key <= Bound
  <2>1. 0 \in 0..Len(e.frames)
    BY <1>1
  <2> QED BY <1>2, <2>1 DEF Ahead, AllInReach
<1>6. AllInReach(o, f)
  <2>1. \A i \in 0..Len(f.frames) : i = 0 \/ i = 1
    BY <1>1
  <2> QED BY <1>2, <1>3, <1>4, <1>5, <2>1 DEF AllInReach
<1>7. Since(o, f.frames, Len(f.frames)) = 0
  BY <1>1, <1>3
<1> QED BY <1>1, <1>4, <1>6, <1>7 DEF Ahead, Lower

(* Too soon for a key-frame: then no window is open.                         *)
LEMMA SubFrameAhead ==
  ASSUME caller \in Callers, NEW o \in OutType, NEW e \in EncType, NEW f \in EncType,
         AsSub(e, f), Ready(e), Ahead(o, e)
  PROVE  Ahead(o, f)
<1> DEFINE n == Len(e.frames)
           c == e.count_since_key_frame
           now == Since(o, e.frames, n)
<1>1. Longer(e, f) /\ f.frames[n + 1].is_pause = FALSE
  BY DEF AsSub, Longer, Grown, IsNew, Alike
<1>2. /\ n \in Nat /\ Len(f.frames) = n + 1
      /\ \A i \in 0..n : Since(o, f.frames, i) = Since(o, e.frames, i)
      /\ Since(o, f.frames, n + 1) = now + 1 /\ now \in Nat
  <2>1. /\ n \in Nat /\ Len(f.frames) = n + 1
        /\ \A i \in 0..n : Since(o, f.frames, i) = Since(o, e.frames, i)
        /\ Since(o, f.frames, n + 1) = now + (IF f.frames[n + 1].is_pause THEN 0 ELSE 1)
        /\ \A i \in 0..n : Since(o, e.frames, i) \in Nat
    BY <1>1, LongerSince
  <2>2. now \in Nat
    BY <2>1
  <2> HIDE DEF n, now
  <2> QED BY <1>1, <2>1, <2>2
<1>3. /\ Kmax \in Nat /\ Rest \in Nat /\ Kmin \in Int /\ Bound \in Nat /\ c \in Nat
      /\ Kmax = 0 => Kmin = 0
      /\ Kmax > 0 => Kmin < Kmax /\ Bound = Rest + Kmax - 1
  BY BoundsFit DEF EncType
<1>4. c + 1 <= Kmin
  BY <1>3 DEF AsSub, MayBeKey, Kmin
<1>5. e.best_delta = DeltaInfinity
  <2>1. Reach(e) \in Nat
    BY DEF Reach, EncType
  <2> QED BY <1>3, <1>4, <2>1 DEF Ready, InWindow
<1>6. e.keyframe = KeyframeNone /\ now <= Rest + c
  BY <1>3, <1>4, <1>5 DEF Ahead, Lower
<1>7. Since(o, f.frames, n + 1) <= Bound
  BY <1>2, <1>3, <1>4, <1>6
<1>8. AllInReach(o, f)
  <2>1. \A i \in 0..n : Since(o, e.frames, i) <= Bound
    BY DEF Ahead, AllInReach
  <2>2. ASSUME NEW i \in 0..n + 1 PROVE Since(o, f.frames, i) <= Bound
    <3>1. i = n + 1 \/ i \in 0..n
      BY <1>2
    <3> QED BY <1>2, <1>7, <2>1, <3>1
  <2> QED BY <1>2, <2>2 DEF AllInReach
<1>9. /\ f.keyframe = KeyframeNone /\ f.best_delta = DeltaInfinity
      /\ f.count_since_key_frame = c + 1
  BY <1>1, <1>5, <1>6 DEF Longer
<1>10. Since(o, f.frames, Len(f.frames)) <= Rest + (IF Kmin <= 0 THEN 0 ELSE Lower(c + 1, Kmin))
  BY <1>2, <1>3, <1>4, <1>6 DEF Lower
<1> QED BY <1>8, <1>9, <1>10 DEF Ahead

(* A frame that could have been the key-frame, but costs more.               *)
LEMMA NotPickedAhead ==
  ASSUME caller \in Callers, NEW o \in OutType, NEW e \in EncType, NEW g \in EncType,
         NEW f \in EncType, AsEither(e, g), Grown(e, g, FALSE),
         e.best_delta # DeltaInfinity, g.best_delta = e.best_delta,
         g.keyframe = e.keyframe, Settled(g, f), KeyIsThere(e), Ahead(o, e)
  PROVE  Ahead(o, f)
<1> DEFINE n == Len(e.frames)
           c == e.count_since_key_frame
           now == Since(o, e.frames, n)
<1>1. Longer(e, g) /\ g.frames[n + 1].is_pause = FALSE
  BY DEF AsEither, Longer, Grown, IsNew, Alike
<1>2. /\ n \in Nat /\ Len(g.frames) = n + 1
      /\ \A i \in 0..n : Since(o, g.frames, i) = Since(o, e.frames, i)
      /\ Since(o, g.frames, n + 1) = now + 1 /\ now \in Nat
  <2>1. /\ n \in Nat /\ Len(g.frames) = n + 1
        /\ \A i \in 0..n : Since(o, g.frames, i) = Since(o, e.frames, i)
        /\ Since(o, g.frames, n + 1) = now + (IF g.frames[n + 1].is_pause THEN 0 ELSE 1)
        /\ \A i \in 0..n : Since(o, e.frames, i) \in Nat
    BY <1>1, LongerSince
  <2>2. now \in Nat
    BY <2>1
  <2> HIDE DEF n, now
  <2> QED BY <1>1, <2>1, <2>2
<1>3. /\ Kmax \in Nat /\ Rest \in Nat /\ Kmin \in Int /\ Bound \in Nat /\ c \in Nat
      /\ Kmax > 0 => /\ Kmin < Kmax /\ Rest = Kmax - Kmin - 1
                     /\ Bound = Rest + Kmax - 1
  BY BoundsFit DEF EncType
<1>4. Kmax > 0 /\ now <= Lower(c, Kmax - 1) - Kmin - 1
  BY DEF Ahead
<1>5. now + 1 <= Rest /\ now + 1 <= Bound
  BY <1>2, <1>3, <1>4 DEF Lower
<1>6. AllInReach(o, g)
  <2>1. \A i \in 0..n : Since(o, e.frames, i) <= Bound
    BY DEF Ahead, AllInReach
  <2>2. ASSUME NEW i \in 0..n + 1 PROVE Since(o, g.frames, i) <= Bound
    <3>1. i = n + 1 \/ i \in 0..n
      BY <1>2
    <3> QED BY <1>2, <1>5, <2>1, <3>1
  <2> QED BY <1>2, <2>2 DEF AllInReach
<1>7. Since(o, g.frames, Len(g.frames)) = now + 1
  BY <1>2
<1>8. g.count_since_key_frame = c + 1
  BY DEF AsEither
<1> HIDE DEF now
<1>9. CASE f = g /\ g.count_since_key_frame < Kmax
  <2>1. now + 1 <= Lower(c + 1, Kmax - 1) - Kmin - 1
    BY <1>2, <1>3, <1>4, <1>8, <1>9 DEF Lower
  <2>2. e.keyframe # KeyframeNone => MayGiveWay(o, g, g.count_since_key_frame)
    BY <1>1, <1>9, LongerMayGiveWay
  <2> QED BY <1>4, <1>6, <1>7, <1>8, <1>9, <2>1, <2>2 DEF Ahead
<1>10. CASE Closes(g, f)
  <2>1. AllInReach(o, f) /\ Since(o, f.frames, Len(f.frames)) = now + 1
    BY <1>6, <1>7, <1>10 DEF Closes, AllInReach
  <2>2. now + 1 <= Rest + (IF Kmin <= 0 THEN 0 ELSE Lower(0, Kmin))
    BY <1>2, <1>3, <1>5 DEF Lower
  <2> QED BY <1>10, <2>1, <2>2 DEF Ahead, Closes
<1> QED BY <1>9, <1>10 DEF Settled

(* A frame that takes over from the key-frame picked before, if there is one.*)
LEMMA TakenOverSince ==
  ASSUME caller \in Callers, NEW o \in OutType, NEW e \in EncType, NEW g \in EncType,
         TakesOver(e, g), KeyIsThere(e), Ahead(o, e)
  PROVE  LET n == Len(e.frames)
         IN /\ n \in Nat /\ Len(g.frames) = n + 1
            /\ AllInReach(o, g) /\ Since(o, g.frames, n + 1) = 0
            /\ Since(o, g.frames, n) \in Nat
            /\ Since(o, g.frames, n) <= Rest + e.count_since_key_frame
<1> DEFINE es == e.frames
           fs == g.frames
           n == Len(es)
           k == e.keyframe
           c == e.count_since_key_frame
<1>1. /\ es \in Seq(SoundEntry) /\ fs \in Seq(SoundEntry) /\ n \in Nat /\ Len(fs) = n + 1
      /\ k \in Nat \union {KeyframeNone} /\ c \in Nat /\ n <= Len(fs)
  BY DEF EncType, TakesOver
<1>2. /\ Kmax \in Nat /\ Rest \in Nat /\ Kmin \in Int /\ Bound \in Nat
      /\ Kmax > 0 => /\ Kmin < Kmax /\ Rest = Kmax - Kmin - 1
                     /\ Bound = Rest + Kmax - 1
  BY BoundsFit
<1>3. \A i \in 0..n : Since(o, es, i) \in Nat /\ Since(o, es, i) <= Bound
  BY <1>1, SincesAreNumbers DEF Ahead, AllInReach
<1>4. \A i \in 0..n + 1 : Since(o, fs, i) \in Nat
  BY <1>1, SincesAreNumbers
<1>5. Since(o, fs, n + 1) = 0
  <2>1. fs[n + 1].is_key_frame = TRUE
    BY DEF TakesOver, IsNew
  <2>2. n < Len(fs) /\ Len(fs) \in Nat
    BY <1>1
  <2> HIDE DEF n, es, fs
  <2>3. Since(o, fs, n + 1) = IF fs[n + 1].is_key_frame THEN 0
                              ELSE IF fs[n + 1].is_pause THEN Since(o, fs, n)
                              ELSE Since(o, fs, n) + 1
    BY <1>1, <2>2, EachSince
  <2> QED BY <2>1, <2>3
<1>6. \A j \in 1..n : /\ fs[j].is_pause = es[j].is_pause
                      /\ fs[j].is_key_frame = (es[j].is_key_frame /\ j # k + 1)
                      /\ es[j].is_key_frame \in BOOLEAN
  <2>1. \A j \in 1..n : es[j] \in SoundEntry
    BY <1>1
  <2> QED BY <2>1 DEF TakesOver, SoundEntry
<1>7. (\A i \in 0..n : Since(o, fs, i) <= Bound) /\ Since(o, fs, n) <= Rest + c
  <2>1. CASE k = KeyframeNone
    <3>1. \A j \in 1..n : SameKind(es[j], fs[j])
      BY <1>1, <1>6, <2>1 DEF SameKind, KeyframeNone
    <3>2. \A i \in 0..n : Since(o, es, i) = Since(o, fs, i)
      <4> HIDE DEF es, fs
      <4> QED BY <1>1, <3>1, SameSince
    <3>3. Since(o, es, n) <= Rest + c /\ Since(o, es, n) \in Nat
      <4>1. Since(o, es, n) \in Nat
        BY <1>1, <1>3
      <4>2. CASE e.best_delta = DeltaInfinity
        <5>1. Since(o, es, n) <= Rest + (IF Kmin <= 0 THEN 0 ELSE Lower(c, Kmin))
          BY <4>2 DEF Ahead
        <5> QED BY <1>1, <1>2, <4>1, <5>1 DEF Lower
      <4>3. CASE e.best_delta # DeltaInfinity
        <5>1. Kmax > 0 /\ Since(o, es, n) <= Lower(c, Kmax - 1) - Kmin - 1
          BY <4>3 DEF Ahead
        <5> QED BY <1>1, <1>2, <4>1, <5>1 DEF Lower
      <4> QED BY <4>1, <4>2, <4>3
    <3>4. Since(o, fs, n) = Since(o, es, n)
      BY <1>1, <3>2
    <3> QED BY <1>3, <3>2, <3>3, <3>4
  <2>2. CASE k # KeyframeNone
    <3>1. k \in Nat /\ k < n /\ k \in 0..n - 1 /\ k + 1 \in 1..n /\ es[k + 1].is_key_frame
          /\ n \in k + 1..n
      BY <1>1, <2>2 DEF KeyIsThere
    <3>2. MayGiveWay(o, e, c)
      BY <2>2 DEF Ahead
    <3>3. GivesWay(es, fs, k)
      <4>1. \A j \in 1..n : j # k + 1 => SameKind(es[j], fs[j])
        BY <1>1, <1>6, <3>1 DEF SameKind
      <4>2. ~fs[k + 1].is_key_frame /\ ~fs[k + 1].is_pause
        BY <1>6, <3>1, <3>2 DEF MayGiveWay
      <4>3. \A j \in k + 2..n : ~es[j].is_key_frame
        BY <3>2 DEF MayGiveWay
      <4> QED BY <3>1, <4>1, <4>2, <4>3 DEF GivesWay
    <3>4. \A i \in 0..n : Since(o, fs, i) = IF i <= k THEN Since(o, es, i)
                                            ELSE Since(o, es, k) + 1 + Since(o, es, i)
      <4> HIDE DEF es, fs
      <4> QED BY <1>1, <3>1, <3>3, Demotion
    <3>5. \A i \in k + 1..n : Since(o, es, k) + 1 + Since(o, es, i) <= Rest + Lower(c, Kmax - 1)
      BY <3>2 DEF MayGiveWay
    <3>6. e.best_delta # DeltaInfinity /\ Kmax > 0
      BY <2>2 DEF Ahead
    <3>7. /\ Lower(c, Kmax - 1) \in Int /\ Rest + Lower(c, Kmax - 1) <= Bound
          /\ Rest + Lower(c, Kmax - 1) <= Rest + c
      BY <1>1, <1>2, <3>6 DEF Lower
    <3>8. ASSUME NEW i \in 0..n, i > k
          PROVE  Since(o, fs, i) <= Rest + Lower(c, Kmax - 1)
      <4>1. i \in k + 1..n /\ ~(i <= k)
        BY <1>1, <3>1, <3>8
      <4> QED BY <3>4, <3>5, <4>1
    <3>9. ASSUME NEW i \in 0..n PROVE Since(o, fs, i) <= Bound
      <4>1. CASE i <= k
        BY <1>3, <3>4, <4>1
      <4>2. CASE ~(i <= k)
        <5>1. i > k /\ i \in 0..n + 1
          BY <1>1, <3>1, <4>2
        <5>2. Since(o, fs, i) \in Nat /\ Since(o, fs, i) <= Rest + Lower(c, Kmax - 1)
          BY <1>4, <3>8, <5>1
        <5> QED BY <1>2, <3>7, <5>2
      <4> QED BY <4>1, <4>2
    <3>10. Since(o, fs, n) <= Rest + c
      <4>1. n \in 0..n /\ n > k /\ n \in 0..n + 1
        BY <1>1, <3>1
      <4>2. Since(o, fs, n) \in Nat /\ Since(o, fs, n) <= Rest + Lower(c, Kmax - 1)
        BY <1>4, <3>8, <4>1
      <4> QED BY <1>1, <1>2, <3>7, <4>2
    <3> QED BY <3>9, <3>10
  <2> QED BY <2>1, <2>2
<1>8. AllInReach(o, g)
  <2>1. ASSUME NEW i \in 0..n + 1 PROVE Since(o, fs, i) <= Bound
    <3>1. i = n + 1 \/ i \in 0..n
      BY <1>1
    <3> QED BY <1>2, <1>5, <1>7, <3>1
  <2> QED BY <1>1, <2>1 DEF AllInReach
<1>9. Since(o, fs, n) \in Nat
  BY <1>1, <1>4
<1> QED BY <1>1, <1>5, <1>7, <1>8, <1>9

LEMMA PickedAhead ==
  ASSUME caller \in Callers, NEW o \in OutType, NEW e \in EncType, NEW g \in EncType,
         NEW f \in EncType, AsEither(e, g), TakesOver(e, g),
         g.best_delta # DeltaInfinity, g.keyframe = Len(e.frames), Settled(g, f),
         KeyIsThere(e), Ahead(o, e)
  PROVE  Ahead(o, f)
<1> DEFINE n == Len(e.frames)
           c == e.count_since_key_frame
<1>1. /\ n \in Nat /\ Len(g.frames) = n + 1 /\ AllInReach(o, g)
      /\ Since(o, g.frames, n + 1) = 0 /\ Since(o, g.frames, n) \in Nat
      /\ Since(o, g.frames, n) <= Rest + c
  BY TakenOverSince
<1>2. /\ Kmax \in Nat /\ Rest \in Nat /\ Kmin \in Int /\ c \in Nat
      /\ Kmax > 0 => Kmin < Kmax /\ Rest = Kmax - Kmin - 1
  BY BoundsFit DEF EncType
<1>3. g.count_since_key_frame = c + 1 /\ c + 1 > Kmin
  BY <1>2 DEF AsEither, MayBeKey, Kmin
<1>4. CASE f = g /\ g.count_since_key_frame < Kmax
  <2>1. Lower(c + 1, Kmax - 1) = c + 1 /\ Kmax > 0
    BY <1>2, <1>3, <1>4 DEF Lower
  <2>2. Since(o, g.frames, Len(g.frames)) <= Lower(c + 1, Kmax - 1) - Kmin - 1
    BY <1>1, <1>2, <1>3, <2>1
  <2>3. MayGiveWay(o, g, c + 1)
    <3>1. g.keyframe = n /\ Len(g.frames) = n + 1
      BY <1>1
    <3>2. g.frames[n + 1].is_pause = FALSE
      BY DEF TakesOver, IsNew
    <3>3. \A j \in n + 2..n + 1 : FALSE
      BY <1>1
    <3>4. ASSUME NEW i \in n + 1..n + 1
          PROVE  Since(o, g.frames, n) + 1 + Since(o, g.frames, i)
                   <= Rest + Lower(c + 1, Kmax - 1)
      <4>1. i = n + 1
        BY <1>1
      <4>2. Since(o, g.frames, i) = 0
        BY <1>1, <4>1
      <4> QED BY <1>1, <1>2, <2>1, <4>2
    <3> HIDE DEF n
    <3> QED BY <3>1, <3>2, <3>3, <3>4 DEF MayGiveWay
  <2> QED BY <1>1, <1>3, <1>4, <2>1, <2>2, <2>3 DEF Ahead
<1>5. CASE Closes(g, f)
  <2>1. AllInReach(o, f) /\ Since(o, f.frames, Len(f.frames)) = 0
    BY <1>1, <1>5 DEF Closes, AllInReach
  <2>2. 0 <= Rest + (IF Kmin <= 0 THEN 0 ELSE Lower(0, Kmin))
    BY <1>2 DEF Lower
  <2> QED BY <1>5, <2>1, <2>2 DEF Ahead, Closes
<1> QED BY <1>4, <1>5 DEF Settled

LEMMA AcceptedAhead ==
  ASSUME caller \in Callers, NEW e \in EncType, NEW o \in OutType,
         e.is_first_frame => Quiet(e), ~e.is_first_frame => Ready(e),
         NEW method \in caller.methods, NEW cur \in Canvas,
         NEW f \in Accepted(e, method, cur), Ahead(o, e)
  PROVE  Ahead(o, f)
<1>1. f \in EncType
  BY AcceptedIsSound
<1>2. CASE e.is_first_frame /\ IsFirst(e, f)
  BY <1>1, <1>2, FirstAhead
<1>3. CASE Ready(e) /\ Skips(e, f)
  BY <1>3 DEF Skips, Ahead, AllInReach, MayGiveWay
<1>4. CASE Ready(e) /\ AsSub(e, f)
  BY <1>1, <1>4, SubFrameAhead
<1>5. CASE Ready(e) /\ \E g \in EncType : AsEither(e, g) /\ Settled(g, f)
  <2>1. PICK g \in EncType : AsEither(e, g) /\ Settled(g, f)
    BY <1>5
  <2>2. KeyIsThere(e)
    BY <1>5 DEF Ready
  <2>3. CASE /\ Grown(e, g, FALSE) /\ e.best_delta # DeltaInfinity
             /\ g.best_delta = e.best_delta /\ g.keyframe = e.keyframe
    BY <1>1, <2>1, <2>2, <2>3, NotPickedAhead
  <2>4. CASE /\ TakesOver(e, g) /\ g.best_delta # DeltaInfinity
             /\ g.keyframe = Len(e.frames)
    BY <1>1, <2>1, <2>2, <2>4, PickedAhead
  <2> QED BY <2>1, <2>3, <2>4 DEF AsEither
<1> QED BY <1>2, <1>3, <1>4, <1>5, Outcome

LEMMA LengthenedAhead ==
  ASSUME caller \in Callers, NEW o \in OutType, NEW e \in EncType, e.frames # <<>>,
         KeyIsThere(e), NEW d \in 0..MaxDuration - 1, Ahead(o, e)
  PROVE  Ahead(o, IncreasePreviousDuration(e, d))
<1> DEFINE f == IncreasePreviousDuration(e, d)
<1>1. f \in EncType /\ (Lasts(e, f) \/ Pauses(e, f))
  BY IncreaseIsSound, LengthenedKinds
<1> HIDE DEF f
<1>2. Ahead(o, f)
  BY <1>1, LastsAhead, PausesAhead
<1> QED BY <1>2 DEF f

LEMMA FlushedAhead ==
  ASSUME NEW e \in EncType, NEW o \in OutType, KeyIsThere(e),
         e.flush_count <= Len(e.frames), Ahead(o, e)
  PROVE  LET p == FlushFrames(State(e, o)) IN Ahead(p.out, p.enc)
<1> DEFINE p == FlushFrames(State(e, o))
           n == e.flush_count
<1>1. p.enc \in EncType /\ PushedCounts(e, p.enc, n)
  BY FlushIsSound
<1>2. \A i \in 0..Len(p.enc.frames) :
        Screens(p.out, p.enc.frames)[i] = Screens(o, e.frames)[i + n]
  BY FlushedScreens
<1> HIDE DEF p
<1>3. PushedOn(o, e, p.out, p.enc, n)
  BY <1>1, <1>2 DEF PushedOn
<1>4. n \in 0..Len(e.frames)
  BY DEF EncType
<1> HIDE DEF n
<1>5. Ahead(p.out, p.enc)
  BY <1>3, <1>4, PushedAhead
<1> QED BY <1>5 DEF p

LEMMA SomeInReach ==
  ASSUME NEW e \in EncType, NEW o \in OutType, InBounds(e), AllInReach(o, e),
         NEW n \in 0..e.flush_count
  PROVE  LET p == Pushed(State(e, o), n) IN AllInReach(p.out, p.enc)
<1> DEFINE p == Pushed(State(e, o), n)
<1>1. KeyIsThere(e) /\ e.flush_count <= Len(e.frames)
  BY DEF InBounds
<1>2. p.enc \in EncType /\ PushedCounts(e, p.enc, n)
  BY <1>1, PushedIsSound
<1>3. \A i \in 0..Len(p.enc.frames) :
        Screens(p.out, p.enc.frames)[i] = Screens(o, e.frames)[i + n]
  BY <1>1, PushedScreens
<1> HIDE DEF p
<1>4. PushedOn(o, e, p.out, p.enc, n)
  BY <1>2, <1>3 DEF PushedOn
<1>5. n \in 0..Len(e.frames)
  BY <1>1 DEF EncType
<1>6. AllInReach(p.out, p.enc)
  BY <1>4, <1>5, PushedInReach
<1> QED BY <1>6 DEF p

LEMMA FlushedInReach ==
  ASSUME NEW e \in EncType, NEW o \in OutType, InBounds(e), AllInReach(o, e)
  PROVE  LET p == FlushFrames(State(e, o)) IN AllInReach(p.out, p.enc)
<1> DEFINE p == FlushFrames(State(e, o))
           n == e.flush_count
<1>1. KeyIsThere(e) /\ e.flush_count <= Len(e.frames)
  BY DEF InBounds
<1>2. p.enc \in EncType /\ PushedCounts(e, p.enc, n)
  BY <1>1, FlushIsSound
<1>3. \A i \in 0..Len(p.enc.frames) :
        Screens(p.out, p.enc.frames)[i] = Screens(o, e.frames)[i + n]
  BY <1>1, FlushedScreens
<1> HIDE DEF p
<1>4. PushedOn(o, e, p.out, p.enc, n)
  BY <1>2, <1>3 DEF PushedOn
<1>5. n \in 0..Len(e.frames)
  BY <1>1 DEF EncType
<1> HIDE DEF n
<1>6. AllInReach(p.out, p.enc)
  BY <1>4, <1>5, PushedInReach
<1> QED BY <1>6 DEF p

LEMMA StartedAhead ==
  ASSUME StateInv, MayAdd, NEW t \in Int, Timely(t), Ahead(out, enc)
  PROVE  Ahead(Started(t).out, Started(t).enc)
<1> DEFINE s == Started(t)
<1>1. /\ caller \in Callers /\ enc \in EncType /\ out \in OutType /\ InBounds(enc)
      /\ Quiet(enc)
  BY DEF StateInv, IsQuiet, MayAdd, MayCall
<1>2. CASE enc.is_first_frame
  BY <1>2 DEF Started, State
<1>3. CASE ~enc.is_first_frame
  <2> DEFINE d == t - enc.prev_timestamp
             f == IncreasePreviousDuration(enc, d)
  <2>1. enc.frames # <<>> /\ d \in 0..MaxDuration - 1 /\ KeyIsThere(enc)
    BY <1>1, <1>3 DEF Quiet, Timely, InBounds
  <2>2. f \in EncType /\ InBounds(f)
    BY <1>1, <2>1, IncreasedInBounds
  <2>3. Ahead(out, f)
    BY <1>1, <2>1, LengthenedAhead
  <2> HIDE DEF f
  <2>4. Lengthened(t) = State(f, out)
    BY DEF Lengthened, f
  <2>5. s = FlushFrames(State(f, out)) \/ s = State(f, out)
    BY <1>3, <2>4 DEF Started, State
  <2>6. CASE s = State(f, out)
    BY <2>3, <2>6 DEF State
  <2>7. CASE s = FlushFrames(State(f, out))
    <3> DEFINE p == FlushFrames(State(f, out))
    <3>1. KeyIsThere(f) /\ f.flush_count <= Len(f.frames)
      BY <2>2 DEF InBounds
    <3>2. Ahead(p.out, p.enc)
      BY <1>1, <2>2, <2>3, <3>1, FlushedAhead
    <3> HIDE DEF p, s
    <3> QED BY <2>7, <3>2 DEF p, s
  <2> QED BY <2>5, <2>6, <2>7
<1> QED BY <1>2, <1>3

LEMMA FailedInReach ==
  ASSUME caller \in Callers, NEW e \in EncType, NEW o \in OutType,
         ~e.is_first_frame => e.frames # <<>>,
         NEW method \in caller.methods, NEW cur \in Canvas,
         NEW f \in EncodingFailed(e, method, cur), AllInReach(o, e)
  PROVE  AllInReach(o, f)
<1>1. CASE f = e
  BY <1>1
<1>2. CASE f # e
  <2>1. PICK c \in SubFrames(e, method, cur) :
          f = [WithPreviousDispose(e, c.dispose) EXCEPT !.prev_rect = c.frame.rect]
    BY <1>2 DEF EncodingFailed
  <2>2. e.frames # <<>>
    BY <1>2 DEF EncodingFailed
  <2>3. c.dispose \in {"none", "background"}
    BY SubFramesAreSound DEF IsCandidate
  <2> DEFINE d == WithPreviousDispose(e, c.dispose)
  <2>4. d \in EncType /\ AllAlike(e, d)
    BY <2>2, <2>3, PreviousDisposeIsSound, DisposalKeepsKinds
  <2> HIDE DEF d
  <2>5. f.frames = d.frames
    BY <2>1, <2>4 DEF EncType, d
  <2>6. /\ e.frames \in Seq(SoundEntry) /\ d.frames \in Seq(SoundEntry)
        /\ Len(d.frames) = Len(e.frames) /\ Len(e.frames) <= Len(d.frames)
        /\ \A j \in 1..Len(e.frames) : SameKind(e.frames[j], d.frames[j])
    BY <2>4 DEF EncType, AllAlike, Alike
  <2>7. \A i \in 0..Len(e.frames) : Since(o, e.frames, i) = Since(o, d.frames, i)
    BY <2>6, SameSince
  <2> QED BY <2>5, <2>6, <2>7 DEF AllInReach
<1> QED BY <1>1, <1>2

LEMMA FailuresInReach ==
  ASSUME StateInv, NEW t \in Times, MayAdd => Ahead(out, enc), AllInReach(out, enc),
         \/ \E cur \in caller.canvases, method \in caller.methods :
              AddFails(cur, method, t) \/ AddIsNotMuxed(cur, method, t)
         \/ PauseIsNotMuxed(t) \/ AddRefused(t) \/ AddTooLate(t)
  PROVE  AllInReach(out, enc)'
<1> DEFINE s == Started(t)
<1>1. caller \in Callers /\ enc \in EncType /\ out \in OutType /\ InBounds(enc) /\ t \in Int
  BY TimeIsInt DEF StateInv
<1>2. ASSUME NEW e, NEW o, AllInReach(o, e), enc' = e, out' = o, UNCHANGED caller
      PROVE  AllInReach(out, enc)'
  BY <1>2 DEF AllInReach, Bound, Kmax, Kmin, Options
<1>3. ASSUME NEW cur \in caller.canvases, NEW method \in caller.methods,
             AddFails(cur, method, t)
      PROVE  AllInReach(out, enc)'
  <2>1. Begun(t) /\ cur \in Canvas /\ MayAdd /\ Timely(t)
    BY <1>1, <1>3, EachCallBegins, GivenCanvas DEF AddFails
  <2>2. AllInReach(s.out, s.enc)
    BY <1>1, <2>1, StartedAhead DEF Ahead
  <2>3. PICK e \in EncodingFailed(s.enc, method, cur) : Return(State(e, s.out), "error")
    BY <1>3 DEF AddFails
  <2> HIDE DEF s
  <2>4. s.enc \in EncType /\ s.out \in OutType /\ (~s.enc.is_first_frame => s.enc.frames # <<>>)
    BY <2>1 DEF Begun, Ready, s
  <2>5. AllInReach(s.out, e)
    BY <1>1, <2>1, <2>2, <2>4, FailedInReach
  <2>6. enc' = e /\ out' = s.out /\ UNCHANGED caller
    BY <2>3 DEF Return, State
  <2> QED BY <1>2, <2>5, <2>6
<1>4. ASSUME NEW cur \in caller.canvases, NEW method \in caller.methods,
             AddIsNotMuxed(cur, method, t)
      PROVE  AllInReach(out, enc)'
  <2>1. Begun(t) /\ cur \in Canvas /\ MayAdd /\ Timely(t)
    BY <1>1, <1>4, EachCallBegins, GivenCanvas DEF AddIsNotMuxed
  <2>2. Ahead(s.out, s.enc)
    BY <1>1, <2>1, StartedAhead
  <2>3. PICK e \in Accepted(s.enc, method, cur) : \E n \in 0..e.flush_count - 1 :
          Return(Pushed(State(e, s.out), n), "error")
    BY <1>4 DEF AddIsNotMuxed
  <2>4. PICK n \in 0..e.flush_count - 1 : Return(Pushed(State(e, s.out), n), "error")
    BY <2>3
  <2> HIDE DEF s
  <2>5. /\ s.enc \in EncType /\ s.out \in OutType
        /\ s.enc.is_first_frame => Quiet(s.enc)
        /\ ~s.enc.is_first_frame => Ready(s.enc)
    BY <2>1 DEF Begun, s
  <2>6. e \in EncType /\ Filled(e) /\ AllInReach(s.out, e)
    BY <1>1, <2>1, <2>2, <2>5, AcceptedIsSound, AcceptedAhead DEF Ahead
  <2>7. InBounds(e) /\ n \in 0..e.flush_count
    <3>1. e.flush_count \in Nat /\ Len(e.frames) \in Nat
      BY <2>6 DEF EncType
    <3> QED BY <2>6, <3>1 DEF Filled, InBounds
  <2> DEFINE p == Pushed(State(e, s.out), n)
  <2>8. AllInReach(p.out, p.enc)
    BY <2>5, <2>6, <2>7, SomeInReach
  <2>9. enc' = p.enc /\ out' = p.out /\ UNCHANGED caller
    BY <2>4 DEF Return
  <2> HIDE DEF p
  <2> QED BY <1>2, <2>8, <2>9
<1>5. CASE PauseIsNotMuxed(t)
  <2> DEFINE d == t - enc.prev_timestamp
             f == IncreasePreviousDuration(enc, d)
  <2>1. /\ Quiet(enc) /\ ~enc.is_first_frame /\ d \in 0..MaxDuration - 1
        /\ enc.frames # <<>> /\ KeyIsThere(enc) /\ Ahead(out, enc)
    BY <1>5 DEF PauseIsNotMuxed, StateInv, IsQuiet, MayAdd, MayCall, Timely, Quiet, InBounds
  <2>2. f \in EncType /\ InBounds(f) /\ AllInReach(out, f)
    BY <1>1, <2>1, IncreasedInBounds, LengthenedAhead DEF Ahead
  <2>3. Lengthened(t) = State(f, out)
    BY DEF Lengthened
  <2> HIDE DEF f
  <2>4. PICK n \in 0..f.flush_count - 1 : Return(Pushed(State(f, out), n), "error")
    BY <1>5, <2>3 DEF PauseIsNotMuxed, State
  <2>5. n \in 0..f.flush_count
    BY <2>2 DEF EncType
  <2> DEFINE p == Pushed(State(f, out), n)
  <2>6. AllInReach(p.out, p.enc)
    BY <1>1, <2>2, <2>5, SomeInReach
  <2>7. enc' = p.enc /\ out' = p.out /\ UNCHANGED caller
    BY <2>4 DEF Return
  <2> HIDE DEF p
  <2> QED BY <1>2, <2>6, <2>7
<1>6. CASE AddRefused(t)
  <2>1. AllInReach(s.out, s.enc)
    BY <1>1, <1>6, StartedAhead DEF AddRefused, Ahead
  <2>2. enc' = s.enc /\ out' = s.out /\ UNCHANGED caller
    BY <1>6 DEF AddRefused, Return
  <2> HIDE DEF s
  <2> QED BY <1>2, <2>1, <2>2
<1>7. CASE AddTooLate(t)
  <2>1. enc' = enc /\ out' = out /\ UNCHANGED caller
    BY <1>7 DEF AddTooLate, Return, State
  <2> QED BY <1>2, <2>1
<1> QED BY <1>3, <1>4, <1>5, <1>6, <1>7

LEMMA AddStaysAhead ==
  ASSUME StateInv, NEW t \in Times, NEW cur \in caller.canvases,
         NEW method \in caller.methods, Add(cur, method, t), Ahead(out, enc)
  PROVE  Ahead(out, enc)'
<1> DEFINE s == Started(t)
<1>1. /\ caller \in Callers /\ cur \in Canvas /\ MayAdd /\ Timely(t) /\ t \in Int
  BY GivenCanvas, TimeIsInt DEF StateInv, Add
<1>2. Begun(t) /\ Ahead(s.out, s.enc)
  BY <1>1, EachCallBegins, StartedAhead
<1>3. PICK e \in Accepted(s.enc, method, cur) :
        Return([FlushFrames(State(e, s.out)) EXCEPT !.enc.prev_timestamp = t], "ok")
  BY DEF Add
<1>4. /\ s.enc \in EncType /\ s.out \in OutType
      /\ s.enc.is_first_frame => Quiet(s.enc)
      /\ ~s.enc.is_first_frame => Ready(s.enc)
  BY <1>2 DEF Begun
<1> HIDE DEF s
<1>5. e \in EncType /\ Filled(e) /\ Ahead(s.out, e)
  BY <1>1, <1>2, <1>4, AcceptedIsSound, AcceptedAhead
<1> DEFINE p == FlushFrames(State(e, s.out))
<1>6. KeyIsThere(e) /\ e.flush_count <= Len(e.frames)
  <2>1. e.flush_count \in Nat /\ Len(e.frames) \in Nat
    BY <1>5 DEF EncType
  <2> QED BY <1>5, <2>1 DEF Filled
<1>7. p = State(p.enc, p.out) /\ p.enc \in EncType /\ Ahead(p.out, p.enc)
  BY <1>4, <1>5, <1>6, FlushIsSound, FlushedAhead
<1> HIDE DEF p
<1>8. /\ enc' = [p.enc EXCEPT !.prev_timestamp = t] /\ out' = p.out /\ UNCHANGED caller
  <2>1. [p EXCEPT !.enc.prev_timestamp = t]
          = State([p.enc EXCEPT !.prev_timestamp = t], p.out)
    BY <1>7 DEF State
  <2> QED BY <1>3, <2>1 DEF Return, State, p
<1>9. /\ enc'.frames = p.enc.frames /\ enc'.keyframe = p.enc.keyframe
      /\ enc'.best_delta = p.enc.best_delta
      /\ enc'.count_since_key_frame = p.enc.count_since_key_frame
  BY <1>7, <1>8 DEF EncType
<1> QED
  BY <1>7, <1>8, <1>9 DEF Ahead, AllInReach, MayGiveWay, Rest, Bound, Kmax, Kmin, Options

LEMMA AddNullInReach ==
  ASSUME StateInv, NEW t \in Times, AddNull(t), Ahead(out, enc)
  PROVE  AllInReach(out, enc)'
<1> DEFINE s == Started(t)
<1>1. MayAdd /\ Timely(t) /\ t \in Int
  BY TimeIsInt DEF AddNull
<1>2. s = State(s.enc, s.out) /\ s.enc \in EncType /\ s.out \in OutType
  BY <1>1, EachCallBegins DEF Begun
<1>3. AllInReach(s.out, s.enc)
  BY <1>1, StartedAhead DEF Ahead
<1> HIDE DEF s
<1>4. enc'.frames = s.enc.frames /\ out' = s.out /\ UNCHANGED caller
  BY <1>2, NullGiven DEF s
<1> QED BY <1>3, <1>4 DEF AllInReach, Bound, Kmax, Kmin, Options

LEMMA AssemblyInReach ==
  ASSUME StateInv, Assemble \/ AssembleFails, AllInReach(out, enc),
         IsQuiet => Ahead(out, enc)
  PROVE  AllInReach(out, enc)'
<1>1. MayCall /\ enc.in_frame_count > 0 /\ UNCHANGED caller
  BY DEF Assemble, AssembleFails, Return
<1>2. /\ caller \in Callers /\ out \in OutType /\ enc \in EncType /\ InBounds(enc)
      /\ enc.in_frame_count \in Nat /\ enc.prev_timestamp \in Nat
  BY DEF StateInv, EncType
<1>3. PICK e \in EncType : Due = State(e, out) /\ Due.enc = e /\ InBounds(e)
  BY <1>1, DueIsSound
<1>4. AllInReach(out, e)
  <2>1. CASE ~enc.got_null_frame /\ enc.in_frame_count > 1 /\ enc.frames # <<>>
    <3> DEFINE f == IncreasePreviousDuration(enc, AverageDuration)
    <3>1. Quiet(enc) /\ Ahead(out, enc) /\ KeyIsThere(enc)
      BY <1>1, <2>1 DEF StateInv, IsQuiet, MayCall, InBounds
    <3>2. ~enc.is_first_frame
      BY <2>1, <3>1 DEF Quiet, Untouched
    <3>3. /\ enc.prev_timestamp <= (enc.in_frame_count - 1) * (MaxDuration - 1)
          /\ MaxDuration - 1 \in Nat
      BY <3>1, <3>2, EncoderAssumption DEF Quiet
    <3>4. AverageDuration \in 0..MaxDuration - 1
      BY <1>2, <2>1, <3>3, AverageIsADuration DEF AverageDuration
    <3>5. f \in EncType /\ AllInReach(out, f)
      BY <1>2, <2>1, <3>1, <3>4, IncreaseIsSound, LengthenedAhead DEF Ahead
    <3>6. Due = State([f EXCEPT !.flush_count = Len(f.frames)], out)
      BY <2>1 DEF Due
    <3> HIDE DEF f
    <3>7. e.frames = f.frames
      BY <1>3, <3>5, <3>6 DEF State, EncType
    <3> QED BY <3>5, <3>7 DEF AllInReach
  <2>2. CASE ~(~enc.got_null_frame /\ enc.in_frame_count > 1 /\ enc.frames # <<>>)
    <3>1. Due = State([enc EXCEPT !.flush_count = Len(enc.frames)], out)
      BY <2>2 DEF Due
    <3>2. e.frames = enc.frames
      BY <1>2, <1>3, <3>1 DEF State, EncType
    <3> QED BY <3>2 DEF AllInReach
  <2> QED BY <2>1, <2>2
<1>5. ASSUME NEW f, NEW o, NEW q, AllInReach(q, f), enc' = f, out' = o,
             o.since_key = q.since_key, f \in EncType, o \in OutType, q \in OutType
      PROVE  AllInReach(out, enc)'
  <2>1. \A i \in 0..Len(f.frames) : Since(o, f.frames, i) = Since(q, f.frames, i)
    <3>1. /\ f.frames \in Seq(SoundEntry) /\ Len(f.frames) <= Len(f.frames)
          /\ \A j \in 1..Len(f.frames) : SameKind(f.frames[j], f.frames[j])
      BY <1>5 DEF EncType, SameKind
    <3> QED BY <1>5, <3>1, SameSince
  <2> QED BY <1>1, <1>5, <2>1 DEF AllInReach, Bound, Kmax, Kmin, Options
<1>6. CASE Assemble
  <2> DEFINE p == FlushFrames(State(e, out))
  <2>1. /\ p = State(p.enc, p.out) /\ p.enc \in EncType /\ p.out \in OutType
        /\ AllInReach(p.out, p.enc)
    BY <1>2, <1>3, <1>4, FlushInBounds, FlushedInReach
  <2>2. Return(p, "assembled") \/ Return([p EXCEPT !.out = AsStill(@)], "assembled")
    BY <1>3, <1>6 DEF Assemble
  <2> HIDE DEF p
  <2>3. AsStill(p.out) \in OutType /\ AsStill(p.out).since_key = p.out.since_key
    <3>1. [q \in Pixels |-> IF q \in Span(p.out.frame.rect) THEN p.out.frame.pixels[q]
                            ELSE Clear] \in [Pixels -> Colours \union {Mixed}]
      BY <2>1 DEF OutType, SoundFrame, FrameType, Canvas, Colours
    <3> QED BY <2>1, <3>1 DEF AsStill, OutType
  <2>4. CASE Return(p, "assembled")
    BY <1>5, <2>1, <2>4 DEF Return
  <2>5. CASE Return([p EXCEPT !.out = AsStill(@)], "assembled")
    <3>1. [p EXCEPT !.out = AsStill(@)] = State(p.enc, AsStill(p.out))
      BY <2>1 DEF State
    <3>2. enc' = p.enc /\ out' = AsStill(p.out)
      BY <2>5, <3>1 DEF Return, State
    <3> QED BY <1>5, <2>1, <2>3, <3>2
  <2> QED BY <2>2, <2>4, <2>5
<1>7. CASE AssembleFails
  <2>1. PICK n \in 0..e.flush_count : Return(Pushed(State(e, out), n), "error")
    BY <1>3, <1>7 DEF AssembleFails
  <2> DEFINE p == Pushed(State(e, out), n)
  <2>2. p.enc \in EncType /\ p.out \in OutType /\ AllInReach(p.out, p.enc)
    BY <1>2, <1>3, <1>4, PushedInBounds, SomeInReach
  <2>3. enc' = p.enc /\ out' = p.out
    BY <2>1 DEF Return
  <2> HIDE DEF p
  <2> QED BY <1>5, <2>2, <2>3
<1> QED BY <1>6, <1>7

LEMMA NewIsAhead ==
  ASSUME caller \in Callers
  PROVE  Ahead(NothingShown, NewEncoder)
<1>1. /\ NewEncoder.frames = <<>> /\ NewEncoder.best_delta = DeltaInfinity
      /\ NewEncoder.keyframe = KeyframeNone /\ NewEncoder.count_since_key_frame = 0
      /\ NothingShown.since_key = 0
  BY DEF NewEncoder, NothingShown
<1>2. Len(NewEncoder.frames) = 0
  BY <1>1
<1>3. Since(NothingShown, NewEncoder.frames, 0) = 0
  BY <1>1, <1>2, EachSince
<1>4. Kmin \in Int /\ Rest \in Nat /\ Bound \in Nat
  BY BoundsFit
<1>5. AllInReach(NothingShown, NewEncoder)
  BY <1>2, <1>3, <1>4 DEF AllInReach
<1> QED BY <1>1, <1>2, <1>3, <1>4, <1>5 DEF Ahead, Lower

(* KeyFramesInReach: whatever kmin, kmax and the costs of the frames, and    *)
(* whichever calls fail, no frame that is pushed to the muxer lies further   *)
(* behind its key-frame than the rest of a window and all of the next allow. *)
(* A picked key-frame that gives way to a later one is the case to mind: the *)
(* frames behind it are counted from the key-frame before.                   *)
THEOREM KeyFramesAreNear == Spec => []KeyFramesInReach
<1> DEFINE Inv == AllInReach(out, enc) /\ (IsQuiet => Ahead(out, enc))
<1>1. Init => Inv
  <2> SUFFICES ASSUME Init PROVE Inv
    OBVIOUS
  <2> QED BY NewIsAhead DEF Init, Ahead
<1>2. StateInv /\ Inv /\ [Next]_vars => Inv'
  <2> SUFFICES ASSUME StateInv, Inv, [Next]_vars PROVE Inv'
    OBVIOUS
  <2>1. MayAdd => Ahead(out, enc)
    BY DEF MayAdd, MayCall, IsQuiet
  <2>2. ASSUME NEW t \in Times, NEW cur \in caller.canvases, NEW method \in caller.methods,
               Add(cur, method, t)
        PROVE  Inv'
    <3>1. Ahead(out, enc)'
      BY <2>1, <2>2, AddStaysAhead DEF Add
    <3> QED BY <3>1 DEF Ahead
  <2>3. ASSUME NEW t \in Times,
               \/ \E cur \in caller.canvases, method \in caller.methods :
                    AddFails(cur, method, t) \/ AddIsNotMuxed(cur, method, t)
               \/ PauseIsNotMuxed(t) \/ AddRefused(t) \/ AddTooLate(t)
        PROVE  Inv'
    <3>1. AllInReach(out, enc)'
      BY <2>1, <2>3, FailuresInReach
    <3>2. ret' = "error"
      BY <2>3 DEF AddFails, AddIsNotMuxed, PauseIsNotMuxed, AddRefused, AddTooLate, Return
    <3> QED BY <3>1, <3>2 DEF IsQuiet
  <2>4. ASSUME NEW t \in Times, AddNull(t) PROVE Inv'
    <3>1. AllInReach(out, enc)'
      BY <2>1, <2>4, AddNullInReach DEF AddNull
    <3>2. enc'.got_null_frame = TRUE
      BY <2>4, NullGiven
    <3> QED BY <3>1, <3>2 DEF IsQuiet
  <2>5. CASE Assemble \/ AssembleFails
    <3>1. AllInReach(out, enc)'
      BY <2>5, AssemblyInReach
    <3>2. ret' \in {"assembled", "error"}
      BY <2>5 DEF Assemble, AssembleFails, Return
    <3> QED BY <3>1, <3>2 DEF IsQuiet
  <2>6. CASE Delete
    <3>1. enc' = NewEncoder /\ out' = NothingShown /\ UNCHANGED caller
      BY <2>6 DEF Delete
    <3>2. Ahead(NothingShown, NewEncoder)
      BY NewIsAhead DEF StateInv
    <3>3. Ahead(out, enc)'
      BY <3>1, <3>2 DEF Ahead, AllInReach, MayGiveWay, Rest, Bound, Kmax, Kmin, Options
    <3> QED BY <3>3 DEF Ahead
  <2>7. CASE UNCHANGED vars
    BY <2>7 DEF vars, Ahead, AllInReach, MayGiveWay, Rest, Bound, Kmax, Kmin, Options, IsQuiet
  <2> QED BY <2>2, <2>3, <2>4, <2>5, <2>6, <2>7 DEF Next
<1>3. StateInv /\ Inv => KeyFramesInReach
  <2> SUFFICES ASSUME StateInv, Inv PROVE KeyFramesInReach
    OBVIOUS
  <2>1. Len(enc.frames) \in Nat /\ 0 \in 0..Len(enc.frames)
    BY DEF StateInv, EncType
  <2>2. out.since_key <= Bound
    BY <2>1, EachSince DEF AllInReach
  <2> QED BY <2>2 DEF KeyFramesInReach, Bound, Kmax, Kmin
<1> QED BY <1>1, <1>2, <1>3, StateHolds, PTL DEF Spec

-----------------------------------------------------------------------------
(* The screens.  Two colours agree for a caller when they are the same, or   *)
(* when the caller may use the lossy method, which takes them for the same.  *)
Agree(c, a, b) == a = b \/ (~OnlyLossless(c) /\ <<a, b>> \in SimilarColours)

Agrees(c, s, t) == \A p \in Pixels : Agree(c, s[p], t[p])

(* f, drawn over a screen that agrees with base, shows cur: each pixel is    *)
(* left as it is or replaced.                                                *)
LeavesPixel(f, p) == p \notin Span(f.rect) \/ (f.blend /\ f.pixels[p] = Clear)

SetsPixel(f, p, colour) ==
  p \in Span(f.rect) /\ f.pixels[p] = colour /\ (~f.blend \/ colour \in Opaque)

Makes(c, f, base, cur) ==
  \A p \in Pixels : \/ LeavesPixel(f, p) /\ Agree(c, base[p], cur[p])
                    \/ SetsPixel(f, p, cur[p])

(* What is left of a canvas once its frame f is disposed of as it asks.      *)
Left(f, canvas) ==
  IF f.dispose = "background" THEN DisposeFrameRectangle(f.rect, canvas) ELSE canvas

(* The forms in which frame i may be shown: the key-frame k may be demoted.  *)
Forms(fs, k, i) ==
  {Chosen(fs[i])} \union (IF i = k + 1 THEN {fs[i].sub_frame} ELSE {})

Lefts(fs, k, o, i) ==
  IF i = 1 THEN {Left(o.frame, o.input)}
  ELSE {Left(f, fs[i - 1].input) : f \in Forms(fs, k, i - 1)}

(* Frame i shows its canvas, in each of its forms, over each thing that the  *)
(* last one may leave.                                                       *)
Link(c, fs, k, o, i) ==
  \A f \in Forms(fs, k, i), b \in Lefts(fs, k, o, i) : Makes(c, f, b, fs[i].input)

Linked(c, fs, k, o) == \A i \in 1..Len(fs) : Link(c, fs, k, o, i)

(* The canvas of the frame shown last.                                       *)
LastInput(fs, o) == IF fs = <<>> THEN o.input ELSE fs[Len(fs)].input

(* A frame that is alone can be taken for a still.                           *)
IsStill(c, f, cur) == ~f.blend /\ Makes(c, f, Blank, cur)

Stills(c, fs, k, o) ==
  /\ o.out_frame_count = 0 =>
       /\ o = NothingShown
       /\ fs # <<>> => k # 0 /\ IsStill(c, Chosen(fs[1]), fs[1].input)
  /\ o.out_frame_count = 1 => IsStill(c, o.frame, o.input)

(* The screen agrees with its canvas, and so will every frame kept back with *)
(* its own, whatever is decided of them.                                     *)
Shows(c, e, o) ==
  /\ Agrees(c, o.canvas, o.input)
  /\ Linked(c, e.frames, e.keyframe, o)
  /\ e.prev_canvas = LastInput(e.frames, o)
  /\ Stills(c, e.frames, e.keyframe, o)

(* The last frame has not been asked yet to leave anything else than itself, *)
(* and its rectangle is the one remembered, unless it may still be demoted.  *)
LastIsOpen(e) ==
  e.frames # <<>> =>
    LET x == e.frames[Len(e.frames)]
    IN /\ x.sub_frame.dispose = "none" /\ x.key_frame.dispose = "none"
       /\ e.keyframe = Len(e.frames) - 1 => e.prev_candidate_undecided
       /\ ~e.prev_candidate_undecided => e.prev_rect = Chosen(x).rect

Open(e, o) == LastIsOpen(e) /\ (e.is_first_frame => o = NothingShown)

(* The invariant: what IsQuiet asks holds while frames may still be added.   *)
ShownInv ==
  /\ Shows(caller, enc, out)
  /\ Agrees(caller, LastInput(enc.frames, out), seen)
  /\ IsQuiet => Open(enc, out)

(* Colours that agree: an equivalence, if the caller is steady.              *)
LEMMA AgreeTurns ==
  ASSUME NEW c, IsSteady(c), NEW a, NEW b, Agree(c, a, b)
  PROVE  Agree(c, b, a)
BY DEF IsSteady, Agree, SimilarityIsStable

LEMMA AgreeJoins ==
  ASSUME NEW c, IsSteady(c), NEW a, NEW b, NEW d, Agree(c, a, b), Agree(c, b, d)
  PROVE  Agree(c, a, d)
<1>1. CASE a = b \/ b = d
  BY <1>1
<1>2. CASE a # b /\ b # d
  <2>1. SimilarityIsStable /\ <<a, b>> \in SimilarColours /\ <<b, d>> \in SimilarColours
        /\ ~OnlyLossless(c)
    BY <1>2 DEF IsSteady, Agree
  <2>2. a \in Opaque /\ b \in Opaque /\ d \in Opaque
    BY <2>1 DEF SimilarityIsStable
  <2> QED BY <2>1, <2>2 DEF Agree, SimilarityIsStable
<1> QED BY <1>1, <1>2

LEMMA AgreesJoin ==
  ASSUME NEW c, IsSteady(c), NEW a, NEW b, NEW d, Agrees(c, a, b), Agrees(c, b, d)
  PROVE  Agrees(c, a, d)
BY AgreeJoins DEF Agrees

LEMMA AgreesTurn ==
  ASSUME NEW c, IsSteady(c), NEW a, NEW b, Agrees(c, a, b)
  PROVE  Agrees(c, b, a)
BY AgreeTurns DEF Agrees

LEMMA AgreesWithItself ==
  ASSUME NEW c, NEW a
  PROVE  Agrees(c, a, a)
BY DEF Agrees, Agree

LEMMA AgreeingIsSimilar ==
  ASSUME NEW c, NEW a, NEW b, Agree(c, a, b)
  PROVE  PixelsAreSimilar(a, b)
BY DEF Agree, PixelsAreSimilar

(* A frame that makes cur of what the last one leaves shows it.              *)
LEMMA MadeIsShown ==
  ASSUME NEW c, IsSteady(c), NEW o \in OutType, NEW f, NEW cur,
         Agrees(c, o.canvas, o.input), Makes(c, f, Left(o.frame, o.input), cur)
  PROVE  Agrees(c, Drawn(o, f), cur)
<1> DEFINE under == IF o.frame.dispose = "background"
                    THEN DisposeFrameRectangle(o.frame.rect, o.canvas) ELSE o.canvas
           base == Left(o.frame, o.input)
<1>1. ASSUME NEW p \in Pixels PROVE Agree(c, under[p], base[p])
  BY DEF Left, DisposeFrameRectangle, Agrees, Agree
<1> HIDE DEF base
<1>2. ASSUME NEW p \in Pixels
      PROVE  Drawn(o, f)[p] = IF p \notin Span(f.rect) THEN under[p]
                              ELSE IF f.blend THEN Over(f.pixels[p], under[p])
                              ELSE f.pixels[p]
  BY DEF Drawn
<1> HIDE DEF under
<1>3. ASSUME NEW p \in Pixels PROVE Agree(c, Drawn(o, f)[p], cur[p])
  <2>1. CASE LeavesPixel(f, p) /\ Agree(c, base[p], cur[p])
    <3>1. Drawn(o, f)[p] = under[p]
      BY <1>2, <2>1 DEF LeavesPixel, Over
    <3> QED BY <1>1, <2>1, <3>1, AgreeJoins
  <2>2. CASE SetsPixel(f, p, cur[p])
    <3>1. Drawn(o, f)[p] = cur[p]
      BY <1>2, <2>2, ColoursAssumption DEF SetsPixel, Over
    <3> QED BY <3>1 DEF Agree
  <2> QED BY <2>1, <2>2 DEF Makes, base
<1> QED BY <1>3 DEF Agrees

(* The rectangle of the changes holds every pixel that is not the same.      *)
LEMMA OutsideOfSubRect ==
  ASSUME NEW m, NEW prev, NEW cur, NEW seed \in SoundRect, NEW empty \in BOOLEAN,
         NEW p \in Pixels, p \notin Span(GetSubRect(m, prev, cur, seed, TRUE, empty))
  PROVE  p \notin Span(seed) \/ Same(m, prev[p], cur[p])
<1> DEFINE changed == {q \in Span(seed) : ~Same(m, prev[q], cur[q])}
           r == Bounding(changed)
<1>1. changed \in SUBSET Pixels
  BY DEF Span
<1>2. r \in Rects /\ r.x + r.w <= W /\ changed \subseteq Span(r)
  BY <1>1, BoundingIsInside
<1>3. CASE p \in changed
  <2>1. p \in Span(r)
    BY <1>2, <1>3
  <2>2. r.w > 0
    BY <1>2, <2>1, EncoderAssumption DEF Span, Rects, Pixels
  <2>3. GetSubRect(m, prev, cur, seed, TRUE, empty) = SnapToEvenOffsets(r)
    BY <2>2 DEF GetSubRect, MinimizeChangeRectangle
  <2> HIDE DEF r
  <2>4. Span(r) \subseteq Span(SnapToEvenOffsets(r))
    BY <1>2, SnapIsSound
  <2> QED BY <2>1, <2>3, <2>4
<1> QED BY <1>3

(* The same of the lossy rectangle, which is sought in the lossless one.     *)
LEMMA OutsideOfSubRects ==
  ASSUME NEW prev, NEW cur, NEW empty \in BOOLEAN, NEW m \in Methods, NEW p \in Pixels,
         p \notin Span(GetSubRects(prev, cur, TRUE, empty)[m])
  PROVE  Same(m, prev[p], cur[p])
<1> DEFINE ll == GetSubRect("lossless", prev, cur, Full, TRUE, empty)
<1>1. p \in Span(Full)
  BY EncoderAssumption DEF Span, Full, Pixels
<1>2. ll \in SoundRect
  BY SubRectIsSound, FixedRects
<1>3. p \notin Span(ll) => Same("lossless", prev[p], cur[p])
  BY <1>1, FixedRects, OutsideOfSubRect
<1>4. m = "lossless" \/ m = "lossy"
  BY DEF Methods
<1>5. CASE m = "lossless"
  <2>1. GetSubRects(prev, cur, TRUE, empty)[m] = ll
    BY <1>5 DEF GetSubRects
  <2> QED BY <1>3, <1>5, <2>1
<1>6. CASE m = "lossy"
  <2>1. GetSubRects(prev, cur, TRUE, empty)[m] = GetSubRect("lossy", prev, cur, ll, TRUE, empty)
    BY <1>6 DEF GetSubRects
  <2> HIDE DEF ll
  <2>2. p \notin Span(ll) \/ Same("lossy", prev[p], cur[p])
    BY <1>2, <2>1, OutsideOfSubRect
  <2>3. Same("lossless", prev[p], cur[p]) => Same("lossy", prev[p], cur[p])
    BY DEF Same, PixelsAreSimilar
  <2> QED BY <1>3, <1>6, <2>2, <2>3 DEF ll
<1> QED BY <1>4, <1>5, <1>6

(* What a method takes for the same agrees for a caller that may use it.     *)
LEMMA SameAgrees ==
  ASSUME NEW method \in caller.methods, NEW m \in Considered(method), NEW a, NEW b,
         Same(m, a, b)
  PROVE  Agree(caller, a, b)
<1>1. CASE m = "lossless"
  BY <1>1 DEF Same, Agree
<1>2. CASE m # "lossless"
  <2>1. ~OnlyLossless(caller)
    BY <1>2 DEF OnlyLossless, Considered
  <2> QED BY <1>2, <2>1 DEF Same, PixelsAreSimilar, Agree
<1> QED BY <1>1, <1>2

(* A pixel that is not opaque and may be blended: the same as before it, and *)
(* so taken out.                                                             *)
LEMMA EncodingMakes ==
  ASSUME IsSteady(caller), NEW method \in caller.methods, NEW m \in Considered(method),
         m \in Methods, NEW cur \in caller.canvases, NEW prev, NEW rect,
         IsBlendingPossible(m, prev, cur, rect),
         NEW e \in Encodings(m, prev, cur, rect, TRUE), NEW p \in Span(rect)
  PROVE  \/ e[p] = Clear /\ Agree(caller, prev[p], cur[p])
         \/ e[p] = cur[p] /\ cur[p] \in Opaque
<1> DEFINE stay == {q \in Span(rect) : Same(m, prev[q], cur[q])}
           Without(ps) == [q \in Pixels |-> IF q \in ps THEN Clear ELSE cur[q]]
<1>0. p \in Pixels
  BY DEF Span
<1>1. cur[p] \in Opaque \/ Same(m, prev[p], cur[p])
  BY DEF IsBlendingPossible
<1>2. CASE m = "lossless"
  <2>1. e = Without(stay)
    BY <1>2 DEF Encodings
  <2>2. CASE Same(m, prev[p], cur[p])
    BY <1>0, <2>1, <2>2, SameAgrees
  <2>3. CASE ~Same(m, prev[p], cur[p])
    BY <1>0, <1>1, <2>1, <2>3
  <2> QED BY <2>2, <2>3
<1>3. CASE m = "lossy"
  <2>1. PICK ps \in SUBSET {q \in stay : prev[q] \in Opaque} : e = Without(ps)
    BY <1>3 DEF Encodings
  <2>2. CASE p \in ps
    BY <1>0, <2>1, <2>2, SameAgrees
  <2>3. CASE p \notin ps
    <3>1. e[p] = cur[p]
      BY <1>0, <2>1, <2>3
    <3>2. ~OnlyLossless(caller)
      BY <1>3 DEF OnlyLossless, Considered
    <3>3. cur[p] \in Opaque \union {Clear}
      BY <1>0, <3>2 DEF IsSteady, HasNoVeil
    <3>4. cur[p] \notin Opaque => Agree(caller, prev[p], cur[p])
      BY <1>1, SameAgrees
    <3> QED BY <3>1, <3>3, <3>4
  <2> QED BY <2>2, <2>3
<1> QED BY <1>2, <1>3 DEF Methods

(* What is encoded over prev, in a rectangle that holds the changes, makes   *)
(* cur of it.                                                                *)
LEMMA CandidateMakes ==
  ASSUME IsSteady(caller), NEW method \in caller.methods, NEW m \in Considered(method),
         m \in Methods, NEW cur \in caller.canvases, NEW prev, NEW rect, NEW d,
         NEW blend \in BOOLEAN, blend => IsBlendingPossible(m, prev, cur, rect),
         \A p \in Pixels : p \notin Span(rect) => Same(m, prev[p], cur[p]),
         NEW x \in Candidate(rect, d, m, prev, cur, blend)
  PROVE  /\ Makes(caller, x.frame, prev, cur)
         /\ x.frame.dispose = "none" /\ x.frame.blend = blend /\ x.frame.rect = rect
         /\ x.dispose = d
<1>1. PICK e \in Encodings(m, prev, cur, rect, blend) :
        x = [frame |-> Frame(rect, blend, [p \in Pixels |-> IF p \in Span(rect) THEN e[p]
                                                             ELSE Clear]),
             dispose |-> d]
  BY DEF Candidate
<1>2. /\ x.frame.dispose = "none" /\ x.frame.blend = blend /\ x.frame.rect = rect
      /\ x.frame.pixels = [p \in Pixels |-> IF p \in Span(rect) THEN e[p] ELSE Clear]
      /\ x.dispose = d
  BY <1>1 DEF Frame
<1>3. ASSUME NEW p \in Pixels
      PROVE  \/ LeavesPixel(x.frame, p) /\ Agree(caller, prev[p], cur[p])
             \/ SetsPixel(x.frame, p, cur[p])
  <2>1. CASE p \notin Span(rect)
    BY <1>2, <2>1, SameAgrees DEF LeavesPixel
  <2>2. CASE p \in Span(rect) /\ blend = TRUE
    <3>1. x.frame.pixels[p] = e[p] /\ x.frame.blend = TRUE /\ p \in Span(x.frame.rect)
      BY <1>2, <2>2
    <3>2. \/ e[p] = Clear /\ Agree(caller, prev[p], cur[p])
          \/ e[p] = cur[p] /\ cur[p] \in Opaque
      BY <1>1, <2>2, EncodingMakes
    <3> QED BY <3>1, <3>2 DEF LeavesPixel, SetsPixel
  <2>3. CASE p \in Span(rect) /\ blend = FALSE
    <3>1. e = cur
      BY <1>1, <2>3 DEF Encodings
    <3> QED BY <1>2, <2>3, <3>1 DEF SetsPixel
  <2> QED BY <2>1, <2>2, <2>3
<1> QED BY <1>2, <1>3 DEF Makes

(* What a frame may have to be drawn over: what the last one leaves, if it   *)
(* is asked for d.                                                           *)
Base(e, d) ==
  IF d = "none" THEN e.prev_canvas ELSE DisposeFrameRectangle(e.prev_rect, e.prev_canvas)

(* A sub-frame that is fit: it shows cur over what its disposal leaves.      *)
IsFit(e, c, cur) ==
  /\ Makes(caller, c.frame, Base(e, c.dispose), cur)
  /\ c.frame.dispose = "none" /\ c.dispose \in {"none", "background"}
  /\ e.prev_candidate_undecided => c.dispose = "none"

(* SetFrame makes no sub-frame that is not fit.                              *)
LEMMA SubFramesMake ==
  ASSUME caller \in Callers, IsSteady(caller), NEW e, NEW method \in caller.methods,
         NEW cur \in caller.canvases, NEW c \in SubFrames(e, method, cur)
  PROVE  IsFit(e, c, cur)
<1> DEFINE disposed == DisposeFrameRectangle(e.prev_rect, e.prev_canvas)
           none == GetSubRects(e.prev_canvas, cur, TRUE, TRUE)
           background == GetSubRects(disposed, cur, TRUE, FALSE)
           Changed(d, m) == IF d = "none" THEN none[m] ELSE background[m]
           Try(d, m) == Candidate(Changed(d, m), d, m, Base(e, d), cur,
                          IsBlendingPossible(m, Base(e, d), cur, Changed(d, m)))
           tried == DisposalsTried(e, method, none, background)
<1>1. PICK d \in tried, m \in Considered(method) : c \in Try(d, m)
  <2>1. SubFrames(e, method, cur) = UNION {Try(d, m) : d \in tried, m \in Considered(method)}
    BY DEF SubFrames, Base
  <2> HIDE DEF Try, tried
  <2> QED BY <2>1
<1>2. d \in {"none", "background"} /\ (e.prev_candidate_undecided => d = "none")
  BY DEF DisposalsTried
<1>3. m \in Methods
  BY ConsideredAreMethods
<1>4. ASSUME NEW p \in Pixels, p \notin Span(Changed(d, m))
      PROVE  Same(m, Base(e, d)[p], cur[p])
  <2>1. CASE d = "none"
    BY <1>3, <1>4, <2>1, OutsideOfSubRects DEF Base
  <2>2. CASE d # "none"
    BY <1>3, <1>4, <2>2, OutsideOfSubRects DEF Base
  <2> QED BY <2>1, <2>2
<1>5. IsBlendingPossible(m, Base(e, d), cur, Changed(d, m)) \in BOOLEAN
  BY DEF IsBlendingPossible
<1> HIDE DEF Changed
<1>6. Makes(caller, c.frame, Base(e, d), cur) /\ c.frame.dispose = "none" /\ c.dispose = d
  BY <1>1, <1>3, <1>4, <1>5, CandidateMakes
<1> QED BY <1>2, <1>6 DEF IsFit

LEMMA FullCanvas ==
  ASSUME NEW prev, NEW cur, NEW m \in Methods
  PROVE  GetSubRects(prev, cur, FALSE, FALSE)[m] = Full
<1>1. ASSUME NEW k PROVE GetSubRect(k, prev, cur, Full, FALSE, FALSE) = Full
  <2>1. Full.x % 2 = 0 /\ Full.x = 0 /\ Full.w = W /\ W > 0
    BY EncoderAssumption DEF Full
  <2>2. SnapToEvenOffsets(Full) = Full
    BY <2>1, EncoderAssumption DEF SnapToEvenOffsets, Full
  <2> QED BY <2>1, <2>2 DEF GetSubRect
<1>2. GetSubRect("lossy", prev, cur, GetSubRect("lossless", prev, cur, Full, FALSE, FALSE),
                 FALSE, FALSE) = Full
  BY <1>1
<1>3. m = "lossless" \/ m = "lossy"
  BY DEF Methods
<1>4. GetSubRects(prev, cur, FALSE, FALSE).lossless = Full
  BY <1>1 DEF GetSubRects
<1>5. GetSubRects(prev, cur, FALSE, FALSE).lossy = Full
  BY <1>2 DEF GetSubRects
<1> QED BY <1>3, <1>4, <1>5

(* A key-frame is all of the canvas: it makes it of anything.                *)
LEMMA KeyFramesMake ==
  ASSUME caller \in Callers, IsSteady(caller), NEW e, e.is_first_frame = FALSE,
         NEW method \in caller.methods, NEW cur \in caller.canvases,
         NEW k \in KeyFrames(e, method, cur)
  PROVE  (\A b : Makes(caller, k.frame, b, cur)) /\ k.frame.dispose = "none"
<1> DEFINE rects == GetSubRects(e.prev_canvas, cur, e.is_first_frame, FALSE)
<1>1. PICK m \in Considered(method) :
        k \in Candidate(rects[m], "none", m, e.prev_canvas, cur, FALSE)
  BY DEF KeyFrames
<1>2. m \in Methods
  BY ConsideredAreMethods
<1>3. rects[m] = Full
  BY <1>2, FullCanvas
<1>4. \A p \in Pixels : p \in Span(Full)
  BY EncoderAssumption DEF Span, Full, Pixels
<1> HIDE DEF rects
<1>5. /\ k.frame.dispose = "none" /\ k.frame.blend = FALSE /\ k.frame.rect = Full
      /\ Makes(caller, k.frame, e.prev_canvas, cur)
  <2>1. \A p \in Pixels : p \notin Span(rects[m]) => Same(m, e.prev_canvas[p], cur[p])
    BY <1>3, <1>4
  <2>2. /\ k.frame.dispose = "none" /\ k.frame.blend = FALSE /\ k.frame.rect = rects[m]
        /\ Makes(caller, k.frame, e.prev_canvas, cur)
    <3>1. PICK z \in BOOLEAN : z = FALSE
      OBVIOUS
    <3>2. k \in Candidate(rects[m], "none", m, e.prev_canvas, cur, z)
      BY <1>1, <3>1, Zenon
    <3>3. z => IsBlendingPossible(m, e.prev_canvas, cur, rects[m])
      BY <3>1
    <3>4. /\ k.frame.dispose = "none" /\ k.frame.blend = z /\ k.frame.rect = rects[m]
          /\ Makes(caller, k.frame, e.prev_canvas, cur)
      BY <1>2, <2>1, <3>2, <3>3, CandidateMakes
    <3> QED BY <3>1, <3>4
  <2> QED BY <1>3, <2>2
<1> QED BY <1>4, <1>5 DEF Makes, LeavesPixel

(* The first frame need not be all of the canvas, which is blank.            *)
LEMMA FirstFrameMakes ==
  ASSUME caller \in Callers, IsSteady(caller), NEW e, e.is_first_frame = TRUE,
         NEW method \in caller.methods, NEW cur \in caller.canvases,
         NEW k \in KeyFrames(e, method, cur)
  PROVE  /\ Makes(caller, k.frame, e.prev_canvas, cur)
         /\ k.frame.dispose = "none" /\ k.frame.blend = FALSE
<1> DEFINE rects == GetSubRects(e.prev_canvas, cur, e.is_first_frame, FALSE)
<1>1. PICK m \in Considered(method) :
        k \in Candidate(rects[m], "none", m, e.prev_canvas, cur, FALSE)
  BY DEF KeyFrames
<1>2. m \in Methods
  BY ConsideredAreMethods
<1>3. \A p \in Pixels : p \notin Span(rects[m]) => Same(m, e.prev_canvas[p], cur[p])
  BY <1>2, OutsideOfSubRects
<1> HIDE DEF rects
<1>4. PICK z \in BOOLEAN : z = FALSE
  OBVIOUS
<1>5. k \in Candidate(rects[m], "none", m, e.prev_canvas, cur, z)
  BY <1>1, <1>4, Zenon
<1>6. z => IsBlendingPossible(m, e.prev_canvas, cur, rects[m])
  BY <1>4
<1>7. /\ k.frame.dispose = "none" /\ k.frame.blend = z
      /\ Makes(caller, k.frame, e.prev_canvas, cur)
  BY <1>2, <1>3, <1>5, <1>6, CandidateMakes
<1> QED BY <1>4, <1>7

(* Nothing to encode: the canvas agrees with the last one.                   *)
LEMMA SkippedAgrees ==
  ASSUME caller \in Callers, NEW e, e.is_first_frame = FALSE,
         NEW method \in caller.methods, NEW cur, IsSkipped(e, method, cur)
  PROVE  Agrees(caller, e.prev_canvas, cur)
<1> DEFINE none == GetSubRects(e.prev_canvas, cur, TRUE, TRUE)
<1>1. PICK m \in Considered(method) : none[m] = NoRect
  BY DEF IsSkipped
<1>2. m \in Methods
  BY ConsideredAreMethods
<1> HIDE DEF none
<1>3. ASSUME NEW p \in Pixels PROVE p \notin Span(none[m])
  <2>1. ~(p < 0)
    BY EncoderAssumption DEF Pixels
  <2>2. NoRect.x + NoRect.w = 0
    BY DEF NoRect
  <2> QED BY <1>1, <2>1, <2>2 DEF Span
<1> USE DEF none
<1>4. \A p \in Pixels : Same(m, e.prev_canvas[p], cur[p])
  BY <1>2, <1>3, OutsideOfSubRects
<1> QED BY <1>4, SameAgrees DEF Agrees

-----------------------------------------------------------------------------
(* One frame after another: each screen agrees with the canvas of its frame. *)
LEMMA EachPlayed ==
  ASSUME NEW o, NEW es, Len(es) \in Nat, NEW i \in Nat, i < Len(es)
  PROVE  LET s == Screens(o, es)[i]
             t == Screens(o, es)[i + 1]
         IN /\ t.canvas = Drawn(s, Chosen(es[i + 1])) /\ t.frame = Chosen(es[i + 1])
            /\ t.input = es[i + 1].input
            /\ t.out_frame_count = s.out_frame_count + 1
<1>1. Screens(o, es)[i + 1] = Play(Screens(o, es)[i], es[i + 1])
  BY EachScreen
<1> QED BY <1>1 DEF Play

(* Up to frame i, the screen agrees.                                         *)
PlayedTo(c, o, es, i) ==
  LET s == Screens(o, es)[i]
  IN /\ Agrees(c, s.canvas, s.input)
     /\ s.out_frame_count = o.out_frame_count + i
     /\ i = 0 => s = o
     /\ i > 0 => s.frame = Chosen(es[i]) /\ s.input = es[i].input

(* Frames that are linked are shown, one after another.                      *)
LEMMA LinkedIsShown ==
  ASSUME NEW c, IsSteady(c), NEW o \in OutType, NEW es \in Seq(SoundEntry), NEW k,
         Agrees(c, o.canvas, o.input), Linked(c, es, k, o)
  PROVE  \A i \in 0..Len(es) : PlayedTo(c, o, es, i)
<1> DEFINE S == {i \in Nat : i <= Len(es) => PlayedTo(c, o, es, i)}
<1>0. Len(es) \in Nat /\ o.out_frame_count \in Nat
  BY DEF OutType
<1>1. 0 \in S
  <2>1. Screens(o, es)[0] = o
    BY <1>0, EachScreen
  <2>2. PlayedTo(c, o, es, 0)
    BY <1>0, <2>1 DEF PlayedTo
  <2> QED BY <2>2
<1>2. ASSUME NEW i \in Nat, i \in S PROVE i + 1 \in S
  <2> SUFFICES ASSUME i + 1 <= Len(es) PROVE PlayedTo(c, o, es, i + 1)
    OBVIOUS
  <2> DEFINE s == Screens(o, es)[i]
             t == Screens(o, es)[i + 1]
             f == Chosen(es[i + 1])
  <2>1. PlayedTo(c, o, es, i)
    BY <1>0, <1>2
  <2>2. i < Len(es) /\ i \in 0..Len(es) /\ i + 1 \in 1..Len(es)
    BY <1>0
  <2>3. s \in OutType
    BY <2>2, ScreensAreSound
  <2>4. /\ t.canvas = Drawn(s, f) /\ t.frame = f /\ t.input = es[i + 1].input
        /\ t.out_frame_count = s.out_frame_count + 1
    BY <1>0, <2>2, EachPlayed
  <2>5. Left(s.frame, s.input) \in Lefts(es, k, o, i + 1)
    <3>1. CASE i = 0
      <4>1. s = o
        BY <2>1, <3>1 DEF PlayedTo
      <4> HIDE DEF s
      <4> QED BY <3>1, <4>1 DEF Lefts
    <3>2. CASE i > 0
      <4>1. s.frame = Chosen(es[i]) /\ s.input = es[i].input
        BY <2>1, <3>2 DEF PlayedTo
      <4>2. Chosen(es[i]) \in Forms(es, k, i)
        BY DEF Forms
      <4>3. i + 1 # 1 /\ (i + 1) - 1 = i
        BY <3>2
      <4> HIDE DEF s
      <4> QED BY <4>1, <4>2, <4>3 DEF Lefts
    <3> QED BY <3>1, <3>2
  <2>6. f \in Forms(es, k, i + 1)
    BY DEF Forms
  <2>7. Makes(c, f, Left(s.frame, s.input), es[i + 1].input)
    BY <2>2, <2>5, <2>6 DEF Linked, Link
  <2>8. Agrees(c, s.canvas, s.input) /\ s.out_frame_count = o.out_frame_count + i
    BY <2>1 DEF PlayedTo
  <2> HIDE DEF s, f
  <2>9. Agrees(c, Drawn(s, f), es[i + 1].input)
    BY <2>3, <2>7, <2>8, MadeIsShown
  <2>10. t.out_frame_count = o.out_frame_count + (i + 1)
    BY <1>0, <2>4, <2>8
  <2> HIDE DEF t
  <2>11. i + 1 # 0
    OBVIOUS
  <2> QED BY <2>4, <2>9, <2>10, <2>11 DEF PlayedTo, t, f
<1> HIDE DEF S
<1>3. Nat \subseteq S
  BY <1>1, <1>2, SetInduction
<1> QED BY <1>0, <1>3 DEF S

(* Of a frame that is kept nothing changes but what the last one of them may *)
(* be asked to leave; it may lose a form.                                    *)
SamePicture(f, g) == f.rect = g.rect /\ f.blend = g.blend /\ f.pixels = g.pixels

Kept(es, k, fs, l, n) ==
  \A j \in 1..n :
    /\ fs[j].input = es[j].input
    /\ \A f \in Forms(fs, l, j) :
         \E g \in Forms(es, k, j) : SamePicture(f, g) /\ (j < n => f = g)

LEMMA SamePictureMakes ==
  ASSUME NEW c, NEW f, NEW g, SamePicture(f, g), NEW b, NEW cur, Makes(c, g, b, cur)
  PROVE  Makes(c, f, b, cur)
BY DEF SamePicture, Makes, LeavesPixel, SetsPixel

(* A frame that loses a form, or whose successors are asked for something    *)
(* else, stays linked.                                                       *)
LEMMA LinkIsKept ==
  ASSUME NEW c, NEW es, NEW k, NEW fs, NEW l, NEW o, NEW n \in Nat,
         Kept(es, k, fs, l, n), NEW j \in 1..n, Link(c, es, k, o, j)
  PROVE  Link(c, fs, l, o, j)
<1>1. ASSUME NEW b \in Lefts(fs, l, o, j) PROVE b \in Lefts(es, k, o, j)
  <2>1. CASE j = 1
    BY <1>1, <2>1 DEF Lefts
  <2>2. CASE j # 1
    <3>1. j - 1 \in 1..n /\ j - 1 < n
      BY <2>2
    <3>2. PICK f \in Forms(fs, l, j - 1) : b = Left(f, fs[j - 1].input)
      BY <1>1, <2>2 DEF Lefts
    <3>3. f \in Forms(es, k, j - 1) /\ fs[j - 1].input = es[j - 1].input
      BY <3>1, <3>2 DEF Kept
    <3> QED BY <2>2, <3>2, <3>3 DEF Lefts
  <2> QED BY <2>1, <2>2
<1>2. ASSUME NEW f \in Forms(fs, l, j), NEW b \in Lefts(fs, l, o, j)
      PROVE  Makes(c, f, b, fs[j].input)
  <2>1. PICK g \in Forms(es, k, j) : SamePicture(f, g)
    BY <1>2 DEF Kept
  <2>2. Makes(c, g, b, es[j].input)
    BY <1>1, <1>2, <2>1 DEF Link
  <2>3. fs[j].input = es[j].input
    BY DEF Kept
  <2> QED BY <2>1, <2>2, <2>3, SamePictureMakes
<1> QED BY <1>2 DEF Link

LEMMA LinkedIsKept ==
  ASSUME NEW c, NEW es, NEW k, NEW fs, NEW l, NEW o, Len(es) \in Nat, Len(fs) = Len(es),
         Kept(es, k, fs, l, Len(es)), Linked(c, es, k, o)
  PROVE  Linked(c, fs, l, o)
<1>1. ASSUME NEW j \in 1..Len(fs) PROVE Link(c, fs, l, o, j)
  <2>1. Link(c, es, k, o, j)
    BY DEF Linked
  <2> QED BY <2>1, LinkIsKept
<1> QED BY <1>1 DEF Linked

(* Frames that are kept, and one more that is linked to them.                *)
LEMMA LinkedGrows ==
  ASSUME NEW c, NEW es, NEW k, NEW fs, NEW l, NEW o, Len(es) \in Nat,
         Len(fs) = Len(es) + 1, Kept(es, k, fs, l, Len(es)), Linked(c, es, k, o),
         Link(c, fs, l, o, Len(es) + 1)
  PROVE  Linked(c, fs, l, o)
<1>1. ASSUME NEW j \in 1..Len(fs) PROVE Link(c, fs, l, o, j)
  <2>1. CASE j = Len(es) + 1
    BY <2>1
  <2>2. CASE j \in 1..Len(es)
    <3>1. Link(c, es, k, o, j)
      BY <2>2 DEF Linked
    <3> QED BY <2>2, <3>1, LinkIsKept
  <2> QED BY <2>1, <2>2
<1> QED BY <1>1 DEF Linked

-----------------------------------------------------------------------------
(* Pushing frames: what is left is linked as it was.                         *)
Rests(e, f, o, q, n) ==
  /\ f \in EncType /\ q \in OutType /\ PushedCounts(e, f, n)
  /\ q = Screens(o, e.frames)[n]
  /\ f.prev_canvas = e.prev_canvas /\ f.prev_rect = e.prev_rect
  /\ f.prev_candidate_undecided = e.prev_candidate_undecided

(* FlushFrames, in so many rounds as the muxer takes.                        *)
LEMMA PushedRests ==
  ASSUME NEW e \in EncType, NEW o \in OutType, KeyIsThere(e),
         NEW n \in 0..e.flush_count, e.flush_count <= Len(e.frames)
  PROVE  LET p == Pushed(State(e, o), n) IN Rests(e, p.enc, o, p.out, n)
<1> DEFINE p == Pushed(State(e, o), n)
           fs == SubSeq(e.frames, n + 1, Len(e.frames))
           key == IF e.keyframe < n THEN KeyframeNone ELSE e.keyframe - n
           f == [e EXCEPT !.frames = fs, !.start = e.start + n,
                          !.flush_count = e.flush_count - n, !.keyframe = key]
<1>1. p.enc = f /\ p.out = Screens(o, e.frames)[n]
  BY DEF Pushed, State
<1>2. p.enc \in EncType /\ p.out \in OutType /\ PushedCounts(e, p.enc, n)
  BY PushedIsSound
<1> HIDE DEF fs, key, p
<1>3. /\ f.prev_canvas = e.prev_canvas /\ f.prev_rect = e.prev_rect
      /\ f.prev_candidate_undecided = e.prev_candidate_undecided
  BY DEF EncType
<1> HIDE DEF f
<1> QED BY <1>1, <1>2, <1>3 DEF Rests, p

LEMMA FlushRests ==
  ASSUME NEW e \in EncType, NEW o \in OutType, KeyIsThere(e),
         e.flush_count <= Len(e.frames)
  PROVE  LET p == FlushFrames(State(e, o)) IN Rests(e, p.enc, o, p.out, e.flush_count)
<1> DEFINE n == e.flush_count
           p == FlushFrames(State(e, o))
           q == Pushed(State(e, o), n)
<1>1. n \in 0..e.flush_count
  BY DEF EncType
<1>2. Rests(e, q.enc, o, q.out, n) /\ q = State(q.enc, q.out)
  BY <1>1, PushedRests, PushedIsSound
<1>3. p.enc \in EncType /\ p.out \in OutType /\ PushedCounts(e, p.enc, n)
  BY FlushIsSound
<1>4. p = IF Len(q.enc.frames) = 1 THEN [q EXCEPT !.enc.start = 0] ELSE q
  BY DEF FlushFrames, State
<1> HIDE DEF p, q, n
<1>5. CASE p = q
  BY <1>2, <1>5 DEF n, p
<1>6. CASE p = [q EXCEPT !.enc.start = 0]
  <2>1. q.enc \in EncType
    BY <1>2 DEF Rests
  <2> DEFINE g == [q.enc EXCEPT !.start = 0]
  <2>2. p.enc = g /\ p.out = q.out
    BY <1>2, <1>6 DEF State
  <2>3. /\ g.prev_canvas = q.enc.prev_canvas /\ g.prev_rect = q.enc.prev_rect
        /\ g.prev_candidate_undecided = q.enc.prev_candidate_undecided
    BY <2>1 DEF EncType
  <2> HIDE DEF g
  <2> QED BY <1>2, <1>3, <2>2, <2>3 DEF Rests, p, n
<1> QED BY <1>4, <1>5, <1>6

LEMMA RestIsLinked ==
  ASSUME NEW c, NEW e \in EncType, NEW o \in OutType, NEW f, NEW q, NEW n \in 0..Len(e.frames),
         Rests(e, f, o, q, n), Linked(c, e.frames, e.keyframe, o),
         PlayedTo(c, o, e.frames, n)
  PROVE  Linked(c, f.frames, f.keyframe, q)
<1> DEFINE es == e.frames
           fs == f.frames
           k == e.keyframe
           l == f.keyframe
<1>1. /\ Len(es) \in Nat /\ Len(fs) = Len(es) - n /\ k \in Nat \union {KeyframeNone}
      /\ \A i \in 1..Len(fs) : fs[i] = es[i + n]
      /\ l = (IF k < n THEN KeyframeNone ELSE k - n)
  BY DEF Rests, PushedCounts, EncType
<1>2. n = 0 => q = o
  BY DEF Rests, PlayedTo
<1>3. n > 0 => q.frame = Chosen(es[n]) /\ q.input = es[n].input
  BY DEF Rests, PlayedTo
<1>4. Linked(c, es, k, o)
  OBVIOUS
<1> HIDE DEF es, fs, k, l
<1>5. ASSUME NEW i \in 1..Len(fs) PROVE i + n \in 1..Len(es) /\ (i = l + 1 <=> i + n = k + 1)
  BY <1>1, <1>5 DEF KeyframeNone
<1>6. ASSUME NEW i \in 1..Len(fs) PROVE Forms(fs, l, i) = Forms(es, k, i + n)
  <2>1. fs[i] = es[i + n]
    BY <1>1
  <2> QED BY <1>5, <2>1 DEF Forms
<1>7. ASSUME NEW i \in 1..Len(fs), NEW b \in Lefts(fs, l, q, i) PROVE b \in Lefts(es, k, o, i + n)
  <2>1. CASE i = 1 /\ n = 0
    BY <1>2, <1>7, <2>1 DEF Lefts
  <2>2. CASE i = 1 /\ n > 0
    <3>1. b = Left(Chosen(es[n]), es[n].input)
      BY <1>3, <1>7, <2>2 DEF Lefts
    <3>2. Chosen(es[n]) \in Forms(es, k, n)
      BY DEF Forms
    <3>3. i + n # 1 /\ i + n - 1 = n
      BY <2>2
    <3> QED BY <3>1, <3>2, <3>3 DEF Lefts
  <2>3. CASE i # 1
    <3>1. i - 1 \in 1..Len(fs) /\ i + n # 1 /\ i + n - 1 = i - 1 + n
      BY <1>1, <2>3
    <3>2. PICK g \in Forms(fs, l, i - 1) : b = Left(g, fs[i - 1].input)
      BY <1>7, <2>3 DEF Lefts
    <3>3. g \in Forms(es, k, i - 1 + n) /\ fs[i - 1] = es[i - 1 + n]
      BY <1>1, <1>6, <3>1, <3>2
    <3> QED BY <3>1, <3>2, <3>3 DEF Lefts
  <2> QED BY <2>1, <2>2, <2>3
<1>8. ASSUME NEW i \in 1..Len(fs) PROVE Link(c, fs, l, q, i)
  <2>1. Link(c, es, k, o, i + n)
    BY <1>4, <1>5 DEF Linked
  <2>2. fs[i] = es[i + n]
    BY <1>1
  <2> QED BY <1>6, <1>7, <2>1, <2>2 DEF Link
<1> QED BY <1>8 DEF Linked, fs, l

LEMMA RestHasStills ==
  ASSUME NEW c, NEW e \in EncType, NEW o \in OutType, NEW f, NEW q, NEW n \in 0..Len(e.frames),
         Rests(e, f, o, q, n), Stills(c, e.frames, e.keyframe, o),
         PlayedTo(c, o, e.frames, n)
  PROVE  Stills(c, f.frames, f.keyframe, q)
<1> DEFINE es == e.frames
           fs == f.frames
<1>1. /\ Len(es) \in Nat /\ Len(fs) = Len(es) - n /\ es \in Seq(SoundEntry)
      /\ fs \in Seq(SoundEntry) /\ e.keyframe \in Nat \union {KeyframeNone}
      /\ \A i \in 1..Len(fs) : fs[i] = es[i + n]
      /\ f.keyframe = (IF e.keyframe < n THEN KeyframeNone ELSE e.keyframe - n)
  BY DEF Rests, PushedCounts, EncType
<1>2. /\ q.out_frame_count = o.out_frame_count + n /\ o.out_frame_count \in Nat
      /\ n = 0 => q = o
      /\ n > 0 => q.frame = Chosen(es[n]) /\ q.input = es[n].input
  BY DEF Rests, PlayedTo, OutType
<1>3. Stills(c, es, e.keyframe, o)
  OBVIOUS
<1> HIDE DEF es, fs
<1>4. CASE n = 0
  <2>1. q = o /\ (fs # <<>> => es # <<>> /\ fs[1] = es[1])
    <3>1. q = o
      BY <1>2, <1>4
    <3>2. ASSUME fs # <<>> PROVE es # <<>> /\ fs[1] = es[1]
      <4>1. Len(fs) > 0
        BY <1>1, <3>2
      <4>2. 1 \in 1..Len(fs) /\ 1 + n = 1 /\ Len(es) > 0
        BY <1>1, <1>4, <4>1
      <4>3. fs[1] = es[1]
        BY <1>1, <4>2
      <4> QED BY <1>1, <4>2, <4>3
    <3> QED BY <3>1, <3>2
  <2>2. e.keyframe # 0 => f.keyframe # 0
    BY <1>1, <1>4 DEF KeyframeNone
  <2> QED BY <1>3, <2>1, <2>2 DEF Stills, fs
<1>5. CASE n > 0
  <2>1. q.out_frame_count # 0
    BY <1>2, <1>5
  <2>2. ASSUME q.out_frame_count = 1 PROVE IsStill(c, q.frame, q.input)
    <3>1. n = 1 /\ o.out_frame_count = 0
      BY <1>2, <1>5, <2>2
    <3>2. es # <<>>
      BY <1>1, <1>5
    <3>3. IsStill(c, Chosen(es[1]), es[1].input)
      BY <1>3, <3>1, <3>2 DEF Stills
    <3> QED BY <1>2, <3>1, <3>3
  <2> QED BY <2>1, <2>2 DEF Stills
<1> QED BY <1>4, <1>5

EndsAs(e, o, f, q) == LastInput(f.frames, q) = LastInput(e.frames, o)

LEMMA LastInputRests ==
  ASSUME NEW c, NEW e \in EncType, NEW o \in OutType, NEW f, NEW q, NEW n \in 0..Len(e.frames),
         Rests(e, f, o, q, n), PlayedTo(c, o, e.frames, n)
  PROVE  EndsAs(e, o, f, q)
<1> DEFINE es == e.frames
           fs == f.frames
<1>1. /\ Len(es) \in Nat /\ n \in 0..Len(es) /\ Len(fs) = Len(es) - n /\ es \in Seq(SoundEntry)
      /\ fs \in Seq(SoundEntry)
      /\ \A i \in 1..Len(fs) : fs[i] = es[i + n]
  BY DEF Rests, PushedCounts, EncType
<1>2. /\ n = 0 => q = o
      /\ n > 0 => q.input = es[n].input
  BY DEF Rests, PlayedTo
<1> HIDE DEF es, fs
<1>3. CASE n < Len(es)
  <2>1. Len(fs) \in 1..Len(fs) /\ Len(fs) + n = Len(es) /\ fs # <<>> /\ es # <<>>
    BY <1>1, <1>3
  <2>2. fs[Len(fs)] = es[Len(es)]
    BY <1>1, <2>1
  <2> QED BY <2>1, <2>2 DEF EndsAs, LastInput, es, fs
<1>4. CASE n = Len(es) /\ n > 0
  <2>1. fs = <<>> /\ es # <<>>
    BY <1>1, <1>4
  <2> QED BY <1>2, <1>4, <2>1 DEF EndsAs, LastInput, es, fs
<1>5. CASE n = Len(es) /\ n = 0
  <2>0. Len(fs) = 0 /\ Len(es) = 0
    BY <1>1, <1>5
  <2>1. fs = <<>> /\ es = <<>>
    BY <1>1, <2>0
  <2> QED BY <1>2, <1>5, <2>1 DEF EndsAs, LastInput, es, fs
<1>6. n < Len(es) \/ (n = Len(es) /\ n > 0) \/ (n = Len(es) /\ n = 0)
  <2>1. n \in 0..Len(es) /\ Len(es) \in Nat
    BY <1>1
  <2> QED BY <2>1
<1> QED BY <1>3, <1>4, <1>5, <1>6, Zenon

(* What is left after frames were pushed shows what all of them did.         *)
LEMMA RestShows ==
  ASSUME NEW c, IsSteady(c), NEW e \in EncType, NEW o \in OutType, NEW f, NEW q,
         NEW n \in 0..Len(e.frames), Rests(e, f, o, q, n), Shows(c, e, o)
  PROVE  Shows(c, f, q) /\ LastInput(f.frames, q) = LastInput(e.frames, o)
<1>1. /\ Agrees(c, o.canvas, o.input) /\ Linked(c, e.frames, e.keyframe, o)
      /\ e.prev_canvas = LastInput(e.frames, o) /\ Stills(c, e.frames, e.keyframe, o)
  BY DEF Shows
<1>2. e.frames \in Seq(SoundEntry)
  BY DEF EncType
<1>3. PlayedTo(c, o, e.frames, n)
  BY <1>1, <1>2, LinkedIsShown
<1>4. Agrees(c, q.canvas, q.input)
  BY <1>3 DEF PlayedTo, Rests
<1>5. Linked(c, f.frames, f.keyframe, q)
  BY <1>1, <1>3, RestIsLinked
<1>6. Stills(c, f.frames, f.keyframe, q)
  BY <1>1, <1>3, RestHasStills
<1>7. LastInput(f.frames, q) = LastInput(e.frames, o)
  <2>1. EndsAs(e, o, f, q)
    BY <1>3, LastInputRests
  <2> QED BY <2>1 DEF EndsAs
<1>8. f.prev_canvas = e.prev_canvas
  BY DEF Rests
<1> QED BY <1>1, <1>4, <1>5, <1>6, <1>7, <1>8 DEF Shows

(* The last frame stays open if it stays.                                    *)
LEMMA RestIsOpen ==
  ASSUME NEW e \in EncType, NEW o \in OutType, NEW f, NEW q,
         NEW n \in 0..Len(e.frames), Rests(e, f, o, q, n), LastIsOpen(e)
  PROVE  LastIsOpen(f)
<1> DEFINE es == e.frames
           fs == f.frames
<1>1. /\ Len(es) \in Nat /\ n \in 0..Len(es) /\ Len(fs) = Len(es) - n /\ es \in Seq(SoundEntry)
      /\ fs \in Seq(SoundEntry) /\ e.keyframe \in Nat \union {KeyframeNone}
      /\ \A i \in 1..Len(fs) : fs[i] = es[i + n]
      /\ f.keyframe = (IF e.keyframe < n THEN KeyframeNone ELSE e.keyframe - n)
      /\ f.prev_rect = e.prev_rect
      /\ f.prev_candidate_undecided = e.prev_candidate_undecided
  BY DEF Rests, PushedCounts, EncType
<1> HIDE DEF es, fs
<1>2. CASE fs # <<>>
  <2>1. Len(fs) \in 1..Len(fs) /\ Len(fs) + n = Len(es) /\ es # <<>>
    BY <1>1, <1>2
  <2>2. fs[Len(fs)] = es[Len(es)]
    BY <1>1, <2>1
  <2>3. f.keyframe = Len(fs) - 1 => e.keyframe = Len(es) - 1
    <3>1. CASE e.keyframe < n
      <4>1. f.keyframe = -1 /\ Len(fs) \in Nat /\ Len(fs) > 0
        BY <1>1, <2>1, <3>1 DEF KeyframeNone
      <4>2. f.keyframe # Len(fs) - 1
        BY <4>1
      <4> QED BY <4>2
    <3>2. CASE ~(e.keyframe < n)
      <4>1. f.keyframe = e.keyframe - n
        BY <1>1, <3>2
      <4>2. e.keyframe \in Int /\ n \in Int /\ Len(es) \in Int /\ Len(fs) + n = Len(es)
        BY <1>1, <2>1 DEF KeyframeNone
      <4> QED BY <4>1, <4>2, <1>1
    <3> QED BY <3>1, <3>2
  <2> QED BY <1>1, <2>1, <2>2, <2>3 DEF LastIsOpen, es, fs
<1> QED BY <1>2 DEF LastIsOpen, fs

-----------------------------------------------------------------------------
(* What the steps of CacheFrame make of the forms of the frames.             *)
SameView(x, y) ==
  y.sub_frame = x.sub_frame /\ y.key_frame = x.key_frame /\ y.input = x.input

SameMemory(e, f) ==
  /\ f.keyframe = e.keyframe /\ f.prev_canvas = e.prev_canvas
  /\ f.prev_rect = e.prev_rect /\ f.is_first_frame = e.is_first_frame
  /\ f.prev_candidate_undecided = e.prev_candidate_undecided

SameForms(e, f) ==
  /\ Len(f.frames) = Len(e.frames)
  /\ \A j \in 1..Len(e.frames) : /\ SameView(e.frames[j], f.frames[j])
                                 /\ f.frames[j].is_key_frame = e.frames[j].is_key_frame

(* SetPreviousDisposeMethod: only what the last frame leaves behind.         *)
AskedFor(x, y, dispose, both) ==
  /\ y.is_key_frame = x.is_key_frame /\ y.input = x.input
  /\ SamePicture(y.sub_frame, x.sub_frame) /\ SamePicture(y.key_frame, x.key_frame)
  /\ Chosen(y).dispose = dispose /\ (both => y.sub_frame.dispose = dispose)

(* All as before, but the last frame, which is asked for dispose.            *)
DisposedAs(e, d, dispose) ==
  /\ Len(d.frames) = Len(e.frames)
  /\ \A j \in 1..Len(e.frames) : j # Len(e.frames) => d.frames[j] = e.frames[j]
  /\ AskedFor(e.frames[Len(e.frames)], d.frames[Len(e.frames)], dispose,
              e.prev_candidate_undecided)
  /\ SameMemory(e, d)

LEMMA DisposedPicture ==
  ASSUME NEW f \in SoundFrame, NEW d
  PROVE  SamePicture([f EXCEPT !.dispose = d], f) /\ [f EXCEPT !.dispose = d].dispose = d
BY DEF SamePicture, SoundFrame, FrameType

LEMMA AskedForBoth ==
  ASSUME NEW x \in SoundEntry, NEW d, NEW both \in BOOLEAN
  PROVE  AskedFor(x, [x EXCEPT !.sub_frame.dispose = d, !.key_frame.dispose = d], d, both)
<1> DEFINE s == [x.sub_frame EXCEPT !.dispose = d]
           k == [x.key_frame EXCEPT !.dispose = d]
           y == [x EXCEPT !.sub_frame.dispose = d, !.key_frame.dispose = d]
<1>1. /\ SamePicture(s, x.sub_frame) /\ SamePicture(k, x.key_frame)
      /\ s.dispose = d /\ k.dispose = d
  BY DisposedPicture DEF SoundEntry
<1>2. y = [x EXCEPT !.sub_frame = s, !.key_frame = k]
  BY DEF SoundEntry
<1> HIDE DEF s, k, y
<1>3. /\ y.sub_frame = s /\ y.key_frame = k /\ y.input = x.input
      /\ y.is_key_frame = x.is_key_frame
  BY <1>2 DEF SoundEntry
<1>4. Chosen(y).dispose = d
  BY <1>1, <1>3 DEF Chosen
<1> QED BY <1>1, <1>3, <1>4 DEF AskedFor, y

LEMMA AskedForKey ==
  ASSUME NEW x \in SoundEntry, NEW d, x.is_key_frame
  PROVE  AskedFor(x, [x EXCEPT !.key_frame.dispose = d], d, FALSE)
<1> DEFINE k == [x.key_frame EXCEPT !.dispose = d]
           y == [x EXCEPT !.key_frame.dispose = d]
<1>1. SamePicture(k, x.key_frame) /\ k.dispose = d
  BY DisposedPicture DEF SoundEntry
<1>2. y = [x EXCEPT !.key_frame = k]
  BY DEF SoundEntry
<1> HIDE DEF k, y
<1>3. /\ y.sub_frame = x.sub_frame /\ y.key_frame = k /\ y.input = x.input
      /\ y.is_key_frame = x.is_key_frame
  BY <1>2 DEF SoundEntry
<1>4. Chosen(y).dispose = d
  BY <1>1, <1>3 DEF Chosen
<1> QED BY <1>1, <1>3, <1>4 DEF AskedFor, SamePicture, y

LEMMA AskedForSub ==
  ASSUME NEW x \in SoundEntry, NEW d, ~x.is_key_frame
  PROVE  AskedFor(x, [x EXCEPT !.sub_frame.dispose = d], d, FALSE)
<1> DEFINE s == [x.sub_frame EXCEPT !.dispose = d]
           y == [x EXCEPT !.sub_frame.dispose = d]
<1>1. SamePicture(s, x.sub_frame) /\ s.dispose = d
  BY DisposedPicture DEF SoundEntry
<1>2. y = [x EXCEPT !.sub_frame = s]
  BY DEF SoundEntry
<1> HIDE DEF s, y
<1>3. /\ y.key_frame = x.key_frame /\ y.sub_frame = s /\ y.input = x.input
      /\ y.is_key_frame = x.is_key_frame
  BY <1>2 DEF SoundEntry
<1>4. Chosen(y).dispose = d
  BY <1>1, <1>3 DEF Chosen
<1> QED BY <1>1, <1>3, <1>4 DEF AskedFor, SamePicture, y

LEMMA DisposeAsks ==
  ASSUME NEW e \in EncType, e.frames # <<>>, NEW d
  PROVE  DisposedAs(e, WithPreviousDispose(e, d), d)
<1> DEFINE last == Len(e.frames)
           x == e.frames[last]
           y == IF e.prev_candidate_undecided
                THEN [x EXCEPT !.sub_frame.dispose = d, !.key_frame.dispose = d]
                ELSE IF x.is_key_frame THEN [x EXCEPT !.key_frame.dispose = d]
                ELSE [x EXCEPT !.sub_frame.dispose = d]
           fs == [e.frames EXCEPT ![last] = y]
           f == WithPreviousDispose(e, d)
<1>1. /\ e.frames \in Seq(SoundEntry) /\ last \in 1..Len(e.frames)
      /\ e.prev_candidate_undecided \in BOOLEAN
  BY DEF EncType
<1>2. x \in SoundEntry
  BY <1>1
<1>3. AskedFor(x, y, d, e.prev_candidate_undecided)
  <2>1. CASE e.prev_candidate_undecided
    BY <1>1, <1>2, <2>1, AskedForBoth, Zenon
  <2>2. CASE ~e.prev_candidate_undecided
    <3>1. AskedFor(x, y, d, FALSE)
      <4>1. CASE x.is_key_frame
        BY <1>2, <2>2, <4>1, AskedForKey, Zenon
      <4>2. CASE ~x.is_key_frame
        BY <1>2, <2>2, <4>2, AskedForSub, Zenon
      <4> QED BY <4>1, <4>2
    <3> HIDE DEF x, y
    <3> QED BY <2>2, <3>1 DEF AskedFor
  <2> QED BY <2>1, <2>2
<1>4. f = [e EXCEPT !.frames = fs]
  <2>1. CASE e.prev_candidate_undecided
    <3>1. y = [x EXCEPT !.sub_frame.dispose = d, !.key_frame.dispose = d]
      BY <2>1
    <3>2. fs = [e.frames EXCEPT ![last].sub_frame.dispose = d,
                                ![last].key_frame.dispose = d]
      BY <1>1, <1>2, <3>1 DEF SoundEntry
    <3> QED BY <2>1, <3>2 DEF WithPreviousDispose, EncType
  <2>2. CASE ~e.prev_candidate_undecided
    BY <2>2 DEF WithPreviousDispose
  <2> QED BY <2>1, <2>2
<1> HIDE DEF y
<1>5. Len(fs) = last /\ \A j \in 1..last : fs[j] = IF j = last THEN y ELSE e.frames[j]
  BY <1>1
<1> HIDE DEF fs, f
<1>6. f.frames = fs /\ SameMemory(e, f)
  BY <1>4 DEF EncType, SameMemory
<1>7. fs[last] = y
  BY <1>1, <1>5
<1> QED BY <1>3, <1>5, <1>6, <1>7 DEF DisposedAs, f

(* A frame more.                                                             *)
LEMMA AddedAtTheEnd ==
  ASSUME NEW d \in EncType, NEW x, NEW rect
  PROVE  LET f == Added(d, x, rect)
         IN /\ Len(f.frames) = Len(d.frames) + 1
            /\ \A j \in 1..Len(d.frames) : f.frames[j] = d.frames[j]
            /\ f.frames[Len(d.frames) + 1] = x
            /\ f.keyframe = d.keyframe /\ f.prev_canvas = x.input
            /\ f.prev_rect = rect
            /\ f.prev_candidate_undecided = d.prev_candidate_undecided
<1> DEFINE f == Added(d, x, rect)
           fs == Append(d.frames, x)
<1>1. d.frames \in Seq(SoundEntry)
  BY DEF EncType
<1>2. /\ Len(fs) = Len(d.frames) + 1 /\ fs[Len(d.frames) + 1] = x
      /\ \A j \in 1..Len(d.frames) : fs[j] = d.frames[j]
  BY <1>1
<1> HIDE DEF fs
<1>3. /\ f.frames = fs /\ f.keyframe = d.keyframe /\ f.prev_canvas = x.input
      /\ f.prev_rect = rect
      /\ f.prev_candidate_undecided = d.prev_candidate_undecided
  BY DEF Added, EncType, fs
<1> HIDE DEF f
<1> QED BY <1>2, <1>3 DEF f

(* The key-frame picked: the pictures stay.                                  *)
LEMMA PickedView ==
  ASSUME NEW a \in EncType, KeyIsThere(a), a.frames # <<>>, NEW delta
  PROVE  LET f == PickedAsKey(a, Len(a.frames) - 1, delta)
         IN /\ Len(f.frames) = Len(a.frames)
            /\ \A j \in 1..Len(a.frames) : SameView(a.frames[j], f.frames[j])
            /\ f.prev_canvas = a.prev_canvas /\ f.prev_candidate_undecided = TRUE
<1> DEFINE last == Len(a.frames)
           gs == IF a.keyframe = KeyframeNone THEN a.frames
                 ELSE [a.frames EXCEPT ![a.keyframe + 1].is_key_frame = FALSE]
           fs == [gs EXCEPT ![last].is_key_frame = TRUE]
           f == PickedAsKey(a, last - 1, delta)
<1>1. /\ a.frames \in Seq(SoundEntry) /\ last \in Nat \ {0} /\ last \in 1..Len(a.frames)
      /\ a.keyframe \in Nat \union {KeyframeNone}
  BY DEF EncType
<1>2. /\ f.frames = fs /\ f.prev_canvas = a.prev_canvas
      /\ f.prev_candidate_undecided = TRUE
  <2>1. last - 1 + 1 = last
    BY <1>1
  <2>2. CASE a.keyframe = KeyframeNone
    BY <2>1, <2>2 DEF PickedAsKey, EncType
  <2>3. CASE a.keyframe # KeyframeNone
    BY <2>1, <2>3 DEF PickedAsKey, EncType
  <2> QED BY <2>2, <2>3
<1>3. \A x \in SoundEntry, z \in BOOLEAN : /\ [x EXCEPT !.is_key_frame = z] \in SoundEntry
                                           /\ SameView(x, [x EXCEPT !.is_key_frame = z])
  BY DEF SoundEntry, SameView
<1>4. /\ Len(gs) = last /\ gs \in Seq(SoundEntry)
      /\ \A j \in 1..last : SameView(a.frames[j], gs[j])
  <2>1. CASE a.keyframe = KeyframeNone
    BY <1>1, <2>1 DEF SameView
  <2>2. CASE a.keyframe # KeyframeNone
    <3>1. a.keyframe + 1 \in 1..last
      BY <1>1, <2>2 DEF KeyIsThere
    <3> DEFINE y == [a.frames[a.keyframe + 1] EXCEPT !.is_key_frame = FALSE]
    <3>2. y \in SoundEntry /\ SameView(a.frames[a.keyframe + 1], y)
      <4>1. a.frames[a.keyframe + 1] \in SoundEntry
        BY <1>1, <3>1
      <4> QED BY <1>3, <4>1, Zenon
    <3>3. gs = [a.frames EXCEPT ![a.keyframe + 1] = y]
      BY <2>2
    <3> HIDE DEF y
    <3> HIDE DEF gs
    <3>4. /\ Len(gs) = last /\ gs \in Seq(SoundEntry)
          /\ \A j \in 1..last : gs[j] = IF j = a.keyframe + 1 THEN y ELSE a.frames[j]
      BY <1>1, <3>1, <3>2, <3>3
    <3> QED BY <3>2, <3>4 DEF SameView
  <2> QED BY <2>1, <2>2
<1> HIDE DEF gs
<1>5. /\ Len(fs) = last
      /\ \A j \in 1..last : SameView(gs[j], fs[j])
  <2> DEFINE y == [gs[last] EXCEPT !.is_key_frame = TRUE]
  <2>1. fs = [gs EXCEPT ![last] = y] /\ gs \in Seq(SoundEntry) /\ last \in 1..Len(gs)
    BY <1>1, <1>4
  <2>2. SameView(gs[last], y)
    <3>1. gs[last] \in SoundEntry
      BY <2>1
    <3> QED BY <1>3, <3>1, Zenon
  <2> HIDE DEF y, fs
  <2>3. /\ Len(fs) = Len(gs) /\ fs[last] = y
        /\ \A j \in 1..Len(gs) : j # last => fs[j] = gs[j]
    BY <2>1
  <2> HIDE DEF last
  <2> QED BY <1>4, <2>2, <2>3 DEF SameView
<1> HIDE DEF fs, f
<1>6. \A j \in 1..last : SameView(a.frames[j], fs[j])
  BY <1>4, <1>5 DEF SameView
<1> QED BY <1>2, <1>5, <1>6 DEF f

-----------------------------------------------------------------------------
(* Frames that are kept show what they showed.                               *)
LEMMA SamePictureIsStill ==
  ASSUME NEW c, NEW f, NEW g, SamePicture(f, g), NEW cur, IsStill(c, g, cur)
  PROVE  IsStill(c, f, cur)
BY SamePictureMakes DEF IsStill, SamePicture

LEMMA StillsAreKept ==
  ASSUME NEW c, NEW es, NEW k \in Int, NEW fs, NEW l, NEW o, Len(es) \in Nat \ {0},
         es # <<>>, Kept(es, k, fs, l, Len(es)), l = 0 => k = 0, Stills(c, es, k, o)
  PROVE  Stills(c, fs, l, o)
<1>1. ASSUME o.out_frame_count = 0 PROVE l # 0 /\ IsStill(c, Chosen(fs[1]), fs[1].input)
  <2>1. k # 0 /\ IsStill(c, Chosen(es[1]), es[1].input)
    BY <1>1 DEF Stills
  <2>2. 1 \in 1..Len(es) /\ Chosen(fs[1]) \in Forms(fs, l, 1)
    BY DEF Forms
  <2>3. fs[1].input = es[1].input
    BY <2>2 DEF Kept
  <2>4. PICK g \in Forms(es, k, 1) : SamePicture(Chosen(fs[1]), g)
    BY <2>2 DEF Kept
  <2>5. g = Chosen(es[1])
    <3>1. 1 # k + 1
      BY <2>1
    <3> QED BY <2>4, <3>1 DEF Forms
  <2> QED BY <2>1, <2>3, <2>4, <2>5, SamePictureIsStill
<1> QED BY <1>1 DEF Stills

LEMMA KeptShows ==
  ASSUME NEW c, NEW e \in EncType, NEW f \in EncType, NEW o, e.frames # <<>>,
         Len(f.frames) = Len(e.frames),
         Kept(e.frames, e.keyframe, f.frames, f.keyframe, Len(e.frames)),
         f.keyframe = 0 => e.keyframe = 0, f.prev_canvas = e.prev_canvas,
         Shows(c, e, o)
  PROVE  Shows(c, f, o) /\ EndsAs(e, o, f, o)
<1> DEFINE es == e.frames
           fs == f.frames
<1>1. /\ es \in Seq(SoundEntry) /\ fs \in Seq(SoundEntry)
  BY DEF EncType
<1>2. Len(es) \in Nat \ {0} /\ Len(fs) = Len(es) /\ fs # <<>>
  BY <1>1
<1>3. Linked(c, fs, f.keyframe, o)
  BY <1>2, LinkedIsKept DEF Shows
<1>4. Stills(c, fs, f.keyframe, o)
  <2>1. e.keyframe \in Int
    BY DEF EncType, KeyframeNone
  <2> QED BY <1>2, <2>1, StillsAreKept DEF Shows
<1>5. fs[Len(es)].input = es[Len(es)].input
  <2>1. Len(es) \in 1..Len(es)
    BY <1>2
  <2> QED BY <2>1 DEF Kept
<1>6. EndsAs(e, o, f, o)
  BY <1>2, <1>5 DEF EndsAs, LastInput
<1> HIDE DEF es, fs
<1> QED BY <1>3, <1>4, <1>6 DEF Shows, EndsAs, fs

(* A frame more, linked to those that are kept.                              *)
LongerByAFrame(c, e, f, o) ==
  /\ e.frames # <<>> /\ Len(f.frames) = Len(e.frames) + 1
  /\ Kept(e.frames, e.keyframe, f.frames, f.keyframe, Len(e.frames))
  /\ f.keyframe = 0 => e.keyframe = 0
  /\ Link(c, f.frames, f.keyframe, o, Len(e.frames) + 1)
  /\ f.prev_canvas = f.frames[Len(e.frames) + 1].input

(* It shows its canvas.                                                      *)
LEMMA GrownShows ==
  ASSUME NEW c, NEW e \in EncType, NEW f \in EncType, NEW o,
         LongerByAFrame(c, e, f, o), Shows(c, e, o)
  PROVE  Shows(c, f, o) /\ LastInput(f.frames, o) = f.prev_canvas
<1> DEFINE es == e.frames
           fs == f.frames
<1>1. /\ es \in Seq(SoundEntry) /\ fs \in Seq(SoundEntry)
  BY DEF EncType
<1>2. Len(es) \in Nat \ {0} /\ Len(fs) = Len(es) + 1 /\ fs # <<>>
  BY <1>1 DEF LongerByAFrame
<1>3. Linked(c, fs, f.keyframe, o)
  BY <1>2, LinkedGrows DEF Shows, LongerByAFrame
<1>4. Stills(c, fs, f.keyframe, o)
  <2>1. e.keyframe \in Int
    BY DEF EncType, KeyframeNone
  <2> QED BY <1>2, <2>1, StillsAreKept DEF Shows, LongerByAFrame
<1>5. LastInput(fs, o) = f.prev_canvas
  BY <1>2 DEF LastInput, LongerByAFrame
<1> HIDE DEF es, fs
<1> QED BY <1>3, <1>4, <1>5 DEF Shows, fs

(* The same forms.                                                           *)
LEMMA SameFormsAreKept ==
  ASSUME NEW es, NEW fs, NEW k, NEW n,
         \A j \in 1..n : SameView(es[j], fs[j]) /\ fs[j].is_key_frame = es[j].is_key_frame
  PROVE  Kept(es, k, fs, k, n)
<1>1. ASSUME NEW j \in 1..n
      PROVE  fs[j].input = es[j].input /\ Forms(fs, k, j) = Forms(es, k, j)
  BY DEF SameView, Forms, Chosen
<1> QED BY <1>1 DEF Kept, SamePicture

LEMMA SameFormsShow ==
  ASSUME NEW c, NEW e \in EncType, NEW f \in EncType, NEW o, e.frames # <<>>,
         SameForms(e, f), f.keyframe = e.keyframe, f.prev_canvas = e.prev_canvas,
         Shows(c, e, o)
  PROVE  Shows(c, f, o) /\ EndsAs(e, o, f, o)
<1>1. Kept(e.frames, e.keyframe, f.frames, e.keyframe, Len(e.frames))
  BY SameFormsAreKept DEF SameForms
<1> QED BY <1>1, KeptShows DEF SameForms

(* The last frame, asked for something else.                                 *)
LEMMA AskedForChosen ==
  ASSUME NEW x, NEW y, NEW d, NEW both, AskedFor(x, y, d, both)
  PROVE  SamePicture(Chosen(y), Chosen(x))
BY DEF AskedFor, Chosen

LEMMA DisposedIsKept ==
  ASSUME NEW e \in EncType, NEW f, NEW dispose, e.frames # <<>>, DisposedAs(e, f, dispose)
  PROVE  Kept(e.frames, e.keyframe, f.frames, f.keyframe, Len(e.frames))
<1> DEFINE es == e.frames
           fs == f.frames
           k == e.keyframe
           n == Len(es)
<1>1. n \in Nat \ {0} /\ f.keyframe = k
  BY DEF DisposedAs, SameMemory, EncType
<1>2. /\ \A j \in 1..n : j # n => fs[j] = es[j]
      /\ AskedFor(es[n], fs[n], dispose, e.prev_candidate_undecided)
  BY DEF DisposedAs
<1> HIDE DEF es, fs, k, n
<1>3. ASSUME NEW j \in 1..n
      PROVE  /\ fs[j].input = es[j].input
             /\ \A f_ \in Forms(fs, k, j) :
                  \E g \in Forms(es, k, j) : SamePicture(f_, g) /\ (j < n => f_ = g)
  <2>1. CASE j # n
    <3>1. fs[j] = es[j]
      BY <1>2, <2>1
    <3>2. Forms(fs, k, j) = Forms(es, k, j)
      BY <3>1 DEF Forms
    <3> QED BY <3>1, <3>2 DEF SamePicture
  <2>2. CASE j = n
    <3>1. fs[n].input = es[n].input /\ ~(n < n)
      BY <1>1, <1>2 DEF AskedFor
    <3>2. SamePicture(Chosen(fs[n]), Chosen(es[n]))
      BY <1>2, AskedForChosen
    <3>3. SamePicture(fs[n].sub_frame, es[n].sub_frame)
      BY <1>2 DEF AskedFor
    <3> QED BY <2>2, <3>1, <3>2, <3>3 DEF Forms
  <2> QED BY <2>1, <2>2
<1> QED BY <1>1, <1>3 DEF Kept, es, fs, k, n

LEMMA DisposedShows ==
  ASSUME NEW c, NEW e \in EncType, NEW f \in EncType, NEW o, NEW dispose,
         e.frames # <<>>, DisposedAs(e, f, dispose), Shows(c, e, o)
  PROVE  Shows(c, f, o) /\ EndsAs(e, o, f, o)
<1>1. Kept(e.frames, e.keyframe, f.frames, f.keyframe, Len(e.frames))
  BY DisposedIsKept
<1>2. /\ Len(f.frames) = Len(e.frames) /\ f.keyframe = e.keyframe
      /\ f.prev_canvas = e.prev_canvas
  BY DEF DisposedAs, SameMemory
<1> QED BY <1>1, <1>2, KeptShows

(* What is left for the next frame is what its forms were tried over.        *)
LEMMA DisposedLeaves ==
  ASSUME NEW c, NEW e \in EncType, NEW f, NEW o, NEW d \in {"none", "background"},
         e.frames # <<>>, DisposedAs(e, f, d), Shows(c, e, o), LastIsOpen(e),
         e.prev_candidate_undecided => d = "none",
         NEW b \in Lefts(f.frames, f.keyframe, o, Len(e.frames) + 1)
  PROVE  b = Base(e, d)
<1> DEFINE n == Len(e.frames)
           x == e.frames[n]
           y == f.frames[n]
<1>1. n \in Nat \ {0} /\ f.keyframe = e.keyframe /\ e.prev_canvas = x.input
  BY DEF DisposedAs, SameMemory, EncType, Shows, LastInput
<1>2. AskedFor(x, y, d, e.prev_candidate_undecided)
  BY DEF DisposedAs
<1>3. /\ e.keyframe = n - 1 => e.prev_candidate_undecided
      /\ ~e.prev_candidate_undecided => e.prev_rect = Chosen(x).rect
  BY DEF LastIsOpen
<1>4. PICK g \in Forms(f.frames, f.keyframe, n) : b = Left(g, y.input)
  <2>1. n + 1 # 1 /\ n + 1 - 1 = n
    BY <1>1
  <2> QED BY <2>1 DEF Lefts
<1>5. g = Chosen(y) \/ (n = e.keyframe + 1 /\ g = y.sub_frame)
  BY <1>1, <1>4 DEF Forms
<1> HIDE DEF x, y, n
<1>6. y.input = e.prev_canvas
  BY <1>1, <1>2 DEF AskedFor
<1>7. Chosen(y).rect = Chosen(x).rect
  BY <1>2, AskedForChosen DEF SamePicture
<1>8. CASE g = Chosen(y)
  <2>1. g.dispose = d
    BY <1>2, <1>8 DEF AskedFor
  <2>2. CASE d = "none"
    BY <1>4, <1>6, <2>1, <2>2 DEF Left, Base
  <2>3. CASE d = "background"
    <3>1. g.rect = e.prev_rect
      BY <1>3, <1>7, <1>8, <2>3
    <3> QED BY <1>4, <1>6, <2>1, <2>3, <3>1 DEF Left, Base
  <2> QED BY <2>2, <2>3
<1>9. CASE n = e.keyframe + 1 /\ g = y.sub_frame
  <2>1. e.keyframe = n - 1
    BY <1>1, <1>9 DEF EncType, KeyframeNone
  <2>2. e.prev_candidate_undecided /\ d = "none"
    BY <1>3, <2>1
  <2>3. g.dispose = "none"
    BY <1>2, <1>9, <2>2 DEF AskedFor
  <2> QED BY <1>4, <1>6, <2>2, <2>3 DEF Left, Base
<1> QED BY <1>5, <1>8, <1>9

-----------------------------------------------------------------------------
(* A frame that is cached: the others may lose a form by it.                 *)
Narrower(es, k, fs, l, n) ==
  \A j \in 1..n : fs[j].input = es[j].input /\ Forms(fs, l, j) \subseteq Forms(es, k, j)

LEMMA NarrowerIsKept ==
  ASSUME NEW es, NEW k, NEW fs, NEW l, NEW n, Narrower(es, k, fs, l, n)
  PROVE  Kept(es, k, fs, l, n)
BY DEF Narrower, Kept, SamePicture

LEMMA NarrowerLeaves ==
  ASSUME NEW es, NEW k, NEW fs, NEW l, NEW n \in Nat \ {0}, NEW o,
         Narrower(es, k, fs, l, n)
  PROVE  Lefts(fs, l, o, n + 1) \subseteq Lefts(es, k, o, n + 1)
<1>1. n + 1 # 1 /\ n + 1 - 1 = n /\ n \in 1..n
  OBVIOUS
<1>2. fs[n].input = es[n].input /\ Forms(fs, l, n) \subseteq Forms(es, k, n)
  BY <1>1 DEF Narrower
<1> QED BY <1>1, <1>2 DEF Lefts

(* A frame more that makes its canvas of base, in each of its forms.         *)
NewFrame(c, d, f, base) ==
  /\ Len(f.frames) = Len(d.frames) + 1
  /\ Narrower(d.frames, d.keyframe, f.frames, f.keyframe, Len(d.frames))
  /\ f.keyframe = 0 => d.keyframe = 0
  /\ f.prev_canvas = f.frames[Len(d.frames) + 1].input
  /\ \A g \in Forms(f.frames, f.keyframe, Len(d.frames) + 1) :
       Makes(c, g, base, f.prev_canvas)

(* The encoder e, its last frame asked for dispose:                          *)
(* SetPreviousDisposeMethod.                                                 *)
MadeReady(c, e, d, o, dispose) ==
  /\ e.frames # <<>> /\ DisposedAs(e, d, dispose) /\ Shows(c, e, o) /\ LastIsOpen(e)
  /\ dispose \in {"none", "background"}
  /\ e.prev_candidate_undecided => dispose = "none"

(* A frame made over what the last one leaves shows its canvas.              *)
LEMMA NewFrameShows ==
  ASSUME NEW c, NEW e \in EncType, NEW d \in EncType, NEW f \in EncType, NEW o,
         NEW dispose, MadeReady(c, e, d, o, dispose),
         NewFrame(c, d, f, Base(e, dispose))
  PROVE  Shows(c, f, o) /\ LastInput(f.frames, o) = f.prev_canvas
<1>1. Shows(c, d, o)
  BY DisposedShows DEF MadeReady
<1>2. Len(d.frames) = Len(e.frames) /\ Len(d.frames) \in Nat \ {0} /\ d.frames # <<>>
  BY DEF DisposedAs, EncType, MadeReady
<1>3. Kept(d.frames, d.keyframe, f.frames, f.keyframe, Len(d.frames))
  BY NarrowerIsKept DEF NewFrame
<1>4. Link(c, f.frames, f.keyframe, o, Len(d.frames) + 1)
  <2>1. ASSUME NEW b \in Lefts(f.frames, f.keyframe, o, Len(d.frames) + 1)
        PROVE  b = Base(e, dispose)
    <3>1. b \in Lefts(d.frames, d.keyframe, o, Len(d.frames) + 1)
      BY <1>2, <2>1, NarrowerLeaves DEF NewFrame
    <3>2. b \in Lefts(d.frames, d.keyframe, o, Len(e.frames) + 1)
      BY <1>2, <3>1
    <3> QED BY <3>2, DisposedLeaves DEF MadeReady
  <2>2. f.prev_canvas = f.frames[Len(d.frames) + 1].input
    BY DEF NewFrame
  <2> QED BY <2>1, <2>2 DEF Link, NewFrame
<1>5. LongerByAFrame(c, d, f, o)
  BY <1>2, <1>3, <1>4 DEF LongerByAFrame, NewFrame
<1> QED BY <1>1, <1>5, GrownShows

(* As a sub-frame, for good.                                                 *)
IsFresh(x) == x.sub_frame.dispose = "none" /\ x.key_frame.dispose = "none"

EndsInSubFrame(d, f, x, rect) ==
  /\ f.frames = Added(d, x, rect).frames /\ f.keyframe = d.keyframe
  /\ f.prev_canvas = x.input /\ x.is_key_frame = FALSE
  /\ f.prev_candidate_undecided = FALSE /\ f.prev_rect = x.sub_frame.rect

LEMMA SubFrameShows ==
  ASSUME NEW c, NEW e \in EncType, NEW d \in EncType, NEW f \in EncType, NEW o,
         NEW dispose, KeyIsThere(e), MadeReady(c, e, d, o, dispose),
         NEW x, NEW rect, EndsInSubFrame(d, f, x, rect), IsFresh(x),
         Makes(c, x.sub_frame, Base(e, dispose), x.input)
  PROVE  Shows(c, f, o) /\ LastInput(f.frames, o) = x.input /\ LastIsOpen(f)
<1> DEFINE n == Len(d.frames)
           fs == f.frames
           es == d.frames
           k == d.keyframe
<1>1. /\ Len(fs) = n + 1 /\ fs[n + 1] = x
      /\ \A j \in 1..n : fs[j] = es[j]
  BY AddedAtTheEnd DEF EndsInSubFrame
<1>2. /\ n \in Nat \ {0} /\ k = e.keyframe /\ k \in Nat \union {KeyframeNone}
      /\ k # KeyframeNone => k < n
  BY DEF MadeReady, DisposedAs, SameMemory, EncType, KeyIsThere
<1>3. f.keyframe = k
  BY DEF EndsInSubFrame
<1> HIDE DEF n, fs, es, k
<1>4. k + 1 # n + 1 /\ k # Len(fs) - 1
  BY <1>1, <1>2 DEF KeyframeNone
<1>5. Narrower(es, k, fs, k, n)
  <2>1. \A j \in 1..n : fs[j].input = es[j].input /\ Forms(fs, k, j) = Forms(es, k, j)
    BY <1>1 DEF Forms
  <2> QED BY <2>1 DEF Narrower
<1>6. Chosen(x) = x.sub_frame
  BY DEF Chosen, EndsInSubFrame
<1>7. \A g \in Forms(fs, k, n + 1) : g = x.sub_frame
  BY <1>1, <1>4, <1>6 DEF Forms
<1>8. Shows(c, f, o) /\ LastInput(f.frames, o) = f.prev_canvas
  <2>1. NewFrame(c, d, f, Base(e, dispose))
    BY <1>1, <1>3, <1>5, <1>7 DEF NewFrame, EndsInSubFrame, n, fs, es, k
  <2> QED BY <2>1, NewFrameShows
<1>9. LastIsOpen(f)
  <2>1. fs[Len(fs)] = x
    BY <1>1
  <2> QED BY <1>3, <1>4, <1>6, <2>1 DEF LastIsOpen, EndsInSubFrame, IsFresh, fs
<1> QED BY <1>8, <1>9 DEF EndsInSubFrame

(* As the key-frame, as long as none costs less: the one before gives way.   *)
EndsInKeyFrame(d, a, f, x, rect, delta) ==
  /\ a.frames = Added(d, x, rect).frames /\ a.keyframe = d.keyframe
  /\ a.prev_canvas = x.input
  /\ f.frames = PickedAsKey(a, Len(a.frames) - 1, delta).frames
  /\ f.keyframe = Len(a.frames) - 1 /\ f.prev_candidate_undecided = TRUE
  /\ f.prev_canvas = a.prev_canvas

LEMMA KeyFrameShows ==
  ASSUME NEW c, NEW e \in EncType, NEW d \in EncType, NEW a \in EncType,
         NEW f \in EncType, NEW o, KeyIsThere(a),
         NEW dispose, KeyIsThere(e), MadeReady(c, e, d, o, dispose),
         NEW x, NEW rect, NEW delta, EndsInKeyFrame(d, a, f, x, rect, delta), IsFresh(x),
         Makes(c, x.sub_frame, Base(e, dispose), x.input),
         Makes(c, x.key_frame, Base(e, dispose), x.input)
  PROVE  Shows(c, f, o) /\ LastInput(f.frames, o) = x.input /\ LastIsOpen(f)
<1> DEFINE n == Len(d.frames)
           fs == f.frames
           es == d.frames
           as == a.frames
           k == d.keyframe
<1>1. /\ Len(as) = n + 1 /\ as[n + 1] = x
      /\ \A j \in 1..n : as[j] = es[j]
  BY AddedAtTheEnd DEF EndsInKeyFrame
<1>2. /\ n \in Nat \ {0} /\ k = e.keyframe /\ k \in Nat \union {KeyframeNone}
      /\ k # KeyframeNone => k < n
  BY DEF MadeReady, DisposedAs, SameMemory, EncType, KeyIsThere
<1>3. a.frames # <<>> /\ a.keyframe # Len(a.frames) - 1 /\ a.keyframe = k
  <2>1. Len(a.frames) = n + 1 /\ a.frames \in Seq(SoundEntry) /\ a.keyframe = k
    BY <1>1 DEF EncType, EndsInKeyFrame
  <2> HIDE DEF n, k, as
  <2>2. a.frames # <<>>
    BY <1>2, <2>1
  <2>3. k # Len(a.frames) - 1
    BY <1>2, <2>1 DEF KeyframeNone
  <2> QED BY <2>1, <2>2, <2>3
<1>4. /\ Len(fs) = Len(as)
      /\ \A j \in 1..Len(as) : SameView(as[j], fs[j])
  <2> DEFINE p == PickedAsKey(a, Len(a.frames) - 1, delta)
  <2>1. /\ Len(p.frames) = Len(a.frames)
        /\ \A j \in 1..Len(a.frames) : SameView(a.frames[j], p.frames[j])
    BY <1>3, PickedView
  <2>2. fs = p.frames
    BY DEF EndsInKeyFrame
  <2> HIDE DEF p, fs
  <2> QED BY <2>1, <2>2
<1>5. /\ \A j \in 1..Len(as) - 1 :
           fs[j].is_key_frame = (as[j].is_key_frame /\ j # k + 1)
      /\ fs[Len(as)].is_key_frame = TRUE
  <2>1. Moved(a, PickedAsKey(a, Len(a.frames) - 1, delta))
    BY <1>3, PickingMovesTheKey
  <2> QED BY <1>3, <2>1 DEF Moved, EndsInKeyFrame
<1>6. f.keyframe = n
  BY <1>1, <1>2 DEF EndsInKeyFrame
<1> HIDE DEF n, fs, es, as, k
<1>7. ASSUME NEW j \in 1..n
      PROVE  fs[j].input = es[j].input /\ Forms(fs, n, j) \subseteq Forms(es, k, j)
  <2>1. /\ j \in 1..Len(as) /\ j \in 1..Len(as) - 1 /\ j # n + 1
    BY <1>1, <1>2
  <2>2. SameView(es[j], fs[j]) /\ fs[j].is_key_frame = (es[j].is_key_frame /\ j # k + 1)
    BY <1>1, <1>4, <1>5, <2>1
  <2>3. Forms(fs, n, j) = {Chosen(fs[j])}
    BY <2>1 DEF Forms
  <2>4. CASE j = k + 1
    BY <2>2, <2>3, <2>4 DEF SameView, Chosen, Forms
  <2>5. CASE j # k + 1
    <3>1. Chosen(fs[j]) = Chosen(es[j])
      BY <2>2, <2>5 DEF SameView, Chosen
    <3> QED BY <2>2, <2>3, <3>1 DEF SameView, Forms
  <2> QED BY <2>4, <2>5
<1>8. Narrower(es, k, fs, n, n)
  BY <1>7 DEF Narrower
<1>9. n + 1 \in 1..Len(as)
  BY <1>1, <1>2
<1>10. SameView(x, fs[n + 1]) /\ fs[n + 1].is_key_frame = TRUE
  BY <1>1, <1>4, <1>5, <1>9
<1>11. \A g \in Forms(fs, n, n + 1) : g = x.key_frame \/ g = x.sub_frame
  BY <1>10 DEF Forms, Chosen, SameView
<1>12. n # 0
  BY <1>2
<1>13. Shows(c, f, o) /\ LastInput(f.frames, o) = f.prev_canvas
  <2>1. f.prev_canvas = x.input /\ f.prev_canvas = fs[n + 1].input
    BY <1>10 DEF SameView, EndsInKeyFrame
  <2>2. NewFrame(c, d, f, Base(e, dispose))
    BY <1>1, <1>4, <1>6, <1>8, <1>11, <1>12, <2>1 DEF NewFrame, n, fs, es, k
  <2> QED BY <2>2, NewFrameShows
<1>14. LastIsOpen(f)
  <2>1. fs[Len(fs)] = fs[n + 1]
    BY <1>1, <1>4
  <2> QED BY <1>10, <2>1 DEF LastIsOpen, EndsInKeyFrame, IsFresh, fs, SameView
<1> QED BY <1>13, <1>14 DEF EndsInKeyFrame

-----------------------------------------------------------------------------
(* CacheFrame: the canvas cur is shown.                                      *)
Taken(e, o, cur) ==
  /\ Shows(caller, e, o) /\ LastIsOpen(e)
  /\ Agrees(caller, LastInput(e.frames, o), cur)

(* SetFrame found the sub-frame c: the last frame is asked for its disposal. *)
LEMMA SubFramePrepared ==
  ASSUME caller \in Callers, IsSteady(caller), NEW e \in EncType, NEW o, Ready(e),
         Shows(caller, e, o), LastIsOpen(e), NEW method \in caller.methods,
         NEW cur \in caller.canvases, NEW c \in SubFrames(e, method, cur)
  PROVE  LET d == WithPreviousDispose(e, c.dispose)
         IN /\ d \in EncType /\ MadeReady(caller, e, d, o, c.dispose)
            /\ KeyIsThere(e) /\ d.keyframe = e.keyframe
            /\ d.is_first_frame = e.is_first_frame
<1> DEFINE d == WithPreviousDispose(e, c.dispose)
<1>0. IsFit(e, c, cur)
  BY SubFramesMake
<1>1. /\ c.dispose \in {"none", "background"}
      /\ e.prev_candidate_undecided => c.dispose = "none"
  BY <1>0 DEF IsFit
<1>2. e.frames # <<>> /\ KeyIsThere(e)
  BY DEF Ready
<1>3. d \in EncType
  BY <1>1, <1>2, PreviousDisposeIsSound
<1>4. DisposedAs(e, d, c.dispose)
  BY <1>2, DisposeAsks
<1> HIDE DEF d
<1>5. d.keyframe = e.keyframe /\ d.is_first_frame = e.is_first_frame
  BY <1>4 DEF DisposedAs, SameMemory
<1> QED BY <1>1, <1>2, <1>3, <1>4, <1>5 DEF MadeReady, d

(* CacheFrame, too soon for a key-frame.                                     *)
LEMMA CachedAsSubFrameShows ==
  ASSUME caller \in Callers, IsSteady(caller), NEW e \in EncType, NEW o, Ready(e),
         Shows(caller, e, o), LastIsOpen(e), NEW method \in caller.methods,
         NEW cur \in caller.canvases, NEW f \in CachedAsSubFrame(e, method, cur)
  PROVE  Taken(f, o, cur)
<1>1. PICK c \in SubFrames(e, method, cur) :
        f = [Added(WithPreviousDispose(e, c.dispose),
                   Entry(c.frame, NoFrame, FALSE, cur), c.frame.rect)
               EXCEPT !.flush_count = Len(e.frames),
                      !.count_since_key_frame = @ + 1,
                      !.prev_candidate_undecided = FALSE]
  BY DEF CachedAsSubFrame
<1> DEFINE d == WithPreviousDispose(e, c.dispose)
           x == Entry(c.frame, NoFrame, FALSE, cur)
           a == Added(d, x, c.frame.rect)
<1>2. /\ d \in EncType /\ MadeReady(caller, e, d, o, c.dispose) /\ KeyIsThere(e)
  BY SubFramePrepared
<1>3. Makes(caller, c.frame, Base(e, c.dispose), cur) /\ c.frame.dispose = "none"
  <2>1. IsFit(e, c, cur)
    BY SubFramesMake
  <2> QED BY <2>1 DEF IsFit
<1>4. cur \in Canvas
  BY GivenCanvas
<1>5. c.frame \in SoundFrame /\ c.frame.rect \in Rects
  BY <1>4, SubFramesAreSound DEF IsCandidate, SoundFrame, FrameType
<1>6. f \in EncType
  BY <1>4, CachedAsSubFrameIsSound
<1>7. x \in SoundEntry
  BY <1>4, <1>5, FixedFrames, EntryIsSound
<1>8. /\ x.sub_frame = c.frame /\ x.key_frame = NoFrame /\ x.is_key_frame = FALSE
      /\ x.input = cur /\ NoFrame.dispose = "none"
  BY DEF Entry, NoFrame, Frame
<1> HIDE DEF x, d
<1>9. a \in EncType /\ a.keyframe = d.keyframe /\ a.prev_canvas = x.input
      /\ a.prev_rect = c.frame.rect
  BY <1>2, <1>5, <1>7, AddedIsSound, AddedAtTheEnd
<1> HIDE DEF a
<1>10. f = [a EXCEPT !.flush_count = Len(e.frames),
                     !.count_since_key_frame = a.count_since_key_frame + 1,
                     !.prev_candidate_undecided = FALSE]
  BY <1>1 DEF a, d, x
<1>11. /\ f.frames = a.frames /\ f.keyframe = a.keyframe /\ f.prev_rect = a.prev_rect
       /\ f.prev_canvas = a.prev_canvas /\ f.prev_candidate_undecided = FALSE
  BY <1>9, <1>10 DEF EncType
<1>12. Shows(caller, f, o) /\ LastInput(f.frames, o) = x.input /\ LastIsOpen(f)
  <2>1. EndsInSubFrame(d, f, x, c.frame.rect)
    BY <1>8, <1>9, <1>11 DEF EndsInSubFrame, a
  <2>2. IsFresh(x)
    BY <1>3, <1>8 DEF IsFresh
  <2>3. Makes(caller, x.sub_frame, Base(e, c.dispose), x.input)
    BY <1>3, <1>8
  <2> QED BY <1>2, <1>6, <1>8, <2>1, <2>2, <2>3, SubFrameShows
<1> QED BY <1>8, <1>12, AgreesWithItself DEF Taken

(* The window closed: no key-frame has to give way any more.                 *)
LEMMA ClosedShows ==
  ASSUME NEW c, NEW g \in EncType, NEW f \in EncType, NEW o, g.frames # <<>>,
         f.frames = g.frames, f.keyframe = KeyframeNone, f.prev_canvas = g.prev_canvas,
         f.prev_rect = g.prev_rect,
         f.prev_candidate_undecided = g.prev_candidate_undecided,
         Shows(c, g, o), LastIsOpen(g)
  PROVE  Shows(c, f, o) /\ LastIsOpen(f)
<1>1. Narrower(g.frames, g.keyframe, f.frames, f.keyframe, Len(g.frames))
  <2>1. ASSUME NEW j \in 1..Len(g.frames)
        PROVE  Forms(f.frames, f.keyframe, j) \subseteq Forms(g.frames, g.keyframe, j)
    <3>1. j # f.keyframe + 1
      BY DEF KeyframeNone
    <3> QED BY <3>1 DEF Forms
  <2> QED BY <2>1 DEF Narrower
<1>2. Kept(g.frames, g.keyframe, f.frames, f.keyframe, Len(g.frames))
  BY <1>1, NarrowerIsKept
<1>3. f.keyframe # 0
  BY DEF KeyframeNone
<1>4. Shows(c, f, o)
  BY <1>2, <1>3, KeptShows
<1>5. LastIsOpen(f)
  <2>1. f.keyframe # Len(f.frames) - 1
    BY DEF EncType, KeyframeNone
  <2> QED BY <2>1 DEF LastIsOpen
<1> QED BY <1>4, <1>5

LEMMA WindowClosedShows ==
  ASSUME NEW g \in EncType, NEW o, g.frames # <<>>, NEW cur, Taken(g, o, cur),
         WindowClosed(g) \in EncType
  PROVE  Taken(WindowClosed(g), o, cur)
<1> DEFINE f == WindowClosed(g)
<1>1. CASE g.count_since_key_frame < Options(caller).kmax
  BY <1>1 DEF WindowClosed
<1>2. CASE ~(g.count_since_key_frame < Options(caller).kmax)
  <2>1. f = [g EXCEPT !.flush_count = Len(g.frames) - 1, !.count_since_key_frame = 0,
                      !.keyframe = KeyframeNone, !.best_delta = DeltaInfinity]
    BY <1>2 DEF WindowClosed
  <2>2. f \in EncType
    OBVIOUS
  <2> HIDE DEF f
  <2>3. /\ f.frames = g.frames /\ f.keyframe = KeyframeNone
        /\ f.prev_canvas = g.prev_canvas /\ f.prev_rect = g.prev_rect
        /\ f.prev_candidate_undecided = g.prev_candidate_undecided
    BY <2>1 DEF EncType
  <2>4. Shows(caller, f, o) /\ LastIsOpen(f)
    BY <2>2, <2>3, ClosedShows DEF Taken
  <2> QED BY <2>3, <2>4 DEF Taken, f
<1> QED BY <1>1, <1>2

(* CacheFrame, when the frame may be a key-frame.                            *)
LEMMA CachedAsEitherShows ==
  ASSUME caller \in Callers, IsSteady(caller), NEW e \in EncType, NEW o, Ready(e),
         MayBeKey(e), Shows(caller, e, o), LastIsOpen(e), NEW method \in caller.methods,
         NEW cur \in caller.canvases, NEW f \in CachedAsEither(e, method, cur)
  PROVE  Taken(f, o, cur)
<1>1. PICK c \in SubFrames(e, method, cur), k \in KeyFrames(e, method, cur),
           delta \in Deltas : f = WindowClosed(Compared(e, c, k, delta, cur))
  BY DEF CachedAsEither
<1>2. cur \in Canvas
  BY GivenCanvas
<1>3. IsCandidate(c) /\ IsCandidate(k)
  <2>1. e.is_first_frame \in BOOLEAN
    BY DEF EncType
  <2> QED BY <1>2, <2>1, SubFramesAreSound, KeyFramesAreSound
<1>4. f \in EncType
  BY <1>2, CachedAsEitherIsSound
<1> DEFINE d == WithPreviousDispose(e, c.dispose)
           x == Entry(c.frame, k.frame, FALSE, cur)
           b == Added(d, x, c.frame.rect)
           a == InBothForms(e, c, k, cur)
           g == Compared(e, c, k, delta, cur)
<1>5. /\ d \in EncType /\ MadeReady(caller, e, d, o, c.dispose) /\ KeyIsThere(e)
      /\ d.keyframe = e.keyframe
  BY SubFramePrepared
<1>6. IsFit(e, c, cur)
  BY SubFramesMake
<1>7. e.is_first_frame = FALSE
  BY DEF Ready, EncType
<1>8. (\A base : Makes(caller, k.frame, base, cur)) /\ k.frame.dispose = "none"
  BY <1>7, KeyFramesMake
<1>9. /\ c.frame \in SoundFrame /\ k.frame \in SoundFrame
      /\ c.frame.rect \in Rects /\ k.frame.rect \in Rects
  BY <1>3 DEF IsCandidate, SoundFrame, FrameType
<1>10. x \in SoundEntry
  BY <1>2, <1>9, EntryIsSound
<1>11. /\ x.sub_frame = c.frame /\ x.key_frame = k.frame /\ x.is_key_frame = FALSE
       /\ x.input = cur
  BY DEF Entry
<1>12. /\ a \in EncType /\ a.frames # <<>> /\ KeyIsThere(a)
       /\ Len(a.frames) = Len(e.frames) + 1
  <2> HIDE DEF a
  <2> QED BY <1>2, <1>3, BothIsSound, ZenonT(60) DEF a
<1>13. a = [b EXCEPT !.count_since_key_frame = b.count_since_key_frame + 1]
  BY DEF InBothForms
<1> HIDE DEF a, d, x
<1>14. /\ b \in EncType /\ b.keyframe = d.keyframe /\ b.prev_canvas = x.input
       /\ b.prev_rect = c.frame.rect
  BY <1>5, <1>9, <1>10, AddedIsSound, AddedAtTheEnd
<1> HIDE DEF b
<1>15. /\ a.frames = b.frames /\ a.keyframe = b.keyframe /\ a.prev_canvas = b.prev_canvas
       /\ a.prev_rect = b.prev_rect
  BY <1>13, <1>14 DEF EncType
<1>16. /\ IsFresh(x) /\ Makes(caller, x.sub_frame, Base(e, c.dispose), x.input)
       /\ Makes(caller, x.key_frame, Base(e, c.dispose), x.input)
  BY <1>6, <1>8, <1>11 DEF IsFresh, IsFit
<1>17. CASE delta <= e.best_delta
  <2> DEFINE p == PickedAsKey(a, Len(a.frames) - 1, delta)
  <2>1. p \in EncType /\ p.keyframe = Len(a.frames) - 1
    BY <1>12, PickedIsSound
  <2>2. p.prev_canvas = a.prev_canvas /\ p.prev_candidate_undecided = TRUE
    BY <1>12, PickedView
  <2>3. g = [p EXCEPT !.prev_rect = k.frame.rect]
    <3>1. Len(a.frames) - 1 = Len(e.frames)
      BY <1>12 DEF EncType
    <3> QED BY <1>17, <3>1 DEF Compared, a
  <2>4. p.frames = PickedAsKey(a, Len(a.frames) - 1, delta).frames
    OBVIOUS
  <2> HIDE DEF p, g
  <2>5. /\ g \in EncType /\ g.frames = p.frames /\ g.keyframe = p.keyframe
        /\ g.prev_canvas = p.prev_canvas /\ g.prev_candidate_undecided = TRUE
    BY <1>9, <2>1, <2>2, <2>3 DEF EncType
  <2>6. EndsInKeyFrame(d, a, g, x, c.frame.rect, delta)
    BY <1>14, <1>15, <2>1, <2>2, <2>4, <2>5 DEF EndsInKeyFrame, b
  <2>7. Shows(caller, g, o) /\ LastInput(g.frames, o) = x.input /\ LastIsOpen(g)
    BY <1>5, <1>12, <1>16, <2>5, <2>6, KeyFrameShows
  <2>8. Taken(g, o, cur)
    BY <1>11, <2>7, AgreesWithItself DEF Taken
  <2>9. g.frames # <<>>
    <3>1. Len(g.frames) = Len(a.frames)
      BY <1>12, <2>4, <2>5, PickedIsSound
    <3>2. Len(g.frames) > 0
      BY <1>12, <3>1 DEF EncType
    <3> QED BY <3>2
  <2> QED BY <1>1, <1>4, <2>5, <2>8, <2>9, WindowClosedShows DEF g
<1>18. CASE ~(delta <= e.best_delta)
  <2>1. g = [a EXCEPT !.prev_candidate_undecided = FALSE]
    BY <1>18 DEF Compared, a
  <2> HIDE DEF g
  <2>2. /\ g \in EncType /\ g.frames = a.frames /\ g.keyframe = a.keyframe
        /\ g.prev_canvas = a.prev_canvas /\ g.prev_rect = a.prev_rect
        /\ g.prev_candidate_undecided = FALSE
    BY <1>12, <2>1 DEF EncType
  <2>3. EndsInSubFrame(d, g, x, c.frame.rect)
    BY <1>11, <1>14, <1>15, <2>2 DEF EndsInSubFrame, b
  <2>4. Shows(caller, g, o) /\ LastInput(g.frames, o) = x.input /\ LastIsOpen(g)
    BY <1>5, <1>16, <2>2, <2>3, SubFrameShows
  <2>5. Taken(g, o, cur)
    BY <1>11, <2>4, AgreesWithItself DEF Taken
  <2> QED BY <1>1, <1>4, <1>12, <2>2, <2>5, WindowClosedShows DEF g
<1> QED BY <1>17, <1>18

(* The first frame, over a canvas that is blank.                             *)
LEMMA CachedFirstShows ==
  ASSUME caller \in Callers, IsSteady(caller), NEW e \in EncType, NEW o, Quiet(e),
         e.is_first_frame = TRUE, o = NothingShown,
         Shows(caller, e, o), NEW method \in caller.methods,
         NEW cur \in caller.canvases, NEW f \in CachedFirst(e, method, cur)
  PROVE  Taken(f, o, cur)
<1>1. PICK k \in KeyFrames(e, method, cur) :
        f = [Added(e, Entry(NoFrame, k.frame, TRUE, cur), k.frame.rect)
               EXCEPT !.flush_count = 0, !.count_since_key_frame = 0,
                      !.prev_candidate_undecided = FALSE]
  BY DEF CachedFirst
<1>2. cur \in Canvas
  BY GivenCanvas
<1>3. k.frame \in SoundFrame /\ k.frame.rect \in Rects
  <2>1. e.is_first_frame \in BOOLEAN
    BY DEF EncType
  <2> QED BY <1>2, <2>1, KeyFramesAreSound DEF IsCandidate, SoundFrame, FrameType
<1>4. /\ e.frames = <<>> /\ e.keyframe = KeyframeNone
      /\ e.prev_canvas = Blank
  BY DEF Quiet, Untouched, Shows, LastInput, NothingShown
<1>5. /\ Makes(caller, k.frame, e.prev_canvas, cur)
      /\ k.frame.dispose = "none" /\ k.frame.blend = FALSE
  BY FirstFrameMakes
<1> DEFINE x == Entry(NoFrame, k.frame, TRUE, cur)
           a == Added(e, x, k.frame.rect)
<1>6. x \in SoundEntry
  BY <1>2, <1>3, FixedFrames, EntryIsSound
<1>7. /\ x.sub_frame = NoFrame /\ x.key_frame = k.frame /\ x.is_key_frame = TRUE
      /\ x.input = cur /\ NoFrame.dispose = "none" /\ Chosen(x) = k.frame
  BY DEF Entry, NoFrame, Frame, Chosen
<1> HIDE DEF x
<1>8. /\ a \in EncType /\ a.keyframe = KeyframeNone /\ a.prev_canvas = cur
      /\ a.prev_rect = k.frame.rect /\ Len(a.frames) = 1 /\ a.frames[1] = x
  <2>1. Len(e.frames) = 0 /\ 0 + 1 = 1
    BY <1>4
  <2>2. a \in EncType
    <3> HIDE DEF Added
    <3> QED BY <1>3, <1>6, AddedIsSound
  <2>3. /\ Len(a.frames) = Len(e.frames) + 1 /\ a.frames[Len(e.frames) + 1] = x
        /\ a.keyframe = e.keyframe /\ a.prev_canvas = x.input
        /\ a.prev_rect = k.frame.rect
    BY AddedAtTheEnd
  <2> HIDE DEF a
  <2> QED BY <1>4, <1>7, <2>1, <2>2, <2>3
<1> HIDE DEF a
<1>9. f = [a EXCEPT !.flush_count = 0, !.count_since_key_frame = 0,
                    !.prev_candidate_undecided = FALSE]
  BY <1>1 DEF a, x
<1>10. /\ f.frames = a.frames /\ f.keyframe = a.keyframe /\ f.prev_rect = a.prev_rect
       /\ f.prev_canvas = a.prev_canvas /\ f.prev_candidate_undecided = FALSE
  BY <1>8, <1>9 DEF EncType
<1>11. f.frames # <<>> /\ Len(f.frames) = 1 /\ f.frames[1] = x
  BY <1>8, <1>10
<1>12. LastInput(f.frames, o) = cur
  BY <1>7, <1>11 DEF LastInput
<1>13. Linked(caller, f.frames, f.keyframe, o)
  <2>1. Left(o.frame, o.input) = Blank
    BY DEF Left, NothingShown, NoFrame, Frame
  <2>2. \A g \in Forms(f.frames, f.keyframe, 1) : g = k.frame
    BY <1>7, <1>8, <1>10, <1>11 DEF Forms, KeyframeNone
  <2>3. \A b \in Lefts(f.frames, f.keyframe, o, 1) : b = Blank
    BY <2>1 DEF Lefts
  <2>4. Link(caller, f.frames, f.keyframe, o, 1)
    BY <1>4, <1>5, <1>7, <1>11, <2>2, <2>3 DEF Link
  <2> QED BY <1>11, <2>4 DEF Linked
<1>14. Stills(caller, f.frames, f.keyframe, o)
  <2>1. IsStill(caller, Chosen(f.frames[1]), f.frames[1].input)
    BY <1>4, <1>5, <1>7, <1>11 DEF IsStill
  <2>2. f.keyframe # 0
    BY <1>8, <1>10 DEF KeyframeNone
  <2>3. o.out_frame_count = 0
    BY DEF NothingShown
  <2> QED BY <2>1, <2>2, <2>3 DEF Stills
<1>15. LastIsOpen(f)
  <2>1. f.keyframe # Len(f.frames) - 1
    BY <1>8, <1>10, <1>11 DEF KeyframeNone
  <2> QED BY <1>5, <1>7, <1>8, <1>10, <1>11, <2>1 DEF LastIsOpen
<1>16. Shows(caller, f, o)
  BY <1>8, <1>10, <1>12, <1>13, <1>14 DEF Shows
<1> QED BY <1>12, <1>15, <1>16, AgreesWithItself DEF Taken

(* The canvas agrees with the last one, and is left out.                     *)
LEMMA SkippedShows ==
  ASSUME NEW e \in EncType, NEW o, Shows(caller, e, o), LastIsOpen(e), NEW cur,
         Agrees(caller, e.prev_canvas, cur)
  PROVE  Taken(Skipped(e), o, cur)
<1> DEFINE f == Skipped(e)
<1>1. /\ f.frames = e.frames /\ f.keyframe = e.keyframe /\ f.prev_canvas = e.prev_canvas
      /\ f.prev_rect = e.prev_rect
      /\ f.prev_candidate_undecided = e.prev_candidate_undecided
  BY DEF Skipped, EncType
<1> HIDE DEF f
<1> QED BY <1>1 DEF Taken, Shows, LastIsOpen, f

(* SetFrame and CacheFrame, on every path.                                   *)
LEMMA AcceptedShows ==
  ASSUME caller \in Callers, IsSteady(caller), NEW e \in EncType, NEW o,
         e.is_first_frame => Quiet(e), ~e.is_first_frame => Ready(e),
         Shows(caller, e, o), Open(e, o), NEW method \in caller.methods,
         NEW cur \in caller.canvases, NEW f \in Accepted(e, method, cur)
  PROVE  Taken(f, o, cur)
<1>1. CASE e.is_first_frame
  <2>1. e.is_first_frame = TRUE /\ o = NothingShown /\ Quiet(e)
    BY <1>1 DEF EncType, Open
  <2>2. f \in CachedFirst(e, method, cur)
    BY <1>1 DEF Accepted, Cached
  <2> QED BY <2>1, <2>2, CachedFirstShows
<1>2. CASE ~e.is_first_frame
  <2>0. LastIsOpen(e) /\ e.is_first_frame = FALSE /\ Ready(e)
    BY <1>2 DEF Open, EncType
  <2>1. \/ IsSkipped(e, method, cur) /\ f = Skipped(e)
        \/ ~MayBeKey(e) /\ f \in CachedAsSubFrame(e, method, cur)
        \/ MayBeKey(e) /\ f \in CachedAsEither(e, method, cur)
    BY <1>2 DEF Accepted, Cached
  <2>2. CASE IsSkipped(e, method, cur) /\ f = Skipped(e)
    <3>1. Agrees(caller, e.prev_canvas, cur)
      BY <2>0, <2>2, SkippedAgrees
    <3> QED BY <2>0, <2>2, <3>1, SkippedShows
  <2>3. CASE ~MayBeKey(e) /\ f \in CachedAsSubFrame(e, method, cur)
    BY <2>0, <2>3, CachedAsSubFrameShows
  <2>4. CASE MayBeKey(e) /\ f \in CachedAsEither(e, method, cur)
    BY <2>0, <2>4, CachedAsEitherShows
  <2> QED BY <2>1, <2>2, <2>3, <2>4
<1> QED BY <1>1, <1>2

(* The last frame stays open if its forms and the rectangle do.              *)
LEMMA SameFormsAreOpen ==
  ASSUME NEW e \in EncType, NEW f \in EncType, e.frames # <<>>,
         SameForms(e, f), SameMemory(e, f), LastIsOpen(e)
  PROVE  LastIsOpen(f)
<1> DEFINE n == Len(e.frames)
           x == e.frames[n]
           y == f.frames[n]
<1>1. n \in 1..Len(e.frames) /\ Len(f.frames) = n
  BY DEF EncType, SameForms
<1>2. /\ y.sub_frame = x.sub_frame /\ y.key_frame = x.key_frame
      /\ y.is_key_frame = x.is_key_frame
  BY <1>1 DEF SameForms, SameView
<1>3. Chosen(y) = Chosen(x)
  BY <1>2 DEF Chosen
<1> HIDE DEF x, y
<1> QED BY <1>1, <1>2, <1>3 DEF LastIsOpen, SameMemory, x, y

(* A pause leaves the screen as it is: the frame before it has not been      *)
(* asked to leave anything else.                                             *)
LEMMA PauseMakes ==
  ASSUME NEW c, NEW e \in EncType, e.frames # <<>>, KeyIsThere(e), LastIsOpen(e),
         NEW f, Len(f.frames) = Len(e.frames) + 1, f.keyframe = e.keyframe,
         \A j \in 1..Len(e.frames) : f.frames[j] = e.frames[j], NEW d, NEW o,
         f.frames[Len(e.frames) + 1] = Pause(d, e.frames[Len(e.frames)])
  PROVE  Link(c, f.frames, f.keyframe, o, Len(e.frames) + 1)
<1> DEFINE n == Len(e.frames)
           x == e.frames[n]
           p == Pause(d, x)
<1>1. /\ n \in 1..Len(e.frames) /\ n \in Nat /\ n # 0 /\ n + 1 - 1 = n /\ n + 1 # 1
      /\ e.keyframe # n /\ e.keyframe \in Int
  BY DEF EncType, KeyIsThere, KeyframeNone
<1>2. p.input = x.input /\ Chosen(p) = PauseFrame
  BY DEF Pause, Chosen
<1>3. f.frames[n] = x /\ f.frames[n + 1] = p
  BY <1>1
<1>4. \A g \in Forms(f.frames, f.keyframe, n + 1) : g = PauseFrame
  <2> HIDE DEF n, p
  <2> QED BY <1>1, <1>2, <1>3 DEF Forms
<1>5. \A g \in Forms(f.frames, f.keyframe, n) : g.dispose = "none"
  <2>1. x.sub_frame.dispose = "none" /\ x.key_frame.dispose = "none"
    BY DEF LastIsOpen
  <2> HIDE DEF n, x
  <2> QED BY <1>3, <2>1 DEF Forms, Chosen
<1>6. \A b \in Lefts(f.frames, f.keyframe, o, n + 1) : b = x.input
  <2> HIDE DEF n, x
  <2> QED BY <1>1, <1>3, <1>5 DEF Lefts, Left
<1>7. Makes(c, PauseFrame, x.input, x.input)
  <2>1. \A q \in Pixels : LeavesPixel(PauseFrame, q)
    BY DEF LeavesPixel, PauseFrame, Frame, Blank
  <2> QED BY <2>1 DEF Makes, Agree
<1> HIDE DEF n, x, p
<1>8. Link(c, f.frames, f.keyframe, o, n + 1)
  BY <1>2, <1>3, <1>4, <1>6, <1>7 DEF Link
<1> QED BY <1>8 DEF n

(* A pause is open: its pixel is the rectangle remembered.                   *)
LEMMA PauseIsOpen ==
  ASSUME NEW e \in EncType, NEW f, Len(f.frames) = Len(e.frames) + 1, f.frames # <<>>,
         KeyIsThere(e), e.frames # <<>>, f.keyframe = e.keyframe, NEW d, NEW x,
         f.frames[Len(e.frames) + 1] = Pause(d, x), f.prev_rect = OnePixel,
         f.prev_candidate_undecided = FALSE
  PROVE  LastIsOpen(f)
<1> DEFINE p == Pause(d, x)
           n == Len(e.frames)
<1>1. /\ p.sub_frame = PauseFrame /\ p.key_frame = NoFrame /\ Chosen(p) = PauseFrame
      /\ PauseFrame.dispose = "none" /\ NoFrame.dispose = "none"
      /\ PauseFrame.rect = OnePixel
  BY DEF Pause, Chosen, PauseFrame, NoFrame, Frame
<1>2. n \in Nat /\ n + 1 - 1 = n /\ e.keyframe # n
  BY DEF EncType, KeyIsThere, KeyframeNone
<1> HIDE DEF p, n
<1> QED BY <1>1, <1>2 DEF LastIsOpen, p, n

(* A longer duration, or a pause, shows what was shown.                      *)
LEMMA IncreaseShows ==
  ASSUME NEW c, NEW e \in EncType, e.frames # <<>>, KeyIsThere(e),
         NEW d \in 0..MaxDuration - 1, NEW o, Shows(c, e, o), LastIsOpen(e)
  PROVE  LET f == IncreasePreviousDuration(e, d)
         IN Shows(c, f, o) /\ LastIsOpen(f) /\ EndsAs(e, o, f, o)
<1> DEFINE n == Len(e.frames)
           x == e.frames[n]
           sum == x.duration + d
           f == IncreasePreviousDuration(e, d)
<1>1. e.frames \in Seq(SoundEntry) /\ n \in 1..Len(e.frames) /\ n \in Nat
  BY DEF EncType
<1>2. x \in SoundEntry /\ f \in EncType
  BY <1>1, IncreaseIsSound
<1>3. CASE sum < MaxDuration
  <2> DEFINE y == [x EXCEPT !.duration = sum]
             fs == [e.frames EXCEPT ![n] = y]
  <2>1. f = [e EXCEPT !.frames = fs]
    <3>1. f = [e EXCEPT !.frames[n].duration = sum]
      BY <1>3 DEF IncreasePreviousDuration
    <3>2. fs = [e.frames EXCEPT ![n].duration = sum]
      BY <1>1, <1>2 DEF SoundEntry
    <3> QED BY <3>1, <3>2 DEF EncType
  <2>2. SameView(x, y) /\ y.is_key_frame = x.is_key_frame
    BY <1>2 DEF SoundEntry, SameView
  <2> HIDE DEF y
  <2>3. Len(fs) = n /\ fs[n] = y /\ \A j \in 1..n - 1 : fs[j] = e.frames[j]
    BY <1>1
  <2> HIDE DEF fs, f
  <2>4. f.frames = fs /\ SameMemory(e, f)
    BY <1>2, <2>1 DEF EncType, SameMemory
  <2>5. SameForms(e, f)
    <3>1. \A j \in 1..n : SameView(e.frames[j], fs[j])
                          /\ fs[j].is_key_frame = e.frames[j].is_key_frame
      <4>1. ASSUME NEW j \in 1..n - 1
            PROVE  SameView(e.frames[j], fs[j])
                   /\ fs[j].is_key_frame = e.frames[j].is_key_frame
        BY <2>3, <4>1 DEF SameView
      <4> QED BY <1>1, <2>2, <2>3, <4>1
    <3> QED BY <2>3, <2>4, <3>1 DEF SameForms
  <2>6. f.keyframe = e.keyframe /\ f.prev_canvas = e.prev_canvas
    BY <2>4 DEF SameMemory
  <2>7. Shows(c, f, o) /\ EndsAs(e, o, f, o)
    BY <1>2, <2>5, <2>6, SameFormsShow
  <2>8. LastIsOpen(f)
    BY <1>2, <2>4, <2>5, SameFormsAreOpen
  <2> QED BY <2>7, <2>8 DEF f
<1>4. CASE ~(sum < MaxDuration)
  <2> DEFINE p == Pause(d, x)
  <2>1. f = [e EXCEPT !.frames = Append(e.frames, p),
               !.count_since_key_frame = e.count_since_key_frame + 1,
               !.flush_count = n, !.prev_candidate_undecided = FALSE,
               !.prev_rect = OnePixel]
    BY <1>4 DEF IncreasePreviousDuration
  <2> HIDE DEF f
  <2>2. /\ f.frames = Append(e.frames, p) /\ f.keyframe = e.keyframe
        /\ f.prev_canvas = e.prev_canvas /\ f.prev_rect = OnePixel
        /\ f.prev_candidate_undecided = FALSE
    BY <2>1 DEF EncType
  <2>3. p.input = x.input
    BY DEF Pause
  <2> HIDE DEF p
  <2>4. /\ Len(f.frames) = n + 1 /\ f.frames[n + 1] = p /\ f.frames # <<>>
        /\ \A j \in 1..n : f.frames[j] = e.frames[j]
    BY <1>1, <2>2
  <2>5. Link(c, f.frames, f.keyframe, o, n + 1)
    BY <2>2, <2>4, PauseMakes DEF p
  <2>6. Kept(e.frames, e.keyframe, f.frames, f.keyframe, n)
    BY <2>2, <2>4, SameFormsAreKept DEF SameView
  <2>7. LastInput(e.frames, o) = x.input /\ e.prev_canvas = x.input
    BY DEF LastInput, Shows
  <2>8. LongerByAFrame(c, e, f, o)
    BY <2>2, <2>3, <2>4, <2>5, <2>6, <2>7 DEF LongerByAFrame
  <2>9. Shows(c, f, o) /\ LastInput(f.frames, o) = f.prev_canvas
    BY <1>2, <2>8, GrownShows DEF f
  <2>10. EndsAs(e, o, f, o)
    BY <2>2, <2>7, <2>9 DEF EndsAs
  <2>11. LastIsOpen(f)
    BY <2>2, <2>4, PauseIsOpen DEF p
  <2> QED BY <2>9, <2>10, <2>11 DEF f
<1> QED BY <1>3, <1>4

(* The frames are linked to the screen, and the last of them shows s.        *)
Held(e, o, s) == Shows(caller, e, o) /\ Agrees(caller, LastInput(e.frames, o), s)

(* The muxer may fail after any of the frames.                               *)
LEMMA PushedHolds ==
  ASSUME caller \in Callers, IsSteady(caller), NEW e \in EncType, NEW o \in OutType,
         InBounds(e), NEW n \in 0..e.flush_count, NEW s, Held(e, o, s)
  PROVE  LET p == Pushed(State(e, o), n) IN Held(p.enc, p.out, s)
<1> DEFINE p == Pushed(State(e, o), n)
<1>1. /\ KeyIsThere(e) /\ e.flush_count <= Len(e.frames) /\ n \in 0..Len(e.frames)
  BY DEF InBounds, EncType
<1>2. Rests(e, p.enc, o, p.out, n)
  BY <1>1, PushedRests
<1> HIDE DEF p
<1>3. Shows(caller, p.enc, p.out) /\ LastInput(p.enc.frames, p.out) = LastInput(e.frames, o)
  BY <1>1, <1>2, RestShows DEF Held
<1> QED BY <1>3 DEF Held, p

LEMMA FlushedHolds ==
  ASSUME caller \in Callers, IsSteady(caller), NEW e \in EncType, NEW o \in OutType,
         InBounds(e), NEW s, Held(e, o, s)
  PROVE  LET p == FlushFrames(State(e, o))
         IN Held(p.enc, p.out, s) /\ (LastIsOpen(e) => LastIsOpen(p.enc))
<1> DEFINE p == FlushFrames(State(e, o))
           n == e.flush_count
<1>1. KeyIsThere(e) /\ n <= Len(e.frames) /\ n \in 0..Len(e.frames)
  BY DEF InBounds, EncType
<1>2. Rests(e, p.enc, o, p.out, n)
  BY <1>1, FlushRests
<1> HIDE DEF p, n
<1>3. Shows(caller, p.enc, p.out) /\ LastInput(p.enc.frames, p.out) = LastInput(e.frames, o)
  BY <1>1, <1>2, RestShows DEF Held
<1>4. LastIsOpen(e) => LastIsOpen(p.enc)
  BY <1>1, <1>2, RestIsOpen
<1> QED BY <1>3, <1>4 DEF Held, p

(* The beginning of each call keeps what is shown.                           *)
LEMMA LengthenedHolds ==
  ASSUME NEW e \in EncType, e.frames # <<>>, KeyIsThere(e), NEW d \in 0..MaxDuration - 1,
         NEW o, NEW s, Held(e, o, s), LastIsOpen(e)
  PROVE  LET f == IncreasePreviousDuration(e, d) IN Held(f, o, s) /\ LastIsOpen(f)
<1> DEFINE f == IncreasePreviousDuration(e, d)
<1>1. Shows(caller, f, o) /\ LastIsOpen(f) /\ EndsAs(e, o, f, o)
  BY IncreaseShows DEF Held
<1> HIDE DEF f
<1> QED BY <1>1 DEF Held, EndsAs, f

(* Pauses and the flush before the frame change nothing of it.               *)
LEMMA StartedHolds ==
  ASSUME StateInv, MayAdd, NEW t \in Int, Timely(t), IsSteady(caller),
         Held(enc, out, seen), IsQuiet => Open(enc, out)
  PROVE  Held(Started(t).enc, Started(t).out, seen) /\ Open(Started(t).enc, Started(t).out)
<1> DEFINE s == Started(t)
<1>1. /\ caller \in Callers /\ enc \in EncType /\ out \in OutType /\ InBounds(enc)
      /\ Quiet(enc) /\ Open(enc, out)
  BY DEF StateInv, IsQuiet, MayAdd, MayCall
<1>2. CASE enc.is_first_frame
  BY <1>1, <1>2 DEF Started, State
<1>3. CASE ~enc.is_first_frame
  <2> DEFINE d == t - enc.prev_timestamp
             f == IncreasePreviousDuration(enc, d)
  <2>1. enc.frames # <<>> /\ d \in 0..MaxDuration - 1 /\ KeyIsThere(enc)
    BY <1>1, <1>3 DEF Quiet, Timely, InBounds
  <2>2. f \in EncType /\ InBounds(f)
    BY <1>1, <2>1, IncreasedInBounds
  <2>3. Held(f, out, seen) /\ LastIsOpen(f)
    BY <1>1, <2>1, LengthenedHolds DEF Open
  <2> HIDE DEF f
  <2>4. Lengthened(t) = State(f, out)
    BY DEF Lengthened, f
  <2>5. s = FlushFrames(State(f, out)) \/ s = State(f, out)
    BY <1>3, <2>4 DEF Started, State
  <2>6. Held(s.enc, s.out, seen) /\ LastIsOpen(s.enc)
    <3>1. CASE s = State(f, out)
      BY <2>3, <3>1 DEF State
    <3>2. CASE s = FlushFrames(State(f, out))
      <4> DEFINE p == FlushFrames(State(f, out))
      <4>1. Held(p.enc, p.out, seen) /\ LastIsOpen(p.enc)
        BY <1>1, <2>2, <2>3, FlushedHolds
      <4> HIDE DEF p, s
      <4> QED BY <3>2, <4>1 DEF p
    <3> QED BY <2>5, <3>1, <3>2
  <2>7. ~s.enc.is_first_frame
    BY <1>3, StartedIsReady DEF Ready
  <2> HIDE DEF s
  <2> QED BY <2>6, <2>7 DEF Open, s
<1> QED BY <1>2, <1>3

(* Counters and times do not matter to it.                                   *)
LEMMA SameIsHeld ==
  ASSUME NEW e, NEW f, NEW o, NEW s, Held(e, o, s), f.frames = e.frames,
         f.keyframe = e.keyframe, f.prev_canvas = e.prev_canvas
  PROVE  Held(f, o, s)
BY DEF Held, Shows

LEMMA ShownAfter ==
  ASSUME NEW e, NEW o, NEW s, Held(e, o, s), enc' = e, out' = o, seen' = s,
         UNCHANGED caller, IsQuiet' => Open(e, o)
  PROVE  ShownInv'
BY DEF ShownInv, Held

(* A canvas that is taken becomes the one the last frame shows.              *)
LEMMA AddHolds ==
  ASSUME StateInv, IsSteady(caller), NEW t \in Times, NEW cur \in caller.canvases,
         NEW method \in caller.methods, Add(cur, method, t), ShownInv
  PROVE  ShownInv'
<1> DEFINE s == Started(t)
<1>1. /\ caller \in Callers /\ cur \in Canvas /\ MayAdd /\ Timely(t) /\ t \in Int
  BY GivenCanvas, TimeIsInt DEF StateInv, Add
<1>2. Begun(t) /\ Held(s.enc, s.out, seen) /\ Open(s.enc, s.out)
  BY <1>1, EachCallBegins, StartedHolds DEF ShownInv, Held
<1>3. PICK e \in Accepted(s.enc, method, cur) :
        Return([FlushFrames(State(e, s.out)) EXCEPT !.enc.prev_timestamp = t], "ok")
  BY DEF Add
<1>4. /\ s.enc \in EncType /\ s.out \in OutType
      /\ s.enc.is_first_frame => Quiet(s.enc)
      /\ ~s.enc.is_first_frame => Ready(s.enc)
  BY <1>2 DEF Begun
<1> HIDE DEF s
<1>5. e \in EncType /\ Filled(e)
  BY <1>1, <1>4, AcceptedIsSound
<1>6. Held(e, s.out, cur) /\ LastIsOpen(e)
  BY <1>1, <1>2, <1>4, AcceptedShows DEF Held, Taken
<1>7. InBounds(e)
  <2>1. e.flush_count \in Nat /\ Len(e.frames) \in Nat
    BY <1>5 DEF EncType
  <2> QED BY <1>5, <2>1 DEF Filled, InBounds
<1> DEFINE p == FlushFrames(State(e, s.out))
<1>8. p = State(p.enc, p.out) /\ p.enc \in EncType /\ ~p.enc.is_first_frame
  BY <1>1, <1>4, <1>5, FilledIsFlushed DEF Calm
<1>9. Held(p.enc, p.out, cur) /\ LastIsOpen(p.enc)
  BY <1>1, <1>4, <1>5, <1>6, <1>7, FlushedHolds
<1> HIDE DEF p
<1> DEFINE f == [p.enc EXCEPT !.prev_timestamp = t]
<1>10. enc' = f /\ out' = p.out /\ UNCHANGED caller /\ seen' = cur
  <2>1. [p EXCEPT !.enc.prev_timestamp = t] = State(f, p.out)
    BY <1>8 DEF State
  <2> QED BY <1>3, <2>1 DEF Return, State, p, Add
<1>11. /\ f.frames = p.enc.frames /\ f.keyframe = p.enc.keyframe
       /\ f.prev_canvas = p.enc.prev_canvas /\ f.prev_rect = p.enc.prev_rect
       /\ f.prev_candidate_undecided = p.enc.prev_candidate_undecided
       /\ f.is_first_frame = p.enc.is_first_frame
  BY <1>8 DEF EncType
<1> HIDE DEF f
<1>12. Held(f, p.out, cur)
  BY <1>9, <1>11, SameIsHeld
<1>13. Open(f, p.out)
  BY <1>8, <1>9, <1>11 DEF Open, LastIsOpen
<1> QED BY <1>10, <1>12, <1>13, ShownAfter

(* WebPEncode fails: the last frame may have been asked for                  *)
(* something else.                                                           *)
LEMMA AddFailsHolds ==
  ASSUME StateInv, IsSteady(caller), NEW t \in Times, NEW cur \in caller.canvases,
         NEW method \in caller.methods, AddFails(cur, method, t), ShownInv
  PROVE  ShownInv'
<1> DEFINE s == Started(t)
<1>1. /\ caller \in Callers /\ cur \in Canvas /\ MayAdd /\ Timely(t) /\ t \in Int
  BY GivenCanvas, TimeIsInt DEF StateInv, AddFails
<1>2. Begun(t) /\ Held(s.enc, s.out, seen)
  BY <1>1, EachCallBegins, StartedHolds DEF ShownInv, Held
<1>3. PICK e \in EncodingFailed(s.enc, method, cur) : Return(State(e, s.out), "error")
  BY DEF AddFails
<1>4. s.enc \in EncType /\ s.out \in OutType /\ (~s.enc.is_first_frame => s.enc.frames # <<>>)
  BY <1>2 DEF Begun, Ready
<1> HIDE DEF s
<1>5. Held(e, s.out, seen)
  <2>1. CASE e = s.enc
    BY <1>2, <2>1
  <2>2. CASE e # s.enc
    <3>1. PICK c \in SubFrames(s.enc, method, cur) :
            e = [WithPreviousDispose(s.enc, c.dispose) EXCEPT !.prev_rect = c.frame.rect]
      BY <2>2 DEF EncodingFailed
    <3>2. s.enc.frames # <<>>
      BY <1>4, <2>2 DEF EncodingFailed
    <3>3. c.dispose \in {"none", "background"}
      BY <1>1, SubFramesAreSound DEF IsCandidate
    <3> DEFINE d == WithPreviousDispose(s.enc, c.dispose)
    <3>4. d \in EncType
      BY <1>4, <3>2, <3>3, PreviousDisposeIsSound
    <3>5. DisposedAs(s.enc, d, c.dispose)
      BY <1>4, <3>2, DisposeAsks
    <3> HIDE DEF d
    <3>6. Shows(caller, d, s.out) /\ EndsAs(s.enc, s.out, d, s.out)
      BY <1>2, <1>4, <3>2, <3>4, <3>5, DisposedShows DEF Held
    <3>7. Held(d, s.out, seen)
      BY <1>2, <3>6 DEF Held, EndsAs
    <3>8. /\ e.frames = d.frames /\ e.keyframe = d.keyframe
          /\ e.prev_canvas = d.prev_canvas
      BY <3>1, <3>4 DEF EncType, d
    <3> QED BY <3>7, <3>8, SameIsHeld
  <2> QED BY <2>1, <2>2
<1>6. enc' = e /\ out' = s.out /\ seen' = seen /\ UNCHANGED caller /\ ret' = "error"
  BY <1>3 DEF Return, State, AddFails
<1> QED BY <1>5, <1>6, ShownAfter DEF IsQuiet

(* The muxer fails: the canvas has been taken.                               *)
LEMMA AddIsNotMuxedHolds ==
  ASSUME StateInv, IsSteady(caller), NEW t \in Times, NEW cur \in caller.canvases,
         NEW method \in caller.methods, AddIsNotMuxed(cur, method, t), ShownInv
  PROVE  ShownInv'
<1> DEFINE s == Started(t)
<1>1. /\ caller \in Callers /\ cur \in Canvas /\ MayAdd /\ Timely(t) /\ t \in Int
  BY GivenCanvas, TimeIsInt DEF StateInv, AddIsNotMuxed
<1>2. Begun(t) /\ Held(s.enc, s.out, seen) /\ Open(s.enc, s.out)
  BY <1>1, EachCallBegins, StartedHolds DEF ShownInv, Held
<1>3. PICK e \in Accepted(s.enc, method, cur) : \E n \in 0..e.flush_count - 1 :
        Return(Pushed(State(e, s.out), n), "error")
  BY DEF AddIsNotMuxed
<1>4. PICK n \in 0..e.flush_count - 1 : Return(Pushed(State(e, s.out), n), "error")
  BY <1>3
<1>5. /\ s.enc \in EncType /\ s.out \in OutType
      /\ s.enc.is_first_frame => Quiet(s.enc)
      /\ ~s.enc.is_first_frame => Ready(s.enc)
  BY <1>2 DEF Begun
<1> HIDE DEF s
<1>6. e \in EncType /\ Filled(e)
  BY <1>1, <1>5, AcceptedIsSound
<1>7. Held(e, s.out, cur)
  BY <1>1, <1>2, <1>5, AcceptedShows DEF Held, Taken
<1>8. InBounds(e) /\ n \in 0..e.flush_count
  <2>1. e.flush_count \in Nat /\ Len(e.frames) \in Nat
    BY <1>6 DEF EncType
  <2> QED BY <1>6, <2>1 DEF Filled, InBounds
<1> DEFINE p == Pushed(State(e, s.out), n)
<1>9. Held(p.enc, p.out, cur)
  BY <1>1, <1>5, <1>6, <1>7, <1>8, PushedHolds
<1>10. enc' = p.enc /\ out' = p.out /\ seen' = cur /\ UNCHANGED caller /\ ret' = "error"
  BY <1>4 DEF Return, AddIsNotMuxed
<1> HIDE DEF p
<1> QED BY <1>9, <1>10, ShownAfter DEF IsQuiet

(* What fails before the canvas is looked at.                                *)
LEMMA RefusalsHold ==
  ASSUME StateInv, IsSteady(caller), NEW t \in Times, ShownInv,
         PauseIsNotMuxed(t) \/ AddRefused(t) \/ AddTooLate(t)
  PROVE  ShownInv'
<1>1. /\ caller \in Callers /\ enc \in EncType /\ out \in OutType /\ InBounds(enc) /\ t \in Int
      /\ Held(enc, out, seen)
  BY TimeIsInt DEF StateInv, ShownInv, Held
<1>2. ret' = "error" /\ seen' = seen /\ UNCHANGED caller
  BY DEF PauseIsNotMuxed, AddRefused, AddTooLate, Return
<1>3. CASE PauseIsNotMuxed(t)
  <2> DEFINE d == t - enc.prev_timestamp
             f == IncreasePreviousDuration(enc, d)
  <2>1. /\ Quiet(enc) /\ ~enc.is_first_frame /\ d \in 0..MaxDuration - 1
        /\ enc.frames # <<>> /\ KeyIsThere(enc) /\ LastIsOpen(enc)
    BY <1>3 DEF PauseIsNotMuxed, StateInv, IsQuiet, MayAdd, MayCall, Timely, Quiet, InBounds,
                ShownInv, Open
  <2>2. f \in EncType /\ InBounds(f)
    BY <1>1, <2>1, IncreasedInBounds
  <2>3. Held(f, out, seen)
    BY <1>1, <2>1, LengthenedHolds
  <2>4. Lengthened(t) = State(f, out)
    BY DEF Lengthened
  <2> HIDE DEF f
  <2>5. PICK n \in 0..f.flush_count - 1 : Return(Pushed(State(f, out), n), "error")
    BY <1>3, <2>4 DEF PauseIsNotMuxed, State
  <2>6. n \in 0..f.flush_count
    BY <2>2 DEF EncType
  <2> DEFINE p == Pushed(State(f, out), n)
  <2>7. Held(p.enc, p.out, seen)
    BY <1>1, <2>2, <2>3, <2>6, PushedHolds
  <2>8. enc' = p.enc /\ out' = p.out
    BY <2>5 DEF Return
  <2> HIDE DEF p
  <2> QED BY <1>2, <2>7, <2>8, ShownAfter DEF IsQuiet
<1>4. CASE AddRefused(t)
  <2> DEFINE s == Started(t)
  <2>1. Held(s.enc, s.out, seen)
    BY <1>1, <1>4, StartedHolds DEF AddRefused, ShownInv
  <2>2. enc' = s.enc /\ out' = s.out
    BY <1>4 DEF AddRefused, Return
  <2> HIDE DEF s
  <2> QED BY <1>2, <2>1, <2>2, ShownAfter DEF IsQuiet
<1>5. CASE AddTooLate(t)
  <2>1. enc' = enc /\ out' = out
    BY <1>5 DEF AddTooLate, Return, State
  <2> QED BY <1>1, <1>2, <2>1, ShownAfter DEF IsQuiet
<1> QED BY <1>3, <1>4, <1>5

(* The last duration.                                                        *)
LEMMA AddNullHolds ==
  ASSUME StateInv, IsSteady(caller), NEW t \in Times, AddNull(t), ShownInv
  PROVE  ShownInv'
<1> DEFINE s == Started(t)
<1>1. MayAdd /\ Timely(t) /\ t \in Int /\ seen' = seen
  BY TimeIsInt DEF AddNull
<1>2. Held(s.enc, s.out, seen)
  BY <1>1, StartedHolds DEF ShownInv, Held
<1> HIDE DEF s
<1>3. /\ enc'.frames = s.enc.frames /\ enc'.keyframe = s.enc.keyframe
      /\ enc'.prev_canvas = s.enc.prev_canvas /\ enc'.got_null_frame = TRUE
      /\ out' = s.out /\ UNCHANGED caller
  BY NullGiven DEF s
<1>4. Held(enc', s.out, seen)
  BY <1>2, <1>3, SameIsHeld
<1> QED BY <1>1, <1>3, <1>4, ShownAfter DEF IsQuiet

(* A frame that is alone is a still: it needs nothing but a blank canvas.    *)
LEMMA StillHolds ==
  ASSUME NEW e, NEW o \in OutType, NEW s, Held(e, o, s), o.out_frame_count = 1
  PROVE  Held(e, AsStill(o), s)
<1> DEFINE q == AsStill(o)
<1>1. /\ q.frame = o.frame /\ q.input = o.input
      /\ q.out_frame_count = 1
      /\ q.canvas = [p \in Pixels |-> IF p \in Span(o.frame.rect)
                                      THEN o.frame.pixels[p] ELSE Clear]
  BY DEF AsStill, OutType
<1> HIDE DEF q
<1>2. IsStill(caller, o.frame, o.input)
  BY DEF Held, Shows, Stills
<1>3. Agrees(caller, q.canvas, q.input)
  <2>1. ASSUME NEW p \in Pixels PROVE Agree(caller, q.canvas[p], q.input[p])
    <3>1. CASE LeavesPixel(o.frame, p) /\ Agree(caller, Blank[p], o.input[p])
      <4>1. q.canvas[p] = Clear /\ Blank[p] = Clear
        BY <1>1, <1>2, <3>1 DEF LeavesPixel, IsStill, Blank
      <4> QED BY <1>1, <3>1, <4>1
    <3>2. CASE SetsPixel(o.frame, p, o.input[p])
      BY <1>1, <3>2 DEF SetsPixel, Agree
    <3> QED BY <1>2, <3>1, <3>2 DEF IsStill, Makes
  <2> QED BY <2>1 DEF Agrees
<1>4. \A fs, k : Linked(caller, fs, k, o) => Linked(caller, fs, k, q)
  BY <1>1 DEF Linked, Link, Lefts
<1>5. Stills(caller, e.frames, e.keyframe, q)
  BY <1>1, <1>2 DEF Stills
<1>6. LastInput(e.frames, q) = LastInput(e.frames, o)
  BY <1>1 DEF LastInput
<1> QED BY <1>3, <1>4, <1>5, <1>6 DEF Held, Shows, q

(* What is due for the assembly shows the canvas taken last.                 *)
LEMMA DueHolds ==
  ASSUME StateInv, MayCall, enc.in_frame_count > 0, ShownInv
  PROVE  Held(Due.enc, out, seen)
<1>1. /\ caller \in Callers /\ out \in OutType /\ enc \in EncType /\ InBounds(enc)
      /\ enc.in_frame_count \in Nat /\ enc.prev_timestamp \in Nat
      /\ Held(enc, out, seen)
  BY DEF StateInv, EncType, ShownInv, Held
<1>2. PICK e \in EncType : Due = State(e, out) /\ Due.enc = e
  BY DueIsSound
<1>3. CASE ~enc.got_null_frame /\ enc.in_frame_count > 1 /\ enc.frames # <<>>
  <2> DEFINE f == IncreasePreviousDuration(enc, AverageDuration)
  <2>1. Quiet(enc) /\ LastIsOpen(enc) /\ KeyIsThere(enc)
    BY <1>3 DEF StateInv, IsQuiet, MayCall, InBounds, ShownInv, Open
  <2>2. ~enc.is_first_frame
    BY <1>3, <2>1 DEF Quiet, Untouched
  <2>3. /\ enc.prev_timestamp <= (enc.in_frame_count - 1) * (MaxDuration - 1)
        /\ MaxDuration - 1 \in Nat
    BY <2>1, <2>2, EncoderAssumption DEF Quiet
  <2>4. AverageDuration \in 0..MaxDuration - 1
    BY <1>1, <1>3, <2>3, AverageIsADuration DEF AverageDuration
  <2>5. f \in EncType /\ Held(f, out, seen)
    BY <1>1, <1>3, <2>1, <2>4, IncreaseIsSound, LengthenedHolds
  <2>6. Due = State([f EXCEPT !.flush_count = Len(f.frames)], out)
    BY <1>3 DEF Due
  <2> HIDE DEF f
  <2>7. /\ e.frames = f.frames /\ e.keyframe = f.keyframe
        /\ e.prev_canvas = f.prev_canvas
    BY <1>2, <2>5, <2>6 DEF State, EncType
  <2> QED BY <1>2, <2>5, <2>7, SameIsHeld
<1>4. CASE ~(~enc.got_null_frame /\ enc.in_frame_count > 1 /\ enc.frames # <<>>)
  <2>1. Due = State([enc EXCEPT !.flush_count = Len(enc.frames)], out)
    BY <1>4 DEF Due
  <2>2. /\ e.frames = enc.frames /\ e.keyframe = enc.keyframe
        /\ e.prev_canvas = enc.prev_canvas
    BY <1>1, <1>2, <2>1 DEF State, EncType
  <2> QED BY <1>1, <1>2, <2>2, SameIsHeld
<1> QED BY <1>3, <1>4

(* The assembly, with a still or without, and its failures.                  *)
LEMMA AssemblyHolds ==
  ASSUME StateInv, IsSteady(caller), Assemble \/ AssembleFails, ShownInv
  PROVE  ShownInv'
<1>1. /\ MayCall /\ enc.in_frame_count > 0 /\ UNCHANGED caller /\ seen' = seen
      /\ ret' \in {"assembled", "error"}
  BY DEF Assemble, AssembleFails, Return
<1>2. caller \in Callers /\ out \in OutType
  BY DEF StateInv
<1>3. PICK e \in EncType : Due = State(e, out) /\ Due.enc = e /\ InBounds(e)
  BY <1>1, DueIsSound
<1>4. Held(e, out, seen)
  BY <1>1, <1>3, DueHolds
<1>5. CASE Assemble
  <2> DEFINE p == FlushFrames(State(e, out))
  <2>1. p = State(p.enc, p.out) /\ p.enc \in EncType /\ p.out \in OutType
    BY <1>2, <1>3, FlushInBounds
  <2>2. Held(p.enc, p.out, seen)
    BY <1>2, <1>3, <1>4, FlushedHolds
  <2> HIDE DEF p
  <2>3. \/ Return(p, "assembled")
        \/ p.out.out_frame_count = 1 /\ Return([p EXCEPT !.out = AsStill(@)], "assembled")
    BY <1>3, <1>5 DEF Assemble, p
  <2>4. CASE Return(p, "assembled")
    <3>1. enc' = p.enc /\ out' = p.out
      BY <2>4 DEF Return
    <3> QED BY <1>1, <2>2, <3>1, ShownAfter DEF IsQuiet
  <2>5. CASE p.out.out_frame_count = 1 /\ Return([p EXCEPT !.out = AsStill(@)], "assembled")
    <3>1. [p EXCEPT !.out = AsStill(@)] = State(p.enc, AsStill(p.out))
      BY <2>1 DEF State
    <3>2. enc' = p.enc /\ out' = AsStill(p.out)
      BY <2>5, <3>1 DEF Return, State
    <3>3. Held(p.enc, AsStill(p.out), seen)
      BY <2>1, <2>2, <2>5, StillHolds
    <3> QED BY <1>1, <3>2, <3>3, ShownAfter DEF IsQuiet
  <2> QED BY <2>3, <2>4, <2>5
<1>6. CASE AssembleFails
  <2>1. PICK n \in 0..e.flush_count : Return(Pushed(State(e, out), n), "error")
    BY <1>3, <1>6 DEF AssembleFails
  <2> DEFINE p == Pushed(State(e, out), n)
  <2>2. Held(p.enc, p.out, seen)
    BY <1>2, <1>3, <1>4, PushedHolds
  <2>3. enc' = p.enc /\ out' = p.out
    BY <2>1 DEF Return
  <2> HIDE DEF p
  <2> QED BY <1>1, <2>2, <2>3, ShownAfter DEF IsQuiet
<1> QED BY <1>5, <1>6

(* A new encoder shows a blank canvas.                                       *)
LEMMA NewIsHeld ==
  /\ Held(NewEncoder, NothingShown, Blank) /\ Open(NewEncoder, NothingShown)
<1>1. /\ NewEncoder.frames = <<>> /\ NewEncoder.prev_canvas = Blank
      /\ NothingShown.canvas = Blank /\ NothingShown.input = Blank
      /\ NothingShown.out_frame_count = 0
  BY DEF NewEncoder, NothingShown
<1>2. Linked(caller, NewEncoder.frames, NewEncoder.keyframe, NothingShown)
  <2>1. Len(NewEncoder.frames) = 0
    BY <1>1
  <2> QED BY <2>1 DEF Linked
<1>3. Stills(caller, NewEncoder.frames, NewEncoder.keyframe, NothingShown)
  BY <1>1 DEF Stills
<1>4. LastInput(NewEncoder.frames, NothingShown) = Blank
  BY <1>1 DEF LastInput
<1>5. Agrees(caller, Blank, Blank)
  BY AgreesWithItself
<1>6. Held(NewEncoder, NothingShown, Blank)
  BY <1>1, <1>2, <1>3, <1>4, <1>5 DEF Held, Shows
<1>7. Open(NewEncoder, NothingShown)
  BY <1>1 DEF Open, LastIsOpen
<1> QED BY <1>6, <1>7

(* What is linked is shown, each frame and the last canvas that was taken.   *)
LEMMA HeldIsShown ==
  ASSUME StateInv, IsSteady(caller), ShownInv
  PROVE  ShowsTheInput
<1> DEFINE n == Len(enc.frames)
<1>1. /\ out \in OutType /\ enc.frames \in Seq(SoundEntry) /\ n \in Nat /\ n \in 0..n
  BY DEF StateInv, EncType
<1>2. \A i \in 0..n : PlayedTo(caller, out, enc.frames, i)
  BY <1>1, LinkedIsShown DEF ShownInv, Shows
<1>3. \A i \in 0..n : Agrees(caller, Coming[i].canvas, Coming[i].input)
  BY <1>2 DEF PlayedTo, Coming
<1>4. Agrees(caller, Coming[n].input, seen)
  <2>1. Coming[n].input = LastInput(enc.frames, out)
    <3>1. CASE enc.frames = <<>>
      <4>1. n = 0
        BY <3>1
      <4>2. Coming[0] = out
        BY <1>1, EachScreen DEF Coming
      <4> QED BY <3>1, <4>1, <4>2 DEF LastInput
    <3>2. CASE enc.frames # <<>>
      <4>1. n - 1 \in Nat /\ n - 1 < n /\ n - 1 + 1 = n
        BY <1>1, <3>2
      <4>2. Coming[n].input = enc.frames[n].input
        BY <1>1, <4>1, EachPlayed DEF Coming
      <4> QED BY <3>2, <4>2 DEF LastInput
    <3> QED BY <3>1, <3>2
  <2> QED BY <2>1 DEF ShownInv
<1>5. Agrees(caller, Coming[n].canvas, seen)
  BY <1>1, <1>3, <1>4, AgreesJoin
<1> HIDE DEF n
<1>6. \A i \in 0..n : \A p \in Pixels :
        PixelsAreSimilar(Coming[i].canvas[p], Coming[i].input[p])
  BY <1>3, AgreeingIsSimilar DEF Agrees
<1>7. \A p \in Pixels : PixelsAreSimilar(Coming[n].canvas[p], seen[p])
  BY <1>5, AgreeingIsSimilar DEF Agrees
<1> QED BY <1>6, <1>7 DEF ShowsTheInput, n

(* For callers whose canvases the lossy method is spared of drifting and of  *)
(* veils, each frame shows what was given, whatever is decided later: which  *)
(* frame is the key-frame, what the last one is asked to leave, how many of  *)
(* them have reached the muxer when a call fails (GetSubRects,               *)
(* SetPreviousDisposeMethod, CacheFrame, FlushFrames, OptimizeSingleFrame).  *)
THEOREM EachFrameShowsItsCanvas == CallersAreSteady => (Spec => []ShowsTheInput)
<1> SUFFICES ASSUME CallersAreSteady PROVE Spec => []ShowsTheInput
  OBVIOUS
<1>1. Init => ShownInv
  <2> SUFFICES ASSUME Init PROVE ShownInv
    OBVIOUS
  <2> QED BY NewIsHeld DEF Init, ShownInv, Held
<1>2. StateInv => IsSteady(caller)
  BY DEF StateInv, CallersAreSteady
<1>3. StateInv /\ ShownInv /\ [Next]_vars => ShownInv'
  <2> SUFFICES ASSUME StateInv, ShownInv, [Next]_vars PROVE ShownInv'
    OBVIOUS
  <2>1. IsSteady(caller)
    BY <1>2
  <2>2. ASSUME NEW t \in Times, NEW cur \in caller.canvases, NEW method \in caller.methods,
               Add(cur, method, t) \/ AddFails(cur, method, t) \/ AddIsNotMuxed(cur, method, t)
        PROVE  ShownInv'
    BY <2>1, <2>2, AddHolds, AddFailsHolds, AddIsNotMuxedHolds
  <2>3. ASSUME NEW t \in Times, PauseIsNotMuxed(t) \/ AddRefused(t) \/ AddTooLate(t)
        PROVE  ShownInv'
    BY <2>1, <2>3, RefusalsHold
  <2>4. ASSUME NEW t \in Times, AddNull(t) PROVE ShownInv'
    BY <2>1, <2>4, AddNullHolds
  <2>5. CASE Assemble \/ AssembleFails
    BY <2>1, <2>5, AssemblyHolds
  <2>6. CASE Delete
    <3>1. /\ enc' = NewEncoder /\ out' = NothingShown /\ seen' = Blank
          /\ UNCHANGED caller
      BY <2>6 DEF Delete
    <3> QED BY <3>1, NewIsHeld, ShownAfter
  <2>7. CASE UNCHANGED vars
    BY <2>7 DEF vars, ShownInv, IsQuiet
  <2> QED BY <2>2, <2>3, <2>4, <2>5, <2>6, <2>7 DEF Next
<1>4. StateInv /\ ShownInv => ShowsTheInput
  BY <1>2, HeldIsShown
<1> QED BY <1>1, <1>3, <1>4, StateHolds, PTL DEF Spec
=============================================================================
