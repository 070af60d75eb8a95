# WebPlugin in TLA+

WebPlugin is a 32-bit image decoder plug-in for ACDSee: a thin layer of C++
(`src/plugin`, `src/codec`) over a vendored and locally modified libwebp
(`src/codec/libwebp`), of which only the decoder and the demuxer are linked in.
The modules here model the plug-in, the parts of libwebp whose control is
intricate (among them two that the repository carries and the plug-in does not
call: the incremental decoder and the animation encoder), and the program that
calls the plug-in as far as its behaviour is documented.  TLC checks them on small
instances; TLAPS proves the most important results for all values of the constants.

1. [The system](#the-system) – components, state, operations, hard behaviours
2. [The modules](#the-modules) – which models what, and how they correspond
3. [The runs](#the-runs) – questions, bounds, fairness
4. [What disagrees with its documentation](#what-disagrees-with-its-documentation)
5. [The proofs](#the-proofs)
6. [What is not modelled](#what-is-not-modelled)
7. [Plan](#plan)

Inside this directory, `tlc -config X.cfg M` repeats a run and `tlapm M.tla` a
proof.  `PROJECT.json` lists runs, mutants, hazards and, for each definition,
the lines of code it stands for.

## The system

| Component | State | Operations | Interacts with |
|---|---|---|---|
| Plug-in exports (`ID_WebP.cpp`, `WebPlugin.cpp`, `dllmain.cpp`) | the singleton `g_pWebPlugin`; the DIBs handed out | `IDP_Init`, `IDP_OpenImage`, `IDP_GetImageInfo`, `IDP_GetPageInfo`, `IDP_PageDecode`, `IDP_CloseImage`, unload | called by ACDSee; drives one `WebPDecoder` per handle |
| Decoder of an image (`WebPDecoder.{h,cpp}`) | the source, its features, delays; `anim_decoder_` with the scale it was created for | `decode`, `resolveOutputSize`, `getFrame`, `getFrameDelay` | owns a `WebPAnimDecoder`, calls `WebPDecode` for stills |
| Registry side effects (constructor in `WebPlugin.cpp`) | none of its own: two settings of ACDSee and the `.webp` association | three edits at every start | shares the registry with other processes of ACDSee, installers, the user |
| Host (ACDSee; outside of the repository) | position in a pass, DIBs held | everything above | `README.md` and `ID_Plugin.h` tell how it calls |
| Demuxer (`demux/demux.c`) | the list of frames; a cursor in the file | `WebPDemux`, `WebPDemuxGetFrame` | read by the two decoders |
| Animation decoder (`demux/anim_decode.c`) | two canvases, the last frame, its key-frame flag, `next_frame` | `New`, `GetNext`, `Reset`, `Delete` | calls `WebPDecode` per frame; this repository makes it render on a scaled canvas |
| Lossy frame pipeline (`dec/vp8_dec.c`, `dec/frame_dec.c`) | buffers swapped between parser and worker, cache lines, rows held back for the filter | `VP8Decode`, `VP8ProcessRow`, `FinishRow` | one `WebPWorker` |
| Worker thread (`utils/thread_utils.c`) | status, mutex, condition variable | `Reset`, `Sync`, `Launch`, `Execute`, `End` | runs the hook of the pipeline |
| Pixel arithmetic (`anim_decode.c`, `compositeBGRAtoBGR`) | none | blend of a pixel, composite over the checkerboard | between canvas and DIB |
| Front end (`dec/webp_dec.c`, `dec/buffer_dec.c`) | none | `WebPGetFeatures`, `WebPParseHeaders`, the check of a buffer | reads the file the demuxer reads |
| Alpha plane and output rows (`dec/alpha_dec.c`, `dec/io_dec.c`, row output of `dec/vp8l_dec.c`) | the alpha plane, samples kept for the upsampler, `last_y` | `VP8DecompressAlphaRows`, `CustomPut`, `ProcessRows` | called by the pipeline, row by row; writes the DIB or a buffer |
| Rescaler (`utils/rescaler_utils.c`, `dsp/rescaler.c`) | `y_accum`, `irow`, `frow`, rows in and out | `Import`, `Export` | one each for luma, chroma, alpha |
| Incremental decoder (`dec/idec_dec.c`) | its state, the buffer, pointers of all readers into it, check-points | `WebPIAppend`, `WebPIUpdate`, `WebPIDelete` | drives the lossy pipeline and the lossless decoder by pieces; not called by the plug-in |
| Animation encoder (`mux/anim_encode.c`) | the last canvas, frames kept back, the key-frame they may hold | `New`, `Add`, `Assemble`, `Delete` | the image encoder and the muxer; not linked into the plug-in |
| Entropy decoding, sample arithmetic (`dec/`, `utils/`, `dsp/`) | – | – | not modelled, see below |

What is hard here, and what makes each part correct:

* *The page that is shown depends on the history.* `getFrame(index)` looks at
  its index only to rewind at 0; otherwise it shows whatever the animation
  decoder comes to next.  Failures, other sizes, re-created animation decoders
  and other images in between all matter.  Correct: a DIB shows the page that was
  asked for; what is allocated has one owner on every path.
* *Two canvases and a short-cut.* The animation decoder clears neither canvas
  when it rewinds, leaves one half drawn when a frame fails, and throws the
  canvas away at what it takes for a key-frame.  Correct: each page is what the
  container format defines, in any order of calls.
* *Two threads.* A parser and a worker swap two sets of buffers, and pass on
  rows that are held back because the filter has still to change them.  Correct:
  no buffer is used by both, no row of pixels is lost or handed out early, every
  failure comes out, nobody waits for ever.
* *A mutex and signals sent after it is free.*  Correct: no signal is lost, each
  job is run once, `Sync` tells of failures.
* *A parser that reads on.* `StoreFrame` takes chunks behind the `ANMF` it was
  called for.  Correct: no chunk of an accepted file lands in the wrong frame, and
  the decoders get what they assume.
* *Two parsers of one file.* The size of the DIB comes from `webp_dec.c`, the
  frames drawn into it from `demux.c`.  Correct: of the files the demuxer accepts
  they agree on each that the other does not refuse.
* *Rows that wait for one another.* The upsampler is a row behind, chroma has half
  the rows of luma, the rescaler gives a row now and then, alpha is decoded when it
  is asked for.  Correct: every row of the output is made of the right rows of the
  source, once, and does not change after it was counted.
* *Memory that moves under its readers.* Each piece handed to the incremental
  decoder may move the buffer that partitions, alpha and the lossless reader point
  into, in the middle of a macroblock.  Correct: a reader goes on at its own byte,
  and that byte is still there.
* *Decisions taken late.* The animation encoder settles afterwards whether a frame
  was a key-frame, when the next is encoded already.  Correct: played back, the
  frames show the canvases that were added, for as long as they were meant to.
* *Steps on state others share.* The registry is edited by several processes,
  call by call, and nobody looks at failures.  Correct: it comes right at a later
  start.
* *Arithmetic in bytes*, with divisions replaced by shifts.  Correct: nothing
  overflows, errors stay below one, opaque stays opaque.

## The modules

```
InOrderHost, LenientHosts            hosts
  └ WebPlugin                        the exports
      └ WebPDecoder                  one image; animation decoders as objects
AnimDecoder ──implements──> AnimCompositor     over FrameGeometry
DemuxParser                          gives AnimDecoder what FrameGeometry assumes
  └ FrontEnd                         the headers beside it
FramePipeline ──uses──> JobSlot <──implements── ThreadWorker
OutputRows                           rows of samples to rows of output, over Rescaler
  └ DibOutput                        ... and into the DIB
IncrementalDecoder ──implements──> ProgressiveImage
PixelBlend                           one channel of one pixel
PluginRegistry                       the constructor
AnimEncoder                          the encoder, with a player of what it writes
```

**WebPDecoder** has no next-state relation: it defines the object heap
(`decoders`, `anims`: address to object or `Null`) and the operations on it, and
`WebPlugin` calls them as `WebPlugin.cpp` does.  Animation decoders are referred
to by address, so that leaks, sharing and dangling pointers are states.
`EnsuredPtrs`, `EnsuredHeap` and `EnsuredAnim` are the three things
`ensureAnimDecoder` changes.  Pixels are reduced to the number of the frame they
show, a file to its size, animation flag and durations.

**WebPlugin**: `plugin` is `g_pWebPlugin`, `dibs` the heap of DIBs, `held` those
the host was given, `last` the last call and what it returned.  There is an
action for each export and outcome: `PageDecodeNoPage`, `PageDecodeTooBig`
(`GlobalAlloc` fails), `PageDecodeFails` (the frame does), `PageDecode`.
`OpenImageFails` has the four ways of `OpenImage` to fail, among them the fill of a
virtual file.  `PluginSpec` lets a host call anything in any order.

**InOrderHost** restricts the host to what `README.md` asks of it: pages in order,
`0..n-1`.  It adds two restrictions that the code turns out to need, one size per
pass and a new pass after a failure; **LenientHosts** drops the first.
Calls are serial, as `README.md` says, but those on different handles interleave.

**FrameGeometry** has the frames of an animation and `ScaleDim`, the scaling of
their rectangles, with a product that wraps around at `UIntRange` as that of
`SCALE_DIM` does at 2^32.  The sides of a canvas have 24 bits in the file, those of
a frame the 14 of its bitstream (`MaxDimension`).  The arithmetic of *addresses*
on a canvas is exact here; the code does some of it in `int` (`anim_decode.c:432`, `:201`),
too few bits for a canvas of more than 2 GB.  **AnimCompositor** is the abstract specification: one canvas,
pages in order, each its frame over what the page before left.  A pixel is the set
of the frames whose colour it carries, which is all that blending, disposing and
overwriting can tell apart.  **AnimDecoder** is `anim_decode.c`: `curr_frame` and
`prev_frame_disposed`, `IsKeyFrame`, `Paint` (also of the first rows only, when the
frame fails), `BlendRow`, disposal, `Reset` and the end of the frames.

**DemuxParser** reads a file that is chosen while it is read, one chunk ahead
(`next`), and has an action for each branch of `ParseVP8XChunks`,
`ParseAnimationFrame`, `ParseSingleImage` and `StoreFrame`.  Sizes are in units
(two a chunk, three an `ANMF`), enough for what the code compares.

**FrontEnd** EXTENDS `DemuxParser`: the same sequence of chunks as `WebPGetFeatures`
and `WebPParseHeaders` read it, whole for a still and as `GetFramePayload` cuts it
out for a page.  `vp8x_rest` is whether the `VP8X` chunk has anything behind its ten
bytes, which the demuxer skips and `ParseVP8X` of `webp_dec.c` refuses (`WrongVP8X`).

**JobSlot** is what `thread_utils.h` promises: one job at a time, none dropped,
failures remembered.  **ThreadWorker** implements it with a mutex and a condition
variable; each of `Reset`, `Sync`, `Launch`, `End` and the thread's loop is cut at
each lock, wait, unlock and signal.  `Reset` of a worker that is busy, which calls
`Sync` (`thread_utils.c:310`), is left out: every owner in the library resets a worker
that is new or idle.  **FramePipeline** EXTENDS `JobSlot` and uses
its actions for its worker: `ParseRow`, `ProcessInline` or the hand-over of
`Spawn`, and `FinishRow` in three stages (reconstruct, filter, put) that
interleave with the parser.  `tail` is what the bottom of each cache line holds.

**PixelBlend** follows one channel of one pixel through `BlendPixelNonPremult` and
`compositeBGRAtoBGR`, in the integers the code uses (a product that would leave
TLC's 31 bits is computed in two halves, exactly).

**Rescaler** is a library of operators on the record `WebPRescaler`.  Instead of
samples a row holds the *shares* of the source rows in it, exactly, so that
`Interpolated` and `Averaged`, which say what scaling means, can be compared with
what import and export leave; columns likewise.

**OutputRows** starts where `FramePipeline`'s `put` ends.  Its actions are `FinishRow`
of one macroblock row (alpha on demand, the window, `CustomPut`), the failing of the
alpha, and `ProcessRows` of a batch of lossless rows.  An output row holds which
luma, chroma and alpha rows it was made of and how often it was multiplied by its
alpha.  `above` remembers from which row an alpha row was unfiltered, `asserts` whether
all the asserts of the code held.  **DibOutput** EXTENDS it with the DIB: where
`PageDecode` puts its rows, `getFrame`'s negative stride for pictures without alpha, and
the pointer of `compositeBGRAtoBGR` for those with.

**IncrementalDecoder** has one record, `idec`, for the decoder and what it owns.
Addresses are integers and allocations are at one of two bases, so that a pointer
into a buffer that was freed points outside of the new one.  The states of `IDecode`
are operators on that record, run through in the order of the code within one call;
the file is a layout (how many bytes each macroblock or symbol takes), handed in by
pieces of any size.  `fault` is the step that fails in a call, if one does.
**ProgressiveImage** is what `decode.h` says of such a decoder: rows that were shown
stay, more data is asked for only while there is more.

**AnimEncoder** follows `anim_encode.c` on a canvas of one row of pixels.  Colours are
classes that similarity, transparency and blending tell apart.  `enc` is the encoder with
its array of frames kept back, each as a sub-frame and as a key-frame; `out` is what
was pushed to the muxer, and what a player shows of it.  An entry added for a pause too
long for one frame (`is_pause`) is none of the frames that kmax counts, also when
`SetPreviousDisposeMethod` has changed it later.  Which candidate is smallest is a
choice.  Its callers stop at the first call that fails, as
`examples/img2webp.c` does.

**PluginRegistry** runs the constructor in several processes: `SetRegDWordZero`
twice, then `RegisterWebPIcon` as `FindProgID`, `CreateAssociation`,
`SetDefaultIcon`, `NotifyExplorer`.  A call that fails, a process that is killed
and someone else's write are *disturbances*, and bounded.

Definitions described as a *slip* stand before the one they are a faulty form of,
and are used by no specification: replacing a definition by its slip must make a
run fail.  `PROJECT.json` says which property notices which slip.

## The runs

| Run | Question | Bounds |
|---|---|---|
| `plugin_any_host` | Who owns animation decoders and DIBs, does the canvas fit the DIB, are handles independent, whatever is called? | 2 handles, 2 animation decoders, 1 DIB; an animation of 2 pages, a still; sizes full, 5x5, 5x10; pages up to one too many |
| `in_order_host` | Is the page shown the one asked for, and all there that was announced? | the same with 3 pages, sizes full and 5x5 |
| `rescaling_host` | The same for a host that changes the size in mid-pass (violated) | 1 handle |
| `anim_decoder` | Are the pages those of the container format? | every animation of 1 or 3 frames over 3 overlapping boxes, with and without alpha, blending, disposal, on 6x4 scaled to 4x2; failing frames and rewinds anywhere |
| `thread_worker` | Does the mutex and condition variable make a slot for jobs? | 3 jobs |
| `frame_pipeline` | Are rows complete, settled and contiguous, buffers separate, does decoding end? | 6 heights of up to 5 macroblock rows, 3 filters, both threadings; failures at each step |
| `demux_parser` | What does an accepted file give the decoders, and does the header parser agree? | every file of up to 6 chunks, the `VP8X` chunk exact or too long |
| `output_rows` | Is each row of the output made of the right rows, once, in its place of the DIB? | heights up to 3 macroblock rows of 4, every rest, cropped, 10 scales; alpha raw, paletted and not, filtered, quantized, premultiplied; widths 1 to 4 |
| `incremental_decoder` | Is what is still to be read in memory, and is the picture the same however the file is cut? | 3 lossy files of 3 rows, 1 or 2 partitions, with alpha and without; 2 lossless ones of 9 rows; every cut, 2 addresses, 10 faults |
| `anim_encoder` | Does the animation show what was added, for the right time? | canvases of 3 pixels, opaque, transparent, translucent and similar ones; up to 13 frames; key-frame distances (kmin, kmax) none, 1, 2, 1–2, 3–5, 4–7; one method, both, a choice of them; steps of up to 3 in time, which joined no longer fit one frame, so that a pause becomes a frame of its own, which a later frame may ask to clear its pixel; any call or push failing |
| `pixel_blend` | Bounds, order and opacity of a pixel | all alphas of the frame, 9 values of the channels, 7 alphas of the canvas, both squares |
| `registry` | Does the registry come right, is Explorer told? | 2 processes, 2 disturbances, 3 names |

*Why the bounds are enough.*  Two handles and two animation decoders let one image
take the address another has freed or still uses; two sizes of one width tell a
comparison of both dimensions from one of the width alone; a still beside an
animation takes every branch of `getFrame`.  Three frames make the longest chain
the key-frame test looks at (a frame, the one before, and whether that was a
key-frame), the boxes a full frame, a frame beside and a frame across.  No product wraps
there: a canvas with a full frame is short enough for all of its products, so that one
instance cannot have both; this one has the full frames, and what wraps is left to the
theorems.  Three cache
lines are each used twice within five macroblock rows, and the heights end in,
right behind and short of a macroblock row and of the rows held back.  Three jobs
are one more than a slot can confuse.  Six chunks hold an `ANIM` and two frames,
one of them with alpha, or a stray chunk in any place of a shorter file.  Two
disturbances reach a first load that is cut short and a second that finds its
remains.  Three macroblock rows are a first one, one in the middle and a last one, for which
every emitter has a case of its own; the heights leave every remainder of rows, and the
scales cover enlarging, reducing, the same height and the first and last rows of both.
Files of the incremental decoder are cut at every byte, so that a piece ends before,
in and behind each of the things read as one; two addresses are enough for a buffer
that moves, since only the last one is used; macroblocks and symbols that take no byte
and copies of many rows are the cases in which position and row move apart, and the
check-points every two rows those in which a decoder goes back.  Three pixels are the
smallest canvas in which a rectangle moved to an even offset takes a pixel with it that
did not change; (4, 7) is the smallest pair of distances whose window has three frames to
choose among, and 13 frames fill and flush it more than once.

*Deadlock* is checked but in `demux_parser`, `pixel_blend`, `frame_pipeline` and
`output_rows`, which end.

*Fairness.*  `ThreadWorker`: weak for the steps of each side, strong for taking the
mutex and for waking up, which Windows' critical sections and condition variables
justify; nothing forces the owner to make a call, and a call it is in goes on.
`FramePipeline`: weak for the parser and for `FinishRow`, two threads that the
system runs.  `PluginRegistry`: weak for the constructor of a process that
runs; that ACDSee is started again and again is a hypothesis of `RepairsItself`
and not of the specification.  The other specifications have no fairness: their
callers may stop at any point.

*Symmetry* is used for handles and addresses of animation decoders, in runs without
liveness properties.

## What disagrees with its documentation

One run shows behaviour that the documentation excludes.

`rescaling_host`: a change of size in mid-pass re-creates the animation decoder at
frame 0 (`WebPDecoder.cpp:195`), and `getFrame(1)` then shows frame 0.

Observations met while modelling, checked by no run of their own.

In the plug-in:

* A page that fails does not move the animation decoder on (`WebPDecoder.cpp:172`):
  the next page shows the failed one, and so does every later one, until page 0.
  `InOrderHost` therefore starts a new pass after a failure.
* The division by 255 in the composite does not round to nearest for all values
  as its comment says (`WebPDecoder.cpp:235`): 63878 gives 250, and is 250.502.
  The error stays below one (`ShownFaithfully`).
* `RegisterWebPIcon` takes an association it cannot read for none and replaces it
  (`WebPlugin.cpp:73`); a process killed between its write and `SHChangeNotify`
  leaves Explorer with the old icon, since the next start finds nothing to change.

In the animation decoder, the demuxer and the headers:

* `SCALE_DIM` (`anim_decode.c:30`) multiplies in 32 bits.  The demuxer accepts canvases
  longer than 65535, whose area alone it bounds (`demux.c:562`); on those an offset far
  out wraps around, though nothing is scaled: at 70000x100, a frame at 65000 is drawn at
  3643.  It never leaves the canvas, and frames whose offsets do not wrap keep their
  places (`ScalingKeepsTheLayout`).
* On a scaled canvas a narrow frame gets the width 0, which `WebPDecode` reads as
  *keep the proportions* and `ZeroFillFrameRect` as *nothing*
  (`anim_decode.c:459` and `:55`): its pixels stay although it asks to be disposed of.
  `AllVisible` excludes such frames from the proofs.
* A blend over a transparent pixel may cost one in the colour, where
  `anim_decode.c:439` speaks of a no-op (`BlendIsBounded` allows for it).
* `AddFrame` tests a link that is always null (`demux.c:189`), and
  `IsValidExtendedFormat` has to make up for it, which `FramesAreSound` shows it does.
* A still with an `ANIM` chunk is refused, where the container specification has the
  chunk ignored (`demux.c:480`, not reached by the plug-in).
* A `VP8X` chunk longer than ten bytes is accepted by the demuxer, which skips "any trailing
  data" (`demux.c:565`), and refused by `WebPGetFeatures` (`webp_dec.c:121`) and so by the
  plug-in.  `FrontEndAgrees` says that this is the only disagreement, and that it comes out
  before anything was announced.
* An `ALPH` chunk in a file whose `VP8X` does not announce alpha is dropped by the
  demuxer and used by `WebPDecode`; `FrontEndAgrees` speaks of dimensions, animation
  and the alpha flag, which agree.

In the rows: a lossy picture with a paletted, horizontally filtered alpha plane and a
window that begins further down has the first row of its alpha unfiltered from nothing
instead of from the row above (`vp8l_dec.c:896`, `filters.c:62`).  The plug-in never
sets a window; `WrongAlpha` keeps the case out of `output_rows`, and is the hypothesis of
`AlphaReady`.

In the incremental decoder:

* the out-of-memory of `VP8New` comes when the data was taken already (the fault `new`);
* when the copy to a slow output fails, the state is `DONE` already, and a later call says
  that all is well (the fault `copy`);
* `RestoreState` (`vp8l_dec.c:1136`) brings back the saved reader with the address of its
  buffer, which may have moved since; the model brings back the position alone.  The
  next call sets the address and saves the reader again before it reads on
  (`next_sync_row` is the row it begins with), so that a stale one is never read;
* the guard of `WebPIDecGetRGB` lets `STATE_VP8L_HEADER` and `STATE_ERROR` through, which
  come after `STATE_VP8_PARTS0` in the enumeration, though there may be no output yet
  (`idec_dec.c:852`; not modelled).

In the animation encoder:

* kmin = 3, kmax = 5 leaves key-frames six apart, while `mux.h` calls kmax the maximum
  distance; `KeyFramesInReach` has the bound that holds;
* lossy frames may draw a translucent pixel that did not change over itself, since
  `IsLossyBlendingPossible` (`anim_encode.c:660`) compares the pixels only; `Opaques`, the
  callers that use the lossy method, have no such pixels (`HasNoVeil`);
* the lossy method compares each canvas with the one before (`prev_canvas`), not with what
  is shown: a pixel that drifts, each time to a colour similar to its last, is left out
  of each frame, until the screen shows another colour than the canvas has
  (`SimilarityIsStable` excludes such colours);
* a failed `WebPAnimEncoderAdd` has lengthened the frame before and may have set how it is
  disposed of: a caller who goes on all the same gets other durations and pictures.

## The proofs

| Module | Theorems | From |
|---|---|---|
| `PluginProofs` | of the plug-in: types; `AnimationOwnership`, `DibOwnership`, together `EverythingIsOwned`; `CanvasAlwaysFits`, `OutputNeverEnlarges`, `Isolation` | `ImagesAssumption`, `NullAssumption` and the other named assumptions on the constants |
| | with the host: `EveryPageIsShown`, `FramesLastForThePass`, `PagesAreAsAnnounced`, together `AsToldTheHost`; types | the same |
| | of the registry: `KeyIsNeverCreated`, `ExplorerHears` | `RegistryAssumption` |
| `AnimDecoderProofs` | `FramesKeepTheirPlaces`, types, `KeyFramesAreSound`, `DecoderImplementsCompositor` | `CanvasAssumption`, `AnimsAssumption`; the last two also `AllVisible` |
| | of a pixel: `BlendStaysBetween`; `OpacityIsKept`, `ShownIsWithinOne`, `ShowsInOrder`, together `ShowsFaithfully` | `PixelAssumption` |
| `ThreadWorkerProofs` | types, the four parts of `SyncIsTrue` and `EverybodyIsServed`, `WorkerImplementsJobSlot` | `MaxJobsAssumption` |
| `FramePipelineProofs` | `PictureIsWhole`, `PiecesMeet`; `ThreadsShareNoBuffer`, `NoJobAfterTeardown`, together `ThreadsAreApart`; `DecoderUsesSlot` | `HeightsAssumption` |
| `DemuxParserProofs` | types, `AcceptedFramesSuit`, `PayloadsAreExact`, together `AcceptedFramesAreSound`; `EveryPartHasItsFrame`, `ParsersAgree` | `ParserAssumption` |
| `OutputRowsProofs` | of the rows: `OutputInvariant`, `SharesRight`, `NothingIsLeftBehind`, `AssertsStand`, `RowsFinal`; `AlphaReady` | `PicturesAssumption`; the last one also that no picture is of `WrongAlpha` |
| | of the DIB: `PageIsHeld` | also `WidthsAssumption` |
| | of the rescaler by itself: `StartsBalanced`, `ImportKeepsBalance`, `ExportKeepsBalance`, `NothingIsLeft`, `ScalersEndTogether` | heights above 0 |
| `IncrementalDecoderProofs` | `DataStaysHeld`, `CallsLeaveAtRest`, `RowsAreNotRepeated`, `DecoderImplementsProgressive` | `FileAssumption`, `DecoderAssumption` |
| `AnimEncoderProofs` | `TheCacheIsLargeEnough`, `NoTimeIsLost`, `KeyFramesAreNear` | `EncoderAssumption` |
| | `EachFrameShowsItsCanvas` | also `ColoursAssumption`, and that all callers are steady (`CallersAreSteady`) |

Each proves an inductive invariant, one lemma or step for each action, and derives
the properties from it.

*Plug-in.*  The invariant is the ownership of the heap: every animation decoder is
owned by exactly one open decoder, its canvas is what the recorded scale asks for,
and the DIBs are those the host holds.  The properties need it because
`ensureAnimDecoder` decides from the recorded scale alone whether a canvas is
reused.  For `EveryPageIsShown` what the host remembers is tied to the heap: in
mid-pass its image has an animation decoder, created for the size of the pass,
whose `next_frame` is the next page (`InStep`).  Without *one size per pass* that
fails at `HeapForNew`, without *a new pass after a failure* at `GetFrameFails`:
the run `rescaling_host` shows the one, the other is the first observation above.

*Animation decoder.*  `prev_frame_was_keyframe` and `prev_iter` say enough of the
canvas kept to show that a key-frame covers all that is left on it; hence the
refinement, in which the canvas *beneath* is the one kept, or a blank one at the
start of a pass.  `AllVisible`, that no frame scales to nothing (nor wraps around to it),
is needed: such a frame is painted and not disposed of (see the observations).  The
refinement says what is drawn over what; where a frame lies both sides take from the one
`ScaleDim`, and `FramesKeepTheirPlaces` says what is true of that.  A product that wraps
around leaves a remainder no greater than itself, so that a length that wraps is only
shorter and nothing leaves the canvas; that two frames stay apart, or one beside the
other, needs that the offset of the second does not wrap.  A full frame has no side longer than
`MaxDimension`, so that none of it wraps (`ShortSide`).  That files give frames inside of the canvas
(`AnimsAssumption`) is what `AcceptedFramesSuit` proves of the demuxer.

*Worker.*  The invariant joins the status, the owner of the mutex and the two
program counters: who holds the mutex, who sleeps, and that a sleeper whose
condition has changed has a signal coming.

*Pipeline.*  While a job runs, parser and job have different halves of each pair of
buffers, and the job's hold the row it was launched for.  For the rows, the invariant
`RowInv` (`Turns`, `Lines`, `Progress`) says whose turn it is: the row that is being finished, the row that was last
put out, what of it the bottom of the cache line still holds back, and that the window
of the next put begins where the last one ended (`StartOf(mb_y)` is `put.to`).  What is
handed out is then settled, since the filter of the next row reaches no further up than
the lines held back, and the last row hands out all that is left.

*Demuxer.*  The invariant follows the frame being stored: its alpha stands right
before its image and its size is the bitstream's.  `EveryPartHasItsFrame` adds to it (`PartsInv`)
that each part read so far belongs to a frame kept, or to the one being stored, and that
no part belongs to two; `ParsersAgree`, that the headers read by the one parser are
those of the other at the same place of the file, if the `VP8X` chunk is as long as it
should be, and that the one refuses what the other takes if it is not.  They hold for files of any length:
no proof uses `MaxChunks` beyond its type.

*Pixels.*  Bytes stay bytes; the division by 255 is bounded by arithmetic on its two
quotients, the blend by the bound 255 times the summed alpha, and its place between the
two colours by the weights, of which neither exceeds the sum.

*Registry.*  A constructor that owes Explorer a call remembers so in `changed`, or has
been killed: whoever finds the registry as it should be has told Explorer, or somebody
did who was cut short.

*Animation encoder.*  `StateInv` has the reason why the cache is large enough: more than
one frame is kept only while a window is open in which a key-frame was picked, and since
the first candidate of that window the cache has grown no faster than
`count_since_key_frame` (`InWindow`, `Window`), which ends it at kmax.  A pause that does
not fit its frame makes a second entry in one call; it is paid for by flushing all that
stands in front of it.  That the mean duration made up by `Assemble` is a duration needs
the bound on `prev_timestamp` by the frames added so far.  For the other two properties
the entries are reduced to their *kind* (key-frame, pause) and duration, since nothing
that `SetPreviousDisposeMethod` and `SetFrame` do afterwards changes these; one lemma per
outcome of `CacheFrame` (`FirstOutcome`, `SubFrameOutcome`, `EitherOutcome`) says what
becomes of the kinds.  `NoTimeIsLost` follows with `FlushedScreens`: pushing frames
changes nothing of what a player comes to.  For `KeyFramesAreNear` the distance of the
last frame is not enough, because a key-frame that gives way to a later one hands its
followers over to the key-frame before (`Demotion`); the invariant `Ahead` therefore
bounds both, the distance of each frame and, for those behind a picked key-frame, the
distance they would have without it.

`EachFrameShowsItsCanvas` cannot follow the player: what a frame is drawn over is decided
after it was made.  Its invariant `ShownInv` therefore speaks of the frames alone.  A frame
*makes* a canvas of what is under it (`Makes`) when each pixel is either left, where both agree,
or replaced.  The frames kept back are `Linked`: each makes its canvas in every form it
may still be shown in (a picked key-frame may yet be demoted to its sub-frame), over
whatever any form of the one before may leave behind it.  The last of them is still
`LastIsOpen`: nobody has asked it to clear its rectangle, and `prev_rect` is that of the
form it will have.  `WindowClosed`, `PickedAsKey` and `SetPreviousDisposeMethod` then only
take forms away, or change what the last frame leaves, which nothing is linked to yet; a failure
of the muxer or of `WebPEncode` halfway leaves a shorter cache that is linked all the same.
`Stills` is what `OptimizeSingleFrame` needs: a frame that is alone replaces a blank canvas.

The theorem has a hypothesis, `CallersAreSteady`: each caller uses the lossless method only,
or the similar colours are opaque ones that fall into classes, and its canvases have no
translucent pixels.  Neither half can be dropped: TLC finds `ShowsTheInput` violated with
three colours of which only neighbours are similar, in three frames, and with one
translucent colour, in two (the two observations on the lossy method above).  The callers of
`MCAnimEncoder` meet it (`SteadyAssumption`).

*Incremental decoder.*  The invariant `Sound(idec, given)` ties each pointer to a place
of the file.  The byte `n` of the file is at `Ptr(idec, n)`, that is `buf + n - first`; it says
of each reader, by the phase the decoder is in (`Phase`), which place that is: the alpha's
own, the start of a macroblock for a reader of a partition (`MbAt`), a symbol for the
lossless one.  That nothing needed was passed over (`Unpassed`) is what lets a moving or
shrinking buffer keep all of it: each partition's reader stands at or behind the start of
the buffer, although only the last partition's moves that start.  A lossless check-point
may lie up to `SYNC_EVERY_N_ROWS` rows behind the rows decoded; `BatchedRows` says how many rows
are out then, a multiple of the cache, so that going back never repeats one, given
that the distance of check-points is at most the rows of the cache.  The two loops of a
call, over macroblocks and over symbols, are recursive functions of the data; what
they keep is proved by `SetInduction` on the rounds left (`Rounds`, `PixelRounds`,
`BatchRounds`).  Of a call then only `Fed` matters, from which the refinement
follows: rows do not become fewer, `SUSPENDED` leaves some of the file to come, `OK` has all
rows out.  `FileAssumption` is that files have room for what their headers say and that
the last partition of a lossy file holds something: `ParsePartitions` waits for its first byte
(`vp8_dec.c:241`), so that a file without one would be `SUSPENDED` for good.

*Induction* over a list of frames is needed for what a player shows (`Screens`), and over
rounds of a loop in the incremental decoder.  The
library's induction theorems cannot be used, as they take a predicate for a parameter;
`SetInduction` says the same of a *set* of numbers, and follows from `WFMin` and
`NatLessThanWellFounded`.  With it `ScreensStep` shows that the function `Screens` is
the one its recursive equation describes.

*Rescaler.*  `IsBalanced` says that `y_accum` is nothing but a balance: `y_sub` for each
row that came in, `y_add` for each that went out.  Import and export keep it; so when the
last row of the source is in and no more can go out, the balance leaves no row of the
output missing (`NothingIsLeft`), and scalers of luma and chroma, of different heights, are
finished at the same macroblock row (`ScalersEndTogether`).

*Rows of the output.*  What a balance does not say is which rows of the source the two
buffers of a scaler hold.  `ScalerAt(src, dst, m, k)` is the whole scaler as a function of
the rows m that came in and k that went out: the row in `frow`, the fraction left in
`irow`, `y_accum`.  `Ready` says when row k can go out, `Fits` that m and k belong
together: no row came in while one was ready, none went out early.  Import and export
lead from one such scaler to the next (`ImportRows`, `ExportRows`), and the row that goes
out has the shares of the reference definition (`ExportedIsRight`); of the columns, which
are made in one sweep, `ColumnsAre` says the same.

The loops of a piece come next.  For `EmitRescaledRGB` the two scalers must be
shown to stay together: chroma has half the rows, rounded up, and is imported only as
its scaler asks for it.  `ChromaFollows` and `ChromaNotBefore` relate the rows that the
two are ready for; with them no round leaves both pieces unused, so the loop ends with all
of the luma taken, and at the end of a piece chroma has used exactly its own
(`Together`, `EmitScaled`).  Alpha is imported until it has as many rows as the colours
(`EmitAlphaScaled`), since a scaler of the same heights was ready for them.  `EmitFancyRGB`
is a row behind (`Behind`), the samples it holds back are those of that row (`HeldAt`),
and `GetAlphaSourceRow` is behind by the same row (`AlphaSource`).  Each of these gives
`PutOut`: a piece that brings the window from n rows to m leaves the parameters as
`ParamsAt(m)` wants them, and finishes the rows in between.

`OutputInv` then says of a state: the rows that have come are those of the macroblock
rows done, less the ones the filter holds back (`Done`, `Came`); the parameters are
`ParamsAt` of them; the rows reported as done are right.  All but one of the properties
follow from it.  `AlphaIsReady` needs `PlaneInv` as well: the alpha plane has been decoded as
far as the macroblock rows have come, and, unless all of it is decoded, the last row and
the position kept are those of the next call.  Loops are functions of
the number of rounds; `LoopStays`, from `SetInduction`, is their induction.

*DIB.*  `DibInv` adds where the rows are: those that are done (for a page with alpha, those
that were composited) stand at `PlaceOf`, a stride apart.  A page with alpha is composited when
it is decoded, and all of its rows are done then (`AllComes`).

Only model-checked:

* liveness (`AllIsDone`, `DecodeEnds`, `RepairsItself`): fairness and ENABLED are out
  of the prover's reach.

Every invariant of a run is stated by a theorem.  `ShowsTheInput` is proved for steady
callers only, since it does not hold of the others.

No module uses a RECURSIVE operator.

## What is not modelled

* *Entropy decoding* (`tree_dec.c`, `quant_dec.c`, bit readers; Huffman tables, colour cache
  and transforms of `vp8l_dec.c`).  In the models a macroblock or a symbol costs some
  bytes and succeeds or fails; what it decodes to concerns the samples.
* *Samples*: prediction, transforms, filters, colour conversion (`dsp`) and their SIMD
  forms, the fixed-point factors of the rescaler, YUV and 4444 output, cropping in
  columns.  Wrong samples give a wrong picture and no wrong state.
* Byte sizes of chunks, and files that are still growing, in the demuxer: the plug-in
  has the whole file.
* Emulated condition variables (`thread_utils.c:132-196`), for SDKs older than
  Windows Vista, not used by the build.
* `dec->status` where `VP8SetError` may be called in both threads (`vp8_dec.c:98`): the
  verdict of the pipeline is modelled, which of two errors is reported is not.
* How long the host keeps the source buffer, which decoder and demuxer point into
  (`WebPlugin.cpp:190`): a duty of the host, which is not in the repository.
* The about box, resources, build files.
* The image encoder (which `AnimEncoder` takes as an operation that fails or gives a frame),
  the muxer, `sharpyuv`, `swig`, tools, tests: not part of the plug-in, and most of
  the repository's lines.

## Plan

Done, in this order: plug-in and hosts; animation decoder with its compositor; worker
and pipeline; demuxer; pixels; registry; then headers, output rows with alpha and the
rescaler, the DIB, the incremental decoder, the animation encoder; the proofs listed above.

Next, the most important first:

1. *Composition*: a pass of a host over `DemuxParser`'s frames, so that the number
   of pages the plug-in announces and the number the animation decoder has come
   from one file; `FramePipeline` handing its rows to `OutputRows` step by step.
2. *Lossless*: the building of Huffman tables, against a reference definition over
   bounded code lengths.
3. *Muxer*: the frames `AnimEncoder` pushes, as chunks that `DemuxParser` reads.
