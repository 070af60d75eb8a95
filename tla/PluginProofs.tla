---------------------------- MODULE PluginProofs ----------------------------
(* What the plug-in keeps for every set of handles, files, sizes and pages,   *)
(* whatever its host asks; then, under the host of InOrderHost, that          *)
(* PageDecode(i) shows page i for every number of images, sizes and failures; *)
(* and that Explorer hears of what its constructor changed, whatever the      *)
(* number of processes, the names in the registry and the calls that fail.    *)
EXTENDS InOrderHost, PluginRegistry, TLAPS


(****************************************************************************)
(* Sizes.                                                                   *)
(****************************************************************************)
\* The members of a source file.
LEMMA ImageFields ==
    ASSUME NEW im \in Images
    PROVE  /\ im.w \in Nat \ {0}
           /\ im.h \in Nat \ {0}
           /\ im.animated \in BOOLEAN
           /\ im.durations \in Seq(Nat)
           /\ im.durations # <<>>
BY ImagesAssumption DEF ImageType

\* resolveOutputSize returns a size with at least one pixel.
LEMMA ResolveIsSize ==
    ASSUME NEW im \in Images, NEW req \in Int \X Int
    PROVE  ResolveOutputSize(im, req) \in (Nat \ {0}) \X (Nat \ {0})
BY ImageFields DEF ResolveOutputSize, FullSize

\* The canvas of the animation decoder made for an output size has that size.
LEMMA CanvasHasOutputSize ==
    ASSUME NEW im \in Images, NEW out \in (Nat \ {0}) \X (Nat \ {0})
    PROVE  /\ ScaleFor(im, out) \in Nat \X Nat
           /\ CanvasFor(im, ScaleFor(im, out)) = out
BY ImageFields DEF ScaleFor, CanvasFor, FullSize

LEMMA CanvasIsSize ==
    ASSUME NEW im \in Images, NEW scale \in Nat \X Nat
    PROVE  CanvasFor(im, scale) \in Nat \X Nat
BY ImageFields DEF CanvasFor, FullSize

\* resolveOutputSize never enlarges: the full size, or strictly less area.
THEOREM ResolveNeverEnlarges ==
    ASSUME NEW im \in Images, NEW req \in Int \X Int
    PROVE  \/ ResolveOutputSize(im, req) = FullSize(im)
           \/ ResolveOutputSize(im, req)[1] * ResolveOutputSize(im, req)[2] < im.w * im.h
<1> DEFINE area == im.w * im.h
           wanted == req[1] * req[2]
<1>1. area \in Nat /\ wanted \in Int
  BY ImageFields
<1>2. (area * 55) \div 100 <= area
  <2> HIDE DEF area
  <2> QED BY <1>1
<1>3. wanted < (area * 55) \div 100 => wanted < area
  <2> HIDE DEF area, wanted
  <2> QED BY <1>1, <1>2
<1> QED
  BY <1>1, <1>3 DEF ResolveOutputSize, FullSize

(****************************************************************************)
(* The heap.                                                                *)
(****************************************************************************)
HeapInv == DecoderTypeOK /\ AnimsOwned /\ CanvasMatchesScale

\* The addresses of open decoders hold decoders.
LEMMA OpenFields ==
    ASSUME DecoderTypeOK, NEW h \in Open
    PROVE  /\ h \in Handles
           /\ decoders[h] \in DecoderType
           /\ decoders[h].image \in Images
           /\ decoders[h].anim \in AnimPtrs \cup {Null}
           /\ decoders[h].scale \in Nat \X Nat
BY DEF DecoderTypeOK, Open, DecoderType

LEMMA AllOpenFields ==
    ASSUME DecoderTypeOK
    PROVE  \A g \in Open : /\ g \in Handles
                           /\ decoders[g].image \in Images
                           /\ decoders[g].anim \in AnimPtrs \cup {Null}
                           /\ decoders[g].scale \in Nat \X Nat
BY OpenFields

\* A decoder opened at a free address owns no animation decoder.
LEMMA ConstructKeepsHeap ==
    ASSUME HeapInv, NEW h \in Handles, NEW im \in Images, Construct(h, im)
    PROVE  HeapInv'
<1> USE DEF HeapInv
<1>1. /\ decoders[h] = Null
      /\ decoders'[h] = [image |-> im, anim |-> Null, scale |-> <<0, 0>>]
      /\ decoders'[h] \in DecoderType
      /\ \A g \in Handles : g # h => decoders'[g] = decoders[g]
      /\ anims' = anims
  BY DEF Construct, FreeHandles, Open, Decoded, DecoderTypeOK, DecoderType
<1>2. DecoderTypeOK'
  BY <1>1 DEF DecoderTypeOK, Construct, Decoded
<1>3. Open' = Open \cup {h} /\ h \notin Open
  BY <1>1, NullAssumption DEF Open
<1>4. AnimsOwned'
  BY <1>1, <1>3 DEF AnimsOwned, Open
<1>5. CanvasMatchesScale'
  BY <1>1, <1>3 DEF CanvasMatchesScale, Open
<1> QED BY <1>2, <1>4, <1>5

\* Closing an image deletes the animation decoder it owns and no other.
LEMMA DestroyKeepsHeap ==
    ASSUME HeapInv, NEW h \in Open, Destroy(h)
    PROVE  HeapInv'
<1> USE DEF HeapInv
<1>1. /\ h \in Handles
      /\ decoders'[h] = Null
      /\ \A g \in Handles : g # h => decoders'[g] = decoders[g]
  BY OpenFields DEF Destroy, DecoderTypeOK
<1>2. \A p \in AnimPtrs : anims'[p] = IF p = decoders[h].anim THEN Null ELSE anims[p]
  BY DEF Destroy, Deleted
<1>3. DecoderTypeOK'
  BY <1>1, <1>2 DEF DecoderTypeOK, Destroy, Deleted
<1>4. Open' = Open \ {h}
  BY <1>1 DEF Open
<1>5. \A g \in Open \ {h} : decoders[g].anim # Null => decoders[g].anim # decoders[h].anim
  BY DEF AnimsOwned
<1>0. \A g \in Open \ {h} :
         /\ g \in Handles
         /\ decoders'[g] = decoders[g]
         /\ decoders[g].anim \in AnimPtrs \cup {Null}
  BY <1>1, AllOpenFields
<1>6. AnimsOwned'
  <2>1. \A g \in Open' : decoders'[g].anim # Null => anims'[decoders'[g].anim] # Null
    BY <1>0, <1>2, <1>4, <1>5, NullAssumption DEF AnimsOwned
  <2>2. \A f, g \in Open' : decoders'[f].anim = decoders'[g].anim
                             /\ decoders'[f].anim # Null => f = g
    BY <1>0, <1>4 DEF AnimsOwned
  <2>3. \A q \in AnimPtrs : anims'[q] # Null => \E g \in Open' : decoders'[g].anim = q
    BY <1>0, <1>2, <1>4 DEF AnimsOwned
  <2> QED BY <2>1, <2>2, <2>3 DEF AnimsOwned
<1>7. CanvasMatchesScale'
  BY <1>0, <1>2, <1>4, <1>5 DEF CanvasMatchesScale
<1> QED BY <1>3, <1>6, <1>7

\* A decoder whose new animation decoder cannot be made is left with none.
LEMMA NoDecoderKeepsHeap ==
    ASSUME HeapInv, NEW h \in Open, NEW out, GetFrameNoDecoder(h, out)
    PROVE  HeapInv' /\ Open' = Open
<1> USE DEF HeapInv
<1>1. /\ h \in Handles
      /\ decoders'[h] \in DecoderType
      /\ decoders'[h].anim = Null
      /\ \A g \in Handles : g # h => decoders'[g] = decoders[g]
  BY OpenFields DEF GetFrameNoDecoder, DecoderTypeOK, DecoderType
<1>2. \A p \in AnimPtrs : anims'[p] = IF p = decoders[h].anim THEN Null ELSE anims[p]
  BY DEF GetFrameNoDecoder, HeapForNew, Deleted
<1>3. DecoderTypeOK'
  <2>1. decoders' \in [Handles -> DecoderType \cup {Null}]
    BY <1>1 DEF DecoderTypeOK, GetFrameNoDecoder
  <2>2. anims' \in [AnimPtrs -> AnimType \cup {Null}]
    BY <1>2 DEF DecoderTypeOK, GetFrameNoDecoder, HeapForNew, Deleted
  <2> QED BY <2>1, <2>2 DEF DecoderTypeOK
<1>4. Open' = Open
  BY <1>1, NullAssumption DEF Open
<1>5. \A g \in Open \ {h} : decoders[g].anim # Null => decoders[g].anim # decoders[h].anim
  BY DEF AnimsOwned
<1>0. \A g \in Open \ {h} :
         /\ g \in Handles
         /\ decoders'[g] = decoders[g]
         /\ decoders[g].anim \in AnimPtrs \cup {Null}
  BY <1>1, AllOpenFields
<1>6. AnimsOwned'
  <2>1. \A g \in Open' : decoders'[g].anim # Null => anims'[decoders'[g].anim] # Null
    BY <1>0, <1>1, <1>2, <1>4, <1>5, NullAssumption DEF AnimsOwned
  <2>2. \A f, g \in Open' : decoders'[f].anim = decoders'[g].anim
                             /\ decoders'[f].anim # Null => f = g
    BY <1>0, <1>1, <1>4 DEF AnimsOwned
  <2>3. \A q \in AnimPtrs : anims'[q] # Null => \E g \in Open' : decoders'[g].anim = q
    BY <1>0, <1>2, <1>4 DEF AnimsOwned
  <2> QED BY <2>1, <2>2, <2>3 DEF AnimsOwned
<1>7. CanvasMatchesScale'
  BY <1>0, <1>1, <1>2, <1>4, <1>5 DEF CanvasMatchesScale
<1> QED BY <1>3, <1>4, <1>6, <1>7

\* Giving h the animation decoder a at address p, in the place of the one it
\* had, keeps the heap: p was free, or already belonged to h.
LEMMA HandOverKeepsHeap ==
    ASSUME HeapInv, NEW h \in Open, NEW p \in AnimPtrs, NEW a,
           DecoderTypeOK', Open' = Open,
           p = decoders[h].anim \/ anims[p] = Null,
           decoders'[h].anim = p,
           \A g \in Open : g # h => decoders'[g] = decoders[g],
           anims'[p] = a,
           a # Null,
           a.image = decoders'[h].image,
           a.canvas = CanvasFor(decoders'[h].image, decoders'[h].scale),
           \A q \in AnimPtrs :
               q # p => anims'[q] = IF q = decoders[h].anim THEN Null ELSE anims[q]
    PROVE  AnimsOwned' /\ CanvasMatchesScale'
<1> USE DEF HeapInv
<1>1. p # Null
  BY NullAssumption
<1>2. \A g \in Open : decoders[g].anim \in AnimPtrs \cup {Null}
  BY AllOpenFields
<1>3. \A g \in Open : g # h /\ decoders[g].anim # Null
                      => decoders[g].anim # decoders[h].anim /\ decoders[g].anim # p
  BY <1>1 DEF AnimsOwned
<1>4. \A g \in Open : g # h /\ decoders[g].anim # Null
                      => anims'[decoders[g].anim] = anims[decoders[g].anim]
  BY <1>2, <1>3
<1>5. AnimsOwned'
  <2>1. \A g \in Open' : decoders'[g].anim # Null => anims'[decoders'[g].anim] # Null
    BY <1>4 DEF AnimsOwned
  <2>2. \A f, g \in Open' : decoders'[f].anim = decoders'[g].anim
                             /\ decoders'[f].anim # Null => f = g
    BY <1>1, <1>3 DEF AnimsOwned
  <2>3. \A q \in AnimPtrs : anims'[q] # Null => \E g \in Open' : decoders'[g].anim = q
    BY DEF AnimsOwned
  <2> QED BY <2>1, <2>2, <2>3 DEF AnimsOwned
<1>6. CanvasMatchesScale'
  BY <1>4 DEF CanvasMatchesScale
<1> QED BY <1>5, <1>6

\* The animation decoder ensureAnimDecoder leaves behind belongs to the caller
\* alone, fits its scale, and may be at any frame.
LEMMA EnsureKeepsHeap ==
    ASSUME HeapInv, NEW h \in Open, NEW scale \in Nat \X Nat,
           NEW p \in EnsuredPtrs(h, scale), NEW a \in AnimType,
           a.image = decoders[h].image,
           a.canvas = CanvasFor(decoders[h].image, scale),
           decoders' = [decoders EXCEPT ![h].anim = p, ![h].scale = scale],
           anims' = [EnsuredHeap(h, scale) EXCEPT ![p] = a]
    PROVE  HeapInv' /\ Open' = Open
<1> USE DEF HeapInv
<1>1. p \in AnimPtrs /\ p # Null
  BY OpenFields, NullAssumption DEF EnsuredPtrs, Reusable
<1>2. /\ h \in Handles
      /\ decoders'[h] \in DecoderType
      /\ decoders'[h].anim = p
      /\ decoders'[h].scale = scale
      /\ decoders'[h].image = decoders[h].image
  BY <1>1, OpenFields DEF DecoderTypeOK, DecoderType
<1>3. \A g \in Handles : g # h => decoders'[g] = decoders[g]
  BY DEF DecoderTypeOK
<1>4. /\ EnsuredHeap(h, scale) \in [AnimPtrs -> AnimType \cup {Null}]
      /\ \A q \in AnimPtrs :
            q # p => EnsuredHeap(h, scale)[q] =
                        IF q = decoders[h].anim THEN Null ELSE anims[q]
  BY DEF EnsuredHeap, EnsuredPtrs, HeapForNew, Deleted, DecoderTypeOK
<1>5. /\ anims'[p] = a
      /\ a # Null
      /\ \A q \in AnimPtrs :
            q # p => anims'[q] = IF q = decoders[h].anim THEN Null ELSE anims[q]
  BY <1>1, <1>4, NullAssumption
<1>6. DecoderTypeOK'
  <2>1. decoders' \in [Handles -> DecoderType \cup {Null}]
    BY <1>2, <1>3 DEF DecoderTypeOK
  <2>2. anims' \in [AnimPtrs -> AnimType \cup {Null}]
    BY <1>4
  <2> QED BY <2>1, <2>2 DEF DecoderTypeOK
<1>7. Open' = Open
  BY <1>2, <1>3, NullAssumption DEF Open
<1>8. p = decoders[h].anim \/ anims[p] = Null
  BY <1>1 DEF EnsuredPtrs, HeapForNew, Deleted
<1>9. \A g \in Open : g # h => decoders'[g] = decoders[g]
  BY <1>3 DEF Open
<1>10. /\ a.image = decoders'[h].image
       /\ a.canvas = CanvasFor(decoders'[h].image, decoders'[h].scale)
  BY <1>2
<1>11. HeapInv
  OBVIOUS
<1>12. AnimsOwned' /\ CanvasMatchesScale'
  <2> HIDE DEF HeapInv
  <2> QED BY <1>1, <1>2, <1>5, <1>6, <1>7, <1>8, <1>9, <1>10, <1>11, HandOverKeepsHeap, ZenonT(60)
<1> QED BY <1>6, <1>7, <1>12

(****************************************************************************)
(* getFrame.                                                                *)
(****************************************************************************)
\* The animation decoder ensureAnimDecoder leaves behind is made for the
\* caller's file and for the scale asked for.
LEMMA EnsuredAnimFits ==
    ASSUME HeapInv, NEW h \in Open, NEW scale \in Nat \X Nat,
           NEW p \in EnsuredPtrs(h, scale)
    PROVE  /\ EnsuredAnim(h, scale, p) \in AnimType
           /\ EnsuredAnim(h, scale, p).image = decoders[h].image
           /\ EnsuredAnim(h, scale, p).canvas = CanvasFor(decoders[h].image, scale)
<1> DEFINE im == decoders[h].image
           e == EnsuredAnim(h, scale, p)
<1>1. im \in Images /\ decoders[h].anim \in AnimPtrs \cup {Null}
  BY OpenFields DEF HeapInv
<1>2. CASE Reusable(h, scale)
  <2>1. p = decoders[h].anim /\ p # Null /\ decoders[h].scale = scale
    BY <1>2 DEF EnsuredPtrs, Reusable
  <2>2. e = anims[p]
    BY <1>2 DEF EnsuredAnim
  <2>3. p \in AnimPtrs /\ anims[p] \in AnimType
    BY <1>1, <2>1 DEF HeapInv, AnimsOwned, DecoderTypeOK
  <2> QED BY <2>1, <2>2, <2>3 DEF HeapInv, CanvasMatchesScale
<1>3. CASE ~Reusable(h, scale)
  <2>1. e = NewAnim(im, scale)
    BY <1>3 DEF EnsuredAnim
  <2>2. CanvasFor(im, scale) \in Nat \X Nat
    BY <1>1, CanvasIsSize
  <2> HIDE DEF im, e
  <2> QED BY <1>1, <2>1, <2>2 DEF NewAnim, AnimType, im, e
<1> QED BY <1>2, <1>3

\* The animation decoder getFrame asks for a frame is the caller's, with a
\* canvas of the output size; for page 0 it stands at the first frame.
LEMMA FrameSourceFits ==
    ASSUME HeapInv, NEW h \in Open, NEW page \in Int,
           NEW out \in (Nat \ {0}) \X (Nat \ {0}),
           NEW p \in EnsuredPtrs(h, ScaleFor(decoders[h].image, out))
    PROVE  /\ FrameSource(h, page, out, p) \in AnimType
           /\ FrameSource(h, page, out, p).image = decoders[h].image
           /\ FrameSource(h, page, out, p).canvas
                 = CanvasFor(decoders[h].image, ScaleFor(decoders[h].image, out))
           /\ FrameSource(h, page, out, p).canvas = out
           /\ page = 0 => FrameSource(h, page, out, p).next = 1
<1> DEFINE im == decoders[h].image
           scale == ScaleFor(im, out)
           e == EnsuredAnim(h, scale, p)
<1>1. /\ scale \in Nat \X Nat
      /\ CanvasFor(im, scale) = out
  BY OpenFields, CanvasHasOutputSize DEF HeapInv
<1>2. e \in AnimType /\ e.image = im /\ e.canvas = CanvasFor(im, scale)
  BY <1>1, EnsuredAnimFits
<1>3. FrameSource(h, page, out, p) = RewoundFor(page, e)
  BY DEF FrameSource
<1> HIDE DEF e
<1>4. /\ RewoundFor(page, e) \in AnimType
      /\ RewoundFor(page, e).image = e.image
      /\ RewoundFor(page, e).canvas = e.canvas
      /\ page = 0 => RewoundFor(page, e).next = 1
  BY <1>2 DEF RewoundFor, AnimType
<1> QED BY <1>1, <1>2, <1>3, <1>4

\* However getFrame ends, the heap is in order and the same images are open.
LEMMA GetFrameFailsKeepsHeap ==
    ASSUME HeapInv, NEW h \in Open, NEW page \in Int,
           NEW out \in (Nat \ {0}) \X (Nat \ {0}), NEW p \in AnimPtrs,
           GetFrameFails(h, page, out, p)
    PROVE  HeapInv' /\ Open' = Open
<1> DEFINE scale == ScaleFor(decoders[h].image, out)
           a == FrameSource(h, page, out, p)
<1>1. p \in EnsuredPtrs(h, scale)
  BY DEF GetFrameFails
<1>2. a \in AnimType /\ a.image = decoders[h].image
      /\ a.canvas = CanvasFor(decoders[h].image, scale)
  BY <1>1, FrameSourceFits
<1>3. scale \in Nat \X Nat
  BY OpenFields, CanvasHasOutputSize DEF HeapInv
<1>4. /\ decoders' = [decoders EXCEPT ![h].anim = p, ![h].scale = scale]
      /\ anims' = [EnsuredHeap(h, scale) EXCEPT ![p] = a]
  BY DEF GetFrameFails
<1> HIDE DEF scale, a
<1> QED BY <1>1, <1>2, <1>3, <1>4, EnsureKeepsHeap

LEMMA GetFrameAnimatedKeepsHeap ==
    ASSUME HeapInv, NEW h \in Open, NEW page \in Int,
           NEW out \in (Nat \ {0}) \X (Nat \ {0}), NEW p \in AnimPtrs,
           GetFrameAnimated(h, page, out, p)
    PROVE  HeapInv' /\ Open' = Open /\ FrameSource(h, page, out, p).canvas = out
<1> DEFINE scale == ScaleFor(decoders[h].image, out)
           a == FrameSource(h, page, out, p)
           b == [a EXCEPT !.next = @ + 1]
<1>1. p \in EnsuredPtrs(h, scale)
  BY DEF GetFrameAnimated
<1>2. a \in AnimType /\ a.image = decoders[h].image
      /\ a.canvas = CanvasFor(decoders[h].image, scale) /\ a.canvas = out
  BY <1>1, FrameSourceFits
<1>3. scale \in Nat \X Nat
  BY OpenFields, CanvasHasOutputSize DEF HeapInv
<1>4. /\ decoders' = [decoders EXCEPT ![h].anim = p, ![h].scale = scale]
      /\ anims' = [EnsuredHeap(h, scale) EXCEPT ![p] = b]
  BY DEF GetFrameAnimated
<1>5. b \in AnimType /\ b.image = a.image /\ b.canvas = a.canvas
  <2> HIDE DEF a
  <2> QED BY <1>2 DEF AnimType
<1> HIDE DEF scale, b
<1> QED BY <1>1, <1>2, <1>3, <1>4, <1>5, EnsureKeepsHeap

(****************************************************************************)
(* The invariant of the plug-in.                                            *)
(****************************************************************************)
PluginInv ==
    HeapInv /\ PluginTypeOK /\ DibsOwned /\ CanvasFitsDib /\ NeverEnlarges

\* The part of it a call leaves alone that touches neither DIBs nor `last`.
LEMMA CountAndDelay ==
    ASSUME HeapInv, NEW h \in Open, NEW page \in Int
    PROVE  /\ GetFrameCount(h) \in Nat
           /\ InRange(h, page) => GetFrameDelay(h, page) \in Nat
<1> DEFINE im == decoders[h].image
<1>1. im \in Images
  BY OpenFields DEF HeapInv
<1>2. /\ im.animated \in BOOLEAN
      /\ im.durations \in Seq(Nat)
      /\ Len(im.durations) \in Nat
  BY <1>1, ImageFields
<1>3. \A i \in Int : 0 <= i /\ i < Len(im.durations) => im.durations[i + 1] \in Nat
  BY <1>2, SMTT(30)
<1> QED
  BY <1>2, <1>3 DEF GetFrameCount, GetFrameDelay, FrameDelay, DefaultFrameDelayMs, InRange

LEMMA SizeIsSize ==
    ASSUME HeapInv, NEW h \in Open, NEW req \in Requests
    PROVE  Size(h, req) \in (Nat \ {0}) \X (Nat \ {0})
BY OpenFields, ResolveIsSize, RequestsAssumption DEF HeapInv, Size

\* The DIB PageDecode hands over.
LEMMA DrawnIsDib ==
    ASSUME HeapInv, NEW h \in Open, NEW page \in Int, NEW frame \in Int,
           NEW req \in Requests
    PROVE  LET dib == Drawn(h, page, frame, req, Size(h, req)) IN
           /\ dib \in DibType
           /\ dib.canvas = dib.size
           /\ \/ dib.size = FullSize(dib.image)
              \/ dib.size[1] * dib.size[2] < dib.image.w * dib.image.h
<1>1. Size(h, req) \in Int \X Int
  BY SizeIsSize
<1>2. decoders[h].image \in Images
  BY OpenFields DEF HeapInv
<1>3. \/ Size(h, req) = FullSize(decoders[h].image)
      \/ Size(h, req)[1] * Size(h, req)[2] < decoders[h].image.w * decoders[h].image.h
  BY <1>2, ResolveNeverEnlarges, RequestsAssumption DEF Size
<1> QED BY <1>1, <1>2, <1>3 DEF Drawn, DibType

\* A DIB the host is given, or one it frees, keeps the books.
LEMMA GiveDib ==
    ASSUME PluginInv, NEW d \in FreeDibs, NEW dib \in DibType,
           dib.canvas = dib.size,
           \/ dib.size = FullSize(dib.image)
           \/ dib.size[1] * dib.size[2] < dib.image.w * dib.image.h,
           dibs' = [dibs EXCEPT ![d] = dib],
           held' = held \cup {d}
    PROVE  /\ dibs' \in [Dibs -> DibType \cup {Null}] /\ held' \subseteq Dibs
           /\ DibsOwned' /\ CanvasFitsDib' /\ NeverEnlarges'
<1>1. d \in Dibs /\ dibs \in [Dibs -> DibType \cup {Null}] /\ held \subseteq Dibs
  BY DEF FreeDibs, PluginInv, PluginTypeOK
<1>2. dibs'[d] = dib /\ \A e \in Dibs : e # d => dibs'[e] = dibs[e]
  BY <1>1
<1>3. dib # Null
  BY DibNullAssumption
<1>4. DibsOwned'
  BY <1>1, <1>2, <1>3 DEF PluginInv, DibsOwned
<1>5. CanvasFitsDib'
  BY <1>1, <1>2 DEF PluginInv, CanvasFitsDib
<1>6. NeverEnlarges'
  <2> SUFFICES ASSUME NEW e \in held'
               PROVE  \/ dibs'[e].size = FullSize(dibs'[e].image)
                      \/ dibs'[e].size[1] * dibs'[e].size[2]
                            < dibs'[e].image.w * dibs'[e].image.h
    BY DEF NeverEnlarges
  <2>1. CASE e = d
    BY <2>1, <1>2
  <2>2. CASE e # d
    <3>1. e \in held /\ dibs'[e] = dibs[e]
      BY <2>2, <1>1, <1>2
    <3> QED BY <3>1 DEF PluginInv, NeverEnlarges
  <2> QED BY <2>1, <2>2
<1> QED BY <1>1, <1>4, <1>5, <1>6

LEMMA HeapUnchanged ==
    ASSUME HeapInv, UNCHANGED decoderVars
    PROVE  HeapInv'
BY DEF HeapInv, decoderVars, DecoderTypeOK, AnimsOwned, CanvasMatchesScale, Open

LEMMA CallTyped ==
    ASSUME NEW op \in Ops, NEW h \in Handles \cup {Null}, NEW status \in Status,
           NEW value \in Int, Returns(op, h, status, value)
    PROVE  last' \in CallType
BY DEF Returns, CallType

\* A call that touches no object keeps the invariant.
LEMMA QuietCall ==
    ASSUME PluginInv, UNCHANGED <<decoderVars, dibs, held>>,
           plugin' \in 0..1, last' \in CallType
    PROVE  PluginInv'
<1>1. HeapInv'
  BY HeapUnchanged DEF PluginInv
<1>2. PluginTypeOK'
  BY <1>1 DEF PluginInv, HeapInv, PluginTypeOK
<1>3. DibsOwned' /\ CanvasFitsDib' /\ NeverEnlarges'
  BY DEF PluginInv, DibsOwned, CanvasFitsDib, NeverEnlarges
<1> QED BY <1>1, <1>2, <1>3 DEF PluginInv

\* A call that changes decoders only.
LEMMA DecoderCall ==
    ASSUME PluginInv, HeapInv', UNCHANGED <<dibs, held>>,
           plugin' \in 0..1, last' \in CallType
    PROVE  PluginInv'
<1>1. PluginTypeOK'
  BY DEF PluginInv, HeapInv, PluginTypeOK
<1>2. DibsOwned' /\ CanvasFitsDib' /\ NeverEnlarges'
  BY DEF PluginInv, DibsOwned, CanvasFitsDib, NeverEnlarges
<1> QED BY <1>1, <1>2 DEF PluginInv

\* Initially nothing is allocated.
LEMMA PluginInitInv == PluginInit => PluginInv
<1> SUFFICES ASSUME PluginInit PROVE PluginInv
  OBVIOUS
<1> USE DEF PluginInit, DecoderInit
<1>1. Open = {}
  BY DEF Open
<1>2. HeapInv
  BY <1>1 DEF HeapInv, DecoderTypeOK, AnimsOwned, CanvasMatchesScale
<1>3. PluginTypeOK
  <2>1. last \in CallType
    BY DEF CallType, Ops, Status
  <2>2. dibs \in [Dibs -> DibType \cup {Null}] /\ held \subseteq Dibs /\ plugin \in 0..1
    OBVIOUS
  <2> QED BY <1>2, <2>1, <2>2 DEF HeapInv, PluginTypeOK
<1>4. DibsOwned /\ CanvasFitsDib /\ NeverEnlarges
  BY DEF DibsOwned, CanvasFitsDib, NeverEnlarges
<1> QED BY <1>2, <1>3, <1>4 DEF PluginInv

\* PageDecode, when it fails in getFrame.
LEMMA PageDecodeFailsInv ==
    ASSUME PluginInv, NEW h \in Open, NEW page \in Pages, NEW req \in Requests,
           NEW d \in Dibs, PageDecodeFails(h, page, req, d)
    PROVE  PluginInv'
<1> DEFINE out == Size(h, req)
<1>1. out \in (Nat \ {0}) \X (Nat \ {0}) /\ page \in Int
  BY SizeIsSize, PagesAssumption DEF PluginInv
<1>2. HeapInv'
  <2>1. CASE GetFrameStatic(h)
    BY <2>1, HeapUnchanged DEF PluginInv, GetFrameStatic
  <2>2. CASE GetFrameNoDecoder(h, out)
    BY <2>2, NoDecoderKeepsHeap DEF PluginInv
  <2>3. CASE \E p \in AnimPtrs : GetFrameFails(h, page, out, p)
    BY <2>3, <1>1, GetFrameFailsKeepsHeap DEF PluginInv
  <2> QED BY <2>1, <2>2, <2>3 DEF PageDecodeFails
<1>3. UNCHANGED <<dibs, held>>
  BY DEF PageDecodeFails, ReleasedDib, FreeDibs, PluginInv, PluginTypeOK
<1>4. plugin' \in 0..1
  BY DEF PageDecodeFails, PluginInv, PluginTypeOK
<1>5. last' \in CallType
  <2>1. Returns("PageDecode", h, "CorruptData", 0) /\ h \in Handles
    BY DEF PageDecodeFails, Open
  <2> QED BY <2>1, CallTyped DEF Ops, Status
<1> QED BY <1>2, <1>3, <1>4, <1>5, DecoderCall

\* PageDecode, when it succeeds.
LEMMA PageDecodeInv ==
    ASSUME PluginInv, NEW h \in Open, NEW page \in Pages, NEW req \in Requests,
           NEW d \in Dibs, PageDecode(h, page, req, d)
    PROVE  PluginInv'
<1> DEFINE out == Size(h, req)
<1>1. out \in (Nat \ {0}) \X (Nat \ {0}) /\ page \in Int
  BY SizeIsSize, PagesAssumption DEF PluginInv
<1>2. /\ HeapInv'
      /\ \E frame \in Int : dibs' = [dibs EXCEPT ![d] = Drawn(h, page, frame, req, out)]
  <2>1. CASE /\ GetFrameStatic(h)
             /\ dibs' = [dibs EXCEPT ![d] = Drawn(h, page, 0, req, out)]
    <3>1. HeapInv'
      BY <2>1, HeapUnchanged DEF PluginInv, GetFrameStatic
    <3>2. 0 \in Int /\ dibs' = [dibs EXCEPT ![d] = Drawn(h, page, 0, req, out)]
      BY <2>1
    <3> QED BY <3>1, <3>2
  <2>2. ASSUME NEW p \in AnimPtrs, GetFrameAnimated(h, page, out, p),
               dibs' = [dibs EXCEPT ![d] = Drawn(h, page, FrameSource(h, page, out, p).next - 1,
                                              req, FrameSource(h, page, out, p).canvas)]
        PROVE  /\ HeapInv'
               /\ \E frame \in Int :
                     dibs' = [dibs EXCEPT ![d] = Drawn(h, page, frame, req, out)]
    <3>1. HeapInv' /\ FrameSource(h, page, out, p).canvas = out
      BY <2>2, <1>1, GetFrameAnimatedKeepsHeap DEF PluginInv
    <3>2. FrameSource(h, page, out, p) \in AnimType
      BY <2>2, <1>1, FrameSourceFits DEF PluginInv, GetFrameAnimated
    <3>3. FrameSource(h, page, out, p).next - 1 \in Int
      BY <3>2 DEF AnimType
    <3> QED BY <2>2, <3>1, <3>3
  <2> QED BY <2>1, <2>2 DEF PageDecode
<1>3. PICK frame \in Int : dibs' = [dibs EXCEPT ![d] = Drawn(h, page, frame, req, out)]
  BY <1>2
<1> DEFINE dib == Drawn(h, page, frame, req, out)
<1>4. /\ dib \in DibType
      /\ dib.canvas = dib.size
      /\ \/ dib.size = FullSize(dib.image)
         \/ dib.size[1] * dib.size[2] < dib.image.w * dib.image.h
  BY <1>1, DrawnIsDib DEF PluginInv
<1>5. d \in FreeDibs /\ held' = held \cup {d} /\ dibs' = [dibs EXCEPT ![d] = dib]
  BY <1>3 DEF PageDecode
<1>6. /\ dibs' \in [Dibs -> DibType \cup {Null}] /\ held' \subseteq Dibs
      /\ DibsOwned' /\ CanvasFitsDib' /\ NeverEnlarges'
  <2> HIDE DEF dib
  <2> QED BY <1>4, <1>5, GiveDib
<1>7. plugin' \in 0..1
  BY DEF PageDecode, PluginInv, PluginTypeOK
<1>8. last' \in CallType
  <2>1. Returns("PageDecode", h, "OK", 0) /\ h \in Handles
    BY DEF PageDecode, Open
  <2> QED BY <2>1, CallTyped DEF Ops, Status
<1> QED BY <1>2, <1>6, <1>7, <1>8 DEF PluginInv, PluginTypeOK, HeapInv

\* The host frees a DIB it holds.
LEMMA GlobalFreeInv ==
    ASSUME PluginInv, NEW d \in Dibs, GlobalFree(d)
    PROVE  PluginInv'
<1>1. /\ dibs'[d] = Null
      /\ \A e \in Dibs : e # d => dibs'[e] = dibs[e]
      /\ held' = held \ {d}
  BY DEF GlobalFree, PluginInv, PluginTypeOK
<1>2. HeapInv'
  BY HeapUnchanged DEF GlobalFree, PluginInv
<1>3. PluginTypeOK'
  <2>1. last' \in CallType
    BY CallTyped DEF GlobalFree, Ops, Status
  <2>2. /\ dibs' \in [Dibs -> DibType \cup {Null}]
        /\ held' \subseteq Dibs
        /\ plugin' \in 0..1
    BY DEF GlobalFree, PluginInv, PluginTypeOK
  <2> QED BY <1>2, <2>1, <2>2 DEF HeapInv, PluginTypeOK
<1>4. DibsOwned'
  BY <1>1 DEF PluginInv, DibsOwned
<1>5. \A e \in held' : e \in held /\ dibs'[e] = dibs[e]
  BY <1>1 DEF PluginInv, PluginTypeOK
<1>6. CanvasFitsDib' /\ NeverEnlarges'
  BY <1>5 DEF PluginInv, CanvasFitsDib, NeverEnlarges
<1> QED BY <1>2, <1>3, <1>4, <1>6 DEF PluginInv

\* Every call keeps the invariant.
LEMMA PluginNextInv == PluginInv /\ [PluginNext]_vars => PluginInv'
<1> SUFFICES ASSUME PluginInv, [PluginNext]_vars PROVE PluginInv'
  OBVIOUS
<1>0. plugin \in 0..1
  BY DEF PluginInv, PluginTypeOK
<1>1. CASE IDP_Init \/ DllDetach \/ NotInitialised
  <2>1. plugin' \in 0..1 /\ UNCHANGED <<decoderVars, dibs, held>>
    BY <1>0, <1>1 DEF IDP_Init, DllDetach, NotInitialised
  <2>2. last' \in CallType
    BY <1>1, CallTyped DEF IDP_Init, DllDetach, NotInitialised, Ops, Status
  <2> QED BY <2>1, <2>2, QuietCall
<1>2. ASSUME NEW status \in Status, OpenImageFails(status) PROVE PluginInv'
  <2>1. last' \in CallType
    BY <1>2, CallTyped DEF OpenImageFails, Ops
  <2> QED BY <1>0, <1>2, <2>1, QuietCall DEF OpenImageFails
<1>3. ASSUME NEW h \in Handles, NEW im \in Images, OpenImage(h, im) PROVE PluginInv'
  <2>1. HeapInv'
    BY <1>3, ConstructKeepsHeap DEF OpenImage, PluginInv
  <2>2. last' \in CallType
    BY <1>3, CallTyped DEF OpenImage, Ops, Status
  <2> QED BY <1>0, <1>3, <2>1, <2>2, DecoderCall DEF OpenImage
<1>4. ASSUME NEW h \in Open \cup {Null}, CloseImage(h) PROVE PluginInv'
  <2>1. last' \in CallType
    BY <1>4, CallTyped DEF CloseImage, Ops, Status, Open
  <2>2. CASE h = Null
    BY <1>0, <1>4, <2>1, <2>2, QuietCall DEF CloseImage
  <2>3. CASE h # Null
    <3>1. HeapInv'
      BY <1>4, <2>3, DestroyKeepsHeap DEF CloseImage, PluginInv
    <3> QED BY <1>0, <1>4, <2>1, <3>1, DecoderCall DEF CloseImage
  <2> QED BY <2>2, <2>3
<1>5. ASSUME NEW op \in {"GetImageInfo", "GetPageInfo", "PageDecode"}, NullHandle(op)
      PROVE  PluginInv'
  <2>1. last' \in CallType
    BY <1>5, CallTyped DEF NullHandle, Ops, Status
  <2> QED BY <1>0, <1>5, <2>1, QuietCall DEF NullHandle
<1>6. ASSUME NEW h \in Open, GetImageInfo(h) PROVE PluginInv'
  <2>1. GetFrameCount(h) \in Nat /\ h \in Handles
    BY CountAndDelay DEF PluginInv, Open
  <2>2. last' \in CallType
    BY <1>6, <2>1, CallTyped DEF GetImageInfo, Ops, Status
  <2> QED BY <1>0, <1>6, <2>2, QuietCall DEF GetImageInfo
<1>7. ASSUME NEW h \in Open, NEW page \in Pages, GetPageInfo(h, page) PROVE PluginInv'
  <2>1. (InRange(h, page) => GetFrameDelay(h, page) \in Nat) /\ h \in Handles
    BY CountAndDelay, PagesAssumption DEF PluginInv, Open
  <2>2. last' \in CallType
    BY <1>7, <2>1, CallTyped DEF GetPageInfo, Ops, Status
  <2> QED BY <1>0, <1>7, <2>2, QuietCall DEF GetPageInfo
<1>8. ASSUME NEW h \in Open, NEW page \in Pages,
             PageDecodeNoPage(h, page) \/ PageDecodeTooBig(h, page)
      PROVE  PluginInv'
  <2>1. last' \in CallType
    BY <1>8, CallTyped DEF PageDecodeNoPage, PageDecodeTooBig, Ops, Status, Open
  <2> QED BY <1>0, <1>8, <2>1, QuietCall DEF PageDecodeNoPage, PageDecodeTooBig
<1>9. ASSUME NEW h \in Open, NEW page \in Pages, NEW req \in Requests, NEW d \in Dibs,
             PageDecodeFails(h, page, req, d)
      PROVE  PluginInv'
  BY <1>9, PageDecodeFailsInv
<1>10. ASSUME NEW h \in Open, NEW page \in Pages, NEW req \in Requests, NEW d \in Dibs,
              PageDecode(h, page, req, d)
       PROVE  PluginInv'
  BY <1>10, PageDecodeInv
<1>11. ASSUME NEW d \in Dibs, GlobalFree(d) PROVE PluginInv'
  BY <1>11, GlobalFreeInv
<1>12. CASE UNCHANGED vars
  BY <1>0, <1>12, QuietCall DEF vars, decoderVars, PluginInv, PluginTypeOK
<1> QED
  BY <1>1, <1>2, <1>3, <1>4, <1>5, <1>6, <1>7, <1>8, <1>9, <1>10, <1>11, <1>12
  DEF PluginNext

(****************************************************************************)
(* Isolation.                                                               *)
(****************************************************************************)
\* A step that changes the decoder h only, and no animation decoder but the one
\* h owns and free addresses, disturbs no other open image.
LEMMA StepIsIsolated ==
    ASSUME HeapInv, NEW h,
           \A g \in Open : g # h => decoders'[g] = decoders[g],
           \A q \in AnimPtrs : \/ anims'[q] = anims[q]
                               \/ anims[q] = Null
                               \/ h \in Open /\ q = decoders[h].anim
    PROVE  \A g \in Open : g # h => Undisturbed(g)
BY AllOpenFields DEF HeapInv, AnimsOwned, Undisturbed

LEMMA ConstructIsIsolated ==
    ASSUME HeapInv, NEW h \in Handles, NEW im \in Images, Construct(h, im)
    PROVE  \A g \in Open : g # h => Undisturbed(g)
<1>1. \A g \in Open : g # h => decoders'[g] = decoders[g]
  BY DEF Construct, HeapInv, DecoderTypeOK, Open
<1> QED BY <1>1, StepIsIsolated DEF Construct

LEMMA DestroyIsIsolated ==
    ASSUME HeapInv, NEW h \in Open, Destroy(h)
    PROVE  \A g \in Open : g # h => Undisturbed(g)
<1>1. \A g \in Open : g # h => decoders'[g] = decoders[g]
  BY DEF Destroy, HeapInv, DecoderTypeOK, Open
<1>2. \A q \in AnimPtrs : anims'[q] = anims[q] \/ q = decoders[h].anim
  BY DEF Destroy, Deleted
<1> QED BY <1>1, <1>2, StepIsIsolated

LEMMA NoDecoderIsIsolated ==
    ASSUME HeapInv, NEW h \in Open, NEW out, GetFrameNoDecoder(h, out)
    PROVE  \A g \in Open : g # h => Undisturbed(g)
<1>1. \A g \in Open : g # h => decoders'[g] = decoders[g]
  BY DEF GetFrameNoDecoder, HeapInv, DecoderTypeOK, Open
<1>2. \A q \in AnimPtrs : anims'[q] = anims[q] \/ q = decoders[h].anim
  BY DEF GetFrameNoDecoder, HeapForNew, Deleted
<1> QED BY <1>1, <1>2, StepIsIsolated

LEMMA EnsureIsIsolated ==
    ASSUME HeapInv, NEW h \in Open, NEW scale, NEW p \in EnsuredPtrs(h, scale), NEW a,
           decoders' = [decoders EXCEPT ![h].anim = p, ![h].scale = scale],
           anims' = [EnsuredHeap(h, scale) EXCEPT ![p] = a]
    PROVE  \A g \in Open : g # h => Undisturbed(g)
<1>1. \A g \in Open : g # h => decoders'[g] = decoders[g]
  BY DEF HeapInv, DecoderTypeOK, Open
<1>2. \A q \in AnimPtrs : q # p => anims'[q] = anims[q] \/ q = decoders[h].anim
  BY DEF EnsuredHeap, HeapForNew, Deleted, HeapInv, DecoderTypeOK
<1>3. p = decoders[h].anim \/ anims[p] = Null
  BY DEF EnsuredPtrs, HeapForNew, Deleted
<1> QED BY <1>1, <1>2, <1>3, StepIsIsolated

\* Every call is isolated.
LEMMA PluginNextIsolated ==
    PluginInv /\ [PluginNext]_vars =>
        [\A h \in Open : h # last'.h => Undisturbed(h)]_vars
<1> SUFFICES ASSUME PluginInv, PluginNext
             PROVE  \A h \in Open : h # last'.h => Undisturbed(h)
  OBVIOUS
<1>0. HeapInv
  BY DEF PluginInv
<1>1. CASE UNCHANGED decoderVars
  BY <1>1 DEF decoderVars, Undisturbed
<1>2. ASSUME NEW h \in Handles, NEW im \in Images, OpenImage(h, im)
      PROVE  \A g \in Open : g # last'.h => Undisturbed(g)
  BY <1>0, <1>2, ConstructIsIsolated DEF OpenImage, Returns
<1>3. ASSUME NEW h \in Open, Destroy(h), CloseImage(h)
      PROVE  \A g \in Open : g # last'.h => Undisturbed(g)
  BY <1>0, <1>3, DestroyIsIsolated DEF CloseImage, Returns
<1>4. ASSUME NEW h \in Open, last'.h = h, NEW out, GetFrameNoDecoder(h, out)
      PROVE  \A g \in Open : g # last'.h => Undisturbed(g)
  BY <1>0, <1>4, NoDecoderIsIsolated
<1>5. ASSUME NEW h \in Open, last'.h = h, NEW page, NEW out, NEW p \in AnimPtrs,
             GetFrameFails(h, page, out, p) \/ GetFrameAnimated(h, page, out, p)
      PROVE  \A g \in Open : g # last'.h => Undisturbed(g)
  <2>1. p \in EnsuredPtrs(h, ScaleFor(decoders[h].image, out))
    BY <1>5 DEF GetFrameFails, GetFrameAnimated
  <2>2. PICK a : /\ decoders' = [decoders EXCEPT ![h].anim = p,
                                   ![h].scale = ScaleFor(decoders[h].image, out)]
                 /\ anims' = [EnsuredHeap(h, ScaleFor(decoders[h].image, out))
                                 EXCEPT ![p] = a]
    BY <1>5 DEF GetFrameFails, GetFrameAnimated
  <2> QED BY <1>0, <1>5, <2>1, <2>2, EnsureIsIsolated
<1>6. CASE \/ IDP_Init \/ DllDetach \/ NotInitialised
           \/ \E status \in Status : OpenImageFails(status)
           \/ \E op \in {"GetImageInfo", "GetPageInfo", "PageDecode"} : NullHandle(op)
           \/ \E h \in Open : GetImageInfo(h)
           \/ \E h \in Open, page \in Pages : \/ GetPageInfo(h, page)
                                             \/ PageDecodeNoPage(h, page)
                                             \/ PageDecodeTooBig(h, page)
           \/ \E d \in Dibs : GlobalFree(d)
  BY <1>1, <1>6 DEF IDP_Init, DllDetach, NotInitialised, OpenImageFails, NullHandle,
     GetImageInfo, GetPageInfo, PageDecodeNoPage, PageDecodeTooBig, GlobalFree
<1>7. ASSUME NEW h \in Open \cup {Null}, CloseImage(h)
      PROVE  \A g \in Open : g # last'.h => Undisturbed(g)
  <2>1. CASE h = Null
    BY <1>1, <1>7, <2>1 DEF CloseImage
  <2>2. CASE h # Null
    BY <1>3, <1>7, <2>2 DEF CloseImage
  <2> QED BY <2>1, <2>2
<1>8. ASSUME NEW h \in Open, NEW page \in Pages, NEW req \in Requests, NEW d \in Dibs,
             PageDecodeFails(h, page, req, d)
      PROVE  \A g \in Open : g # last'.h => Undisturbed(g)
  <2>1. last'.h = h
    BY <1>8 DEF PageDecodeFails, Returns
  <2> QED BY <1>1, <1>4, <1>5, <1>8, <2>1 DEF PageDecodeFails, GetFrameStatic
<1>9. ASSUME NEW h \in Open, NEW page \in Pages, NEW req \in Requests, NEW d \in Dibs,
             PageDecode(h, page, req, d)
      PROVE  \A g \in Open : g # last'.h => Undisturbed(g)
  <2>1. last'.h = h
    BY <1>9 DEF PageDecode, Returns
  <2> QED BY <1>1, <1>5, <1>9, <2>1 DEF PageDecode, GetFrameStatic
<1> QED
  BY <1>2, <1>6, <1>7, <1>8, <1>9 DEF PluginNext

\* Type correctness of the plug-in, for every host.
THEOREM PluginTypeCorrect == PluginSpec => []PluginTypeOK
<1>1. PluginSpec => []PluginInv
  BY PluginInitInv, PluginNextInv, PTL DEF PluginSpec
<1>2. PluginInv => PluginTypeOK
  BY DEF PluginInv
<1> QED BY <1>1, <1>2, PTL

\* No animation decoder is leaked, shared or dangling, whatever the host calls
\* and whichever allocations and decodes fail.
THEOREM AnimationOwnership == PluginSpec => []AnimsOwned
<1>1. PluginSpec => []PluginInv
  BY PluginInitInv, PluginNextInv, PTL DEF PluginSpec
<1>2. PluginInv => AnimsOwned
  BY DEF PluginInv, HeapInv
<1> QED BY <1>1, <1>2, PTL

\* No DIB is leaked by an error path or freed under the host.
THEOREM DibOwnership == PluginSpec => []DibsOwned
<1>1. PluginSpec => []PluginInv
  BY PluginInitInv, PluginNextInv, PTL DEF PluginSpec
<1>2. PluginInv => DibsOwned
  BY DEF PluginInv
<1> QED BY <1>1, <1>2, PTL

\* Pixels are always copied between a canvas and a DIB of one size.
THEOREM CanvasAlwaysFits == PluginSpec => []CanvasFitsDib
<1>1. PluginSpec => []PluginInv
  BY PluginInitInv, PluginNextInv, PTL DEF PluginSpec
<1>2. PluginInv => CanvasFitsDib
  BY DEF PluginInv
<1> QED BY <1>1, <1>2, PTL

\* No output has more pixels than its file.
THEOREM OutputNeverEnlarges == PluginSpec => []NeverEnlarges
<1>1. PluginSpec => []PluginInv
  BY PluginInitInv, PluginNextInv, PTL DEF PluginSpec
<1>2. PluginInv => NeverEnlarges
  BY DEF PluginInv
<1> QED BY <1>1, <1>2, PTL

\* No call disturbs an image it is not about.
THEOREM Isolation == PluginSpec => CallsAreIsolated
<1>1. PluginSpec => []PluginInv
  BY PluginInitInv, PluginNextInv, PTL DEF PluginSpec
<1> QED BY <1>1, PluginNextIsolated, PTL DEF PluginSpec, CallsAreIsolated

\* Through every failure of every call, what is allocated has one owner.
THEOREM EverythingIsOwned == PluginSpec => []Owned
<1> QED BY PluginTypeCorrect, AnimationOwnership, DibOwnership, PTL DEF Owned


(****************************************************************************)
(* The host only makes calls the plug-in allows.                            *)
(****************************************************************************)
LEMMA HostStepIsCall == [HostNext]_hostVars => [PluginNext]_vars
<1> SUFFICES ASSUME [HostNext]_hostVars PROVE [PluginNext]_vars
  OBVIOUS
<1> USE DEF PluginNext
<1>1. CASE HostLoads
  BY <1>1 DEF HostLoads
<1>2. ASSUME NEW h \in Handles, NEW im \in Images, HostOpens(h, im) PROVE PluginNext
  BY <1>2 DEF HostOpens
<1>3. ASSUME NEW h \in Open, HostCloses(h) PROVE PluginNext
  BY <1>3 DEF HostCloses
<1>4. ASSUME NEW h \in Open, HostAsksImage(h) PROVE PluginNext
  BY <1>4 DEF HostAsksImage
<1>5. ASSUME NEW h \in Open, NEW page \in Pages, HostAsksPage(h, page) PROVE PluginNext
  BY <1>5 DEF HostAsksPage
<1>6. ASSUME NEW h \in Open, NEW page \in Pages, NEW req \in Requests, NEW d \in Dibs,
             HostDecodes(h, page, req, d) \/ HostIsRefused(h, page, req, d)
      PROVE  PluginNext
  BY <1>6 DEF HostDecodes, HostIsRefused
<1>7. CASE UNCHANGED hostVars
  BY <1>7 DEF hostVars
<1> QED
  BY <1>1, <1>2, <1>3, <1>4, <1>5, <1>6, <1>7 DEF HostNext

(****************************************************************************)
(* The position of every animation decoder follows its host's pass.         *)
(****************************************************************************)
InStep(h) ==
    LET d == decoders[h] IN
    (d.image.animated /\ host[h].next > 0) =>
        /\ d.anim # Null
        /\ d.scale = ScaleFor(d.image, host[h].size)
        /\ anims[d.anim].next = host[h].next + 1

KnowsPages(h) == host[h].pages \in {0, GetFrameCount(h)}

HostInv ==
    /\ PluginInv
    /\ host \in [Handles -> HostType]
    /\ \A h \in Open : InStep(h) /\ KnowsPages(h)
    /\ PageShown
    /\ AnnouncedPages

\* What an open image's host knows stays true when the image is not disturbed.
LEMMA UndisturbedKeepsStep ==
    ASSUME NEW h, InStep(h), KnowsPages(h), Undisturbed(h), host'[h] = host[h]
    PROVE  InStep(h)' /\ KnowsPages(h)'
BY DEF InStep, KnowsPages, Undisturbed, GetFrameCount

\* Frames of an animation are numbered like its pages, a still has one page.
LEMMA FrameInRange ==
    ASSUME HeapInv, NEW h \in Open, NEW page \in Int, 0 <= page, page < GetFrameCount(h)
    PROVE  /\ InRange(h, page)
           /\ ~decoders[h].image.animated => page = 0
           /\ decoders[h].image.animated => GetFrameDelay(h, page) > 0
<1> DEFINE im == decoders[h].image
<1>1. im \in Images
  BY OpenFields DEF HeapInv
<1>2. /\ im.animated \in BOOLEAN
      /\ im.durations \in Seq(Nat)
      /\ Len(im.durations) \in Nat
  BY <1>1, ImageFields
<1>3. \A i \in Int : 0 <= i /\ i < Len(im.durations) => im.durations[i + 1] \in Nat
  BY <1>2, SMTT(30)
<1>4. CASE im.animated
  BY <1>2, <1>3, <1>4 DEF GetFrameCount, GetFrameDelay, FrameDelay, DefaultFrameDelayMs, InRange
<1>5. CASE ~im.animated
  BY <1>5 DEF GetFrameCount, InRange
<1> QED BY <1>4, <1>5

\* The heart of the matter: the animation decoder stands at the page the host
\* asks for next, whether it was re-created, rewound or just left there.
LEMMA InOrderFrame ==
    ASSUME HostInv, NEW h \in Open, NEW page \in Pages, NEW req \in Requests,
           page \in Announced(h), InOrder(h, page, req),
           decoders[h].image.animated,
           NEW p \in EnsuredPtrs(h, ScaleFor(decoders[h].image, Size(h, req)))
    PROVE  FrameSource(h, page, Size(h, req), p).next = page + 1
<1> DEFINE out == Size(h, req)
           scale == ScaleFor(decoders[h].image, out)
<1>0. page \in Int /\ 0 <= page /\ HeapInv
  BY PagesAssumption DEF Announced, HostInv, PluginInv
<1>1. CASE page = 0
  <2>1. out \in (Nat \ {0}) \X (Nat \ {0})
    BY <1>0, SizeIsSize
  <2> QED BY <1>0, <1>1, <2>1, FrameSourceFits
<1>2. CASE page # 0
  <2>1. page = host[h].next /\ out = host[h].size
    BY <1>2 DEF InOrder
  <2>2. host[h].next > 0
    BY <1>0, <1>2, <2>1
  <2>3. /\ decoders[h].anim # Null
        /\ decoders[h].scale = scale
        /\ anims[decoders[h].anim].next = page + 1
    BY <2>1, <2>2 DEF HostInv, InStep
  <2>4. Reusable(h, scale)
    BY <2>3 DEF Reusable
  <2>5. p = decoders[h].anim /\ EnsuredAnim(h, scale, p) = anims[p]
    BY <2>4 DEF EnsuredPtrs, EnsuredAnim
  <2> QED BY <1>2, <2>3, <2>5 DEF FrameSource, RewoundFor
<1> QED BY <1>1, <1>2

(****************************************************************************)
(* Each call of the host keeps the invariant.                               *)
(****************************************************************************)
\* The part of the invariant about open images follows image by image.
LEMMA HostInvIntro ==
    ASSUME HostInv, PluginInv', host' \in [Handles -> HostType], PageShown', AnnouncedPages',
           NEW h, h \in Open' => InStep(h)' /\ KnowsPages(h)',
           Open' \subseteq Open \cup {h},
           \A g \in Open : g # h => Undisturbed(g) /\ host'[g] = host[g]
    PROVE  HostInv'
<1>1. ASSUME NEW g \in Open' PROVE InStep(g)' /\ KnowsPages(g)'
  <2>1. CASE g = h
    BY <1>1, <2>1
  <2>2. CASE g # h
    <3>1. g \in Open
      BY <1>1, <2>2
    <3>2. InStep(g) /\ KnowsPages(g) /\ Undisturbed(g) /\ host'[g] = host[g]
      BY <2>2, <3>1 DEF HostInv
    <3> QED BY <3>2, UndisturbedKeepsStep
  <2> QED BY <2>1, <2>2
<1> QED BY <1>1 DEF HostInv

\* A call that changes neither the heap nor what the host knows.
LEMMA HostQuiet ==
    ASSUME HostInv, PluginInv', UNCHANGED <<decoderVars, host>>, PageShown', AnnouncedPages'
    PROVE  HostInv'
<1>1. Open' = Open /\ \A g \in Open : Undisturbed(g)
  BY DEF Open, Undisturbed, decoderVars
<1>2. \A g \in Open : InStep(g)' /\ KnowsPages(g)'
  BY <1>1, UndisturbedKeepsStep DEF HostInv
<1> QED BY <1>1, <1>2 DEF HostInv

LEMMA HostLoadsInv == HostInv /\ PluginInv' /\ HostLoads => HostInv'
<1> SUFFICES ASSUME HostInv, PluginInv', HostLoads PROVE HostInv'
  OBVIOUS
<1>1. UNCHANGED <<decoderVars, host>>
  BY DEF HostLoads, IDP_Init, DllDetach, GlobalFree
<1>2. AnnouncedPages'
  BY DEF HostLoads, IDP_Init, DllDetach, GlobalFree, Returns, AnnouncedPages
<1>3. PageShown'
  <2>1. CASE IDP_Init \/ DllDetach
    BY <2>1 DEF IDP_Init, DllDetach, HostInv, PageShown
  <2>2. ASSUME NEW d \in Dibs, GlobalFree(d) PROVE PageShown'
    BY <2>2 DEF GlobalFree, HostInv, PageShown, PluginInv, PluginTypeOK
  <2> QED BY <2>1, <2>2 DEF HostLoads
<1> QED BY <1>1, <1>2, <1>3, HostQuiet

LEMMA HostOpensInv ==
    ASSUME HostInv, PluginInv', NEW h \in Handles, NEW im \in Images, HostOpens(h, im)
    PROVE  HostInv'
<1>1. Construct(h, im) /\ UNCHANGED <<dibs, held>>
  BY DEF HostOpens, OpenImage
<1>2. /\ host' \in [Handles -> HostType]
      /\ host'[h] = Fresh
      /\ \A g \in Handles : g # h => host'[g] = host[g]
  BY DEF HostOpens, HostInv, Fresh, HostType
<1>3. PageShown' /\ AnnouncedPages'
  BY <1>1 DEF HostInv, PageShown, AnnouncedPages, HostOpens, OpenImage, Returns
<1>4. InStep(h)' /\ KnowsPages(h)'
  BY <1>2 DEF InStep, KnowsPages, Fresh
<1>5. \A g \in Open : g # h => Undisturbed(g)
  BY <1>1, ConstructIsIsolated DEF HostInv, PluginInv
<1>6. Open' \subseteq Open \cup {h}
  BY <1>1 DEF Construct, Open, HostInv, PluginInv, HeapInv, DecoderTypeOK
<1> QED BY <1>2, <1>3, <1>4, <1>5, <1>6, HostInvIntro DEF Open

LEMMA HostClosesInv ==
    ASSUME HostInv, PluginInv', NEW h \in Open, HostCloses(h)
    PROVE  HostInv'
<1>1. /\ h \in Handles
      /\ Destroy(h)
      /\ UNCHANGED <<dibs, held, host>>
  BY NullAssumption DEF HostCloses, CloseImage, Open
<1>2. PageShown' /\ AnnouncedPages'
  BY <1>1 DEF HostInv, PageShown, AnnouncedPages, HostCloses, CloseImage, Returns
<1>3. h \notin Open' /\ Open' \subseteq Open
  BY <1>1 DEF Destroy, Open, HostInv, PluginInv, HeapInv, DecoderTypeOK
<1>4. \A g \in Open : g # h => Undisturbed(g)
  BY <1>1, DestroyIsIsolated DEF HostInv, PluginInv
<1> QED BY <1>1, <1>2, <1>3, <1>4, HostInvIntro DEF HostInv

LEMMA HostAsksImageInv ==
    ASSUME HostInv, PluginInv', NEW h \in Open, HostAsksImage(h)
    PROVE  HostInv'
<1>1. UNCHANGED <<decoderVars, dibs, held>> /\ h \in Handles
  BY DEF HostAsksImage, GetImageInfo, Open
<1>2. last'.value \in {0, GetFrameCount(h)} /\ last'.value \in Nat
  <2>1. GetFrameCount(h) \in Nat
    BY CountAndDelay DEF HostInv, PluginInv
  <2> QED BY <2>1 DEF HostAsksImage, GetImageInfo, Returns
<1>3. /\ host' \in [Handles -> HostType]
      /\ host'[h].pages = last'.value
      /\ host'[h].next = host[h].next
      /\ host'[h].size = host[h].size
      /\ \A g \in Handles : g # h => host'[g] = host[g]
  BY <1>1, <1>2 DEF HostAsksImage, HostInv, HostType
<1>4. PageShown'
  BY <1>1 DEF HostInv, PageShown
<1>5. AnnouncedPages'
  BY DEF HostAsksImage, GetImageInfo, Returns, AnnouncedPages
<1>6. Open' = Open /\ \A g \in Open : Undisturbed(g)
  BY <1>1 DEF Open, Undisturbed, decoderVars
<1>7. KnowsPages(h)'
  BY <1>1, <1>2, <1>3 DEF KnowsPages, GetFrameCount, decoderVars
<1>8. InStep(h)'
  BY <1>1, <1>3 DEF InStep, HostInv, decoderVars
<1> QED BY <1>3, <1>4, <1>5, <1>6, <1>7, <1>8, HostInvIntro DEF Open

LEMMA HostAsksPageInv ==
    ASSUME HostInv, PluginInv', NEW h \in Open, NEW page \in Pages, HostAsksPage(h, page)
    PROVE  HostInv'
<1>1. UNCHANGED <<decoderVars, dibs, held, host>>
  BY DEF HostAsksPage, GetPageInfo
<1>2. page \in Int /\ 0 <= page /\ page < GetFrameCount(h) /\ HeapInv
  <2>1. page \in Int /\ 0 <= page /\ page < host[h].pages
    BY PagesAssumption DEF HostAsksPage, Announced
  <2>2. KnowsPages(h) /\ HeapInv /\ GetFrameCount(h) \in Nat
    BY CountAndDelay DEF HostInv, PluginInv
  <2> QED BY <2>1, <2>2 DEF KnowsPages
<1>3. /\ last'.status = "OK"
      /\ last'.h = h
      /\ last'.value = GetFrameDelay(h, page)
  BY <1>2, FrameInRange DEF HostAsksPage, GetPageInfo, Returns
<1>4. AnnouncedPages'
  <2>1. decoders' = decoders
    BY <1>1 DEF decoderVars
  <2>2. decoders[h].image.animated => GetFrameDelay(h, page) > 0
    BY <1>2, FrameInRange
  <2> QED BY <1>3, <2>1, <2>2 DEF AnnouncedPages
<1>5. PageShown'
  BY <1>1 DEF HostInv, PageShown
<1> QED BY <1>1, <1>4, <1>5, HostQuiet

\* A page the host may ask for exists.
LEMMA AskedPageExists ==
    ASSUME HostInv, NEW h \in Open, NEW page \in Pages, page \in Announced(h)
    PROVE  page \in Int /\ 0 <= page /\ page < GetFrameCount(h)
<1>1. page \in Int /\ 0 <= page /\ page < host[h].pages
  BY PagesAssumption DEF Announced
<1>2. KnowsPages(h) /\ GetFrameCount(h) \in Nat
  BY CountAndDelay DEF HostInv, PluginInv
<1> QED BY <1>1, <1>2 DEF KnowsPages

\* The decoder after an animated page: the heap as ensureAnimDecoder left it,
\* and the animation decoder one frame further.
LEMMA AnimatedStep ==
    ASSUME HostInv, NEW h \in Open, NEW page \in Pages, NEW req \in Requests,
           page \in Announced(h), InOrder(h, page, req),
           NEW p \in AnimPtrs, GetFrameAnimated(h, page, Size(h, req), p)
    PROVE  /\ FrameSource(h, page, Size(h, req), p).next = page + 1
           /\ decoders'[h].image = decoders[h].image
           /\ decoders'[h].anim = p
           /\ decoders'[h].scale = ScaleFor(decoders[h].image, Size(h, req))
           /\ anims'[p].next = page + 2
           /\ \A g \in Open : g # h => Undisturbed(g)
           /\ Open' = Open
<1> DEFINE out == Size(h, req)
           scale == ScaleFor(decoders[h].image, out)
           a == FrameSource(h, page, out, p)
<1>0. page \in Int /\ HeapInv /\ out \in (Nat \ {0}) \X (Nat \ {0})
  BY PagesAssumption, SizeIsSize DEF HostInv, PluginInv
<1>1. /\ decoders[h].image.animated
      /\ p \in EnsuredPtrs(h, scale)
      /\ decoders' = [decoders EXCEPT ![h].anim = p, ![h].scale = scale]
      /\ anims' = [EnsuredHeap(h, scale) EXCEPT ![p] = [a EXCEPT !.next = @ + 1]]
  BY DEF GetFrameAnimated
<1>2. a.next = page + 1 /\ a \in AnimType
  BY <1>0, <1>1, InOrderFrame, FrameSourceFits
<1>3. /\ h \in Handles
      /\ decoders[h] \in DecoderType
      /\ decoders \in [Handles -> DecoderType \cup {Null}]
  BY <1>0, OpenFields DEF HeapInv, DecoderTypeOK
<1>4. /\ decoders'[h].image = decoders[h].image
      /\ decoders'[h].anim = p
      /\ decoders'[h].scale = scale
  <2> HIDE DEF scale, out
  <2> QED BY <1>1, <1>3 DEF DecoderType
<1>5. EnsuredHeap(h, scale) \in [AnimPtrs -> AnimType \cup {Null}]
  BY <1>0 DEF EnsuredHeap, HeapForNew, Deleted, HeapInv, DecoderTypeOK
<1>6. anims'[p].next = page + 2
  <2> HIDE DEF a, scale, out
  <2> QED BY <1>0, <1>1, <1>2, <1>5 DEF AnimType
<1>7. Open' = Open
  BY <1>0, GetFrameAnimatedKeepsHeap
<1>8. \A g \in Open : g # h => Undisturbed(g)
  <2> DEFINE b == [a EXCEPT !.next = @ + 1]
  <2>1. anims' = [EnsuredHeap(h, scale) EXCEPT ![p] = b]
    BY <1>1
  <2> HIDE DEF b, scale
  <2> QED BY <1>0, <1>1, <2>1, EnsureIsIsolated
<1> QED BY <1>2, <1>4, <1>6, <1>7, <1>8

LEMMA HostDecodesInv ==
    ASSUME HostInv, PluginInv', NEW h \in Open, NEW page \in Pages, NEW req \in Requests,
           NEW d \in Dibs, HostDecodes(h, page, req, d)
    PROVE  HostInv'
<1> DEFINE out == Size(h, req)
<1>0. /\ page \in Announced(h)
      /\ InOrder(h, page, req)
      /\ PageDecode(h, page, req, d)
      /\ h \in Handles
  BY DEF HostDecodes, Open
<1>1. page \in Int /\ 0 <= page /\ page < GetFrameCount(h) /\ HeapInv
  BY <1>0, AskedPageExists DEF HostInv, PluginInv
<1>2. out \in Int \X Int
  BY <1>1, SizeIsSize
<1>3. /\ host' \in [Handles -> HostType]
      /\ host'[h].pages = host[h].pages
      /\ host'[h].next = page + 1
      /\ host'[h].size = out
      /\ \A g \in Handles : g # h => host'[g] = host[g]
  <2>1. host' = [host EXCEPT ![h].next = page + 1, ![h].size = out]
    BY DEF HostDecodes
  <2>2. page + 1 \in Nat /\ host \in [Handles -> HostType]
    BY <1>1 DEF HostInv
  <2> HIDE DEF out
  <2> QED BY <1>0, <1>2, <2>1, <2>2 DEF HostType
<1>4. AnnouncedPages'
  BY <1>0 DEF PageDecode, Returns, AnnouncedPages
<1>5. held' = held \cup {d} /\ d \in Dibs /\ dibs \in [Dibs -> DibType \cup {Null}]
      /\ held \subseteq Dibs /\ d \notin held
  BY <1>0 DEF PageDecode, HostInv, PluginInv, PluginTypeOK, DibsOwned, FreeDibs
\* The DIB shows the page that was asked for ...
<1>6. \E canvas : dibs' = [dibs EXCEPT ![d] = Drawn(h, page, page, req, canvas)]
  <2>1. CASE /\ GetFrameStatic(h)
             /\ dibs' = [dibs EXCEPT ![d] = Drawn(h, page, 0, req, out)]
    <3>1. page = 0
      BY <1>1, <2>1, FrameInRange DEF GetFrameStatic
    <3> QED BY <2>1, <3>1
  <2>2. ASSUME NEW p \in AnimPtrs, GetFrameAnimated(h, page, out, p),
               dibs' = [dibs EXCEPT ![d] = Drawn(h, page, FrameSource(h, page, out, p).next - 1,
                                              req, FrameSource(h, page, out, p).canvas)]
        PROVE  \E canvas : dibs' = [dibs EXCEPT ![d] = Drawn(h, page, page, req, canvas)]
    <3>1. FrameSource(h, page, out, p).next - 1 = page
      BY <1>0, <1>1, <2>2, AnimatedStep
    <3> QED BY <2>2, <3>1
  <2> QED BY <1>0, <2>1, <2>2 DEF PageDecode
<1>7. PageShown'
  <2>1. PICK canvas : dibs' = [dibs EXCEPT ![d] = Drawn(h, page, page, req, canvas)]
    BY <1>6
  <2>2. dibs'[d].page = dibs'[d].frame
    BY <1>5, <2>1 DEF Drawn
  <2>3. \A e \in held : dibs'[e] = dibs[e]
    BY <1>5, <2>1
  <2> QED BY <1>5, <2>2, <2>3 DEF HostInv, PageShown
\* ... and the animation decoder stands at the page that follows.
<1>8. /\ InStep(h)' /\ KnowsPages(h)'
      /\ Open' = Open
      /\ \A g \in Open : g # h => Undisturbed(g)
  <2>1. CASE GetFrameStatic(h)
    <3>1. UNCHANGED decoderVars /\ ~decoders[h].image.animated
      BY <2>1 DEF GetFrameStatic
    <3>2. Open' = Open /\ \A g \in Open : Undisturbed(g)
      BY <3>1 DEF Open, Undisturbed, decoderVars
    <3>3. InStep(h)'
      BY <3>1 DEF InStep, decoderVars
    <3>4. KnowsPages(h)'
      BY <3>1, <1>3 DEF KnowsPages, GetFrameCount, HostInv, decoderVars
    <3> QED BY <3>2, <3>3, <3>4
  <2>2. ASSUME NEW p \in AnimPtrs, GetFrameAnimated(h, page, out, p)
        PROVE  /\ InStep(h)' /\ KnowsPages(h)'
               /\ Open' = Open
               /\ \A g \in Open : g # h => Undisturbed(g)
    <3>1. /\ decoders'[h].image = decoders[h].image
          /\ decoders'[h].anim = p
          /\ decoders'[h].scale = ScaleFor(decoders[h].image, out)
          /\ anims'[p].next = page + 2
          /\ \A g \in Open : g # h => Undisturbed(g)
          /\ Open' = Open
      BY <1>0, <2>2, AnimatedStep
    <3>2. p # Null
      BY NullAssumption
    <3>3. InStep(h)'
      <4> HIDE DEF out
      <4> QED BY <1>1, <1>3, <3>1, <3>2 DEF InStep
    <3>4. KnowsPages(h)'
      BY <1>3, <3>1 DEF KnowsPages, GetFrameCount, HostInv
    <3> QED BY <3>1, <3>3, <3>4
  <2> QED BY <1>0, <2>1, <2>2 DEF PageDecode
<1> QED BY <1>0, <1>3, <1>4, <1>7, <1>8, HostInvIntro DEF Open

LEMMA HostIsRefusedInv ==
    ASSUME HostInv, PluginInv', NEW h \in Open, NEW page \in Pages, NEW req \in Requests,
           NEW d \in Dibs, HostIsRefused(h, page, req, d)
    PROVE  HostInv'
<1> DEFINE out == Size(h, req)
<1>0. h \in Handles /\ HeapInv
  BY DEF Open, HostInv, PluginInv
<1>1. /\ host' \in [Handles -> HostType]
      /\ host'[h].pages = host[h].pages
      /\ host'[h].next = 0
      /\ \A g \in Handles : g # h => host'[g] = host[g]
  BY <1>0 DEF HostIsRefused, HostInv, HostType
<1>2. InStep(h)'
  BY <1>1 DEF InStep
<1>3. AnnouncedPages'
  BY DEF HostIsRefused, PageDecodeTooBig, PageDecodeFails, Returns, AnnouncedPages
<1>4. UNCHANGED <<dibs, held>>
  BY DEF HostIsRefused, PageDecodeTooBig, PageDecodeFails, ReleasedDib, FreeDibs,
     HostInv, PluginInv, PluginTypeOK
<1>5. PageShown'
  BY <1>4 DEF HostInv, PageShown
<1>6. /\ Open' = Open
      /\ decoders'[h].image = decoders[h].image
      /\ \A g \in Open : g # h => Undisturbed(g)
  <2>1. CASE UNCHANGED decoderVars
    BY <2>1 DEF decoderVars, Open, Undisturbed
  <2>2. CASE GetFrameNoDecoder(h, out)
    <3>1. decoders'[h].image = decoders[h].image
      BY <1>0, <2>2, OpenFields DEF GetFrameNoDecoder, HeapInv, DecoderTypeOK, DecoderType
    <3> QED BY <1>0, <2>2, <3>1, NoDecoderKeepsHeap, NoDecoderIsIsolated
  <2>3. ASSUME NEW p \in AnimPtrs, GetFrameFails(h, page, out, p)
        PROVE  /\ Open' = Open
               /\ decoders'[h].image = decoders[h].image
               /\ \A g \in Open : g # h => Undisturbed(g)
    <3> DEFINE scale == ScaleFor(decoders[h].image, out)
               a == FrameSource(h, page, out, p)
    <3>1. /\ p \in EnsuredPtrs(h, scale)
          /\ decoders' = [decoders EXCEPT ![h].anim = p, ![h].scale = scale]
          /\ anims' = [EnsuredHeap(h, scale) EXCEPT ![p] = a]
      BY <2>3 DEF GetFrameFails
    <3>2. Open' = Open
      BY <1>0, <2>3, SizeIsSize, PagesAssumption, GetFrameFailsKeepsHeap
    <3> HIDE DEF a, scale
    <3>3. \A g \in Open : g # h => Undisturbed(g)
      BY <1>0, <3>1, EnsureIsIsolated
    <3>4. decoders'[h].image = decoders[h].image
      BY <1>0, <3>1, OpenFields DEF HeapInv, DecoderTypeOK, DecoderType
    <3> QED BY <3>2, <3>3, <3>4
  <2> QED
    BY <2>1, <2>2, <2>3 DEF HostIsRefused, PageDecodeTooBig, PageDecodeFails, GetFrameStatic
<1>7. KnowsPages(h)'
  BY <1>1, <1>6 DEF KnowsPages, GetFrameCount, HostInv
<1> QED BY <1>1, <1>2, <1>3, <1>5, <1>6, <1>7, HostInvIntro DEF Open

(****************************************************************************)
(* The theorems.                                                            *)
(****************************************************************************)
LEMMA HostInitInv == HostInit => HostInv
<1> SUFFICES ASSUME HostInit PROVE HostInv
  OBVIOUS
<1>1. PluginInv
  BY PluginInitInv DEF HostInit
<1>2. Open = {} /\ held = {}
  BY DEF HostInit, PluginInit, DecoderInit, Open
<1>3. host \in [Handles -> HostType]
  BY DEF HostInit, Fresh, HostType
<1>4. AnnouncedPages
  BY DEF HostInit, PluginInit, AnnouncedPages
<1> QED BY <1>1, <1>2, <1>3, <1>4 DEF HostInv, PageShown

LEMMA HostNextInv == HostInv /\ [HostNext]_hostVars => HostInv'
<1> SUFFICES ASSUME HostInv, [HostNext]_hostVars PROVE HostInv'
  OBVIOUS
<1>1. PluginInv'
  BY HostStepIsCall, PluginNextInv DEF HostInv
<1>2. CASE UNCHANGED hostVars
  <2>1. UNCHANGED <<decoderVars, host>> /\ UNCHANGED <<dibs, held, last>>
    BY <1>2 DEF hostVars, vars, decoderVars
  <2>2. PageShown' /\ AnnouncedPages'
    BY <2>1 DEF HostInv, PageShown, AnnouncedPages, decoderVars
  <2> QED BY <1>1, <2>1, <2>2, HostQuiet
<1> QED
  BY <1>1, <1>2, HostLoadsInv, HostOpensInv, HostClosesInv, HostAsksImageInv,
     HostAsksPageInv, HostDecodesInv, HostIsRefusedInv
  DEF HostNext

\* A host that decodes the pages of its images in order, at one size per pass,
\* and starts over after a failure, is shown in every DIB the page it asked for.
THEOREM EveryPageIsShown == Spec => []PageShown
<1>1. Spec => []HostInv
  BY HostInitInv, HostNextInv, PTL DEF Spec
<1>2. HostInv => PageShown
  BY DEF HostInv
<1> QED BY <1>1, <1>2, PTL

\* The animation decoder has a frame left for every page left of the pass.
THEOREM FramesLastForThePass == Spec => []PassNeverRunsOut
<1>1. Spec => []HostInv
  BY HostInitInv, HostNextInv, PTL DEF Spec
<1>2. HostInv => PassNeverRunsOut
  <2> SUFFICES ASSUME HostInv, NEW h \in Open, decoders[h].image.animated,
                      host[h].next > 0, host[h].next < host[h].pages
               PROVE  decoders[h].anim # Null /\ HasMoreFrames(anims[decoders[h].anim])
    BY DEF PassNeverRunsOut
  <2>1. /\ decoders[h].anim # Null
        /\ anims[decoders[h].anim].next = host[h].next + 1
    BY DEF HostInv, InStep
  <2>2. anims[decoders[h].anim].image = decoders[h].image
    BY <2>1 DEF HostInv, PluginInv, HeapInv, CanvasMatchesScale
  <2>3. host[h] \in HostType /\ GetFrameCount(h) \in Nat
    BY CountAndDelay DEF HostInv, PluginInv, Open
  <2>4. host[h].pages = GetFrameCount(h)
    BY <2>3 DEF HostInv, KnowsPages, HostType
  <2>5. GetFrameCount(h) = Len(decoders[h].image.durations)
    BY DEF GetFrameCount
  <2> QED BY <2>1, <2>2, <2>3, <2>4, <2>5 DEF HasMoreFrames, HostType
<1> QED BY <1>1, <1>2, PTL

\* No announced page is refused as missing, every animated one has a delay.
THEOREM PagesAreAsAnnounced == Spec => []AnnouncedPages
<1>1. Spec => []HostInv
  BY HostInitInv, HostNextInv, PTL DEF Spec
<1>2. HostInv => AnnouncedPages
  BY DEF HostInv
<1> QED BY <1>1, <1>2, PTL

\* Type correctness of the composition.
THEOREM HostTypeCorrect == Spec => []TypeOK
<1>1. Spec => []HostInv
  BY HostInitInv, HostNextInv, PTL DEF Spec
<1>2. HostInv => TypeOK
  BY DEF HostInv, PluginInv, TypeOK
<1> QED BY <1>1, <1>2, PTL

\* What the host was told of a file holds for the whole of a pass through it.
THEOREM AsToldTheHost == Spec => []AsAnnounced
<1> QED BY FramesLastForThePass, PagesAreAsAnnounced, PTL DEF AsAnnounced

(****************************************************************************)
(* The registry.                                                            *)
(****************************************************************************)
(* A process whose change Explorer has not heard of has yet to call          *)
(* SHChangeNotify, and remembers that it must; or it was killed.             *)
Owed == \A p \in Processes :
          p \in untold => \/ pc[p] = "out"
                          \/ pc[p] \in {"icon", "notify"} /\ changed[p]

RegistryInv == RegistryTypeOK /\ Owed

LEMMA InitRegistry == RegistryInit => RegistryInv
<1> SUFFICES ASSUME RegistryInit PROVE RegistryInv
  OBVIOUS
<1>1. settings \in [Settings -> {"absent", "on", "zero"}]
                     \union [Settings -> {"nokey"}]
  BY DEF RegistryInit
<1>2. RegistryTypeOK
  BY <1>1, RegistryAssumption DEF RegistryInit, RegistryTypeOK, Associations
<1>3. Owed
  BY DEF RegistryInit, Owed
<1> QED BY <1>2, <1>3 DEF RegistryInv

-----------------------------------------------------------------------------
(* Steps of the constructor.                                                 *)

(* The settings have ACDSee's key all or none, also when one is cleared.      *)
LEMMA ZeroedKeepsKey ==
  ASSUME NEW s \in Settings,
         settings \in [Settings -> {"absent", "on", "zero"}]
                        \union [Settings -> {"nokey"}]
  PROVE  [settings EXCEPT ![s] = Zeroed(settings[s])]
           \in [Settings -> {"absent", "on", "zero"}]
                 \union [Settings -> {"nokey"}]
<1>1. CASE settings \in [Settings -> {"absent", "on", "zero"}]
  <2>1. Zeroed(settings[s]) \in {"absent", "on", "zero"}
    BY <1>1 DEF Zeroed
  <2> QED BY <1>1, <2>1
<1>2. CASE settings \in [Settings -> {"nokey"}]
  <2>1. Zeroed(settings[s]) \in {"nokey"}
    BY <1>2 DEF Zeroed
  <2> QED BY <1>2, <2>1
<1> QED BY <1>1, <1>2

(* A write remembers the change that Explorer is now to hear of.              *)
LEMMA SetRegStringOwes ==
  ASSUME RegistryTypeOK, NEW p \in Processes, NEW old, NEW value, NEW new,
         SetRegString(p, old, value, new)
  PROVE  /\ changed' \in [Processes -> BOOLEAN] /\ untold' \subseteq Processes
         /\ disturbances' \in 0..MaxDisturbances
         /\ changed[p] => changed'[p]
         /\ \A q \in Processes : q # p => changed'[q] = changed[q]
         /\ untold' \subseteq untold \union {p}
         /\ p \in untold' => p \in untold \/ changed'[p]
         /\ new \in {old, value}
<1>1. PICK tells \in BOOLEAN : /\ WriteReturns(p, tells)
                               /\ untold' = untold \/
                                  (untold' = untold \union {p} /\ tells)
  BY DEF SetRegString
<1>2. changed' = [changed EXCEPT ![p] = changed[p] \/ tells]
  BY <1>1 DEF WriteReturns, ChangedSoFar
<1>3. changed \in [Processes -> BOOLEAN] /\ untold \subseteq Processes
  BY DEF RegistryTypeOK
<1>4. changed'[p] = (changed[p] \/ tells)
  BY <1>2, <1>3
<1>5. disturbances' \in 0..MaxDisturbances
  BY RegistryAssumption DEF SetRegString, NotDisturbed, Disturbed, RegistryTypeOK
<1> QED BY <1>1, <1>2, <1>3, <1>4, <1>5 DEF SetRegString

LEMMA NextRegistry ==
  ASSUME RegistryInv, [RegistryNext]_registryVars
  PROVE  RegistryInv'
<1> USE DEF RegistryInv
<1>1. CASE UNCHANGED registryVars
  BY <1>1 DEF registryVars, registry, RegistryTypeOK, Owed, Associations
<1>2. CASE SomeoneWrites
  <2>1. disturbances' \in 0..MaxDisturbances
    BY <1>2, RegistryAssumption DEF SomeoneWrites, Disturbed, RegistryTypeOK
  <2>2. hklm' \in Associations /\ hkcu' \in Associations
    BY <1>2 DEF SomeoneWrites, RegistryTypeOK
  <2>3. icon' \in [ProgIDs -> {"ours", "theirs"}]
    BY <1>2 DEF SomeoneWrites, RegistryTypeOK
  <2>4. settings' \in [Settings -> {"absent", "on", "zero"}]
                        \union [Settings -> {"nokey"}]
    <3>1. CASE settings' = settings
      BY <3>1 DEF RegistryTypeOK
    <3>2. ASSUME NEW s \in Settings,
                 settings' = [x \in Settings |->
                                IF x = s THEN "on"
                                ELSE IF settings[x] = "nokey" THEN "absent"
                                ELSE settings[x]]
          PROVE  settings' \in [Settings -> {"absent", "on", "zero"}]
      BY <3>2 DEF RegistryTypeOK
    <3> QED BY <1>2, <3>1, <3>2 DEF SomeoneWrites
  <2>5. UNCHANGED <<pc, found, changed, untold>>
    BY <1>2 DEF SomeoneWrites
  <2> QED BY <2>1, <2>2, <2>3, <2>4, <2>5 DEF RegistryTypeOK, Owed, Associations
<1>3. ASSUME NEW p \in Processes, Load(p) PROVE RegistryInv'
  BY <1>3 DEF Load, Goto, registry, RegistryTypeOK, Owed, Associations, Settings
<1>4. ASSUME NEW p \in Processes, Exit(p) \/ Killed(p) PROVE RegistryInv'
  <2>1. disturbances' \in 0..MaxDisturbances
    BY <1>4, RegistryAssumption DEF Exit, Killed, Disturbed, RegistryTypeOK
  <2> QED
    BY <1>4, <2>1
       DEF Exit, Killed, Goto, registry, RegistryTypeOK, Owed, Associations
<1>5. ASSUME NEW p \in Processes, NEW s \in Settings,
             NEW next \in Settings \union {"find"},
             SetRegDWordZero(p, s, next)
      PROVE  RegistryInv'
  <2>1. disturbances' \in 0..MaxDisturbances
    BY <1>5, RegistryAssumption
       DEF SetRegDWordZero, NotDisturbed, Disturbed, RegistryTypeOK
  <2>2. settings' \in [Settings -> {"absent", "on", "zero"}]
                        \union [Settings -> {"nokey"}]
    BY <1>5, ZeroedKeepsKey DEF SetRegDWordZero, RegistryTypeOK
  <2>3. /\ pc[p] = s /\ pc' = [pc EXCEPT ![p] = next]
        /\ UNCHANGED <<hklm, hkcu, icon, found, changed, untold>>
    BY <1>5 DEF SetRegDWordZero, Goto
  <2>4. RegistryTypeOK'
    BY <2>1, <2>2, <2>3 DEF RegistryTypeOK, Associations
  <2>5. Owed'
    BY <2>3 DEF Owed, RegistryTypeOK, Settings
  <2> QED BY <2>4, <2>5
<1>6. ASSUME NEW p \in Processes, FindProgID(p) PROVE RegistryInv'
  <2>1. disturbances' \in 0..MaxDisturbances
    BY <1>6, RegistryAssumption
       DEF FindProgID, NotDisturbed, Disturbed, RegistryTypeOK
  <2>2. ClassesRoot \in Associations /\ None \in Associations
    BY DEF ClassesRoot, RegistryTypeOK, Associations
  <2>3. /\ pc[p] = "find"
        /\ \E step \in {"name", "icon", "loaded"} :
             pc' = [pc EXCEPT ![p] = step]
        /\ found' = found \/ \E a \in Associations :
                               found' = [found EXCEPT ![p] = a]
        /\ UNCHANGED <<registry, changed, untold>>
    BY <1>6, <2>2 DEF FindProgID, Goto, AfterFinding
  <2>4. RegistryTypeOK'
    BY <2>1, <2>3 DEF RegistryTypeOK, Associations, registry
  <2>5. Owed'
    BY <2>3 DEF Owed, RegistryTypeOK
  <2> QED BY <2>4, <2>5
<1>7. ASSUME NEW p \in Processes, CreateAssociation(p) PROVE RegistryInv'
  <2>1. /\ pc[p] = "name" /\ pc' = [pc EXCEPT ![p] = "icon"]
        /\ hkcu' \in {hkcu, WebPImage}
        /\ SetRegString(p, hkcu, WebPImage, hkcu')
        /\ UNCHANGED <<settings, hklm, icon, found>>
    BY <1>7 DEF CreateAssociation, Goto
  <2>2. WebPImage \in Associations
    BY RegistryAssumption DEF Associations
  <2>3. RegistryTypeOK'
    BY <2>1, <2>2, SetRegStringOwes DEF RegistryTypeOK, Associations
  <2>4. Owed'
    BY <2>1, SetRegStringOwes DEF Owed, RegistryTypeOK
  <2> QED BY <2>3, <2>4
<1>8. ASSUME NEW p \in Processes, SetDefaultIcon(p) PROVE RegistryInv'
  <2> DEFINE target == IF found[p] = None THEN WebPImage ELSE found[p]
  <2>1. /\ pc[p] = "icon" /\ pc' = [pc EXCEPT ![p] = "notify"]
        /\ target \in ProgIDs
        /\ UNCHANGED <<settings, hklm, hkcu, found>>
    BY <1>8, RegistryAssumption
       DEF SetDefaultIcon, Goto, RegistryTypeOK, Associations
  <2>2. PICK new \in {icon[target], "ours"} :
          /\ icon' = [icon EXCEPT ![target] = new]
          /\ SetRegString(p, icon[target], "ours", new)
    BY <1>8 DEF SetDefaultIcon
  <2> HIDE DEF target
  <2>3. RegistryTypeOK'
    BY <2>1, <2>2, SetRegStringOwes DEF RegistryTypeOK, Associations
  <2>4. Owed'
    BY <2>1, <2>2, SetRegStringOwes DEF Owed, RegistryTypeOK
  <2> QED BY <2>3, <2>4
<1>9. ASSUME NEW p \in Processes, NotifyExplorer(p) PROVE RegistryInv'
  BY <1>9 DEF NotifyExplorer, Goto, registry, RegistryTypeOK, Owed, Associations
<1> QED
  BY <1>1, <1>2, <1>3, <1>4, <1>5, <1>6, <1>7, <1>8, <1>9
     DEF RegistryNext, Constructor, Settings

LEMMA RegistryAlways == RegistrySpec => []RegistryInv
<1> QED BY InitRegistry, NextRegistry, PTL DEF RegistrySpec

(* Every variable keeps its type, ACDSee's key is never created, and no       *)
(* counter runs over: for any number of processes and names.                  *)
THEOREM KeyIsNeverCreated == RegistrySpec => []RegistryTypeOK
<1>1. RegistryInv => RegistryTypeOK
  BY DEF RegistryInv
<1> QED BY <1>1, RegistryAlways, PTL

(* When a constructor has run to its end, Explorer has heard of all that it   *)
(* changed, also where a write failed or the process was killed before and    *)
(* loaded again.                                                              *)
THEOREM ExplorerHears == RegistrySpec => []ExplorerIsTold
<1>1. RegistryInv => ExplorerIsTold
  BY DEF RegistryInv, Owed, ExplorerIsTold
<1> QED BY <1>1, RegistryAlways, PTL
=============================================================================
