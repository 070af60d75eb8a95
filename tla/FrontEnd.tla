------------------------------ MODULE FrontEnd ------------------------------
(* The headers as the decoders read them, ParseHeadersInternal of libwebp's *)
(* src/dec/webp_dec.c, beside the demuxer that has read the same file.      *)
(* WebPDecoder::decode asks WebPGetFeatures for the size, the alpha and     *)
(* whether there are pages, then the demuxer for the pages; a still goes to *)
(* WebPDecode whole, and a page as the payload that the demuxer hands out.  *)
EXTENDS DemuxParser, FiniteSetsExt

Fails(status) == [status |-> status, size |-> Broken, has_alpha |-> 0,
                  has_animation |-> FALSE, alpha_data |-> 0, image |-> 0]

\* The slip of looking for an alpha in an extended file only.
OptionalIfExtended(d, riff, vp8x) == riff /\ vp8x

(* "RIFF + VP8X", or the alpha of a page.                                   *)
HasOptionalChunks(d, riff, vp8x) ==
  (riff /\ vp8x) \/ (~riff /\ ~vp8x /\ d # <<>> /\ d[1].kind = "ALPH")

(* ParseOptionalChunks: up to the first image, if there is one; the last    *)
(* alpha before it.  An ANMF would be skipped with all that is in it, but   *)
(* none stands before the image of a still that the demuxer accepts.        *)
FirstImage(d) ==
  LET images == {p \in DOMAIN d : d[p].kind \in ImageKinds}
  IN IF images = {} THEN 0 ELSE Min(images)

AlphaBefore(d, image) ==
  LET alphas == {p \in 1..image - 1 : d[p].kind = "ALPH"}
  IN IF alphas = {} THEN 0 ELSE Max(alphas)

(* VP8LGetInfo overwrites what the flag said; an ALPH chunk adds to it.     *)
AlphaOfHeaders(vp8x, image, alpha_data) ==
  IF alpha_data # 0 THEN 1
  ELSE IF image.kind = "VP8L" THEN image.alpha
  ELSE IF vp8x /\ alpha_flag THEN 1 ELSE 0

(* ParseVP8X wants the chunk to be as long as its fields; the demuxer skips *)
(* what is behind them.                                                     *)
WrongVP8X(vp8x) == vp8x /\ vp8x_rest # 0

(* headers is NULL for WebPGetFeatures, "GetFeatures" here, which reads no  *)
(* more than it needs; it is not for WebPParseHeaders.                      *)
ParseHeadersInternal(d, riff, vp8x, reader) ==
  LET animation_present == vp8x /\ is_animation
      from_vp8x == [Fails("ok") EXCEPT !.size = canvas, !.has_animation = is_animation,
                                       !.has_alpha = IF alpha_flag THEN 1 ELSE 0]
      optional == HasOptionalChunks(d, riff, vp8x)
      i == IF optional THEN FirstImage(d) ELSE 1
      alpha_data == IF optional THEN AlphaBefore(d, i) ELSE 0
  IN IF WrongVP8X(vp8x) THEN Fails("bitstream error")
     ELSE IF animation_present /\ reader = "GetFeatures" THEN from_vp8x
     ELSE IF i = 0
          THEN IF vp8x /\ reader = "GetFeatures" THEN from_vp8x ELSE Fails("not enough data")
     ELSE IF \/ d[i].kind \notin ImageKinds     \* taken for a raw bitstream
             \/ d[i].size = Broken
             \/ vp8x /\ d[i].size # canvas
          THEN Fails("bitstream error")
     ELSE [status |-> "ok", size |-> d[i].size, alpha_data |-> alpha_data, image |-> i,
           has_alpha |-> AlphaOfHeaders(vp8x, d[i], alpha_data),
           has_animation |-> animation_present]

(* WebPParseHeaders: an animation is for the demuxer.                       *)
WebPParseHeaders(d, riff, vp8x) ==
  LET h == ParseHeadersInternal(d, riff, vp8x, "ParseHeaders")
  IN IF h.status # "bitstream error" /\ vp8x /\ is_animation
     THEN Fails("unsupported feature") ELSE h

(* GetFramePayload: from the alpha, "allowing for intervening chunks".      *)
GetFramePayload(f) ==
  SubSeq(read, IF f.alpha # 0 THEN f.alpha ELSE f.image, f.image)

File == read

-----------------------------------------------------------------------------
(* Of the files the demuxer accepts, WebPGetFeatures refuses just those     *)
(* whose VP8X chunk is too long, before anything was announced.  Any other  *)
(* the two parsers take for the same: its size and whether it has pages; of *)
(* a still, the same image, of the size that was announced for it, with     *)
(* alpha only where alpha was announced; of a page, the size of its frame,  *)
(* with the frame's alpha and no other.  The canvas that is composited then *)
(* has the size of the DIB that was made for it.                            *)
FrontEndAgrees ==
  state = "ok" =>
    LET features == ParseHeadersInternal(File, TRUE, is_ext_format, "GetFeatures")
        still == WebPParseHeaders(File, TRUE, is_ext_format)
        too_long == WrongVP8X(is_ext_format)
    IN /\ features.status = IF too_long THEN "bitstream error" ELSE "ok"
       /\ ~is_animation => still.status = features.status
       /\ ~too_long => /\ features.size = canvas
                       /\ features.has_animation = is_animation
       /\ ~too_long /\ ~is_animation =>
            /\ still.size = canvas /\ still.image = frames[1].image
            /\ still.alpha_data # 0 => features.has_alpha = 1
            /\ frames[1].alpha \in {0, still.alpha_data}
       /\ is_animation =>
            \A k \in DOMAIN frames :
              LET f == frames[k]
                  page == WebPParseHeaders(GetFramePayload(f), FALSE, FALSE)
              IN /\ page.status = "ok" /\ page.size = f.size
                 /\ page.has_alpha = f.has_alpha
                 /\ (page.alpha_data # 0) = (f.alpha # 0)
=============================================================================
