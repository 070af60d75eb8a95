----------------------------- MODULE DibOutput -----------------------------
(* The rows of a still picture on their way into the DIB: PageDecode        *)
(* (src/plugin/WebPlugin.cpp) allocates it, bottom row first, each row      *)
(* padded to four bytes; WebPDecoder::getFrame (src/codec/WebPDecoder.cpp)  *)
(* has a picture without alpha decoded right into it, from the last row     *)
(* upwards, and walks through one with alpha with a pointer of its own.     *)
EXTENDS OutputRows

CONSTANTS Widths          \* widths of a page

ASSUME WidthsAssumption == Widths \subseteq Nat \ {0}

VARIABLES width,          \* of the page: dstW, or 0 where there is no DIB
          dib,            \* where a row of pixels begins -> the row
          next_y, to      \* compositeBGRAtoBGR: the next row, and its place

dibVars == <<width, dib, next_y, to>>

(* What the plug-in asks for.                                               *)
IsPage(p) == /\ p.crop_top = 0 /\ p.crop_bottom = p.height /\ p.fancy
             /\ p.colorspace = IF p.alpha = "none" THEN "rgb" ELSE "rgba"

RowSize == 3 * width
Stride == ((RowSize + 3) \div 4) * 4
ImageSize == Stride * OutHeight

(* output.u.RGBA.rgba, its stride being -Stride; CheckDecBuffer takes the   *)
(* stride without its sign.                                                 *)
Rgba == (OutHeight - 1) * Stride
CheckDecBuffer == Stride * (OutHeight - 1) + RowSize <= ImageSize /\ Stride >= RowSize

HasAlphaPage == pic.alpha # "none"
IsDecoded == status = "ok" /\ row = IF IsLossy THEN BrMbY ELSE pic.crop_bottom

(* Rows of out that a step of the decoder has written, in their places.     *)
Placed ==
  LET rows == {j \in DOMAIN out : out'[j] # Unwritten}
      places == {Rgba - j * Stride : j \in rows}
  IN [b \in DOMAIN dib \union places |->
        IF b \in places THEN out'[CHOOSE j \in rows : Rgba - j * Stride = b] ELSE dib[b]]

Decode ==
  /\ Next
  /\ dib' = IF width > 0 /\ ~HasAlphaPage THEN Placed ELSE dib
  /\ UNCHANGED <<width, next_y, to>>

\* The slip of a pointer that leaves out the padding.
UpUnpadded(b) == b - RowSize

Up(b) == b - Stride

CompositeRow ==
  /\ width > 0 /\ HasAlphaPage /\ IsDecoded /\ next_y < OutHeight
  /\ dib' = [b \in DOMAIN dib \union {to} |-> IF b = to THEN out[next_y] ELSE dib[b]]
  /\ next_y' = next_y + 1 /\ to' = Up(to)
  /\ UNCHANGED <<vars, width>>

DibInit ==
  /\ Init
  /\ width \in IF IsPage(pic) THEN Widths ELSE {0}
  /\ dib = [b \in {} |-> Unwritten]
  /\ next_y = 0 /\ to = Rgba

DibNext == Decode \/ CompositeRow

DibSpec == DibInit /\ [][DibNext]_<<vars, dibVars>>

-----------------------------------------------------------------------------
(* No pixel is written outside of the DIB's image or over another row, and  *)
(* the buffer that libwebp is given passes its check; and when the page is  *)
(* done the DIB holds all of it, the first row last, whichever of the two   *)
(* ways it came: each row in its place, and in the right proportions.       *)
DibHoldsThePage ==
  width > 0 =>
    /\ CheckDecBuffer
    /\ \A b \in DOMAIN dib : b >= 0 /\ b + RowSize <= ImageSize
    /\ \A b, c \in DOMAIN dib : b < c => b + RowSize <= c
    /\ IsDecoded /\ (HasAlphaPage => next_y = OutHeight) =>
         \A j \in 0..OutHeight - 1 :
           LET b == (OutHeight - 1 - j) * Stride
           IN /\ b \in DOMAIN dib
              /\ dib[b].colour = ColourOf(j) /\ dib[b].alpha = AlphaOf(j)
=============================================================================
