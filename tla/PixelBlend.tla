----------------------------- MODULE PixelBlend -----------------------------
(* The arithmetic that decides the colour of a pixel on its way from an      *)
(* animation frame to the DIB: BlendPixelRowNonPremult of libwebp's          *)
(* src/demux/anim_decode.c puts a frame over the canvas before it, and       *)
(* compositeBGRAtoBGR of src/codec/WebPDecoder.cpp puts the canvas over a    *)
(* checkerboard.  One channel of one pixel is followed; the channels do not  *)
(* depend on each other.                                                     *)
EXTENDS Integers

CONSTANTS Channels,     \* the values a colour channel is tried with
          Alphas        \* the alphas the canvas is tried with

ASSUME PixelAssumption == Channels \subseteq 0..255 /\ Alphas \subseteq 0..255

kChecker == {192, 224}              \* kCheckerDark, kCheckerLight

VARIABLES src, src_a,       \* the frame, as it was decoded
          dst, dst_a,       \* prev_frame_disposed, before the frame
          curr, curr_a,     \* curr_frame
          bg,               \* the square of the checkerboard
          out,              \* the DIB
          at                \* "decoded", "blended" or "shown"

pixelVars == <<src, src_a, dst, dst_a, curr, curr_a, bg, out, at>>

-----------------------------------------------------------------------------
(* BlendPixelNonPremult.                                                     *)
\* The slip of the textbook's 255, in a division by 256.
Factor255(sa, da) == (da * (255 - sa)) \div 256

(* The approximation of da * (255 - sa) / 255.                               *)
DstFactor(sa, da) == (da * (256 - sa)) \div 256
BlendAlpha(sa, da) == sa + DstFactor(sa, da)
Two24 == 4096 * 4096                \* 1UL << 24
Scale(sa, da) == Two24 \div BlendAlpha(sa, da)

\* The slip of weighing the canvas with its own alpha.
UnscaledByAlpha(s, sa, d, da) == s * sa + d * da

BlendUnscaled(s, sa, d, da) == s * sa + d * DstFactor(sa, da)

(* (v * scale) >> 24, where v and scale are below 2^16 and 2^24 + 1 and the  *)
(* product is below 2^32; done in two halves that stay below 2^31.           *)
MulShift24(v, scale) ==
  (v * (scale \div 4096) + (v * (scale % 4096)) \div 4096) \div 4096

BlendChannel(s, sa, d, da) ==
  IF sa = 255 THEN s
  ELSE IF sa = 0 THEN d
  ELSE MulShift24(BlendUnscaled(s, sa, d, da), Scale(sa, da))

BlendPixelAlpha(sa, da) ==
  IF sa = 255 THEN 255 ELSE IF sa = 0 THEN da ELSE BlendAlpha(sa, da)

-----------------------------------------------------------------------------
(* compositeBGRAtoBGR.                                                       *)
\* The slip the comment warns of: a plain division by 256.
Div256(v) == v \div 256

Div255(v) == (v + 128 + v \div 256) \div 256

Composite(c, a, b) ==
  IF a = 255 THEN c ELSE IF a = 0 THEN b ELSE Div255(c * a + b * (255 - a))

-----------------------------------------------------------------------------
PixelInit ==
  /\ src \in Channels /\ src_a \in 0..255
  /\ dst \in Channels /\ dst_a \in Alphas
  /\ curr = src /\ curr_a = src_a
  /\ bg \in kChecker /\ out = 0
  /\ at = "decoded"

(* A frame that blends, on a page that is no key-frame.                      *)
BlendOver ==
  /\ at = "decoded"
  /\ curr' = BlendChannel(src, src_a, dst, dst_a)
  /\ curr_a' = BlendPixelAlpha(src_a, dst_a)
  /\ at' = "blended"
  /\ UNCHANGED <<src, src_a, dst, dst_a, bg, out>>

(* The page is shown: right away when the frame does not blend.              *)
Show == /\ at \in {"decoded", "blended"}
        /\ out' = Composite(curr, curr_a, bg)
        /\ at' = "shown"
        /\ UNCHANGED <<src, src_a, dst, dst_a, curr, curr_a, bg>>

PixelNext == BlendOver \/ Show

PixelSpec == PixelInit /\ [][PixelNext]_pixelVars

-----------------------------------------------------------------------------
Less(a, b) == IF a < b THEN a ELSE b
More(a, b) == IF a > b THEN a ELSE b

\* The mean of a pixel over the checkerboard, 255 times.
ExactMean(c, a, b) == c * a + b * (255 - a)

\* A value is less than one away from the 255th part of a mean.
WithinOne(v, mean) == 255 * v <= mean + 254 /\ mean <= 255 * v + 254

(* Every value fits the uint8_t it is stored in, and both assertions of the  *)
(* blend hold: the alphas add up to a byte, and the scaled channel to 32     *)
(* bits (blend_unscaled < 2^32 / scale).                                     *)
FitsTheTypes ==
  /\ curr \in 0..255 /\ curr_a \in 0..255 /\ out \in 0..255
  /\ src_a \in 1..254 =>
       /\ BlendAlpha(src_a, dst_a) \in 1..255
       /\ BlendUnscaled(src, src_a, dst, dst_a) \div 256
            < Two24 \div Scale(src_a, dst_a)

(* The blend lies between the frame and the canvas, but for the one that     *)
(* its two truncating divisions may cost; over nothing, as where the frame   *)
(* before was disposed of, it is the frame, but for that one.                *)
BlendIsBetween ==
  at = "blended" =>
    /\ dst_a > 0 => Less(src, dst) - 1 <= curr /\ curr <= More(src, dst)
    /\ dst_a = 0 /\ src_a > 0 =>
         curr \in {src - 1, src} /\ curr >= 0 /\ curr_a = src_a

(* What a blend stores fits where it is stored, and lies between what it     *)
(* blends: FitsTheTypes and BlendIsBetween.                                  *)
BlendIsBounded == FitsTheTypes /\ BlendIsBetween

(* A blend hides nothing that was opaque: the canvas is never less opaque    *)
(* than the frame drawn over it, nor, but for one, than it was before; and   *)
(* an opaque canvas stays opaque, so that no checkerboard shows through it.  *)
BlendKeepsOpacity ==
  at = "blended" =>
    /\ curr_a >= src_a /\ curr_a >= dst_a - 1
    /\ dst_a = 255 => curr_a = 255

(* What is shown is less than one away from the exact mean of the pixel and    *)
(* the checkerboard, on both sides of the special cases of the code.         *)
ShownWithinOne ==
  at = "shown" => WithinOne(out, ExactMean(curr, curr_a, bg))

(* A brighter pixel is not shown darker: the formula has no step down, not   *)
(* even where the shifted terms carry.                                       *)
ShownInOrder ==
  at = "shown" /\ curr < 255 => out <= Composite(curr + 1, curr_a, bg)
(* The composite is less than one away from the exact mean, and keeps the    *)
(* order of the channels: ShownWithinOne and ShownInOrder.                   *)
ShownFaithfully == ShownWithinOne /\ ShownInOrder
=============================================================================
