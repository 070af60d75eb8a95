---------------------------- MODULE MCOutputRows ----------------------------
(* Macroblocks of four rows.  Pictures of up to three of them, with every   *)
(* rest, as they are, cropped, reduced and enlarged.                        *)
EXTENDS DibOutput

Picture(kind, h, top, bottom, scaled) ==
  [kind |-> kind, colorspace |-> "rgb", height |-> h,
   crop_top |-> top, crop_bottom |-> bottom, scaled_height |-> scaled,
   fancy |-> FALSE, extra |-> 0, alpha |-> "none", filter |-> "none",
   levels |-> FALSE, dithering |-> FALSE]

Windows(h) == {<<0, h>>} \union IF h > 4 THEN {<<2, h - 1>>} ELSE {}

(* The colours: every height, window and scale.                             *)
Colours(kind, extras, fancies, heights, scales) ==
  UNION {{[Picture(kind, h, w[1], w[2], s) EXCEPT !.extra = e, !.fancy = f] :
            w \in Windows(h), s \in scales, e \in extras, f \in fancies} :
           h \in heights}

(* Alpha of every kind but WrongAlpha's.                                    *)
Alphas ==
  {p \in [kind: {"lossy"}, colorspace: {"rgb", "rgba", "premultiplied"}, height: {3, 6, 11},
          crop_top: {0, 2}, crop_bottom: {3, 5, 6, 11}, scaled_height: {0, 4, 7, 13},
          fancy: BOOLEAN, extra: {0, 2}, alpha: {"raw", "paletted", "argb"},
          filter: {"none", "horizontal", "vertical"}, levels: BOOLEAN, dithering: BOOLEAN] :
     /\ <<p.crop_top, p.crop_bottom>> \in Windows(p.height)
     /\ p.dithering => p.levels
     /\ p.colorspace # "premultiplied" => p.extra = 2 /\ p.height = 6 /\ ~p.levels
     /\ ~WrongAlpha(p)}

MCPictures ==
  Colours("lossy", {0, 2}, BOOLEAN, 1..12, {0, 1, 2, 3, 5, 7, 8, 11, 12, 15})
    \union Colours("lossless", {0}, {TRUE}, 1..9, {0, 1, 2, 3, 5, 7, 8, 9, 12})
    \union Alphas
=============================================================================
