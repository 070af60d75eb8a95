--------------------------- MODULE MCAnimEncoder ---------------------------
(* Callers of the encoder on canvases of three pixels.                      *)
EXTENDS AnimEncoder

Caller(canvases, methods, mixed, minimize, k, frames, steps) ==
  [canvases |-> canvases, methods |-> methods, allow_mixed |-> mixed,
   minimize_size |-> minimize, kmin |-> k[1], kmax |-> k[2],
   frames |-> frames, steps |-> steps]

MCOpaque == {"red", "pink"}
MCTranslucent == {"veil"}
MCSimilar == {<<"red", "pink">>, <<"pink", "red">>}

Plain(colours) == [Pixels -> colours]

(* Every sequence of three canvases, with holes and veils.                  *)
Lossless ==
  {Caller(Plain({"red", "veil", "clear"}), {"lossless"}, FALSE, m, <<1, 2>>, 3,
          {1}) : m \in BOOLEAN}

(* Longer ones with holes only, without key-frames and with.                *)
Holes ==
  {Caller(Plain({"red", "clear"}), {"lossless"}, FALSE, FALSE, k, 4, {1}) :
     k \in {<<0, 0>>, <<0, 2>>}}

(* Opaque canvases and holes in them, in both methods.                      *)
Opaques ==
  {Caller(Plain({"red", "pink", "clear"}), Methods, TRUE, TRUE, <<1, 2>>, 3, {1}),
   Caller(Plain({"red", "pink", "clear"}), Methods, FALSE, FALSE, <<1, 2>>, 2, {1})}

(* Long animations, with pauses, that have key-frames.                      *)
Flicker == {[p \in Pixels |-> c] : c \in {"red", "clear"}}
Long ==
  {Caller(Flicker, {"lossless"}, FALSE, FALSE, k, 13, {0}) :
     k \in {<<0, 1>>, <<1, 2>>, <<3, 5>>, <<4, 7>>}}
Pausing ==
  {Caller(Flicker, {"lossless"}, FALSE, FALSE, k, 7, {1, MaxDuration - 1}) :
     k \in {<<0, 1>>, <<1, 2>>, <<3, 5>>}}

(* A pause that is asked to clear its pixel behind it.                      *)
Holed == [p \in Pixels |-> IF p = 1 THEN "red" ELSE "clear"]
Clearing ==
  {Caller({[p \in Pixels |-> "red"], Holed}, {"lossless"}, FALSE, FALSE, <<1, 2>>, 7,
          {0, MaxDuration - 1})}

(* A window that has three frames to choose its key-frame of.               *)
Melt == {[p \in Pixels |-> IF p < n THEN "red" ELSE "clear"] : n \in {0, 2, 3}}
Melting == {Caller(Melt, {"lossless"}, FALSE, FALSE, <<4, 7>>, 8, {0})}

MCCallers == Melting \union Lossless \union Holes \union Opaques \union Long
               \union Pausing \union Clearing

(* They are among those of whom the theorem on ShowsTheInput speaks.        *)
ASSUME SteadyAssumption == CallersAreSteady
=============================================================================
