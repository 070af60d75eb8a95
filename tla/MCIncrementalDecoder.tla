----------------------- MODULE MCIncrementalDecoder -----------------------
(* Files of a few bytes, in every division into pieces.                     *)
EXTENDS IncrementalDecoder

Lossy(alpha, levels, mb_w, parts, cost) ==
  [kind |-> "lossy", alpha |-> alpha, levels |-> levels,
   payload |-> IF alpha = 0 THEN 1 ELSE 2 + alpha, part0 |-> Len(cost) + 2,
   intro |-> 1, mb_w |-> mb_w, parts |-> parts, cost |-> cost]

Symbols(costs, rows) ==
  [i \in DOMAIN costs |-> [cost |-> costs[i], rows |-> rows[i]]]

(* Alpha or none; one partition or two, of macroblocks that take no byte or *)
(* some; pixels, copies of many rows, and symbols that cost nothing.        *)
MCFiles ==
  {Lossy(0, FALSE, 2, 1, <<1, 2, 1>>), Lossy(2, FALSE, 1, 2, <<2, 1, 1>>),
   Lossy(2, TRUE, 1, 1, <<2, 0, 1>>)}
  \union
  {[kind |-> "lossless", payload |-> 1, head |-> 3, symbols |-> s] :
     s \in {Symbols(<<1, 1, 1, 1, 1, 1, 1, 1, 1>>, <<1, 1, 1, 1, 1, 1, 1, 1, 1>>),
            Symbols(<<2, 1, 0, 1, 2>>, <<1, 1, 1, 5, 1>>)}}

MCCallers == [threads: BOOLEAN, slow: BOOLEAN, crop_bottom: {9, 7}]

MCFaults == {"none", "headers", "new", "frame", "part0", "setup", "init",
             "output", "modes", "put", "copy"}
=============================================================================
