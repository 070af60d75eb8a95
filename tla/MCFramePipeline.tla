-------------------------- MODULE MCFramePipeline --------------------------
(* Pictures of one to five rows of macroblocks, whole or cut short, so that *)
(* every cache line is used twice; and one that ends right behind a row.    *)
EXTENDS FramePipeline

MCHeights == {1, 8, 17, 33, 48, 79}
=============================================================================
