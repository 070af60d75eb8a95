--------------------------- MODULE MCDemuxParser ---------------------------
(* Files of up to six chunks on a canvas of 4x2: an ANIM and two frames,    *)
(* one of them with an alpha chunk, or more chunks without.                 *)
EXTENDS FrontEnd

MCCanvases == {<<4, 2>>}
MCSizes == {<<2, 2>>, <<4, 2>>}
MCOffsets == {<<0, 0>>, <<2, 0>>}
=============================================================================
