---------------------------- MODULE LenientHosts ----------------------------
(* A host that the interface and the comments of the code allow and that is   *)
(* less careful than InOrderHost, which it is with one change.                *)
EXTENDS InOrderHost, TLC

(****************************************************************************)
(* A viewer that is zoomed or resized in the middle of a pass: the pages    *)
(* still come in order 0..n-1, the size is free.                            *)
(****************************************************************************)
RescalingDecodes(h, page, req, d) ==
    /\ page \in Announced(h)
    /\ page \in {0, host[h].next}
    /\ PageDecode(h, page, req, d)
    /\ host' = [host EXCEPT ![h].next = page + 1, ![h].size = Size(h, req)]

RescalingNext ==
    \/ HostLoads
    \/ \E h \in Handles, im \in Images : HostOpens(h, im)
    \/ \E h \in Open : HostAsksImage(h)
    \/ \E h \in Open, page \in Pages, req \in Requests, d \in Dibs :
          RescalingDecodes(h, page, req, d)

RescalingSpec == HostInit /\ [][RescalingNext]_hostVars

\* PageDecode(i) shows page i, "Page to decode", for pages asked in order 0..n-1
\* whatever sizes they are asked at.
PageShownAtAnySize == PageShown

(****************************************************************************)
(* The files of the instance: see MCInOrderHost.                            *)
(****************************************************************************)
MCImages == {[w |-> 10, h |-> 10, animated |-> TRUE, durations |-> <<70, 0, 40>>]}
MCRequests == {<<0, 0>>, <<5, 5>>}
MCPages == 0..3
=============================================================================
