----------------------------- MODULE InOrderHost -----------------------------
(* The host the plug-in is written for: it learns the number of pages from    *)
(* GetImageInfo and decodes them in order 0..n-1, at one output size per      *)
(* pass, for any number of images side by side; a pass may start over at page *)
(* 0 whenever it likes, and does so after a failed PageDecode.                *)
EXTENDS WebPlugin

VARIABLE host   \* what the host remembers of each open handle

\* pages: nPages as GetImageInfo reported it, 0 before; next: the page that
\* continues the current pass, 0 when there is none; size: the pass's size.
HostType == [pages : Nat, next : Nat, size : Int \X Int]

hostVars == <<vars, host>>

Fresh == [pages |-> 0, next |-> 0, size |-> <<0, 0>>]

TypeOK == PluginTypeOK /\ host \in [Handles -> HostType]

HostInit == PluginInit /\ host = [h \in Handles |-> Fresh]

HostLoads ==
    /\ IDP_Init \/ DllDetach \/ (\E d \in Dibs : GlobalFree(d))
    /\ UNCHANGED host

HostOpens(h, im) ==
    /\ OpenImage(h, im)
    /\ host' = [host EXCEPT ![h] = Fresh]

HostCloses(h) ==
    /\ CloseImage(h)
    /\ UNCHANGED host

HostAsksImage(h) ==
    /\ GetImageInfo(h)
    /\ host' = [host EXCEPT ![h].pages = last'.value]

\* The pages it was told of.
Announced(h) == {page \in Pages : 0 <= page /\ page < host[h].pages}

HostAsksPage(h, page) ==
    /\ page \in Announced(h)
    /\ GetPageInfo(h, page)
    /\ UNCHANGED host

\* A page in order: the first, or the next one at the size of the pass.
InOrder(h, page, req) ==
    \/ page = 0
    \/ page = host[h].next /\ Size(h, req) = host[h].size

HostDecodes(h, page, req, d) ==
    /\ page \in Announced(h)
    /\ InOrder(h, page, req)
    /\ PageDecode(h, page, req, d)
    /\ host' = [host EXCEPT ![h].next = page + 1, ![h].size = Size(h, req)]

\* After a failure the pass is over.
HostIsRefused(h, page, req, d) ==
    /\ page \in Announced(h)
    /\ InOrder(h, page, req)
    /\ PageDecodeTooBig(h, page) \/ PageDecodeFails(h, page, req, d)
    /\ host' = [host EXCEPT ![h].next = 0]

HostNext ==
    \/ HostLoads
    \/ \E h \in Handles, im \in Images : HostOpens(h, im)
    \/ \E h \in Open : HostCloses(h)
    \/ \E h \in Open : HostAsksImage(h)
    \/ \E h \in Open, page \in Pages : HostAsksPage(h, page)
    \/ \E h \in Open, page \in Pages, req \in Requests, d \in Dibs :
          HostDecodes(h, page, req, d)
    \/ \E h \in Open, page \in Pages, req \in Requests, d \in Dibs :
          HostIsRefused(h, page, req, d)

Spec == HostInit /\ [][HostNext]_hostVars

(****************************************************************************)
(* Properties.                                                              *)
(****************************************************************************)
\* PageDecode(i) shows page i: the sequential animation decoder, whose position
\* nobody passes to it, stands at the page that is asked for, across re-created
\* decoders, failed calls, restarted passes and other images in between.
PageShown == \A d \in held : dibs[d].page = dibs[d].frame

\* The frame iterator does not run dry before the host's pass is over: while
\* pages are left to ask for, the animation decoder has frames left.
PassNeverRunsOut ==
    \A h \in Open :
        LET d == decoders[h] IN
        (d.image.animated /\ host[h].next > 0 /\ host[h].next < host[h].pages)
            => d.anim # Null /\ HasMoreFrames(anims[d.anim])

\* The three calls agree on the pages of a file: none that GetImageInfo
\* announced is refused with IDE_NoPage, and each page of an animation has a
\* positive delay, so that playback moves on.
AnnouncedPages ==
    /\ last.status # "NoPage"
    /\ (last.op = "GetPageInfo" /\ decoders[last.h].image.animated) => last.value > 0

\* What was announced can be had: AnnouncedPages for what the calls say of the
\* pages, PassNeverRunsOut for the frames behind them.
AsAnnounced == AnnouncedPages /\ PassNeverRunsOut
=============================================================================
