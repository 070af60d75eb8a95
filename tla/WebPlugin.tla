------------------------------ MODULE WebPlugin ------------------------------
(* The exports of src/plugin: the singleton of ID_WebP.cpp and dllmain.cpp,   *)
(* and the image operations of WebPlugin.cpp over the decoder objects of      *)
(* WebPDecoder.                                                               *)
(*                                                                            *)
(* Calls are serial, so a call is one step: its guard is the argument the     *)
(* host passes, and each way the call can end is a disjunct.  Allocations and *)
(* libwebp may fail at any call.  `last` is the outcome of the latest call.   *)
(* The host of this module is arbitrary, within the contract that a handle it *)
(* passes is open or NULL and that it closes its images before it unloads.    *)
EXTENDS WebPDecoder

CONSTANTS
    Dibs,       \* addresses GlobalAlloc may return
    Requests,   \* the nWidth x nHeight a host may ask for (0 x 0: any size)
    Pages       \* the page numbers a host may ask for, in or out of range

ASSUME RequestsAssumption == Requests \subseteq Int \X Int
ASSUME PagesAssumption == Pages \subseteq Int

VARIABLES
    plugin,     \* the number of WebPlugin objects: g_pWebPlugin is null at 0
    dibs,       \* the DIB allocated at each address, or Null
    held,       \* the addresses the host was given and has not freed
    last        \* the latest call: [op, h, status, value]

pluginVars == <<plugin, dibs, held, last>>
vars == <<decoders, anims, plugin, dibs, held, last>>

Ops == {"none", "Init", "Detach", "Call", "OpenImage", "CloseImage",
        "GetImageInfo", "GetPageInfo", "PageDecode", "GlobalFree"}

Status == {"OK", "Error", "InvalidParam", "CorruptData", "FatalError",
           "UnknownFormat", "TooBig", "NoPage"}

\* What the host holds after a PageDecode: the page it asked for, the frame
\* whose pixels the DIB carries, the size in the DIB's header and the size of
\* the canvas the pixels were taken from.
DibType == [image : Images, page : Int, frame : Int,
            size : Int \X Int, canvas : Int \X Int]

\* What the latest call was and how it ended.
CallType == [op : Ops, h : Handles \cup {Null}, status : Status, value : Int]

ASSUME DibNullAssumption == Null \notin DibType

PluginTypeOK ==
    /\ DecoderTypeOK
    /\ plugin \in 0..1
    /\ dibs \in [Dibs -> DibType \cup {Null}]
    /\ held \subseteq Dibs
    /\ last \in CallType

\* The call `op` on h ends with a status and, for the two
\* information calls, a value.
Returns(op, h, status, value) ==
    last' = [op |-> op, h |-> h, status |-> status, value |-> value]

PluginInit ==
    /\ DecoderInit
    /\ plugin = 0
    /\ dibs = [d \in Dibs |-> Null]
    /\ held = {}
    /\ last = [op |-> "none", h |-> Null, status |-> "OK", value |-> 0]

(****************************************************************************)
(* Loading.                                                                 *)
(****************************************************************************)
IDP_Init ==
    /\ plugin' = IF plugin = 0 THEN plugin + 1 ELSE plugin
    /\ Returns("Init", Null, "OK", 0)
    /\ UNCHANGED <<decoderVars, dibs, held>>

\* DLL_PROCESS_DETACH; the host has closed its images.
DllDetach ==
    /\ Open = {}
    /\ plugin' = 0
    /\ Returns("Detach", Null, "OK", 0)
    /\ UNCHANGED <<decoderVars, dibs, held>>

\* Every other export, called before IDP_Init.
NotInitialised ==
    /\ plugin = 0
    /\ Returns("Call", Null, "Error", 0)
    /\ UNCHANGED <<decoderVars, plugin, dibs, held>>

(****************************************************************************)
(* IDP_OpenImage.                                                           *)
(****************************************************************************)
\* The arguments are null; the buffer of a virtual file cannot be filled; the
\* decoder cannot be allocated; it is allocated, fails to decode the source and
\* is deleted again.
OpenImageFails(status) ==
    /\ plugin = 1
    /\ status \in {"InvalidParam", "CorruptData", "FatalError", "UnknownFormat"}
    /\ Returns("OpenImage", Null, status, 0)
    /\ UNCHANGED <<decoderVars, plugin, dibs, held>>

OpenImage(h, im) ==
    /\ plugin = 1
    /\ Construct(h, im)
    /\ Returns("OpenImage", h, "OK", 0)
    /\ UNCHANGED <<plugin, dibs, held>>

\* Deleting the null handle is a no-op.
CloseImage(h) ==
    /\ plugin = 1
    /\ IF h = Null THEN UNCHANGED decoderVars ELSE Destroy(h)
    /\ Returns("CloseImage", h, "OK", 0)
    /\ UNCHANGED <<plugin, dibs, held>>

(****************************************************************************)
(* IDP_GetImageInfo and IDP_GetPageInfo.                                    *)
(****************************************************************************)
InRange(h, page) == 0 <= page /\ page < GetFrameCount(h)

\* The three handle-based calls reject a null handle.
NullHandle(op) ==
    /\ plugin = 1
    /\ Returns(op, Null, "InvalidParam", 0)
    /\ UNCHANGED <<decoderVars, plugin, dibs, held>>

\* The value is nPages.
GetImageInfo(h) ==
    /\ plugin = 1
    /\ IF GetFrameCount(h) = 0
       THEN Returns("GetImageInfo", h, "CorruptData", 0)
       ELSE Returns("GetImageInfo", h, "OK", GetFrameCount(h))
    /\ UNCHANGED <<decoderVars, plugin, dibs, held>>

\* The value is nDelay.
GetPageInfo(h, page) ==
    /\ plugin = 1
    /\ IF InRange(h, page)
       THEN Returns("GetPageInfo", h, "OK", GetFrameDelay(h, page))
       ELSE Returns("GetPageInfo", h, "NoPage", 0)
    /\ UNCHANGED <<decoderVars, plugin, dibs, held>>

(****************************************************************************)
(* IDP_PageDecode.                                                          *)
(****************************************************************************)
Size(h, req) == ResolveOutputSize(decoders[h].image, req)

FreeDibs == {d \in Dibs : dibs[d] = Null}

\* The DIB at d once getFrame has drawn `frame` from a canvas into it.
Drawn(h, page, frame, req, canvas) ==
    [image |-> decoders[h].image, page |-> page, frame |-> frame,
     size |-> Size(h, req), canvas |-> canvas]

\* The page does not exist.
PageDecodeNoPage(h, page) ==
    /\ plugin = 1
    /\ ~InRange(h, page)
    /\ Returns("PageDecode", h, "NoPage", 0)
    /\ UNCHANGED <<decoderVars, plugin, dibs, held>>

\* GlobalAlloc fails: the decoder is not reached.
PageDecodeTooBig(h, page) ==
    /\ plugin = 1
    /\ InRange(h, page)
    /\ Returns("PageDecode", h, "TooBig", 0)
    /\ UNCHANGED <<decoderVars, plugin, dibs, held>>

\* The DIB heap once the error path has freed the DIB at d.
ReleasedDib(d) == [dibs EXCEPT ![d] = Null]

\* getFrame fails: the DIB allocated for the page is freed again, whatever
\* getFrame did to the animation decoder stays.
PageDecodeFails(h, page, req, d) ==
    /\ plugin = 1
    /\ InRange(h, page)
    /\ d \in FreeDibs
    /\ \/ GetFrameStatic(h)
       \/ GetFrameNoDecoder(h, Size(h, req))
       \/ \E p \in AnimPtrs : GetFrameFails(h, page, Size(h, req), p)
    /\ dibs' = ReleasedDib(d)
    /\ Returns("PageDecode", h, "CorruptData", 0)
    /\ UNCHANGED <<plugin, held>>

\* getFrame succeeds and the host is given the DIB: a still image is scaled to
\* the DIB's size, an animation is drawn from the animation decoder's canvas.
PageDecode(h, page, req, d) ==
    /\ plugin = 1
    /\ InRange(h, page)
    /\ d \in FreeDibs
    /\ \/ /\ GetFrameStatic(h)
          /\ dibs' = [dibs EXCEPT ![d] = Drawn(h, page, 0, req, Size(h, req))]
       \/ \E p \in AnimPtrs :
             LET a == FrameSource(h, page, Size(h, req), p) IN
             /\ GetFrameAnimated(h, page, Size(h, req), p)
             /\ dibs' = [dibs EXCEPT ![d] = Drawn(h, page, a.next - 1, req, a.canvas)]
    /\ held' = held \cup {d}
    /\ Returns("PageDecode", h, "OK", 0)
    /\ UNCHANGED plugin

\* The host owns the DIB and frees it when it likes.
GlobalFree(d) ==
    /\ d \in held
    /\ dibs' = [dibs EXCEPT ![d] = Null]
    /\ held' = held \ {d}
    /\ Returns("GlobalFree", Null, "OK", 0)
    /\ UNCHANGED <<decoderVars, plugin>>

(****************************************************************************)
(* The plug-in under an arbitrary host.                                     *)
(****************************************************************************)
PluginNext ==
    \/ IDP_Init
    \/ DllDetach
    \/ NotInitialised
    \/ \E status \in Status : OpenImageFails(status)
    \/ \E h \in Handles, im \in Images : OpenImage(h, im)
    \/ \E h \in Open \cup {Null} : CloseImage(h)
    \/ \E op \in {"GetImageInfo", "GetPageInfo", "PageDecode"} : NullHandle(op)
    \/ \E h \in Open : GetImageInfo(h)
    \/ \E h \in Open, page \in Pages : GetPageInfo(h, page)
    \/ \E h \in Open, page \in Pages : PageDecodeNoPage(h, page)
    \/ \E h \in Open, page \in Pages : PageDecodeTooBig(h, page)
    \/ \E h \in Open, page \in Pages, req \in Requests, d \in Dibs :
          PageDecodeFails(h, page, req, d)
    \/ \E h \in Open, page \in Pages, req \in Requests, d \in Dibs :
          PageDecode(h, page, req, d)
    \/ \E d \in Dibs : GlobalFree(d)

PluginSpec == PluginInit /\ [][PluginNext]_vars

(****************************************************************************)
(* Properties that hold for every host.                                     *)
(****************************************************************************)
\* Ownership of the DIBs: what is allocated is what the host holds, so no
\* PageDecode leaks a DIB on its error path and none is freed under the host.
DibsOwned == {d \in Dibs : dibs[d] # Null} = held

\* Nothing that a call allocates is leaked, shared or left dangling, on any of
\* its error paths: AnimsOwned for animation decoders, DibsOwned for DIBs, and
\* every pointer is of its type.
Owned == PluginTypeOK /\ AnimsOwned /\ DibsOwned

\* The pixels compositeBGRAtoBGR copies into a DIB come from a canvas of the
\* DIB's size, for any sequence of sizes, failures and re-creations.
CanvasFitsDib == \A d \in held : dibs[d].canvas = dibs[d].size

\* Scaling never produces more pixels than the file has: an output size is the
\* full size or strictly smaller in area.
NeverEnlarges ==
    \A d \in held :
        LET im == dibs[d].image IN
        \/ dibs[d].size = FullSize(im)
        \/ dibs[d].size[1] * dibs[d].size[2] < im.w * im.h

\* The decoder h, and the animation decoder it owns, are left as they are.
Undisturbed(h) ==
    /\ decoders'[h] = decoders[h]
    /\ decoders[h].anim # Null => anims'[decoders[h].anim] = anims[decoders[h].anim]

\* A call on one handle does not disturb another: the animation of every other
\* open image keeps its decoder, and that decoder its position and canvas.
CallsAreIsolated == [][\A h \in Open : h # last'.h => Undisturbed(h)]_vars
=============================================================================
