------------------------------ MODULE Scanout ------------------------------
(***************************************************************************)
(* Scanout of decoded video: the decode loop of svrt_run (src/lib/svrt.c), *)
(* the single-stream path of the KMS presenter (src/lib/drm_presenter.c)   *)
(* and the loop of main.c that closes a context whose run has ended and    *)
(* opens the next one.                                                     *)
(*                                                                         *)
(* A frame is the surface (DMA-BUF) it was decoded into.  The presenter    *)
(* imports every surface once, object by object, and keeps framebuffer and *)
(* handles in a table that only closing empties.  A commit does not block: *)
(* the kernel holds at most one until the next vertical blank and answers  *)
(* EBUSY meanwhile.  The decoder (FFmpeg) and the kernel are external; what*)
(* they may do is written from how the code uses them.                     *)
(***************************************************************************)
EXTENDS Naturals, FiniteSets, FiniteSetsExt

CONSTANTS
    Formats,        \* pixel formats a stream may have
    Planes,         \* overlay planes of the CRTC
    Supports,       \* [Planes -> SUBSET Formats]
    PoolSize,       \* capture surfaces of one decoder session
    CacheSize,      \* SVRT_FB_CACHE_SIZE: 32 in the code
    Objects,        \* DMA-BUF objects of one surface: at most 4 in the code
    MaxRetry,       \* commits retried on EBUSY: 20 in the code
    None, Hud       \* no surface or plane; the overlay's own buffer

(* A surface keeps its identity while a cached handle pins it, so a new    *)
(* session's pool needs identities that the table does not hold.           *)
Surfaces == 1 .. (CacheSize + PoolSize)

ASSUME SizesAssumption ==
    /\ PoolSize \in Nat \ {0, 1} /\ CacheSize \in Nat \ {0}
    /\ Objects \in Nat \ {0} /\ MaxRetry \in Nat
    /\ Supports \in [Planes -> SUBSET Formats]
    /\ \A f \in Formats : \E p \in Planes : f \in Supports[p]
    /\ None \notin Surfaces \cup Planes \cup {Hud} /\ Hud \notin Surfaces

VARIABLES
    pc,             \* where the run thread (or main, once it ended) is
    stopping,       \* svrt_stop was called: the receiver quits or is revoked
    format, pool,   \* the decoder's session: pixel format and its surfaces
    refs, backlog,  \* surfaces it predicts from; decoded but not yet received
    hand,           \* c->frame: the surface the loop holds a reference to
    plane, atomic,  \* c->has_plane and c->plane; c->atomic_ready
    cache,          \* c->cache: the surfaces that have an entry
    hud,            \* resources open_hud has obtained; {"tried"} when none
    tries,          \* EBUSY answers to the current frame
    last,           \* result of the current access unit's latest frame
    handles, fbs,   \* kernel: open GEM handles <<surface, object>>; framebuffers
    queued, screen, \* kernel: framebuffer committed, framebuffer scanned out
    refused,        \* the call that turns the plane off has failed
    late,           \* frames committed after svrt_stop, counted to 2
    healthy         \* from here on kernel calls succeed and one session lasts

outside == <<stopping, late, healthy>>
program == <<plane, atomic, cache, hud, tries>>
kernel  == <<handles, fbs, queued, screen, refused>>
decoder == <<format, pool, refs, backlog>>
vars    == <<outside, pc, hand, last, program, kernel, decoder>>

HandlesOf(S) == S \X (1 .. Objects)

(* A fixed choice of free identities, so that equal situations are equal   *)
(* states: one identity is as good as another.                             *)
FreshPool(pinned) == CHOOSE P \in kSubset(PoolSize, Surfaces \ pinned) : TRUE

(* What the overlay has of the kernel.                                     *)
HudHandles == IF "handle" \in hud THEN {<<Hud, 1>>} ELSE {}
HudBuffers == IF "fb" \in hud THEN {Hud} ELSE {}

Init ==
    /\ pc = "closed" /\ stopping = FALSE /\ healthy = FALSE
    /\ format \in Formats /\ pool = {} /\ refs = {} /\ backlog = {}
    /\ hand = None /\ plane = None /\ atomic = "unknown"
    /\ cache = {} /\ hud = {} /\ tries = 0 /\ last = "none"
    /\ handles = {} /\ fbs = {} /\ queued = None /\ screen = None
    /\ late = 0 /\ refused = FALSE

-----------------------------------------------------------------------------
(* main.c opens a context; open_video starts a decoder without surfaces,   *)
(* or fails and the run ends.  A context that cannot be opened is none.    *)
Open ==
    /\ pc = "closed" /\ ~stopping
    /\ pc' \in {"read"} \cup IF healthy THEN {} ELSE {"ended"}
    /\ last' = "none"
    /\ format' \in IF healthy THEN {format} ELSE Formats
    /\ pool' = FreshPool({}) /\ refs' = {} /\ backlog' = {}
    /\ UNCHANGED <<outside, hand, program, kernel>>

(* The access unit starts a session: avcodec_flush_buffers, and new        *)
(* surfaces when its format is another.                                    *)
NewSession ==
    /\ pc = "read" /\ ~stopping /\ ~healthy
    /\ refs' = {} /\ backlog' = {}
    /\ format' \in Formats
    /\ pool' = IF format' = format THEN pool ELSE FreshPool(cache)
    /\ UNCHANGED <<pc, outside, hand, last, program, kernel>>

(* avcodec_send_packet: the decoder takes any surface that neither it nor  *)
(* the loop holds.  It asks nobody what is being scanned out.              *)
SendPacket ==
    /\ pc = "read" /\ ~stopping
    /\ \E s \in pool \ (refs \cup backlog) :
          /\ refs' \in {R \in SUBSET (refs \cup {s}) : Cardinality(R) < PoolSize}
          /\ backlog' = backlog \cup {s}
    /\ pc' = "receive" /\ last' = "none"
    /\ UNCHANGED <<outside, format, pool, hand, program, kernel>>

(* svrt_pipe_read is interrupted, or the loop's own test ends it.          *)
ReadStops ==
    /\ pc = "read" /\ stopping
    /\ pc' = "ended"
    /\ UNCHANGED <<outside, hand, last, program, kernel, decoder>>

(* Mutant: decode does not look at stopping for each frame.                *)
ReceiveAfterStop ==
    /\ pc = "receive"
    /\ \E s \in backlog :
          /\ backlog' = backlog \ {s}
          /\ pc' = "present" /\ hand' = s
    /\ tries' = 0
    /\ UNCHANGED <<outside, format, pool, refs, last, plane, atomic, cache, hud,
                   kernel>>

(* avcodec_receive_frame yields a frame; once stopping, decode returns.    *)
Receive ==
    /\ pc = "receive"
    /\ \E s \in backlog :
          /\ backlog' = backlog \ {s}
          /\ IF stopping THEN pc' = "read" /\ hand' = None
                         ELSE pc' = "present" /\ hand' = s
    /\ tries' = 0
    /\ UNCHANGED <<outside, format, pool, refs, last, plane, atomic, cache, hud,
                   kernel>>

(* EAGAIN: nothing more to receive, so the decoder can take a packet.      *)
Drained ==
    /\ pc = "receive" /\ refs \cup backlog # pool
    /\ pc' = "read"
    /\ UNCHANGED <<outside, hand, last, program, kernel, decoder>>

-----------------------------------------------------------------------------
(* Mutant: a failed frame is dropped like one that met EBUSY.              *)
FailDrops == pc' = "receive" /\ hand' = None /\ last' = "failed"

(* A failed svrt_drm_present ends decode and with it svrt_run.             *)
Fail == pc' = "ended" /\ hand' = None /\ last' = "failed"

Proceed(next) == pc' = next /\ UNCHANGED <<hand, last>>

(* Mutant: an entry is added whatever the table holds.                     *)
RoomAlways == TRUE

(* SVRT_FB_CACHE_SIZE entries, never evicted.                              *)
Room == Cardinality(cache) < CacheSize

(* choose_plane: the first overlay plane for the format, kept until Close. *)
ChosenPlane ==
    IF plane # None THEN {plane} ELSE {p \in Planes : format \in Supports[p]}

(* No plane can be listed, or an object of the surface has no identity.    *)
LookupFails ==
    /\ pc = "present" /\ ~healthy
    /\ plane' \in {plane} \cup ChosenPlane
    /\ Fail
    /\ UNCHANGED <<outside, atomic, cache, hud, tries, kernel, decoder>>

(* choose_plane once, then the lookup of cached_fb.                        *)
Lookup ==
    /\ pc = "present"
    /\ plane' \in ChosenPlane
    /\ CASE hand \in cache  -> Proceed("commit")
         [] hand \notin cache /\ Room  -> Proceed("import")
         [] OTHER  -> Fail
    /\ UNCHANGED <<outside, atomic, cache, hud, tries, kernel, decoder>>

Imported == handles \cap HandlesOf({hand})

(* drmPrimeFDToHandle for the next object of the surface.                  *)
ImportObject ==
    /\ pc = "import" /\ Cardinality(Imported) < Objects
    /\ handles' = handles \cup {<<hand, Cardinality(Imported) + 1>>}
    /\ UNCHANGED <<pc, outside, hand, last, program, fbs, queued, screen, refused,
                   decoder>>

AddFramebuffer ==
    /\ pc = "import" /\ Cardinality(Imported) = Objects
    /\ fbs' = fbs \cup {hand} /\ cache' = cache \cup {hand}
    /\ Proceed("commit")
    /\ UNCHANGED <<outside, plane, atomic, hud, tries, handles, queued, screen,
                   refused, decoder>>

(* Mutant: a failed import leaves the earlier handles open.                *)
ImportFailsOpen ==
    /\ pc = "import" /\ ~healthy
    /\ Fail
    /\ UNCHANGED <<outside, program, kernel, decoder>>

(* Either call fails: the handles of this surface are closed again.        *)
ImportFails ==
    /\ pc = "import" /\ ~healthy
    /\ handles' = handles \ Imported
    /\ Fail
    /\ UNCHANGED <<outside, program, fbs, queued, screen, refused, decoder>>

(* prepare_atomic, before the first commit.                                *)
PrepareAtomic ==
    /\ pc = "commit" /\ atomic = "unknown"
    /\ atomic' \in {"ready", "refused"}
    /\ UNCHANGED <<pc, outside, hand, last, plane, cache, hud, tries, kernel, decoder>>

Busy == atomic = "ready" /\ queued # None

(* EBUSY: again after 1 ms, until the retries are used up and the frame is *)
(* skipped.                                                                *)
Retry ==
    /\ pc = "commit" /\ Busy /\ tries < MaxRetry
    /\ tries' = tries + 1
    /\ UNCHANGED <<pc, outside, hand, last, plane, atomic, cache, hud, kernel, decoder>>

Skip ==
    /\ pc = "commit" /\ Busy /\ tries = MaxRetry
    /\ pc' = "receive" /\ hand' = None /\ last' = "skipped"
    /\ UNCHANGED <<outside, program, kernel, decoder>>

(* open_hud stops at the first call that fails and leaves what it has:     *)
(* a dumb buffer's handle, its framebuffer, its mapping.                   *)
HudStages == {{}, {"handle"}, {"handle", "fb"}, {"handle", "fb", "map"}}

OpenHud ==
    IF hud # {} THEN UNCHANGED <<hud, handles, fbs>>
    ELSE /\ \E got \in HudStages : hud' = {"tried"} \cup got
         /\ handles' = handles \cup HudHandles' /\ fbs' = fbs \cup HudBuffers'

(* The commit is accepted - drmModeSetPlane, when there is no atomic KMS,  *)
(* has shown the frame when it returns - and the frame is unreferenced.    *)
Commit ==
    /\ pc = "commit" /\ atomic # "unknown" /\ ~Busy /\ format \in Supports[plane]
    /\ IF atomic = "ready" THEN queued' = hand /\ UNCHANGED screen
                           ELSE screen' = hand /\ UNCHANGED queued
    /\ late' = IF stopping /\ late < 2 THEN late + 1 ELSE late
    /\ OpenHud
    /\ pc' = "receive" /\ hand' = None /\ last' = "shown"
    /\ UNCHANGED <<stopping, healthy, plane, atomic, cache, tries, refused, decoder>>

CommitFails ==
    /\ pc = "commit" /\ atomic # "unknown" /\ ~Busy
    /\ ~healthy \/ format \notin Supports[plane]
    /\ Fail
    /\ UNCHANGED <<outside, program, kernel, decoder>>

(* The kernel latches the committed framebuffer at the vertical blank.     *)
VBlank ==
    /\ queued # None
    /\ screen' = queued /\ queued' = None
    /\ UNCHANGED <<pc, outside, hand, last, program, handles, fbs, refused, decoder>>

(* drmModeSetPlane takes what is committed and shown off the plane.        *)
TakenOff == queued' = None /\ screen' = None /\ refused' = FALSE

(* Mutant: the plane is turned off only where it was set by drmModeSetPlane.*)
PlaneOffLegacy ==
    /\ pc = "ended"
    /\ pc' = "release"
    /\ \/ plane # None /\ atomic # "ready" /\ TakenOff
       \/ plane = None /\ UNCHANGED <<queued, screen, refused>>
       \/ atomic = "ready" /\ UNCHANGED <<queued, screen, refused>>
    /\ UNCHANGED <<outside, hand, last, program, handles, fbs, decoder>>

-----------------------------------------------------------------------------
(* main.c joins the run thread and closes the context.  svrt_drm_close     *)
(* first turns the plane off, if it has one, and does not ask whether the  *)
(* kernel did.                                                             *)
PlaneOff ==
    /\ pc = "ended"
    /\ pc' = "release"
    /\ \/ plane # None /\ TakenOff
       \/ plane # None /\ ~healthy /\ refused' = TRUE /\ UNCHANGED <<queued, screen>>
       \/ plane = None /\ UNCHANGED <<queued, screen, refused>>
    /\ UNCHANGED <<outside, hand, last, program, handles, fbs, decoder>>

(* Then it frees what was imported and the overlay.  The kernel turns a    *)
(* plane off itself when it loses the framebuffer that the plane shows.    *)
Close ==
    /\ pc = "release"
    /\ pc' = "closed" /\ last' = "none"
    /\ fbs' = fbs \ (cache \cup HudBuffers)
    /\ handles' = handles \ (HandlesOf(cache) \cup HudHandles)
    /\ TakenOff
    /\ plane' = None /\ atomic' = "unknown" /\ cache' = {} /\ hud' = {} /\ tries' = 0
    /\ pool' = {} /\ refs' = {} /\ backlog' = {}
    /\ UNCHANGED <<outside, format, hand>>

(* main.c calls svrt_stop: the receiver quits or its host was revoked.     *)
Stop ==
    /\ ~stopping /\ stopping' = TRUE
    /\ UNCHANGED <<pc, hand, last, late, healthy, program, kernel, decoder>>

(* The end of the trouble: no kernel call fails any more.                  *)
Heal ==
    /\ ~healthy /\ healthy' = TRUE
    /\ UNCHANGED <<pc, stopping, hand, last, late, program, kernel, decoder>>

Run ==
    \/ Open \/ SendPacket \/ ReadStops \/ Receive \/ Drained
    \/ LookupFails \/ Lookup \/ ImportObject \/ AddFramebuffer \/ ImportFails
    \/ PrepareAtomic \/ Retry \/ Skip \/ Commit \/ CommitFails
    \/ PlaneOff \/ Close

Next == Run \/ NewSession \/ VBlank \/ Stop \/ Heal

(* The threads run, the display refreshes, and packets keep coming: what   *)
(* happens when they do not is the subject of FramePipe.                   *)
Spec == Init /\ [][Next]_vars /\ WF_vars(Run) /\ WF_vars(VBlank)

-----------------------------------------------------------------------------
(* The variables' types; the table never holds more than its size.         *)
TypeOK ==
    /\ pc \in {"closed", "read", "receive", "present", "import", "commit",
               "ended", "release"}
    /\ stopping \in BOOLEAN /\ healthy \in BOOLEAN /\ late \in 0 .. 2
    /\ format \in Formats /\ pool \subseteq Surfaces
    /\ refs \subseteq pool /\ backlog \subseteq pool /\ hand \in pool \cup {None}
    /\ plane \in Planes \cup {None}
    /\ atomic \in {"unknown", "ready", "refused"}
    /\ cache \subseteq Surfaces /\ Cardinality(cache) <= CacheSize
    /\ hud \subseteq {"tried", "handle", "fb", "map"}
    /\ tries \in 0 .. MaxRetry /\ last \in {"none", "shown", "skipped", "failed"}
    /\ handles \subseteq HandlesOf(Surfaces) \cup {<<Hud, 1>>}
    /\ fbs \subseteq Surfaces \cup {Hud}
    /\ queued \in Surfaces \cup {None} /\ screen \in Surfaces \cup {None}
    /\ refused \in BOOLEAN

(* Except while it imports a surface the kernel holds for the process      *)
(* exactly what the presenter's tables will release, whichever call failed *)
(* before; once closed it holds nothing.                                   *)
NothingLeaks ==
    pc # "import" =>
        /\ handles = HandlesOf(cache) \cup HudHandles
        /\ fbs = cache \cup HudBuffers

(* svrt_drm_close does not remove a framebuffer that is scanned out or     *)
(* about to be, whatever ended the run and with a commit in flight, unless *)
(* the kernel refused to turn the plane off.                               *)
ScanoutBacked == [][{queued, screen} \cap (fbs \ fbs') # {} => refused]_vars

(* After svrt_stop a backlog is not shown: only the frame that had already *)
(* passed the test in decode can still be committed.                       *)
StopShowsOne == late <= 1

(* Whatever failed before - a plane chosen for another format, a table     *)
(* filled by earlier sessions, a refused import or commit - once the       *)
(* kernel's calls succeed frames are shown again and again.                *)
ShowsAgain == healthy ~> (last = "shown" \/ stopping)

(* drm_presenter.c:62-64 says a frame reference keeps the decoder from     *)
(* writing into a buffer that KMS scans out.                               *)
DecodesAside == [][(backlog' \ backlog) \cap {queued, screen} = {}]_vars

=============================================================================
