# Formal model of SVRT

SVRT streams what SteamVR renders on a Windows PC to a Raspberry Pi 4 headset.
This directory holds TLA+ specifications of its control logic, TLC
configurations that check them on small instances, and proofs that TLAPS checks
for every value of the constants. Everything is translated from the source;
line numbers below are those of the files in the repository. `PROJECT.json` maps
every definition to the lines it models and lists the hazards the properties aim
at.

Contents: 1 the system, 2 the modules, 3 the runs, 4 bounds, 5 fairness,
6 proofs, 7 where the code departs from what it says, 8 what is left out,
9 the plan.

## 1. The system

Two machines. On the PC a SteamVR driver (`steamvr-driver/`) presents a headset
to SteamVR, encodes its frames with FFmpeg and sends them; on the Pi a receiver
(`pi-receiver/`, with `pipe/`, `protocol/`, `lib/`, `gui/`) pairs with a Steam
host, reassembles, decodes and shows the frames and sends poses back. They talk
over UDP 9944 (video, 10 data + 2 parity shards per group), TCP 9945 (status
requests; each carries the host's verdict on the device's approval), UDP 9946
(audio), UDP 9947 (poses, 250 a second) and UDP 9757 with mDNS (discovery).

```
      PC                                               Raspberry Pi
 SteamVR -> SvrtHmd (driver.cpp)                  main.c --- steam_link_pairing.c
      |         |   \                               |  \            gui/
      |   receiver_link --TCP 9945--> status.c (listener, a thread per request,
      |         \-------UDP 9947<---   tracking, discovery)   monitor thread
 direct_mode --UDP 9944 video-----> pipe.c -> svrt.c -> FFmpeg -> drm_presenter.c
 audio.cpp ----UDP 9946-----------> audio.c
```

| component | state it keeps | operations | hard behaviour | what makes it correct |
|---|---|---|---|---|
| frame reassembly, `pipe/pipe.c` | 16 frame slots, expected and newest identifier, keyframe gate, discontinuity and flush marks | accept a datagram, recover a group, give out or give up a frame, open, close | loss, duplication, reordering, two sessions at once, 32-bit wrap, slots exhausted, allocation failure | the decoder only gets an unbroken chain per session; gaps are announced; a gap stalls the stream for a bounded time |
| receive loop, `lib/svrt.c` | the decoder, the flush and discontinuity marks it consumes | read, flush, decode, stop | two one-shot flags consumed by two calls | a flush precedes the first unit of a new session |
| protocol, `protocol/` | none | encode and decode headers, FEC encode and recover | GF(256) arithmetic, which parity is there | two lost shards are rebuilt exactly |
| video sender, `direct_mode.cpp` | frame slots, encoder process, packetizer thread, session, frame counter | present, copy, encode, packetize, start and close the encoder, stop | three threads and a process that wait for each other, teardown while starting | frames leave in order in one session; a failed encoder is torn down and restarted; stop ends |
| receiver control, `main.c`, `status.c` | reported state, revocation flag, paired host, tracking target, a dozen thread flags | pair, stream, revoke, answer, register for tracking, stop | seven threads and atomics read and written in separate steps | a revoked device streams poses to nobody; nothing outlives the server; a signal ends the process |
| Steam Link pairing, `steam_link_pairing.c`, `gui/pairing.c` | phase, PIN, remembered host (a file) | search, authorize, forget, cancel | library callbacks, two deadlines, a file that survives restarts | a phase shown is the phase reached; a forgotten host stays forgotten |
| receiver link, `receiver_link.cpp` | link state, missed probes, last good answer, Steam's verdict, last pose; a lookup's context | poll, look up the host, read Steam's files, take a pose, start, stop | lost probes, stale verdicts, snapshots used later, a callback after its deadline | lost probes are tolerated; absence and revocation stop the stream; memory has one owner |
| HMD device and provider, `driver.cpp` | OpenVR context, activated or not, last transition shown | init, cleanup, activate, deactivate, RunFrame, GetPose | two snapshots of the link in a frame; three threads to join | SteamVR sees the headset as it is; Cleanup leaves nothing behind |
| DRM presenter, `lib/drm_presenter.c` | chosen plane, table of framebuffers and GEM handles, the overlay's buffer | open, present, close | every KMS call may fail half-way, a commit in flight, a table that never evicts | nothing leaks and nothing is freed while on screen; frames come back after a failure; a buffer on screen is not decoded into |
| audio, `audio.cpp`, `audio.c` | capture client, socket, sequence number | capture and send, receive and play | the default device changes, the receiver goes away, stop at any place | sound comes back; the thread ends when it is stopped |
| utility, `utility/` | the settings files | load, save, install, probe | file formats | settings survive a round trip |
| discovery, `common/mdns_*` | none | one request | timeout | - |
| user interface, `gui/ui*.c` | screen and animation | draw | - | - |

How they interact: one thread runs pipe, receive loop and decoder by calls; the
receiver's threads share atomics and one mutex (`paired_address`,
`tracking_address`); driver threads share mutex-protected structures read by
snapshot; PC and Pi exchange only datagrams and short TCP requests. Everything
received may be lost or late, and either end may restart alone.

## 2. The modules

| module | models | status |
|---|---|---|
| `DecoderFeed` | abstract: what the decoder is promised | proved to be implemented by `FramePipe` |
| `FramePipe` | `pipe.c`, and `svrt_run`/`decode` as its consumer | checked, safety proved |
| `Fec` | the Reed-Solomon code of `stearlight_protocol.c` | checked for every loss in a group of ten |
| `FramePipeProofs` | theorems about `FramePipe`: order, sessions, refinement, slots | proved |
| `VideoStream` | composes `FramePipe` with the sender (`PacketizerThread`) and a network | checked, safety proved |
| `VideoStreamProofs` | theorems about the composition, on top of `FramePipeProofs` | proved |
| `ReceiverAuth` | `main.c`, `status.c`, and the approval the Steam hosts hold | checked, safety proved |
| `ReceiverAuthProofs` | theorems about `ReceiverAuth` | proved |
| `ReceiverLink` | `receiver_link.cpp` and the HMD device of `driver.cpp` | checked, types proved |
| `ReceiverLinkProofs` | theorem about `ReceiverLink` | proved |
| `DirectMode` | the encoder's life in `direct_mode.cpp` | checked, safety proved |
| `DirectModeProofs` | theorems about `DirectMode` | proved |
| `Consent` | abstract: what a pairing promises the user of a host | proved to be implemented by `Pairing` |
| `Pairing` | `steam_link_pairing.c`, and `main.c` and `gui/pairing.c` waiting for it | checked, safety proved |
| `PairingProofs` | theorems about `Pairing` | proved |
| `Scanout` | `decode` of `svrt.c`, the one-stream presenter of `drm_presenter.c`, and `main.c` opening and closing them | checked, safety proved |
| `ScanoutProofs` | theorems about `Scanout` | proved |
| `HostLookup` | `resolve_with_timeout` of `receiver_link.cpp` and its callback | checked in `DriverThreads` |
| `AudioSender` | `SvrtAudioTransport::Run` of `audio.cpp` | checked in `DriverThreads` |
| `DriverThreads` | composes the two with the link's threads and the provider of `driver.cpp` | checked, safety proved |
| `DriverThreadsProofs` | theorems about `DriverThreads`, the lookup and the audio sender included | proved |
| `MC*` | instances for TLC | |

**FramePipe.** One thread, so `pc` has three places: waiting in `poll`
(`"poll"`), inside `ready_frame` (`"ready"`), an access unit returned
(`"decode"`). `Accept(d)` is `accept_datagram` as a whole: the session switch
that empties the slots (`EnterSession`), then one of the ends the function has:
too old (`DropLate`), no slot or no memory (`DropNoSlot`), a slot taken and the
shard refused (`DropUnfit`), the shard stored and its group recovered if parity
allows (`StoreShard`). The loop of `ready_frame` is one action per branch:
`DropUndecodable`, `Deliver`, `SkipToNewest`, `NothingReady`. `Decode` is what
`svrt_run` does with the unit, `Reopen` is close and open. A payload is the set
of cells (group, shard) present. A time is an age that saturates at the deadline,
the only bound the code compares it with. The network is `Datagrams`: any member
may arrive at any poll, any number of times, so loss, duplication, reordering and
delay need no actions of their own. The only restraint is `Horizon`: a datagram
in flight is less than half the identifier space away from the expected frame,
without which the signed comparison means nothing. `VideoStream` shows that a sender
keeps it.

**VideoStream** adds the sender (`stream` is `session_id_`, `sent` is
`encoded_frame_`), the datagrams in flight and `reliable`, which the environment
may set once. The sender waits for nobody. Before the network settles, each period
sends an access unit or none, datagrams arrive in any order, any number of times or never,
and both ends restart; all slots may fill while the expected frame is missing.
`Settle` loses what is still in flight. Afterwards one access unit is sent a period, and
all its datagrams arrive within it; how far the pipe is behind then is its own doing.

**ReceiverAuth.** `main`, `monitor`, `tracker` and each `client` are threads with
a place of their own; every load and store of a shared atomic is a step, except
several that nothing can tell apart. `svrt_status_server_update`
loads the revocation flag in one step (`UpdateThen`) and stores the state in a
later one (`"store"`). Hosts are the environment: a user changes `granted` in
Steam, the driver re-reads it into `believed`, a poll carries `believed`. `Paired`
publishes the host's address only if the file of the paired host can be read back
(`main.c:88-91`); if not, the receiver streams with the address of an earlier host or
none.

**ReceiverLink.** `PollLost` and `PollAnswered` are one turn of
`SvrtReceiverLink::Run` with the `Poll` it calls and the bookkeeping after it;
the result is stored in one step under the link's mutex. `Look`,
`LookAgain`, `Publish`, `Finish` are `RunFrame`, cut where it reads the link
again. `Activate` and `Deactivate` hold the lock `RunFrame` holds. The receiver
answers with one of its states; `settled` says that the environment has stopped
changing, so that "in the end" can be said.

**DirectMode.** The compositor (`present`), the worker and the main thread
(`control`) each have a place in `at`; the packetizer has one in `packetizer`,
with the socket of the send it is in, which it loads anew for every packet
(`SendFrame`). `Enter` to `Return` are `PresentVirtual`,
`CopyVirtualFrame` and `StartEncoder`; `Relock` to `Pause` are `EncoderThread`, of
which the condition variable takes three actions (`NothingToDo` tests the
predicate, `Block` releases the mutex, `Wake` is the notification, which a thread
between the two misses). `CloseEncoder` is seven actions (`CloseStep(t)`) that
any of the three threads may be in, the worker without a lock. A process and its
pipes have one number, so that a handle replaced under a thread shows. Every
system call may fail and FFmpeg may end at any moment; that it reads its stdin is
not assumed, so that a write may block for ever. `aborted` is `std::terminate`,
which the assignment to a joinable `packetizer_` calls: it is reachable, when the
compositor starts an encoder that the worker is closing.

**Pairing.** `main`, `worker` and `library` are the places of the three
threads; the two files, `identity` and `marker`, survive `Restart`, which may
happen anywhere. Either may be unreadable at any time: `load_or_create_identity` then
draws another identity and replaces the file (`CreateIdentity`). Nobody syncs the
directory after a rename, so that a file may be an older one after a loss of power:
`PowerLoss`, which follows a `Restart`, allows any identity or none, and any of the hosts
that ever approved or none. The library and the
hosts are external: it runs one callback at a time, and a host approves, rejects or stays
silent. A deadline may pass at any poll, except that no callback is assumed to take the
120 seconds of the authorization. `JoinPairing` and `Forget` are what `ReceiverAuth` calls
`Paired`, `NotPaired` and the end of its loop. `Consent` has none of this: an identity
that is saved before it is used, a host that is asked under it, its approval, an outcome,
the pair served. It does not promise that the identity is kept from one attempt to the
next, because the code does not. `Pairing` maps to it with the pairing thread's identity
as `device`, the file's as `saved`, the selected host as `asked`, the state in which the
pairing thread ended as `outcome` (`Outcome`), and the address main took from the file as
what it serves (`Serving`).

**Fec.** A byte is the set of its bits, so that XOR is symmetric difference and
`gf_mul` a fold over the bits of one factor. `FecExact` compares it with
polynomial multiplication, loses every set of up to three shards of groups of
one to ten, with each pattern of parity, and requires the bytes that were sent or a
refusal; and it ties the refusal to `FramePipe!Recoverable`, which the pipe's
model uses instead of bytes.

**Scanout.** A frame is the surface it was decoded into. `Open` to `Drained` are
`svrt_run` and `decode`, `Lookup` to `CommitFails` are `svrt_drm_present` with
`choose_plane`, `cached_fb`, `prepare_atomic`, `atomic_present` and `open_hud`
inside, each KMS call a step that may fail; `PlaneOff` and `Close` are
`svrt_drm_close`. The kernel is external: it holds one commit until `VBlank` and
answers EBUSY meanwhile, and counts handles and framebuffers by what was asked of
it. It may also refuse to turn the plane off, which `svrt_drm_close` does not ask about
(`refused`); removing the framebuffer then makes the kernel turn it off itself. So is the decoder: it takes any surface that it does not predict from and that
nobody references. A surface keeps its identity while a handle pins it, so a new
session brings new ones. `healthy` says that no call fails any more.

**HostLookup, AudioSender, DriverThreads.** `HostLookup` and `AudioSender` leave
the flags they read (`running`, `available`, `calm`) to whoever instantiates them;
`DriverThreads` does, with variables of its own. `hmd` is the thread that
`Deactivate` waits for, the video worker last (`driver.cpp:178-186`). Of that worker there
is only its end: `StopVideo` tells it to stop, which it may sleep through (`"asleep"`), as
`DirectMode` shows in detail. The sockets and Winsock references of the process are
counted, not named. What `Poll` makes of an answer is `ReceiverLink`'s; here it is
`ready`, which `RunFrame` passes to the sender one frame later. Steps of one
thread that touch nothing shared are one step: `WSAStartup` with the socket's
opening, `GetNextPacketSize` with `GetBuffer`, the wait of a lookup with the
second look at its event; the addresses of a name are tried in one.

## 3. The runs

| run | instance | shows |
|---|---|---|
| `pipe` | 2 slots, two sessions, identifiers modulo 7 around the wrap, 2 data + 2 parity shards, misfitting shards, allocation may fail | `ChainUnbroken`: a delta frame follows its predecessor. `GapAnnounced`: no silent gap. `SlotsAccounted`: one slot a frame, counting what is there. `SlotsComeFree`: no slot is lost to the session and full slots are not the end. `StallEnds`: a lost frame stalls for a bounded time. `FeedsDecoder`: refinement of `DecoderFeed`, order and sessions in one. `FecExact`: two lost shards are rebuilt exactly or refused |
| `stream_outage` | 2 slots, two encoder sessions of up to 4 frames before the network settles, deadline 1 frame, keyframe every 3 | `StaysInReach`: the pipe is never further behind than the outage and one deadline, and nothing in flight is out of reach of the signed comparison. `StreamResumes`, `GapsEnd`: after the outage, which may fill every slot, the stream comes back and has no more gaps |
| `auth_control` | one host, one request at a time | `PairingIsUnauthorized`, `NothingOutlivesServer`, `RevocationHolds`, `ApprovalHolds`, `Terminates` |
| `auth_revoked` (violation) | as above | `RevokedPublishesNoPose` fails, section 7 |
| `link_follow` | 2 missed probes allowed, samples fresh for one tick | `LossTolerated`, `StreamStops`, `TrackingLossShown` |
| `link_absent` (violation) | as above | `AbsenceShown` fails, section 7 |
| `direct_safety` | 2 slots, 3 frames, 2 encoders | `WorkerOwns`: the slot and the pipe the worker uses without a lock stay its own. `NewestFirst`: no frame is encoded after a newer one. `SocketOutlivesSend`: no socket is closed in the middle of a send. `StopLeavesNothing`: no thread, handle or slot outlives `Stop` |
| `direct_stop` (violation) | 1 slot, 1 frame, 1 encoder | `StopEnds` fails, section 7 |
| `pairing` | 2 hosts, 2 identities | `KeepsConsent`: refinement of `Consent`. `StreamsToApprover`: the host streamed for is the one that approved. `PairingEnds`: a signal ends it |
| `scanout` | 2 surfaces a session, 2 table entries, 2 objects a surface, 1 retry, 2 formats and 2 planes | `NothingLeaks`: the kernel holds what the tables will release, whichever call failed. `ScanoutBacked`: no framebuffer is removed while on screen or in flight, unless the kernel refused to turn the plane off. `StopShowsOne`: of a backlog at most the frame in hand is shown after a stop. `ShowsAgain`: frames come back when calls succeed |
| `scanout_reuse` (violation) | as above, 1 object | `DecodesAside` fails, section 7 |
| `driver_threads` | 2 lookups at a time, a host by name or sound | `LookupOwned`: context, event and addresses of a lookup are freed once, by the last user. `NothingLeft`: no thread, socket or capture outlives the OpenVR context. `DeactivateEnds`: no join waits for ever but that of a video worker that sleeps through its stop. `SoundFlows`: sound comes back after every failure that ends no thread |

Every property of a passing run has a mutant in `PROJECT.json`: a plausible bug
in one definition (`SlotForFreeFirst`, `SkippedFramesOne`, `ImportFailsOpen`,
`TakeShared`, ...), under which the run reports that property violated.
Every run checks for deadlock but those of `DirectMode`, where vrserver may end by
`std::terminate`, after which nothing moves, and of `Scanout`, where the receiver
quits.

## 4. Bounds, and why they are enough

- `Slots`: 2 of 16 reach exhaustion in a few steps, which is the case that
  matters; the code treats all slots alike.
  `stream_outage` has 2 too, one more than `Deadline`: the frames that may arrive
  while one is waited for, and that one. With no more slots than frames in a
  deadline the stream may never resume, as TLC shows with 1. The code has 16 against
  80 ms * 90 fps = 7.2.
- `IdMod` 7 in `pipe` and 15 in `stream_outage` for 2^32: the identifiers wrap within a run
  and the signed comparison meets every distance. `Horizon` keeps both halves apart, as nine
  months of video do in the code.
- `Deadline` 1 tick: ages below, at and beyond the bound exist.
- `Shape`: one group of 1 or 2 data shards with 2 parity shards for groups of up
  to 10; recovery depends on how many of a group are missing, and 0, 1 and 2 occur.
- `Gop` 3: a keyframe is inside and outside of the backlog of an outage.
  `Outage` 4 bounds the frames a session sends before the network settles, not what
  follows. They are twice the slots, so that the slots fill with frames behind
  which the expected one is missing.
- `Sessions` {1, 2}: a session ends, and another begins and, in `pipe`,
  ends again in favour of the first. The second session has two keyframes, and no
  deltas: what a delta may follow is the first session's matter.
- `Clients` 1 and a single host keep `auth_control` at three minutes; requests still
  follow each other without bound and overlap with every other thread. The
  proofs cover any number of concurrent requests and hosts.
- `MissedLimit` 2 for max(12, 3000 ms / poll interval): there is a probe below
  the limit and one at it. `FreshFor` 0: a fresh and a stale sample.
- `DirectMode`: 2 of 3 slots hold one frame in the worker's hands and one that is
  newer; `Frames` 3 lets the older of two be dropped while a third arrives;
  `Encoders` 2 is an encoder that is closed while the next is started. `direct_stop`
  needs one of each: the hang comes before the first frame.
- `Pairing`: two hosts are one too many to be taken; two
  identities are one that is saved and one that replaces it. The number of restarts and of
  losses of power is not bounded. 
- `Fec`: groups of every size up to the code's ten, every set of lost shards up to
  one more than can be rebuilt. Every value of a byte meets each coefficient in
  `FieldSound`; four groups of bytes then show whether the formulas use them in the
  right places.
- `Scanout`: `CacheSize` 2 of 32 fills within two sessions of two surfaces, which is
  how the code's fills; one retry of 20 meets EBUSY both before and at the limit; two
  objects of up to four make an import that fails half-way.
- `DriverThreads`: two contexts are a lookup that was given up and the next one. The
  host is given by name or sound is sent, not both, because the two meet only in
  the result of a poll, which is free. Activations are not bounded.

## 5. Fairness, and why the code justifies it

- `FramePipe!FairSpec`: `poll` returns within 20 ms (`pipe.c:270-289`), the loop
  of `ready_frame` frees a slot or returns in each turn, the decoder call
  returns; the clock advances. Strong fairness of `Tick` because the model
  lets it happen at two places of the loop only. Nothing is assumed of the
  network.
- `StreamSpec`: the receiver's loop runs, the encoder keeps producing, and a
  network that is reliable delivers. That it ever becomes reliable is not assumed, nor is
  anything about it before.
- `ReceiverAuth!FairSpec`: each thread is scheduled; a stopped `svrt_run` returns;
  a driver polls again and again and re-reads Steam's files (every 500 ms), and
  its polls are accepted when there is a thread to spare; pairing succeeds
  some time if it is possible again and again.
- `ReceiverLink!FairSpec`: the polling thread and `RunFrame` run, time
  passes, and a check of Steam's files that is due succeeds now and then.
- `DirectMode!FairSpec`: every thread runs; strong fairness of the compositor and
  the worker, whose steps need a lock that others take again and again; FFmpeg
  ends once its stdin is closed. No spurious wakeup and no progress of FFmpeg is
  assumed.
- `Scanout!Spec`: the threads run and the display refreshes. Packets keep coming
  there, because what happens when they do not is `FramePipe`'s. That the calls
  ever succeed is the hypothesis of `ShowsAgain` (`healthy`), as is that every format
  has a plane (`SizesAssumption`).
- `DriverThreads!FairSpec`: the threads run, the video worker too when it is awake, every call of Windows returns, vrserver
  calls `RunFrame`, and a lookup that was begun is answered or cancelled. That
  failures end (`settled`) and that no thread has ended for good are hypotheses of
  `SoundFlows`.
- `Pairing!FairSpec`: the three threads run and deadlines pass.  Nothing is assumed
  of the hosts or the user.

## 6. What is proved

`tlapm` checks these for every value of the constants that satisfies the
module's named assumption, so for any number of slots, identifiers, sessions,
hosts, requests, lookups, surfaces, frames and encoders. The assumptions:

| module | assumption | what it says, and why the code justifies it |
|---|---|---|
| `FramePipe` | `PipeAssumption` | sets and sizes have their types; shards are within their group, as `stearlight_packet_decode` makes sure; `2 * (Horizon + 1) < IdMod`, without which a signed 32-bit difference orders nothing |
| `VideoStream` | `StreamAssumption` | a positive `Gop` that divides the identifiers; an outage of at least two frames, and `Outage + Deadline <= Horizon`: with 2^31 identifiers, any outage of months; `Deadline < Cardinality(Slots)`: the 16 slots of the code are more than the frames of a deadline (8 at 90 Hz), however long the outage. Allocations succeed, which the lag depends on; the theorems about the pipe alone do without |
| `VideoStream` | `ShardsAssumption` | each cell of a frame is one of its shards, as the loop of the packetizer has it |
| `ReceiverAuth` | `AuthAssumption` | finitely many hosts and requests, at least one place for a request |
| `Pairing` | `PairingAssumption` | identities are numbers, "no host" is not a host |
| `ReceiverLink` | `LinkAssumption` | the limit of lost probes is positive (`max(12, ..)`) |
| `DirectMode` | `DirectAssumption` | finitely many slots, at least one; `NoSlots` is not a table of slots |
| `Scanout` | `SizesAssumption` | at least two surfaces and one table entry; "none" is neither a surface, nor a plane, nor the overlay; every format has a plane (used by `ShowsAgain` only) |
| `DriverThreads` | `ThreadsAssumption` | settings are of their type, "no context" is not a context |

Each proof has the same shape: the properties are not inductive, because they speak
of the moment at which something is used; the strengthening says what holds at
every place of every thread in between; one lemma for each part of it has one step
per action, or per thread's actions; a last lemma puts the parts together. TLC
checked each strengthening as an invariant of its run's instance before it was proved.

**The pipe: order.** `FramePipeProofs!TypeCorrect`: `Spec => []TypeOK`.
`Continuity`, `OneSessionAtATime`, `GapsAnnounced`: `ChainUnbroken`,
`SessionsNeverMix` and `GapAnnounced` are invariants. `FeedsTheDecoder`:
`Spec => Feed!Spec`, the refinement. They rest on `ContinuityInv`:
while the gate is open, the expected frame is the successor of the unit the
decoder consumed last, in the session of the pipe; a pending flush closes the
gate; a closed gate has announced the gap; every frame in a slot is of the
current session. With it each `Decode` is a `Feed` step, `Reopen` is
`Reopen`, and every other action stutters.

**The pipe: slots.** `FramePipeProofs!Accounted` and `SlotsFreed`: `SlotsAccounted` and
`SlotsComeFree`. Identifiers wrap, so "before" and "after" only mean something near the
expected frame; the proofs replace the signed comparison by the distance from it,
`Off`, and show how distances change when the expected frame moves (`OffSucc`,
`OffFrom`). `WindowInv` then says that every slot is ahead of the expected
frame by at most `Horizon`, and the newest frame at least as far as any slot with
a shard in it, or right behind. This is what makes `NoLeakedSlot` survive a wrap, and it is where `Horizon` is
needed: with a datagram half the identifiers away TLC finds a slot that stays for
good. `Tidy` says that the counter of a slot is the cardinality of the set of its
data shards and that no frame has two slots. `DeadlineArmed` follows from both: if all
slots are taken by later frames, the newest is ahead, and the deadline runs. `DeadlineComes`:
`WaitStartsOverOnce`, an action property: the deadline counts from the first shard of the
expected frame or, before there is one, from the last progress; that base moves at
most once per frame, whatever comes in between. This is the safety half of `StallEnds`.

**The video path end to end.** `VideoStreamProofs!StreamIsAPipe`: `StreamSpec => Spec`. Each
step of the composition is a step of the pipe or leaves it alone, so that every theorem
above holds of the composition; `StreamFeedsTheDecoder` is one of them.
`HorizonIsKept` and `LagIsBounded` (`HorizonKept`, `NearLive`; together `ReachIsKept`, the
property `StaysInReach` of the run) are what the pipe alone has to assume. They need
each other: the pipe lags little because the comparison of identifiers is right,
and that is right because the pipe lags little. `LedInv` says that, counted from the
expected frame, everything in a slot or in flight, of the live session or of any that
is gone, is short of the frame its encoder would have sent next, `Edge`. `OutageInv` says
that during the outage nothing is further behind than the start of the stream. `LagInv`
bounds the lag after it: the pipe falls behind only while it waits, one frame for each
period of the wait, so that `Behind <= Outage + Stall`. The wait is over at the deadline
only if a newer frame is known. `LagInv` therefore follows the access unit sent last from
the network (`Unread`) into the pipe (`Read`), where it becomes the newest frame unless
it finds no slot. Then every slot has a later frame than the expected one, and since fewer
frames than slots do not fill the slots (`SlotsSuffice`), one of them, and with it the
newest, is at least a deadline ahead (`Ahead`): `Deadline < Cardinality(Slots)` is used
here, and giving up then leads close enough to the live edge (`SkipLag`).
With `HorizonIsKept`, the guard
`InHorizon` of `Accept` blocks nothing that is ever in flight: it is no restriction of the
composition.

`GapsDoNotBreed`: `StreamSpec => NoNewGaps`, the safety half of `GapsEnd`. From a state in
which the pipe has given out all that was sent on a reliable network, it never waits for a
keyframe again. `KeepsUp` is what every step keeps from then on: the pipe expects the
next frame, or the one sent last, and each data shard of that is in its slot or on its way
(`Arriving`). When a period ends with nothing in flight, the slot has all shards, its
counter says so (`Tidy`), and the frame has left. That the pipe ever catches up is the
other half of `GapsEnd`, which TLC checks; the states it starts from occur in
the run.

**The receiver's control.** `ReceiverAuthProofs!TypeCorrect`, `UnauthorizedWhilePairing` and
`ThreadsEndBeforeServer`: `TypeOK`, `PairingIsUnauthorized`
and `NothingOutlivesServer`, from `JoinedInv`: outside the loop around the
video stream the monitor is joined, so that the handlers are the only other writers of
the state, and they write nothing but `UNAUTHORIZED`; the threads that could
create handlers are joined before the handlers are counted.
`RevocationIsNotUndone`: `RevocationSticks` bounds the race of section 7. From a state
in which the revocation is stored and no update under way carries another value, no
step leads to one where it is not so, until the flag is cleared by the next pairing.
`WithdrawalLasts`: `RevokedForGood`, the safety half of `RevocationHolds`: while no host
approves the device, a receiver back at the pairing stays unauthorized and without a
tracking target. It needs that no request is between its test of the state and its registration,
and that the tracking thread's sample of the state is not an old one.

**Pairing.** `PairingProofs!TypeCorrect` and `StreamsForApprover`: `TypeOK` and
`StreamsToApprover`, from `PairingInv`. It follows the host from the search to the stream:
within an attempt the first that answers is kept (`HostInv`); the flag of success means
that the host asked has approved the identity in use (`AnswerInv`); from the moment the
state is PAIRED the file names that host and no longer changes (`OutcomeInv`); and the
pairing thread lives exactly as long as main waits for it (`ThreadInv`).
`ImplementsConsent`: `Spec => KeepsConsent`, the refinement of `Consent`, by one
case per action of `Pairing` from `PairingInv` and `VerdictInv`. Restarts, losses of
power, and files that cannot be read or written are among the actions: an identity is in
its file before a host is asked under it, and one that replaces it is one that no host
has approved. `VerdictInv` says what
`PairingInv` leaves out because its theorems do not need it: that a thread that
has ended with a host asked left a verdict unless main had stopped it, that
nothing changes the state after that, and that callbacks come only while the
library runs.

**The presenter.** `ScanoutProofs!TypeCorrect`, `Leakless`, `Backed`, `StopsAfterOne`:
`TypeOK`, `NothingLeaks`, `ScanoutBacked`, `StopShowsOne`. `NothingLeaks` compares the
kernel with the tables at the places where the run thread is between two frames;
an import is many calls, so `ImportInv` says what the kernel has in the
middle of one: the handles of the first n objects and no framebuffer yet.
`HandInv`: what is committed has an entry, and an import has room. `PlaneInv`: nothing
is committed before a plane is chosen, and nothing is queued or on screen when the plane has
been turned off, unless the kernel refused, which is why the release that follows frees
nothing that is shown. `StopInv`: once a frame was
committed after the stop, none is in hand. That a new session finds surfaces that the
table does not pin is counting (`FreshPoolType`).

**The driver's threads.** `DriverThreadsProofs!TypeCorrect`, `ContextsOwned`,
`CleanupLeavesNothing`: `TypeOK`, `LookupOwned`, `NothingLeft`. `LookupOwned` needs
`LookupInv`: which step of a lookup has a context, what may have become of
the callback by then, and until when the list of addresses has an owner; the
reference count is then the number of users whatever the order of the
callback and the deadline. `NothingLeft` is about the moment the OpenVR context goes, `JoinedInv`
about the joins before it, in their order, the video worker's last, and `SenderInv`, `SocketsInv`, `WinsockInv` about
what a thread has at each place. Without the last two a thread might have ended and
left a socket.

**The encoder.** `DirectModeProofs!TypeCorrect`, `Owned`, `InOrder`, `SocketsKept`,
`StopsClean`: `TypeOK`, `WorkerOwns`, `NewestFirst`, `SocketOutlivesSend`,
`StopLeavesNothing`. `LockInv` says at which places a thread holds which mutex; the worker
maps and writes without one, so that what protects its slot is `StartInv` (an
encoder is started only when there is no frame, hence none with the worker) and
`SlotsInv` (a slot with a frame is newer than what FFmpeg has got, except the one
the worker is done with). `SocketInv`: a socket that `CloseEncoder` has taken over is not the one in
use, for each of the three threads that may be in it. `LifeInv` and `GoneInv`: how far `Stop` has come,
and that nothing comes back behind it. Two attempts failed for a good reason: it has to
be said that no frame is being presented when the encoder is not running, and that a frame is
copied only into slots that exist. Both hold because `Stop` takes the lock that
`PresentVirtual` holds throughout.

**The link.** `ReceiverLinkProofs!TypeCorrect`: `TypeOK`; the counter of lost probes
stops at its limit, and an error report is never remembered as a good state.
`StreamSurvivesLoss`: `StreamKept`, the safety half of `LossTolerated`: on a good link the
stream is not switched off by any order of replies, lost probes, checks and frames; the
frame in progress has to be counted in (`InStream`), because it publishes a decision made
earlier. `GoneStaysOff`: `StreamKeptOff`, that of `StreamStops` for a receiver
that is gone: while it does not answer, no number of further lost probes makes the link
fall back on the good state it remembers. Of a receiver that answers and must not have the
stream it is not true (section 7).

Only model-checked, and why:

- Every liveness property (`StallEnds`, `StreamResumes`, `GapsEnd`, `RevocationHolds`,
  `ApprovalHolds`, `Terminates`, `LossTolerated`, `StreamStops`, `TrackingLossShown`, `PairingEnds`,
  `ShowsAgain`, `DeactivateEnds`, `SoundFlows`): liveness under fairness and `ENABLED`
  are outside what the prover does. What is proved of some is a safety half:
  `WaitStartsOverOnce`, `NoNewGaps`, `RevokedForGood`, `StreamKept` and `StreamKeptOff`. No run
  lists these, `RevocationSticks` or `SessionsNeverMix`; TLC found each to hold in the
  instance of its module's run before it was proved, and each starting condition to occur.
- `FecExact`: it evaluates the field arithmetic byte by byte, which is induction over
  data.
- The properties of the violation runs, which are false.

## 7. Where the code departs from what it says

- **`auth_revoked`.** `svrt_status_server_update` tests the revocation flag and
  stores the state three lines later (`status.c:433-436`). A request that revokes
  in between (`:230-231`) is overwritten, and poses are marked connected until the
  next update. `RevocationHolds` shows that the next update repairs it.
- **`link_absent`.** `RunFrame` decides from one snapshot and publishes another
  (`driver.cpp:258-285`). If the receiver comes back between the two, the
  only transition to "off" carries a connected pose; if it is gone again before
  the next `RunFrame`, no other pose follows.
- **`direct_stop`.** `Stop` clears `running_` and notifies the worker without
  `mutex_` (`direct_mode.cpp:62-68`). A worker that has tested the condition of
  `ready_.wait` (`:349`) and does not sleep yet misses the notification, and the
  join of `:69`, meant to be prompt (`:63-65`), never returns: `accepting_` is already
  false, so no frame wakes it either. `SetReceiverAvailable` has the same gap, but
  is called again in the next `RunFrame`.

- **`scanout_reuse`.** `svrt_drm_present` commits a frame without blocking and keeps
  no reference to it; `decode` drops its own as soon as the call returns
  (`svrt.c:205`). The comment at `drm_presenter.c:62-64` says that a cloned frame
  keeps the decoder from the buffer on screen, but only the two-stream path
  keeps one. Here the decoder writes into the surface on screen.

Others that are in the models, or were met while writing them, and that no run
claims:

- `Run` remembers every answer but an error as the last good one, also the refusal of a
  device whose approval was withdrawn, or STARTING (`receiver_link.cpp:346-350`). The
  next lost probe copies it and makes it DEGRADED (`:334-336`), for which
  `receiver_stream_ready` starts the stream, until an answer or the limit of
  lost probes, against the comment of `:234-236`. TLC shows it in a few steps of
  `ReceiverLink` as a violation of `active /\ ~authorized => ~StreamReady(state)`;
  `StreamStops` shows that it does not last.
- `stearlight_fec_recover` refuses a group without parity shard 0
  (`stearlight_protocol.c:152`), although the other one determines a single lost
  shard; and the pipe recovers a group only when a parity shard arrives
  (`pipe.c:151-173`), so a data shard that comes after its parity may leave a
  group that could be rebuilt as it is.
- A pairing succeeds whether or not the host's address can be read back from its file
  (`main.c:88-91`, `steam_link_pairing.c:324-340`). Without an address
  `request_from_paired_host` believes no request (`status.c:131`): the revocation of the host
  is ignored and the device streams connected poses for good. TLC shows it as a
  violation of `RevocationHolds` without its hypothesis `<>[]HostKnown`.
- An identity file that cannot be read or parsed, and a loss of power after it was replaced,
  cost the device the identity that its hosts have approved (`steam_link_pairing.c:76-112`):
  it has to be approved again. Nothing documents otherwise.
- The result of the call that turns the plane off is ignored (`drm_presenter.c:297`), and the
  framebuffers are removed next. `ScanoutBacked` excepts the case in which that call failed;
  no document says what should happen then.
- In `Pairing`, a discovery that is late overwrites FAILED by SEARCHING, for which a
  receiver without a screen waits for ever.
- In `DirectMode`, an encoder that fails while no frame is pending stays off until the
  receiver has been lost and found again.
- A capture that cannot be opened, or an error other than a lost device, ends the
  sound until the device is activated again (`audio.cpp:127,161`). A tracking
  thread that fails to start leaves no port, and every poll fails
  (`receiver_link.cpp:429`). A callback of a lookup may run after Cleanup.
- The plane is chosen for one format and kept: a session of another format fails until the run, and with it the presenter, is closed.

## 8. What is left out, and why

Not modelled:

- Utility, discovery, user interface, scripts, packaging: files, drawing, one
  stateless request. `svrt_request` of the utility has no caller.
- The receiver's player (`audio.c`): one thread around ALSA that opens its output
  again when the format changes and logs gaps.
- The two-stream path (`svrt.c:87-179`, `svrt_drm_present_dual`): the worker that
  calls it is never started.
- In modelled parts: statistics and log lines, error strings, header and pose byte
  layout, the numbers in a pose, icons and properties, geometry, the overlay's
  pixels, software presentation and headless mode of `svrt.c`, clock offsets.
- PING and TRACE requests, which only read.
- In `direct_mode.cpp`: the direct path (`Present`, `SubmitLayer`, swap textures), the lock of
  the D3D context, which is never held across a wait, and `SetNetworkStats`, which logs.
- What is still planned (next section).

## 9. The plan

Done, in this order: `DecoderFeed`, `FramePipe` and its proofs, `VideoStream`,
`ReceiverAuth` and its proofs, `ReceiverLink`, `DirectMode`, `Pairing` and its
proofs, `Fec`, `Scanout`, `Consent` and the proof that `Pairing` implements it,
`HostLookup`, `AudioSender` and `DriverThreads`; then the proofs about the slots of
`FramePipe`, `Scanout`, `DriverThreads`, `DirectMode`, `ReceiverLink` and `VideoStream`. Possible next:

1. `DirectMode` composed with the sender of `VideoStream` (`EncoderRestarts`): the
   session identifier and the frame counter are set by the compositor while the
   packetizer of the encoder before may still send.
2. `Trace`: arrival time and identifier of a packet as two atomics of `status.c`.
