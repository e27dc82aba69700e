# Formal models of obs-irl-source

`obs-irl-source` is an OBS Studio source that receives a live stream (SRT, RTMP,
RIST, UDP, ...) through FFmpeg, repairs its timing, buffers it and hands audio
and video to OBS. Everything that is hard about it is timing and threads: six
kinds of thread share one source, connections come and go under it, and the
user may change any setting at any moment. The unit tests of the repository
cover the pure parts (`irl-core`); they hardly reach the interleavings. This
directory models those.

    tlc  -config Lifecycle_safety.cfg MCLifecycle.tla     # one run
    tlapm LifecycleProofs.tla                             # one module of proofs

`PROJECT.json` lists the components, the runs with what each shows, which lines
of the source every definition stands for, the hazards in the code and the
properties aimed at them, a mutated form of a definition for every checked
property (the property must fail under it), and the theorems.

Two kinds of module model the code. A *state machine* has one action per operation, and a run
of TLC explores its interleavings. A *module of operators* translates code that computes and
has no steps of its own; what it promises is stated as operators over its inputs, which an `ASSUME` of the MC module
next to it has TLC evaluate for all short inputs at the start of that module's run.

## 1. The system

### Threads and shared state

| thread | started by | loops over | blocked in | ended by |
|---|---|---|---|---|
| OBS/UI callbacks | libobs | `show`, `hide`, `activate`, `deactivate`, `update`, media controls, `Drop` | the `obs_state` mutex, joins | - |
| `irl-receiver` | `start_receiver` | open, probe, read, push | FFmpeg (interrupt watch), `retry_wait`, the wait on `stop_done` | `thread_active` |
| `irl-video` | `start_receiver` | take clear, intake, decode, emit, repeat, wait | condition variable, at most 50 ms | `thread_active` |
| `irl-audio` | `start_receiver` | pump the ring into OBS | sleep | `thread_active` |
| `irl-stop` (reaper) | `stop_receiver` | join the previous reaper, join the workers, blank, report | the joins | its own end |
| provider watch | module load | poll the provider for a new ingest URL | a channel with timeout | unload |
| provider sign-in / refresh / sign-out | the dialog | one HTTP exchange each | HTTP | their own end |

Lock order: `obs_state` is taken by callbacks only and never by a worker.
Workers take `audio_state`, then `audio_buf`, then `hot.watermarks`; the video
queue's mutex is never held together with any of them.

### Components, what they keep, what they do, and what makes them correct

**Source lifecycle** (`irl-source/src/source.rs`). State: `ObsState` (`config`,
`media_stopped`, `running`, `stopping`, `stop_done`). Operations: the libobs
callbacks, `start_receiver`, `stop_receiver`, the reaper, `Drop`. A stop must
not block the UI, so it hands the run to a reaper and returns; a start after it
must not open the input before the previous one let go of it. Hard: several
stops and starts in flight, reapers waiting for reapers and receivers waiting
for reapers, threads that cannot be spawned, panics, allocation failures. Correct when: one
connection at a time; a blank screen stays blank; the blank of an old stop
spares the new run; every worker is joined by exactly whoever is responsible;
nothing outlives the source; a source that should receive comes to connect.

**Worker threads** (`shared.rs` `spawn_worker`, the three main loops). State:
`thread_active`, the atomics of `Shared`. Correct when: any end of one worker
ends the other two.

**Video hand-over** (`shared.rs` `VideoChannel`; `receiver/stream.rs`,
`receiver/decode.rs`, `video/thread.rs`, `video/intake.rs`). State: the queue of
packets and decoders, `clear_pending`, the keyframe gate, the decoder, the
pacing queue, the repeated frame. The receiver pushes, the video thread pops;
a disconnect may empty the queue and ask for a blank; overflow drops from the
front. Hard: each queue operation takes the lock anew; a decoder and its packets
must stay in step; a new connection is under way before the old one's blank is
carried out; a stop is flagged without the lock. Correct when: packets meet
their own decoder; nothing of a cleared connection is shown again; nothing of a
connection is shown before its first key frame; no lost wake-up.

**Receiver** (`receiver/mod.rs`, `receiver/stream.rs`, `receiver/probe.rs`, `ffmpeg/src/format.rs`,
`irl-core/url_opts.rs`). State: the open input, the streams found, the streams of the session before, the hardware
device, the interrupt watch, the age of an unbroken run of EAGAIN. Operations: an attempt (a fast probe, and a
full one where the fast missed a stream the session before had), a read and its outcomes, the reconnect wait, a stop. Hard: every
call into FFmpeg may block for ever, an input that waits to be called must not be aborted for it, and EAGAIN makes progress
look endless. Correct when: a call is aborted only when it is stalled or stopped; a dead link is given up;
nothing of one connection is left for the next; a stop ends the thread.

**Audio intake and PTS repair** (`receiver/audio_in.rs`, `receiver/decode.rs`, `irl-core/pts_repair.rs`,
`rescale.rs`, `timing.rs`). State: the repaired timeline, the warm-up, the decoder's error count, the ring's format. Hard: jumps in any
order, verdicts that come during the warm-up, a format change under a hot edit of the target. Correct when: what is in the ring
never runs backwards; a sender that has become steady gets its own time stamps back; the ring is as large
as the watermarks in force ask for.

**Jitter buffer** (`irl-core/audio_buffer.rs`). State: a byte ring and a queue of
timestamped chunks. Hard: wrap-around, overflow, partial reads. Correct when:
the chunks always account for the bytes.

**Watermarks, hot settings, audio hold** (`config.rs`, `irl-core/config.rs`,
`irl-core/audio_hold.rs`, `audio/hold.rs`). State: the published watermarks, the
hold in force. Hard: edits while a hold is in force. Correct when: prime
threshold <= high watermark <= ring; a hold withdrawn is withdrawn everywhere.

**Audio pump and output clock** (`audio/pump.rs`, `irl-core/timing.rs`,
`irl-core/playout.rs`). State: `OutputClock`, the published `PlayoutMapping`, primed/concealing/low-latency
flags, the fades. Hard: the clock is stood down by the receiver between two passes, and within a burst; the thread sleeps and may be
kept from running. Correct when: nothing is handed over late; OBS does not run dry;
video is never scheduled through the mapping of a line that is no longer played.

**Playback speed control and DSP** (`irl-core/speed.rs`, `dsp.rs`). State: the smoothed level and speed, the trim, the carried
fraction of a frame, the drain watch. Hard: a trim that winds up behind a limit, rounding that adds up over hours. Correct when:
more audio never plays slower; rounding loses nothing; a drain that gets nowhere is reported; splices do not click.

**Video decode and intake** (`video/decode.rs`, `video/intake.rs`, `irl-core/video_time.rs`). State: the packet gate, the keyframe gate, the count
of decoder errors, damage, the frame interval. Hard: a decoder that is full, senders that mark no key packets, damage that has no key
frame to end it. Correct when: nothing is shown before a key frame; no damaged HEVC frame is shown and no other lost.

**Video pacing, delay and anchor** (`irl-core/pacing.rs`, `irl-core/video_delay.rs`,
`video/thread.rs`, `video/output.rs`). State: the paced frames and their due times, the anchor, the delay floor with what it has learnt of late
frames. Hard: due times are re-derived while frames wait, audio publishes and withdraws its mapping meanwhile, OBS drops what comes
out of its time. Correct when: OBS's play head stays on the clock from the first frame on; nothing is held without end.

**Provider sessions** (`irl-provider/src/registry.rs`). State: an entry with its
documents, tokens and list per provider id, a state file per entry, the base URLs with a
sign-in under way. Operations: sign in, refresh the list, sign out, resolve a pick. Hard: HTTP
without the lock while several of them run at once; rotating refresh tokens; snapshots saved outside
the lock; answers lost after the provider acted. Correct when: the token in force is one the provider
accepts; a session ends for a reason; the next start finds the session there was; the dialog is woken.

**Provider sign-in** (`registry.rs` `run_sign_in`, `discovery.rs`, `loopback.rs`, `oauth.rs`, `browser.rs`). State: a listener per sign-in,
the state and verifier it drew, the client registered. Operations: documents, registration, bind, browser tab, redirect, exchange, list, store. Hard: the
user and other programs reach the port too; tabs survive the sign-in that opened them; answers are lost. Correct when: a sign-in is
ended by its own tab only; one listener per provider; every sign-in ends and releases its port.

**Provider catalog** (`catalog.rs`). No state. Correct when: the dropdown lists the file's providers, each once, by priority.

**Provider URL watch** (`irl-source/src/providers.rs`, `irl-core/url_recheck.rs`).
State: what the watch remembers of each source, the pick under way, its channel, the tasks on the UI thread. Hard: a pick read
before a request and used after it; an unload that joins a thread which waits for the unloading thread. Correct when: a URL is
only ever replaced by a fresher one of the same pick; a rotated key recovers; the unload returns.

**Provider dialog, module entry, settings, logging, websocket, stats, FFI wrappers**: see
"Not modelled".

### How they interact

    libobs/UI --callbacks--> lifecycle --spawn/join--> receiver, audio, video, reapers
    receiver --packets, decoder, clear--> VideoChannel --> video thread --> OBS video
    receiver --decoded audio--> PTS repair --> AudioBuffer --> pump --> OBS audio
    pump --published PTS mapping--> video pacing          (audio is the master clock)
    video arrival --lead--> audio hold --watermarks--> pump, receiver backpressure
    provider watch --update(settings)--> lifecycle
    dialog --click--> sign-in --session--> provider sessions --URL of a pick--> dialog, provider watch

## 2. The modules

| module | models | state |
|---|---|---|
| `Succession` | what a source promises from outside: runs take over in order, one holds the input, the newest draws | `holders`, `newest`, `screen` |
| `Lifecycle` | `source.rs` and the life of the threads of every run | 13 variables, one of them history |
| `VideoHandover` | `VideoChannel`, its producer and its consumer | 19 variables, 5 of them history |
| `FrameIntake` | `video/decode.rs`, `video/intake.rs`: what a packet comes to | operators; checked by `MCVideoHandover` |
| `SampleQueue` | what the jitter buffer promises: a queue of audio frames, read in order with their time | `queue`, `out` |
| `AudioBuffer` | `audio_buffer.rs`: the ring, the chunks, every operation | 12 variables |
| `Priming` | how much audio waits: target, hold, ring, ceiling, priming; `config.rs`, `audio/hold.rs` and what the receiver and the pump do with them | 24 variables, one of them history |
| `HoldReadings` | `audio_hold.rs`, `window.rs`, `arrival.rs`: the readings the hold follows | operators; checked by `MCPriming`, proved in `PrimingProofs` |
| `Connection` | the receiver's attempts, reads and waits, and the interrupt watch | 16 variables, one of them history |
| `DemuxerOptions` | `url_opts.rs`: what an input is opened with, and whether it waits to be called | operators; checked by `MCConnection` |
| `PtsRepair` | `pts_repair.rs`: the verdict on one frame | operators on a record |
| `AudioIntake` | `audio_in.rs` and the audio half of `decode.rs`; extends `PtsRepair` | 13 variables, 4 of them history |
| `Samples` | `rescale.rs`, `timing.rs`, `dsp.rs`: the arithmetic the other audio modules have no rounding in | operators; checked by `MCAudioIntake`, proved in `ReceiverProofs` |
| `AudioPump` | `audio/pump.rs`, and what the receiver does to the output clock | 21 variables, 6 of them history |
| `SpeedControl` | `speed.rs`: ramp, trim, carry, drain watch | operators; checked by `MCAudioPump`, proved in `PlayoutProofs` |
| `VideoDelay` | `video_delay.rs`: the floor under the schedule | operators on a record |
| `VideoPacing` | the video thread's cycle with times, against the receiver, the pump and libobs; extends `VideoDelay` | 24 variables, one of them history |
| `Session` | `registry.rs`: the sessions of one provider, their files, and the workers that sign in, refresh, sign out and resolve | 18 variables, 3 of them history |
| `SignIn` | one sign-in from click to session, over several providers and ports | 13 variables |
| `Catalog` | `catalog.rs`: the file of providers and its order | operators; checked by `MCSignIn` |
| `ProviderWatch` | `providers.rs`, `url_recheck.rs`: the URL watch and its unload | 17 variables, one of them history |
| `LifecycleProofs`, `VideoHandoverProofs`, `AudioBufferProofs`, `PrimingProofs`, `SessionProofs` | theorems about the modules they are named for, `PrimingProofs` also about `HoldReadings`, and that `Lifecycle` refines `Succession` and `AudioBuffer` refines `SampleQueue` | - |
| `PlayoutProofs`, `ReceiverProofs`, `ProviderProofs` | theorems about `AudioPump`, `VideoPacing` and `SpeedControl`, `Connection`, `AudioIntake` and `Samples`, `ProviderWatch` and `SignIn`; of each two specifications, one has names of its own for what a specification consists of (`PacingSpec`, `IntakeSpec`, ...) | - |
| `MC...` | constants for TLC, and the `ASSUME`s on modules of operators | - |

The definitions that a comment calls "Mutant" are never part of `Next`; they are
the mutated forms listed in `PROJECT.json`.

### `Lifecycle`

*Grain.* Every callback holds `obs_state` from first line to last, so a callback
is one action unless it waits; then `obs.pc` says where its holder is and no other
callback is enabled: `start` (the `start_receiver` at the end of `update`,
`media_restart`, `show`, `activate`, `create`), `rollback` (a later spawn failed
and the earlier workers are being joined), `inline` (the reaper thread could not
be spawned and its body runs in the callback), `drop` (joining the last reaper).
Workers and reapers never take that mutex: each of their steps is an action.

*State.* `running`, `stopping`, `stop_done`, `config`, `media_stopped` are the
fields of `ObsState`. `runs[r]` is the `Shared` of run r with the state of its
threads, `reapers[k]` a reaper with its program counter: join the previous reaper,
join the workers, clear, done (the drop of its sender, which is what `stop_done`
reports). `showing` is what libobs answers, `notified` what it last reported
through `show`/`hide`: `should_run_receiver` reads the first, which may be
ahead of the second. `acted_on` is history: the visibility the source was last told of, or last
read to decide whether to run.

*Data left out.* The stream settings (everything `requires_restart` compares) are
one number, 0 meaning no URL. A run's media is one bit, `frames`: whether its video thread
could output anything. The number of callbacks is bounded by `MaxCalls`.
`showing` may change at any time, any number of times; a tick reports what has changed since the last report, so a change taken back
before the tick is reported by nothing. Callbacks that read `showing` in between act on a value that no later callback
corrects (observation 28): `Flickered` says that this is so, and the liveness of connections exempts it.

*Failures.* `Faults` says which may happen: each of the three spawns, the spawn
of a reaper, a panic of any worker, the receiver's failed packet allocation.

### `VideoHandover`

*Grain.* One action per critical section of the queue's mutex, and per step of the
video thread's loop between two of them: `TakeClear`/`NothingToClear`, `LookForDecoder`
(`next_is_decoder`), `AdoptDecoder` (the `pop` after it, which takes the lock again),
`PopMessage`, `IntakeEnds`, `Decode`, `EmitDue`, `RepeatLast`, `Wait`,
`FallAsleep`, `Timeout`. From its last look at the queue to the moment it sleeps
the video thread holds the mutex (`falling`), so actions that need it carry
`Unlocked`; `Stop` does not, and that is the lost wake-up of
`stop_receiver`. The receiver's actions are an attempt, its failure, a stream opened
and its decoder installed, the re-probe of a fast probe that missed a stream,
`prepare_new_connection` (which closes the keyframe gate), a packet, a read error
with or without Clear On Disconnect, and the exit.

*Data left out.* A packet is its connection and whether it is a key packet; a frame
is its connection and whether the connection had a key packet decoded by its own
decoder before it (`clean`). Times are left out: any prefix of the paced frames may be
due at any pass. The queue's bounds are a span of 12 s, a byte count and no
message count: `Capacity` packets stand for the bytes, and because a jump of the
timestamps exceeds the span at any length, an overflow may happen at any push
and drop any prefix that ends in a packet. Wait For Keyframe is on; with it off
there is no gate to speak of. A decoder yields a frame for a packet or does not, at once
(its own delay line is ignored).

*History.* `asked`, `cleared`, `dropped`, `started`, `drained` appear in no guard;
they let properties speak of what happened before.

### `AudioBuffer`

*Grain.* The caller holds the buffer's lock across an operation, so no two operations
overlap; an operation that loops over chunks is one step per turn of its loop, with
`op` saying what is left to do and every operation beginning only when `op` is idle. A
write is `WritePts`, a `MakeRoomForChunk` per chunk dropped, and `WriteInner`
(`clamp_incoming_to_capacity`, `ring_write`, the new chunk); a read is `ReadPts`, which
takes the frames, a `PtsConsume` per chunk and `ReadEnds`; a trim is `TrimToKeepMs`,
`TrimOldest`s and `TrimEnds`. `Flush`, `Reconfigure` and `Resize` are one step.
`read_with_fade_out` reads as `read_pts` does.

*State.* The fields of the struct by name, the format apart, and `out`, what the last
read that found anything returned.

*Data left out.* One audio frame is the unit of size, of time and of duration, so a sample
is the stream time it has by the label of its write; the rounding between bytes,
milliseconds and nanoseconds is left out, as are the format and its degenerate values
(the fallback capacity), the gain of the fade, and calls that return at once without a change. `write`, which makes up
a time stamp, has no caller outside the tests. `trim_to_keep_ms` has the least of one chunk that
both its callers pass.

### `Priming`

This is the composition of the receiver, the pump and the OBS thread around the jitter buffer,
with the buffer reduced to how much it holds.

*Grain.* Whatever runs under `audio_state` is one action; the edit of Target Buffer
(`Config::apply_hot`) is four (`EditBegin`, `EditGrow`, `EditPublish`, `EditStore`), because
`ensure_buffer_format` reads the watermarks before it takes that lock, and the receiver and the trim read them
without it. Actions that need the lock carry `AudioStateFree`. The receiver goes round `check` (read the
ceiling), `wait`, `read` (a packet, or a fault), `format` (the watermarks read, the lock not yet taken),
`frame` (warm-up, silence, write) and `observe` (the burst reading). The pump's actions are one pass each.

*State.* `target` is the published watermarks, whose other two numbers `derive` computes from it; `config` is the Target
Buffer the OBS thread has on record; `hold_ms`, `hold_skew_ms`, `hold_bursts_ms`, `hold_wait_done` are
the fields of `AudioState`, `primed` its clock, `warm` its warm-up; `ring_target`, `capacity` and `fill` are
the buffer's; `gapped` says that `fill` may include the silence of a gap, which is one chunk however long, so that more than `MaxChunks` may be held (`Kept`). `seen` and `pace` are what the receiver read and has not used yet.

*Data left out.* Time is in audio chunks; a frame is one chunk. How many chunks a fill with silence in it has is left open between one and
all of it. Which reading the windows over skew and
bursts yield, and when, is left open: any member of `Skews` and `Spans` may come at any packet. The time-out of
`prime_may_wait` is one of the moments `PumpPrime` may be taken. A connection carries audio and its keyframe
gate is open. The playback speed is left out: the pump takes a chunk at a time. A failed `resize` is left out: it returns
true on every path. The single differently sized read after priming (`align_read_pending`) is a read of one chunk.

### `Session`

*Grain.* A worker takes the registry's mutex for a moment and lets it go for every request and every
file. One action is one hold of the mutex, one request, or one save; `worker[w].pc` says what comes next and
the rest of the record is what the worker carries in its local variables: `held` (the refresh token it read), `fresh` (the one
it was issued), `snap` (the snapshot to save), `again` (the first 401 is behind it). `persist_entry` is
`Snapshot` then `Save`, `forget_session` is `Forget` and these two, `with_token` is `CurrentToken`, `Call`,
`refresh_access_token` is `ReadGrant`, `Exchanged` or one of its failures, and `Store`. A pick resolves on the UI
thread, so nothing else is clicked and no dialog rebuilt meanwhile; the URL watch is one thread and resolves one pick
at a time.

*State.* `memory` is `Registry::by_id`, `signing_in` its slot, `file` the state files, `valid` what the provider
accepts, `view` what the open dialog was built from, `rebuild` a reload signalled and not served.

*Data left out.* One base URL, whose document may change its id; a second base URL that claims the same id is left out.
A token is the id it was issued under and a serial number, an access token only its presence, the list only
whether it holds anything, the documents nothing but their id. The client id is left out: an entry
without one has no session. Discovery, PKCE, the loopback port and the browser are one step that succeeds or fails
(a code the provider refuses, and a new session it refuses at once, end as an abandoned sign-in). Temporary
files: the rename makes a save all or nothing. A thread that does not start is a stutter: the slot is
given back in the same call.

*History.* `withdrawn`, `behind`, `silent`, `signed_out` and the workers' `refused` and `outdated` appear in no guard;
they say why a token may be stale, a file behind, a dialog unaware.

*Beyond it.* `SignIn` opens up the step that signs in.

### `Connection`

*Grain.* One thread, so one action per step of `Receiver::run` between two calls into FFmpeg, and, while such a call blocks
(`Blocked`), the steps of the outside: `Tick`, `Arrives` (the far end answers, calls in, or sends), `Progress` (a poll of the interrupt callback that
sees bytes) and the end of the call, by itself or because `should_abort`. A stop comes at any time. The receiver's life as a thread is in
`Lifecycle`, the wait for room in `Priming`, and where its packets go in `VideoHandover` and `AudioIntake`.

*State.* The fields of `Receiver` and of the watch. A moment that is kept is its age, counted up to one tick past the deadline. `hw_device` says also
whether a device is left from an earlier connection. `open_decoder` gives what each Hardware Decoding setting can end in.

*Data left out.* Packets, streams beyond whether video and audio have a decoder, error codes. FFmpeg may return anything at any time but succeed
before the far end is there. `DemuxerOptions` computes what `awaits` leaves open: `demuxer_options` is the list FFmpeg is given, with the user's options last.

### `PtsRepair` and `AudioIntake`

*Grain.* One packet runs through `audio_in.rs` on one thread: what happens to one frame is one action, distinguished by
the verdict; the packet's other paths (an error, a burst, a flush, a frame that cannot be resampled, another format) are actions of
their own. What other threads do to the buffer is in `Priming` and `AudioPump`.

*State.* The record of `PtsRepair`, and of the buffer only the time of the last write since it was emptied. After every frame all times are shifted so
that `last_pts` is 0; nothing depends on where a timeline starts, and so behaviours of any length stay in a small space.

*Data left out.* Every frame lasts `Duration`, time is in milliseconds, which is exact for the time base 1/1000. What that hides, `Samples` has:
conversion between ticks, milliseconds and nanoseconds with their rounding and their limits, the samples a duration stands for, and the fades.

*History.* `sent`, `steady`, `locked`, `ran_back` appear in no guard.

### `AudioPump`

*Grain.* `pump_once` runs under `audio_state`, and so does each section of the receiver that touches the clock: each is one action, and a burst of passes
can be broken into between any two. `ReadError`, `FadeOut`, `Closed` are the three sections of a disconnect, which the receiver leaves the lock between. Time
passes by `TimePasses`; a thread that is not stalled has slept, woken and run its burst by `due`; a `Stall` takes any time.

*State.* Times are relative to now; a time further back than anything it is compared with counts as `Past`. `clock.ahead` is the time of the next sample.

*Data left out.* Audio is only its length. What the speed makes of a chunk is anything within `Stretch`; `SpeedControl` computes
it, in millionths of speed and thousandths of a millisecond where the code has floats. The wait before priming is in `Priming`.

### `VideoDelay` and `VideoPacing`

*Grain.* A cycle of the video thread is one action per function it calls (`take_clear`, `BeginCycle`, `adopt_decoder`, `pace_decoded`, `pacing_reschedule`,
`awaiting_audio_mapping`, `settle_anchor_candidate`, `pacing_emit_due`, `EndCycle` with `keep_play_head_running` and the sleep). The pump may publish
between any two; the receiver's actions only while the thread sleeps, because `VideoHandover` has those races and time does not
pass within a cycle. `Pass` is a unit of time, `RenderTick` libobs, whose frame queue and play head are modelled as the comments in `thread.rs` rely on them.

*State.* A packet is its PTS and how long after it it arrived; a frame carries its offset besides. Times are relative to now, durations are ages. `VideoDelay` is the
floor: what it has learnt of late frames, the raise, the relax and its slew.

*Data left out.* Frames are spaced evenly until a reconnect; one that is too late is lost. Whether video is live and how far a slew got are left
open. What a packet comes to is a frame or none; `FrameIntake` computes it: the packet gate and its time-out, the decoder that is full, the
keyframe gate, damage, the interval.

*History.* `unshown` says how long video has been in hand unshown.

### `ProviderWatch`

*Grain.* The watch thread's steps (`scan_sources`, a message taken, a request begun, answered, failed), each task on the UI thread, each thing the user or the network does, and
the unload's three (`WATCH_STOPPING` set, the stop sent, the join). The UI thread runs one thing at a time; in the unload it runs no more tasks.

*Data left out.* One source, whose dialog stays open. A URL is its provider, its ingest and the number of its key. Time is counted in polls. What `resolve` does with the session is in `Session`.

### `SignIn` and `Catalog`

*Grain.* One sign-in is one thread; a request, an accept, a connection served, a hold of the mutex is an action each. The user, the tabs, other programs that
probe the port, reloads, and sign-outs come between any two.

*State.* `signing_in` and `entries` are the registry's, `worker[n]` the local variables of the n-th sign-in, `bound` and `backlog` the ports,
`codes` and `redeemed` the server's. The random draws of a sign-in (state, verifier) are its number, so that no two agree.

*Data left out.* HTTP, JSON and Base64: a request is what it says of port, state, error and code, or silent. A document is which of its fields are
usable. The authorization server is external: it redirects only for a client it knows and redeems a code once. `Catalog` computes the providers
that `Providers` stands for.

## 3. What the runs show

| run | instance | shows |
|---|---|---|
| `lifecycle_safety` | three configurations, two calls and a destroy at any time, every failure but the receiver's spawn | `NothingOutlivesSource`, `OneConnection`, `ClearedStaysCleared`, `EveryWorkerIsJoined`; refinement of `Succession` (`RunsSucceedOneAnother`) |
| `lifecycle_live` | Close When Inactive, three calls, video threads that cannot be spawned, panics; fairness | `WantedSourceConnects`, `MediaStopBlanks`, `WorkersEndTogether`, `DropReturns` |
| `video_handover` | two connections of two packets, capacity 2, lead 1; fairness | `PacketsMeetTheirDecoder`, `ClearIsFinal`, `CleanStart`, `DisconnectBlanks`, `VideoEnds`; promises of `FrameIntake` |
| `audio_buffer` | rings of 1 to 3 frames, 2 chunks, writes and reads of 1 or 2 frames at two times | refinement of `SampleQueue` (`ReadsInOrder`) |
| `priming` | both latency modes, targets 1 and 5, silence of 0 and 4, 9 chunks, holds of up to 9, an edit, a fault, two skews, one burst span; fairness | `TargetIsUserPlusHold`, `RingFollowsTarget`, `OnlyGapsLoseFrames`, `PlaybackStarts`; promises of `HoldReadings` |
| `connection` | a deadline of 2, callers and listeners, three settings of Hardware Decoding; fairness | `AbortsOnlyStalled`, `DeadLinkGivenUp`, `StopEnds`; promises of `DemuxerOptions` |
| `audio_intake` | gaps of every class around their limits, two formats, warm-up 2, bursts of 2 | `QueueRunsForward`, `SteadyStreamRelocks`; promises of `Samples` |
| `audio_pump` | both latency modes, chunks of 2, a lead of 6, a lag of 3, speeds that make 1 to 3 of a chunk, oversleep 3 | `NoStaleOutput`, `NeverRunsDry`, `MappingOfTheLine`; promises of `SpeedControl` |
| `video_pacing` | with and without audio, relaxing on or off, up to two changes of mapping or connection | `PlayHeadOnTheClock`, `ShownInTime`, `SlewSparesFrames` |
| `session` | two ids, two workers at once, three of them in all, two tokens, a restart, a failed save | `StoredTokenAccepted`, `FileFollowsMemory`, `SessionKept` |
| `provider_watch` | one slot, two ingests, two rotations, one edit; fairness | `UnloadWaitsForOne`, `OnlyFresher`, `UnloadReturns`, `RotatedKeyRecovers` |
| `sign_in` | two providers, two ports, one of which may be taken, two clicks, two strays; fairness | `OnlyItsOwnTab`, `OneListenerEach`, `SignInEnds`; promise of `Catalog` |

What the modules of operators promise, and the inputs it is checked over:

| module | promises | inputs |
|---|---|---|
| `FrameIntake` | nothing before a key frame, and the packet gate gives up (`KeyframeComesFirst`); only damage is held back (`OnlyDamageIsHeld`); the interval is usable (`IntervalIsUsable`); bursts are logged, and not too often (`BurstsAreLogged`) | up to three packets of 24 kinds; six packets that fail in any way |
| `HoldReadings` | the hold grows only to what every reading asks for and shrinks to what none exceeds (`HoldFollowsTheWindow`); nothing of an outage is read (`BurstsSkipOutages`); `LiveIsSteady`; `WaitIsBounded` | up to four readings at any times of a window or two |
| `DemuxerOptions` | `UserWins`, `ListenerMayWait`, `CallerHasDeadline`, `OnlyTheProbeDiffers` | three schemes, five queries, up to three options of eight kinds |
| `Samples` | `ClockNeverDrifts`, `StepIsATick`, `CompensationIsExact`, `SplicesAreSmooth`, `RampSpansChunks` | a second of 10000 units, six time bases, up to three chunks, an i64 and an i32 that products reach |
| `SpeedControl` | more audio never plays slower (`RampIsMonotone`); `TrimNeverWindsUp`; `CarryIsExact`, for chunks of two frames or more; `StuckIsReported` | four targets, two maxima, up to three levels, four chunks, five cycles |
| `Catalog` | `DropdownFollowsFile` | files of up to four entries |

*Bounds.* In `Lifecycle` two calls on top of the start by `create` and the destroy
give up to three runs and three reapers in flight at once: a run that waits for a
reaper that waits for a reaper, with a stop of that run under way. The three configurations
differ pairwise in the stream settings, Close When Inactive and Clear On
Disconnect, so every kind of edit (hot, restart, hot that leads to a stop)
occurs. `lifecycle_live` counts a change of visibility as a call and has three of them with one configuration: the source is shown, a callback reads it as hidden for a moment, and
it is shown again with nothing to report, which takes all three (with two, `VisibleSourceConnects` below would hold). Edits there find the settings unchanged and look at the visibility again. In `VideoHandover` two connections are the one that ends and the one that takes over; capacity 2 with
two packets each overflows, and drops a decoder with packets behind it.
In `AudioBuffer` a write of two frames is longer than the smallest ring and wraps in the
larger ones, a read may end inside, at the end of or past a chunk, the chunk queue fills before the ring of
three frames does and after the ring of one does, and a wrapped ring of two frames grows to three. No counter
is bounded: the ring bounds itself. In `Priming` a unit is
some 100 ms: of the targets 1 and 5 the first has its ceiling at the flat cap (`BleedPace`), the second at the floor
above `max_ms`. The constants are chosen so that what goes wrong in the code does: the ring of the target 1 is 8 long with its ceiling at 4, and silence of 4 on top of that
leaves no room for the frame after it (1280, 960 and up to 2000 ms at the default target); the hold takes the target 5 to 9, which with the lead needs 10 of the 9 chunks (256 in the code); in low-latency mode a hold of 9 is longer than the ring of 8;
one edit may raise or lower the target at any point, also while the receiver waits at its ceiling; one fault may be any of the four. `PlaybackStarts` names the states
from which the code does wait (`OutOfReach`, and `stale`) and `OnlyGapsLoseFrames` the frames it does lose; that they are not more than that is what the run shows, and
that they are real is what observations 3, 4, 7, 9 and 11 show. In `Session` two workers are
what it takes for one to act between two steps of another; a third after them finds what they left, in memory or, after a restart, on
disk. Two tokens are one and its successor, by rotation or by a second sign-in. Two ids are the document before and after it
changed its id. The workers and the ids are interchangeable. The theorems below lift these bounds for every safety property a run checks but one.

`Connection`, `AudioIntake` and `AudioPump` have no bound on their behaviours: their states are finite because times are ages and counters saturate. In `Connection` a deadline
of two ticks leaves room for progress before, at and after it. In `AudioIntake` the gaps are those at and around every limit; a frame of 4 and a small gap
of 6 let wobble leave the next frame a small gap ahead. In `AudioPump` the lead is three chunks, as in the code for long chunks,
the lag just longer than a chunk, the buffer nearly twice what starts playback. In `VideoPacing` a tick is two units and the video has half the canvas' rate, so
every second tick needs a repeat; the pacing queue of two frames reaches its ceiling; one mapping shows frames at once and the other beyond
the delay's ceiling; relaxing and changes are explored apart. The queue of libobs never fills there. In `ProviderWatch` two rotations make one answer
stale when it comes; in `SignIn` two clicks are two for one provider, after another, or one each.

*Deadlock* is checked in `audio_buffer`, `audio_intake`, `audio_pump` and `video_pacing`. In the others the system may really stop: a source may be destroyed, a run stopped,
the module unloaded, the clicks used up, receiver and pump wait for each other (observation 4).

*Fairness in `Lifecycle`.* The operating system runs every worker and every reaper;
libobs ticks, so a change of visibility is reported; a callback under way goes on;
an open attempt ends, because the interrupt watch aborts it on a stop and at its time-out.
Nothing is assumed of the user, of the sender (reads may never return packets or fail),
or of a fault (none has to happen). A run one of whose workers panicked or could not be spawned is exempt from `WantedSourceConnects`
(`Crippled`): `running` is then `Some` of a dead run, or nothing was started, and the source stays down until the next
edit or restart, as the code has it. So is, from that property and its converse (`UnwantedSourceDisconnects`, which no run checks), a source that acted on a visibility nothing reports (`Flickered`).

*Fairness in `VideoHandover`.* The video thread runs (its wait always has a timeout),
and `stop_receiver`, having flagged a stop, goes on to its wake-up. Nothing is assumed of the receiver.

*Fairness in `Priming`.* An edit under way, the receiver's loop and the pump's loop go on. As long as packets are read, audio
is among them (SF of `AudioFrame`): this is what "a connection that carries audio" means. SF of `PumpPrime`: after a trim the
pump runs again at once (`pump_once` loops while there is work), so new audio does not for ever lift the fill over the trim's trigger
before the pump looks at it. No fault has to happen and none may happen for ever.

*Fairness in `Connection`.* The thread goes on, time passes, and FFmpeg polls the interrupt callback while it blocks. It need never return by itself.

*Fairness in `ProviderWatch`.* The watch's time-out comes round, the UI thread gets to its tasks, and an unload goes on. SF of `Answered`: a
provider that is asked for ever answers sometime. Any one request may fail.

*Fairness in `SignIn`.* Time passes, and each worker takes its next step: every request has a deadline of its own, and so has an
accepted connection. Nothing is assumed of the user, the browser or the server.

### Observed while modelling

Where the code does otherwise than a comment or document says, or a limit of it. No run is about these; where a property is named that no run
checks, the module defines it, and checked alone with the constants of the module's run (of `lifecycle_safety` and `lifecycle_live`, the second) and the changes given, TLC finds it violated.

1. `start_receiver` takes `stop_done` before it spawns the receiver
   (`source.rs:381`). If that spawn fails, the wait goes with it, and the start after
   opens a second connection while the first may still be held. `docs/architecture.md:56`
   and `source.rs:51` promise the opposite. Every theorem that needs it says
   `"receiver" \notin Faults`. (`OneConnection` with `"receiver"` alone in `Faults` and four calls.)
2. With Clear On Disconnect off, a key frame of the old connection still queued when the new
   connection closes the gate opens it again, and the new connection's
   pre-keyframe video is decoded and shown. `README.md:97` and `README.md:252` say
   it never is. `CleanStart` is what does hold. (`NothingBeforeKeyframe`, with `NotClear`.)
3. The chunk queue has 256 entries (`audio_buffer.rs:179`), which is 5461 ms of AAC at 48 kHz. Priming waits for the target
   plus 80 ms, so Target Buffer above some 5.38 s, hold included, never plays; `README.md:92` offers up to 8 s. (`AlwaysStarts`, with `Modes` FALSE and neither edit nor fault.)
4. The receiver computes its ceiling once and waits (`receiver/mod.rs:229`). A Target Buffer raised during that wait, before playback
   has started, leaves pump and receiver waiting for each other, which the comment at `receiver/mod.rs:219` means to exclude. (`WaitEnds`.)
5. Sign-out writes the state file anew without the token instead of deleting it (`registry.rs:334`), and saves are not ordered
   (`registry.rs:326`): an older snapshot renamed last puts the token back on disk, and a refresh whose request is under way puts its
   token back in memory too. `docs/provider-protocol.md:84` says the file is always deleted, "so the token is gone from the machine either way". (`SignOutErases`.)
6. Overflow of the video queue may drop a `Decoder` (`shared.rs:358`). The packets of that
   connection, key packets included, then go to the previous decoder until the connection ends; `shared.rs:258`
   says the cost is artifacts until the next key frame. `dropped` marks this in the model. (`KeyMeetsItsDecoder`.)
7. In low-latency mode the pump primes on `hold_ms`, up to 5000 ms, in a ring of 4 x (target + 200) ms (`audio/pump.rs:234`): with video later than
   that ring is long, audio never starts. `docs/architecture.md:112` says it primes on the hold's worth. (`AlwaysStarts`, with `Modes` TRUE and neither edit nor fault.)
8. A refresh token is rotated by whoever refreshes first; another worker that had read the old one is answered `invalid_grant` and forgets
   the session just renewed (`registry.rs:376`), although `oauth.rs:124` takes that answer to mean that the session is gone. In the same way
   a worker that found no token forgets a session signed in meanwhile (`registry.rs:358`). `outdated` and `refused` mark these in the model. (`RefusedMeansGone`.)
9. `ensure_buffer_format` reads the watermarks before the lock (`receiver/audio_in.rs:231`); an edit in between leaves the ring at the old size and target
   for the connection, so the ceiling may exceed the ring, which `config.rs:143` says must never be, and a target lowered then may never prime. `stale` marks this in the model. (`CeilingInRing`, with `Settings` 1 and 9.)
10. A Target Buffer raised to the maximum shrinks the hold (`config.rs:119`); lowered again, the hold does not come back while the readings ask for
   the same (`audio/hold.rs:210`), although "the larger is in force" (`audio/hold.rs:5`).
11. Silence for a gap, up to two seconds, is written whatever the ring holds (`receiver/audio_in.rs:297`), and the frame after it can be lost;
   `receiver/mod.rs:205` says the ring never drops audible data. At the default target of 120 ms the ring has 320 ms above the ceiling. `OnlyGapsLoseFrames` is what does hold. (`NoFrameLost`.)
12. A write that does not fit beside what the ring holds loses its newest samples (`ring_write`, `audio_buffer.rs:421`); the comment of
   `write_pts` (`audio_buffer.rs:151`) says the oldest data is dropped. Only a full chunk queue drops the oldest. The abstract queue has it so: `Put` in `SampleQueue`.

13. A resolve may change or end the session without waking the dialogs (`registry.rs:502`); `silent` marks this. The state file of an id the
   base URL no longer has is deleted with the registry locked (`registry.rs:171`), which the module's first lines exclude, and a save
   of an older worker may bring it back.
14. `docs/provider-protocol.md:82` says that a refresh that fails signs out; a provider out of reach does not (`registry.rs:380`), and that is the better behaviour:
   `SessionKept`.
15. A Reset of the repaired timestamps during the warm-up is not acted on (`receiver/audio_in.rs:75`): the ring is empty then, so its order is safe (`QueueRunsForward`), but
   video is not told of the new timeline. Silence for a gap is written before the keyframe gate is looked at (`receiver/audio_in.rs:299`).
16. A dropout during the ramp of a new connection is not faded in, and a later chunk that continues its predecessor is (`audio/pump.rs:395`), where `docs/audio-pipeline.md:85` says the first
   chunk after a dropout is. (`DropoutFadesIn`.) A format change, a reset of the timestamps and a flush of the decoder ask for no fade at all.
17. A partial read after an underrun moves the levels off the grid the aligned read chose, until the buffer next primes; the comment at `audio/pump.rs:251` says "permanently". In Low Latency, audio that
   comes just after the lag limit restarts the clock like an outage.
18. `reconnecting` is false from the end of the first wait on, so while the second attempt opens `media_get_state` answers as if connected (`receiver/stream.rs:445`).
19. The play head loses exactly one tick when no second frame is queued by the tick after the anchor (`video/thread.rs:533`); `docs/architecture.md:78` says it loses none. `PlayHeadOnTheClock`
   therefore allows one tick. It assumes that the thread wakes when it asked to (`WakeLag` = 0): a repeat left out because a real frame "goes out before that tick" leaves no room to be late.
20. A mapping published between `pacing_reschedule` and `awaiting_audio_mapping` lets the anchor frame go out at its fallback time (`docs/architecture.md:86` says it waits for the mapping). `anchor_wait` is not
   reset by a new decoder without a clear, so the wait for its audio may be over before it begins.
21. The frame count by which the watch tells a connection that has come back (`providers.rs`) starts again with every connection, so an outage and a reconnect that reaches the same count during a
   request look like no change, and a connection that plays is restarted; `docs/provider-protocol.md:129` says a live one never is. Counts that fall, on a link that flaps, are read as an outage.
22. The Custom provider's base URL edited without a new pick makes the watch ask the new provider for the old id.
23. Two base URLs whose documents carry the same id share an entry, whose client id is not bound to its base URL as the session is (`registry.rs`): sign-in at the second fails until a document carries a client
   id of its own (sign-out keeps it). Of two such sign-ins at once the first stores its tokens in an entry the second has taken over, which the comment at `registry.rs:183` excludes. (`OneId` in `MCSignIn`.)
   A client id that the server has forgotten is never registered anew.
24. The browser shows "Signed in" before the code is exchanged, and the port stays bound, its connections unserved, through the exchange and the list.
25. An accepted packet resets the count of decoder errors (`video/decode.rs:125`), so errors of receiving alone never make a burst.
26. `awaits_caller` looks for `mode=listener` among FFmpeg Options and in the query as text: `mode=listener mode=caller` counts as awaiting although the last value wins, and so does a parameter whose name only ends in `mode`.
27. The drain watch subtracts times of `av_gettime`, a wall clock, as u64s (`speed.rs:337`): set back while a drain runs at full authority, the difference wraps, a release build reports a drain that has hardly begun,
   and a debug build panics. `throttle` (`timing.rs:187`) wraps on purpose. `Recent` in `SpeedControl` follows the wrapped difference; `StuckIsReported` is about a clock that runs forward.
28. With Close When Inactive, `should_run_receiver` (`source.rs:344`) asks libobs for the visibility of the moment, which may be taken back before the tick that would report it. An edit or
   `media_restart` that finds the source hidden stops the run; shown again before the tick, the source gets no `show` and stays down until the next callback, where `README.md:100`
   says it reconnects when it becomes visible again. In the same way a run may be started for a source that is hidden again unreported. (`VisibleSourceConnects`.)

## 4. What is proved

TLAPS proves the following for every value of the constants that satisfies their
assumptions (`ConfigsAssumption`, `FaultsAssumption`, `MaxCallsAssumption`;
`BoundsAssumption`, `ClearSettingsAssumption`; `SizesAssumption`, `CallsAssumption`; `TargetAssumption`, `RingAssumption`, `HoldAssumption`, `PlayAssumption`; `BoundsAssumption`, `NoTokenAssumption`, `IdsAssumption`; `StallAssumption`, `SettingsAssumption`; `RepairAssumption`, `IntakeAssumption`; `PumpAssumption`; `DelayAssumption`, `PacingAssumption`; `WatchAssumption`, `NoneAssumption`; `PortsAssumption`, `BoundsAssumption`): for any configurations, any set of faults, any
number of calls; any capacity, lead, number of connections and of packets; any ring, chunk queue,
watermark, and lengths and times of writes and reads; any range of targets, hold, reading, ceiling and lead; any ids, workers, tokens, restarts and failures;
any deadline; any frame length, gaps, warm-up and format; any chunk, lead, speed and sleep; any canvas tick, frame interval, lead of the decoder, offsets and
ceiling of the delay; any providers, ingests, rotations, edits and tasks; any ports, sign-ins, probes and reloads.

Most assumptions are types. Those that say more are what the code's own numbers satisfy: a small gap is shorter than a large one (`RepairAssumption`);
a ring is at least four times `max_ms` long and the floor of the ceiling lies no more than three times `BUFFER_MAX_EXTRA_MS` above `max_ms` (`RingAssumption`: 4, 100 ms and 200 ms);
the output lead is at least three chunks and covers a late wake-up and the shortest sleep, and a speed leaves something of every chunk (`PumpAssumption`);
the delay's ceiling is a whole number of canvas ticks (`DelayAssumption`); the pacing thread may be early by a tick at most (1 ms in the code) and aims
two ticks ahead or more, and its channel holds a packet (`PacingAssumption`). One is about the machine: `Oversleep <= Chunk + 1`, the audio thread is late by no
more than a chunk. It is needed, because the pass that primes leaves the clock a chunk and a sample ahead and the thread may
sleep right after it: with chunks of 2 and an oversleep of 4 TLC finds `NeverRunsDry` violated.

### `LifecycleProofs`

`OneConnection` is far from inductive: what forbids two receivers is a chain. The
newest run waits for the reaper `stop_done` named when it was started; that reaper joins
its own run and, before it, the previous reaper, and so on down. The invariant says this
in named parts:

- `ChainInv`: runs and reapers are numbered in the order they were made, and a reaper
  waits only for an earlier one;
- `PreviousInv`: a reaper gets past its first join only when every earlier reaper is done;
- `LastInv`: `stopping` is the last reaper there is, or all are done (the
  reaper whose body runs inside a callback being the exception `obs` accounts for);
- `RunningInv`: the installed run is the newest and no reaper was made since;
- `CoverInv`: a live worker belongs to the installed run, to the run being rolled back, or to
  a run some reaper joins, and a reaper that reached its clear found all earlier workers gone;
- `ScreenInv`: what is on screen, or could be put there, comes from a run that began;
- `HandoverInv`: a receiver that begins finds every earlier reaper done and every
  earlier run exited, because its `predecessor` is the last reaper that was not - the
  part that needs `"receiver" \notin Faults`;
- `GoneInv`: when the destructor has returned there is no reaper left to join.

From it: `TypeCorrect`, `HandleOutlivesThreads` (`NothingOutlivesSource`), `WorkersAreJoined`, `BlankIsFinal`
(`ClearedStaysCleared`) with every fault allowed; `ConnectionIsExclusive`,
`InstalledPictureIsSpared`, and `SourceImplementsSuccession` (initial states map to initial states,
every step to a step of `Succession` or a stutter) provided the receiver thread can be
spawned; observation 1 shows that the proviso is needed.

### `VideoHandoverProofs`

- `OrderInv`: connection numbers never decrease along decoder, packet in hand and queue;
- `BindInv`: the decoder of a queued packet is owned, in front of it in the queue, or
  in `dropped`; `PacketsMeetTheirDecoder` follows;
- `ClearInv`: everything queued came after the last request to clear, and the packet in hand
  and the paced, repeated and shown frames after the last clear carried out: `ClearIsFinal`;
- `CleanInv`: for a connection in `drained` (it began with nothing older under way) that
  kept its decoder, the keyframe gate is open only once it has started: `CleanStart`;
- `FreshInv`: a connection whose stream has just opened has sent nothing yet.

`NoSleepThroughWork` is inductive by itself, given the types. Theorems: `TypeCorrect`, `DecoderIsBound`,
`ClearHolds`, `StartsClean`, `SleepsOnlyIdle`.

### `AudioBufferProofs`

The claim is that two rings with five counters are a queue. What has to be carried along is
`ChunksMatchFrames`: there is a division `at` of the frames held, plus those a read has taken and not yet
retired, into one stretch per chunk, and every frame in a stretch is the one its chunk says it is.
`HeadsInv` (both heads are where tail and count say) and `TodoInv` (only a read has anything to
retire) complete it. One lemma per way the division changes (`CoversRetired`, `CoversKept`, `CoversPart`,
`CoversWritten`, `CoversEmptied`) rests on a few about positions modulo the capacity (`WrapTwice`, `WrapApart`, `BehindHead`).
A division instead of running totals because a sum over chunks would need induction.

Theorems: `TypeCorrect`, `ChunksAccount`, `PeekTellsEmpty`, `RoomKept`, and `BufferIsAQueue`: initial states
map to initial states, `WriteInner` to `Put`, `ReadPts` to `Take` (the time it reports is that of the first frame, by the first
stretch of the division), dropped chunks and flushes to `Drop`, everything else to a stutter.

### `PrimingProofs`

`TargetIsUserPlusHold` is about three writers that each take the other's share out of the published target and put it
back. The invariant adds what an edit has in hand: `TargetInv` (the target is the one on record plus the hold, the edit's own while it has
published and not yet stored), `EditInv` (what is to be published was composed with the hold that is still in force), `CapacityInv` (the
ring has room for its own target) and `FollowsInv` (that target is the published one, or the one about to be). `DeriveHold` says what
clamping at the maximum leaves of the hold; `PublishKeeps`, `ApplyKeeps` and `QuietKeeps` are shared by the steps.

That the read loop itself loses no frame (`FramesFit`, `OnlyGapsLoseFrames`) has one condition: no ring is made across an edit (`[]~stale`, observation 9). It holds for every amount of silence a
gap may be filled with, because a gap costs only the frame written with it: the receiver looks at the fill again before it reads the next. That rests on
`CeilingBelowRing`, that every target's ceiling lies below the ring made for it, which is where the code's multiple of four and its floor are needed (`RingAssumption`). `RoomInv` carries the room from the ceiling the receiver waits
at, through the fill it goes on reading with, to the frame it brings: others only take from the fill, and a ring only shrinks when it is made
anew, and then it is empty. Of the chunk queue it claims room only for a ceiling below `MaxChunks` (observation 3).

*The readings of the hold.* `Priming` takes a reading to be any value, and `HoldReadings` computes it; the second half of the module proves what the
computation promises, for every window and margin and for series of any length. A window drops whatever can no longer be its extreme, so the question is whether it ever drops
too much. `Keeps` is the answer as an invariant that relates a `WindowExtreme` to the set of all samples ever pushed: its entries are samples, each less extreme than those in front
of it, the first is not past the horizon, and each sample of the window is beaten by an entry that leaves it no sooner. `PushKeeps` shows a push keeps it, whatever it takes from either end, and
`FirstIsExtreme` that the front is then the extreme of the window. `HoldFollows` follows for the hold; `OutagesAreNotBursts` uses the same invariant twice over, once for the frames since the
last outage and once for the spreads those windows had. `LiveWhenSteady` has a queue of another kind, which keeps one entry from before its horizon: `Trail` says that its entries are the floors of the
arrivals they stand for, and that the first is the last at or before the horizon. `PrimingWaitsNoLonger` is about a wait whose beginning no later question moves.
The recursive functions that run a computation over a series are reached by plain induction over the positions of the series (`Iterates`, `Reached`).
Assumed: the windows, the least raise and release and the largest hold are natural numbers (`HoldConstants`), the lookback too (`LiveConstants`), the wait is not zero, `None` is no time, and a series is in order of time, which
the monotonic clock of the code gives.

Theorems: `TypeCorrect`, `TargetComposes`, `HoldIsNeeded`, `RingFollows`, `RingKeepsAudio`, `FramesFit`, `HoldFollows` (`HoldFollowsTheWindow`),
`OutagesAreNotBursts` (`BurstsSkipOutages`), `LiveWhenSteady` (`LiveIsSteady`), `PrimingWaitsNoLonger` (`WaitIsBounded`).

### `PlayoutProofs`

*The pump.* `NeverRunsDry` speaks of what OBS was handed, the clock of what comes next, and the thread of when it will be back. `LeadInv` ties them:
as long as nothing stalled it, what was handed over reaches to the moment the thread has finished (`due`). `PauseInv` says that playback is paused for as long as there is
no connection to read, and that a fade is the last OBS was handed only until that connection is closed; `IdleInv` that the
buffer is empty and the clock stopped while the receiver opens or waits; `BurstInv` that a burst has calls left and finishes in time.
`FlagsOK`, `ThreadOK` and `TimesOK` are types. `NoStaleOutput` and `MappingOfTheLine` are conjuncts of the invariant themselves: a burst under way when the
connection is lost may hand over nothing more, because the clock it would go on from is stopped.

Theorems: `TypeCorrect`, `NothingStaleIsHanded` (`NoStaleOutput`), `BufferedNeverRunsDry` (`NeverRunsDry`), `MappingFollowsTheClock` (`MappingOfTheLine`).

*The floor of video.* `SoundDelay` is what every operation of `VideoDelay` keeps, one lemma each: the needs of the window fall from front to back
(`Falling`), which makes the first the highest, and a slew ends a tick above all of them (`Clears`). `PushedIsFalling` proves of `WindowExtreme::push` what
its comment promises. `SlewSpares` (`SlewSparesFrames`) follows, because no frame paced in the window needs more than the first.

*The play head.* `Typed` types the thread and libobs. `PlayInv` adds what libobs holds: its queue is in order, with the newest frame handed over last (`QueueInv`);
the anchor is for the next tick and nothing comes before it (`AnchorInv`); the play head is at the last tick or the one before, and a frame it has not passed
is queued (`HeadInv`); and the thread sleeps over a tick only with a frame handed over for it, and never over two (`SleepInv`). TLC checked this invariant over the
3.5 million states of the run first. `PlayHeadKeepsTheClock` (`PlayHeadOnTheClock`) has two hypotheses: the thread wakes when it asked to (`WakeLag = 0`, observation 19), and
libobs' queue never fills (`Len(queue) < MaxAsync`), for a full one is thrown away whole.

*Video in hand.* `VideoIsShown` (`ShownInTime`) bounds how long after the last change video may stay in hand unshown, late wake-ups included. `ShownInv` says where
the time can go. At first (`Fresh`) the count is bounded by the sleep under way, the wait for audio (`AwaitInv`, `CandidateInv`) and the sleep that ends it,
each wake-up as late as `WakeLag`. At the end (`Settled`) the head waits for nothing but its due time, which only a floor that rises can put off, and no higher than
`MaxDelay`. Between the two is a case nobody would write down first: a head is due while decoders still wait in the channel (`Rushed`). Each cycle that ends with one
begins the next at once, late again, and takes from the channel until they are adopted. Without it TLC found the invariant violated;
it holds in the 23 million states of the run's constants with `WakeLag = 1`, and with a longer channel. The bound is the sum of these parts, so it
contains `(ChanMax + 4) * WakeLag`. The run's `Patience` is smaller than the theorem asks: its few changes do not combine the worst of every part.

Theorems: `PacingTypeCorrect`, `PushedIsFalling`, `SlewSpares`, `PlayHeadKeepsTheClock`, `VideoIsShown`.

*The playback speed.* TLC checks the promises of `SpeedControl` over a few settings and short runs; here they hold for every target and Catch-Up Speed the
settings may name, all levels, and runs of any length. A run is a function defined by recursion over its cycles, about which nothing is known until it is shown
to exist: `Iterates` does that for any set and any steps within it, and `Reached` is the induction over the cycles, both from the well-ordering of the numbers. What remains is one cycle
each. `Balanced` says of a sum of chunks that what was asked for and the fraction carried are what the speeds make, which `AskedKeeps` shows of one more chunk: no
chunk of two frames reaches the clamps. `Trimmed` says what a cycle of the controller may do. `Observed` lists the four things a cycle may do to the drain watch, and the
induction carries that the watch began at a cycle no later one has come down from (`Since`), that `warned` is the last report (`Warned`), and that a
drain which never came down has not set it anew (`Timed`). The proof corrected `StuckIsReported`: it used to promise a report of any drain that does not come down by `DrainProgress`,
which only holds while that is one millisecond - a fall too small to count may complete one that began earlier, and start the watch again.

Theorems: `MoreAudioNeverSlower`, `TrimNeverWound`, `CarryLosesNothing`, `StuckDrainsReported`, for a clock that runs forward.

### `SessionProofs`

`TInv` types the state and ties a worker to what it may carry where: tokens of its own id, of those issued so far, a
snapshot only on its way to a save, a fresh token only on its way to the entry. `StoredTokenAccepted` needs `Private` beside it: a token
just issued is accepted, in no entry and with no other worker until its own puts it there. Steps fall into a few shapes, each with a lemma:
`MinorKeeps` and `PlainKeeps` (no token issued or ended), `IssueKeeps` (sign-in and rotation, lost answers included), `PassesOnKeeps`
(`Install` and `Store`). For `SessionKept`, `Excused` says that a worker about to forget a session unprompted has an entry without
one, or was overtaken (`outdated`). `FileFollowsMemory` is about the end, when no worker is left; `Follows` is what holds on the way there:
unless a save failed or was overtaken, an entry agrees with its file or somebody who saves it is under way, and what is no longer known has no
session on file.

Theorems: `TypeCorrect`, `StoredTokensAccepted`, `SlotIsHeld`, `SessionIsKept`, `FileIsFollowed`.

### `ReceiverProofs`

*The connection.* The watch may abort a call because its deadline is over, and `AbortsOnlyStalled` says that then nothing has come for that long. The two moments are
kept by different code: `age` is set when a call begins or a poll sees bytes, `quiet` when bytes come. `WatchInv` relates them: while nothing new waits to
be seen, `quiet` is at least `age`; and before there is a far end, whatever is new stays new, so that an open cannot lose the deadline it
is owed. `OpenInv` (an input is open exactly while it is probed, read or given up, and then there is a far end) and `CleanInv` (streams and the
hardware device are those of the open input) complete it. `OlderIsAnAge` says that ticks keep the order of two moments although ages stop one past
the deadline.

*The audio intake.* `BufferInv` says when the buffer is empty (no timeline, a warm-up) and that the last write began no later than the next frame is expected, so
that a verdict that leaves the timeline alone cannot write far behind it: `QueueRunsForward`. `SteadyInv` follows a sender that has become steady through the four
phases of the repair: `Settled`, `Drifting` (locked, but wobble moved the sender off by less than a small gap), `Counting` (the
same small gap again and again) and `Relocking` (a step nearer with every frame). Each has a measure in frames, and together they stay below
`SteadyBound`. That bound contains SmallGap \div Duration for the drift: frames a little ahead pass without a verdict, and for frames shorter than
a small gap that takes several.

*The arithmetic.* `AudioIntake` and `AudioPump` count in one unit; the theorems about `Samples` say what that leaves out is harmless. `NearIsNear` and `UpIsNext` give the two roundings
(off by half a divisor, up by less than one) as long as the result is an i64, which the theorems assume of their results and of the two factors of a time base. The clock counts samples from its anchor, so one rounding is all its error
(`ClockDoesNotDrift`); a relock step rounds up and is read back rounded to the nearest (`RelockStepIsATick`). `RampGoesOn` is the step of
`RampSpansChunks`: by it a chunk after another makes one ramp, and folding it over a list of chunks is what TLC checks.

Theorems: `TypeCorrect`, `WatchAbortsOnlyStalled` (`AbortsOnlyStalled`), `NothingIsCarriedOver` (`ClosedIsClean`), `IntakeTypeCorrect`,
`WritesRunForward` (`QueueRunsForward`), `SteadyStreamKeepsItsClock` (`SteadyStreamRelocks`),
`ClockDoesNotDrift` (`ClockIsExact`), `RelockStepIsATick` (`StepIsATick`), `SplicesDoNotClick` (`SplicesAreSmooth`), `RampGoesOn`.

### `ProviderProofs`

*The URL watch.* A write compares the settings only with the pick its request was made of, so `OnlyFresher` needs to know that the pick was right in the first place,
through the two queues and the request it has crossed. `PickInv` says so in each of those places: in the settings (`PairInv`), the channel (`InboxInv`), the request
(`AskedInv`) and the UI tasks (`TasksInv`), the URL of a pick is of its provider and ingest, with a key there has been, and an answer differs from
it by a newer key. A rotation takes nothing away (`LaterKeys`); a write that is made finds the settings as its pick had them (`WriteIsOfItsPick`). `UnloadInv`
says that after `WATCH_STOPPING` is set a request begins only if it had already passed the look at it, and that then none was under way.

*Sign-in.* What may reach a port is open to anybody who is on the machine, so the proof follows what a request can carry. `Ours` says what was told about a sign-in
belongs to it: its challenge for good, its client and port until it returns. `OwnInv` says so of every tab (`TabInv`), of every code a redirect names,
delivered or not (`RequestInv`), and of what a thread took from the request it accepted (`ThreadInv`); codes and refusals only grow (`Grown`), so what was
said stays said. `SlotInv` gives a running sign-in the slot of its provider to itself, whichever way it ends, and `PortInv` says that whoever listens on
a port is at work and means that port: together two listeners are of two providers. Each step is described once (`DiscoverStep` to
`IdleStep`) and the three invariants are proved from those descriptions. The first free port exists because the ports are
well-ordered (`LeastPort`).

Theorems: `AnswersAreFresher` (`OnlyFresher`), `UnloadWaits` (`UnloadWaitsForOne`), `OwnTabOnly` (`OnlyItsOwnTab`), `OneListener` (`OneListenerEach`).

### Only model-checked

- Liveness under fairness and ENABLED, which are out of this prover's reach: `WorkersEndTogether`, `DropReturns`, `WantedSourceConnects`, `MediaStopBlanks`, `DisconnectBlanks`,
  `VideoEnds`, `PlaybackStarts`, `DeadLinkGivenUp`, `StopEnds`, `UnloadReturns`, `RotatedKeyRecovers`, `SignInEnds`.
- The type invariant of `SignIn`, whose bound on registrations is a count of clicks.
- What the modules of operators promise, except `SpeedControl`, `HoldReadings` and `Samples`: most are about folds and sequences of any length, which need induction over data.
  Of `Samples`, the folds over chunks (`ClockNeverDrifts` is `ClockIsExact` of a sum, `RampSpansChunks` the repetition of `RampGoesOn`) and `CompensationIsExact`.

The theorems also state properties that no run has of its own because they restate how a component works rather than what may go wrong
(`BlankSparesRunning`, `NoSleepThroughWork`, `ChunksMatchFrames`, `EmptyTogether`, `RoomForWatermark`, `HoldWithinNeed`, `ShrinksOnlyEmpty`, `SlotHeld`,
`ClosedIsClean`, the types). Those in no theorem (`UnwantedSourceDisconnects`, `ReapersFinish`, `DialogCurrent`, `ThinnerOnlyInFull`, `TargetInTheMiddle`) hold in the instances of their modules' runs and
can be added to their cfgs.

## 5. Not modelled

- Transfer of frames to memory, conversion and choice of pixel formats (`video/output.rs`, `receiver/decode.rs`), the resampler: calls into FFmpeg without a state of the plugin's.
- In `source.rs`: `media_get_state` (read only), the one-shot fit to canvas, the stats snapshot; the stats line of the receiver; `publish_delay` and the announcements of the video thread.
- The dialog's layout and Cancel, and the Custom provider's base URL edited without a new pick. An unreadable state file.
- Module entry, property lists, settings migration, log wording, the websocket vendor's command: registration, layout, wording.
- FFI wrappers: modelled where they are used.

## 6. Plan

What remains, the most important first:

1. `media_get_state` and the stats snapshot, as readers that take no lock.
2. The transfer of hardware frames and the fall-back to software.

Recursive operators stay out of every module; sequences are treated
with folds, `SubSeq`, `SelectSeq` and quantifiers over positions.
