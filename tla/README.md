# Verification of the sm7225 device tree

This directory holds TLA+ models of the programs in the Samsung SM7225 device tree, the
TLC configurations that check them on small instances, and proofs of the main results for all
instances. The tree is mostly configuration; the programs in it are

* `src/bqhelper_samsung/`: the video encoder's input (`GraphicBufferSource`, `FrameDropper`), a
  Samsung variant of Android's bufferqueue helper;
* `src/audio/impl/`: the audio HAL (`Device`, `PrimaryDevice`, `StreamIn`, `StreamOut`,
  `ParametersUtil`), which wraps the vendor's C library;
* `src/sdmext_stub/`: a composition strategy for the display core;
* `src/patches/` with `extract-files.sh`: build-time fixups of the vendor's binaries;
* shims and an init library.

Run `tlc -config X.cfg MCM.tla` for a run and `tlapm MProofs.tla` for the proofs.

## 1. Inventory

### Buffer source (`GraphicBufferSource.cpp`, `.h`)

| part | state | operations |
|---|---|---|
| lifecycle | `mComponent`, `mExecuting` | `configure`, `onInputBufferAdded`, `start`, `stop`, `release` |
| frames | `mAvailableBuffers`, `mNumAvailableUnacquiredBuffers` | `onFrameAvailable`, `acquireBuffer_l`, `releaseAllAvailableBuffers_l` |
| codec buffers | `mFreeCodecBuffers`, `mSubmittedCodecBuffers` | `fillCodecBuffer_l`, `submitBuffer_l`, `onInputBufferEmptied` |
| repeats | `mLatestBuffer`, `mRepeatLastFrameGeneration`, `mOutstandingFrameRepeatCount`, `mFrameRepeatBlockedOnCodecBuffer`, `mLooper` | `setLatestBuffer_l`, `queueFrameRepeat_l`, `repeatLatestBuffer_l`, `onMessageReceived` |
| actions | `mSuspended`, `mActionQueue`, `mLastActionTimeUs`, `mStopTimeUs` | `setSuspend`, `setStopTimeUs`, the action loop of `fillCodecBuffer_l` |
| end of stream | `mEndOfStream`, `mEndOfStreamSent` | `signalEndOfInputStream`, `submitEndOfInputStream_l` |
| time | `mPrevFrameUs`, `mSkipFramesBeforeNs`, `mFrameDropper`, capture members | `calculateCodecTimestamp_l`, `setMaxFps`, `setStartTimeUs`, `setTimeLapseConfig`, `setTimeOffsetUs` |
| buffer cache | `mBufferSlots`, `mNumOutstandingAcquires`, the `CachedBuffer`s and `AcquiredBuffer`s | `acquireBuffer_l`, `onBuffersReleased`, `discardBufferAtSlotIndex_l`, `~AcquiredBuffer` |

Four threads use it: the producer's (frame callbacks through the BufferQueue), the codec's (input
buffers emptied), the client's (lifecycle and control) and the looper's (repeat messages). `mMutex`
serialises the operations, so the difficulty is the order of operations, not the steps inside one:
messages posted earlier that come later, frames counted but not acquired, codec buffers that come
back after `stop`, an end of stream four different operations may send. What makes it correct: frames
reach the encoder in order, once, with bounded repeats; no codec buffer is lost or handed out twice;
the end of stream comes, and last; one repeat chain at a time; a suspended or stopped source submits
nothing it should not; `release` returns and leaves no thread behind; the producer gets every graphic
buffer back, with its fences.

### Frame dropper (`FrameDropper.cpp`)

State: the interval and the desired time of the next frame. Operations: `setMaxFrameRate`, `disable`,
`shouldDrop`. Sequential; the difficulty is arithmetic. Correct when the kept frames respect the rate,
pairwise and on average. The frames it keeps have their times shifted, and in time lapse and slow motion
rescaled or snapped to the capture rate (`calculateCodecTimestamp_l`): correct when the encoder's times
advance and do not drift from the capture's.

### Streams of the audio HAL (`StreamOut.cpp`, `StreamIn.cpp`)

State: three fast message queues (command, data, status) and an event flag, a thread, the vendor's
stream, the callback. The client writes commands and samples and waits; `WriteThread`/`ReadThread`
serves them by calls to the vendor's stream; binder calls prepare, close and drop the stream; the
vendor's thread delivers callbacks. Correct when each command is answered once, by its own status;
samples are neither lost nor repeated; no thread or callback outlives the object; dropping a stream
ends.

### Audio device (`Device.cpp`)

State: `mOpenedStreamsCount`, `mIsClosed`, the process-wide `gScoStubStreams`. Operations: open and
close output, SCO stub and input streams, `close`, the destructor; audio patches. Served by a pool of
binder threads. Correct when the device is closed exactly when it has no streams and every handle is
closed by whoever made it.

### Primary device (`PrimaryDevice.cpp`)

It forwards to a `Device`, but for `setMode`, which reads which SIM is in a call from two properties the
radio sets, polls them for `IN_CALL` until one reports a call, and tells the vendor before it changes the
mode. Correct when the vendor is told of the right call and `setMode` returns once there is one.

### Parameters (`ParametersUtil.cpp`, and their callers in `PrimaryDevice.cpp`, `Device.cpp`, `Stream.cpp`)

State: the controls of the sound card's mixer, and what the vendor's device and streams were told.
Operations: typed setters and getters, `setParameters`, `getParameters`. Everything becomes key=value
pairs for the vendor, but for two keys of `setParameters`: a rotation sets four mixer controls and
is not passed on; the Bluetooth codec is sent a second time as a sample rate. Correct when what is set
is read back, the vendor's wideband flag follows the codec, and the sound turns with the screen.

### Audio patches (`Device.cpp`)

State: the patches of the vendor's device, by handle. Operations: create, update, release. Sinks are
rewritten on the way so that the speaker and Bluetooth SCO never come together. Correct when the
vendor's patches are the client's, but for that.

### Binary patches (`patches/*.py`, `extract-files.sh`) and the devices factory (`DevicesFactory.cpp`)

State: a library in the vendor tree, copied from a firmware and rewritten in place by a script that may
be interrupted and run again; later the factory loads it. Correct when no library that can be loaded is
half patched.

### Display extension (`sdmextension_stub.cpp`)

State: the orientation and sizes of the panel, whether the GPU may compose, and the lists of the display
core (`HWLayersInfo`) that live from frame to frame. Operations: `Start`, `GetNextStrategy`,
`SetCompositionState`, `Reconfigure`. Correct when the frame that goes to the panel is complete, in its
place, and free of what earlier frames left.

### Others

`Stream.cpp` converts and forwards, but for the parameters; `libinit` sets properties at boot; shims
supply symbols. The FRUC facade (`FrucFacade.cpp`) has only empty methods. All are listed as components
in `PROJECT.json`.

The full list of what is hard to test, each at its line, is under `hazards` in `PROJECT.json`.

## 2. Modules

| module | models | abstracts |
|---|---|---|
| `FrameDropperRule` | the decision of `shouldDrop`, as operators | – |
| `FrameDropper` | the class, with a history of kept frames | the clock: `UnitsPerSecond` for microseconds |
| `FrameTiming` | the time of a frame on its way to the encoder; extends and implements `FrameDropper` | rates are whole numbers; products and quotients exact |
| `EncoderFeed` | abstract: a stream of newer frames or bounded repeats, ended once | everything about how |
| `GraphicBufferSource` | the whole operation set above but the cache and the rescaling of times; implements `EncoderFeed` | payload and data space; BufferQueue slots |
| `BufferCache` | slots, cached and acquired buffers, fences | which buffer the source keeps: any may be dropped any time |
| `AudioTransfer` | abstract: samples taken in order, in batches, and confirmed | the protocol |
| `StreamOut`, `StreamIn` | client, thread, binder calls, callbacks; implement `AudioTransfer` | calls that only forward to the vendor |
| `AudioDevice` | counter, stubs, closing | the vendor's device: a set of handles |
| `PrimaryDevice` | `setMode`, on top of `AudioDevice` | the modes that are treated alike |
| `AudioParameters` | setters, getters, `setParameters` and the mixer | values are small sets; the text form of the pairs |
| `AudioPatches` | create, update and release patches | a sink is its kind |
| `BlobFixup` | extraction and the two scripts `blob_fixup` runs | a file is the sequence of its sites and the rest |
| `VendorAudio` | composes the three above, with `DevicesFactory` | parameters and patches share one bound |
| `GpuStrategy` | `GpuOnlyStrategy`, between the display core's steps | sizes are small whole numbers that scale exactly |
| `FrameTimingProofs` (also of `FrameDropper`), `GraphicBufferSourceProofs`, `BufferCacheProofs`, `StreamOutProofs`, `StreamInProofs`, `PrimaryDeviceProofs` (also of `AudioDevice`), `VendorAudioProofs` (also of the three it composes), `GpuStrategyProofs` | theorems | – |
| `MC...` | constants for TLC | – |

### GraphicBufferSource

Each operation that does not reach `fillCodecBuffer_l` is one action: it runs under `mMutex`. Those
that do (`onFrameAvailable`, `onInputBufferEmptied`, `start`) keep `mMutex`, whose value names
where they are (`"frame"`, `"emptied"`, `"start"`, `"filled"`, `"looper"`), and
`FillCodecBuffer` takes one item of the loop at a time: it finds nothing (`FillBails`), a STOP ends
the stream (`FillStops`), the item is discarded (`FillDiscards`), skipped by the rate limit
(`FillSkips`), submitted (`FillSubmits`) or refused by the component (`FillFails`). While `mMutex` is
held only the BufferQueue and the looper move: neither takes it before the
handler is entered. A message in delivery (`handling`) is past the looper's queue but not yet in the
handler. `mMutex = "aborted"` is the failed `CHECK` at `GraphicBufferSource.cpp:570`.

Frames are numbered as the producer makes them. The model keeps a frame acquired while one of the
source's variables refers to it (`Held`), which is what the reference counts do, and limits the
acquires and the frames in the producer's hands as the BufferQueue does. `encoded` and `accepted` are
history variables: what the component was given, and which control calls were accepted, in this
session. A FRUC hook and a colour or data space message change none of this state.

The arguments of the control operations are constants, as are their numbers (`MaxActions`,
`MaxSessions`). Frame times are taken from `FrameTimes[n]`, so the number of frames is bounded by its
length. `ActionTimes` holds -1 for an immediate call of `setSuspend`; `setStopTimeUs` has no such form
(`GraphicBufferSource.h` has its time on the system's clock), and is called with times only. With -1 the
code would queue a STOP and leave `mStopTimeUs` unset (`:1368`), so that actions could be queued behind it.
A buffer that is emptied and not the component's, as one of a session that was released, is refused at
once (`:528-532`): a step that changes nothing, and no action.

### BufferCache

The BufferQueue sends a buffer with an item only when the consumer does not know the slot's buffer.
`known` is the queue's side of this; `mBufferSlots` is the source's. `FreeAllSlots` frees the slots
between any two steps; the notice (`undelivered`) is delivered later, after any number of
other steps, and `getReleasedBuffers` then looks at the slots as they are. It does not fail: it does so
only for an abandoned queue, and the queue is abandoned by the source's own destructor (`:390`), after
which no notice comes (`:1073-1075` is for that). `releaseBuffer` ignores a
frame number that is not the slot's. A fence is a number and a merged fence the set it waits for.

### StreamOut, StreamIn

`thread` is the program counter of `threadLoop`: `checking` the stop flag, `waiting` for the event
flag, `reading` the command, `writing` or `asking` (in the vendor's call), `replying` (status to
write), `waking` the client. `WaitReturnsWithoutFlag` is `mEfGroup->wait` returning an error or
another bit. The client's thread is external: command, data, `NOT_EMPTY`, then it waits for the bit of
the reply and reads the status. `close` sets the stop flag, wakes the thread and closes the vendor's
stream without waiting for the thread; the destructor joins it. Samples are numbered; the client
offers again what was not accepted.

### AudioDevice

A call is a few steps of a binder thread, since `mOpenedStreamsCount` is a plain `int`: a load
and a store. Handles are addresses, which the vendor's device and `calloc` may give again.

### PrimaryDevice

A call of `setMode` reads the two properties in two steps, decides, tells the vendor and sets the mode;
the radio changes a property between any two of them. A thread in `setMode` serves no stream, so the
actions of `AudioDevice` are those of the other threads. A property that was never set reads `""`, for
which `setMode` neither waits nor tells the vendor anything.

### AudioParameters, AudioPatches, BlobFixup and VendorAudio

A library is built (`Fixup`), loaded (`OpenDevice`) and used (`ParametersNext`, `PatchesNext`).
`BlobFixup` keeps the file and what a script has in memory apart: `Patch` changes the memory, `Truncate`
and `Write` the file, and `Interrupt` may come between any two of them. Whether the file that is loaded
is fixed decides `reads`, the key the vendor's library takes the codec of a Bluetooth call from.

A typed setter is one action (`SetParam`): it makes one call of the vendor. `setParameters` is several:
rotations are set as the list is gone through (`MixerOpened`, `SetMixerValue` for each control,
`MixerNotOpened`), from any thread and without a lock; the rest is told the vendor at the end
(`SetCollectedParams`). `done` has the controls a thread has set of the rotation it is at. The vendor
remembers what it is told and answers with it (`Answers`), the device but for the codec of a call: under
the key its library knows, and no other, it answers with the state of its flag, since it is the patch that
"makes sec_get_parameters() report the state under the AOSP-standard key" (`patch_audio_primary_lito.py:41-43`).
The script does not say in which words; the model has it answer in those the same key is set with, which
is what a getter of a flag understands. `asked`, `byList`, `turned` and `clientPatches` are history variables for the
properties: what the client set last, by which call, and whether two threads, or a control that failed,
have mixed the mixer. The rotations of a list and the sinks of a patch are functions from places, in the
order of the list. `ListsAssumption` says what a client's lists may have: pairs, of which those with a
word for a value have one of the words the typed setters would send (with any other the vendor answers
with what no typed getter understands), and no `g_sco_samplerate`, which is the HAL's own.

`AudioPatches` is the build with `MAJOR_VERSION` below 7, which is the one that ships (`common.mk:61`,
version 6.0); from 7 on the sinks would be passed on as they are (`Device.cpp:522,576`).

### GpuStrategy

`phase` is the display core's: it builds a frame, starts the strategy, asks it, and commits or drops the
frame. `hwLayers`, `index`, `roiIndex` and `primaries` are the lists of `HWLayersInfo`; only `Start`
and a flush empty the first three. An entry of `primaries` is the number of the frame it came with.
`SizesAssumption` has the framebuffer and the mixer sized in whole multiples of one another, which is
what makes scaling exact: with any other the code divides, and a pixel may be covered in part.

### FrameTiming

A frame is dropped by the frame dropper (`FrameDropped`), refused for its time (`FrameRefused`) or given
a codec time (`FrameStamped`), by one of four rules: the first frame of a rescaled stream, snapped,
scaled, or in real time. Refused frames have passed the dropper, which has counted them. `stamped`
keeps the pairs of times. The module is one stretch of executing, from `configure` to the first `stop`;
`setMaxFps` and `setTimeLapseConfig` are called before its first kept frame. What they do between a `stop`
and the next `start`, when `mPrevFrameUs` and the capture times live on, is not in it; `setMaxFps` there is
in `GraphicBufferSource`.

## 3. Runs

Bounds are in the configurations; the table says why they suffice.

| run | question | bounds |
|---|---|---|
| `frame_timing` | does the dropper respect every rate, do the encoder's times advance, and is snapping free of drift? | rates with intervals above, at and below the jitter, zero, disabled; four kept frames, so that a pause of several intervals can be followed by a burst; a time lapse, two slow motions and a pair of rates too close to count as either; an offset |
| `source_settings` | do frames of the same time, a rate limit, repeats and actions leave the stream in order, the newest action in force and the end of the stream last? | three frames, one repeat; two calls of `setSuspend` and `setStopTimeUs` at two times: one overtaken, one in force or ahead; a rate limit or none |
| `source_failures` | does anything get lost when the component refuses buffers, frames before a start time are skipped, or the source is stopped, restarted and reconfigured? | three frames over two codec buffers (a buffer is used again), one frame acquired at a time, so that others wait unacquired; two sessions |
| `source_repeats` | repeats across two sessions with late messages; liveness; refinement of `EncoderFeed` | two repeats, three frames far enough apart to exhaust them |
| `buffer_cache` | does the encoder see the right picture and the producer get all back? | two slots, four frames, slots freed twice; up to three fences, the first odd number that is split unevenly |
| `stream_out`, `stream_in` | the message queue protocol, closing and destruction | a data queue of two, four samples: partial writes and reads and a second batch |
| `primary_device` | one thread: is the count exact, and every handle closed by its owner; is the vendor told of the right call, and does `setMode` return? | two streams and two addresses (the second stream may have the address of the first), two calls of `setMode` and two changes of the properties: a call that comes late, one that ends while it is polled, one that moves between the SIMs |
| `source_abort` (violation) | does the `CHECK` of `onInputBufferEmptied` hold with one frame more than can be acquired? | – |
| `source_eos_lost` (violation) | does the end of stream arrive when a rate limit drops the last frames? | – |
| `vendor_audio` | from the build of the library to its use | two sites; two threads (interchangeable, hence the symmetry); lists that set a rotation between two codecs, a rotation that is none and an unknown key; three calls in all, so that two calls overlap while a third comes; sinks with each kind of SCO |
| `gpu_strategy` | is each frame complete, in place, and free of earlier ones? | two layers, three frames (one to leave something, one to be refused, one to see it), all four orientations, framebuffers of 1x2 and 2x2 cells on mixers of 2x4 and 4x2 |

All constants of the code that only bound something are small: `kRepeatLastFrameCount` is 2 for
10, and jitter is 0 in the runs of the source (the `frame_timing` run has it; it counts 12 units of time to the second).

What the runs show beyond "it holds":

* **`source_abort`**: a STOP releases the frames it does not want; when one of them cannot be acquired
  the rest stay counted, the end of stream is sent, and the next buffer the component returns makes
  `CHECK(!mEndOfStreamSent)` fail. The proofs say when it cannot (`AcquireLimitSuffices`): the acquire
  limit must be at least the number of codec buffers, and one more where a STOP may come while a frame is
  kept for repeats. `source_abort` is one short of that (two codec buffers and the latest frame, a limit
  of two); `source_settings`, where `EosIsLast` and `ActionsRespected` hold, has 3. What must hold
  regardless, also once the process is about to abort, is checked in `source_failures`, where it does
  abort.
* **`source_eos_lost`**: `signalEndOfInputStream` leaves the end of stream to `onInputBufferEmptied`,
  which looks at frames first; if the rate limit drops the last ones nothing is submitted, nothing is
  emptied again, and nobody sends it. Without drops (`source_repeats`) it always arrives.

Other observations made while modelling, which no run is about: `release` says it returns all buffers
but keeps `mAvailableBuffers` (`GraphicBufferSource.cpp:494`); `getStopTimeOffsetUs` has the opposite
sign of the one its header describes (`:1380`, header `:207`); when the component refuses the end of
stream of a STOP the action is gone and later frames are encoded (`:937`), which is why
`source_settings` lets it refuse nothing; in time lapse the header says that frames in between the capture
interval "are dropped" (`GraphicBufferSource.h:480`), but the code refuses frames for that only when it
snaps, which it never does in time lapse: it scales their times, and two may get the same one.
`TimesAdvance` allows just that. And a buffer the component refuses leaves its time in `mPrevFrameUs`
(`:907`); with the frame drop logic disabled that time may lie before the last one encoded, and once a
client calls `stop`, `setMaxFps` and `start`, the check that is in force again compares with it, so that
an older time goes out. `StreamInOrder` is proved where nothing is refused or dropping is never disabled
(`ClockKept`).

* `mOpenedStreamsCount` is a plain `int`. With one binder thread `CountExact` holds; with two in the
  configuration (`Threads = {t1, t2}`) TLC finds a lost update, after which
  `LOG_ALWAYS_FATAL_IF(mOpenedStreamsCount == 0)` (`Device.cpp:216`) fails or the device is never closed.
  `HandlesMatch` is proved for any number of threads: `gScoStubLock` is enough for it.
* `doClose` sets `mIsClosed` before it closes the vendor's device, so a close that fails is not tried again.
* `setBtScoWidebandEnabled` sends `bt_wbs` only; an unpatched library never hears of it, while
  `setParameters` sends `g_sco_samplerate` as well. So the script's "Without this patch the flag stays 0"
  (`patch_audio_primary_lito.py:12`) is true of the typed call only, and `WidebandFollowsCodec` leaves
  that call out for the unpatched library. Nor can `getBtScoWidebandEnabled` read anything from it: it
  answers `NOT_SUPPORTED`, also after a `setParameters` that did set the codec. `ReadsBack` leaves this out.
  With the patched one it rests on the library answering `on` or `off`; to a number the getter, for which
  everything but `off` is on (`ParametersUtil.cpp:85-96`), would always say that wideband is enabled.
* `updateRotation` sends `rotation` to the vendor and leaves the mixer alone; a rotation in `setParameters`
  does the opposite.
* Two rotations at once leave the mixer mixed for good; `SoundTurnsWithScreen` excuses it until the next one.
* An interrupted write that kept every site makes the next fixup of the audio library succeed on a
  truncated file: the scripts look at the sites and not at the length. `NeverHalfPatched` is about whole
  files for that reason. `patch_sec_ril.py`, unlike the other script, fails on a library it has patched.
* `Start` trims the primaries to the number of layers, "the entries of the current frame only"
  (`sdmextension_stub.cpp:95`); a frame with fewer wide layers than layers keeps older entries, too.
  `PrimariesKept` promises the bound and that none of this frame's is lost.

### Fairness

`FairSpec` of `GraphicBufferSource`: frame callbacks that are due are made (the BufferQueue calls its
listener for each queued frame), the codec returns each buffer it was given (`onInputBufferEmptied`),
the looper's thread takes messages and finishes its handler, an operation that holds `mMutex` goes on,
and `release` returns once the looper's thread is done. All weak. The producer need not queue, the
client need not call.

`FairSpec` of the streams: the thread runs, the vendor's calls and callbacks return, a client that
began a command finishes sending it and reads its reply, `close` and the destructor go on when they
can. No fairness for a wait that returns by itself: liveness must not rest on it.

`FairPrimarySpec`: a thread in `setMode` goes on (it only sleeps for 50 ms at a time). No fairness of the
radio: `SetModeReturns` promises a return from `IN_CALL` only if a SIM comes to report a call that stays.
A call that ends again between two polls may be missed.

`vendor_audio` and `gpu_strategy` check no liveness and assume no fairness.

Deadlock is not checked where a client may stop calling or the bounds stop a producer; it is in
`gpu_strategy`, where the display core always goes on.

## 4. Proofs

Every safety property a passing run checks, and every refinement, is a theorem; `PROJECT.json` lists
them. Each module takes one component's (or composition's) next-state relation and shows an inductive
invariant of it, with a step of the proof for each action or group of actions that leave a part alone.
What a theorem needs of the constants beyond the modules' own `ASSUME`s is a hypothesis with a name,
which the constants of the run of that property satisfy.

### FrameTimingProofs

The dropper: all its properties hold for every rate, jitter and sequence of times. `DropperInv` adds to
them that the desired time is the first kept frame's plus at least as many whole intervals as frames were
kept (`OnGridStrong`), and that it is ahead of every kept frame by more than the jitter and one
interval for each frame kept since (`AheadOfKept`): without the latter the average rate is not
inductive, since it speaks of pairs of kept frames and a step only sees the desired time. The
arithmetic of the integer division is in the lemmas `DivisionBounds`, `NextMultiple` and
`NextDesiredAdvances`. `FrameTiming` implements `FrameDropper`: each of its steps is a step of the dropper
or leaves it alone (`TimingStepIsDropperStep`), so the rate theorems hold of the source with time lapse
and offsets.

The codec's times: `TimesAdvance` and `SnappedToGrid` follow from `ClockInv`, which says what the
variables of `calculateCodecTimestamp_l` know of the last stamped frame (`LastStamped`, `Rescaled`). With
snapping (`SnappedClocks`) both previous times are at the same number of intervals, rounded, from the
base; without (`ScaledClocks`) the codec's is the frame's, scaled. `RoundedBrackets`,
`RoundedIsClose` and `RoundedAdvances` are about `llround`. Two hypotheses: frames are stamped later than
the offset that moves them (`TimesNotNegative`), and, for `TimesAdvance` only, a rate is not above the
clock's (`RatesBelowClock`): two frames a fraction of a microsecond apart would get one time.

### GraphicBufferSourceProofs

For all constants that satisfy `ConstantsAssumption` (any number of codec buffers, frames, repeats,
sessions, limits, and a component that may refuse) it proves `TypeOK`, `QueueAccounted`,
`CodecBuffersConserved`, `SingleRepeatChain`, `NoHandlerAfterRelease` and `ActionQueueOrdered`. The
inductive invariant is

    IInv == TypeOK /\ PhaseInv /\ QueueAccounted /\ CodecInv /\ RepeatInv /\ ActionInv

* `PhaseInv`: which `phase` goes with which `mComponent`, `mExecuting`, `mMutex` and `mLooper`. A
  message is handled outside `release` only while there is a looper, which is `NoHandlerAfterRelease`;
* `CodecInv`: outside a session of the component no codec buffer is submitted, so `start` finds
  all of them free;
* `RepeatInv`: posted generations increase and are never ahead of the current one, and the one in
  delivery is older than those posted. So cancelling (a new generation) leaves no current message,
  and posting leaves one. A blocked repeat still has repeats left;
* `ActionInv`: queued times are at most `mLastActionTimeUs`, and a queued STOP implies `mStopTimeUs`
  is set, so nothing is accepted behind it.

`TypeOK` and `QueueAccounted` depend on each other: the count of signalled frames stays a natural
number because each has an item in the queue.

The other properties are about a whole session and need more, on top of `IInv`:

* **the end** (`EosIsLast`, `NeverAborts`): `EndInv` says that once the end of stream was sent nothing
  waits and nothing may be repeated. That holds if releasing the frames behind a STOP always succeeds:
  `AcquireLimitSuffices`, that is, the acquire limit is at least the number of codec buffers, and one more
  where actions are timed and frames repeated, since then the latest frame may be held besides. The
  lemma `HeldBounded` counts what is held. `source_abort` is one short of this condition and fails;
* **the order** (`StreamInOrder`): `OrderInv` says that frames wait in the order of their numbers with the
  times they came with (`FramesInv`), that all that the component was given is behind what waits
  (`FedInv`), and that `mPrevFrameUs` is not before the last time encoded (`ClockInv`). The last
  is kept where nothing is refused or dropping is never disabled (`ClockKept`; see §3);
* **the actions** (`ActionsRespected`): `ObeyedInv` says that the accepted actions are those consumed
  followed by the queue, that every frame that waits or comes is past the consumed ones, and that the last
  consumed one is in force. It needs `AcquireLimitSuffices`, frame times that do not decrease
  (`FramesInOrder`), and no refusals: a refused end of stream loses its STOP (§3);
* **refinement** (`EncoderFed`): the times a frame was fed and those it may still be repeated are together
  no more than `EncoderFeed` allows (`CountInv`), and the time of the latest frame is at most its own and one delay for each
  repeat it has had (`LateInv`). Times have a bound (`TimesBounded`: they have 64 bits), and dropping is
  not disabled by the client (`MaxFpsArgs` is a set of naturals), since `EncoderFeed` promises that times
  advance;
* **work** (`WorkConserved`): `WorkInv` says of an operation that holds `mMutex` how far it has come,
  and in between that no codec buffer is free while something waits (`Idle`). It is proved where nothing
  makes the source discard an item (`NothingDropped`: no actions, start times, limits or refusals, and
  frames further apart than all the repeats of one), which is also what `source_repeats` has: an
  operation that discards an item does not look for another for the same codec buffer, and
  `source_eos_lost` shows what may then be left.

### BufferCacheProofs

`OutstandingExact`, `CacheCoherent` and `FencesReturned` for any number of slots, frames and fences.

* `QueueInv`: items that came before a slot was freed are ahead of those after it, a slot is queued once,
  and the queue knows what it says it knows;
* `CacheInv`: a `CachedBuffer` is in the cache exactly when it is in its slot, and that of a known slot
  is the slot's; this is what a queue that sends no buffer with an item relies on;
* `AcquiredInv`: of the `AcquiredBuffer`s of a cached one there is one, and if the queue knows the slot it is
  acquired by that one's frame;
* `CountInv`: the counter is the number of cached buffers that are acquired.

`getReleaseFence` halves its range. That the halves merge to all of it (`MergedFenceIsAll`) is shown by the
least range for which they would not (`LeastNatural`), which needs no induction theorem.

### StreamOutProofs, StreamInProofs

For any number of samples and commands, any queue size, and whether or not the vendor's calls fail:
`OneReplyPerCommand`, and that each stream implements `AudioTransfer`; for the output stream also
`OutlivesItsThreads`.

* `ProtocolInv`: until the stream is closed, a command is in one of four phases (`NotAnnounced`,
  `Announced`, `Served`, `Answered`), each with one content of the queues and of the flag bits and with
  the places where the client and the thread can be.
* `LifeInv`: the stop flag is set before anything waits, and outside `close` it means that the vendor's
  stream is closed and makes no callback.
* `SamplesInv`: what was transferred and is not confirmed is in the status being made or waiting. This part
  also holds after `close`, whose wake may have the thread serve a command that was not announced, before
  its samples are there: those are then left in the queue, and no later command plays them, since none
  is sent.

With `SamplesInv` a vendor's write (read) is `Take` or, of no samples, a stutter; reading the status is
`Confirm` or a stutter; and every other step is a stutter (`SamplesStep`).

### PrimaryDeviceProofs

`HandlesMatch` for any number of threads, streams and addresses. `HandlesInv` says that a stream under
way is served by one thread (`ServedAlone`), that two streams with a handle have different ones
(`HandlesDistinct`: an address is given again only when it is free), and which of the two sets has a
stream's handle (`Owned`). `PrimaryDevice` implements `AudioDevice`, so its handles match as well.

`CountExact` is proved in both under `OneThread`, the condition under which it holds. `CountInv` says that
the count is the number of streams that are open or closing, so that between load and store the thread
still knows the count (`CountKnown`); that a stream is closing only while the thread serves it
(`ClosingServed`); and that a destroyed device was closed first (`GoneClosed`). `InCallIsActive` is proved
under the same condition: a second `setMode` may tell the vendor something else in between.

### VendorAudioProofs

* `NeverHalfPatched`, of the fixup alone and in the composition, for any number of sites (`FixupInv`). What
  a script has in memory is an unpatched file until `Patch`, and all its sites are fixed from then on;
  what is written is a prefix of it.
* `WidebandFollowsCodec` and `ReadsBack`, for any lists and any threads (`ToldInv`): what the vendor was told
  of a key is what the client asked for last, through the typed setters and through lists alike, and the
  vendor's flag is that of the key it reads (`CodecInv`). What it answers is what it was told of every key
  a typed getter asks for and the library knows (`AnswersWhatItWasTold`): of the codec it is the flag,
  so there `ReadsBack` needs `CodecInv`.
* `SoundTurnsWithScreen`, for lists of any length (`CallInv`, `MixerInv`): while nothing has gone wrong
  one thread at most sets the mixer, and the controls it has set are as the rotation it is at says; when
  none does, all are as the last one says.
* `PatchesMatch` is inductive by itself.

### GpuStrategyProofs

`FrameComplete`, `PrimariesKept` and `ShownWhereMeant` for any number of frames and layers and any sizes that
satisfy `SizesAssumption`. Once `Start` has run the lists are empty, whatever they held (`ListsEmpty`);
the entries of a frame are the last ones of `primaries` (`PrimariesInv`); and the one layer lies
where the target, scaled and turned, does (`TargetInv`), which is a matter of division
(`QuotientAndRest`).

### Only model-checked

The liveness properties: `ReleaseTerminates`, `EosReachesComponent`, `CommandsAnswered`, `DestructionEnds` and
`SetModeReturns`. Liveness under fairness is beyond the proof system, as is `ENABLED`. `NeverAborts` and
`EosReachesComponent` are false in general (`source_abort`, `source_eos_lost`); the first is proved under
`AcquireLimitSuffices`.

## 5. Not modelled

* Rounding of the doubles of `calculateCodecTimestamp_l`: rates are whole numbers, arithmetic exact.
* A `configure` in which the BufferQueue refuses the size or the format (`GraphicBufferSource.cpp:1186-1202`):
  `mComponent` is set and the rest is not; the client is told and does not go on with this component.
* Data space and colour aspects messages: payload passed to the component in order with the frames.
* Volumes, ports, effects and other audio calls that convert types and forward.
* The mmap calls of the streams: forwarded to the vendor.
* `patch_bqh_vendor.py`, which `blob_fixup` does not run, and the fixups by `patchelf` and `sed`.
* The text of a parameter (`AudioParameter::toString`): keys and values are taken as they are.
* `VendorInit`: a lookup that runs once; the table it looks in is not in this tree.
* The parts listed as `not_modelled` in `PROJECT.json`.

## 6. Plan

Done: `FrameDropper`, `GraphicBufferSource` with `EncoderFeed`, `BufferCache`, `StreamOut` and
`StreamIn` with `AudioTransfer`, `AudioDevice` with `PrimaryDevice`, `FrameTiming`, `VendorAudio` with
`BlobFixup`, `AudioParameters` and `AudioPatches`, and `GpuStrategy`; and the proofs of all of them: every safety
property of a passing run and every refinement.

Next, in this order:

1. What is left of `WorkConserved` when items are discarded: how many codec buffers may then be free, and
   what fills them again.
2. What follows from `EncoderFeed` and `AudioTransfer` themselves (no frame after a newer one, no sample
   lost or twice), proved there and carried over by the refinements.
3. `PrimaryDevice` with a second binder thread: what a `setMode` that waits does to another one.
4. An abstract specification of a buffer queue's consumer, for `BufferCache` to implement.
5. `GpuStrategy` with sizes that do not scale exactly.
