# PhantomSDR spectrum server: TLA+ models, checks and proofs

PhantomSDR reads samples of a wide-band receiver from standard input, transforms
them in overlapping frames, and lets many browsers listen to slices of the
spectrum and watch its waterfall. This directory models the C++ server under
`src/src/`: the part where threads, callbacks and shared buffers meet. Paths below
are relative to `src/src/`.

## 1. The system

| part | files | state | operations | talks to |
|---|---|---|---|---|
| FFT loop | `fft.cpp` | three input buffers and their index, `frame_num`, two vectors of futures | `fft_task`: wait for the read, start the next, load, test for users, wait for tasks, execute, post | reader (async), registries (sizes, unlocked), I/O threads (tasks) |
| FFT backends | `fft_impl.cpp`, `fft_mkl.cpp`, `fft_cuda.cu`, `fft.h` | FFT output, powers, quantized levels | `load_*_input`, `execute`: transform, normalise, quantize, halve level by level | FFT loop |
| Audio registry | `websocket.cpp`, `signal.cpp` | `signal_slices`, its mutex, each client's `l`, `audio_mid`, `r`, iterator | `on_open_signal`, `set_audio_range`, `on_window_message`, `on_close`, `signal_loop` | FFT loop, events feed |
| Waterfall registry | `websocket.cpp`, `waterfall.cpp` | one map and one mutex per level, each client's `l`, `r`, `level`, iterator | `on_open_waterfall`, `set_waterfall_range`, `on_window_message`, `on_close`, `waterfall_loop`, `send_waterfall` | FFT loop |
| Audio demodulation | `signal.cpp`, `utils/` | `demodulation`, overlap buffers, DC blocker, AGC | `send_audio`, `on_demodulation_message` | encoder, handlers (unlocked) |
| Events feed | `events.cpp` | `signal_changes`, `events_connections`, timer | `on_open_events`, `on_close_events`, `on_timer`, `broadcast_signal_changes` | audio and waterfall registries |
| Sample input | `samplereader.cpp` | none but the stream | `read`: blocking read and conversion in place | FFT loop |
| AGC | `utils/audioprocessing.cpp` | `lookahead_buffer`, `lookahead_max`, gain | `process`, `reset` | audio demodulation (I/O thread), demodulation messages (another, unlocked) |
| Encoders | `audio.cpp`, `waterfallcompression.cpp` | packet, codec state, partial frames or lines | `process`, `send` | connections |
| Configuration | `spectrumserver.cpp`, `config.toml` | sizes, default window | constructor | everything |
| Life cycle | `spectrumserver.cpp`, `register.cpp` | `running`, threads, timer, connections | `main`, `run`, `stop`, `register_server` | everything |
| Messages, HTTP | `client.cpp`, `http.cpp` | none | parsing and dispatch, files | clients |

Threads: one FFT thread; one short-lived thread per asynchronous read; a pool of
I/O threads (`server.threads`) that run every websocket handler, the timer and the
tasks posted by the FFT thread; an optional registration thread. The handlers of
one connection run one after the other (its strand), those of different
connections at the same time.

What makes it hard:

- the FFT output is one buffer, read by tasks on any I/O thread while the FFT
  thread prepares the next frame (`fft.cpp:82-105`);
- clients change their windows while frames are being posted and sent; only the
  maps are locked, not the clients' members, and a move between waterfall levels
  takes two locks one after the other;
- the sizes of the maps, `running`, `demodulation` and the set of listeners are read
  without any lock;
- overlap-add and the inversion of odd frames tie every frame of a client to the
  one before, while frames are skipped, dropped and thrown away;
- positions are translated three times (coordinate, bin, pixel of a level), with
  IQ spectra shifted, slices that wrap around, and sizes that are halved and rounded;
- samples are converted in the array they are read into, and reads may be short;
- shutdown happens in a signal handler while all of this goes on.

What each part owes the others:

- FFT loop: a task reads the spectrum it was made for and no other; transforms
  see whole, consecutive half-blocks; frames of one client are in order, one at a
  time, and none that is made is left out; the loop neither deadlocks nor outlives `stop()`.
- Registries: one node per client, under the key and in the map its members name;
  every slice is the window that was asked for, and inside the spectrum if that is; a client at rest is served
  exactly once per loop; what was asked for is eventually served.
- Demodulation: consecutive frames join without a seam; a change or a bad frame
  disturbs a bounded number of them.
- Events: a listener does not stay wrong about a client.
- Sample input: every number handed on comes from its own sample.
- FFT backends: a window's slice is contiguous and holds the bins it shows.
- AGC and encoders: the gain sees exactly the samples ahead; what is heard is a
  gapless prefix of what was encoded; a row of a waterfall image is the one its header
  describes.
- Life cycle: nobody waits for a thread that has ended; an exit leaves nothing
  behind; `stop()` ends the process.

## 2. The modules

| module | models | composed with |
|---|---|---|
| `FrameLoop` | `fft_task` statement by statement, the asynchronous read, the I/O threads' tasks, the nodes of both registries, `stop()` and the destructors | refines `SharedSpectrum` |
| `SharedSpectrum` | abstract: a buffer lent whole to readers and rewritten only when all have returned it | |
| `FrameLoopProofs` | theorems about `FrameLoop` | |
| `AudioSlices` | the audio registry and windows, handlers store by store, `signal_loop`, the window `send_audio` reads | |
| `AudioProofs` | theorems about `AudioSlices` and, on top of them, `EventsFeed` | |
| `EventsFeed` | snapshot, announcements and timer, over the handlers of `AudioSlices` (EXTENDS) | `AudioSlices` |
| `WaterfallWindow` | the levels of a spectrum of any size, which of them a window is served from, and its rounded ends there | |
| `WindowProofs` | lemmas about `WaterfallWindow`: powers of two, halvings, rounding | |
| `WaterfallSlices` | the waterfall registry: maps, mutexes, handlers store by store, `waterfall_loop`, what `send_waterfall` reads | `WaterfallWindow` |
| `AudioDemod` | `send_audio` read by read: which halves of which frames end up in a block | |
| `DemodProofs` | theorems about `AudioDemod` | |
| `WaterfallProofs` | theorems about `WaterfallSlices` | `WindowProofs` |
| `SampleConversion` | `SampleConverter::read` byte by byte, in chunks, with short reads | |
| `Setup` | what the constructor computes from the configuration, and what it refuses | |
| `Spectrum` | the buffers of a frame: `FFTW::execute`, the copy behind IQ spectra, the clients' pointers | `Setup`, `WaterfallWindow` |
| `SamplePath` | a block on its way from the reader to the clients | `SampleConversion`, `Spectrum` |
| `SampleProofs` | theorems about `SampleConversion`, `Spectrum` and their composition `SamplePath` | `WindowProofs` |
| `LookAhead` | the two queues of the AGC, `process` sample by sample, `reset` at any moment | |
| `Encoders` | FLAC packets, their labels and sends that fail; AV1 images and their headers, with lost images and throwing sends | |
| `AudioOutput` | one connection: AGC and encoder in the order of `send_audio`, or waterfall lines | `LookAhead`, `Encoders` |
| `OutputProofs` | theorems about `LookAhead`, and about `Encoders` in the composition `AudioOutput` | |
| `Lifecycle` | `main`, `run`, `stop`, all threads, the timer and connections, SIGINT on any thread | `Setup` |
| `LifecycleProofs` | theorems about `Lifecycle` | |
| `MC*` | the small instances the `.cfg` files run | |

How they fit together. `FrameLoop` knows of a client only whether its node is in a
map. `AudioSlices` and `WaterfallSlices` know the windows, and assume of the loop
that it starts when the tasks of the previous frame are done, which is what
`FrameLoop` shows (`OneAudioTask`, `OutputStable`). `AudioDemod` is one client's
`send_audio` in detail, and assumes that its tasks come one at a time and in order,
which are `FrameLoop`'s `OneAudioTask` and `SentInOrder`. `Spectrum` cuts the slices
that the registries only name, and takes its levels from the operators
`WaterfallSlices` chooses with; that nobody reads them while they are made is
`FrameLoop`'s `OutputStable`. `Lifecycle` knows of the loop only that it posts tasks
for registered clients and waits for them, and puts the whole of it inside `run()`.

State and actions correspond to the code like this:

- Variables have the names of the code's members and locals (`input_buffers`,
  `signal_futures`, `signal_slices`, `demodulation`); those marked "history" are not
  in the code and are read only by properties. `PROJECT.json` maps each definition
  to its lines.
- A statement that another thread can observe in the middle of a function is an
  action of its own; a critical section whose inside nobody can see is one action.
  In `FrameLoop` and `AudioSlices` extract and insert are two actions under one
  mutex, since the FFT thread reads the size of the map without it.
- Samples are abstracted: in `FrameLoop` a half-block is its number and a spectrum
  the number of its second half-block; in `AudioDemod` half a buffer is the set of
  transform halves added up in it; windows are small integers. In `Spectrum` a cell
  is the bin it came from and how often it was normalised, a pixel the set of bins
  it sums; in `SampleConversion` a byte is where it came from; in `LookAhead` a sample
  is its number and an integer value; in `Encoders` a pixel is the frame that wrote it.
- A message's fields are arguments drawn from a constant set; parsing is left out.
- Reads of members without a lock see whatever the other thread has stored so far;
  members never written hold any of a set of values no message may name
  (`GarbageWindows`, `Garbage`). `send_audio` reads `l`, `r` and `audio_mid` in six steps.
- Definitions named `Mut...` are deliberately wrong variants of the definition that
  follows them. No specification uses them. Substituting one must break the
  property `PROJECT.json` lists it under: they show that the property can fail.

## 3. The runs

A run that passes explores its whole state space. In `AudioSlices` and
`WaterfallSlices` the FFT thread never ends, and in `SamplePath` frames follow frames,
so TLC also checks that nobody deadlocks. In the others the system may really stop (the input stalls, everybody
disconnects, a bound is reached, the process ends), and their configurations say
`CHECK_DEADLOCK FALSE`; what must not stop there is stated as a liveness property.

| run | question | bounds |
|---|---|---|
| `FrameLoopAudio` | does the inductive invariant hold; are slices stable, input blocks whole and overlapping, frames in step; does a client get every transform, and one that stays every half-block? | 2 audio clients (one retunes), 2 I/O threads, 3 half-blocks |
| `FrameLoopMixed` | with both kinds of clients moving: does the inductive invariant hold, are frames in order, is `SharedSpectrum` implemented, is a frame once begun posted, and does the thread end after `stop()`? | 1 + 1 clients, both retuning and slow; 2 levels, waterfall every 2nd frame, 1 thread, 2 half-blocks |
| `FrameLoopTeardown` | a comment that the code does not keep (section 6) | 1 audio client, 1 thread, 3 half-blocks |
| `AudioSlices` | registry, copies inside the buffers, undisturbed slices, one task per client; is a retune heard? | 2 clients, one retuning and one slow; spectrum of 4 bins, IFFT of 2, a default window of 3, two kinds of uninitialised windows, one good message and one of each bad kind; 1 thread |
| `AudioSlicesStale` | section 6 | 1 client |
| `EventsFeed` | is a change ever lost, is a departure heard, by everyone whose snapshot no tick has overtaken? | 1 audio client that opens and leaves, 2 listeners, up to 1 waterfall client |
| `WaterfallSlices` | registry, slices as asked for, labels; is a client at rest posted exactly once, and a move shown? | 2 clients, one moving and one slow; levels of 8, 4 and 2 bins, a window with halves to round that ends past the spectrum, one wider than the spectrum and an empty one; 1 thread |
| `AudioDemod` | do consecutive frames join, with retunes and modulation changes at any step, dropped frames and frames that are NaN? | 4 frames; AM, USB and FM; an even and a negative odd centre; IQ input; mixers that forget and keep a NaN; a slow client |
| `AudioDemodSeam` | section 6 | 5 frames |
| `SamplePath` | does every result of the conversion come from its own sample; is every window given the bins it shows, each normalised once? | 12 configurations: real spectra of 4 to 10 bins, IQ of 8 to 16, even and odd levels, every mode and several default frequencies, also none; formats of 1, 2, 4 and 8 bytes, signed or not, chunks of 1 and 4, reads whole or 5 bytes short |
| `AudioOutput` | is the AGC's peak that of its window; do packets continue each other under the right label until a send fails; are rows those their headers describe? | look-ahead of 3, blocks of 3, frames of 2, 9 samples of 5 values, server frames 1, 2 and 4; images of 3 rows of 2 pixels with a stride of 3, lines of 1, 3 and 4, 8 frames |
| `Lifecycle` | do tasks always have a thread; does an exit leave nothing behind; does `stop()` end the process? | 1 client with a window, 1 without, 2 I/O threads, both other threads, 2 signals; 5 configurations |

Why the bounds are enough. Three half-blocks let every one of the three buffers
be read, loaded first and loaded second. The buffers start with zeros, so they give
four frames, and two half-blocks three: the tasks of one frame can meet the
execution of the next, and the waterfall is posted, left out and posted again. The
proofs of section 5 remove this bound. Two clients give every interleaving of two handlers and of a handler with a
loop that visits the other client; nothing in the code relates three. Two I/O
threads (`FrameLoopAudio`) let two tasks run at once; one thread still starts them
in any order. Two listeners let one subscribe or leave while a tick is being sent
to the other; opening and closing already give an audio client two announcements,
the second of which must win. Three levels give a move to a later level (opening
goes from the first to the last), one to an earlier level and one within a level.
The history of one frame reaches two frames forward (`AudioDemod`: the
discriminator's last sample of a block that contains half of the frame before), and
four frames leave room for a change or a bad frame and both after-effects.

The windows of `SamplePath` are not sampled: the properties quantify over every window
of each spectrum that a message may name. What can go wrong there depends on the
parity of the sizes, on where the window lies with respect to the wrap and on whether
it is as wide as allowed, all of which occur; the default windows come from values of
`basefreq` below, inside and above the spectrum. `SampleProofs` removes the bounds of
all three of its properties. In `AudioOutput` values repeat in sign and size, so that equally loud
samples meet, the window is filled, emptied and filled again, and blocks and frames
are of coprime lengths; the three lines of an image may be narrower than a row, as long as the stride and
longer, and two images and two more lines pass, so that what an image leaves behind can be
seen in the next. `OutputProofs` removes the bounds of the AGC, of the packets and of the images. In `Lifecycle` a second
signal is the first that differs, and one client of each kind suffices since clients
share nothing but the thread that runs their handlers; `LifecycleProofs` removes these
bounds for its two invariants. Every safety property of a passing run is proved
(section 5), so that the bounds still matter to the liveness properties and to the runs
that expect a violation.

## 4. Fairness

Runs with only safety properties use `Spec`; a liveness property is checked under
`FairSpec`, which assumes:

- weak fairness of the FFT thread, the asynchronous read and each I/O thread: the
  operating system schedules runnable threads, and an I/O thread that is not
  blocked takes tasks from the `io_service`;
- fairness of a handler that has begun: it is running on some I/O thread;
- strong instead of weak fairness wherever the next step takes a mutex (`FftTask`
  in `FrameLoop`, `SignalLoop`, a handler's `Continue`, `OpenEvents`): the mutexes
  are held for the length of a loop or of two map operations and released again
  and again. `std::mutex` promises no order, so this is an assumption on the
  implementation, the weakest under which a waiting thread gets it at all. The
  steps of one thread exclude each other, so strong fairness of the whole sequence
  says no more than of those steps;
- weak fairness of the timer: `on_timer` arms it again while `running`;
- in `Lifecycle`, weak fairness of the main thread, the FFT thread, the registration
  thread, `stop()`, and for each I/O thread of what it does unless clients ask for more
  (`Duty`). Its `FftStep` contains the read, so there the input is taken to deliver or to
  end (at the end of the input `fread` returns at once). `Duty` contains the closing of
  connections that were told to close: websocketpp ends a closing handshake by a
  timeout. Nothing makes a client leave that was not told.

No fairness is assumed of clients (they need not connect, retune or leave), of
signals, nor in `FrameLoop` of `stop()` and of the input beyond `MaxBlocks`: `ThreadEnds`
names the one way the FFT thread may not end after `stop()`, a read that never
completes.

## 5. What is proved

Every safety property that a passing run checks, invariant or action property, and the
refinement of `SharedSpectrum` are theorems of the module's specification, for every
value of its constants that its `ASSUME`s allow. Each argument is an inductive invariant: a conjunction of named
parts, shown to hold initially, to be kept by each action, and to imply the properties.

### `FrameLoopProofs`

For any sets of clients and threads, any number of levels, any `SkipNum` and any number of
half-blocks: the type invariant (`TypeCorrect`), the inductive invariant `IInv`
(`Inductive`), `OutputIsStable` and `Refinement` (`FrameLoop` implements
`SharedSpectrum`), `SpectrumIsWhole`, `TransformsOverlap`, `OneAudioTaskEach`,
`PhaseIsKept`, `FramesInOrder` and `AudioHasNoGap`. `IInv` is checked by both passing
runs of `FrameLoop`.

`OutputStable` is not inductive: that `execute` finds no task outstanding depends on where
the loop is. `WaitInv` adds that every outstanding task is in one of the two vectors of
futures, that no signal future is outstanding once they have been waited for, and that
none at all is from then until the next tasks are posted. `SpectrumWhole` needs to know
what each buffer holds: `BufferInv` says, for the statements where `idx` still names the
buffers being loaded and for those where it has advanced, which two or three consecutive
blocks are where and which buffer the pending read fills; `InbufInv` relates what has
been loaded to the buffer the next transform starts with. The refinement maps
`executing` to the rewriting of the buffer and the two postings to lending.
`OneAudioTask` adds that audio tasks are posted in one step when none is outstanding.

`SentInOrder` and `NoAudioGap` compare what a client is sent with what it was sent
before. `NodesInv` says where the nodes of both registries are: only a client that moves is out
of its map, and an audio client only while its handler has the mutex, so that
`signal_loop` never sees the map without it. `FrameInv` says that all outstanding tasks,
and the newest frames ever sent, are of the frame posted last; with `WaitInv`, nothing
older can still be on its way when the next is posted. `GapInv` adds that a client that is
not slow has been sent the last frame or has a task for it. That no transform is left out
holds of a client that retunes, too; that no half-block is left out is stated for one that
does not (`HeardInv`), since frames are skipped, and their numbers not spent, while the only
node there is is in its handler's hands. For `PhaseKept`, `PhaseInv`
names the quantity that must not move: by how much the block the next transform ends with
is ahead of the frame number. It grows when a frame is skipped, and a frame is skipped only
when both sums of sizes are zero, which a connected client that does not retune rules out.

### `AudioProofs`

For any numbers of clients and threads, any spectrum, any messages and any default and
uninitialised windows: all four invariants the run `AudioSlices` checks. `AudioInv` adds
to them, besides what a handler has stored by each of its points, three facts. While the
loop has nodes left to visit it owns the mutex, these nodes are in the registry, and their
clients have no task (`Loop`): that is why it posts each client once, and under its present
window. A waiting task whose client no handler has touched since has the client's window
(`Waiting`). And what a thread has read so far is what it would read now, if its client is
undisturbed (`ReadRight`). `SlicesInRange` has two parts. That the copies stay inside
the IFFT's input needs nothing of the window (`CopiesAlwaysFit`): the code cuts them to fit
whatever it has read. That the slice lies in the spectrum needs a client at rest. All handlers go through one
lemma (`HandlerFrame`), which says what a handler may do to the registry and to the
window so that the loop and the tasks are none the worse.

For any listeners on top of these: `NoChangeIsLost` of `EventsFeed`.
`FeedInv` contains `AudioInv`, since a handler announces what it has stored (`Stored`);
`Subscribed` says that whoever is to get a snapshot is already among those the timer sends
to; `LastWord` that for a client at rest the announcement waiting, or else the one being
sent, is right. The delicate step is the tick: it moves the announcements out of the map
while a listener may hold a snapshot from before. `overtaken` marks the clients whom both
that tick and that snapshot name; about those the listener is told the older word last, and
the property does not speak of them.

### `WaterfallProofs` and `WindowProofs`

For any number of clients, threads, levels and any messages: `RegistryIsConsistent`,
`LabelsAlwaysFit`, `NobodyTwice`, `NobodyMissed` and `SlicesAreAsked`.
`RegistryConsistent` says nothing of a handler half way through; its inductive
strengthening `RegInv` (`RegistryInductive`) adds which members the handler has
stored by then (`l` after `SetL`, `r` after `SetR`), that the node just inserted is the
one the handler was asked for, and that a new client's level is 0, where
`on_open_waterfall` puts its node. Each handler's step is shown to keep it for its own
client, and to leave the nodes of the others alone (`ExtractedNodes`,
`InsertedNodes`); the loop and the tasks change neither maps nor members.
`ServeInv` (`ServingInductive`) does the same for the loop and its tasks, on top of
`RegInv`: the nodes the loop has yet to visit are registered in the level whose mutex
it holds, and a client no handler has touched since the loop began is settled, so all
its tasks are its one node at its place. `NotTwice` and `LabelFits` follow. `NotMissed`
needs the progress of the loop: a client at rest has been served, or is on a level the
loop has yet to come to, or on the one it visits with its node on the list (`Due`,
`DueInductive`).

`WindowProofs` collects what the levels and windows compute: a power of two grows and
splits (`Pow2Splits`), `LevelCount` exists and the levels it counts have at least
`min_waterfall_fft` bins (`LevelsIs`), some level is closer than twice the minimum to any
window no wider than the spectrum (`ClosestExists`), and halving and rounding move an end by
half a pixel at most (`WindowIs`). With it `SlicesAreAsked` shows for every size of spectrum
and every message that the slice is the window asked for. `on_window_message`
(`waterfall.cpp:56`) compares the ends with each other and with zero only. `SliceIsAsked`
therefore says of windows that reach past the spectrum what the code does with them: they
are cut past the end of their level, into the bins of the next or of none; and one wider
than the spectrum may find no level closer than twice the minimum, and is then cut from the
last with its ends as they came. It also says that this is the only way: where the
window asked for ends within the bins a level is made of, so does the slice.

The recursive definitions are functions (`Pow2`, `LevelStarts`), unfolded once by
the library's `NatInductiveDef`; the inductions over levels are done on sets of numbers, by way of
their least element (`ReachesAll`).

### `SampleProofs`

`SamplesAreIntact` holds for every length of a read, every width of a sample, every
shortfall and any number of samples converted at once. The inductive invariant
`SampleInv` adds `Pending`: the bytes of a sample still to be converted are as `fread` left
them. The argument is geometric (`SamplesBehind`): with samples at the end of the array
and results at its front, sample `j` lies behind the samples and results before it,
because no sample is wider than a result; wider ones have an array of their own.

`AudioSlicesAreWhole` and `WaterfallSlicesAreWhole` hold for every configuration that
`ConfigsAssumption` allows, any sizes and any number of levels. `CellInv` says which cells
have been normalised after each of the two calls of `power_and_quantize`, and, once
copied, that the cells behind an IQ spectrum equal its front. A contiguous slice then shows
the right bins because at most `audio_max_fft_size` cells are read from a start below
`fft_result_size`: shown bins are taken modulo the size exactly where the slice
runs into the copy. `PixelInv` and `LevelsInv` say that each finished level shows what
it should, starts where the one before it ends, and that two more of its length still fit
into the buffers, so that halving never writes beyond them nor over a level before. A pixel of
the next level is the union of two of this one, which is the set of bins it stands for since
powers double.

### `DemodProofs`

`SoundIsSeamless` and `MutingEnds` hold for any FFT size, any centres, negative ones too, any
modulations and mixers, real and IQ input, slow clients and fast, and any frames and
changes. What halves a block is made of is shown for all of them, their signs only where
`SignsHold`: the code takes the parity of the centre for that of its bin, which it is for
IQ input if `fft_size` is divisible by 4, and for real input unless the centre is odd and
negative, since `%` of C++ then gives -1 (`Rem2`). Nothing checks either.
`DemodInv` describes a client left alone since frame `calm`: at each point of
`send_audio`, which halves of which frames each buffer is made of, and with which sign.
`SidebandInv` needs one frame before it for that, the AM and FM paths two
(`Before`, `Tail`, `Whole`), since the discriminator looks back a sample. What is from before
`calm` may be anything, which is why `Near` excepts it. Undoing the inversion is a
lemma of its own, about the parities of frame and centre. `KeptInv` is behind `Recovers`: what is kept
of a block that was sent is finite, as the check is made before it is kept. The exception
is the phase AM is mixed down with, which lives from frame to frame: a mixer that keeps a
NaN is silent for good, and the property says so.

### `OutputProofs`

`PeakIsAlwaysExact` holds for any look-ahead, block size, values and resets;
`PeakIsExactOnline` says so of the whole connection.
`AgcInv` says of the two queues (`Good`) that the buffer holds the last samples in order,
that the candidates are samples of it in order of arrival and ever quieter or as loud
(`InOrder`, `Drawn`), and that every sample of the buffer is a candidate or quieter than
the first candidate that is not older (`Covered`). Equally loud samples are what makes
this delicate: `push` keeps the older one, and `pop` compares values, so that popping a
sample must remove a candidate exactly if that candidate is the sample itself.
Queues that a reset has torn are no part of the invariant until the next reset that
meets no `process`.

The invariants of `AudioOutput` about packets hold for any lengths of blocks, frames, lines
and images, any stride, any frames of the server and any sends that fail. For sound,
`SoundContinues` is inductive given the types: as long as no send has failed the encoder
holds exactly the samples taken and not heard, and afterwards it is never asked again. Labels
need `LabelInv`: blocks are taken whole, the samples taken are a multiple of the block, and
no block is taken while a frame is full, so that the last sample of a packet lies at most a
block before the end of the one its label names; the rest is arithmetic of quotients. For lines,
`LinesInv` extends `LinesMatchHeaders` from the image sent to the rows of the image being
filled; a new line leaves the rows before it alone because rows do not overlap as far
as the image is wide (`RowsApart`).

### `LifecycleProofs`

`TasksHaveThreads` and `NothingLeft` hold for any configurations, clients, I/O threads and
signals. `LifeInv` adds `Fresh` (nothing runs before `run` has started it), `Drained` (once
one I/O thread has returned there is no work, and none comes again, since nobody listens,
no timer is set and no client is left to post for) and how far the joins have got.

### Assumptions, and what is left to TLC

The theorems rest on the `ASSUME`s of the modules, which TLC evaluates in the runs:
disjoint sets of clients and values that are no client (`None`, `Fft`); at least one
level, `SkipNum >= 1`, positive sizes of the transform, of blocks, frames, images and the
look-ahead, a stride no smaller than the width; a default audio window clamped to the
spectrum, both ends included (`spectrumserver.cpp:147-149`), of any width; messages of
whole numbers; `min_waterfall_fft` no larger than the spectrum; a main thread among the I/O
threads; and in `ConfigsAssumption` an even `fft_size`, whole rates, a smallest waterfall
between 1 and the size of the spectrum, and IQ windows no wider than the spectrum.

Only model-checked, because liveness under fairness is beyond the provers: `FrameCompletes`
and `ThreadEnds`, `RetuneIsHeard`, `DepartureIsHeard`, `MoveIsShown` and `StopEnds`. The
three properties of section 6 are false, and TLC shows it.

## 6. Where the code and its comments disagree

| run | what the comment says | what happens |
|---|---|---|
| `FrameLoopTeardown` | `fft.cpp:82` the clients are waited for | after the loop they are not: the FFT output is freed under the tasks of the last frame |
| `AudioSlicesStale` | `signal.cpp:101` the buffer is given offset by `l` | by the key's `l`, not by the member `send_audio` reads |
| `AudioDemodSeam` | `signal.cpp:273` the copied half is the one to add in the next frame | after AM or FM it is the half of an older sideband frame |

Three more are stated in the modules without a run of their own; checking the named
definition as an invariant gives the counterexample:

- `fft.cpp:72` says the FFT is skipped if there are no users. The sizes are read
  unlocked, and a client whose node is in its handler's hands is not counted, so that
  half-blocks may be missing from its sound
  (`FrameLoop!SkipOnlyWithoutUsers`, instance of `FrameLoopAudio`).
- `websocket.cpp:215` says each waterfall client is sent its slice. One that moves to a
  later level during the loop is posted twice, and two threads use its encoder
  (`FrameLoop!OneSlicePerClient`, instance of `FrameLoopMixed`).
- `events.cpp:99` says the count is broadcast to all connections. It is only when an
  audio client has announced a change (`EventsFeed!CountIsBroadcast`, instance of
  `EventsFeed`).

A consequence of `AudioDemodSeam`, seen with `Recovers`: if a sideband frame is NaN, and the
client switches to AM or FM for a frame and back, the NaN half is kept as the one to
overlap with and every sideband frame is thrown away, since the half is only
replaced at the end of a frame that is not. The property therefore allows frames to
be thrown away when the client has changed something after the bad one.

`send_waterfall` (`waterfall.cpp:47`) labels a slice with the window its client has when
the task runs, not with the one the slice was cut from. `LabelFits` is therefore
stated for clients that no handler has touched since the loop began.

What else the models showed of the code, and where a property is stated around it:

- The default window (`spectrumserver.cpp:147`) is clamped to the spectrum but not
  limited to `audio_max_fft_size` as a client's message is. For IQ input and WBFM it may
  be wider than the copy behind the spectrum (`fft_size` 16, `sps` 192000, `audio_sps`
  48000: 16 bins, with 4 copied), and its slice then ends in cells nobody writes.
  `AudioSlicesWhole` asks only for default windows a client might have asked for.
- Without `defaults.frequency` the default window depends on `basefreq` before it is
  assigned (`spectrumserver.cpp:61`). It is clamped, so any value gives a window.
- For IQ input the lower half of the display starts at bin `fft_size / 2 + 1`, so the
  bin in the middle of an IQ display is bin 1 and not bin 0: `BinAt` states the
  mapping that transform, pixels and slices agree on.
- A rounded window of a level of odd length may end one pixel past it
  (`waterfall.cpp:74`); `WaterfallSlicesWhole` allows exactly that pixel.
- A run without registration ends in `std::terminate`: `registration_thread.join()`
  throws for a thread that was never started (`spectrumserver.cpp:262`). `Lifecycle` also
  aborts for a port in use, a second SIGINT, one before the server listens or between
  `listen` and `start_accept` (which then throws, line 244), a registry that changes under
  `stop()`, and a listener that `stop()` tells to close after `on_open_events` has inserted
  it and before it has sent the snapshot (`events.cpp:71-72`): the send throws, and nothing
  catches it.
- A client that is opening, or whose node is extracted, while `stop()` walks the
  registries is not told to close; the server then waits until it leaves of itself.
  `StopEnds` is stated for the case that everyone left was told.
- `err < 0` is never true of an AV1 error code (`waterfallcompression.cpp:113`): a failed
  encode drops its lines silently. A `send` that throws leaves `line` at
  `WATERFALL_COALESCE`, and lines that come before the connection is closed are
  written behind the image and `header_multi`; the model keeps `line` there, and what is
  written behind is not in it.
- A send of sound that fails is caught, but `write_callback` then reports a fatal error to
  the FLAC library, which refuses every later block: the client hears no more, and nothing
  else happens (`audio.cpp:33-44`). `SoundContinues` says silence, not a gap.
- A packet of sound bears the frame number its block was labelled with, but a frame of the
  library may end a block earlier; `LabelsFollow` allows one.
- `waterfall.cpp:56` does not compare a message with the spectrum, and nothing checks `m` of
  an audio message nor the divisibility of `fft_size`: sections on `WaterfallProofs` and
  `DemodProofs`.
- A tick that falls between a listener's snapshot and its sending, and names a client the
  snapshot names too, is followed by the older word (`events.cpp:36, 72`). If the client
  has left, that listener shows it for ever: `NoLostChange` and `DepartureIsHeard` except
  exactly these clients (`overtaken`).
- `config.toml` offers formats `u32`, `s32` and the encoder Opus; `main` does not know the
  first two, and Opus is refused as long as `HAS_OPUS` is undefined, while the build
  defines `HAS_LIBOPUS`. `OpusEncoder` is therefore never constructed, and not modelled.
- `frames`, which the AV1 encoder hands over as the time of an image, is never
  incremented, and limits on connections are read and not used
  (`spectrumserver.cpp:92`).

## 7. What is not modelled

- Sample arithmetic: transforms, quantisation, DC blocker, the gain of the AGC, FLAC,
  Opus, Zstandard, AV1. Their numeric results are no matter of states. FLAC is modelled by when it delivers a
  frame and what it does after a failure, liquid's mixer by whether its phase keeps a
  NaN. The Zstandard
  encoder sends each line by itself and keeps nothing.
- The MKL, OpenCL and CUDA backends: the same interface and layout, other libraries,
  none of which the default build contains. FFT backends are therefore "partly"
  modelled.
- Parsing of messages and of the configuration, and what it throws; HTTP, TLS,
  websocketpp and asio themselves. A connection's ids and its mute do not change what
  is posted or sent by the modelled code paths.
- Configurations outside `ConfigsAssumption`: odd `fft_size`, a `waterfall_size` that is not
  positive (the loop that counts levels does not end) or larger than the spectrum (no
  levels at all), IQ windows wider than the spectrum; a look-ahead of no samples
  (`audio_sps` below 5).
- The browser's code, mostly vendored headers and libraries (liquid-dsp, libavif,
  CMSIS) built to WebAssembly, and the frequency list, an offline script. These are
  most of the repository's lines; the server under `src/src/` is what runs concurrently.
- Data races whose outcome is undefined beyond "an old or a new value": the unlocked
  iteration of `events_connections`, the moving of `signal_changes` while its size is
  read, and the nodes of the queues in `agc.reset()` during `agc.process()`; the latter is
  modelled operation by operation, as if each were atomic.

## 8. Plan

What is left, in this order:

1. Refinements: one client's view of `AudioSlices` as the assumption `AudioDemod` makes of
   its tasks, stated as an abstract specification both are shown to meet, and the same
   for `FrameLoop` and `AudioSlices`, which assume of each other what section 2 says.
2. Action properties of `EventsFeed` and `Lifecycle` behind their liveness properties: what
   no step undoes once `stop()` has run, or a departure has been announced.
3. Reconnects: a connection that opens again after `stop()` told it to close.
