# Tin Can Telephones in TLA+

This directory specifies and checks the phone program of this repository: two
BeagleBones that call each other over TCP (`make pretty`, entry point
`src/src/main_pretty.c`), and the smaller programs beside it.  It models the code
as it is written, not as its comments describe it, and it lists where the two
differ.

Paths below are given as in `PROJECT.json`: `src/src/audio.c` is the file
`src/audio.c` of the repository.

## 1. The system

| part | file | state | operations | used by |
|---|---|---|---|---|
| lock-free ring | `lfringbuffer.c` | slots, `readPointer`, `writePointer` | enqueue, dequeue | pools of frame buffers and of queue nodes |
| linked queue | `lfqueue.c` | chain of nodes, `head`, `tail`, `size`; recycle list `root_free`, `move_free` | init, enqueue, two dequeues, destroy | audio, its test program |
| queue test program | `main_lfqueue.c` | one queue, workers | one test function after another | a program of its own |
| ring test program | `main_lfringbuffer.c` | one ring, producers, consumers | `testMultiThreaded` | a program of its own |
| audio engine | `audio.c` | two flags for the workers, `started`, `initialized`, two thread handles, the stream | `Audio_init`, `_start`, `_stop`, `_teardown`; fill thread, flush thread, `streamCallback` | call control, main |
| audio prototype | `main_nonblocking_audio.c` | the same two pools and two queues | `fillRecvBuffer`, `rwAudio`, `flushSendBuffer` | a program of its own |
| frame transport | `call.c` 156-200 | the TCP byte stream | `sendDatagram`, `receiveDatagram` | flush and fill thread |
| call control | `call.c` 30-154 | the connection, a detached thread per call | `Call_accept`, `_reject`, `_begin`, `_terminate` | handlers |
| call set-up | `call.c`, `connection.c`, `trek.c`, `addressbook.c` | handshake, start-up sound, silence, voice on one wire | dial, connect, shake hands, play, start, hang up | two phones |
| dial service | `dialservice.c` | thread handle, `serviceSuspended`, `stop` | start, suspend, resume, stop; two kinds of input thread | main, server |
| voice server | `voiceserver.c` | thread handle, `stop` | start, stop; accept loop | main |
| phone | `main_pretty.c` | - | `main`, `onDial`, `handleIncomingCall` | - |
| keypad | `keypad.c` | pins, `stop`, the digits so far | `KEYPAD_getDial` | dial service |
| LEDs | `led.c` | two lamps, handle and flag of the blink thread | on, off, blink start, blink stop | handlers |
| legacy ring | `ringbuffer.c` | slots, `head`, `tail`, `count`, `full` | enqueue, dequeue, dequeueN, print | `main_ringbuffer.c` |
| volume mixer | `volume_mixer/` | `currentVolume`, three stop flags, two digits on one I2C device | two threads and `volume_cleanup` | a program of its own |
| send buffer, UDP helpers, pink noise, demos | several | - | - | prototypes and tests |

### How the parts interact

A recorded frame goes: callback takes a buffer from the pool, fills it, puts it
in `recordBufferQueue`; the flush thread takes it, sends it, returns it to the
pool.  A received frame goes: the fill thread receives it, takes a buffer from
the pool, puts it in `playbackBufferQueue`; the callback takes it, plays it,
returns it.  Queue nodes make the same round through a second pool.  Three
threads, one of them a real-time callback, share the two pools and no lock.

A call is begun by a handler: the dial thread (outgoing) or the server thread
(incoming).  The handler connects or accepts, shakes hands, and starts a detached
thread that plays the start-up sound over the wire, sends silence, calls
`Audio_start` and waits for a hang-up.  The handler itself waits for Ctrl-D or a
peer that is gone, then calls `Call_terminate`: shut the socket down, `Audio_stop`.
So `Audio_start` and `Audio_stop` run in different threads.  When a call comes
in the server cancels and joins the dial thread, and starts a new one when it is
done.  At SIGINT main cancels and joins the server, then the dial thread, and
stops the audio.

The keypad is called by the dial thread only, the lamps by one handler at a time;
neither shares state with anything else.

### What is hard

* every interleaving of the ring's and the queue's atomic instructions, nodes that
  move between two queues while a thread still looks at them, and nodes that are
  freed by a clock rather than by knowledge of who holds them;
* buffers that must be neither lost nor shared on any path through three threads,
  a stop in the middle, and failures of PortAudio, of the pools and of the queues;
* `Audio_stop` overtaking `Audio_start`; flags tested in one step and set in
  another;
* TCP splitting frames, and blocking when nobody reads: both phones talk before
  either listens;
* cancellation: a cancelled thread leaves its work half done, and a chain of
  joins must not close to a cycle;
* keys and knobs that change between any two readings, and digits that share
  registers.

`PROJECT.json` lists these hazards one by one, each at its line and with the
properties that cover it; section 5 names the ones that no property covers.

### What makes each part correct

* Ring: a bounded FIFO, whose threads cannot hold one another up for ever.  Queue: a
  FIFO channel per queue, over shared nodes; with the recycle list, no access to a node
  that was given back.
* Audio: each buffer in one place, or given up by a step that ignores a refusal, and
  never in two; after a stop nothing is left; every start and stop returns; the stream
  runs only over a filled queue.
* Transport: frames stay aligned; send and receive return.
* Phone: no dialling while the server has a caller; no call without somebody to
  hang it up; every join returns; nothing is started while it shuts down.
* Call set-up: the right phone, with the consent of its user; the wire in the order
  in which it is read; no mutual wait as long as one direction has room; a hang-up is
  noticed at the other end.
* Keypad: the digits fit, a held key is one digit.  LEDs: one blink thread, which
  touches no lamp after its stop.  Legacy ring: its four variables agree.
* Volume mixer: whole figures on the display, the display dark and the bus unused
  in the end, the mixer follows the knob.

## 2. The modules

| module | models | abstract specification or proofs |
|---|---|---|
| `BoundedFifo` | what a pool promises: put (may be refused), get (may be empty-handed) | - |
| `LFRingBuffer` | `lfringbuffer.c`, one action per atomic instruction | implements `BoundedFifo` (`RefinesFifo`); `LFRingBuffer_proofs` |
| `Channels` | what a set of queues promises | - |
| `LFQueue` | `lfqueue.c`, one action per atomic instruction, any number of queues over one pool of nodes | implements `Channels` (`RefinesChannels`); `LFQueue_proofs` |
| `LFQueueTest` | `main_lfqueue.c` around `LFQueue`, with the recycle list | implements `Channels` for one consumer; `LFQueueTest_proofs` |
| `RingTest` | `main_lfringbuffer.c` over a FIFO that is put and taken in single steps | uses what `LFRingBuffer` shows; `Board_proofs` |
| `Audio` | `audio.c` over atomic pools and queues | uses what `LFRingBuffer` and `LFQueue` show; `Audio_proofs`, `AudioCalls_proofs` |
| `NonBlockingAudio` | `main_nonblocking_audio.c` over the same | `Board_proofs` |
| `Datagram` | the two loops of `call.c` over a byte stream | `Datagram_proofs` |
| `Phone` | `main_pretty.c`, `dialservice.c`, `voiceserver.c`, the call control of `call.c`: the threads of one phone | `Phone_proofs` |
| `CallSetup` | the same call from both ends: `addressbook.c`, `connection.c`, the handshake, `trek.c`, the silence | `Board_proofs` |
| `Keypad` | `keypad.c`, one action per reading of a pin | `Board_proofs` |
| `Leds` | `led.c` | `Board_proofs` |
| `RingBuffer` | `ringbuffer.c` and the loop of `main_ringbuffer.c` | `Board_proofs` |
| `VolumeMixer` | `volume_mixer/src/`, one action per shared access | `Board_proofs` |
| `Board` | eight modules that share no state, side by side: those from `RingTest` on but `Audio` and `Phone` | `Board_proofs` |

`MC...` modules give the constants values for TLC.  Operators named `X_Y`, with
"Mutant" in their comment, are faulty variants of `X`: each property is violated
when one of them takes the place of `X`, which shows that it depends on the code.

**LFRingBuffer.**  Each call is a sequence of steps: load a pointer, load a slot,
compare-and-swap.  `pc[t]` says which is next; the locals of a call are functions
of the thread.  The two loads in the fullness test are two steps (lines 33, 34).
`count` is compiled only for debugging and is left out.  Pointers are integers up
to `Horizon`; in C they wrap at `INT_MAX`.

**LFQueue.**  Likewise, with `next[n]` and `value[n]` for the nodes.  The node pool
is a set: the order of nodes cannot matter to a queue.  `lfqueue_init_mf` takes two
nodes per queue, the dummy (`Base`) and the end of the recycle list (`FreeBase`).
`lfqueue_single_deq` gives the node it leaves back at once; `lfqueue_deq` puts it on the
recycle list, from which every enqueue and every `lfqueue_deq` frees what has been
there for more than `Grace` seconds.  `Tick` lets a second pass; a node's age need not
be told apart beyond `Grace + 1`, and `MaxCall` bounds the seconds a call takes,
without which no grace period would be long enough.  `size` is a number of `Word`
values and wraps.  A failed allocation returns `errno`, whose value is an input
(`Errnos`) and may be 0, since the allocator of `audio.c` fails without setting it.  The
history variables `chain` (nodes linked into each queue), `delivered`, and `unlinked` (puts
that took such a 0 for success) serve the properties; `MaxUnlinked` bounds the last.

`Next` of `LFQueue` has the steps of `lfqueue_single_deq`, as `audio.c` uses the
queue; `LFQueueTest` adds the recycle list's and `Tick`.

**LFQueueTest.**  A test function gives each worker a number of turns; a turn is a put,
a take, or both alternating, and is made again when the call comes back with nothing.
Main waits for the workers, begins the next test, and destroys the queue in the end.

**Audio.**  The blemishes of the parts below stay visible, because they do matter here.  A
ring, of buffers or of nodes, may look empty, or full, while another thread is inside one
(`Contended`, `Crowded`): a take comes back with nothing (`PoolNull`), a return is refused
although there is room, which no caller looks at (`PutBack`), and `lfqueue_enq` finds no node
although one is free (`NodeNull`).  A buffer that is refused is in nobody's hands any more
(`lost`); `lfqueue_enq` may say success all the same, and the size of the queue then counts
a frame that is not there (`Reported`, `counted`).  When it is a node that is refused,
`bufferFree` ends the process (`NodePutBack`).
Threads of one kind are numbered as they are created, and the two
handles name one of them, or 0.  The contents of frames are left out: a buffer is
a model value, and `Silence` is the constant array `totalSilence`.  Joining a
handle never set, and writing to `totalSilence`, end the process (`dead`).
`Audio_playBuffers`, which nothing in the phone calls, and the statistics under
`DEBUG_AUDIO` are left out.

**NonBlockingAudio.**  The three loops of the prototype over pools and queues that may
refuse at any time, which is more than they do: nothing looks at what they answer.

**Datagram.**  A byte is the pair of its frame and the place it was read from.
`buffer + n` moves by samples, so by `SampleSize * n` bytes, and the buffer of the
model reaches beyond `Size` for that reason.  A signed -1 compared with a `size_t`
is the greatest size (`UnsignedLess`).

**Phone.**  `pc[t]` for main, the server and every dial thread; `call[k]` for the
detached thread of connection k.  What the user types is a choice: a known name
or not, y or n, Ctrl-D.  `Cancel(t)` ends a cancelled thread at any call that is a
cancellation point and puts nothing in order.  `Audio_start` and `Audio_stop` are
a test of `started` and a wait that may last for ever.

**CallSetup.**  Two phones, each with a handler and a call thread, and one wire in each
direction that holds `Capacity[p]` frames, any number: `send` blocks while it is full, and
nobody takes a frame before the audio runs.  The callee's handler reads the rest of the
user's line before it goes on (`Drain`).  `answer` remembers what the callee's user said.
`BookAssumption`: no two entries of the book have one name, as in `addressbook.c:10-15`.
A phone that calls itself, and a number typed with a minus sign, are left out.

**Board.**  The eight modules beneath it have nothing in common, so their product would
only multiply their states.  `part`, chosen at the start and never changed, says which
one runs: the states of `Board` are the disjoint union of theirs.  Each module's own
`...Spec` and fairness stand in the module; `BoardFairness` repeats them for the
part that runs.

## 3. The runs

| run | instance | question | result |
|---|---|---|---|
| `ring` | 2 threads, 2 slots, 2 items | FIFO? nothing lost? does some call always return? | holds |
| `queue` | the playback and the record queue of `audio.c`: 3 threads, 6 nodes, 2 values, `lfqueue_single_deq`, `errno` 12 or 0 | two FIFO channels? nodes conserved? no access to a freed node? size accounted for? | holds |
| `queue_test` | main and 1 worker, every test function with the calls it makes, 3 turns, 5 nodes | recycle list whole? no access to a freed node? the test ends, all consumed, destroy complete? | holds |
| `queue_multi` | 2 workers that put and take in turns (`multi_enq_deq`), 5 nodes | does the test end? | **no** (finding) |
| `audio` | 2 buffers, 3 nodes, 2 sessions, one caller, teardown | each buffer in one place or lost, stop complete, joins valid, calls return? | holds |
| `audio_callers` | 2 buffers, 2 nodes, 2 sessions, one thread starts, one stops, everything may fail | buffers never shared, one session? | holds |
| `audio_silence` | as `audio` | does the constant get into the pool? | **yes** (finding) |
| `audio_overtaken` | one thread starts, one stops, one session | after both returned, does `started` mean on? | **no** (finding) |
| `datagram_split` | 1 frame | does send return? | **no** (finding) |
| `phone` | 2 connections, up to 3 dial threads | no dialling in a call, handles right, calls handled, joins return? | holds |
| `board` | eight parts, one at a time | see below | holds |
| `setup_deadlock` | two phones, a wire too short for the sound both ways | does the call start? | **no** (finding) |

Some invariants bundle what is one question: `QueueInv` is types, the shape of the
chains and the conservation of nodes; `TestInv` adds the recycle list and the test's own
"all consumed"; `AudioInv` is types, no buffer shared, none gone but the `lost` ones and these in no
place; `AudioReturns` is both calls; `PhoneInv` is types,
`NoDialDuringCall` and `DialHandle`.  In `board`:

* `SetupInv`: `SoundBeforeVoice` (the wire is read in the order it is written),
  `FramesOnlyAfterYes` (consent), `RightPhones`; `OneWireSuffices` (no mutual wait if one
  direction has room) and `HangUpSeen` are its liveness;
* `TransportInv`: types, and frames begin with their first byte (`FramesInStep`);
  `ReceiveReturns` is its liveness;
* `InputBounded`, `OnePressOneDigit`: the keypad; `StaysAsSet`: the lamps;
* `ElementsInv`: the legacy ring is in step until `dequeueN` was asked for less than all,
  and what its printing shows is what it holds;
* `MixerInv` (bus open when written, whole figures, dark at the end, `currentVolume` in
  step with the mixer) and `KnobRules` (the mixer and the digits come to follow the knob);
* `DemoInv`: in the prototype every buffer is in one place and the shared silence is
  never written;
* `ConsumersExit`, and "Found violation" never (in `BoardInv`): the ring's test program;
* `BoardReturns`: `KEYPAD_getDial`, `LED_red_blink_stop` and the mixer's main come back.

### Bounds, and why they are enough

* `Horizon = 7` lets the two pointers go round a two-slot ring three times: slots
  are reused while a stale pointer to the slot's previous use is alive, which is
  where a compare-and-swap could go wrong.  `IInv`, checked in the same run, is
  proved for all sizes.
* Six nodes for two queues: four are taken by `lfqueue_init_mf`, so that a node freed by
  one queue is at once the next node of the other, and allocation fails.  The four that make
  the round are symmetric: `Base` tells two of them apart in `Init` only.
* `MaxUnlinked`: on each queue one failed allocation may be taken for a success.  How many
  there are is open in the proof (`QueueSize`).
* `queue_test` has one worker, that is `nthreads = 1`, and main.  The code has four, but
  with two `multi_enq_deq` goes wrong (`queue_multi`), and so does `one_deq_and_multi_enq`
  (section 5).  With one worker each test function makes the calls that the code makes:
  `lfqueue_single_deq` where main is the one consumer, `lfqueue_deq` elsewhere.  Three turns
  and five nodes, two of them in use from the start: the recycle list is filled, freed and
  reused, and allocation fails.  `Grace = MaxCall = 1`: a node is looked at while it
  ages, a call lasts as long as it may, and larger values would only add waiting.
* Two buffers: with `MinPlayback = 2` all of them must be in the queue before the
  stream starts, so underflow, drops and silence follow.  Two sessions: handles,
  flags and queues of the first, and what it has lost, are there to be found by the second.
  Three nodes in `audio` are enough for both buffers and a frame of silence; two in
  `audio_callers`, with `MinPlayback = 1`, run out.  `Backlog` bounds silent frames in
  `recQ`, which in C are bounded by 600 nodes.
* Frames of two samples, each of two bytes, split at every byte.  Three frames: one
  before, one split, one after.  What the run shows of them is proved for all sizes.
* Two connections: one call in progress and one that comes in, or two in a row.
  Each incoming call may start a dial thread, so there are `Calls + 1`.
* Call set-up: a book of two entries with the caller in it or not; two frames of sound
  and one of silence; the caller's direction holds one frame less than goes ahead of
  the voice, the callee's just as many.  So the caller blocks in the sound with
  nobody reading, and goes on when the callee has come to its audio.  `setup_deadlock` makes
  both directions one frame shorter than the sound, and then neither goes on.  In the code
  186 frames of sound and 20 of silence, 206 KiB, go ahead of the voice, and nothing asks for
  socket buffers of that size: whether a call can hang is a matter of the system's defaults.
* Keypad: four pins with "#" among them and room for three digits, so that the limit is
  reached in the middle of a scan.  `InputBounded` is proved for all.
* Lamps: two blink threads, one of which may be ending while the next is asked for.
* Legacy ring: three slots, two elements; `CountBound = 5` limits how far `count` may
  drift after `dequeueN` has gone wrong.
* Volume mixer: three positions of the knob, that give one digit, two, and more than the
  display has.
* Prototype: three buffers and four nodes, fewer than the three threads and two queues can
  hold at once.  Ring test: two producers, two consumers, numbers up to 3, two slots.

CHECK_DEADLOCK is off where the program may stop: no one calls, the process has
ended, or the bound on sessions, frames or connections is reached.

### Fairness

* Ring: weak fairness of a thread inside a call.  That is the scheduler; a
  thread outside a call need not make another one.  A single call may lose every race, so
  `SomeCallReturns` says of all of them together that one returns; `Horizon`, which bounds
  the tickets, takes no part in that, for a behaviour without returns moves the pointers
  finitely often.  The queue's run is about safety.
* Queue tests: weak fairness of every worker and of main, and time passes again and again
  as long as the program runs (`SF` of `Tick`: it is disabled while a call is as long as
  a call may be).
* Audio: each worker, the callback and the caller inside a call.  The network
  callbacks return and PortAudio ends its calls.  That the callbacks return is assumed:
  `datagram_split` shows that `sendDatagram` need not.  While `Audio_start` waits for frames
  the fill thread is alone in the ring, so no fairness is needed for what a ring answers.
* Transport: both threads inside a call.  The user need not hang up and the sender
  need not have another frame.
* Phone: threads that are not blocked run, and a thread at a cancellation point
  obeys.  The user, the peers and the audio owe nothing: no join depends on them.
* Call set-up: each handler, each call thread and each phone's fill thread.  Users need not
  dial, answer or hang up; one who answers ends the line, for the terminal hands over whole
  lines.
* Keypad: the scan goes on; nobody need press a key.  Its liveness assumes that no key is
  held down for ever, and says so.
* Lamps: the join, and the end of a cancelled thread.  Volume mixer: main, and both threads;
  nobody need turn the knob or press Ctrl-C.
* Ring test: *some* thread goes on.  No fairness between threads is needed.

## 4. What is proved

Each theorem holds for every value of the constants that its module's assumptions allow.
Where it needs more, the hypothesis has a name and the table says it.

| theorem | says | about the run's |
|---|---|---|
| `LFRingBuffer_proofs!TypeCorrect`, `Invariance`, `Refinement`, `Conservation` | types; the inductive invariant; the ring implements the bounded FIFO; no item is lost, doubled or owned twice | `IInv`, `RefinesFifo`, `ItemsConserved` |
| `LFQueue_proofs!QueueCorrect`, `QueueFresh`, `QueueRefinement` | for any number of queues, threads, nodes and values, if one thread at a time puts into a queue and one takes (`TakeTurns`): the chains are right, no node is lost, doubled or touched after it was given back; each queue is a FIFO channel | `QueueInv`, `NoStaleAccess`, `RefinesChannels` |
| `LFQueue_proofs!QueueSize` | the same, whatever `errno` a failed allocation returns: `size` is the length, but for the calls under way and for one too many with each put that took `errno` 0 for success | `SizeAccounted` |
| `LFQueue_proofs!QueueTurns` | `TakeTurns` holds if each queue has one producer and one consumer (`OneEach`) | - |
| `LFQueueTest_proofs!TestCorrect`, `RecyclingIsFresh`, `DestroyIsComplete` | for `one_enq_and_multi_deq` with one worker, if no call outlasts the grace period (`OneTaker`), and any number of tests, turns, nodes and values: both lists are whole, no node is touched after it was freed, each test consumes what it put, `lfqueue_destroy` frees every node once | `TestInv`, `NoStaleAccess`, `DestroyComplete` |
| `LFQueueTest_proofs!RecyclingRefinement` | under the same hypothesis the queue whose nodes are recycled is a FIFO channel | `RefinesChannels` (of the run `queue`) |
| `Audio_proofs!BuffersUnshared` | for any number of callers, buffers, sessions and nodes, with any failures and overlaps: no frame buffer is in two places | `NoBufferShared` |
| `Audio_proofs!AudioCorrect` | the same, whatever the rings and the queues refuse: types hold, and no buffer is gone but one that was refused, which is then in no place (until `totalSilence` gets into the pool) | `AudioInv` |
| `AudioCalls_proofs!StoppedIsQuiet`, `JoinsAreValid`, `StartedIsOn`, `SessionsAreSingle`, `PlaybackIsBuffered` | for one caller, after `Audio_init`, when PortAudio does not fail, and any number of sessions, buffers and nodes: calls do what they say | `StoppedMeansQuiet`, `JoinsValid`, `StartedMeansOn`, `OneSession`, `StartPrebuffered` |
| `AudioCalls_proofs!PairIsSingle` | for one thread that starts and one that stops (`OnePair`), at any moment, with any failures and a late `Audio_init`, any number of sessions, buffers and nodes: one fill thread at work, as long as `Audio_start` has a frame to wait for | `OneSession` |
| `Phone_proofs!PhoneSafe`, `StopCancels`, `CallsHandled` | for any number of connections: the safety of dialling, stopping and handling calls | `PhoneInv`, `StoppedMeansCancelled`, `CallsAreHandled` |
| `Datagram_proofs!Transport` | for every size of frames and samples and all pieces: frames stay in step | `TransportInv` |
| `Board_proofs!SetupCorrect` | for every book, start-up sound and capacity of the network: order on the wire, consent, and the right phone | `SetupInv` |
| `Board_proofs!MixerCorrect` | for every interleaving of the three threads: the bus is open when written, the delay shows whole figures, the end is dark, the mixer is in step with `currentVolume` | `MixerInv` |
| `Board_proofs!KeypadInputBounded`, `KeypadOnePress` | for every number of pins and every length of a number: at most `DIAL_LENGTH - 1` digits and one for each further pin of the same scan; one digit for a press | `InputBounded`, `OnePressOneDigit` |
| `Board_proofs!LampsStayAsSet` | for any number of blink threads | `StaysAsSet` |
| `Board_proofs!RingCorrect` | for every size, until `dequeueN` has left an element: the legacy ring follows its calls | `ElementsInv` |
| `Board_proofs!DemoCorrect` | for any number of buffers and nodes, and whatever is refused: each buffer of the prototype is in one place | `DemoInv` |
| `Board_proofs!RingTestInvariance`, `BoardCorrect`, `BoardPartsCorrect` | for any number of producers, consumers and numbers the ring test finds no violation; the parts keep their invariants side by side | `BoardInv`, and `SetupInv`, `InputBounded`, `ElementsInv`, `MixerInv`, `DemoInv`, `TransportInv` of the board |

### The ring

The theorems rest on the four assumptions named in `LFRingBuffer`: `ThreadsAssumption`
(there is a thread), `SizeAssumption` (at least one slot), `FillAssumption` (the ring is
first filled with distinct items, as many as fit at most, which is what `audio.c` does with
its pools) and `SentinelAssumption` (neither the claim mark nor an unused slot is an item).

Conservation is not inductive.  A producer reads the slot, claims it by its *content*
and only then tries to advance the pointer; that it never covers a live item, and that
a losing producer puts back what belongs there, needs more.  The parts of `IInv`:

1. `PointersInv`: 0 <= writePointer - readPointer <= Size.
2. `SnapshotInv`: a loaded pointer is never ahead of the pointer itself; after the
   fullness test the two snapshots are less than Size apart; after the emptiness test
   the read snapshot is below the write pointer.
3. `ClaimInv`: a slot holds Null if and only if exactly one producer claims it.
4. `TicketInv`: a producer about to store has a ticket between the pointers; one about
   to undo has lost the race for its ticket; both still hold their item.
5. `StoredInv`: a consumer that read an item and is about to advance does not look at a
   ticket that is still to be stored.
6. `ContentInv`: each ticket between the pointers stands for an item, and a consumer
   whose snapshot is still the read pointer has read the item of that ticket.

The proof has one lemma per group of actions that disturb the same parts: `InvLocal`
(loads and calls), `InvClaim`, `InvRelease` (store and undo), `InvAdvance`,
`InvDeqAdvance`.  The refinement maps the FIFO's content to the slots of the tickets
between the pointers, with the claimant's item in place of a claim mark: a put takes
effect when the write pointer advances, a get when the read pointer does
(`PutStep`, `GetStep`, `RefinementStep`).

### The queue

`TakeTurns` is how `audio.c` uses its queues: the fill thread, or the callback, puts; the
callback, or the flush thread, takes with `lfqueue_single_deq`; and `Audio_stop` empties a
queue when those threads have ended, as `StoppedIsQuiet` shows for calls made in turn.
It speaks of the calls under way, so the consumer
may change between calls.  It is a hypothesis about every state (`Spec /\ []TakeTurns`), and
`QueueTurns` shows that fixed roles fulfil it.  Without it the properties are false: section 5.

`ChainInv` is inductive neither alone nor with `NodesConserved`.  `QueueIInv` adds:

1. `ThreadOK`: what a thread in a call knows at each step.  A producer that looked at `tail`
   finds it there when it links, since no other producer moves it and the consumer leaves a
   node only when `tail` has passed it; a consumer that looked at `head` finds it there.
2. `NodesApart`, `NodesCovered`: a node is in one chain, the pool, the end of one recycle list
   or the hand of one thread (`NodesConserved` counts; the proof does not).
3. `NothingRecycled`: `lfqueue_single_deq` does not touch the recycle list.

One lemma per group of actions follows; a chain grows at its end (`Longer`) and shrinks at its
front (`Shorter`).  A put of `Channels` takes effect at the compare-and-swap that links the
node, a get at the one that moves `head`.  For `size`, which is changed a step later,
`SizeRight` adds the calls that are between the two steps, and `unlinked`: a failed allocation
that returns `errno = 0` makes `lfqueue_enq` count a put that was none, and the size of that
queue is one too many from then on.  `errno` is 0 where nothing has set it, and the allocator
of `audio.c` does not.

### The recycle list

`OneTaker` has three parts.  The test function is `one_enq_and_multi_deq`, in which main puts
and the workers take with `lfqueue_deq`.  There is one worker: with more than one thread that
recycles, the list goes wrong (`queue_multi`).  And `MaxCall <= Grace`: no call lasts longer
than the two seconds of line 197, which is what any such scheme takes for granted.
`TestAssumption` adds that nodes are finitely many, for they are memory.  How many, how many
values and turns, what `errno` says, how wide `size_t` is and how often the test is run is
open.  In the run `queue_test` the one worker of `multi_enq_deq` and main's
`lfqueue_single_deq` are checked as well.

The queue's `ThreadOK` does not hold here: nodes leave the queue for the recycle list and come
back while the producer is in one call.  `ListsIInv` replaces it, for any set of producers
(`Putters`) and one thread that takes (`Taker`):

1. `Seen`: the node a producer is about to do its compare-and-swap on is in the
   queue, where the swap succeeds only at the last one; or it has left the queue, and then it has a
   successor, so that the swap fails, and it cannot be freed and used again before the call ends: the
   taker is about to recycle it, or it was recycled since the call began, so its age is at most the
   call's, which is at most `Grace`.
2. `ChainOK`, `ListOK`: the shape of the two lists, where `tail` lags behind its end between
   `e_link` and `e_swing` (`TailBehind`), and `move_free` behind its own (`MoveBehind`).
3. `FreeModeOK`: one thread at a time frees, and it holds the first node of the list.
4. `ApartOK`, `CoveredOK`: every node is in the queue, the recycle list, the pool, the hand of
   one producer or the hand of the taker.
5. `ConsumerOK`, `RecyclerOK`: the taker finds `head` and `move_free` where it looked.

There is one lemma per action of a thread, one for `Tick` and one for the test's own steps.
That each test ends with an empty queue is a matter of counting.  `CountsOK`: `size` is
the taker's turns to come less the producers' (`Turns`, a finite set of pairs whose cardinality
falls by one with each turn), modulo `Word`; and the queue holds no more than that
difference and the puts that are linked but not counted (`Uncounted`, which also has the
failed puts that will be).  When all turns are done both are 0.  `DestroyComplete` rests on
`ListWalked`: the loop of `lfqueue_destroy` comes past each node of the list in its order,
and stops at `move_free`, not earlier.  `RecyclingRefinement` is the queue's refinement once
more, with the same two lemmas for the swap that links a node (`AppendSends`) and the one
that leaves one (`LeaveReceives`); that recycling, freeing and time leave the channel alone
is what `Seen` is needed for.

TLC agrees with `TestIInv` on the instance of `queue_test` with this test function alone and
`errno` 12 or 0 (223,627 states).

### The audio engine

`BuffersUnshared` needs only the module's own assumptions: the buffers are finitely many
and differ from silence and null.  `NoBufferShared` counts places, and the proof does not:

1. `Apart(b)`: a buffer is at one index at most of the pool, of each queue and of the hands
   of each kind of thread (`Once`), and in one of these, or the callback's hand, only.
   A buffer moves in three ways (`Taken`, `Put`, `Handed`); eleven actions move one, and
   the others move none (`Movers`).
2. `Asleep`: `Audio_init` fills the pool anew, which would double any buffer in use.  It
   does not, because until then no call has passed the test of line 264 (`Untouched`), and
   after `Audio_teardown` the thread that called it is gone.

`AudioCorrect` adds where the buffers are, and needs no hypothesis either.  What is taken from
one place is put in another or, when a ring is full, or looks full, or no node is found, is
`lost`, and a lost buffer is in no place.  That nothing else disappears is because of

3. `HandsOK`: at each step a thread either has a buffer in hand or has nothing that the next
   one would overwrite; for a new thread `NumberLeft`: the number it gets was not used.

and so `KeptOK`, each buffer is somewhere or lost, for as long as the process lives; `AudioInv`
says it until the constant `totalSilence` is in the pool (it does get there:
`audio_silence`).  `EngineIInv` is `BuffersIInv`, types, `NumberLeft` and `HandsOK`.

The theorems about calls need the hypothesis `CalledInOrder`: one thread makes the calls,
`Audio_init` has run, and PortAudio does not fail.  `audio_overtaken` shows what two callers break; the
other two leave `started` set when `Audio_start` returns early.  `CallerIInv` is a table:
the step the caller is about to do, with `started` between calls, says which worker lives
and in which handle (`FillsOK`, `FlushesOK`), whether the stream is running, open or closed
(`StreamOK`), when the callback may be inside (`CallbackOK`) and when the queues are empty
(`QueuesOK`).  That a new thread gets a number of its own rests on threads being numbered
as they come, at most one of a kind for a call of `Audio_start` (`FillsNumbered`,
`FlushesNumbered`).  TLC agreed with the table for three sessions before it was proved.

`OneSession` speaks of the time in which `Audio_start` has a frame to wait for: once the size of
the playback queue counts `MinPlayback` frames that were lost it waits no more, and nothing keeps
it from creating a second thread.  It holds for two callers as well: `PairIsSingle` has one thread for
`Audio_start` and one for `Audio_stop`, which overlap as they like (`OnePair`; also
`MinPlayback > 0`, which is 20 in `audio.h:18`, and nobody tears down).  A stop can pass its
join on the old handle just when a start stores a new one.  The argument of `PairIInv`:

1. Only the thread of the handle works (`AliveOK`).
2. A start that has passed the test of `started`, but has no thread yet, finds an empty
   playback queue (`EmptyOK`).
3. If the thread is created under a stop that is past the join, `stopPlayback` is set
   (`TellOK`), the thread has put no frame yet, and it ends at its next test.  `Audio_start`
   then waits for frames that do not come (section 5), so it creates no other.

### The phone

Assumptions: a natural number of connections, and main and server are neither each other
nor a number.  That no dial thread is left while the server has a caller depends on the
server joining the right one.  `PhoneIInv` adds to the three properties:

1. `MainOrder`: what main has started, and joined, by each of its steps.
2. `Numbered`, `LinesInOrder`: dial threads exist up to the number in the handle; each
   but the first came after a connection, so the next number is always there.
3. `Suspension`: a suspended service has only cancelled threads; the server finds it not
   suspended; once past its join, the server finds none.
4. `Conns`: a connection is on one stack only, is begun once, and is shut down before it
   is let go; for `CallsAreHandled`.

There is one lemma per action, with a step per part of the invariant.  The steps that
touch only a call thread or the peer share `CallsKeep`.

### Call set-up

Assumptions: `SetupAssumption` (two phones with addresses of their own, silence of a frame at
least, wires that hold a frame at least) and `BookAssumption`.  That the frames under way are in order
depends on which thread may send next, and that on the answer and on who has closed.
`SetupIInv` says it step by step:

1. `WireOK`: the wire is in order, and holds nothing that belongs to a step of the set-up that
   the sender's handler, or its call thread, has not reached.
2. `StepOK`: counters of sound and silence, the call thread, the audio and the connection's end
   at each step of the handler.
3. `AnswerOK`: the caller is past the handshake only after a yes, or when the callee has closed
   without an answer, which the code takes for one.
4. `LookupOK`: the address under way is the one that was dialled; the name shown belongs to the
   caller's address.  The last needs the names to be unique, and that a search from the front
   finds the first entry of a name (`LookupFinds`, which rests on the order of the naturals
   being well-founded).

### The parts of the board

`Board_proofs` holds the proofs of all parts, the call set-up among them.  No part reads
another's variables, so the invariant of the whole, `BoardIInv`, is the conjunction of theirs,
and a step of the board is a step of one part while the others rest (`PartsStep`).

* Legacy ring, `RingFollows`: `count`, `full`, `tail` and the slots from `head` on agree with the
  sequence the calls should have left, until `dequeueN` has gone wrong (`drifted`).
* Prototype, `OneSpot`: the eight places that can hold a buffer hold it once altogether, and at
  one index of a queue; the callback holds one only at the steps that let go of it.
* Ring test, `NumbersOnce`: a producer's numbers are of its residue class, so each number is put
  once and is once in the ring, and never after a consumer has seen it.

### Transport, mixer, keypad, lamps

* `DatagramInv`, a part of `BoardIInv` like the others: the bytes under way, with what
  the receiver has and without what the
  sender has sent of its frame, are whole frames (`SenderInStep`); a byte that lies at a
  whole number of frames from where the receiver's frame began is the first of its frame
  (`Aligned`); an error of `recv` comes only at the end of the stream.  `FramesInStep` does
  not need the rest of a split frame to be sent right, which it is not: see section 5.
* `MixerIInv`: the order in which main sees threads end (`ShutdownOrder`), and which half of
  a figure is in the registers at each step of the writer (`FigureWritten`).
* `KeypadInv`: as long as `stop` is not set the number is not complete, and within one scan
  there is at most one digit per pin passed (`Counted`); a key that typed is the one under
  the scan, or the number is complete (`HeldKeys`).
* `LedsInv`: a blink thread exists only while blinking is on or its end is awaited, and the
  handle names it.

### Only model-checked

* Every liveness property, which is out of the prover's reach: `SomeCallReturns`,
  `AudioReturns`, `OneWireSuffices`, `HangUpSeen`, `ReceiveReturns`, `KnobRules`,
  `BoardReturns`, `ConsumersExit`, and those of the queue's test and the phone.
* The recycle list with several threads that take is not proved because it is wrong there:
  `queue_multi`.  The test functions other than `one_enq_and_multi_deq`, for one worker.
* `StoppedMeansQuiet`, `JoinsValid`, `StartedMeansOn` for more callers than
  one: `StartedMeansOn` is false there (`audio_overtaken`), the others are not claimed.

## 5. Where the code and its comments differ, and what else was seen

Shown by a run:

* `queue_multi`: the test `multi_enq_deq` of `main_lfqueue.c` does not always end.  The
  grace period of the recycle list runs from a node's deactivation, not from when the
  last thread let go of it; a worker that holds the end of the list can see it freed
  and used again, and then looks for the end of the list for ever.  The phone does not
  use `lfqueue_deq`.
* `audio_silence`: `clearAllQueues` does what `audio.c:504` forbids.
* `audio_overtaken`: hanging up while `Audio_start` ends leaves `started` set over a
  closed stream; later calls have no sound.
* `datagram_split`: after one partial send `sendDatagram` never returns.
* `setup_deadlock`: both phones send the start-up sound before either receives; where the
  wire holds less than that in both directions both are in `send` for ever, and neither
  user gets as far as "Press 'Ctrl-D' to hang up" (`main_pretty.c:173`).

Seen while modelling, without a run:

* `bufferFree` (`audio.c:582`) ends the process on a refusal "that shouldn't happen"; with
  three threads inside the pool the ring may refuse although it has room: the two loads
  of its fullness test are not one.  TLC finds it in `LFRingBuffer` with three threads; in
  `Audio` it is the end of the process.
* `worker_single_c` of `main_lfqueue.c` uses `lfqueue_single_deq` with many producers: the
  consumer frees the old head while a producer may still hold it as its tail, and the tail
  can come to rest on a node that is used again.  With one producer per queue, as in the
  phone, it cannot (`NoStaleAccess`).  That is why `queue_test` has one worker.
* `audio.h:51` says `Audio_start` returns `AUDIO_NOT_INITIALIZED` before `Audio_init`;
  it sets `started` first (line 260), so the second try returns
  `AUDIO_ALREADY_STARTED`.  In the same way a start that fails to open the stream
  leaves `started` set, and the next `Audio_stop` joins threads that were never
  created, against `audio.h:59`.
* `bufferPlaybackQueue` (`audio.c:367`) waits for `MIN_PLAYBACK_QUEUE_LENGTH` frames; if the
  peer hangs up before it has sent them, `Audio_start` spins for ever.  `StartReturns`
  names that case.  It is the same when so many buffers have been lost that the rest do
  not fill the queue (`EnoughLeft`).
* `call.c:110` assumes that audio is started twice only when the phone calls itself.
  It is also started twice when a call comes in during a call (the dial thread is
  cancelled without hanging up), and when a call is hung up before its call thread
  has started the audio.  And a phone that calls itself does not get so far: the
  server cancels the dial thread while that waits for the handshake.
* `call.c:44-49` does not look at what `recv` returned: the connection of an unknown caller,
  which the server closes without an answer, passes for acceptance.
  `FramesOnlyAfterYes` names that case.
* `call.c:172, 193` add a number of bytes to a pointer to samples: the rest of a split frame
  comes from, and goes to, twice its offset, past the end of the buffer.
* A send after the shutdown of the connection raises SIGPIPE, which nothing ignores
  (`sigpipe` in `Datagram`, `killed` in `CallSetup`).
* `dialservice.h` says that `DialService_stop` shuts the dial thread down; if SIGINT
  finds the server in the join of `DialService_suspend`, the dial thread has been
  cancelled and nobody waits for its end.  `StoppedMeansCancelled` states what is left.
* `DialService_resume` (`dialservice.c:93`) waits for the user to end a line before the
  server accepts the next call, and starts a thread that reads names even if the first one
  read the keypad.
* `keypad.c`: `KEYPAD_getDial` may collect `DIAL_LENGTH - 1` digits and one per remaining pin,
  and copies them to room for 15 characters with their terminator (lines 162-172); it
  builds them with `sprintf` from its own argument (146).  The "-1" for an empty number
  (169) is overwritten by the next line.  A cancelled scan leaves the static `stop` as it
  is: the next call may find it set and return an empty number at once.
* `lfqueue.c:157` returns `errno` on failure, which may be 0, that is, success, and is when
  the pool of `audio.c` is the allocator (`unlinked` in `LFQueue`, `Reported` in `Audio`); line 154
  and line 250 do not look at what their allocations return.
* `lfringbuffer.c:2` calls the ring lock-free; a producer that stops between its claim
  and its store makes every consumer come back empty-handed, and every producer wait
  (line 33 onwards).
* `ringbuffer.c` says that `RingBuffer_dequeueN` does not work; `WorksForAllOnly` says when
  it does.
* `volume_mixer.c`: the volume that the program starts from, 0, is never set in the mixer,
  since line 104 finds it unchanged (`MixerInStep`, `KnobRules` name the case).  A comment
  says that the display takes the last two digits of a number; the code caps it at 99.
  `stoppingVolume`, `stoppingI2C` and `currentVolume` are plain variables; the Makefile
  builds with `-g` and no optimisation, so each access is in the program.
* `src/src/driver/` holds an older `call.c` whose interface no program uses any more.

Hazards that no property covers: the wrap of the ring's pointers at `INT_MAX` (section 7); the
`Connection` on a handler's stack that outlives the handler in the call thread
(`main_pretty.c:81`); the cancellation points inside `Audio_stop` (`audio.c:319`); two threads
in `Audio_start` between lines 253 and 260, which TLC finds with two starters to give two
producers; `callbackData` cleared after another thread has set it (`audio.c:348`); and those that
are modelled, and that a property could only restate or has to except: `audio.c:582`,
`call.c:44`, `call.c:67`, `call.c:193`, `dialservice.c:62` and `i2c.c:173`, where a digit is
lit before its registers are written.  `PROJECT.json` has a note for each.

## 6. What is not modelled

`PROJECT.json` gives every part its reason.  In short: the send buffer, an unfinished
wrapper nobody uses; the UDP helpers of an early prototype; the pink noise generator;
demo and latency programs that try out one library or device; the headers of PortAudio.
Inside the modelled parts: file and device I/O, sample arithmetic, texts, and PortAudio,
ALSA and TCP beyond what the code sees of them.  Where a file or device cannot be opened
the process exits at once, and that is left out.

Memory is sequentially consistent: the shared accesses of the ring are `__atomic`
operations with `SEQ_CST` or accesses of one aligned word, the writes of the queue that
race are `__sync` operations, full barriers, and its other accesses load or store one
word; reordering of those by compiler or processor is not modelled.  The flags of
`audio.c` and of the services are plain variables, read and written whole.

## 7. What is left

1. The phone with the audio's workers and the connection on the handler's stack: who
   refers to a dead stack, and the cancellation points inside `Audio_stop`.
2. The ring with pointers of a few bits, to see what the wrap at `INT_MAX` does.
