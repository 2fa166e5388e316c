# Formal models of Spr_wk (the Spresense security camera)

This directory holds TLA+ models of the programs this repository adds to the
Spresense SDK, the TLC configurations that check them on small instances, and
TLAPS proofs of the properties that matter most for every value of the
constants.

## 1. Inventory

The repository is a working tree of the NuttX `apps` directory with a few
programs of its own. The tree under `src/apps` outside `examples` (nshlib,
netutils, fsutils, platform, system, ...), `examples/camera` and the object and
binary files are vendored and are not modelled.

### security_camera (`src/apps/examples/security_camera`)

The program captures JPEG frames from the camera and sends them, packed in
MJPEG packets, to a host PC over USB CDC.

| part | state | operations | interacts with |
|---|---|---|---|
| `frame_queue.c` | two intrusive linked lists `g_empty_queue`, `g_action_queue`; the buffer pool; `g_queue_mutex`, `g_queue_cond`, `g_shutdown_requested` | init, cleanup, push, pull, is_empty, depth, allocate, free | both worker threads, main, the signal handler |
| `camera_threads.c` | the local `buffer` and `error_count` of each thread; metrics counters `g_total_*`, `g_metrics_sequence`, `g_last_metrics_time` | camera_thread_func, usb_thread_func, camera_threads_init, camera_threads_cleanup, send_metrics_packet | frame_queue, camera_manager, mjpeg_protocol, usb_transport |
| `camera_app_main.c` | `g_running`; locals of the sequential loop | main (start-up, monitor loop, sequential loop, cleanup), signal_handler | everything |
| `camera_manager.c` | `g_camera_mgr`: the device, up to three V4L2 buffers, `initialized` | init, get_frame, cleanup | the V4L2 driver |
| `usb_transport.c` | `g_usb_transport`: fd, `connected`, `bytes_sent` | init, wait_connection, send, send_bytes, is_connected, cleanup | the CDC-ACM driver |
| `mjpeg_protocol.c` | none; `*sequence` belongs to the caller | crc16, validate_jpeg, pack_frame, validate_header, pack_metrics | the two loops |
| `perf_logger.c` | window statistics | init, record_frame, print_stats, cleanup | the sequential loop |
| `protocol_handler.c`, `encoder_manager.c`, `usb_test.c` | legacy H.264 path and a manual test | | not reached from `main` |

Behaviours that are hard: three threads and a signal handler share one mutex,
one condition variable and an unprotected flag; buffers move between two queues
and the threads on every success and error path; threads are stopped by
themselves, by main or by a signal, and what they use is freed afterwards;
device writes may be partial, may fail, or may block.

What makes each part correct:

- *queues and threads*: no buffer is lost, shared or freed in use; no thread
  sleeps while it has something to do; packets reach the wire in capture order;
  every shutdown request ends the program; the camera thread is not starved.
- *usb_transport*: the result of a send says what reached the wire; a lost
  device stops the system; whole packets follow one another.
- *metrics*: a packet is sent about once a second; the numbers reported are
  numbers the pipeline really had.
- *camera_manager*: a frame is not overwritten while it is being packed; init
  failure and cleanup release what was acquired.
- *mjpeg_protocol*: the packet holds the JPEG up to its last EOI marker, the
  sequence number advances exactly with the packets produced.
- *sequential loop*: it stops after 90 frames, on a signal, and after ten
  consecutive errors; its statistics count every frame once.

### Other programs

`asmpApp`/`myasmp_worker` (a two-core example: one message, one reply),
`bmi160_orientation` (a sensor filter), `aps00_sandbox` (SDK templates), and the
shell task queue of `docs/claude_queue` (`queue_manager_v2.sh`: a lock file,
priorities, dependencies, retries; a user may mark a task as complete and reset
the history while a manager runs).

## 2. Plan

The order puts the threaded mode first: it is what `main` runs.  Done:

1. `FramePipeline`, `FrameChannel`, `FramePipelineRefinement`,
   `FramePipelineProofs`: threaded mode, the abstract channel it implements, the
   proofs of its safety.
2. `UsbTransport`: the retry loop around `write` and the errors its caller
   tells apart; it implements `FrameChannel` too.
3. `FrameQueueList`, `BufferQueues`: the linked lists at the level of `next`
   pointers implement the sequences of `FramePipeline`, with the metrics sampler
   that walks a list without the mutex.
4. `SequentialLoop`, `SequentialLoopProofs`: start-up and release of resources,
   the fallback loop, the proofs of its safety.
5. `CameraManager`: the V4L2 ring and the error count of the thread that uses it.
6. `MjpegProtocol`, `Crc16`: packets as bytes, against reference definitions.
7. `TaskQueue`: the shell task queue with its lock file, its managers and the
   commands of the user.
8. `FramePipeline` again: the command run a second time in the same memory.
9. `Metrics`: the timer, the counters and the packet of `send_metrics_packet`.
10. `PerfLogger`, composed with `SequentialLoop`; its proofs are with the loop's.
11. Proofs of the other components' safety: `MetricsProofs`,
    `CameraManagerProofs`, `UsbTransportProofs`, `FrameQueueListProofs`,
    `TaskQueueProofs`.
12. `FramePipelineProofs` again: the threaded pipeline implements
    `FrameChannel`, for any number of buffers; the order on the wire follows.
13. `MjpegProtocolProofs`: packets are read back as they were packed, for any
    checksum of 16 bits and any size. `MjpegProtocol` takes the checksum as a
    parameter; `MCMjpegProtocol` gives it `Crc16`.
14. `FramePipelineProofs` and `SequentialLoopProofs` again: the queues of the
    pipeline are the ones the linked lists implement; no run of failed sends ends
    the sequential loop.
15. `Crc16` on the bits of the register, and the proof in `MjpegProtocolProofs`
    that it is the remainder it should be, for every message.

Every safety property the runs check and the code satisfies now has a theorem;
section 6 says what stays with TLC and why.

## 3. Modules

`Metrics` brings out what the timer does: seconds and nanoseconds are subtracted
apart and a negative difference of nanoseconds becomes huge, so the test
`elapsed_ms >= 1000` is true exactly when the second of the clock is another one
than at the last packet. `NeverLate` and `OncePerClockSecond` are the two halves
of that.

An `MC` module only extends the module it checks (for `TaskQueue` it also defines
the tables of a small task list, for `MjpegProtocol` the messages on which the
code's checksum is compared with its definition); the configurations give the constants values.
Definitions that no action refers to are faulty variants of the definition that
follows them (`PushAtHead` before `frame_queue_push`): each property of a passing
run is violated when one of them takes the place of the original, so each
property really depends on the code it is about.

| module | code | state and actions |
|---|---|---|
| `FramePipeline` | `camera_threads.c`, `frame_queue.c`, threaded part of `camera_app_main.c` | one `pc` per thread; the mutex with its owner, the condition variable with its waiters; the two queues as sequences of buffers; `held` is the local variable `buffer`. Each critical section is one action, taken while its thread owns the mutex; acquiring is an action of its own. Each device call is one action per outcome. `main` is modelled from `camera_threads_init` to the end of `camera_threads_cleanup`, with every failure of the initialisation; `Relaunch` runs the command again with what its static variables hold by then. The handler is a second control flow on the main thread, which stands still until it returns. |
| `FrameChannel` | the two worker loops, abstractly | a bounded channel that may lose frames, and starts again when it is empty |
| `FramePipelineRefinement` | | the mapping: `sequence`, the packets in flight (USB thread, action queue, camera thread), `sent` |
| `UsbTransport` | `usb_transport.c`, its caller in `usb_thread_func` | each `write` is one action per outcome; the wire is the sequence of accepted units |
| `FrameQueueList` | `frame_queue_push`, `frame_queue_pull`, `frame_queue_depth` | heads, `next` pointers, one memory access per action; the walk of `send_metrics_packet` between them |
| `BufferQueues` | the same two functions, abstractly | two FIFO queues |
| `Metrics` | `send_metrics_packet`, `get_uptime_ms`, the timer in `camera_thread_func`, the counters of both threads | a clock in ticks, seconds and the rest of them subtracted apart as in the code; each access to a counter of the other thread is one action, the 64-bit byte count is two words; a second launch keeps the counters |
| `SequentialLoop` | `main` without threads | resources as a set; one action per outcome of each call in the loop; the handler as in `FramePipeline`, except that the mutex it locks never exists here, or no longer, and its lock returns or blocks for ever |
| `PerfLogger` | `perf_logger.c`, called by that loop | the composition: `LoggedNext` is the next-state relation of `SequentialLoop` with the calls of the logger in it; window, totals and what was printed |
| `CameraManager` | `camera_manager.c`, composed with the camera thread that reads the frame and counts errors | one action per ioctl outcome, the refused `VIDIOC_STREAMOFF` that the clean-up does not notice among them; the driver is external |
| `MjpegProtocol` | `mjpeg_validate_jpeg_data`, `mjpeg_pack_frame`, `mjpeg_validate_header` | calls on one packet buffer of bytes that keeps its old contents; the checksum is a parameter |
| `Crc16` | `mjpeg_crc16_ccitt` | the `uint16_t` register as its sixteen bits, the highest first: a shift drops the first one, and a byte is added to the first eight; and the division of polynomials over bits that defines the result |
| `TaskQueue` | `run`, `complete`, `reset` of `queue_manager_v2.sh` | one action per command that reads or writes a shared file; the user's commands interleave with the managers', since they do not look at the lock; an update of the CSV is three steps (the shell empties the temporary file, awk reads and writes, `mv` renames), and `out` follows the file a shell has opened when another process renames it |

What is abstracted: logging, timestamps and delays; the contents of frames
outside `MjpegProtocol` (a packet is its sequence number); buffer sizes; the
configuration of the camera (one outcome stands for every ioctl before
`VIDIOC_REQBUFS`). The numbers of errors and frames are constants, with the
values of the code in the comments. `PerfLogger` counts bytes in packets and leaves
out latencies and intervals, which only pass through; whether the clock has moved
since the window began is a choice.

External behaviour, taken from how the code uses it and from its configuration:

- `g_queue_mutex` is a normal mutex: a thread that locks it twice waits for
  itself (`apps/examples/aps00_sandbox/kernel.config:382-383`,
  `CONFIG_PTHREAD_MUTEX_TYPES` is not set). Locking a mutex that is not
  initialised, or is destroyed, is undefined: it returns or blocks forever.
  A condition wait may return without a signal; a woken thread takes the mutex
  again before it goes on, and `pthread_cond_signal` wakes any one waiter.
- A signal may arrive at any moment and its handler runs on the main thread.
- `write` accepts any part of the data, nothing, or fails; after the cable is
  pulled out it accepts nothing more. It always returns. `poll` returns after
  one second at the latest.
- The driver in RING mode fills the queued buffers in order; when none is queued
  it overwrites the oldest frame nobody took. Every ioctl may fail; a driver that
  refuses `VIDIOC_STREAMOFF` goes on capturing until the device is closed.
- The program is part of a flat build (`kernel.config:14`, `CONFIG_BUILD_FLAT=y`):
  a command that is run again finds the static variables as it left them.
- `CLOCK_MONOTONIC` never goes back. A 64-bit number is written and read as two
  words, on a 32-bit core without a mutex.
- The executor of a task succeeds, fails or reports an exceeded quota. The
  process id in a lock file left behind does not belong to another process.

## 4. Runs

| run | what it asks | bounds |
|---|---|---|
| `safety` | `BufferConservation`: every buffer is in exactly one place. `NoLostWakeup`: no thread sleeps over work it could do or over a shutdown. `WireInOrder`: packets are sent in the order of their numbers, each once. `NoUseAfterFree`, `CleanExit`: pool and mutex outlive their users and are released at the end. `IInv`: the inductive invariant of the proofs. `ImplementsChannel`: the refinement. | 2 buffers, 3 frames, error limits 2, two launches, one signal in each at any instant |
| `liveness` | `ShutdownCompletes`, `SignalStops`, `PacketsMove`, `CameraGetsBuffer` | 2 buffers, 2 frames, one signal, which does not arrive in a critical section of main or while there is no mutex |
| `signal` | `SignalStops` without the second restriction: violated | 1 buffer, 1 frame |
| `relaunch` | `RunsUntilStopped` when the command is run again: violated | 1 buffer, 1 frame, two launches |
| `send` | `NoGapOnWire`, `ResultIsTrue`, `ImplementsChannel`, `UnplugStops` | packets of 4 units, 3 writes per send, 2 attempts to open, error limit 2 |
| `lists` | `ImplementsQueues`, `DepthInRange` | 3 buffers |
| `metrics` | `NeverLate`: after each look at the timer less than a second has passed since the last packet. `OncePerClockSecond`: and no two packets are sent in one second of the clock. `PacketsWereCaptured`: no report claims more packets than frames. | a second of 3 ticks, 8 ticks from any phase, 3 frames, two launches |
| `loop` | `ReleasedAtExit`, `SequenceCountsPackets`, `WireInOrder`, `CameraErrorsStop`; `SignalStops`, `LoopEnds`: a signal, the count of frames or the errors end the program, or the handler blocks for ever in the lock; `StatsMatchWire`: every frame is in one window of the statistics, and the windows add up to the wire | 4 frames, error limit 3, 1 packet numbered before the fallback, windows of 2 frames, two signals at any instant |
| `ring` | `DriverWritesLiveMemory`: the driver owns only allocated memory, but for the gap between the free and the close after it has refused to stop. `OneOwner`, `ReleasedAtEnd`; `FramesOrStop`: while a buffer is left to the camera, the thread gets a frame or stops | 3 buffers, any number granted, error limit 3, captures without end, numbered modulo 4 |
| `pack` | `RoundTrip`: what a receiver reads is the JPEG without padding with the right number and checksum, and what is rejected has no JPEG. `CrcIsRemainder`: the checksum is the remainder that defines it | all frames of up to 7 bytes of the three marker bytes, size limit 6, counter with two values, the checksum of `Crc16`; messages of up to 4 bytes of six values |
| `one` | `DependenciesFirst`, `DoneOnce`, `RetriesBounded`; `TasksFinish`: every task is settled in the end, and for good | one manager at a time, 3 tasks (one depends on another, one repeats), 2 retries, one kill and one command of the user at any step |
| `exclusion` | `MutualExclusion`: violated | two managers |

Why the bounds are enough. The code has three buffers; two are the fewest with
which both threads hold one and with which the queue can keep an order, three
frames use one of them a second time, and the proofs of section 6 hold for any
number of buffers and frames. The second launch meets everything the first one
can leave behind, and captures as many frames again. An error limit
of 2 has the three cases of any limit: no error, some, the last. One signal
in each launch exercises the handler at every point; another one finds
`g_running` already false. The second signal of `loop` meets a handler that has
returned from its lock once. Packets of 4 units with 3 writes can be complete in one, two or three
writes or never. Frames of 7 bytes over a limit of 6 hold two markers with
padding between and behind them, a marker at either end, an overlap of `FF`
bytes and sizes one below, at and above the limits. Captures in `ring` never end; a number
modulo 4 tells the frames in 3 buffers apart. A second of 3
ticks has differences of both signs, and 8 ticks reach the third second from any
phase; longer seconds only add differences of the same signs. Windows of 2 frames
end inside the loop, at its end, and early at the clean-up. The messages of
`CrcIsRemainder` start the
register's top bit in both values and carry bytes with the first, last, no and
all bits set. One kill and one command in `one` are
what the bounds in `DoneOnce` and `RetriesBounded` count, and show what a kill
leaves behind and which updates a command can undo; a repeating task is
due a bounded number of times, which stands for the assumption that managers are
started more often than repeating tasks come due: a repeating task that is due
at every start may keep the others waiting for ever.

`CHECK_DEADLOCK FALSE` is set where the modelled system really may stop: a
handler that locks its own mutex, a clock at its bound.

## 5. Fairness

`FairSpec` of `FramePipeline` asks weak fairness of each thread (the scheduler
runs every thread that can run: the threads sleep 33 ms per frame, and device
calls return; that the command is run again is not asked) and strong fairness of taking the mutex, because a NuttX mutex is
a semaphore that hands over to a waiting thread, and no thread keeps it while it
blocks. Nothing is asked of the devices or of signals: `PacketsMove` and
`CameraGetsBuffer` hold whether devices fail or not. `UsbTransport` asks weak
fairness of its one thread, `SequentialLoop` of main and of the handler; that the
handler's lock returns is not asked, so its liveness properties name the handler
that blocks for ever as a third outcome, and no signal is excluded. `CameraManager` asks that
the camera captures as long as it has a buffer, and that the thread goes on once a
frame is there or a call has begun; while it waits for a frame it may time out for
ever. `TaskQueue` asks that
cron starts managers again, that a started manager and a command of the user that
has begun go on, that time passes,
and that a task that is executed again and again does not meet an exceeded quota
every time.

## 6. Proofs

`FramePipelineProofs` proves, for any number of buffers and any limits:
`TypeCorrect`, `BuffersConserved`, `WakeupsNotLost`, `NothingFreedInUse`,
`ExitsClean` and `Invariance`. None of the properties is inductive alone. The
invariant `IInv` of `FramePipeline` adds:

- `MutexInv`: who owns the mutex stands at a point where it may own it, and a
  mutex that does not exist has no owner;
- `WaitInv`: the waiters are the workers at `wait`; a worker sleeps only while
  its queue has been emptied since, or another wake-up is under way, and never
  after a shutdown;
- `LifeInv`: what main's position says about the workers, the pool and the
  mutex: it is what makes freeing safe, since both workers have exited before
  main gets there;
- `HeldInv`: a worker holds a buffer exactly at the points between pull and
  push;
- `FlowInv`: every buffer is in one place, and each place holds it once.

Each part has a lemma with one step per action (`MutexStep`, `WaitStep`, ...).
The lemmas on pushing and pulling (`PushMoves`, `PullMoves`) say how a buffer
changes place. `WakeupsNotLost` combines `WaitInv` with `FlowInv`: both threads
cannot sleep together, since then every buffer would be in a queue, and both
queues would be empty.

`SequentialLoopProofs` proves `Released`, `NumbersCountPackets`,
`NumbersInOrder` and `CameraErrorsBounded` from an invariant of its own, which
adds what each position has acquired and that the camera's failures in a row
never exceed `error_count`. `UsbErrorsNeverStop` is the proof of the row
`UsbErrorsStop` in section 8, for any limit above one: a captured frame has reset
the count (`FreshCount`), so a failed send is always error number one and the loop
goes on (`SendErrorsForgotten`).

It also proves, for the composition of the loop with its logger (`PerfLogger`),
`LoggingIsPassive` (it implements the loop alone: each of its steps is a step of
the loop or leaves it where it is), so that `IInv` of the loop holds of it too,
and with it `WindowsMatchWire`: `StatsMatchWire` together with the types of the
statistics is inductive, since a frame recorded adds to the window what `Send`
adds to the wire (`RecordAdds`), and printing moves a window's counts to the
printed ones or leaves them (`PrintMoves`).

A second launch of `FramePipeline` changes nothing in the argument: what
`Relaunch` finds (no thread, no pool, no mutex, empty hands) is what `IInv` says
of a start, except `g_running`, of which it says nothing.

`FramePipelineProofs` also proves `Refinement`, that every behaviour of the
pipeline is one of `FrameChannel` (`ImplementsChannel`), and `OrderHolds`
(`WireInOrder`). The packets in flight are three sequences one after the other:
what the USB thread sends, the action queue, what the camera thread publishes.
Each step is of one of these kinds:

- `Quiet`: nothing of the three changes (all steps of main, of the handler, of
  the mutex and of the empty queue);
- `TakeStep`, `PublishStep`: a packet passes from one of the three to the next,
  and their concatenation stays the same;
- `PackStep`: the channel accepts. It must not be full: while the camera thread
  has a buffer in hand, the queue and the USB thread hold fewer than all
  (`RoomForOne`, by counting, from `FlowInv`);
- `SentStep`, `LoseStep`: the first packet leaves, on the wire or lost;
- `DiscardStep`, `ReopenStep`: the queues are emptied at the start and the end,
  when by `LifeInv` no thread has anything in hand.

Order is then a matter of the channel alone: `ChannelKeepsOrder` shows that
delivered and pending packets, one after the other, increase and stay below the
next number in every step of `FrameChannel`, and `OrderHolds` combines the two.

`BuffersCirculate` (`CirculateAsQueues`) connects the pipeline with
`FrameQueueList`: `FillEmptyQueue` establishes the initial state of
`BufferQueues`, and from there until the queues are reset every step of all
threads and the handler is one pull or push of `BufferQueues` or leaves queues and
hands alone. `QueueRefinement` says that the linked lists implement
`BufferQueues`, one memory access at a time; so the sequences that
`FramePipeline` appends to and takes from in one step are justified by the two
together. `HeldInv` gives the guards (a worker pulls with empty hands, pushes what
it holds), `FlowInv` that both queues are empty when they are filled.

`CameraManagerProofs` proves `TypeOK`, `DriverWritesLiveMemory`, `OneOwner` and
`ReleasedAtEnd`. In the clean-up `StreamInv` says that the driver still captures
only when it has refused to stop, and that what it owns is allocated until the
free: `LiveMemory` follows, with the gap that `DriverWritesLiveMemory` names.
`SetUpInv` says what each stage of the initialisation has
allocated and queued so far; `RunInv`, that queued, filled, out, and lost
buffers are together all the buffers, and in number no more than there are.
Ownership follows by counting: as many places as buffers, all buffers covered,
so none is in two places (`OutOfDriver`, `ElementsBound`). That no two places
have the same buffer is not assumed of the driver.

`UsbTransportProofs` proves `TypeOK`, `NoGapOnWire` and `ResultIsTrue`, for
packets of any size and any sequence of short writes, empty writes and failures.
`TailInv` says that the last `written` units on the wire are the first ones of
the current packet and the rest belongs to earlier packets; `StreamInv`, that
after each unit comes the next one of its packet or the first one of a later
packet; `ReturnInv`, that success is returned with everything written.
`ChannelRefinement` is the view of the host (`ImplementsChannel`). `Ends` are the
places where a whole packet ends, and the host's list is made from their ranks
(`Nth`). A write leaves the whole packets that were there and adds one exactly
when it completes its packet (`EndsKept`); the place it adds is the last, so the
ranks of the others stay (`RankMore`), and the list grows at its end
(`DecodeStep`).

`FrameQueueListProofs` proves `DepthInRange` and `ImplementsQueues` for any
number of buffers. `Chain(q, p)` says that the nodes of the sequence `p` are
linked one to the next, from the head of list `q` to `NULL`; `ShapeInv`, that the
two lists are such chains, and that they and the two threads' hands hold each
buffer once. Every memory access either keeps both chains, takes the first node
off one, or puts one more at the end (`Stays`, `Takes`, `Puts`), which are the
steps of `BufferQueues`. In between, `SearchInv` says where the search for the
end of a list stands. `WalkInv` is about the sampler: only
the USB thread moves buffers while the camera thread walks, from the front of
the action queue to its hand to the end of the empty queue, so the order empty
queue, hand, action queue does not change, and the sampler has counted no more
nodes than stand before its own in that order, even when its node moves to the
other list and it counts on there. `Path`, the sequence a list stands for, is a recursive function
of the numbers; that it unfolds is shown by its least counterexample (`Least`),
since the induction theorems are out of reach.

`MetricsProofs` proves `NeverLate`, `OncePerClockSecond` and
`PacketsWereCaptured`. The timer subtracts seconds and nanoseconds apart and
unsigned; `ElapsedParts` shows, from two lemmas on `\div` and `%`, that the
comparison is true exactly when the second of the clock has changed since the
last packet, for any number of ticks in a second. `CountInv` accounts for each
frame that was counted and not yet counted as a packet.

`MjpegProtocolProofs` proves `TypeOK` and `RoundTrip` for any limit of the size
that fits the packet's size field, any frames of bytes and any checksum of 16
bits. `LastEoiFinds` says that the search for `FF D9` from the end stops at the
last one (`Found`, which only one position satisfies): the recursive function is
shown to have the value of a function that is defined without recursion, and
unfolds from there by its least counterexample. `ValidateIs` concludes that
`mjpeg_validate_jpeg_data` returns an error exactly when `ShouldPack` has nothing
to pack, and its size otherwise; an end marker cannot overlap the first one, so
four bytes are the fewest. `Uint16Parts` and `Uint32Parts` say that a number is
read from memory as it was written, `HeaderParts` and `PacketIs` at which places
of the buffer the fields, the JPEG and the checksum are, and `PackStep` reads
them back as the receiver does. Nothing is assumed of the old contents of the
buffer but that they are bytes.

It also proves that the code's checksum is CRC-16-CCITT, for every message of any
length (`CrcIsCcitt`, and from it `CrcIsRemainder`), and that it fits the two
bytes it is sent in (`CrcIsUint16`), as the proof of `RoundTrip` assumes of a
checksum.
`Divided(p, n, r)` is the invariant of both loops: with some quotient of `n` bits,
the bits of `p` down to the sixteen after them are the quotient's product with the
divisor, with `r` added at the end. One shift is one more bit of the quotient, the
one shifted out (`ShiftDivides`), because the divisor has its powers exactly where
`0x1021` has ones and at the bit that `uint16_t` drops (`ShiftIs`, `TimesMore`);
adding a byte to the register is adding it to the dividend (`AddDivides`,
`DividendGrows`); the initial `0xFFFF` is added to the first sixteen bits
(`StartDivides`). There is only one quotient and one remainder, since each bit of
the quotient follows from the ones before it (`RemainderIs`). The loop over the
message is a recursive function; that it has a value and keeps the invariant is
again shown by a least counterexample (`RunExists`, `RunDivides`), as the
induction theorems are out of reach.

`TaskQueueProofs` is about any number of managers, tasks, kills and commands.

- `TypeOK` and `DependenciesFirst` hold without any assumption on the lock:
  `executed.log` only grows by tasks that have succeeded, or that the user has
  marked (`DoneInv`), whoever else runs.
- `OnceIfLocked` and `RetriesIfLocked` state what the lock is for: in every
  behaviour in which no two managers run at once (`[]MutualExclusion`), no task
  succeeds again without a kill or a command to account for it (`DoneOnce`), and
  none fails more often than its limit, again but for those
  (`RetriesBounded`). The condition is not vacuous nor is it always true: the
  run `exclusion` shows that `check_lock` does not give it.
- `OnceAlone` and `RetriesAlone` are the same for one manager, without the
  condition; that is the instance the run `one` checks.

The invariant of `RetriesBounded` has to follow the counts through the update of
the CSV file, in which the user's `complete` and `reset` interfere:
`Spared` is what kills and commands may cost, `Covers` says that the counts of a
file account for the failures up to that, `Owed` is the one failure that a
manager has seen and not yet written, and `UpdateInv` says at each step of the
update which file accounts for it.

The assumptions are those in the modules: at least one buffer (and one granted
by the camera's driver), limits and packets of at least one, a second of at least
one tick; in `TaskQueue`, that the processes' names are not also names for the
states of the lock file; in `MjpegProtocol`, that sizes and numbers fit 32 bits
and that the checksum returns a number of 16 (`uint16_t`). The bounds on frames, signals, packets, kills and
commands are any naturals.

Only model-checked:

- liveness (`FramesOrStop`, `UnplugStops`, `TasksFinish` and the like): fairness
  is out of the prover's reach.

## 7. Findings kept as runs

- `signal`: `signal_handler` takes the mutex that the thread it interrupts may
  own, and the program never stops.
- `relaunch`: `g_running` is static and nothing sets it to true again: after one
  Ctrl+C the command, run again in the same memory, starts its threads and stops
  them at once.
- `exclusion`: two managers started together both pass `check_lock`.

## 8. Statements the code does not satisfy

These stand in the modules and are checked by no run. TLC finds each violated
when it takes the place of the properties in the named configuration.

| statement | configuration | what happens |
|---|---|---|
| `HandlerLocksLiveMutex` (`FramePipeline`) | `FramePipeline_safety.cfg` | the handler is installed at `camera_app_main.c:163`, before the mutex exists, and stays after it is destroyed; `camera_app_main.c:89` says it signals threads "if threading is enabled" |
| `ImmediateShutdown` (`UsbTransport`) | `UsbTransport_send.cfg` | `camera_threads.c:494` says "Immediate shutdown on USB disconnect", but the test at line 490 looks for `-ENXIO` and `-EIO`, and the transport returns `ERR_USB_WRITE` for every failed write (`usb_transport.c:268`): nine more packets are tried |
| `ConnectedAfterSend` (`UsbTransport`) | `UsbTransport_send.cfg` | `connected` is cleared by a failed write (`usb_transport.c:267`) and never set again; later sends succeed |
| `DepthWasReal` (`FrameQueueList`) | `FrameQueueList_lists.cfg` | the unlocked walk (`camera_threads.c:159`) follows a node into the other queue; `frame_queue.c:261` asks the caller to hold the mutex |
| `UptimeIsElapsed` (`Metrics`) | `Metrics_metrics.cfg` | `camera_threads.c:131` divides the unsigned difference of nanoseconds: whenever the nanoseconds of now are below those of the start, which is about half of the time, 2^64 ns are added to the "elapsed time since start in milliseconds" (line 119), which is then cut to 32 bits |
| `AverageIsASize` (`Metrics`) | `Metrics_metrics.cfg` | the packets are counted before their bytes (`camera_threads.c:535-536`) and the bytes are two words: the "Average MJPEG packet size" (`mjpeg_protocol.h:70`) of a report may be that of no packet |
| `FailuresAreErrors` (`Metrics`) | `Metrics_metrics.cfg` | a packet that could not be sent (`camera_threads.c:509-528`) is not in the "Total error count" (`mjpeg_protocol.h:71`) |
| `TotalsSinceLaunch` (`Metrics`) | `Metrics_metrics.cfg` | a second launch sets the start time again (`camera_threads.c:592-593`), but not the totals |
| `UsbErrorsStop` (`SequentialLoop`) | `SequentialLoop_loop.cfg` | each camera frame resets the count (`camera_app_main.c:332`), so "Too many USB errors, exiting" (line 398) is unreachable |
| `GracefulShutdown` (`SequentialLoop`) | `SequentialLoop_loop.cfg` | `camera_app_main.c:78` says "Handle signals for graceful shutdown"; a signal that comes during the start-up or in the fallback loop makes the handler lock a mutex that does not exist or is destroyed (line 91), which may block main for ever |
| `NeverWritesFreed` (`CameraManager`) | `CameraManager_ring.cfg` | the result of `VIDIOC_STREAMOFF` is not looked at (`camera_manager.c:419`): when it fails, the buffers are freed (lines 423-430) while the driver captures into them, until the device is closed (line 436) |
| `NoLeak` (`CameraManager`) | `CameraManager_ring.cfg` | a failed `VIDIOC_STREAMON` returns without freeing the buffers (`camera_manager.c:308-313`) |
| `DeadCameraStops` (`CameraManager`) | `CameraManager_ring.cfg` | each failed `VIDIOC_QBUF` takes a buffer out of the ring (`camera_manager.c:389`); with frames in between, all of them are lost before three errors come in a row, and the thread then times out for ever, since timeouts count for nothing (`camera_threads.c:273`) |
| `FrameStable` (`CameraManager`) | `CameraManager_ring.cfg` | the buffer is queued again before its frame is packed (`camera_manager.c:388`); `05_SOFTWARE_SPEC_SPRESENSE.md:548-551` copies first |
| `TasksKept` (`TaskQueue`) | `TaskQueue_one.cfg` | `complete` and `reset` do not look at the lock and use the temporary file of a running manager (`queue_manager_v2.sh:162`, 394): when one `mv` comes between the redirection and the awk of the other process, it renames the file just emptied; awk reads that file and writes nothing, and `prompts.csv` has no task any more |
| `HighFirst` (`TaskQueue`) | `TaskQueue_one.cfg` | `sort -r` puts medium before low before high (`queue_manager_v2.sh:150`); `SPECIFICATION.md:248` says high > medium > low |
| `DependentsRun` (`TaskQueue`) | `TaskQueue_one.cfg` with `Depends <- MCDependsOnRepeating` | a dependency on a repeating task is looked up in `executed.log`, where its success is never written (`queue_manager_v2.sh:139,208`) |

## 9. Not modelled

- `protocol_handler.c`, `encoder_manager.c`, `usb_test.c`: `main` reaches none of
  them. `usb_transport_send` and `usb_transport_wait_connection` have no callers.
- The descriptor of the metrics packet: `main` clears the context
  (`camera_app_main.c:221`) and sets no `usb_fd`, so `send_metrics_packet` always
  writes to descriptor 0. No behaviour of the models depends on it.
- Of `perf_logger.c` the latencies, intervals and extremes. Only the sequential
  loop records frames: in threaded mode `perf_logger_cleanup` finds none.
- `status` of the task queue, which only prints, and its executors, which only
  start other programs.
- `bmi160_orientation`, `asmpApp`, `aps00_sandbox`: a floating-point filter, a
  two-message example and templates.
- The vendored tree, which is nearly all of the repository's lines: models of
  this program's own code cannot cover a large share of them.
