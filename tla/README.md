# Verification of the YOLO inference engine

TLA+ models, TLC runs and TLAPS proofs for the real-time detection pipeline of
this repository: `src/yolov8n_camera.cpp` and the headers in `src/utils/`, the
image tool `src/yolov8n_image.cpp` and the demo `src/simple.cpp`. (Paths below
are relative to the repository.)

## The system

The program reads frames from a camera, runs a YOLOv8 network on some of them
and shows the frames with the boxes found. `main` starts three threads that
share two queues and one flag:

    camera -> producerThread -> frame_queue -> consumerThread -> result_queue -> displayThread -> window
                    \_______________ running (atomic<bool>) ______________/
                       also written by signalHandler and by the 'q' key

| component | state | operations | what makes it hard |
|---|---|---|---|
| `LockFreeQueue` (`utils/lock_free_queue.hpp`) | `buffer`, atomic `head`, atomic `tail` | `enqueue` (two overloads), `dequeue`, `isEmpty`, `size`, `capacity`, `clear` | the producer drops the oldest item of a full ring by storing `head`, which the consumer stores too; the stores are neither compare-and-swap nor protected; an item is moved, not copied, out of a slot the producer may be reusing |
| pipeline (`yolov8n_camera.cpp`) | `running`, `e2e_tracker`, program counters, `empty_frame_retries`, the two `static` counters of the consumer | the three thread loops, `signalHandler`, `main` | exceptions outside the `try`, drops in two queues under their readers, shutdown from four places, statistics in a plain vector |
| `ImageProcessor` (`utils/image_processor.hpp`) | three `static thread_local` vectors | `preprocessImage`, `postprocessDetections` | vectors that outlive the call and must stay parallel, index arithmetic on a flat tensor, clipping and casts |
| `LatencyTracker` (`utils/metrics.hpp`) and the time stamps | `latencies_us` | `record`, `printStats` | percentile indices, two clocks with different origins, narrowing to `int` |
| `InferenceEngine` (`utils/inference_engine.hpp`) | the wrappers of a session, an environment, a memory info | construction, `infer` | every call may throw; the order in which wrappers are destroyed; a result that is a temporary |
| `TensorBuffer` (`utils/tensor_buffer.hpp`) | `data`, reused for every frame | `getData`, `size`, `reset`, `copyFrom` | reuse: the content may be of another frame |
| `types.hpp` | | configuration, records, class names | |
| `yolov8n_image.cpp` | the picture, its tensor, parallel vectors | a one-shot image tool, not in the CMake build | repeats by hand what OpenCV and `ImageProcessor` do for the camera program |
| `simple.cpp` | | a demo of the library, not in the CMake build | passes arrays by pointer and count |
| ONNX Runtime C++ wrappers (`include/onnxruntime_cxx_api.h`, `_inline.h`; vendored) | one owned pointer each | construction, move, destruction, `ThrowOnError` | ownership when a call fails |

What makes each correct:

* queue: items come out in order, each at most once, none doubled, torn or
  moved-from; no data race on a slot; what comes out is recent; a poll that
  finds nothing is right about it; nothing stays in for ever;
* pipeline: the network is given the picture that is shown; the display never goes
  back in time; only one frame in three is processed; no exception ends the
  process; it ends when told to, from any state; statistics are complete and
  read by no one but their last writer;
* post-processing: every detection is that of one anchor of this call, no
  confident anchor is missed, boxes lie in the frame;
* statistics: percentiles are percentiles; no time is counted twice;
* memory: no pixel is reached by two threads; every object of ONNX Runtime has
  one owner, is released once, and is there when a call is given it;
* image tool: the network gets the picture, the file shows what was detected,
  and the tool agrees with the camera program where the two should.

## The modules

| module | models | role |
|---|---|---|
| `LockFreeQueue` | `lock_free_queue.hpp` | the ring, step by step; its inductive invariant |
| `DropOldestQueue` | what a user of the queue relies on | abstract specification, two counters |
| `CountedQueue` | what a user relies on who only counts the items | abstract specification of `DropOldestQueue`, until an overtaking |
| `LockFreeQueueProofs` | | the theorems about the ring, alone and in a program around it |
| `Pipeline` | `yolov8n_camera.cpp`, with `preprocessImage` and `infer` | the three threads, `main` and the handler over two instances of `LockFreeQueue` |
| `PipelineProofs` | | the theorems about the pipeline and its pixels, on top of the ring's invariant for each queue |
| `WeakQueue` | `lock_free_queue.hpp` | the same ring with the memory orders it gives; another implementation of `DropOldestQueue` |
| `WeakQueueProofs` | | that it is one, until the first drop |
| `FrameBuffers` | `cv::Mat`s of `yolov8n_camera.cpp` | `Pipeline`, step for step, with who can reach which pixels |
| `ThreadLoops` | `yolov8n_camera.cpp` | the loops without end, over two instances of `CountedQueue`: what keeps the program going and what stops it |
| `ThreadLoopsProofs` | | that nothing else stops it |
| `OrtPrograms` | `inference_engine.hpp`, the three programs | what each does with the wrappers of ONNX Runtime, in order |
| `OrtObjects` | the wrappers they use | what comes of a program: creation, ownership and release, with every call failing |
| `OrtProofs` | | that every object has one owner and every call its objects |
| `ImageTool`, `MCImageTool` | `yolov8n_image.cpp` | the tool from argument to exit; its inputs for TLC |
| `ImageToolProofs` | | that it agrees with the camera program, and its loops |
| `Postprocess`, `MCPostprocess` | `postprocessDetections` | the pass over the tensor as a state machine; its inputs for TLC |
| `PostprocessProofs` | | the pass, for any tensor and any sizes |
| `Latency` | `metrics.hpp` and the time stamps | the consumer's clocks, `record`, `printStats` |
| `LatencyProofs` | | the sum, the sorting and the percentiles |

Operators whose comment starts with "Mutant of" are plausible mistakes in the
definition that follows them. They are used by no specification; substituting
one for its original makes the property that `PROJECT.json` pairs with it fail.

### LockFreeQueue

One variable per member of the class, and a record per call in progress
(`enq`, `deq`) with its program counter and its local variables. Each load or
store of an index the other thread may write is an action:

| action | code of `enqueue(T&&)` | | action | code of `dequeue` |
|---|---|---|---|---|
| `EnqueueBegin` | loads of `tail` (own) and `head` (49-51) | | `DequeueBegin` | load of `head` (64) |
| `ReloadHead` | second load of `head` (52) | | `DequeueEmpty`, `DequeueFound` | load of `tail` (67) |
| `DropOldest` | store of `head` (53) | | `MoveBegin`, `MoveEnd` | move out of the slot (71) |
| `WriteBegin`, `WriteEnd` | move into the slot (56) | | `StoreHead` | store of `head` (72) |
| `PublishTail` | store of `tail` (57) | | | |

The accesses to a slot take time. When those of the two threads to one slot
overlap, `overlap` becomes true and each access may leave or return anything:
the proper value, an empty one or a torn one. `clear` is left out: it is two
separate stores with no guard, and nothing in the repository calls it.
`isEmpty`, `size` and `capacity` change nothing and are operators; no code acts
on them. The two overloads of `enqueue` differ in what they leave in their
argument only.

An item is the number of the enqueue call that brought it, so that order, loss
and duplication can be told from the values in the slots.

**Being overtaken.** The queue is not correct without conditions: if the
producer stores `head` twice during one dequeue, or the consumer ends a dequeue
and empties the ring between the producer's check and its store, `head` moves
backwards, beyond `tail`, or past items never delivered. The history variable
`overtaken` records the first such moment: a store of `head` that would move it
anywhere but one slot on, a second one during a single dequeue, or a second
load of `head` that finds the ring empty. Properties that hold until then are
stated as `~overtaken => ...`. One drop during a dequeue is not overtaking: the
dequeue then still gets the item dropped, and its own store of `head` has no
effect.
Everything the code does after being overtaken is in the model too, and
`Pipeline` shows where it leads.

Properties: `FifoWindow` (the slots from head to tail hold the last items in
order), `SlotsNotShared` (no data race), `Fresh` (what a dequeue yields is one
of the last BufferCapacity items), `ImplementsFifo` (refinement of
`DropOldestQueue`), `NulloptEmptyOrFull` (a dequeue that reports nothing found
the ring empty, or was misled by a drop on a full one), `HoldsWhatIsPut` (an item
just published is in the ring), and `NoItemStuck` under fairness.

### DropOldestQueue

The abstract queue holds the items `oldest+1 .. newest`. `Reserve` makes room
and drops at most one item, `Put` publishes, `Take` gives the consumer the
oldest item held, or the item dropped last if the drop came during the dequeue;
`returned` never goes back. Under the refinement mapping `newest` is the number
of enqueues that returned and `oldest` is that number less the size of the ring.
`broken'` lets the abstract queue do anything from the moment of an overtaking.
`Reserve` may drop although there is room: the ring does so when a dequeue ends
between the check for a full ring and the store.

### Pipeline

The threads' program counters stand at the points between which other threads
can act: the test of `running`, each step of a queue call, each call of a
library. Two instances of `LockFreeQueue` bring all their steps; a thread's
action is a step of its queue conjoined with what the thread does around it
(`CaptureFrame` is the capture and the first step of the enqueue, `EnqueueFrame`
each further step, and so on).

* `running` is cleared by `SignalHandler` at any time, by the producer after
  `MaxRetries` empty frames (`CaptureEmpty`) and by the display (`QuitKey`).
* the consumer skips all but each FrameSkip-th frame (`SkipOrKeep`), fills the
  tensor (`Preprocess`), runs the network (`Infer`, or `InferThrows`, after
  which the frame is forgotten) and enqueues the result (`Postprocess`,
  `EnqueueResult`, which records the latency).
* `preprocessImage` and `cv::imshow` are called outside any `try`. On an empty
  `cv::Mat` they throw, the exception leaves the thread function and the process
  is terminated: `aborted`. The queue hands out an empty `cv::Mat` when it hands
  out a slot that has been moved from.
* `main` may fail before the threads start, joins them in order and prints the
  statistics.

`engine.infer(buffer)` is assigned to a `float*` at line 145, while `infer`
returns an `Ort::Value`, which does not convert: as committed the line does not
compile. The models take the pointer for the data of that value. The value is a
temporary and is destroyed at the end of the line, so that post-processing reads
memory that was released: `ReadCrashes` ends the process there, and if it does
not, nothing is known of the boxes. A result has none in `Pipeline`; it has the
tensor that `Run` was *given*, and `InputMatchesFrame` says no more than that this
is the frame in the result.
`std::stoi` on a malformed argument (line 316), exhaustion of memory and
failure to start a thread are left out, as are drawing, logging and the
counters that only feed log lines. A frame is the number of its capture, and
a tensor is known by the frame it was made from; who can reach the pixels is in
`FrameBuffers`.

### Postprocess

One action per iteration of the inner loop (`ScanClass`), one for each way the
outer iteration ends (`Accept`, `Reject`), `Call` and `Suppress`. The tensor is
the flat array the code indexes. Numbers are integers; products with a scale
are kept as numerators over `Unit` (twice the model's input size) until the
cast to `int`, which rounds towards zero. `cv::dnn::NMSBoxes` is a library: any
list of distinct places in `boxes` is a possible answer. The vectors survive a
call, so a run makes call after call, each with its own `threshold`. With a
positive one (main: 0.25) every detection has a class; with 0 or less an anchor
without a positive score passes too, and `NameOutside` is the read of the class
names at -1, after which the program may have `Crashed`. `OutsideOnlyUnscored`
says that nothing else leads there. An anchor is `Confident` if some class
scores the threshold or, with a threshold of 0 or less, in any case: the best
score starts at 0, so that such a threshold lets pass an anchor all of whose
scores are negative too. (TLC's scores are not negative, and did not tell the
two apart; the proof of `NoneMissed` did.)
Rounding of floats and NaN are not modelled. Non-maximum suppression is given
all classes together, which the repository does not comment on.

### Latency

The iterations of the consumer as far as they read a clock, an action (`Pass`)
that lets time go by anywhere in between, and the arithmetic of `printStats` on
the latencies recorded. `steady_clock` and `high_resolution_clock` differ by
`EpochOffset` (the latter is the system clock in libstdc++); `ToInt` cuts a
difference to an `int`, whose greatest value is `IntMax`. `sorted_lat` is any
arrangement of all latencies in which they rise (equal ones cannot be told
apart), and `SumOf` adds them up one by one.

### WeakQueue

The indices are the sequences of the stores made to them; a thread's view says
which stores, and which accesses to slots, happened before its next step. A
load returns any store not older than the view's, an acquire load takes over the
view of the store it reads, and a store of `head` may land before stores of the
other thread that its own does not know of. An access to a slot that does not
come after the other thread's last one is a data race, whatever it returns.
The steps are those of `LockFreeQueue`, with the two halves of a slot's access
in one, since a race is now a matter of views; `clear` is left out.

`ImplementsFifo` (refinement of `DropOldestQueue`) and `RaceNeedsDrop` hold until
the producer stores `head` for the first time: the memory orders given are enough
for a queue that never fills. After one drop they no longer are, although
`LockFreeQueue` allows one drop during a dequeue: the dequeue loads `head`
relaxed (line 64), so that what the producer stored before dropping is not
published to it, and it may move out of a slot whose write it has not seen.
What a sequentially consistent machine keeps until it is *overtaken*, a weakly
ordered one keeps until the first drop only.

### FrameBuffers

`FrameBuffers` extends `Pipeline`: each of its steps is one of `Pipeline`'s, with
all the loads, stores and slot accesses of both rings, and what that step does to
the `cv::Mat`s. A pixel buffer is the set of the `cv::Mat`s that refer to it: the
camera's own, the locals of the three threads, the slots of both queues. Copy,
clone, move and destruction change those sets. `cap >> frame` may return a frame
of its own or one that shares the camera's buffer (`CaptureAndClone` does
either). A move into or out of a slot takes effect when the access ends; if it
overlapped with one of the other thread, that is a data race on a `cv::Mat`,
`raced` becomes true, and `buffers` means nothing any more. A slot keeps its
`cv::Mat` after a drop, and a stale head moves out of the slot it points to, as in
the code.

`OneHolder` says that the slot accesses of two threads overlap only once a queue
has been overtaken, and that until they do a buffer with two holders is the
camera's and the frame just captured: no thread writes (captures into, draws on)
what another can reach. Line 69's `clone` is what it rests on.

### ThreadLoops

`Pipeline` follows each frame through all steps of the rings, and so three
frames; it cannot ask what happens in the long run. Here each queue is an
instance of `CountedQueue`: the number of its items, how far an enqueue has come,
and whether a drop has passed the consumer. A thread that goes on with a step of
a queue is a `QueueStep`. (`FindFullFrame`, `ReserveFrame` and `PutFrame` are one
enqueue, between whose steps a dequeue, a signal or a key may come.) Any such step
may be the one that overtakes: from then on the counts mean nothing, a dequeue
finds what it finds, and the program may crash anywhere (`Crash`), as it may where
it reads the released output tensor. There is no bound on frames, and the
environment is spelled out: a key that waits in the window until `waitKey` reads
it, and signals.

A signal interrupts any live thread. The handler logs before it clears `running`
and may hang where that thread was inside the allocator or the stream
(`InLibrary`: everywhere but at the test of `running`, in a dequeue, and between
the loads and stores of an enqueue); otherwise its only effect is the store, and it
is one step (`Signal`, `SignalHangs`).

`StopsForAReason` says what clears `running`; `SignalEnds` that after a signal the
process ends or a handler hangs, overtaken or not. `KeyEnds` says that it ends
after a key and `KeepsShowing` that drops and skips never starve the display,
provided that camera and network work (`Working`), *or* the dequeues are outrun
(`Outrun`): some thread comes to dequeue from a queue that holds items again and
again, and from some time on never gets one. Nothing in the code excludes that:
each dequeue loads `head`, an enqueue passes it, and `tail` is where `head` was.
So nothing in the model excludes it either.

### OrtPrograms and OrtObjects

In `OrtPrograms` a program is the list of what it does with wrappers, in the
order of the C++ (`Camera`, `Image`, `Demo`, put together from the constructors of
the vendored wrappers): declare, create, call, run, move, destroy, read, and the `try` blocks.
The state is the stack of wrappers, what each holds, and the objects alive. Each
call of the C API may fail instead; the wrappers are then destroyed in reverse
order until a `try` or the end (`Unwind`, `Catch`, `Terminate`). `OwnedOnce` says
that nothing leaks and nothing is released twice, `NeedsMet` that no call gets a
released object or is made without an environment ("One Env must be created before
using any other Onnxruntime functionality", header line 1356). What is undefined
may do no harm or end the process: to read an object that is gone (`ReadCrashes`,
camera line 145), to release a session after its environment (`ReleaseCrashes`),
to pass more inputs than there are (`RunCrashes`, demo line 39).
`EnvOutlivesSession` is what the header's line 1355 asks of every program. The
camera program does not do it: `InferenceEngine` declares `session` before `env`
(lines 15 and 16), so `env` goes first at the end of `main`. The run `ort_env` ends
in that state.
A process that is terminated is left as it is at that moment (whether the stack
is unwound then is up to the compiler).

`OrtPrograms` also says what makes a text in order *where nothing fails*
(`ProgramsAssumption`): a name is declared once in its scope, an argument is there
when it is given, scopes are nested, a handler goes on with the wrappers that were
there before its `try`. `Layout` computes the wrappers before each operation of a
text for that. It is stated as an assumption on which programs are looked at, but
the three texts are fixed, so that TLC decides it when it starts. What it leaves
open is what a failure does, at any call, and how far the stack is then unwound.

### ImageTool

The program from its arguments to its exit status: the loop that turns rows of
pixels into planes (`FillPixel`; a pixel is known by row, column and channel, and
`COLOR_BGR2RGB` reverses the channels), the loop over the anchors, suppression
(any answer), drawing, saving. Its arithmetic is stated on its own, from its own
lines, and compared with that of `Postprocess` in `AgreesWithCamera`, for tensors
in which nothing has to be clipped: as many boxes as there are confident anchors,
and the box of an anchor behind those of the confident anchors before it.

## The runs

| run | configuration | shows |
|---|---|---|
| `ring` | `LockFreeQueue.cfg` | all properties of the ring, refinement and liveness |
| `pipeline_skip` | `PipelineSkip.cfg` | `AbortsOnlyOvertaken`, `InputMatchesFrame`, `SkipRatio`, `StatsComplete`, `OneHolder`; module `FrameBuffers`, and so every step of `Pipeline` |
| `pipeline_every` | `PipelineEvery.cfg` | `ResultsInOrder`, `ShownInOrder`, and the liveness properties `ShutdownCompletes` and `CameraLossEnds` |
| `postprocess` | `Postprocess.cfg` | `DetectionsGenuine`, `NoneMissed`, `OutsideOnlyUnscored`, `BoxesInFrame` |
| `latency` | `Latency.cfg` | `PercentilesRanked`, `NoTimeCountedTwice` |
| `weak_ring` | `WeakQueue.cfg` | `RaceNeedsDrop` and the refinement, under weak memory |
| `loops` | `ThreadLoops.cfg` | `StopsForAReason`, and the liveness properties `SignalEnds`, `KeyEnds`, `KeepsShowing` |
| `image_tool` | `ImageTool.cfg` | `TensorIsPicture`, `AgreesWithCamera`, `FileIsGenuine` |
| `ort_objects` | `OrtObjects.cfg` | `OwnedOnce`, `NeedsMet` |
| `pipeline_original` | violated | "original frame" (types line 78): a frame reaches the display that the camera never delivered |
| `postprocess_clip` | violated | "clip to img boundaries" (image_processor line 117): boxes over the left or top edge keep their full length |
| `ort_env` | violated | "The Env holds the logging state used by all other objects" (cxx_api line 1355): at the end of the camera program the environment is released before the session |

`TypeOK` is checked in `ring`, `pipeline_skip`, `postprocess` and `loops`; in the
other modules it documents the variables and serves the proofs.

Deadlock is checked in every run but `loops`, where hung handlers may leave
nothing to do. Programs that are over, a joined consumer and a crashed
post-processing stutter explicitly.

### Where code and comments part

Three of these have a run that shows them (`pipeline_original`,
`postprocess_clip`, `ort_env`). The others are in the models as the code has them; the
property named bounds what comes of them.

| comment | what the code does | |
|---|---|---|
| "Check if empty" (queue 66) | after a drop between its two loads a dequeue may report nothing on a full ring | `NulloptEmptyOrFull` |
| "Check if full" (queue 31) | a dequeue may end between that check and the store of `head`: an item goes from a ring that is not full | `ImplementsFifo` allows it |
| "drop if full" (camera 71) | it is the oldest frame that is dropped, and `enqueue` never returns false | `ImplementsFifo` |
| `assert(max_size > 0)` (queue 24) | a ring of one slot passes the assertion and holds nothing (main makes rings of five). The theorems are true of it: the first item put is at once dropped, an overtaking | none |
| "Publish the new tail" (queue 40) | to a dequeue that no drop passes; see WeakQueue | `RaceNeedsDrop` |
| "E2E time" (types 32) | `total_time_us` is the difference of a `steady_clock` and a `high_resolution_clock` time, cut to an `int`: `Postprocess` and `ToInt` of `Latency`. It is wrong in every call, and no code reads it | none |
| "Received signal ... shutting down..." (camera 29) | the handler may hang before it clears `running` | `SignalEnds` |
| "'q' or ESC to quit" (camera 394) | the key is read only after a picture was shown | `KeyEnds` assumes `Working`, and that the dequeues are not outrun |
| "Result saved to results.jpg" (image tool 213) | the file is `result.jpg`, and the answer of `imwrite` is ignored | none |
| "The Env holds the logging state used by all other objects" (cxx_api 1355) | `InferenceEngine` releases it before the session (line 15) | `EnvOutlivesSession` is violated |
| "store for later access" (inference_engine 61) | camera line 145 keeps a pointer into a temporary (and does not compile as committed) | none: `ReadCrashes` lets anything come of it |
| "2 inputs" (demo 39) | one pointer is passed for two; the second input is whatever lies behind it | `RunCrashes` |

### Bounds

* `ring`: three slots (two items) and five items. Being lapped takes one drop
  during a dequeue, being overtaken two; with five items the ring wraps, a
  dequeue can be overtaken, and the queue goes on afterwards. During
  development the same properties were checked with rings of one to five slots.
  The theorems hold for every number of slots and items.
* `pipeline_skip`: rings of two slots, the smallest that deliver, so that drops
  and overtaking happen with three frames; FrameSkip 2 in place of 3;
  MaxRetries 0 in place of 30. MaxResults is 3: the consumer never gets to its
  bound, which the absence of deadlock confirms. The frame queue is overtaken in
  this run, slot accesses overlap, and the process does abort. The pixel buffers do
  not bound it further: their number follows from that of the frames.
* `pipeline_every`: FrameSkip 1 and two frames make two results, one more than
  result_queue holds; MaxRetries 1 makes the counting of empty frames visible.
  The result queue is not overtaken in a passing run: that takes three results,
  beyond 11 million states. Its steps are those of the same module as the frame
  queue's.
* `postprocess`: two anchors, two classes, thresholds zero and above, scores at
  zero, at and above the threshold, three boxes that reach over every edge; any
  tensors in any succession.
* `latency`: four recorded iterations in eight ticks.
* `weak_ring`: three slots, four enqueues, three dequeues that find something:
  the ring fills, wraps, and drops; late stores of `head` and stale loads of
  both indices happen.
* `loops`: queues of two items, FrameSkip 2 in place of 3, MaxRetries 1, one
  signal, which may interrupt any thread. Frames, keys and empty frames are
  unbounded.
* `image_tool`: a 4x4 input of a 6x5 picture, neither square nor a multiple, two
  anchors, two classes; one of the three boxes reaches out of the picture.
* `ort_objects`: all three programs in one run, with no bound: the objects of one
  iteration of the consumer are gone before the next.

### Fairness

`LockFreeQueue!FairSpec` assumes that both threads go on calling: neither call
has a loop or a wait, so weak fairness of each thread is no more than a
scheduler that runs it. `Pipeline!FairSpec` assumes the same of each of the four
threads and so that a call of the camera, the network and the window system
returns. It assumes neither signals nor keys, and no particular outcome of a
capture or an inference. The camera delivers at most MaxFrames frames: then it
is a camera that was unplugged, which is what `CameraLossEnds` is about.

`ThreadLoops!FairSpec` is weak fairness of each of the four threads and no more:
each is run. It does not say that a thread whose handler hangs goes on, that a
frame arrives, or that a dequeue finds anything. What the environment and the
race between enqueue and dequeue would have to do is said in the properties:
`Working` (strong fairness of `CaptureFrame` and `Infer`: the camera delivers again
and again, inference does not fail for ever) is the premise of `KeyEnds` and
`KeepsShowing`, and `Outrun` the alternative they leave. `SignalEnds` needs
neither.

## The proofs

Every safety property of the passing runs is proved for every value of the constants.
The bounds in the guards (MaxItems, MaxFrames,
MaxClock and the like) are constants too, so that the theorems hold of behaviours
of any length. The proofs assume nothing but the named assumptions of the
modules' constants, which TLC evaluates in the runs.

### The ring

`LockFreeQueueProofs` proves, for every `BufferCapacity > 0` and every
`MaxItems`:

| theorem | statement |
|---|---|
| `TypeCorrect` | `Spec => []TypeOK` |
| `ContentCorrect` | `Spec => []FifoWindow` |
| `RaceFree` | `Spec => []SlotsNotShared` |
| `Freshness` | `Spec => []Fresh` |
| `NulloptCorrect` | `Spec => NulloptEmptyOrFull` |
| `Refinement` | `Spec => ImplementsFifo` |
| `PutHeld` | `Spec => HoldsWhatIsPut` |
| `Counting` | `Spec =>` the ring implements `CountedQueue` until overtaken |
| `PollsFindNothing` | `Spec => PollsCount`: a dequeue that reports nothing is one `CountedQueue` allows |
| `OnceInOrder` | `Spec => HandsOutInOrder`: `delivered` only rises until overtaken |
| `NoItemInvented` | `Spec => []NothingInvented` |

They rest on the named assumptions of the constants only. None of the
properties is inductive. `IInv` is: besides the types it says what each call in
progress knows (`CallInv`, `EnqueueInv`, `DequeueInv`), what is true of a
dequeue that one drop has passed (`LappedInv`: head is one slot on, and the slot
it reads still holds the item dropped last) and what the slots hold
(`ContentInv`). The key fact is `SlotsApart`: as long as the producer has room
reserved, its slot is not the one a dequeue is at, because the slot at tail is
neither held nor the one just before head. Lemmas about `Following` and
`Distance` do the modular arithmetic; `IInvStep` has one case per action;
`OvertakenStays` allows the steps to be looked at before an overtaking only.
For the refinement each step of the ring is shown to be the abstract step of
the same name or a stutter.

`Counting` goes by way of the refinement: `TakenInv` says of `DropOldestQueue` that
what was returned last is no later than what has left, and each abstract step is
then one of `CountedQueue` (`CountsStep`). `NoItemInvented` is the one theorem
besides `TypeCorrect` that says something *after* an overtaking: whatever the
indices do then, a slot and a dequeue hold an item that some enqueue was given, or
none, or a torn one; and none or a torn one comes out only then.

### The ring under a program

`Pipeline` conjoins the steps of two rings with what its threads do.
`LockFreeQueueProofs` therefore also says what a program may rely on as long as
it takes only the ring's steps: `UseInv` is `IInv` and `GivenInv`, that nothing
is in a slot or comes out that no enqueue was given, kept by every step
(`UseInvStep`). `EnqueueSeen` and `DequeueSeen` say what one step shows the
thread that takes it: an enqueue begins with the next item, and a dequeue that
yields one before an overtaking yields a later one than all before.
`PipelineProofs` instantiates them twice, once for each queue.

### The pipeline

`PipelineProofs`, for rings of any size, every `FrameSkip > 0`, every
`MaxRetries` and any number of frames and results (`PipelineAssumption`):

| theorem | statement |
|---|---|
| `PipelineTypeCorrect` | `Spec => []TypeOK` |
| `StatisticsComplete` | `Spec => []StatsComplete` |
| `InputIsOfTheFrame` | `Spec => []InputMatchesFrame` |
| `ResultsStayInOrder` | `Spec => []ResultsInOrder` |
| `OneFrameInSkip` | `Spec => []SkipRatio` |
| `DisplayGoesForward` | `Spec => ShownInOrder` |
| `NoOtherAbort` | `Spec => []AbortsOnlyOvertaken` |
| `QueuesImplementFifo` | `Spec =>` both queues implement `DropOldestQueue` |
| `QueuesCountItems` | `Spec =>` both queues implement `CountedQueue` until overtaken |
| `FramesAreOriginal` | `Spec => []OriginalUntilOvertaken` |
| `PixelsNotShared` | `BuffersSpec => []OneHolder` |

The invariant comes in layers. `BaseInv` holds always, overtaken or not:
`QueuesInv` (`UseInv` of both rings), `TypeOK`, `ThreadInv` (threads live between
`main`'s start and join of them) and `CallsInv` (where a thread is in its loop
tells where it is in its call; a result in the queue has an entry in `results`;
`e2e_tracker` has counted each). From `ThreadInv` alone follows that `main` reads
the statistics after all writes to them. `TensorInv` adds that the tensor is that
of the frame held. `FrameInv`, until the frame queue is overtaken: the frame in
hand is the one delivered last, `FrameSkip` frames are dequeued for each one kept
(`SkipInv`), and results rise in frame and number and lie before the frame in
hand (`OrderInv`). `ShownInv`, until either queue is: what the display has is the
result delivered last, later than what it shows. `NoOtherAbort` needs all of
them: the frame an abort comes from has been moved from, and until an overtaking
the frame in hand is one the camera delivered, in either thread.
`FramesAreOriginal` is the counterpart of the run `pipeline_original`: the run
shows that "original frame" is false, the theorem that only an overtaking makes
it so.

`PixelsNotShared` is about `FrameBuffers`, each of whose steps is one of
`Pipeline`'s, so that `BaseInv` is kept as before. `OneHolder` is not inductive:
`HolderInv` adds that a capture starts with no frame left from the one before. The
lemmas `ReleasedOwn` and `MovedOwn` say what a destruction and a move do to a
family of buffers each of which has one holder; `SlotAccesses` takes from the
ring's invariant that the indices in use are slots, so that a move is never into
or out of the camera, and that accesses overlap only in a ring that was overtaken.

### The ring under weak memory

`WeakQueueProofs`, for every `BufferCapacity > 0` and any number of calls
(`WeakAssumption`): `NoRaceBeforeDrop` (`Spec => []RaceNeedsDrop`) and
`WeakRefinement` (`Spec => ImplementsFifo`). The invariant `WeakInv` says that
before a drop the system is `Synchronised`. Then `head` is stored by the
consumer only, so that the n-th store to an index is made after n items. Each
store carries the view of the thread that made it: one of `tail` that the items
up to it are in their slots (`TailsInv`), one of `head` that theirs have been
moved out (`HeadsInv`). A thread knows what the store it last read was released
with, and itself (`ProducerInv`, `ConsumerInv`). A stale load is then a safe
one: it makes a thread believe in less room or fewer items than there are.
`TouchedInv` says which items a slot's last accesses were for: the thread that
comes to the slot knows of them, which excludes a race. `ContentInv` is the
ring's window. The refinement maps each step to the step of `DropOldestQueue` of
its name or to a stutter.

### The loops

`ThreadLoopsProofs`, for queues of any depth, every `FrameSkip > 0`, every
`MaxRetries` and any number of signals (`LoopsAssumption`): `LoopsTypeCorrect`,
`StopsOnlyForAReason` (`Spec => StopsForAReason`, an action property), and
`QueuesCount`: until one is overtaken, to each queue the program is a user of
`CountedQueue`.
`LoopInv` adds to the types that a producer still in its loop has not used up its
retries, and that the history `blanks` is its counter.

The queues of the two models of the threads are thereby tied together: `Pipeline`'s
implement `DropOldestQueue` (`QueuesImplementFifo`) and so `CountedQueue`
(`QueuesCountItems`) until they are overtaken, and all that `ThreadLoops` assumes
of its own is `CountedQueue`. That the threads' loops around them are the same is
not proved, but read off both modules.

### Objects of ONNX Runtime

`OrtProofs`, for whichever of the three programs are looked at
(`ProgramsAssumption`, see above):

| theorem | statement |
|---|---|
| `OrtTypeCorrect` | `Spec => []TypeOK` |
| `ObjectsInvCorrect` | `Spec => []ObjectsInv` |
| `EachObjectOwned` | `Spec => []OwnedOnce` |
| `CallsHaveTheirObjects` | `Spec => []NeedsMet` |

The states are few and TLC visits them all; what the proof adds is the reason.
The invariant `ObjectsInv` says that, whichever call failed and however far the
stack has been unwound, the wrappers are those that the text has at some operation
*where nothing fails*, cut off from the top (`Cut`), and the objects alive are what
they hold; only the `Ort::Status` of the call that failed may lie on top of them
(`Raised`). So a text that is in order where nothing fails is in order where
anything fails. `AfterSound` shows that each operation in order keeps one owner
for each object, `LayoutSound` that all places of a text have it, by induction over
the text; `CutFurther` that a destructor leaves the next shorter cut; `CatchStep`
that a handler goes on where such a cut is the layout of the text again. None of
this says when what is not owned any more is still in use: that a session outlives
its environment, and an output its reads, is not so.

### Post-processing

`PostprocessProofs`, for all sizes above zero, all thresholds and all tensors of
integers (`SizeAssumption`, `ThresholdAssumption`, `TensorAssumption`):
`PassTypeCorrect`, `DetectionsAreGenuine`, `NoAnchorMissed`, `NamesReadInside`,
`BoxesAreClipped`, `ClippedToTheImage`. The invariant is `PassInv` (`PassInvCorrect`): the inner loop
holds the first of the best of the classes it has seen; the three vectors have
the same length, one place for each confident anchor scanned (counted by
`Cardinality`), and each place is read off its anchor. That the index
`row * NumDetections + anchor` lies in the tensor, and that clipping leaves a box
in the frame, are lemmas about products that are not linear, which the prover
gets in small steps.
`ClippedToTheImage` is the counterpart of the run `postprocess_clip`: on an axis
on which a box does not begin before the image, or reaches to its far border, the
code's clipping leaves what lies inside; the lemma `CutToInside` says that it does
so on no other.

### The image tool

`ImageToolProofs`, for all sizes above zero, a threshold above zero and all
tensors of integers (`ToolAssumption`; the tool's own threshold is 0.25):
`TensorFilled`, `ToolAgreesWithCamera`, `FileGenuine`. The invariant `ToolInv`
(`ToolInvCorrect`) is that the cells of the pixels before the loop's are filled
(`FillInv`; no two pixels have one index), that the vectors hold the confident
anchors scanned in order (`BoxesInv`), and that what is drawn was detected
(`DrawnInv`). `BestIs` shows that `cv::minMaxLoc` as used there finds what the
camera program's loop does. The lemmas on the tensor are those of
`PostprocessProofs`, instantiated.

### Statistics

`LatencyProofs`, for every distance of the clocks, every `IntMax`, any length of a
run and any number of frames (`LatencyAssumption`): `TimeCountedOnce`,
`PercentilesAreRanked`. The invariant `TimesInv`
(`TimesInvCorrect`) adds to the types that an iteration begins with a place left
for its latency (`RoomInv`) and that the latencies recorded add up to no more
than the time at which it began (`SumInv`). `SumOfAppend` says what `record` does
to the sum. `OrderExists` shows that the latencies can be sorted, by insertion,
so that `sorted_lat` is what its definition asks for; `PlaceRanked`, that the k-th
of n sorted latencies is at least k of them and at most n-k+1. The index that
`getPercentile` computes does the rest.

### Techniques and limits

The library's induction theorems take an operator as a parameter, which the
provers cannot instantiate. Where a loop, a sum or a sort has to be followed
through all numbers, the proofs use induction over a *set* of numbers instead
(`AllNumbers`, from `LeastNumber`, from the well-foundedness of `<`). In the same
way a function defined by recursion, such as `Layout`, is shown to exist: the set
of the numbers up to which there is one is all numbers (`ListExists`).

Only model-checked:

* the liveness properties `NoItemStuck`, `ShutdownCompletes`, `CameraLossEnds`,
  `SignalEnds`, `KeyEnds` and `KeepsShowing`: they need fairness and ENABLED,
  which the prover does not handle.

The runs that expect a violation have no theorem of theirs; `FramesAreOriginal` and
`ClippedToTheImage` state what is true in place of what two of them refute.

## Not modelled

* Most of `include/`. Of the repository's 24 000 lines of C and C++, 22 700 are
  the vendored headers of ONNX Runtime: declarations and wrappers of a library
  that ships as a binary. The programs here use about a dozen of the wrappers,
  and those are in `OrtPrograms`; the rest has no caller whose behaviour a model
  could be checked against. For this reason the definitions cover a small share
  of all lines, but most of the 1 200 that are the repository's own.
* What ONNX Runtime, the network and OpenCV compute: any tensor, any answer of
  `NMSBoxes`, any frame or none. The change of layout inside
  `cv::dnn::blobFromImage` is the library's (that of the image tool is modelled).
* `std::stoi` on an argument that is no number (camera line 316) terminates the
  process; a camera driver that blocks in `cap >> frame` keeps it from ending.
* `LockFreeQueue::clear`, `TensorBuffer::reset`, `copyFrom`,
  `ModelConfig::getConfig` and `getModelName`: no caller. `ModelType` has no
  effect.
* Floats: rounding, NaN. Pixels, the look of what is drawn, log lines, timings
  that only feed log lines.
* Failure to allocate memory or to start a thread, and whether the stack is
  unwound by `std::terminate`.
* Build files, the library and the models.

## Plan

1. (done) the ring, its abstract specification and proofs; the pipeline; the
   post-processing; the statistics.
2. (done) the ring under weak memory; the endless loops with handler and
   keyboard; the pixels and their holders in every step of the pipeline; the image tool; the
   objects of ONNX Runtime in all three programs.
3. (done) proofs about the pipeline on top of the ring's invariant,
   instantiated for both queues.
4. (done) proofs about post-processing, statistics, the image tool, the loops
   and the pixels.
5. (done) proofs about the ring under weak memory.
6. (done) the counting abstraction that ties the queues of `ThreadLoops` to the
   ring; what the ring never does, even after an overtaking; what is true in place
   of the two comments refuted; the objects of ONNX Runtime.
7. Left: a proof that the loops of `ThreadLoops` are an abstraction of `Pipeline`.
   It needs auxiliary variables: a signal hangs there or does its work, a key is
   pressed before it is read, and the threads begin one by one. Then a measure of
   how often an enqueue can pass a dequeue, for which the code would have to be
   given times: `Outrun` is what is left open without them. And what the boxes of
   a result are, once camera line 145 keeps the value that `infer` returns.
