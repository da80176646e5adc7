---------------------------- MODULE ThreadLoops ----------------------------
(***************************************************************************)
(* The loops of src/yolov8n_camera.cpp that run without end: what makes    *)
(* the program go on, and what makes it stop.                              *)
(*                                                                         *)
(* Pipeline follows the frames, and so only some of them; here the queues  *)
(* only count their items (CountedQueue), as many frames are captured as   *)
(* you like, and the user's key and the signals have a state of their own. *)
(*                                                                         *)
(* From the moment a queue is overtaken (see LockFreeQueue) it may find,   *)
(* lose and repeat anything: nothing is said then of what it holds, and    *)
(* the program may crash.                                                  *)
(***************************************************************************)
EXTENDS Integers, FiniteSets

CONSTANTS
  Depth,       \* the items a queue holds (4 in main)
  MaxRetries,  \* max_retries of the producer (30)
  FrameSkip,   \* one frame in FrameSkip is processed (3)
  MaxSignals   \* bound: the signals sent to the process

ASSUME LoopsAssumption ==
  /\ {Depth, FrameSkip} \subseteq Nat \ {0}
  /\ {MaxRetries, MaxSignals} \subseteq Nat

VARIABLES
  running,
  pc,                 \* where each thread is in its program
  hung,               \* the threads whose signal handler never returns
  signals,            \* history: how many signals there were
  pressed,            \* the window has a 'q' or ESC that waitKey has not read
  overtaken,          \* history: a queue has been overtaken, the counts are void
  frames, results,    \* the items in frame_queue and in result_queue
  frame_passed,       \* the frame that left last was dropped
  result_passed,      \* ... and the result
  empty_frame_retries,
  frame_skip_counter, \* modulo FrameSkip
  blanks              \* history: empty frames since the last proper one

counters == <<empty_frame_retries, frame_skip_counter, blanks>>
frameQueue  == <<frames, frame_passed>>
resultQueue == <<results, result_passed>>
queues      == <<frameQueue, resultQueue, overtaken>>
vars == <<running, pc, hung, signals, pressed, queues, counters>>

\* An enqueue is up to three steps: it may find the queue full, it makes room,
\* and it puts the item.
FQ == INSTANCE CountedQueue WITH
  items <- frames, passed <- frame_passed,
  full <- pc.producer = "full", reserved <- pc.producer = "put"

RQ == INSTANCE CountedQueue WITH
  items <- results, passed <- result_passed,
  full <- pc.consumer = "full", reserved <- pc.consumer = "put"

Threads == {"main", "producer", "consumer", "display"}

TypeOK ==
  /\ running \in BOOLEAN
  /\ pc \in [main     : {"setup", "join", "stats", "exited"},
             producer : {"unborn", "check", "capture", "clone", "full", "put",
                         "done"},
             consumer : {"unborn", "check", "dequeue", "got", "infer", "post",
                         "full", "put", "done"},
             display  : {"unborn", "open", "check", "dequeue", "draw", "key",
                         "close", "done"}]
  /\ hung \subseteq Threads
  /\ signals \in 0 .. MaxSignals
  /\ {pressed, overtaken} \subseteq BOOLEAN
  /\ ~overtaken => FQ!TypeOK /\ RQ!TypeOK
  /\ empty_frame_retries \in 0 .. MaxRetries + 1
  /\ frame_skip_counter \in 0 .. FrameSkip - 1
  /\ blanks \in 0 .. MaxRetries + 1

Init ==
  /\ running = TRUE
  /\ pc = [main |-> "setup", producer |-> "unborn", consumer |-> "unborn",
           display |-> "unborn"]
  /\ hung = {}
  /\ signals = 0
  /\ pressed = FALSE
  /\ overtaken = FALSE
  /\ FQ!Init
  /\ RQ!Init
  /\ empty_frame_retries = 0
  /\ frame_skip_counter = 0
  /\ blanks = 0

Over == pc.main = "exited"

\* Thread t goes on in its own program: no handler keeps it.
Goes(t, from, to) ==
  /\ ~Over
  /\ t \notin hung
  /\ pc[t] = from
  /\ pc' = [pc EXCEPT ![t] = to]
  /\ UNCHANGED <<hung, signals>>

\* ... and does nothing else that shows here.
Moves(t, from, to) ==
  /\ Goes(t, from, to)
  /\ UNCHANGED <<running, pressed, queues, counters>>

LoopTest(t, body, after) == Moves(t, "check", IF running THEN body ELSE after)

(***************************************************************************)
(* A step of one of the queues while thread t goes on.  It may be the one  *)
(* that overtakes, and says nothing from then on of what the queues hold.  *)
(***************************************************************************)
Counted(step, otherQueue) ==
  /\ ~overtaken
  /\ step
  /\ UNCHANGED <<otherQueue, overtaken>>

Uncounted ==
  /\ overtaken' = TRUE
  /\ frames' = 0 /\ frame_passed' = FALSE
  /\ results' = 0 /\ result_passed' = FALSE

QueueStep(t, from, to, step, otherQueue) ==
  /\ Goes(t, from, to)
  /\ Counted(step, otherQueue) \/ Uncounted
  /\ UNCHANGED <<running, pressed, counters>>

-----------------------------------------------------------------------------
(***************************************************************************)
(* main                                                                    *)
(***************************************************************************)
StartThreads == Moves("main", "setup", "join")

\* No camera, or no engine.
SetupFails == Moves("main", "setup", "exited")

\* main has logged that the threads were started, and joined all three.
Join ==
  /\ \A t \in Threads \ {"main"} : pc[t] = "done"
  /\ Moves("main", "join", "stats")

PrintStats == Moves("main", "stats", "exited")

ThreadBegins(t, first) ==
  /\ pc.main = "join"
  /\ Moves(t, "unborn", first)

Main == StartThreads \/ SetupFails \/ Join \/ PrintStats

(***************************************************************************)
(* signalHandler.  A signal to the process interrupts any thread of it.    *)
(* The handler builds a std::string and writes to std::cout before it      *)
(* clears running.  In a thread that was inside the allocator or the       *)
(* stream that is undefined: it may do, or wait for a lock its own thread  *)
(* holds.  The store is all that others see of it: it is one step.         *)
(***************************************************************************)

\* Only the test of running, a dequeue and the loads and stores of an enqueue
\* neither log nor allocate nor free anything.
InLibrary(t) == pc[t] \notin {"check", "dequeue", "full"}

Interrupts(t) ==
  /\ ~Over
  /\ t \notin hung
  /\ pc[t] \notin {"unborn", "done"}
  /\ signals < MaxSignals
  /\ signals' = signals + 1
  /\ UNCHANGED <<pc, pressed, queues, counters>>

\* Mutant of Signal: running is left true.
SignalLost(t) == Interrupts(t) /\ UNCHANGED <<running, hung>>

Signal(t) ==
  /\ Interrupts(t)
  /\ running' = FALSE
  /\ UNCHANGED hung

SignalHangs(t) ==
  /\ Interrupts(t)
  /\ InLibrary(t)
  /\ hung' = hung \cup {t}
  /\ UNCHANGED running

-----------------------------------------------------------------------------
(***************************************************************************)
(* producerThread                                                          *)
(***************************************************************************)
ProducerCheck == LoopTest("producer", "capture", "done")

CaptureEmpty ==
  /\ empty_frame_retries' = empty_frame_retries + 1
  /\ blanks' = blanks + 1
  /\ IF empty_frame_retries' > MaxRetries
     THEN Goes("producer", "capture", "done") /\ running' = FALSE
     ELSE Goes("producer", "capture", "check") /\ UNCHANGED running
  /\ UNCHANGED <<pressed, queues, frame_skip_counter>>

\* Mutant of CaptureFrame: the count of empty frames is not reset.
CaptureFrameCounting ==
  /\ Goes("producer", "capture", "clone")
  /\ blanks' = 0
  /\ UNCHANGED <<running, pressed, queues, empty_frame_retries,
                 frame_skip_counter>>

CaptureFrame ==
  /\ Goes("producer", "capture", "clone")
  /\ empty_frame_retries' = 0
  /\ blanks' = 0
  /\ UNCHANGED <<running, pressed, queues, frame_skip_counter>>

FindFullFrame == QueueStep("producer", "clone", "full", FQ!FindFull, resultQueue)

ReserveFrame ==
  \E from \in {"clone", "full"} :
    QueueStep("producer", from, "put", FQ!Reserve, resultQueue)

PutFrame == QueueStep("producer", "put", "check", FQ!Put, resultQueue)

Producer ==
  \/ ThreadBegins("producer", "check")
  \/ ProducerCheck \/ CaptureEmpty \/ CaptureFrame
  \/ FindFullFrame \/ ReserveFrame \/ PutFrame

-----------------------------------------------------------------------------
(***************************************************************************)
(* consumerThread                                                          *)
(***************************************************************************)
ConsumerCheck == LoopTest("consumer", "dequeue", "done")

NoFrame == QueueStep("consumer", "dequeue", "check", FQ!FindNothing, resultQueue)

TakeFrame == QueueStep("consumer", "dequeue", "got", FQ!Take, resultQueue)

\* Mutant of SkipOrKeep: the skipped frames are not counted.
SkipUncounted ==
  Moves("consumer", "got", IF (frame_skip_counter + 1) % FrameSkip # 0
                           THEN "check" ELSE "infer")

SkipOrKeep ==
  /\ frame_skip_counter' = (frame_skip_counter + 1) % FrameSkip
  /\ Goes("consumer", "got",
          IF frame_skip_counter' # 0 THEN "check" ELSE "infer")
  /\ UNCHANGED <<running, pressed, queues, empty_frame_retries, blanks>>

Infer == Moves("consumer", "infer", "post")

InferThrows == Moves("consumer", "infer", "check")

FindFullResult == QueueStep("consumer", "post", "full", RQ!FindFull, frameQueue)

ReserveResult ==
  \E from \in {"post", "full"} :
    QueueStep("consumer", from, "put", RQ!Reserve, frameQueue)

PutResult == QueueStep("consumer", "put", "check", RQ!Put, frameQueue)

Consumer ==
  \/ ThreadBegins("consumer", "check")
  \/ ConsumerCheck \/ NoFrame \/ TakeFrame \/ SkipOrKeep
  \/ Infer \/ InferThrows \/ FindFullResult \/ ReserveResult \/ PutResult

-----------------------------------------------------------------------------
(***************************************************************************)
(* displayThread                                                           *)
(***************************************************************************)
OpenWindow == Moves("display", "open", "check")

DisplayCheck == LoopTest("display", "dequeue", "close")

NoResult == QueueStep("display", "dequeue", "check", RQ!FindNothing, frameQueue)

TakeResult == QueueStep("display", "dequeue", "draw", RQ!Take, frameQueue)

Show == Moves("display", "draw", "key")

NoKey ==
  /\ ~pressed
  /\ Moves("display", "key", "check")

\* Mutant of QuitKey: the display leaves its loop, and no one else does.
QuitAlone ==
  /\ pressed
  /\ Goes("display", "key", "close")
  /\ pressed' = FALSE
  /\ UNCHANGED <<running, queues, counters>>

QuitKey ==
  /\ pressed
  /\ Goes("display", "key", "close")
  /\ pressed' = FALSE
  /\ running' = FALSE
  /\ UNCHANGED <<queues, counters>>

CloseWindow == Moves("display", "close", "done")

Display ==
  \/ ThreadBegins("display", "open")
  \/ OpenWindow \/ DisplayCheck \/ NoResult \/ TakeResult
  \/ Show \/ NoKey \/ QuitKey \/ CloseWindow

\* The user, while the display reads the keyboard now and then.
PressKey ==
  /\ ~pressed
  /\ ~Over
  /\ pc.display \notin {"unborn", "open", "close", "done"}
  /\ pressed' = TRUE
  /\ UNCHANGED <<running, pc, hung, signals, queues, counters>>

-----------------------------------------------------------------------------
(***************************************************************************)
(* The program may crash where it reads the output tensor, which is gone   *)
(* (the pointer that infer returns), and, once a queue has been            *)
(* overtaken, wherever a slot or an item of it is used.                    *)
(***************************************************************************)
Crash ==
  /\ ~Over
  /\ pc.consumer = "post" \/ overtaken
  /\ pc' = [pc EXCEPT !.main = "exited", !.producer = "done", !.consumer = "done",
                      !.display = "done"]
  /\ hung' = {}
  /\ pressed' = FALSE
  /\ Uncounted
  /\ UNCHANGED <<running, signals, counters>>

Ended == Over /\ UNCHANGED vars

Next ==
  \/ Main \/ Producer \/ Consumer \/ Display \/ PressKey \/ Crash \/ Ended
  \/ \E t \in Threads : Signal(t) \/ SignalHangs(t)

Spec == Init /\ [][Next]_vars

\* The scheduler runs every thread, and that is all.
FairSpec ==
  /\ Spec
  /\ WF_vars(Main) /\ WF_vars(Producer) /\ WF_vars(Consumer) /\ WF_vars(Display)

\* The camera delivers again and again, and the network does not always fail.
Working == SF_vars(CaptureFrame) /\ SF_vars(Infer)

-----------------------------------------------------------------------------
Stuck == hung # {}

(***************************************************************************)
(* A dequeue may find nothing in a queue that holds something: it loads    *)
(* head, an enqueue passes, and tail is where head was.  Nothing in the    *)
(* code keeps the enqueues of one thread from passing every dequeue of the *)
(* other, and from a queue that was overtaken anything may come.  So a     *)
(* thread may come to dequeue from a queue that is not empty for ever, and *)
(* get nothing.                                                            *)
(***************************************************************************)
Outrun ==
  \/ /\ []<>(pc.consumer = "dequeue" /\ (frames > 0 \/ overtaken))
     /\ <>[](pc.consumer # "got")
  \/ /\ []<>(pc.display = "dequeue" /\ (results > 0 \/ overtaken))
     /\ <>[](pc.display # "draw")

(***************************************************************************)
(* running is cleared for one of three reasons only: a signal, a key, or   *)
(* more than MaxRetries empty frames in a row.  A camera that loses frames *)
(* now and then, however many in all, does not end the program.            *)
(***************************************************************************)
StopsForAReason ==
  [][running /\ ~running' => \/ signals' > signals
                             \/ pressed /\ ~pressed'
                             \/ blanks' > MaxRetries]_vars

(***************************************************************************)
(* A signal ends the process, in whatever state it finds the four threads  *)
(* and whatever the camera, the network and the queues do, overtaken or    *)
(* not, unless the handler hangs before it has cleared running, as it may  *)
(* ("shutting down..." of line 29 is printed first).                       *)
(***************************************************************************)
SignalEnds == signals > 0 ~> Over \/ Stuck

(***************************************************************************)
(* With a working camera and network a key ends the process, in whatever   *)
(* state it finds the pipeline and whatever the queues lose, although the  *)
(* keyboard is only read after a picture has been shown, unless the        *)
(* dequeues are outrun for ever.  (Without a working camera it may not:    *)
(* "'q' or ESC to quit" of line 394 is true of a pipeline that delivers    *)
(* pictures only.)                                                         *)
(***************************************************************************)
KeyEnds == Working => (pressed ~> Over \/ Stuck) \/ Outrun

(***************************************************************************)
(* The pipeline does not starve, whatever its queues drop and the consumer *)
(* skips: with a working camera and network there are always pictures to   *)
(* come, until something stops the program, unless the dequeues are outrun *)
(* for ever.                                                               *)
(***************************************************************************)
KeepsShowing ==
  Working => []<>(pc.display = "key" \/ ~running \/ Over \/ Stuck) \/ Outrun
=============================================================================
