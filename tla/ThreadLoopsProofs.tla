-------------------------- MODULE ThreadLoopsProofs --------------------------
(***************************************************************************)
(* Proofs about the loops of src/yolov8n_camera.cpp, for queues of any     *)
(* depth, any number of retries and any number of signals.                 *)
(***************************************************************************)
EXTENDS ThreadLoops, TLAPS

\* The producer's count is that of the empty frames in a row, and while the
\* producer has not given up there were no more than it tolerates.
RetryInv ==
  /\ empty_frame_retries = blanks
  /\ pc.producer # "done" => blanks <= MaxRetries

LoopInv == TypeOK /\ RetryInv

\* Where the threads are, as TypeOK has it.
PCs == [main     : {"setup", "join", "stats", "exited"},
        producer : {"unborn", "check", "capture", "clone", "full", "put", "done"},
        consumer : {"unborn", "check", "dequeue", "got", "infer", "post", "full", "put",
                    "done"},
        display  : {"unborn", "open", "check", "dequeue", "draw", "key", "close",
                    "done"}]

LEMMA Constants ==
  /\ Depth \in Nat \ {0} /\ FrameSkip \in Nat \ {0}
  /\ MaxRetries \in Nat /\ MaxSignals \in Nat
BY LoopsAssumption

-----------------------------------------------------------------------------
(***************************************************************************)
(* The two queues.  Whatever a thread does, frame_queue and result_queue   *)
(* take a step of CountedQueue or none, unless one has been overtaken, and *)
(* so keep to its type invariant.                                          *)
(***************************************************************************)
QueueSteps == ~overtaken' => ~overtaken /\ [FQ!Next]_FQ!vars /\ [RQ!Next]_RQ!vars

\* A thread that neither enqueues nor dequeues leaves both queues alone.
LEMMA NoQueueStep ==
  ASSUME UNCHANGED queues,
         (pc.producer = "full") = (pc'.producer = "full"),
         (pc.producer = "put") = (pc'.producer = "put"),
         (pc.consumer = "full") = (pc'.consumer = "full"),
         (pc.consumer = "put") = (pc'.consumer = "put")
  PROVE  QueueSteps
BY DEF QueueSteps, queues, frameQueue, resultQueue, FQ!vars, RQ!vars

LEMMA MainQueues ==
  ASSUME pc \in PCs, Main
  PROVE  QueueSteps
<1>1. \E from, to : Moves("main", from, to)
  BY DEF Main, StartThreads, SetupFails, Join, PrintStats
<1>2. UNCHANGED queues /\ pc'.producer = pc.producer /\ pc'.consumer = pc.consumer
  BY <1>1 DEF Moves, Goes, PCs
<1>3. QED
  BY <1>2, NoQueueStep

LEMMA ProducerQueues ==
  ASSUME pc \in PCs, Producer
  PROVE  QueueSteps
<1>1. pc'.consumer = pc.consumer
  BY DEF Producer, ThreadBegins, ProducerCheck, LoopTest, CaptureEmpty, CaptureFrame,
         FindFullFrame, ReserveFrame, PutFrame, QueueStep, Moves, Goes, PCs
<1>2. CASE FindFullFrame \/ ReserveFrame \/ PutFrame
  <2>1. \/ FQ!FindFull \/ FQ!Reserve \/ FQ!Put \/ Uncounted
    BY <1>2 DEF FindFullFrame, ReserveFrame, PutFrame, QueueStep, Counted
  <2>2. ~Uncounted => ~overtaken /\ UNCHANGED <<resultQueue, overtaken>>
    BY <1>2 DEF FindFullFrame, ReserveFrame, PutFrame, QueueStep, Counted
  <2>3. QED
    BY <1>1, <2>1, <2>2 DEF Uncounted, QueueSteps, FQ!Next, RQ!vars, resultQueue
<1>3. CASE ~(FindFullFrame \/ ReserveFrame \/ PutFrame)
  <2>1. /\ UNCHANGED queues
        /\ pc.producer \notin {"full", "put"} /\ pc'.producer \notin {"full", "put"}
    BY <1>3 DEF Producer, ThreadBegins, ProducerCheck, LoopTest, CaptureEmpty,
                CaptureFrame, Moves, Goes, PCs
  <2>2. QED
    BY <1>1, <2>1, NoQueueStep
<1>4. QED
  BY <1>2, <1>3

LEMMA ConsumerQueues ==
  ASSUME pc \in PCs, Consumer
  PROVE  QueueSteps
<1>1. pc'.producer = pc.producer
  BY DEF Consumer, ThreadBegins, ConsumerCheck, LoopTest, NoFrame, TakeFrame, SkipOrKeep,
         Infer, InferThrows, FindFullResult, ReserveResult, PutResult, QueueStep, Moves,
         Goes, PCs
<1>2. CASE FindFullResult \/ ReserveResult \/ PutResult
  <2>1. \/ RQ!FindFull \/ RQ!Reserve \/ RQ!Put \/ Uncounted
    BY <1>2 DEF FindFullResult, ReserveResult, PutResult, QueueStep, Counted
  <2>2. ~Uncounted => ~overtaken /\ UNCHANGED <<frameQueue, overtaken>>
    BY <1>2 DEF FindFullResult, ReserveResult, PutResult, QueueStep, Counted
  <2>3. QED
    BY <1>1, <2>1, <2>2 DEF Uncounted, QueueSteps, RQ!Next, FQ!vars, frameQueue
<1>3. CASE NoFrame \/ TakeFrame
  <2>1. pc.consumer \notin {"full", "put"} /\ pc'.consumer \notin {"full", "put"}
    BY <1>3 DEF NoFrame, TakeFrame, QueueStep, Goes, PCs
  <2>2. FQ!FindNothing \/ FQ!Take \/ Uncounted
    BY <1>3 DEF NoFrame, TakeFrame, QueueStep, Counted
  <2>3. ~Uncounted => ~overtaken /\ UNCHANGED <<resultQueue, overtaken>>
    BY <1>3 DEF NoFrame, TakeFrame, QueueStep, Counted
  <2>4. QED
    BY <2>1, <2>2, <2>3 DEF Uncounted, QueueSteps, FQ!Next, RQ!vars, resultQueue
<1>4. CASE ~(\/ FindFullResult \/ ReserveResult \/ PutResult \/ NoFrame \/ TakeFrame)
  <2>1. /\ UNCHANGED queues
        /\ pc.consumer \notin {"full", "put"} /\ pc'.consumer \notin {"full", "put"}
    BY <1>4 DEF Consumer, ThreadBegins, ConsumerCheck, LoopTest, SkipOrKeep, Infer,
                InferThrows, Moves, Goes, PCs
  <2>2. QED
    BY <1>1, <2>1, NoQueueStep
<1>5. QED
  BY <1>2, <1>3, <1>4

LEMMA DisplayQueues ==
  ASSUME pc \in PCs, Display
  PROVE  QueueSteps
<1>1. pc'.producer = pc.producer /\ pc'.consumer = pc.consumer
  BY DEF Display, ThreadBegins, OpenWindow, DisplayCheck, LoopTest, NoResult, TakeResult,
         Show, NoKey, QuitKey, CloseWindow, QueueStep, Moves, Goes, PCs
<1>2. CASE NoResult \/ TakeResult
  <2>1. RQ!FindNothing \/ RQ!Take \/ Uncounted
    BY <1>2 DEF NoResult, TakeResult, QueueStep, Counted
  <2>2. ~Uncounted => ~overtaken /\ UNCHANGED <<frameQueue, overtaken>>
    BY <1>2 DEF NoResult, TakeResult, QueueStep, Counted
  <2>3. QED
    BY <1>1, <2>1, <2>2 DEF Uncounted, QueueSteps, RQ!Next, FQ!vars, frameQueue
<1>3. CASE ~NoResult /\ ~TakeResult
  <2>1. UNCHANGED queues
    BY <1>3 DEF Display, ThreadBegins, OpenWindow, DisplayCheck, LoopTest, Show, NoKey,
                QuitKey, CloseWindow, Moves
  <2>2. QED
    BY <1>1, <2>1, NoQueueStep
<1>4. QED
  BY <1>2, <1>3

LEMMA EveryStepQueues ==
  ASSUME pc \in PCs, [Next]_vars
  PROVE  QueueSteps
<1>1. CASE PressKey \/ Ended \/ UNCHANGED vars
  <2>1. UNCHANGED <<queues, pc>>
    BY <1>1 DEF PressKey, Ended, vars
  <2>2. QED
    BY <2>1, NoQueueStep
<1>2. ASSUME NEW t \in Threads, Signal(t) \/ SignalHangs(t)
      PROVE  QueueSteps
  <2>1. UNCHANGED <<queues, pc>>
    BY <1>2 DEF Signal, SignalHangs, Interrupts
  <2>2. QED
    BY <2>1, NoQueueStep
<1>3. CASE Crash
  BY <1>3 DEF Crash, Uncounted, QueueSteps
<1>4. QED
  BY <1>1, <1>2, <1>3, MainQueues, ProducerQueues, ConsumerQueues, DisplayQueues DEF Next

\* A counted queue keeps between no and Depth items.
LEMMA FrameQueueKept == FQ!TypeOK /\ [FQ!Next]_FQ!vars => FQ!TypeOK'
<1> SUFFICES ASSUME FQ!TypeOK, [FQ!Next]_FQ!vars PROVE FQ!TypeOK'
  OBVIOUS
<1> USE Constants DEF FQ!TypeOK
<1>1. CASE FQ!Reserve
  <2>1. frame_passed' \in BOOLEAN
    BY <1>1 DEF FQ!Reserve
  <2>2. frames' \in 0 .. Depth /\ frames' < Depth
    BY <1>1 DEF FQ!Reserve
  <2>3. QED
    BY <1>1, <2>1, <2>2 DEF FQ!Reserve
<1>2. CASE FQ!Put
  BY <1>2 DEF FQ!Put
<1>3. CASE FQ!Take
  <2>1. frame_passed' \in BOOLEAN
    BY <1>3 DEF FQ!Take
  <2>2. frames' \in 0 .. Depth /\ frames' <= frames
    BY <1>3 DEF FQ!Take
  <2>3. QED
    BY <1>3, <2>1, <2>2 DEF FQ!Take
<1>4. CASE FQ!FindNothing \/ UNCHANGED FQ!vars
  BY <1>4 DEF FQ!FindNothing, FQ!vars
<1>5. CASE FQ!FindFull
  BY <1>5 DEF FQ!FindFull
<1>6. QED
  BY <1>1, <1>2, <1>3, <1>4, <1>5 DEF FQ!Next

\* ... and so does the other.
LEMMA ResultQueueKept == RQ!TypeOK /\ [RQ!Next]_RQ!vars => RQ!TypeOK'
<1> SUFFICES ASSUME RQ!TypeOK, [RQ!Next]_RQ!vars PROVE RQ!TypeOK'
  OBVIOUS
<1> USE Constants DEF RQ!TypeOK
<1>1. CASE RQ!Reserve
  <2>1. result_passed' \in BOOLEAN
    BY <1>1 DEF RQ!Reserve
  <2>2. results' \in 0 .. Depth /\ results' < Depth
    BY <1>1 DEF RQ!Reserve
  <2>3. QED
    BY <1>1, <2>1, <2>2 DEF RQ!Reserve
<1>2. CASE RQ!Put
  BY <1>2 DEF RQ!Put
<1>3. CASE RQ!Take
  <2>1. result_passed' \in BOOLEAN
    BY <1>3 DEF RQ!Take
  <2>2. results' \in 0 .. Depth /\ results' <= results
    BY <1>3 DEF RQ!Take
  <2>3. QED
    BY <1>3, <2>1, <2>2 DEF RQ!Take
<1>4. CASE RQ!FindNothing \/ UNCHANGED RQ!vars
  BY <1>4 DEF RQ!FindNothing, RQ!vars
<1>5. CASE RQ!FindFull
  BY <1>5 DEF RQ!FindFull
<1>6. QED
  BY <1>1, <1>2, <1>3, <1>4, <1>5 DEF RQ!Next

-----------------------------------------------------------------------------
(***************************************************************************)
(* The rest of the type invariant: the threads, the flag, the signals and  *)
(* the counters.                                                           *)
(***************************************************************************)
ControlInv ==
  /\ running \in BOOLEAN
  /\ pc \in PCs
  /\ hung \subseteq Threads
  /\ signals \in 0 .. MaxSignals
  /\ pressed \in BOOLEAN
  /\ overtaken \in BOOLEAN
  /\ frame_skip_counter \in 0 .. FrameSkip - 1
  /\ blanks \in 0 .. MaxRetries + 1
  /\ RetryInv

CountsInv == ~overtaken => FQ!TypeOK /\ RQ!TypeOK

LEMMA LoopInvParts == LoopInv <=> ControlInv /\ CountsInv
BY DEF LoopInv, TypeOK, ControlInv, CountsInv, RetryInv, PCs

LEMMA LoopInvInit == Init => LoopInv
<1> SUFFICES ASSUME Init PROVE ControlInv /\ CountsInv
  BY LoopInvParts
<1>1. pc \in PCs /\ pc.producer = "unborn" /\ pc.consumer = "unborn"
  BY DEF Init, PCs
<1>2. /\ 0 \in 0 .. MaxSignals /\ 0 \in 0 .. Depth /\ 0 \in 0 .. MaxRetries + 1
      /\ 0 \in 0 .. FrameSkip - 1 /\ 0 <= MaxRetries
  BY Constants
<1>3. ControlInv
  BY <1>1, <1>2 DEF Init, ControlInv, RetryInv
<1>4. FQ!TypeOK /\ RQ!TypeOK
  BY <1>1, <1>2 DEF Init, FQ!Init, RQ!Init, FQ!TypeOK, RQ!TypeOK
<1>5. QED
  BY <1>3, <1>4 DEF CountsInv

\* No step unmakes an overtaking.
LEMMA OvertakenNext ==
  ASSUME ControlInv, [Next]_vars
  PROVE  overtaken' \in BOOLEAN
<1>1. CASE \/ FindFullFrame \/ ReserveFrame \/ PutFrame \/ NoFrame \/ TakeFrame
           \/ FindFullResult \/ ReserveResult \/ PutResult \/ NoResult \/ TakeResult
  BY <1>1 DEF FindFullFrame, ReserveFrame, PutFrame, NoFrame, TakeFrame, FindFullResult,
              ReserveResult, PutResult, NoResult, TakeResult, QueueStep, Counted,
              Uncounted, ControlInv
<1>2. CASE Crash
  BY <1>2 DEF Crash, Uncounted
<1>3. ASSUME UNCHANGED overtaken
      PROVE  overtaken' \in BOOLEAN
  BY <1>3 DEF ControlInv
<1>4. CASE Main \/ PressKey \/ Ended \/ UNCHANGED vars
  BY <1>3, <1>4 DEF Main, StartThreads, SetupFails, Join, PrintStats, PressKey, Ended,
                    Moves, queues, vars
<1>5. ASSUME NEW t \in Threads, Signal(t) \/ SignalHangs(t)
      PROVE  overtaken' \in BOOLEAN
  BY <1>3, <1>5 DEF Signal, SignalHangs, Interrupts, queues
<1>6. ASSUME NEW t, NEW first, ThreadBegins(t, first)
      PROVE  overtaken' \in BOOLEAN
  BY <1>3, <1>6 DEF ThreadBegins, Moves, queues
<1>7. CASE \/ ProducerCheck \/ CaptureEmpty \/ CaptureFrame \/ ConsumerCheck
           \/ SkipOrKeep \/ Infer \/ InferThrows \/ OpenWindow \/ DisplayCheck \/ Show
           \/ NoKey \/ QuitKey \/ CloseWindow
  BY <1>3, <1>7 DEF ProducerCheck, CaptureEmpty, CaptureFrame, ConsumerCheck, SkipOrKeep,
                    Infer, InferThrows, OpenWindow, DisplayCheck, Show, NoKey, QuitKey,
                    CloseWindow, LoopTest, Moves, queues
<1>8. QED
  BY <1>1, <1>2, <1>4, <1>5, <1>6, <1>7 DEF Next, Producer, Consumer, Display

(***************************************************************************)
(* What a step does to the rest of ControlInv, actor by actor.             *)
(***************************************************************************)
ControlNext ==
  /\ running' \in BOOLEAN
  /\ pc' \in PCs
  /\ hung' \subseteq Threads
  /\ signals' \in 0 .. MaxSignals
  /\ pressed' \in BOOLEAN
  /\ frame_skip_counter' \in 0 .. FrameSkip - 1
  /\ blanks' \in 0 .. MaxRetries + 1
  /\ RetryInv'

\* Every step of main is that of one thread moving on.
LEMMA MainStep ==
  ASSUME ControlInv, Main
  PROVE  ControlNext
<1>1. \E from, to \in {"setup", "join", "stats", "exited"} : Moves("main", from, to)
  BY DEF Main, StartThreads, SetupFails, Join, PrintStats
<1>2. pc' \in PCs /\ pc'.producer = pc.producer
  BY <1>1 DEF ControlInv, PCs, Moves, Goes
<1>3. UNCHANGED <<running, hung, signals, pressed, counters>>
  BY <1>1 DEF Moves, Goes
<1>4. QED
  BY <1>2, <1>3 DEF ControlInv, ControlNext, RetryInv, counters

LEMMA ProducerStep ==
  ASSUME ControlInv, Producer
  PROVE  ControlNext
<1>0. /\ pc \in PCs /\ running \in BOOLEAN
      /\ empty_frame_retries = blanks /\ blanks \in 0 .. MaxRetries + 1
      /\ pc.producer # "done" => blanks <= MaxRetries
  BY DEF ControlInv, RetryInv
<1>1. CASE \/ ThreadBegins("producer", "check") \/ ProducerCheck
           \/ FindFullFrame \/ ReserveFrame \/ PutFrame
  <2>1. /\ pc.producer # "done" /\ pc' \in PCs
        /\ UNCHANGED <<running, hung, signals, pressed, counters>>
    BY <1>0, <1>1 DEF ThreadBegins, ProducerCheck, LoopTest, FindFullFrame, ReserveFrame,
                      PutFrame, QueueStep, Moves, Goes, PCs
  <2>2. QED
    BY <1>0, <2>1 DEF ControlInv, ControlNext, RetryInv, counters
<1>2. CASE CaptureEmpty
  <2>1. /\ pc.producer = "capture" /\ pc' \in PCs
        /\ pc'.producer = IF blanks + 1 > MaxRetries THEN "done" ELSE "check"
        /\ empty_frame_retries' = blanks + 1 /\ blanks' = blanks + 1
        /\ UNCHANGED <<hung, signals, pressed, frame_skip_counter>>
    BY <1>0, <1>2 DEF CaptureEmpty, Goes, PCs
  <2>2. running' = FALSE \/ running' = running
    BY <1>2 DEF CaptureEmpty
  <2>3. blanks' \in 0 .. MaxRetries + 1
    BY <1>0, <2>1, Constants
  <2>4. RetryInv'
    BY <1>0, <2>1, Constants DEF RetryInv
  <2>5. running' \in BOOLEAN
    BY <1>0, <2>2
  <2>6. QED
    BY <1>0, <2>1, <2>3, <2>4, <2>5 DEF ControlInv, ControlNext
<1>3. CASE CaptureFrame
  <2>1. /\ pc' \in PCs /\ pc'.producer = "clone"
        /\ empty_frame_retries' = 0 /\ blanks' = 0
        /\ UNCHANGED <<running, hung, signals, pressed, frame_skip_counter>>
    BY <1>0, <1>3 DEF CaptureFrame, Goes, PCs
  <2>2. QED
    BY <1>0, <2>1, Constants DEF ControlInv, ControlNext, RetryInv
<1>4. QED
  BY <1>1, <1>2, <1>3 DEF Producer

LEMMA ConsumerStep ==
  ASSUME ControlInv, Consumer
  PROVE  ControlNext
<1>0. pc \in PCs
  BY DEF ControlInv
<1>1. /\ pc' \in PCs /\ pc'.producer = pc.producer
      /\ UNCHANGED <<running, hung, signals, pressed, empty_frame_retries, blanks>>
  BY <1>0 DEF Consumer, ThreadBegins, ConsumerCheck, LoopTest, NoFrame, TakeFrame,
              SkipOrKeep, Infer, InferThrows, FindFullResult, ReserveResult, PutResult,
              QueueStep, Moves, Goes, PCs, counters
<1>2. frame_skip_counter' \in 0 .. FrameSkip - 1
  <2>1. \/ frame_skip_counter' = (frame_skip_counter + 1) % FrameSkip
        \/ UNCHANGED frame_skip_counter
    BY DEF Consumer, ThreadBegins, ConsumerCheck, LoopTest, NoFrame, TakeFrame,
           SkipOrKeep, Infer, InferThrows, FindFullResult, ReserveResult, PutResult,
           QueueStep, Moves, counters
  <2>2. QED
    BY <2>1, Constants DEF ControlInv
<1>3. QED
  BY <1>1, <1>2 DEF ControlInv, ControlNext, RetryInv

LEMMA DisplayStep ==
  ASSUME ControlInv, Display
  PROVE  ControlNext
<1>0. pc \in PCs
  BY DEF ControlInv
<1>1. /\ pc' \in PCs /\ pc'.producer = pc.producer
      /\ UNCHANGED <<hung, signals, counters>>
  BY <1>0 DEF Display, ThreadBegins, OpenWindow, DisplayCheck, LoopTest, NoResult,
              TakeResult, Show, NoKey, QuitKey, CloseWindow, QueueStep, Moves, Goes, PCs
<1>2. running' \in BOOLEAN /\ pressed' \in BOOLEAN
  BY DEF Display, ThreadBegins, OpenWindow, DisplayCheck, LoopTest, NoResult, TakeResult,
         Show, NoKey, QuitKey, CloseWindow, QueueStep, Moves, ControlInv
<1>3. QED
  BY <1>1, <1>2 DEF ControlInv, ControlNext, RetryInv, counters

LEMMA SignalStep ==
  ASSUME ControlInv, NEW t \in Threads, Signal(t) \/ SignalHangs(t)
  PROVE  ControlNext
<1>1. hung' \subseteq Threads
  BY DEF Signal, SignalHangs, Interrupts, ControlInv
<1>2. signals' \in 0 .. MaxSignals
  <2>1. signals \in 0 .. MaxSignals /\ signals < MaxSignals /\ signals' = signals + 1
    BY DEF Signal, SignalHangs, Interrupts, ControlInv
  <2>2. QED
    BY <2>1, Constants
<1>3. running' \in BOOLEAN
  BY DEF Signal, SignalHangs, Interrupts, ControlInv
<1>4. UNCHANGED <<pc, pressed, counters>>
  BY DEF Signal, SignalHangs, Interrupts
<1>5. QED
  BY <1>1, <1>2, <1>3, <1>4 DEF ControlInv, ControlNext, RetryInv, counters

LEMMA LoopInvStep == LoopInv /\ [Next]_vars => LoopInv'
<1> SUFFICES ASSUME ControlInv, CountsInv, [Next]_vars
             PROVE  ControlInv' /\ CountsInv'
  BY LoopInvParts
     DEF LoopInv, TypeOK, ControlInv, CountsInv, RetryInv, PCs
<1>1. ASSUME PressKey PROVE ControlNext
  BY <1>1 DEF PressKey, ControlInv, ControlNext, RetryInv, counters
<1>2. ASSUME Ended \/ UNCHANGED vars PROVE ControlNext
  BY <1>2 DEF Ended, vars, ControlInv, ControlNext, RetryInv, counters
<1>3. ASSUME Crash PROVE ControlNext
  <2>1. pc' \in PCs /\ pc'.producer = "done"
    BY <1>3 DEF Crash, ControlInv, PCs
  <2>2. QED
    BY <1>3, <2>1 DEF Crash, ControlInv, ControlNext, RetryInv, counters
<1>4. ControlNext
  BY <1>1, <1>2, <1>3, MainStep, ProducerStep, ConsumerStep, DisplayStep, SignalStep
     DEF Next
<1>5. ControlInv'
  BY <1>4, OvertakenNext DEF ControlInv, ControlNext
<1>6. QueueSteps
  BY EveryStepQueues DEF ControlInv
<1>7. CountsInv'
  BY <1>6, FrameQueueKept, ResultQueueKept DEF QueueSteps, CountsInv
<1>8. QED
  BY <1>5, <1>7

LEMMA LoopInvCorrect == Spec => []LoopInv
BY LoopInvInit, LoopInvStep, PTL DEF Spec

(***************************************************************************)
(* What is proved of the counted queue is what the loops rely on: until a  *)
(* queue is overtaken, both take no steps but its steps.                   *)
(* LockFreeQueueProofs shows that the ring takes no others either.         *)
(***************************************************************************)
THEOREM QueuesCount ==
  Spec => /\ FQ!Init /\ RQ!Init
          /\ [][~overtaken' => [FQ!Next]_FQ!vars /\ [RQ!Next]_RQ!vars]_vars
<1>1. Init => FQ!Init /\ RQ!Init
  BY DEF Init
<1>2. LoopInv /\ [Next]_vars =>
        [~overtaken' => [FQ!Next]_FQ!vars /\ [RQ!Next]_RQ!vars]_vars
  BY EveryStepQueues, LoopInvParts DEF QueueSteps, ControlInv
<1>3. QED
  BY <1>1, <1>2, LoopInvCorrect, PTL DEF Spec

(***************************************************************************)
(* Threads and counters keep to their values; in particular the producer   *)
(* leaves its loop before it could count a second empty frame more than it *)
(* is allowed, and no queue that has not been overtaken holds more items   *)
(* than it can.                                                            *)
(***************************************************************************)
THEOREM LoopsTypeCorrect == Spec => []TypeOK
<1>1. LoopInv => TypeOK
  BY DEF LoopInv
<1>2. QED
  BY <1>1, LoopInvCorrect, PTL

(***************************************************************************)
(* Nothing but a signal, a key or a run of more than MaxRetries empty      *)
(* frames clears running.                                                  *)
(***************************************************************************)
THEOREM StopsOnlyForAReason == Spec => StopsForAReason
<1> DEFINE Reason == \/ signals' > signals
                     \/ pressed /\ ~pressed'
                     \/ blanks' > MaxRetries
<1>1. LoopInv /\ [Next]_vars => [running /\ ~running' => Reason]_vars
  <2> SUFFICES ASSUME LoopInv, Next, running, ~running' PROVE Reason
    OBVIOUS
  <2>1. CASE CaptureEmpty
    BY <2>1 DEF LoopInv, RetryInv, CaptureEmpty
  <2>2. CASE QuitKey
    BY <2>2 DEF QuitKey
  <2>3. ASSUME NEW t \in Threads, Signal(t) PROVE Reason
    <3>1. signals \in Int /\ signals' = signals + 1
      BY <2>3, Constants DEF Signal, Interrupts, LoopInv, TypeOK
    <3>2. QED
      BY <3>1
  <2>4. ASSUME ~CaptureEmpty, ~QuitKey, ~(\E t \in Threads : Signal(t)) PROVE FALSE
    BY <2>4
       DEF Next, Main, StartThreads, SetupFails, Join, PrintStats, Producer,
           ThreadBegins, ProducerCheck, LoopTest, CaptureFrame, FindFullFrame,
           ReserveFrame, PutFrame, Consumer, ConsumerCheck, NoFrame, TakeFrame,
           SkipOrKeep, Infer, InferThrows, FindFullResult, ReserveResult, PutResult,
           Display, OpenWindow, DisplayCheck, NoResult, TakeResult, Show, NoKey,
           CloseWindow, QueueStep, Moves, PressKey, Crash, Ended, vars, SignalHangs
  <2>5. QED
    BY <2>1, <2>2, <2>3, <2>4
<1>2. QED
  BY <1>1, LoopInvCorrect, PTL DEF Spec, StopsForAReason
=============================================================================
