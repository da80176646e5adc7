--------------------------- MODULE PipelineProofs ---------------------------
(***************************************************************************)
(* Proofs about the pipeline of src/yolov8n_camera.cpp, for queues of any  *)
(* number of slots, any FrameSkip and MaxRetries, and any number of frames *)
(* and results.  What is proved of the ring in LockFreeQueueProofs is used *)
(* for both queues.                                                        *)
(***************************************************************************)
EXTENDS FrameBuffers, SequenceTheorems, TLAPS

FP == INSTANCE LockFreeQueueProofs WITH
  BufferCapacity <- FrameSlots, MaxItems <- MaxFrames,
  buffer <- fBuffer, head <- fHead, tail <- fTail, enq <- fEnq, deq <- fDeq,
  overlap <- fOverlap, published <- fPublished, delivered <- fDelivered,
  overtaken <- fOvertaken

RP == INSTANCE LockFreeQueueProofs WITH
  BufferCapacity <- ResultSlots, MaxItems <- MaxResults,
  buffer <- rBuffer, head <- rHead, tail <- rTail, enq <- rEnq, deq <- rDeq,
  overlap <- rOverlap, published <- rPublished, delivered <- rDelivered,
  overtaken <- rOvertaken

-----------------------------------------------------------------------------
(***************************************************************************)
(* The two queues are rings: their names in Pipeline and in the proofs     *)
(* stand for the same formulas.                                            *)
(***************************************************************************)

\* frame_queue is the ring of LockFreeQueueProofs.
LEMMA SameFrameQueue ==
  /\ FQ!Init <=> FP!Init
  /\ FQ!TypeOK <=> FP!TypeOK
  /\ FQ!EnqueueBegin <=> FP!EnqueueBegin
  /\ FQ!Enqueue <=> FP!Enqueue
  /\ FQ!Dequeue <=> FP!Dequeue
  /\ UNCHANGED frameQueue => UNCHANGED FP!vars
<1> USE DEF FQ!Slots, FP!Slots, FQ!Items, FP!Items, FQ!Empty, FP!Empty, FQ!Torn,
            FP!Torn, FQ!Nullopt, FP!Nullopt, FQ!Following, FP!Following,
            FQ!history, FP!history
<1>1. FQ!Init <=> FP!Init
  BY DEF FQ!Init, FP!Init
<1>2. FQ!TypeOK <=> FP!TypeOK
  BY DEF FQ!TypeOK, FP!TypeOK, FQ!EnqPCs, FP!EnqPCs, FQ!DeqPCs, FP!DeqPCs
<1>3. FQ!EnqueueBegin <=> FP!EnqueueBegin
  BY DEF FQ!EnqueueBegin, FP!EnqueueBegin, FQ!IsFull, FP!IsFull
<1>4. FQ!Enqueue <=> FP!Enqueue
  BY <1>3 DEF FQ!Enqueue, FP!Enqueue, FQ!ReloadHead, FP!ReloadHead, FQ!DropOldest,
     FP!DropOldest, FQ!WriteBegin, FP!WriteBegin, FQ!WriteEnd, FP!WriteEnd,
     FQ!PublishTail, FP!PublishTail, FQ!IsEmpty, FP!IsEmpty, FQ!TooLate,
     FP!TooLate, FQ!SameSlot, FP!SameSlot, FQ!Outcomes, FP!Outcomes
<1>5. FQ!Dequeue <=> FP!Dequeue
  BY DEF FQ!Dequeue, FP!Dequeue, FQ!DequeueBegin, FP!DequeueBegin, FQ!DequeueEmpty,
     FP!DequeueEmpty, FQ!DequeueFound, FP!DequeueFound, FQ!MoveBegin, FP!MoveBegin,
     FQ!MoveEnd, FP!MoveEnd, FQ!StoreHead, FP!StoreHead, FQ!SameSlot, FP!SameSlot,
     FQ!Outcomes, FP!Outcomes
<1>6. UNCHANGED frameQueue => UNCHANGED FP!vars
  BY DEF frameQueue, FP!vars, FP!queue
<1>7. QED
  BY <1>1, <1>2, <1>3, <1>4, <1>5, <1>6

\* result_queue is the ring of LockFreeQueueProofs.
LEMMA SameResultQueue ==
  /\ RQ!Init <=> RP!Init
  /\ RQ!TypeOK <=> RP!TypeOK
  /\ RQ!EnqueueBegin <=> RP!EnqueueBegin
  /\ RQ!Enqueue <=> RP!Enqueue
  /\ RQ!Dequeue <=> RP!Dequeue
  /\ UNCHANGED resultQueue => UNCHANGED RP!vars
<1> USE DEF RQ!Slots, RP!Slots, RQ!Items, RP!Items, RQ!Empty, RP!Empty, RQ!Torn,
            RP!Torn, RQ!Nullopt, RP!Nullopt, RQ!Following, RP!Following,
            RQ!history, RP!history
<1>1. RQ!Init <=> RP!Init
  BY DEF RQ!Init, RP!Init
<1>2. RQ!TypeOK <=> RP!TypeOK
  BY DEF RQ!TypeOK, RP!TypeOK, RQ!EnqPCs, RP!EnqPCs, RQ!DeqPCs, RP!DeqPCs
<1>3. RQ!EnqueueBegin <=> RP!EnqueueBegin
  BY DEF RQ!EnqueueBegin, RP!EnqueueBegin, RQ!IsFull, RP!IsFull
<1>4. RQ!Enqueue <=> RP!Enqueue
  BY <1>3 DEF RQ!Enqueue, RP!Enqueue, RQ!ReloadHead, RP!ReloadHead, RQ!DropOldest,
     RP!DropOldest, RQ!WriteBegin, RP!WriteBegin, RQ!WriteEnd, RP!WriteEnd,
     RQ!PublishTail, RP!PublishTail, RQ!IsEmpty, RP!IsEmpty, RQ!TooLate,
     RP!TooLate, RQ!SameSlot, RP!SameSlot, RQ!Outcomes, RP!Outcomes
<1>5. RQ!Dequeue <=> RP!Dequeue
  BY DEF RQ!Dequeue, RP!Dequeue, RQ!DequeueBegin, RP!DequeueBegin, RQ!DequeueEmpty,
     RP!DequeueEmpty, RQ!DequeueFound, RP!DequeueFound, RQ!MoveBegin, RP!MoveBegin,
     RQ!MoveEnd, RP!MoveEnd, RQ!StoreHead, RP!StoreHead, RQ!SameSlot, RP!SameSlot,
     RQ!Outcomes, RP!Outcomes
<1>6. UNCHANGED resultQueue => UNCHANGED RP!vars
  BY DEF resultQueue, RP!vars, RP!queue
<1>7. QED
  BY <1>1, <1>2, <1>3, <1>4, <1>5, <1>6

\* A step of the program is a step of each ring, or leaves it alone.
LEMMA FrameQueueStep == [Next]_vars => [FP!Next]_FP!vars
<1> SUFFICES ASSUME [Next]_vars PROVE [FP!Next]_FP!vars
  OBVIOUS
<1>1. CASE Main \/ SignalHandler \/ ReadCrashes \/ Display \/ Ended \/ UNCHANGED vars
  BY <1>1, SameFrameQueue
     DEF Main, OpenCamera, LoadEngine, StartThreads, JoinProducer, JoinConsumer,
         JoinDisplay, PrintStats, MainStep, SignalHandler, ReadCrashes, KeepThreads,
         Display, DisplayCheck, DequeueResult, Show, ShowThrows, NoKey, QuitKey,
         DisplayStep, Ended, vars
<1>2. CASE Producer
  BY <1>2, SameFrameQueue
     DEF Producer, ProducerCheck, CaptureEmpty, CaptureFrame, EnqueueFrame, FP!Next,
         FP!Enqueue
<1>3. CASE Consumer
  BY <1>3, SameFrameQueue
     DEF Consumer, SkipOrKeep, ConsumerCheck, DequeueFrame, SkipFrame, KeepFrame,
         Preprocess, PreprocessThrows, Infer, InferThrows, Postprocess, EnqueueResult,
         FP!Next
<1>4. QED
  BY <1>1, <1>2, <1>3 DEF Next

LEMMA ResultQueueStep == [Next]_vars => [RP!Next]_RP!vars
<1> SUFFICES ASSUME [Next]_vars PROVE [RP!Next]_RP!vars
  OBVIOUS
<1>1. CASE Main \/ SignalHandler \/ ReadCrashes \/ Producer \/ Ended \/ UNCHANGED vars
  BY <1>1, SameResultQueue
     DEF Main, OpenCamera, LoadEngine, StartThreads, JoinProducer, JoinConsumer,
         JoinDisplay, PrintStats, MainStep, SignalHandler, ReadCrashes, KeepThreads,
         Producer, ProducerCheck, CaptureEmpty, CaptureFrame, EnqueueFrame,
         ProducerStep, Ended, vars
<1>2. CASE Consumer
  BY <1>2, SameResultQueue
     DEF Consumer, SkipOrKeep, ConsumerCheck, DequeueFrame, SkipFrame, KeepFrame,
         Preprocess, PreprocessThrows, Infer, InferThrows, Postprocess, EnqueueResult,
         RP!Next, RP!Enqueue
<1>3. CASE Display
  BY <1>3, SameResultQueue
     DEF Display, DisplayCheck, DequeueResult, Show, ShowThrows, NoKey, QuitKey,
         RP!Next
<1>4. QED
  BY <1>1, <1>2, <1>3 DEF Next

-----------------------------------------------------------------------------
(***************************************************************************)
(* The inductive invariant, in parts.                                      *)
(***************************************************************************)

\* Threads start when main has started them, and main joins them in order.
ThreadInv ==
  /\ mainPc \in {"open", "engine", "spawn", "failed"} =>
       producerPc = "unborn" /\ consumerPc = "unborn" /\ displayPc = "unborn"
  /\ mainPc \in {"join consumer", "join display", "stats", "exited"} =>
       producerPc = "done"
  /\ mainPc \in {"join display", "stats", "exited"} => consumerPc = "done"
  /\ mainPc \in {"stats", "exited"} => displayPc = "done"

\* Where the calls of the queues and the loops around them stand.
CallsInv ==
  /\ producerPc # "done" => emptyRetries <= MaxRetries
  /\ consumerPc = "enqueue" => rEnq.pc # "idle"
  /\ consumerPc = "got" => fDeq.pc = "idle" /\ fDeq.item # Nullopt
  /\ displayPc = "got" => rDeq.pc = "idle" /\ rDeq.item # Nullopt
  /\ Len(results) = RP!Given
  /\ recorded = rPublished

\* The tensor is that of the frame the consumer holds, and of no other.
TensorInv ==
  /\ consumerPc \in {"infer", "post"} => tensor = frame
  /\ InputMatchesFrame

QueuesInv == FP!UseInv /\ RP!UseInv

BaseInv == QueuesInv /\ TypeOK /\ ThreadInv /\ CallsInv

\* The calls and the counts of the two queues keep to their values.
LEMMA QueueTypes ==
  ASSUME QueuesInv
  PROVE  /\ FQ!TypeOK /\ RQ!TypeOK
         /\ fDeq.item \in Int /\ rDeq.item \in Int
         /\ fPublished \in Nat /\ rPublished \in Nat
         /\ fDelivered \in Nat /\ rDelivered \in Nat
         /\ FP!Given \in Nat /\ RP!Given \in Nat
<1>1. FP!TypeOK /\ RP!TypeOK
  BY DEF QueuesInv, FP!UseInv, FP!IInv, RP!UseInv, RP!IInv
<1>2. QED
  BY <1>1, SameFrameQueue, SameResultQueue, PipelineAssumption
     DEF FP!TypeOK, RP!TypeOK, FP!Given, RP!Given, FP!Items, RP!Items, FP!Empty,
         RP!Empty, FP!Torn, RP!Torn, FP!Nullopt, RP!Nullopt

LEMMA QueueTypesNext == QueuesInv' => FQ!TypeOK' /\ RQ!TypeOK'
<1>1. QueuesInv => FQ!TypeOK /\ RQ!TypeOK
  BY QueueTypes
<1>2. QED
  BY <1>1, PTL

LEMMA QueuesInvInit == Init => QueuesInv
BY SameFrameQueue, SameResultQueue, FP!UseInvInit, RP!UseInvInit, PipelineAssumption
   DEF Init, QueuesInv

LEMMA QueuesInvStep == QueuesInv /\ [Next]_vars => QueuesInv'
BY FrameQueueStep, ResultQueueStep, FP!UseInvStep, RP!UseInvStep, PipelineAssumption
   DEF QueuesInv

LEMMA BaseInvInit == Init => BaseInv
<1> SUFFICES ASSUME Init PROVE BaseInv
  OBVIOUS
<1>1. QueuesInv
  BY QueuesInvInit
<1>2. TypeOK
  <2>1. FQ!TypeOK /\ RQ!TypeOK
    BY <1>1, QueueTypes
  <2>2. results \in Seq([frame : AnyFrame, input : AnyFrame, id : Nat])
    BY EmptySeq DEF Init
  <2>3. 0 \in 0 .. FrameSkip - 1 /\ 0 \in 0 .. MaxRetries + 1
    BY PipelineAssumption
  <2>4. 0 \in AnyFrame /\ Empty \in AnyFrame
    BY DEF AnyFrame, Empty, FQ!Empty
  <2>5. QED
    BY <2>1, <2>2, <2>3, <2>4 DEF Init, TypeOK
<1>3. ThreadInv
  BY DEF Init, ThreadInv
<1>4. CallsInv
  BY PipelineAssumption DEF Init, CallsInv, RQ!Init, RP!Given
<1>5. QED
  BY <1>1, <1>2, <1>3, <1>4 DEF BaseInv

LEMMA ThreadInvStep == ThreadInv /\ [Next]_vars => ThreadInv'
<1> SUFFICES ASSUME ThreadInv, [Next]_vars PROVE ThreadInv'
  OBVIOUS
<1> USE DEF ThreadInv
<1>1. CASE Main
  BY <1>1 DEF Main, OpenCamera, LoadEngine, StartThreads, JoinProducer, JoinConsumer,
              JoinDisplay, PrintStats, MainStep, KeepThreads
<1>2. CASE Producer
  BY <1>2 DEF Producer, ProducerCheck, CaptureEmpty, CaptureFrame, EnqueueFrame,
              ProducerStep
<1>3. CASE Consumer
  BY <1>3 DEF Consumer, SkipOrKeep, ConsumerCheck, DequeueFrame, SkipFrame, KeepFrame,
              Preprocess, PreprocessThrows, Infer, InferThrows, Postprocess,
              EnqueueResult, ConsumerStep
<1>4. CASE Display
  BY <1>4 DEF Display, DisplayCheck, DequeueResult, Show, ShowThrows, NoKey, QuitKey,
              DisplayStep
<1>5. CASE SignalHandler \/ ReadCrashes \/ Ended \/ UNCHANGED vars
  BY <1>5 DEF SignalHandler, ReadCrashes, KeepThreads, Ended, vars, pcs
<1>6. QED
  BY <1>1, <1>2, <1>3, <1>4, <1>5 DEF Next

\* What each thread leaves alone.
LEMMA MainKeeps ==
  ASSUME Main \/ SignalHandler \/ ReadCrashes \/ Ended \/ UNCHANGED vars
  PROVE  UNCHANGED <<frameQueue, resultQueue, emptyRetries, work, shown, aborted>>
BY DEF Main, OpenCamera, LoadEngine, StartThreads, JoinProducer, JoinConsumer,
       JoinDisplay, PrintStats, MainStep, SignalHandler, ReadCrashes, KeepThreads,
       Ended, vars

LEMMA ProducerKeeps ==
  ASSUME BaseInv, Producer
  PROVE  /\ UNCHANGED <<resultQueue, mainPc, consumerPc, displayPc, work, shown, aborted>>
         /\ UNCHANGED <<fDeq, fDelivered>>
         /\ fOvertaken => fOvertaken'
<1>1. UNCHANGED <<resultQueue, mainPc, consumerPc, displayPc, work, shown, aborted>>
  BY DEF Producer, ProducerCheck, CaptureEmpty, CaptureFrame, EnqueueFrame, ProducerStep
<1>2. FP!Enqueue \/ UNCHANGED frameQueue
  BY SameFrameQueue
     DEF Producer, ProducerCheck, CaptureEmpty, CaptureFrame, EnqueueFrame, FP!Enqueue
<1>3. QED
  BY <1>1, <1>2, FP!EnqueueSeen, PipelineAssumption DEF BaseInv, QueuesInv, frameQueue

LEMMA DisplayKeeps ==
  ASSUME BaseInv, Display
  PROVE  /\ UNCHANGED <<frameQueue, mainPc, producerPc, consumerPc, emptyRetries, work>>
         /\ UNCHANGED <<rEnq, rPublished, rOvertaken>>
<1>1. UNCHANGED <<frameQueue, mainPc, producerPc, consumerPc, emptyRetries, work>>
  BY DEF Display, DisplayCheck, DequeueResult, Show, ShowThrows, NoKey, QuitKey,
         DisplayStep
<1>2. RP!Dequeue \/ UNCHANGED resultQueue
  BY SameResultQueue
     DEF Display, DisplayCheck, DequeueResult, Show, ShowThrows, NoKey, QuitKey
<1>3. QED
  BY <1>1, <1>2, RP!DequeueSeen, PipelineAssumption DEF BaseInv, QueuesInv, resultQueue

LEMMA ConsumerKeeps ==
  ASSUME BaseInv, Consumer
  PROVE  /\ UNCHANGED <<running, mainPc, producerPc, displayPc, emptyRetries, shown>>
         /\ UNCHANGED <<fEnq, fPublished, fOvertaken, rDeq, rDelivered>>
         /\ rOvertaken => rOvertaken'
<1>1. UNCHANGED <<running, mainPc, producerPc, displayPc, emptyRetries, shown>>
  BY DEF Consumer, SkipOrKeep, ConsumerCheck, DequeueFrame, SkipFrame, KeepFrame,
         Preprocess, PreprocessThrows, Infer, InferThrows, Postprocess, EnqueueResult,
         ConsumerStep
<1>2. FP!Dequeue \/ UNCHANGED frameQueue
  BY SameFrameQueue
     DEF Consumer, SkipOrKeep, ConsumerCheck, DequeueFrame, SkipFrame, KeepFrame,
         Preprocess, PreprocessThrows, Infer, InferThrows, Postprocess, EnqueueResult
<1>3. RP!Enqueue \/ UNCHANGED resultQueue
  BY SameResultQueue
     DEF Consumer, SkipOrKeep, ConsumerCheck, DequeueFrame, SkipFrame, KeepFrame,
         Preprocess, PreprocessThrows, Infer, InferThrows, Postprocess, EnqueueResult,
         RP!Enqueue
<1>4. QED
  BY <1>1, <1>2, <1>3, FP!DequeueSeen, RP!EnqueueSeen, PipelineAssumption
     DEF BaseInv, QueuesInv, frameQueue, resultQueue

\* What the display dequeued is a result that was enqueued, or no result at all.
LEMMA DequeuedResult ==
  ASSUME BaseInv, displayPc = "got"
  PROVE  /\ rDeq.item > 0 => rDeq.item \in DOMAIN results
         /\ rDeq.item <= 0 => rDeq.item \in {Empty, Torn}
         /\ DisplayFrame \in AnyFrame
<1>1. rDeq.item \in 1 .. MaxResults \cup {0, -1, -2}
  BY DEF BaseInv, TypeOK, RQ!TypeOK, RQ!Items, RQ!Empty, RQ!Torn, RQ!Nullopt
<1>2. rDeq.item # -2
  BY DEF BaseInv, CallsInv, Nullopt, FQ!Nullopt
<1>3. rDeq.item <= Len(results)
  BY DEF BaseInv, QueuesInv, RP!UseInv, RP!GivenInv, CallsInv
<1>4. results \in Seq([frame : AnyFrame, input : AnyFrame, id : Nat])
  BY DEF BaseInv, TypeOK
<1>5. rDeq.item > 0 => rDeq.item \in DOMAIN results
  <2>1. Len(results) \in Nat /\ DOMAIN results = 1 .. Len(results)
    BY <1>4, LenProperties
  <2>2. QED
    BY <2>1, <1>1, <1>3, PipelineAssumption
<1>6. rDeq.item <= 0 => rDeq.item \in {Empty, Torn}
  BY <1>1, <1>2, PipelineAssumption DEF Empty, Torn, FQ!Empty, FQ!Torn
<1>7. CASE rDeq.item > 0
  <2>1. results[rDeq.item] \in [frame : AnyFrame, input : AnyFrame, id : Nat]
    BY <1>4, <1>5, <1>7, LenProperties, ElementOfSeq
  <2>2. QED
    BY <2>1, <1>5, <1>7, <1>1 DEF DisplayFrame
<1>8. CASE ~(rDeq.item > 0)
  BY <1>1, <1>5, <1>6, <1>8, PipelineAssumption DEF DisplayFrame, AnyFrame
<1>9. QED
  BY <1>5, <1>6, <1>7, <1>8

\* What the consumer dequeued is a frame, or a moved-from or torn one.
LEMMA DequeuedFrame ==
  ASSUME BaseInv, consumerPc = "got"
  PROVE  fDeq.item \in AnyFrame
BY DEF BaseInv, TypeOK, CallsInv, FQ!TypeOK, AnyFrame, Frames, Empty, Torn, Nullopt,
       FQ!Empty, FQ!Torn, FQ!Nullopt

\* The other threads leave the consumer, its work and its call alone; main
\* starts it.
LEMMA OthersKeepWork ==
  ASSUME BaseInv, [Next]_vars, ~Consumer
  PROVE  /\ UNCHANGED <<fDeq, fDelivered, work>>
         /\ \/ UNCHANGED consumerPc
            \/ consumerPc = "unborn" /\ consumerPc' = "check"
<1>1. UNCHANGED <<fDeq, fDelivered, work>>
  BY MainKeeps, ProducerKeeps, DisplayKeeps DEF Next, frameQueue
<1>2. CASE Producer \/ Display
  BY <1>1, <1>2, ProducerKeeps, DisplayKeeps
<1>3. CASE Main \/ SignalHandler \/ ReadCrashes \/ Ended \/ UNCHANGED vars
  BY <1>1, <1>3
     DEF BaseInv, ThreadInv, Main, OpenCamera, LoadEngine, StartThreads, JoinProducer,
         JoinConsumer, JoinDisplay, PrintStats, MainStep, KeepThreads, SignalHandler,
         ReadCrashes, Ended, vars, pcs
<1>4. QED
  BY <1>2, <1>3 DEF Next

\* ... and they leave the display and its call alone.
LEMMA OthersKeepDisplay ==
  ASSUME BaseInv, [Next]_vars, ~Display
  PROVE  /\ UNCHANGED <<rDeq, rDelivered, shown>>
         /\ \/ UNCHANGED displayPc
            \/ displayPc = "unborn" /\ displayPc' = "check"
<1>1. UNCHANGED <<rDeq, rDelivered, shown>>
  BY MainKeeps, ProducerKeeps, ConsumerKeeps DEF Next, resultQueue
<1>2. CASE Producer \/ Consumer
  BY <1>1, <1>2, ProducerKeeps, ConsumerKeeps
<1>3. CASE Main \/ SignalHandler \/ ReadCrashes \/ Ended \/ UNCHANGED vars
  BY <1>1, <1>3
     DEF BaseInv, ThreadInv, Main, OpenCamera, LoadEngine, StartThreads, JoinProducer,
         JoinConsumer, JoinDisplay, PrintStats, MainStep, KeepThreads, SignalHandler,
         ReadCrashes, Ended, vars, pcs
<1>4. QED
  BY <1>2, <1>3 DEF Next

\* A queue that was overtaken remains so.
LEMMA OvertakenStays ==
  ASSUME BaseInv, [Next]_vars
  PROVE  (fOvertaken => fOvertaken') /\ (rOvertaken => rOvertaken')
<1>1. CASE Main \/ SignalHandler \/ ReadCrashes \/ Ended \/ UNCHANGED vars
  BY <1>1, MainKeeps DEF frameQueue, resultQueue
<1>2. CASE Producer
  BY <1>2, ProducerKeeps DEF resultQueue
<1>3. CASE Consumer
  BY <1>3, ConsumerKeeps
<1>4. CASE Display
  BY <1>4, DisplayKeeps DEF frameQueue
<1>5. QED
  BY <1>1, <1>2, <1>3, <1>4 DEF Next

LEMMA TypeOKStep == BaseInv /\ [Next]_vars => TypeOK'
<1> SUFFICES ASSUME BaseInv, [Next]_vars PROVE TypeOK'
  OBVIOUS
<1>1. FQ!TypeOK' /\ RQ!TypeOK'
  BY QueuesInvStep, QueueTypesNext DEF BaseInv
<1>0. AnyFrame' = AnyFrame
  BY DEF AnyFrame, Frames, FQ!Items, Empty, FQ!Empty, Torn, FQ!Torn
<1>2. CASE Main \/ SignalHandler \/ ReadCrashes \/ Ended \/ UNCHANGED vars
  BY <1>0, <1>1, <1>2, MainKeeps
     DEF BaseInv, TypeOK, Main, OpenCamera, LoadEngine, StartThreads, JoinProducer,
         JoinConsumer, JoinDisplay, PrintStats, MainStep, KeepThreads, SignalHandler,
         ReadCrashes, Ended, vars, pcs, work
<1>3. CASE Producer
  <2>1. producerPc' \in {"unborn", "check", "capture", "enqueue", "done"}
    BY <1>3
       DEF Producer, ProducerCheck, CaptureEmpty, CaptureFrame, EnqueueFrame,
           ProducerStep
  <2>2. running' \in BOOLEAN /\ emptyRetries' \in 0 .. MaxRetries + 1
    <3>1. /\ running \in BOOLEAN
          /\ emptyRetries \in 0 .. MaxRetries + 1 /\ MaxRetries \in Nat
          /\ producerPc # "done" => emptyRetries <= MaxRetries
      BY PipelineAssumption DEF BaseInv, TypeOK, CallsInv
    <3>2. CASE CaptureEmpty
      <4>1. emptyRetries' = emptyRetries + 1 /\ producerPc # "done"
        BY <3>2 DEF CaptureEmpty, ProducerStep
      <4>2. emptyRetries' \in 0 .. MaxRetries + 1
        BY <3>1, <4>1
      <4>3. running' = FALSE \/ running' = running
        BY <3>2 DEF CaptureEmpty
      <4>4. QED
        BY <3>1, <4>2, <4>3
    <3>3. CASE ~CaptureEmpty
      BY <1>3, <3>1, <3>3 DEF Producer, ProducerCheck, CaptureFrame, EnqueueFrame
    <3>4. QED
      BY <3>2, <3>3
  <2>3. UNCHANGED <<mainPc, consumerPc, displayPc, work, shown, aborted>>
    BY <1>3, ProducerKeeps
  <2>4. QED
    BY <1>0, <1>1, <2>1, <2>2, <2>3 DEF BaseInv, TypeOK, work
<1>4. CASE Consumer
  <2>1. UNCHANGED <<running, mainPc, producerPc, displayPc, emptyRetries, shown>>
    BY <1>4, ConsumerKeeps
  <2>2. /\ consumerPc' \in {"unborn", "check", "dequeue", "got", "preprocess", "infer",
                            "post", "enqueue", "done"}
        /\ aborted' \in BOOLEAN
    BY <1>4
       DEF BaseInv, TypeOK, Consumer, SkipOrKeep, ConsumerCheck, DequeueFrame,
           SkipFrame, KeepFrame, Preprocess, PreprocessThrows, Infer, InferThrows,
           Postprocess, EnqueueResult, ConsumerStep, AfterDequeue
  <2>3. /\ skipCounter' \in 0 .. FrameSkip - 1
        /\ frameCounter' \in Nat
        /\ recorded' \in Nat
    <3>1. /\ skipCounter \in 0 .. FrameSkip - 1 /\ frameCounter \in Nat
          /\ recorded \in Nat /\ FrameSkip \in Nat \ {0}
      BY PipelineAssumption DEF BaseInv, TypeOK
    <3>2. (skipCounter + 1) % FrameSkip \in 0 .. FrameSkip - 1
      BY <3>1
    <3>3. \/ skipCounter' = (skipCounter + 1) % FrameSkip
          \/ UNCHANGED skipCounter
      BY <1>4
         DEF Consumer, SkipOrKeep, ConsumerCheck, DequeueFrame, SkipFrame, KeepFrame,
             Preprocess, PreprocessThrows, Infer, InferThrows, Postprocess,
             EnqueueResult, work
    <3>4. frameCounter' = frameCounter + 1 \/ UNCHANGED frameCounter
      BY <1>4
         DEF Consumer, SkipOrKeep, ConsumerCheck, DequeueFrame, SkipFrame, KeepFrame,
             Preprocess, PreprocessThrows, Infer, InferThrows, Postprocess,
             EnqueueResult, work
    <3>5. recorded' = recorded + 1 \/ UNCHANGED recorded
      BY <1>4
         DEF Consumer, SkipOrKeep, ConsumerCheck, DequeueFrame, SkipFrame, KeepFrame,
             Preprocess, PreprocessThrows, Infer, InferThrows, Postprocess,
             EnqueueResult, work
    <3>6. QED
      BY <3>1, <3>2, <3>3, <3>4, <3>5
  <2>4. frame' \in AnyFrame /\ tensor' \in AnyFrame
    BY <1>4, DequeuedFrame
       DEF BaseInv, TypeOK, Consumer, SkipOrKeep, ConsumerCheck, DequeueFrame,
           SkipFrame, KeepFrame, Preprocess, PreprocessThrows, Infer, InferThrows,
           Postprocess, EnqueueResult, ConsumerStep, work, AnyFrame
  <2>5. results' \in Seq([frame : AnyFrame, input : AnyFrame, id : Nat])
    <3>1. CASE Postprocess
      <4>1. [frame |-> frame, input |-> tensor, id |-> frameCounter]
              \in [frame : AnyFrame, input : AnyFrame, id : Nat]
        BY DEF BaseInv, TypeOK
      <4>2. QED
        BY <3>1, <4>1, AppendProperties DEF BaseInv, TypeOK, Postprocess
    <3>2. CASE ~Postprocess
      BY <1>4, <3>2
         DEF BaseInv, TypeOK, Consumer, SkipOrKeep, ConsumerCheck, DequeueFrame,
             SkipFrame, KeepFrame, Preprocess, PreprocessThrows, Infer, InferThrows,
             EnqueueResult, work
    <3>3. QED
      BY <3>1, <3>2
  <2>6. QED
    BY <1>0, <1>1, <2>1, <2>2, <2>3, <2>4, <2>5 DEF BaseInv, TypeOK
<1>5. CASE Display
  <2>1. UNCHANGED <<mainPc, producerPc, consumerPc, emptyRetries, work>>
    BY <1>5, DisplayKeeps
  <2>2. /\ displayPc' \in {"unborn", "check", "dequeue", "got", "key", "done"}
        /\ running' \in BOOLEAN
        /\ aborted' \in BOOLEAN
    BY <1>5
       DEF BaseInv, TypeOK, Display, DisplayCheck, DequeueResult, Show, ShowThrows,
           NoKey, QuitKey, DisplayStep, AfterDequeue
  <2>3. shown' \in AnyFrame
    BY <1>5, DequeuedResult
       DEF BaseInv, TypeOK, Display, DisplayCheck, DequeueResult, Show, ShowThrows,
           NoKey, QuitKey, DisplayStep
  <2>4. QED
    BY <1>0, <1>1, <2>1, <2>2, <2>3 DEF BaseInv, TypeOK, work
<1>6. QED
  BY <1>2, <1>3, <1>4, <1>5 DEF Next

\* Postprocess adds one entry to results, after all others.
LEMMA ResultAppended ==
  ASSUME BaseInv, Postprocess
  PROVE  /\ Len(results) \in Nat
         /\ DOMAIN results = 1 .. Len(results)
         /\ Len(results') = Len(results) + 1
         /\ DOMAIN results' = 1 .. Len(results) + 1
         /\ \A k \in DOMAIN results : results'[k] = results[k]
         /\ results'[Len(results) + 1]
              = [frame |-> frame, input |-> tensor, id |-> frameCounter]
<1> DEFINE entry == [frame |-> frame, input |-> tensor, id |-> frameCounter]
           Entries == [frame : AnyFrame, input : AnyFrame, id : Nat]
<1>1. results \in Seq(Entries) /\ entry \in Entries
  BY DEF BaseInv, TypeOK
<1>2. results' = Append(results, entry)
  BY DEF Postprocess
<1> HIDE DEF entry, Entries
<1>3. /\ Len(results) \in Nat
      /\ DOMAIN results = 1 .. Len(results)
      /\ Append(results, entry) \in Seq(Entries)
      /\ Len(Append(results, entry)) = Len(results) + 1
      /\ \A k \in 1 .. Len(results) : Append(results, entry)[k] = results[k]
      /\ Append(results, entry)[Len(results) + 1] = entry
  BY <1>1, LenProperties, AppendProperties
<1>4. QED
  BY <1>2, <1>3, LenProperties DEF entry

\* No other step of the program touches results.
LEMMA ResultsKept ==
  ASSUME [Next]_vars, ~Postprocess
  PROVE  UNCHANGED results
BY DEF Next, Main, OpenCamera, LoadEngine, StartThreads, JoinProducer, JoinConsumer,
       JoinDisplay, PrintStats, MainStep, SignalHandler, ReadCrashes, KeepThreads,
       Producer, ProducerCheck, CaptureEmpty, CaptureFrame, EnqueueFrame,
       ProducerStep, Consumer, SkipOrKeep, ConsumerCheck, DequeueFrame, SkipFrame,
       KeepFrame, Preprocess, PreprocessThrows, Infer, InferThrows, EnqueueResult,
       Display, DisplayCheck, DequeueResult, Show, ShowThrows, NoKey, QuitKey,
       DisplayStep, Ended, vars, work

LEMMA CallsInvStep == BaseInv /\ [Next]_vars => CallsInv'
<1> SUFFICES ASSUME BaseInv, [Next]_vars PROVE CallsInv'
  OBVIOUS
<1>0. /\ CallsInv /\ ThreadInv
      /\ recorded \in Nat /\ MaxRetries \in Nat
      /\ emptyRetries \in 0 .. MaxRetries + 1
  BY PipelineAssumption DEF BaseInv, TypeOK
<1>1. CASE Main \/ SignalHandler \/ ReadCrashes \/ Ended \/ UNCHANGED vars
  <2>1. /\ UNCHANGED <<fDeq, rEnq, rDeq, results, recorded, rPublished, emptyRetries>>
        /\ RP!Given' = RP!Given
    BY <1>1, MainKeeps DEF frameQueue, resultQueue, work, RP!Given
  <2>2. \/ UNCHANGED pcs
        \/ consumerPc' = "check" /\ displayPc' = "check" /\ producerPc = "unborn"
        \/ UNCHANGED <<producerPc, consumerPc, displayPc>>
    BY <1>0, <1>1
       DEF ThreadInv, Main, OpenCamera, LoadEngine, StartThreads, JoinProducer,
           JoinConsumer, JoinDisplay, PrintStats, MainStep, KeepThreads,
           SignalHandler, ReadCrashes, Ended, vars
  <2>3. QED
    BY <1>0, <2>1, <2>2 DEF CallsInv, pcs
<1>2. CASE Producer
  <2>1. /\ UNCHANGED <<consumerPc, displayPc, fDeq, rEnq, rDeq, results, recorded,
                       rPublished>>
        /\ RP!Given' = RP!Given
    BY <1>2, ProducerKeeps DEF resultQueue, work, RP!Given
  <2>2. producerPc # "done" /\ (producerPc' # "done" => emptyRetries' <= MaxRetries)
    BY <1>0, <1>2
       DEF CallsInv, Producer, ProducerCheck, CaptureEmpty, CaptureFrame, EnqueueFrame,
           ProducerStep
  <2>3. QED
    BY <1>0, <2>1, <2>2 DEF CallsInv
<1>3. CASE Consumer
  <2>1. UNCHANGED <<producerPc, displayPc, emptyRetries, rDeq>>
    BY <1>3, ConsumerKeeps
  <2>2. consumerPc' = "got" => fDeq'.pc = "idle" /\ fDeq'.item # Nullopt
    BY <1>3
       DEF Consumer, SkipOrKeep, ConsumerCheck, DequeueFrame, SkipFrame, KeepFrame,
           Preprocess, PreprocessThrows, Infer, InferThrows, Postprocess,
           EnqueueResult, ConsumerStep, AfterDequeue, Nullopt, FQ!Nullopt
  <2>3. /\ consumerPc' = "enqueue" => rEnq'.pc # "idle"
        /\ Len(results') = RP!Given'
        /\ recorded' = rPublished'
    <3>1. CASE Postprocess
      <4>1. /\ rEnq.pc = "idle" /\ RP!Enqueue
        BY <3>1, SameResultQueue DEF Postprocess, RP!Enqueue, RP!EnqueueBegin
      <4>2. rEnq'.pc # "idle" /\ RP!Given' = RP!Given + 1 /\ rPublished' = rPublished
        BY <4>1, RP!EnqueueSeen, PipelineAssumption DEF BaseInv, QueuesInv
      <4>3. Len(results') = Len(results) + 1
        BY <3>1, ResultAppended
      <4>4. QED
        BY <1>0, <3>1, <4>2, <4>3 DEF CallsInv, Postprocess
    <3>2. CASE EnqueueResult
      <4>1. rEnq.pc # "idle" /\ RP!Enqueue
        BY <1>0, <3>2, SameResultQueue DEF EnqueueResult, ConsumerStep, CallsInv
      <4>2. /\ RP!Given' = RP!Given
            /\ rPublished' = IF rEnq'.pc = "idle" THEN rPublished + 1 ELSE rPublished
        BY <4>1, RP!EnqueueSeen, PipelineAssumption DEF BaseInv, QueuesInv
      <4>3. QED
        BY <1>0, <3>2, <4>2 DEF CallsInv, EnqueueResult, ConsumerStep
    <3>3. CASE ~Postprocess /\ ~EnqueueResult
      <4>1. UNCHANGED <<resultQueue, results, recorded>> /\ consumerPc' # "enqueue"
        BY <1>3, <3>3
           DEF Consumer, SkipOrKeep, ConsumerCheck, DequeueFrame, SkipFrame,
               KeepFrame, Preprocess, PreprocessThrows, Infer, InferThrows,
               ConsumerStep, AfterDequeue, work
      <4>2. QED
        BY <1>0, <4>1 DEF CallsInv, resultQueue, RP!Given
    <3>4. QED
      BY <3>1, <3>2, <3>3
  <2>4. QED
    BY <1>0, <2>1, <2>2, <2>3 DEF CallsInv
<1>4. CASE Display
  <2>1. /\ UNCHANGED <<producerPc, consumerPc, emptyRetries, fDeq, rEnq, results,
                       recorded, rPublished>>
        /\ RP!Given' = RP!Given
    BY <1>4, DisplayKeeps DEF frameQueue, work, RP!Given
  <2>2. displayPc' = "got" => rDeq'.pc = "idle" /\ rDeq'.item # Nullopt
    BY <1>0, <1>4
       DEF CallsInv, Display, DisplayCheck, DequeueResult, Show, ShowThrows, NoKey,
           QuitKey, DisplayStep, AfterDequeue, resultQueue, Nullopt, FQ!Nullopt
  <2>3. QED
    BY <1>0, <2>1, <2>2 DEF CallsInv
<1>5. QED
  BY <1>1, <1>2, <1>3, <1>4 DEF Next

LEMMA BaseInvCorrect == Spec => []BaseInv
<1>1. BaseInv /\ [Next]_vars => BaseInv'
  BY QueuesInvStep, TypeOKStep, ThreadInvStep, CallsInvStep DEF BaseInv
<1>2. QED
  BY BaseInvInit, <1>1, PTL DEF Spec

-----------------------------------------------------------------------------
(***************************************************************************)
(* Every thread keeps to its states and every variable to its values, in   *)
(* all interleavings of the four threads, the signal and the steps of the  *)
(* two queues, also after an overtaking.                                   *)
(***************************************************************************)
THEOREM PipelineTypeCorrect == Spec => []TypeOK
<1>1. BaseInv => TypeOK
  BY DEF BaseInv
<1>2. QED
  BY <1>1, BaseInvCorrect, PTL

(***************************************************************************)
(* When main prints the statistics the three threads have left their       *)
(* loops, and the unsynchronised e2e_tracker has counted every result.     *)
(***************************************************************************)
THEOREM StatisticsComplete == Spec => []StatsComplete
<1>1. BaseInv => StatsComplete
  BY DEF BaseInv, ThreadInv, CallsInv, StatsComplete
<1>2. QED
  BY <1>1, BaseInvCorrect, PTL

-----------------------------------------------------------------------------
(***************************************************************************)
(* Input and picture.                                                      *)
(***************************************************************************)

LEMMA TensorInvInit == Init => TensorInv
BY DEF Init, TensorInv, InputMatchesFrame

LEMMA TensorInvStep == BaseInv /\ TensorInv /\ [Next]_vars => TensorInv'
<1> SUFFICES ASSUME BaseInv, TensorInv, [Next]_vars PROVE TensorInv'
  OBVIOUS
<1>1. consumerPc' \in {"infer", "post"} => tensor' = frame'
  <2>1. CASE Consumer
    BY <2>1
       DEF TensorInv, Consumer, SkipOrKeep, ConsumerCheck, DequeueFrame, SkipFrame,
           KeepFrame, Preprocess, PreprocessThrows, Infer, InferThrows, Postprocess,
           EnqueueResult, ConsumerStep, AfterDequeue, work
  <2>2. CASE ~Consumer
    BY <2>2, OthersKeepWork DEF TensorInv, work
  <2>3. QED
    BY <2>1, <2>2
<1>2. InputMatchesFrame'
  <2>1. CASE Postprocess
    <3>1. tensor = frame
      BY <2>1 DEF TensorInv, Postprocess, ConsumerStep
    <3>2. QED
      BY <2>1, <3>1, ResultAppended DEF TensorInv, InputMatchesFrame
  <2>2. CASE ~Postprocess
    BY <2>2, ResultsKept DEF TensorInv, InputMatchesFrame
  <2>3. QED
    BY <2>1, <2>2
<1>3. QED
  BY <1>1, <1>2 DEF TensorInv

(***************************************************************************)
(* The tensor Run was given for a result holds the pixels of the frame the *)
(* result carries, although one TensorBuffer serves all frames, whatever   *)
(* was skipped, dropped, thrown or overtaken.                              *)
(***************************************************************************)
THEOREM InputIsOfTheFrame == Spec => []InputMatchesFrame
<1>1. TensorInv => InputMatchesFrame
  BY DEF TensorInv
<1>2. QED
  BY <1>1, BaseInvCorrect, TensorInvInit, TensorInvStep, PTL DEF Spec

-----------------------------------------------------------------------------
(***************************************************************************)
(* The frames on their way to the display, as long as no index store came  *)
(* too late.                                                               *)
(***************************************************************************)

\* The consumer works on the frame it dequeued last.
Holding == consumerPc \in {"preprocess", "infer", "post"}

HeldFrameInv ==
  /\ consumerPc = "got" => fDeq.item = fDelivered /\ fDelivered > 0
  /\ Holding => frame = fDelivered /\ fDelivered > 0

\* Every frame kept stands for FrameSkip frames dequeued.
SkipInv ==
  FrameSkip * frameCounter + skipCounter + (IF consumerPc = "got" THEN 1 ELSE 0)
    <= fDelivered

\* Results come from frames dequeued before the one at hand, each kept frame
\* has its number, and a later result has a later frame and a higher number.
OrderInv ==
  /\ \A k \in DOMAIN results :
       /\ 0 < results[k].frame
       /\ results[k].frame <= fDelivered
       /\ results[k].id <= frameCounter
       /\ FrameSkip * results[k].id <= results[k].frame
       /\ consumerPc = "got" \/ Holding => results[k].frame < fDelivered
       /\ Holding => results[k].id < frameCounter
  /\ \A j, k \in DOMAIN results :
       j < k => /\ results[j].frame < results[k].frame
                /\ results[j].id < results[k].id

FrameInv == ~fOvertaken => HeldFrameInv /\ SkipInv /\ OrderInv

\* The display shows the result delivered last, or is about to.
ShownInv ==
  ~Overtaken =>
    /\ rDelivered > 0 => rDelivered \in DOMAIN results
    /\ displayPc = "got" => /\ rDeq.item = rDelivered
                            /\ rDelivered > 0
                            /\ shown < results[rDelivered].frame
    /\ displayPc # "got" => IF rDelivered = 0 THEN shown = 0
                            ELSE shown <= results[rDelivered].frame

LEMMA FrameInvInit == Init => FrameInv
BY SameFrameQueue, PipelineAssumption
   DEF Init, FP!Init, FrameInv, HeldFrameInv, SkipInv, OrderInv, Holding

\* A dequeue that ends with a frame has delivered it, later than all before.
LEMMA FrameDelivered ==
  ASSUME BaseInv, DequeueFrame, ~fOvertaken
  PROVE  /\ consumerPc = "dequeue" /\ UNCHANGED work
         /\ fDelivered' \in Nat
         /\ \/ consumerPc' \in {"dequeue", "check"} /\ UNCHANGED fDelivered
            \/ /\ consumerPc' = "got"
               /\ fDeq'.item = fDelivered'
               /\ fDelivered' > fDelivered
<1>1. /\ consumerPc = "dequeue" /\ UNCHANGED work
      /\ consumerPc' = AfterDequeue(fDeq')
      /\ FP!Dequeue
  BY SameFrameQueue DEF DequeueFrame, ConsumerStep
<1>2. /\ fDeq'.pc # "idle" \/ fDeq'.item = FP!Nullopt => UNCHANGED fDelivered
      /\ fDeq'.pc = "idle" /\ fDeq'.item # FP!Nullopt
           => fDelivered' = fDeq'.item /\ fDelivered' > fDelivered
  BY <1>1, FP!DequeueSeen, PipelineAssumption DEF BaseInv, QueuesInv
<1>3. fDelivered' \in Nat
  <2>1. [Next]_vars
    BY DEF Next, Consumer
  <2>2. QED
    BY <2>1, QueuesInvStep, QueueTypesNext DEF BaseInv, FQ!TypeOK
<1>4. QED
  BY <1>1, <1>2, <1>3 DEF AfterDequeue, Nullopt, FQ!Nullopt, FP!Nullopt

\* The types the arithmetic of the frames rests on.
LEMMA FrameTypes ==
  ASSUME BaseInv
  PROVE  /\ FrameSkip \in Nat \ {0} /\ frameCounter \in Nat
         /\ skipCounter \in 0 .. FrameSkip - 1
         /\ fDelivered \in Nat /\ rDelivered \in Nat /\ shown \in Int
         /\ Len(results) \in Nat /\ DOMAIN results = 1 .. Len(results)
         /\ \A k \in DOMAIN results :
              results[k].frame \in Int /\ results[k].id \in Nat
<1>1. results \in Seq([frame : AnyFrame, input : AnyFrame, id : Nat])
  BY DEF BaseInv, TypeOK
<1>2. AnyFrame \subseteq Int
  BY PipelineAssumption
     DEF AnyFrame, Frames, FQ!Items, Empty, FQ!Empty, Torn, FQ!Torn
<1>3. ASSUME NEW k \in DOMAIN results
      PROVE  results[k] \in [frame : AnyFrame, input : AnyFrame, id : Nat]
  BY <1>1, <1>3, LenProperties, ElementOfSeq
<1>4. QED
  BY <1>1, <1>2, <1>3, LenProperties, QueueTypes, PipelineAssumption
     DEF BaseInv, TypeOK

\* A counter below its modulus wraps to 0 when it has reached it.
LEMMA WrapsAtEnd ==
  ASSUME NEW m \in Nat \ {0}, NEW i \in 0 .. m - 1
  PROVE  (i + 1) % m = IF i + 1 = m THEN 0 ELSE i + 1
<1>1. CASE i + 1 < m
  BY <1>1
<1>2. CASE i + 1 = m
  BY <1>2
<1>3. QED
  BY <1>1, <1>2

LEMMA HeldFrameInvStep ==
  ASSUME BaseInv, FrameInv, [Next]_vars, ~fOvertaken'
  PROVE  HeldFrameInv'
<1>0. HeldFrameInv /\ ~fOvertaken
  BY OvertakenStays DEF FrameInv
<1>1. CASE DequeueFrame
  BY <1>0, <1>1, FrameDelivered, FrameTypes DEF HeldFrameInv, Holding
<1>2. CASE Consumer /\ ~DequeueFrame
  BY <1>0, <1>2
     DEF HeldFrameInv, Holding, Consumer, SkipOrKeep, ConsumerCheck, SkipFrame,
         KeepFrame, Preprocess, PreprocessThrows, Infer, InferThrows, Postprocess,
         EnqueueResult, ConsumerStep, frameQueue, work
<1>3. CASE ~Consumer
  BY <1>0, <1>3, OthersKeepWork DEF HeldFrameInv, Holding, work
<1>4. QED
  BY <1>1, <1>2, <1>3

LEMMA SkipInvStep ==
  ASSUME BaseInv, FrameInv, [Next]_vars, ~fOvertaken'
  PROVE  SkipInv'
<1>0. SkipInv /\ ~fOvertaken
  BY OvertakenStays DEF FrameInv
<1> DEFINE kept == FrameSkip * frameCounter
<1>1. kept \in Nat
  BY FrameTypes
<1>2. CASE DequeueFrame
  <2>1. UNCHANGED <<kept, skipCounter>>
    BY <1>2 DEF DequeueFrame, work
  <2>2. /\ skipCounter \in Nat /\ fDelivered \in Nat
        /\ kept + skipCounter <= fDelivered
    BY <1>0, <1>1, <1>2, FrameTypes DEF SkipInv, DequeueFrame, ConsumerStep
  <2>3. \/ consumerPc' # "got" /\ fDelivered' = fDelivered
        \/ fDelivered' >= fDelivered + 1 /\ fDelivered' \in Int
    BY <1>0, <1>2, <2>2, FrameDelivered
  <2>4. QED
    BY <1>1, <2>1, <2>2, <2>3 DEF SkipInv
<1>3. CASE SkipFrame
  <2>1. consumerPc = "got" /\ consumerPc' = "check" /\ UNCHANGED <<kept, fDelivered>>
    BY <1>3 DEF SkipFrame, ConsumerStep, frameQueue
  <2>2. skipCounter' <= skipCounter + 1 /\ skipCounter' \in Int
    BY <1>3, FrameTypes, WrapsAtEnd DEF SkipFrame
  <2>3. QED
    BY <1>0, <1>1, <2>1, <2>2, FrameTypes DEF SkipInv
<1>4. CASE KeepFrame
  <2>1. /\ consumerPc = "got" /\ consumerPc' = "preprocess" /\ UNCHANGED fDelivered
        /\ (skipCounter + 1) % FrameSkip = 0 /\ skipCounter' = 0
        /\ frameCounter' = frameCounter + 1
    BY <1>4 DEF KeepFrame, ConsumerStep, frameQueue
  <2>2. skipCounter + 1 = FrameSkip
    BY <2>1, FrameTypes, WrapsAtEnd
  <2>3. FrameSkip * (frameCounter + 1) = kept + FrameSkip
    BY FrameTypes
  <2>4. QED
    BY <1>0, <1>1, <2>1, <2>2, <2>3, FrameTypes DEF SkipInv
<1>5. CASE Consumer /\ ~DequeueFrame /\ ~SkipFrame /\ ~KeepFrame
  BY <1>0, <1>5
     DEF SkipInv, Consumer, SkipOrKeep, ConsumerCheck, Preprocess, PreprocessThrows,
         Infer, InferThrows, Postprocess, EnqueueResult, ConsumerStep, frameQueue,
         work
<1>6. CASE ~Consumer
  BY <1>0, <1>6, OthersKeepWork DEF SkipInv, work
<1>7. QED
  BY <1>2, <1>3, <1>4, <1>5, <1>6

LEMMA OrderInvStep ==
  ASSUME BaseInv, FrameInv, [Next]_vars, ~fOvertaken'
  PROVE  OrderInv'
<1>0. HeldFrameInv /\ SkipInv /\ OrderInv /\ ~fOvertaken
  BY OvertakenStays DEF FrameInv
<1>1. CASE DequeueFrame
  <2>1. /\ UNCHANGED <<results, frameCounter>>
        /\ consumerPc' \in {"dequeue", "check", "got"}
        /\ fDelivered' \in Nat /\ fDelivered' >= fDelivered
        /\ consumerPc' = "got" => fDelivered' > fDelivered
    BY <1>0, <1>1, FrameDelivered, FrameTypes DEF work
  <2>2. ~Holding'
    BY <2>1 DEF Holding
  <2>3. ASSUME NEW k \in DOMAIN results
        PROVE  /\ results[k].frame <= fDelivered'
               /\ consumerPc' = "got" => results[k].frame < fDelivered'
    BY <1>0, <2>1, <2>3, FrameTypes DEF OrderInv
  <2>4. QED
    BY <1>0, <2>1, <2>2, <2>3 DEF OrderInv
<1>2. CASE KeepFrame
  <2>1. /\ UNCHANGED <<results, fDelivered>>
        /\ consumerPc = "got" /\ consumerPc' = "preprocess"
        /\ frameCounter' = frameCounter + 1
    BY <1>2 DEF KeepFrame, ConsumerStep, frameQueue
  <2>2. ASSUME NEW k \in DOMAIN results
        PROVE  results[k].id < frameCounter'
    BY <1>0, <2>1, <2>2, FrameTypes DEF OrderInv
  <2>3. QED
    BY <1>0, <2>1, <2>2, FrameTypes DEF OrderInv, Holding
<1>3. CASE Postprocess
  <2>1. /\ UNCHANGED <<fDelivered, frameCounter>>
        /\ Holding /\ ~Holding' /\ consumerPc' # "got"
    BY <1>3 DEF Postprocess, ConsumerStep, frameQueue, Holding
  <2>2. /\ frame = fDelivered /\ fDelivered > 0
        /\ FrameSkip * frameCounter <= fDelivered
    <3>1. FrameSkip * frameCounter \in Nat
      BY FrameTypes
    <3>2. QED
      BY <1>0, <2>1, <3>1, FrameTypes DEF HeldFrameInv, SkipInv
  <2> DEFINE last == Len(results) + 1
  <2>3. /\ DOMAIN results' = 1 .. last
        /\ \A k \in DOMAIN results : results'[k] = results[k]
        /\ results'[last].frame = fDelivered
        /\ results'[last].id = frameCounter
    BY <1>3, <2>2, ResultAppended
  <2>4. \A k \in DOMAIN results :
          results[k].frame < fDelivered /\ results[k].id < frameCounter
    BY <1>0, <2>1 DEF OrderInv
  <2>5. ASSUME NEW k \in DOMAIN results'
        PROVE  /\ 0 < results'[k].frame
               /\ results'[k].frame <= fDelivered
               /\ results'[k].id <= frameCounter
               /\ FrameSkip * results'[k].id <= results'[k].frame
    <3>1. CASE k = last
      BY <2>2, <2>3, <3>1, FrameTypes
    <3>2. CASE k # last
      <4>1. k \in DOMAIN results /\ results'[k] = results[k]
        BY <2>3, <2>5, <3>2, FrameTypes
      <4>2. QED
        BY <1>0, <4>1 DEF OrderInv
    <3>3. QED
      BY <3>1, <3>2
  <2>6. ASSUME NEW j \in DOMAIN results', NEW k \in DOMAIN results', j < k
        PROVE  /\ results'[j].frame < results'[k].frame
               /\ results'[j].id < results'[k].id
    <3>1. j \in DOMAIN results /\ results'[j] = results[j]
      BY <2>3, <2>6, FrameTypes
    <3>2. CASE k = last
      BY <2>3, <2>4, <3>1, <3>2
    <3>3. CASE k # last
      <4>1. k \in DOMAIN results /\ results'[k] = results[k]
        BY <2>3, <2>6, <3>3, FrameTypes
      <4>2. QED
        BY <1>0, <2>6, <3>1, <4>1 DEF OrderInv
    <3>4. QED
      BY <3>2, <3>3
  <2>7. QED
    BY <2>1, <2>5, <2>6 DEF OrderInv
<1>4. CASE Consumer /\ ~DequeueFrame /\ ~KeepFrame /\ ~Postprocess
  <2>1. /\ UNCHANGED <<results, frameCounter, fDelivered>>
        /\ consumerPc' # "got"
        /\ Holding' => Holding
    BY <1>4
       DEF Holding, Consumer, SkipOrKeep, ConsumerCheck, SkipFrame, Preprocess,
           PreprocessThrows, Infer, InferThrows, EnqueueResult, ConsumerStep,
           frameQueue, work
  <2>2. QED
    BY <1>0, <2>1 DEF OrderInv
<1>5. CASE ~Consumer
  BY <1>0, <1>5, OthersKeepWork DEF OrderInv, Holding, work
<1>6. QED
  BY <1>1, <1>2, <1>3, <1>4, <1>5

LEMMA FrameInvCorrect == Spec => []FrameInv
<1>1. BaseInv /\ FrameInv /\ [Next]_vars => FrameInv'
  BY HeldFrameInvStep, SkipInvStep, OrderInvStep DEF FrameInv
<1>2. QED
  BY BaseInvCorrect, FrameInvInit, <1>1, PTL DEF Spec

(***************************************************************************)
(* Results leave the consumer in capture order and with rising numbers,    *)
(* for queues of any size and cameras of any length.                       *)
(***************************************************************************)
THEOREM ResultsStayInOrder == Spec => []ResultsInOrder
<1>1. BaseInv /\ FrameInv => ResultsInOrder
  <2> SUFFICES ASSUME BaseInv, FrameInv, ~fOvertaken, NEW k \in 2 .. Len(results)
               PROVE  /\ results[k].frame > results[k - 1].frame
                      /\ results[k].id > results[k - 1].id
    BY DEF ResultsInOrder
  <2>1. k \in DOMAIN results /\ k - 1 \in DOMAIN results /\ k - 1 < k
    BY FrameTypes
  <2>2. QED
    BY <2>1, FrameTypes DEF FrameInv, OrderInv
<1>2. QED
  BY <1>1, BaseInvCorrect, FrameInvCorrect, PTL

(***************************************************************************)
(* The frame numbered id is at least the FrameSkip*id-th of the camera,    *)
(* for every FrameSkip.                                                    *)
(***************************************************************************)
THEOREM OneFrameInSkip == Spec => []SkipRatio
<1>1. BaseInv /\ FrameInv => SkipRatio
  <2> SUFFICES ASSUME BaseInv, FrameInv, ~fOvertaken, NEW k \in DOMAIN results
               PROVE  results[k].frame >= FrameSkip * results[k].id
    BY DEF SkipRatio
  <2>1. FrameSkip * results[k].id \in Int /\ results[k].frame \in Int
    BY FrameTypes
  <2>2. QED
    BY <2>1 DEF FrameInv, OrderInv
<1>2. QED
  BY <1>1, BaseInvCorrect, FrameInvCorrect, PTL

-----------------------------------------------------------------------------
(***************************************************************************)
(* The display.                                                            *)
(***************************************************************************)

LEMMA ShownInvInit == Init => ShownInv
BY SameResultQueue DEF Init, RP!Init, ShownInv

\* A step adds results behind the one the display is at, if any.
LEMMA ResultsGrow ==
  ASSUME BaseInv, [Next]_vars, NEW k \in DOMAIN results
  PROVE  k \in DOMAIN results' /\ results'[k] = results[k]
<1>1. CASE Postprocess
  BY <1>1, ResultAppended
<1>2. CASE ~Postprocess
  BY <1>2, ResultsKept
<1>3. QED
  BY <1>1, <1>2

\* A dequeue of result_queue that ends with a result has delivered it.
LEMMA ResultDelivered ==
  ASSUME BaseInv, DequeueResult, ~rOvertaken
  PROVE  /\ displayPc = "dequeue" /\ UNCHANGED <<results, shown>>
         /\ \/ displayPc' \in {"dequeue", "check"} /\ UNCHANGED rDelivered
            \/ /\ displayPc' = "got"
               /\ rDeq'.item = rDelivered'
               /\ rDelivered < rDelivered'
               /\ rDelivered' \in DOMAIN results
<1>1. /\ displayPc = "dequeue" /\ UNCHANGED <<results, shown>>
      /\ displayPc' = AfterDequeue(rDeq')
      /\ RP!Dequeue
  BY SameResultQueue DEF DequeueResult, DisplayStep, work
<1>2. /\ rDeq'.pc # "idle" \/ rDeq'.item = RP!Nullopt => UNCHANGED rDelivered
      /\ rDeq'.pc = "idle" /\ rDeq'.item # RP!Nullopt
           => rDelivered' = rDeq'.item /\ rDelivered' > rDelivered
  BY <1>1, RP!DequeueSeen, PipelineAssumption DEF BaseInv, QueuesInv
<1>3. rDelivered' \in Nat /\ rDelivered' <= Len(results)
  <2>1. [Next]_vars
    BY DEF Next, Display
  <2>2. QueuesInv' /\ CallsInv'
    BY <2>1, QueuesInvStep, CallsInvStep DEF BaseInv
  <2>3. rDelivered' <= RP!Given'
    BY <2>2 DEF QueuesInv, RP!UseInv, RP!GivenInv
  <2>4. QED
    BY <1>1, <2>2, <2>3, QueueTypesNext DEF CallsInv, RQ!TypeOK
<1>4. rDelivered' > rDelivered => rDelivered' \in DOMAIN results
  BY <1>3, FrameTypes
<1>5. QED
  BY <1>1, <1>2, <1>4 DEF AfterDequeue, Nullopt, FQ!Nullopt, RP!Nullopt

LEMMA ShownInvStep ==
  BaseInv /\ FrameInv /\ ShownInv /\ [Next]_vars => ShownInv'
<1> SUFFICES ASSUME BaseInv, FrameInv, ShownInv, [Next]_vars, ~Overtaken'
             PROVE  ShownInv'
  BY DEF ShownInv
<1>0. /\ ~fOvertaken /\ ~rOvertaken /\ ~Overtaken
      /\ OrderInv
  BY OvertakenStays DEF Overtaken, FrameInv
<1>1. CASE DequeueResult
  <2>1. CASE displayPc' \in {"dequeue", "check"} /\ UNCHANGED rDelivered
    BY <1>0, <1>1, <2>1, ResultDelivered DEF ShownInv
  <2>2. CASE displayPc' = "got"
    <3>1. /\ displayPc = "dequeue" /\ UNCHANGED <<results, shown>>
          /\ rDeq'.item = rDelivered'
          /\ rDelivered < rDelivered'
          /\ rDelivered' \in DOMAIN results
      BY <1>0, <1>1, <2>2, ResultDelivered
    <3>2. rDelivered \in Nat /\ rDelivered' \in Nat /\ results[rDelivered'].frame \in Int
      BY <3>1, FrameTypes
    <3>3. CASE rDelivered = 0
      BY <1>0, <2>2, <3>1, <3>2, <3>3 DEF ShownInv, OrderInv
    <3>4. CASE rDelivered # 0
      <4>1. rDelivered \in DOMAIN results /\ shown <= results[rDelivered].frame
        BY <1>0, <3>1, <3>2, <3>4 DEF ShownInv
      <4>2. results[rDelivered].frame < results[rDelivered'].frame
        BY <1>0, <3>1, <4>1 DEF OrderInv
      <4>3. shown \in Int /\ results[rDelivered].frame \in Int
        BY <4>1, FrameTypes
      <4>4. QED
        BY <2>2, <3>1, <3>2, <4>1, <4>2, <4>3 DEF ShownInv
    <3>5. QED
      BY <3>3, <3>4
  <2>3. QED
    BY <1>0, <1>1, <2>1, <2>2, ResultDelivered
<1>2. CASE Show
  <2>1. /\ displayPc = "got" /\ displayPc' = "key"
        /\ UNCHANGED <<rDeq, rDelivered, results>>
        /\ shown' = DisplayFrame
    BY <1>2 DEF Show, DisplayStep, resultQueue, work
  <2>2. /\ rDelivered > 0 /\ rDelivered \in DOMAIN results
        /\ shown' = results[rDelivered].frame
    BY <1>0, <2>1 DEF ShownInv, DisplayFrame
  <2>3. QED
    BY <2>1, <2>2, FrameTypes DEF ShownInv
<1>3. CASE Display /\ ~DequeueResult /\ ~Show
  <2>1. /\ UNCHANGED <<rDeq, rDelivered, results, shown>>
        /\ displayPc' = "got" <=> displayPc = "got"
    BY <1>3
       DEF Display, DisplayCheck, ShowThrows, NoKey, QuitKey, DisplayStep, resultQueue,
           work
  <2>2. QED
    BY <1>0, <2>1 DEF ShownInv
<1>4. CASE ~Display
  <2>1. /\ UNCHANGED <<rDeq, rDelivered, shown>>
        /\ displayPc' = "got" <=> displayPc = "got"
    BY <1>4, OthersKeepDisplay
  <2>2. rDelivered > 0 =>
          /\ rDelivered \in DOMAIN results'
          /\ results'[rDelivered] = results[rDelivered]
    BY <1>0, ResultsGrow DEF ShownInv
  <2>3. QED
    BY <1>0, <2>1, <2>2, FrameTypes DEF ShownInv
<1>5. QED
  BY <1>1, <1>2, <1>3, <1>4

LEMMA ShownInvCorrect == Spec => []ShownInv
BY BaseInvCorrect, FrameInvCorrect, ShownInvInit, ShownInvStep, PTL DEF Spec

(***************************************************************************)
(* What imshow is given next is always a later frame, whatever the two     *)
(* queues dropped under the threads.                                       *)
(***************************************************************************)
THEOREM DisplayGoesForward == Spec => ShownInOrder
<1>1. BaseInv /\ ShownInv /\ [Next]_vars
        => [Show /\ ~Overtaken => shown' > shown]_vars
  <2> SUFFICES ASSUME BaseInv, ShownInv, Show, ~Overtaken
               PROVE  shown' > shown
    OBVIOUS
  <2>1. displayPc = "got" /\ shown' = DisplayFrame
    BY DEF Show, DisplayStep
  <2>2. /\ rDelivered > 0 /\ rDeq.item = rDelivered
        /\ shown < results[rDelivered].frame
        /\ rDelivered \in DOMAIN results
    BY <2>1 DEF ShownInv
  <2>3. QED
    BY <2>1, <2>2, FrameTypes DEF DisplayFrame
<1>2. QED
  BY <1>1, BaseInvCorrect, ShownInvCorrect, PTL DEF Spec, ShownInOrder

(***************************************************************************)
(* No exception leaves a thread unless a queue handed out a moved-from     *)
(* frame after one of its index stores came too late.                      *)
(***************************************************************************)
THEOREM NoOtherAbort == Spec => []AbortsOnlyOvertaken
<1> DEFINE AllInv == BaseInv /\ FrameInv /\ ShownInv
<1>1. Init => AbortsOnlyOvertaken
  BY DEF Init, AbortsOnlyOvertaken
<1>2. AllInv /\ AbortsOnlyOvertaken /\ [Next]_vars => AbortsOnlyOvertaken'
  <2> SUFFICES ASSUME AllInv, AbortsOnlyOvertaken, [Next]_vars, aborted', ~Overtaken'
               PROVE  FALSE
    BY DEF AbortsOnlyOvertaken
  <2>1. ~fOvertaken /\ ~rOvertaken /\ ~aborted
    BY OvertakenStays DEF Overtaken, AbortsOnlyOvertaken
  <2>2. PreprocessThrows \/ ShowThrows
    BY <2>1, MainKeeps, ProducerKeeps
       DEF Next, Consumer, SkipOrKeep, ConsumerCheck, DequeueFrame, SkipFrame,
           KeepFrame, Preprocess, Infer, InferThrows, Postprocess, EnqueueResult,
           Display, DisplayCheck, DequeueResult, Show, NoKey, QuitKey
  <2>3. CASE PreprocessThrows
    <3>1. frame > 0 /\ frame \in {Empty, Torn}
      BY <2>1, <2>3
         DEF FrameInv, HeldFrameInv, Holding, PreprocessThrows, Rejects, ConsumerStep
    <3>2. QED
      BY <3>1 DEF Empty, Torn, FQ!Empty, FQ!Torn
  <2>4. CASE ShowThrows
    <3>1. DisplayFrame > 0 /\ DisplayFrame \in {Empty, Torn}
      BY <2>1, <2>4
         DEF FrameInv, OrderInv, ShownInv, Overtaken, DisplayFrame, ShowThrows,
             Rejects, DisplayStep
    <3>2. QED
      BY <3>1 DEF Empty, Torn, FQ!Empty, FQ!Torn
  <2>5. QED
    BY <2>2, <2>3, <2>4
<1>3. QED
  BY <1>1, <1>2, BaseInvCorrect, FrameInvCorrect, ShownInvCorrect, PTL DEF Spec

-----------------------------------------------------------------------------
(***************************************************************************)
(* The threads of the program use each queue the way the ring is made for: *)
(* one thread enqueues, one dequeues, whatever else they do.  So both      *)
(* queues implement the drop-oldest FIFO in the running program.           *)
(***************************************************************************)
THEOREM QueuesImplementFifo == Spec => FP!ImplementsFifo /\ RP!ImplementsFifo
<1>1. Init => FP!Init /\ RP!Init
  BY SameFrameQueue, SameResultQueue DEF Init
<1>2. Spec => FP!Spec /\ RP!Spec
  BY <1>1, FrameQueueStep, ResultQueueStep, PTL DEF Spec, FP!Spec, RP!Spec
<1>3. (FP!Spec => FP!ImplementsFifo) /\ (RP!Spec => RP!ImplementsFifo)
  BY FP!Refinement, RP!Refinement, PipelineAssumption
<1>4. QED
  BY <1>2, <1>3

(***************************************************************************)
(* ... and so, for a user who counts their items, they are the queues of   *)
(* ThreadLoops.                                                            *)
(***************************************************************************)
THEOREM QueuesCountItems == Spec => FP!CountsItems /\ RP!CountsItems
<1>1. Init => FP!Init /\ RP!Init
  BY SameFrameQueue, SameResultQueue DEF Init
<1>2. Spec => FP!Spec /\ RP!Spec
  BY <1>1, FrameQueueStep, ResultQueueStep, PTL DEF Spec, FP!Spec, RP!Spec
<1>3. (FP!Spec => FP!CountsItems) /\ (RP!Spec => RP!CountsItems)
  BY FP!Counting, RP!Counting, PipelineAssumption
<1>4. QED
  BY <1>2, <1>3

-----------------------------------------------------------------------------
(***************************************************************************)
(* "original frame" (types.hpp:78) is true of what the display dequeues    *)
(* until a queue is overtaken: an index store that comes too late is the   *)
(* only way to a result without a frame, however frames are skipped,       *)
(* dropped and moved between the threads.                                  *)
(***************************************************************************)
OriginalUntilOvertaken == ~Overtaken => OriginalFrame

THEOREM FramesAreOriginal == Spec => []OriginalUntilOvertaken
<1>1. BaseInv /\ FrameInv /\ ShownInv => OriginalUntilOvertaken
  <2> SUFFICES ASSUME BaseInv, FrameInv, ShownInv, ~Overtaken, displayPc = "got"
               PROVE  DisplayFrame \in Frames
    BY DEF OriginalUntilOvertaken, OriginalFrame
  <2>1. DisplayFrame > 0
    BY DEF FrameInv, OrderInv, ShownInv, Overtaken, DisplayFrame
  <2>2. DisplayFrame \in AnyFrame
    BY DequeuedResult
  <2>3. QED
    BY <2>1, <2>2 DEF AnyFrame, Empty, Torn, FQ!Empty, FQ!Torn
<1>2. QED
  BY <1>1, BaseInvCorrect, FrameInvCorrect, ShownInvCorrect, PTL

-----------------------------------------------------------------------------
(***************************************************************************)
(* The pixels.                                                             *)
(***************************************************************************)

\* A step of FrameBuffers is one of Pipeline.
LEMMA BuffersAreOfThePipeline == BuffersSpec => Spec
<1>1. BuffersInit => Init
  BY DEF BuffersInit
<1>2. [BuffersNext]_allVars => [Next]_vars
  BY DEF BuffersNext, CaptureAndClone, PutFrame, GetFrame, Skip, Keep, Fail, Post,
         PutResult, GetResult, Draw, Drop, OtherSteps, allVars, Next, Producer,
         Consumer, SkipOrKeep, SkipFrame, KeepFrame, ConsumerStep, Display
<1>3. QED
  BY <1>1, <1>2, PTL DEF BuffersSpec, Spec

\* A buffer with one holder; and as OneHolder allows it while there is a frame.
Sole(buffer) == \E m \in Mats : buffer = {m}
Own(buffer)  == Sole(buffer) \/ buffer = {<<"camera">>, <<"captured">>}

\* The Mats that are neither the camera's nor the frame captured.
Others == Mats \ {<<"camera">>, <<"captured">>}

\* No frame is held over from one iteration of the producer to the next.
NoneCaptured(of) == \A buffer \in of : <<"captured">> \notin buffer

HolderInv ==
  /\ raced \in BOOLEAN
  /\ raced => Overtaken
  /\ \A buffer \in buffers : Own(buffer)
  /\ producerPc # "enqueue" => NoneCaptured(buffers)

\* A Mat that lets go of its buffer leaves the other holders alone.
LEMMA ReleasedOwn ==
  ASSUME NEW before, NEW m \in Mats \ {<<"camera">>},
         \A buffer \in before : Own(buffer)
  PROVE  /\ \A buffer \in Released(m, before) : Own(buffer) /\ m \notin buffer
         /\ m = <<"captured">> => \A buffer \in Released(m, before) : Sole(buffer)
<1> SUFFICES ASSUME NEW old \in before, old \ {m} # {}
             PROVE  /\ Own(old \ {m})
                    /\ m = <<"captured">> => Sole(old \ {m})
  BY DEF Released
<1>1. CASE Sole(old)
  BY <1>1 DEF Own, Sole
<1>2. CASE old = {<<"camera">>, <<"captured">>}
  <2>1. <<"camera">> \in Mats
    BY DEF Mats
  <2>2. CASE m = <<"captured">>
    <3>1. <<"camera">> # <<"captured">>
      OBVIOUS
    <3>2. old \ {m} = {<<"camera">>}
      BY <1>2, <2>2, <3>1
    <3>3. QED
      BY <3>2, <2>1 DEF Own, Sole
  <2>3. CASE m # <<"captured">>
    <3>1. old \ {m} = old
      BY <1>2, <2>3
    <3>2. QED
      BY <3>1, <1>2, <2>3 DEF Own
  <2>4. QED
    BY <2>2, <2>3
<1>3. QED
  BY <1>1, <1>2 DEF Own

\* ... and captures nothing.
LEMMA ReleasedNoneCaptured ==
  ASSUME NEW before, NEW m, NoneCaptured(before)
  PROVE  NoneCaptured(Released(m, before))
BY DEF NoneCaptured, Released

\* A move between the others makes one holder of another, and shares nothing.
LEMMA MovedOwn ==
  ASSUME NEW before, NEW from \in Others, NEW to \in Others,
         \A buffer \in before : Own(buffer)
  PROVE  /\ \A buffer \in Moved(from, to, before) : Own(buffer)
         /\ NoneCaptured(before) => NoneCaptured(Moved(from, to, before))
<1>1. /\ \A buffer \in Released(to, before) : Own(buffer)
      /\ NoneCaptured(before) => NoneCaptured(Released(to, before))
  BY ReleasedOwn, ReleasedNoneCaptured DEF Others
<1> SUFFICES ASSUME NEW buffer \in Released(to, before), from \in buffer
             PROVE  LET new == (buffer \ {from}) \cup {to}
                    IN  Own(new) /\ <<"captured">> \notin new
  BY <1>1 DEF Moved, NoneCaptured
<1>2. buffer = {from}
  BY <1>1 DEF Own, Sole, Others
<1>3. (buffer \ {from}) \cup {to} = {to}
  BY <1>2
<1>4. QED
  BY <1>3 DEF Own, Sole, Others

\* Where the locals and the slots are among the Mats.
LEMMA MatsAre ==
  /\ <<"camera">> \in Mats /\ <<"captured">> \in Mats /\ <<"clone">> \in Others
  /\ <<"frame_opt">> \in Others /\ <<"frame">> \in Others
  /\ <<"frame_with_results">> \in Others
  /\ <<"results_opt">> \in Others /\ <<"shown">> \in Others
  /\ \A i \in FQ!Slots : FrameSlot(i) \in Others
  /\ \A i \in RQ!Slots : ResultSlot(i) \in Others
  /\ <<"camera">> # <<"captured">>
BY DEF Mats, Others, FrameSlot, ResultSlot

\* Whichever it is that the camera hands out, its buffer has no third holder.
LEMMA CapturedOwn ==
  ASSUME \A buffer \in buffers : Own(buffer), NEW with \in Captured
  PROVE  \A buffer \in with : Own(buffer)
<1>1. \A buffer \in Released(<<"captured">>, buffers) : Sole(buffer)
  BY ReleasedOwn, MatsAre
<1>2. CASE with = Allocated(<<"captured">>, buffers)
  BY <1>1, <1>2, MatsAre DEF Allocated, Own, Sole
<1>3. CASE with = Shared(<<"camera">>, <<"captured">>, buffers)
  <2> SUFFICES ASSUME NEW buffer \in Released(<<"captured">>, buffers),
                      <<"camera">> \in buffer
               PROVE  buffer \cup {<<"captured">>} = {<<"camera">>, <<"captured">>}
    BY <1>1, <1>3 DEF Shared, Own
  <2>1. buffer = {<<"camera">>}
    BY <1>1 DEF Sole
  <2>2. QED
    BY <2>1
<1>4. CASE with = Released(<<"captured">>, buffers) \cup {{<<"camera">>, <<"captured">>}}
  BY <1>1, <1>4 DEF Own
<1>5. QED
  BY <1>2, <1>3, <1>4 DEF Captured

\* What a step may make of the buffers: raced only when overtaken, and of the
\* frame captured only what was there.
Kept ==
  /\ raced' \in BOOLEAN
  /\ raced' => Overtaken'
  /\ \A buffer \in buffers' : Own(buffer)
  /\ NoneCaptured(buffers) => NoneCaptured(buffers')

LEMMA BecomesKeeps ==
  ASSUME HolderInv, Overtaken => Overtaken', NEW after, Becomes(after),
         \A buffer \in after : Own(buffer),
         NoneCaptured(buffers) => NoneCaptured(after)
  PROVE  Kept
BY DEF HolderInv, Becomes, Kept, NoneCaptured

LEMMA AccessedKeeps ==
  ASSUME HolderInv, Overtaken => Overtaken', NEW overlap \in BOOLEAN,
         NEW from \in Others, NEW to \in Others, Accessed(overlap, from, to),
         overlap => Overtaken
  PROVE  Kept
<1>1. /\ \A buffer \in Moved(from, to, buffers) : Own(buffer)
      /\ NoneCaptured(buffers) => NoneCaptured(Moved(from, to, buffers))
  BY MovedOwn DEF HolderInv
<1>2. QED
  BY <1>1 DEF HolderInv, Accessed, Kept, NoneCaptured

\* A race needs an overtaking (RaceFree of LockFreeQueueProofs); the indices a
\* call uses are slots.
LEMMA SlotAccesses ==
  ASSUME BaseInv
  PROVE  /\ fOverlap \in BOOLEAN /\ rOverlap \in BOOLEAN
         /\ fOverlap \/ rOverlap => Overtaken
         /\ FrameSlot(fEnq.tail) \in Others /\ FrameSlot(fDeq.head) \in Others
         /\ ResultSlot(rEnq.tail) \in Others /\ ResultSlot(rDeq.head) \in Others
<1>1. /\ fOverlap => fOvertaken
      /\ rOverlap => rOvertaken
  BY DEF BaseInv, QueuesInv, FP!UseInv, RP!UseInv, FP!IInv, RP!IInv
<1>2. /\ fEnq.tail \in FQ!Slots /\ fDeq.head \in FQ!Slots
      /\ rEnq.tail \in RQ!Slots /\ rDeq.head \in RQ!Slots
      /\ fOverlap \in BOOLEAN /\ rOverlap \in BOOLEAN
  BY QueueTypes DEF BaseInv, FQ!TypeOK, RQ!TypeOK
<1>3. QED
  BY <1>1, <1>2, MatsAre DEF Overtaken

LEMMA HolderInvStep ==
  BaseInv /\ HolderInv /\ [BuffersNext]_allVars => HolderInv'
<1> SUFFICES ASSUME BaseInv, HolderInv, [BuffersNext]_allVars PROVE HolderInv'
  OBVIOUS
<1>0. Overtaken => Overtaken'
  <2>1. [Next]_vars
    BY DEF BuffersNext, CaptureAndClone, PutFrame, GetFrame, Skip, Keep, Fail, Post,
           PutResult, GetResult, Draw, Drop, OtherSteps, allVars, Next, Producer,
           Consumer, SkipOrKeep, SkipFrame, KeepFrame, ConsumerStep, Display
  <2>2. QED
    BY <2>1, OvertakenStays DEF Overtaken
<1>1. ASSUME Kept, producerPc' = producerPc \/ producerPc # "enqueue"
      PROVE  HolderInv'
  BY <1>1 DEF Kept, HolderInv
<1>2. CASE CaptureAndClone
  <2>1. producerPc' = "enqueue"
    BY <1>2 DEF CaptureAndClone, CaptureFrame, ProducerStep
  <2>2. PICK with \in Captured : Becomes(Allocated(<<"clone">>, with))
    BY <1>2 DEF CaptureAndClone
  <2>3. \A buffer \in Released(<<"clone">>, with) : Own(buffer)
    <3>1. <<"clone">> \in Mats \ {<<"camera">>}
      BY MatsAre DEF Others
    <3>2. QED
      BY <3>1, CapturedOwn, ReleasedOwn DEF HolderInv
  <2>4. \A buffer \in Allocated(<<"clone">>, with) : Own(buffer)
    BY <2>3, MatsAre DEF Allocated, Own, Sole, Others
  <2>5. QED
    BY <1>0, <2>1, <2>2, <2>4 DEF Becomes, HolderInv
<1>3. CASE PutFrame
  <2>1. producerPc = "enqueue"
    BY <1>3 DEF PutFrame, EnqueueFrame, ProducerStep
  <2>2. CASE fEnq.pc = "writing"
    <3>1. Accessed(fOverlap, <<"clone">>, FrameSlot(fEnq.tail))
      BY <1>3, <2>2 DEF PutFrame
    <3>2. Kept
      BY <1>0, <3>1, AccessedKeeps, SlotAccesses, MatsAre
    <3>3. producerPc' = "enqueue"
      BY <1>3, <2>2, SameFrameQueue
         DEF PutFrame, EnqueueFrame, ProducerStep, FP!Enqueue, FP!EnqueueBegin,
             FP!ReloadHead, FP!DropOldest, FP!WriteBegin, FP!WriteEnd, FP!PublishTail,
             BaseInv, TypeOK, FQ!TypeOK
    <3>4. QED
      BY <1>1, <2>1, <3>2, <3>3
  <2>3. CASE fEnq.pc = "publish"
    <3>1. Becomes(Released(<<"captured">>, buffers))
      BY <1>3, <2>3 DEF PutFrame
    <3>2. /\ \A buffer \in Released(<<"captured">>, buffers) : Own(buffer)
          /\ NoneCaptured(Released(<<"captured">>, buffers))
      BY ReleasedOwn, MatsAre DEF HolderInv, NoneCaptured
    <3>3. QED
      BY <1>0, <3>1, <3>2 DEF Becomes, HolderInv, NoneCaptured
  <2>4. CASE fEnq.pc \notin {"writing", "publish"}
    <3>1. UNCHANGED holders
      BY <1>3, <2>4 DEF PutFrame
    <3>2. fEnq'.pc # "idle"
      <4>1. fEnq \in [pc : FP!EnqPCs, item : FP!Items \cup {FP!Empty}, tail : FP!Slots,
                      head : FP!Slots]
        BY SameFrameQueue DEF BaseInv, TypeOK, FP!TypeOK
      <4>2. \/ FP!EnqueueBegin \/ FP!ReloadHead \/ FP!DropOldest \/ FP!WriteBegin
        BY <1>3, <2>4, SameFrameQueue
           DEF PutFrame, EnqueueFrame, FP!Enqueue, FP!WriteEnd, FP!PublishTail
      <4>3. CASE FP!EnqueueBegin
        BY <4>3 DEF FP!EnqueueBegin
      <4>4. CASE FP!ReloadHead \/ FP!DropOldest \/ FP!WriteBegin
        BY <4>1, <4>4 DEF FP!ReloadHead, FP!DropOldest, FP!WriteBegin
      <4>5. QED
        BY <4>2, <4>3, <4>4
    <3>3. producerPc' = "enqueue"
      BY <1>3, <3>2 DEF PutFrame, EnqueueFrame, ProducerStep
    <3>4. QED
      BY <1>0, <2>1, <3>1, <3>3 DEF HolderInv, holders
  <2>5. QED
    BY <2>2, <2>3, <2>4
<1>4. CASE GetFrame \/ PutResult \/ GetResult
  <2>1. producerPc' = producerPc
    BY <1>4 DEF GetFrame, DequeueFrame, PutResult, EnqueueResult, GetResult,
                DequeueResult, ConsumerStep, DisplayStep
  <2>2. \/ Accessed(fOverlap, FrameSlot(fDeq.head), <<"frame_opt">>)
        \/ Accessed(rOverlap, <<"frame_with_results">>, ResultSlot(rEnq.tail))
        \/ Accessed(rOverlap, ResultSlot(rDeq.head), <<"results_opt">>)
        \/ UNCHANGED holders
    BY <1>4 DEF GetFrame, PutResult, GetResult
  <2>3. UNCHANGED holders => Kept
    BY <1>0 DEF HolderInv, Kept, holders
  <2>4. Kept
    BY <1>0, <2>2, <2>3, AccessedKeeps, SlotAccesses, MatsAre
  <2>5. QED
    BY <1>1, <2>1, <2>4
<1>5. CASE Skip \/ Keep \/ Fail \/ Post \/ Draw \/ Drop
  <2>1. producerPc' = producerPc
    BY <1>5 DEF Skip, SkipFrame, Keep, KeepFrame, Fail, InferThrows, Post, Postprocess,
                Draw, Show, Drop, NoKey, QuitKey, ConsumerStep, DisplayStep
  <2>2. \/ \E m \in Others : Becomes(Released(m, buffers))
        \/ \E from, to \in Others : Becomes(Moved(from, to, buffers))
    BY <1>5, MatsAre DEF Skip, Keep, Fail, Post, Draw, Drop
  <2>3. ASSUME NEW m \in Others, Becomes(Released(m, buffers)) PROVE Kept
    <3>1. \A buffer \in Released(m, buffers) : Own(buffer)
      BY ReleasedOwn DEF Others, HolderInv
    <3>2. QED
      BY <1>0, <2>3, <3>1, BecomesKeeps, ReleasedNoneCaptured
  <2>4. ASSUME NEW from \in Others, NEW to \in Others,
               Becomes(Moved(from, to, buffers))
        PROVE  Kept
    <3>1. /\ \A buffer \in Moved(from, to, buffers) : Own(buffer)
          /\ NoneCaptured(buffers) => NoneCaptured(Moved(from, to, buffers))
      BY MovedOwn DEF HolderInv
    <3>2. QED
      BY <1>0, <2>4, <3>1, BecomesKeeps
  <2>5. QED
    BY <1>1, <2>1, <2>2, <2>3, <2>4
<1>6. CASE OtherSteps \/ UNCHANGED allVars
  <2>1. UNCHANGED holders
    BY <1>6 DEF OtherSteps, allVars
  <2>2. producerPc' = producerPc \/ producerPc # "enqueue"
    BY <1>6
       DEF OtherSteps, Main, OpenCamera, LoadEngine, StartThreads, JoinProducer,
           JoinConsumer, JoinDisplay, PrintStats, MainStep, KeepThreads, SignalHandler,
           ReadCrashes, ProducerCheck, CaptureEmpty, ProducerStep, ConsumerCheck,
           Preprocess, PreprocessThrows, Infer, ConsumerStep, DisplayCheck, ShowThrows,
           DisplayStep, Ended, allVars, vars, pcs, BaseInv, ThreadInv
  <2>3. Kept
    BY <1>0, <2>1 DEF HolderInv, Kept, holders
  <2>4. QED
    BY <1>1, <2>2, <2>3
<1>7. QED
  BY <1>2, <1>3, <1>4, <1>5, <1>6 DEF BuffersNext

(***************************************************************************)
(* The camera writes, and the display draws, on what no other thread can   *)
(* reach (yolov8n_camera.cpp:69 clones the frame and all else is moved),   *)
(* in all interleavings of the steps of the two queues, of any size, as    *)
(* long as no index store comes too late.                                  *)
(***************************************************************************)
THEOREM PixelsNotShared == BuffersSpec => []OneHolder
<1>1. BuffersInit => HolderInv
  BY DEF BuffersInit, HolderInv, NoneCaptured
<1>2. HolderInv => OneHolder
  BY DEF HolderInv, OneHolder, NoneCaptured, Own, Sole
<1>3. QED
  BY <1>1, <1>2, BuffersAreOfThePipeline, BaseInvCorrect, HolderInvStep, PTL
     DEF BuffersSpec
=============================================================================
