------------------------------ MODULE Pipeline ------------------------------
(***************************************************************************)
(* src/yolov8n_camera.cpp: main, the producer, consumer and display        *)
(* threads, the signal handler, and the two queues between the threads,    *)
(* each an instance of the LockFreeQueue ring with all its steps.          *)
(*                                                                         *)
(* A frame is the ordinal of the capture that produced it, which is the    *)
(* ordinal of its enqueue call.  The k-th entry of results is the payload  *)
(* of item k of result_queue.                                              *)
(***************************************************************************)
EXTENDS Integers, Sequences

CONSTANTS
  FrameSlots,    \* slots of frame_queue (5 in main)
  ResultSlots,   \* slots of result_queue (5 in main)
  MaxRetries,    \* max_retries of the producer (30)
  FrameSkip,     \* one frame in FrameSkip is processed (3)
  MaxFrames,     \* bound: frames the camera delivers before it dries up
  MaxResults     \* bound: results the consumer enqueues

ASSUME PipelineAssumption ==
  /\ {FrameSlots, ResultSlots, FrameSkip} \subseteq Nat \ {0}
  /\ {MaxRetries, MaxFrames, MaxResults} \subseteq Nat

VARIABLES
  fBuffer, fHead, fTail, fEnq, fDeq, fOverlap, fPublished, fDelivered, fOvertaken,
  rBuffer, rHead, rTail, rEnq, rDeq, rOverlap, rPublished, rDelivered, rOvertaken,
  running,        \* the atomic flag every loop polls
  mainPc, producerPc, consumerPc, displayPc,
  emptyRetries,   \* empty_frame_retries
  skipCounter,    \* frame_skip_counter % FrameSkip
  frameCounter,   \* frame_counter
  frame,          \* the frame the consumer holds
  tensor,         \* the frame whose pixels are in the TensorBuffer
  recorded,       \* how many latencies e2e_tracker holds
  results,        \* history: the payload of each result enqueued
  shown,          \* history: the last frame imshow showed, or 0
  aborted         \* std::terminate was called: an exception left a thread

FQ == INSTANCE LockFreeQueue WITH
  BufferCapacity <- FrameSlots, MaxItems <- MaxFrames,
  buffer <- fBuffer, head <- fHead, tail <- fTail, enq <- fEnq, deq <- fDeq,
  overlap <- fOverlap, published <- fPublished, delivered <- fDelivered,
  overtaken <- fOvertaken

RQ == INSTANCE LockFreeQueue WITH
  BufferCapacity <- ResultSlots, MaxItems <- MaxResults,
  buffer <- rBuffer, head <- rHead, tail <- rTail, enq <- rEnq, deq <- rDeq,
  overlap <- rOverlap, published <- rPublished, delivered <- rDelivered,
  overtaken <- rOvertaken

frameQueue  == <<fBuffer, fHead, fTail, fEnq, fDeq, fOverlap, fPublished,
                 fDelivered, fOvertaken>>
resultQueue == <<rBuffer, rHead, rTail, rEnq, rDeq, rOverlap, rPublished,
                 rDelivered, rOvertaken>>
pcs         == <<mainPc, producerPc, consumerPc, displayPc>>
work        == <<skipCounter, frameCounter, frame, tensor, recorded, results>>
vars == <<frameQueue, resultQueue, running, pcs, emptyRetries, work, shown,
          aborted>>

Empty   == FQ!Empty
Torn    == FQ!Torn
Nullopt == FQ!Nullopt
Frames  == FQ!Items
AnyFrame == Frames \cup {Empty, Torn}

TypeOK ==
  /\ FQ!TypeOK
  /\ RQ!TypeOK
  /\ running \in BOOLEAN
  /\ mainPc \in {"open", "engine", "spawn", "join producer", "join consumer",
                 "join display", "stats", "exited", "failed", "crashed"}
  /\ producerPc \in {"unborn", "check", "capture", "enqueue", "done"}
  /\ consumerPc \in {"unborn", "check", "dequeue", "got", "preprocess", "infer",
                     "post", "enqueue", "done"}
  /\ displayPc \in {"unborn", "check", "dequeue", "got", "key", "done"}
  /\ emptyRetries \in 0 .. MaxRetries + 1
  /\ skipCounter \in 0 .. FrameSkip - 1
  /\ frameCounter \in Nat
  /\ frame \in AnyFrame
  /\ tensor \in AnyFrame
  /\ recorded \in Nat
  /\ results \in Seq([frame : AnyFrame, input : AnyFrame, id : Nat])
  /\ shown \in AnyFrame
  /\ aborted \in BOOLEAN

Init ==
  /\ FQ!Init
  /\ RQ!Init
  /\ running = TRUE
  /\ mainPc = "open"
  /\ producerPc = "unborn"
  /\ consumerPc = "unborn"
  /\ displayPc = "unborn"
  /\ emptyRetries = 0
  /\ skipCounter = 0
  /\ frameCounter = 0
  /\ frame = Empty
  /\ tensor = Empty
  /\ recorded = 0
  /\ results = <<>>
  /\ shown = 0
  /\ aborted = FALSE

-----------------------------------------------------------------------------
(***************************************************************************)
(* main and the signal handler                                             *)
(***************************************************************************)

\* The process is gone: main returned, std::terminate was called, or it crashed.
Over == aborted \/ mainPc \in {"exited", "failed", "crashed"}

MainStep(from, to) ==
  /\ ~Over
  /\ mainPc = from
  /\ mainPc' = to
  /\ UNCHANGED <<frameQueue, resultQueue, running, emptyRetries, work, shown, aborted>>

KeepThreads == UNCHANGED <<producerPc, consumerPc, displayPc>>

OpenCamera == KeepThreads /\ \E next \in {"engine", "failed"} : MainStep("open", next)
LoadEngine == KeepThreads /\ \E next \in {"spawn", "failed"} : MainStep("engine", next)

StartThreads ==
  /\ MainStep("spawn", "join producer")
  /\ producerPc' = "check"
  /\ consumerPc' = "check"
  /\ displayPc' = "check"

JoinProducer ==
  KeepThreads /\ producerPc = "done" /\ MainStep("join producer", "join consumer")

\* Mutant of JoinConsumer: the thread is detached, not joined.
DetachConsumer ==
  KeepThreads /\ MainStep("join consumer", "join display")

JoinConsumer ==
  KeepThreads /\ consumerPc = "done" /\ MainStep("join consumer", "join display")

JoinDisplay ==
  KeepThreads /\ displayPc = "done" /\ MainStep("join display", "stats")

PrintStats == KeepThreads /\ MainStep("stats", "exited")

Main ==
  \/ OpenCamera \/ LoadEngine \/ StartThreads
  \/ JoinProducer \/ JoinConsumer \/ JoinDisplay \/ PrintStats

SignalHandler ==
  /\ ~Over
  /\ running
  /\ running' = FALSE
  /\ UNCHANGED <<frameQueue, resultQueue, pcs, emptyRetries, work, shown,
                 aborted>>

-----------------------------------------------------------------------------
(***************************************************************************)
(* producerThread                                                          *)
(***************************************************************************)

ProducerStep(from, to) ==
  /\ ~Over
  /\ producerPc = from
  /\ producerPc' = to
  /\ UNCHANGED <<resultQueue, mainPc, consumerPc, displayPc, work, shown, aborted>>

ProducerCheck ==
  /\ ProducerStep("check", IF running THEN "capture" ELSE "done")
  /\ UNCHANGED <<frameQueue, running, emptyRetries>>

\* cap >> frame comes back empty.
\* Mutants of CaptureEmpty: running is left true; there is no limit.
CaptureEmptyQuietly ==
  /\ emptyRetries' = emptyRetries + 1
  /\ ProducerStep("capture", IF emptyRetries' > MaxRetries THEN "done" ELSE "check")
  /\ UNCHANGED <<frameQueue, running>>

CaptureEmptyForever ==
  /\ emptyRetries' = emptyRetries + 1
  /\ ProducerStep("capture", "check")
  /\ UNCHANGED <<frameQueue, running>>

CaptureEmpty ==
  /\ emptyRetries' = emptyRetries + 1
  /\ IF emptyRetries' > MaxRetries
     THEN ProducerStep("capture", "done") /\ running' = FALSE
     ELSE ProducerStep("capture", "check") /\ UNCHANGED running
  /\ UNCHANGED <<frameQueue>>

CaptureFrame ==
  /\ ProducerStep("capture", "enqueue")
  /\ emptyRetries' = 0
  /\ FQ!EnqueueBegin
  /\ UNCHANGED running

EnqueueFrame ==
  /\ FQ!Enqueue
  /\ ProducerStep("enqueue", IF fEnq'.pc = "idle" THEN "check" ELSE "enqueue")
  /\ UNCHANGED <<running, emptyRetries>>

Producer == ProducerCheck \/ CaptureEmpty \/ CaptureFrame \/ EnqueueFrame

-----------------------------------------------------------------------------
(***************************************************************************)
(* consumerThread                                                          *)
(***************************************************************************)

ConsumerStep(from, to) ==
  /\ ~Over
  /\ consumerPc = from
  /\ consumerPc' = to
  /\ UNCHANGED <<running, mainPc, producerPc, displayPc, emptyRetries, shown>>

ConsumerCheck ==
  /\ ConsumerStep("check", IF running THEN "dequeue" ELSE "done")
  /\ UNCHANGED <<frameQueue, resultQueue, work, aborted>>

\* Mutant of AfterDequeue: nullopt is taken for an item.
AfterDequeueUnchecked(call) == IF call.pc # "idle" THEN "dequeue" ELSE "got"

\* Where a thread goes on when a step of its dequeue is done.
AfterDequeue(call) ==
  IF call.pc # "idle" THEN "dequeue"
  ELSE IF call.item = Nullopt THEN "check" ELSE "got"

DequeueFrame ==
  /\ FQ!Dequeue
  /\ ConsumerStep("dequeue", AfterDequeue(fDeq'))
  /\ UNCHANGED <<resultQueue, work, aborted>>

SkipFrame ==
  /\ (skipCounter + 1) % FrameSkip # 0
  /\ ConsumerStep("got", "check")
  /\ skipCounter' = (skipCounter + 1) % FrameSkip
  /\ UNCHANGED <<frameQueue, resultQueue, frameCounter, frame, tensor, recorded,
                 results, aborted>>

\* Mutants of KeepFrame: no frame is skipped; frames are not counted.
KeepEveryFrame ==
  /\ ConsumerStep("got", "preprocess")
  /\ skipCounter' = (skipCounter + 1) % FrameSkip
  /\ frameCounter' = frameCounter + 1
  /\ frame' = fDeq.item
  /\ UNCHANGED <<frameQueue, resultQueue, tensor, recorded, results, aborted>>

KeepFrameUncounted ==
  /\ (skipCounter + 1) % FrameSkip = 0
  /\ ConsumerStep("got", "preprocess")
  /\ skipCounter' = (skipCounter + 1) % FrameSkip
  /\ frame' = fDeq.item
  /\ UNCHANGED <<frameQueue, resultQueue, frameCounter, tensor, recorded,
                 results, aborted>>

KeepFrame ==
  /\ (skipCounter + 1) % FrameSkip = 0
  /\ ConsumerStep("got", "preprocess")
  /\ skipCounter' = (skipCounter + 1) % FrameSkip
  /\ frameCounter' = frameCounter + 1
  /\ frame' = fDeq.item
  /\ UNCHANGED <<frameQueue, resultQueue, tensor, recorded, results, aborted>>

\* if (++frame_skip_counter % 3 != 0): the count alone decides.
SkipOrKeep == consumerPc = "got" /\ (SkipFrame \/ KeepFrame)

\* blobFromImage and imshow throw on an empty image; of a torn one, whose
\* header may be anything, they may make something or not.
Rejects(image)  == image \in {Empty, Torn}
Accepts(image)  == image # Empty

Preprocess ==
  /\ Accepts(frame)
  /\ ConsumerStep("preprocess", "infer")
  /\ tensor' = frame
  /\ UNCHANGED <<frameQueue, resultQueue, skipCounter, frameCounter, frame,
                 recorded, results, aborted>>

\* Mutant of PreprocessThrows: the exception is swallowed, inference goes on.
PreprocessSwallows ==
  /\ Rejects(frame)
  /\ ConsumerStep("preprocess", "infer")
  /\ UNCHANGED <<frameQueue, resultQueue, work, aborted>>

\* preprocessImage is called outside the try block.
PreprocessThrows ==
  /\ Rejects(frame)
  /\ ConsumerStep("preprocess", "preprocess")
  /\ aborted' = TRUE
  /\ UNCHANGED <<frameQueue, resultQueue, work>>

\* Of what infer returns, an Ort::Value, line 145 keeps a pointer to the data only:
\* the value is destroyed at the end of that statement.
Infer ==
  /\ ConsumerStep("infer", "post")
  /\ UNCHANGED <<frameQueue, resultQueue, work, aborted>>

\* The handler of the catch block does nothing: the frame is forgotten.
InferThrows ==
  /\ ConsumerStep("infer", "check")
  /\ frame' = Empty
  /\ UNCHANGED <<frameQueue, resultQueue, skipCounter, frameCounter, tensor,
                 recorded, results, aborted>>

\* Mutant of Postprocess: the frame is moved before it is put in the result.
PostprocessMovedFrame ==
  /\ ConsumerStep("post", "enqueue")
  /\ RQ!EnqueueBegin
  /\ results' = Append(results, [frame |-> Empty, input |-> tensor, id |-> frameCounter])
  /\ frame' = Empty
  /\ UNCHANGED <<frameQueue, skipCounter, frameCounter, tensor, recorded, aborted>>

\* The result has the frame, and the tensor that Run was given as its input.
\* It has no boxes here: what they are is undefined.
Postprocess ==
  /\ ConsumerStep("post", "enqueue")
  /\ RQ!EnqueueBegin
  /\ results' = Append(results, [frame |-> frame, input |-> tensor, id |-> frameCounter])
  /\ frame' = Empty
  /\ UNCHANGED <<frameQueue, skipCounter, frameCounter, tensor, recorded, aborted>>

\* Postprocessing reads the output behind that pointer, which is undefined.  It
\* may find what Run left there, or anything else; or the memory is gone.
ReadCrashes ==
  /\ ~Over
  /\ consumerPc = "post"
  /\ mainPc' = "crashed"
  /\ KeepThreads
  /\ UNCHANGED <<frameQueue, resultQueue, running, emptyRetries, work, shown, aborted>>

\* When the enqueue returns the latency is recorded.
EnqueueResult ==
  /\ RQ!Enqueue
  /\ IF rEnq'.pc = "idle"
     THEN ConsumerStep("enqueue", "check") /\ recorded' = recorded + 1
     ELSE ConsumerStep("enqueue", "enqueue") /\ UNCHANGED recorded
  /\ UNCHANGED <<frameQueue, skipCounter, frameCounter, frame, tensor, results, aborted>>

Consumer ==
  \/ ConsumerCheck \/ DequeueFrame \/ SkipOrKeep
  \/ Preprocess \/ PreprocessThrows \/ Infer \/ InferThrows \/ Postprocess
  \/ EnqueueResult

-----------------------------------------------------------------------------
(***************************************************************************)
(* displayThread                                                           *)
(***************************************************************************)

DisplayStep(from, to) ==
  /\ ~Over
  /\ displayPc = from
  /\ displayPc' = to
  /\ UNCHANGED <<frameQueue, mainPc, producerPc, consumerPc, emptyRetries, work>>

\* Mutant of DisplayCheck: the loop does not look at running.
DisplayCheckNever ==
  /\ DisplayStep("check", "dequeue")
  /\ UNCHANGED <<resultQueue, running, shown, aborted>>

DisplayCheck ==
  /\ DisplayStep("check", IF running THEN "dequeue" ELSE "done")
  /\ UNCHANGED <<resultQueue, running, shown, aborted>>

DequeueResult ==
  /\ RQ!Dequeue
  /\ DisplayStep("dequeue", AfterDequeue(rDeq'))
  /\ UNCHANGED <<running, shown, aborted>>

\* The frame of the result the display dequeued.
DisplayFrame == IF rDeq.item > 0 THEN results[rDeq.item].frame ELSE rDeq.item

Show ==
  /\ Accepts(DisplayFrame)
  /\ DisplayStep("got", "key")
  /\ shown' = DisplayFrame
  /\ UNCHANGED <<resultQueue, running, aborted>>

ShowThrows ==
  /\ Rejects(DisplayFrame)
  /\ DisplayStep("got", "got")
  /\ aborted' = TRUE
  /\ UNCHANGED <<resultQueue, running, shown>>

NoKey ==
  /\ DisplayStep("key", "check")
  /\ UNCHANGED <<resultQueue, running, shown, aborted>>

QuitKey ==
  /\ DisplayStep("key", "done")
  /\ running' = FALSE
  /\ UNCHANGED <<resultQueue, shown, aborted>>

Display ==
  \/ DisplayCheck \/ DequeueResult
  \/ Show \/ ShowThrows \/ NoKey \/ QuitKey

-----------------------------------------------------------------------------
Ended == Over /\ UNCHANGED vars

Next ==
  \/ Main \/ SignalHandler \/ Producer \/ Consumer \/ ReadCrashes \/ Display \/ Ended

Spec == Init /\ [][Next]_vars

(***************************************************************************)
(* The scheduler runs every thread, and the blocking calls return: reading *)
(* the camera, running the model, drawing.  No key and no signal need      *)
(* ever come.                                                              *)
(***************************************************************************)
FairSpec ==
  /\ Spec
  /\ WF_vars(Main)
  /\ WF_vars(Producer)
  /\ WF_vars(Consumer)
  /\ WF_vars(Display)

-----------------------------------------------------------------------------
Overtaken == fOvertaken \/ rOvertaken

(***************************************************************************)
(* The program dies of an exception (preprocessImage at line 131 and       *)
(* imshow at 282 stand outside any try block) only when a producer's index *)
(* store came too late and the queue handed out a moved-from frame.  In    *)
(* particular a failed inference, a skipped frame, a dropped frame or      *)
(* result, and a shutdown at any moment never lead there.                  *)
(***************************************************************************)
AbortsOnlyOvertaken == aborted => Overtaken

(***************************************************************************)
(* The input and the picture of a result belong together: the tensor Run   *)
(* was given holds the pixels of the very frame enqueued with the result,  *)
(* although the one TensorBuffer is reused and some frames never reach     *)
(* infer.  Holds even after an overtaking.  (Of the boxes nothing is said: *)
(* the output is read when it has been released.)                          *)
(***************************************************************************)
InputMatchesFrame ==
  \A k \in DOMAIN results : results[k].input = results[k].frame

(***************************************************************************)
(* The results are in capture order and numbered in that order, whatever   *)
(* frame_queue dropped and whichever inferences failed.                    *)
(***************************************************************************)
ResultsInOrder ==
  ~fOvertaken =>
    \A k \in 2 .. Len(results) :
      /\ results[k].frame > results[k - 1].frame
      /\ results[k].id > results[k - 1].id

(***************************************************************************)
(* At most one frame in FrameSkip is processed: the frame numbered id is   *)
(* the FrameSkip*id-th captured or a later one, since only dequeued frames *)
(* count and none is dequeued twice.                                       *)
(***************************************************************************)
SkipRatio ==
  ~fOvertaken =>
    \A k \in DOMAIN results : results[k].frame >= FrameSkip * results[k].id

(***************************************************************************)
(* The display never goes back in time: imshow is given ever later frames, *)
(* through two queues that drop items under its thread and the consumer's. *)
(***************************************************************************)
ShownInOrder == [][Show /\ ~Overtaken => shown' > shown]_vars

(***************************************************************************)
(* e2e_tracker is not synchronised: when main prints the statistics no     *)
(* thread is left that could record, and every result enqueued counts.     *)
(***************************************************************************)
StatsComplete ==
  mainPc \in {"stats", "exited"} =>
    /\ {producerPc, consumerPc, displayPc} = {"done"}
    /\ recorded = rPublished

(***************************************************************************)
(* Once running is false (a signal, a key, a dead camera, in any state     *)
(* of the three threads and of their queue calls) the process ends.        *)
(***************************************************************************)
ShutdownCompletes == ~running ~> Over

(***************************************************************************)
(* When the camera has no more frames the producer gives up after          *)
(* MaxRetries empty ones, and takes the other two threads with it.         *)
(***************************************************************************)
CameraLossEnds == (fPublished = MaxFrames) ~> (~running \/ Over)

-----------------------------------------------------------------------------
(***************************************************************************)
(* What the repository says and the code does not do.                      *)
(***************************************************************************)

\* types.hpp:78, "original frame": the frame of a result the display has
\* dequeued is one the camera delivered.
OriginalFrame == displayPc = "got" => DisplayFrame \in Frames
=============================================================================
