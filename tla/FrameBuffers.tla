---------------------------- MODULE FrameBuffers ----------------------------
(***************************************************************************)
(* The pixels of the frames of src/yolov8n_camera.cpp, and who can reach   *)
(* them: Pipeline, step for step, and what each step does to the cv::Mats. *)
(*                                                                         *)
(* A cv::Mat is a counted reference to a pixel buffer: a copy of it shares *)
(* the buffer, clone allocates another, a move leaves an empty Mat behind. *)
(* The camera writes its buffer and the display draws on the frame it      *)
(* shows; only the ownership of the buffers keeps the two from what the    *)
(* other threads read.                                                     *)
(*                                                                         *)
(* A queue moves its item into a slot, and out of it, when the access ends *)
(* (WriteEnd and MoveEnd of LockFreeQueue).  Two accesses that overlap are *)
(* a data race on a Mat: who holds what is then undefined.                 *)
(***************************************************************************)
EXTENDS Pipeline

VARIABLES
  buffers,   \* each pixel buffer is known by the Mats that refer to it
  raced      \* history: two accesses to a slot overlapped; buffers means nothing

holders == <<buffers, raced>>
allVars == <<vars, holders>>

FrameSlot(i)  == <<"frame_queue", i>>
ResultSlot(i) == <<"result_queue", i>>

\* camera is the buffer inside cap.  Then the locals of the producer, of the
\* consumer and of the display, and the slots.
Mats == {<<"camera">>, <<"captured">>, <<"clone">>,
         <<"frame_opt">>, <<"frame">>, <<"frame_with_results">>,
         <<"results_opt">>, <<"shown">>}
        \cup {FrameSlot(i) : i \in FQ!Slots} \cup {ResultSlot(i) : i \in RQ!Slots}

BuffersInit == Init /\ buffers = {} /\ raced = FALSE

-----------------------------------------------------------------------------
(***************************************************************************)
(* cv::Mat.  What the buffers are, from those before, when m refers to     *)
(* none any more (one that no Mat refers to is gone), to a new one, to     *)
(* that of another Mat, or takes that over.                                *)
(***************************************************************************)
Released(m, before) == {buffer \ {m} : buffer \in before} \ {{}}

Allocated(m, before) == Released(m, before) \cup {{m}}

Shared(from, to, before) ==
  {IF from \in buffer THEN buffer \cup {to} ELSE buffer :
     buffer \in Released(to, before)}

Moved(from, to, before) ==
  {IF from \in buffer THEN (buffer \ {from}) \cup {to} ELSE buffer :
     buffer \in Released(to, before)}

Becomes(after) ==
  /\ buffers' = IF raced THEN {} ELSE after
  /\ UNCHANGED raced

\* A Mat is moved into or out of a slot.
Accessed(overlap, from, to) ==
  /\ raced' = (raced \/ overlap)
  /\ buffers' = IF raced' THEN {} ELSE Moved(from, to, buffers)

-----------------------------------------------------------------------------
(***************************************************************************)
(* producerThread.  What cap >> frame stores in frame may be the buffer    *)
(* inside the camera, which the next capture writes, or a copy.            *)
(***************************************************************************)
Captured ==
  {Allocated(<<"captured">>, buffers),
   IF <<"camera">> \in UNION buffers
   THEN Shared(<<"camera">>, <<"captured">>, buffers)
   ELSE Released(<<"captured">>, buffers) \cup {{<<"camera">>, <<"captured">>}}}

\* Mutant of CaptureAndClone: the frame itself is enqueued.
CaptureAndShare ==
  /\ CaptureFrame
  /\ \E with \in Captured : Becomes(Shared(<<"captured">>, <<"clone">>, with))

CaptureAndClone ==
  /\ CaptureFrame
  /\ \E with \in Captured : Becomes(Allocated(<<"clone">>, with))

\* With the iteration its frame goes out of scope.
PutFrame ==
  /\ EnqueueFrame
  /\ CASE fEnq.pc = "writing" -> Accessed(fOverlap, <<"clone">>, FrameSlot(fEnq.tail))
       [] fEnq.pc = "publish" -> Becomes(Released(<<"captured">>, buffers))
       [] OTHER               -> UNCHANGED holders

(***************************************************************************)
(* consumerThread                                                          *)
(***************************************************************************)
GetFrame ==
  /\ DequeueFrame
  /\ IF fDeq.pc = "moving" THEN Accessed(fOverlap, FrameSlot(fDeq.head), <<"frame_opt">>)
                           ELSE UNCHANGED holders

Skip == SkipFrame   /\ Becomes(Released(<<"frame_opt">>, buffers))
Keep == KeepFrame   /\ Becomes(Moved(<<"frame_opt">>, <<"frame">>, buffers))
Fail == InferThrows /\ Becomes(Released(<<"frame">>, buffers))
Post == Postprocess /\ Becomes(Moved(<<"frame">>, <<"frame_with_results">>, buffers))

PutResult ==
  /\ EnqueueResult
  /\ IF rEnq.pc = "writing"
     THEN Accessed(rOverlap, <<"frame_with_results">>, ResultSlot(rEnq.tail))
     ELSE UNCHANGED holders

(***************************************************************************)
(* displayThread                                                           *)
(***************************************************************************)
GetResult ==
  /\ DequeueResult
  /\ IF rDeq.pc = "moving"
     THEN Accessed(rOverlap, ResultSlot(rDeq.head), <<"results_opt">>)
     ELSE UNCHANGED holders

Draw == Show /\ Becomes(Moved(<<"results_opt">>, <<"shown">>, buffers))
Drop == (NoKey \/ QuitKey) /\ Becomes(Released(<<"shown">>, buffers))

\* All other steps leave the Mats alone.
OtherSteps ==
  /\ \/ Main \/ SignalHandler \/ ProducerCheck \/ CaptureEmpty
     \/ ConsumerCheck \/ Preprocess \/ PreprocessThrows \/ Infer \/ ReadCrashes
     \/ DisplayCheck \/ ShowThrows \/ Ended
  /\ UNCHANGED holders

BuffersNext ==
  \/ CaptureAndClone \/ PutFrame
  \/ GetFrame \/ Skip \/ Keep \/ Fail \/ Post \/ PutResult
  \/ GetResult \/ Draw \/ Drop
  \/ OtherSteps

BuffersSpec == BuffersInit /\ [][BuffersNext]_allVars

-----------------------------------------------------------------------------
(***************************************************************************)
(* No pixel is written by one thread while another can reach it, until an  *)
(* index store has come too late and the moves of two threads have met in  *)
(* one slot.  A buffer that two Mats refer to is the camera's, and the     *)
(* other one is the frame the producer has captured and is enqueueing a    *)
(* clone of.  So a capture never writes into a frame that waits in a queue *)
(* or is being read, and the boxes are drawn on nothing but the frame      *)
(* shown, whatever the queues drop and write over.                         *)
(***************************************************************************)
OneHolder ==
  /\ raced => Overtaken
  /\ \A buffer \in buffers :
       \/ \E m \in Mats : buffer = {m}
       \/ buffer = {<<"camera">>, <<"captured">>} /\ producerPc = "enqueue"
=============================================================================
