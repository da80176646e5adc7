---------------------------- MODULE Postprocess ----------------------------
(***************************************************************************)
(* ImageProcessor::postprocessDetections (src/utils/image_processor.hpp):  *)
(* the pass over the anchors of the model's output that turns the ones     *)
(* with a good score into boxes of the camera frame, and the suppression   *)
(* of overlapping ones.                                                    *)
(*                                                                         *)
(* Scores and coordinates are small integers.  A length times the scale    *)
(* original / INPUT_SIZE, half a width among them, is a fraction with the  *)
(* denominator Unit; it is kept as its numerator until the code casts it   *)
(* to int.  Rounding of float and NaN are left out.                        *)
(***************************************************************************)
EXTENDS Integers, Sequences, FiniteSets, Functions

CONSTANTS
  InputSize,                      \* side of the square the model sees
  OriginalWidth, OriginalHeight,  \* size of the camera frame
  NumClasses, NumDetections,
  Thresholds,                     \* values of config.confidence_threshold
  Tensors                         \* the outputs the model may produce

Cells == 0 .. (4 + NumClasses) * NumDetections - 1
Anchors == 0 .. NumDetections - 1
Classes == 0 .. NumClasses - 1

ASSUME SizeAssumption ==
  {InputSize, OriginalWidth, OriginalHeight, NumClasses, NumDetections}
    \subseteq Nat \ {0}
ASSUME ThresholdAssumption == Thresholds \subseteq Int
ASSUME TensorAssumption == Tensors \subseteq [Cells -> Int]

VARIABLES
  pc,
  output,      \* output_data, the [4 + NumClasses, NumDetections] tensor
  threshold,   \* config.confidence_threshold
  i,           \* the anchor looked at
  c,           \* the class looked at
  best,        \* best_score and best_class
  boxes, scores, class_ids,  \* static thread_local: they outlive the call
  detections   \* results.detections

input == <<output, threshold>>
vars == <<pc, input, i, c, best, boxes, scores, class_ids, detections>>

-----------------------------------------------------------------------------
\* The tensor is laid out row by row.
At(row, anchor) == output[row * NumDetections + anchor]

Unit == 2 * InputSize

Least(a, b)    == IF a <= b THEN a ELSE b
Greatest(a, b) == IF a >= b THEN a ELSE b

\* static_cast<int> drops the fraction: it rounds towards zero.
ToInt(n) == IF n >= 0 THEN n \div Unit ELSE -((-n) \div Unit)

(***************************************************************************)
(* One axis of a box: from the centre and the extent the model gives, in   *)
(* its own pixels, to the start and the length in pixels of the original.  *)
(***************************************************************************)
Start(centre, extent, original) == (2 * centre - extent) * original
Length(extent, original)        == 2 * extent * original

\* Mutant of Clip: the length is clipped with the start not yet clipped.
ClipLengthFirst(start, length, original) ==
  [start  |-> Greatest(0, start),
   length |-> Least(length, original * Unit - start)]

Clip(start, length, original) ==
  [start  |-> Greatest(0, start),
   length |-> Least(length, original * Unit - Greatest(0, start))]

Axis(centre, extent, original) ==
  LET clipped == Clip(Start(centre, extent, original), Length(extent, original),
                      original)
  IN  [start |-> ToInt(clipped.start), length |-> ToInt(clipped.length)]

BoxOf(anchor) ==
  [across |-> Axis(At(0, anchor), At(2, anchor), OriginalWidth),
   down   |-> Axis(At(1, anchor), At(3, anchor), OriginalHeight)]

\* Mutant of NoClass: the search starts below zero.
NoClassBelow == [score |-> -1, class |-> -1]

NoClass == [score |-> 0, class |-> -1]

-----------------------------------------------------------------------------
TypeOK ==
  /\ pc \in {"idle", "scan", "suppress", "crashed"}
  /\ output \in Tensors
  /\ threshold \in Thresholds
  /\ i \in 0 .. NumDetections
  /\ c \in 0 .. NumClasses
  /\ best \in [score : Nat, class : Classes \cup {-1}]
  /\ boxes \in Seq([across : [start : Int, length : Int],
                    down : [start : Int, length : Int]])
  /\ scores \in Seq(Nat)
  /\ class_ids \in Seq(Classes \cup {-1})
  /\ detections \in Seq([box : Range(boxes), confidence : Range(scores),
                         class_id : Range(class_ids)])

Init ==
  /\ pc = "idle"
  /\ output \in Tensors
  /\ threshold \in Thresholds
  /\ i = 0
  /\ c = 0
  /\ best = NoClass
  /\ boxes = <<>>
  /\ scores = <<>>
  /\ class_ids = <<>>
  /\ detections = <<>>

\* Mutant of Call: class_ids keeps what the last call left in it.
CallKeepsClasses ==
  /\ pc = "idle"
  /\ pc' = "scan"
  /\ output' \in Tensors
  /\ threshold' \in Thresholds
  /\ i' = 0
  /\ c' = 0
  /\ best' = NoClass
  /\ boxes' = <<>>
  /\ scores' = <<>>
  /\ detections' = <<>>
  /\ UNCHANGED class_ids

Call ==
  /\ pc = "idle"
  /\ pc' = "scan"
  /\ output' \in Tensors
  /\ threshold' \in Thresholds
  /\ i' = 0
  /\ c' = 0
  /\ best' = NoClass
  /\ boxes' = <<>>
  /\ scores' = <<>>
  /\ class_ids' = <<>>
  /\ detections' = <<>>

ScanClass ==
  /\ pc = "scan"
  /\ c < NumClasses
  /\ best' = LET score == At(4 + c, i)
             IN  IF score > best.score THEN [score |-> score, class |-> c] ELSE best
  /\ c' = c + 1
  /\ UNCHANGED <<pc, input, i, boxes, scores, class_ids, detections>>

NextAnchor ==
  /\ pc = "scan"
  /\ c = NumClasses
  /\ i' = i + 1
  /\ c' = 0
  /\ best' = NoClass
  /\ pc' = IF i' = NumDetections THEN "suppress" ELSE "scan"
  /\ UNCHANGED <<input, detections>>

\* Mutant of Reject: a score equal to the threshold may be rejected.
RejectAtThreshold ==
  /\ best.score <= threshold
  /\ NextAnchor
  /\ UNCHANGED <<boxes, scores, class_ids>>

Reject ==
  /\ best.score < threshold
  /\ NextAnchor
  /\ UNCHANGED <<boxes, scores, class_ids>>

Accept ==
  /\ best.score >= threshold
  /\ NextAnchor
  /\ boxes' = Append(boxes, BoxOf(i))
  /\ scores' = Append(scores, best.score)
  /\ class_ids' = Append(class_ids, best.class)

(***************************************************************************)
(* cv::dnn::NMSBoxes is a library: of its answer the code relies on no     *)
(* more than that it lists places in boxes, none of them twice.            *)
(***************************************************************************)
NMSBoxes ==
  {indices \in UNION {[1 .. n -> DOMAIN boxes] : n \in 0 .. Len(boxes)} :
     IsInjective(indices)}

Suppress ==
  /\ pc = "suppress"
  /\ pc' = "idle"
  /\ \E indices \in NMSBoxes :
       detections' = [k \in DOMAIN indices |->
                        [box        |-> boxes[indices[k]],
                         confidence |-> scores[indices[k]],
                         class_id   |-> class_ids[indices[k]]]]
  /\ UNCHANGED <<input, i, c, best, boxes, scores, class_ids>>

(***************************************************************************)
(* COCO_CLASSES is indexed with the class of a detection, and a box of no  *)
(* class has class -1.  What is read there is undefined: it may pass for a *)
(* name (Suppress), or end the program.                                    *)
(***************************************************************************)
NameOutside ==
  /\ pc = "suppress"
  /\ \E k \in DOMAIN class_ids : class_ids[k] = -1
  /\ pc' = "crashed"
  /\ UNCHANGED <<input, i, c, best, boxes, scores, class_ids, detections>>

Crashed == pc = "crashed" /\ UNCHANGED vars

Next == Call \/ ScanClass \/ Reject \/ Accept \/ Suppress \/ NameOutside \/ Crashed

Spec == Init /\ [][Next]_vars

-----------------------------------------------------------------------------
(***************************************************************************)
(* The reference: what one reads off the tensor without the loop.          *)
(***************************************************************************)
IsBest(class, anchor) ==
  /\ \A other \in Classes : At(4 + other, anchor) <= At(4 + class, anchor)
  /\ \A other \in 0 .. class - 1 : At(4 + other, anchor) < At(4 + class, anchor)

Unscored(anchor) == \A class \in Classes : At(4 + class, anchor) <= 0

\* An anchor scores no less than nothing, so a threshold of 0 lets all pass.
Confident(anchor) ==
  threshold <= 0 \/ \E class \in Classes : At(4 + class, anchor) >= threshold

(***************************************************************************)
(* Every detection a call returns is read off one anchor of the tensor of  *)
(* that call: its box, its first best class, and that class's score, which *)
(* reaches the threshold of the call (or no class, where the threshold     *)
(* lets an anchor without a positive score pass).  The three vectors it is *)
(* gathered from are parallel, and static, so a slip in one mixes anchors  *)
(* or frames.                                                              *)
(***************************************************************************)
DetectionsGenuine ==
  \A k \in DOMAIN detections :
    \E anchor \in Anchors :
      /\ detections[k].box = BoxOf(anchor)
      /\ detections[k].confidence >= threshold
      /\ \/ /\ detections[k].class_id \in Classes
            /\ IsBest(detections[k].class_id, anchor)
            /\ detections[k].confidence = At(4 + detections[k].class_id, anchor)
         \/ /\ detections[k].class_id = -1 /\ Unscored(anchor)
            /\ detections[k].confidence = 0

(***************************************************************************)
(* No anchor is missed: the suppression is given as many boxes as there    *)
(* are anchors one of whose scores reaches the threshold.                  *)
(***************************************************************************)
NoneMissed ==
  pc = "suppress" =>
    /\ Len(boxes) = Cardinality({anchor \in Anchors : Confident(anchor)})
    /\ \A anchor \in Anchors : Confident(anchor) =>
         \E k \in DOMAIN boxes : boxes[k] = BoxOf(anchor)

(***************************************************************************)
(* The names are read outside their table only for a tensor in which some  *)
(* anchor has no positive score, and only if the threshold of this call    *)
(* lets it pass: never with the threshold main sets, and never for a class *)
(* left behind by an earlier call.                                         *)
(***************************************************************************)
OutsideOnlyUnscored ==
  pc = "crashed" =>
    /\ threshold <= 0
    /\ \E anchor \in Anchors : Unscored(anchor)

(***************************************************************************)
(* A box lies within the camera frame, however far the extent the model    *)
(* gave reaches out of it, as long as its centre is within the frame.      *)
(***************************************************************************)
CentreInside(anchor) ==
  /\ At(0, anchor) \in 0 .. InputSize
  /\ At(1, anchor) \in 0 .. InputSize
  /\ At(2, anchor) >= 0
  /\ At(3, anchor) >= 0

Within(axis, original) ==
  axis.start >= 0 /\ axis.length >= 0 /\ axis.start + axis.length <= original

BoxesInFrame ==
  (\A anchor \in Anchors : CentreInside(anchor)) =>
    \A k \in DOMAIN boxes : /\ Within(boxes[k].across, OriginalWidth)
                            /\ Within(boxes[k].down, OriginalHeight)

-----------------------------------------------------------------------------
(***************************************************************************)
(* What the repository says and the code does not do.                      *)
(* image_processor.hpp:117, "clip to img boundaries": what is left of a    *)
(* box is the part of it inside the image.  When the left or top edge is   *)
(* moved in, the other edge moves out by as much.                          *)
(***************************************************************************)
Inside(centre, extent, original) ==
  LET start == Start(centre, extent, original)
      end   == start + Length(extent, original)
  IN  Least(end, original * Unit) - Greatest(0, start)

ClippedToImage ==
  \A k \in DOMAIN boxes : \E anchor \in Anchors :
    /\ boxes[k] = BoxOf(anchor)
    /\ boxes[k].across.length
         = ToInt(Inside(At(0, anchor), At(2, anchor), OriginalWidth))
    /\ boxes[k].down.length
         = ToInt(Inside(At(1, anchor), At(3, anchor), OriginalHeight))
=============================================================================
