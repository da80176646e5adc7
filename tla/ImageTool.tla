----------------------------- MODULE ImageTool -----------------------------
(***************************************************************************)
(* src/yolov8n_image.cpp: one picture is read, detected in, drawn on,      *)
(* saved and shown.  The program repeats by hand what the camera program   *)
(* does with OpenCV (the tensor) and in ImageProcessor (the boxes), and    *)
(* clips nothing.                                                          *)
(*                                                                         *)
(* A pixel of the picture, scaled to the model's input, is known by its    *)
(* place and channel.  Numbers are as in Postprocess.                      *)
(***************************************************************************)
EXTENDS Integers, Sequences, FiniteSets

CONSTANTS InputSize, OriginalWidth, OriginalHeight, NumClasses, NumDetections,
          Threshold, Tensors    \* as in Postprocess

VARIABLES
  pc,
  input_tensor, y, x,          \* the tensor and the loops that fill it
  output, i,                   \* output_data, and the anchor looked at
  boxes, scores, class_ids,
  indices,                     \* what NMSBoxes kept and is not yet drawn
  drawn,                       \* what has been drawn on image
  files,                       \* those written, by name
  status                       \* how the program ended

filling == <<input_tensor, y, x>>
scanning == <<output, i, boxes, scores, class_ids>>
ending == <<drawn, files, status>>
vars == <<pc, filling, scanning, indices, ending>>

Camera == INSTANCE Postprocess WITH
  Thresholds <- {Threshold}, threshold <- Threshold,
  c <- 0, best <- [score |-> 0, class |-> -1], detections <- <<>>

\* CONFIDENCE_THRESHOLD is 0.25.
ASSUME ToolAssumption ==
  /\ {InputSize, OriginalWidth, OriginalHeight, NumClasses, NumDetections,
       Threshold} \subseteq Nat \ {0}
  /\ Tensors # {} /\ Tensors \subseteq [Camera!Cells -> Int]

Unset == <<>>   \* a float of the vector before the loop: 0
Plane == InputSize * InputSize
Places == 0 .. InputSize - 1

\* cvtColor(COLOR_BGR2RGB): the channels of the picture in reverse.
Pixel(row, column) == [channel \in 0 .. 2 |-> <<row, column, 2 - channel>>]

TypeOK ==
  /\ pc \in {"start", "load", "session", "resize", "fill", "run", "scan", "nms",
             "draw", "save", "show", "ended"}
  /\ input_tensor \in [0 .. 3 * Plane - 1 ->
                         {Unset} \cup (Places \X Places \X (0 .. 2))]
  /\ {y, x} \subseteq 0 .. InputSize
  /\ output \in Tensors
  /\ i \in 0 .. NumDetections
  /\ Len(boxes) = Len(scores) /\ Len(boxes) = Len(class_ids)
  /\ \A k \in DOMAIN boxes :
       scores[k] >= Threshold /\ class_ids[k] \in 0 .. NumClasses - 1
  /\ \A k \in DOMAIN indices : indices[k] \in DOMAIN boxes
  /\ files \in {<<>>, [name \in {"result.jpg"} |-> drawn]}
  /\ status \in {"running", "abort", "exit -1", "exit 0", "exit 1"}

Init ==
  /\ pc = "start"
  /\ input_tensor = [cell \in 0 .. 3 * Plane - 1 |-> Unset]
  /\ y = 0 /\ x = 0
  /\ output = CHOOSE tensor \in Tensors : TRUE   \* none yet
  /\ i = 0
  /\ boxes = <<>> /\ scores = <<>> /\ class_ids = <<>> /\ indices = <<>>
  /\ drawn = <<>> /\ files = <<>> /\ status = "running"

Goto(from, to) == pc = from /\ pc' = to

Passes(from, to) == Goto(from, to) /\ UNCHANGED <<filling, scanning, indices, ending>>

Ends(from, how) ==
  /\ Goto(from, "ended")
  /\ status' = how
  /\ UNCHANGED <<filling, scanning, indices, drawn, files>>

-----------------------------------------------------------------------------
NoArgument == Ends("start", "exit 1")
Argument   == Passes("start", "load")

NoImage == Ends("load", "exit -1")
Image   == Passes("load", "session")

\* Ort::Env, Ort::Session and Run throw, and main catches nothing.
Throws == Ends("session", "abort") \/ Ends("run", "abort")

Session == Passes("session", "resize")

Resize == Passes("resize", "fill")

\* Mutant of Idx: rows and columns are swapped.
IdxTransposed(row, column) == column * InputSize + row

Idx(row, column) == row * InputSize + column

FillPixel ==
  /\ pc = "fill"
  /\ y < InputSize
  /\ input_tensor' = [input_tensor EXCEPT
       ![Idx(y, x)]             = Pixel(y, x)[0],
       ![Plane + Idx(y, x)]     = Pixel(y, x)[1],
       ![2 * Plane + Idx(y, x)] = Pixel(y, x)[2]]
  /\ x' = (x + 1) % InputSize
  /\ y' = IF x' = 0 THEN y + 1 ELSE y
  /\ UNCHANGED <<pc, scanning, indices, ending>>

Filled == y = InputSize /\ Passes("fill", "run")

Run ==
  /\ Goto("run", "scan")
  /\ output' \in Tensors
  /\ UNCHANGED <<filling, i, boxes, scores, class_ids, indices, ending>>

-----------------------------------------------------------------------------
Score(class, anchor) == Camera!At(4 + class, anchor)

\* best_class and best_score: the first of the best classes above zero.
Best(anchor) ==
  LET classes == {class \in 0 .. NumClasses - 1 : Score(class, anchor) > 0}
      first(class) == \A other \in classes :
        \/ Score(other, anchor) < Score(class, anchor)
        \/ Score(other, anchor) = Score(class, anchor) /\ class <= other
  IN  IF classes = {} THEN [score |-> 0, class |-> -1]
      ELSE LET class == CHOOSE class \in classes : first(class)
           IN  [score |-> Score(class, anchor), class |-> class]

Axis(centre, extent, original) ==
  [start  |-> Camera!ToInt(Camera!Start(centre, extent, original)),
   length |-> Camera!ToInt(Camera!Length(extent, original))]

\* Mutant of BoxOf: one scale for both axes.
BoxOfSquare(anchor) ==
  [across |-> Axis(Camera!At(0, anchor), Camera!At(2, anchor), OriginalWidth),
   down   |-> Axis(Camera!At(1, anchor), Camera!At(3, anchor), OriginalWidth)]

BoxOf(anchor) ==
  [across |-> Axis(Camera!At(0, anchor), Camera!At(2, anchor), OriginalWidth),
   down   |-> Axis(Camera!At(1, anchor), Camera!At(3, anchor), OriginalHeight)]

ScanAnchor ==
  /\ pc = "scan"
  /\ i < NumDetections
  /\ i' = i + 1
  /\ IF Best(i).score < Threshold
     THEN UNCHANGED <<boxes, scores, class_ids>>
     ELSE /\ boxes' = Append(boxes, BoxOf(i))
          /\ scores' = Append(scores, Best(i).score)
          /\ class_ids' = Append(class_ids, Best(i).class)
  /\ UNCHANGED <<pc, output, filling, indices, ending>>

Scanned == i = NumDetections /\ Passes("scan", "nms")

Suppress ==
  /\ Goto("nms", "draw")
  /\ indices' \in Camera!NMSBoxes
  /\ UNCHANGED <<filling, scanning, ending>>

\* Mutant of Draw: the labels are those of the boxes before suppression.
DrawMislabelled ==
  /\ pc = "draw"
  /\ indices # <<>>
  /\ drawn' = Append(drawn, [box        |-> boxes[Head(indices)],
                             class_id   |-> class_ids[Len(drawn) + 1],
                             confidence |-> scores[Len(drawn) + 1]])
  /\ indices' = Tail(indices)
  /\ UNCHANGED <<pc, filling, scanning, files, status>>

Draw ==
  /\ pc = "draw"
  /\ indices # <<>>
  /\ drawn' = Append(drawn, [box        |-> boxes[Head(indices)],
                             class_id   |-> class_ids[Head(indices)],
                             confidence |-> scores[Head(indices)]])
  /\ indices' = Tail(indices)
  /\ UNCHANGED <<pc, filling, scanning, files, status>>

Drawn == indices = <<>> /\ Passes("draw", "save")

\* imwrite answers whether it could; the answer is not looked at, and the log
\* says "Result saved to results.jpg".
Save ==
  /\ Goto("save", "show")
  /\ files' \in {files, [name \in {"result.jpg"} |-> drawn]}
  /\ UNCHANGED <<filling, scanning, indices, drawn, status>>

Show == Ends("show", "exit 0")

Ended == pc = "ended" /\ UNCHANGED vars

Next ==
  \/ NoArgument \/ Argument \/ NoImage \/ Image \/ Throws \/ Session
  \/ Resize \/ FillPixel \/ Filled \/ Run \/ ScanAnchor \/ Scanned
  \/ Suppress \/ Draw \/ Drawn \/ Save \/ Show \/ Ended

Spec == Init /\ [][Next]_vars

-----------------------------------------------------------------------------
(***************************************************************************)
(* The network is given the picture: every cell of the [3, size, size]     *)
(* tensor is the pixel of its row and column, in planes of red, green and  *)
(* blue, when it is run.                                                   *)
(***************************************************************************)
TensorIsPicture ==
  pc = "run" =>
    \A channel \in 0 .. 2, row \in Places, column \in Places :
      input_tensor[channel * Plane + row * InputSize + column]
        = <<row, column, 2 - channel>>

(***************************************************************************)
(* The tool and the camera program agree on a picture in which nothing has *)
(* to be clipped: the same boxes in the same order, from the same tensor.  *)
(***************************************************************************)
ConfidentBelow(n) == {anchor \in 0 .. n - 1 : Camera!Confident(anchor)}

FitsAxis(centre, extent, original) ==
  /\ Camera!Start(centre, extent, original) >= 0
  /\ Camera!Start(centre, extent, original) + Camera!Length(extent, original)
       <= original * Camera!Unit

Fits(anchor) ==
  /\ FitsAxis(Camera!At(0, anchor), Camera!At(2, anchor), OriginalWidth)
  /\ FitsAxis(Camera!At(1, anchor), Camera!At(3, anchor), OriginalHeight)

AgreesWithCamera ==
  LET confident == ConfidentBelow(NumDetections)
  IN  pc = "nms" /\ (\A anchor \in confident : Fits(anchor)) =>
        /\ Len(boxes) = Cardinality(confident)
        /\ \A anchor \in confident :
             boxes[Cardinality(ConfidentBelow(anchor)) + 1] = Camera!BoxOf(anchor)

(***************************************************************************)
(* Whatever is in the file was detected: each box drawn in it bears the    *)
(* class and the score of the anchor it was read from.                     *)
(***************************************************************************)
FileIsGenuine ==
  \A name \in DOMAIN files : \A k \in DOMAIN files[name] :
    \E anchor \in 0 .. NumDetections - 1 :
      LET shown == files[name][k]
      IN  /\ shown.box = BoxOf(anchor)
          /\ Camera!IsBest(shown.class_id, anchor)
          /\ shown.confidence = Score(shown.class_id, anchor)
=============================================================================
