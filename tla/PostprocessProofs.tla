-------------------------- MODULE PostprocessProofs --------------------------
(***************************************************************************)
(* Proofs about postprocessDetections, for frames and model inputs of any  *)
(* size, any number of anchors and classes, any tensor and any threshold.  *)
(***************************************************************************)
EXTENDS Postprocess, SequenceTheorems, FiniteSetTheorems, TLAPS

LEMMA Sizes ==
  /\ InputSize \in Nat \ {0} /\ NumClasses \in Nat \ {0} /\ NumDetections \in Nat \ {0}
  /\ OriginalWidth \in Nat \ {0} /\ OriginalHeight \in Nat \ {0}
BY SizeAssumption

-----------------------------------------------------------------------------
(***************************************************************************)
(* The inductive invariant, in parts.                                      *)
(***************************************************************************)

\* best is what the classes before the n-th of an anchor give.
BestBefore(n, anchor) ==
  \/ /\ best = NoClass
     /\ \A other \in 0 .. n - 1 : At(4 + other, anchor) <= 0
  \/ /\ best.class \in 0 .. n - 1
     /\ best.score = At(4 + best.class, anchor)
     /\ best.score > 0
     /\ \A other \in 0 .. n - 1 : At(4 + other, anchor) <= best.score
     /\ \A other \in 0 .. best.class - 1 : At(4 + other, anchor) < best.score

\* Outside the loop over the classes best is as it is before that loop.
ScanInv ==
  /\ pc = "scan" => i < NumDetections /\ BestBefore(c, i)
  /\ pc # "scan" => best = NoClass

\* A box, a score and a class are those of one anchor.
ReadOff(box, score, class, anchor) ==
  /\ box = BoxOf(anchor)
  /\ score >= threshold
  /\ \/ class \in Classes /\ IsBest(class, anchor) /\ score = At(4 + class, anchor)
     \/ class = -1 /\ Unscored(anchor) /\ score = 0

Seen == 0 .. i - 1

\* The three vectors are parallel, and were read off the anchors seen.
VectorsInv ==
  /\ Len(scores) = Len(boxes) /\ Len(class_ids) = Len(boxes)
  /\ \A k \in 1 .. Len(boxes) : \E anchor \in Seen :
       ReadOff(boxes[k], scores[k], class_ids[k], anchor)

\* ... and none of those that should be in them is missing.
CountInv ==
  /\ Len(boxes) = Cardinality({anchor \in Seen : Confident(anchor)})
  /\ \A anchor \in Seen : Confident(anchor) =>
       \E k \in 1 .. Len(boxes) : boxes[k] = BoxOf(anchor)

\* What suppression leaves was in the vectors.
AnswerInv ==
  /\ pc \in {"scan", "suppress", "crashed"} => detections = <<>>
  /\ pc \in {"suppress", "crashed"} => i = NumDetections
  /\ \A k \in DOMAIN detections : \E j \in 1 .. Len(boxes) :
       detections[k] = [box |-> boxes[j], confidence |-> scores[j],
                        class_id |-> class_ids[j]]

PassInv ==
  TypeOK /\ ScanInv /\ VectorsInv /\ CountInv /\ AnswerInv /\ OutsideOnlyUnscored

-----------------------------------------------------------------------------
(***************************************************************************)
(* Arithmetic: the layout of the tensor, the casts, and the clipping.      *)
(***************************************************************************)

LEMMA MultMonotone ==
  ASSUME NEW a \in Int, NEW b \in Int, NEW n \in Nat, a <= b
  PROVE  a * n <= b * n
OBVIOUS

\* Every row and anchor has a cell.
LEMMA CellIsInt ==
  ASSUME output \in Tensors, NEW row \in 0 .. 3 + NumClasses, NEW anchor \in Anchors
  PROVE  At(row, anchor) \in Int
<1>1. row \in Nat /\ NumDetections \in Nat /\ NumClasses \in Nat
  BY Sizes
<1>2. row * NumDetections \in Nat /\ (3 + NumClasses) * NumDetections \in Nat
  BY <1>1
<1>3. row * NumDetections <= (3 + NumClasses) * NumDetections
  BY <1>1, MultMonotone
<1>4. (4 + NumClasses) * NumDetections = (3 + NumClasses) * NumDetections + NumDetections
  BY <1>1
<1>5. row * NumDetections + anchor \in Cells
  BY <1>1, <1>2, <1>3, <1>4 DEF Cells, Anchors
<1>6. output \in [Cells -> Int]
  BY TensorAssumption
<1>7. QED
  BY <1>5, <1>6 DEF At

LEMMA ScoreIsInt ==
  ASSUME output \in Tensors, NEW class \in Classes, NEW anchor \in Anchors
  PROVE  At(4 + class, anchor) \in Int
<1>1. 4 + class \in 0 .. 3 + NumClasses
  BY Sizes DEF Classes
<1>2. QED
  BY <1>1, CellIsInt

LEMMA ToIntIsInt == \A m \in Int : ToInt(m) \in Int
BY Sizes DEF ToInt, Unit

LEMMA AxisType ==
  ASSUME NEW centre \in Int, NEW extent \in Int, NEW original \in Nat \ {0}
  PROVE  Axis(centre, extent, original) \in [start : Int, length : Int]
<1>1. Start(centre, extent, original) \in Int /\ Length(extent, original) \in Int
  BY DEF Start, Length
<1>2. Unit \in Int /\ original * Unit \in Int
  BY Sizes DEF Unit
<1>3. Clip(Start(centre, extent, original), Length(extent, original), original)
        \in [start : Int, length : Int]
  BY <1>1, <1>2 DEF Clip, Least, Greatest
<1>4. QED
  BY <1>3, ToIntIsInt DEF Axis

LEMMA BoxType ==
  ASSUME output \in Tensors, NEW anchor \in Anchors
  PROVE  BoxOf(anchor) \in [across : [start : Int, length : Int],
                            down   : [start : Int, length : Int]]
<1>1. \A row \in 0 .. 3 : row \in 0 .. 3 + NumClasses
  BY Sizes
<1>2. /\ At(0, anchor) \in Int /\ At(1, anchor) \in Int
      /\ At(2, anchor) \in Int /\ At(3, anchor) \in Int
  BY <1>1, CellIsInt
<1>3. /\ Axis(At(0, anchor), At(2, anchor), OriginalWidth)
           \in [start : Int, length : Int]
      /\ Axis(At(1, anchor), At(3, anchor), OriginalHeight)
           \in [start : Int, length : Int]
  BY <1>2, AxisType, Sizes
<1>4. QED
  BY <1>3 DEF BoxOf

\* Two lengths that fit together still do when both have lost their fractions.
LEMMA DivisionFits ==
  ASSUME NEW a \in Nat, NEW b \in Nat, NEW unit \in Nat \ {0}, NEW n \in Nat,
         a + b <= n * unit
  PROVE  /\ a \div unit \in Nat /\ b \div unit \in Nat
         /\ (a \div unit) + (b \div unit) <= n
<1> DEFINE p == a \div unit
           q == b \div unit
<1>1. p \in Nat /\ q \in Nat /\ p * unit <= a /\ q * unit <= b
  OBVIOUS
<1> HIDE DEF p, q
<1>2. p * unit \in Nat /\ q * unit \in Nat /\ n * unit \in Nat
  BY <1>1
<1>3. (p + q) * unit = p * unit + q * unit
  BY <1>1
<1>4. (p + q) * unit <= n * unit
  BY <1>1, <1>2, <1>3
<1>5. ASSUME n + 1 <= p + q PROVE FALSE
  <2>1. (n + 1) * unit <= (p + q) * unit
    BY <1>1, <1>5, MultMonotone
  <2>2. (n + 1) * unit = n * unit + unit
    OBVIOUS
  <2>3. n * unit + unit <= p * unit + q * unit /\ p * unit + q * unit <= n * unit
    BY <1>3, <1>4, <2>1, <2>2
  <2>4. QED
    BY <1>2, <2>3
<1>6. QED
  BY <1>1, <1>5 DEF p, q

\* A box whose centre is in the frame is clipped to the frame, on either axis.
LEMMA AxisWithin ==
  ASSUME NEW centre \in 0 .. InputSize, NEW extent \in Nat, NEW original \in Nat \ {0}
  PROVE  Within(Axis(centre, extent, original), original)
<1> DEFINE first  == Start(centre, extent, original)
           reach  == Length(extent, original)
           border == original * Unit
           cut    == Clip(first, reach, original)
<1>1. /\ first \in Int /\ reach \in Nat /\ border \in Nat /\ Unit \in Nat \ {0}
      /\ centre \in Nat
  BY Sizes DEF Start, Length, Unit
<1>2. first <= border
  <2>1. 2 * centre - extent <= Unit /\ 2 * centre - extent \in Int
    BY Sizes, <1>1 DEF Unit
  <2>2. (2 * centre - extent) * original <= Unit * original
    BY <1>1, <2>1, MultMonotone
  <2>3. Unit * original = original * Unit
    BY <1>1
  <2>4. QED
    BY <2>2, <2>3 DEF Start
<1> HIDE DEF first, reach, border
<1>3. /\ cut.start \in Nat /\ cut.length \in Nat
      /\ cut.start + cut.length <= border
  <2>1. original * Unit = border
    BY DEF border
  <2>2. QED
    BY <1>1, <1>2, <2>1 DEF Clip, Least, Greatest
<1> HIDE DEF cut
<1>4. /\ ToInt(cut.start) = cut.start \div Unit
      /\ ToInt(cut.length) = cut.length \div Unit
  BY <1>3 DEF ToInt
<1>5. /\ ToInt(cut.start) \in Nat /\ ToInt(cut.length) \in Nat
      /\ ToInt(cut.start) + ToInt(cut.length) <= original
  BY <1>1, <1>3, <1>4, DivisionFits DEF border
<1>6. Axis(centre, extent, original)
        = [start |-> ToInt(cut.start), length |-> ToInt(cut.length)]
  BY DEF Axis, cut, first, reach
<1>7. QED
  BY <1>5, <1>6 DEF Within

-----------------------------------------------------------------------------
(***************************************************************************)
(* The loop.                                                               *)
(***************************************************************************)

\* As long as the tensor and the threshold stay, so does what is read off them.
LEMMA InputKept ==
  ASSUME UNCHANGED input
  PROVE  /\ output' = output /\ threshold' = threshold
         /\ \A row, anchor : At(row, anchor)' = At(row, anchor)
         /\ \A anchor : /\ BoxOf(anchor)' = BoxOf(anchor)
                        /\ Confident(anchor)' <=> Confident(anchor)
                        /\ Unscored(anchor)' <=> Unscored(anchor)
         /\ \A class, anchor : IsBest(class, anchor)' <=> IsBest(class, anchor)
<1>1. output' = output /\ threshold' = threshold
  BY DEF input
<1>2. \A row, anchor : At(row, anchor)' = At(row, anchor)
  BY <1>1 DEF At
<1>3. \A anchor : BoxOf(anchor)' = BoxOf(anchor)
  BY <1>1, <1>2 DEF BoxOf, Axis, Clip, Start, Length, Least, Greatest, ToInt, Unit
<1>4. \A anchor : /\ Confident(anchor)' <=> Confident(anchor)
                  /\ Unscored(anchor)' <=> Unscored(anchor)
  BY <1>1, <1>2 DEF Confident, Unscored
<1>5. \A class, anchor : IsBest(class, anchor)' <=> IsBest(class, anchor)
  BY <1>1, <1>2 DEF IsBest
<1>6. QED
  BY <1>1, <1>2, <1>3, <1>4, <1>5

\* At the end of the loop over the classes best is the first best class, if
\* any scores at all, and it is held against the threshold.
LEMMA BestAtEnd ==
  ASSUME TypeOK, ScanInv, pc = "scan", c = NumClasses
  PROVE  /\ i \in Anchors
         /\ best.score >= threshold <=> Confident(i)
         /\ best.score >= threshold => ReadOff(BoxOf(i), best.score, best.class, i)
<1>1. /\ i \in Anchors /\ output \in Tensors /\ threshold \in Int
      /\ best \in [score : Nat, class : Classes \cup {-1}]
      /\ 0 .. c - 1 = Classes
      /\ BestBefore(c, i)
  BY Sizes, ThresholdAssumption DEF TypeOK, ScanInv, Anchors, Classes
<1>2. \A class \in Classes : At(4 + class, i) \in Int
  BY <1>1, ScoreIsInt
<1>3. CASE best = NoClass
  <2>1. \A class \in Classes : At(4 + class, i) <= 0
    <3>1. best.class = -1
      BY <1>3 DEF NoClass
    <3>2. QED
      BY <1>1, <3>1 DEF BestBefore, Classes
  <2>2. best.score = 0 /\ best.class = -1 /\ Unscored(i)
    BY <1>3, <2>1 DEF NoClass, Unscored
  <2>3. 0 >= threshold <=> Confident(i)
    BY <1>1, <1>2, <2>1 DEF Confident
  <2>4. QED
    BY <1>1, <2>2, <2>3 DEF ReadOff
<1>4. CASE best # NoClass
  <2>1. /\ best.class \in Classes
        /\ best.score = At(4 + best.class, i) /\ best.score > 0
        /\ \A other \in Classes : At(4 + other, i) <= best.score
        /\ \A other \in 0 .. best.class - 1 : At(4 + other, i) < best.score
    BY <1>1, <1>4 DEF BestBefore
  <2>2. IsBest(best.class, i)
    BY <2>1 DEF IsBest
  <2>3. best.score >= threshold <=> Confident(i)
    BY <1>1, <1>2, <2>1 DEF Confident
  <2>4. QED
    BY <1>1, <2>1, <2>2, <2>3 DEF ReadOff
<1>5. QED
  BY <1>3, <1>4

Boxes == [across : [start : Int, length : Int], down : [start : Int, length : Int]]

LEMMA PassInvInit == Init => PassInv
<1> SUFFICES ASSUME Init PROVE PassInv
  OBVIOUS
<1>1. TypeOK
  <2>1. 0 \in 0 .. NumDetections /\ 0 \in 0 .. NumClasses
    BY Sizes
  <2>2. NoClass \in [score : Nat, class : Classes \cup {-1}]
    BY DEF NoClass
  <2>3. QED
    BY <2>1, <2>2, EmptySeq DEF Init, TypeOK
<1>2. ScanInv /\ AnswerInv /\ OutsideOnlyUnscored
  BY DEF Init, ScanInv, AnswerInv, OutsideOnlyUnscored
<1>3. VectorsInv
  BY DEF Init, VectorsInv
<1>4. CountInv
  <2>1. Seen = {} /\ {anchor \in Seen : Confident(anchor)} = {}
    BY DEF Init, Seen
  <2>2. QED
    BY <2>1, FS_EmptySet DEF Init, CountInv
<1>5. QED
  BY <1>1, <1>2, <1>3, <1>4 DEF PassInv

\* A call starts over, with the three vectors cleared.
LEMMA CallStep == PassInv /\ Call => PassInv'
<1> SUFFICES ASSUME Call PROVE PassInv'
  OBVIOUS
<1>1. TypeOK'
  <2>1. 0 \in 0 .. NumDetections /\ 0 \in 0 .. NumClasses
    BY Sizes
  <2>2. NoClass \in [score : Nat, class : Classes \cup {-1}]
    BY DEF NoClass
  <2>3. QED
    BY <2>1, <2>2, EmptySeq DEF Call, TypeOK
<1>2. ScanInv' /\ AnswerInv' /\ OutsideOnlyUnscored'
  BY Sizes DEF Call, ScanInv, AnswerInv, OutsideOnlyUnscored, BestBefore, NoClass
<1>3. VectorsInv'
  BY DEF Call, VectorsInv
<1>4. CountInv'
  <2>1. Seen' = {} /\ {anchor \in Seen' : Confident(anchor)'} = {}
    BY DEF Call, Seen
  <2>2. QED
    BY <2>1, FS_EmptySet DEF Call, CountInv
<1>5. QED
  BY <1>1, <1>2, <1>3, <1>4 DEF PassInv

\* What the vectors hold depends on no more than them, the tensor and the
\* anchors seen.
LEMMA VectorsKept ==
  ASSUME VectorsInv, CountInv, UNCHANGED <<input, i, boxes, scores, class_ids>>
  PROVE  VectorsInv' /\ CountInv'
<1>1. UNCHANGED input /\ Seen' = Seen
  BY DEF Seen
<1>2. VectorsInv'
  <2>1. ASSUME NEW k \in 1 .. Len(boxes)
        PROVE  \E anchor \in Seen :
                 ReadOff(boxes[k], scores[k], class_ids[k], anchor)'
    <3>1. PICK anchor \in Seen : ReadOff(boxes[k], scores[k], class_ids[k], anchor)
      BY DEF VectorsInv
    <3>2. ReadOff(boxes[k], scores[k], class_ids[k], anchor)'
      BY <1>1, <3>1, InputKept DEF ReadOff
    <3>3. QED
      BY <3>2
  <2>2. QED
    BY <1>1, <2>1 DEF VectorsInv
<1>3. CountInv'
  BY <1>1, InputKept DEF CountInv
<1>4. QED
  BY <1>2, <1>3

LEMMA ScanClassStep == PassInv /\ ScanClass => PassInv'
<1> SUFFICES ASSUME PassInv, ScanClass PROVE PassInv'
  OBVIOUS
<1>0. /\ TypeOK /\ ScanInv /\ pc = "scan" /\ pc' = "scan"
      /\ UNCHANGED <<input, i, boxes, scores, class_ids, detections>> /\ i' = i
      /\ i \in Anchors /\ c \in Classes /\ c' = c + 1 /\ c \in Nat
  BY Sizes DEF PassInv, ScanInv, ScanClass, TypeOK, Anchors, Classes
<1> DEFINE score == At(4 + c, i)
<1>1. score \in Int
  BY <1>0, ScoreIsInt DEF TypeOK
<1>2. best' = IF score > best.score THEN [score |-> score, class |-> c] ELSE best
  BY DEF ScanClass
<1>3. \A row, anchor : At(row, anchor)' = At(row, anchor)
  BY <1>0, InputKept
<1>4. best \in [score : Nat, class : Classes \cup {-1}]
  BY <1>0 DEF TypeOK
<1>5. /\ \A other \in 0 .. c - 1 : At(4 + other, i) \in Int
      /\ \A other \in 0 .. c : other \in 0 .. c - 1 \/ other = c
  <2>1. \A other \in 0 .. c - 1 : other \in Classes
    BY <1>0, Sizes DEF Classes
  <2>2. \A other \in 0 .. c - 1 : At(4 + other, i) \in Int
    BY <1>0, <2>1, ScoreIsInt DEF TypeOK
  <2>3. \A other \in 0 .. c : other \in 0 .. c - 1 \/ other = c
    BY <1>0
  <2>4. QED
    BY <2>2, <2>3
<1>6. TypeOK'
  <2>1. best' \in [score : Nat, class : Classes \cup {-1}]
    BY <1>0, <1>1, <1>2, <1>4
  <2>2. c' \in 0 .. NumClasses
    BY <1>0, Sizes DEF Classes
  <2>3. QED
    BY <1>0, <2>1, <2>2 DEF TypeOK, input
<1>7. BestBefore(c, i)'
  <2>1. BestBefore(c, i)
    BY <1>0 DEF ScanInv
  <2>2. CASE score > best.score
    <3>1. best'.score = score /\ best'.class = c /\ score > 0
      BY <1>1, <1>2, <1>4, <2>2
    <3>2. \A other \in 0 .. c - 1 : At(4 + other, i) <= best.score
      BY <2>1 DEF BestBefore, NoClass
    <3>3. /\ \A other \in 0 .. c - 1 : At(4 + other, i) < score
          /\ \A other \in 0 .. c : At(4 + other, i) <= score
      BY <1>1, <1>4, <1>5, <2>2, <3>2
    <3>4. c \in 0 .. c /\ c' - 1 = c
      BY <1>0
    <3>5. QED
      BY <1>0, <1>3, <3>1, <3>3, <3>4 DEF BestBefore
  <2>3. CASE ~(score > best.score)
    <3>1. best' = best /\ score <= best.score
      BY <1>1, <1>2, <1>4, <2>3
    <3>2. CASE best = NoClass
      <4>1. \A other \in 0 .. c - 1 : At(4 + other, i) <= 0
        BY <2>1, <3>2, <1>0 DEF BestBefore, NoClass, Classes
      <4>2. \A other \in 0 .. c : At(4 + other, i) <= 0
        BY <1>5, <3>1, <3>2, <4>1 DEF NoClass
      <4>3. c' - 1 = c
        BY <1>0
      <4>4. QED
        BY <1>0, <1>3, <3>1, <3>2, <4>2, <4>3 DEF BestBefore, NoClass
    <3>3. CASE best # NoClass
      <4>1. /\ best.class \in 0 .. c - 1
            /\ best.score = At(4 + best.class, i) /\ best.score > 0
            /\ \A other \in 0 .. c - 1 : At(4 + other, i) <= best.score
            /\ \A other \in 0 .. best.class - 1 : At(4 + other, i) < best.score
        BY <2>1, <3>3 DEF BestBefore
      <4>2. \A other \in 0 .. c : At(4 + other, i) <= best.score
        BY <1>5, <3>1, <4>1
      <4>3. best.class \in 0 .. c /\ c' - 1 = c
        BY <1>0, <4>1
      <4>4. QED
        BY <1>0, <1>3, <3>1, <4>1, <4>2, <4>3 DEF BestBefore
    <3>4. QED
      BY <3>2, <3>3
  <2>4. QED
    BY <2>2, <2>3
<1>8. ScanInv'
  BY <1>0, <1>7 DEF ScanInv, Anchors
<1>9. VectorsInv' /\ CountInv' /\ AnswerInv' /\ OutsideOnlyUnscored'
  BY <1>0, VectorsKept DEF PassInv, AnswerInv, OutsideOnlyUnscored
<1>10. QED
  BY <1>6, <1>8, <1>9 DEF PassInv

\* What NextAnchor does to what Reject and Accept leave alone.
LEMMA AnchorDone ==
  ASSUME PassInv, NextAnchor
  PROVE  /\ pc = "scan" /\ c = NumClasses /\ i \in Anchors
         /\ i' = i + 1 /\ Seen' = Seen \cup {i} /\ i \notin Seen
         /\ UNCHANGED input /\ detections = <<>> /\ detections' = <<>>
         /\ i' \in 0 .. NumDetections /\ c' \in 0 .. NumClasses
         /\ best' \in [score : Nat, class : Classes \cup {-1}]
         /\ pc' \in {"scan", "suppress"}
         /\ ScanInv' /\ AnswerInv' /\ OutsideOnlyUnscored'
<1>1. /\ pc = "scan" /\ c = NumClasses /\ i' = i + 1 /\ c' = 0 /\ best' = NoClass
      /\ pc' = IF i' = NumDetections THEN "suppress" ELSE "scan"
      /\ UNCHANGED <<input, detections>>
      /\ i \in 0 .. NumDetections - 1
  BY Sizes DEF PassInv, NextAnchor, TypeOK, ScanInv
<1>2. i \in Anchors /\ i' \in 0 .. NumDetections /\ c' \in 0 .. NumClasses
  BY <1>1, Sizes DEF Anchors
<1>3. Seen' = Seen \cup {i} /\ i \notin Seen
  BY <1>1, Sizes DEF Seen
<1>4. detections = <<>> /\ detections' = <<>>
  BY <1>1 DEF PassInv, AnswerInv
<1>5. best' \in [score : Nat, class : Classes \cup {-1}]
  BY <1>1 DEF NoClass
<1>6. ScanInv'
  <2>1. pc' = "scan" => i' < NumDetections
    BY <1>1, Sizes
  <2>2. BestBefore(c, i)'
    BY <1>1 DEF BestBefore, NoClass
  <2>3. QED
    BY <1>1, <2>1, <2>2 DEF ScanInv
<1>7. AnswerInv' /\ OutsideOnlyUnscored'
  BY <1>1, <1>4 DEF AnswerInv, OutsideOnlyUnscored
<1>8. QED
  BY <1>1, <1>2, <1>3, <1>4, <1>5, <1>6, <1>7

LEMMA RejectStep == PassInv /\ Reject => PassInv'
<1> SUFFICES ASSUME PassInv, Reject PROVE PassInv'
  OBVIOUS
<1>1. NextAnchor /\ best.score < threshold /\ UNCHANGED <<boxes, scores, class_ids>>
  BY DEF Reject
<1>2. TypeOK'
  BY <1>1, AnchorDone, EmptySeq DEF PassInv, TypeOK, input
<1>3. ~Confident(i)
  <2>1. best.score \in Nat /\ threshold \in Int
    BY ThresholdAssumption DEF PassInv, TypeOK
  <2>2. ~(best.score >= threshold)
    BY <1>1, <2>1
  <2>3. QED
    BY <1>1, <2>2, AnchorDone, BestAtEnd DEF PassInv
<1>4. VectorsInv'
  <2>1. ASSUME NEW k \in 1 .. Len(boxes)
        PROVE  \E anchor \in Seen' :
                 ReadOff(boxes[k], scores[k], class_ids[k], anchor)'
    <3>1. PICK anchor \in Seen : ReadOff(boxes[k], scores[k], class_ids[k], anchor)
      BY DEF PassInv, VectorsInv
    <3>2. ReadOff(boxes[k], scores[k], class_ids[k], anchor)'
      BY <1>1, <3>1, InputKept, AnchorDone DEF ReadOff
    <3>3. QED
      BY <1>1, <3>2, AnchorDone
  <2>2. QED
    BY <1>1, <2>1 DEF PassInv, VectorsInv
<1>5. CountInv'
  <2>1. {anchor \in Seen' : Confident(anchor)'} = {anchor \in Seen : Confident(anchor)}
    BY <1>1, <1>3, InputKept, AnchorDone
  <2>2. \A anchor \in Seen' : Confident(anchor)' =>
          anchor \in Seen /\ Confident(anchor) /\ BoxOf(anchor)' = BoxOf(anchor)
    BY <1>1, <1>3, InputKept, AnchorDone
  <2>3. QED
    BY <1>1, <2>1, <2>2 DEF PassInv, CountInv
<1>6. QED
  BY <1>1, <1>2, <1>4, <1>5, AnchorDone DEF PassInv

\* Accept adds one entry to each of the three vectors.
LEMMA Gathered ==
  ASSUME PassInv, Accept
  PROVE  /\ Len(boxes) \in Nat /\ Len(scores) = Len(boxes) /\ Len(class_ids) = Len(boxes)
         /\ boxes' \in Seq(Boxes)
         /\ scores' \in Seq(Nat)
         /\ class_ids' \in Seq(Classes \cup {-1})
         /\ Len(boxes') = Len(boxes) + 1
         /\ Len(scores') = Len(boxes) + 1
         /\ Len(class_ids') = Len(boxes) + 1
         /\ \A k \in 1 .. Len(boxes) :
              boxes'[k] = boxes[k] /\ scores'[k] = scores[k] /\ class_ids'[k] = class_ids[k]
         /\ boxes'[Len(boxes) + 1] = BoxOf(i)
         /\ scores'[Len(boxes) + 1] = best.score
         /\ class_ids'[Len(boxes) + 1] = best.class
<1>1. /\ boxes \in Seq(Boxes) /\ scores \in Seq(Nat) /\ class_ids \in Seq(Classes \cup {-1})
      /\ Len(scores) = Len(boxes) /\ Len(class_ids) = Len(boxes)
      /\ best.score \in Nat /\ best.class \in Classes \cup {-1}
  BY DEF PassInv, TypeOK, VectorsInv, Boxes
<1>2. BoxOf(i) \in Boxes
  BY BoxType, AnchorDone DEF Accept, PassInv, TypeOK, Boxes
<1>3. /\ boxes' = Append(boxes, BoxOf(i))
      /\ scores' = Append(scores, best.score)
      /\ class_ids' = Append(class_ids, best.class)
  BY DEF Accept
<1> HIDE DEF Boxes
<1>4. /\ Len(boxes) \in Nat
      /\ boxes' \in Seq(Boxes) /\ Len(boxes') = Len(boxes) + 1
      /\ \A k \in 1 .. Len(boxes) : boxes'[k] = boxes[k]
      /\ boxes'[Len(boxes) + 1] = BoxOf(i)
  BY <1>1, <1>2, <1>3, AppendProperties, LenProperties
<1>5. /\ scores' \in Seq(Nat) /\ Len(scores') = Len(boxes) + 1
      /\ \A k \in 1 .. Len(boxes) : scores'[k] = scores[k]
      /\ scores'[Len(boxes) + 1] = best.score
  BY <1>1, <1>3, AppendProperties
<1>6. /\ class_ids' \in Seq(Classes \cup {-1}) /\ Len(class_ids') = Len(boxes) + 1
      /\ \A k \in 1 .. Len(boxes) : class_ids'[k] = class_ids[k]
      /\ class_ids'[Len(boxes) + 1] = best.class
  BY <1>1, <1>3, AppendProperties
<1>7. QED
  BY <1>1, <1>4, <1>5, <1>6

LEMMA AcceptStep == PassInv /\ Accept => PassInv'
<1> SUFFICES ASSUME PassInv, Accept PROVE PassInv'
  OBVIOUS
<1> DEFINE last == Len(boxes) + 1
<1>1. NextAnchor /\ best.score >= threshold
  BY DEF Accept
<1>2. TypeOK'
  BY <1>1, AnchorDone, Gathered, EmptySeq DEF PassInv, TypeOK, Boxes, input
<1>3. /\ Confident(i) /\ ReadOff(BoxOf(i), best.score, best.class, i)
      /\ UNCHANGED input /\ i \in Seen' /\ Seen \subseteq Seen'
  BY <1>1, AnchorDone, BestAtEnd DEF PassInv
<1>4. VectorsInv'
  <2>1. ASSUME NEW k \in 1 .. last
        PROVE  \E anchor \in Seen' :
                 ReadOff(boxes[k], scores[k], class_ids[k], anchor)'
    <3>1. CASE k = last
      <4>1. /\ boxes'[k] = BoxOf(i) /\ scores'[k] = best.score
            /\ class_ids'[k] = best.class
        BY <3>1, Gathered
      <4>2. \A anchor \in {i} : ReadOff(boxes[k], scores[k], class_ids[k], anchor)'
        BY <1>3, <4>1, InputKept DEF ReadOff
      <4>3. QED
        BY <1>3, <4>2
    <3>2. CASE k # last
      <4>1. /\ k \in 1 .. Len(boxes)
            /\ boxes'[k] = boxes[k] /\ scores'[k] = scores[k] /\ class_ids'[k] = class_ids[k]
        BY <2>1, <3>2, Gathered
      <4>2. PICK anchor \in Seen : ReadOff(boxes[k], scores[k], class_ids[k], anchor)
        BY <4>1 DEF PassInv, VectorsInv
      <4>3. ReadOff(boxes[k], scores[k], class_ids[k], anchor)'
        BY <1>3, <4>1, <4>2, InputKept DEF ReadOff
      <4>4. QED
        BY <1>3, <4>3
    <3>3. QED
      BY <3>1, <3>2
  <2>2. QED
    BY <2>1, Gathered DEF VectorsInv
<1>5. CountInv'
  <2> DEFINE before == {anchor \in Seen : Confident(anchor)}
  <2>1. {anchor \in Seen' : Confident(anchor)'} = before \cup {i} /\ i \notin before
    BY <1>1, <1>3, InputKept, AnchorDone
  <2>2. IsFiniteSet(before)
    <3>1. i - 1 \in Int
      BY <1>1, AnchorDone DEF Anchors
    <3>2. IsFiniteSet(Seen)
      BY <3>1, FS_Interval DEF Seen
    <3>3. QED
      BY <3>2, FS_Subset
  <2>3. Cardinality(before \cup {i}) = Cardinality(before) + 1
    BY <2>1, <2>2, FS_AddElement
  <2>4. ASSUME NEW anchor \in Seen', Confident(anchor)'
        PROVE  \E k \in 1 .. last : boxes'[k] = BoxOf(anchor)'
    <3>1. BoxOf(anchor)' = BoxOf(anchor)
      BY <1>3, InputKept
    <3>2. CASE anchor = i
      BY <3>1, <3>2, Gathered
    <3>3. CASE anchor # i
      <4>1. anchor \in Seen /\ Confident(anchor)
        BY <1>1, <1>3, <2>4, <3>3, InputKept, AnchorDone
      <4>2. PICK k \in 1 .. Len(boxes) : boxes[k] = BoxOf(anchor)
        BY <4>1 DEF PassInv, CountInv
      <4>3. QED
        BY <3>1, <4>2, Gathered
    <3>4. QED
      BY <3>2, <3>3
  <2>5. Len(boxes) = Cardinality(before)
    BY DEF PassInv, CountInv
  <2> HIDE DEF before
  <2>6. QED
    BY <2>1, <2>3, <2>4, <2>5, Gathered DEF CountInv
<1>6. QED
  BY <1>1, <1>2, <1>4, <1>5, AnchorDone DEF PassInv

\* What suppression returns is built from entries of the three vectors.
LEMMA SuppressStep == PassInv /\ Suppress => PassInv'
<1> SUFFICES ASSUME PassInv, Suppress PROVE PassInv'
  OBVIOUS
<1>1. /\ pc = "suppress" /\ pc' = "idle" /\ i' = i
      /\ UNCHANGED <<input, i, c, best, boxes, scores, class_ids>>
      /\ boxes' = boxes /\ scores' = scores /\ class_ids' = class_ids
      /\ output' = output /\ threshold' = threshold /\ c' = c /\ best' = best
  BY DEF Suppress, input
<1>2. PICK indices \in NMSBoxes :
        detections' = [k \in DOMAIN indices |->
                         [box        |-> boxes[indices[k]],
                          confidence |-> scores[indices[k]],
                          class_id   |-> class_ids[indices[k]]]]
  BY DEF Suppress
<1>3. /\ boxes \in Seq(Boxes) /\ scores \in Seq(Nat) /\ class_ids \in Seq(Classes \cup {-1})
      /\ Len(scores) = Len(boxes) /\ Len(class_ids) = Len(boxes)
  BY DEF PassInv, TypeOK, VectorsInv, Boxes
<1> HIDE DEF Boxes
<1>4. /\ Len(boxes) \in Nat
      /\ DOMAIN boxes = 1 .. Len(boxes) /\ DOMAIN scores = 1 .. Len(boxes)
      /\ DOMAIN class_ids = 1 .. Len(boxes)
  BY <1>3, LenProperties
<1>5. PICK n \in 0 .. Len(boxes) : indices \in [1 .. n -> DOMAIN boxes]
  BY <1>2 DEF NMSBoxes
<1>6. /\ n \in Nat /\ DOMAIN detections' = 1 .. n
      /\ \A k \in 1 .. n :
           /\ indices[k] \in 1 .. Len(boxes)
           /\ detections'[k] = [box        |-> boxes[indices[k]],
                                confidence |-> scores[indices[k]],
                                class_id   |-> class_ids[indices[k]]]
  BY <1>2, <1>4, <1>5
<1> DEFINE Entry == [box : Range(boxes), confidence : Range(scores),
                     class_id : Range(class_ids)]
<1>7. detections' \in Seq(Entry)
  <2>1. \A j \in 1 .. Len(boxes) :
          [box |-> boxes[j], confidence |-> scores[j], class_id |-> class_ids[j]] \in Entry
    BY <1>4 DEF Range
  <2> HIDE DEF Entry
  <2>2. \A k \in 1 .. n : detections'[k] \in Entry
    BY <1>6, <2>1
  <2>3. detections' = [k \in 1 .. n |-> detections'[k]]
    BY <1>2, <1>5
  <2>4. detections' \in [1 .. n -> Entry]
    BY <2>2, <2>3
  <2>5. QED
    BY <1>6, <2>4, SeqDef
<1>8. TypeOK'
  BY <1>1, <1>7 DEF PassInv, TypeOK
<1>9. AnswerInv'
  <2>1. \A k \in DOMAIN detections' : \E j \in 1 .. Len(boxes) :
          detections'[k] = [box |-> boxes[j], confidence |-> scores[j],
                            class_id |-> class_ids[j]]
    BY <1>6
  <2>2. QED
    BY <1>1, <2>1 DEF AnswerInv
<1>10. ScanInv' /\ OutsideOnlyUnscored'
  BY <1>1 DEF PassInv, ScanInv, OutsideOnlyUnscored
<1>11. VectorsInv' /\ CountInv'
  BY <1>1, VectorsKept DEF PassInv
<1>12. QED
  BY <1>8, <1>9, <1>10, <1>11 DEF PassInv

\* The names are read with class -1 only for an anchor without a score.
LEMMA NameOutsideStep == PassInv /\ NameOutside => PassInv'
<1> SUFFICES ASSUME PassInv, NameOutside PROVE PassInv'
  OBVIOUS
<1>1. /\ pc = "suppress" /\ pc' = "crashed"
      /\ UNCHANGED <<input, i, c, best, boxes, scores, class_ids, detections>>
      /\ i' = i /\ c' = c /\ best' = best /\ detections' = detections
      /\ boxes' = boxes /\ scores' = scores /\ class_ids' = class_ids
      /\ output' = output /\ threshold' = threshold
  BY DEF NameOutside, input
<1>2. PICK k \in DOMAIN class_ids : class_ids[k] = -1
  BY DEF NameOutside
<1>3. k \in 1 .. Len(boxes)
  <2>1. DOMAIN class_ids = 1 .. Len(class_ids)
    BY DEF PassInv, TypeOK
  <2>2. QED
    BY <1>2, <2>1 DEF PassInv, VectorsInv
<1>4. PICK anchor \in Seen : ReadOff(boxes[k], scores[k], class_ids[k], anchor)
  BY <1>3 DEF PassInv, VectorsInv
<1>5. -1 \notin Classes
  BY Sizes DEF Classes
<1>6. Unscored(anchor) /\ scores[k] = 0 /\ scores[k] >= threshold
  BY <1>2, <1>4, <1>5 DEF ReadOff
<1>7. threshold <= 0
  BY <1>6, ThresholdAssumption DEF PassInv, TypeOK
<1>8. anchor \in Anchors /\ Unscored(anchor)'
  BY <1>1, <1>6, Sizes, InputKept DEF PassInv, TypeOK, Seen, Anchors
<1>9. OutsideOnlyUnscored'
  BY <1>1, <1>7, <1>8, Sizes DEF OutsideOnlyUnscored, Anchors
<1>10. TypeOK' /\ ScanInv' /\ AnswerInv'
  BY <1>1 DEF PassInv, TypeOK, ScanInv, AnswerInv
<1>11. QED
  BY <1>1, <1>9, <1>10, VectorsKept DEF PassInv

LEMMA UnchangedStep == PassInv /\ UNCHANGED vars => PassInv'
<1> SUFFICES ASSUME PassInv, UNCHANGED vars PROVE PassInv'
  OBVIOUS
<1>1. /\ UNCHANGED <<input, i, c, best, boxes, scores, class_ids, detections, pc>>
      /\ i' = i /\ c' = c /\ best' = best /\ detections' = detections /\ pc' = pc
      /\ boxes' = boxes /\ scores' = scores /\ class_ids' = class_ids
      /\ output' = output /\ threshold' = threshold
  BY DEF vars, input
<1>2. TypeOK' /\ AnswerInv'
  BY <1>1 DEF PassInv, TypeOK, AnswerInv
<1>3. ScanInv' /\ OutsideOnlyUnscored'
  BY <1>1 DEF PassInv, ScanInv, OutsideOnlyUnscored, BestBefore, Unscored, At, Anchors
<1>4. QED
  BY <1>1, <1>2, <1>3, VectorsKept DEF PassInv

LEMMA PassInvStep == PassInv /\ [Next]_vars => PassInv'
BY CallStep, ScanClassStep, RejectStep, AcceptStep, SuppressStep, NameOutsideStep,
   UnchangedStep DEF Next, Crashed

\* The inductive invariant holds throughout every sequence of calls.
THEOREM PassInvCorrect == Spec => []PassInv
BY PassInvInit, PassInvStep, PTL DEF Spec

-----------------------------------------------------------------------------
(***************************************************************************)
(* What postprocessDetections promises.                                    *)
(***************************************************************************)

\* Every variable of the pass stays in its type; in particular the loops over
\* the anchors and the classes stay inside the tensor.
THEOREM PassTypeCorrect == Spec => []TypeOK
<1>1. PassInv => TypeOK
  BY DEF PassInv
<1>2. QED
  BY <1>1, PassInvCorrect, PTL

\* Every detection returned is read off one anchor of the tensor of this call.
THEOREM DetectionsAreGenuine == Spec => []DetectionsGenuine
<1>1. PassInv => DetectionsGenuine
  <2> SUFFICES ASSUME PassInv, NEW k \in DOMAIN detections
               PROVE  \E anchor \in Anchors :
                        /\ detections[k].box = BoxOf(anchor)
                        /\ detections[k].confidence >= threshold
                        /\ \/ /\ detections[k].class_id \in Classes
                              /\ IsBest(detections[k].class_id, anchor)
                              /\ detections[k].confidence
                                   = At(4 + detections[k].class_id, anchor)
                           \/ /\ detections[k].class_id = -1 /\ Unscored(anchor)
                              /\ detections[k].confidence = 0
    BY DEF DetectionsGenuine
  <2>1. PICK j \in 1 .. Len(boxes) :
          detections[k] = [box |-> boxes[j], confidence |-> scores[j],
                           class_id |-> class_ids[j]]
    BY DEF PassInv, AnswerInv
  <2>2. PICK anchor \in Seen : ReadOff(boxes[j], scores[j], class_ids[j], anchor)
    BY DEF PassInv, VectorsInv
  <2>3. anchor \in Anchors
    BY Sizes DEF PassInv, TypeOK, Seen, Anchors
  <2>4. /\ detections[k].box = boxes[j] /\ detections[k].confidence = scores[j]
        /\ detections[k].class_id = class_ids[j]
    BY <2>1
  <2>5. QED
    BY <2>2, <2>3, <2>4 DEF ReadOff
<1>2. QED
  BY <1>1, PassInvCorrect, PTL

\* Suppression is given a box for every anchor that scores enough, and no more.
THEOREM NoAnchorMissed == Spec => []NoneMissed
<1>1. PassInv => NoneMissed
  <2> SUFFICES ASSUME PassInv, pc = "suppress"
               PROVE  /\ Len(boxes) = Cardinality({anchor \in Anchors : Confident(anchor)})
                      /\ \A anchor \in Anchors : Confident(anchor) =>
                           \E k \in DOMAIN boxes : boxes[k] = BoxOf(anchor)
    BY DEF NoneMissed
  <2>1. Seen = Anchors
    BY DEF PassInv, AnswerInv, Seen, Anchors
  <2>2. DOMAIN boxes = 1 .. Len(boxes)
    BY DEF PassInv, TypeOK
  <2>3. QED
    BY <2>1, <2>2 DEF PassInv, CountInv
<1>2. QED
  BY <1>1, PassInvCorrect, PTL

\* The table of names is read outside only for an anchor without a positive
\* score that a threshold of this call below or at zero lets pass.
THEOREM NamesReadInside == Spec => []OutsideOnlyUnscored
<1>1. PassInv => OutsideOnlyUnscored
  BY DEF PassInv
<1>2. QED
  BY <1>1, PassInvCorrect, PTL

\* Boxes whose centres are in the frame are clipped to the frame.
THEOREM BoxesAreClipped == Spec => []BoxesInFrame
<1>1. PassInv => BoxesInFrame
  <2> SUFFICES ASSUME PassInv, \A anchor \in Anchors : CentreInside(anchor),
                      NEW k \in DOMAIN boxes
               PROVE  /\ Within(boxes[k].across, OriginalWidth)
                      /\ Within(boxes[k].down, OriginalHeight)
    BY DEF BoxesInFrame
  <2>1. k \in 1 .. Len(boxes)
    <3>1. DOMAIN boxes = 1 .. Len(boxes)
      BY DEF PassInv, TypeOK
    <3>2. QED
      BY <3>1
  <2>2. PICK anchor \in Seen : ReadOff(boxes[k], scores[k], class_ids[k], anchor)
    BY <2>1 DEF PassInv, VectorsInv
  <2>3. anchor \in Anchors
    BY Sizes DEF PassInv, TypeOK, Seen, Anchors
  <2>4. CentreInside(anchor)
    BY <2>3
  <2>5. /\ At(0, anchor) \in 0 .. InputSize /\ At(1, anchor) \in 0 .. InputSize
        /\ At(2, anchor) \in Nat /\ At(3, anchor) \in Nat
    <3>1. 2 \in 0 .. 3 + NumClasses /\ 3 \in 0 .. 3 + NumClasses
      BY Sizes
    <3>2. At(2, anchor) \in Int /\ At(3, anchor) \in Int
      BY <2>3, <3>1, CellIsInt DEF PassInv, TypeOK
    <3>3. QED
      BY <2>4, <3>2 DEF CentreInside
  <2>6. /\ Within(Axis(At(0, anchor), At(2, anchor), OriginalWidth), OriginalWidth)
        /\ Within(Axis(At(1, anchor), At(3, anchor), OriginalHeight), OriginalHeight)
    BY <2>5, AxisWithin, Sizes
  <2>7. QED
    BY <2>2, <2>6 DEF ReadOff, BoxOf
<1>2. QED
  BY <1>1, PassInvCorrect, PTL

-----------------------------------------------------------------------------
(***************************************************************************)
(* Where "clip to img boundaries" (image_processor.hpp:117) is true: a box *)
(* that does not begin before the left (top) edge, or that reaches over    *)
(* both edges, is clipped to the part of it inside the image; only one     *)
(* that begins before the edge and ends within the image comes out longer. *)
(***************************************************************************)
ClippedExactly(centre, extent, original) ==
  \/ Start(centre, extent, original) >= 0
  \/ Start(centre, extent, original) + Length(extent, original) >= original * Unit

LEMMA CutToInside ==
  ASSUME NEW centre \in Int, NEW extent \in Int, NEW original \in Nat \ {0}
  PROVE  ClippedExactly(centre, extent, original) <=>
           Clip(Start(centre, extent, original), Length(extent, original), original).length
             = Inside(centre, extent, original)
<1> DEFINE first  == Start(centre, extent, original)
           reach  == Length(extent, original)
           border == original * Unit
<1>1. first \in Int /\ reach \in Int /\ border \in Int
  BY Sizes DEF Start, Length, Unit
<1>2. /\ Clip(first, reach, original).length = Least(reach, border - Greatest(0, first))
      /\ Inside(centre, extent, original)
           = Least(first + reach, border) - Greatest(0, first)
      /\ ClippedExactly(centre, extent, original) <=> first >= 0 \/ first + reach >= border
  BY DEF Clip, Inside, ClippedExactly
<1> HIDE DEF first, reach, border
<1>3. Least(reach, border - Greatest(0, first))
        = Least(first + reach, border) - Greatest(0, first)
      <=> first >= 0 \/ first + reach >= border
  BY <1>1 DEF Least, Greatest
<1>4. QED
  BY <1>2, <1>3 DEF first, reach

\* The part of a box inside the image, and the axes on which it comes out so.
ClippedWhereExact ==
  \A k \in DOMAIN boxes : \E anchor \in Anchors :
    /\ boxes[k] = BoxOf(anchor)
    /\ ClippedExactly(At(0, anchor), At(2, anchor), OriginalWidth) =>
         boxes[k].across.length
           = ToInt(Inside(At(0, anchor), At(2, anchor), OriginalWidth))
    /\ ClippedExactly(At(1, anchor), At(3, anchor), OriginalHeight) =>
         boxes[k].down.length
           = ToInt(Inside(At(1, anchor), At(3, anchor), OriginalHeight))

THEOREM ClippedToTheImage == Spec => []ClippedWhereExact
<1>1. PassInv => ClippedWhereExact
  <2> SUFFICES ASSUME PassInv, NEW k \in DOMAIN boxes
               PROVE  \E anchor \in Anchors :
                 /\ boxes[k] = BoxOf(anchor)
                 /\ ClippedExactly(At(0, anchor), At(2, anchor), OriginalWidth) =>
                      boxes[k].across.length
                        = ToInt(Inside(At(0, anchor), At(2, anchor), OriginalWidth))
                 /\ ClippedExactly(At(1, anchor), At(3, anchor), OriginalHeight) =>
                      boxes[k].down.length
                        = ToInt(Inside(At(1, anchor), At(3, anchor), OriginalHeight))
    BY DEF ClippedWhereExact
  <2>1. k \in 1 .. Len(boxes)
    <3>1. DOMAIN boxes = 1 .. Len(boxes)
      BY DEF PassInv, TypeOK
    <3>2. QED
      BY <3>1
  <2>2. PICK anchor \in Seen : ReadOff(boxes[k], scores[k], class_ids[k], anchor)
    BY <2>1 DEF PassInv, VectorsInv
  <2>3. anchor \in Anchors
    BY Sizes DEF PassInv, TypeOK, Seen, Anchors
  <2>4. /\ At(0, anchor) \in Int /\ At(1, anchor) \in Int
        /\ At(2, anchor) \in Int /\ At(3, anchor) \in Int
    <3>1. \A row \in 0 .. 3 : row \in 0 .. 3 + NumClasses
      BY Sizes
    <3>2. QED
      BY <2>3, <3>1, CellIsInt DEF PassInv, TypeOK
  <2>5. boxes[k] = BoxOf(anchor)
    BY <2>2 DEF ReadOff
  <2>6. /\ boxes[k].across.length
             = ToInt(Clip(Start(At(0, anchor), At(2, anchor), OriginalWidth),
                          Length(At(2, anchor), OriginalWidth), OriginalWidth).length)
        /\ boxes[k].down.length
             = ToInt(Clip(Start(At(1, anchor), At(3, anchor), OriginalHeight),
                          Length(At(3, anchor), OriginalHeight), OriginalHeight).length)
    BY <2>5 DEF BoxOf, Axis
  <2>7. QED
    BY <2>3, <2>4, <2>5, <2>6, CutToInside, Sizes
<1>2. QED
  BY <1>1, PassInvCorrect, PTL
=============================================================================
