--------------------------- MODULE ImageToolProofs ---------------------------
(***************************************************************************)
(* Proofs about the one-shot image tool, for pictures and model inputs of  *)
(* any size, any number of anchors and classes, and any tensor.            *)
(***************************************************************************)
EXTENDS ImageTool, SequenceTheorems, FiniteSetTheorems, WellFoundedInduction, TLAPS

CP == INSTANCE PostprocessProofs WITH
  Thresholds <- {Threshold}, threshold <- Threshold,
  c <- 0, best <- [score |-> 0, class |-> -1], detections <- <<>>

LEMMA Sizes ==
  /\ InputSize \in Nat \ {0} /\ NumClasses \in Nat \ {0} /\ NumDetections \in Nat \ {0}
  /\ OriginalWidth \in Nat \ {0} /\ OriginalHeight \in Nat \ {0}
  /\ Threshold \in Nat \ {0}
BY ToolAssumption

-----------------------------------------------------------------------------
(***************************************************************************)
(* The inductive invariant, in parts.                                      *)
(***************************************************************************)
Cell(channel, row, column) == channel * Plane + Idx(row, column)

\* The pixels before (y, x) are in the tensor.
FillInv ==
  /\ y \in 0 .. InputSize /\ x \in Places
  /\ y = InputSize => x = 0
  /\ DOMAIN input_tensor = 0 .. 3 * Plane - 1
  /\ \A channel \in 0 .. 2, row \in Places, column \in Places :
       row < y \/ (row = y /\ column < x) =>
         input_tensor[Cell(channel, row, column)] = <<row, column, 2 - channel>>
  /\ pc = "run" => y = InputSize

Before == {"start", "load", "session", "resize", "fill", "run"}
AnyBox == [across : [start : Int, length : Int], down : [start : Int, length : Int]]

\* Each entry of the three vectors was read off an anchor, in order.
BoxesInv ==
  /\ output \in Tensors
  /\ i \in 0 .. NumDetections
  /\ pc \in Before => i = 0
  /\ pc \in {"nms", "draw", "save", "show"} => i = NumDetections
  /\ boxes \in Seq(AnyBox) /\ scores \in Seq(Int) /\ class_ids \in Seq(Int)
  /\ Len(scores) = Len(boxes) /\ Len(class_ids) = Len(boxes)
  /\ Len(boxes) = Cardinality(ConfidentBelow(i))
  /\ \A k \in 1 .. Len(boxes) : \E anchor \in 0 .. i - 1 :
       /\ Camera!Confident(anchor)
       /\ k = Cardinality(ConfidentBelow(anchor)) + 1
       /\ boxes[k] = BoxOf(anchor)
       /\ class_ids[k] \in 0 .. NumClasses - 1
       /\ Camera!IsBest(class_ids[k], anchor)
       /\ scores[k] = Score(class_ids[k], anchor)
  /\ \A anchor \in ConfidentBelow(i) :
       LET k == Cardinality(ConfidentBelow(anchor)) + 1
       IN  k \in 1 .. Len(boxes) /\ boxes[k] = BoxOf(anchor)

\* What is drawn, and then saved, is in the vectors.
DrawnInv ==
  /\ pc \in Before \cup {"scan", "nms"} => drawn = <<>> /\ indices = <<>>
  /\ pc \notin {"show", "ended"} => files = <<>>
  /\ files \in {<<>>, [name \in {"result.jpg"} |-> drawn]}
  /\ indices \in Seq(1 .. Len(boxes))
  /\ drawn \in Seq([box : AnyBox, class_id : Int, confidence : Int])
  /\ \A k \in DOMAIN drawn : \E j \in 1 .. Len(boxes) :
       drawn[k] = [box |-> boxes[j], class_id |-> class_ids[j], confidence |-> scores[j]]

ToolInv == FillInv /\ BoxesInv /\ DrawnInv

-----------------------------------------------------------------------------
(***************************************************************************)
(* The best class.                                                         *)
(***************************************************************************)

LEMMA LeastNumber ==
  ASSUME NEW T \in SUBSET Nat, T # {}
  PROVE  \E n \in T : \A m \in T : n <= m
<1> DEFINE Less == {pair \in Nat \X Nat : pair[1] < pair[2]}
<1>1. IsWellFoundedOn(Less, Nat)
  BY NatLessThanWellFounded DEF OpToRel
<1>2. \A m, n \in Nat : <<m, n>> \in Less <=> m < n
  OBVIOUS
<1> HIDE DEF Less
<1>3. PICK n \in T : \A m \in T : ~(<<m, n>> \in Less)
  BY <1>1, WFMin
<1>4. \A m \in T : ~(m < n)
  BY <1>2, <1>3
<1>5. \A m \in T : n <= m
  BY <1>4
<1>6. QED
  BY <1>5

\* Induction, stated of a set of numbers.
LEMMA AllNumbers ==
  ASSUME NEW S, 0 \in S, \A n \in Nat : n \in S => n + 1 \in S
  PROVE  Nat \subseteq S
<1> DEFINE T == Nat \ S
<1>1. SUFFICES ASSUME T # {} PROVE FALSE
  OBVIOUS
<1>2. T \in SUBSET Nat
  OBVIOUS
<1> HIDE DEF T
<1>3. PICK n \in T : \A m \in T : n <= m
  BY <1>1, <1>2, LeastNumber
<1>4. n \in Nat /\ n \notin S /\ n # 0
  BY <1>3 DEF T
<1>5. n - 1 \in Nat /\ n - 1 \notin T /\ (n - 1) + 1 = n
  BY <1>3, <1>4
<1>6. QED
  BY <1>4, <1>5 DEF T

LEMMA ScoreIsInt ==
  ASSUME output \in Tensors, NEW anchor \in 0 .. NumDetections - 1,
         NEW class \in 0 .. NumClasses - 1
  PROVE  Score(class, anchor) \in Int
<1>1. class \in CP!Classes /\ anchor \in CP!Anchors
  BY DEF CP!Classes, CP!Anchors
<1>2. CP!At(4 + class, anchor) \in Int
  BY <1>1, CP!ScoreIsInt, ToolAssumption DEF Camera!Cells, CP!Cells
<1>3. QED
  BY <1>2 DEF Score, Camera!At, CP!At

LEMMA RowIsInt ==
  ASSUME output \in Tensors, NEW anchor \in 0 .. NumDetections - 1,
         NEW row \in 0 .. 3
  PROVE  Camera!At(row, anchor) \in Int
<1>1. row \in 0 .. 3 + NumClasses /\ anchor \in CP!Anchors
  BY Sizes DEF CP!Anchors
<1>2. CP!At(row, anchor) \in Int
  BY <1>1, CP!CellIsInt, ToolAssumption DEF Camera!Cells, CP!Cells
<1>3. QED
  BY <1>2 DEF Camera!At, CP!At

\* class is the first of the best of the first n classes.
FirstOf(n, class, anchor) ==
  /\ class \in 0 .. n - 1
  /\ Score(class, anchor) > 0
  /\ \A other \in 0 .. n - 1 :
       \/ Score(other, anchor) < Score(class, anchor)
       \/ Score(other, anchor) = Score(class, anchor) /\ class <= other

NoneOf(n, anchor) == \A other \in 0 .. n - 1 : Score(other, anchor) <= 0

LEMMA FirstExists ==
  ASSUME output \in Tensors, NEW anchor \in 0 .. NumDetections - 1
  PROVE  NoneOf(NumClasses, anchor) \/ \E class : FirstOf(NumClasses, class, anchor)
<1> DEFINE Fine(n) == NoneOf(n, anchor) \/ \E class : FirstOf(n, class, anchor)
           S       == {n \in Nat : n <= NumClasses => Fine(n)}
<1>1. 0 \in S
  BY DEF NoneOf
<1>2. ASSUME NEW n \in Nat, n \in S PROVE n + 1 \in S
  <2> SUFFICES ASSUME n + 1 <= NumClasses PROVE Fine(n + 1)
    BY <1>2
  <2>1. Fine(n)
    BY <1>2, Sizes
  <2>2. /\ \A other \in 0 .. n : Score(other, anchor) \in Int
        /\ \A other \in 0 .. n : other \in 0 .. n - 1 \/ other = n
        /\ n \in 0 .. n /\ \A other \in 0 .. n - 1 : other \in 0 .. n /\ other < n
    <3>1. \A other \in 0 .. n : other \in 0 .. NumClasses - 1
      BY Sizes
    <3>2. QED
      BY <3>1, ScoreIsInt
  <2>3. (n + 1) - 1 = n
    OBVIOUS
  <2>4. CASE NoneOf(n, anchor)
    <3>1. CASE Score(n, anchor) <= 0
      BY <2>2, <2>3, <2>4, <3>1 DEF NoneOf
    <3>2. CASE ~(Score(n, anchor) <= 0)
      <4>1. Score(n, anchor) > 0
        BY <2>2, <3>2
      <4>2. \A other \in 0 .. n - 1 : Score(other, anchor) < Score(n, anchor)
        BY <2>2, <2>4, <4>1 DEF NoneOf
      <4>3. FirstOf(n + 1, n, anchor)
        BY <2>2, <2>3, <4>1, <4>2 DEF FirstOf
      <4>4. QED
        BY <4>3
    <3>3. QED
      BY <3>1, <3>2
  <2>5. CASE \E class : FirstOf(n, class, anchor)
    <3>1. PICK class : FirstOf(n, class, anchor)
      BY <2>5
    <3>2. /\ class \in 0 .. n /\ class < n /\ Score(class, anchor) > 0
          /\ \A other \in 0 .. n - 1 :
               \/ Score(other, anchor) < Score(class, anchor)
               \/ Score(other, anchor) = Score(class, anchor) /\ class <= other
      BY <2>2, <3>1 DEF FirstOf
    <3>3. CASE Score(n, anchor) <= Score(class, anchor)
      <4>1. \/ Score(n, anchor) < Score(class, anchor)
            \/ Score(n, anchor) = Score(class, anchor) /\ class <= n
        BY <2>2, <3>2, <3>3
      <4>2. FirstOf(n + 1, class, anchor)
        BY <2>2, <2>3, <3>2, <4>1 DEF FirstOf
      <4>3. QED
        BY <4>2
    <3>4. CASE ~(Score(n, anchor) <= Score(class, anchor))
      <4>1. Score(n, anchor) > Score(class, anchor)
        BY <2>2, <3>2, <3>4
      <4>2. \A other \in 0 .. n - 1 : Score(other, anchor) < Score(n, anchor)
        BY <2>2, <3>2, <4>1
      <4>3. Score(n, anchor) > 0
        BY <2>2, <3>2, <4>1
      <4>4. FirstOf(n + 1, n, anchor)
        BY <2>2, <2>3, <4>2, <4>3 DEF FirstOf
      <4>5. QED
        BY <4>4
    <3>5. QED
      BY <3>3, <3>4
  <2>6. QED
    BY <2>1, <2>4, <2>5
<1> HIDE DEF S
<1>3. Nat \subseteq S
  BY <1>1, <1>2, AllNumbers
<1>4. NumClasses \in S /\ NumClasses \in Nat
  BY <1>3, Sizes
<1>5. Fine(NumClasses)
  BY <1>4 DEF S
<1>6. QED
  BY <1>5

\* The class found reaches the threshold if any class does.
LEMMA BestIs ==
  ASSUME output \in Tensors, NEW anchor \in 0 .. NumDetections - 1
  PROVE  /\ ~(Best(anchor).score < Threshold) <=> Camera!Confident(anchor)
         /\ ~(Best(anchor).score < Threshold) =>
              /\ Best(anchor).class \in 0 .. NumClasses - 1
              /\ Camera!IsBest(Best(anchor).class, anchor)
              /\ Best(anchor).score = Score(Best(anchor).class, anchor)
<1> DEFINE classes == {class \in 0 .. NumClasses - 1 : Score(class, anchor) > 0}
           first(class) == \A other \in classes :
             \/ Score(other, anchor) < Score(class, anchor)
             \/ Score(other, anchor) = Score(class, anchor) /\ class <= other
<1>1. /\ Threshold \in Nat \ {0}
      /\ \A class \in 0 .. NumClasses - 1 : Score(class, anchor) \in Int
  BY Sizes, ScoreIsInt
<1>2. Camera!Confident(anchor)
        <=> \E class \in 0 .. NumClasses - 1 : Score(class, anchor) >= Threshold
  BY <1>1 DEF Camera!Confident, Camera!Classes, Score
<1>3. CASE classes = {}
  <2>1. Best(anchor) = [score |-> 0, class |-> -1]
    BY <1>3 DEF Best
  <2>2. \A class \in 0 .. NumClasses - 1 : ~(Score(class, anchor) >= Threshold)
    BY <1>1, <1>3
  <2>3. QED
    BY <1>1, <1>2, <2>1, <2>2
<1>4. CASE classes # {}
  <2>1. \E class \in classes : first(class)
    <3>1. ~NoneOf(NumClasses, anchor)
      BY <1>1, <1>4 DEF NoneOf
    <3>2. PICK class : FirstOf(NumClasses, class, anchor)
      BY <3>1, FirstExists
    <3>3. QED
      BY <3>2 DEF FirstOf
  <2> DEFINE found == CHOOSE class \in classes : first(class)
  <2>2. found \in classes /\ first(found)
    BY <2>1
  <2>3. Best(anchor) = [score |-> Score(found, anchor), class |-> found]
    BY <1>4 DEF Best
  <2> HIDE DEF found
  <2>4. /\ Best(anchor).score = Score(found, anchor) /\ Best(anchor).class = found
        /\ found \in 0 .. NumClasses - 1 /\ Score(found, anchor) > 0
    BY <2>2, <2>3
  <2>5. \A other \in 0 .. NumClasses - 1 :
          \/ Score(other, anchor) < Score(found, anchor)
          \/ Score(other, anchor) = Score(found, anchor) /\ found <= other
    BY <1>1, <2>2, <2>4
  <2>6. Camera!IsBest(found, anchor)
    <3>1. \A other \in 0 .. NumClasses - 1 : Score(other, anchor) <= Score(found, anchor)
      BY <1>1, <2>4, <2>5
    <3>2. \A other \in 0 .. found - 1 :
            other \in 0 .. NumClasses - 1 /\ ~(found <= other)
      BY <2>4, Sizes
    <3>3. \A other \in 0 .. found - 1 : Score(other, anchor) < Score(found, anchor)
      BY <2>5, <3>2
    <3>4. QED
      BY <3>1, <3>3 DEF Camera!IsBest, Camera!Classes, Score
  <2>7. ~(Score(found, anchor) < Threshold) <=> Camera!Confident(anchor)
    BY <1>1, <1>2, <2>4, <2>5
  <2>8. QED
    BY <2>4, <2>6, <2>7
<1>5. QED
  BY <1>3, <1>4

-----------------------------------------------------------------------------
(***************************************************************************)
(* The layout of the tensor.                                               *)
(***************************************************************************)

\* A number has one quotient and one remainder.
LEMMA OneQuotient ==
  ASSUME NEW N \in Nat \ {0}, NEW p \in Nat, NEW q \in Nat,
         NEW r \in 0 .. N - 1, NEW s \in 0 .. N - 1, p * N + r = q * N + s
  PROVE  p = q /\ r = s
<1> DEFINE pn == p * N
           qn == q * N
<1>0. \A a, b \in Int : a <= b => a * N <= b * N
  OBVIOUS
<1>1. pn \in Nat /\ qn \in Nat /\ pn + r = qn + s
  OBVIOUS
<1>2. ASSUME p + 1 <= q PROVE FALSE
  <2>1. (p + 1) * N <= q * N
    BY <1>0, <1>2
  <2>2. (p + 1) * N = pn + N
    OBVIOUS
  <2> HIDE DEF pn
  <2>3. QED
    BY <1>1, <2>1, <2>2
<1>3. ASSUME q + 1 <= p PROVE FALSE
  <2>1. (q + 1) * N <= p * N
    BY <1>0, <1>3
  <2>2. (q + 1) * N = qn + N
    OBVIOUS
  <2> HIDE DEF qn
  <2>3. QED
    BY <1>1, <2>1, <2>2
<1>4. p = q
  BY <1>2, <1>3
<1>5. QED
  BY <1>1, <1>4

LEMMA IdxInPlane ==
  ASSUME NEW row \in Places, NEW column \in Places
  PROVE  Plane \in Nat \ {0} /\ Idx(row, column) \in 0 .. Plane - 1
<1> DEFINE n == InputSize
<1>1. n \in Nat \ {0} /\ row \in 0 .. n - 1 /\ column \in 0 .. n - 1
  BY Sizes DEF Places
<1> HIDE DEF n
<1>2. row * n <= (n - 1) * n /\ row * n \in Nat /\ (n - 1) * n = n * n - n
      /\ n * n \in Nat
  BY <1>1
<1>3. row * n + column \in 0 .. n * n - 1
  BY <1>1, <1>2
<1>4. n * n # 0
  BY <1>1
<1>5. QED
  BY <1>2, <1>3, <1>4 DEF Idx, Plane, n

\* Every cell of the tensor belongs to one pixel and one of its channels.
LEMMA CellsApart ==
  ASSUME NEW channel \in 0 .. 2, NEW row \in Places, NEW column \in Places
  PROVE  /\ Cell(channel, row, column) \in 0 .. 3 * Plane - 1
         /\ \A channel2 \in 0 .. 2, row2 \in Places, column2 \in Places :
              Cell(channel, row, column) = Cell(channel2, row2, column2) =>
                channel = channel2 /\ row = row2 /\ column = column2
<1>1. Plane \in Nat \ {0} /\ Idx(row, column) \in 0 .. Plane - 1
  BY IdxInPlane
<1>2. Cell(channel, row, column) \in 0 .. 3 * Plane - 1
  <2>1. channel = 0 \/ channel = 1 \/ channel = 2
    OBVIOUS
  <2>2. QED
    BY <1>1, <2>1 DEF Cell
<1>3. ASSUME NEW channel2 \in 0 .. 2, NEW row2 \in Places, NEW column2 \in Places,
             Cell(channel, row, column) = Cell(channel2, row2, column2)
      PROVE  channel = channel2 /\ row = row2 /\ column = column2
  <2>1. Idx(row2, column2) \in 0 .. Plane - 1
    BY IdxInPlane
  <2>2. channel \in Nat /\ channel2 \in Nat
    OBVIOUS
  <2>3. channel = channel2 /\ Idx(row, column) = Idx(row2, column2)
    BY <1>1, <1>3, <2>1, <2>2, OneQuotient DEF Cell
  <2>4. /\ InputSize \in Nat \ {0} /\ row \in Nat /\ row2 \in Nat
        /\ column \in 0 .. InputSize - 1 /\ column2 \in 0 .. InputSize - 1
    BY Sizes DEF Places
  <2>5. row * InputSize + column = row2 * InputSize + column2
    BY <2>3 DEF Idx
  <2>6. row = row2 /\ column = column2
    BY <2>4, <2>5, OneQuotient
  <2>7. QED
    BY <2>3, <2>6
<1>4. QED
  BY <1>2, <1>3

LEMMA BoxIsBox ==
  ASSUME output \in Tensors, NEW anchor \in 0 .. NumDetections - 1
  PROVE  BoxOf(anchor) \in AnyBox
<1>1. \A m \in Int : Camera!ToInt(m) \in Int
  BY Sizes DEF Camera!ToInt, Camera!Unit
<1>2. /\ Camera!At(0, anchor) \in Int /\ Camera!At(1, anchor) \in Int
      /\ Camera!At(2, anchor) \in Int /\ Camera!At(3, anchor) \in Int
  BY RowIsInt
<1>3. ASSUME NEW centre \in Int, NEW extent \in Int, NEW original \in Nat \ {0}
      PROVE  Axis(centre, extent, original) \in [start : Int, length : Int]
  <2>1. /\ Camera!Start(centre, extent, original) \in Int
        /\ Camera!Length(extent, original) \in Int
    BY DEF Camera!Start, Camera!Length
  <2>2. QED
    BY <1>1, <2>1 DEF Axis
<1>4. /\ Axis(Camera!At(0, anchor), Camera!At(2, anchor), OriginalWidth)
           \in [start : Int, length : Int]
      /\ Axis(Camera!At(1, anchor), Camera!At(3, anchor), OriginalHeight)
           \in [start : Int, length : Int]
  BY <1>2, <1>3, Sizes
<1>5. QED
  BY <1>4 DEF BoxOf, AnyBox

-----------------------------------------------------------------------------
(***************************************************************************)
(* The steps.                                                              *)
(***************************************************************************)

\* cardinalities of the anchors that pass, one anchor at a time.
LEMMA CountNone == ConfidentBelow(0) = {} /\ Cardinality(ConfidentBelow(0)) = 0
<1>1. ConfidentBelow(0) = {}
  BY DEF ConfidentBelow
<1>2. QED
  BY <1>1, FS_EmptySet

LEMMA CountNext ==
  ASSUME NEW n \in Nat
  PROVE  /\ Cardinality(ConfidentBelow(n)) \in Nat
         /\ ConfidentBelow(n + 1) = IF Camera!Confident(n) THEN ConfidentBelow(n) \cup {n}
                                                            ELSE ConfidentBelow(n)
         /\ Cardinality(ConfidentBelow(n + 1))
              = Cardinality(ConfidentBelow(n)) + (IF Camera!Confident(n) THEN 1 ELSE 0)
<1>1. IsFiniteSet(ConfidentBelow(n))
  <2>1. IsFiniteSet(0 .. n - 1)
    BY FS_Interval
  <2>2. ConfidentBelow(n) \subseteq 0 .. n - 1
    BY DEF ConfidentBelow
  <2>3. QED
    BY <2>1, <2>2, FS_Subset
<1>2. n \notin ConfidentBelow(n)
  BY DEF ConfidentBelow
<1>3. ConfidentBelow(n + 1) = IF Camera!Confident(n) THEN ConfidentBelow(n) \cup {n}
                                                      ELSE ConfidentBelow(n)
  <2>1. \A anchor : anchor \in 0 .. (n + 1) - 1 <=> anchor \in 0 .. n - 1 \/ anchor = n
    OBVIOUS
  <2>2. QED
    BY <2>1 DEF ConfidentBelow
<1>4. Cardinality(ConfidentBelow(n)) \in Nat
  BY <1>1, FS_CardinalityType
<1>5. Cardinality(ConfidentBelow(n) \cup {n}) = Cardinality(ConfidentBelow(n)) + 1
  BY <1>1, <1>2, FS_AddElement
<1>6. QED
  BY <1>3, <1>4, <1>5

LEMMA ToolInvInit == Init => ToolInv
<1> SUFFICES ASSUME Init PROVE ToolInv
  OBVIOUS
<1>1. FillInv
  BY Sizes DEF Init, FillInv, Places
<1>2. BoxesInv
  <2>1. output \in Tensors
    BY ToolAssumption DEF Init
  <2>2. /\ boxes \in Seq(AnyBox) /\ scores \in Seq(Int) /\ class_ids \in Seq(Int)
        /\ i \in 0 .. NumDetections
    BY EmptySeq, Sizes DEF Init
  <2>3. QED
    BY <2>1, <2>2, CountNone DEF Init, BoxesInv, Before
<1>3. DrawnInv
  BY EmptySeq DEF Init, DrawnInv, Before
<1>4. QED
  BY <1>1, <1>2, <1>3 DEF ToolInv

\* Parts of the invariant that a step leaves alone.
LEMMA FillKept ==
  ASSUME FillInv, UNCHANGED filling, pc' = "run" => y = InputSize
  PROVE  FillInv'
BY DEF FillInv, filling, Cell, Idx

LEMMA BoxesKept ==
  ASSUME BoxesInv, UNCHANGED scanning,
         pc' \in Before => pc \in Before,
         pc' \in {"nms", "draw", "save", "show"} => i = NumDetections
  PROVE  BoxesInv'
<1>1. /\ output' = output /\ i' = i /\ boxes' = boxes /\ scores' = scores
      /\ class_ids' = class_ids
  BY DEF scanning
<1>2. /\ \A n : ConfidentBelow(n)' = ConfidentBelow(n)
      /\ \A anchor : Camera!Confident(anchor)' <=> Camera!Confident(anchor)
      /\ \A anchor : BoxOf(anchor)' = BoxOf(anchor)
      /\ \A class, anchor : /\ Camera!IsBest(class, anchor)' <=> Camera!IsBest(class, anchor)
                            /\ Score(class, anchor)' = Score(class, anchor)
  <2>1. \A row, anchor : Camera!At(row, anchor)' = Camera!At(row, anchor)
    BY <1>1 DEF Camera!At
  <2>2. \A anchor : Camera!Confident(anchor)' <=> Camera!Confident(anchor)
    BY <2>1 DEF Camera!Confident
  <2>3. \A n : ConfidentBelow(n)' = ConfidentBelow(n)
    BY <2>2 DEF ConfidentBelow
  <2>4. \A anchor : BoxOf(anchor)' = BoxOf(anchor)
    BY <2>1 DEF BoxOf, Axis, Camera!ToInt, Camera!Start, Camera!Length, Camera!Unit
  <2>5. \A class, anchor : /\ Camera!IsBest(class, anchor)' <=> Camera!IsBest(class, anchor)
                           /\ Score(class, anchor)' = Score(class, anchor)
    BY <2>1 DEF Camera!IsBest, Score
  <2>6. QED
    BY <2>2, <2>3, <2>4, <2>5
<1>3. /\ output \in Tensors /\ i \in 0 .. NumDetections
      /\ pc' \in Before => i = 0
      /\ pc' \in {"nms", "draw", "save", "show"} => i = NumDetections
  BY DEF BoxesInv
<1>4. QED
  BY <1>1, <1>2, <1>3 DEF BoxesInv

LEMMA DrawnKept ==
  ASSUME DrawnInv, UNCHANGED <<indices, drawn, files, boxes, scores, class_ids>>,
         pc' \in Before \cup {"scan", "nms"} => pc \in Before \cup {"scan", "nms"},
         pc' \notin {"show", "ended"} => pc \notin {"show", "ended"}
  PROVE  DrawnInv'
BY DEF DrawnInv

\* A pixel goes into the three cells that are its own.
LEMMA FillPixelStep == ToolInv /\ FillPixel => ToolInv'
<1> SUFFICES ASSUME ToolInv, FillPixel PROVE ToolInv'
  OBVIOUS
<1>1. /\ pc = "fill" /\ pc' = pc /\ y < InputSize
      /\ input_tensor' = [input_tensor EXCEPT
           ![Idx(y, x)]             = Pixel(y, x)[0],
           ![Plane + Idx(y, x)]     = Pixel(y, x)[1],
           ![2 * Plane + Idx(y, x)] = Pixel(y, x)[2]]
      /\ x' = (x + 1) % InputSize
      /\ y' = IF x' = 0 THEN y + 1 ELSE y
      /\ UNCHANGED <<scanning, indices, ending>>
  BY DEF FillPixel
<1>2. FillInv /\ y \in Places /\ x \in Places /\ InputSize \in Nat \ {0}
  BY <1>1, Sizes DEF ToolInv, FillInv, Places
<1>3. /\ \/ x + 1 < InputSize /\ x' = x + 1 /\ y' = y
         \/ x + 1 = InputSize /\ x' = 0 /\ y' = y + 1
      /\ y' \in 0 .. InputSize /\ x' \in Places /\ (y' = InputSize => x' = 0)
  BY <1>1, <1>2 DEF Places
<1>4. Cell(0, y, x) = Idx(y, x) /\ Cell(1, y, x) = Plane + Idx(y, x)
      /\ Cell(2, y, x) = 2 * Plane + Idx(y, x)
  BY <1>2, IdxInPlane DEF Cell
<1>5. input_tensor' = [input_tensor EXCEPT
        ![Cell(0, y, x)] = <<y, x, 2>>,
        ![Cell(1, y, x)] = <<y, x, 1>>,
        ![Cell(2, y, x)] = <<y, x, 0>>]
  <2>1. /\ Pixel(y, x)[0] = <<y, x, 2>> /\ Pixel(y, x)[1] = <<y, x, 1>>
        /\ Pixel(y, x)[2] = <<y, x, 0>>
    BY DEF Pixel
  <2>2. QED
    BY <1>1, <1>4, <2>1
<1>6. /\ \A channel \in 0 .. 2 : Cell(channel, y, x) \in DOMAIN input_tensor
      /\ Cell(0, y, x) # Cell(1, y, x) /\ Cell(0, y, x) # Cell(2, y, x)
      /\ Cell(1, y, x) # Cell(2, y, x)
      /\ \A channel, channel2 \in 0 .. 2, row \in Places, column \in Places :
           Cell(channel, row, column) = Cell(channel2, y, x) => row = y /\ column = x
  <2>1. \A channel \in 0 .. 2 : Cell(channel, y, x) \in DOMAIN input_tensor
    BY <1>2, CellsApart DEF FillInv
  <2>2. \A channel, channel2 \in 0 .. 2, row \in Places, column \in Places :
          Cell(channel, row, column) = Cell(channel2, y, x) =>
            channel = channel2 /\ row = y /\ column = x
    BY <1>2, CellsApart
  <2>3. /\ Cell(0, y, x) # Cell(1, y, x) /\ Cell(0, y, x) # Cell(2, y, x)
        /\ Cell(1, y, x) # Cell(2, y, x)
    BY <1>2, <2>2
  <2>4. QED
    BY <2>1, <2>2, <2>3
<1>7. /\ DOMAIN input_tensor' = DOMAIN input_tensor
      /\ \A channel \in 0 .. 2 : input_tensor'[Cell(channel, y, x)] = <<y, x, 2 - channel>>
      /\ \A channel \in 0 .. 2, row \in Places, column \in Places :
           ~(row = y /\ column = x) =>
             input_tensor'[Cell(channel, row, column)]
               = input_tensor[Cell(channel, row, column)]
  <2>1. DOMAIN input_tensor' = DOMAIN input_tensor
    BY <1>5
  <2>2. \A channel \in 0 .. 2 : channel = 0 \/ channel = 1 \/ channel = 2
    OBVIOUS
  <2>3. /\ input_tensor'[Cell(0, y, x)] = <<y, x, 2>>
        /\ input_tensor'[Cell(1, y, x)] = <<y, x, 1>>
        /\ input_tensor'[Cell(2, y, x)] = <<y, x, 0>>
    BY <1>5, <1>6
  <2>4. \A channel \in 0 .. 2 : input_tensor'[Cell(channel, y, x)] = <<y, x, 2 - channel>>
    BY <2>2, <2>3
  <2>5. ASSUME NEW channel \in 0 .. 2, NEW row \in Places, NEW column \in Places,
               ~(row = y /\ column = x)
        PROVE  input_tensor'[Cell(channel, row, column)]
                 = input_tensor[Cell(channel, row, column)]
    <3>1. /\ Cell(channel, row, column) # Cell(0, y, x)
          /\ Cell(channel, row, column) # Cell(1, y, x)
          /\ Cell(channel, row, column) # Cell(2, y, x)
      BY <1>6, <2>5
    <3>2. Cell(channel, row, column) \in DOMAIN input_tensor
      BY <1>2, CellsApart DEF FillInv
    <3>3. QED
      BY <1>5, <3>1, <3>2
  <2>6. QED
    BY <2>1, <2>4, <2>5
<1>8. ASSUME NEW channel \in 0 .. 2, NEW row \in Places, NEW column \in Places,
             row < y' \/ (row = y' /\ column < x')
      PROVE  input_tensor'[Cell(channel, row, column)] = <<row, column, 2 - channel>>
  <2>1. CASE row = y /\ column = x
    BY <1>7, <2>1
  <2>2. CASE ~(row = y /\ column = x)
    <3>1. row < y \/ (row = y /\ column < x)
      BY <1>2, <1>3, <1>8, <2>2 DEF Places
    <3>2. QED
      BY <1>2, <1>7, <2>2, <3>1 DEF FillInv
  <2>3. QED
    BY <2>1, <2>2
<1>9. FillInv'
  BY <1>1, <1>2, <1>3, <1>7, <1>8 DEF FillInv, Cell, Idx
<1>10. BoxesInv' /\ DrawnInv'
  BY <1>1, BoxesKept, DrawnKept DEF ToolInv, Before, scanning, ending
<1>11. QED
  BY <1>9, <1>10 DEF ToolInv

\* The next anchor: if it passes, it goes behind those that passed before it.
LEMMA ScanAnchorStep == ToolInv /\ ScanAnchor => ToolInv'
<1> SUFFICES ASSUME ToolInv, ScanAnchor PROVE ToolInv'
  OBVIOUS
<1>1. /\ pc = "scan" /\ pc' = pc /\ i < NumDetections /\ i' = i + 1
      /\ output' = output /\ UNCHANGED <<filling, indices, ending>>
  BY DEF ScanAnchor
<1>2. /\ BoxesInv /\ i \in 0 .. NumDetections - 1 /\ i \in Nat /\ output \in Tensors
      /\ i' \in 0 .. NumDetections
      /\ boxes \in Seq(AnyBox) /\ scores \in Seq(Int) /\ class_ids \in Seq(Int)
      /\ Len(scores) = Len(boxes) /\ Len(class_ids) = Len(boxes)
      /\ Len(boxes) = Cardinality(ConfidentBelow(i)) /\ Len(boxes) \in Nat
  BY <1>1, Sizes DEF ToolInv, BoxesInv
<1>3. /\ \A n : ConfidentBelow(n)' = ConfidentBelow(n)
      /\ \A anchor : Camera!Confident(anchor)' <=> Camera!Confident(anchor)
      /\ \A anchor : BoxOf(anchor)' = BoxOf(anchor)
      /\ \A class, anchor : /\ Camera!IsBest(class, anchor)' <=> Camera!IsBest(class, anchor)
                            /\ Score(class, anchor)' = Score(class, anchor)
  <2>1. \A row, anchor : Camera!At(row, anchor)' = Camera!At(row, anchor)
    BY <1>1 DEF Camera!At
  <2>2. \A anchor : Camera!Confident(anchor)' <=> Camera!Confident(anchor)
    BY <2>1 DEF Camera!Confident
  <2>3. \A n : ConfidentBelow(n)' = ConfidentBelow(n)
    BY <2>2 DEF ConfidentBelow
  <2>4. \A anchor : BoxOf(anchor)' = BoxOf(anchor)
    BY <2>1 DEF BoxOf, Axis, Camera!ToInt, Camera!Start, Camera!Length, Camera!Unit
  <2>5. \A class, anchor : /\ Camera!IsBest(class, anchor)' <=> Camera!IsBest(class, anchor)
                           /\ Score(class, anchor)' = Score(class, anchor)
    BY <2>1 DEF Camera!IsBest, Score
  <2>6. QED
    BY <2>2, <2>3, <2>4, <2>5
<1>4. \A anchor \in 0 .. i - 1 : anchor \in 0 .. (i + 1) - 1
  BY <1>2
<1>5. FillInv'
  BY <1>1, FillKept DEF ToolInv
<1>6. CASE Best(i).score < Threshold
  <2>1. UNCHANGED <<boxes, scores, class_ids>> /\ ~Camera!Confident(i)
    BY <1>2, <1>6, BestIs DEF ScanAnchor
  <2>2. ConfidentBelow(i + 1) = ConfidentBelow(i)
    BY <1>2, <2>1, CountNext
  <2>3. BoxesInv'
    BY <1>1, <1>2, <1>3, <1>4, <2>1, <2>2 DEF BoxesInv, Before
  <2>4. DrawnInv'
    BY <1>1, <2>1, DrawnKept DEF ToolInv, ending
  <2>5. QED
    BY <1>5, <2>3, <2>4 DEF ToolInv
<1>7. CASE ~(Best(i).score < Threshold)
  <2> DEFINE last == Len(boxes) + 1
  <2>1. /\ boxes' = Append(boxes, BoxOf(i)) /\ scores' = Append(scores, Best(i).score)
        /\ class_ids' = Append(class_ids, Best(i).class)
    BY <1>7 DEF ScanAnchor
  <2>2. /\ Camera!Confident(i) /\ Best(i).class \in 0 .. NumClasses - 1
        /\ Camera!IsBest(Best(i).class, i)
        /\ Best(i).score = Score(Best(i).class, i)
        /\ Best(i).score \in Int /\ Best(i).class \in Int
    BY <1>2, <1>7, BestIs, ScoreIsInt
  <2>3. BoxOf(i) \in AnyBox
    BY <1>2, BoxIsBox
  <2>4. /\ boxes' \in Seq(AnyBox) /\ Len(boxes') = last
        /\ \A k \in 1 .. Len(boxes) : boxes'[k] = boxes[k]
        /\ boxes'[last] = BoxOf(i)
    BY <1>2, <2>1, <2>3, AppendProperties
  <2>5. /\ scores' \in Seq(Int) /\ Len(scores') = last
        /\ \A k \in 1 .. Len(boxes) : scores'[k] = scores[k]
        /\ scores'[last] = Best(i).score
    BY <1>2, <2>1, <2>2, AppendProperties
  <2>6. /\ class_ids' \in Seq(Int) /\ Len(class_ids') = last
        /\ \A k \in 1 .. Len(boxes) : class_ids'[k] = class_ids[k]
        /\ class_ids'[last] = Best(i).class
    BY <1>2, <2>1, <2>2, AppendProperties
  <2>7. /\ ConfidentBelow(i + 1) = ConfidentBelow(i) \cup {i}
        /\ Cardinality(ConfidentBelow(i + 1)) = last
        /\ last = Cardinality(ConfidentBelow(i)) + 1
    BY <1>2, <2>2, CountNext
  <2>8. /\ last \in 1 .. last /\ \A k \in 1 .. Len(boxes) : k \in 1 .. last
        /\ \A k \in 1 .. last : k \in 1 .. Len(boxes) \/ k = last
        /\ i \in 0 .. (i + 1) - 1
    BY <1>2
  <2> HIDE DEF last
  <2>9. ASSUME NEW k \in 1 .. last
        PROVE  \E anchor \in 0 .. (i + 1) - 1 :
                 /\ Camera!Confident(anchor)
                 /\ k = Cardinality(ConfidentBelow(anchor)) + 1
                 /\ boxes'[k] = BoxOf(anchor)
                 /\ class_ids'[k] \in 0 .. NumClasses - 1
                 /\ Camera!IsBest(class_ids'[k], anchor)
                 /\ scores'[k] = Score(class_ids'[k], anchor)
    <3>1. CASE k = last
      BY <2>2, <2>4, <2>5, <2>6, <2>7, <2>8, <3>1
    <3>2. CASE k \in 1 .. Len(boxes)
      <4>1. PICK anchor \in 0 .. i - 1 :
              /\ Camera!Confident(anchor)
              /\ k = Cardinality(ConfidentBelow(anchor)) + 1
              /\ boxes[k] = BoxOf(anchor)
              /\ class_ids[k] \in 0 .. NumClasses - 1
              /\ Camera!IsBest(class_ids[k], anchor)
              /\ scores[k] = Score(class_ids[k], anchor)
        BY <1>2, <3>2 DEF BoxesInv
      <4>2. QED
        BY <1>4, <2>4, <2>5, <2>6, <3>2, <4>1
    <3>3. QED
      BY <2>8, <3>1, <3>2
  <2>10. ASSUME NEW anchor \in ConfidentBelow(i + 1),
                NEW k, k = Cardinality(ConfidentBelow(anchor)) + 1
         PROVE  k \in 1 .. last /\ boxes'[k] = BoxOf(anchor)
    <3>1. CASE anchor = i
      BY <2>4, <2>7, <2>8, <2>10, <3>1
    <3>2. CASE anchor \in ConfidentBelow(i)
      <4>1. k \in 1 .. Len(boxes) /\ boxes[k] = BoxOf(anchor)
        BY <1>2, <2>10, <3>2 DEF BoxesInv
      <4>2. QED
        BY <2>4, <2>8, <4>1
    <3>3. QED
      BY <2>7, <3>1, <3>2
  <2>11. BoxesInv'
    BY <1>1, <1>2, <1>3, <2>4, <2>5, <2>6, <2>7, <2>9, <2>10 DEF BoxesInv, Before
  <2>12. DrawnInv'
    <3>1. /\ drawn = <<>> /\ indices = <<>> /\ files \in {<<>>, [name \in {"result.jpg"} |-> drawn]}
          /\ files = <<>>
      BY <1>1 DEF ToolInv, DrawnInv
    <3>2. drawn' = <<>> /\ indices' = <<>> /\ files' = <<>> /\ pc' = "scan"
      BY <1>1, <3>1 DEF ending
    <3>3. QED
      BY <3>2, EmptySeq DEF DrawnInv
  <2>13. QED
    BY <1>5, <2>11, <2>12 DEF ToolInv
<1>8. QED
  BY <1>6, <1>7

\* The steps that only go on to the next part of main, and those that end it.
LEMMA PassesStep ==
  ASSUME ToolInv,
         \/ Argument \/ Image \/ Session \/ Resize \/ Filled \/ Scanned \/ Drawn
         \/ NoArgument \/ NoImage \/ Throws \/ Show \/ Ended \/ UNCHANGED vars
  PROVE  ToolInv'
<1>1. UNCHANGED <<filling, scanning, indices, drawn, files>>
  BY DEF Argument, Image, Session, Resize, Filled, Scanned, Drawn, NoArgument, NoImage,
     Throws, Show, Ended, Passes, Ends, ending, vars
<1>2. /\ pc' = "run" => y = InputSize
      /\ pc' \in Before => pc \in Before
      /\ pc' \in {"nms", "draw", "save", "show"} => i = NumDetections
      /\ pc' \in Before \cup {"scan", "nms"} => pc \in Before \cup {"scan", "nms"}
      /\ pc' \notin {"show", "ended"} => pc \notin {"show", "ended"}
  BY DEF Argument, Image, Session, Resize, Filled, Scanned, Drawn, NoArgument, NoImage,
     Throws, Show, Ended, Passes, Ends, Goto, vars, ToolInv, FillInv, BoxesInv, Before
<1>3. FillInv'
  BY <1>1, <1>2, FillKept DEF ToolInv
<1>4. BoxesInv'
  BY <1>1, <1>2, BoxesKept DEF ToolInv
<1>5. DrawnInv'
  BY <1>1, <1>2, DrawnKept DEF ToolInv, scanning
<1>6. QED
  BY <1>3, <1>4, <1>5 DEF ToolInv

\* Whatever the network computes, no box was read before.
LEMMA RunStep == ToolInv /\ Run => ToolInv'
<1> SUFFICES ASSUME ToolInv, Run PROVE ToolInv'
  OBVIOUS
<1>1. /\ pc = "run" /\ pc' = "scan" /\ output' \in Tensors
      /\ UNCHANGED <<filling, i, boxes, scores, class_ids, indices, drawn, files>>
  BY DEF Run, Goto, ending
<1>2. i = 0 /\ Len(boxes) = 0
  BY <1>1, CountNone DEF ToolInv, BoxesInv, Before
<1>3. ConfidentBelow(0)' = {} /\ Cardinality(ConfidentBelow(0)') = 0
  <2>1. ConfidentBelow(0)' = {}
    BY DEF ConfidentBelow
  <2>2. QED
    BY <2>1, FS_EmptySet
<1>4. BoxesInv'
  <2>1. i' = 0 /\ Len(boxes') = 0 /\ Len(scores') = 0 /\ Len(class_ids') = 0
    BY <1>1, <1>2 DEF ToolInv, BoxesInv
  <2>2. boxes' \in Seq(AnyBox) /\ scores' \in Seq(Int) /\ class_ids' \in Seq(Int)
        /\ i' \in 0 .. NumDetections
    BY <1>1 DEF ToolInv, BoxesInv
  <2>3. ConfidentBelow(i)' = {} /\ Cardinality(ConfidentBelow(i)') = 0
    BY <1>2, <1>1, <1>3
  <2>4. pc' \notin Before /\ pc' \notin {"nms", "draw", "save", "show"}
    BY <1>1 DEF Before
  <2>5. 1 .. 0 = {}
    OBVIOUS
  <2>6. QED
    BY <1>1, <2>1, <2>2, <2>3, <2>4, <2>5 DEF BoxesInv
<1>5. FillInv' /\ DrawnInv'
  BY <1>1, FillKept, DrawnKept DEF ToolInv, Before
<1>6. QED
  BY <1>4, <1>5 DEF ToolInv

LEMMA SuppressStep == ToolInv /\ Suppress => ToolInv'
<1> SUFFICES ASSUME ToolInv, Suppress PROVE ToolInv'
  OBVIOUS
<1>1. /\ pc = "nms" /\ pc' = "draw" /\ indices' \in Camera!NMSBoxes
      /\ UNCHANGED <<filling, scanning, drawn, files, boxes, scores, class_ids>>
  BY DEF Suppress, Goto, ending, scanning
<1>2. indices' \in Seq(1 .. Len(boxes))
  <2>1. boxes \in Seq(AnyBox)
    BY DEF ToolInv, BoxesInv
  <2>2. DOMAIN boxes = 1 .. Len(boxes) /\ Len(boxes) \in Nat
    BY <2>1
  <2>3. PICK n \in 0 .. Len(boxes) : indices' \in [1 .. n -> DOMAIN boxes]
    BY <1>1 DEF Camera!NMSBoxes
  <2>4. n \in Nat
    BY <2>2
  <2>5. QED
    BY <2>2, <2>3, <2>4, SeqDef
<1>3. FillInv' /\ BoxesInv'
  BY <1>1, FillKept, BoxesKept DEF ToolInv, BoxesInv, Before
<1>4. DrawnInv'
  <2>1. drawn = <<>> /\ files = <<>>
    BY <1>1 DEF ToolInv, DrawnInv
  <2>2. drawn' = <<>> /\ files' = <<>> /\ pc' = "draw" /\ boxes' = boxes
    BY <1>1, <2>1
  <2>3. QED
    BY <1>2, <2>2, EmptySeq DEF DrawnInv, Before
<1>5. QED
  BY <1>3, <1>4 DEF ToolInv

\* A box is drawn with the score and the class of the same place.
LEMMA DrawStep == ToolInv /\ Draw => ToolInv'
<1> SUFFICES ASSUME ToolInv, Draw PROVE ToolInv'
  OBVIOUS
<1> DEFINE j     == Head(indices)
           label == [box |-> boxes[j], class_id |-> class_ids[j], confidence |-> scores[j]]
           Label == [box : AnyBox, class_id : Int, confidence : Int]
<1>1. /\ pc = "draw" /\ pc' = pc /\ indices # <<>> /\ indices' = Tail(indices)
      /\ drawn' = Append(drawn, label)
      /\ UNCHANGED <<filling, scanning, files, boxes, scores, class_ids>>
  BY DEF Draw, scanning
<1>2. /\ indices \in Seq(1 .. Len(boxes)) /\ files = <<>> /\ drawn \in Seq(Label)
      /\ boxes \in Seq(AnyBox) /\ scores \in Seq(Int) /\ class_ids \in Seq(Int)
      /\ Len(scores) = Len(boxes) /\ Len(class_ids) = Len(boxes)
  BY <1>1 DEF ToolInv, DrawnInv, BoxesInv
<1>3. j \in 1 .. Len(boxes) /\ indices' \in Seq(1 .. Len(boxes))
  BY <1>1, <1>2, HeadTailProperties
<1> HIDE DEF j
<1>4. label \in Label
  <2>1. boxes[j] \in AnyBox
    BY <1>2, <1>3, ElementOfSeq
  <2>2. scores[j] \in Int /\ class_ids[j] \in Int
    BY <1>2, <1>3, ElementOfSeq
  <2>3. QED
    BY <2>1, <2>2
<1>5. label = [box |-> boxes[j], class_id |-> class_ids[j], confidence |-> scores[j]]
  OBVIOUS
<1> HIDE DEF label, Label
<1>6. /\ drawn' \in Seq(Label) /\ Len(drawn') = Len(drawn) + 1 /\ Len(drawn) \in Nat
      /\ \A k \in 1 .. Len(drawn) : drawn'[k] = drawn[k]
      /\ drawn'[Len(drawn) + 1] = label
  BY <1>1, <1>2, <1>4, AppendProperties, LenProperties
<1>7. \A k \in DOMAIN drawn' : \E m \in 1 .. Len(boxes) :
        drawn'[k] = [box |-> boxes[m], class_id |-> class_ids[m], confidence |-> scores[m]]
  <2>1. DOMAIN drawn' = 1 .. Len(drawn) + 1 /\ DOMAIN drawn = 1 .. Len(drawn)
    BY <1>2, <1>6, LenProperties
  <2>2. ASSUME NEW k \in 1 .. Len(drawn) + 1
        PROVE  \E m \in 1 .. Len(boxes) :
                 drawn'[k] = [box |-> boxes[m], class_id |-> class_ids[m],
                              confidence |-> scores[m]]
    <3>1. CASE k = Len(drawn) + 1
      BY <1>3, <1>5, <1>6, <3>1
    <3>2. CASE k # Len(drawn) + 1
      <4>1. k \in 1 .. Len(drawn)
        BY <1>6, <3>2
      <4>2. QED
        BY <1>6, <2>1, <4>1 DEF ToolInv, DrawnInv
    <3>3. QED
      BY <3>1, <3>2
  <2>3. QED
    BY <2>1, <2>2
<1>8. FillInv' /\ BoxesInv'
  BY <1>1, FillKept, BoxesKept DEF ToolInv, BoxesInv, Before
<1>9. DrawnInv'
  <2>1. /\ files' = <<>> /\ pc' = "draw" /\ boxes' = boxes /\ scores' = scores
        /\ class_ids' = class_ids
    BY <1>1, <1>2
  <2>2. drawn' \in Seq([box : AnyBox, class_id : Int, confidence : Int])
    BY <1>6 DEF Label
  <2>3. QED
    BY <1>3, <1>7, <2>1, <2>2 DEF DrawnInv, Before
<1>10. QED
  BY <1>8, <1>9 DEF ToolInv

LEMMA SaveStep == ToolInv /\ Save => ToolInv'
<1> SUFFICES ASSUME ToolInv, Save PROVE ToolInv'
  OBVIOUS
<1>1. /\ pc = "save" /\ pc' = "show"
      /\ files' \in {files, [name \in {"result.jpg"} |-> drawn]}
      /\ UNCHANGED <<filling, scanning, indices, drawn, boxes, scores, class_ids>>
  BY DEF Save, Goto, scanning
<1>2. FillInv' /\ BoxesInv'
  BY <1>1, FillKept, BoxesKept DEF ToolInv, BoxesInv, Before
<1>3. DrawnInv'
  BY <1>1 DEF ToolInv, DrawnInv, Before
<1>4. QED
  BY <1>2, <1>3 DEF ToolInv

LEMMA ToolInvStep == ToolInv /\ [Next]_vars => ToolInv'
BY PassesStep, FillPixelStep, RunStep, ScanAnchorStep, SuppressStep, DrawStep, SaveStep
   DEF Next

\* The inductive invariant holds throughout a run of the tool.
THEOREM ToolInvCorrect == Spec => []ToolInv
BY ToolInvInit, ToolInvStep, PTL DEF Spec

-----------------------------------------------------------------------------
(***************************************************************************)
(* What the tool promises.                                                 *)
(***************************************************************************)

\* When the network is run every cell of the tensor holds its pixel: the three
\* planes are filled row by row and no write hits another pixel's cell.
THEOREM TensorFilled == Spec => []TensorIsPicture
<1>1. ToolInv => TensorIsPicture
  <2> SUFFICES ASSUME ToolInv, pc = "run",
                      NEW channel \in 0 .. 2, NEW row \in Places, NEW column \in Places
               PROVE  input_tensor[channel * Plane + row * InputSize + column]
                        = <<row, column, 2 - channel>>
    BY DEF TensorIsPicture
  <2>1. row < y
    BY Sizes DEF ToolInv, FillInv, Places
  <2>2. input_tensor[Cell(channel, row, column)] = <<row, column, 2 - channel>>
    BY <2>1 DEF ToolInv, FillInv
  <2>3. Cell(channel, row, column) = channel * Plane + row * InputSize + column
    <3>1. Plane \in Nat /\ row * InputSize \in Int /\ column \in Int
      BY Sizes, IdxInPlane DEF Places
    <3>2. channel * Plane \in Int
      BY <3>1
    <3>3. QED
      BY <3>1, <3>2 DEF Cell, Idx
  <2>4. QED
    BY <2>2, <2>3
<1>2. QED
  BY <1>1, ToolInvCorrect, PTL

\* What needs no clipping is left as it is by the camera program's clipping.
LEMMA NothingClipped ==
  ASSUME output \in Tensors, NEW anchor \in 0 .. NumDetections - 1, Fits(anchor)
  PROVE  Camera!BoxOf(anchor) = BoxOf(anchor)
<1>1. ASSUME NEW centre \in Int, NEW extent \in Int, NEW original \in Nat \ {0},
             FitsAxis(centre, extent, original)
      PROVE  Camera!Axis(centre, extent, original) = Axis(centre, extent, original)
  <2> DEFINE start  == Camera!Start(centre, extent, original)
             length == Camera!Length(extent, original)
             border == original * Camera!Unit
  <2>1. start \in Int /\ length \in Int /\ border \in Int
    BY Sizes DEF Camera!Start, Camera!Length, Camera!Unit
  <2>2. start >= 0 /\ start + length <= border
    BY <1>1 DEF FitsAxis
  <2> HIDE DEF start, length, border
  <2>3. Camera!Greatest(0, start) = start /\ Camera!Least(length, border - start) = length
    BY <2>1, <2>2 DEF Camera!Greatest, Camera!Least
  <2>4. Camera!Clip(start, length, original) = [start |-> start, length |-> length]
    BY <2>3 DEF Camera!Clip, border
  <2>5. QED
    BY <2>4 DEF Camera!Axis, Axis, start, length
<1>2. /\ Camera!At(0, anchor) \in Int /\ Camera!At(1, anchor) \in Int
      /\ Camera!At(2, anchor) \in Int /\ Camera!At(3, anchor) \in Int
  BY RowIsInt
<1>3. QED
  BY <1>1, <1>2, Sizes DEF Fits, Camera!BoxOf, BoxOf

\* The tool and the camera program give suppression the same boxes, in the
\* same order, for a tensor none of whose boxes reaches out of the picture.
THEOREM ToolAgreesWithCamera == Spec => []AgreesWithCamera
<1>1. ToolInv => AgreesWithCamera
  <2> SUFFICES ASSUME ToolInv, pc = "nms",
                      \A anchor \in ConfidentBelow(NumDetections) : Fits(anchor)
               PROVE  /\ Len(boxes) = Cardinality(ConfidentBelow(NumDetections))
                      /\ \A anchor \in ConfidentBelow(NumDetections) :
                           boxes[Cardinality(ConfidentBelow(anchor)) + 1]
                             = Camera!BoxOf(anchor)
    BY DEF AgreesWithCamera
  <2>1. BoxesInv /\ i = NumDetections
    BY DEF ToolInv, BoxesInv
  <2>2. ASSUME NEW anchor \in ConfidentBelow(NumDetections)
        PROVE  boxes[Cardinality(ConfidentBelow(anchor)) + 1] = Camera!BoxOf(anchor)
    <3>1. boxes[Cardinality(ConfidentBelow(anchor)) + 1] = BoxOf(anchor)
      BY <2>1 DEF BoxesInv
    <3>2. anchor \in 0 .. NumDetections - 1 /\ Fits(anchor)
      BY DEF ConfidentBelow
    <3>3. QED
      BY <2>1, <3>1, <3>2, NothingClipped DEF BoxesInv
  <2>3. QED
    BY <2>1, <2>2 DEF BoxesInv
<1>2. QED
  BY <1>1, ToolInvCorrect, PTL

\* A box drawn in the file bears the class and the score of its own anchor.
THEOREM FileGenuine == Spec => []FileIsGenuine
<1>1. ToolInv => FileIsGenuine
  <2> SUFFICES ASSUME ToolInv, NEW name \in DOMAIN files, NEW k \in DOMAIN files[name]
               PROVE  \E anchor \in 0 .. NumDetections - 1 :
                        /\ files[name][k].box = BoxOf(anchor)
                        /\ Camera!IsBest(files[name][k].class_id, anchor)
                        /\ files[name][k].confidence
                             = Score(files[name][k].class_id, anchor)
    BY DEF FileIsGenuine
  <2>1. files[name] = drawn
    BY DEF ToolInv, DrawnInv
  <2>2. PICK j \in 1 .. Len(boxes) :
          drawn[k] = [box |-> boxes[j], class_id |-> class_ids[j],
                      confidence |-> scores[j]]
    BY <2>1 DEF ToolInv, DrawnInv
  <2>3. PICK anchor \in 0 .. i - 1 :
          /\ boxes[j] = BoxOf(anchor)
          /\ Camera!IsBest(class_ids[j], anchor)
          /\ scores[j] = Score(class_ids[j], anchor)
    BY DEF ToolInv, BoxesInv
  <2>4. anchor \in 0 .. NumDetections - 1
    BY Sizes DEF ToolInv, BoxesInv
  <2>5. QED
    BY <2>1, <2>2, <2>3, <2>4
<1>2. QED
  BY <1>1, ToolInvCorrect, PTL
=============================================================================
