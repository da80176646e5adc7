--------------------------- MODULE LatencyProofs ---------------------------
(***************************************************************************)
(* Proofs about the consumer's clocks and about printStats, for any number *)
(* of frames, any length of a run, any width of an int and any distance of *)
(* the two clocks.                                                         *)
(***************************************************************************)
EXTENDS Latency, FiniteSetTheorems, FunctionTheorems, SequenceTheorems,
        NaturalsInduction, TLAPS

-----------------------------------------------------------------------------
(***************************************************************************)
(* Natural numbers.                                                        *)
(***************************************************************************)

\* A set of numbers that is not empty has a least one.
LEMMA LeastNumber ==
  ASSUME NEW T \in SUBSET Nat, T # {}
  PROVE  \E a \in T : \A b \in T : a <= b
<1> DEFINE Less == {pair \in Nat \X Nat : pair[1] < pair[2]}
<1>1. IsWellFoundedOn(Less, Nat)
  BY NatLessThanWellFounded DEF OpToRel
<1>2. \A a, b \in Nat : <<a, b>> \in Less <=> a < b
  OBVIOUS
<1> HIDE DEF Less
<1>3. PICK a \in T : \A b \in T : ~(<<b, a>> \in Less)
  BY <1>1, WFMin
<1>4. \A b \in T : ~(b < a)
  BY <1>2, <1>3
<1>5. \A b \in T : a <= b
  BY <1>4
<1>6. QED
  BY <1>5

\* Induction, stated of a set of numbers.
LEMMA AllNumbers ==
  ASSUME NEW S, 0 \in S, \A a \in Nat : a \in S => a + 1 \in S
  PROVE  Nat \subseteq S
<1> DEFINE T == Nat \ S
<1>1. SUFFICES ASSUME T # {} PROVE FALSE
  OBVIOUS
<1>2. T \in SUBSET Nat
  OBVIOUS
<1> HIDE DEF T
<1>3. PICK a \in T : \A b \in T : a <= b
  BY <1>1, <1>2, LeastNumber
<1>4. a \in Nat /\ a \notin S /\ a # 0
  BY <1>3 DEF T
<1>5. a - 1 \in Nat /\ a - 1 \notin T /\ (a - 1) + 1 = a
  BY <1>3, <1>4
<1>6. QED
  BY <1>4, <1>5 DEF T

-----------------------------------------------------------------------------
(***************************************************************************)
(* std::accumulate.                                                        *)
(***************************************************************************)

\* f lists the sums of the first elements of s, up to the m-th.
Sums(f, s, m) ==
  /\ f \in [0 .. m -> Nat]
  /\ f[0] = 0
  /\ \A k \in 1 .. m : f[k] = f[k - 1] + s[k]

LEMMA SumsExist ==
  ASSUME NEW s \in Seq(Nat)
  PROVE  \E f : Sums(f, s, Len(s))
<1> DEFINE S == {m \in Nat : m <= Len(s) => \E f : Sums(f, s, m)}
<1>1. 0 \in S
  <2>1. Sums([k \in 0 .. 0 |-> 0], s, 0)
    BY DEF Sums
  <2>2. QED
    BY <2>1
<1>2. ASSUME NEW m \in Nat, m \in S PROVE m + 1 \in S
  <2>1. SUFFICES ASSUME m + 1 <= Len(s) PROVE \E f : Sums(f, s, m + 1)
    OBVIOUS
  <2>2. PICK f : Sums(f, s, m)
    BY <1>2, <2>1
  <2>3. s[m + 1] \in Nat
    BY <2>1
  <2> DEFINE g == [k \in 0 .. m + 1 |-> IF k <= m THEN f[k] ELSE f[m] + s[m + 1]]
  <2>4. g \in [0 .. m + 1 -> Nat] /\ g[0] = 0
    <3>1. f[0] = 0 /\ \A k \in 0 .. m : f[k] \in Nat
      BY <2>2 DEF Sums
    <3>2. \A k \in 0 .. m + 1 : (IF k <= m THEN f[k] ELSE f[m] + s[m + 1]) \in Nat
      BY <2>3, <3>1
    <3>3. QED
      BY <3>1, <3>2
  <2>5. ASSUME NEW k \in 1 .. m + 1 PROVE g[k] = g[k - 1] + s[k]
    <3>1. g[k] = (IF k <= m THEN f[k] ELSE f[m] + s[m + 1]) /\ g[k - 1] = f[k - 1]
      OBVIOUS
    <3>2. CASE k <= m
      BY <2>2, <3>1, <3>2 DEF Sums
    <3>3. CASE k = m + 1
      BY <3>1, <3>3
    <3>4. QED
      BY <3>2, <3>3
  <2>6. QED
    BY <2>4, <2>5 DEF Sums
<1>3. Nat \subseteq S
  <2> HIDE DEF S
  <2>1. QED
    BY <1>1, <1>2, AllNumbers
<1>4. QED
  BY <1>3

LEMMA SumsAgree ==
  ASSUME NEW s, NEW m \in Nat, NEW f, NEW g, Sums(f, s, m),
         DOMAIN g = 0 .. m, g[0] = 0,
         \A k \in 1 .. m : g[k] = g[k - 1] + s[k]
  PROVE  g[m] = f[m]
<1> DEFINE S == {k \in Nat : k <= m => g[k] = f[k]}
<1>1. 0 \in S
  BY DEF Sums
<1>2. ASSUME NEW k \in Nat, k \in S PROVE k + 1 \in S
  <2>1. SUFFICES ASSUME k + 1 <= m PROVE g[k + 1] = f[k + 1]
    OBVIOUS
  <2>2. k + 1 \in 1 .. m /\ (k + 1) - 1 = k /\ g[k] = f[k]
    BY <1>2, <2>1
  <2>3. QED
    BY <2>2 DEF Sums
<1>3. Nat \subseteq S
  <2> HIDE DEF S
  <2>1. QED
    BY <1>1, <1>2, AllNumbers
<1>4. QED
  BY <1>3

\* SumOf is the last of the sums.
LEMMA SumIs ==
  ASSUME NEW s \in Seq(Nat), NEW f, Sums(f, s, Len(s))
  PROVE  SumOf(s) = f[Len(s)]
<1> DEFINE Sum(g) ==
      g = [k \in 0 .. Len(s) |-> IF k = 0 THEN 0 ELSE g[k - 1] + s[k]]
<1>1. Sum(f)
  BY DEF Sums
<1>2. SumOf(s) = (CHOOSE g : Sum(g))[Len(s)]
  BY DEF SumOf
<1>3. PICK g : g = (CHOOSE h : Sum(h)) /\ Sum(g)
  BY <1>1
<1> DEFINE body == [k \in 0 .. Len(s) |-> IF k = 0 THEN 0 ELSE g[k - 1] + s[k]]
<1>4. g = body
  BY <1>3
<1>5. /\ DOMAIN body = 0 .. Len(s) /\ body[0] = 0
      /\ \A k \in 1 .. Len(s) : body[k] = g[k - 1] + s[k]
  <2>1. Len(s) \in Nat
    OBVIOUS
  <2>2. QED
    BY <2>1
<1> HIDE DEF body
<1>6. /\ DOMAIN g = 0 .. Len(s) /\ g[0] = 0
      /\ \A k \in 1 .. Len(s) : g[k] = g[k - 1] + s[k]
  BY <1>4, <1>5
<1>7. g[Len(s)] = f[Len(s)]
  <2>1. Len(s) \in Nat
    OBVIOUS
  <2>2. QED
    BY <1>6, <2>1, SumsAgree
<1>8. QED
  BY <1>2, <1>3, <1>7

\* What recording a latency does to the sum.
LEMMA SumOfAppend ==
  ASSUME NEW s \in Seq(Nat), NEW x \in Nat
  PROVE  SumOf(s) \in Nat /\ SumOf(Append(s, x)) = SumOf(s) + x
<1>1. PICK f : Sums(f, s, Len(s))
  BY SumsExist
<1>2. SumOf(s) = f[Len(s)] /\ f[Len(s)] \in Nat
  <2>1. Len(s) \in Nat
    OBVIOUS
  <2>2. f[Len(s)] \in Nat
    BY <1>1, <2>1 DEF Sums
  <2>3. QED
    BY <1>1, <2>2, SumIs
<1> DEFINE t == Append(s, x)
           g == [k \in 0 .. Len(t) |-> IF k <= Len(s) THEN f[k] ELSE f[Len(s)] + x]
<1>3. /\ t \in Seq(Nat) /\ Len(t) = Len(s) + 1 /\ t[Len(s) + 1] = x
      /\ \A k \in 1 .. Len(s) : t[k] = s[k]
  OBVIOUS
<1> HIDE DEF t
<1>4. g \in [0 .. Len(t) -> Nat] /\ g[0] = 0
  BY <1>1, <1>2, <1>3 DEF Sums
<1>5. ASSUME NEW k \in 1 .. Len(t) PROVE g[k] = g[k - 1] + t[k]
  <2>1. CASE k <= Len(s)
    BY <1>1, <1>3, <2>1 DEF Sums
  <2>2. CASE k = Len(s) + 1
    BY <1>3, <2>2
  <2>3. QED
    BY <1>3, <2>1, <2>2
<1>6. Sums(g, t, Len(t))
  BY <1>4, <1>5 DEF Sums
<1>7. SumOf(t) = g[Len(t)] /\ g[Len(t)] = f[Len(s)] + x
  <2>1. g[Len(t)] = f[Len(s)] + x
    BY <1>3
  <2>2. SumOf(t) = g[Len(t)]
    <3> HIDE DEF g
    <3>1. QED
      BY <1>3, <1>6, SumIs
  <2>3. QED
    BY <2>1, <2>2
<1>8. QED
  BY <1>2, <1>7 DEF t

LEMMA SumOfNone == SumOf(<<>>) = 0
<1>1. PICK f : Sums(f, <<>>, 0)
  <2>1. <<>> \in Seq(Nat) /\ Len(<<>>) = 0
    OBVIOUS
  <2>2. QED
    BY <2>1, SumsExist
<1>2. <<>> \in Seq(Nat) /\ Len(<<>>) = 0
  OBVIOUS
<1>3. QED
  BY <1>1, <1>2, SumIs DEF Sums
-----------------------------------------------------------------------------
(***************************************************************************)
(* The inductive invariant of the consumer's loop.  An iteration begins    *)
(* with a free place for its latency, and all that is recorded lies before *)
(* its total_start.                                                        *)
(***************************************************************************)
RoomInv == pc \notin {"loop", "joined"} => Len(latencies_us) < MaxFrames

SumInv == Total <= IF pc \in {"loop", "joined"} THEN clock ELSE total_start

TimesInv == TypeOK /\ RoomInv /\ SumInv

LEMMA Constants ==
  /\ EpochOffset \in Nat /\ IntMax \in Nat /\ MaxClock \in Nat
  /\ MaxFrames \in Nat \ {0} /\ Half \in Nat \ {0}
BY LatencyAssumption DEF Half

\* The cut to an int leaves an int.
LEMMA ToIntFits ==
  ASSUME NEW t \in Int
  PROVE  ToInt(t) \in -Half .. Half - 1
<1>1. Half \in Nat \ {0}
  BY Constants
<1>2. ((t + Half) % (2 * Half)) \in 0 .. 2 * Half - 1
  BY <1>1
<1>3. QED
  BY <1>1, <1>2 DEF ToInt

LEMMA TimesInvInit == Init => TimesInv
<1>1. SUFFICES ASSUME Init PROVE TimesInv
  OBVIOUS
<1>2. TypeOK /\ RoomInv
  BY <1>1, Constants DEF Init, TypeOK, RoomInv
<1>3. SumInv
  BY <1>1, SumOfNone DEF Init, SumInv, Total
<1>4. QED
  BY <1>2, <1>3 DEF TimesInv

LEMMA PassStep == TimesInv /\ Pass => TimesInv'
<1>1. SUFFICES ASSUME TimesInv, Pass PROVE TimesInv'
  OBVIOUS
<1>2. clock \in Nat /\ clock' = clock + 1 /\ clock' \in 0 .. MaxClock
  BY <1>1, Constants DEF TimesInv, TypeOK, Pass
<1>3. latencies_us \in Seq(0 .. clock') /\ Len(latencies_us) <= MaxFrames
  BY <1>1, <1>2 DEF TimesInv, TypeOK
<1>4. TypeOK'
  BY <1>1, <1>2, <1>3, Constants DEF TimesInv, TypeOK, Pass
<1>5. latencies_us \in Seq(Nat)
  BY <1>2, <1>3, Constants
<1>6. Total \in Nat
  BY <1>5, SumOfAppend DEF Total
<1>7. SumInv'
  BY <1>1, <1>2, <1>6 DEF TimesInv, TypeOK, SumInv, Total, Pass
<1>8. QED
  BY <1>1, <1>4, <1>7 DEF TimesInv, RoomInv, Pass

LEMMA RecordStep == TimesInv /\ Record => TimesInv'
<1>1. SUFFICES ASSUME TimesInv, Record PROVE TimesInv'
  OBVIOUS
<1>2. /\ clock \in 0 .. MaxClock /\ clock \in Nat
      /\ total_start \in 0 .. clock /\ clock' = clock
      /\ clock - total_start \in 0 .. clock
  BY <1>1, Constants DEF TimesInv, TypeOK, Record, Goes
<1>3. /\ latencies_us \in Seq(0 .. clock) /\ Len(latencies_us) < MaxFrames
      /\ latencies_us' = Append(latencies_us, clock - total_start)
  BY <1>1 DEF TimesInv, TypeOK, RoomInv, Record, Goes
<1>4. latencies_us' \in Seq(0 .. clock) /\ Len(latencies_us') <= MaxFrames
  <2>1. Len(latencies_us') = Len(latencies_us) + 1 /\ Len(latencies_us) \in Nat
    BY <1>3
  <2>2. QED
    BY <1>2, <1>3, <2>1, Constants
<1>5. TypeOK'
  BY <1>1, <1>2, <1>4 DEF TimesInv, TypeOK, Record, Goes
<1>6. latencies_us \in Seq(Nat) /\ clock - total_start \in Nat
  BY <1>2, <1>3
<1>7. Total \in Nat /\ Total' = Total + (clock - total_start)
  BY <1>3, <1>6, SumOfAppend DEF Total
<1>8. Total <= total_start
  BY <1>1 DEF TimesInv, SumInv, Record, Goes
<1>9. SumInv' /\ RoomInv'
  BY <1>1, <1>2, <1>7, <1>8 DEF SumInv, RoomInv, Record, Goes
<1>10. QED
  BY <1>5, <1>9 DEF TimesInv

LEMMA TimesInvStep == TimesInv /\ [Next]_vars => TimesInv'
<1>1. SUFFICES ASSUME TimesInv, [Next]_vars PROVE TimesInv'
  OBVIOUS
<1>2. TypeOK /\ RoomInv /\ SumInv
  BY <1>1 DEF TimesInv
<1>3. /\ clock \in Nat /\ total_start \in 0 .. clock
      /\ inference_start_time_us \in Int
  BY <1>2, Constants DEF TypeOK
<1>4. latencies_us \in Seq(Nat)
  BY <1>2, <1>3 DEF TypeOK
<1>5. Total \in Nat
  BY <1>4, SumOfAppend DEF Total
<1>6. CASE StartIteration
  <2>1. TypeOK'
    BY <1>2, <1>3, <1>6 DEF TypeOK, StartIteration, Goes
  <2>2. RoomInv' /\ SumInv'
    BY <1>2, <1>6 DEF RoomInv, SumInv, Total, StartIteration, Goes
  <2>3. QED
    BY <2>1, <2>2 DEF TimesInv
<1>7. CASE NoFrame \/ InferThrows
  <2>1. TypeOK'
    BY <1>2, <1>7 DEF TypeOK, NoFrame, InferThrows, Goes
  <2>2. RoomInv' /\ SumInv'
    BY <1>2, <1>3, <1>5, <1>7 DEF RoomInv, SumInv, Total, NoFrame, InferThrows, Goes
  <2>3. QED
    BY <2>1, <2>2 DEF TimesInv
<1>8. CASE Preprocess \/ Infer
  <2>1. TypeOK'
    BY <1>2, <1>3, <1>8, Constants DEF TypeOK, Preprocess, Infer, Goes
  <2>2. RoomInv' /\ SumInv'
    BY <1>2, <1>8 DEF RoomInv, SumInv, Total, Preprocess, Infer, Goes
  <2>3. QED
    BY <2>1, <2>2 DEF TimesInv
<1>9. CASE Postprocess
  <2>1. total_time_us' \in -Half .. Half - 1
    BY <1>3, <1>9, ToIntFits DEF Postprocess
  <2>2. TypeOK'
    BY <1>2, <1>9, <2>1, Constants DEF TypeOK, Postprocess, Goes, Half
  <2>3. RoomInv' /\ SumInv'
    BY <1>2, <1>9 DEF RoomInv, SumInv, Total, Postprocess, Goes
  <2>4. QED
    BY <2>2, <2>3 DEF TimesInv
<1>10. CASE Joined
  BY <1>2, <1>10 DEF TimesInv, TypeOK, RoomInv, SumInv, Total, Joined, Goes
<1>11. CASE Ended \/ UNCHANGED vars
  BY <1>2, <1>11 DEF TimesInv, TypeOK, RoomInv, SumInv, Total, Ended, vars
<1>12. QED
  BY <1>1, <1>6, <1>7, <1>8, <1>9, <1>10, <1>11, PassStep, RecordStep DEF Next

\* The inductive invariant holds throughout a run of the consumer.
THEOREM TimesInvCorrect == Spec => []TimesInv
BY TimesInvInit, TimesInvStep, PTL DEF Spec

\* The recorded iterations do not overlap: printStats divides by no more than
\* the time that has passed.
THEOREM TimeCountedOnce == Spec => []NoTimeCountedTwice
<1>1. TimesInv => NoTimeCountedTwice
  <2>1. SUFFICES ASSUME TimesInv PROVE Total <= clock
    BY DEF NoTimeCountedTwice
  <2>2. clock \in Nat /\ total_start \in 0 .. clock
    BY <2>1, Constants DEF TimesInv, TypeOK
  <2>3. latencies_us \in Seq(Nat)
    BY <2>1, <2>2 DEF TimesInv, TypeOK
  <2>4. Total \in Nat
    BY <2>3, SumOfAppend DEF Total
  <2>5. QED
    BY <2>1, <2>2, <2>4 DEF TimesInv, SumInv
<1>2. QED
  BY <1>1, TimesInvCorrect, PTL
-----------------------------------------------------------------------------
(***************************************************************************)
(* std::sort.                                                              *)
(***************************************************************************)

\* order names the first m places of s so that the elements there rise.
Rises(order, s, m) ==
  /\ order \in [1 .. m -> 1 .. m]
  /\ \A i, j \in 1 .. m : i # j => order[i] # order[j]
  /\ \A i, j \in 1 .. m : i < j => s[order[i]] <= s[order[j]]

\* One more element is put before the first that is greater.
LEMMA Insertion ==
  ASSUME NEW s \in Seq(Nat), NEW m \in Nat, m + 1 <= Len(s),
         NEW order, Rises(order, s, m)
  PROVE  \E longer : Rises(longer, s, m + 1)
<1>1. /\ \A i \in 1 .. m + 1 : s[i] \in Nat
      /\ \A i \in 1 .. m : order[i] \in 1 .. m
      /\ \A i, j \in 1 .. m : i # j => order[i] # order[j]
      /\ \A i, j \in 1 .. m : i < j => s[order[i]] <= s[order[j]]
  <2>1. \A i \in 1 .. m + 1 : i \in 1 .. Len(s)
    OBVIOUS
  <2>2. \A i \in 1 .. m + 1 : s[i] \in Nat
    BY <2>1
  <2>3. QED
    BY <2>2 DEF Rises
<1> DEFINE Later == {i \in 1 .. m + 1 : i = m + 1 \/ s[order[i]] > s[m + 1]}
<1>2. Later \in SUBSET Nat /\ m + 1 \in Later
  OBVIOUS
<1>3. PICK place \in Later : \A i \in Later : place <= i
  <2> HIDE DEF Later
  <2>1. QED
    BY <1>2, LeastNumber
<1>4. place \in 1 .. m + 1
  OBVIOUS
<1>5. ASSUME NEW i \in 1 .. m, i < place PROVE s[order[i]] <= s[m + 1]
  <2>1. i \notin Later
    BY <1>3, <1>4, <1>5
  <2>2. order[i] \in 1 .. m + 1 /\ s[order[i]] \in Nat /\ s[m + 1] \in Nat
    BY <1>1
  <2>3. QED
    BY <2>1, <2>2
<1>6. ASSUME NEW i \in 1 .. m, place <= i PROVE s[m + 1] <= s[order[i]]
  <2>1. place \in 1 .. m /\ place \in Later /\ place # m + 1
    BY <1>4, <1>6
  <2>2. s[order[place]] > s[m + 1]
    BY <2>1
  <2>3. /\ order[place] \in 1 .. m + 1 /\ order[i] \in 1 .. m + 1
        /\ s[order[place]] \in Nat /\ s[order[i]] \in Nat /\ s[m + 1] \in Nat
    <3>1. \A j \in 1 .. m : order[j] \in 1 .. m + 1 /\ s[order[j]] \in Nat
      BY <1>1
    <3>2. m + 1 \in 1 .. m + 1
      OBVIOUS
    <3>3. QED
      BY <1>1, <2>1, <3>1, <3>2
  <2>4. s[order[place]] <= s[order[i]]
    <3>1. CASE place = i
      BY <2>3, <3>1
    <3>2. CASE place < i
      BY <1>1, <2>1, <3>2
    <3>3. QED
      BY <1>6, <2>1, <3>1, <3>2
  <2>5. /\ s[order[place]] \in Nat /\ s[order[i]] \in Nat /\ s[m + 1] \in Nat
        /\ s[m + 1] < s[order[place]]
    BY <2>2, <2>3
  <2>6. QED
    BY <2>4, <2>5
<1> HIDE DEF Later
<1> DEFINE longer == [i \in 1 .. m + 1 |->
                        IF i < place THEN order[i]
                        ELSE IF i = place THEN m + 1 ELSE order[i - 1]]
<1>7. /\ DOMAIN longer = 1 .. m + 1
      /\ longer[place] = m + 1
      /\ \A i \in 1 .. m + 1 : i < place => i \in 1 .. m /\ longer[i] = order[i]
      /\ \A i \in 1 .. m + 1 :
           i > place => i - 1 \in 1 .. m /\ place <= i - 1 /\ longer[i] = order[i - 1]
  BY <1>4
<1>8. longer \in [1 .. m + 1 -> 1 .. m + 1]
  <2>1. ASSUME NEW i \in 1 .. m + 1 PROVE longer[i] \in 1 .. m + 1
    <3> HIDE DEF longer
    <3>1. i < place \/ i = place \/ i > place
      BY <1>4
    <3>2. \A j \in 1 .. m : order[j] \in 1 .. m + 1
      BY <1>1
    <3>3. CASE i < place
      BY <1>7, <3>2, <3>3
    <3>4. CASE i = place
      BY <1>7, <3>4
    <3>5. CASE i > place
      BY <1>7, <3>2, <3>5
    <3>6. QED
      BY <3>1, <3>3, <3>4, <3>5
  <2>2. QED
    BY <2>1
<1> HIDE DEF longer
<1>9. ASSUME NEW i \in 1 .. m + 1, NEW j \in 1 .. m + 1, i < j
      PROVE  longer[i] # longer[j] /\ s[longer[i]] <= s[longer[j]]
  <2>1. ASSUME NEW a \in 1 .. m, NEW b \in 1 .. m, a < b,
               longer[i] = order[a], longer[j] = order[b]
        PROVE  longer[i] # longer[j] /\ s[longer[i]] <= s[longer[j]]
    BY <1>1, <2>1
  <2>2. CASE j < place
    <3>1. i \in 1 .. m /\ j \in 1 .. m /\ longer[i] = order[i] /\ longer[j] = order[j]
      BY <1>4, <1>7, <1>9, <2>2
    <3>2. QED
      BY <1>9, <2>1, <3>1
  <2>3. CASE j = place
    <3>1. i \in 1 .. m /\ longer[i] = order[i] /\ longer[j] = m + 1
      BY <1>4, <1>7, <1>9, <2>3
    <3>2. order[i] # m + 1
      BY <1>1, <3>1
    <3>3. QED
      BY <1>5, <1>9, <2>3, <3>1, <3>2
  <2>4. CASE j > place /\ i < place
    <3>1. /\ i \in 1 .. m /\ longer[i] = order[i]
          /\ j - 1 \in 1 .. m /\ longer[j] = order[j - 1] /\ i < j - 1
      BY <1>4, <1>7, <2>4
    <3>2. QED
      BY <2>1, <3>1
  <2>5. CASE j > place /\ i = place
    <3>1. /\ longer[i] = m + 1 /\ longer[j] = order[j - 1]
          /\ j - 1 \in 1 .. m /\ place <= j - 1
      BY <1>4, <1>7, <2>5
    <3>2. order[j - 1] # m + 1
      BY <1>1, <3>1
    <3>3. QED
      BY <1>6, <3>1, <3>2
  <2>6. CASE j > place /\ i > place
    <3>1. /\ i - 1 \in 1 .. m /\ longer[i] = order[i - 1]
          /\ j - 1 \in 1 .. m /\ longer[j] = order[j - 1] /\ i - 1 < j - 1
      BY <1>4, <1>7, <1>9, <2>6
    <3>2. QED
      BY <2>1, <3>1
  <2>7. QED
    BY <1>4, <2>2, <2>3, <2>4, <2>5, <2>6
<1>10. \A i, j \in 1 .. m + 1 : i # j => longer[i] # longer[j]
  <2>1. ASSUME NEW i \in 1 .. m + 1, NEW j \in 1 .. m + 1, i # j
        PROVE  longer[i] # longer[j]
    <3>1. i < j \/ j < i
      BY <2>1
    <3>2. QED
      BY <1>9, <3>1
  <2>2. QED
    BY <2>1
<1>11. QED
  BY <1>8, <1>9, <1>10 DEF Rises

LEMMA OrderExists ==
  ASSUME NEW s \in Seq(Nat)
  PROVE  \E order : Rises(order, s, Len(s))
<1> DEFINE S == {m \in Nat : m <= Len(s) => \E order : Rises(order, s, m)}
<1>1. 0 \in S
  <2>1. Rises(<<>>, s, 0)
    BY DEF Rises
  <2>2. QED
    BY <2>1
<1>2. ASSUME NEW m \in Nat, m \in S PROVE m + 1 \in S
  <2>1. SUFFICES ASSUME m + 1 <= Len(s) PROVE \E order : Rises(order, s, m + 1)
    OBVIOUS
  <2>2. PICK order : Rises(order, s, m)
    BY <1>2, <2>1
  <2>3. QED
    BY <2>1, <2>2, Insertion
<1>3. Nat \subseteq S
  <2> HIDE DEF S
  <2>1. QED
    BY <1>1, <1>2, AllNumbers
<1>4. QED
  BY <1>3

\* sorted_lat holds the latencies, each place once, and rises.
LEMMA SortedIs ==
  ASSUME latencies_us \in Seq(Nat)
  PROVE  \E order : /\ Rises(order, latencies_us, n)
                    /\ sorted_lat = [k \in 1 .. n |-> latencies_us[order[k]]]
<1>1. PICK some : Rises(some, latencies_us, n)
  BY OrderExists DEF n
<1> DEFINE order == CHOOSE order \in [1 .. n -> 1 .. n] : Sorts(order)
<1>2. some \in [1 .. n -> 1 .. n] /\ Sorts(some)
  BY <1>1 DEF Rises, Sorts
<1>3. order \in [1 .. n -> 1 .. n] /\ Sorts(order)
  BY <1>2
<1>4. sorted_lat = [k \in 1 .. n |-> latencies_us[order[k]]]
  BY DEF sorted_lat
<1> HIDE DEF order
<1>5. Rises(order, latencies_us, n)
  BY <1>3 DEF Rises, Sorts
<1>6. QED
  BY <1>4, <1>5

-----------------------------------------------------------------------------
(***************************************************************************)
(* Percentiles.                                                            *)
(***************************************************************************)

\* A set that the places i .. j of an order lie in has so many elements.
LEMMA SoMany ==
  ASSUME NEW s \in Seq(Nat), NEW order, Rises(order, s, Len(s)),
         NEW i \in 1 .. Len(s), NEW j \in 1 .. Len(s),
         NEW Set \in SUBSET (1 .. Len(s)), \A k \in i .. j : order[k] \in Set
  PROVE  Cardinality(Set) \in Nat /\ Cardinality(Set) >= (j - i) + 1
<1>1. Len(s) \in Nat
  OBVIOUS
<1>2. IsFiniteSet(Set)
  <2>1. IsFiniteSet(1 .. Len(s))
    BY <1>1, FS_Interval
  <2>2. QED
    BY <2>1, FS_Subset
<1>3. Cardinality(Set) \in Nat
  BY <1>2, FS_CardinalityType
<1> DEFINE part == [k \in i .. j |-> order[k]]
<1>4. part \in Injection(i .. j, Set)
  <2>1. part \in [i .. j -> Set]
    OBVIOUS
  <2>2. \A a, b \in i .. j : part[a] = part[b] => a = b
    BY <1>1 DEF Rises
  <2>3. QED
    BY <2>1, <2>2, Fun_IsInj
<1>5. Cardinality(i .. j) <= Cardinality(Set)
  BY <1>2, <1>4, FS_Injection
<1>6. Cardinality(i .. j) = IF i > j THEN 0 ELSE (j - i) + 1
  BY <1>1, FS_Interval
<1>7. QED
  BY <1>1, <1>3, <1>5, <1>6

\* The k-th of n sorted latencies is not below k of them, nor above n-k+1.
LEMMA PlaceRanked ==
  ASSUME latencies_us \in Seq(Nat), NEW k \in 1 .. n
  PROVE  /\ Cardinality({i \in 1 .. n : latencies_us[i] <= sorted_lat[k]}) >= k
         /\ Cardinality({i \in 1 .. n : latencies_us[i] <= sorted_lat[k]}) \in Nat
         /\ Cardinality({i \in 1 .. n : latencies_us[i] >= sorted_lat[k]}) >= (n - k) + 1
         /\ Cardinality({i \in 1 .. n : latencies_us[i] >= sorted_lat[k]}) \in Nat
<1>1. PICK order : /\ Rises(order, latencies_us, n)
                   /\ sorted_lat = [i \in 1 .. n |-> latencies_us[order[i]]]
  BY SortedIs
<1>2. n = Len(latencies_us) /\ n \in Nat /\ 1 \in 1 .. n /\ n \in 1 .. n
  BY DEF n
<1> DEFINE value == sorted_lat[k]
           NotAbove == {i \in 1 .. n : latencies_us[i] <= value}
           NotBelow == {i \in 1 .. n : latencies_us[i] >= value}
<1>3. value = latencies_us[order[k]]
  BY <1>1
<1>4. /\ \A i \in 1 .. n : order[i] \in 1 .. n /\ latencies_us[order[i]] \in Nat
      /\ \A i, j \in 1 .. n : i < j => latencies_us[order[i]] <= latencies_us[order[j]]
  <2>1. \A i \in 1 .. n : latencies_us[i] \in Nat
    BY <1>2
  <2>2. QED
    BY <1>1, <2>1 DEF Rises
<1> HIDE DEF value
<1>5. ASSUME NEW i \in 1 .. k PROVE order[i] \in NotAbove
  <2>1. i \in 1 .. n /\ (i < k \/ i = k)
    BY <1>2
  <2>2. QED
    BY <1>3, <1>4, <2>1
<1>6. ASSUME NEW i \in k .. n PROVE order[i] \in NotBelow
  <2>1. i \in 1 .. n /\ (k < i \/ i = k)
    BY <1>2
  <2>2. QED
    BY <1>3, <1>4, <2>1
<1>7. NotAbove \in SUBSET (1 .. n) /\ NotBelow \in SUBSET (1 .. n)
  OBVIOUS
<1> HIDE DEF NotAbove, NotBelow
<1>8. Cardinality(NotAbove) \in Nat /\ Cardinality(NotAbove) >= (k - 1) + 1
  BY <1>1, <1>2, <1>5, <1>7, SoMany
<1>9. Cardinality(NotBelow) \in Nat /\ Cardinality(NotBelow) >= (n - k) + 1
  BY <1>1, <1>2, <1>6, <1>7, SoMany
<1>10. (k - 1) + 1 = k
  OBVIOUS
<1>11. QED
  BY <1>8, <1>9, <1>10 DEF NotAbove, NotBelow, value

LEMMA PercentileRanked ==
  ASSUME latencies_us \in Seq(Nat), n > 0, NEW p \in Nat, NEW q \in Nat \ {0},
         NEW idx \in 0 .. n - 1, idx = (n * p) \div q,
         q * idx <= p * n, p * n < q * (idx + 1)
  PROVE  Ranked(p, q)
<1>1. n \in Nat /\ idx + 1 \in 1 .. n
  BY DEF n
<1>2. Percentile(p, q) = sorted_lat[idx + 1]
  BY <1>1 DEF Percentile
<1> DEFINE value == sorted_lat[idx + 1]
           above == Cardinality({i \in 1 .. n : latencies_us[i] <= value})
           below == Cardinality({i \in 1 .. n : latencies_us[i] >= value})
<1>3. /\ above \in Nat /\ above >= idx + 1
      /\ below \in Nat /\ below >= (n - (idx + 1)) + 1
  BY <1>1, PlaceRanked
<1>4. Ranked(p, q) <=> /\ q * above >= p * n
                       /\ q * below >= (q - p) * n
  BY <1>2 DEF Ranked
<1> HIDE DEF above, below
<1>5. q * above >= p * n
  <2>1. q * above >= q * (idx + 1)
    BY <1>1, <1>3
  <2>2. QED
    BY <1>1, <1>3, <2>1
<1>6. q * below >= (q - p) * n
  <2>1. below >= n - idx
    BY <1>1, <1>3
  <2>2. q * below >= q * (n - idx)
    BY <1>1, <1>3, <2>1
  <2>3. q * (n - idx) = q * n - q * idx /\ (q - p) * n = q * n - p * n
    BY <1>1
  <2>4. q * (n - idx) >= (q - p) * n
    <3>1. q * n \in Int /\ q * idx \in Int /\ p * n \in Int
      BY <1>1
    <3>2. QED
      BY <2>3, <3>1
  <2>5. q * below \in Int /\ q * (n - idx) \in Int /\ (q - p) * n \in Int
    BY <1>1, <1>3
  <2>6. QED
    BY <2>2, <2>4, <2>5
<1>7. QED
  BY <1>4, <1>5, <1>6

\* What printStats prints as p50, p99 and p99.9 are these percentiles, however
\* many latencies there are and however they are distributed.
THEOREM PercentilesAreRanked == Spec => []PercentilesRanked
<1>1. TimesInv => PercentilesRanked
  <2>1. SUFFICES ASSUME TimesInv, n > 0, NEW pq \in Percentiles
                 PROVE  Ranked(pq[1], pq[2])
    BY DEF PercentilesRanked
  <2>2. latencies_us \in Seq(Nat) /\ n \in Nat
    <3>1. clock \in Nat
      BY <2>1, Constants DEF TimesInv, TypeOK
    <3>2. QED
      BY <2>1, <3>1 DEF TimesInv, TypeOK, n
  <2>3. Ranked(50, 100)
    <3>1. PICK idx : idx = (n * 50) \div 100
      OBVIOUS
    <3>2. /\ idx \in 0 .. n - 1
          /\ 100 * idx <= 50 * n /\ 50 * n < 100 * (idx + 1)
      BY <2>1, <2>2, <3>1
    <3>3. 50 \in Nat /\ 100 \in Nat \ {0}
      OBVIOUS
    <3>4. QED
      BY <2>1, <2>2, <3>1, <3>2, <3>3, PercentileRanked, Zenon
  <2>4. Ranked(99, 100)
    <3>1. PICK idx : idx = (n * 99) \div 100
      OBVIOUS
    <3>2. /\ idx \in 0 .. n - 1
          /\ 100 * idx <= 99 * n /\ 99 * n < 100 * (idx + 1)
      BY <2>1, <2>2, <3>1
    <3>3. 99 \in Nat /\ 100 \in Nat \ {0}
      OBVIOUS
    <3>4. QED
      BY <2>1, <2>2, <3>1, <3>2, <3>3, PercentileRanked, Zenon
  <2>5. Ranked(999, 1000)
    <3>1. PICK idx : idx = (n * 999) \div 1000
      OBVIOUS
    <3>2. /\ idx \in 0 .. n - 1
          /\ 1000 * idx <= 999 * n /\ 999 * n < 1000 * (idx + 1)
      BY <2>1, <2>2, <3>1
    <3>3. 999 \in Nat /\ 1000 \in Nat \ {0}
      OBVIOUS
    <3>4. QED
      BY <2>1, <2>2, <3>1, <3>2, <3>3, PercentileRanked
  <2>6. QED
    BY <2>3, <2>4, <2>5 DEF Percentiles
<1>2. QED
  BY <1>1, TimesInvCorrect, PTL

=============================================================================
