----------------------------- MODULE OrtProofs -----------------------------
(***************************************************************************)
(* Proofs about the objects of ONNX Runtime: every object has one owner,   *)
(* and every call is given objects that are there, whichever call of the C *)
(* API fails in whatever programs are looked at.                           *)
(***************************************************************************)
EXTENDS OrtObjects, TLAPS, NaturalsInduction, WellFoundedInduction

(***************************************************************************)
(* A fact about every place of a text is one about a recursive function of *)
(* numbers, shown by induction.                                            *)
(***************************************************************************)
\* Every set of numbers has a least one, ...
LEMMA LeastNumber ==
  ASSUME NEW T \in SUBSET Nat, T # {}
  PROVE  \E a \in T : \A b \in T : a <= b
<1> DEFINE R == OpToRel(<, Nat)
<1>1. IsWellFoundedOn(R, Nat)
  BY NatLessThanWellFounded
<1>2. \A a, b \in Nat : <<a, b>> \in R <=> a < b
  BY DEF OpToRel
<1> HIDE DEF R
<1>3. PICK a \in T : \A b \in T : <<b, a>> \notin R
  BY <1>1, WFMin
<1>4. \A b \in T : ~(b < a)
  BY <1>2, <1>3
<1>5. \A b \in T : a <= b
  BY <1>4
<1>6. QED
  BY <1>5

\* ... and so there is induction, stated of a set of numbers.
LEMMA AllNumbers ==
  ASSUME NEW S, 0 \in S, \A a \in Nat : a \in S => a + 1 \in S
  PROVE  Nat \subseteq S
<1> DEFINE T == Nat \ S
<1>1. SUFFICES ASSUME T # {} PROVE FALSE
  OBVIOUS
<1>2. T \in SUBSET Nat
  OBVIOUS
<1> HIDE DEF T
<1>3. PICK a \in T : \A b \in T : a <= b
  BY <1>1, <1>2, LeastNumber
<1>4. a \in Nat /\ a \notin S /\ a # 0
  BY <1>3 DEF T
<1>5. a - 1 \in Nat /\ a - 1 \notin T /\ (a - 1) + 1 = a
  BY <1>3, <1>4
<1>6. QED
  BY <1>4, <1>5 DEF T

-----------------------------------------------------------------------------
Names == Wrappers \cup {"try"}

LEMMA Distinct ==
  /\ "try" \notin Wrappers
  /\ "status" \in Objects
  /\ Objects \subseteq Wrappers
  /\ Null \notin Objects
BY DEF Wrappers, Objects, Null

LEMMA Appended ==
  ASSUME NEW s \in Seq(Names), IsInjective(s), NEW e \in Names, ~Contains(s, e)
  PROVE  /\ Append(s, e) \in Seq(Names)
         /\ IsInjective(Append(s, e))
         /\ \A w : Contains(Append(s, e), w) <=> Contains(s, w) \/ w = e
BY DEF Contains, IsInjective

LEMMA Shortened ==
  ASSUME NEW s \in Seq(Names), IsInjective(s), NEW k \in 0 .. Len(s)
  PROVE  /\ SubSeq(s, 1, k) \in Seq(Names)
         /\ Len(SubSeq(s, 1, k)) = k
         /\ IsInjective(SubSeq(s, 1, k))
         /\ \A w : Contains(SubSeq(s, 1, k), w) <=> \E j \in 1 .. k : s[j] = w
         /\ \A j \in 1 .. k : SubSeq(s, 1, k)[j] = s[j]
BY DEF Contains, IsInjective

LEMMA Fronted ==
  ASSUME NEW s \in Seq(Names), IsInjective(s), s # <<>>
  PROVE  /\ Front(s) \in Seq(Names)
         /\ IsInjective(Front(s))
         /\ Contains(s, Last(s)) /\ Last(s) \in Names
         /\ \A w : Contains(Front(s), w) <=> Contains(s, w) /\ w # Last(s)
<1>1. Len(s) \in Nat \ {0} /\ Len(s) \in 1 .. Len(s)
  OBVIOUS
<1>2. QED
  BY <1>1 DEF Contains, IsInjective, Front, Last

LEMMA Removed ==
  ASSUME NEW s \in Seq(Names), IsInjective(s), NEW t \in DOMAIN s
  PROVE  /\ RemoveAt(s, t) \in Seq(Names)
         /\ IsInjective(RemoveAt(s, t))
         /\ \A w : Contains(RemoveAt(s, t), w) <=> Contains(s, w) /\ w # s[t]
<1> DEFINE n    == Len(s)
           low  == SubSeq(s, 1, t - 1)
           high == SubSeq(s, t + 1, n)
           r    == RemoveAt(s, t)
<1>1. n \in Nat /\ t \in 1 .. n /\ DOMAIN s = 1 .. n
  OBVIOUS
<1>2. /\ low \in Seq(Names) /\ Len(low) = t - 1
      /\ \A j \in 1 .. t - 1 : low[j] = s[j]
  BY <1>1
<1>3. /\ high \in Seq(Names) /\ Len(high) = n - t
      /\ \A j \in 1 .. n - t : high[j] = s[t + j]
  BY <1>1
<1>4. r = low \o high
  BY DEF RemoveAt
<1> HIDE DEF n, low, high, r
<1>5. /\ r \in Seq(Names) /\ Len(r) = n - 1 /\ DOMAIN r = 1 .. n - 1
      /\ \A j \in 1 .. n - 1 : r[j] = IF j < t THEN low[j] ELSE high[j - (t - 1)]
  <2>1. /\ r \in Seq(Names) /\ Len(r) = Len(low) + Len(high)
        /\ DOMAIN r = 1 .. Len(low) + Len(high)
        /\ \A j \in 1 .. Len(low) + Len(high) :
             r[j] = IF j <= Len(low) THEN low[j] ELSE high[j - Len(low)]
    BY <1>2, <1>3, <1>4
  <2>2. (t - 1) + (n - t) = n - 1 /\ \A j \in Int : j <= t - 1 <=> j < t
    BY <1>1
  <2>3. QED
    BY <1>2, <1>3, <2>1, <2>2
<1>6. ASSUME NEW j \in 1 .. n - 1 PROVE r[j] = IF j < t THEN s[j] ELSE s[j + 1]
  <2>1. CASE j < t
    BY <1>1, <1>2, <1>5, <2>1
  <2>2. CASE ~(j < t)
    <3>1. j - (t - 1) \in 1 .. n - t /\ t + (j - (t - 1)) = j + 1
      BY <1>1, <2>2
    <3>2. QED
      BY <1>3, <1>5, <2>2, <3>1
  <2>3. QED
    BY <2>1, <2>2
<1> DEFINE was(j) == IF j < t THEN j ELSE j + 1
<1>7. \A j \in 1 .. n - 1 : was(j) \in 1 .. n /\ was(j) # t /\ r[j] = s[was(j)]
  BY <1>1, <1>6
<1>8. \A a, b \in 1 .. n - 1 : was(a) = was(b) => a = b
  BY <1>1
<1>9. \A i \in 1 .. n : i = t \/ \E j \in 1 .. n - 1 : was(j) = i
  <2> SUFFICES ASSUME NEW i \in 1 .. n, i # t PROVE \E j \in 1 .. n - 1 : was(j) = i
    OBVIOUS
  <2>1. CASE i < t
    BY <1>1, <2>1
  <2>2. CASE i > t
    <3>1. i - 1 \in 1 .. n - 1 /\ was(i - 1) = i
      BY <1>1, <2>2
    <3>2. QED
      BY <3>1
  <2>3. QED
    BY <1>1, <2>1, <2>2
<1> HIDE DEF was
<1>10. IsInjective(r)
  BY <1>1, <1>5, <1>7, <1>8 DEF IsInjective
<1>11. ASSUME NEW w PROVE Contains(r, w) <=> Contains(s, w) /\ w # s[t]
  <2>1. ASSUME Contains(r, w) PROVE Contains(s, w) /\ w # s[t]
    BY <1>1, <1>5, <1>7, <2>1 DEF Contains, IsInjective, n
  <2>2. ASSUME Contains(s, w), w # s[t] PROVE Contains(r, w)
    <3>1. PICK i \in 1 .. n : s[i] = w /\ i # t
      BY <2>2 DEF Contains, n
    <3>2. QED
      BY <1>5, <1>7, <1>9, <3>1 DEF Contains
  <2>3. QED
    BY <2>1, <2>2
<1>12. QED
  BY <1>5, <1>10, <1>11 DEF r

-----------------------------------------------------------------------------
LEMMA TextLength == ASSUME NEW p \in Programs PROVE Len(Text(p)) \in Nat
<1>1. p \in {"camera", "image", "demo"}
  BY ProgramsAssumption
<1>2. Len(NewEnv) \in Nat
  BY DEF NewEnv
<1>3. Len(Image) \in Nat
  BY DEF Image, NewEnv, NewOptions, NewSession, NewMemoryInfo, NewTensor, ReadOutput
<1>4. Len(Demo) \in Nat
  BY DEF Demo, NewEnv, NewOptions, NewSession, NewMemoryInfo, NewTensor, ReadOutput
<1>5. Len(Camera) \in Nat
  BY DEF Camera, Engine, SetOptions, Iteration, Infer,
         NewEnv, NewOptions, NewSession, NewMemoryInfo, NewTensor
<1>6. QED
  BY <1>1, <1>3, <1>4, <1>5 DEF Text

\* f lists the layouts of a text before its first n operations and after.
Lists(f, text, n) ==
  f = [i \in 1 .. n + 1 |-> IF i = 1 THEN None ELSE After(text[i - 1], f[i - 1])]

LEMMA ListExists ==
  ASSUME NEW text, NEW n \in Nat
  PROVE  \E f : Lists(f, text, n)
<1> DEFINE S == {m \in Nat : \E f : Lists(f, text, m)}
<1>1. 0 \in S
  <2>1. Lists([i \in 1 .. 1 |-> None], text, 0)
    BY DEF Lists
  <2>2. QED
    BY <2>1
<1>2. ASSUME NEW m \in Nat, m \in S PROVE m + 1 \in S
  <2>1. PICK f : Lists(f, text, m)
    BY <1>2
  <2> DEFINE g == [i \in 1 .. (m + 1) + 1 |->
                     IF i <= m + 1 THEN f[i] ELSE After(text[m + 1], f[m + 1])]
  <2>2. ASSUME NEW i \in 1 .. (m + 1) + 1
        PROVE  g[i] = IF i = 1 THEN None ELSE After(text[i - 1], g[i - 1])
    <3>1. CASE i = 1
      BY <2>1, <3>1 DEF Lists
    <3>2. CASE i # 1 /\ i <= m + 1
      <4>1. /\ i \in 1 .. m + 1 /\ i - 1 \in 1 .. (m + 1) + 1 /\ i - 1 <= m + 1
        BY <3>2
      <4>2. f[i] = After(text[i - 1], f[i - 1])
        BY <2>1, <3>2, <4>1 DEF Lists
      <4>3. g[i] = f[i] /\ g[i - 1] = f[i - 1]
        BY <3>2, <4>1
      <4>4. QED
        BY <3>2, <4>2, <4>3
    <3>3. CASE i = (m + 1) + 1
      <4>1. i - 1 = m + 1 /\ i - 1 \in 1 .. (m + 1) + 1 /\ ~(i <= m + 1) /\ i # 1
        BY <3>3
      <4>2. g[i] = After(text[m + 1], f[m + 1]) /\ g[i - 1] = f[m + 1]
        BY <4>1
      <4>3. QED
        BY <4>1, <4>2
    <3>4. QED
      BY <3>1, <3>2, <3>3
  <2>3. Lists(g, text, m + 1)
    BY <2>2 DEF Lists
  <2>4. QED
    BY <2>3
<1>3. Nat \subseteq S
  <2> HIDE DEF S
  <2>1. QED
    BY <1>1, <1>2, AllNumbers
<1>4. QED
  BY <1>3

\* Layout goes through the text from no wrapper at all.
LEMMA LayoutIs ==
  ASSUME NEW p \in Programs
  PROVE  /\ Layout(p)[1] = None
         /\ \A i \in 1 .. Len(Text(p)) :
              Layout(p)[i + 1] = After(Text(p)[i], Layout(p)[i])
<1> DEFINE n == Len(Text(p))
<1>1. n \in Nat
  BY TextLength
<1>2. Lists(Layout(p), Text(p), n)
  <2>1. PICK f : Lists(f, Text(p), n)
    BY <1>1, ListExists
  <2>2. QED
    BY <2>1 DEF Lists, Layout
<1> HIDE DEF n
<1>3. 1 \in 1 .. n + 1 /\ Layout(p)[1] = None
  BY <1>1, <1>2 DEF Lists
<1>4. ASSUME NEW i \in 1 .. n
      PROVE  Layout(p)[i + 1] = After(Text(p)[i], Layout(p)[i])
  <2>1. i + 1 \in 1 .. n + 1 /\ i + 1 # 1 /\ (i + 1) - 1 = i
    BY <1>1
  <2>2. QED
    BY <1>2, <2>1 DEF Lists
<1>5. QED
  BY <1>3, <1>4 DEF n

-----------------------------------------------------------------------------
\* Wrappers on a stack, each once, and objects each held by one of them.
Owned(s, h) ==
  /\ s \in Seq(Names) /\ IsInjective(s)
  /\ h \in [Wrappers -> Objects \cup {Null}]
  /\ \A v, w \in Wrappers : h[v] = h[w] => v = w \/ h[v] = Null
  /\ \A w \in Wrappers : h[w] # Null => Contains(s, w)

\* As long as no call fails, moreover, there is no Ort::Status.
Sound(s, h) ==
  Owned(s, h) /\ ~Contains(s, "status") /\ "status" \notin HeldBy(h)

\* What each operation of a text needs to leave the wrappers sound.
LEMMA AfterSound ==
  ASSUME NEW p \in Programs, NEW i \in 1 .. Len(Text(p)),
         Sound(Layout(p)[i].stack, Layout(p)[i].held)
  PROVE  Sound(After(Text(p)[i], Layout(p)[i]).stack,
               After(Text(p)[i], Layout(p)[i]).held)
<1> DEFINE op == Text(p)[i]
           s  == Layout(p)[i].stack
           h  == Layout(p)[i].held
           s1 == After(op, Layout(p)[i]).stack
           h1 == After(op, Layout(p)[i]).held
<1>1. InOrderAt(p, i)
  BY ProgramsAssumption
<1>2. Sound(s, h)
  OBVIOUS
<1>3. /\ op.op \in Kinds
      /\ op.op = "declare" => Free(op.w, Layout(p)[i])
      /\ op.op = "make" => Free(op.w, Layout(p)[i]) /\ Unmade(op.w, Layout(p)[i])
      /\ op.op \in {"create", "run"} =>
           Empty(op.w, Layout(p)[i]) /\ Unmade(op.w, Layout(p)[i])
      /\ op.op = "move" => /\ Contains(s, op.from) /\ Contains(s, op.to)
                           /\ op.from # op.to
                           /\ {op.from, op.to} \subseteq Wrappers \ {"status"}
      /\ op.op = "destroy" => s # <<>> /\ Last(s) = op.w /\ op.w \in Wrappers
      /\ op.op = "try" => ~Contains(s, "try")
      /\ op.op = "endtry" => Contains(s, "try")
  BY <1>1 DEF InOrderAt
<1>4. /\ s1 = CASE op.op \in {"declare", "make"} -> Append(s, op.w)
                [] op.op = "destroy" -> Front(s)
                [] op.op = "try"     -> Append(s, "try")
                [] op.op = "endtry"  -> RemoveAt(s, Opened(s))
                [] OTHER             -> s
      /\ h1 = CASE op.op \in {"create", "make", "run"} -> [h EXCEPT ![op.w] = op.w]
                [] op.op = "move"    -> [h EXCEPT ![op.to] = h[op.from],
                                                  ![op.from] = Null]
                [] op.op = "destroy" -> [h EXCEPT ![op.w] = Null]
                [] OTHER             -> h
  BY DEF After
<1>5. /\ op.op = "declare" \/ op.op = "make" =>
           op.w \in Wrappers \ {"status"} /\ ~Contains(s, op.w)
      /\ op.op = "create" \/ op.op = "run" =>
           op.w \in Wrappers \ {"status"} /\ Contains(s, op.w) /\ h[op.w] = Null
      /\ op.op \in {"make", "create", "run"} =>
           op.w \in Objects \ {"status"} /\ op.w \notin HeldBy(h)
  BY <1>3 DEF Free, Empty, Unmade
<1> SUFFICES Sound(s1, h1)
  OBVIOUS
<1> HIDE DEF op, s, h, s1, h1
<1>6. CASE op.op = "declare"
  <2>1. s1 = Append(s, op.w) /\ h1 = h
    BY <1>4, <1>6
  <2>2. QED
    BY <1>2, <1>5, <1>6, <2>1, Appended, Distinct DEF Sound, Owned, Names
<1>7. CASE op.op = "make"
  <2>1. s1 = Append(s, op.w) /\ h1 = [h EXCEPT ![op.w] = op.w]
    BY <1>4, <1>7
  <2>2. /\ s1 \in Seq(Names) /\ IsInjective(s1)
        /\ \A w : Contains(s1, w) <=> Contains(s, w) \/ w = op.w
    BY <1>2, <1>5, <1>7, <2>1, Appended DEF Sound, Owned, Names
  <2>3. QED
    BY <1>2, <1>5, <1>7, <2>1, <2>2, Distinct DEF Sound, Owned, HeldBy
<1>8. CASE op.op \in {"create", "run"}
  <2>1. s1 = s /\ h1 = [h EXCEPT ![op.w] = op.w]
    BY <1>4, <1>8
  <2>2. QED
    BY <1>2, <1>5, <1>8, <2>1, Distinct DEF Sound, Owned, HeldBy
<1>9. CASE op.op = "move"
  <2>1. s1 = s /\ h1 = [h EXCEPT ![op.to] = h[op.from], ![op.from] = Null]
    BY <1>4, <1>9
  <2>2. /\ op.to \in Wrappers /\ op.from \in Wrappers /\ op.to # op.from
        /\ Contains(s, op.to) /\ Contains(s, op.from)
    BY <1>3, <1>9
  <2>3. \A w \in Wrappers :
          h1[w] = IF w = op.from THEN Null ELSE IF w = op.to THEN h[op.from] ELSE h[w]
    BY <1>2, <2>1, <2>2 DEF Sound, Owned
  <2>4. h1 \in [Wrappers -> Objects \cup {Null}]
    BY <1>2, <2>1, <2>2 DEF Sound, Owned
  <2>5. QED
    BY <1>2, <2>1, <2>2, <2>3, <2>4 DEF Sound, Owned, HeldBy
<1>10. CASE op.op = "destroy"
  <2>1. s1 = Front(s) /\ h1 = [h EXCEPT ![op.w] = Null]
    BY <1>4, <1>10
  <2>2. s # <<>> /\ Last(s) = op.w /\ op.w \in Wrappers
    BY <1>3, <1>10
  <2>3. QED
    BY <1>2, <2>1, <2>2, Fronted DEF Sound, Owned, HeldBy
<1>11. CASE op.op = "try"
  <2>1. s1 = Append(s, "try") /\ h1 = h /\ ~Contains(s, "try")
    BY <1>3, <1>4, <1>11
  <2>2. QED
    BY <1>2, <2>1, Appended, Distinct DEF Sound, Owned, Names
<1>12. CASE op.op = "endtry"
  <2>1. s1 = RemoveAt(s, Opened(s)) /\ h1 = h /\ Contains(s, "try")
    BY <1>3, <1>4, <1>12
  <2>2. Opened(s) \in DOMAIN s /\ s[Opened(s)] = "try"
    BY <1>2, <2>1 DEF Opened, Contains, Sound, Owned
  <2>3. QED
    BY <1>2, <2>1, <2>2, Removed, Distinct DEF Sound, Owned
<1>13. CASE op.op \in {"call", "read", "while", "back"}
  <2>1. s1 = s /\ h1 = h
    BY <1>4, <1>13
  <2>2. QED
    BY <1>2, <2>1
<1>14. QED
  BY <1>3, <1>6, <1>7, <1>8, <1>9, <1>10, <1>11, <1>12, <1>13 DEF Kinds

LEMMA LayoutSound ==
  ASSUME NEW p \in Programs
  PROVE  \A i \in 1 .. Len(Text(p)) + 1 :
           /\ Sound(Layout(p)[i].stack, Layout(p)[i].held)
           /\ Layout(p)[i] = [stack |-> Layout(p)[i].stack, held |-> Layout(p)[i].held]
<1> DEFINE n     == Len(Text(p))
           Ok(l) == /\ Sound(l.stack, l.held)
                    /\ l = [stack |-> l.stack, held |-> l.held]
           S     == {m \in Nat : m <= n => Ok(Layout(p)[m + 1])}
<1>1. n \in Nat
  BY TextLength
<1>2. 0 \in S
  <2>1. Sound(<<>>, [w \in Wrappers |-> Null])
    BY DEF Sound, Owned, IsInjective, Contains, HeldBy, Null
  <2>2. None.stack = <<>> /\ None.held = [w \in Wrappers |-> Null]
    BY DEF None
  <2>3. Ok(None)
    BY <2>1, <2>2 DEF None
  <2>4. Layout(p)[1] = None
    BY LayoutIs
  <2> HIDE DEF Ok
  <2>5. QED
    BY <2>3, <2>4
<1>3. ASSUME NEW m \in Nat, m \in S PROVE m + 1 \in S
  <2>1. SUFFICES ASSUME m + 1 <= n PROVE Ok(Layout(p)[(m + 1) + 1])
    OBVIOUS
  <2>2. m + 1 \in 1 .. n /\ Ok(Layout(p)[m + 1])
    BY <1>1, <1>3, <2>1
  <2>3. Layout(p)[(m + 1) + 1] = After(Text(p)[m + 1], Layout(p)[m + 1])
    BY <2>2, LayoutIs
  <2>4. Sound(After(Text(p)[m + 1], Layout(p)[m + 1]).stack,
              After(Text(p)[m + 1], Layout(p)[m + 1]).held)
    BY <2>2, AfterSound
  <2>5. \A op, l : After(op, l) = [stack |-> After(op, l).stack, held |-> After(op, l).held]
    BY DEF After
  <2>6. QED
    BY <2>3, <2>4, <2>5
<1>4. Nat \subseteq S
  <2> HIDE DEF S
  <2>1. QED
    BY <1>2, <1>3, AllNumbers
<1>5. ASSUME NEW i \in 1 .. n + 1 PROVE Ok(Layout(p)[i])
  <2>1. i - 1 \in Nat /\ i - 1 <= n /\ (i - 1) + 1 = i
    BY <1>1
  <2> HIDE DEF Ok
  <2>2. QED
    BY <1>4, <2>1
<1>6. QED
  BY <1>5

-----------------------------------------------------------------------------
LEMMA CutIs ==
  ASSUME NEW l, NEW k
  PROVE  /\ Cut(l, k).stack = SubSeq(l.stack, 1, k)
         /\ Cut(l, k).held = [w \in Wrappers |-> IF Contains(Cut(l, k).stack, w)
                                                 THEN l.held[w] ELSE Null]
BY DEF Cut

LEMMA CutAll ==
  ASSUME NEW l, Owned(l.stack, l.held)
  PROVE  /\ Cut(l, Len(l.stack)).stack = l.stack
         /\ Cut(l, Len(l.stack)).held = l.held
<1>1. SubSeq(l.stack, 1, Len(l.stack)) = l.stack
  BY DEF Owned
<1>2. l.held = [w \in Wrappers |-> IF Contains(l.stack, w) THEN l.held[w] ELSE Null]
  BY DEF Owned
<1> DEFINE s == Cut(l, Len(l.stack)).stack
           h == Cut(l, Len(l.stack)).held
<1>3. s = l.stack
  BY <1>1, CutIs
<1>4. h = [w \in Wrappers |-> IF Contains(s, w) THEN l.held[w] ELSE Null]
  BY CutIs
<1> HIDE DEF s, h
<1>5. h = l.held
  BY <1>2, <1>3, <1>4
<1>6. QED
  BY <1>3, <1>5 DEF s, h

LEMMA CutOwned ==
  ASSUME NEW l, Owned(l.stack, l.held), NEW k \in 0 .. Len(l.stack)
  PROVE  Owned(Cut(l, k).stack, Cut(l, k).held)
<1> DEFINE s == Cut(l, k).stack
           h == Cut(l, k).held
<1>1. s \in Seq(Names) /\ IsInjective(s)
  <2>1. s = SubSeq(l.stack, 1, k)
    BY CutIs
  <2>2. QED
    BY <2>1, Shortened DEF Owned
<1>2. h = [w \in Wrappers |-> IF Contains(s, w) THEN l.held[w] ELSE Null]
  BY CutIs
<1>3. Owned(l.stack, l.held)
  OBVIOUS
<1> HIDE DEF s, h
<1>4. Owned(s, h)
  BY <1>1, <1>2, <1>3 DEF Owned
<1>5. QED
  BY <1>4 DEF s, h

\* The destruction of the last of k wrappers, or the end of a try.
LEMMA CutFurther ==
  ASSUME NEW l, Owned(l.stack, l.held), NEW k \in 1 .. Len(l.stack)
  PROVE  LET s == Cut(l, k).stack
             h == Cut(l, k).held
         IN  /\ s # <<>> /\ Last(s) = l.stack[k]
             /\ Front(s) = Cut(l, k - 1).stack
             /\ Last(s) # "try" => [h EXCEPT ![Last(s)] = Null] = Cut(l, k - 1).held
             /\ Last(s) = "try" => h = Cut(l, k - 1).held
<1> DEFINE a  == l.stack
           s  == Cut(l, k).stack
           h  == Cut(l, k).held
           s1 == Cut(l, k - 1).stack
           h1 == Cut(l, k - 1).held
<1>1. a \in Seq(Names) /\ IsInjective(a) /\ k \in 1 .. Len(a) /\ Len(a) \in Nat
  BY DEF Owned
<1>2. k \in 0 .. Len(a) /\ k - 1 \in 0 .. Len(a)
  BY <1>1
<1>3. /\ s = SubSeq(a, 1, k) /\ s1 = SubSeq(a, 1, k - 1)
      /\ h = [w \in Wrappers |-> IF Contains(s, w) THEN l.held[w] ELSE Null]
      /\ h1 = [w \in Wrappers |-> IF Contains(s1, w) THEN l.held[w] ELSE Null]
  <2>1. s = SubSeq(a, 1, k) /\ s1 = SubSeq(a, 1, k - 1)
    BY CutIs
  <2>2. h = [w \in Wrappers |-> IF Contains(s, w) THEN l.held[w] ELSE Null]
    BY CutIs
  <2>3. h1 = [w \in Wrappers |-> IF Contains(s1, w) THEN l.held[w] ELSE Null]
    BY CutIs
  <2>4. QED
    BY <2>1, <2>2, <2>3
<1> HIDE DEF a, s, h, s1, h1
<1>4. /\ s \in Seq(Names) /\ Len(s) = k /\ \A j \in 1 .. k : s[j] = a[j]
      /\ \A w : Contains(s, w) <=> \E j \in 1 .. k : a[j] = w
  BY <1>1, <1>2, <1>3, Shortened
<1>5. \A w : Contains(s1, w) <=> \E j \in 1 .. k - 1 : a[j] = w
  BY <1>1, <1>2, <1>3, Shortened
<1>6. s # <<>> /\ Last(s) = a[k] /\ Last(s) \in Names
  BY <1>1, <1>4 DEF Last
<1>7. Front(s) = s1
  <2>1. Front(s) = SubSeq(SubSeq(a, 1, k), 1, k - 1)
    BY <1>3, <1>4 DEF Front
  <2>2. SubSeq(SubSeq(a, 1, k), 1, k - 1) = SubSeq(a, 1, k - 1)
    BY <1>1
  <2>3. QED
    BY <1>3, <2>1, <2>2
<1>8. \A w : Contains(s1, w) <=> Contains(s, w) /\ w # a[k]
  BY <1>1, <1>4, <1>5 DEF IsInjective
<1>9. Last(s) # "try" => [h EXCEPT ![Last(s)] = Null] = h1
  BY <1>3, <1>6, <1>8 DEF Names
<1>10. Last(s) = "try" => h = h1
  BY <1>3, <1>6, <1>8, Distinct
<1>11. QED
  BY <1>6, <1>7, <1>9, <1>10 DEF a, s, h, s1, h1

-----------------------------------------------------------------------------
\* The wrappers are those of l.
Are(l) == stack = l.stack /\ held = l.held

\* ... with the status of the call that failed on top.
Raised(l) == /\ stack = Append(l.stack, "status")
             /\ held = [l.held EXCEPT !["status"] = "status"]

\* Some of the wrappers of a place of the text are left, and nothing else.
SomeLeft == \E i \in 1 .. Len(Program) + 1 :
            \E k \in 0 .. Len(Layout(program)[i].stack) :
              Are(Cut(Layout(program)[i], k))

Here == Layout(program)[place]

RunningInv == Are(Here) \/ (Over /\ SomeLeft)

\* Unwinding stops at the try.
ThrowingInv ==
  \/ Raised(Here)
  \/ \E k \in 0 .. Len(Here.stack) :
       Are(Cut(Here, k)) /\ Contains(Cut(Here, k).stack, "try")

(***************************************************************************)
(* The inductive invariant: wherever a call fails, and however far the     *)
(* stack has been unwound or main has returned, the wrappers are those     *)
(* that the text has at some operation where nothing fails, but for some   *)
(* that were constructed last, and the objects alive are what they hold.   *)
(***************************************************************************)
ObjectsInv ==
  /\ program \in Programs
  /\ place \in 1 .. Len(Program) + 1
  /\ mode \in {"running", "throwing", "ended", "terminated"}
  /\ alive = HeldBy(held)
  /\ mode = "running" => RunningInv
  /\ mode = "throwing" => ~Over /\ Calls(Op) /\ ThrowingInv
  /\ mode = "terminated" => RunningInv \/ ThrowingInv
  /\ mode = "ended" => stack = <<>> /\ SomeLeft

LEMMA HeldGained ==
  ASSUME NEW h \in [Wrappers -> Objects \cup {Null}],
         NEW w \in Objects, h[w] = Null
  PROVE  HeldBy([h EXCEPT ![w] = w]) = HeldBy(h) \cup {w}
<1> DEFINE h1 == [h EXCEPT ![w] = w]
<1>1. w \in Wrappers /\ w # Null
  BY Distinct
<1>2. \A v \in Wrappers : h1[v] = IF v = w THEN w ELSE h[v]
  OBVIOUS
<1> HIDE DEF h1
<1>3. HeldBy(h1) = HeldBy(h) \cup {w}
  BY <1>1, <1>2 DEF HeldBy
<1>4. QED
  BY <1>3 DEF h1

LEMMA HeldLost ==
  ASSUME NEW s, NEW h, Owned(s, h), NEW w \in Wrappers
  PROVE  HeldBy([h EXCEPT ![w] = Null]) = HeldBy(h) \ {h[w]}
<1> DEFINE h1 == [h EXCEPT ![w] = Null]
<1>1. \A v \in Wrappers : h1[v] = IF v = w THEN Null ELSE h[v]
  BY DEF Owned
<1> HIDE DEF h1
<1>2. HeldBy(h1) = HeldBy(h) \ {h[w]}
  BY <1>1 DEF HeldBy, Owned
<1>3. QED
  BY <1>2 DEF h1

LEMMA HeldMoved ==
  ASSUME NEW s, NEW h, Owned(s, h), NEW from \in Wrappers, NEW to \in Wrappers,
         from # to
  PROVE  HeldBy([h EXCEPT ![to] = h[from], ![from] = Null]) = HeldBy(h) \ {h[to]}
<1> DEFINE h1 == [h EXCEPT ![to] = h[from], ![from] = Null]
<1>1. \A v \in Wrappers : h1[v] = IF v = from THEN Null
                                  ELSE IF v = to THEN h[from] ELSE h[v]
  BY DEF Owned
<1> HIDE DEF h1
<1>2. HeldBy(h1) = HeldBy(h) \ {h[to]}
  BY <1>1 DEF HeldBy, Owned
<1>3. QED
  BY <1>2 DEF h1

\* What is true of the wrappers while the program runs.
LEMMA RunningHere ==
  ASSUME ObjectsInv, mode = "running", ~Over
  PROVE  /\ place \in 1 .. Len(Program) /\ Len(Program) \in Nat
         /\ Are(Here) /\ Sound(stack, held) /\ InOrderAt(program, place)
         /\ Here = [stack |-> stack, held |-> held]
<1>1. program \in Programs /\ Len(Program) \in Nat /\ place \in 1 .. Len(Program) + 1
  BY TextLength DEF ObjectsInv, Program
<1>2. place \in 1 .. Len(Program)
  BY <1>1 DEF Over
<1>3. Are(Here)
  BY DEF ObjectsInv, RunningInv
<1>4. /\ Sound(Here.stack, Here.held)
      /\ Here = [stack |-> Here.stack, held |-> Here.held]
  BY <1>1, LayoutSound DEF Here, Program
<1>5. InOrderAt(program, place)
  BY <1>1, <1>2, ProgramsAssumption DEF Program
<1>6. QED
  BY <1>1, <1>2, <1>3, <1>4, <1>5 DEF Are

\* An operation that does to the wrappers what the text has it do.
LEMMA AsInText ==
  ASSUME ObjectsInv, mode = "running", ~Over, Step,
         stack' = After(Op, Here).stack, held' = After(Op, Here).held,
         alive' = HeldBy(held')
  PROVE  ObjectsInv'
<1>1. program \in Programs /\ place \in 1 .. Len(Program) /\ Len(Program) \in Nat
  BY RunningHere DEF ObjectsInv
<1>2. program' = program /\ place' = place + 1 /\ mode' = "running"
  BY DEF Step
<1>3. Layout(program)[place + 1] = After(Op, Here)
  BY <1>1, LayoutIs DEF Program, Op, Here
<1>4. Are(Here)'
  BY <1>2, <1>3 DEF Are, Here
<1>5. place' \in 1 .. Len(Program)' + 1
  BY <1>1, <1>2 DEF Program
<1>6. QED
  BY <1>1, <1>2, <1>4, <1>5 DEF ObjectsInv, RunningInv

LEMMA StraightStep ==
  ASSUME ObjectsInv,
         Declare \/ Create \/ Call \/ Move \/ Destroy \/ Read \/ Try \/ EndTry
  PROVE  ObjectsInv'
<1>1. mode = "running" /\ ~Over /\ Step
  BY DEF Declare, Create, Call, Move, Destroy, Read, Try, EndTry, Is
<1>2. /\ Sound(stack, held) /\ InOrderAt(program, place)
      /\ Here.stack = stack /\ Here.held = held
      /\ alive = HeldBy(held)
  BY <1>1, RunningHere DEF ObjectsInv, Are
<1> DEFINE op == Op
           s1 == After(op, Here).stack
           h1 == After(op, Here).held
<1>3. /\ s1 = CASE op.op \in {"declare", "make"} -> Append(stack, op.w)
                [] op.op = "destroy" -> Front(stack)
                [] op.op = "try"     -> Append(stack, "try")
                [] op.op = "endtry"  -> RemoveAt(stack, Opened(stack))
                [] OTHER             -> stack
      /\ h1 = CASE op.op \in {"create", "make", "run"} -> [held EXCEPT ![op.w] = op.w]
                [] op.op = "move"    -> [held EXCEPT ![op.to] = held[op.from],
                                                     ![op.from] = Null]
                [] op.op = "destroy" -> [held EXCEPT ![op.w] = Null]
                [] OTHER             -> held
  BY <1>2 DEF After
<1>4. /\ op.op = "make" => Free(op.w, Here) /\ Unmade(op.w, Here)
      /\ op.op \in {"create", "run"} => Empty(op.w, Here) /\ Unmade(op.w, Here)
      /\ op.op = "move" => /\ op.from # op.to
                           /\ {op.from, op.to} \subseteq Wrappers \ {"status"}
      /\ op.op = "destroy" => Last(stack) = op.w /\ op.w \in Wrappers
  BY <1>2 DEF InOrderAt, Program, Op, Here
<1>5. SUFFICES stack' = s1 /\ held' = h1 /\ alive' = HeldBy(held')
  BY <1>1, AsInText
<1> HIDE DEF op, s1, h1
<1>6. CASE Declare
  <2>1. op.op = "declare" /\ stack' = Append(stack, op.w) /\ UNCHANGED <<held, alive>>
    BY <1>6 DEF Declare, Is, op
  <2>2. QED
    BY <1>2, <1>3, <2>1
<1>7. CASE Create
  <2>1. /\ op.op \in {"create", "make", "run"}
        /\ stack' = IF op.op = "make" THEN Append(stack, op.w) ELSE stack
        /\ held' = [held EXCEPT ![op.w] = op.w]
        /\ alive' = alive \cup {op.w}
    BY <1>7 DEF Create, Is, op
  <2>2. op.w \in Objects /\ held[op.w] = Null
    BY <1>2, <1>4, <2>1, Distinct DEF Free, Empty, Unmade, Sound, Owned
  <2>3. stack' = s1 /\ held' = h1
    BY <1>3, <2>1
  <2>4. held \in [Wrappers -> Objects \cup {Null}]
    BY <1>2 DEF Sound, Owned
  <2>5. HeldBy([held EXCEPT ![op.w] = op.w]) = HeldBy(held) \cup {op.w}
    BY <2>2, <2>4, HeldGained
  <2>6. QED
    BY <1>2, <2>1, <2>3, <2>5
<1>8. CASE Call
  <2>1. op.op = "call" /\ UNCHANGED <<stack, held, alive>>
    BY <1>8 DEF Call, Is, op
  <2>2. QED
    BY <1>2, <1>3, <2>1
<1>9. CASE Move
  <2>1. /\ op.op = "move"
        /\ held' = [held EXCEPT ![op.to] = held[op.from], ![op.from] = Null]
        /\ alive' = alive \ {held[op.to]} /\ UNCHANGED stack
    BY <1>9 DEF Move, HandedOver, Is, op
  <2>2. op.from \in Wrappers /\ op.to \in Wrappers /\ op.from # op.to
    BY <1>4, <2>1
  <2>3. HeldBy(held') = HeldBy(held) \ {held[op.to]}
    BY <1>2, <2>1, <2>2, HeldMoved DEF Sound
  <2>4. QED
    BY <1>2, <1>3, <2>1, <2>3
<1>10. CASE Destroy
  <2>1. /\ op.op = "destroy" /\ stack' = Front(stack)
        /\ alive' = alive \ {held[Last(stack)]}
        /\ held' = [held EXCEPT ![Last(stack)] = Null]
    BY <1>10 DEF Destroy, DestroyLast, Is, op
  <2>2. Last(stack) = op.w /\ op.w \in Wrappers
    BY <1>4, <2>1
  <2>3. HeldBy(held') = HeldBy(held) \ {held[Last(stack)]}
    BY <1>2, <2>1, <2>2, HeldLost DEF Sound
  <2>4. QED
    BY <1>2, <1>3, <2>1, <2>2, <2>3
<1>11. CASE Read
  <2>1. op.op = "read" /\ UNCHANGED <<stack, held, alive>>
    BY <1>11 DEF Read, Is, op
  <2>2. QED
    BY <1>2, <1>3, <2>1
<1>12. CASE Try
  <2>1. op.op = "try" /\ stack' = Append(stack, "try") /\ UNCHANGED <<held, alive>>
    BY <1>12 DEF Try, Is, op
  <2>2. QED
    BY <1>2, <1>3, <2>1
<1>13. CASE EndTry
  <2>1. /\ op.op = "endtry" /\ stack' = RemoveAt(stack, Opened(stack))
        /\ UNCHANGED <<held, alive>>
    BY <1>13 DEF EndTry, Is, op
  <2>2. QED
    BY <1>2, <1>3, <2>1
<1>14. QED
  BY <1>6, <1>7, <1>8, <1>9, <1>10, <1>11, <1>12, <1>13

LEMMA LoopStep == ASSUME ObjectsInv, While \/ Back PROVE ObjectsInv'
<1>1. /\ mode = "running" /\ ~Over
      /\ UNCHANGED <<program, mode, stack, held, alive>>
  BY DEF While, Back, Is
<1>2. /\ place \in 1 .. Len(Program) /\ Len(Program) \in Nat
      /\ Are(Here) /\ InOrderAt(program, place)
      /\ program \in Programs
  BY <1>1, RunningHere DEF ObjectsInv
<1>3. /\ Op.op = "while" => /\ place + Op.length + 1 \in 1 .. Len(Program) + 1
                            /\ Layout(program)[place + Op.length + 1] = Here
      /\ Op.op = "back"  => /\ place - Op.length \in 1 .. Len(Program) + 1
                            /\ Layout(program)[place - Op.length] = Here
  BY <1>2 DEF InOrderAt, Program, Op, Here
<1>4. place' \in 1 .. Len(Program) + 1 /\ Layout(program)[place'] = Here
  <2>1. CASE While
    <3>1. Op.op = "while" /\ place' \in {place + 1, place + Op.length + 1}
      BY <2>1 DEF While, Is
    <3>2. CASE place' = place + 1
      <4>1. Layout(program)[place + 1] = After(Op, Here)
        BY <1>2, LayoutIs DEF Program, Op, Here
      <4>2. After(Op, Here) = [stack |-> Here.stack, held |-> Here.held]
        BY <3>1 DEF After
      <4>3. Here = [stack |-> Here.stack, held |-> Here.held]
        BY <1>2, LayoutSound DEF Program, Here
      <4>4. QED
        BY <1>2, <3>2, <4>1, <4>2, <4>3
    <3>3. CASE place' = place + Op.length + 1
      BY <1>3, <3>1, <3>3
    <3>4. QED
      BY <3>1, <3>2, <3>3
  <2>2. CASE Back
    BY <1>3, <2>2 DEF Back, Is
  <2>3. QED
    BY <2>1, <2>2
<1>5. Are(Here)' /\ (place \in 1 .. Len(Program) + 1)'
  BY <1>1, <1>2, <1>4 DEF Are, Here, Program
<1>6. QED
  BY <1>1, <1>5 DEF ObjectsInv, RunningInv

LEMMA FailStep == ASSUME ObjectsInv, Fail PROVE ObjectsInv'
<1>1. /\ mode = "running" /\ ~Over /\ Calls(Op) /\ mode' = "throwing"
      /\ stack' = Append(stack, "status")
      /\ held' = [held EXCEPT !["status"] = "status"]
      /\ alive' = alive \cup {"status"}
      /\ UNCHANGED <<program, place>>
  BY DEF Fail
<1>2. Are(Here) /\ Sound(stack, held) /\ alive = HeldBy(held)
  BY <1>1, RunningHere DEF ObjectsInv
<1>3. Raised(Here)' /\ (~Over /\ Calls(Op))'
  BY <1>1, <1>2 DEF Raised, Are, Here, Over, Op, Program
<1>4. held \in [Wrappers -> Objects \cup {Null}] /\ held["status"] = Null
  BY <1>2, Distinct DEF Sound, Owned
<1>5. HeldBy([held EXCEPT !["status"] = "status"]) = HeldBy(held) \cup {"status"}
  BY <1>4, Distinct, HeldGained
<1>6. alive' = HeldBy(held')
  BY <1>1, <1>2, <1>5
<1>7. (place \in 1 .. Len(Program) + 1)' /\ program' \in Programs
  BY <1>1 DEF ObjectsInv, Program
<1>8. QED
  BY <1>1, <1>3, <1>6, <1>7 DEF ObjectsInv, ThrowingInv

LEMMA CrashStep ==
  ASSUME ObjectsInv, RunCrashes \/ ReadCrashes \/ ReleaseCrashes
  PROVE  ObjectsInv'
<1>1. /\ mode \in {"running", "throwing"} /\ mode' = "terminated"
      /\ UNCHANGED <<program, place, stack, held, alive>>
  BY DEF RunCrashes, ReadCrashes, ReleaseCrashes, Crash, Is
<1>2. RunningInv \/ ThrowingInv
  BY <1>1 DEF ObjectsInv
<1>3. (RunningInv \/ ThrowingInv)'
  BY <1>1, <1>2
     DEF RunningInv, ThrowingInv, SomeLeft, Raised, Are, Here, Over, Program
<1>4. (place \in 1 .. Len(Program) + 1)'
  BY <1>1 DEF ObjectsInv, Program
<1>5. QED
  BY <1>1, <1>3, <1>4 DEF ObjectsInv

\* What ~Base of the last of k wrappers leaves.
LEMMA DropOne ==
  ASSUME NEW l, Owned(l.stack, l.held), NEW k \in 0 .. Len(l.stack),
         Are(Cut(l, k)), alive = HeldBy(held), DestroyLast
  PROVE  /\ k \in 1 .. Len(l.stack) /\ l.stack[k] # "try"
         /\ Are(Cut(l, k - 1))' /\ alive' = HeldBy(held')
<1>1. /\ stack # <<>> /\ Last(stack) # "try" /\ stack' = Front(stack)
      /\ alive' = alive \ {held[Last(stack)]}
      /\ held' = [held EXCEPT ![Last(stack)] = Null]
  BY DEF DestroyLast
<1>2. stack = Cut(l, k).stack /\ held = Cut(l, k).held
  BY DEF Are
<1>3. Owned(stack, held)
  BY <1>2, CutOwned
<1>4. k # 0
  <2>1. Len(Cut(l, k).stack) = k
    <3>1. Len(SubSeq(l.stack, 1, k)) = k
      BY Shortened DEF Owned
    <3>2. QED
      BY <3>1, CutIs
  <2>2. QED
    BY <1>1, <1>2, <1>3, <2>1 DEF Owned
<1>5. k \in 1 .. Len(l.stack)
  BY <1>4 DEF Owned
<1>6. /\ Last(stack) = l.stack[k]
      /\ stack' = Cut(l, k - 1).stack /\ held' = Cut(l, k - 1).held
  BY <1>1, <1>2, <1>5, CutFurther
<1>7. Last(stack) \in Wrappers
  BY <1>1, <1>3, Fronted DEF Owned, Names
<1>8. HeldBy(held') = HeldBy(held) \ {held[Last(stack)]}
  BY <1>1, <1>3, <1>7, HeldLost
<1>9. Are(Cut(l, k - 1))'
  BY <1>6 DEF Are
<1>10. QED
  BY <1>1, <1>5, <1>6, <1>8, <1>9

\* What is true of a place of the text that wrappers are left of.
LEMMA Placed ==
  ASSUME ObjectsInv, NEW i \in 1 .. Len(Program) + 1
  PROVE  Owned(Layout(program)[i].stack, Layout(program)[i].held)
BY LayoutSound DEF ObjectsInv, Program, Sound

LEMMA ThrowingHere ==
  ASSUME ObjectsInv, mode = "throwing"
  PROVE  /\ place \in 1 .. Len(Program) /\ Len(Program) \in Nat
         /\ Owned(Here.stack, Here.held) /\ Sound(Here.stack, Here.held)
         /\ CaughtAt(program, place) /\ Calls(Op)
<1>1. /\ program \in Programs /\ Len(Program) \in Nat
      /\ place \in 1 .. Len(Program) + 1 /\ ~Over /\ Calls(Op)
  BY TextLength DEF ObjectsInv, Program
<1>2. place \in 1 .. Len(Program)
  BY <1>1 DEF Over
<1>3. CaughtAt(program, place)
  BY <1>1, <1>2, ProgramsAssumption DEF Program
<1>4. Sound(Here.stack, Here.held)
  BY <1>1, LayoutSound DEF Here, Program
<1>5. QED
  BY <1>1, <1>2, <1>3, <1>4 DEF Sound

\* With the status goes what Fail has added.
LEMMA RaisedDrop ==
  ASSUME ObjectsInv, NEW l, Sound(l.stack, l.held), Raised(l)
  PROVE  /\ Owned(stack, held) /\ stack # <<>> /\ Last(stack) = "status"
         /\ \A w : Contains(stack, w) <=> Contains(l.stack, w) \/ w = "status"
         /\ Front(stack) = l.stack /\ [held EXCEPT !["status"] = Null] = l.held
         /\ HeldBy(held) = HeldBy(l.held) \cup {"status"}
<1> DEFINE s == l.stack
           h == l.held
<1>1. /\ stack = Append(s, "status") /\ held = [h EXCEPT !["status"] = "status"]
      /\ Sound(s, h)
  BY DEF Raised
<1> HIDE DEF s, h
<1>2. /\ "status" \in Names /\ "status" \in Wrappers /\ "status" \in Objects
      /\ "status" # Null
  BY Distinct DEF Names
<1>3. /\ s \in Seq(Names) /\ IsInjective(s) /\ ~Contains(s, "status")
      /\ h \in [Wrappers -> Objects \cup {Null}] /\ "status" \notin HeldBy(h)
      /\ \A v, w \in Wrappers : h[v] = h[w] => v = w \/ h[v] = Null
      /\ \A w \in Wrappers : h[w] # Null => Contains(s, w)
  BY <1>1 DEF Sound, Owned
<1>4. /\ stack \in Seq(Names) /\ IsInjective(stack)
      /\ \A w : Contains(stack, w) <=> Contains(s, w) \/ w = "status"
  BY <1>1, <1>2, <1>3, Appended
<1>5. stack # <<>> /\ Last(stack) = "status" /\ Front(stack) = s
  BY <1>1, <1>3 DEF Last, Front
<1>6. h["status"] = Null /\ \A w \in Wrappers : h[w] # "status"
  BY <1>2, <1>3 DEF HeldBy
<1>7. HeldBy(held) = HeldBy(h) \cup {"status"}
  BY <1>1, <1>2, <1>3, <1>6, HeldGained
<1>8. \A w \in Wrappers : held[w] = IF w = "status" THEN "status" ELSE h[w]
  BY <1>1, <1>3
<1>9. held \in [Wrappers -> Objects \cup {Null}]
  BY <1>1, <1>2, <1>3
<1>10. Owned(stack, held)
  BY <1>2, <1>3, <1>4, <1>6, <1>8, <1>9 DEF Owned
<1>11. [held EXCEPT !["status"] = Null] = h
  BY <1>1, <1>2, <1>3, <1>6
<1>12. QED
  BY <1>4, <1>5, <1>7, <1>10, <1>11 DEF s, h

LEMMA UnwindStep == ASSUME ObjectsInv, Unwind PROVE ObjectsInv'
<1>1. /\ mode = "throwing" /\ Contains(stack, "try") /\ DestroyLast
      /\ UNCHANGED <<program, place, mode>>
  BY DEF Unwind
<1>0. PICK l : l = Here
  OBVIOUS
<1>2. /\ Owned(l.stack, l.held) /\ Sound(l.stack, l.held)
      /\ alive = HeldBy(held)
  BY <1>0, <1>1, ThrowingHere DEF ObjectsInv
<1> DEFINE n == Len(l.stack)
<1>3. n \in Nat
  BY <1>2 DEF Owned
<1> DEFINE Left(k) == Are(Cut(l, k))' /\ Contains(Cut(l, k).stack, "try")
<1>4. alive' = HeldBy(held') /\ \E k \in 0 .. n : Left(k)
  <2>1. CASE Raised(l)
    <3>1. /\ Last(stack) = "status" /\ Contains(l.stack, "try")
          /\ Front(stack) = l.stack /\ [held EXCEPT !["status"] = Null] = l.held
          /\ Owned(stack, held)
      BY <1>1, <1>2, <2>1, RaisedDrop
    <3>2. /\ stack' = l.stack /\ held' = l.held
          /\ alive' = HeldBy(held) \ {held["status"]}
      BY <1>1, <1>2, <3>1 DEF DestroyLast
    <3>3. HeldBy(held') = HeldBy(held) \ {held["status"]}
      BY <3>1, <3>2, HeldLost, Distinct
    <3>4. Cut(l, n).stack = l.stack /\ Cut(l, n).held = l.held
      BY <1>2, CutAll
    <3>5. Left(n)
      BY <3>1, <3>2, <3>4 DEF Are
    <3>6. n \in 0 .. n
      BY <1>3
    <3> HIDE DEF Left, n
    <3>7. QED
      BY <3>2, <3>3, <3>5, <3>6
  <2>2. CASE ~Raised(l)
    <3>1. PICK k \in 0 .. n : Are(Cut(l, k)) /\ Contains(Cut(l, k).stack, "try")
      BY <1>0, <1>1, <2>2 DEF ObjectsInv, ThrowingInv
    <3>2. /\ k \in 1 .. n /\ l.stack[k] # "try"
          /\ Are(Cut(l, k - 1))' /\ alive' = HeldBy(held')
      BY <1>1, <1>2, <3>1, DropOne
    <3>3. Contains(Cut(l, k - 1).stack, "try")
      <4>1. k - 1 \in 0 .. n
        BY <1>3, <3>2
      <4>2. \E j \in 1 .. k : l.stack[j] = "try"
        <5>1. Contains(SubSeq(l.stack, 1, k), "try")
          BY <3>1, CutIs
        <5>2. QED
          BY <1>2, <5>1, Shortened DEF Owned
      <4>3. \E j \in 1 .. k - 1 : l.stack[j] = "try"
        BY <1>3, <3>2, <4>2
      <4>4. Contains(SubSeq(l.stack, 1, k - 1), "try")
        BY <1>2, <4>1, <4>3, Shortened DEF Owned
      <4>5. QED
        BY <4>4, CutIs
    <3>4. k - 1 \in 0 .. n /\ Left(k - 1)
      BY <1>3, <3>2, <3>3
    <3> HIDE DEF Left, n
    <3>5. QED
      BY <3>2, <3>4
  <2>3. QED
    BY <2>1, <2>2
<1>5. ThrowingInv'
  BY <1>0, <1>1, <1>4 DEF ThrowingInv, Here, Are
<1>6. (/\ program \in Programs /\ place \in 1 .. Len(Program) + 1
       /\ mode = "throwing" /\ ~Over /\ Calls(Op))'
  BY <1>1 DEF ObjectsInv, Program, Over, Op
<1>7. QED
  BY <1>4, <1>5, <1>6 DEF ObjectsInv

LEMMA TerminateStep == ASSUME ObjectsInv, Terminate PROVE ObjectsInv'
<1>1. /\ mode = "throwing" /\ ~Contains(stack, "try") /\ mode' = "terminated"
      /\ UNCHANGED <<program, place, stack, held, alive>>
  BY DEF Terminate
<1>2. Raised(Here) /\ ~Over
  BY <1>1 DEF ObjectsInv, ThrowingInv, Are
<1>3. Raised(Here)' /\ ~Over' /\ (place \in 1 .. Len(Program) + 1)'
  BY <1>1, <1>2 DEF ObjectsInv, Raised, Here, Over, Program
<1>4. QED
  BY <1>1, <1>3 DEF ObjectsInv, ThrowingInv

LEMMA CatchStep == ASSUME ObjectsInv, Catch PROVE ObjectsInv'
<1> DEFINE end == EndOfTry(Program, place)
<1>1. /\ mode = "throwing" /\ stack # <<>> /\ Last(stack) = "try"
      /\ mode' = "running" /\ stack' = Front(stack)
      /\ place' = IF Program[end].returns THEN Len(Program) + 1 ELSE end + 1
      /\ UNCHANGED <<program, held, alive>>
  BY DEF Catch
<1>2. PICK l : l = Here
  OBVIOUS
<1>3. /\ Owned(l.stack, l.held) /\ Sound(l.stack, l.held)
      /\ place \in 1 .. Len(Program) /\ Len(Program) \in Nat
      /\ CaughtAt(program, place) /\ Calls(Op)
  BY <1>1, <1>2, ThrowingHere
<1>4. PICK k \in 0 .. Len(l.stack) :
        Are(Cut(l, k)) /\ Contains(Cut(l, k).stack, "try")
  <2>1. ~Raised(l)
    BY <1>1, <1>3, RaisedDrop
  <2>2. QED
    BY <1>1, <1>2, <2>1 DEF ObjectsInv, ThrowingInv
<1>5. /\ l.stack \in Seq(Names) /\ IsInjective(l.stack) /\ Len(l.stack) \in Nat
      /\ DOMAIN l.stack = 1 .. Len(l.stack)
  BY <1>3 DEF Owned
<1>6. k \in 1 .. Len(l.stack)
  <2>1. Contains(SubSeq(l.stack, 1, k), "try")
    BY <1>4, CutIs
  <2>2. \E j \in 1 .. k : l.stack[j] = "try"
    BY <1>5, <2>1, Shortened
  <2>3. QED
    BY <1>5, <2>2
<1>7. /\ l.stack[k] = "try" /\ k = Opened(l.stack) /\ Contains(l.stack, "try")
      /\ k - 1 \in 0 .. Len(l.stack)
  <2>1. l.stack[k] = "try"
    BY <1>1, <1>3, <1>4, <1>6, CutFurther DEF Are
  <2>2. Contains(l.stack, "try")
    BY <1>6, <2>1 DEF Contains
  <2>3. Opened(l.stack) \in DOMAIN l.stack /\ l.stack[Opened(l.stack)] = "try"
    BY <1>5, <1>6, <2>1 DEF Opened
  <2>4. Opened(l.stack) = k
    BY <1>5, <1>6, <2>1, <2>3 DEF IsInjective
  <2>5. QED
    BY <1>5, <1>6, <2>1, <2>2, <2>4
<1>8. Are(Cut(l, k - 1))'
  BY <1>1, <1>3, <1>4, <1>6, CutFurther DEF Are
<1>9. \/ Program[end].returns
      \/ end \in 1 .. Len(Program) /\ Layout(program)[end + 1] = Cut(l, k - 1)
  BY <1>2, <1>3, <1>7 DEF CaughtAt, Program, Op, Here
<1>10. program' = program /\ Program' = Program /\ program \in Programs
  BY <1>1 DEF Program, ObjectsInv
<1>11. place' \in 1 .. Len(Program) + 1
  <2> HIDE DEF end
  <2>1. QED
    BY <1>1, <1>3, <1>9
<1>12. RunningInv'
  <2>1. CASE Program[end].returns
    <3>1. Over'
      BY <1>1, <1>3, <1>10, <2>1 DEF Over
    <3>2. SomeLeft'
      <4>1. place \in 1 .. Len(Program) + 1 /\ l = Layout(program)[place]
        BY <1>2, <1>3 DEF Here
      <4>2. QED
        BY <1>7, <1>8, <1>10, <4>1 DEF SomeLeft, Are
    <3>3. QED
      BY <3>1, <3>2 DEF RunningInv
  <2>2. CASE ~Program[end].returns
    <3>1. Layout(program)[place'] = Cut(l, k - 1)
      BY <1>1, <1>9, <2>2
    <3>2. Are(Here)'
      BY <1>8, <1>10, <3>1 DEF Are, Here
    <3>3. QED
      BY <3>2 DEF RunningInv
  <2>3. QED
    BY <2>1, <2>2
<1>13. (alive = HeldBy(held))' /\ (place \in 1 .. Len(Program) + 1)'
  BY <1>1, <1>10, <1>11 DEF ObjectsInv
<1>14. QED
  BY <1>1, <1>10, <1>12, <1>13 DEF ObjectsInv

LEMMA ReturnStep == ASSUME ObjectsInv, Return PROVE ObjectsInv'
<1>1. mode = "running" /\ Over /\ UNCHANGED <<program, place>>
  BY DEF Return
<1>2. /\ program \in Programs /\ place \in 1 .. Len(Program) + 1
      /\ alive = HeldBy(held) /\ Program' = Program
  BY <1>1 DEF ObjectsInv, Program
<1>3. SomeLeft
  <2>1. CASE Are(Here)
    <3>1. PICK l : l = Here
      OBVIOUS
    <3>2. Owned(l.stack, l.held)
      BY <1>2, <3>1, Placed DEF Here
    <3>3. Are(Cut(l, Len(l.stack)))
      BY <2>1, <3>1, <3>2, CutAll DEF Are
    <3>4. Len(l.stack) \in 0 .. Len(l.stack)
      BY <3>2 DEF Owned
    <3>5. QED
      BY <1>2, <3>1, <3>3, <3>4 DEF SomeLeft, Here
  <2>2. QED
    BY <1>1, <2>1 DEF ObjectsInv, RunningInv
<1>4. PICK i \in 1 .. Len(Program) + 1 :
        \E k \in 0 .. Len(Layout(program)[i].stack) : Are(Cut(Layout(program)[i], k))
  BY <1>3 DEF SomeLeft
<1>5. PICK l : l = Layout(program)[i]
  OBVIOUS
<1>6. PICK k \in 0 .. Len(l.stack) : Are(Cut(l, k))
  BY <1>4, <1>5
<1>7. Owned(l.stack, l.held)
  BY <1>5, Placed
<1>8. CASE stack = <<>>
  <2>1. mode' = "ended" /\ UNCHANGED <<stack, held, alive>>
    BY <1>8 DEF Return
  <2>2. SomeLeft'
    BY <1>1, <1>3, <2>1 DEF SomeLeft, Are, Program
  <2>3. QED
    BY <1>1, <1>2, <1>8, <2>1, <2>2 DEF ObjectsInv
<1>9. CASE stack # <<>>
  <2>1. DestroyLast /\ mode' = mode
    BY <1>9 DEF Return
  <2>2. k \in 1 .. Len(l.stack) /\ Are(Cut(l, k - 1))' /\ alive' = HeldBy(held')
    BY <1>2, <1>6, <1>7, <2>1, DropOne
  <2>3. k - 1 \in 0 .. Len(l.stack)
    BY <1>7, <2>2 DEF Owned
  <2>4. SomeLeft'
    BY <1>1, <1>2, <1>5, <2>2, <2>3 DEF SomeLeft, Are
  <2>5. Over'
    BY <1>1, <1>2 DEF Over
  <2>6. QED
    BY <1>1, <1>2, <2>1, <2>2, <2>4, <2>5 DEF ObjectsInv, RunningInv
<1>10. QED
  BY <1>8, <1>9

LEMMA ObjectsInit == Init => ObjectsInv
<1> SUFFICES ASSUME Init PROVE ObjectsInv
  OBVIOUS
<1>1. /\ program \in Programs /\ place = 1 /\ mode = "running" /\ stack = <<>>
      /\ held = [w \in Wrappers |-> Null] /\ alive = {}
  BY DEF Init
<1>2. Here = None
  BY <1>1, LayoutIs DEF Here
<1>3. Are(Here)
  BY <1>1, <1>2 DEF Are, None
<1>4. HeldBy(held) = {}
  BY <1>1 DEF HeldBy
<1>5. place \in 1 .. Len(Program) + 1
  BY <1>1, TextLength DEF Program
<1>6. QED
  BY <1>1, <1>3, <1>4, <1>5 DEF ObjectsInv, RunningInv

\* The wrappers and what they hold, and the objects, whatever has failed.
THEOREM ObjectsInvCorrect == Spec => []ObjectsInv
<1>1. ObjectsInv /\ [Next]_vars => ObjectsInv'
  <2> SUFFICES ASSUME ObjectsInv, [Next]_vars PROVE ObjectsInv'
    OBVIOUS
  <2>1. CASE Declare \/ Create \/ Call \/ Move \/ Destroy \/ Read \/ Try \/ EndTry
    BY <2>1, StraightStep
  <2>2. CASE While \/ Back
    BY <2>2, LoopStep
  <2>3. CASE RunCrashes \/ ReadCrashes \/ ReleaseCrashes
    BY <2>3, CrashStep
  <2>4. CASE Fail
    BY <2>4, FailStep
  <2>5. CASE Unwind
    BY <2>5, UnwindStep
  <2>6. CASE Terminate
    BY <2>6, TerminateStep
  <2>7. CASE Catch
    BY <2>7, CatchStep
  <2>8. CASE Return
    BY <2>8, ReturnStep
  <2>9. ASSUME UNCHANGED vars PROVE ObjectsInv'
    BY <2>9 DEF vars, ObjectsInv, RunningInv, ThrowingInv, SomeLeft, Raised, Are,
                Here, Over, Op, Program
  <2>10. QED
    BY <2>1, <2>2, <2>3, <2>4, <2>5, <2>6, <2>7, <2>8, <2>9 DEF Next, Stopped
<1>2. QED
  BY <1>1, ObjectsInit, PTL DEF Spec

-----------------------------------------------------------------------------
\* Of a place of the text with nothing failed, all its wrappers are left.
LEMMA AllLeft == ASSUME ObjectsInv, Are(Here) PROVE SomeLeft
<1>1. PICK l : l = Here
  OBVIOUS
<1>2. Owned(l.stack, l.held)
  BY <1>1, Placed DEF Here, ObjectsInv
<1>3. Are(Cut(l, Len(l.stack)))
  BY <1>1, <1>2, CutAll DEF Are
<1>4. Len(l.stack) \in 0 .. Len(l.stack)
  BY <1>2 DEF Owned
<1>5. QED
  BY <1>1, <1>3, <1>4 DEF SomeLeft, Here, ObjectsInv

LEMMA LeftOwned == ASSUME ObjectsInv, SomeLeft PROVE Owned(stack, held)
<1>1. PICK i \in 1 .. Len(Program) + 1 :
        \E k \in 0 .. Len(Layout(program)[i].stack) : Are(Cut(Layout(program)[i], k))
  BY DEF SomeLeft
<1>2. PICK l : l = Layout(program)[i]
  OBVIOUS
<1>3. PICK k \in 0 .. Len(l.stack) : Are(Cut(l, k))
  BY <1>1, <1>2
<1>4. Owned(Cut(l, k).stack, Cut(l, k).held)
  BY <1>2, Placed, CutOwned
<1>5. QED
  BY <1>3, <1>4 DEF Are

\* Whatever has failed, the wrappers are some that are left of the text, or
\* those of the call that failed with its status.
LEMMA ObjectsOwned ==
  ASSUME ObjectsInv
  PROVE  /\ Owned(stack, held)
         /\ SomeLeft \/ (mode \in {"throwing", "terminated"} /\ Raised(Here))
<1>1. CASE Raised(Here) /\ mode \in {"throwing", "terminated"}
  <2>1. PICK l : l = Here
    OBVIOUS
  <2>2. Sound(l.stack, l.held)
    BY <2>1, LayoutSound DEF ObjectsInv, Here, Program
  <2>3. Owned(stack, held)
    BY <1>1, <2>1, <2>2, RaisedDrop
  <2>4. QED
    BY <1>1, <2>3
<1>2. CASE mode \in {"throwing", "terminated"} /\ ThrowingInv /\ ~Raised(Here)
  <2>1. SomeLeft
    BY <1>2 DEF ObjectsInv, ThrowingInv, SomeLeft, Here
  <2>2. QED
    BY <2>1, LeftOwned
<1>3. CASE mode \in {"running", "ended"} \/ (mode = "terminated" /\ RunningInv)
  <2>1. SomeLeft
    BY <1>3, AllLeft DEF ObjectsInv, RunningInv
  <2>2. QED
    BY <2>1, LeftOwned
<1>4. QED
  BY <1>1, <1>2, <1>3 DEF ObjectsInv

\* Type correctness.
THEOREM OrtTypeCorrect == Spec => []TypeOK
<1>1. ObjectsInv => TypeOK
  <2> SUFFICES ASSUME ObjectsInv PROVE TypeOK
    OBVIOUS
  <2>1. Owned(stack, held) /\ alive = HeldBy(held)
    BY ObjectsOwned DEF ObjectsInv
  <2>2. alive \subseteq Objects
    BY <2>1 DEF Owned, HeldBy
  <2>3. QED
    BY <2>1, <2>2 DEF TypeOK, ObjectsInv, Owned, Names
<1>2. QED
  BY <1>1, ObjectsInvCorrect, PTL

\* Every object has exactly one owner, whichever call of the C API fails and
\* however far the stack is unwound: nothing is leaked or released twice.
THEOREM EachObjectOwned == Spec => []OwnedOnce
<1>1. ObjectsInv => OwnedOnce
  <2> SUFFICES ASSUME ObjectsInv PROVE OwnedOnce
    OBVIOUS
  <2>1. Owned(stack, held) /\ alive = HeldBy(held)
    BY ObjectsOwned DEF ObjectsInv
  <2>2. QED
    BY <2>1 DEF OwnedOnce, Owned, HeldBy
<1>2. QED
  BY <1>1, ObjectsInvCorrect, PTL

\* Every call of the C API is given objects that are still there, and there is an
\* environment whenever one is made.
THEOREM CallsHaveTheirObjects == Spec => []NeedsMet
<1>1. ObjectsInv => NeedsMet
  <2> SUFFICES ASSUME ObjectsInv, mode = "running", ~Over, Calls(Op)
               PROVE  Required(Op) \subseteq alive
    BY DEF NeedsMet
  <2>1. Are(Here) /\ InOrderAt(program, place) /\ alive = HeldBy(held)
    BY RunningHere DEF ObjectsInv
  <2>2. Required(Op) \subseteq HeldBy(Here.held)
    BY <2>1 DEF InOrderAt, Op, Program, Here
  <2>3. QED
    BY <2>1, <2>2 DEF Are
<1>2. QED
  BY <1>1, ObjectsInvCorrect, PTL
=============================================================================
