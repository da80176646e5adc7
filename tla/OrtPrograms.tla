---------------------------- MODULE OrtPrograms ----------------------------
(***************************************************************************)
(* What the three programs of the repository do with the objects of ONNX   *)
(* Runtime: the camera program (InferenceEngine in main and in the         *)
(* consumer's loop), the image tool and the demo.                          *)
(*                                                                         *)
(* A program is the list of what it does with the C++ wrappers of          *)
(* include/onnxruntime_cxx_api.h, in the order of the code.  A wrapper is  *)
(* a variable or temporary that holds at most one object; an object is     *)
(* named for the wrapper it was created in.                                *)
(***************************************************************************)
EXTENDS Integers, Sequences, SequencesExt, Functions

CONSTANT Programs   \* those looked at, of "camera", "image" and "demo"

Objects == {"env", "memory_info", "options", "session", "input", "y", "output",
            "status"}
\* engine is the member InferenceEngine::session, result what infer returns,
\* status the Ort::Status of ThrowOnError.
Wrappers == Objects \cup {"engine", "result"}
Null     == "null"

-----------------------------------------------------------------------------
(***************************************************************************)
(* Operations on wrappers; needs are the objects a call is given.  A       *)
(* constructor that calls the C API has an empty base part by then, which  *)
(* is destroyed if the call fails: declare, then create.  CreateCpu and    *)
(* CreateTensor make the wrapper of what the call returned.                *)
(***************************************************************************)
declare(w)       == [op |-> "declare", w |-> w]
create(w, needs) == [op |-> "create", w |-> w, needs |-> needs]
make(w, needs)   == [op |-> "make", w |-> w, needs |-> needs]
call(needs)      == [op |-> "call", needs |-> needs]
run(count)       == [op |-> "run", w |-> "output", needs |-> {"session", "input"},
                     count |-> count]
move(from, to)   == [op |-> "move", from |-> from, to |-> to]
destroy(w)       == [op |-> "destroy", w |-> w]
read(object)     == [op |-> "read", object |-> object]
try              == [op |-> "try"]
endtry(returns)  == [op |-> "endtry", returns |-> returns]
while(length)    == [op |-> "while", length |-> length]
back(length)     == [op |-> "back", length |-> length]

NewEnv        == <<declare("env"), create("env", {}), call({"env"})>>
NewOptions    == <<declare("options"), create("options", {})>>
NewSession    == <<declare("session"), create("session", {"env", "options"})>>
NewMemoryInfo == <<make("memory_info", {})>>
NewTensor(w)  == <<make(w, {"memory_info"})>>

SetOptions == <<call({"options"}), call({"options"}), call({"options"})>>

\* The members in the order of their declarations, then the body.
Engine ==
  <<declare("engine")>> \o NewEnv \o NewMemoryInfo
    \o NewOptions \o SetOptions \o NewSession
    \o <<move("session", "engine"), destroy("session"), destroy("options")>>

Infer ==
  <<declare("result")>> \o NewTensor("input")
    \o <<declare("output"), run(1), move("output", "result"),
         destroy("output"), destroy("input")>>

\* What infer returned is a temporary of the statement that calls it.
Iteration == <<try>> \o Infer \o <<destroy("result"), read("output"), endtry(FALSE)>>

Camera ==
  <<try>> \o Engine \o <<endtry(TRUE), while(Len(Iteration) + 1)>>
    \o Iteration \o <<back(Len(Iteration) + 1)>>

ReadOutput == <<call({"output"}), read("output")>>

Image ==
  NewEnv \o NewOptions \o NewSession \o NewMemoryInfo \o NewTensor("input")
    \o <<declare("output"), run(1)>> \o ReadOutput

Demo ==
  NewEnv \o NewOptions \o NewSession \o NewMemoryInfo
    \o NewTensor("input") \o NewTensor("y")
    \o <<declare("output"), run(2)>> \o ReadOutput

Text(p) == CASE p = "camera" -> Camera
             [] p = "image"  -> Image
             [] p = "demo"   -> Demo

\* A call of the C API, which may fail.
Calls(op) == op.op \in {"create", "make", "call", "run"}

\* The objects that must be there: "One Env must be created before using any
\* other Onnxruntime functionality" (line 1356 of the header).
Required(op) ==
  op.needs \cup IF op.op = "create" /\ op.w = "env" THEN {} ELSE {"env"}

Kinds == {"declare", "create", "make", "call", "run", "move", "destroy", "read",
          "try", "endtry", "while", "back"}

\* Where the try that is open begins in a stack of wrappers, ...
Opened(s) == CHOOSE t \in DOMAIN s : s[t] = "try"

\* ... and where in a text the one open at operation i ends.
EndOfTry(text, i) == CHOOSE h \in i .. Len(text) :
                       /\ text[h].op = "endtry"
                       /\ \A k \in i .. h - 1 : text[k].op # "endtry"

-----------------------------------------------------------------------------
(***************************************************************************)
(* The wrappers of a program, operation by operation, as long as nothing   *)
(* fails: those constructed and not destroyed, with the open try, and what *)
(* each of them holds.                                                     *)
(***************************************************************************)
None == [stack |-> <<>>, held |-> [w \in Wrappers |-> Null]]

After(op, l) ==
  [stack |-> CASE op.op \in {"declare", "make"} -> Append(l.stack, op.w)
               [] op.op = "destroy" -> Front(l.stack)
               [] op.op = "try"     -> Append(l.stack, "try")
               [] op.op = "endtry"  -> RemoveAt(l.stack, Opened(l.stack))
               [] OTHER             -> l.stack,
   held  |-> CASE op.op \in {"create", "make", "run"} ->
                    [l.held EXCEPT ![op.w] = op.w]
               [] op.op = "move"    -> [l.held EXCEPT ![op.to] = l.held[op.from],
                                                      ![op.from] = Null]
               [] op.op = "destroy" -> [l.held EXCEPT ![op.w] = Null]
               [] OTHER             -> l.held]

Layout(p) ==
  LET before[i \in 1 .. Len(Text(p)) + 1] ==
        IF i = 1 THEN None ELSE After(Text(p)[i - 1], before[i - 1])
  IN  before

HeldBy(held) == {held[w] : w \in Wrappers} \ {Null}

\* What is left of l when all but its first k wrappers have been destroyed.
Cut(l, k) ==
  LET rest == SubSeq(l.stack, 1, k)
  IN  [stack |-> rest,
       held  |-> [w \in Wrappers |-> IF Contains(rest, w) THEN l.held[w] ELSE Null]]

(***************************************************************************)
(* The C++ text is in order where nothing fails: a name is declared once   *)
(* in its scope, created where it is empty, and its object in use nowhere  *)
(* else; arguments are there; scopes are nested; a loop comes back to the  *)
(* wrappers it began with.                                                 *)
(***************************************************************************)
Free(w, l)  == w \in Wrappers \ {"status"} /\ ~Contains(l.stack, w)
Empty(w, l) == /\ w \in Wrappers \ {"status"} /\ Contains(l.stack, w)
               /\ l.held[w] = Null
Unmade(o, l) == o \in Objects \ {"status"} /\ o \notin HeldBy(l.held)

InOrderAt(p, i) ==
  LET op == Text(p)[i]
      l  == Layout(p)[i]
      To(j) == j \in 1 .. Len(Text(p)) + 1 /\ Layout(p)[j] = l
  IN  /\ op.op \in Kinds
      /\ op.op = "declare" => Free(op.w, l)
      /\ op.op = "make" => Free(op.w, l) /\ Unmade(op.w, l)
      /\ op.op \in {"create", "run"} => Empty(op.w, l) /\ Unmade(op.w, l)
      /\ Calls(op) => Required(op) \subseteq HeldBy(l.held)
      /\ op.op = "move" => /\ Contains(l.stack, op.from) /\ Contains(l.stack, op.to)
                          /\ op.from # op.to
                          /\ {op.from, op.to} \subseteq Wrappers \ {"status"}
      /\ op.op = "destroy" => /\ l.stack # <<>> /\ Last(l.stack) = op.w
                             /\ op.w \in Wrappers
      /\ op.op = "try" => ~Contains(l.stack, "try")
      /\ op.op = "endtry" => Contains(l.stack, "try")
      /\ op.op = "while" => To(i + op.length + 1)
      /\ op.op = "back" => To(i - op.length)

\* A handler goes on with the wrappers that were there before the try.
CaughtAt(p, i) ==
  LET l   == Layout(p)[i]
      end == EndOfTry(Text(p), i)
  IN  Calls(Text(p)[i]) /\ Contains(l.stack, "try") =>
        \/ Text(p)[end].returns
        \/ /\ end \in 1 .. Len(Text(p))
           /\ Layout(p)[end + 1] = Cut(l, Opened(l.stack) - 1)

ASSUME ProgramsAssumption ==
  /\ Programs \subseteq {"camera", "image", "demo"}
  /\ \A p \in Programs : \A i \in 1 .. Len(Text(p)) : InOrderAt(p, i) /\ CaughtAt(p, i)
=============================================================================
