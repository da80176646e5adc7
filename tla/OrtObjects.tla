----------------------------- MODULE OrtObjects -----------------------------
(***************************************************************************)
(* The objects of ONNX Runtime, and who releases them, with any call of    *)
(* the C API failing: what comes of each program of OrtPrograms as C++     *)
(* constructs, moves and destroys its wrappers and unwinds the stack.      *)
(*                                                                         *)
(* While the camera program's consumer runs main waits for it, so one      *)
(* stack of wrappers serves for both.  What is undefined may do no harm or *)
(* crash the program.                                                      *)
(***************************************************************************)
EXTENDS OrtPrograms

VARIABLES
  program,
  place,     \* the operation to come
  mode,
  stack,    \* the wrappers constructed and not destroyed, and the open try
  held,     \* p_ of each wrapper
  alive     \* the objects created and not released

vars == <<program, place, mode, stack, held, alive>>

-----------------------------------------------------------------------------
Program == Text(program)
Over  == place > Len(Program)
Op    == Program[place]
Is(o) == mode = "running" /\ ~Over /\ Op.op = o

-----------------------------------------------------------------------------
TypeOK ==
  /\ program \in Programs
  /\ place \in 1 .. Len(Program) + 1
  /\ mode \in {"running", "throwing", "ended", "terminated"}
  /\ stack \in Seq(Wrappers \cup {"try"}) /\ IsInjective(stack)
  /\ held \in [Wrappers -> Objects \cup {Null}]
  /\ alive \subseteq Objects

Init ==
  /\ program \in Programs
  /\ place = 1
  /\ mode = "running"
  /\ stack = <<>>
  /\ held = [w \in Wrappers |-> Null]
  /\ alive = {}

Step == place' = place + 1 /\ UNCHANGED <<program, mode>>

Declare ==
  /\ Is("declare")
  /\ Step
  /\ stack' = Append(stack, Op.w)
  /\ UNCHANGED <<held, alive>>

\* The C API stores the new object in p_, or returns it for a new wrapper.
Create ==
  /\ Is("create") \/ Is("make") \/ Is("run")
  /\ Step
  /\ stack' = IF Op.op = "make" THEN Append(stack, Op.w) ELSE stack
  /\ held' = [held EXCEPT ![Op.w] = Op.w]
  /\ alive' = alive \cup {Op.w}

Call ==
  /\ Is("call")
  /\ Step
  /\ UNCHANGED <<stack, held, alive>>

(***************************************************************************)
(* Run is given a pointer to one wrapper and a count, and takes as many    *)
(* pointers from there.  What lies after a wrapper that is no element of   *)
(* an array is undefined: the call may succeed, fail, or crash.            *)
(***************************************************************************)
Crash ==
  /\ mode' = "terminated"
  /\ UNCHANGED <<program, place, stack, held, alive>>

RunCrashes ==
  /\ Is("run")
  /\ Op.count > 1
  /\ Crash

(***************************************************************************)
(* A call returns an OrtStatus: ThrowOnError wraps it, copies its message  *)
(* and throws.                                                             *)
(***************************************************************************)
Fail ==
  /\ mode = "running" /\ ~Over /\ Calls(Op)
  /\ mode' = "throwing"
  /\ stack' = Append(stack, "status")
  /\ held' = [held EXCEPT !["status"] = "status"]
  /\ alive' = alive \cup {"status"}
  /\ UNCHANGED <<program, place>>

\* Mutant of HandedOver: the wrapper moved from is left as it was.
HandedOverKeeping(from, to) == [held EXCEPT ![to] = held[from]]

\* Base(Base&&) and Base::operator=(Base&&).
HandedOver(from, to) == [held EXCEPT ![to] = held[from], ![from] = Null]

Move ==
  /\ Is("move")
  /\ Step
  /\ held' = HandedOver(Op.from, Op.to)
  /\ alive' = alive \ {held[Op.to]}
  /\ UNCHANGED <<stack>>

\* ~Base of the wrapper constructed last.
DestroyLast ==
  /\ stack # <<>>
  /\ Last(stack) # "try"
  /\ stack' = Front(stack)
  /\ alive' = alive \ {held[Last(stack)]}
  /\ held' = [held EXCEPT ![Last(stack)] = Null]

\* ... which releases a session after the environment that it uses.
ReleaseCrashes ==
  /\ mode \in {"running", "throwing"}
  /\ stack # <<>> /\ Last(stack) # "try"
  /\ held[Last(stack)] = "session"
  /\ "env" \notin alive
  /\ Crash

Destroy ==
  /\ Is("destroy")
  /\ Last(stack) = Op.w
  /\ Step
  /\ DestroyLast

Read ==
  /\ Is("read")
  /\ Step
  /\ UNCHANGED <<stack, held, alive>>

\* The data of an object that was released.
ReadCrashes ==
  /\ Is("read")
  /\ Op.object \notin alive
  /\ Crash

Try ==
  /\ Is("try")
  /\ Step
  /\ stack' = Append(stack, "try")
  /\ UNCHANGED <<held, alive>>

\* What was constructed in the first try of the camera program is on the heap.
EndTry ==
  /\ Is("endtry")
  /\ Step
  /\ stack' = RemoveAt(stack, Opened(stack))
  /\ UNCHANGED <<held, alive>>

While ==
  /\ Is("while")
  /\ place' \in {place + 1, place + Op.length + 1}
  /\ UNCHANGED <<program, mode, stack, held, alive>>

Back ==
  /\ Is("back")
  /\ place' = place - Op.length
  /\ UNCHANGED <<program, mode, stack, held, alive>>

-----------------------------------------------------------------------------
Unwind ==
  /\ mode = "throwing"
  /\ Contains(stack, "try")
  /\ DestroyLast
  /\ UNCHANGED <<program, place, mode>>

\* No try is open: std::terminate.
Terminate ==
  /\ mode = "throwing"
  /\ ~Contains(stack, "try")
  /\ mode' = "terminated"
  /\ UNCHANGED <<program, place, stack, held, alive>>

\* Mutant of Catch: main does not return when the engine cannot be made.
CatchGoesOn ==
  /\ mode = "throwing"
  /\ stack # <<>> /\ Last(stack) = "try"
  /\ mode' = "running"
  /\ place' = EndOfTry(Program, place) + 1
  /\ stack' = Front(stack)
  /\ UNCHANGED <<program, held, alive>>

Catch ==
  /\ mode = "throwing"
  /\ stack # <<>> /\ Last(stack) = "try"
  /\ mode' = "running"
  /\ LET end == EndOfTry(Program, place)
     IN  place' = IF Program[end].returns THEN Len(Program) + 1 ELSE end + 1
  /\ stack' = Front(stack)
  /\ UNCHANGED <<program, held, alive>>

\* main returns.
Return ==
  /\ mode = "running"
  /\ Over
  /\ IF stack = <<>> THEN mode' = "ended" /\ UNCHANGED <<stack, held, alive>>
                     ELSE DestroyLast /\ UNCHANGED mode
  /\ UNCHANGED <<program, place>>

Stopped == mode \in {"ended", "terminated"} /\ UNCHANGED vars

Next ==
  \/ Declare \/ Create \/ Call \/ RunCrashes \/ Fail \/ Move \/ Destroy
  \/ ReleaseCrashes \/ Read \/ ReadCrashes \/ Try \/ EndTry \/ While \/ Back
  \/ Unwind \/ Terminate \/ Catch \/ Return \/ Stopped

Spec == Init /\ [][Next]_vars

-----------------------------------------------------------------------------
(***************************************************************************)
(* Every object has exactly one owner, a wrapper not yet destroyed, and a  *)
(* wrapper holds nothing that was released, wherever a call of the C API   *)
(* fails and however far the stack is unwound.  So nothing is leaked by a  *)
(* failed inference or a failed start, and nothing is released twice.      *)
(***************************************************************************)
OwnedOnce ==
  /\ alive = {held[w] : w \in Wrappers} \ {Null}
  /\ \A v, w \in Wrappers : held[v] = held[w] => v = w \/ held[v] = Null
  /\ \A w \in Wrappers : held[w] # Null => Contains(stack, w)

(***************************************************************************)
(* Every call of the C API is given objects that are still there, and is   *)
(* made while there is an environment: what the constructor of the engine  *)
(* leaves behind outlasts it, what belongs to an iteration outlasts its    *)
(* call of Run, and no call follows a start that has failed.               *)
(***************************************************************************)
NeedsMet ==
  mode = "running" /\ ~Over /\ Calls(Op) => Required(Op) \subseteq alive

(***************************************************************************)
(* "The Env holds the logging state used by all other objects" (line 1355  *)
(* of include/onnxruntime_cxx_api.h): a session is there no longer than    *)
(* its environment.  InferenceEngine declares session before env, so the   *)
(* camera program releases them the other way round.                       *)
(***************************************************************************)
EnvOutlivesSession == "session" \in alive => "env" \in alive
=============================================================================
