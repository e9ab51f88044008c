----------------------------- MODULE ScriptVM -----------------------------
(***************************************************************************)
(* The control of the script interpreter (engine/vm.cc, vmcontext.cc).     *)
(*                                                                         *)
(* Executor::Execute calls itself for every instruction; a VMContext is    *)
(* created for the file, for every loop, every switch and every call of a  *)
(* script function, and carries flags that say how its code was left.      *)
(* stack is the C++ stack of those calls, innermost last, reduced to the   *)
(* instructions that create a context or do something after their          *)
(* operands; the others (groups, if, operators, array and map literals)    *)
(* evaluate operands in the context they are given and stop when it is     *)
(* interrupted, as the phases below do.  Values are left out: a condition  *)
(* is a choice, and the script is any script: each phase runs any number   *)
(* of instructions, chosen when it runs them.                              *)
(***************************************************************************)
EXTENDS Integers, Sequences, SequencesExt

CONSTANT MaxDepth    \* bound on the depth of the stack

ASSUME DepthAssumption == MaxDepth \in Nat \ {0}

VARIABLES
    state,      \* of Executor::Execute(name): run, done, or error (an exception)
    ctxs,       \* the contexts alive, in the order of their creation
    stack,      \* instructions under execution, innermost last
    current,    \* mCurrentVMContxt, an index of ctxs
    expired,    \* the clock has passed mDeadTime of the file's context
    stray       \* history: code ran after exit() that nothing accounts for

vars == <<state, ctxs, stack, current, expired, stray>>

Flag == {"continue", "break", "return", "exit"}

Type == {"File", "Function", "Loop", "Switch"}

Local == {"Loop", "Switch"}

\* Calls of script functions; Hook is one the engine makes for an object's index.
Calls == {"Call", "Hook"}

NewContext(type, parent) == [type |-> type, parent |-> parent, flags |-> {}]

\* An instruction: the context it is executed in, the one it created (0: none),
\* the phase it is in, and the history whether its call was open at an exit().
Frame(op, in, own, at) ==
    [op |-> op, in |-> in, own |-> own, at |-> at, open |-> FALSE]

Init ==
    /\ state = "run"
    /\ ctxs = <<NewContext("File", 0)>>
    /\ stack = <<Frame("File", 1, 1, "body")>>
    /\ current = 1
    /\ expired = FALSE
    /\ stray = FALSE

Top == Last(stack)

\* The context in which the innermost instruction executes its next operand.
ContextOf(f) == IF f.at \in {"head", "body", "default"} THEN f.own ELSE f.in
Here == ContextOf(Top)

Interrupted(i) == ctxs[i].flags # {}

Parent(i) == ctxs[i].parent

\* Context i and those around it: the least set that holds i and is closed.
Ancestors(i) ==
    {n \in 1..i : \A S \in SUBSET (1..i) :
        i \in S /\ (\A m \in S : Parent(m) # 0 => Parent(m) \in S) => n \in S}

\* Context i and those around it up to the function, or the file, it belongs to.
Activation(i) ==
    {n \in 1..i : \A S \in SUBSET (1..i) :
        i \in S /\ (\A m \in S : ctxs[m].type \in Local => Parent(m) \in S) => n \in S}

InFunction(i) == \E n \in Ancestors(i) : ctxs[n].type = "Function"

Flagged(S, flag) ==
    [n \in DOMAIN ctxs |->
        IF n \in S THEN [ctxs[n] EXCEPT !.flags = @ \cup {flag}] ELSE ctxs[n]]

\* Frame j was being prepared when exit() was called, or is under execution in a
\* function that was.
OpenAtExit(j) ==
    \/ stack[j].open
    \/ \E k \in 1..(j - 1) : stack[k].open /\ stack[k].at \in {"default", "body"}

\* The head of Execute: in time, and the context was not left.
CanExecute ==
    /\ state = "run"
    /\ ~expired
    /\ ~Interrupted(Here)

At(ops, phase) == state = "run" /\ Top.op \in ops /\ Top.at = phase

Phase(phase) == stack' = [stack EXCEPT ![Len(stack)].at = phase]

Pop == stack' = Front(stack)

Push(frame) ==
    /\ Len(stack) < MaxDepth
    /\ stack' = Append(stack, frame)

\* A RuntimeException leaves every call at once.
Throw ==
    /\ state' = "error"
    /\ UNCHANGED <<ctxs, stack, current, expired, stray>>

-----------------------------------------------------------------------------
(* Faulty variants, substituted for actions below to see a property fail.  *)

\* return runs up to the file, as exit() does.
ReturnToFile ==
    /\ At({"Return"}, "value")
    /\ ctxs' = Flagged(Ancestors(Top.in), "return")
    /\ Pop
    /\ UNCHANGED <<state, current, expired, stray>>

\* The mask that forgets a continue forgets every other flag too.
EndBodyForgetsAll ==
    /\ At(Local, "body")
    /\ ctxs' = [ctxs EXCEPT ![Top.own].flags = {}]
    /\ Phase("head")
    /\ UNCHANGED <<state, current, expired, stray>>

\* A loop goes round without Execute looking at the clock.
IterateUntimed ==
    /\ At(Local, "head")
    /\ Phase("body")
    /\ UNCHANGED <<state, ctxs, current, expired, stray>>

-----------------------------------------------------------------------------
(* The time limit, and errors of the script.                               *)

Expire ==
    /\ state = "run" /\ ~expired
    /\ expired' = TRUE
    /\ UNCHANGED <<state, ctxs, stack, current, stray>>

\* Whatever is executed next throws; an interrupted group executes nothing more.
Timeout ==
    /\ state = "run" /\ expired
    /\ ~(Top.at = "body" /\ Interrupted(Top.own))
    /\ Throw

\* Any instruction may fail: a type error, a missing function, a bad parameter.
Fail == CanExecute /\ Throw

-----------------------------------------------------------------------------
(* Statements.                                                             *)

\* for, for-in, while, do-while, switch: a context of its own.  A do-while
\* begins with its body.
EnterBlock(type, at) ==
    /\ CanExecute /\ Top.at = "body"
    /\ ctxs' = Append(ctxs, NewContext(type, Here))
    /\ Push(Frame(type, Here, Len(ctxs) + 1, at))
    /\ current' = Len(ctxs) + 1
    /\ UNCHANGED <<state, expired, stray>>

\* The condition holds, there is another element, or a case matches.  The body
\* is executed by Execute, which looks at the clock first.
Iterate ==
    /\ At(Local, "head") /\ ~expired
    /\ Phase("body")
    /\ UNCHANGED <<state, ctxs, current, expired, stray>>

LeaveBlock ==
    /\ Pop
    /\ ctxs' = Front(ctxs)
    /\ current' = Top.in

\* The condition fails, no element or no case is left.
EndBlock ==
    /\ At(Local, "head")
    /\ LeaveBlock
    /\ UNCHANGED <<state, expired, stray>>

\* After the body a loop forgets a continue, and ends when it was left.
EndBody ==
    /\ At(Local, "body")
    /\ LET flags == ctxs[Top.own].flags \ (IF Top.op = "Loop" THEN {"continue"} ELSE {})
       IN  IF flags # {}
           THEN LeaveBlock
           ELSE /\ ctxs' = [ctxs EXCEPT ![Top.own].flags = {}]
                /\ Phase("head")
                /\ UNCHANGED current
    /\ UNCHANGED <<state, expired, stray>>

Break ==
    /\ CanExecute /\ Top.at = "body"
    /\ IF ctxs[Here].type \in Local
       THEN /\ ctxs' = Flagged({Here}, "break")
            /\ UNCHANGED <<state, stack, current, expired, stray>>
       ELSE Throw

\* In a switch inside a loop this throws: the flag is not passed on.
Continue ==
    /\ CanExecute /\ Top.at = "body"
    /\ IF ctxs[Here].type = "Loop"
       THEN /\ ctxs' = Flagged({Here}, "continue")
            /\ UNCHANGED <<state, stack, current, expired, stray>>
       ELSE Throw

\* return: its value is an operand, evaluated before the flags are set.
BeginReturn ==
    /\ CanExecute /\ Top.at = "body"
    /\ Push(Frame("Return", Here, 0, "value"))
    /\ UNCHANGED <<state, ctxs, current, expired, stray>>

\* VMContext::ReturnExecuted; the context is not looked at again.
Return ==
    /\ At({"Return"}, "value")
    /\ IF InFunction(Top.in)
       THEN /\ ctxs' = Flagged(Activation(Top.in), "return")
            /\ Pop
            /\ UNCHANGED <<state, current, expired, stray>>
       ELSE Throw

\* The last statement of the file, or its exit().
EndScript ==
    /\ At({"File"}, "body")
    /\ state' = "done"
    /\ UNCHANGED <<ctxs, stack, current, expired, stray>>

-----------------------------------------------------------------------------
(* Calls of script functions.                                              *)

\* CallFunction, CallMethod (the object is evaluated first), or an indexed
\* read or write (operands first, then perhaps __get_index__ and its like).
BeginCall(op) ==
    /\ CanExecute
    /\ Push(Frame(op, Here, 0, "where"))
    /\ UNCHANGED <<state, ctxs, current, expired, stray>>

\* FillActualParameters creates the context, and evaluates the defaults in it.
\* A hook has no caller's context: its parent is mCurrentVMContxt.  Whether the
\* operands called exit() is not looked at.
FillDefaults ==
    /\ At(Calls, "where") /\ ~expired
    /\ ctxs' = Append(ctxs, NewContext("Function", IF Top.op = "Hook" THEN current ELSE Top.in))
    /\ stack' = [stack EXCEPT ![Len(stack)] = [@ EXCEPT !.own = Len(ctxs) + 1, !.at = "default"]]
    /\ UNCHANGED <<state, current, expired, stray>>

\* The object has no hook, the index is one of an array, or the call is a method
\* call on what is no object.
NoCall ==
    /\ At(Calls, "where")
    /\ \/ /\ Top.op = "Hook"
          /\ Pop
          /\ UNCHANGED <<state, ctxs, current, expired, stray>>
       \/ Top.op = "Call" /\ Throw

\* The actual parameters are evaluated in the context of the caller.
FillActuals ==
    /\ At({"Call"}, "default")
    /\ Phase("actual")
    /\ UNCHANGED <<state, ctxs, current, expired, stray>>

\* The body is executed, whatever became of the caller's context meanwhile.
EnterBody ==
    /\ \/ At({"Call"}, "actual")
       \/ At({"Hook"}, "default")
    /\ ~expired
    /\ Phase("body")
    /\ current' = Top.own
    /\ UNCHANGED <<state, ctxs, expired, stray>>

LeaveCall ==
    /\ At(Calls, "body")
    /\ Pop
    /\ current' = ctxs[Top.own].parent
    /\ ctxs' = Front(ctxs)
    /\ UNCHANGED <<state, expired, stray>>

-----------------------------------------------------------------------------
(* Calls of functions of the engine.                                       *)

BeginRuntime ==
    /\ CanExecute
    /\ Push(Frame("Runtime", Here, 0, "arg"))
    /\ UNCHANGED <<state, ctxs, current, expired, stray>>

\* VMContext::ExitExecuted: the context and all around it.  The calls that are
\* being prepared are noted.
Exit(frames, i) ==
    /\ ctxs' = Flagged(Ancestors(i), "exit")
    /\ stack' = [k \in DOMAIN frames |->
                    [frames[k] EXCEPT !.open = @ \/ (frames[k].op \in Calls /\ frames[k].at # "body")]]

\* Faulty: the context is not looked at again after the arguments.
CallRuntimeUnchecked ==
    /\ At({"Runtime"}, "arg")
    /\ \/ /\ Pop
          /\ stray' = (stray \/ ("exit" \in ctxs[1].flags /\ ~OpenAtExit(Len(stack))))
          /\ UNCHANGED ctxs
       \/ Exit(Front(stack), Top.in) /\ UNCHANGED stray
    /\ UNCHANGED <<state, current, expired>>

\* CallRutimeFunction, with the context looked at again after the arguments: the
\* function does something that can be seen from outside, or is exit().
CallRuntime ==
    /\ At({"Runtime"}, "arg")
    /\ IF Interrupted(Top.in)
       THEN Pop /\ UNCHANGED <<ctxs, stray>>
       ELSE \/ /\ Pop
               /\ stray' = (stray \/ ("exit" \in ctxs[1].flags /\ ~OpenAtExit(Len(stack))))
               /\ UNCHANGED ctxs
            \/ Exit(Front(stack), Top.in) /\ UNCHANGED stray
    /\ UNCHANGED <<state, current, expired>>

Step ==
    \/ Timeout \/ Fail
    \/ \E type \in Local : EnterBlock(type, "head")
    \/ EnterBlock("Loop", "body")
    \/ Iterate \/ EndBlock \/ EndBody
    \/ Break \/ Continue
    \/ BeginReturn \/ Return
    \/ EndScript
    \/ \E op \in Calls : BeginCall(op)
    \/ FillDefaults \/ NoCall \/ FillActuals \/ EnterBody \/ LeaveCall
    \/ BeginRuntime \/ CallRuntime

Next == Expire \/ Step

Spec == Init /\ [][Next]_vars

\* The interpreter runs and time passes.
FairSpec == Spec /\ WF_vars(Step) /\ WF_vars(Expire)

-----------------------------------------------------------------------------
(* What the interpreter promises.                                          *)

FrameSet ==
    [op : {"File", "Return", "Runtime"} \cup Local \cup Calls,
     in : Nat \ {0}, own : Nat,
     at : {"head", "body", "where", "default", "actual", "value", "arg"},
     open : BOOLEAN]

TypeOK ==
    /\ state \in {"run", "done", "error"}
    /\ ctxs \in Seq([type : Type, parent : Nat, flags : SUBSET Flag])
    /\ stack \in Seq(FrameSet)
    /\ current \in DOMAIN ctxs
    /\ expired \in BOOLEAN /\ stray \in BOOLEAN

\* exit() ends the script (ExitExecuted, and the tests in Execute and
\* CallRutimeFunction): no function of the engine is called afterwards, except by
\* the functions whose call was being prepared when one of its operands called
\* exit(), and by what these call.
ExitStops == ~stray

\* return leaves the function it is in and nothing else (ReturnExecuted): all the
\* loops and switches of an activation and its function agree on having
\* returned, and the code around an activation, whatever runs in it, has not.
ReturnLeavesActivation ==
    \A i \in DOMAIN ctxs :
        /\ \A n \in Activation(i) : "return" \in ctxs[i].flags <=> "return" \in ctxs[n].flags
        /\ ctxs[i].type = "File" => "return" \notin ctxs[i].flags

\* A jump has its effect before anything else runs: while an instruction may be
\* executed, none of the code around it, up to the file, has been left by break,
\* continue or return, whatever loops and calls lie between.
JumpsAreImmediate ==
    CanExecute =>
        \A k \in DOMAIN stack :
            stack[k].own # 0 => ctxs[stack[k].own].flags \subseteq {"exit"}

\* With a time limit every script ends (IsTimeout is asked before every
\* instruction): an endless loop, or endless calls, included.
ScriptEnds == <>(state # "run")

=============================================================================
