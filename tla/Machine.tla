------------------------------ MODULE Machine ------------------------------
(***************************************************************************)
(* Running a module of IR (external): main is called and instructions are  *)
(* run one after the other.  What LLVM leaves undefined, and what cannot   *)
(* be run at all, is one outcome, undefined: the end of a block without a  *)
(* terminator, operands of the wrong type or from another function, a      *)
(* variable used before anything was stored in it, a division by zero.     *)
(***************************************************************************)
EXTENDS IR

CONSTANT MaxFrames      \* the calls that the native stack can hold

VARIABLES
  ir,           \* the module; running it does not change it
  frames,       \* the calls in progress, innermost last
  printed,      \* what printf has written
  outcome

vars == <<ir, frames, printed, outcome>>

Waiting == "waiting"
Executing == "executing"
Exited == "exited"
Undefined == "undefined"
Overflow == "overflow"

\* A call of f: where it is, the results of the instructions it has run (of an
\* alloca, what is stored there), the arguments.
NotRun == <<"not run">>
Undef == <<"undef">>
Frame(f, args) ==
  [func |-> f, block |-> ir.funcs[f].entry, pc |-> 1,
   vals |-> [id \in 1..ir.count |-> NotRun], args |-> args]

Init == frames = <<>> /\ printed = <<>> /\ outcome = Waiting

Start ==
  /\ outcome = Waiting
  /\ outcome' = Executing
  /\ frames' = <<Frame(CHOOSE f \in FunctionsNamed(ir, Main) : TRUE, <<>>)>>
  /\ UNCHANGED <<ir, printed>>

top == frames[Len(frames)]
code == ir.blocks[top.block].code
instr == code[top.pc]
At(ops) ==
  /\ outcome = Executing
  /\ top.pc \in DOMAIN code
  /\ instr.op \in ops

Halt(how) == outcome' = how /\ UNCHANGED <<ir, frames, printed>>

\* An operand; what is stored at one.
Operand(i) ==
  LET v == instr.args[i] IN
  CASE v[1] = "reg" -> top.vals[v[2]]
    [] v[1] = "arg" -> IF v[2] = top.func /\ v[3] \in DOMAIN top.args
                         THEN top.args[v[3]] ELSE Undef
    [] OTHER -> v
OwnSlot(v) == v[1] = "slot" /\ top.vals[v[2]] # NotRun

\* The next instruction, with the result v of this one.
Result(v) ==
  /\ frames' = [frames EXCEPT ![Len(frames)] =
                  [@ EXCEPT !.vals[instr.id] = v, !.pc = @ + 1]]
  /\ UNCHANGED <<ir, outcome>>

Computes(op, a, b) ==
  \/ IsInt(a) /\ IsInt(b) /\ ~(op = "/" /\ (b = IntObj(0) \/ Traps(op, a, b)))
  \/ a[1] = "bool" /\ b[1] = "bool" /\ op \in {"==", "!="}

Evaluate ==
  /\ At(Arithmetic \cup Comparisons)
  /\ IF Computes(instr.op, Operand(1), Operand(2))
       THEN /\ Result(BinaryResult(instr.op, Operand(1), Operand(2)))
            /\ UNCHANGED printed
       ELSE Halt(Undefined)

\* The negation of the least int is poison.
Negate ==
  /\ At({"neg"})
  /\ IF IsInt(Operand(1)) /\ Operand(1) # IntObj(MinInt)
       THEN Result(IntObj(-Operand(1)[2])) /\ UNCHANGED printed
       ELSE Halt(Undefined)

Allocate == At({"alloca"}) /\ Result(Undef) /\ UNCHANGED printed

Load ==
  /\ At({"load"})
  /\ IF OwnSlot(Operand(1))
       THEN Result(top.vals[Operand(1)[2]]) /\ UNCHANGED printed
       ELSE Halt(Undefined)

Store ==
  /\ At({"store"})
  /\ IF IsInt(Operand(1)) /\ OwnSlot(Operand(2))
       THEN /\ frames' = [frames EXCEPT ![Len(frames)] =
                            [@ EXCEPT !.vals[Operand(2)[2]] = Operand(1), !.pc = @ + 1]]
            /\ UNCHANGED <<ir, printed, outcome>>
       ELSE Halt(Undefined)

Jump(target) ==
  /\ frames' = [frames EXCEPT ![Len(frames)] = [@ EXCEPT !.block = target[2], !.pc = 1]]
  /\ UNCHANGED <<ir, printed, outcome>>

Branch ==
  /\ At({"br", "condbr"})
  /\ IF instr.op = "br" THEN Jump(instr.args[1])
     ELSE IF Operand(1)[1] = "bool" THEN Jump(instr.args[IF Operand(1)[2] THEN 2 ELSE 3])
     ELSE Halt(Undefined)

callee == instr.args[1][2]
args == [i \in 1..(Len(instr.args) - 1) |-> Operand(i + 1)]

\* printf prints an i1 like the int it is extended to; scanf stores a number.
CallLibrary ==
  /\ At({"call"})
  /\ ir.funcs[callee].entry = 0
  /\ IF ir.funcs[callee].name = Printf
       THEN IF args[2][1] \in {"int", "bool"}
              THEN printed' = Append(printed, toString(args[2])) /\ Result(Undef)
              ELSE Halt(Undefined)
       ELSE \E n \in Ints :
              /\ frames' = [frames EXCEPT ![Len(frames)] =
                              [@ EXCEPT !.vals[args[2][2]] = IntObj(n), !.pc = @ + 1]]
              /\ UNCHANGED <<ir, printed, outcome>>

CallFunction ==
  /\ At({"call"})
  /\ ir.funcs[callee].entry # 0
  /\ IF Len(frames) = MaxFrames THEN Halt(Overflow)
     ELSE IF ir.funcs[callee].params # Len(args) THEN Halt(Undefined)
     ELSE frames' = Append(frames, Frame(callee, args)) /\ UNCHANGED <<ir, printed, outcome>>

\* The caller goes on behind its call.
ReturnToCaller ==
  /\ At({"ret"})
  /\ IF Len(frames) = 1 THEN Halt(Exited)
     ELSE LET caller == frames[Len(frames) - 1]
              call == ir.blocks[caller.block].code[caller.pc]
          IN  /\ frames' = Append(SubSeq(frames, 1, Len(frames) - 2),
                             [caller EXCEPT !.vals[call.id] = Operand(1), !.pc = @ + 1])
              /\ UNCHANGED <<ir, printed, outcome>>

FallOff == outcome = Executing /\ top.pc \notin DOMAIN code /\ Halt(Undefined)

Next ==
  \/ Start \/ Evaluate \/ Negate \/ Allocate \/ Load \/ Store \/ Branch
  \/ CallLibrary \/ CallFunction \/ ReturnToCaller \/ FallOff
=============================================================================
