--------------------------------- MODULE IR ---------------------------------
(***************************************************************************)
(* As much of LLVM as Codegen uses (external): values, instructions, basic *)
(* blocks, functions, and the IRBuilder that appends to them.  Everything  *)
(* LLVMContext, Module and IRBuilder hold is one record, ir.               *)
(* As in LLVM built without assertions, nothing is checked here.           *)
(***************************************************************************)
EXTENDS Objects

\* The names that the generated code is linked by.
Main == "main"
Printf == "printf"
Scanf == "scanf"

\* Values.  A constant is an i32 (IntObj) or an i1 (BoolObj); an instruction is known
\* by its number.
RegisterOf(id, type) == <<"reg", id, type>>
Slot(id) == <<"slot", id>>
Argument(f, i) == <<"arg", f, i>>
FunctionAt(f) == <<"func", f>>
BlockAt(b) == <<"block", b>>
NullPtr == <<"null">>
Poison == <<"poison">>      \* the folded result of an undefined operation
Format == <<"format">>      \* the string given to printf and scanf
\* What Codegen binds names to, and all values.  (A negated pointer is one: ill-typed,
\* but nobody looks.)
Binding == {"slot", "func"} \X Nat
Value ==
  ({"int"} \X Ints) \cup ({"bool"} \X BOOLEAN)
  \cup ({"reg"} \X Nat \X {"i1", "i32", "ptr"})
  \cup ({"arg"} \X Nat \X Nat) \cup Binding \cup {NullPtr, Poison, Format}

IsFunctionValue(v) == v[1] = "func"
TypeOfValue(v) ==
  CASE v[1] \in {"int", "arg", "poison"} -> "i32"
    [] v[1] = "bool" -> "i1"
    [] v[1] = "reg" -> v[3]
    [] OTHER -> "ptr"

Arithmetic == {"+", "-", "*", "/"}
Comparisons == {"==", "!=", "<", "<=", ">", ">="}
Terminators == {"br", "condbr", "ret"}
Opcodes == Arithmetic \cup Comparisons \cup Terminators
           \cup {"alloca", "load", "store", "neg", "call"}

\* A module.  entry = 0: a function that is declared only.  func is the function that a
\* block is in.
Arguments == Value \cup {"block"} \X Nat
Instructions == [op : Opcodes, args : Seq(Arguments), id : Nat]
FunctionRecords ==
  [name : Name \cup {NoName, Main, Printf, Scanf}, params : Nat, entry : Nat]
BlockRecords == [func : Nat, code : Seq(Instructions)]
ModuleState ==
  [funcs : Seq(FunctionRecords), blocks : Seq(BlockRecords), insert : Nat, count : Nat]
EmptyModule == [funcs |-> <<>>, blocks |-> <<>>, insert |-> 0, count |-> 0]

FunctionsNamed(ir, name) == {f \in DOMAIN ir.funcs : ir.funcs[f].name = name}
Declare(ir, name, params) ==
  [ir EXCEPT !.funcs = Append(@,
     [name |-> IF FunctionsNamed(ir, name) = {} THEN name ELSE NoName,    \* made unique
      params |-> params, entry |-> 0])]
NewBlock(ir, f) == [ir EXCEPT !.blocks = Append(@, [func |-> f, code |-> <<>>])]
SetInsertPoint(ir, b) == [ir EXCEPT !.insert = b]
\* A function with an entry block, where code now goes.
Define(ir, name, params) ==
  LET f == Len(ir.funcs) + 1
      b == Len(ir.blocks) + 1
  IN  SetInsertPoint(
        [NewBlock(Declare(ir, name, params), f) EXCEPT !.funcs[f].entry = b], b)

Parent(ir) == ir.blocks[ir.insert].func

Instruction(ir, op, args) == [op |-> op, args |-> args, id |-> ir.count + 1]
Emit(ir, op, args) ==
  [ir EXCEPT !.blocks[ir.insert].code = Append(@, Instruction(ir, op, args)),
             !.count = @ + 1]
EmitFirst(ir, b, op, args) ==
  [ir EXCEPT !.blocks[b].code = <<Instruction(ir, op, args)>> \o @, !.count = @ + 1]

\* What the builder returns for the operation emitted last, or for constants.
Latest(ir, type) == RegisterOf(ir.count, type)
ResultType(op) == IF op \in Comparisons THEN "i1" ELSE "i32"
Folds(op, lhs, rhs) ==
  \/ lhs[1] = "int" /\ rhs[1] = "int"
  \/ lhs[1] = "bool" /\ rhs[1] = "bool" /\ op \in {"==", "!="}
Folded(op, lhs, rhs) ==
  IF op = "/" /\ (rhs = IntObj(0) \/ Traps(op, lhs, rhs)) THEN Poison
  ELSE BinaryResult(op, lhs, rhs)
=============================================================================
