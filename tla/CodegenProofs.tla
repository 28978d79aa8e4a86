--------------------------- MODULE CodegenProofs ---------------------------
(***************************************************************************)
(* The code generator always has a place to put code: the insert point is  *)
(* a block of a function that has an entry block, every operand is there   *)
(* when it is taken, and every visit in progress has its scope - for every *)
(* program, also where the module it makes is not well formed.             *)
(***************************************************************************)
EXTENDS Codegen, TreeWalkerProofs

Facts == INSTANCE ScopesProofs

\* The operators of the two instances are the same.
LEMMA SameScopes ==
  /\ \A s, x : Env!contains(s, x) = Facts!contains(s, x)
  /\ \A s, x : Env!get(s, x) = Facts!get(s, x)
  /\ \A s, i, x, v : Env!Bind(s, i, x, v) = Facts!Bind(s, i, x, v)
  /\ \A s, x, v : Env!defineOrAssign(s, x, v) = Facts!defineOrAssign(s, x, v)
  /\ \A s, g : Env!Enter(s, g) = Append(s, Facts!Opened(g))
  /\ \A s : Env!Leave(s) = Facts!Leave(s)
  /\ \A g : Env!Opened(g) = Facts!Opened(g)
  /\ \A V : Env!Scope(V) = Facts!Scope(V)
BY DEF Env!contains, Facts!contains, Env!get, Facts!get, Env!Bind, Facts!Bind,
       Env!assign, Facts!assign, Env!defineOrAssign, Facts!defineOrAssign,
       Env!Enter, Env!Leave, Facts!Leave, Env!Holders, Facts!Holders, Env!Holder,
       Facts!Holder, Env!Visible, Facts!Visible, Env!Opened, Facts!Opened,
       Env!Empty, Facts!Empty, Env!Scope, Facts!Scope, Env!Objects, Facts!Objects

-----------------------------------------------------------------------------
(***************************************************************************)
(* Values.                                                                 *)
(***************************************************************************)

\* Half of the ints are negative.
LEMMA IntsRange ==
  \E half \in Nat \ {0} :
    /\ 2^Width = 2 * half
    /\ MinInt = -half
    /\ Ints = (-half)..(half - 1)
<1> DEFINE half == 2^(Width - 1)
<1>1. half \in Nat \ {0} /\ 2^Width = 2 * half
  BY Doubled, WidthAssumption
<1>2. MinInt = -half /\ Ints = (-half)..(half - 1)
  BY DEF MinInt, MaxInt, Ints
<1> HIDE DEF half
<1> QED
  BY <1>1, <1>2

\* Wrapped around, every result is an int.
LEMMA WrapType ==
  ASSUME NEW n \in Int
  PROVE  Wrap(n) \in Ints
<1>1. PICK half \in Nat \ {0} :
        2^Width = 2 * half /\ MinInt = -half /\ Ints = (-half)..(half - 1)
  BY IntsRange
<1>2. Wrap(n) = ((n + half) % (2 * half)) - half
  BY <1>1 DEF Wrap
<1>3. (n + half) % (2 * half) \in 0..(2 * half - 1)
  BY <1>1
<1> QED
  BY <1>1, <1>2, <1>3

\* The constants, and what the builder returns.
LEMMA ValueTypes ==
  /\ Ints \subseteq Int /\ 0 \in Ints /\ 1 \in Ints
  /\ \A n \in Ints : IntObj(n) \in Value
  /\ \A b \in BOOLEAN : BoolObj(b) \in Value
  /\ \A n \in Nat, type \in {"i1", "i32", "ptr"} : RegisterOf(n, type) \in Value
  /\ \A n \in Nat : Slot(n) \in Binding /\ FunctionAt(n) \in Binding
  /\ \A f, i \in Nat : Argument(f, i) \in Value
  /\ NullPtr \in Value /\ Poison \in Value /\ Format \in Value
  /\ Binding \subseteq Value /\ NullPtr \notin Binding
  /\ Value \subseteq Arguments /\ \A n \in Nat : BlockAt(n) \in Arguments
<1>1. Ints \subseteq Int /\ 0 \in Ints /\ 1 \in Ints
  BY IntsRange, CodegenAssumption
<1>2. /\ \A n \in Ints : IntObj(n) \in Value
      /\ \A b \in BOOLEAN : BoolObj(b) \in Value
      /\ NullPtr \in Value /\ Poison \in Value /\ Format \in Value
  BY DEF IntObj, BoolObj, Value
<1>3. \A n \in Nat, type \in {"i1", "i32", "ptr"} : RegisterOf(n, type) \in Value
  BY DEF RegisterOf, Value
<1>4. \A n \in Nat : Slot(n) \in Binding /\ FunctionAt(n) \in Binding
  BY DEF Slot, FunctionAt, Binding
<1>5. \A f, i \in Nat : Argument(f, i) \in Value
  BY DEF Argument, Value
<1>6. Binding \subseteq Value
  BY DEF Value
<1>7. NullPtr \notin Binding
  BY DEF NullPtr, Binding
<1>8. Value \subseteq Arguments /\ \A n \in Nat : BlockAt(n) \in Arguments
  BY DEF Arguments, BlockAt
<1> QED
  BY <1>1, <1>2, <1>3, <1>4, <1>5, <1>6, <1>7, <1>8

\* What the tag of a value tells.
LEMMA TagTypes ==
  ASSUME NEW v \in Value
  PROVE  /\ v[1] = "int" => v = IntObj(v[2]) /\ v[2] \in Ints
         /\ v[1] = "bool" => v[2] \in BOOLEAN
         /\ IsFunctionValue(v) => v \in {"func"} \X Nat
         /\ TypeOfValue(v) \in {"i1", "i32", "ptr"}
<1>1. v[1] = "int" => v = IntObj(v[2]) /\ v[2] \in Ints
  BY DEF Value, Binding, NullPtr, Poison, Format, IntObj
<1>2. v[1] = "bool" => v[2] \in BOOLEAN
  BY DEF Value, Binding, NullPtr, Poison, Format
<1>3. IsFunctionValue(v) => v \in {"func"} \X Nat
  BY DEF Value, Binding, NullPtr, Poison, Format, IsFunctionValue
<1>4. v[1] = "reg" => v[3] \in {"i1", "i32", "ptr"}
  BY DEF Value, Binding, NullPtr, Poison, Format
<1>5. TypeOfValue(v) \in {"i1", "i32", "ptr"}
  BY <1>4 DEF TypeOfValue
<1> QED
  BY <1>1, <1>2, <1>3, <1>5

\* An operation on constants is a constant, or undefined.
LEMMA FoldedType ==
  ASSUME NEW op \in Arithmetic \cup Comparisons, NEW lhs \in Value, NEW rhs \in Value,
         Folds(op, lhs, rhs)
  PROVE  Folded(op, lhs, rhs) \in Value
<1> DEFINE a == lhs[2]
           b == rhs[2]
<1>1. CASE op \in {"==", "!="}
  <2>1. Folded(op, lhs, rhs) \in {BoolObj(areEqual(lhs, rhs)), BoolObj(~areEqual(lhs, rhs))}
    BY <1>1 DEF Folded, BinaryResult, Traps
  <2>2. areEqual(lhs, rhs) \in BOOLEAN
    BY DEF areEqual
  <2> QED
    BY <2>1, <2>2, ValueTypes
<1>2. CASE op \notin {"==", "!="}
  <2>1. lhs = IntObj(a) /\ rhs = IntObj(b) /\ a \in Int /\ b \in Int
    BY <1>2, TagTypes, ValueTypes DEF Folds
  <2>2. CASE op \in {"<", "<=", ">", ">="}
    <3>1. Folded(op, lhs, rhs) \in
            {BoolObj(a < b), BoolObj(a <= b), BoolObj(a > b), BoolObj(a >= b)}
      BY <2>2 DEF Folded, BinaryResult, Traps
    <3> HIDE DEF a, b
    <3>2. /\ (a < b) \in BOOLEAN /\ (a <= b) \in BOOLEAN
          /\ (a > b) \in BOOLEAN /\ (a >= b) \in BOOLEAN
      BY <2>1
    <3> QED
      BY <3>1, <3>2, ValueTypes
  <2>3. CASE op \in {"+", "-", "*"}
    <3>1. Folded(op, lhs, rhs) \in
            {IntObj(Wrap(a + b)), IntObj(Wrap(a - b)), IntObj(Wrap(a * b))}
      BY <2>3 DEF Folded, BinaryResult, Traps
    <3> HIDE DEF a, b
    <3>2. Wrap(a + b) \in Ints /\ Wrap(a - b) \in Ints /\ Wrap(a * b) \in Ints
      BY <2>1, WrapType
    <3> QED
      BY <3>1, <3>2, ValueTypes
  <2>4. CASE op = "/" /\ (rhs = IntObj(0) \/ Traps(op, lhs, rhs))
    BY <2>4, ValueTypes DEF Folded
  <2>5. CASE op = "/" /\ ~(rhs = IntObj(0) \/ Traps(op, lhs, rhs))
    <3>1. Folded(op, lhs, rhs) = IntObj(Wrap(Quotient(a, b)))
      BY <2>5 DEF Folded, BinaryResult
    <3>2. b # 0
      BY <2>1, <2>5
    <3> HIDE DEF a, b
    <3>3. Quotient(a, b) \in Int
      <4>1. Magnitude(a) \in Int /\ Magnitude(b) \in Int /\ Magnitude(b) > 0
        BY <2>1, <3>2 DEF Magnitude
      <4>2. Magnitude(a) \div Magnitude(b) \in Int
        BY <4>1
      <4> QED
        BY <4>2 DEF Quotient
    <3> QED
      BY <3>1, <3>3, WrapType, ValueTypes
  <2>6. op \in {"<", "<=", ">", ">=", "+", "-", "*", "/"}
    BY <1>2 DEF Arithmetic, Comparisons
  <2> QED
    BY <2>2, <2>3, <2>4, <2>5, <2>6
<1> QED
  BY <1>1, <1>2

-----------------------------------------------------------------------------
(***************************************************************************)
(* The module.                                                             *)
(***************************************************************************)

\* f is a function of m with an entry block of its own.
HasEntry(m, f) ==
  /\ f \in DOMAIN m.funcs
  /\ m.funcs[f].entry \in DOMAIN m.blocks
  /\ m.blocks[m.funcs[f].entry].func = f

\* Code is put into a block, and every block is one of such a function.
WellMade(m) ==
  /\ m \in ModuleState
  /\ m.insert \in DOMAIN m.blocks
  /\ \A b \in DOMAIN m.blocks : HasEntry(m, m.blocks[b].func)

\* Nothing of it is taken away.
Grows(m, n) ==
  /\ WellMade(n)
  /\ Len(m.blocks) \in Nat /\ Len(n.blocks) \in Nat /\ Len(m.blocks) <= Len(n.blocks)
  /\ \A f : HasEntry(m, f) => HasEntry(n, f)

\* The parts of a module.
LEMMA ModuleParts ==
  ASSUME NEW m \in ModuleState
  PROVE  /\ m.funcs \in Seq(FunctionRecords) /\ Len(m.funcs) \in Nat
         /\ DOMAIN m.funcs = 1..Len(m.funcs)
         /\ m.blocks \in Seq(BlockRecords) /\ Len(m.blocks) \in Nat
         /\ DOMAIN m.blocks = 1..Len(m.blocks)
         /\ m.insert \in Nat /\ m.count \in Nat
BY DEF ModuleState

\* The function where code is put.
LEMMA ParentType ==
  ASSUME NEW m, WellMade(m)
  PROVE  /\ HasEntry(m, Parent(m)) /\ Parent(m) \in Nat
         /\ m.funcs[Parent(m)].entry \in DOMAIN m.blocks
         /\ Grows(m, m)
<1>1. m \in ModuleState /\ m.insert \in DOMAIN m.blocks
  BY DEF WellMade
<1>2. HasEntry(m, Parent(m))
  BY <1>1 DEF WellMade, Parent
<1>3. Parent(m) \in Nat
  BY <1>1, <1>2, ModuleParts DEF HasEntry
<1>4. Grows(m, m)
  BY <1>1, ModuleParts DEF Grows
<1> QED
  BY <1>2, <1>3, <1>4 DEF HasEntry

\* Growing goes on.
LEMMA GrowsOn ==
  ASSUME NEW m, NEW n, NEW o, Grows(m, n), Grows(n, o)
  PROVE  Grows(m, o)
BY DEF Grows

\* Other code in the same blocks.
LEMMA Recoded ==
  ASSUME NEW m, WellMade(m), NEW n, NEW blocks \in Seq(BlockRecords),
         n = [m EXCEPT !.blocks = blocks, !.count = m.count + 1],
         Len(blocks) = Len(m.blocks),
         \A b \in DOMAIN m.blocks : blocks[b].func = m.blocks[b].func
  PROVE  /\ Grows(m, n)
         /\ n.funcs = m.funcs
         /\ n.insert = m.insert /\ Len(n.blocks) = Len(m.blocks)
         /\ Parent(n) = Parent(m) /\ n.count \in Nat
<1>1. m \in ModuleState /\ m.insert \in DOMAIN m.blocks
  BY DEF WellMade
<1>2. m.count + 1 \in Nat
  BY <1>1, ModuleParts
<1> DEFINE count == m.count + 1
<1> HIDE DEF count
<1>3. n = [m EXCEPT !.blocks = blocks, !.count = count] /\ count \in Nat
  BY <1>2 DEF count
<1>4. /\ n.funcs = m.funcs /\ n.blocks = blocks /\ n.insert = m.insert
      /\ n.count = count
      /\ n \in ModuleState
  <2>1. m \in ModuleState
    BY <1>1
  <2>2. count \in Nat
    BY <1>3
  <2>3. n = [m EXCEPT !.blocks = blocks, !.count = count]
    BY <1>3
  <2>4. n \in ModuleState
    BY <2>1, <2>2, <2>3 DEF ModuleState
  <2> QED
    BY <2>1, <2>3, <2>4 DEF ModuleState
<1>5. DOMAIN blocks = DOMAIN m.blocks /\ Len(m.blocks) \in Nat
  BY <1>1, ModuleParts
<1>6. \A f : HasEntry(m, f) => HasEntry(n, f)
  BY <1>4, <1>5 DEF HasEntry
<1>7. WellMade(n)
  <2>1. \A b \in DOMAIN n.blocks : HasEntry(n, n.blocks[b].func)
    BY <1>4, <1>5, <1>6 DEF WellMade
  <2> QED
    BY <2>1, <1>1, <1>4, <1>5 DEF WellMade
<1> QED
  BY <1>1, <1>3, <1>4, <1>5, <1>6, <1>7 DEF Grows, Parent

\* Other code in one of them.
LEMMA BlockRecoded ==
  ASSUME NEW blocks \in Seq(BlockRecords), NEW b \in DOMAIN blocks,
         NEW code \in Seq(Instructions)
  PROVE  LET now == [blocks EXCEPT ![b] = [blocks[b] EXCEPT !.code = code]]
         IN  /\ now \in Seq(BlockRecords) /\ Len(now) = Len(blocks)
             /\ \A k \in DOMAIN blocks : now[k].func = blocks[k].func
<1> DEFINE r == [blocks[b] EXCEPT !.code = code]
<1>1. blocks[b] \in BlockRecords
  OBVIOUS
<1>2. r \in BlockRecords /\ r.func = blocks[b].func
  BY <1>1 DEF BlockRecords
<1> HIDE DEF r
<1>3. /\ [blocks EXCEPT ![b] = r] \in Seq(BlockRecords)
      /\ Len([blocks EXCEPT ![b] = r]) = Len(blocks)
      /\ \A k \in DOMAIN blocks : [blocks EXCEPT ![b] = r][k].func = blocks[k].func
  BY <1>2
<1> QED
  BY <1>3 DEF r

\* One more instruction, behind the others of the block.
LEMMA Emitted ==
  ASSUME NEW m, WellMade(m), NEW op \in Opcodes, NEW args \in Seq(Arguments)
  PROVE  /\ Grows(m, Emit(m, op, args))
         /\ Emit(m, op, args).funcs = m.funcs
         /\ Emit(m, op, args).insert = m.insert
         /\ Len(Emit(m, op, args).blocks) = Len(m.blocks)
         /\ Parent(Emit(m, op, args)) = Parent(m)
         /\ Emit(m, op, args).count \in Nat
<1> DEFINE i == Instruction(m, op, args)
           b == m.insert
           code == Append(m.blocks[b].code, i)
           blocks == [m.blocks EXCEPT ![b] = [m.blocks[b] EXCEPT !.code = code]]
<1>1. /\ m \in ModuleState /\ b \in DOMAIN m.blocks /\ m.blocks \in Seq(BlockRecords)
      /\ m.count + 1 \in Nat
  BY ModuleParts DEF WellMade
<1>2. i \in Instructions
  BY <1>1 DEF Instruction, Instructions
<1>3. m.blocks[b] \in BlockRecords
  BY <1>1
<1>4. code \in Seq(Instructions)
  BY <1>2, <1>3 DEF BlockRecords
<1>5. Emit(m, op, args) = [m EXCEPT !.blocks = blocks, !.count = m.count + 1]
  BY <1>1 DEF Emit
<1> HIDE DEF code
<1>6. /\ blocks \in Seq(BlockRecords) /\ Len(blocks) = Len(m.blocks)
      /\ \A k \in DOMAIN m.blocks : blocks[k].func = m.blocks[k].func
  BY <1>1, <1>4, BlockRecoded
<1> HIDE DEF blocks
<1> QED
  BY <1>5, <1>6, Recoded

\* In front of them.
LEMMA EmittedFirst ==
  ASSUME NEW m, WellMade(m), NEW b \in DOMAIN m.blocks, NEW op \in Opcodes,
         NEW args \in Seq(Arguments)
  PROVE  /\ Grows(m, EmitFirst(m, b, op, args))
         /\ EmitFirst(m, b, op, args).funcs = m.funcs
         /\ EmitFirst(m, b, op, args).insert = m.insert
         /\ Len(EmitFirst(m, b, op, args).blocks) = Len(m.blocks)
         /\ Parent(EmitFirst(m, b, op, args)) = Parent(m)
         /\ EmitFirst(m, b, op, args).count \in Nat
<1> DEFINE i == Instruction(m, op, args)
           code == <<i>> \o m.blocks[b].code
           blocks == [m.blocks EXCEPT ![b] = [m.blocks[b] EXCEPT !.code = code]]
<1>1. m \in ModuleState /\ m.blocks \in Seq(BlockRecords) /\ m.count + 1 \in Nat
  BY ModuleParts DEF WellMade
<1>2. i \in Instructions
  BY <1>1 DEF Instruction, Instructions
<1>3. m.blocks[b] \in BlockRecords
  BY <1>1
<1>4. code \in Seq(Instructions)
  BY <1>2, <1>3 DEF BlockRecords
<1>5. EmitFirst(m, b, op, args) = [m EXCEPT !.blocks = blocks, !.count = m.count + 1]
  BY <1>1 DEF EmitFirst
<1> HIDE DEF code
<1>6. /\ blocks \in Seq(BlockRecords) /\ Len(blocks) = Len(m.blocks)
      /\ \A k \in DOMAIN m.blocks : blocks[k].func = m.blocks[k].func
  BY <1>1, <1>4, BlockRecoded
<1> HIDE DEF blocks
<1> QED
  BY <1>5, <1>6, Recoded

\* The builder goes to another block.
LEMMA Moved ==
  ASSUME NEW m, WellMade(m), NEW b \in DOMAIN m.blocks
  PROVE  /\ Grows(m, SetInsertPoint(m, b))
         /\ SetInsertPoint(m, b).insert = b
         /\ Len(SetInsertPoint(m, b).blocks) = Len(m.blocks)
         /\ SetInsertPoint(m, b).blocks = m.blocks
<1> DEFINE n == SetInsertPoint(m, b)
<1>1. m \in ModuleState /\ b \in Nat /\ Len(m.blocks) \in Nat
  BY ModuleParts DEF WellMade
<1>2. n \in ModuleState
  BY <1>1 DEF SetInsertPoint, ModuleState
<1>3. n.funcs = m.funcs /\ n.blocks = m.blocks /\ n.insert = b
  BY <1>1, <1>2 DEF SetInsertPoint, ModuleState
<1> HIDE DEF n
<1>4. \A f : HasEntry(m, f) => HasEntry(n, f)
  BY <1>3 DEF HasEntry
<1>5. WellMade(n)
  BY <1>2, <1>3, <1>4 DEF WellMade
<1>6. Grows(m, n)
  BY <1>1, <1>3, <1>4, <1>5 DEF Grows
<1> QED
  BY <1>3, <1>6 DEF n

\* One more block of a function that has an entry block.
LEMMA Blocked ==
  ASSUME NEW m, WellMade(m), NEW f \in Nat, HasEntry(m, f)
  PROVE  /\ Grows(m, NewBlock(m, f))
         /\ NewBlock(m, f).insert = m.insert
         /\ Len(NewBlock(m, f).blocks) = Len(m.blocks) + 1
         /\ HasEntry(NewBlock(m, f), f)
         /\ NewBlock(m, f).blocks[Len(m.blocks) + 1] = [func |-> f, code |-> <<>>]
         /\ \A b \in DOMAIN m.blocks : NewBlock(m, f).blocks[b] = m.blocks[b]
<1> DEFINE r == [func |-> f, code |-> <<>>]
           blocks == Append(m.blocks, r)
           n == NewBlock(m, f)
<1>1. /\ m \in ModuleState /\ m.blocks \in Seq(BlockRecords) /\ Len(m.blocks) \in Nat
      /\ m.insert \in DOMAIN m.blocks /\ DOMAIN m.blocks = 1..Len(m.blocks)
  BY ModuleParts DEF WellMade
<1>2. r \in BlockRecords /\ r.func = f
  BY DEF BlockRecords
<1>3. n = [m EXCEPT !.blocks = blocks]
  BY DEF NewBlock
<1> HIDE DEF r, n
<1>4. /\ blocks \in Seq(BlockRecords) /\ Len(blocks) = Len(m.blocks) + 1
      /\ DOMAIN blocks = 1..(Len(m.blocks) + 1)
      /\ \A b \in DOMAIN m.blocks : b \in DOMAIN blocks /\ blocks[b] = m.blocks[b]
      /\ blocks[Len(m.blocks) + 1] = r
  BY <1>1, <1>2
<1> HIDE DEF blocks
<1>5. n \in ModuleState
  BY <1>1, <1>3, <1>4 DEF ModuleState
<1>6. n.funcs = m.funcs /\ n.blocks = blocks /\ n.insert = m.insert
  BY <1>1, <1>3, <1>5 DEF ModuleState
<1>7. \A g : HasEntry(m, g) => HasEntry(n, g)
  BY <1>4, <1>6 DEF HasEntry
<1>8. ASSUME NEW b \in DOMAIN n.blocks PROVE HasEntry(n, n.blocks[b].func)
  <2>1. CASE b = Len(m.blocks) + 1
    BY <2>1, <1>2, <1>4, <1>6, <1>7
  <2>2. CASE b # Len(m.blocks) + 1
    <3>1. b \in DOMAIN m.blocks /\ n.blocks[b] = m.blocks[b]
      BY <2>2, <1>1, <1>4, <1>6
    <3> QED
      BY <3>1, <1>7 DEF WellMade
  <2> QED
    BY <2>1, <2>2
<1>9. WellMade(n)
  BY <1>1, <1>4, <1>5, <1>6, <1>8 DEF WellMade
<1>10. Grows(m, n)
  BY <1>1, <1>4, <1>6, <1>7, <1>9 DEF Grows
<1> QED
  BY <1>4, <1>6, <1>7, <1>10 DEF n, r

\* One more function.
LEMMA Declaration ==
  ASSUME NEW m \in ModuleState, NEW name \in Name \cup {NoName, Main, Printf, Scanf},
         NEW params \in Nat
  PROVE  /\ Declare(m, name, params) \in ModuleState
         /\ Declare(m, name, params).blocks = m.blocks
         /\ Declare(m, name, params).insert = m.insert
         /\ Len(Declare(m, name, params).funcs) = Len(m.funcs) + 1
         /\ \A f \in DOMAIN m.funcs : Declare(m, name, params).funcs[f] = m.funcs[f]
         /\ \A f : HasEntry(m, f) => HasEntry(Declare(m, name, params), f)
         /\ FunctionsNamed(m, name) = {} =>
              FunctionsNamed(Declare(m, name, params), name) # {}
<1> DEFINE unique == IF FunctionsNamed(m, name) = {} THEN name ELSE NoName
           r == [name |-> unique, params |-> params, entry |-> 0]
           funcs == Append(m.funcs, r)
           n == Declare(m, name, params)
<1>1. m.funcs \in Seq(FunctionRecords) /\ Len(m.funcs) \in Nat
  BY ModuleParts
<1>2. /\ unique \in Name \cup {NoName, Main, Printf, Scanf}
      /\ FunctionsNamed(m, name) = {} => unique = name
  OBVIOUS
<1>3. n = [m EXCEPT !.funcs = funcs]
  BY DEF Declare
<1> HIDE DEF unique
<1>4. r \in FunctionRecords /\ r.name = unique
  BY <1>2 DEF FunctionRecords
<1> HIDE DEF r, n
<1>5. /\ funcs \in Seq(FunctionRecords) /\ Len(funcs) = Len(m.funcs) + 1
      /\ Len(m.funcs) + 1 \in DOMAIN funcs /\ funcs[Len(m.funcs) + 1] = r
      /\ \A f \in DOMAIN m.funcs : f \in DOMAIN funcs /\ funcs[f] = m.funcs[f]
  BY <1>1, <1>4
<1> HIDE DEF funcs
<1>6. n \in ModuleState
  BY <1>3, <1>5 DEF ModuleState
<1>7. n.funcs = funcs /\ n.blocks = m.blocks /\ n.insert = m.insert
  BY <1>3, <1>6 DEF ModuleState
<1>8. \A f : HasEntry(m, f) => HasEntry(n, f)
  BY <1>5, <1>7 DEF HasEntry
<1>9. FunctionsNamed(m, name) = {} => FunctionsNamed(n, name) # {}
  BY <1>2, <1>4, <1>5, <1>7 DEF FunctionsNamed
<1> QED
  BY <1>5, <1>6, <1>7, <1>8, <1>9 DEF n

\* One that is declared only.
LEMMA Declared ==
  ASSUME NEW m, WellMade(m), NEW name \in Name \cup {NoName, Main, Printf, Scanf},
         NEW params \in Nat
  PROVE  /\ Grows(m, Declare(m, name, params))
         /\ Len(Declare(m, name, params).blocks) = Len(m.blocks)
         /\ Declare(m, name, params).blocks = m.blocks
         /\ Declare(m, name, params).insert = m.insert
<1> DEFINE n == Declare(m, name, params)
<1>1. m \in ModuleState /\ Len(m.blocks) \in Nat
  BY ModuleParts DEF WellMade
<1>2. /\ n \in ModuleState /\ n.blocks = m.blocks /\ n.insert = m.insert
      /\ \A f : HasEntry(m, f) => HasEntry(n, f)
  BY <1>1, Declaration
<1> HIDE DEF n
<1>3. WellMade(n)
  BY <1>2 DEF WellMade
<1>4. Grows(m, n)
  BY <1>1, <1>2, <1>3 DEF Grows
<1> QED
  BY <1>2, <1>4 DEF n

\* One with an entry block, where code now goes; in the empty module too.
LEMMA Defined ==
  ASSUME NEW m \in ModuleState, NEW name \in Name \cup {NoName, Main, Printf, Scanf},
         NEW params \in Nat,
         \A b \in DOMAIN m.blocks : HasEntry(m, m.blocks[b].func)
  PROVE  /\ Grows(m, Define(m, name, params))
         /\ Len(Define(m, name, params).blocks) = Len(m.blocks) + 1
         /\ Define(m, name, params).blocks[Len(m.blocks) + 1].code = <<>>
         /\ \A b \in DOMAIN m.blocks : Define(m, name, params).blocks[b] = m.blocks[b]
<1> DEFINE f == Len(m.funcs) + 1
           last == Len(m.blocks) + 1
           d == Declare(m, name, params)
           r == [func |-> f, code |-> <<>>]
           blocks == Append(m.blocks, r)
           n == NewBlock(d, f)
           funcs == [d.funcs EXCEPT ![f] = [d.funcs[f] EXCEPT !.entry = last]]
           e == [n EXCEPT !.funcs[f].entry = last]
           o == SetInsertPoint(e, last)
<1>1. /\ m.funcs \in Seq(FunctionRecords) /\ Len(m.funcs) \in Nat
      /\ DOMAIN m.funcs = 1..Len(m.funcs)
      /\ m.blocks \in Seq(BlockRecords) /\ Len(m.blocks) \in Nat
      /\ DOMAIN m.blocks = 1..Len(m.blocks)
  BY ModuleParts
<1>2. o = Define(m, name, params)
  BY DEF Define
<1>3. /\ d \in ModuleState /\ d.blocks = m.blocks
      /\ Len(d.funcs) = f
      /\ \A g \in DOMAIN m.funcs : d.funcs[g] = m.funcs[g]
  BY ZenonT(40), Declaration
<1> HIDE DEF d
<1>4. d.funcs \in Seq(FunctionRecords) /\ DOMAIN d.funcs = 1..f
  BY <1>3, ModuleParts
<1>5. r \in BlockRecords /\ r.func = f
  BY <1>1 DEF BlockRecords
<1>6. n = [d EXCEPT !.blocks = blocks]
  BY <1>3 DEF NewBlock
<1> HIDE DEF r, n
<1>7. /\ blocks \in Seq(BlockRecords)
      /\ Len(blocks) = last /\ DOMAIN blocks = 1..last
      /\ \A b \in DOMAIN m.blocks : blocks[b] = m.blocks[b]
      /\ blocks[last] = r
  BY <1>1, <1>5
<1> HIDE DEF blocks
<1>8. n \in ModuleState
  BY <1>3, <1>6, <1>7 DEF ModuleState
<1>9. n.funcs = d.funcs /\ n.blocks = blocks
  BY <1>3, <1>6, <1>8 DEF ModuleState
<1>10. f \in DOMAIN d.funcs /\ f \in Nat /\ last \in Nat /\ d.funcs[f] \in FunctionRecords
  BY <1>1, <1>4
<1>11. e = [n EXCEPT !.funcs = funcs]
  BY <1>9
<1> DEFINE changed == [d.funcs[f] EXCEPT !.entry = last]
<1>12. changed \in FunctionRecords /\ changed.entry = last
  BY <1>10 DEF FunctionRecords
<1>13. funcs = [d.funcs EXCEPT ![f] = changed]
  OBVIOUS
<1> HIDE DEF e, changed, funcs
<1>14. /\ funcs \in Seq(FunctionRecords) /\ DOMAIN funcs = 1..f
       /\ funcs[f].entry = last
       /\ \A g \in DOMAIN m.funcs : funcs[g] = m.funcs[g]
  BY <1>1, <1>3, <1>4, <1>10, <1>12, <1>13
<1>15. e \in ModuleState
  BY <1>8, <1>11, <1>14 DEF ModuleState
<1>16. e.funcs = funcs /\ e.blocks = blocks
  BY <1>8, <1>9, <1>11, <1>15 DEF ModuleState
<1>17. o = [e EXCEPT !.insert = last]
  BY DEF SetInsertPoint
<1> HIDE DEF o
<1>18. o \in ModuleState
  BY <1>10, <1>15, <1>17 DEF ModuleState
<1>19. o.funcs = funcs /\ o.blocks = blocks /\ o.insert = last
  BY <1>15, <1>16, <1>17, <1>18 DEF ModuleState
<1>20. \A g : HasEntry(m, g) => HasEntry(o, g)
  <2> SUFFICES ASSUME NEW g, HasEntry(m, g)
               PROVE  HasEntry(o, g)
    OBVIOUS
  <2> DEFINE entry == m.funcs[g].entry
  <2>1. g \in DOMAIN m.funcs /\ entry \in DOMAIN m.blocks /\ m.blocks[entry].func = g
    BY DEF HasEntry
  <2>2. o.funcs[g] = m.funcs[g]
    BY <2>1, <1>14, <1>19
  <2>3. g \in DOMAIN o.funcs
    BY <2>1, <1>1, <1>14, <1>19
  <2>4. o.blocks[entry] = m.blocks[entry] /\ entry \in DOMAIN o.blocks
    BY <2>1, <1>1, <1>7, <1>19
  <2> QED
    BY <2>1, <2>2, <2>3, <2>4 DEF HasEntry
<1>21. HasEntry(o, f)
  <2>1. f \in DOMAIN o.funcs /\ o.funcs[f].entry = last
    BY <1>10, <1>14, <1>19, <1>1
  <2>2. last \in DOMAIN o.blocks /\ o.blocks[last].func = f
    BY <1>5, <1>7, <1>19, <1>1
  <2> QED
    BY <2>1, <2>2 DEF HasEntry
<1>22. ASSUME NEW b \in DOMAIN o.blocks PROVE HasEntry(o, o.blocks[b].func)
  <2>1. CASE b = last
    BY <2>1, <1>5, <1>7, <1>19, <1>21
  <2>2. CASE b # last
    <3>1. b \in DOMAIN m.blocks /\ o.blocks[b] = m.blocks[b]
      BY <2>2, <1>1, <1>7, <1>19
    <3> QED
      BY <3>1, <1>20
  <2> QED
    BY <2>1, <2>2
<1>23. WellMade(o)
  BY <1>1, <1>7, <1>18, <1>19, <1>22 DEF WellMade
<1>24. Grows(m, o)
  BY <1>1, <1>7, <1>19, <1>20, <1>23 DEF Grows
<1> QED
  <2>1. o.blocks[last].code = <<>> /\ Len(o.blocks) = last
    BY <1>7, <1>19 DEF r
  <2>2. \A b \in DOMAIN m.blocks : o.blocks[b] = m.blocks[b]
    BY <1>7, <1>19
  <2> QED
    BY <2>1, <2>2, <1>2, <1>24

\* A variable in front of the function where code is put.
LEMMA Allocated ==
  ASSUME NEW m, WellMade(m)
  PROVE  /\ Grows(m, allocVar(m))
         /\ allocVar(m).funcs = m.funcs
         /\ allocVar(m).insert = m.insert
         /\ Parent(allocVar(m)) = Parent(m)
         /\ Slot(allocVar(m).count) \in Binding
<1> DEFINE b == m.funcs[Parent(m)].entry
           none == <<>>
<1>1. b \in DOMAIN m.blocks /\ "alloca" \in Opcodes /\ none \in Seq(Arguments)
  BY ParentType DEF Opcodes
<1>2. allocVar(m) = EmitFirst(m, b, "alloca", none)
  BY DEF allocVar
<1> HIDE DEF b, none
<1>3. /\ Grows(m, allocVar(m)) /\ allocVar(m).count \in Nat
      /\ allocVar(m).funcs = m.funcs
      /\ allocVar(m).insert = m.insert
      /\ Parent(allocVar(m)) = Parent(m)
  BY <1>1, <1>2, EmittedFirst
<1> QED
  BY <1>3, ValueTypes

\* printf and scanf are there when they are called.
LEMMA LibraryThere ==
  ASSUME NEW m, WellMade(m), NEW name \in {Printf, Scanf}, NEW params \in Nat
  PROVE  /\ Grows(m, Library(m, name, params))
         /\ FunctionsNamed(Library(m, name, params), name) # {}
<1>1. CASE FunctionsNamed(m, name) = {}
  <2>1. m \in ModuleState /\ name \in Name \cup {NoName, Main, Printf, Scanf}
    BY DEF WellMade
  <2>2. Library(m, name, params) = Declare(m, name, params)
    BY <1>1 DEF Library
  <2>3. Grows(m, Declare(m, name, params))
    BY <2>1, Declared
  <2>4. FunctionsNamed(Declare(m, name, params), name) # {}
    BY <1>1, <2>1, Declaration
  <2> QED
    BY <2>2, <2>3, <2>4
<1>2. CASE FunctionsNamed(m, name) # {}
  BY <1>2, ParentType DEF Library
<1> QED
  BY <1>1, <1>2

\* So there is a function to call.
LEMMA CalledByName ==
  ASSUME NEW m, WellMade(m), NEW name, FunctionsNamed(m, name) # {},
         NEW args \in Seq(Arguments)
  PROVE  Grows(m, CallNamed(m, name, args))
<1> DEFINE f == CHOOSE f \in FunctionsNamed(m, name) : TRUE
           all == <<FunctionAt(f)>> \o args
<1>1. f \in FunctionsNamed(m, name)
  OBVIOUS
<1> HIDE DEF f
<1>2. f \in Nat
  <2>1. m \in ModuleState
    BY DEF WellMade
  <2> QED
    BY <1>1, <2>1, ModuleParts DEF FunctionsNamed
<1>3. FunctionAt(f) \in Arguments
  BY <1>2, ValueTypes
<1>4. all \in Seq(Arguments) /\ "call" \in Opcodes
  BY <1>3 DEF Opcodes
<1>5. CallNamed(m, name, args) = Emit(m, "call", all)
  BY DEF CallNamed, f
<1> HIDE DEF all
<1> QED
  BY <1>4, <1>5, Emitted

-----------------------------------------------------------------------------
(***************************************************************************)
(* The operands.                                                           *)
(***************************************************************************)

\* How many values an item takes, and by how many it changes their number.
Need(item) ==
  IF item.phase = "leave" THEN IF item.node.kind = "Func" THEN 1 ELSE 0
  ELSE IF item.phase # "resume" THEN 0
  ELSE CASE item.node.kind \in {"Assignment", "Unary", "Postfix", "VarStmt", "If",
                                "While", "Print", "ExprStmt", "Return"} -> 1
         [] item.node.kind = "Binary" -> 2
         [] item.node.kind = "Call" -> Len(item.node.kids) + 1
         [] OTHER -> 0
Gain(item) ==
  IF item.phase = "visit" THEN IF item.node.kind \in ExprKind THEN 1 ELSE 0
  ELSE IF item.phase # "resume" THEN 0
  ELSE CASE item.node.kind \in {"VarStmt", "If", "While", "Print", "ExprStmt",
                                "Return", "Binary"} -> -1
         [] item.node.kind = "Call" -> -Len(item.node.kids)
         [] item.node.kind = "Scope" -> 1
         [] OTHER -> 0

\* With a values at first every item finds those it takes, and b are left.
Balanced(items, a, b) ==
  \E h \in [1..(Len(items) + 1) -> Nat] :
    /\ h[1] = a
    /\ h[Len(items) + 1] = b
    /\ \A p \in 1..Len(items) :
         h[p] >= Need(items[p]) /\ h[p + 1] = h[p] + Gain(items[p])

\* What items take and give are numbers.
LEMMA NeedTypes ==
  ASSUME NEW item \in Item
  PROVE  /\ Need(item) \in Nat /\ Gain(item) \in Int
         /\ Need(item) + Gain(item) >= 0
<1>1. Len(item.node.kids) \in Nat
  <2>1. item.node \in Node
    BY DEF Item
  <2> QED
    BY <2>1, NodeFacts
<1>2. Need(item) \in {0, 1, 2, Len(item.node.kids) + 1}
  BY DEF Need
<1>3. Gain(item) \in {0, 1, -1, -Len(item.node.kids)}
  BY DEF Gain
<1>4. Gain(item) = -1 => Need(item) >= 1
  <2>1. CASE item.node.kind = "Call"
    BY <2>1, <1>1 DEF Gain, Need
  <2>2. CASE item.node.kind # "Call"
    BY <2>2, <1>1 DEF Gain, Need
  <2> QED
    BY <2>1, <2>2
<1>5. Gain(item) \in {0, 1, -1} \/ Need(item) = Len(item.node.kids) + 1
  BY DEF Gain, Need
<1> QED
  BY <1>1, <1>2, <1>3, <1>4, <1>5, SMTT(30)

\* Nothing to do.
LEMMA NothingBalanced ==
  ASSUME NEW a \in Nat
  PROVE  Balanced(<<>>, a, a)
<1> DEFINE h == [p \in 1..1 |-> a]
<1>1. h \in [1..1 -> Nat] /\ h[1] = a
  OBVIOUS
<1> HIDE DEF h
<1> QED
  BY <1>1 DEF Balanced

\* One item.
LEMMA OneBalanced ==
  ASSUME NEW item \in Item, NEW a \in Nat, a >= Need(item)
  PROVE  /\ a + Gain(item) \in Nat
         /\ Balanced(<<item>>, a, a + Gain(item))
<1> DEFINE b == a + Gain(item)
           items == <<item>>
<1>1. b \in Nat
  BY NeedTypes
<1>2. Len(items) = 1 /\ items[1] = item
  OBVIOUS
<1> DEFINE h == [p \in 1..2 |-> IF p = 1 THEN a ELSE b]
<1>3. h \in [1..2 -> Nat] /\ h[1] = a /\ h[2] = b
  BY <1>1
<1>4. b = a + Gain(item)
  OBVIOUS
<1> HIDE DEF h, b, items
<1>5. Balanced(items, a, b)
  BY <1>1, <1>2, <1>3, <1>4 DEF Balanced
<1> QED
  BY <1>1, <1>5 DEF b, items

\* Some items and then others.
LEMMA ThenBalanced ==
  ASSUME NEW s \in Seq(Item), NEW t \in Seq(Item), NEW a, NEW b, NEW c,
         Balanced(s, a, b), Balanced(t, b, c)
  PROVE  Balanced(s \o t, a, c)
<1> DEFINE n == Len(s)
           m == Len(t)
           all == s \o t
<1>1. /\ n \in Nat /\ m \in Nat /\ Len(all) = n + m
      /\ \A p \in 1..n : all[p] = s[p]
      /\ \A p \in (n + 1)..(n + m) : all[p] = t[p - n]
  OBVIOUS
<1>2. PICK g \in [1..(n + 1) -> Nat] :
        /\ g[1] = a /\ g[n + 1] = b
        /\ \A p \in 1..n : g[p] >= Need(s[p]) /\ g[p + 1] = g[p] + Gain(s[p])
  BY DEF Balanced
<1>3. PICK h \in [1..(m + 1) -> Nat] :
        /\ h[1] = b /\ h[m + 1] = c
        /\ \A p \in 1..m : h[p] >= Need(t[p]) /\ h[p + 1] = h[p] + Gain(t[p])
  BY DEF Balanced
<1> HIDE DEF n, m, all
<1> DEFINE f == [p \in 1..(n + m + 1) |-> IF p <= n THEN g[p] ELSE h[p - n]]
<1>4. f \in [1..(n + m + 1) -> Nat]
  <2> SUFFICES ASSUME NEW p \in 1..(n + m + 1)
               PROVE  (IF p <= n THEN g[p] ELSE h[p - n]) \in Nat
    OBVIOUS
  <2>1. p <= n => p \in 1..(n + 1)
    BY <1>1
  <2>2. ~(p <= n) => p - n \in 1..(m + 1)
    BY <1>1
  <2> QED
    BY <2>1, <2>2
<1>5. /\ \A p \in 1..(n + 1) : f[p] = g[p]
      /\ \A p \in (n + 1)..(n + m + 1) : f[p] = h[p - n]
  <2>1. f[n + 1] = h[1]
    <3>1. n + 1 \in 1..(n + m + 1) /\ ~(n + 1 <= n) /\ (n + 1) - n = 1
      BY <1>1
    <3> QED
      BY <3>1
  <2>2. ASSUME NEW p \in 1..(n + 1) PROVE f[p] = g[p]
    <3>1. CASE p = n + 1
      BY <3>1, <2>1, <1>2, <1>3
    <3>2. CASE p # n + 1
      <4>1. p \in 1..(n + m + 1) /\ p <= n
        BY <3>2, <1>1
      <4> QED
        BY <4>1
    <3> QED
      BY <3>1, <3>2
  <2>3. ASSUME NEW p \in (n + 1)..(n + m + 1) PROVE f[p] = h[p - n]
    <3>1. p \in 1..(n + m + 1) /\ ~(p <= n)
      BY <1>1
    <3> QED
      BY <3>1
  <2> QED
    BY <2>2, <2>3
<1> HIDE DEF f
<1>6. f[1] = a /\ f[n + m + 1] = c
  <2>1. 1 \in 1..(n + 1) /\ n + m + 1 \in (n + 1)..(n + m + 1) /\ (n + m + 1) - n = m + 1
    BY <1>1
  <2> QED
    BY <2>1, <1>2, <1>3, <1>5
<1>7. ASSUME NEW p \in 1..(n + m)
      PROVE  f[p] >= Need(all[p]) /\ f[p + 1] = f[p] + Gain(all[p])
  <2>1. CASE p \in 1..n
    <3>1. p \in 1..(n + 1) /\ p + 1 \in 1..(n + 1)
      BY <2>1, <1>1
    <3> QED
      BY <2>1, <3>1, <1>1, <1>2, <1>5
  <2>2. CASE p \in (n + 1)..(n + m)
    <3> DEFINE q == p - n
    <3>1. /\ p \in (n + 1)..(n + m + 1) /\ p + 1 \in (n + 1)..(n + m + 1)
          /\ (p + 1) - n = q + 1 /\ q \in 1..m
      BY <2>2, <1>1
    <3>2. f[p] = h[q] /\ f[p + 1] = h[q + 1] /\ all[p] = t[q]
      BY <2>2, <3>1, <1>1, <1>5
    <3> HIDE DEF q
    <3> QED
      BY <3>1, <3>2, <1>3
  <2> QED
    BY <2>1, <2>2, <1>1
<1>8. Len(all) + 1 = n + m + 1
  BY <1>1
<1>9. Balanced(all, a, c)
  <2>1. f \in [1..(Len(all) + 1) -> Nat] /\ f[Len(all) + 1] = c
    BY <1>4, <1>6, <1>8
  <2>2. \A p \in 1..Len(all) : f[p] >= Need(all[p]) /\ f[p + 1] = f[p] + Gain(all[p])
    BY <1>1, <1>7
  <2> QED
    BY <2>1, <2>2, <1>6 DEF Balanced
<1> QED
  BY <1>9 DEF all

\* The first item finds its values; the others go on with what it leaves.
LEMMA FirstBalanced ==
  ASSUME NEW s \in Seq(Item), s # <<>>, NEW a, NEW c, Balanced(s, a, c)
  PROVE  /\ a \in Nat /\ c \in Nat /\ a >= Need(s[1])
         /\ Balanced(Tail(s), a + Gain(s[1]), c)
<1> DEFINE n == Len(s)
           t == Tail(s)
<1>1. /\ n \in Nat /\ n >= 1 /\ t \in Seq(Item) /\ Len(t) = n - 1
      /\ \A p \in 1..(n - 1) : t[p] = s[p + 1]
  OBVIOUS
<1>2. PICK h \in [1..(n + 1) -> Nat] :
        /\ h[1] = a /\ h[n + 1] = c
        /\ \A p \in 1..n : h[p] >= Need(s[p]) /\ h[p + 1] = h[p] + Gain(s[p])
  BY DEF Balanced
<1> HIDE DEF n, t
<1> DEFINE f == [p \in 1..n |-> h[p + 1]]
<1>3. f \in [1..n -> Nat]
  BY <1>1
<1>4. \A p \in 1..n : f[p] = h[p + 1]
  OBVIOUS
<1> HIDE DEF f
<1>5. 1 \in 1..n /\ n \in 1..n /\ 1 \in 1..(n + 1) /\ n + 1 \in 1..(n + 1)
  BY <1>1
<1>6. a \in Nat /\ c \in Nat /\ a >= Need(s[1]) /\ h[1 + 1] = a + Gain(s[1])
  BY <1>2, <1>5
<1>7. f[1] = a + Gain(s[1]) /\ f[n] = c
  BY <1>2, <1>4, <1>5, <1>6
<1>8. ASSUME NEW p \in 1..(n - 1)
      PROVE  f[p] >= Need(t[p]) /\ f[p + 1] = f[p] + Gain(t[p])
  <2>1. p \in 1..n /\ p + 1 \in 1..n
    BY <1>1
  <2> QED
    BY <2>1, <1>1, <1>2, <1>4
<1>9. (Len(t) + 1) = n
  BY <1>1
<1>10. Balanced(t, a + Gain(s[1]), c)
  <2>1. \A p \in 1..Len(t) : f[p] >= Need(t[p]) /\ f[p + 1] = f[p] + Gain(t[p])
    BY <1>1, <1>8
  <2>2. f \in [1..(Len(t) + 1) -> Nat] /\ f[Len(t) + 1] = c
    BY <1>3, <1>7, <1>9
  <2> QED
    BY <2>1, <2>2, <1>7 DEF Balanced
<1> QED
  BY <1>6, <1>10 DEF t

\* Visits of expressions leave a value each, of statements none.
LEMMA VisitsBalanced ==
  ASSUME NEW nodes \in Seq(Node), NEW a \in Nat
  PROVE  /\ (\A i \in DOMAIN nodes : nodes[i].kind \in ExprKind) =>
              Balanced(VisitAll(nodes), a, a + Len(nodes))
         /\ (\A i \in DOMAIN nodes : nodes[i].kind \in StmtKind) =>
              Balanced(VisitAll(nodes), a, a)
<1> DEFINE n == Len(nodes)
           items == VisitAll(nodes)
<1>1. /\ n \in Nat /\ DOMAIN nodes = 1..n
      /\ Len(items) = n
      /\ \A i \in 1..n : items[i] = Visit(nodes[i]) /\ items[i].phase = "visit"
      /\ \A i \in 1..n : nodes[i] \in Node
  BY VisitAllTypes
<1> HIDE DEF items, n
<1>2. \A i \in 1..n : items[i].phase = "visit" /\ items[i].node = nodes[i]
  BY <1>1 DEF Visit, AnItem
<1>3. ASSUME \A i \in DOMAIN nodes : nodes[i].kind \in ExprKind
      PROVE  Balanced(items, a, a + n)
  <2> DEFINE h == [p \in 1..(n + 1) |-> a + p - 1]
  <2>1. /\ h \in [1..(n + 1) -> Nat] /\ h[1] = a /\ h[n + 1] = a + n
        /\ \A p \in 1..n : h[p] >= 0 /\ h[p + 1] = h[p] + 1
    BY <1>1
  <2>2. \A p \in 1..n : Need(items[p]) = 0 /\ Gain(items[p]) = 1
    BY <1>1, <1>2, <1>3 DEF Need, Gain
  <2> HIDE DEF h
  <2> QED
    BY <2>1, <2>2, <1>1 DEF Balanced
<1>4. ASSUME \A i \in DOMAIN nodes : nodes[i].kind \in StmtKind
      PROVE  Balanced(items, a, a)
  <2> DEFINE h == [p \in 1..(n + 1) |-> a]
  <2>1. /\ h \in [1..(n + 1) -> Nat] /\ h[1] = a /\ h[n + 1] = a
        /\ \A p \in 1..n : h[p] >= 0 /\ h[p + 1] = h[p] + 0
    BY <1>1
  <2>2. \A p \in 1..n : Need(items[p]) = 0 /\ Gain(items[p]) = 0
    BY <1>1, <1>2, <1>4 DEF Need, Gain, ExprKind, StmtKind
  <2> HIDE DEF h
  <2> QED
    BY <2>1, <2>2, <1>1 DEF Balanced
<1> QED
  BY <1>3, <1>4 DEF items, n

\* Values below these change nothing.
LEMMA LiftedBalanced ==
  ASSUME NEW items \in Seq(Item), NEW a, NEW b, NEW k \in Nat, Balanced(items, a, b)
  PROVE  a \in Nat /\ b \in Nat /\ Balanced(items, a + k, b + k)
<1> DEFINE n == Len(items)
<1>1. n \in Nat /\ \A p \in 1..n : Need(items[p]) \in Nat /\ Gain(items[p]) \in Int
  BY NeedTypes
<1>2. PICK h \in [1..(n + 1) -> Nat] :
        /\ h[1] = a /\ h[n + 1] = b
        /\ \A p \in 1..n : h[p] >= Need(items[p]) /\ h[p + 1] = h[p] + Gain(items[p])
  BY DEF Balanced
<1> HIDE DEF n
<1> DEFINE f == [p \in 1..(n + 1) |-> h[p] + k]
<1>3. f \in [1..(n + 1) -> Nat] /\ \A p \in 1..(n + 1) : f[p] = h[p] + k
  OBVIOUS
<1> HIDE DEF f
<1>4. 1 \in 1..(n + 1) /\ n + 1 \in 1..(n + 1)
  BY <1>1
<1>5. ASSUME NEW p \in 1..n
      PROVE  f[p] >= Need(items[p]) /\ f[p + 1] = f[p] + Gain(items[p])
  <2>1. p \in 1..(n + 1) /\ p + 1 \in 1..(n + 1)
    BY <1>1
  <2>2. h[p] \in Nat /\ h[p + 1] \in Nat
    BY <2>1
  <2>3. f[p] = h[p] + k /\ f[p + 1] = h[p + 1] + k
    BY <2>1, <1>3
  <2>4. h[p] >= Need(items[p]) /\ h[p + 1] = h[p] + Gain(items[p])
    BY <1>2
  <2>5. Need(items[p]) \in Nat /\ Gain(items[p]) \in Int
    BY <1>1
  <2> QED
    BY <2>2, <2>3, <2>4, <2>5
<1>6. a \in Nat /\ b \in Nat /\ f[1] = a + k /\ f[n + 1] = b + k
  BY <1>2, <1>3, <1>4
<1> QED
  BY <1>3, <1>5, <1>6 DEF Balanced, n

-----------------------------------------------------------------------------
(***************************************************************************)
(* The inductive invariant.                                                *)
(***************************************************************************)

\* The numbers of an item: how many statements are done, the next parameter, the
\* first of the blocks of an if or a while, of n, or the block to come back to.
Fit(item, n) ==
  /\ item.phase = "resume" /\ item.node.kind = "Scope" =>
       item.index <= Len(item.node.kids)
  /\ item.phase = "param" => item.index >= 1
  /\ item.phase = "leave" /\ item.node.kind = "Func" => item.index \in 1..n
  /\ item.phase \in {"then", "else"} =>
       /\ item.node.kind = "If"
       /\ item.index >= 1
       /\ item.index + Len(item.node.kids) - 1 <= n
  /\ item.phase = "body" \/ (item.phase = "resume" /\ item.node.kind = "While") =>
       item.index >= 1 /\ item.index + 2 <= n

\* Before main there is no block to put code into.
Begun == WellMade(ir) \/ (ir = EmptyModule /\ todo = <<Visit(program)>>)

OneScopeEach == ScopesNested(todo, scopes, {"Func"})
OperandsThere == Balanced(todo, Len(values), 0)
NumbersFit == \A p \in DOMAIN todo : Fit(todo[p], Len(ir.blocks))

IInv == TypeOK /\ OneScopeEach /\ OperandsThere /\ NumbersFit /\ Begun

\* The values that the first item leaves alone.
Kept == Len(values) - Need(todo[1])

\* The first item is replaced by items, none of which needs those values either.
Does(items) ==
  /\ Walks(todo, items, todo')
  /\ InStep(todo, items, scopes, scopes')
  /\ SameBoundaries(items, scopes, scopes', {"Func"})
  /\ scopes' \in Seq(Env!Scope(Binding))
  /\ Balanced(items, Len(values') - Kept, Need(todo[1]) + Gain(todo[1]))
  /\ values' \in Seq(Value)
  /\ functions' \in [Name -> ({"func"} \X Nat) \cup {Absent}]
  /\ returnStack' \in Seq(Value)
  /\ status' = status
  /\ Grows(ir, ir')
  /\ \A q \in DOMAIN items : Fit(items[q], Len(ir'.blocks))

\* More blocks leave the numbers right.
LEMMA FitsOn ==
  ASSUME NEW item \in Item, NEW n \in Nat, NEW m \in Nat, n <= m, Fit(item, n)
  PROVE  Fit(item, m)
<1>1. item.index \in Nat /\ Len(item.node.kids) \in Nat
  <2>1. item.index \in Nat /\ item.node \in Node
    BY DEF Item
  <2> QED
    BY <2>1, NodeFacts
<1> QED
  BY <1>1 DEF Fit

\* Such a step keeps the invariant.
LEMMA DoesKeeps ==
  ASSUME IInv, program' = program, NEW items, Does(items)
  PROVE  IInv'
<1>1. /\ Walks(todo, items, todo')
      /\ InStep(todo, items, scopes, scopes')
      /\ SameBoundaries(items, scopes, scopes', {"Func"})
      /\ ScopesNested(todo, scopes, {"Func"})
  BY DEF Does, IInv, OneScopeEach
<1>2. /\ ScopesNested(todo', scopes', {"Func"})
      /\ \A j \in 2..(Len(todo) + 1) : ScopeOf(todo, scopes, j) \in 1..Len(scopes')
  BY <1>1, NestedStep
<1>3. todo' \in Seq(Item)
  BY <1>1, WalkStep
<1>4. /\ todo \in Seq(Item) /\ todo # <<>> /\ items \in Seq(Item)
      /\ todo' = items \o Tail(todo)
      /\ Len(todo) \in Nat /\ Len(todo) >= 1 /\ Len(scopes') \in Nat
  BY <1>1 DEF Walks, InStep
<1>5. /\ Grows(ir, ir')
      /\ WellMade(ir') /\ ir' \in ModuleState
      /\ Len(ir.blocks) \in Nat /\ Len(ir'.blocks) \in Nat
      /\ Len(ir.blocks) <= Len(ir'.blocks)
  BY DEF Does, Grows, WellMade
<1>6. TypeOK'
  <2>1. Len(todo) + 1 \in 2..(Len(todo) + 1)
    BY <1>4
  <2>2. 1 \in 1..Len(scopes')
    BY <2>1, <1>2, <1>4
  <2>3. scopes' # <<>>
    BY <2>2
  <2> QED
    BY <2>3, <1>3, <1>5 DEF TypeOK, IInv, Does
<1>7. OneScopeEach'
  BY <1>2 DEF OneScopeEach
<1>8. OperandsThere'
  <2>1. Balanced(Tail(todo), Len(values) + Gain(todo[1]), 0)
    BY <1>4, FirstBalanced DEF IInv, OperandsThere
  <2>2. Balanced(items, Len(values'), Len(values) + Gain(todo[1]))
    <3>1. /\ todo[1] \in Item /\ Len(values) \in Nat /\ Len(values) >= Need(todo[1])
          /\ Len(values') \in Nat
      BY <1>4, FirstBalanced DEF IInv, OperandsThere, Does
    <3>2. /\ Need(todo[1]) \in Nat /\ Gain(todo[1]) \in Int
          /\ Kept \in Nat
          /\ (Len(values') - Kept) + Kept = Len(values')
          /\ (Need(todo[1]) + Gain(todo[1])) + Kept = Len(values) + Gain(todo[1])
      <4>1. Need(todo[1]) \in Nat /\ Gain(todo[1]) \in Int
        BY <3>1, NeedTypes
      <4> DEFINE l == Len(values)
                 m == Len(values')
                 d == Need(todo[1])
                 g == Gain(todo[1])
      <4>2. d \in Nat /\ g \in Int /\ l \in Nat /\ l >= d /\ m \in Nat /\ Kept = l - d
        BY <3>1, <4>1 DEF Kept
      <4> HIDE DEF l, m, d, g
      <4>3. /\ d \in Nat /\ g \in Int /\ Kept \in Nat
            /\ (m - Kept) + Kept = m /\ (d + g) + Kept = l + g
        BY <4>2
      <4> QED
        BY <4>3 DEF l, m, d, g
    <3>3. Balanced(items, (Len(values') - Kept) + Kept,
                   (Need(todo[1]) + Gain(todo[1])) + Kept)
      BY <3>2, <1>4, LiftedBalanced DEF Does
    <3> QED
      BY <3>2, <3>3
  <2>3. Tail(todo) \in Seq(Item)
    BY <1>4
  <2>4. Balanced(items \o Tail(todo), Len(values'), 0)
    BY <2>1, <2>2, <2>3, <1>4, ThenBalanced
  <2> QED
    BY <2>4, <1>4 DEF OperandsThere
<1>9. NumbersFit'
  <2> SUFFICES ASSUME NEW p \in DOMAIN todo'
               PROVE  Fit(todo'[p], Len(ir'.blocks))
    BY DEF NumbersFit
  <2>1. CASE p \in 1..Len(items) /\ todo'[p] = items[p]
    BY <2>1, <1>4 DEF Does
  <2>2. ASSUME NEW j \in 2..Len(todo), todo'[p] = todo[j]
        PROVE  Fit(todo'[p], Len(ir'.blocks))
    <3>1. j \in DOMAIN todo /\ todo[j] \in Item
      BY <1>4
    <3>2. Fit(todo[j], Len(ir.blocks))
      BY <3>1 DEF IInv, NumbersFit
    <3> QED
      BY <2>2, <3>1, <3>2, <1>5, FitsOn
  <2> QED
    BY <2>1, <2>2, <1>1, WalkPlaces
<1>10. Begun'
  BY <1>5 DEF Begun
<1> QED
  BY <1>6, <1>7, <1>8, <1>9, <1>10 DEF IInv

-----------------------------------------------------------------------------
(***************************************************************************)
(* Every action does the first item.                                       *)
(***************************************************************************)

\* What the guard says of the first item.
LEMMA First ==
  ASSUME IInv, NEW phase, NEW kinds, At(phase, kinds)
  PROVE  /\ todo \in Seq(Item) /\ todo # <<>>
         /\ todo[1] \in Item /\ todo[1].phase = phase
         /\ node \in Node /\ node.kind \in kinds /\ node = todo[1].node
         /\ block \in Nat /\ block = todo[1].index
         /\ scopes \in Seq(Facts!Scope(Binding)) /\ scopes # <<>>
         /\ Len(scopes) \in Nat
         /\ values \in Seq(Value) /\ Len(values) \in Nat
         /\ Need(todo[1]) \in Nat /\ Need(todo[1]) <= Len(values)
         /\ functions \in [Name -> ({"func"} \X Nat) \cup {Absent}]
         /\ returnStack \in Seq(Value)
         /\ ir \in ModuleState
         /\ Fit(todo[1], Len(ir.blocks))
         /\ WellMade(ir) \/ (phase = "visit" /\ node.kind = "Function" /\ ir = EmptyModule)
<1>1. /\ todo \in Seq(Item) /\ todo # <<>> /\ todo[1] \in Item
      /\ node = todo[1].node /\ block = todo[1].index /\ todo[1].phase = phase
      /\ node.kind \in kinds
  BY DEF IInv, TypeOK, At, node, block
<1>2. todo[1].node \in Node /\ todo[1].index \in Nat
  BY <1>1 DEF Item
<1>3. scopes \in Seq(Facts!Scope(Binding)) /\ scopes # <<>>
  BY SameScopes DEF IInv, TypeOK
<1>4. /\ values \in Seq(Value) /\ returnStack \in Seq(Value) /\ ir \in ModuleState
      /\ functions \in [Name -> ({"func"} \X Nat) \cup {Absent}]
  BY DEF IInv, TypeOK
<1>5. Need(todo[1]) \in Nat /\ Need(todo[1]) <= Len(values)
  <2>1. Need(todo[1]) \in Nat
    BY <1>1, NeedTypes
  <2>2. Len(values) >= Need(todo[1])
    BY <1>1, FirstBalanced DEF IInv, OperandsThere
  <2> QED
    BY <2>1, <2>2, <1>4
<1>6. Fit(todo[1], Len(ir.blocks))
  <2>1. 1 \in DOMAIN todo
    BY <1>1
  <2> QED
    BY <2>1 DEF IInv, NumbersFit
<1>7. WellMade(ir) \/ (phase = "visit" /\ node.kind = "Function" /\ ir = EmptyModule)
  <2>1. ASSUME ir = EmptyModule, todo = <<Visit(program)>>
        PROVE  phase = "visit" /\ node.kind = "Function"
    <3>1. todo[1] = Visit(program)
      BY <2>1
    <3>2. program.kind = "Function"
      BY CodegenAssumption DEF IInv, TypeOK
    <3> QED
      BY <3>1, <3>2, <1>1 DEF Visit, AnItem
  <2> QED
    BY <2>1 DEF IInv, Begun
<1> QED
  BY <1>1, <1>2, <1>3, <1>4, <1>5, <1>6, <1>7

\* The scopes after a step that opens and leaves none.
Stores ==
  \/ scopes' = scopes
  \/ \E x \in Name, v \in Binding : scopes' = Facts!Bind(scopes, Len(scopes), x, v)
  \/ \E x \in Name, v \in Binding : scopes' = Facts!defineOrAssign(scopes, x, v)

\* Those that stay are kept.
LEMMA StoresEffect ==
  ASSUME scopes \in Seq(Facts!Scope(Binding)), scopes # <<>>, Stores
  PROVE  /\ scopes' \in Seq(Facts!Scope(Binding))
         /\ Len(scopes') = Len(scopes)
         /\ \A i \in 1..Len(scopes) : scopes'[i].global = scopes[i].global
<1>1. CASE scopes' = scopes
  BY <1>1
<1>2. CASE \E x \in Name, v \in Binding : scopes' = Facts!Bind(scopes, Len(scopes), x, v)
  <2>1. PICK x \in Name, v \in Binding : scopes' = Facts!Bind(scopes, Len(scopes), x, v)
    BY <1>2
  <2>2. Len(scopes) \in 1..Len(scopes)
    OBVIOUS
  <2> QED
    BY <2>1, <2>2, Facts!BindEffect
<1>3. CASE \E x \in Name, v \in Binding : scopes' = Facts!defineOrAssign(scopes, x, v)
  <2>1. PICK x \in Name, v \in Binding : scopes' = Facts!defineOrAssign(scopes, x, v)
    BY <1>3
  <2>2. Facts!Stored(scopes, scopes', x, v)
    BY <2>1, Facts!DefineStores
  <2>3. PICK i \in 1..Len(scopes) : scopes' = Facts!Bind(scopes, i, x, v)
    BY <2>2, Facts!VisibleScopes DEF Facts!Stored
  <2> QED
    BY <2>3, Facts!BindEffect
<1> QED
  BY <1>1, <1>2, <1>3 DEF Stores

\* What is left to show of a step once its scopes are known.
Others ==
  /\ functions' \in [Name -> ({"func"} \X Nat) \cup {Absent}]
  /\ returnStack' \in Seq(Value)
  /\ status' = status
  /\ values' \in Seq(Value)
  /\ Grows(ir, ir')
Fits(items) ==
  /\ items \in Seq(Item)
  /\ Continue(items)
  /\ Balanced(items, Len(values') - Kept, Need(todo[1]) + Gain(todo[1]))
  /\ \A q \in DOMAIN items : Fit(items[q], Len(ir'.blocks))

\* A step that neither opens nor leaves a scope.
LEMMA QuietDoes ==
  ASSUME IInv, NEW phase, NEW kinds, At(phase, kinds), phase # "leave",
         NEW items, Quiet(items), Stores, Others, Fits(items)
  PROVE  Does(items)
<1>1. /\ todo \in Seq(Item) /\ todo # <<>> /\ todo[1].phase = phase
      /\ scopes \in Seq(Facts!Scope(Binding)) /\ scopes # <<>> /\ Len(scopes) \in Nat
  BY First
<1>2. items \in Seq(Item)
  BY DEF Fits
<1>3. OpensLast(items) /\ Opening(items) = 0 /\ Closing(todo) = 0
  BY <1>1, <1>2, QuietItems DEF Closing
<1>4. Walks(todo, items, todo')
  BY <1>1, <1>2, <1>3 DEF Walks, Continue, Fits
<1>5. /\ scopes' \in Seq(Facts!Scope(Binding))
      /\ Len(scopes') = Len(scopes)
      /\ \A i \in 1..Len(scopes) : scopes'[i].global = scopes[i].global
  BY <1>1, StoresEffect
<1>6. InStep(todo, items, scopes, scopes')
  BY <1>1, <1>3, <1>5 DEF InStep
<1>7. SameBoundaries(items, scopes, scopes', {"Func"})
  BY <1>3, <1>5 DEF SameBoundaries
<1>8. scopes' \in Seq(Env!Scope(Binding))
  BY <1>5, SameScopes
<1> QED
  BY <1>4, <1>6, <1>7, <1>8 DEF Does, Fits, Others

\* A visit that begins with a scope of its own.
LEMMA EnterDoes ==
  ASSUME IInv, NEW phase, NEW kinds, At(phase, kinds), phase # "leave",
         NEW before, NEW items, NEW last, EndsWith(items, before, last),
         last.phase = "leave", NEW global \in BOOLEAN,
         global <=> last.node.kind \in {"Func"},
         scopes' = Env!Enter(scopes, global), Others, Fits(items)
  PROVE  Does(items)
<1>1. /\ todo \in Seq(Item) /\ todo # <<>> /\ todo[1].phase = phase
      /\ scopes \in Seq(Facts!Scope(Binding)) /\ Len(scopes) \in Nat
  BY First
<1>2. items \in Seq(Item)
  BY DEF Fits
<1>3. /\ OpensLast(items) /\ Opening(items) = 1
      /\ items[Len(items)] = last
  BY QuietThen
<1>4. Closing(todo) = 0
  BY <1>1 DEF Closing
<1>5. Walks(todo, items, todo')
  BY <1>1, <1>2, <1>3 DEF Walks, Continue, Fits
<1> DEFINE scope == Facts!Opened(global)
<1>6. /\ scope \in Facts!Scope(Binding) /\ scope.global = global
      /\ scopes' = Append(scopes, scope)
  BY Facts!OpenedScope, SameScopes DEF Facts!Opened
<1> HIDE DEF scope
<1>7. /\ scopes' \in Seq(Facts!Scope(Binding))
      /\ Len(scopes') = Len(scopes) + 1
      /\ \A j \in 1..Len(scopes) : scopes'[j] = scopes[j]
      /\ scopes'[Len(scopes) + 1] = scope
  BY <1>1, <1>6, Facts!EnterEffect
<1>8. InStep(todo, items, scopes, scopes')
  BY <1>1, <1>3, <1>4, <1>7 DEF InStep
<1>9. SameBoundaries(items, scopes, scopes', {"Func"})
  BY <1>3, <1>6, <1>7 DEF SameBoundaries
<1>10. scopes' \in Seq(Env!Scope(Binding))
  BY <1>7, SameScopes
<1> QED
  BY <1>5, <1>8, <1>9, <1>10 DEF Does, Fits, Others

\* The end of such a visit.
LEMMA LeaveDoes ==
  ASSUME IInv, NEW kinds, At("leave", kinds), scopes' = Env!Leave(scopes),
         Others, Fits(<<>>)
  PROVE  Does(<<>>)
<1> DEFINE items == <<>>
<1>1. /\ todo \in Seq(Item) /\ todo # <<>> /\ todo[1].phase = "leave"
      /\ scopes \in Seq(Facts!Scope(Binding)) /\ Len(scopes) \in Nat
  BY First
<1>2. /\ items \in Seq(Item) /\ OpensLast(items) /\ Opening(items) = 0
      /\ Closing(todo) = 1
  BY <1>1, QuietSequences, QuietItems DEF Closing
<1>3. Fits(items)
  OBVIOUS
<1> HIDE DEF items
<1>4. Walks(todo, items, todo')
  BY <1>1, <1>2, <1>3 DEF Walks, Continue, Fits
<1>5. Len(scopes) > 1
  BY <1>1, ScopeToLeave DEF IInv, OneScopeEach
<1>6. scopes' = Facts!Leave(scopes)
  BY SameScopes
<1>7. /\ scopes' \in Seq(Facts!Scope(Binding))
      /\ Len(scopes') = Len(scopes) - 1
      /\ \A j \in 1..(Len(scopes) - 1) : scopes'[j] = scopes[j]
  BY <1>1, <1>5, <1>6, Facts!LeaveEffect
<1>8. InStep(todo, items, scopes, scopes')
  BY <1>1, <1>2, <1>5, <1>7 DEF InStep
<1>9. SameBoundaries(items, scopes, scopes', {"Func"})
  BY <1>1, <1>2, <1>7 DEF SameBoundaries
<1>10. scopes' \in Seq(Env!Scope(Binding))
  BY <1>7, SameScopes
<1>11. Does(items)
  BY <1>3, <1>4, <1>8, <1>9, <1>10 DEF Does, Fits, Others
<1> QED
  BY <1>11 DEF items

\* A visit that nothing is left of.
LEMMA NothingFits ==
  ASSUME IInv, NEW phase, NEW kinds, At(phase, kinds), Continue(<<>>), Others,
         Len(values') = Len(values) + Gain(todo[1])
  PROVE  Fits(<<>>)
<1> DEFINE left == Need(todo[1]) + Gain(todo[1])
<1>1. /\ Len(values') \in Nat /\ Len(values) \in Nat /\ todo[1] \in Item
  BY First DEF Others
<1>2. left \in Nat /\ Len(values') - Kept = left
  BY <1>1, NeedTypes DEF Kept
<1> HIDE DEF left
<1>3. Balanced(<<>>, Len(values') - Kept, left)
  BY <1>2, NothingBalanced
<1> QED
  BY <1>3, QuietSequences DEF Fits, left

\* Such a step.
LEMMA NothingDoes ==
  ASSUME IInv, NEW phase, NEW kinds, At(phase, kinds), phase # "leave",
         Continue(<<>>), Stores, Others,
         Len(values') = Len(values) + Gain(todo[1])
  PROVE  Does(<<>>)
BY NothingFits, QuietDoes, QuietSequences

\* The values after a step.
LEMMA ValuesAfter ==
  ASSUME values \in Seq(Value), NEW n \in Nat, n <= Len(values), NEW v \in Value
  PROVE  /\ Push(v) => values' \in Seq(Value) /\ Len(values') = Len(values) + 1
         /\ Replace(n, v) => values' \in Seq(Value) /\ Len(values') = Len(values) - n + 1
         /\ Pop /\ 1 <= Len(values) =>
              values' \in Seq(Value) /\ Len(values') = Len(values) - 1
<1>1. /\ Len(values) - n \in Nat /\ Len(values) - n <= Len(values)
      /\ 1 <= Len(values) => Len(values) - 1 \in Nat
      /\ Len(values) - 1 <= Len(values)
  OBVIOUS
<1>2. \A k \in Nat : k <= Len(values) =>
        SubSeq(values, 1, k) \in Seq(Value) /\ Len(SubSeq(values, 1, k)) = k
  OBVIOUS
<1>3. Below(values, n) \in Seq(Value) /\ Len(Below(values, n)) = Len(values) - n
  BY <1>1, <1>2 DEF Below
<1>4. 1 <= Len(values) =>
        Below(values, 1) \in Seq(Value) /\ Len(Below(values, 1)) = Len(values) - 1
  BY <1>1, <1>2 DEF Below
<1>5. \A s \in Seq(Value) : Append(s, v) \in Seq(Value) /\ Len(Append(s, v)) = Len(s) + 1
  OBVIOUS
<1>6. Push(v) => values' \in Seq(Value) /\ Len(values') = Len(values) + 1
  BY <1>5 DEF Push
<1>7. Replace(n, v) => values' \in Seq(Value) /\ Len(values') = Len(values) - n + 1
  BY <1>3, <1>5 DEF Replace
<1>8. Pop /\ 1 <= Len(values) =>
        values' \in Seq(Value) /\ Len(values') = Len(values) - 1
  BY <1>4 DEF Pop
<1> QED
  BY <1>6, <1>7, <1>8

\* The values a step takes.
LEMMA ValuesBefore ==
  ASSUME values \in Seq(Value)
  PROVE  /\ 1 <= Len(values) => Result \in Value
         /\ 2 <= Len(values) => values[Len(values) - 1] \in Value
BY DEF Result

\* Arguments of an instruction.
LEMMA ArgumentLists ==
  /\ <<>> \in Seq(Arguments)
  /\ \A a \in Arguments : <<a>> \in Seq(Arguments)
  /\ \A a, b \in Arguments : <<a, b>> \in Seq(Arguments)
  /\ \A a, b, c \in Arguments : <<a, b, c>> \in Seq(Arguments)
OBVIOUS

\* The value of the instruction emitted last.
LEMMA LatestType ==
  ASSUME NEW m, WellMade(m), NEW type \in {"i1", "i32", "ptr"}
  PROVE  Latest(m, type) \in Value
<1>1. m.count \in Nat
  BY ModuleParts DEF WellMade
<1> QED
  BY <1>1, ValueTypes DEF Latest

\* What a name is bound to.
LEMMA VariableType ==
  ASSUME scopes \in Seq(Facts!Scope(Binding)), NEW x \in Name
  PROVE  getAllocVar(x) \in Binding \cup {NullPtr}
<1>1. CASE Env!contains(scopes, x)
  BY <1>1, SameScopes, Facts!GetType DEF getAllocVar
<1>2. CASE ~Env!contains(scopes, x)
  BY <1>2 DEF getAllocVar
<1> QED
  BY <1>1, <1>2

\* An assignment.
LEMMA StoreInDoes ==
  ASSUME IInv, NEW phase, NEW kinds, At(phase, kinds), WellMade(ir),
         NEW x \in Name, NEW v \in Value, StoreIn(x, v)
  PROVE  Grows(ir, ir') /\ Stores
<1>1. scopes \in Seq(Facts!Scope(Binding))
  BY First
<1>2. "store" \in Opcodes
  BY DEF Opcodes
<1>3. CASE getAllocVar(x) # NullPtr
  <2> DEFINE args == <<v, getAllocVar(x)>>
  <2>1. args \in Seq(Arguments)
    BY <1>1, <1>3, VariableType, ValueTypes, ArgumentLists
  <2>2. ir' = Emit(ir, "store", args) /\ scopes' = scopes
    BY <1>3 DEF StoreIn
  <2> HIDE DEF args
  <2> QED
    BY <1>2, <2>1, <2>2, Emitted DEF Stores
<1>4. CASE getAllocVar(x) = NullPtr
  <2> DEFINE m == allocVar(ir)
             slot == Slot(m.count)
             args == <<v, slot>>
  <2>1. Grows(ir, m) /\ WellMade(m) /\ slot \in Binding
    BY Allocated DEF Grows
  <2>2. /\ ir' = Emit(m, "store", args)
        /\ scopes' = Facts!Bind(scopes, Len(scopes), x, slot)
    BY <1>4, SameScopes DEF StoreIn
  <2> HIDE DEF m, slot
  <2>3. args \in Seq(Arguments)
    BY <2>1, ValueTypes, ArgumentLists
  <2> HIDE DEF args
  <2>4. Grows(m, ir')
    BY <1>2, <2>1, <2>2, <2>3, Emitted
  <2> QED
    BY <2>1, <2>2, <2>4, GrowsOn DEF Stores
<1> QED
  BY <1>3, <1>4

-----------------------------------------------------------------------------
(***************************************************************************)
(* The visits that end with a value or without.                            *)
(***************************************************************************)

\* What is not changed keeps its type.
LEMMA OthersKept ==
  ASSUME IInv, NEW phase, NEW kinds, At(phase, kinds),
         functions' = functions, returnStack' = returnStack, status' = status,
         values' \in Seq(Value), Grows(ir, ir')
  PROVE  Others
BY First DEF Others

\* Only values and code change.
LEMMA PlainDoes ==
  ASSUME IInv, NEW phase, NEW kinds, At(phase, kinds), phase # "leave",
         Continue(<<>>), UNCHANGED environment,
         values' \in Seq(Value), Len(values') = Len(values) + Gain(todo[1]),
         Grows(ir, ir')
  PROVE  Does(<<>>)
<1>1. /\ scopes' = scopes /\ functions' = functions /\ returnStack' = returnStack
      /\ status' = status
  BY DEF environment
<1>2. Others /\ Stores
  BY <1>1, OthersKept DEF Stores
<1> QED
  BY <1>2, NothingDoes

\* A literal is a constant.
LEMMA LiteralDoes ==
  ASSUME IInv, VisitLiteralExpr
  PROVE  Does(<<>>)
<1> DEFINE v == IntObj(node.val)
<1>1. /\ At("visit", {"Literal"}) /\ Push(v) /\ Continue(<<>>)
      /\ UNCHANGED environment /\ ir' = ir
  BY DEF VisitLiteralExpr
<1>2. /\ node \in Node /\ node.kind = "Literal" /\ node = todo[1].node
      /\ todo[1].phase = "visit"
      /\ values \in Seq(Value) /\ Len(values) \in Nat /\ WellMade(ir)
  BY <1>1, First
<1>3. v \in Value
  BY <1>2, CodegenAssumption, ValueTypes
<1> HIDE DEF v
<1>4. values' \in Seq(Value) /\ Len(values') = Len(values) + 1
  BY <1>1, <1>2, <1>3, ValuesAfter
<1>5. Gain(todo[1]) = 1
  BY <1>2 DEF Gain, ExprKind
<1>6. Grows(ir, ir')
  BY <1>1, <1>2, ParentType
<1> QED
  BY <1>1, <1>4, <1>5, <1>6, PlainDoes

\* A variable is loaded.
LEMMA VariableDoes ==
  ASSUME IInv, VisitVarExpr
  PROVE  Stop(Signalled) \/ Does(<<>>)
<1> DEFINE x == getAllocVar(node.name)
           args == <<x>>
           m == Emit(ir, "load", args)
           v == Latest(m, "i32")
<1>1. At("visit", {"Var"})
  BY DEF VisitVarExpr
<1>2. CASE x = NullPtr
  BY <1>2 DEF VisitVarExpr
<1>3. CASE x # NullPtr
  <2>1. ir' = m /\ Push(v) /\ Continue(<<>>) /\ UNCHANGED environment
    BY <1>3 DEF VisitVarExpr
  <2>2. /\ node \in Node /\ node.kind = "Var" /\ node = todo[1].node
        /\ todo[1].phase = "visit" /\ scopes \in Seq(Facts!Scope(Binding))
        /\ values \in Seq(Value) /\ Len(values) \in Nat /\ WellMade(ir)
    BY <1>1, First
  <2>3. node.name \in Name
    BY <2>2, NodeFacts
  <2>4. x \in Arguments
    BY <2>2, <2>3, <1>3, VariableType, ValueTypes
  <2> HIDE DEF x
  <2>5. args \in Seq(Arguments) /\ "load" \in Opcodes
    BY <2>4, ArgumentLists DEF Opcodes
  <2> HIDE DEF args
  <2>6. Grows(ir, m) /\ WellMade(m)
    BY <2>2, <2>5, Emitted DEF Grows
  <2> HIDE DEF m
  <2>7. v \in Value
    BY <2>6, LatestType
  <2> HIDE DEF v
  <2>8. values' \in Seq(Value) /\ Len(values') = Len(values) + 1
    BY <2>1, <2>2, <2>7, ValuesAfter
  <2>9. Gain(todo[1]) = 1
    BY <2>2 DEF Gain, ExprKind
  <2>10. Grows(ir, ir')
    BY <2>1, <2>6
  <2> QED
    BY <1>1, <2>1, <2>8, <2>9, <2>10, PlainDoes
<1> QED
  BY <1>2, <1>3

\* A number is read into a variable of its own.
LEMMA InputDoes ==
  ASSUME IInv, VisitInputExpr
  PROVE  Does(<<>>)
<1> DEFINE library == Library(ir, Scanf, 0)
           variable == allocVar(library)
           slot == Slot(variable.count)
           args == <<Format, slot>>
           called == CallNamed(variable, Scanf, args)
           one == <<slot>>
           m == Emit(called, "load", one)
           v == Latest(m, "i32")
<1>1. /\ At("visit", {"Input"}) /\ ir' = m /\ Push(v) /\ Continue(<<>>)
      /\ UNCHANGED environment
  BY DEF VisitInputExpr
<1>2. /\ node.kind = "Input" /\ node = todo[1].node /\ todo[1].phase = "visit"
      /\ values \in Seq(Value) /\ Len(values) \in Nat /\ WellMade(ir)
  BY <1>1, First
<1>3. /\ Grows(ir, library) /\ WellMade(library)
      /\ FunctionsNamed(library, Scanf) # {}
  BY <1>2, LibraryThere DEF Grows
<1> HIDE DEF library
<1>4. /\ Grows(library, variable) /\ WellMade(variable)
      /\ variable.funcs = library.funcs
      /\ slot \in Arguments
  BY <1>3, Allocated, ValueTypes DEF Grows
<1>5. FunctionsNamed(variable, Scanf) # {}
  BY <1>3, <1>4 DEF FunctionsNamed
<1> HIDE DEF variable, slot
<1>6. args \in Seq(Arguments) /\ one \in Seq(Arguments)
  BY <1>4, ArgumentLists, ValueTypes
<1> HIDE DEF args, one
<1>7. Grows(variable, called) /\ WellMade(called)
  BY <1>4, <1>5, <1>6, CalledByName DEF Grows
<1> HIDE DEF called
<1>8. "load" \in Opcodes
  BY DEF Opcodes
<1>9. Grows(called, m) /\ WellMade(m)
  BY <1>6, <1>7, <1>8, Emitted DEF Grows
<1> HIDE DEF m
<1>10. v \in Value
  BY <1>9, LatestType
<1> HIDE DEF v
<1>11. values' \in Seq(Value) /\ Len(values') = Len(values) + 1
  BY <1>1, <1>2, <1>10, ValuesAfter
<1>12. Gain(todo[1]) = 1
  BY <1>2 DEF Gain, ExprKind
<1>13. Grows(ir, ir')
  BY <1>1, <1>3, <1>4, <1>7, <1>9, GrowsOn
<1> QED
  BY <1>1, <1>11, <1>12, <1>13, PlainDoes

\* An assignment keeps its value.
LEMMA AssignmentDoes ==
  ASSUME IInv, ResumeAssignment
  PROVE  Does(<<>>)
<1> DEFINE v == Result
<1>1. /\ At("resume", {"Assignment"}) /\ StoreIn(node.name, v) /\ Continue(<<>>)
      /\ UNCHANGED <<values, functions, returnStack, status>>
  BY DEF ResumeAssignment
<1>2. /\ node \in Node /\ node.kind = "Assignment" /\ node = todo[1].node
      /\ todo[1].phase = "resume"
      /\ values \in Seq(Value) /\ Len(values) \in Nat /\ WellMade(ir)
      /\ Need(todo[1]) <= Len(values)
  BY <1>1, First
<1>3. node.name \in Name
  BY <1>2, NodeFacts
<1>4. Need(todo[1]) = 1 /\ Gain(todo[1]) = 0
  BY <1>2 DEF Need, Gain
<1>5. v \in Value
  BY <1>2, <1>4, ValuesBefore
<1> HIDE DEF v
<1>6. Grows(ir, ir') /\ Stores
  BY <1>1, <1>2, <1>3, <1>5, StoreInDoes
<1>7. Others
  BY <1>1, <1>2, <1>6, OthersKept
<1>8. Len(values') = Len(values) + Gain(todo[1])
  BY <1>1, <1>2, <1>4
<1> QED
  BY <1>1, <1>6, <1>7, <1>8, NothingDoes

\* A negation replaces its operand.
LEMMA UnaryDoes ==
  ASSUME IInv, ResumeUnary
  PROVE  Does(<<>>)
<1> DEFINE v == Result
           args == <<v>>
           m == Emit(ir, "neg", args)
           w == Latest(m, TypeOfValue(v))
           n == IntObj(Wrap(-v[2]))
<1>1. /\ At("resume", {"Unary"}) /\ Continue(<<>>) /\ UNCHANGED environment
      /\ \/ v[1] = "int" /\ Replace(1, n) /\ ir' = ir
         \/ v[1] # "int" /\ ir' = m /\ Replace(1, w)
  BY DEF ResumeUnary
<1>2. /\ node.kind = "Unary" /\ node = todo[1].node /\ todo[1].phase = "resume"
      /\ values \in Seq(Value) /\ Len(values) \in Nat /\ WellMade(ir)
      /\ Need(todo[1]) <= Len(values)
  BY <1>1, First
<1>3. Need(todo[1]) = 1 /\ Gain(todo[1]) = 0
  BY <1>2 DEF Need, Gain
<1>4. v \in Value
  BY <1>2, <1>3, ValuesBefore
<1> HIDE DEF v
<1>5. v[1] = "int" => n \in Value
  <2>1. v[1] = "int" => v[2] \in Int
    BY <1>4, TagTypes, ValueTypes
  <2>2. v[1] = "int" => -v[2] \in Int
    BY <2>1
  <2> QED
    BY <2>2, WrapType, ValueTypes
<1>6. args \in Seq(Arguments) /\ "neg" \in Opcodes
  BY <1>4, ArgumentLists, ValueTypes DEF Opcodes
<1> HIDE DEF args, n
<1>7. Grows(ir, m) /\ WellMade(m) /\ Grows(ir, ir)
  BY <1>2, <1>6, Emitted, ParentType DEF Grows
<1> HIDE DEF m
<1>8. w \in Value
  BY <1>4, <1>7, LatestType, TagTypes
<1> HIDE DEF w
<1>9. 1 \in Nat /\ 1 <= Len(values)
  BY <1>2, <1>3
<1>10. values' \in Seq(Value) /\ Len(values') = Len(values) - 1 + 1
  BY <1>1, <1>2, <1>5, <1>8, <1>9, ValuesAfter
<1>11. Grows(ir, ir')
  BY <1>1, <1>7
<1>12. Len(values') = Len(values) + Gain(todo[1])
  BY <1>2, <1>3, <1>10
<1> QED
  BY <1>1, <1>10, <1>11, <1>12, PlainDoes

\* An operation replaces both.
LEMMA BinaryDoes ==
  ASSUME IInv, ResumeBinary
  PROVE  Does(<<>>)
<1> DEFINE lhs == values[Len(values) - 1]
           rhs == Result
           args == <<lhs, rhs>>
           m == Emit(ir, node.op, args)
           folded == Folded(node.op, lhs, rhs)
           v == Latest(m, ResultType(node.op))
<1>1. /\ At("resume", {"Binary"}) /\ Continue(<<>>) /\ UNCHANGED environment
      /\ \/ Replace(2, NullPtr) /\ ir' = ir
         \/ Folds(node.op, lhs, rhs) /\ Replace(2, folded) /\ ir' = ir
         \/ Replace(2, v) /\ ir' = m
  BY DEF ResumeBinary
<1>2. /\ node \in Node /\ node.kind = "Binary" /\ node = todo[1].node
      /\ todo[1].phase = "resume"
      /\ values \in Seq(Value) /\ Len(values) \in Nat /\ WellMade(ir)
      /\ Need(todo[1]) <= Len(values)
  BY <1>1, First
<1>3. Need(todo[1]) = 2 /\ Gain(todo[1]) = -1
  BY <1>2 DEF Need, Gain
<1>4. lhs \in Value /\ rhs \in Value
  BY <1>2, <1>3, ValuesBefore
<1>5. node.op \in Arithmetic \cup Comparisons /\ node.op \in Opcodes
  BY <1>2, NodeFacts DEF Operators, Arithmetic, Comparisons, Opcodes
<1> HIDE DEF lhs, rhs
<1>6. Folds(node.op, lhs, rhs) => folded \in Value
  BY <1>4, <1>5, FoldedType
<1> HIDE DEF folded
<1>7. args \in Seq(Arguments)
  BY <1>4, ArgumentLists, ValueTypes
<1> HIDE DEF args
<1>8. Grows(ir, m) /\ WellMade(m) /\ Grows(ir, ir)
  BY <1>2, <1>5, <1>7, Emitted, ParentType DEF Grows
<1> HIDE DEF m
<1>9. v \in Value
  BY <1>8, LatestType DEF ResultType
<1> HIDE DEF v
<1>10. 2 \in Nat /\ 2 <= Len(values) /\ NullPtr \in Value
  BY <1>2, <1>3, ValueTypes
<1>11. values' \in Seq(Value) /\ Len(values') = Len(values) - 2 + 1
  BY <1>1, <1>2, <1>6, <1>9, <1>10, ValuesAfter
<1>12. Grows(ir, ir')
  BY <1>1, <1>8
<1>13. Len(values') = Len(values) + Gain(todo[1])
  BY <1>2, <1>3, <1>11
<1> QED
  BY <1>1, <1>11, <1>12, <1>13, PlainDoes

\* The operand stays.
LEMMA PostfixDoes ==
  ASSUME IInv, ResumePostfix
  PROVE  Does(<<>>)
<1> DEFINE v == Result
           op == IF node.op = "++" THEN "+" ELSE "-"
           x == getAllocVar(node.kids[1].name)
           operands == <<v, IntObj(1)>>
           m == Emit(ir, op, operands)
           w == Latest(m, "i32")
           args == <<w, x>>
<1>1. /\ At("resume", {"Postfix"}) /\ Continue(<<>>) /\ UNCHANGED environment
      /\ values' = values
      /\ \/ ir' = ir
         \/ node.kids[1].kind = "Var" /\ ir' = Emit(m, "store", args)
  BY DEF ResumePostfix
<1>2. /\ node \in Node /\ node.kind = "Postfix" /\ node = todo[1].node
      /\ todo[1].phase = "resume" /\ scopes \in Seq(Facts!Scope(Binding))
      /\ values \in Seq(Value) /\ Len(values) \in Nat /\ WellMade(ir)
      /\ Need(todo[1]) <= Len(values)
  BY <1>1, First
<1>3. Need(todo[1]) = 1 /\ Gain(todo[1]) = 0
  BY <1>2 DEF Need, Gain
<1>4. v \in Value
  BY <1>2, <1>3, ValuesBefore
<1> HIDE DEF v
<1>5. operands \in Seq(Arguments) /\ op \in Opcodes /\ "store" \in Opcodes
  BY <1>4, ArgumentLists, ValueTypes DEF Opcodes, Arithmetic
<1> HIDE DEF operands, op
<1>6. Grows(ir, m) /\ WellMade(m) /\ Grows(ir, ir)
  BY <1>2, <1>5, Emitted, ParentType DEF Grows
<1> HIDE DEF m
<1>7. w \in Value
  BY <1>6, LatestType
<1> HIDE DEF w
<1>8. node.kids[1].kind = "Var" => x \in Value
  <2>1. node.kids[1] \in Node
    <3>1. Len(node.kids) = 1 /\ node.kids \in Seq(Node)
      BY <1>2, NodeFacts
    <3> QED
      BY <3>1
  <2>2. node.kids[1].kind = "Var" => node.kids[1].name \in Name
    BY <2>1, NodeFacts
  <2> QED
    BY <2>2, <1>2, VariableType, ValueTypes
<1> HIDE DEF x
<1>9. node.kids[1].kind = "Var" => args \in Seq(Arguments)
  BY <1>7, <1>8, ArgumentLists, ValueTypes
<1> HIDE DEF args
<1>10. node.kids[1].kind = "Var" => Grows(m, Emit(m, "store", args))
  BY <1>5, <1>6, <1>9, Emitted
<1>11. Grows(ir, ir')
  BY <1>1, <1>6, <1>10, GrowsOn
<1>12. values' \in Seq(Value) /\ Len(values') = Len(values) + Gain(todo[1])
  BY <1>1, <1>2, <1>3
<1> QED
  BY <1>1, <1>11, <1>12, PlainDoes

\* A call is emitted with the function and the arguments that were translated.
LEMMA CalledDoes ==
  ASSUME IInv, ResumeCallExpr
  PROVE  Does(<<>>)
<1> DEFINE count == Len(node.kids) + 1
           args == SubSeq(values, Len(values) - count + 1, Len(values))
           m == Emit(ir, "call", args)
           v == Latest(m, "i32")
<1>1. /\ At("resume", {"Call"}) /\ Continue(<<>>) /\ UNCHANGED environment
      /\ ir' = m /\ Replace(count, v)
  BY DEF ResumeCallExpr
<1>2. /\ node \in Node /\ node.kind = "Call" /\ node = todo[1].node
      /\ todo[1].phase = "resume"
      /\ values \in Seq(Value) /\ Len(values) \in Nat /\ WellMade(ir)
      /\ Need(todo[1]) <= Len(values)
  BY <1>1, First
<1>3. Len(node.kids) \in Nat
  BY <1>2, NodeFacts
<1>4. Need(todo[1]) = count /\ Gain(todo[1]) = -Len(node.kids)
  BY <1>2 DEF Need, Gain
<1>5. /\ count \in Nat /\ count <= Len(values)
      /\ Len(values) - count + 1 \in 1..(Len(values) + 1)
      /\ Len(values) - count + 1 = Len(values) + Gain(todo[1])
  BY SMTT(30), <1>2, <1>3, <1>4
<1> HIDE DEF count
<1>6. args \in Seq(Value)
  BY <1>2, <1>5
<1> HIDE DEF args
<1>7. args \in Seq(Arguments) /\ "call" \in Opcodes
  BY <1>6, ValueTypes DEF Opcodes
<1>8. Grows(ir, m) /\ WellMade(m)
  BY <1>2, <1>7, Emitted DEF Grows
<1> HIDE DEF m
<1>9. v \in Value
  BY <1>8, LatestType
<1> HIDE DEF v
<1>10. values' \in Seq(Value) /\ Len(values') = Len(values) - count + 1
  BY <1>1, <1>2, <1>5, <1>9, ValuesAfter
<1>11. Grows(ir, ir')
  BY <1>1, <1>8
<1> QED
  BY <1>1, <1>5, <1>10, <1>11, PlainDoes

\* A variable is initialized.
LEMMA VarStmtDoes ==
  ASSUME IInv, ResumeVarStmt
  PROVE  Does(<<>>)
<1> DEFINE v == Result
<1>1. /\ At("resume", {"VarStmt"}) /\ Pop /\ Continue(<<>>)
      /\ UNCHANGED <<functions, returnStack, status>>
      /\ \/ /\ IsFunctionValue(v) /\ ir' = ir
            /\ scopes' = Env!defineOrAssign(scopes, node.name, v)
         \/ StoreIn(node.name, v)
  BY DEF ResumeVarStmt
<1>2. /\ node \in Node /\ node.kind = "VarStmt" /\ node = todo[1].node
      /\ todo[1].phase = "resume"
      /\ values \in Seq(Value) /\ Len(values) \in Nat /\ WellMade(ir)
      /\ Need(todo[1]) <= Len(values)
  BY <1>1, First
<1>3. node.name \in Name
  BY <1>2, NodeFacts
<1>4. Need(todo[1]) = 1 /\ Gain(todo[1]) = -1
  BY <1>2 DEF Need, Gain
<1>5. v \in Value
  BY <1>2, <1>4, ValuesBefore
<1> HIDE DEF v
<1>6. Grows(ir, ir') /\ Stores
  <2>1. CASE /\ IsFunctionValue(v) /\ ir' = ir
             /\ scopes' = Env!defineOrAssign(scopes, node.name, v)
    <3>1. v \in Binding
      BY <2>1, <1>5, TagTypes DEF Binding
    <3>2. scopes' = Facts!defineOrAssign(scopes, node.name, v)
      BY <2>1, SameScopes
    <3> QED
      BY <2>1, <3>1, <3>2, <1>2, <1>3, ParentType DEF Stores
  <2>2. CASE StoreIn(node.name, v)
    BY <2>2, <1>1, <1>2, <1>3, <1>5, StoreInDoes
  <2> QED
    BY <2>1, <2>2, <1>1
<1>7. 1 <= Len(values) /\ 1 \in Nat
  BY <1>2, <1>4
<1>8. values' \in Seq(Value) /\ Len(values') = Len(values) - 1
  BY <1>1, <1>2, <1>5, <1>7, ValuesAfter
<1>9. Others
  BY <1>1, <1>6, <1>8, OthersKept
<1>10. Len(values') = Len(values) + Gain(todo[1])
  BY <1>2, <1>4, <1>8
<1> QED
  BY <1>1, <1>6, <1>9, <1>10, NothingDoes

\* The statements that use a value up.
LEMMA PrintDoes ==
  ASSUME IInv, ResumePrintStmt
  PROVE  Does(<<>>)
<1> DEFINE v == Result
           args == <<Format, v>>
           library == Library(ir, Printf, 2)
           m == CallNamed(library, Printf, args)
<1>1. /\ At("resume", {"Print"}) /\ Pop /\ Continue(<<>>) /\ UNCHANGED environment
      /\ ir' = m
  BY DEF ResumePrintStmt
<1>2. /\ node.kind = "Print" /\ node = todo[1].node /\ todo[1].phase = "resume"
      /\ values \in Seq(Value) /\ Len(values) \in Nat /\ WellMade(ir)
      /\ Need(todo[1]) <= Len(values)
  BY <1>1, First
<1>3. Need(todo[1]) = 1 /\ Gain(todo[1]) = -1
  BY <1>2 DEF Need, Gain
<1>4. v \in Value
  BY <1>2, <1>3, ValuesBefore
<1> HIDE DEF v
<1>5. args \in Seq(Arguments)
  BY <1>4, ArgumentLists, ValueTypes
<1> HIDE DEF args
<1>6. /\ Grows(ir, library) /\ WellMade(library)
      /\ FunctionsNamed(library, Printf) # {}
  BY <1>2, LibraryThere DEF Grows
<1> HIDE DEF library
<1>7. Grows(library, m)
  BY <1>5, <1>6, CalledByName
<1> HIDE DEF m
<1>8. Grows(ir, ir')
  BY <1>1, <1>6, <1>7, GrowsOn
<1>9. 1 <= Len(values) /\ 1 \in Nat
  BY <1>2, <1>3
<1>10. values' \in Seq(Value) /\ Len(values') = Len(values) - 1
  BY <1>1, <1>2, <1>4, <1>9, ValuesAfter
<1>11. Len(values') = Len(values) + Gain(todo[1])
  BY <1>2, <1>3, <1>10
<1> QED
  BY <1>1, <1>8, <1>10, <1>11, PlainDoes

\* One does nothing else with it.
LEMMA ExprStmtDoes ==
  ASSUME IInv, ResumeExprStmt
  PROVE  Does(<<>>)
<1>1. /\ At("resume", {"ExprStmt"}) /\ Pop /\ Continue(<<>>) /\ UNCHANGED environment
      /\ ir' = ir
  BY DEF ResumeExprStmt
<1>2. /\ node.kind = "ExprStmt" /\ node = todo[1].node /\ todo[1].phase = "resume"
      /\ values \in Seq(Value) /\ Len(values) \in Nat /\ WellMade(ir)
      /\ Need(todo[1]) <= Len(values)
  BY <1>1, First
<1>3. Need(todo[1]) = 1 /\ Gain(todo[1]) = -1
  BY <1>2 DEF Need, Gain
<1>4. 1 <= Len(values) /\ 1 \in Nat /\ NullPtr \in Value
  BY <1>2, <1>3, ValueTypes
<1>5. values' \in Seq(Value) /\ Len(values') = Len(values) - 1
  BY <1>1, <1>2, <1>4, ValuesAfter
<1>6. Len(values') = Len(values) + Gain(todo[1]) /\ Grows(ir, ir')
  BY <1>1, <1>2, <1>3, <1>5, ParentType
<1> QED
  BY <1>1, <1>5, <1>6, PlainDoes

\* A return leaves it for the statement around.
LEMMA ReturnDoes ==
  ASSUME IInv, ResumeReturnStmt
  PROVE  Does(<<>>)
<1> DEFINE v == Result
           args == <<v>>
<1>1. /\ At("resume", {"Return"}) /\ Pop /\ Continue(<<>>)
      /\ scopes' = scopes /\ functions' = functions /\ status' = status
      /\ returnStack' = Append(returnStack, v)
      /\ ir' = ir \/ ir' = Emit(ir, "ret", args)
  BY DEF ResumeReturnStmt
<1>2. /\ node.kind = "Return" /\ node = todo[1].node /\ todo[1].phase = "resume"
      /\ values \in Seq(Value) /\ Len(values) \in Nat /\ WellMade(ir)
      /\ Need(todo[1]) <= Len(values) /\ returnStack \in Seq(Value)
      /\ functions \in [Name -> ({"func"} \X Nat) \cup {Absent}]
  BY <1>1, First
<1>3. Need(todo[1]) = 1 /\ Gain(todo[1]) = -1
  BY <1>2 DEF Need, Gain
<1>4. v \in Value
  BY <1>2, <1>3, ValuesBefore
<1> HIDE DEF v
<1>5. args \in Seq(Arguments) /\ "ret" \in Opcodes
  BY <1>4, ArgumentLists, ValueTypes DEF Opcodes, Terminators
<1> HIDE DEF args
<1>6. Grows(ir, ir')
  BY <1>1, <1>2, <1>5, Emitted, ParentType
<1>7. 1 <= Len(values) /\ 1 \in Nat
  BY <1>2, <1>3
<1>8. values' \in Seq(Value) /\ Len(values') = Len(values) - 1
  BY <1>1, <1>2, <1>4, <1>7, ValuesAfter
<1>9. returnStack' \in Seq(Value)
  BY <1>1, <1>2, <1>4
<1>10. Others /\ Stores
  BY <1>1, <1>2, <1>6, <1>8, <1>9 DEF Others, Stores
<1>11. Len(values') = Len(values) + Gain(todo[1])
  BY <1>2, <1>3, <1>8
<1> QED
  BY <1>1, <1>10, <1>11, NothingDoes

\* The end of main.
LEMMA ProgramEnds ==
  ASSUME IInv, ResumeFunctionStmt
  PROVE  Does(<<>>)
<1> DEFINE args == <<IntObj(0)>>
<1>1. /\ At("resume", {"Function"}) /\ Continue(<<>>) /\ UNCHANGED environment
      /\ values' = values /\ ir' = Emit(ir, "ret", args)
  BY DEF ResumeFunctionStmt
<1>2. /\ node.kind = "Function" /\ node = todo[1].node /\ todo[1].phase = "resume"
      /\ values \in Seq(Value) /\ Len(values) \in Nat /\ WellMade(ir)
  BY <1>1, First
<1>3. Gain(todo[1]) = 0
  BY <1>2 DEF Gain
<1>4. args \in Seq(Arguments) /\ "ret" \in Opcodes
  BY ArgumentLists, ValueTypes DEF Opcodes, Terminators
<1> HIDE DEF args
<1>5. Grows(ir, ir')
  BY <1>1, <1>2, <1>4, Emitted
<1>6. values' \in Seq(Value) /\ Len(values') = Len(values) + Gain(todo[1])
  BY <1>1, <1>2, <1>3
<1> QED
  BY <1>1, <1>5, <1>6, PlainDoes

-----------------------------------------------------------------------------
(***************************************************************************)
(* The visits that go on below.                                            *)
(***************************************************************************)

\* A list of items with everything that is asked of it.
Good(items, a, b, n) ==
  /\ items \in Seq(Item)
  /\ Balanced(items, a, b)
  /\ \A q \in DOMAIN items : Fit(items[q], n)

\* A single item.
LEMMA SingleGood ==
  ASSUME NEW item \in Item, NEW a \in Nat, a >= Need(item), NEW n, Fit(item, n)
  PROVE  /\ a + Gain(item) \in Nat
         /\ Good(<<item>>, a, a + Gain(item), n)
         /\ item.phase # "leave" => Quiet(<<item>>)
<1> DEFINE items == <<item>>
<1>1. /\ a + Gain(item) \in Nat
      /\ Balanced(items, a, a + Gain(item))
  BY OneBalanced
<1>2. items \in Seq(Item) /\ (item.phase # "leave" => Quiet(items))
  BY QuietSequences
<1>3. \A q \in DOMAIN items : Fit(items[q], n)
  OBVIOUS
<1> HIDE DEF items
<1>4. Good(items, a, a + Gain(item), n)
  BY <1>1, <1>2, <1>3 DEF Good
<1> QED
  BY <1>1, <1>2, <1>4 DEF items

\* One more item after others.
LEMMA FollowedGood ==
  ASSUME NEW before, NEW a, NEW b \in Nat, NEW n,
         Good(before, a, b, n), Quiet(before),
         NEW last \in Item, b >= Need(last), Fit(last, n)
  PROVE  /\ b + Gain(last) \in Nat
         /\ Good(before \o <<last>>, a, b + Gain(last), n)
         /\ EndsWith(before \o <<last>>, before, last)
         /\ last.phase # "leave" => Quiet(before \o <<last>>)
<1> DEFINE one == <<last>>
           items == before \o one
<1>1. before \in Seq(Item) /\ one \in Seq(Item)
  BY DEF Good
<1>2. EndsWith(items, before, last) /\ items = before \o one
  BY <1>1 DEF EndsWith
<1>3. b + Gain(last) \in Nat /\ Balanced(one, b, b + Gain(last))
  BY OneBalanced
<1> HIDE DEF items, one
<1>4. /\ items \in Seq(Item)
      /\ Len(items) = Len(before) + 1
      /\ items[Len(items)] = last
      /\ \A q \in DOMAIN items :
           q = Len(items) \/ (q \in DOMAIN before /\ items[q] = before[q])
  <2>1. EndsWith(items, before, last)
    BY <1>2
  <2>2. items \in Seq(Item)
    BY <2>1, QuietThen
  <2>3. Len(items) = Len(before) + 1
    BY <2>1, QuietThen
  <2>4. items[Len(items)] = last
    BY <2>1, QuietThen
  <2>5. \A q \in DOMAIN items :
           q = Len(items) \/ (q \in DOMAIN before /\ items[q] = before[q])
    BY <2>1, QuietThen
  <2> QED
    BY <2>2, <2>3, <2>4, <2>5
<1>5. Balanced(items, a, b + Gain(last))
  BY <1>1, <1>2, <1>3, ThenBalanced DEF Good
<1>6. \A q \in DOMAIN items : Fit(items[q], n)
  BY <1>4 DEF Good
<1>7. last.phase # "leave" => Quiet(items)
  BY <1>4 DEF Quiet
<1>8. Good(items, a, b + Gain(last), n)
  BY <1>4, <1>5, <1>6 DEF Good
<1> QED
  BY <1>2, <1>3, <1>7, <1>8 DEF items, one

\* Visits of the nodes below.
LEMMA VisitsGood ==
  ASSUME NEW nodes \in Seq(Node), NEW a \in Nat, NEW n
  PROVE  /\ Quiet(VisitAll(nodes))
         /\ (\A i \in DOMAIN nodes : nodes[i].kind \in ExprKind) =>
              Good(VisitAll(nodes), a, a + Len(nodes), n)
         /\ (\A i \in DOMAIN nodes : nodes[i].kind \in StmtKind) =>
              Good(VisitAll(nodes), a, a, n)
<1> DEFINE items == VisitAll(nodes)
<1>1. items \in Seq(Item) /\ Quiet(items)
  BY QuietSequences
<1>2. \A q \in DOMAIN items : items[q].phase = "visit"
  BY VisitAllTypes
<1>3. /\ (\A i \in DOMAIN nodes : nodes[i].kind \in ExprKind) =>
           Balanced(items, a, a + Len(nodes))
      /\ (\A i \in DOMAIN nodes : nodes[i].kind \in StmtKind) => Balanced(items, a, a)
  BY VisitsBalanced
<1> HIDE DEF items
<1>4. \A q \in DOMAIN items : Fit(items[q], n)
  BY <1>2 DEF Fit
<1> QED
  BY <1>1, <1>3, <1>4 DEF Good, items

\* A visit of one of them.
LEMMA VisitGood ==
  ASSUME NEW n \in Node
  PROVE  /\ Visit(n) \in Item /\ Visit(n).phase = "visit" /\ Need(Visit(n)) = 0
         /\ Gain(Visit(n)) = IF n.kind \in ExprKind THEN 1 ELSE 0
         /\ \A m : Fit(Visit(n), m)
<1>1. Visit(n) \in Item /\ Visit(n).phase = "visit" /\ Visit(n).node = n
  BY ItemTypes
<1> QED
  BY <1>1 DEF Need, Gain, Fit

\* A list that is good is what a step may put first.
LEMMA GoodFits ==
  ASSUME NEW items, Continue(items),
         Good(items, Len(values') - Kept, Need(todo[1]) + Gain(todo[1]), Len(ir'.blocks))
  PROVE  Fits(items)
BY DEF Good, Fits

\* So is one that needs no values, in the place of an item that needs none.
LEMMA NewFits ==
  ASSUME IInv, NEW phase, NEW kinds, At(phase, kinds), NEW items, Continue(items),
         Len(values') = Len(values), Need(todo[1]) = 0,
         Good(items, 0, 0 + Gain(todo[1]), Len(ir'.blocks))
  PROVE  Fits(items)
<1>1. Len(values) \in Nat
  BY First
<1>2. Len(values') - Kept = 0
  BY <1>1 DEF Kept
<1> QED
  BY <1>2, GoodFits

\* The kinds of the nodes below.
LEMMA KidsOf ==
  ASSUME NEW n \in Node
  PROVE  /\ n.kind \in {"Scope", "Function", "Block"} =>
              \A i \in DOMAIN n.kids : n.kids[i].kind \in StmtKind
         /\ n.kind \notin {"Scope", "Function", "Block", "If", "While"} =>
              \A i \in DOMAIN n.kids : n.kids[i].kind \in ExprKind
         /\ n.kind \in {"If", "While"} =>
              /\ 1 \in DOMAIN n.kids /\ 2 \in DOMAIN n.kids
              /\ n.kids[1] \in Node /\ n.kids[1].kind \in ExprKind
              /\ n.kids[2] \in Node /\ n.kids[2].kind \in StmtKind
              /\ n.kids[2].kind \notin ExprKind
         /\ n.kind = "If" /\ Len(n.kids) = 3 =>
              n.kids[3] \in Node /\ n.kids[3].kind \in StmtKind
              /\ n.kids[3].kind \notin ExprKind
<1>1. /\ n.kids \in Seq(Node) /\ Len(n.kids) \in Nat /\ DOMAIN n.kids = 1..Len(n.kids)
      /\ \A i \in DOMAIN n.kids : n.kids[i] \in Node /\ n.kids[i].kind \in KidKind(n, i)
      /\ n.kind = "While" => Len(n.kids) = 2
      /\ n.kind = "If" => Len(n.kids) \in {2, 3}
  BY NodeFacts
<1>2. \A kind \in StmtKind : kind \notin ExprKind
  BY DEF StmtKind, ExprKind
<1>3. n.kind \in {"Scope", "Function", "Block"} =>
        \A i \in DOMAIN n.kids : n.kids[i].kind \in StmtKind
  BY <1>1 DEF KidKind
<1>4. n.kind \notin {"Scope", "Function", "Block", "If", "While"} =>
        \A i \in DOMAIN n.kids : n.kids[i].kind \in ExprKind
  BY <1>1 DEF KidKind
<1>5. n.kind \in {"If", "While"} =>
              /\ 1 \in DOMAIN n.kids /\ 2 \in DOMAIN n.kids
              /\ n.kids[1] \in Node /\ n.kids[1].kind \in ExprKind
              /\ n.kids[2] \in Node /\ n.kids[2].kind \in StmtKind
  <2> SUFFICES ASSUME n.kind \in {"If", "While"}
               PROVE  /\ 1 \in DOMAIN n.kids /\ 2 \in DOMAIN n.kids
                      /\ n.kids[1] \in Node /\ n.kids[1].kind \in ExprKind
                      /\ n.kids[2] \in Node /\ n.kids[2].kind \in StmtKind
    OBVIOUS
  <2>1. 1 \in DOMAIN n.kids /\ 2 \in DOMAIN n.kids
    <3> DEFINE length == Len(n.kids)
    <3>1. length \in {2, 3} /\ DOMAIN n.kids = 1..length
      <4>1. CASE n.kind = "If"
        BY <4>1, <1>1
      <4>2. CASE n.kind = "While"
        BY <4>2, <1>1
      <4> QED
        BY <4>1, <4>2
    <3> HIDE DEF length
    <3>2. 1 \in 1..length /\ 2 \in 1..length
      BY <3>1
    <3> QED
      BY <3>1, <3>2
  <2>2. KidKind(n, 1) = ExprKind /\ KidKind(n, 2) = StmtKind
    BY DEF KidKind
  <2> QED
    BY <2>1, <2>2, <1>1
<1>6. n.kind = "If" /\ Len(n.kids) = 3 => n.kids[3] \in Node /\ n.kids[3].kind \in StmtKind
  <2>1. Len(n.kids) = 3 => 3 \in DOMAIN n.kids
    BY <1>1
  <2> QED
    BY <2>1, <1>1 DEF KidKind
<1> QED
  BY <1>2, <1>3, <1>4, <1>5, <1>6

\* A grouping, or nothing.
LEMMA DescendDoes ==
  ASSUME IInv, Descend
  PROVE  \E items : Does(items)
<1> DEFINE items == VisitAll(node.kids)
           a == 0
<1>1. /\ At("visit", {"Grouping", "Null"}) /\ Continue(items)
      /\ UNCHANGED environment /\ values' = values /\ ir' = ir
  BY DEF Descend
<1>2. /\ node \in Node /\ node.kind \in {"Grouping", "Null"} /\ node = todo[1].node
      /\ todo[1].phase = "visit" /\ values \in Seq(Value) /\ a \in Nat /\ WellMade(ir)
  <2> DEFINE kinds == {"Grouping", "Null"}
  <2>1. At("visit", kinds) /\ "Function" \notin kinds
    BY <1>1
  <2>2. /\ node \in Node /\ node.kind \in kinds /\ node = todo[1].node
        /\ todo[1].phase = "visit" /\ values \in Seq(Value) /\ Len(values) \in Nat
        /\ WellMade(ir)
    <3> HIDE DEF kinds
    <3> QED
      BY <2>1, First
  <2> QED
    BY <2>2
<1>3. node.kids \in Seq(Node)
  BY <1>2, NodeFacts
<1>4. Good(items, a, a + Gain(todo[1]), Len(ir'.blocks))
  <2>1. CASE node.kind = "Grouping"
    <3>1. Len(node.kids) = 1 /\ \A i \in DOMAIN node.kids : node.kids[i].kind \in ExprKind
      BY <2>1, <1>2, NodeFacts, KidsOf
    <3>2. Gain(todo[1]) = 1
      BY <2>1, <1>2 DEF Gain, ExprKind
    <3>3. Good(items, a, a + Len(node.kids), Len(ir'.blocks))
      BY <3>1, <1>2, <1>3, VisitsGood
    <3> QED
      BY <3>1, <3>2, <3>3
  <2>2. CASE node.kind = "Null"
    <3>1. node.kids = <<>>
      BY <2>2, <1>2, NodeFacts
    <3>2. Gain(todo[1]) = 0
      BY <2>2, <1>2 DEF Gain, ExprKind
    <3>3. \A i \in DOMAIN node.kids : node.kids[i].kind \in StmtKind
      BY <3>1
    <3>4. Good(items, a, a, Len(ir'.blocks))
      BY <3>3, <1>2, <1>3, VisitsGood
    <3>5. a + Gain(todo[1]) = a
      BY <3>2, <1>2
    <3> QED
      BY <3>4, <3>5
  <2> QED
    BY <2>1, <2>2, <1>2
<1>5. Quiet(items)
  BY <1>2, <1>3, VisitsGood
<1> HIDE DEF items
<1>6. Fits(items)
  <2>1. Need(todo[1]) = 0
    BY <1>2 DEF Need
  <2> QED
    BY <2>1, <1>1, <1>4, NewFits
<1>7. Others /\ Stores
  <2>1. /\ scopes' = scopes /\ functions' = functions /\ returnStack' = returnStack
        /\ status' = status
    BY <1>1 DEF environment
  <2>2. values' \in Seq(Value) /\ Grows(ir, ir')
    BY <1>1, <1>2, ParentType
  <2> QED
    BY <2>1, <2>2, <1>1, OthersKept DEF Stores
<1> QED
  BY <1>1, <1>5, <1>6, <1>7, QuietDoes

\* Operands first.
LEMMA OperandsDo ==
  ASSUME IInv, VisitOperands
  PROVE  \E items : Does(items)
<1> DEFINE operands == IF node.kind = "If" THEN <<node.kids[1]>> ELSE node.kids
           before == VisitAll(operands)
           last == Resume(node)
           items == before \o <<last>>
           a == 0
           n == Len(ir'.blocks)
           kinds == {"Assignment", "Unary", "Binary", "Postfix", "VarStmt", "If",
                     "Print", "ExprStmt", "Return"}
<1>1. /\ At("visit", kinds) /\ Continue(items)
      /\ UNCHANGED environment /\ values' = values /\ ir' = ir
  BY DEF VisitOperands
<1>2. /\ node \in Node /\ node.kind \in kinds /\ node = todo[1].node
      /\ todo[1].phase = "visit" /\ values \in Seq(Value) /\ a \in Nat /\ WellMade(ir)
  BY <1>1, First
<1>3. /\ operands \in Seq(Node)
      /\ \A i \in DOMAIN operands : operands[i].kind \in ExprKind
      /\ Len(operands) = IF node.kind = "Binary" THEN 2 ELSE 1
  <2>1. CASE node.kind = "If"
    <3> DEFINE kid == node.kids[1]
    <3>1. kid \in Node /\ kid.kind \in ExprKind
      BY <2>1, <1>2, KidsOf
    <3>2. operands = <<kid>>
      BY <2>1
    <3> HIDE DEF kid, operands
    <3> QED
      BY <3>1, <3>2, <2>1
  <2>2. CASE node.kind # "If"
    <3>1. operands = node.kids
      BY <2>2
    <3>2. /\ node.kids \in Seq(Node)
          /\ Len(node.kids) = IF node.kind = "Binary" THEN 2 ELSE 1
      BY <2>2, <1>2, NodeFacts
    <3>3. \A i \in DOMAIN node.kids : node.kids[i].kind \in ExprKind
      BY <2>2, <1>2, KidsOf
    <3> QED
      BY <3>1, <3>2, <3>3
  <2> QED
    BY <2>1, <2>2
<1>4. /\ last \in Item /\ last.phase = "resume" /\ last.node = node
  BY <1>2, ItemTypes
<1> HIDE DEF operands
<1>5. Good(before, a, a + Len(operands), n) /\ Quiet(before)
  BY <1>2, <1>3, VisitsGood
<1>6. /\ Need(last) = Len(operands)
      /\ Len(operands) + Gain(last) = Gain(todo[1])
      /\ Fit(last, n)
  <2>1. Need(last) = IF node.kind = "Binary" THEN 2 ELSE 1
    BY <1>2, <1>4 DEF Need
  <2>2. Gain(last) = IF node.kind \in {"Assignment", "Unary", "Postfix"} THEN 0 ELSE -1
    BY <1>2, <1>4 DEF Gain
  <2>3. Gain(todo[1]) = IF node.kind \in {"Assignment", "Unary", "Postfix", "Binary"}
                          THEN 1 ELSE 0
    BY <1>2 DEF Gain, ExprKind
  <2>4. Fit(last, n)
    BY <1>2, <1>4 DEF Fit
  <2> QED
    BY <2>1, <2>2, <2>3, <2>4, <1>2, <1>3
<1>7. /\ a + Len(operands) \in Nat /\ a + Len(operands) >= Need(last)
      /\ a + Len(operands) + Gain(last) = a + Gain(todo[1])
  <2>1. Gain(last) \in Int /\ Gain(todo[1]) \in Int /\ Len(operands) \in Nat
    BY <1>3, <1>4, <1>6, <1>2, NeedTypes DEF Gain
  <2> QED
    BY <2>1, <1>2, <1>6
<1> HIDE DEF before, last
<1>8. /\ Good(items, a, a + Len(operands) + Gain(last), n)
      /\ Quiet(items)
  BY <1>4, <1>5, <1>6, <1>7, FollowedGood
<1> HIDE DEF items
<1>9. Good(items, a, a + Gain(todo[1]), n)
  BY <1>7, <1>8
<1>10. Fits(items)
  <2>1. Need(todo[1]) = 0
    BY <1>2 DEF Need
  <2> QED
    BY <2>1, <1>1, <1>9, NewFits
<1>11. Others /\ Stores
  <2>1. /\ scopes' = scopes /\ functions' = functions /\ returnStack' = returnStack
        /\ status' = status
    BY <1>1 DEF environment
  <2>2. values' \in Seq(Value) /\ Grows(ir, ir')
    BY <1>1, <1>2, ParentType
  <2> QED
    BY <2>1, <2>2, <1>1, OthersKept DEF Stores
<1> QED
  BY <1>1, <1>8, <1>10, <1>11, QuietDoes

\* What the items that wait need and give.
LEMMA ItemAtTypes ==
  ASSUME NEW n \in Node, NEW i \in Nat, NEW phase \in {"leave", "param", "then", "else",
                                                       "body", "resume"}
  PROVE  /\ ItemAt(phase, n, i) \in Item /\ ItemAt(phase, n, i).phase = phase
         /\ ItemAt(phase, n, i).node = n /\ ItemAt(phase, n, i).index = i
<1>1. phase \in Phases
  BY DEF Phases
<1> QED
  BY <1>1 DEF ItemAt, AnItem, Item

\* The loop over the statements of a scope.
LEMMA LoopTypes ==
  ASSUME NEW n \in Node, NEW i \in Nat
  PROVE  /\ ResumeAt(n, i) \in Item /\ ResumeAt(n, i).phase = "resume"
         /\ ResumeAt(n, i).node = n /\ ResumeAt(n, i).index = i
BY DEF ResumeAt, AnItem, Item, Phases

\* A scope expression or a block.
LEMMA BlockDoes ==
  ASSUME IInv, VisitBlock
  PROVE  \E items : Does(items)
<1> DEFINE loop == ResumeAt(node, 0)
           before == IF node.kind = "Scope" THEN <<loop>> ELSE VisitAll(node.kids)
           last == Leaving(node)
           items == before \o <<last>>
           a == 0
           n == Len(ir'.blocks)
           kinds == {"Scope", "Block"}
<1>1. /\ At("visit", kinds) /\ Continue(items) /\ scopes' = Env!Enter(scopes, FALSE)
      /\ values' = values /\ functions' = functions /\ returnStack' = returnStack
      /\ ir' = ir /\ status' = status
  BY DEF VisitBlock
<1>2. /\ node \in Node /\ node.kind \in kinds /\ node = todo[1].node
      /\ todo[1].phase = "visit" /\ values \in Seq(Value) /\ a \in Nat /\ WellMade(ir)
  BY <1>1, First
<1>3. /\ last \in Item /\ last.phase = "leave" /\ last.node = node
      /\ Need(last) = 0 /\ Gain(last) = 0 /\ Fit(last, n)
  <2>1. last \in Item /\ last.phase = "leave" /\ last.node = node
    BY <1>2, ItemTypes
  <2> QED
    BY <2>1, <1>2 DEF Need, Gain, Fit
<1>4. Gain(todo[1]) = IF node.kind = "Scope" THEN 1 ELSE 0
  BY <1>2 DEF Gain, ExprKind
<1>5. a + Gain(todo[1]) \in Nat
  BY <1>2, <1>4
<1>6. Good(before, a, a + Gain(todo[1]), n) /\ Quiet(before)
  <2>1. CASE node.kind = "Scope"
    <3>1. loop \in Item /\ loop.phase = "resume" /\ loop.node = node /\ loop.index = 0
      BY <1>2, LoopTypes
    <3>2. Len(node.kids) \in Nat
      BY <1>2, NodeFacts
    <3>3. /\ Need(loop) = 0 /\ Gain(loop) = 1 /\ Fit(loop, n)
      BY <2>1, <3>1, <3>2 DEF Need, Gain, Fit
    <3>4. before = <<loop>> /\ Gain(todo[1]) = Gain(loop)
      BY <2>1, <3>3, <1>4
    <3> HIDE DEF loop, before
    <3>5. a >= Need(loop)
      BY <3>3, <1>2
    <3>6. Good(<<loop>>, a, a + Gain(loop), n) /\ Quiet(<<loop>>)
      BY <3>1, <3>3, <3>5, <1>2, SingleGood
    <3> QED
      BY <3>4, <3>6
  <2>2. CASE node.kind # "Scope"
    <3>1. before = VisitAll(node.kids) /\ Gain(todo[1]) = 0
      BY <2>2, <1>4
    <3>2. node.kids \in Seq(Node) /\ \A i \in DOMAIN node.kids : node.kids[i].kind \in StmtKind
      BY <2>2, <1>2, NodeFacts, KidsOf
    <3> HIDE DEF before
    <3>3. Good(before, a, a, n) /\ Quiet(before)
      BY <3>1, <3>2, <1>2, VisitsGood
    <3>4. a + Gain(todo[1]) = a
      BY <3>1, <1>2
    <3> QED
      BY <3>3, <3>4
  <2> QED
    BY <2>1, <2>2
<1> HIDE DEF before, last
<1>7. a + Gain(todo[1]) >= Need(last) /\ a + Gain(todo[1]) + Gain(last) = a + Gain(todo[1])
  BY <1>3, <1>5
<1>8. /\ Good(items, a, a + Gain(todo[1]) + Gain(last), n)
      /\ EndsWith(items, before, last)
  BY <1>3, <1>5, <1>6, <1>7, FollowedGood
<1> HIDE DEF items
<1>9. Good(items, a, a + Gain(todo[1]), n)
  BY <1>7, <1>8
<1>10. Fits(items)
  <2>1. Need(todo[1]) = 0
    BY <1>2 DEF Need
  <2> QED
    BY <2>1, <1>1, <1>9, NewFits
<1>11. Others
  BY <1>1, <1>2, ParentType, OthersKept
<1>12. FALSE <=> last.node.kind \in {"Func"}
  BY <1>2, <1>3
<1>13. FALSE \in BOOLEAN
  OBVIOUS
<1> QED
  BY <1>1, <1>3, <1>8, <1>10, <1>11, <1>12, <1>13, EnterDoes

\* The end of one.
LEMMA EndDoes ==
  ASSUME IInv, Leave
  PROVE  Does(<<>>)
<1>1. /\ At("leave", {"Scope", "Block"}) /\ scopes' = Env!Leave(scopes) /\ Continue(<<>>)
      /\ values' = values /\ functions' = functions /\ returnStack' = returnStack
      /\ ir' = ir /\ status' = status
  BY DEF Leave
<1>2. /\ node.kind \in {"Scope", "Block"} /\ node = todo[1].node
      /\ todo[1].phase = "leave" /\ values \in Seq(Value) /\ Len(values) \in Nat
      /\ WellMade(ir)
  BY <1>1, First
<1>3. Gain(todo[1]) = 0
  BY <1>2 DEF Gain
<1>4. Others
  BY <1>1, <1>2, ParentType, OthersKept
<1>5. Len(values') = Len(values) + Gain(todo[1])
  BY <1>1, <1>2, <1>3
<1>6. Fits(<<>>)
  BY <1>1, <1>4, <1>5, NothingFits
<1> QED
  BY <1>1, <1>4, <1>6, LeaveDoes

\* The next statement of a scope expression.
LEMMA StatementDoes ==
  ASSUME IInv, ScopeContinues
  PROVE  \E items : Does(items)
<1> DEFINE i == todo[1].index + 1
           first == Visit(node.kids[i])
           last == ResumeAt(node, i)
           items == <<first, last>>
           a == 0
           n == Len(ir'.blocks)
<1>1. /\ At("resume", {"Scope"}) /\ ~Exhausted /\ Continue(items)
      /\ UNCHANGED environment /\ values' = values /\ ir' = ir
  BY DEF ScopeContinues
<1>2. /\ node \in Node /\ node.kind = "Scope" /\ node = todo[1].node
      /\ todo[1].phase = "resume" /\ values \in Seq(Value) /\ a \in Nat /\ WellMade(ir)
      /\ block \in Nat /\ block = todo[1].index /\ Fit(todo[1], Len(ir.blocks))
  BY <1>1, First
<1>3. /\ node.kids \in Seq(Node) /\ Len(node.kids) \in Nat
      /\ DOMAIN node.kids = 1..Len(node.kids)
      /\ \A k \in DOMAIN node.kids : node.kids[k].kind \in StmtKind
  BY <1>2, NodeFacts, KidsOf
<1>4. i \in Nat /\ i \in DOMAIN node.kids /\ i <= Len(node.kids)
  <2>1. block # Len(node.kids)
    BY <1>1, <1>2 DEF Exhausted
  <2>2. block <= Len(node.kids)
    BY <1>2 DEF Fit
  <2>3. i = block + 1
    BY <1>2
  <2> HIDE DEF i
  <2>4. i \in Nat /\ i <= Len(node.kids) /\ i >= 1
    BY <2>1, <2>2, <2>3, <1>2, <1>3
  <2> QED
    BY <2>4, <1>3
<1> HIDE DEF i
<1>5. node.kids[i] \in Node /\ node.kids[i].kind \notin ExprKind
  BY <1>3, <1>4 DEF StmtKind, ExprKind
<1>6. /\ first \in Item /\ first.phase = "visit" /\ Need(first) = 0 /\ Gain(first) = 0
      /\ Fit(first, n)
  BY <1>5, VisitGood
<1>7. /\ last \in Item /\ last.phase = "resume" /\ last.node = node /\ last.index = i
  BY <1>2, <1>4, LoopTypes
<1>8. Need(last) = 0 /\ Gain(last) = 1 /\ Fit(last, n) /\ Gain(todo[1]) = 1
  BY <1>2, <1>4, <1>7 DEF Need, Gain, Fit
<1> HIDE DEF first, last
<1>9. Good(<<first>>, a, a + Gain(first), n) /\ Quiet(<<first>>)
  <2>1. a >= Need(first)
    BY <1>2, <1>6
  <2> QED
    BY <2>1, <1>2, <1>6, SingleGood
<1>10. a + Gain(first) = a /\ a >= Need(last) /\ a + Gain(last) = a + Gain(todo[1])
  BY <1>2, <1>6, <1>8
<1> DEFINE before == <<first>>
<1>11. items = before \o <<last>> /\ Good(before, a, a, n) /\ Quiet(before)
  BY <1>6, <1>7, <1>9, <1>10, TwoItems
<1> HIDE DEF before, items
<1>12. Good(items, a, a + Gain(last), n) /\ Quiet(items)
  <2>1. Good(before \o <<last>>, a, a + Gain(last), n) /\ Quiet(before \o <<last>>)
    BY <1>2, <1>7, <1>8, <1>10, <1>11, FollowedGood
  <2> QED
    BY <2>1, <1>11
<1>13. Fits(items)
  <2>1. Need(todo[1]) = 0
    BY <1>2 DEF Need
  <2>2. Good(items, 0, 0 + Gain(todo[1]), Len(ir'.blocks))
    BY <1>10, <1>12
  <2> QED
    BY <2>1, <2>2, <1>1, NewFits
<1>14. Others /\ Stores
  <2>1. /\ scopes' = scopes /\ functions' = functions /\ returnStack' = returnStack
        /\ status' = status
    BY <1>1 DEF environment
  <2>2. values' \in Seq(Value) /\ Grows(ir, ir')
    BY <1>1, <1>2, ParentType
  <2> QED
    BY <2>1, <2>2, <1>1, OthersKept DEF Stores
<1> QED
  BY <1>1, <1>12, <1>13, <1>14, QuietDoes

\* Its value.
LEMMA ScopeValueDoes ==
  ASSUME IInv, ScopeEnds
  PROVE  Does(<<>>)
<1> DEFINE v == returnStack[Len(returnStack)]
<1>1. /\ At("resume", {"Scope"}) /\ Continue(<<>>)
      /\ scopes' = scopes /\ functions' = functions /\ ir' = ir /\ status' = status
      /\ \/ returnStack # <<>> /\ Push(v) /\ returnStack' = Below(returnStack, 1)
         \/ Push(NullPtr) /\ returnStack' = returnStack
  BY DEF ScopeEnds, Returned
<1>2. /\ node.kind = "Scope" /\ node = todo[1].node
      /\ todo[1].phase = "resume" /\ values \in Seq(Value) /\ Len(values) \in Nat
      /\ WellMade(ir) /\ returnStack \in Seq(Value)
      /\ functions \in [Name -> ({"func"} \X Nat) \cup {Absent}]
  BY <1>1, First
<1>3. Gain(todo[1]) = 1
  BY <1>2 DEF Gain
<1>4. returnStack # <<>> => v \in Value /\ Below(returnStack, 1) \in Seq(Value)
  BY <1>2 DEF Below
<1> HIDE DEF v
<1>5. values' \in Seq(Value) /\ Len(values') = Len(values) + 1 /\ returnStack' \in Seq(Value)
  <2>1. 0 \in Nat /\ 0 <= Len(values) /\ NullPtr \in Value
    BY <1>2, ValueTypes
  <2> QED
    BY <2>1, <1>1, <1>2, <1>4, ValuesAfter
<1>6. Others /\ Stores
  BY <1>1, <1>2, <1>5, ParentType DEF Others, Stores
<1>7. Len(values') = Len(values) + Gain(todo[1])
  BY <1>2, <1>3, <1>5
<1> QED
  BY <1>1, <1>6, <1>7, NothingDoes

-----------------------------------------------------------------------------
(***************************************************************************)
(* Functions.                                                              *)
(***************************************************************************)

\* Three items.
LEMMA ThreeItems ==
  ASSUME NEW a \in Item, NEW b \in Item, NEW c \in Item
  PROVE  <<a, b>> \o <<c>> = <<a, b, c>>
<1> DEFINE two == <<a, b>>
<1>1. two \in Seq(Item) /\ Len(two) = 2 /\ two[1] = a /\ two[2] = b
  OBVIOUS
<1>2. \A last : <<a, b, last>> = two \o <<last>>
  OBVIOUS
<1> QED
  BY <1>2

\* A function: its parameters, its body, and back to where code went.
LEMMA FunctionDoes ==
  ASSUME IInv, VisitFuncExpr
  PROVE  \E items : Does(items)
<1> DEFINE body == node.kids[1]
           parameters == ItemAt("param", node, 1)
           loop == ResumeAt(body, 0)
           last == ItemAt("leave", node, ir.insert)
           items == <<parameters, loop, last>>
           a == 0
           n == Len(ir'.blocks)
           f == FunctionAt(Len(ir.funcs) + 1)
<1>1. /\ At("visit", {"Func"}) /\ Continue(items) /\ scopes' = Env!Enter(scopes, TRUE)
      /\ ir' = Define(ir, node.name, Len(node.params))
      /\ \/ functions' = functions
         \/ node.name # NoName /\ functions' = [functions EXCEPT ![node.name] = f]
      /\ values' = values /\ returnStack' = returnStack /\ status' = status
  BY DEF VisitFuncExpr
<1>2. /\ node \in Node /\ node.kind = "Func" /\ node = todo[1].node
      /\ todo[1].phase = "visit" /\ values \in Seq(Value) /\ a \in Nat /\ WellMade(ir)
      /\ returnStack \in Seq(Value)
      /\ functions \in [Name -> ({"func"} \X Nat) \cup {Absent}]
  BY <1>1, First
<1>3. /\ body \in Node /\ body.kind = "Scope" /\ Len(body.kids) \in Nat
      /\ Len(node.params) \in Nat /\ node.name \in Name \cup {NoName}
  <2>1. /\ node.kids \in Seq(Node) /\ Len(node.kids) = 1 /\ body.kind = "Scope"
        /\ node.params \in Seq(Name) /\ node.name \in Name \cup {NoName}
    BY <1>2, NodeFacts
  <2>2. body \in Node
    BY <2>1
  <2> HIDE DEF body
  <2>3. Len(body.kids) \in Nat
    BY <2>2, NodeFacts
  <2> QED
    BY <2>1, <2>2, <2>3
<1>4. Grows(ir, ir') /\ n = Len(ir.blocks) + 1
  <2>1. /\ ir \in ModuleState /\ \A b \in DOMAIN ir.blocks : HasEntry(ir, ir.blocks[b].func)
        /\ node.name \in Name \cup {NoName, Main, Printf, Scanf}
    BY <1>2, <1>3 DEF WellMade
  <2>2. Grows(ir, Define(ir, node.name, Len(node.params)))
    BY <2>1, <1>3, Defined
  <2>3. Len(Define(ir, node.name, Len(node.params)).blocks) = Len(ir.blocks) + 1
    BY <2>1, <1>3, Defined
  <2> QED
    BY <2>2, <2>3, <1>1
<1>5. /\ ir.insert \in Nat /\ ir.insert \in 1..n
      /\ f \in {"func"} \X Nat
  <2>1. /\ ir \in ModuleState /\ ir.insert \in DOMAIN ir.blocks
    BY <1>2 DEF WellMade
  <2>2. /\ Len(ir.blocks) \in Nat /\ DOMAIN ir.blocks = 1..Len(ir.blocks)
        /\ ir.insert \in Nat /\ Len(ir.funcs) \in Nat
    BY <2>1, ModuleParts
  <2> QED
    BY <2>1, <2>2, <1>4 DEF FunctionAt
<1> HIDE DEF body, f
<1>6. /\ parameters \in Item /\ parameters.phase = "param"
      /\ Need(parameters) = 0 /\ Gain(parameters) = 0 /\ Fit(parameters, n)
  <2>1. parameters \in Item /\ parameters.phase = "param" /\ parameters.index = 1
    BY <1>2, ItemAtTypes
  <2> QED
    BY <2>1 DEF Need, Gain, Fit
<1>7. /\ loop \in Item /\ loop.phase = "resume"
      /\ Need(loop) = 0 /\ Gain(loop) = 1 /\ Fit(loop, n)
  <2>1. loop \in Item /\ loop.phase = "resume" /\ loop.node = body /\ loop.index = 0
    BY <1>3, LoopTypes
  <2> QED
    BY <2>1, <1>3 DEF Need, Gain, Fit
<1>8. /\ last \in Item /\ last.phase = "leave" /\ last.node = node
      /\ Need(last) = 1 /\ Gain(last) = 0 /\ Fit(last, n)
  <2>1. last \in Item /\ last.phase = "leave" /\ last.node = node /\ last.index = ir.insert
    BY <1>2, <1>5, ItemAtTypes
  <2> QED
    BY <2>1, <1>2, <1>5 DEF Need, Gain, Fit
<1>9. Gain(todo[1]) = 1
  BY <1>2 DEF Gain, ExprKind
<1> DEFINE one == <<parameters>>
           two == <<parameters, loop>>
<1> HIDE DEF parameters, loop, last
<1>10. Good(one, a, a, n) /\ Quiet(one)
  <2>1. a >= Need(parameters) /\ a + Gain(parameters) = a
    BY <1>2, <1>6
  <2> QED
    BY <2>1, <1>2, <1>6, SingleGood
<1>11. /\ two = one \o <<loop>> /\ items = two \o <<last>>
  BY <1>6, <1>7, <1>8, TwoItems, ThreeItems
<1> HIDE DEF one, two, items
<1>12. Good(two, a, a + 1, n) /\ Quiet(two)
  <2>1. a >= Need(loop) /\ a + Gain(loop) = a + 1
    BY <1>2, <1>7
  <2>2. Good(one \o <<loop>>, a, a + Gain(loop), n) /\ Quiet(one \o <<loop>>)
    BY <2>1, <1>2, <1>7, <1>10, FollowedGood
  <2> QED
    BY <2>1, <2>2, <1>11
<1>13. Good(items, a, a + 1, n) /\ EndsWith(items, two, last)
  <2>1. a + 1 \in Nat /\ a + 1 >= Need(last) /\ a + 1 + Gain(last) = a + 1
    BY <1>2, <1>8
  <2>2. Good(two \o <<last>>, a, a + 1 + Gain(last), n)
    BY <2>1, <1>8, <1>12, FollowedGood
  <2>3. EndsWith(two \o <<last>>, two, last)
    BY <2>1, <1>8, <1>12, FollowedGood
  <2> QED
    BY <2>1, <2>2, <2>3, <1>11
<1>14. Fits(items)
  <2>1. Need(todo[1]) = 0
    BY <1>2 DEF Need
  <2>2. Good(items, 0, 0 + Gain(todo[1]), Len(ir'.blocks))
    BY <1>9, <1>13
  <2> QED
    BY <2>1, <2>2, <1>1, NewFits
<1>15. functions' \in [Name -> ({"func"} \X Nat) \cup {Absent}]
  BY <1>1, <1>2, <1>3, <1>5
<1>16. Others
  BY <1>1, <1>2, <1>4, <1>15 DEF Others
<1>17. TRUE <=> last.node.kind \in {"Func"}
  BY <1>2, <1>8
<1>18. TRUE \in BOOLEAN
  OBVIOUS
<1> QED
  BY <1>1, <1>8, <1>13, <1>14, <1>16, <1>17, <1>18, EnterDoes

\* The next parameter gets a variable.
LEMMA ParameterDoes ==
  ASSUME IInv, DefineParameter
  PROVE  \E items : Does(items)
<1> DEFINE i == todo[1].index
           a == 0
           n == Len(ir'.blocks)
           m == allocVar(ir)
           slot == Slot(m.count)
           args == <<Argument(Parent(ir), i), slot>>
           next == ItemAt("param", node, i + 1)
           items == <<next>>
<1>1. /\ At("param", {"Func"})
      /\ values' = values /\ functions' = functions /\ returnStack' = returnStack
      /\ status' = status
      /\ \/ Continue(<<>>) /\ scopes' = scopes /\ ir' = ir
         \/ /\ ~(i > Len(node.params))
            /\ ir' = Emit(m, "store", args)
            /\ scopes' = Env!Bind(scopes, Len(scopes), node.params[i], slot)
            /\ Continue(items)
  BY DEF DefineParameter
<1>2. /\ node \in Node /\ node.kind = "Func" /\ node = todo[1].node
      /\ todo[1].phase = "param" /\ values \in Seq(Value) /\ a \in Nat /\ WellMade(ir)
      /\ block \in Nat /\ block = i /\ Fit(todo[1], Len(ir.blocks))
  BY <1>1, First
<1>3. Gain(todo[1]) = 0 /\ i \in Nat /\ i >= 1
  BY <1>2 DEF Gain, Fit
<1>4. CASE Continue(<<>>) /\ scopes' = scopes /\ ir' = ir
  <2>1. Others /\ Stores
    BY <1>1, <1>2, <1>4, ParentType, OthersKept DEF Stores
  <2>2. Len(values') = Len(values) + Gain(todo[1])
    <3>1. Len(values) \in Nat
      BY <1>2
    <3> QED
      BY <3>1, <1>1, <1>3
  <2>3. Does(<<>>)
    BY <2>1, <2>2, <1>1, <1>4, NothingDoes
  <2> QED
    BY <2>3
<1>5. CASE /\ ~(i > Len(node.params))
           /\ ir' = Emit(m, "store", args)
           /\ scopes' = Env!Bind(scopes, Len(scopes), node.params[i], slot)
           /\ Continue(items)
  <2>1. node.params[i] \in Name
    <3>1. node.params \in Seq(Name)
      BY <1>2, NodeFacts
    <3> QED
      BY <3>1, <1>3, <1>5
  <2>2. Grows(ir, m) /\ WellMade(m) /\ slot \in Binding
    BY <1>2, Allocated DEF Grows
  <2> HIDE DEF m, slot
  <2>3. args \in Seq(Arguments) /\ "store" \in Opcodes
    <3>1. Parent(ir) \in Nat
      BY <1>2, ParentType
    <3>2. Argument(Parent(ir), i) \in Arguments /\ slot \in Arguments
      BY <3>1, <2>2, <1>3, ValueTypes
    <3> QED
      BY <3>2, ArgumentLists DEF Opcodes
  <2> HIDE DEF args
  <2>4. Grows(m, ir')
    BY <2>2, <2>3, <1>5, Emitted
  <2>5. Grows(ir, ir') /\ Stores
    <3>1. scopes' = Facts!Bind(scopes, Len(scopes), node.params[i], slot)
      BY <1>5, SameScopes
    <3> QED
      BY <3>1, <2>1, <2>2, <2>4, GrowsOn DEF Stores
  <2>6. Others
    BY <2>5, <1>1, <1>2, OthersKept
  <2>7. /\ next \in Item /\ next.phase = "param"
        /\ Need(next) = 0 /\ Gain(next) = 0 /\ Fit(next, n)
    <3>1. i + 1 \in Nat /\ i + 1 >= 1
      BY <1>3
    <3>2. next \in Item /\ next.phase = "param" /\ next.index = i + 1
      BY <3>1, <1>2, ItemAtTypes
    <3> QED
      BY <3>1, <3>2 DEF Need, Gain, Fit
  <2> HIDE DEF next
  <2>8. Good(items, a, a + Gain(next), n) /\ Quiet(items)
    <3>1. a >= Need(next)
      BY <2>7, <1>2
    <3> QED
      BY <3>1, <2>7, <1>2, SingleGood
  <2> HIDE DEF items
  <2>9. a + Gain(next) = a + Gain(todo[1])
    BY <2>7, <1>3
  <2>10. Fits(items)
    <3>1. Need(todo[1]) = 0
      BY <1>2 DEF Need
    <3>2. Good(items, 0, 0 + Gain(todo[1]), Len(ir'.blocks))
      BY <2>8, <2>9
    <3> QED
      BY <3>1, <3>2, <1>1, <1>5, NewFits
  <2>11. Does(items)
    BY <2>5, <2>6, <2>8, <2>10, <1>1, QuietDoes
  <2> QED
    BY <2>11
<1> QED
  BY <1>1, <1>4, <1>5

\* The end of a function.
LEMMA FunctionEnds ==
  ASSUME IInv, LeaveFunction
  PROVE  Does(<<>>)
<1> DEFINE v == FunctionAt(Parent(ir))
<1>1. /\ At("leave", {"Func"}) /\ scopes' = Env!Leave(scopes) /\ Continue(<<>>)
      /\ functions' = functions /\ returnStack' = returnStack /\ status' = status
      /\ ir' = SetInsertPoint(ir, block) /\ Replace(1, v)
  BY DEF LeaveFunction
<1>2. /\ node.kind = "Func" /\ node = todo[1].node
      /\ todo[1].phase = "leave" /\ values \in Seq(Value) /\ Len(values) \in Nat
      /\ WellMade(ir) /\ Need(todo[1]) <= Len(values)
      /\ block \in Nat /\ block = todo[1].index /\ Fit(todo[1], Len(ir.blocks))
  BY <1>1, First
<1>3. Gain(todo[1]) = 0 /\ Need(todo[1]) = 1
  BY <1>2 DEF Gain, Need
<1>4. v \in Value
  <2>1. Parent(ir) \in Nat
    BY <1>2, ParentType
  <2> QED
    BY <2>1, ValueTypes
<1> HIDE DEF v
<1>5. 1 \in Nat /\ 1 <= Len(values)
  BY <1>2, <1>3
<1>6. values' \in Seq(Value) /\ Len(values') = Len(values) - 1 + 1
  BY <1>1, <1>2, <1>4, <1>5, ValuesAfter
<1>7. Grows(ir, ir')
  <2>1. block \in 1..Len(ir.blocks)
    BY <1>2 DEF Fit
  <2>2. block \in DOMAIN ir.blocks
    BY <2>1, <1>2, ModuleParts DEF WellMade
  <2> QED
    BY <2>2, <1>1, <1>2, Moved
<1>8. Others
  BY <1>1, <1>6, <1>7, OthersKept
<1>9. Len(values') = Len(values) + Gain(todo[1])
  BY <1>2, <1>3, <1>6
<1>10. Fits(<<>>)
  BY <1>1, <1>8, <1>9, NothingFits
<1> QED
  BY <1>1, <1>8, <1>10, LeaveDoes

\* A call: the function, then the arguments.
LEMMA CallDoes ==
  ASSUME IInv, VisitCallExpr
  PROVE  Stop(NotAFunction) \/ Stop(WrongArguments) \/ \E items : Does(items)
<1> DEFINE before == VisitAll(node.kids)
           last == Resume(node)
           items == before \o <<last>>
           a == 0
           b == 1
           n == Len(ir'.blocks)
           callee == Callee
<1>1. At("visit", {"Call"})
  BY DEF VisitCallExpr
<1>2. /\ node \in Node /\ node.kind = "Call" /\ node = todo[1].node
      /\ todo[1].phase = "visit" /\ values \in Seq(Value) /\ a \in Nat /\ WellMade(ir)
      /\ scopes \in Seq(Facts!Scope(Binding))
      /\ functions \in [Name -> ({"func"} \X Nat) \cup {Absent}]
  BY <1>1, First
<1> SUFFICES ASSUME /\ callee # NullPtr /\ Push(callee)
                    /\ Continue(items) /\ UNCHANGED environment /\ ir' = ir
             PROVE  \E s : Does(s)
  BY DEF VisitCallExpr
<1>3. /\ node.kids \in Seq(Node) /\ Len(node.kids) \in Nat /\ node.name \in Name
      /\ \A i \in DOMAIN node.kids : node.kids[i].kind \in ExprKind
  <2>1. node.kids \in Seq(Node) /\ node.name \in Name
    BY <1>2, NodeFacts
  <2>2. Len(node.kids) \in Nat
    BY <2>1
  <2>3. \A i \in DOMAIN node.kids : node.kids[i].kind \in ExprKind
    BY <1>2, KidsOf
  <2> QED
    BY <2>1, <2>2, <2>3
<1>4. callee \in Value
  <2>1. CASE Known
    <3>1. callee = functions[node.name] /\ functions[node.name] # Absent
      BY <2>1 DEF Callee, Known
    <3>2. callee \in {"func"} \X Nat
      BY <3>1, <1>2, <1>3
    <3> QED
      BY <3>2, ValueTypes DEF Binding
  <2>2. CASE ~Known
    <3>1. callee = Variable \/ callee = NullPtr
      BY <2>2 DEF Callee
    <3>2. Variable \in Binding \cup {NullPtr}
      BY <1>2, <1>3, VariableType DEF Variable
    <3> QED
      BY <3>1, <3>2, ValueTypes
  <2> QED
    BY <2>1, <2>2
<1> HIDE DEF callee
<1>5. values' \in Seq(Value) /\ Len(values') = Len(values) + 1 /\ b = a + 1
  <2>1. 0 \in Nat /\ 0 <= Len(values)
    BY <1>2
  <2> QED
    BY <2>1, <1>2, <1>4, ValuesAfter
<1>6. b \in Nat
  BY <1>2, <1>5
<1>7. Good(before, b, b + Len(node.kids), n) /\ Quiet(before)
  <2> HIDE DEF b
  <2> QED
    BY <1>3, <1>6, VisitsGood
<1>8. /\ last \in Item /\ last.phase = "resume" /\ last.node = node
  BY <1>2, ItemTypes
<1>9. /\ Need(last) = Len(node.kids) + 1 /\ Gain(last) = -Len(node.kids)
      /\ Fit(last, n) /\ Gain(todo[1]) = 1
  BY <1>2, <1>8 DEF Need, Gain, Fit, ExprKind
<1> DEFINE c == b + Len(node.kids)
<1>10. /\ c \in Nat /\ c >= Need(last)
       /\ c + Gain(last) = a + Gain(todo[1])
  <2> DEFINE k == Len(node.kids)
  <2>1. /\ a \in Nat /\ b = a + 1 /\ k \in Nat /\ Need(last) = k + 1 /\ Gain(last) = -k
        /\ Gain(todo[1]) = 1 /\ c = b + k
    BY <1>2, <1>3, <1>5, <1>9
  <2> HIDE DEF a, b, c, k, last
  <2> QED
    BY <2>1
<1>11. Good(before, b, c, n)
  BY <1>7
<1> HIDE DEF before, last, b, c
<1>12. Good(items, b, c + Gain(last), n) /\ Quiet(items)
  BY <1>7, <1>8, <1>9, <1>10, <1>11, FollowedGood
<1> HIDE DEF items
<1>13. Fits(items)
  <2>1. Need(todo[1]) = 0 /\ Len(values) \in Nat
    BY <1>2 DEF Need
  <2>2. Len(values') - Kept = b
    BY <2>1, <1>5 DEF Kept, b
  <2>3. c + Gain(last) = Need(todo[1]) + Gain(todo[1])
    BY <2>1, <1>10
  <2> QED
    BY <2>2, <2>3, <1>12, GoodFits
<1>14. Others /\ Stores
  <2>1. /\ scopes' = scopes /\ functions' = functions /\ returnStack' = returnStack
        /\ status' = status
    BY DEF environment
  <2>2. Grows(ir, ir')
    BY <1>2, ParentType
  <2> QED
    BY <2>1, <2>2, <1>1, <1>5, OthersKept DEF Stores
<1> QED
  BY <1>1, <1>12, <1>13, <1>14, QuietDoes

-----------------------------------------------------------------------------
(***************************************************************************)
(* Branches and loops.                                                     *)
(***************************************************************************)

\* A step that puts two items first, neither of which leaves a scope.
LEMMA PairDoes ==
  ASSUME IInv, NEW phase, NEW kinds, At(phase, kinds), phase # "leave",
         NEW first \in Item, first.phase # "leave",
         NEW last \in Item, last.phase # "leave",
         Continue(<<first, last>>), Others, Stores,
         Len(values') = Len(values) - Need(todo[1]),
         Need(first) = 0, Gain(first) >= Need(last),
         Gain(first) + Gain(last) = Need(todo[1]) + Gain(todo[1]),
         Fit(first, Len(ir'.blocks)), Fit(last, Len(ir'.blocks))
  PROVE  Does(<<first, last>>)
<1> DEFINE one == <<first>>
           items == <<first, last>>
           a == 0
           b == Gain(first)
           n == Len(ir'.blocks)
<1>1. /\ a \in Nat /\ b \in Int /\ Need(last) \in Nat /\ Need(todo[1]) \in Nat
      /\ Len(values) \in Nat
  BY NeedTypes, First
<1>2. b \in Nat /\ Good(one, a, b, n) /\ Quiet(one)
  <2> HIDE DEF n
  <2>1. Fit(first, n) /\ a >= Need(first) /\ a + Gain(first) = b /\ b \in Nat
    BY <1>1 DEF n
  <2> HIDE DEF a, b
  <2> QED
    BY <1>1, <2>1, SingleGood
<1>3. items = one \o <<last>>
  BY TwoItems
<1> HIDE DEF one, items
<1>4. Good(items, a, b + Gain(last), n) /\ Quiet(items)
  <2>1. Fit(last, n) /\ b >= Need(last)
    OBVIOUS
  <2> HIDE DEF a, b, n
  <2>2. Good(one \o <<last>>, a, b + Gain(last), n) /\ Quiet(one \o <<last>>)
    BY <1>2, <2>1, FollowedGood
  <2> QED
    BY <2>2, <1>3
<1>5. Continue(items)
  BY DEF items
<1>6. Fits(items)
  <2>1. Len(values') - Kept = 0
    BY <1>1 DEF Kept
  <2>2. Good(items, 0, Need(todo[1]) + Gain(todo[1]), Len(ir'.blocks))
    BY <1>4
  <2> QED
    BY <2>1, <2>2, <1>5, GoodFits
<1>7. Does(items)
  BY <1>4, <1>6, QuietDoes
<1> QED
  BY <1>7 DEF items

\* The comparison of a condition, if it needs one, and the branch.
LEMMA Branched ==
  ASSUME WellMade(ir), NEW v \in Value, NEW then \in Nat, NEW else \in Nat
  PROVE  /\ Grows(ir, Branch(TestOf(v), then, else))
         /\ Len(Branch(TestOf(v), then, else).blocks) = Len(ir.blocks)
<1> DEFINE test == TestOf(v)
           args == <<test.val, BlockAt(then), BlockAt(else)>>
<1>1. /\ Grows(ir, test.ir) /\ test.val \in Value
      /\ Len(test.ir.blocks) = Len(ir.blocks)
  <2>1. CASE v[1] = "bool"
    <3>1. test = [ir |-> ir, val |-> v]
      BY <2>1 DEF TestOf
    <3> QED
      BY <3>1, ParentType
  <2>2. CASE v[1] # "bool"
    <3> DEFINE m == Emit(ir, "!=", <<v, BoolObj(FALSE)>>)
               compared == <<v, BoolObj(FALSE)>>
    <3>1. test = [ir |-> m, val |-> Latest(m, "i1")]
      BY <2>2 DEF TestOf
    <3>2. m = Emit(ir, "!=", compared)
      OBVIOUS
    <3>3. compared \in Seq(Arguments) /\ "!=" \in Opcodes
      BY ValueTypes, ArgumentLists DEF Opcodes, Comparisons
    <3> HIDE DEF compared, m
    <3>4. Grows(ir, m) /\ Len(m.blocks) = Len(ir.blocks) /\ WellMade(m)
      <4>1. Grows(ir, m)
        BY <3>2, <3>3, Emitted
      <4>2. Len(m.blocks) = Len(ir.blocks)
        BY <3>2, <3>3, Emitted
      <4> QED
        BY <4>1, <4>2 DEF Grows
    <3>5. Latest(m, "i1") \in Value
      BY <3>4, LatestType
    <3> QED
      BY <3>1, <3>4, <3>5
  <2> QED
    BY <2>1, <2>2
<1>2. Branch(test, then, else) = Emit(test.ir, "condbr", args)
  BY DEF Branch
<1> HIDE DEF test
<1>3. args \in Seq(Arguments) /\ "condbr" \in Opcodes
  BY <1>1, ValueTypes, ArgumentLists DEF Opcodes, Terminators
<1> HIDE DEF args
<1> DEFINE m == test.ir
<1>4. WellMade(m) /\ Grows(ir, m) /\ Len(m.blocks) = Len(ir.blocks)
  BY <1>1 DEF Grows
<1>5. Branch(test, then, else) = Emit(m, "condbr", args)
  BY <1>2
<1> HIDE DEF m
<1>6. Grows(m, Emit(m, "condbr", args))
  BY <1>3, <1>4, Emitted
<1>7. Len(Emit(m, "condbr", args).blocks) = Len(m.blocks)
  BY <1>3, <1>4, Emitted
<1>8. Grows(ir, Branch(test, then, else))
  BY <1>4, <1>5, <1>6, GrowsOn
<1>9. Len(Branch(test, then, else).blocks) = Len(ir.blocks)
  BY <1>4, <1>5, <1>7
<1> QED
  BY <1>8, <1>9 DEF test

\* Code goes on in another block; a value of a return is dropped.
LEMMA GoesOn ==
  ASSUME WellMade(ir), returnStack \in Seq(Value), NEW b, NEW c,
         b \in 1..Len(ir.blocks), c \in 1..Len(ir.blocks), GoOnTo(<<b, c>>)
  PROVE  /\ Grows(ir, ir') /\ returnStack' \in Seq(Value)
         /\ Len(ir'.blocks) = Len(ir.blocks)
<1> DEFINE args == <<BlockAt(b)>>
           branched == Emit(ir, "br", args)
<1>1. /\ ir' = SetInsertPoint(ir, c) \/ ir' = SetInsertPoint(branched, c)
      /\ \/ returnStack' = <<>>
         \/ returnStack # <<>> /\ returnStack' = Below(returnStack, 1)
  BY DEF GoOnTo
<1>2. /\ ir \in ModuleState /\ Len(ir.blocks) \in Nat
      /\ DOMAIN ir.blocks = 1..Len(ir.blocks)
  BY ModuleParts DEF WellMade
<1>3. b \in Nat /\ args \in Seq(Arguments) /\ "br" \in Opcodes
  BY <1>2, ValueTypes, ArgumentLists DEF Opcodes, Terminators
<1> HIDE DEF args
<1>4. Grows(ir, branched)
  BY <1>3, Emitted
<1>5. Len(branched.blocks) = Len(ir.blocks)
  BY <1>3, Emitted
<1> HIDE DEF branched
<1>6. WellMade(branched) /\ c \in DOMAIN ir.blocks /\ c \in DOMAIN branched.blocks
  <2>1. WellMade(branched)
    BY <1>4 DEF Grows
  <2>2. DOMAIN branched.blocks = 1..Len(branched.blocks)
    BY <2>1, ModuleParts DEF WellMade
  <2> QED
    BY <2>1, <2>2, <1>2, <1>5
<1>7. Grows(ir, ir') /\ Len(ir'.blocks) = Len(ir.blocks)
  <2>1. CASE ir' = SetInsertPoint(ir, c)
    BY <2>1, <1>6, Moved
  <2>2. CASE ir' = SetInsertPoint(branched, c)
    <3>1. Grows(branched, ir') /\ Len(ir'.blocks) = Len(branched.blocks)
      BY <2>2, <1>6, Moved
    <3> QED
      BY <3>1, <1>4, <1>5, GrowsOn
  <2> QED
    BY <2>1, <2>2, <1>1
<1>8. returnStack' \in Seq(Value)
  <2>1. returnStack # <<>> => Below(returnStack, 1) \in Seq(Value)
    BY DEF Below
  <2>2. <<>> \in Seq(Value)
    OBVIOUS
  <2> QED
    BY <2>1, <2>2, <1>1
<1> QED
  BY <1>7, <1>8

\* The branches of an if.
LEMMA IfDoes ==
  ASSUME IInv, ResumeIfStmt
  PROVE  \E items : Does(items)
<1> DEFINE then == Len(ir.blocks) + 1
           f == Parent(ir)
           v == Result
           else == IF Len(node.kids) = 3 THEN then + 2 ELSE then + 1
           branched == Branch(TestOf(v), then, else)
           one == NewBlock(branched, f)
           two == NewBlock(one, f)
           three == NewBlock(two, f)
           all == IF Len(node.kids) = 3 THEN three ELSE two
           first == Visit(node.kids[2])
           last == ItemAt("then", node, then)
           n == Len(ir'.blocks)
<1>1. /\ At("resume", {"If"}) /\ ir' = SetInsertPoint(all, then)
      /\ Continue(<<first, last>>) /\ Pop /\ UNCHANGED environment
  BY DEF ResumeIfStmt
<1>2. /\ node \in Node /\ node.kind = "If" /\ node = todo[1].node
      /\ todo[1].phase = "resume" /\ values \in Seq(Value) /\ Len(values) \in Nat
      /\ WellMade(ir) /\ Need(todo[1]) <= Len(values)
  BY <1>1, First
<1>3. Need(todo[1]) = 1 /\ Gain(todo[1]) = -1
  BY <1>2 DEF Need, Gain
<1>4. v \in Value
  BY <1>2, <1>3, ValuesBefore
<1> HIDE DEF v
<1>5. /\ Len(node.kids) \in {2, 3}
      /\ node.kids[2] \in Node /\ node.kids[2].kind \notin ExprKind
  BY <1>2, NodeFacts, KidsOf
<1>6. Len(ir.blocks) \in Nat /\ then \in Nat /\ else \in Nat
  <2>1. Len(ir.blocks) \in Nat
    BY <1>2, ModuleParts DEF WellMade
  <2> QED
    BY <2>1
<1>7. f \in Nat /\ HasEntry(ir, f)
  BY <1>2, ParentType
<1> HIDE DEF f, else
<1>8. Grows(ir, branched) /\ Len(branched.blocks) = Len(ir.blocks)
  <2> HIDE DEF then
  <2> QED
    BY <1>2, <1>4, <1>6, Branched
<1> HIDE DEF branched
<1>9. /\ Grows(branched, one) /\ Len(one.blocks) = Len(ir.blocks) + 1
      /\ WellMade(one) /\ HasEntry(one, f)
  <2>1. WellMade(branched) /\ HasEntry(branched, f)
    BY <1>7, <1>8 DEF Grows
  <2>2. Grows(branched, one)
    BY <2>1, <1>7, Blocked
  <2>3. Len(one.blocks) = Len(branched.blocks) + 1
    BY <2>1, <1>7, Blocked
  <2>4. HasEntry(one, f)
    BY <2>1, <1>7, Blocked
  <2> QED
    BY <2>2, <2>3, <2>4, <1>8 DEF Grows
<1> HIDE DEF one
<1>10. /\ Grows(one, two) /\ Len(two.blocks) = Len(one.blocks) + 1
       /\ WellMade(two) /\ HasEntry(two, f)
  <2>1. Grows(one, two)
    BY <1>7, <1>9, Blocked
  <2>2. Len(two.blocks) = Len(one.blocks) + 1
    BY <1>7, <1>9, Blocked
  <2>3. HasEntry(two, f)
    BY <1>7, <1>9, Blocked
  <2> QED
    BY <2>1, <2>2, <2>3 DEF Grows
<1> HIDE DEF two
<1>11. /\ Grows(two, three) /\ Len(three.blocks) = Len(two.blocks) + 1
       /\ WellMade(three)
  <2>1. Grows(two, three)
    BY <1>7, <1>10, Blocked
  <2>2. Len(three.blocks) = Len(two.blocks) + 1
    BY <1>7, <1>10, Blocked
  <2> QED
    BY <2>1, <2>2 DEF Grows
<1> HIDE DEF three
<1>12. /\ Grows(ir, all) /\ WellMade(all)
       /\ Len(all.blocks) = Len(ir.blocks) + Len(node.kids)
  <2>1. Grows(ir, two) /\ Len(two.blocks) = Len(ir.blocks) + 2
    BY <1>6, <1>8, <1>9, <1>10, GrowsOn
  <2>2. Grows(ir, three) /\ Len(three.blocks) = Len(ir.blocks) + 3
    BY <2>1, <1>6, <1>11, GrowsOn
  <2> QED
    BY <2>1, <2>2, <1>5, <1>10, <1>11
<1> HIDE DEF all
<1>13. Grows(ir, ir') /\ n = Len(ir.blocks) + Len(node.kids)
  <2>1. then \in DOMAIN all.blocks
    <3>1. all \in ModuleState
      BY <1>12 DEF WellMade
    <3>2. DOMAIN all.blocks = 1..Len(all.blocks)
      BY <3>1, ModuleParts
    <3>3. then \in 1..Len(all.blocks)
      <4> DEFINE k == Len(node.kids)
                 size == Len(ir.blocks)
      <4>1. size \in Nat /\ k \in {2, 3} /\ then = size + 1 /\ Len(all.blocks) = size + k
        BY <1>5, <1>6, <1>12
      <4> HIDE DEF k, size, then
      <4> QED
        BY <4>1
    <3> QED
      BY <3>2, <3>3
  <2> HIDE DEF then
  <2>2. Grows(all, ir') /\ n = Len(all.blocks)
    BY <2>1, <1>1, <1>12, Moved
  <2> QED
    BY <2>2, <1>12, GrowsOn
<1>14. /\ first \in Item /\ first.phase = "visit" /\ Need(first) = 0 /\ Gain(first) = 0
       /\ Fit(first, n)
  BY <1>5, VisitGood
<1>15. /\ last \in Item /\ last.phase = "then" /\ last.node = node /\ last.index = then
  <2> HIDE DEF then
  <2> QED
    BY <1>2, <1>6, ItemAtTypes
<1>16. Need(last) = 0 /\ Gain(last) = 0 /\ Fit(last, n)
  <2> DEFINE k == Len(node.kids)
             size == Len(ir.blocks)
  <2>1. size \in Nat /\ k \in {2, 3} /\ then = size + 1 /\ n = size + k
    BY <1>5, <1>6, <1>13
  <2> HIDE DEF k, size, then, n
  <2>2. then >= 1 /\ then + k - 1 <= n
    BY <2>1
  <2> QED
    BY <2>2, <1>2, <1>15 DEF Need, Gain, Fit, k
<1> HIDE DEF first, last
<1>17. values' \in Seq(Value) /\ Len(values') = Len(values) - 1
  <2>1. 1 \in Nat /\ 1 <= Len(values)
    BY <1>2, <1>3
  <2> QED
    BY <2>1, <1>1, <1>2, <1>4, ValuesAfter
<1>18. Others /\ Stores
  <2>1. /\ scopes' = scopes /\ functions' = functions /\ returnStack' = returnStack
        /\ status' = status
    BY <1>1 DEF environment
  <2> QED
    BY <2>1, <1>1, <1>13, <1>17, OthersKept DEF Stores
<1>19. /\ Len(values') = Len(values) - Need(todo[1])
       /\ Need(first) = 0 /\ Gain(first) >= Need(last)
       /\ Gain(first) + Gain(last) = Need(todo[1]) + Gain(todo[1])
  BY <1>2, <1>3, <1>14, <1>16, <1>17
<1>20. Does(<<first, last>>)
  BY <1>1, <1>14, <1>15, <1>16, <1>18, <1>19, PairDoes
<1> QED
  BY <1>20

\* After the first branch of an if.
LEMMA ThenDoes ==
  ASSUME IInv, AfterThen
  PROVE  \E items : Does(items)
<1> DEFINE first == Visit(node.kids[3])
           last == ItemAt("else", node, block)
           k == Len(node.kids)
           size == Len(ir.blocks)
           n == Len(ir'.blocks)
<1>1. /\ At("then", {"If"})
      /\ values' = values /\ scopes' = scopes /\ functions' = functions /\ status' = status
      /\ \/ /\ k = 3 /\ GoOnTo(<<block + 1, block + 2>>)
            /\ Continue(<<first, last>>)
         \/ GoOnTo(<<block + 1, block + 1>>) /\ Continue(<<>>)
  BY DEF AfterThen
<1>2. /\ node \in Node /\ node.kind = "If" /\ node = todo[1].node
      /\ todo[1].phase = "then" /\ values \in Seq(Value) /\ Len(values) \in Nat
      /\ WellMade(ir) /\ returnStack \in Seq(Value)
      /\ functions \in [Name -> ({"func"} \X Nat) \cup {Absent}]
      /\ block \in Nat /\ block = todo[1].index /\ Fit(todo[1], Len(ir.blocks))
  BY <1>1, First
<1>3. Gain(todo[1]) = 0
  BY <1>2 DEF Gain
<1>4. size \in Nat /\ k \in {2, 3} /\ block >= 1 /\ block + k - 1 <= size
  BY <1>2, ModuleParts, NodeFacts DEF WellMade, Fit
<1> HIDE DEF k
<1>5. block + 1 \in 1..size /\ (k = 3 => block + 2 \in 1..size)
  <2> HIDE DEF size
  <2> QED
    BY SMTT(30), <1>2, <1>4
<1>6. /\ Grows(ir, ir') /\ returnStack' \in Seq(Value) /\ n = size
  <2>1. CASE k = 3 /\ GoOnTo(<<block + 1, block + 2>>)
    BY <2>1, <1>2, <1>5, GoesOn
  <2>2. CASE GoOnTo(<<block + 1, block + 1>>)
    BY <2>2, <1>2, <1>5, GoesOn
  <2> QED
    BY <2>1, <2>2, <1>1
<1>7. Others /\ Stores
  BY <1>1, <1>2, <1>6 DEF Others, Stores
<1>8. CASE k = 3 /\ Continue(<<first, last>>)
  <2>1. node.kids[3] \in Node /\ node.kids[3].kind \notin ExprKind
    BY <1>2, <1>8, KidsOf DEF k
  <2>2. /\ first \in Item /\ first.phase = "visit" /\ Need(first) = 0 /\ Gain(first) = 0
        /\ Fit(first, n)
    BY <2>1, VisitGood
  <2>3. /\ last \in Item /\ last.phase = "else" /\ last.node = node /\ last.index = block
    BY <1>2, ItemAtTypes
  <2>4. Need(last) = 0 /\ Gain(last) = 0 /\ Fit(last, n)
    BY <2>3, <1>2, <1>4, <1>6 DEF Need, Gain, Fit, k
  <2> HIDE DEF first, last
  <2>5. /\ Len(values') = Len(values) - Need(todo[1])
        /\ Need(first) = 0 /\ Gain(first) >= Need(last)
        /\ Gain(first) + Gain(last) = Need(todo[1]) + Gain(todo[1])
    <3>1. Need(todo[1]) = 0
      BY <1>2 DEF Need
    <3> QED
      BY <3>1, <1>1, <1>2, <1>3, <2>2, <2>4
  <2>6. Does(<<first, last>>)
    BY <1>1, <1>7, <1>8, <2>2, <2>3, <2>4, <2>5, PairDoes
  <2> QED
    BY <2>6
<1>9. CASE Continue(<<>>)
  <2>1. Len(values') = Len(values) + Gain(todo[1])
    BY <1>1, <1>2, <1>3
  <2>2. Does(<<>>)
    BY <2>1, <1>1, <1>7, <1>9, NothingDoes
  <2> QED
    BY <2>2
<1> QED
  BY <1>1, <1>8, <1>9

\* After the second one.
LEMMA ElseDoes ==
  ASSUME IInv, AfterElse
  PROVE  Does(<<>>)
<1> DEFINE k == Len(node.kids)
           size == Len(ir.blocks)
<1>1. /\ At("else", {"If"}) /\ GoOnTo(<<block + 1, block + 1>>) /\ Continue(<<>>)
      /\ values' = values /\ scopes' = scopes /\ functions' = functions /\ status' = status
  BY DEF AfterElse
<1>2. /\ node \in Node /\ node.kind = "If" /\ node = todo[1].node
      /\ todo[1].phase = "else" /\ values \in Seq(Value) /\ Len(values) \in Nat
      /\ WellMade(ir) /\ returnStack \in Seq(Value)
      /\ functions \in [Name -> ({"func"} \X Nat) \cup {Absent}]
      /\ block \in Nat /\ block = todo[1].index /\ Fit(todo[1], Len(ir.blocks))
  BY <1>1, First
<1>3. Gain(todo[1]) = 0
  BY <1>2 DEF Gain
<1>4. size \in Nat /\ k \in {2, 3} /\ block >= 1 /\ block + k - 1 <= size
  BY <1>2, ModuleParts, NodeFacts DEF WellMade, Fit
<1>5. block + 1 \in 1..size
  <2> HIDE DEF size, k
  <2> QED
    BY <1>2, <1>4
<1>6. Grows(ir, ir') /\ returnStack' \in Seq(Value)
  BY <1>1, <1>2, <1>5, GoesOn
<1>7. Others /\ Stores
  BY <1>1, <1>2, <1>6 DEF Others, Stores
<1>8. Len(values') = Len(values) + Gain(todo[1])
  BY <1>1, <1>2, <1>3
<1> QED
  BY <1>1, <1>7, <1>8, NothingDoes

\* A loop: its condition first.
LEMMA WhileDoes ==
  ASSUME IInv, VisitWhileStmt
  PROVE  \E items : Does(items)
<1> DEFINE size == Len(ir.blocks)
           b == size + 1
           f == Parent(ir)
           args == <<BlockAt(b)>>
           branched == Emit(ir, "br", args)
           one == NewBlock(branched, f)
           two == NewBlock(one, f)
           three == NewBlock(two, f)
           first == Visit(node.kids[1])
           last == ItemAt("resume", node, b)
           n == Len(ir'.blocks)
<1>1. /\ At("visit", {"While"}) /\ ir' = SetInsertPoint(three, b)
      /\ Continue(<<first, last>>) /\ UNCHANGED environment /\ values' = values
  BY DEF VisitWhileStmt
<1>2. /\ node \in Node /\ node.kind = "While" /\ node = todo[1].node
      /\ todo[1].phase = "visit" /\ values \in Seq(Value) /\ Len(values) \in Nat
      /\ WellMade(ir)
  BY <1>1, First
<1>3. Gain(todo[1]) = 0
  BY <1>2 DEF Gain, ExprKind
<1>4. node.kids[1] \in Node /\ node.kids[1].kind \in ExprKind
  BY <1>2, KidsOf
<1>5. size \in Nat /\ b \in Nat /\ b = size + 1
  BY <1>2, ModuleParts DEF WellMade
<1>6. f \in Nat /\ HasEntry(ir, f)
  BY <1>2, ParentType
<1> HIDE DEF f, b
<1>7. args \in Seq(Arguments) /\ "br" \in Opcodes
  BY <1>5, ValueTypes, ArgumentLists DEF Opcodes, Terminators
<1> HIDE DEF args
<1>8. Grows(ir, branched) /\ Len(branched.blocks) = size
  <2>1. Grows(ir, branched)
    BY <1>2, <1>7, Emitted
  <2>2. Len(branched.blocks) = Len(ir.blocks)
    BY <1>2, <1>7, Emitted
  <2> QED
    BY <2>1, <2>2
<1> HIDE DEF branched
<1>9. WellMade(branched) /\ HasEntry(branched, f)
  BY <1>6, <1>8 DEF Grows
<1>10. Grows(branched, one) /\ Len(one.blocks) = size + 1 /\ HasEntry(one, f)
  <2>1. Grows(branched, one)
    BY <1>6, <1>9, Blocked
  <2>2. Len(one.blocks) = Len(branched.blocks) + 1
    BY <1>6, <1>9, Blocked
  <2>3. HasEntry(one, f)
    BY <1>6, <1>9, Blocked
  <2> QED
    BY <2>1, <2>2, <2>3, <1>8
<1> HIDE DEF one
<1>11. WellMade(one)
  BY <1>10 DEF Grows
<1>12. Grows(one, two) /\ Len(two.blocks) = size + 2 /\ HasEntry(two, f)
  <2>1. Grows(one, two)
    BY <1>6, <1>10, <1>11, Blocked
  <2>2. Len(two.blocks) = Len(one.blocks) + 1
    BY <1>6, <1>10, <1>11, Blocked
  <2>3. HasEntry(two, f)
    BY <1>6, <1>10, <1>11, Blocked
  <2> QED
    BY <2>1, <2>2, <2>3, <1>5, <1>10
<1> HIDE DEF two
<1>13. WellMade(two)
  BY <1>12 DEF Grows
<1>14. Grows(two, three) /\ Len(three.blocks) = size + 3
  <2>1. Grows(two, three)
    BY <1>6, <1>12, <1>13, Blocked
  <2>2. Len(three.blocks) = Len(two.blocks) + 1
    BY <1>6, <1>12, <1>13, Blocked
  <2> QED
    BY <2>1, <2>2, <1>5, <1>12
<1> HIDE DEF three
<1>15. Grows(ir, three) /\ WellMade(three)
  BY <1>8, <1>10, <1>12, <1>14, GrowsOn DEF Grows
<1>16. Grows(ir, ir') /\ n = size + 3
  <2>1. b \in DOMAIN three.blocks
    <3>1. three \in ModuleState
      BY <1>15 DEF WellMade
    <3>2. DOMAIN three.blocks = 1..Len(three.blocks)
      BY <3>1, ModuleParts
    <3> QED
      BY <3>2, <1>5, <1>14
  <2>2. Grows(three, ir') /\ n = Len(three.blocks)
    BY <2>1, <1>1, <1>15, Moved
  <2> QED
    BY <2>2, <1>14, <1>15, GrowsOn
<1>17. /\ first \in Item /\ first.phase = "visit" /\ Need(first) = 0 /\ Gain(first) = 1
       /\ Fit(first, n)
  BY <1>4, VisitGood
<1>18. /\ last \in Item /\ last.phase = "resume" /\ last.node = node /\ last.index = b
  BY <1>2, <1>5, ItemAtTypes
<1>19. Need(last) = 1 /\ Gain(last) = -1 /\ Fit(last, n)
  <2>1. b >= 1 /\ b + 2 <= n
    BY <1>5, <1>16
  <2> QED
    BY <2>1, <1>2, <1>18 DEF Need, Gain, Fit
<1> HIDE DEF first, last
<1>20. Others /\ Stores
  <2>1. /\ scopes' = scopes /\ functions' = functions /\ returnStack' = returnStack
        /\ status' = status
    BY <1>1 DEF environment
  <2> QED
    BY <2>1, <1>1, <1>2, <1>16, OthersKept DEF Stores
<1>21. /\ Len(values') = Len(values) - Need(todo[1])
       /\ Need(first) = 0 /\ Gain(first) >= Need(last)
       /\ Gain(first) + Gain(last) = Need(todo[1]) + Gain(todo[1])
  <2>1. Need(todo[1]) = 0
    BY <1>2 DEF Need
  <2> QED
    BY <2>1, <1>1, <1>2, <1>3, <1>17, <1>19
<1>22. Does(<<first, last>>)
  BY <1>1, <1>17, <1>18, <1>19, <1>20, <1>21, PairDoes
<1> QED
  BY <1>22

\* Then its body.
LEMMA LoopDoes ==
  ASSUME IInv, ResumeWhileStmt
  PROVE  \E items : Does(items)
<1> DEFINE size == Len(ir.blocks)
           v == Result
           branched == Branch(TestOf(v), block + 1, block + 2)
           first == Visit(node.kids[2])
           last == ItemAt("body", node, block)
           n == Len(ir'.blocks)
<1>1. /\ At("resume", {"While"}) /\ ir' = SetInsertPoint(branched, block + 1)
      /\ Continue(<<first, last>>) /\ Pop /\ UNCHANGED environment
  BY DEF ResumeWhileStmt
<1>2. /\ node \in Node /\ node.kind = "While" /\ node = todo[1].node
      /\ todo[1].phase = "resume" /\ values \in Seq(Value) /\ Len(values) \in Nat
      /\ WellMade(ir) /\ Need(todo[1]) <= Len(values)
      /\ block \in Nat /\ block = todo[1].index /\ Fit(todo[1], Len(ir.blocks))
  BY <1>1, First
<1>3. Need(todo[1]) = 1 /\ Gain(todo[1]) = -1
  BY <1>2 DEF Need, Gain
<1>4. v \in Value
  BY <1>2, <1>3, ValuesBefore
<1> HIDE DEF v
<1>5. node.kids[2] \in Node /\ node.kids[2].kind \notin ExprKind
  BY <1>2, KidsOf
<1>6. size \in Nat /\ block >= 1 /\ block + 2 <= size
  BY <1>2, ModuleParts DEF WellMade, Fit
<1>7. block + 1 \in Nat /\ block + 2 \in Nat /\ block + 1 \in 1..size
  <2> HIDE DEF size
  <2> QED
    BY <1>2, <1>6
<1>8. Grows(ir, branched) /\ Len(branched.blocks) = size
  BY <1>2, <1>4, <1>7, Branched
<1> HIDE DEF branched
<1>9. Grows(ir, ir') /\ n = size
  <2>1. WellMade(branched)
    BY <1>8 DEF Grows
  <2>2. DOMAIN branched.blocks = 1..Len(branched.blocks)
    BY <2>1, ModuleParts DEF WellMade
  <2>3. block + 1 \in DOMAIN branched.blocks
    BY <2>2, <1>7, <1>8
  <2>4. Grows(branched, ir') /\ n = Len(branched.blocks)
    BY <2>1, <2>3, <1>1, Moved
  <2> QED
    BY <2>4, <1>8, GrowsOn
<1>10. /\ first \in Item /\ first.phase = "visit" /\ Need(first) = 0 /\ Gain(first) = 0
       /\ Fit(first, n)
  BY <1>5, VisitGood
<1>11. /\ last \in Item /\ last.phase = "body" /\ last.node = node /\ last.index = block
  BY <1>2, ItemAtTypes
<1>12. Need(last) = 0 /\ Gain(last) = 0 /\ Fit(last, n)
  BY <1>2, <1>6, <1>9, <1>11 DEF Need, Gain, Fit
<1> HIDE DEF first, last
<1>13. values' \in Seq(Value) /\ Len(values') = Len(values) - 1
  <2>1. 1 \in Nat /\ 1 <= Len(values)
    BY <1>2, <1>3
  <2> QED
    BY <2>1, <1>1, <1>2, <1>4, ValuesAfter
<1>14. Others /\ Stores
  <2>1. /\ scopes' = scopes /\ functions' = functions /\ returnStack' = returnStack
        /\ status' = status
    BY <1>1 DEF environment
  <2> QED
    BY <2>1, <1>1, <1>9, <1>13, OthersKept DEF Stores
<1>15. /\ Len(values') = Len(values) - Need(todo[1])
       /\ Need(first) = 0 /\ Gain(first) >= Need(last)
       /\ Gain(first) + Gain(last) = Need(todo[1]) + Gain(todo[1])
  BY <1>2, <1>3, <1>10, <1>12, <1>13
<1>16. Does(<<first, last>>)
  BY <1>1, <1>10, <1>11, <1>12, <1>14, <1>15, PairDoes
<1> QED
  BY <1>16

\* Behind it code goes on after the loop.
LEMMA BodyDoes ==
  ASSUME IInv, AfterBody
  PROVE  Does(<<>>)
<1> DEFINE size == Len(ir.blocks)
<1>1. /\ At("body", {"While"}) /\ GoOnTo(<<block, block + 2>>) /\ Continue(<<>>)
      /\ values' = values /\ scopes' = scopes /\ functions' = functions /\ status' = status
  BY DEF AfterBody
<1>2. /\ node.kind = "While" /\ node = todo[1].node
      /\ todo[1].phase = "body" /\ values \in Seq(Value) /\ Len(values) \in Nat
      /\ WellMade(ir) /\ returnStack \in Seq(Value)
      /\ functions \in [Name -> ({"func"} \X Nat) \cup {Absent}]
      /\ block \in Nat /\ block = todo[1].index /\ Fit(todo[1], Len(ir.blocks))
  BY <1>1, First
<1>3. Gain(todo[1]) = 0
  BY <1>2 DEF Gain
<1>4. size \in Nat /\ block >= 1 /\ block + 2 <= size
  BY <1>2, ModuleParts DEF WellMade, Fit
<1>5. block \in 1..size /\ block + 2 \in 1..size
  <2> HIDE DEF size
  <2> QED
    BY <1>2, <1>4
<1>6. Grows(ir, ir') /\ returnStack' \in Seq(Value)
  BY <1>1, <1>2, <1>5, GoesOn
<1>7. Others /\ Stores
  BY <1>1, <1>2, <1>6 DEF Others, Stores
<1>8. Len(values') = Len(values) + Gain(todo[1])
  BY <1>1, <1>2, <1>3
<1> QED
  BY <1>1, <1>7, <1>8, NothingDoes

\* The program: main, whose code comes from the statements.
LEMMA ProgramDoes ==
  ASSUME IInv, VisitFunctionStmt
  PROVE  \E items : Does(items)
<1> DEFINE before == VisitAll(node.kids)
           last == Resume(node)
           items == before \o <<last>>
           a == 0
           n == Len(ir'.blocks)
<1>1. /\ At("visit", {"Function"}) /\ ir' = Define(ir, Main, 0) /\ Continue(items)
      /\ UNCHANGED environment /\ values' = values
  BY DEF VisitFunctionStmt
<1>2. /\ node \in Node /\ node.kind = "Function" /\ node = todo[1].node
      /\ todo[1].phase = "visit" /\ values \in Seq(Value) /\ a \in Nat
      /\ ir \in ModuleState
      /\ WellMade(ir) \/ ir = EmptyModule
  BY <1>1, First
<1>3. Gain(todo[1]) = 0
  BY <1>2 DEF Gain, ExprKind
<1>4. Grows(ir, ir')
  <2>1. \A b \in DOMAIN ir.blocks : HasEntry(ir, ir.blocks[b].func)
    <3>1. CASE WellMade(ir)
      BY <3>1 DEF WellMade
    <3>2. CASE ir = EmptyModule
      <4>1. ir.blocks = <<>>
        BY <3>2 DEF EmptyModule
      <4> QED
        BY <4>1
    <3> QED
      BY <3>1, <3>2, <1>2
  <2>2. Main \in Name \cup {NoName, Main, Printf, Scanf} /\ 0 \in Nat
    OBVIOUS
  <2>3. Grows(ir, Define(ir, Main, 0))
    BY <2>1, <2>2, <1>2, Defined
  <2> QED
    BY <2>3, <1>1
<1>5. node.kids \in Seq(Node) /\ \A i \in DOMAIN node.kids : node.kids[i].kind \in StmtKind
  <2>1. node.kids \in Seq(Node)
    BY <1>2, NodeFacts
  <2>2. \A i \in DOMAIN node.kids : node.kids[i].kind \in StmtKind
    BY <1>2, KidsOf
  <2> QED
    BY <2>1, <2>2
<1>6. Good(before, a, a, n) /\ Quiet(before)
  BY <1>2, <1>5, VisitsGood
<1>7. /\ last \in Item /\ last.phase = "resume" /\ last.node = node
  BY <1>2, ItemTypes
<1>8. Need(last) = 0 /\ Gain(last) = 0 /\ Fit(last, n)
  BY <1>2, <1>7 DEF Need, Gain, Fit
<1> HIDE DEF before, last
<1>9. a >= Need(last) /\ a + Gain(last) = a + Gain(todo[1])
  BY <1>2, <1>3, <1>8
<1>10. Good(items, a, a + Gain(last), n) /\ Quiet(items)
  BY <1>2, <1>6, <1>7, <1>8, <1>9, FollowedGood
<1> HIDE DEF items
<1>11. Fits(items)
  <2>1. Need(todo[1]) = 0
    BY <1>2 DEF Need
  <2>2. Good(items, 0, 0 + Gain(todo[1]), Len(ir'.blocks))
    BY <1>9, <1>10
  <2> QED
    BY <2>1, <2>2, <1>1, NewFits
<1>12. Others /\ Stores
  <2>1. /\ scopes' = scopes /\ functions' = functions /\ returnStack' = returnStack
        /\ status' = status
    BY <1>1 DEF environment
  <2> QED
    BY <2>1, <1>1, <1>2, <1>4, OthersKept DEF Stores
<1> QED
  BY <1>1, <1>10, <1>11, <1>12, QuietDoes

-----------------------------------------------------------------------------
(***************************************************************************)
(* Theorems.                                                               *)
(***************************************************************************)

\* The translation stops with an error, or ends.
Stopped == \E how \in RuntimeErrors \cup {Signalled} : Stop(how)

\* One step of the code generator.
LEMMA StepEffect ==
  ASSUME IInv, Next
  PROVE  Stopped \/ Finish \/ \E items : Does(items)
<1>1. CASE VisitLiteralExpr
  BY <1>1, LiteralDoes
<1>2. CASE VisitVarExpr
  BY <1>2, VariableDoes DEF Stopped
<1>3. CASE VisitInputExpr
  BY <1>3, InputDoes
<1>4. CASE Descend
  BY <1>4, DescendDoes
<1>5. CASE VisitOperands
  BY <1>5, OperandsDo
<1>6. CASE ResumeAssignment
  BY <1>6, AssignmentDoes
<1>7. CASE ResumeUnary
  BY <1>7, UnaryDoes
<1>8. CASE ResumeBinary
  BY <1>8, BinaryDoes
<1>9. CASE ResumePostfix
  BY <1>9, PostfixDoes
<1>10. CASE VisitBlock
  BY <1>10, BlockDoes
<1>11. CASE Leave
  BY <1>11, EndDoes
<1>12. CASE ScopeContinues
  BY <1>12, StatementDoes
<1>13. CASE ScopeEnds
  BY <1>13, ScopeValueDoes
<1>14. CASE VisitFuncExpr
  BY <1>14, FunctionDoes
<1>15. CASE DefineParameter
  BY <1>15, ParameterDoes
<1>16. CASE LeaveFunction
  BY <1>16, FunctionEnds
<1>17. CASE VisitCallExpr
  BY <1>17, CallDoes DEF Stopped, RuntimeErrors
<1>18. CASE ResumeCallExpr
  BY <1>18, CalledDoes
<1>19. CASE ResumeVarStmt
  BY <1>19, VarStmtDoes
<1>20. CASE ResumeIfStmt
  BY <1>20, IfDoes
<1>21. CASE AfterThen
  BY <1>21, ThenDoes
<1>22. CASE AfterElse
  BY <1>22, ElseDoes
<1>23. CASE VisitWhileStmt
  BY <1>23, WhileDoes
<1>24. CASE ResumeWhileStmt
  BY <1>24, LoopDoes
<1>25. CASE AfterBody
  BY <1>25, BodyDoes
<1>26. CASE ResumePrintStmt
  BY <1>26, PrintDoes
<1>27. CASE ResumeExprStmt
  BY <1>27, ExprStmtDoes
<1>28. CASE ResumeReturnStmt
  BY <1>28, ReturnDoes
<1>29. CASE VisitFunctionStmt
  BY <1>29, ProgramDoes
<1>30. CASE ResumeFunctionStmt
  BY <1>30, ProgramEnds
<1>31. CASE Finish
  BY <1>31
<1> QED
  BY <1>1, <1>2, <1>3, <1>4, <1>5, <1>6, <1>7, <1>8, <1>9, <1>10, <1>11, <1>12, <1>13,
     <1>14, <1>15, <1>16, <1>17, <1>18, <1>19, <1>20, <1>21, <1>22, <1>23, <1>24,
     <1>25, <1>26, <1>27, <1>28, <1>29, <1>30, <1>31 DEF Next

\* A translation that has ended has nothing more to do.
EndedEmpty == status = Finished => todo = <<>>

\* Init and every step keep the invariant.
LEMMA Inductive == Spec => [](IInv /\ EndedEmpty)
<1>1. Init => IInv /\ EndedEmpty
  <2> SUFFICES ASSUME Init PROVE IInv /\ EndedEmpty
    OBVIOUS
  <2>1. PICK root \in Program : InitWith(root)
    BY DEF Init
  <2>2. /\ root \in Node /\ root.kind = "Function" /\ program = root
        /\ todo = <<Visit(root)>> /\ scopes = <<Facts!Opened(TRUE)>> /\ values = <<>>
        /\ functions = [x \in Name |-> Absent] /\ returnStack = <<>>
        /\ ir = EmptyModule /\ status = Running
    BY <2>1, AstAssumption, CodegenAssumption, SameScopes DEF InitWith
  <2>3. /\ Visit(root) \in Item /\ Visit(root).phase = "visit"
        /\ Need(Visit(root)) = 0 /\ Gain(Visit(root)) = 0
        /\ \A m : Fit(Visit(root), m)
    BY <2>2, VisitGood DEF ExprKind
  <2>4. Facts!Opened(TRUE) \in Facts!Scope(Binding) /\ Facts!Opened(TRUE).global = TRUE
    BY Facts!OpenedScope DEF Facts!Opened
  <2>5. /\ todo \in Seq(Item) /\ Len(todo) = 1 /\ DOMAIN todo = {1}
        /\ todo[1] = Visit(root)
    <3> DEFINE first == Visit(root)
    <3>1. todo = <<first>> /\ first \in Item
      BY <2>2, <2>3
    <3> HIDE DEF first
    <3>2. todo \in Seq(Item) /\ Len(todo) = 1 /\ DOMAIN todo = {1} /\ todo[1] = first
      BY <3>1
    <3> QED
      BY <3>2 DEF first
  <2>6. /\ scopes \in Seq(Facts!Scope(Binding)) /\ Len(scopes) = 1
        /\ scopes[1].global = TRUE
        /\ scopes # <<>>
    <3> DEFINE first == Facts!Opened(TRUE)
               Scope == Facts!Scope(Binding)
    <3>1. scopes = <<first>> /\ first \in Scope /\ first.global = TRUE
      BY <2>2, <2>4
    <3> HIDE DEF first, Scope
    <3>2. scopes \in Seq(Scope) /\ Len(scopes) = 1 /\ scopes[1] = first /\ scopes # <<>>
      BY <3>1
    <3> QED
      BY <3>1, <3>2 DEF Scope
  <2>7. TypeOK
    <3>1. scopes # <<>> /\ scopes \in Seq(Env!Scope(Binding))
      BY <2>6, SameScopes
    <3>2. functions \in [Name -> ({"func"} \X Nat) \cup {Absent}]
      BY <2>2
    <3>3. values \in Seq(Value) /\ returnStack \in Seq(Value)
      BY <2>2
    <3>4. ir \in ModuleState
      <4>1. <<>> \in Seq(FunctionRecords) /\ <<>> \in Seq(BlockRecords) /\ 0 \in Nat
        OBVIOUS
      <4> QED
        BY <4>1, <2>2 DEF EmptyModule, ModuleState
    <3>5. program \in Program /\ todo \in Seq(Item)
      BY <2>1, <2>2, <2>5
    <3>6. status \in {Running, Finished, Signalled} \cup RuntimeErrors
      BY <2>2
    <3> QED
      BY <3>1, <3>2, <3>3, <3>4, <3>5, <3>6 DEF TypeOK
  <2>8. ScopeOf(todo, scopes, Len(todo) + 1) = 1
    <3>1. LeavesIn(todo, 1, 1) = 0
      BY <2>3, <2>5, LeavesOne
    <3> QED
      BY <3>1, <2>5, <2>6 DEF ScopeOf, LeavesBefore
  <2>9. OneScopeEach
    BY <2>3, <2>5, <2>6, <2>8 DEF OneScopeEach, ScopesNested
  <2>10. OperandsThere
    <3> DEFINE first == Visit(root)
    <3>1. first \in Item /\ Need(first) = 0 /\ Gain(first) = 0 /\ todo = <<first>>
      BY <2>2, <2>3
    <3> HIDE DEF first
    <3>2. Balanced(<<first>>, 0, 0)
      <4>1. 0 \in Nat /\ 0 >= Need(first) /\ 0 + Gain(first) = 0
        BY <3>1
      <4>2. Balanced(<<first>>, 0, 0 + Gain(first))
        BY <4>1, <3>1, OneBalanced
      <4> QED
        BY <4>1, <4>2
    <3>3. Len(values) = 0
      BY <2>2
    <3> QED
      BY <3>1, <3>2, <3>3 DEF OperandsThere
  <2>11. NumbersFit
    BY <2>3, <2>5 DEF NumbersFit
  <2>12. Begun
    BY <2>2 DEF Begun
  <2>13. EndedEmpty
    BY <2>2 DEF EndedEmpty, Running, Finished
  <2> QED
    BY <2>7, <2>9, <2>10, <2>11, <2>12, <2>13 DEF IInv
<1>2. IInv /\ EndedEmpty /\ [Next]_vars => IInv' /\ EndedEmpty'
  <2> SUFFICES ASSUME IInv, EndedEmpty, [Next]_vars PROVE IInv' /\ EndedEmpty'
    OBVIOUS
  <2>1. CASE UNCHANGED vars
    BY <2>1 DEF vars, IInv, TypeOK, OneScopeEach, OperandsThere, NumbersFit, Begun,
                EndedEmpty
  <2>2. CASE Next
    <3>1. program' = program
      BY <2>2 DEF Next
    <3>2. status = Running
      BY <2>2 DEF Next, At, VisitLiteralExpr, VisitVarExpr, VisitInputExpr, Descend,
                  VisitOperands, ResumeAssignment, ResumeUnary, ResumeBinary,
                  ResumePostfix, VisitBlock, Leave, ScopeContinues, ScopeEnds,
                  VisitFuncExpr, DefineParameter, LeaveFunction, VisitCallExpr,
                  ResumeCallExpr, ResumeVarStmt, ResumeIfStmt, AfterThen, AfterElse,
                  VisitWhileStmt, ResumeWhileStmt, AfterBody, ResumePrintStmt,
                  ResumeExprStmt, ResumeReturnStmt, VisitFunctionStmt,
                  ResumeFunctionStmt, Finish
    <3>3. CASE Stopped
      <4>1. PICK how \in RuntimeErrors \cup {Signalled} : Stop(how)
        BY <3>3 DEF Stopped
      <4>2. how # Finished
        BY DEF RuntimeErrors, NotAFunction, WrongArguments, Signalled, Finished
      <4>3. EndedEmpty'
        BY <4>1, <4>2 DEF Stop, EndedEmpty
      <4>4. IInv'
        BY <4>1, <3>1 DEF Stop, IInv, TypeOK, OneScopeEach, OperandsThere, NumbersFit,
                          Begun
      <4> QED
        BY <4>3, <4>4
    <3>4. CASE Finish
      BY <3>1, <3>4 DEF Finish, IInv, TypeOK, OneScopeEach, OperandsThere, NumbersFit,
                        Begun, EndedEmpty
    <3>5. CASE \E items : Does(items)
      <4>1. IInv'
        BY <3>1, <3>5, DoesKeeps
      <4>2. status' = status
        BY <3>5 DEF Does
      <4> QED
        BY <4>1, <4>2, <3>2 DEF EndedEmpty, Running, Finished
    <3> QED
      BY <2>2, <3>3, <3>4, <3>5, StepEffect
  <2> QED
    BY <2>1, <2>2
<1> QED
  BY <1>1, <1>2, PTL DEF Spec

\* Whatever program is translated, every name is bound to a variable or a function of
\* the module, every operand of an instruction is a value, and the module keeps its
\* shape: no visit misses the value of what it has visited.
THEOREM TypeCorrect == Spec => []TypeOK
<1>1. IInv => TypeOK
  BY DEF IInv
<1> QED
  BY <1>1, Inductive, PTL

\* From the first visit on the builder is in a block, and every block is in a function
\* with an entry block of its own, where allocVar puts variables: no branch, body or
\* return of a nested function leaves it where there is none.
BuilderPlaced == ir = EmptyModule \/ WellMade(ir)

\* The builder always has a place, whatever program it is given.
THEOREM Placed == Spec => []BuilderPlaced
<1>1. IInv => BuilderPlaced
  BY DEF IInv, Begun, BuilderPlaced
<1> QED
  BY <1>1, Inductive, PTL

\* When visitStmt of the program returns, every value was used, every scope was left
\* but the one of the code generator itself, and code was put somewhere.
CleanEnd ==
  status = Finished => values = <<>> /\ Len(scopes) = 1 /\ WellMade(ir)

\* A translation that ends leaves nothing over, also when a return was in the middle
\* of a branch or a loop.
THEOREM NothingLeftOver == Spec => []CleanEnd
<1>1. IInv /\ EndedEmpty => CleanEnd
  <2> SUFFICES ASSUME IInv, EndedEmpty, status = Finished
               PROVE  values = <<>> /\ Len(scopes) = 1 /\ WellMade(ir)
    BY DEF CleanEnd
  <2>1. todo = <<>>
    BY DEF EndedEmpty
  <2>2. values = <<>>
    <3>1. Balanced(<<>>, Len(values), 0)
      BY <2>1 DEF IInv, OperandsThere
    <3>2. Len(values) = 0
      BY <3>1 DEF Balanced
    <3>3. values \in Seq(Value)
      BY DEF IInv, TypeOK
    <3> QED
      BY <3>2, <3>3
  <2>3. Len(scopes) = 1
    <3>1. ScopeOf(todo, scopes, Len(todo) + 1) = 1
      BY DEF IInv, OneScopeEach, ScopesNested
    <3>2. Len(todo) = 0 /\ Len(scopes) \in Nat
      BY <2>1 DEF IInv, TypeOK
    <3>3. LeavesIn(todo, 1, 0) = 0
      BY LeavesNone
    <3> QED
      BY <3>1, <3>2, <3>3 DEF ScopeOf, LeavesBefore
  <2>4. WellMade(ir)
    <3>1. todo # <<Visit(program)>>
      BY <2>1
    <3> QED
      BY <3>1 DEF IInv, Begun
  <2> QED
    BY <2>2, <2>3, <2>4
<1> QED
  BY <1>1, Inductive, PTL

-----------------------------------------------------------------------------
(***************************************************************************)
(* Values that are there.                                                  *)
(***************************************************************************)

\* The first item goes on with fresh ones; it is not a return.
LEMMA FreshGoesOn ==
  ASSUME IInv, LoopsReturn(todo, returnStack), NEW phase, NEW kinds, At(phase, kinds),
         phase \in {"visit", "resume"} => "Return" \notin kinds,
         NEW items, Fresh(items), Continue(items)
  PROVE  LoopsReturn(todo', returnStack')
<1>1. todo \in Seq(Item) /\ todo # <<>> /\ ~Returning(todo[1])
  BY First DEF Returning
<1>2. LoopsReturn(items, returnStack') /\ items \in Seq(Item)
  BY FreshLoops DEF Fresh
<1>3. ReturnsOn(todo, items, returnStack')
  BY <1>1, <1>2 DEF ReturnsOn
<1>4. todo' = items \o Tail(todo)
  BY DEF Continue
<1>5. LoopsReturn(items \o Tail(todo), returnStack')
  BY <1>3, LoopsStep
<1> QED
  BY <1>4, <1>5

\* Operands are visited, and then the node is resumed: a return also goes on so.
LEMMA OperandsGoOn ==
  ASSUME IInv, LoopsReturn(todo, returnStack), VisitOperands
  PROVE  LoopsReturn(todo', returnStack')
<1> DEFINE operands == IF node.kind = "If" THEN <<node.kids[1]>> ELSE node.kids
           visits == VisitAll(operands)
           last == Resume(node)
           items == visits \o <<last>>
           kinds == {"Assignment", "Unary", "Binary", "Postfix", "VarStmt", "If",
                     "Print", "ExprStmt", "Return"}
<1>1. At("visit", kinds) /\ Continue(items)
  BY DEF VisitOperands
<1> HIDE DEF kinds
<1>2. /\ todo \in Seq(Item) /\ todo # <<>> /\ node \in Node /\ node = todo[1].node
  BY <1>1, First
<1>3. operands \in Seq(Node)
  <2>1. node.kids \in Seq(Node)
    BY <1>2, NodeFacts
  <2>2. node.kind = "If" => node.kids[1] \in Node
    BY <1>2, KidsOf
  <2> QED
    BY <2>1, <2>2
<1> HIDE DEF operands
<1>4. last \in Item /\ last.phase = "resume" /\ last.index = 0 /\ last.node = node
  BY <1>2, ItemTypes
<1>5. Fresh(visits)
  BY <1>3, FreshVisits
<1> HIDE DEF visits, last
<1>6. Fresh(items) /\ items # <<>> /\ items[Len(items)] = last
  BY <1>4, <1>5, FreshThen
<1> HIDE DEF items
<1>7. LoopsReturn(items, returnStack') /\ items \in Seq(Item)
  BY <1>6, FreshLoops DEF Fresh
<1>8. Returning(todo[1]) => Returning(items[Len(items)])
  BY <1>2, <1>4, <1>6 DEF Returning
<1>9. ReturnsOn(todo, items, returnStack')
  BY <1>2, <1>6, <1>7, <1>8 DEF ReturnsOn
<1>10. LoopsReturn(items \o Tail(todo), returnStack')
  BY <1>9, LoopsStep
<1> QED
  BY <1>1, <1>10 DEF Continue

\* The value is on the stack when the loop goes on.
LEMMA ReturnGoesOn ==
  ASSUME IInv, LoopsReturn(todo, returnStack), ResumeReturnStmt
  PROVE  LoopsReturn(todo', returnStack')
<1> DEFINE none == <<>>
           v == Result
<1>1. /\ At("resume", {"Return"}) /\ Continue(none)
      /\ returnStack' = Append(returnStack, v)
  BY DEF ResumeReturnStmt
<1>2. todo \in Seq(Item) /\ todo # <<>> /\ returnStack \in Seq(Value)
  BY <1>1, First
<1> HIDE DEF v
<1>3. returnStack' # <<>>
  BY <1>1, <1>2
<1>4. Fresh(none) /\ none = <<>>
  BY FreshSequences
<1> HIDE DEF none
<1>5. LoopsReturn(none, returnStack') /\ none \in Seq(Item)
  BY <1>4, FreshLoops DEF Fresh
<1>6. ReturnsOn(todo, none, returnStack')
  BY <1>2, <1>3, <1>4, <1>5 DEF ReturnsOn
<1>7. LoopsReturn(none \o Tail(todo), returnStack')
  BY <1>6, LoopsStep
<1> QED
  BY <1>1, <1>7 DEF Continue

\* The next statement, when the one before has not returned.
LEMMA LoopGoesOn ==
  ASSUME IInv, LoopsReturn(todo, returnStack), ScopeContinues
  PROVE  LoopsReturn(todo', returnStack')
<1>1. /\ At("resume", {"Scope"}) /\ ~Returned /\ ~Exhausted
      /\ returnStack' = returnStack
      /\ Continue(<<Visit(node.kids[todo[1].index + 1]),
                    ResumeAt(node, todo[1].index + 1)>>)
  BY DEF ScopeContinues, environment
<1>2. /\ todo \in Seq(Item) /\ todo # <<>> /\ node = todo[1].node
      /\ node.kind = "Scope" /\ todo[1].phase = "resume" /\ Fit(todo[1], Len(ir.blocks))
  BY <1>1, First
<1>3. LoopsReturn(<<Visit(node.kids[todo[1].index + 1]),
                    ResumeAt(node, todo[1].index + 1)>> \o Tail(todo), returnStack)
  <2>1. todo[1].index <= Len(todo[1].node.kids)
    BY <1>2 DEF Fit
  <2>2. Looping(todo[1]) /\ todo[1].index # Len(todo[1].node.kids)
    BY <1>1, <1>2 DEF Looping, Exhausted
  <2>3. todo[1].index > 0 => returnStack = <<>>
    BY <1>1 DEF Returned
  <2> QED
    BY <1>2, <2>1, <2>2, <2>3, NextStatement
<1> QED
  BY <1>1, <1>3 DEF Continue

\* The actions that have two items come.
LEMMA PairGoesOn ==
  ASSUME IInv, LoopsReturn(todo, returnStack), NEW phase, NEW kinds, At(phase, kinds),
         phase \in {"visit", "resume"} => "Return" \notin kinds,
         NEW a \in Node, NEW b \in Item, ~Looping(b), Continue(<<Visit(a), b>>)
  PROVE  LoopsReturn(todo', returnStack')
<1>1. Visit(a) \in Item /\ ~Looping(Visit(a))
  BY ItemTypes DEF Looping
<1>2. Fresh(<<Visit(a), b>>)
  BY <1>1, FreshSequences
<1> QED
  BY <1>2, FreshGoesOn

\* One step of the walk.
LEMMA StepLoops ==
  ASSUME IInv, LoopsReturn(todo, returnStack), Next
  PROVE  LoopsReturn(todo', returnStack')
<1>1. ASSUME NEW how, Stop(how) PROVE LoopsReturn(todo', returnStack')
  BY <1>1 DEF Stop
<1>2. Fresh(<<>>)
  BY FreshSequences
<1>3. CASE VisitLiteralExpr \/ VisitInputExpr
  BY <1>2, <1>3, FreshGoesOn DEF VisitLiteralExpr, VisitInputExpr
<1>4. CASE VisitVarExpr
  BY <1>1, <1>2, <1>4, FreshGoesOn DEF VisitVarExpr
<1>5. CASE Descend
  <2>1. At("visit", {"Grouping", "Null"}) /\ Continue(VisitAll(node.kids))
    BY <1>5 DEF Descend
  <2>2. node.kids \in Seq(Node)
    BY <2>1, First, NodeFacts
  <2>3. Fresh(VisitAll(node.kids))
    BY <2>2, FreshVisits
  <2> QED
    BY <2>1, <2>3, FreshGoesOn
<1>6. CASE VisitOperands
  BY <1>6, OperandsGoOn
<1>7. CASE ResumeAssignment \/ ResumeUnary \/ ResumeBinary \/ ResumePostfix \/ ResumeCallExpr
  BY <1>2, <1>7, FreshGoesOn DEF ResumeAssignment, ResumeUnary, ResumeBinary, ResumePostfix,
                                 ResumeCallExpr
<1>8. CASE VisitBlock
  <2> DEFINE body == IF node.kind = "Scope" THEN <<ResumeAt(node, 0)>> ELSE VisitAll(node.kids)
             last == Leaving(node)
  <2>1. At("visit", {"Scope", "Block"}) /\ Continue(body \o <<last>>)
    BY <1>8 DEF VisitBlock
  <2>2. node \in Node /\ node.kids \in Seq(Node)
    BY <2>1, First, NodeFacts
  <2>3. last \in Item /\ ~Looping(last)
    BY <2>2, ItemTypes DEF Looping
  <2>4. Fresh(body)
    <3>1. ResumeAt(node, 0) \in Item /\ ResumeAt(node, 0).index = 0
      BY <2>2, LoopTypes
    <3> QED
      BY <2>2, <3>1, FreshSequences, FreshVisits
  <2> HIDE DEF body, last
  <2>5. Fresh(body \o <<last>>)
    BY <2>3, <2>4, FreshThen
  <2> QED
    BY <2>1, <2>5, FreshGoesOn
<1>9. CASE Leave
  BY <1>2, <1>9, FreshGoesOn DEF Leave
<1>10. CASE ScopeContinues
  BY <1>10, LoopGoesOn
<1>11. CASE ScopeEnds
  BY <1>2, <1>11, FreshGoesOn DEF ScopeEnds
<1>12. CASE VisitFuncExpr
  <2> DEFINE parameters == ItemAt("param", node, 1)
             loop == ResumeAt(node.kids[1], 0)
             last == ItemAt("leave", node, ir.insert)
             two == <<parameters, loop>>
  <2>1. At("visit", {"Func"}) /\ Continue(<<parameters, loop, last>>)
    BY <1>12 DEF VisitFuncExpr
  <2>2. /\ node \in Node /\ node.kind = "Func" /\ node.kids \in Seq(Node)
        /\ Len(node.kids) = 1 /\ ir.insert \in Nat
    BY <2>1, First, NodeFacts DEF ModuleState
  <2>3. node.kids[1] \in Node
    BY <2>2
  <2>4. parameters \in Item /\ ~Looping(parameters)
    BY <2>2, ItemAtTypes DEF Looping
  <2>5. loop \in Item /\ loop.index = 0
    BY <2>3, LoopTypes
  <2>6. last \in Item /\ ~Looping(last)
    BY <2>2, ItemAtTypes DEF Looping
  <2> HIDE DEF parameters, loop, last
  <2>7. Fresh(two)
    BY <2>4, <2>5, FreshSequences
  <2>8. Fresh(two \o <<last>>)
    BY <2>6, <2>7, FreshThen
  <2>9. two \o <<last>> = <<parameters, loop, last>>
    BY <2>4, <2>5, <2>6, ThreeItems
  <2> HIDE DEF two
  <2> QED
    BY <2>1, <2>8, <2>9, FreshGoesOn
<1>13. CASE DefineParameter
  <2> DEFINE next == ItemAt("param", node, block + 1)
  <2>1. /\ At("param", {"Func"})
        /\ Continue(<<>>) \/ Continue(<<next>>)
    BY <1>13 DEF DefineParameter, block
  <2>2. /\ At("param", {"Func"}) /\ node \in Node /\ block + 1 \in Nat
    BY <1>13, First DEF DefineParameter
  <2>3. next \in Item /\ ~Looping(next)
    <3>1. next \in Item /\ next.phase = "param"
      BY <2>2, ItemAtTypes
    <3> QED
      BY <3>1 DEF Looping
  <2> HIDE DEF next
  <2>4. Fresh(<<next>>)
    BY <2>3, FreshSequences
  <2> QED
    BY <1>2, <2>1, <2>2, <2>4, FreshGoesOn
<1>14. CASE LeaveFunction
  BY <1>2, <1>14, FreshGoesOn DEF LeaveFunction
<1>15. CASE VisitCallExpr
  <2> DEFINE visits == VisitAll(node.kids)
             last == Resume(node)
  <2>1. CASE todo' = todo /\ returnStack' = returnStack
    BY <2>1
  <2>2. CASE Continue(visits \o <<last>>)
    <3>1. At("visit", {"Call"})
      BY <1>15 DEF VisitCallExpr
    <3>2. node \in Node /\ node.kids \in Seq(Node)
      BY <3>1, First, NodeFacts
    <3>3. last \in Item /\ last.index = 0
      BY <3>2, ItemTypes
    <3>4. Fresh(visits)
      BY <3>2, FreshVisits
    <3> HIDE DEF visits, last
    <3>5. Fresh(visits \o <<last>>)
      BY <3>3, <3>4, FreshThen
    <3> QED
      BY <2>2, <3>1, <3>5, FreshGoesOn
  <2> QED
    BY <1>15, <2>1, <2>2 DEF VisitCallExpr, Stop
<1>16. CASE ResumeVarStmt \/ ResumePrintStmt \/ ResumeExprStmt
  BY <1>2, <1>16, FreshGoesOn DEF ResumeVarStmt, ResumePrintStmt, ResumeExprStmt
<1>17. CASE ResumeIfStmt
  <2> DEFINE then == Len(ir.blocks) + 1
             last == ItemAt("then", node, then)
  <2>1. At("resume", {"If"}) /\ Continue(<<Visit(node.kids[2]), last>>)
    BY <1>17 DEF ResumeIfStmt
  <2>2. node \in Node /\ node.kids[2] \in Node /\ then \in Nat
    <3>1. node \in Node /\ node.kind = "If" /\ ir \in ModuleState
      BY <2>1, First
    <3>2. node.kids[2] \in Node
      BY <3>1, KidsOf
    <3>3. then \in Nat
      BY <3>1 DEF ModuleState
    <3> QED
      BY <3>1, <3>2, <3>3
  <2> HIDE DEF then
  <2>3. last \in Item /\ ~Looping(last)
    BY <2>2, ItemAtTypes DEF Looping
  <2> HIDE DEF last
  <2> QED
    BY <2>1, <2>2, <2>3, PairGoesOn
<1>18. CASE AfterThen
  <2> DEFINE last == ItemAt("else", node, block)
  <2>1. At("then", {"If"})
    BY <1>18 DEF AfterThen
  <2>2. node \in Node /\ block \in Nat /\ node.kind = "If"
    BY <2>1, First
  <2>3. last \in Item /\ ~Looping(last)
    BY <2>2, ItemAtTypes DEF Looping
  <2>4. CASE Len(node.kids) = 3
    <3>1. Continue(<<Visit(node.kids[3]), last>>)
      BY <1>18, <2>4 DEF AfterThen
    <3>2. node.kids[3] \in Node
      BY <2>2, <2>4, KidsOf
    <3> HIDE DEF last
    <3> QED
      BY <2>1, <2>3, <3>1, <3>2, PairGoesOn
  <2>5. CASE Len(node.kids) # 3
    <3>1. Continue(<<>>)
      BY <1>18, <2>5 DEF AfterThen
    <3> QED
      BY <1>2, <2>1, <3>1, FreshGoesOn
  <2> QED
    BY <2>4, <2>5
<1>19. CASE AfterElse \/ AfterBody
  BY <1>2, <1>19, FreshGoesOn DEF AfterElse, AfterBody
<1>20. CASE VisitWhileStmt
  <2> DEFINE b == Len(ir.blocks) + 1
             last == ItemAt("resume", node, b)
  <2>1. At("visit", {"While"}) /\ Continue(<<Visit(node.kids[1]), last>>)
    BY <1>20 DEF VisitWhileStmt
  <2>2. node \in Node /\ node.kind = "While" /\ node.kids[1] \in Node /\ b \in Nat
    <3>1. node \in Node /\ node.kind = "While" /\ ir \in ModuleState
      BY <2>1, First
    <3>2. node.kids[1] \in Node
      BY <3>1, KidsOf
    <3>3. b \in Nat
      BY <3>1 DEF ModuleState
    <3> QED
      BY <3>1, <3>2, <3>3
  <2> HIDE DEF b
  <2>3. last \in Item /\ ~Looping(last)
    BY <2>2, ItemAtTypes DEF Looping
  <2> HIDE DEF last
  <2> QED
    BY <2>1, <2>2, <2>3, PairGoesOn
<1>21. CASE ResumeWhileStmt
  <2> DEFINE last == ItemAt("body", node, block)
  <2>1. At("resume", {"While"}) /\ Continue(<<Visit(node.kids[2]), last>>)
    BY <1>21 DEF ResumeWhileStmt
  <2>2. node \in Node /\ node.kids[2] \in Node /\ block \in Nat
    <3>1. At("resume", {"While"})
      BY <2>1
    <3>2. node \in Node /\ node.kind = "While" /\ block \in Nat
      BY <3>1, First
    <3> QED
      BY <3>2, KidsOf
  <2>3. last \in Item /\ ~Looping(last)
    BY <2>2, ItemAtTypes DEF Looping
  <2> HIDE DEF last
  <2> QED
    BY <2>1, <2>2, <2>3, PairGoesOn
<1>22. CASE ResumeReturnStmt
  BY <1>22, ReturnGoesOn
<1>23. CASE VisitFunctionStmt
  <2> DEFINE visits == VisitAll(node.kids)
             last == Resume(node)
  <2>1. At("visit", {"Function"}) /\ Continue(visits \o <<last>>)
    BY <1>23 DEF VisitFunctionStmt
  <2>2. node \in Node /\ node.kids \in Seq(Node)
    BY <2>1, First, NodeFacts
  <2>3. last \in Item /\ last.index = 0
    BY <2>2, ItemTypes
  <2>4. Fresh(visits)
    BY <2>2, FreshVisits
  <2> HIDE DEF visits, last
  <2>5. Fresh(visits \o <<last>>)
    BY <2>3, <2>4, FreshThen
  <2> QED
    BY <2>1, <2>5, FreshGoesOn
<1>24. CASE ResumeFunctionStmt
  BY <1>2, <1>24, FreshGoesOn DEF ResumeFunctionStmt
<1>25. CASE Finish
  BY <1>25 DEF Finish
<1> QED
  BY <1>3, <1>4, <1>5, <1>6, <1>7, <1>8, <1>9, <1>10, <1>11, <1>12, <1>13, <1>14, <1>15,
     <1>16, <1>17, <1>18, <1>19, <1>20, <1>21, <1>22, <1>23, <1>24, <1>25 DEF Next

\* What the values are if every expression has one.
Usable == Value \ {NullPtr}
NothingNull == values \in Seq(Usable) /\ returnStack \in Seq(Usable)

\* The values after a step, all of which are values of the module.
LEMMA UsableAfter ==
  ASSUME values \in Seq(Usable), values' \in Seq(Value), NEW n \in 0..Len(values), NEW v,
         \/ v # NullPtr /\ (Push(v) \/ Replace(n, v))
         \/ n = 1 /\ Pop
         \/ values' = values
  PROVE  values' \in Seq(Usable)
<1> DEFINE rest == Below(values, n)
<1>1. Len(values) - n \in Nat /\ \A i \in 1..(Len(values) - n) : i \in 1..Len(values)
  OBVIOUS
<1>2. rest \in Seq(Usable)
  BY <1>1 DEF Below
<1>3. ASSUME NEW s \in Seq(Usable), v # NullPtr, values' = Append(s, v)
      PROVE  values' \in Seq(Usable)
  <2>1. Len(s) + 1 \in DOMAIN values' /\ values'[Len(s) + 1] = v
    BY <1>3
  <2>2. v \in Value
    BY <2>1
  <2>3. v \in Usable
    BY <2>2, <1>3 DEF Usable
  <2> QED
    BY <2>3, <1>3
<1>4. CASE v # NullPtr /\ Push(v)
  BY <1>3, <1>4 DEF Push
<1>5. CASE v # NullPtr /\ Replace(n, v)
  BY <1>2, <1>3, <1>5 DEF Replace
<1>6. CASE n = 1 /\ Pop
  BY <1>2, <1>6 DEF Pop
<1> QED
  BY <1>4, <1>5, <1>6

\* What the builder returns is not null.
LEMMA NotNull ==
  /\ \A n : IntObj(n) # NullPtr /\ FunctionAt(n) # NullPtr
  /\ \A m, type : Latest(m, type) # NullPtr
  /\ \A lhs, rhs : \A op \in Arithmetic \cup Comparisons : Folded(op, lhs, rhs) # NullPtr
<1>1. \A n : IntObj(n) # NullPtr /\ BoolObj(n) # NullPtr /\ FunctionAt(n) # NullPtr
  BY DEF IntObj, BoolObj, FunctionAt, NullPtr
<1>2. \A m, type : Latest(m, type) # NullPtr
  BY DEF Latest, RegisterOf, NullPtr
<1>3. ASSUME NEW op \in Arithmetic \cup Comparisons, NEW lhs, NEW rhs
      PROVE  Folded(op, lhs, rhs) # NullPtr
  <2>1. BinaryResult(op, lhs, rhs) # NullPtr
    BY <1>1 DEF BinaryResult, Arithmetic, Comparisons
  <2>2. Poison # NullPtr
    BY DEF Poison, NullPtr
  <2> QED
    BY <2>1, <2>2 DEF Folded
<1> QED
  BY <1>1, <1>2, <1>3

\* What an action takes from the values is not null.
LEMMA UsableThere ==
  ASSUME IInv, NothingNull, NEW phase, NEW kinds, At(phase, kinds)
  PROVE  /\ values \in Seq(Usable) /\ returnStack \in Seq(Usable)
         /\ node \in Node /\ node.kind \in kinds /\ node = todo[1].node
         /\ todo[1].phase = phase /\ Len(values) \in Nat
         /\ Need(todo[1]) \in 0..Len(values) /\ 0 \in 0..Len(values)
         /\ Need(todo[1]) # 0 => 1 \in 0..Len(values) /\ Result # NullPtr
<1>1. /\ Need(todo[1]) \in Nat /\ Need(todo[1]) <= Len(values)
      /\ node \in Node /\ node.kind \in kinds /\ node = todo[1].node
      /\ todo[1].phase = phase /\ Len(values) \in Nat
  BY First
<1>2. \A k \in 1..Len(values) : values[k] # NullPtr
  BY DEF NothingNull, Usable
<1>3. Need(todo[1]) # 0 => 1 \in 0..Len(values) /\ Len(values) \in 1..Len(values)
  BY <1>1
<1>4. Need(todo[1]) # 0 => Result # NullPtr
  BY <1>2, <1>3 DEF Result
<1> QED
  BY <1>1, <1>3, <1>4 DEF NothingNull

\* Expressions.
LEMMA ExpressionsUsable ==
  ASSUME IInv, NothingNull, values' \in Seq(Value),
         \/ VisitLiteralExpr \/ VisitVarExpr \/ VisitInputExpr \/ ResumeUnary
         \/ ResumeBinary \/ LeaveFunction \/ VisitCallExpr \/ ResumeCallExpr
  PROVE  NothingNull'
<1>1. CASE VisitLiteralExpr \/ VisitVarExpr \/ VisitInputExpr \/ VisitCallExpr
  <2>1. CASE UNCHANGED <<values, returnStack>>
    BY <2>1 DEF NothingNull
  <2>2. CASE ~UNCHANGED <<values, returnStack>>
    <3>1. PICK v : v # NullPtr /\ Push(v)
      BY <1>1, <2>2, NotNull DEF VisitLiteralExpr, VisitVarExpr, VisitInputExpr,
                                 VisitCallExpr, Stop
    <3>2. returnStack' = returnStack
      BY <1>1 DEF VisitLiteralExpr, VisitVarExpr, VisitInputExpr, VisitCallExpr, Stop,
                  environment
    <3>3. 0 \in 0..Len(values) /\ values \in Seq(Usable)
      BY <1>1, UsableThere DEF VisitLiteralExpr, VisitVarExpr, VisitInputExpr,
                               VisitCallExpr
    <3>4. values' \in Seq(Usable)
      BY <3>1, <3>3, UsableAfter
    <3> QED
      BY <3>2, <3>4 DEF NothingNull
  <2> QED
    BY <2>1, <2>2
<1>2. CASE ResumeUnary
  <2>1. /\ At("resume", {"Unary"}) /\ UNCHANGED returnStack
        /\ \E v : v # NullPtr /\ Replace(1, v)
    BY <1>2, NotNull DEF ResumeUnary, environment
  <2>2. /\ node.kind = "Unary" /\ node = todo[1].node /\ todo[1].phase = "resume"
        /\ values \in Seq(Usable)
    BY <2>1, UsableThere
  <2>3. Need(todo[1]) # 0
    BY <2>2 DEF Need
  <2>4. 1 \in 0..Len(values)
    BY <2>1, <2>3, UsableThere
  <2>5. values' \in Seq(Usable)
    BY <2>1, <2>2, <2>4, UsableAfter
  <2> QED
    BY <2>1, <2>5 DEF NothingNull
<1>3. CASE ResumeBinary
  <2> DEFINE lhs == values[Len(values) - 1]
             rhs == Result
  <2>1. /\ At("resume", {"Binary"}) /\ UNCHANGED returnStack
        /\ \/ lhs = NullPtr
           \/ rhs = NullPtr
           \/ Replace(2, Folded(node.op, lhs, rhs))
           \/ \E v : v # NullPtr /\ Replace(2, v)
    BY <1>3, NotNull DEF ResumeBinary, environment
  <2>2. /\ node \in Node /\ node.kind = "Binary" /\ node = todo[1].node
        /\ todo[1].phase = "resume" /\ values \in Seq(Usable) /\ Len(values) \in Nat
    BY <2>1, UsableThere
  <2>3. Need(todo[1]) = 2
    BY <2>2 DEF Need
  <2>4. 2 \in 0..Len(values) /\ rhs # NullPtr
    BY <2>1, <2>3, UsableThere
  <2>5. lhs # NullPtr
    <3>1. Len(values) - 1 \in DOMAIN values
      BY <2>2, <2>4
    <3>2. lhs \in Usable
      BY <2>2, <3>1
    <3> QED
      BY <3>2 DEF Usable
  <2>6. node.op \in Arithmetic \cup Comparisons
    BY <2>2, NodeFacts DEF Operators, Arithmetic, Comparisons
  <2> HIDE DEF lhs, rhs
  <2>7. \E v : v # NullPtr /\ Replace(2, v)
    BY <2>1, <2>4, <2>5, <2>6, NotNull
  <2>8. values' \in Seq(Usable)
    BY <2>2, <2>4, <2>7, UsableAfter
  <2> QED
    BY <2>1, <2>8 DEF NothingNull
<1>4. CASE LeaveFunction
  <2>1. /\ At("leave", {"Func"}) /\ UNCHANGED returnStack
        /\ \E v : v # NullPtr /\ Replace(1, v)
    BY <1>4, NotNull DEF LeaveFunction
  <2>2. /\ node.kind = "Func" /\ node = todo[1].node /\ todo[1].phase = "leave"
        /\ values \in Seq(Usable)
    BY <2>1, UsableThere
  <2>3. Need(todo[1]) # 0
    BY <2>2 DEF Need
  <2>4. 1 \in 0..Len(values)
    BY <2>1, <2>3, UsableThere
  <2>5. values' \in Seq(Usable)
    BY <2>1, <2>2, <2>4, UsableAfter
  <2> QED
    BY <2>1, <2>5 DEF NothingNull
<1>5. CASE ResumeCallExpr
  <2> DEFINE count == Len(node.kids) + 1
  <2>1. /\ At("resume", {"Call"}) /\ UNCHANGED returnStack
        /\ \E v : v # NullPtr /\ Replace(count, v)
    BY <1>5, NotNull DEF ResumeCallExpr, environment
  <2>2. /\ node.kind = "Call" /\ node = todo[1].node /\ todo[1].phase = "resume"
        /\ values \in Seq(Usable) /\ Need(todo[1]) \in 0..Len(values)
    BY <2>1, UsableThere
  <2>3. Need(todo[1]) = count
    BY <2>2 DEF Need
  <2> HIDE DEF count
  <2>4. values' \in Seq(Usable)
    BY <2>1, <2>2, <2>3, UsableAfter
  <2> QED
    BY <2>1, <2>4 DEF NothingNull
<1> QED
  BY <1>1, <1>2, <1>3, <1>4, <1>5

\* A scope that ends has returned.
LEMMA ScopeUsable ==
  ASSUME IInv, NothingNull, LoopsReturn(todo, returnStack),
         \A n \in Node : EndsWithValue(n), ScopeEnds
  PROVE  NothingNull'
<1>1. At("resume", {"Scope"}) /\ (Returned \/ Exhausted)
  BY DEF ScopeEnds
<1>2. /\ todo \in Seq(Item) /\ todo # <<>> /\ node \in Node /\ node = todo[1].node
      /\ node.kind = "Scope" /\ todo[1].phase = "resume"
  BY <1>1, First
<1>3. Returned
  <2>1. CASE Exhausted
    <3>1. Looping(todo[1]) /\ todo[1].index = Len(todo[1].node.kids)
      BY <1>2, <2>1 DEF Looping, Exhausted
    <3>2. EndsWithValue(todo[1].node)
      BY <1>2
    <3>3. todo[1].index > 0 /\ returnStack # <<>>
      BY <1>2, <3>1, <3>2, LoopReturned
    <3> QED
      BY <3>3 DEF Returned
  <2> QED
    BY <1>1, <2>1
<1> DEFINE v == returnStack[Len(returnStack)]
<1>4. values' = Append(values, v) /\ returnStack' = Below(returnStack, 1)
  BY <1>3 DEF ScopeEnds, Push
<1>5. /\ values \in Seq(Usable) /\ returnStack \in Seq(Usable)
      /\ returnStack # <<>>
  BY <1>1, <1>3, UsableThere DEF Returned
<1>6. v \in Usable
  <2>1. Len(returnStack) \in DOMAIN returnStack
    BY <1>5
  <2> QED
    BY <1>5, <2>1
<1> HIDE DEF v
<1>7. values' \in Seq(Usable)
  BY <1>4, <1>5, <1>6
<1>8. returnStack' \in Seq(Usable)
  BY <1>4, <1>5 DEF Below
<1> QED
  BY <1>7, <1>8 DEF NothingNull

\* Statements.
LEMMA StatementsUsable ==
  ASSUME IInv, NothingNull, values' \in Seq(Value),
         \/ ResumeVarStmt \/ ResumeIfStmt \/ ResumeWhileStmt \/ ResumePrintStmt
         \/ ResumeExprStmt \/ ResumeReturnStmt
  PROVE  NothingNull'
<1> DEFINE kinds == {"VarStmt", "If", "While", "Print", "ExprStmt", "Return"}
<1>1. \E some \in SUBSET kinds : At("resume", some)
  BY DEF ResumeVarStmt, ResumeIfStmt, ResumeWhileStmt, ResumePrintStmt, ResumeExprStmt,
         ResumeReturnStmt
<1>2. Pop /\ (returnStack' = returnStack \/ returnStack' = Append(returnStack, Result))
  BY DEF ResumeVarStmt, ResumeIfStmt, ResumeWhileStmt, ResumePrintStmt, ResumeExprStmt,
         ResumeReturnStmt, environment
<1>3. /\ node.kind \in kinds /\ node = todo[1].node /\ todo[1].phase = "resume"
      /\ values \in Seq(Usable) /\ returnStack \in Seq(Usable)
  BY <1>1, UsableThere
<1>4. Need(todo[1]) # 0
  BY <1>3 DEF Need
<1>5. 1 \in 0..Len(values)
  BY <1>1, <1>4, UsableThere
<1>6. values' \in Seq(Usable)
  BY <1>2, <1>3, <1>5, UsableAfter
<1>7. Result \in Usable
  <2>1. Len(values) \in DOMAIN values
    BY <1>3, <1>5
  <2> QED
    BY <1>3, <2>1 DEF Result
<1>8. Append(returnStack, Result) \in Seq(Usable)
  BY <1>3, <1>7
<1>9. returnStack' \in Seq(Usable)
  BY <1>2, <1>3, <1>8
<1> QED
  BY <1>6, <1>9 DEF NothingNull

\* One step.
LEMMA StepUsable ==
  ASSUME IInv, NothingNull, LoopsReturn(todo, returnStack),
         \A n \in Node : EndsWithValue(n), values' \in Seq(Value), Next
  PROVE  NothingNull'
<1>1. CASE \/ VisitLiteralExpr \/ VisitVarExpr \/ VisitInputExpr \/ ResumeUnary
           \/ ResumeBinary \/ LeaveFunction \/ VisitCallExpr \/ ResumeCallExpr
  BY <1>1, ExpressionsUsable
<1>2. CASE ScopeEnds
  BY <1>2, ScopeUsable
<1>3. CASE \/ ResumeVarStmt \/ ResumeIfStmt \/ ResumeWhileStmt \/ ResumePrintStmt
           \/ ResumeExprStmt \/ ResumeReturnStmt
  BY <1>3, StatementsUsable
<1>4. CASE AfterThen \/ AfterElse \/ AfterBody
  <2>1. values' = values
    BY <1>4 DEF AfterThen, AfterElse, AfterBody
  <2>2. \E b : GoOnTo(b)
    BY <1>4 DEF AfterThen, AfterElse, AfterBody
  <2>3. returnStack' = <<>> \/ (returnStack # <<>> /\ returnStack' = Below(returnStack, 1))
    BY <2>2 DEF GoOnTo
  <2>4. returnStack \in Seq(Usable)
    BY DEF NothingNull
  <2>5. <<>> \in Seq(Usable)
    OBVIOUS
  <2>6. returnStack # <<>> => Below(returnStack, 1) \in Seq(Usable)
    BY <2>4 DEF Below
  <2>7. returnStack' \in Seq(Usable)
    BY <2>3, <2>5, <2>6
  <2> QED
    BY <2>1, <2>7 DEF NothingNull
<1>5. CASE \/ Descend \/ VisitOperands \/ ResumeAssignment \/ ResumePostfix \/ VisitBlock
           \/ Leave \/ ScopeContinues \/ VisitFuncExpr \/ DefineParameter
           \/ VisitWhileStmt \/ VisitFunctionStmt \/ ResumeFunctionStmt \/ Finish
  <2>1. UNCHANGED <<values, returnStack>>
    BY <1>5 DEF Descend, VisitOperands, ResumeAssignment, ResumePostfix, VisitBlock,
                Leave, ScopeContinues, VisitFuncExpr, DefineParameter, VisitWhileStmt,
                VisitFunctionStmt, ResumeFunctionStmt, Finish, environment
  <2> QED
    BY <2>1 DEF NothingNull
<1> QED
  BY <1>1, <1>2, <1>3, <1>4, <1>5 DEF Next

\* If every scope has a return among its own statements, as those the parser builds
\* have, no operand, argument or result is the nullptr that a scope without a value has.
THEOREM ValuesThere ==
  ASSUME \A n \in Node : EndsWithValue(n)
  PROVE  Spec => [](\A i \in DOMAIN values : values[i] # NullPtr)
<1> DEFINE SInv == NothingNull /\ LoopsReturn(todo, returnStack)
<1>1. Init => SInv
  <2> SUFFICES ASSUME Init PROVE SInv
    OBVIOUS
  <2>1. PICK root \in Program : InitWith(root)
    BY DEF Init
  <2>2. todo = <<Visit(root)>> /\ values = <<>> /\ returnStack = <<>> /\ root \in Node
    BY <2>1, AstAssumption DEF InitWith
  <2>3. Visit(root) \in Item /\ ~Looping(Visit(root))
    BY <2>2, ItemTypes DEF Looping
  <2>4. Fresh(todo)
    BY <2>2, <2>3, FreshSequences
  <2>5. LoopsReturn(todo, returnStack)
    BY <2>4, FreshLoops
  <2>6. values = <<>> /\ returnStack = <<>>
    BY <2>2
  <2>7. NothingNull
    BY <2>6 DEF NothingNull
  <2> QED
    BY <2>5, <2>7
<1>2. SInv /\ IInv /\ IInv' /\ [Next]_vars => SInv'
  <2> SUFFICES ASSUME SInv, IInv, IInv', [Next]_vars PROVE SInv'
    OBVIOUS
  <2>1. CASE UNCHANGED vars
    BY <2>1 DEF vars, NothingNull, LoopsReturn
  <2>2. CASE Next
    <3>1. values' \in Seq(Value)
      BY DEF IInv, TypeOK
    <3>2. NothingNull'
      BY <2>2, <3>1, StepUsable
    <3>3. LoopsReturn(todo', returnStack')
      BY <2>2, StepLoops
    <3> QED
      BY <3>2, <3>3 DEF LoopsReturn
  <2> QED
    BY <2>1, <2>2
<1>3. SInv => \A i \in DOMAIN values : values[i] # NullPtr
  BY DEF NothingNull, Usable
<1> QED
  BY <1>1, <1>2, <1>3, Inductive, PTL DEF Spec

-----------------------------------------------------------------------------
(***************************************************************************)
(* What the code of a function may use.                                    *)
(***************************************************************************)

\* The blocks of m, their functions and their instructions stay.
Keeps(m, n) ==
  \A b \in DOMAIN m.blocks :
    /\ b \in DOMAIN n.blocks
    /\ n.blocks[b].func = m.blocks[b].func
    /\ \A k \in DOMAIN m.blocks[b].code : \E l \in DOMAIN n.blocks[b].code :
         n.blocks[b].code[l].id = m.blocks[b].code[k].id

\* Code uses what its function may, or, where code is put now, one of the blocks to come.
LocalBut(m, coming) ==
  \A b \in DOMAIN m.blocks : \A k \in DOMAIN m.blocks[b].code :
    \A i \in DOMAIN m.blocks[b].code[k].args :
      \/ UsableIn(m, m.blocks[b].func, m.blocks[b].code[k].args[i])
      \/ m.blocks[b].func = Parent(m) /\ m.blocks[b].code[k].args[i] \in coming

\* m comes from o by operations of the builder for one function.
Follows(o, m, coming) ==
  /\ WellMade(m)
  /\ LocalBut(m, coming)
  /\ Keeps(o, m)
  /\ Parent(m) = Parent(o)

\* What is usable stays so.
LEMMA KeptUsable ==
  ASSUME NEW m, NEW n, Keeps(m, n), NEW f, NEW v, UsableIn(m, f, v)
  PROVE  UsableIn(n, f, v)
<1>1. v[1] \in {"reg", "slot"} =>
        \E b \in DOMAIN n.blocks :
          /\ n.blocks[b].func = f
          /\ \E k \in DOMAIN n.blocks[b].code : n.blocks[b].code[k].id = v[2]
  <2> SUFFICES ASSUME v[1] \in {"reg", "slot"}
               PROVE  \E b \in DOMAIN n.blocks :
                        /\ n.blocks[b].func = f
                        /\ \E k \in DOMAIN n.blocks[b].code : n.blocks[b].code[k].id = v[2]
    OBVIOUS
  <2>1. PICK b \in DOMAIN m.blocks :
          /\ m.blocks[b].func = f
          /\ \E k \in DOMAIN m.blocks[b].code : m.blocks[b].code[k].id = v[2]
    BY DEF UsableIn
  <2>2. PICK k \in DOMAIN m.blocks[b].code : m.blocks[b].code[k].id = v[2]
    BY <2>1
  <2>3. /\ b \in DOMAIN n.blocks /\ n.blocks[b].func = f
        /\ \E l \in DOMAIN n.blocks[b].code : n.blocks[b].code[l].id = v[2]
    BY <2>1, <2>2 DEF Keeps
  <2> QED
    BY <2>3
<1>2. v[1] = "arg" => v[2] = f
  BY DEF UsableIn
<1>3. v[1] = "block" => v[2] \in DOMAIN n.blocks /\ n.blocks[v[2]].func = f
  BY DEF UsableIn, Keeps
<1> QED
  BY <1>1, <1>2, <1>3 DEF UsableIn

\* Keeping goes on.
LEMMA KeepsOn ==
  ASSUME NEW m, NEW n, NEW o, Keeps(m, n), Keeps(n, o)
  PROVE  Keeps(m, o)
<1> SUFFICES ASSUME NEW b \in DOMAIN m.blocks
             PROVE  /\ b \in DOMAIN o.blocks
                    /\ o.blocks[b].func = m.blocks[b].func
                    /\ \A k \in DOMAIN m.blocks[b].code :
                         \E l \in DOMAIN o.blocks[b].code :
                           o.blocks[b].code[l].id = m.blocks[b].code[k].id
  BY DEF Keeps
<1>1. b \in DOMAIN n.blocks /\ n.blocks[b].func = m.blocks[b].func
  BY DEF Keeps
<1>2. b \in DOMAIN o.blocks /\ o.blocks[b].func = m.blocks[b].func
  BY <1>1 DEF Keeps
<1>3. ASSUME NEW k \in DOMAIN m.blocks[b].code
      PROVE  \E l \in DOMAIN o.blocks[b].code :
               o.blocks[b].code[l].id = m.blocks[b].code[k].id
  <2>1. PICK l \in DOMAIN n.blocks[b].code :
          n.blocks[b].code[l].id = m.blocks[b].code[k].id
    BY DEF Keeps
  <2>2. \E j \in DOMAIN o.blocks[b].code :
          o.blocks[b].code[j].id = n.blocks[b].code[l].id
    BY <1>1 DEF Keeps
  <2> QED
    BY <2>1, <2>2
<1> QED
  BY <1>2, <1>3

\* Nothing happened yet.
LEMMA FollowsSelf ==
  ASSUME NEW m, WellMade(m), LocalCode(m), NEW coming
  PROVE  Follows(m, m, coming) /\ Keeps(m, m)
<1>1. Keeps(m, m)
  BY DEF Keeps
<1>2. LocalBut(m, coming)
  BY DEF LocalCode, LocalBut
<1> QED
  BY <1>1, <1>2 DEF Follows

\* The blocks are there.
LEMMA NoneComing ==
  ASSUME NEW o, NEW m, NEW coming, Follows(o, m, coming),
         \A v \in coming : UsableIn(m, Parent(m), v)
  PROVE  Follows(o, m, {}) /\ LocalCode(m)
<1>1. LocalCode(m)
  BY DEF Follows, LocalBut, LocalCode
<1>2. LocalBut(m, {})
  BY <1>1 DEF LocalCode, LocalBut
<1> QED
  BY <1>1, <1>2 DEF Follows

\* Every instruction is an old one of the same block or one that uses what it may.
LEMMA NewCode ==
  ASSUME NEW o, NEW m, NEW coming, Follows(o, m, coming),
         NEW n, WellMade(n), Keeps(m, n), Parent(n) = Parent(m),
         \A b \in DOMAIN n.blocks : \A k \in DOMAIN n.blocks[b].code :
           \/ /\ b \in DOMAIN m.blocks
              /\ \E l \in DOMAIN m.blocks[b].code :
                   n.blocks[b].code[k].args = m.blocks[b].code[l].args
           \/ /\ n.blocks[b].func = Parent(m)
              /\ \A i \in DOMAIN n.blocks[b].code[k].args :
                   \/ UsableIn(m, Parent(m), n.blocks[b].code[k].args[i])
                   \/ n.blocks[b].code[k].args[i] \in coming
  PROVE  Follows(o, n, coming)
<1>1. Keeps(o, n) /\ Parent(n) = Parent(o)
  BY KeepsOn DEF Follows
<1>2. ASSUME NEW b \in DOMAIN n.blocks, NEW k \in DOMAIN n.blocks[b].code,
             NEW i \in DOMAIN n.blocks[b].code[k].args
      PROVE  \/ UsableIn(n, n.blocks[b].func, n.blocks[b].code[k].args[i])
             \/ n.blocks[b].func = Parent(n) /\ n.blocks[b].code[k].args[i] \in coming
  <2> DEFINE v == n.blocks[b].code[k].args[i]
  <2>1. CASE /\ b \in DOMAIN m.blocks
             /\ \E l \in DOMAIN m.blocks[b].code :
                  n.blocks[b].code[k].args = m.blocks[b].code[l].args
    <3>1. PICK l \in DOMAIN m.blocks[b].code :
                 n.blocks[b].code[k].args = m.blocks[b].code[l].args
      BY <2>1
    <3>2. \/ UsableIn(m, m.blocks[b].func, m.blocks[b].code[l].args[i])
          \/ m.blocks[b].func = Parent(m) /\ m.blocks[b].code[l].args[i] \in coming
      BY <2>1, <3>1 DEF Follows, LocalBut
    <3>3. n.blocks[b].func = m.blocks[b].func
      BY <2>1 DEF Keeps
    <3> QED
      BY <3>1, <3>2, <3>3, KeptUsable
  <2>2. CASE /\ n.blocks[b].func = Parent(m)
             /\ UsableIn(m, Parent(m), v) \/ v \in coming
    BY <2>2, KeptUsable, SMTT(30)
  <2> QED
    BY <2>1, <2>2
<1>3. LocalBut(n, coming)
  BY <1>2 DEF LocalBut
<1> QED
  BY <1>1, <1>3 DEF Follows

\* Another instruction in block b of m, in front of the others or behind them.
Inserted(m, n, b, op, args) ==
  /\ DOMAIN n.blocks = DOMAIN m.blocks
  /\ \A c \in DOMAIN m.blocks : c # b => n.blocks[c] = m.blocks[c]
  /\ n.blocks[b].func = m.blocks[b].func
  /\ LET i == Instruction(m, op, args)
         code == m.blocks[b].code
     IN  /\ i.args = args /\ i.id = n.count /\ code \in Seq(Instructions)
         /\ \/ n.blocks[b].code = Append(code, i)
            \/ n.blocks[b].code = <<i>> \o code

\* The builder does that.
LEMMA EmitInserts ==
  ASSUME NEW m, WellMade(m), NEW op \in Opcodes, NEW args \in Seq(Arguments)
  PROVE  /\ Inserted(m, Emit(m, op, args), m.insert, op, args)
         /\ \A b \in DOMAIN m.blocks : Inserted(m, EmitFirst(m, b, op, args), b, op, args)
<1> DEFINE i == Instruction(m, op, args)
<1>1. /\ m \in ModuleState /\ m.insert \in DOMAIN m.blocks
      /\ m.blocks \in Seq(BlockRecords) /\ m.count + 1 \in Nat
  BY ModuleParts DEF WellMade
<1>2. i.args = args /\ i.id = m.count + 1
  BY DEF Instruction
<1> HIDE DEF i
<1> DEFINE Coded(n, b, code) ==
             n = [m EXCEPT !.blocks = [m.blocks EXCEPT
                                         ![b] = [m.blocks[b] EXCEPT !.code = code]],
                           !.count = m.count + 1]
           Effect(n, b, code) ==
             /\ DOMAIN n.blocks = DOMAIN m.blocks
             /\ \A c \in DOMAIN m.blocks : c # b => n.blocks[c] = m.blocks[c]
             /\ n.blocks[b].func = m.blocks[b].func
             /\ n.blocks[b].code = code
             /\ m.blocks[b].code \in Seq(Instructions)
             /\ n.count = m.count + 1
<1>3. ASSUME NEW b \in DOMAIN m.blocks, NEW code, NEW n, Coded(n, b, code)
      PROVE  Effect(n, b, code)
  <2> DEFINE r == [m.blocks[b] EXCEPT !.code = code]
             blocks == [m.blocks EXCEPT ![b] = r]
             count == m.count + 1
  <2>1. m.blocks[b] \in BlockRecords
    BY <1>1
  <2>2. r.func = m.blocks[b].func /\ r.code = code /\ m.blocks[b].code \in Seq(Instructions)
    BY <2>1 DEF BlockRecords
  <2>3. n = [m EXCEPT !.blocks = blocks, !.count = count]
    BY <1>3
  <2> HIDE DEF r
  <2>4. /\ DOMAIN blocks = DOMAIN m.blocks /\ blocks[b] = r
        /\ \A c \in DOMAIN m.blocks : c # b => blocks[c] = m.blocks[c]
    OBVIOUS
  <2> HIDE DEF blocks, count
  <2>5. n.blocks = blocks /\ n.count = count
    BY <2>3, <1>1 DEF ModuleState
  <2> QED
    BY <2>2, <2>4, <2>5 DEF count
<1>4. Inserted(m, Emit(m, op, args), m.insert, op, args)
  <2> DEFINE b == m.insert
             code == Append(m.blocks[b].code, i)
             n == Emit(m, op, args)
  <2>1. Coded(n, b, code)
    BY <1>1 DEF Emit, i
  <2> HIDE DEF n, code, Coded, Effect
  <2>2. Effect(n, b, code)
    BY <2>1, <1>1, <1>3
  <2>3. Inserted(m, n, b, op, args)
    BY <2>2, <1>2 DEF Inserted, code, i, Effect
  <2> QED
    BY <2>3 DEF n
<1>5. ASSUME NEW b \in DOMAIN m.blocks
      PROVE  Inserted(m, EmitFirst(m, b, op, args), b, op, args)
  <2> DEFINE code == <<i>> \o m.blocks[b].code
             n == EmitFirst(m, b, op, args)
  <2>1. Coded(n, b, code)
    BY <1>1 DEF EmitFirst, i
  <2> HIDE DEF n, code, Coded, Effect
  <2>2. Effect(n, b, code)
    BY <2>1, <1>3
  <2>3. Inserted(m, n, b, op, args)
    BY <2>2, <1>2 DEF Inserted, code, i, Effect
  <2> QED
    BY <2>3 DEF n
<1> QED
  BY <1>4, <1>5

\* What the other instructions of the block are, and where the new one is.
LEMMA InsertedCode ==
  ASSUME NEW m, NEW n, NEW b \in DOMAIN m.blocks, NEW op, NEW args,
         Inserted(m, n, b, op, args)
  PROVE  /\ Keeps(m, n)
         /\ \E k \in DOMAIN n.blocks[b].code : n.blocks[b].code[k].id = n.count
         /\ \A k \in DOMAIN n.blocks[b].code :
              \/ \E l \in DOMAIN m.blocks[b].code : n.blocks[b].code[k] = m.blocks[b].code[l]
              \/ n.blocks[b].code[k].args = args
<1> DEFINE i == Instruction(m, op, args)
           old == m.blocks[b].code
           new == n.blocks[b].code
<1>1. /\ i.args = args /\ i.id = n.count /\ old \in Seq(Instructions)
      /\ new = Append(old, i) \/ new = <<i>> \o old
  BY DEF Inserted
<1>2. /\ DOMAIN n.blocks = DOMAIN m.blocks
      /\ \A c \in DOMAIN m.blocks : c # b => n.blocks[c] = m.blocks[c]
      /\ n.blocks[b].func = m.blocks[b].func
  BY DEF Inserted
<1> HIDE DEF i, old, new
<1>3. /\ \A k \in DOMAIN old : \E l \in DOMAIN new : new[l] = old[k]
      /\ \E k \in DOMAIN new : new[k] = i
      /\ \A k \in DOMAIN new : (\E l \in DOMAIN old : new[k] = old[l]) \/ new[k] = i
  <2>1. Len(old) \in Nat /\ DOMAIN old = 1..Len(old)
    BY <1>1
  <2>2. CASE new = Append(old, i)
    <3>1. /\ DOMAIN new = 1..(Len(old) + 1) /\ new[Len(old) + 1] = i
          /\ \A k \in 1..Len(old) : new[k] = old[k]
      BY <2>2, <1>1
    <3>2. /\ \A k \in 1..(Len(old) + 1) : k \in 1..Len(old) \/ k = Len(old) + 1
          /\ Len(old) + 1 \in 1..(Len(old) + 1)
          /\ \A k \in 1..Len(old) : k \in 1..(Len(old) + 1)
      BY <2>1
    <3> QED
      BY <2>1, <3>1, <3>2
  <2>3. CASE new = <<i>> \o old
    <3>1. /\ DOMAIN new = 1..(Len(old) + 1) /\ new[1] = i
          /\ \A k \in 1..Len(old) : new[k + 1] = old[k]
      BY <2>3, <1>1
    <3>2. /\ \A k \in 1..(Len(old) + 1) :
               k = 1 \/ (k - 1 \in 1..Len(old) /\ (k - 1) + 1 = k)
          /\ 1 \in 1..(Len(old) + 1)
          /\ \A k \in 1..Len(old) : k + 1 \in 1..(Len(old) + 1)
      BY <2>1
    <3>3. \A k \in 1..(Len(old) + 1) : k = 1 \/ new[k] = old[k - 1]
      BY <3>1, <3>2
    <3> QED
      BY <2>1, <3>1, <3>2, <3>3
  <2> QED
    BY <1>1, <2>2, <2>3
<1>4. ASSUME NEW c \in DOMAIN m.blocks, NEW k \in DOMAIN m.blocks[c].code
      PROVE  \E l \in DOMAIN n.blocks[c].code :
               n.blocks[c].code[l].id = m.blocks[c].code[k].id
  <2>1. CASE c = b
    <3>1. k \in DOMAIN old
      BY <2>1 DEF old
    <3>2. PICK l \in DOMAIN new : new[l] = old[k]
      BY <3>1, <1>3
    <3> QED
      BY <2>1, <3>2 DEF old, new
  <2>2. CASE c # b
    BY <2>2, <1>2
  <2> QED
    BY <2>1, <2>2
<1>5. Keeps(m, n)
  BY <1>2, <1>4 DEF Keeps
<1> QED
  BY <1>1, <1>3, <1>5 DEF old, new

\* An instruction that uses what it may.
LEMMA InsertedFollows ==
  ASSUME NEW o, NEW m, NEW coming, Follows(o, m, coming), NEW b \in DOMAIN m.blocks,
         m.blocks[b].func = Parent(m), NEW op, NEW args, NEW n, WellMade(n),
         Parent(n) = Parent(m), Inserted(m, n, b, op, args),
         \A i \in DOMAIN args : UsableIn(m, Parent(m), args[i]) \/ args[i] \in coming
  PROVE  /\ Follows(o, n, coming) /\ Keeps(m, n)
         /\ UsableIn(n, Parent(o), Slot(n.count))
         /\ \A type : UsableIn(n, Parent(o), RegisterOf(n.count, type))
<1>1. /\ Keeps(m, n)
      /\ \E k \in DOMAIN n.blocks[b].code : n.blocks[b].code[k].id = n.count
      /\ \A k \in DOMAIN n.blocks[b].code :
           \/ \E l \in DOMAIN m.blocks[b].code : n.blocks[b].code[k] = m.blocks[b].code[l]
           \/ n.blocks[b].code[k].args = args
  <2>1. Keeps(m, n)
    BY InsertedCode
  <2>2. \E k \in DOMAIN n.blocks[b].code : n.blocks[b].code[k].id = n.count
    BY InsertedCode, ZenonT(60)
  <2>3. \A k \in DOMAIN n.blocks[b].code :
          \/ \E l \in DOMAIN m.blocks[b].code : n.blocks[b].code[k] = m.blocks[b].code[l]
          \/ n.blocks[b].code[k].args = args
    BY InsertedCode
  <2> QED
    BY <2>1, <2>2, <2>3
<1>2. /\ DOMAIN n.blocks = DOMAIN m.blocks
      /\ \A c \in DOMAIN m.blocks : c # b => n.blocks[c] = m.blocks[c]
      /\ n.blocks[b].func = m.blocks[b].func
  BY DEF Inserted
<1>3. ASSUME NEW c \in DOMAIN n.blocks, NEW k \in DOMAIN n.blocks[c].code
      PROVE  \/ /\ c \in DOMAIN m.blocks
                /\ \E l \in DOMAIN m.blocks[c].code :
                     n.blocks[c].code[k].args = m.blocks[c].code[l].args
             \/ /\ n.blocks[c].func = Parent(m)
                /\ \A i \in DOMAIN n.blocks[c].code[k].args :
                     \/ UsableIn(m, Parent(m), n.blocks[c].code[k].args[i])
                     \/ n.blocks[c].code[k].args[i] \in coming
  <2>1. CASE c = b
    BY <2>1, <1>1, <1>2
  <2>2. CASE c # b
    BY <2>2, <1>2
  <2> QED
    BY <2>1, <2>2
<1>4. Follows(o, n, coming)
  BY <1>1, <1>3, NewCode
<1>5. ASSUME NEW v, v[1] \in {"reg", "slot"}, v[2] = n.count
      PROVE  UsableIn(n, Parent(o), v)
  <2>1. b \in DOMAIN n.blocks /\ n.blocks[b].func = Parent(o)
    BY <1>2 DEF Follows
  <2>2. v[1] # "arg" /\ v[1] # "block"
    BY <1>5
  <2> QED
    BY <1>1, <1>5, <2>1, <2>2 DEF UsableIn
<1>6. Slot(n.count)[1] = "slot" /\ Slot(n.count)[2] = n.count
  BY DEF Slot
<1>7. \A type : RegisterOf(n.count, type)[1] = "reg" /\ RegisterOf(n.count, type)[2] = n.count
  BY DEF RegisterOf
<1> QED
  BY <1>1, <1>4, <1>5, <1>6, <1>7

\* One more instruction.
LEMMA EmitFollows ==
  ASSUME NEW o, NEW m, NEW coming, Follows(o, m, coming),
         NEW op \in Opcodes, NEW args \in Seq(Arguments),
         \A i \in DOMAIN args : UsableIn(m, Parent(o), args[i]) \/ args[i] \in coming
  PROVE  /\ Follows(o, Emit(m, op, args), coming)
         /\ Keeps(m, Emit(m, op, args))
         /\ \A type : UsableIn(Emit(m, op, args), Parent(o), Latest(Emit(m, op, args), type))
<1> DEFINE n == Emit(m, op, args)
<1>1. WellMade(m) /\ Parent(m) = Parent(o)
  BY DEF Follows
<1>2. Inserted(m, n, m.insert, op, args)
  BY <1>1, EmitInserts
<1>3. WellMade(n) /\ Parent(n) = Parent(m)
  <2>1. Grows(m, n)
    BY <1>1, Emitted
  <2>2. Parent(n) = Parent(m)
    BY <1>1, Emitted
  <2> QED
    BY <2>1, <2>2 DEF Grows
<1> HIDE DEF n
<1>4. m.insert \in DOMAIN m.blocks /\ m.blocks[m.insert].func = Parent(m)
  BY <1>1 DEF WellMade, Parent
<1>5. \A i \in DOMAIN args : UsableIn(m, Parent(m), args[i]) \/ args[i] \in coming
  BY <1>1
<1>6. Follows(o, n, coming)
  BY <1>2, <1>3, <1>4, <1>5, InsertedFollows
<1>7. Keeps(m, n)
  BY <1>2, <1>3, <1>4, <1>5, InsertedFollows
<1>8. \A type : UsableIn(n, Parent(o), RegisterOf(n.count, type))
  BY <1>2, <1>3, <1>4, <1>5, InsertedFollows
<1> QED
  BY <1>6, <1>7, <1>8 DEF n, Latest

\* A new variable.
LEMMA AllocFollows ==
  ASSUME NEW o, NEW m, NEW coming, Follows(o, m, coming)
  PROVE  /\ Follows(o, allocVar(m), coming)
         /\ Keeps(m, allocVar(m))
         /\ UsableIn(allocVar(m), Parent(o), Slot(allocVar(m).count))
<1> DEFINE n == allocVar(m)
           b == m.funcs[Parent(m)].entry
           args == <<>>
<1>1. WellMade(m) /\ Parent(m) = Parent(o)
  BY DEF Follows
<1>2. /\ b \in DOMAIN m.blocks /\ m.blocks[b].func = Parent(m)
      /\ "alloca" \in Opcodes /\ args \in Seq(Arguments)
  BY <1>1, ParentType DEF Opcodes, HasEntry
<1>3. n = EmitFirst(m, b, "alloca", args)
  BY DEF allocVar
<1>4. WellMade(n) /\ Parent(n) = Parent(m)
  <2>1. Grows(m, n)
    BY <1>1, Allocated
  <2>2. Parent(n) = Parent(m)
    BY <1>1, Allocated
  <2> QED
    BY <2>1, <2>2 DEF Grows
<1>5. \A i \in DOMAIN args : UsableIn(m, Parent(m), args[i]) \/ args[i] \in coming
  OBVIOUS
<1> HIDE DEF n, b, args
<1>6. Inserted(m, n, b, "alloca", args)
  BY <1>1, <1>2, <1>3, EmitInserts
<1>7. Follows(o, n, coming)
  BY <1>2, <1>4, <1>5, <1>6, InsertedFollows
<1>8. Keeps(m, n)
  BY <1>2, <1>4, <1>5, <1>6, InsertedFollows
<1>9. UsableIn(n, Parent(o), Slot(n.count))
  BY <1>2, <1>4, <1>5, <1>6, InsertedFollows
<1> QED
  BY <1>7, <1>8, <1>9 DEF n

\* The same blocks.
LEMMA SameFollows ==
  ASSUME NEW o, NEW m, NEW coming, Follows(o, m, coming),
         NEW n, WellMade(n), n.blocks = m.blocks, Parent(n) = Parent(m)
  PROVE  Follows(o, n, coming) /\ Keeps(m, n)
<1>1. Keeps(m, n)
  BY DEF Keeps
<1>2. ASSUME NEW b \in DOMAIN n.blocks, NEW k \in DOMAIN n.blocks[b].code
      PROVE  /\ b \in DOMAIN m.blocks
             /\ \E l \in DOMAIN m.blocks[b].code :
                  n.blocks[b].code[k].args = m.blocks[b].code[l].args
  OBVIOUS
<1>3. Follows(o, n, coming)
  BY <1>1, <1>2, NewCode
<1> QED
  BY <1>1, <1>3

\* printf or scanf.
LEMMA LibraryFollows ==
  ASSUME NEW o, NEW m, NEW coming, Follows(o, m, coming),
         NEW name \in {Printf, Scanf}, NEW params \in Nat
  PROVE  /\ Follows(o, Library(m, name, params), coming)
         /\ Keeps(m, Library(m, name, params))
         /\ FunctionsNamed(Library(m, name, params), name) # {}
<1> DEFINE n == Library(m, name, params)
<1>1. WellMade(m)
  BY DEF Follows
<1>2. Grows(m, n) /\ FunctionsNamed(n, name) # {}
  BY <1>1, LibraryThere
<1>3. n.blocks = m.blocks /\ n.insert = m.insert
  <2>1. m \in ModuleState /\ name \in Name \cup {NoName, Main, Printf, Scanf}
    BY <1>1 DEF WellMade
  <2>2. Declare(m, name, params).blocks = m.blocks
    BY <2>1, Declaration
  <2>3. Declare(m, name, params).insert = m.insert
    BY <2>1, Declaration
  <2> QED
    BY <2>2, <2>3 DEF Library
<1>4. WellMade(n) /\ Parent(n) = Parent(m)
  BY <1>2, <1>3 DEF Grows, Parent
<1> HIDE DEF n
<1>5. Follows(o, n, coming)
  BY <1>3, <1>4, SameFollows
<1>6. Keeps(m, n)
  BY <1>3, <1>4, SameFollows
<1> QED
  BY <1>2, <1>5, <1>6 DEF n

\* A call of it.
LEMMA CallFollows ==
  ASSUME NEW o, NEW m, NEW coming, Follows(o, m, coming),
         NEW name, FunctionsNamed(m, name) # {}, NEW args \in Seq(Arguments),
         \A i \in DOMAIN args : UsableIn(m, Parent(o), args[i])
  PROVE  /\ Follows(o, CallNamed(m, name, args), coming)
         /\ Keeps(m, CallNamed(m, name, args))
<1> DEFINE f == CHOOSE f \in FunctionsNamed(m, name) : TRUE
           called == FunctionAt(f)
           all == <<called>> \o args
<1>1. f \in FunctionsNamed(m, name)
  OBVIOUS
<1> HIDE DEF f
<1>2. f \in Nat
  <2>1. m \in ModuleState
    BY DEF Follows, WellMade
  <2> QED
    BY <1>1, <2>1, ModuleParts DEF FunctionsNamed
<1>3. called \in Arguments
  BY <1>2, ValueTypes
<1>4. CallNamed(m, name, args) = Emit(m, "call", all)
  BY DEF CallNamed, f
<1>5. UsableIn(m, Parent(o), called)
  BY DEF UsableIn, FunctionAt
<1> HIDE DEF called
<1>6. all \in Seq(Arguments) /\ "call" \in Opcodes
  BY <1>3 DEF Opcodes
<1>7. ASSUME NEW i \in DOMAIN all PROVE UsableIn(m, Parent(o), all[i])
  <2>1. /\ Len(args) \in Nat /\ DOMAIN args = 1..Len(args)
        /\ DOMAIN all = 1..(Len(args) + 1) /\ all[1] = called
        /\ \A k \in 1..Len(args) : all[k + 1] = args[k]
    BY <1>3
  <2>2. CASE i = 1
    BY <2>1, <2>2, <1>5
  <2>3. CASE i # 1
    <3>1. i - 1 \in 1..Len(args) /\ (i - 1) + 1 = i
      BY <2>1, <2>3
    <3>2. all[i] = args[i - 1]
      BY <2>1, <3>1
    <3> QED
      BY <2>1, <3>1, <3>2
  <2> QED
    BY <2>2, <2>3
<1> HIDE DEF all
<1>8. Follows(o, Emit(m, "call", all), coming)
  BY <1>6, <1>7, EmitFollows
<1>9. Keeps(m, Emit(m, "call", all))
  BY <1>6, <1>7, EmitFollows
<1> QED
  BY <1>4, <1>8, <1>9

\* The builder goes to another block of the function.
LEMMA MoveFollows ==
  ASSUME NEW o, NEW m, NEW coming, Follows(o, m, coming),
         NEW b \in DOMAIN m.blocks, m.blocks[b].func = Parent(o)
  PROVE  Follows(o, SetInsertPoint(m, b), coming) /\ Keeps(m, SetInsertPoint(m, b))
<1> DEFINE n == SetInsertPoint(m, b)
<1>1. WellMade(m) /\ Parent(m) = Parent(o)
  BY DEF Follows
<1>2. Grows(m, n)
  BY <1>1, Moved
<1>3. n.insert = b
  BY <1>1, Moved
<1>4. n.blocks = m.blocks
  BY <1>1, Moved
<1> HIDE DEF n
<1>5. WellMade(n) /\ Parent(n) = Parent(m)
  BY <1>1, <1>2, <1>3, <1>4 DEF Grows, Parent
<1> QED
  BY <1>4, <1>5, SameFollows DEF n

\* One more block of the function.
LEMMA BlockFollows ==
  ASSUME NEW o, NEW m, NEW coming, Follows(o, m, coming)
  PROVE  /\ Follows(o, NewBlock(m, Parent(o)), coming)
         /\ Keeps(m, NewBlock(m, Parent(o)))
         /\ Len(m.blocks) \in Nat
         /\ Len(NewBlock(m, Parent(o)).blocks) = Len(m.blocks) + 1
         /\ Len(m.blocks) + 1 \in DOMAIN NewBlock(m, Parent(o)).blocks
         /\ NewBlock(m, Parent(o)).blocks[Len(m.blocks) + 1].func = Parent(o)
<1> DEFINE f == Parent(o)
           n == NewBlock(m, f)
           last == Len(m.blocks) + 1
<1>1. WellMade(m) /\ Parent(m) = f
  BY DEF Follows
<1>2. f \in Nat /\ HasEntry(m, f)
  BY <1>1, ParentType
<1> HIDE DEF f
<1>3. Grows(m, n)
  BY <1>1, <1>2, Blocked
<1>4. n.insert = m.insert
  BY <1>1, <1>2, Blocked
<1>5. Len(n.blocks) = last
  BY <1>1, <1>2, Blocked
<1>6. n.blocks[last] = [func |-> f, code |-> <<>>]
  BY <1>1, <1>2, Blocked
<1>7. \A b \in DOMAIN m.blocks : n.blocks[b] = m.blocks[b]
  BY <1>1, <1>2, Blocked
<1> HIDE DEF n
<1>8. /\ Len(m.blocks) \in Nat /\ DOMAIN m.blocks = 1..Len(m.blocks)
      /\ DOMAIN n.blocks = 1..Len(n.blocks) /\ WellMade(n)
      /\ m.insert \in DOMAIN m.blocks
  BY <1>1, <1>3, ModuleParts DEF Grows, WellMade
<1>9. /\ last \in DOMAIN n.blocks /\ n.blocks[last].func = f /\ n.blocks[last].code = <<>>
      /\ \A b \in DOMAIN m.blocks : b \in DOMAIN n.blocks
      /\ \A b \in DOMAIN n.blocks : b = last \/ b \in DOMAIN m.blocks
  BY <1>5, <1>6, <1>8
<1> HIDE DEF last
<1>10. Keeps(m, n)
  BY <1>7, <1>9 DEF Keeps
<1>11. Parent(n) = Parent(m)
  BY <1>4, <1>7, <1>8 DEF Parent
<1>12. ASSUME NEW b \in DOMAIN n.blocks, NEW k \in DOMAIN n.blocks[b].code
       PROVE  /\ b \in DOMAIN m.blocks
              /\ \E l \in DOMAIN m.blocks[b].code :
                   n.blocks[b].code[k].args = m.blocks[b].code[l].args
  <2>1. b # last
    BY <1>9
  <2>2. b \in DOMAIN m.blocks /\ n.blocks[b] = m.blocks[b]
    BY <2>1, <1>7, <1>9
  <2> QED
    BY <2>2
<1>13. Follows(o, n, coming)
  BY <1>8, <1>10, <1>11, <1>12, NewCode
<1> QED
  BY <1>5, <1>8, <1>9, <1>10, <1>13 DEF n, f, last

\* A new function leaves the code of the others as it is.
LEMMA DefineKeeps ==
  ASSUME NEW m \in ModuleState, NEW name \in Name \cup {NoName, Main, Printf, Scanf},
         NEW params \in Nat, LocalCode(m),
         \A b \in DOMAIN m.blocks : HasEntry(m, m.blocks[b].func)
  PROVE  Keeps(m, Define(m, name, params)) /\ LocalCode(Define(m, name, params))
<1> DEFINE n == Define(m, name, params)
           last == Len(m.blocks) + 1
<1>1. Grows(m, n)
  BY Defined
<1>2. Len(n.blocks) = last
  BY Defined
<1>3. n.blocks[last].code = <<>>
  BY Defined
<1>4. \A b \in DOMAIN m.blocks : n.blocks[b] = m.blocks[b]
  BY Defined
<1> HIDE DEF n
<1>5. /\ Len(m.blocks) \in Nat /\ DOMAIN m.blocks = 1..Len(m.blocks)
      /\ DOMAIN n.blocks = 1..Len(n.blocks)
  BY <1>1, ModuleParts DEF Grows, WellMade
<1>6. /\ \A b \in DOMAIN m.blocks : b \in DOMAIN n.blocks
      /\ \A b \in DOMAIN n.blocks : b = last \/ b \in DOMAIN m.blocks
  BY <1>2, <1>5
<1> HIDE DEF last
<1>7. Keeps(m, n)
  BY <1>4, <1>6 DEF Keeps
<1>8. ASSUME NEW b \in DOMAIN n.blocks, NEW k \in DOMAIN n.blocks[b].code,
             NEW i \in DOMAIN n.blocks[b].code[k].args
      PROVE  UsableIn(n, n.blocks[b].func, n.blocks[b].code[k].args[i])
  <2>1. b # last
    BY <1>3
  <2>2. b \in DOMAIN m.blocks /\ n.blocks[b] = m.blocks[b]
    BY <2>1, <1>4, <1>6
  <2>3. UsableIn(m, n.blocks[b].func, n.blocks[b].code[k].args[i])
    BY <2>2 DEF LocalCode
  <2> QED
    BY <2>3, <1>7, KeptUsable
<1> QED
  BY <1>7, <1>8 DEF LocalCode, n

-----------------------------------------------------------------------------
(***************************************************************************)
(* The function that an item is translated for.  Every item still to do    *)
(* has one: the current one, up to the end of its visit, and then the one  *)
(* to come back to.  Heights say how many values there are at every item.  *)
(***************************************************************************)

FuncEnd(item) == item.phase = "leave" /\ item.node.kind = "Func"

\* The blocks that the rest of an if or a while goes on with.
BlocksOf(item) ==
  IF item.phase \in {"then", "else"}
    THEN item.index..(item.index + Len(item.node.kids) - 1)
  ELSE IF item.phase = "body" \/ (item.phase = "resume" /\ item.node.kind = "While")
    THEN item.index..(item.index + 2)
  ELSE {}

Heights(items, a, h) ==
  /\ h \in [1..(Len(items) + 1) -> Nat]
  /\ h[1] = a
  /\ \A p \in 1..Len(items) :
       h[p] >= Need(items[p]) /\ h[p + 1] = h[p] + Gain(items[p])

\* The functions g of the items, f first, in the module m.
Places(items, m, f, g) ==
  /\ g \in [1..(Len(items) + 1) -> Nat]
  /\ g[1] = f
  /\ \A p \in 1..Len(items) :
       IF FuncEnd(items[p])
         THEN /\ items[p].index \in DOMAIN m.blocks
              /\ g[p + 1] = m.blocks[items[p].index].func
         ELSE g[p + 1] = g[p]

\* The item at p takes the value at j, and no item before it does.
Taken(items, h, p, j) ==
  /\ h[p] - Need(items[p]) < j /\ j <= h[p]
  /\ \A r \in 1..(p - 1) : j <= h[r] - Need(items[r])

\* Nothing in a function takes what was there before it, and an item takes what its
\* function may use.
OwnValues(items, h, g, m, vs) ==
  /\ \A r \in 1..Len(items) : FuncEnd(items[r]) =>
       \A p \in 1..r : h[r] <= h[p] - Need(items[p]) + 1
  /\ \A p \in 1..Len(items), j \in 1..Len(vs) : Taken(items, h, p, j) =>
       FuncEnd(items[p]) \/ UsableIn(m, g[p], vs[j])

\* The scopes seen from the one at t.
Seen(s, t) == {i \in 1..t : \A k \in (i + 1)..t : ~s[k].global}
Bound(m, f, scope) ==
  \A x \in Name : scope.objects[x] # Absent => UsableIn(m, f, scope.objects[x])
\* Who may use what a scope binds still may when it has become another.
Rebound(m, n, scope, other) == \A f : Bound(m, f, scope) => Bound(n, f, other)
\* After a step a scope is as it was, or it is the innermost and the function that code
\* goes to may use what it binds, or whoever could use that can still.
ScopesBound(m, n, f, s, t) ==
  \A i \in 1..Len(s) : i <= Len(t) =>
    \/ t[i] = s[i]
    \/ i = Len(s) /\ Bound(n, f, t[i])
    \/ Rebound(m, n, s[i], t[i])
OwnScopes(items, g, m, s) ==
  \A p \in 1..Len(items) : \A i \in Seen(s, ScopeOf(items, s, p)) : Bound(m, g[p], s[i])

OwnBlocks(items, g, m) ==
  \A p \in 1..Len(items) : \A b \in BlocksOf(items[p]) : UsableIn(m, g[p], BlockAt(b))

\* Each item finds values, names and blocks of its function.
Owned(items, m, vs, s) ==
  \E h, g :
    /\ Heights(items, Len(vs), h)
    /\ Places(items, m, Parent(m), g)
    /\ OwnValues(items, h, g, m, vs)
    /\ OwnScopes(items, g, m, s)
    /\ OwnBlocks(items, g, m)

\* z is x at the items that come first and y at those that wait.
Joins(old, items, x, y, z) ==
  /\ \A p \in 1..(Len(items) + 1) : z[p] = x[p]
  /\ \A j \in 2..(Len(old) + 1) : z[Len(items) + j - 1] = y[j]

\* There is such a z if x ends where y goes on.
LEMMA Joining ==
  ASSUME NEW old, NEW items, NEW new, Walks(old, items, new),
         NEW x \in [1..(Len(items) + 1) -> Nat], NEW y \in [1..(Len(old) + 1) -> Nat],
         x[Len(items) + 1] = y[2]
  PROVE  \E z \in [1..(Len(new) + 1) -> Nat] : Joins(old, items, x, y, z)
<1> DEFINE n == Len(items)
           l == Len(old)
           z == [p \in 1..(Len(new) + 1) |-> IF p <= n + 1 THEN x[p] ELSE y[p - n + 1]]
<1>1. n \in Nat /\ l \in Nat /\ l >= 1 /\ Len(new) = n + l - 1
  <2>1. old \in Seq(Item) /\ old # <<>> /\ items \in Seq(Item)
    BY DEF Walks
  <2>2. Len(new) = n + l - 1
    BY WalkStep
  <2> QED
    BY <2>1, <2>2
<1>2. x \in [1..(n + 1) -> Nat] /\ y \in [1..(l + 1) -> Nat] /\ x[n + 1] = y[2]
  OBVIOUS
<1>3. z = [p \in 1..(Len(new) + 1) |-> IF p <= n + 1 THEN x[p] ELSE y[p - n + 1]]
  OBVIOUS
<1> HIDE DEF n, l, z
<1>4. z \in [1..(Len(new) + 1) -> Nat]
  <2>1. ASSUME NEW p \in 1..(Len(new) + 1)
        PROVE  (IF p <= n + 1 THEN x[p] ELSE y[p - n + 1]) \in Nat
    <3>1. CASE p <= n + 1
      <4>1. p \in 1..(n + 1)
        BY <1>1, <3>1
      <4> QED
        BY <1>2, <3>1, <4>1
    <3>2. CASE ~(p <= n + 1)
      <4>1. p - n + 1 \in 1..(l + 1)
        BY <1>1, <3>2
      <4> QED
        BY <1>2, <3>2, <4>1
    <3> QED
      BY <3>1, <3>2
  <2> QED
    BY <1>3, <2>1
<1>5. ASSUME NEW p \in 1..(n + 1) PROVE z[p] = x[p]
  <2>1. p \in 1..(Len(new) + 1) /\ p <= n + 1
    BY <1>1
  <2> QED
    BY <1>3, <2>1
<1>6. ASSUME NEW j \in 2..(l + 1) PROVE z[n + j - 1] = y[j]
  <2>1. n + j - 1 \in 1..(Len(new) + 1)
    BY <1>1
  <2>2. z[n + j - 1] = IF n + j - 1 <= n + 1 THEN x[n + j - 1] ELSE y[(n + j - 1) - n + 1]
    BY <1>3, <2>1
  <2>3. (n + j - 1) - n + 1 = j
    BY <1>1
  <2>4. CASE n + j - 1 <= n + 1
    <3>1. j = 2 /\ n + j - 1 = n + 1
      BY <1>1, <2>4
    <3> QED
      BY <3>1, <2>2, <2>4, <1>2
  <2>5. CASE ~(n + j - 1 <= n + 1)
    BY <2>2, <2>3, <2>5
  <2> QED
    BY <2>4, <2>5
<1> QED
  BY <1>4, <1>5, <1>6 DEF Joins, n, l

\* What it is at an item of the new walk and at the next.
LEMMA JoinedAt ==
  ASSUME NEW old, NEW items, NEW new, Walks(old, items, new),
         NEW x, NEW y, NEW z, Joins(old, items, x, y, z), NEW p \in 1..Len(new)
  PROVE  \/ /\ p \in 1..Len(items) /\ new[p] = items[p]
            /\ z[p] = x[p] /\ z[p + 1] = x[p + 1]
         \/ \E j \in 2..Len(old) :
              /\ p = Len(items) + j - 1 /\ new[p] = old[j]
              /\ z[p] = y[j] /\ z[p + 1] = y[j + 1]
<1>1. Len(items) \in Nat /\ Len(old) \in Nat /\ new \in Seq(Item)
  BY WalkStep DEF Walks
<1>2. CASE p \in 1..Len(items) /\ new[p] = items[p]
  <2>1. p \in 1..(Len(items) + 1) /\ p + 1 \in 1..(Len(items) + 1)
    BY <1>1, <1>2
  <2> QED
    BY <2>1, <1>2 DEF Joins
<1>3. CASE \E j \in 2..Len(old) : p = Len(items) + j - 1 /\ new[p] = old[j]
  <2>1. PICK j \in 2..Len(old) : p = Len(items) + j - 1 /\ new[p] = old[j]
    BY <1>3
  <2>2. /\ j \in 2..(Len(old) + 1) /\ j + 1 \in 2..(Len(old) + 1)
        /\ p + 1 = Len(items) + (j + 1) - 1
    BY <1>1, <2>1
  <2>3. z[p] = y[j]
    BY <2>1, <2>2 DEF Joins
  <2>4. z[Len(items) + (j + 1) - 1] = y[j + 1]
    BY <2>2 DEF Joins
  <2> QED
    BY <2>1, <2>2, <2>3, <2>4
<1>4. p \in DOMAIN new
  BY <1>1
<1> QED
  BY <1>2, <1>3, <1>4, WalkPlaces

\* The heights of both, one after the other.
LEMMA JoinedHeights ==
  ASSUME NEW old, NEW items, NEW new, Walks(old, items, new),
         NEW a, NEW x, Heights(items, a, x), NEW b, NEW y, Heights(old, b, y),
         NEW z \in [1..(Len(new) + 1) -> Nat], Joins(old, items, x, y, z)
  PROVE  Heights(new, a, z)
<1>1. z[1] = a
  <2>1. 1 \in 1..(Len(items) + 1)
    BY DEF Walks
  <2> QED
    BY <2>1 DEF Joins, Heights
<1>2. ASSUME NEW p \in 1..Len(new)
      PROVE  z[p] >= Need(new[p]) /\ z[p + 1] = z[p] + Gain(new[p])
  <2>1. CASE p \in 1..Len(items) /\ new[p] = items[p] /\ z[p] = x[p] /\ z[p + 1] = x[p + 1]
    BY <2>1 DEF Heights
  <2>2. ASSUME NEW j \in 2..Len(old), new[p] = old[j], z[p] = y[j], z[p + 1] = y[j + 1]
        PROVE  z[p] >= Need(new[p]) /\ z[p + 1] = z[p] + Gain(new[p])
    <3>1. j \in 1..Len(old)
      BY DEF Walks
    <3>2. y[j] >= Need(old[j]) /\ y[j + 1] = y[j] + Gain(old[j])
      BY <3>1 DEF Heights
    <3> QED
      BY <2>2, <3>2
  <2>3. \/ /\ p \in 1..Len(items) /\ new[p] = items[p]
           /\ z[p] = x[p] /\ z[p + 1] = x[p + 1]
        \/ \E j \in 2..Len(old) :
             /\ p = Len(items) + j - 1 /\ new[p] = old[j]
             /\ z[p] = y[j] /\ z[p + 1] = y[j + 1]
    BY JoinedAt, SMTT(30)
  <2> QED
    BY <2>1, <2>2, <2>3
<1> QED
  BY <1>1, <1>2 DEF Heights

\* The functions of both.
LEMMA JoinedPlaces ==
  ASSUME NEW old, NEW items, NEW new, Walks(old, items, new),
         NEW m, NEW n, Keeps(m, n),
         NEW e, NEW x, Places(items, n, e, x), NEW f, NEW y, Places(old, m, f, y),
         NEW z \in [1..(Len(new) + 1) -> Nat], Joins(old, items, x, y, z)
  PROVE  Places(new, n, e, z)
<1>1. z[1] = e
  <2>1. 1 \in 1..(Len(items) + 1)
    BY DEF Walks
  <2> QED
    BY <2>1 DEF Joins, Places
<1> DEFINE Onward(item, v, w) ==
             IF FuncEnd(item)
               THEN item.index \in DOMAIN n.blocks /\ w = n.blocks[item.index].func
               ELSE w = v
<1>2. ASSUME NEW p \in 1..Len(new)
      PROVE  Onward(new[p], z[p], z[p + 1])
  <2>1. CASE p \in 1..Len(items) /\ new[p] = items[p] /\ z[p] = x[p] /\ z[p + 1] = x[p + 1]
    <3>1. Onward(items[p], x[p], x[p + 1])
      BY <2>1 DEF Places
    <3> QED
      BY <2>1, <3>1
  <2>2. ASSUME NEW j \in 2..Len(old), new[p] = old[j], z[p] = y[j], z[p + 1] = y[j + 1]
        PROVE  Onward(new[p], z[p], z[p + 1])
    <3>1. j \in 1..Len(old)
      BY DEF Walks
    <3>2. IF FuncEnd(old[j])
            THEN /\ old[j].index \in DOMAIN m.blocks
                 /\ y[j + 1] = m.blocks[old[j].index].func
            ELSE y[j + 1] = y[j]
      BY <3>1 DEF Places
    <3>3. Onward(old[j], y[j], y[j + 1])
      BY <3>2 DEF Keeps
    <3> QED
      BY <2>2, <3>3
  <2> QED
    BY <2>1, <2>2, JoinedAt
<1> QED
  BY <1>1, <1>2 DEF Places

\* Without the end of a function in between an item has the function of an earlier one.
LEMMA SamePlace ==
  ASSUME NEW items \in Seq(Item), NEW m, NEW f, NEW g, Places(items, m, f, g),
         NEW a \in 1..(Len(items) + 1), NEW b \in 1..(Len(items) + 1), a <= b,
         \A r \in a..(b - 1) : ~FuncEnd(items[r])
  PROVE  g[b] = g[a]
<1> SUFFICES ASSUME g[b] # g[a] PROVE FALSE
  OBVIOUS
<1> DEFINE T == {i \in a..b : g[i] # g[a]}
<1>1. T \in SUBSET Nat /\ T # {}
  BY DEF Places
<1> HIDE DEF T
<1>2. PICK c \in T : \A k \in T : c <= k
  BY <1>1, Facts!LeastNumber
<1>3. c \in a..b /\ g[c] # g[a] /\ c # a
  BY <1>2 DEF T
<1>4. /\ c - 1 \in a..b /\ ~(c <= c - 1) /\ c - 1 \in 1..Len(items) /\ (c - 1) + 1 = c
      /\ c - 1 \in a..(b - 1)
  BY <1>3
<1>5. g[c - 1] = g[a]
  BY <1>2, <1>4 DEF T
<1>6. g[(c - 1) + 1] = g[c - 1]
  BY <1>4 DEF Places
<1> QED
  BY <1>3, <1>4, <1>5, <1>6

\* The blocks of both.
LEMMA JoinedBlocks ==
  ASSUME NEW old, NEW items, NEW new, Walks(old, items, new),
         NEW m, NEW n, Keeps(m, n),
         NEW x, OwnBlocks(items, x, n), NEW y, OwnBlocks(old, y, m),
         NEW z, Joins(old, items, x, y, z)
  PROVE  OwnBlocks(new, z, n)
<1> SUFFICES ASSUME NEW p \in 1..Len(new), NEW b \in BlocksOf(new[p])
             PROVE  UsableIn(n, z[p], BlockAt(b))
  BY DEF OwnBlocks
<1>1. CASE p \in 1..Len(items) /\ new[p] = items[p] /\ z[p] = x[p] /\ z[p + 1] = x[p + 1]
  BY <1>1 DEF OwnBlocks
<1>2. ASSUME NEW j \in 2..Len(old), new[p] = old[j], z[p] = y[j], z[p + 1] = y[j + 1]
      PROVE  UsableIn(n, z[p], BlockAt(b))
  <2>1. j \in 1..Len(old)
    BY DEF Walks
  <2>2. UsableIn(m, y[j], BlockAt(b))
    BY <1>2, <2>1 DEF OwnBlocks
  <2> QED
    BY <1>2, <2>2, KeptUsable
<1> QED
  BY <1>1, <1>2, JoinedAt

\* The end of a function takes the value of its body.
LEMMA FuncEndNeeds ==
  ASSUME NEW item, FuncEnd(item)
  PROVE  Need(item) = 1 /\ Gain(item) = 0
BY DEF FuncEnd, Need, Gain

\* Numbers on both sides of another.
LEMMA Between ==
  /\ \A x, y, k \in Int : x <= k + 1 /\ k <= y => x <= y + 1
  /\ \A x, y, k \in Int : k <= y /\ y < x => ~(x <= k)
  /\ \A x, y, k \in Int : x <= y - 1 /\ y <= k + 1 => x <= k
  /\ \A x, y \in Nat : x \in Int /\ x - y \in Int
OBVIOUS

\* The values that a step leaves alone, and the new ones: those may be used by the
\* items and by the first that waits.
SameBelow(vs, ws, kept) ==
  \A j \in 1..Len(ws) : j <= kept => j \in 1..Len(vs) /\ ws[j] = vs[j]
UsableAbove(items, g, m, ws, kept) ==
  \A j \in 1..Len(ws) : ~(j <= kept) =>
    \A p \in 1..(Len(items) + 1) : UsableIn(m, g[p], ws[j])
\* The items take only new ones.
TakeAbove(items, h, kept) ==
  \A p \in 1..Len(items) :
    /\ kept <= h[p] - Need(items[p])
    /\ FuncEnd(items[p]) => h[p] <= kept + 1

\* The values that a step leaves alone are its items' and the others' as before; new ones
\* may be used by the items up to the function of the first that waits.
LEMMA JoinedValues ==
  ASSUME NEW old, NEW items, NEW new, Walks(old, items, new),
         NEW m, NEW n, Keeps(m, n), NEW vs, Len(vs) \in Nat, NEW ws, Len(ws) \in Nat,
         NEW kept, kept = Len(vs) - Need(old[1]),
         NEW e, NEW f, NEW a, NEW gx, NEW gy, NEW gz,
         Places(items, n, e, gx), Places(old, m, f, gy), gx[Len(items) + 1] = gy[2],
         Joins(old, items, gx, gy, gz),
         NEW hx, NEW hy, NEW hz,
         Heights(items, a, hx), Heights(old, Len(vs), hy),
         Joins(old, items, hx, hy, hz),
         OwnValues(old, hy, gy, m, vs),
         TakeAbove(items, hx, kept), SameBelow(vs, ws, kept),
         UsableAbove(items, gx, n, ws, kept)
  PROVE  OwnValues(new, hz, gz, n, ws)
<1> USE DEF TakeAbove, SameBelow, UsableAbove
<1>1. /\ old \in Seq(Item) /\ items \in Seq(Item) /\ Len(items) \in Nat /\ Len(old) \in Nat
      /\ Len(old) >= 1 /\ old[1] \in Item
  BY DEF Walks
<1>2. Need(old[1]) \in Nat /\ kept \in Int
  BY <1>1, NeedTypes
<1>3. /\ \A p \in 1..Len(items) : hx[p] \in Nat /\ Need(items[p]) \in Nat
      /\ \A p \in 1..Len(old) : hy[p] \in Nat /\ Need(old[p]) \in Nat
      /\ hy[1] = Len(vs) /\ 1 \in 1..Len(old)
  <2>1. /\ \A p \in 1..Len(items) : items[p] \in Item /\ p \in 1..(Len(items) + 1)
        /\ \A p \in 1..Len(old) : old[p] \in Item /\ p \in 1..(Len(old) + 1)
        /\ 1 \in 1..Len(old)
    BY <1>1
  <2>2. hx \in [1..(Len(items) + 1) -> Nat] /\ hy \in [1..(Len(old) + 1) -> Nat]
        /\ hy[1] = Len(vs)
    BY DEF Heights
  <2> QED
    BY <2>1, <2>2, NeedTypes
\* An item in front of the ones that wait, and one of those.
<1> DEFINE Early(p) == /\ p \in 1..Len(items) /\ new[p] = items[p]
                       /\ hz[p] = hx[p] /\ gz[p] = gx[p]
           Late(p, j) == /\ p = Len(items) + j - 1 /\ new[p] = old[j]
                         /\ hz[p] = hy[j] /\ gz[p] = gy[j]
<1>4. ASSUME NEW p \in 1..Len(new)
      PROVE  Early(p) \/ \E j \in 2..Len(old) : Late(p, j)
  <2>1. CASE p \in 1..Len(items) /\ new[p] = items[p] /\ hz[p] = hx[p] /\ hz[p + 1] = hx[p + 1]
    <3>1. p \in 1..(Len(items) + 1)
      BY <1>1, <2>1
    <3> QED
      BY <2>1, <3>1 DEF Joins
  <2>2. ASSUME NEW j \in 2..Len(old), p = Len(items) + j - 1, new[p] = old[j], hz[p] = hy[j]
        PROVE  Late(p, j)
    <3>1. j \in 2..(Len(old) + 1)
      BY <1>1
    <3> QED
      BY <2>2, <3>1 DEF Joins
  <2> QED
    BY <2>1, <2>2, JoinedAt
\* An old place is a place still.
<1>5. ASSUME NEW j \in 2..Len(old)
      PROVE  Len(items) + j - 1 \in 1..Len(new) /\ Late(Len(items) + j - 1, j)
  <2>1. j \in 2..(Len(old) + 1)
    BY <1>1
  <2>2. new[Len(items) + j - 1] = old[j] /\ Len(new) = Len(items) + Len(old) - 1
    BY WalkStep
  <2> QED
    BY <1>1, <2>1, <2>2 DEF Joins
<1>6. ASSUME NEW r \in 1..Len(new), FuncEnd(new[r]), NEW p \in 1..r
      PROVE  hz[r] <= hz[p] - Need(new[p]) + 1
  <2>1. p \in 1..Len(new)
    BY <1>1, WalkStep
  <2>2. CASE Early(r)
    <3>1. Early(p)
      <4>1. p \in 1..Len(items)
        BY <1>1, <2>2
      <4>2. ASSUME NEW j \in 2..Len(old), Late(p, j) PROVE FALSE
        BY <4>1, <4>2, <1>1
      <4> QED
        BY <2>1, <4>2, <1>4
    <3>2. hx[r] <= kept + 1 /\ kept <= hx[p] - Need(items[p])
      BY <1>6, <2>2, <3>1
    <3>3. hx[r] <= hx[p] - Need(items[p]) + 1
      <4>1. r \in 1..Len(items) /\ p \in 1..Len(items)
        BY <2>2, <3>1
      <4>2. hx[r] \in Nat /\ hx[p] \in Nat /\ Need(items[p]) \in Nat
        BY <4>1, <1>3
      <4>3. hx[r] \in Int /\ hx[p] - Need(items[p]) \in Int
        BY <4>2, Between
      <4> QED
        BY <3>2, <4>3, <1>2, Between
    <3> QED
      BY <2>2, <3>1, <3>3
  <2>3. ASSUME NEW i \in 2..Len(old), Late(r, i)
        PROVE  hz[r] <= hz[p] - Need(new[p]) + 1
    <3>1. i \in 1..Len(old) /\ FuncEnd(old[i])
      BY <1>1, <1>6, <2>3
    <3>2. \A q \in 1..i : hy[i] <= hy[q] - Need(old[q]) + 1
      BY <3>1 DEF OwnValues
    <3>3. CASE Early(p)
      <4>1. 1 \in 1..i
        BY <3>1
      <4>2. hy[i] <= hy[1] - Need(old[1]) + 1
        BY <3>2, <4>1
      <4>3. hy[i] <= kept + 1 /\ kept <= hx[p] - Need(items[p])
        BY <4>2, <1>3, <3>3
      <4>4. hy[i] <= hx[p] - Need(items[p]) + 1
        <5>1. p \in 1..Len(items)
          BY <3>3
        <5>2. hy[i] \in Nat /\ hx[p] \in Nat /\ Need(items[p]) \in Nat
          BY <5>1, <3>1, <1>3
        <5>3. hy[i] \in Int /\ hx[p] - Need(items[p]) \in Int
          BY <5>2, Between
        <5> QED
          BY <4>3, <5>3, <1>2, Between
      <4> QED
        BY <4>4, <2>3, <3>3
    <3>4. ASSUME NEW j \in 2..Len(old), Late(p, j)
          PROVE  hz[r] <= hz[p] - Need(new[p]) + 1
      <4>1. j \in 1..i
        BY <1>1, <2>3, <3>4
      <4>2. hy[i] <= hy[j] - Need(old[j]) + 1
        BY <3>2, <4>1
      <4> QED
        BY <4>2, <2>3, <3>4
    <3> QED
      BY <2>1, <3>3, <3>4, <1>4
  <2> QED
    BY <2>2, <2>3, <1>4
<1>7. ASSUME NEW p \in 1..Len(new), NEW j \in 1..Len(ws), Taken(new, hz, p, j),
             ~FuncEnd(new[p])
      PROVE  UsableIn(n, gz[p], ws[j])
  <2>1. CASE Early(p)
    <3>1. hx[p] - Need(items[p]) < j
      BY <2>1, <1>7 DEF Taken
    <3>2. ~(j <= kept) /\ p \in 1..(Len(items) + 1)
      <4>1. hx[p] - Need(items[p]) \in Int /\ j \in Int
        <5>1. hx[p] \in Nat /\ Need(items[p]) \in Nat
          BY <1>3, <2>1, Zenon
        <5> QED
          BY <5>1
      <4>2. kept <= hx[p] - Need(items[p])
        BY <2>1
      <4>3. ~(j <= kept)
        BY <3>1, <4>1, <4>2, <1>2, Between
      <4> QED
        BY <4>3, <1>1, <2>1
    <3> QED
      BY <3>2, <2>1
  <2>2. ASSUME NEW i \in 2..Len(old), Late(p, i)
        PROVE  UsableIn(n, gz[p], ws[j])
    <3>1. i \in 1..Len(old) /\ ~FuncEnd(old[i])
      BY <1>1, <1>7, <2>2
    <3>2. ASSUME NEW r \in 2..(i - 1) PROVE j <= hy[r] - Need(old[r])
      <4>1. r \in 2..Len(old)
        BY <1>1
      <4>2. Late(Len(items) + r - 1, r) /\ Len(items) + r - 1 \in 1..(p - 1)
        BY <4>1, <1>1, <1>5, <2>2
      <4> QED
        BY <4>2, <1>7 DEF Taken
    <3>3. CASE j <= kept
      <4>1. j <= hy[1] - Need(old[1])
        BY <3>3, <1>3
      <4>2. \A r \in 1..(i - 1) : r = 1 \/ r \in 2..(i - 1)
        BY <3>1
      <4>3. \A r \in 1..(i - 1) : j <= hy[r] - Need(old[r])
        BY <4>1, <4>2, <3>2
      <4>4. hy[i] - Need(old[i]) < j /\ j <= hy[i]
        BY <1>7, <2>2 DEF Taken
      <4>5. Taken(old, hy, i, j)
        BY <4>3, <4>4 DEF Taken
      <4>6. j \in 1..Len(vs) /\ ws[j] = vs[j]
        BY <3>3
      <4>7. UsableIn(m, gy[i], vs[j])
        BY <4>5, <4>6, <3>1 DEF OwnValues
      <4> QED
        BY <4>6, <4>7, <2>2, KeptUsable
    <3>4. CASE ~(j <= kept)
      <4>1. ASSUME NEW r \in 2..(i - 1), FuncEnd(old[r]) PROVE FALSE
        <5>1. r \in 1..Len(old) /\ 1 \in 1..r /\ r \in 1..Len(old)
          BY <1>1
        <5>2. hy[r] <= hy[1] - Need(old[1]) + 1
          BY <4>1, <5>1 DEF OwnValues
        <5>3. j <= hy[r] - 1
          BY <4>1, <3>2, FuncEndNeeds
        <5>4. hy[r] \in Int /\ hy[1] - Need(old[1]) = kept /\ j \in Int
          <6>1. hy[r] \in Nat /\ hy[1] = Len(vs)
            BY <5>1, <1>3, Zenon
          <6> QED
            BY <6>1
        <5>5. hy[r] <= kept + 1
          BY <5>2, <5>4
        <5> QED
          BY <5>3, <5>4, <5>5, <3>4, <1>2, Between
      <4>2. 2 \in 1..(Len(old) + 1) /\ i \in 1..(Len(old) + 1) /\ 2 <= i
        BY <1>1
      <4>3. gy[i] = gy[2]
        BY <4>1, <4>2, <1>1, SamePlace
      <4>4. Len(items) + 1 \in 1..(Len(items) + 1)
        BY <1>1
      <4>5. UsableIn(n, gx[Len(items) + 1], ws[j])
        BY <3>4, <4>4
      <4> QED
        BY <4>3, <4>5, <2>2
    <3> QED
      BY <3>3, <3>4
  <2> QED
    BY <2>1, <2>2, <1>4
<1> QED
  BY <1>6, <1>7 DEF OwnValues

\* What is in the innermost scope waits for no visit to end.
LEMMA NoLeaves ==
  ASSUME NEW items, NEW p \in Nat, LeavesBefore(items, p) = 0,
         NEW q \in 1..(p - 1)
  PROVE  items[q].phase # "leave"
<1> SUFFICES ASSUME items[q].phase = "leave" PROVE FALSE
  OBVIOUS
<1>1. 1 \in Int /\ p - 1 \in Int
  OBVIOUS
<1>2. /\ IsFiniteSet(LeavePlaces(items, 1, p - 1))
      /\ LeavesIn(items, 1, p - 1) = Cardinality(LeavePlaces(items, 1, p - 1))
  BY <1>1, LeavesFinite
<1>3. Cardinality(LeavePlaces(items, 1, p - 1)) = 0
  BY <1>2 DEF LeavesBefore
<1>4. LeavePlaces(items, 1, p - 1) = {}
  BY <1>2, <1>3, FS_EmptySet
<1>5. q \in LeavePlaces(items, 1, p - 1)
  BY DEF LeavePlaces
<1> QED
  BY <1>4, <1>5

\* The scopes that a step leaves alone are the others' as before; in the innermost one a
\* name may have been bound to what the function there may use, in any of them to what
\* every function may use.
LEMMA JoinedScopes ==
  ASSUME NEW old, NEW items, NEW new, Walks(old, items, new),
         NEW s, NEW t, InStep(old, items, s, t),
         \A i \in 1..Len(s) : i <= Len(t) => t[i].global = s[i].global,
         NEW m, NEW n, Keeps(m, n),
         NEW f, NEW gx, NEW gy, NEW gz, Places(old, m, f, gy),
         Joins(old, items, gx, gy, gz),
         OwnScopes(old, gy, m, s),
         \A p \in 1..Len(items) : \A i \in Seen(t, Len(t)) : Bound(n, gx[p], t[i]),
         ScopesBound(m, n, f, s, t)
  PROVE  OwnScopes(new, gz, n, t)
<1>1. /\ old \in Seq(Item) /\ Len(items) \in Nat /\ Len(old) \in Nat
      /\ Len(s) \in Nat /\ Len(t) \in Nat
  BY DEF Walks, InStep
<1> SUFFICES ASSUME NEW p \in 1..Len(new), NEW i \in Seen(t, ScopeOf(new, t, p))
             PROVE  Bound(n, gz[p], t[i])
  BY DEF OwnScopes
<1>2. CASE p \in 1..Len(items) /\ new[p] = items[p] /\ gz[p] = gx[p] /\ gz[p + 1] = gx[p + 1]
  <2>1. ScopeOf(new, t, p) = Len(t)
    BY <1>2, ScopesOfItems
  <2> QED
    BY <1>2, <2>1
<1>3. ASSUME NEW j \in 2..Len(old), p = Len(items) + j - 1, gz[p] = gy[j]
      PROVE  Bound(n, gz[p], t[i])
  <2>1. j \in 2..(Len(old) + 1) /\ j \in 1..Len(old) /\ j \in 1..(Len(old) + 1)
        /\ 1 \in 1..(Len(old) + 1)
    BY <1>1
  <2> DEFINE k == ScopeOf(old, s, j)
  <2>2. ScopeOf(new, t, p) = k
    BY <2>1, <1>3, ScopesOfItems
  <2>3. k <= Len(s) /\ k <= Len(t)
    BY <2>1, ScopesOfItems
  <2>4. /\ LeavesBefore(old, j) \in Nat /\ k = Len(s) - LeavesBefore(old, j)
        /\ k \in Int
    <3>1. LeavesBefore(old, j) \in Nat
      BY <2>1, WalkStep
    <3> QED
      BY <3>1, <1>1 DEF ScopeOf
  <2> HIDE DEF k
  <2>5. i \in 1..k /\ \A q \in (i + 1)..k : ~t[q].global
    BY <2>2 DEF Seen
  <2>6. i \in 1..Len(s) /\ i <= Len(t)
    BY <2>3, <2>4, <2>5, <1>1
  <2>7. CASE t[i] = s[i] \/ Rebound(m, n, s[i], t[i])
    <3>1. ASSUME NEW q \in (i + 1)..k PROVE ~s[q].global
      <4>1. q \in 1..Len(s) /\ q <= Len(t)
        BY <2>3, <2>4, <2>5, <1>1
      <4> QED
        BY <4>1, <2>5
    <3>2. i \in Seen(s, k)
      BY <3>1, <2>5 DEF Seen
    <3>3. Bound(m, gy[j], s[i])
      BY <3>2, <2>1 DEF OwnScopes, k
    <3>4. Bound(n, gy[j], s[i])
      BY <3>3, KeptUsable DEF Bound
    <3> QED
      BY <3>3, <3>4, <2>7, <1>3 DEF Rebound
  <2>8. CASE i = Len(s) /\ Bound(n, f, t[i])
    <3>1. LeavesBefore(old, j) = 0
      BY <2>3, <2>4, <2>5, <2>8, <1>1
    <3>2. \A q \in 1..(j - 1) : old[q].phase # "leave"
      BY <3>1, <2>1, NoLeaves
    <3>3. \A q \in 1..(j - 1) : ~FuncEnd(old[q])
      BY <3>2 DEF FuncEnd
    <3>4. gy[j] = gy[1]
      BY <3>3, <2>1, <1>1, SamePlace
    <3>5. gy[1] = f
      BY DEF Places
    <3> QED
      BY <3>4, <3>5, <2>8, <1>3
  <2>9. t[i] = s[i] \/ (i = Len(s) /\ Bound(n, f, t[i])) \/ Rebound(m, n, s[i], t[i])
    BY <2>6 DEF ScopesBound
  <2> QED
    BY <2>7, <2>8, <2>9
<1>4. \/ /\ p \in 1..Len(items) /\ new[p] = items[p]
         /\ gz[p] = gx[p] /\ gz[p + 1] = gx[p + 1]
      \/ \E j \in 2..Len(old) :
           /\ p = Len(items) + j - 1 /\ new[p] = old[j]
           /\ gz[p] = gy[j] /\ gz[p + 1] = gy[j + 1]
  BY JoinedAt
<1>5. CASE \E j \in 2..Len(old) : p = Len(items) + j - 1 /\ gz[p] = gy[j]
  <2>1. PICK j \in 2..Len(old) : p = Len(items) + j - 1 /\ gz[p] = gy[j]
    BY <1>5
  <2> QED
    BY <2>1, <1>3
<1> QED
  BY <1>2, <1>4, <1>5, Zenon

\* Heights above the values that are left alone.
HeightsAbove(items, a, b, kept, h) ==
  /\ Heights(items, a, h)
  /\ h[Len(items) + 1] = b
  /\ \A p \in 1..Len(items) : kept <= h[p] - Need(items[p])
LEMMA LiftedHeights ==
  ASSUME NEW items \in Seq(Item), NEW a \in Int, NEW b \in Int, NEW kept \in Nat,
         Balanced(items, a, b)
  PROVE  \E h : HeightsAbove(items, a + kept, b + kept, kept, h)
<1> DEFINE n == Len(items)
<1>1. n \in Nat /\ \A p \in 1..n : items[p] \in Item
  OBVIOUS
<1>2. PICK k \in [1..(n + 1) -> Nat] :
        /\ k[1] = a
        /\ k[n + 1] = b
        /\ \A p \in 1..n : k[p] >= Need(items[p]) /\ k[p + 1] = k[p] + Gain(items[p])
  BY DEF Balanced
<1> DEFINE h == [p \in 1..(n + 1) |-> k[p] + kept]
<1> HIDE DEF n
<1>3. h \in [1..(n + 1) -> Nat] /\ \A p \in 1..(n + 1) : h[p] = k[p] + kept
  BY <1>2
<1> HIDE DEF h
<1>4. 1 \in 1..(n + 1) /\ n + 1 \in 1..(n + 1)
  BY <1>1
<1>5. h[1] = a + kept /\ h[n + 1] = b + kept
  BY <1>2, <1>3, <1>4
<1>6. ASSUME NEW p \in 1..n
      PROVE  /\ h[p] >= Need(items[p]) /\ h[p + 1] = h[p] + Gain(items[p])
             /\ kept <= h[p] - Need(items[p])
  <2> DEFINE d == Need(items[p])
             g == Gain(items[p])
             x == k[p]
             y == k[p + 1]
  <2>1. d \in Nat /\ g \in Int
    BY <1>1, NeedTypes
  <2>2. p \in 1..(n + 1) /\ p + 1 \in 1..(n + 1)
    BY <1>1
  <2>3. x \in Nat /\ y \in Nat /\ x >= d /\ y = x + g /\ h[p] = x + kept /\ h[p + 1] = y + kept
    BY <2>2, <1>2, <1>3
  <2> HIDE DEF d, g, x, y
  <2>4. h[p] >= d /\ h[p + 1] = h[p] + g /\ kept <= h[p] - d
    BY <2>1, <2>3
  <2> QED
    BY <2>4 DEF d, g
<1> QED
  BY <1>3, <1>5, <1>6 DEF Heights, HeightsAbove, n

\* The function that code goes on in when the first item is done.
FunctionAfter(items, m) ==
  IF FuncEnd(items[1]) THEN m.blocks[items[1].index].func ELSE Parent(m)

\* The values below the ones that an item takes.
LeavesAlone(kept, count, item) == kept = count - Need(item)

\* A step keeps what the items find, if its own items find it too.
LEMMA OwnedStep ==
  ASSUME NEW old, NEW items, NEW new, Walks(old, items, new),
         NEW s, NEW t, InStep(old, items, s, t),
         \A i \in 1..Len(s) : i <= Len(t) => t[i].global = s[i].global,
         NEW m, NEW n, Keeps(m, n),
         NEW vs, Len(vs) \in Nat, NEW ws, Len(ws) \in Nat, Owned(old, m, vs, s),
         NEW kept, LeavesAlone(kept, Len(vs), old[1]),
         Balanced(items, Len(ws) - kept, Need(old[1]) + Gain(old[1])),
         NEW gx, Places(items, n, Parent(n), gx), gx[Len(items) + 1] = FunctionAfter(old, m),
         \A r \in 1..Len(items) : FuncEnd(items[r]) =>
           r = Len(items) /\ Need(old[1]) + Gain(old[1]) = 1,
         SameBelow(vs, ws, kept), UsableAbove(items, gx, n, ws, kept),
         \A p \in 1..Len(items) : \A i \in Seen(t, Len(t)) : Bound(n, gx[p], t[i]),
         ScopesBound(m, n, Parent(m), s, t),
         OwnBlocks(items, gx, n)
  PROVE  Owned(new, n, ws, t)
<1>1. PICK hy, gy :
        /\ Heights(old, Len(vs), hy)
        /\ Places(old, m, Parent(m), gy)
        /\ OwnValues(old, hy, gy, m, vs)
        /\ OwnScopes(old, gy, m, s)
        /\ OwnBlocks(old, gy, m)
  BY DEF Owned
<1> DEFINE d == Need(old[1])
           g == Gain(old[1])
           a == Len(ws)
           b == Len(vs)
<1>2. /\ old \in Seq(Item) /\ items \in Seq(Item) /\ old[1] \in Item
      /\ 1 \in 1..Len(old) /\ Len(items) \in Nat
  BY DEF Walks
<1>3. d \in Nat /\ g \in Int /\ a \in Nat /\ b \in Nat
  BY <1>2, NeedTypes
<1>4. b >= d /\ hy[2] = b + g
  <2>1. hy[1] >= d /\ hy[1 + 1] = hy[1] + g /\ hy[1] = b
    BY <1>1, <1>2 DEF Heights
  <2> QED
    BY <2>1
<1>5. gy[2] = FunctionAfter(old, m)
  <2>1. /\ gy[1] = Parent(m)
        /\ IF FuncEnd(old[1])
             THEN gy[1 + 1] = m.blocks[old[1].index].func
             ELSE gy[1 + 1] = gy[1]
    BY <1>1, <1>2 DEF Places
  <2> QED
    BY <2>1 DEF FunctionAfter
<1>6. Balanced(items, a - kept, d + g)
  OBVIOUS
<1> DEFINE Lifted == kept = b - d
<1>20. Lifted
  BY DEF LeavesAlone
<1>7. \A r \in 1..Len(items) : FuncEnd(items[r]) => r = Len(items) /\ d + g = 1
  OBVIOUS
<1> HIDE DEF a, b, d, g, Lifted
<1> DEFINE first == a - kept
           last == d + g
<1>8. kept \in Nat /\ first \in Int /\ last \in Int /\ first + kept = a /\ last + kept = b + g
  <2>1. b >= d /\ kept = b - d
    BY <1>4, <1>20 DEF Lifted
  <2> QED
    BY <1>3, <2>1
<1>21. Balanced(items, first, last)
  BY <1>6
<1> HIDE DEF first, last
<1>22. PICK hx : HeightsAbove(items, first + kept, last + kept, kept, hx)
  <2>1. \E h : HeightsAbove(items, first + kept, last + kept, kept, h)
    BY <1>2, <1>8, <1>21, LiftedHeights
  <2> QED
    BY <2>1, Zenon
<1>9. /\ Heights(items, first + kept, hx)
      /\ hx[Len(items) + 1] = last + kept
      /\ \A p \in 1..Len(items) : kept <= hx[p] - Need(items[p])
  BY <1>22 DEF HeightsAbove
<1>10. Heights(items, a, hx) /\ hx[Len(items) + 1] = hy[2]
  BY <1>4, <1>8, <1>9
<1>11. /\ hx \in [1..(Len(items) + 1) -> Nat] /\ hy \in [1..(Len(old) + 1) -> Nat]
       /\ gx \in [1..(Len(items) + 1) -> Nat] /\ gy \in [1..(Len(old) + 1) -> Nat]
  BY <1>1, <1>10 DEF Heights, Places
<1>12. PICK hz \in [1..(Len(new) + 1) -> Nat] : Joins(old, items, hx, hy, hz)
  BY <1>10, <1>11, Joining
<1>13. PICK gz \in [1..(Len(new) + 1) -> Nat] : Joins(old, items, gx, gy, gz)
  BY <1>5, <1>11, Joining
<1>14. Heights(new, a, hz)
  BY <1>1, <1>10, <1>12, JoinedHeights
<1>15. Places(new, n, Parent(n), gz)
  BY <1>1, <1>13, JoinedPlaces
<1>16. \A r \in 1..Len(items) : FuncEnd(items[r]) => hx[r] <= kept + 1
  <2> SUFFICES ASSUME NEW r \in 1..Len(items), FuncEnd(items[r])
               PROVE  hx[r] <= kept + 1
    OBVIOUS
  <2>1. r = Len(items) /\ last = 1 /\ Gain(items[r]) = 0
    BY <1>7, FuncEndNeeds DEF last
  <2>2. hx[r + 1] = hx[r] + Gain(items[r])
    BY <1>10 DEF Heights
  <2>3. hx[r] \in Nat /\ hx[r + 1] = last + kept
    BY <1>2, <1>9, <1>11, <2>1
  <2> QED
    BY <2>1, <2>2, <2>3, <1>8
<1>17. OwnValues(new, hz, gz, n, ws)
  <2>1. Heights(items, a, hx) /\ Heights(old, Len(vs), hy) /\ Joins(old, items, hx, hy, hz)
    BY <1>1, <1>10, <1>12
  <2>2. /\ Places(items, n, Parent(n), gx) /\ Places(old, m, Parent(m), gy)
        /\ gx[Len(items) + 1] = gy[2] /\ Joins(old, items, gx, gy, gz)
    BY <1>1, <1>5, <1>13
  <2>3. OwnValues(old, hy, gy, m, vs)
    BY <1>1
  <2>4. TakeAbove(items, hx, kept)
    BY <1>9, <1>16 DEF TakeAbove
  <2>5. /\ Keeps(m, n) /\ Len(vs) \in Nat /\ Len(ws) \in Nat
        /\ kept = Len(vs) - Need(old[1])
    BY DEF LeavesAlone
  <2>6. SameBelow(vs, ws, kept) /\ UsableAbove(items, gx, n, ws, kept)
    OBVIOUS
  <2> QED
    BY <2>1, <2>2, <2>3, <2>4, <2>5, <2>6, JoinedValues
<1>18. OwnScopes(new, gz, n, t)
  BY <1>1, <1>13, JoinedScopes
<1>19. OwnBlocks(new, gz, n)
  BY <1>1, <1>13, JoinedBlocks
<1> QED
  BY <1>14, <1>15, <1>17, <1>18, <1>19 DEF Owned, a

-----------------------------------------------------------------------------
(***************************************************************************)
(* The value of a return is taken off returnStack before anything else is  *)
(* translated.                                                             *)
(***************************************************************************)

\* The items that leave a value on returnStack, those that take it off, and those that
\* neither look at it nor translate anything.
MayReturn(returning, item) == item.phase \in {"visit", "resume"} /\ item.node \in returning
Pops(item) ==
  \/ item.phase = "resume" /\ item.node.kind = "Scope" /\ item.index > 0
  \/ item.phase \in {"then", "else", "body"}
BlockEnd(item) == item.phase = "leave" /\ item.node.kind = "Block"

Reaches(items, i) ==
  \E j \in i..Len(items) : Pops(items[j]) /\ \A k \in i..(j - 1) : BlockEnd(items[k])
ReturnsFound(returning, items, stack) ==
  /\ \A p \in 1..Len(items) : MayReturn(returning, items[p]) => Reaches(items, p + 1)
  /\ stack # <<>> => Len(stack) = 1 /\ Reaches(items, 1)

\* What a step puts first: every return is the last statement of a block or one that is
\* looked after.  A value is left only by an item that returns or ends a block.
Settled(returning, old, items) ==
  \A q \in 1..Len(items) : MayReturn(returning, items[q]) =>
    \/ q < Len(items) /\ Pops(items[q + 1])
    \/ MayReturn(returning, old[1]) /\ \A r \in (q + 1)..Len(items) : BlockEnd(items[r])
LeftOver(returning, old, items, stack, now) ==
  now # <<>> =>
    /\ Len(now) = 1 /\ items = <<>>
    /\ MayReturn(returning, old[1]) \/ (BlockEnd(old[1]) /\ stack # <<>>)

\* The rest of the way is as it was.
LEMMA ReachesOn ==
  ASSUME NEW old, NEW items, NEW new, Walks(old, items, new), NEW i \in 2..(Len(old) + 1),
         Reaches(old, i), NEW q \in 1..(Len(items) + i - 1),
         \A r \in q..(Len(items) + i - 2) : BlockEnd(new[r])
  PROVE  Reaches(new, q)
<1> DEFINE n == Len(items)
<1>1. n \in Nat /\ Len(old) \in Nat /\ Len(new) = n + Len(old) - 1
  BY WalkStep DEF Walks
<1>2. \A k \in 2..Len(old) : new[n + k - 1] = old[k]
  BY WalkStep
<1>3. PICK j \in i..Len(old) :
        Pops(old[j]) /\ \A k \in i..(j - 1) : BlockEnd(old[k])
  BY DEF Reaches
<1>4. q \in 1..(n + i - 1) /\ \A r \in q..(n + i - 2) : BlockEnd(new[r])
  OBVIOUS
<1> HIDE DEF n
<1>5. n + j - 1 \in q..Len(new) /\ j \in 2..Len(old)
  BY <1>1, <1>3, <1>4
<1>6. Pops(new[n + j - 1])
  BY <1>2, <1>3, <1>5
<1>7. ASSUME NEW k \in q..((n + j - 1) - 1) PROVE BlockEnd(new[k])
  <2>1. CASE k <= n + i - 2
    <3>1. k \in q..(n + i - 2)
      BY <2>1, <1>1
    <3> QED
      BY <3>1, <1>4
  <2>2. CASE ~(k <= n + i - 2)
    <3>1. /\ k - n + 1 \in i..(j - 1) /\ k - n + 1 \in 2..Len(old)
          /\ n + (k - n + 1) - 1 = k
      BY <2>2, <1>1, <1>3, <1>4
    <3>2. new[n + (k - n + 1) - 1] = old[k - n + 1]
      BY <3>1, <1>2
    <3>3. BlockEnd(old[k - n + 1])
      BY <3>1, <1>3
    <3> QED
      BY <3>1, <3>2, <3>3
  <2> QED
    BY <2>1, <2>2
<1> QED
  BY <1>5, <1>6, <1>7 DEF Reaches

\* Such a step keeps every return found.
LEMMA FoundStep ==
  ASSUME NEW returning, NEW old, NEW items, NEW new, Walks(old, items, new),
         NEW stack, ReturnsFound(returning, old, stack), Settled(returning, old, items),
         NEW now, LeftOver(returning, old, items, stack, now)
  PROVE  ReturnsFound(returning, new, now)
<1> DEFINE n == Len(items)
<1>1. /\ n \in Nat /\ Len(old) \in Nat /\ 1 \in 1..Len(old) /\ Len(new) = n + Len(old) - 1
      /\ old \in Seq(Item) /\ new \in Seq(Item)
  BY WalkStep DEF Walks
<1>2. /\ \A p \in 1..n : new[p] = items[p]
      /\ \A k \in 2..Len(old) : new[n + k - 1] = old[k]
  BY WalkStep
<1>3. MayReturn(returning, old[1]) => Reaches(old, 2)
  BY <1>1 DEF ReturnsFound
<1> HIDE DEF n
<1>4. ASSUME NEW p \in 1..Len(new), MayReturn(returning, new[p])
      PROVE  Reaches(new, p + 1)
  <2>1. CASE p \in 1..n
    <3>1. new[p] = items[p]
      BY <2>1, <1>2
    <3>2. CASE p < n /\ Pops(items[p + 1])
      <4>1. p + 1 \in 1..n /\ p + 1 \in (p + 1)..Len(new) /\ \A k \in (p + 1)..p : FALSE
            /\ (p + 1) - 1 = p
        BY <2>1, <3>2, <1>1
      <4>2. Pops(new[p + 1])
        BY <3>2, <4>1, <1>2
      <4> QED
        BY <4>1, <4>2 DEF Reaches
    <3>3. CASE /\ MayReturn(returning, old[1])
               /\ \A r \in (p + 1)..n : BlockEnd(items[r])
      <4>1. p + 1 \in 1..(n + 2 - 1) /\ 2 \in 2..(Len(old) + 1)
        BY <2>1, <1>1
      <4>2. ASSUME NEW r \in (p + 1)..(n + 2 - 2) PROVE BlockEnd(new[r])
        <5>1. r \in (p + 1)..n /\ r \in 1..n
          BY <2>1, <1>1
        <5> QED
          BY <5>1, <3>3, <1>2
      <4>3. Reaches(old, 2)
        BY <3>3, <1>3
      <4> QED
        BY <4>1, <4>2, <4>3, ReachesOn DEF n
    <3> QED
      BY <2>1, <3>1, <3>2, <3>3, <1>4 DEF Settled, n
  <2>2. CASE p \notin 1..n
    <3>1. /\ p - n + 1 \in 2..Len(old) /\ n + (p - n + 1) - 1 = p
          /\ p - n + 1 \in 1..Len(old)
      BY <2>2, <1>1
    <3> DEFINE j == p - n + 1
    <3>2. new[n + j - 1] = old[j] /\ n + j - 1 = p
      BY <3>1, <1>2
    <3>3. Reaches(old, j + 1)
      BY <3>1, <3>2, <1>4 DEF ReturnsFound
    <3>4. /\ j + 1 \in 2..(Len(old) + 1) /\ p + 1 \in 1..(n + (j + 1) - 1)
          /\ \A r \in (p + 1)..(n + (j + 1) - 2) : FALSE
      BY <3>1, <1>1
    <3> HIDE DEF j
    <3> QED
      BY <3>3, <3>4, ReachesOn DEF n
  <2> QED
    BY <2>1, <2>2
<1>5. ASSUME now # <<>>
      PROVE  Len(now) = 1 /\ Reaches(new, 1)
  <2>1. Len(now) = 1 /\ items = <<>>
    BY <1>5 DEF LeftOver
  <2>2. n = 0
    BY <2>1 DEF n
  <2>3. Reaches(old, 2)
    <3>1. CASE MayReturn(returning, old[1])
      BY <3>1, <1>3
    <3>2. CASE BlockEnd(old[1]) /\ stack # <<>>
      <4>1. Reaches(old, 1)
        BY <3>2 DEF ReturnsFound
      <4>2. PICK j \in 1..Len(old) :
              Pops(old[j]) /\ \A k \in 1..(j - 1) : BlockEnd(old[k])
        BY <4>1 DEF Reaches
      <4>3. j # 1
        BY <3>2, <4>2 DEF Pops, BlockEnd
      <4>4. j \in 2..Len(old) /\ \A k \in 2..(j - 1) : k \in 1..(j - 1)
        BY <4>2, <4>3
      <4> QED
        BY <4>2, <4>4 DEF Reaches
    <3> QED
      BY <1>5, <3>1, <3>2 DEF LeftOver
  <2>4. /\ 2 \in 2..(Len(old) + 1) /\ 1 \in 1..(n + 2 - 1)
        /\ \A r \in 1..(n + 2 - 2) : FALSE
    BY <2>2, <1>1
  <2>5. Reaches(new, 1)
    BY <2>3, <2>4, ReachesOn DEF n
  <2> QED
    BY <2>1, <2>5
<1> QED
  BY <1>4, <1>5 DEF ReturnsFound

\* With a value left over the first item takes it or ends a block.
LEMMA FirstTakes ==
  ASSUME NEW returning, NEW items, NEW stack, ReturnsFound(returning, items, stack),
         stack # <<>>
  PROVE  Len(stack) = 1 /\ (Pops(items[1]) \/ BlockEnd(items[1]))
<1>1. Len(stack) = 1 /\ Reaches(items, 1)
  BY DEF ReturnsFound
<1>2. PICK j \in 1..Len(items) :
        Pops(items[j]) /\ \A k \in 1..(j - 1) : BlockEnd(items[k])
  BY <1>1 DEF Reaches
<1>3. j = 1 \/ 1 \in 1..(j - 1)
  BY <1>2
<1> QED
  BY <1>1, <1>2, <1>3

-----------------------------------------------------------------------------
(***************************************************************************)
(* The inductive invariant for what code may use.                          *)
(***************************************************************************)

NoProgram == \A p \in 1..Len(todo) : todo[p].phase = "visit" => todo[p].node.kind # "Function"
OwnReturns == \A i \in 1..Len(returnStack) : UsableIn(ir, Parent(ir), returnStack[i])

\* Before main, and from then on.
Unbegun ==
  /\ ir = EmptyModule
  /\ todo = <<Visit(program)>>
  /\ values = <<>>
  /\ scopes = <<Env!Opened(TRUE)>>
  /\ returnStack = <<>>
Local(returning) ==
  /\ WellMade(ir)
  /\ LocalCode(ir)
  /\ NoProgram
  /\ Owned(todo, ir, values, scopes)
  /\ OwnReturns
  /\ ReturnsFound(returning, todo, returnStack)
LInv(returning) == Unbegun \/ Local(returning)

\* What a step has to keep that goes on in the same function.
ItemsStay(items) ==
  \A q \in 1..Len(items) :
    /\ ~FuncEnd(items[q])
    /\ items[q].phase = "visit" => items[q].node.kind # "Function"
    /\ \A b \in BlocksOf(items[q]) : UsableIn(ir', Parent(ir), BlockAt(b))
ValuesStay ==
  /\ SameBelow(values, values', Kept)
  /\ \A j \in 1..Len(values') : ~(j <= Kept) => UsableIn(ir', Parent(ir), values'[j])
ScopesStay ==
  /\ ScopesBound(ir, ir', Parent(ir), scopes, scopes')
  /\ \A i \in Seen(scopes', Len(scopes')) : Bound(ir', Parent(ir), scopes'[i])
ReturnsStay(returning, items) ==
  /\ \A i \in 1..Len(returnStack') : UsableIn(ir', Parent(ir), returnStack'[i])
  /\ Settled(returning, todo, items)
  /\ LeftOver(returning, todo, items, returnStack, returnStack')
Stays(returning, items) ==
  /\ ~FuncEnd(todo[1])
  /\ Follows(ir, ir', {})
  /\ ItemsStay(items)
  /\ ValuesStay
  /\ ScopesStay
  /\ ReturnsStay(returning, items)

\* Visits of a program come from nowhere.
LEMMA NoProgramOn ==
  ASSUME NEW items, Walks(todo, items, todo'), NoProgram,
         \A q \in 1..Len(items) :
           items[q].phase = "visit" => items[q].node.kind # "Function"
  PROVE  NoProgram'
<1> SUFFICES ASSUME NEW p \in 1..Len(todo'), todo'[p].phase = "visit"
             PROVE  todo'[p].node.kind # "Function"
  BY DEF NoProgram
<1>1. todo' \in Seq(Item) /\ todo \in Seq(Item)
  BY WalkStep DEF Walks
<1>2. p \in DOMAIN todo'
  BY <1>1
<1>3. CASE p \in 1..Len(items) /\ todo'[p] = items[p]
  BY <1>3
<1>4. CASE \E j \in 2..Len(todo) : p = Len(items) + j - 1 /\ todo'[p] = todo[j]
  <2>1. PICK j \in 2..Len(todo) : todo'[p] = todo[j]
    BY <1>4
  <2>2. j \in 1..Len(todo)
    BY <1>1
  <2> QED
    BY <2>1, <2>2 DEF NoProgram
<1> QED
  BY <1>2, <1>3, <1>4, WalkPlaces

\* Such a step keeps the invariant.
LEMMA Steady ==
  ASSUME NEW returning, IInv, Local(returning), NEW items, Does(items),
         Stays(returning, items)
  PROVE  Local(returning)'
<1>1. /\ Walks(todo, items, todo')
      /\ InStep(todo, items, scopes, scopes')
      /\ SameBoundaries(items, scopes, scopes', {"Func"})
      /\ Balanced(items, Len(values') - Kept, Need(todo[1]) + Gain(todo[1]))
      /\ values' \in Seq(Value) /\ values \in Seq(Value)
  BY DEF Does, IInv, TypeOK
<1>2. /\ Follows(ir, ir', {}) /\ WellMade(ir') /\ Keeps(ir, ir') /\ Parent(ir') = Parent(ir)
  BY DEF Stays, Follows
<1>3. LocalCode(ir')
  <2>1. \A v \in {} : UsableIn(ir', Parent(ir'), v)
    OBVIOUS
  <2> QED
    BY <1>2, <2>1, NoneComing
<1>4. NoProgram'
  <2>1. \A q \in 1..Len(items) :
          items[q].phase = "visit" => items[q].node.kind # "Function"
    BY DEF Stays, ItemsStay
  <2> QED
    BY <1>1, <2>1, NoProgramOn DEF Local
<1>5. OwnReturns'
  BY <1>2 DEF Stays, ReturnsStay, OwnReturns
<1>6. ReturnsFound(returning, todo', returnStack')
  <2>1. ReturnsFound(returning, todo, returnStack)
    BY DEF Local
  <2>2. /\ Settled(returning, todo, items)
        /\ LeftOver(returning, todo, items, returnStack, returnStack')
    BY DEF Stays, ReturnsStay
  <2> QED
    BY <1>1, <2>1, <2>2, FoundStep
<1>7. Owned(todo', ir', values', scopes')
  <2> DEFINE f == Parent(ir)
             g == [p \in 1..(Len(items) + 1) |-> f]
  <2>1. Len(items) \in Nat
    BY <1>1 DEF Walks
  <2>2. f \in Nat /\ Parent(ir') = f
    BY <1>2, ParentType DEF Local
  <2>3. \A p \in 1..(Len(items) + 1) : g[p] = f
    OBVIOUS
  <2>4. g \in [1..(Len(items) + 1) -> Nat]
    BY <2>2
  <2> HIDE DEF g
  <2>5. /\ 1 \in 1..(Len(items) + 1) /\ Len(items) + 1 \in 1..(Len(items) + 1)
        /\ \A p \in 1..Len(items) : p \in 1..(Len(items) + 1) /\ p + 1 \in 1..(Len(items) + 1)
    BY <2>1
  <2>6. \A q \in 1..Len(items) : ~FuncEnd(items[q])
    BY DEF Stays, ItemsStay
  <2>7. Places(items, ir', Parent(ir'), g)
    BY <2>2, <2>3, <2>4, <2>5, <2>6 DEF Places
  <2>8. g[Len(items) + 1] = FunctionAfter(todo, ir)
    BY <2>3, <2>5 DEF FunctionAfter, Stays
  <2>9. SameBelow(values, values', Kept)
    BY DEF Stays, ValuesStay
  <2>10. UsableAbove(items, g, ir', values', Kept)
    BY <2>3 DEF UsableAbove, Stays, ValuesStay
  <2>11. \A p \in 1..Len(items) :
           \A i \in Seen(scopes', Len(scopes')) : Bound(ir', g[p], scopes'[i])
    BY <2>3, <2>5 DEF Stays, ScopesStay
  <2>12. ScopesBound(ir, ir', Parent(ir), scopes, scopes')
    BY DEF Stays, ScopesStay
  <2>13. OwnBlocks(items, g, ir')
    BY <2>3, <2>5 DEF OwnBlocks, Stays, ItemsStay
  <2>14. \A i \in 1..Len(scopes) : i <= Len(scopes') => scopes'[i].global = scopes[i].global
    BY <1>1 DEF SameBoundaries
  <2>15. LeavesAlone(Kept, Len(values), todo[1])
    BY DEF Kept, LeavesAlone
  <2>16. Len(values) \in Nat /\ Len(values') \in Nat
    BY <1>1
  <2>17. Owned(todo, ir, values, scopes)
    BY DEF Local
  <2>18. \A r \in 1..Len(items) : FuncEnd(items[r]) =>
           r = Len(items) /\ Need(todo[1]) + Gain(todo[1]) = 1
    BY <2>6
  <2> HIDE DEF f
  <2> QED
    BY <1>1, <1>2, <2>7, <2>8, <2>9, <2>10, <2>11, <2>12, <2>13, <2>14, <2>15, <2>16,
       <2>17, <2>18, OwnedStep
<1> QED
  BY <1>2, <1>3, <1>4, <1>5, <1>6, <1>7 DEF Local

\* What the first item finds.
LEMMA LocalFacts ==
  ASSUME NEW returning, IInv, Local(returning), NEW phase, NEW kinds, At(phase, kinds)
  PROVE  /\ Follows(ir, ir, {}) /\ Keeps(ir, ir) /\ WellMade(ir)
         /\ ~FuncEnd(todo[1]) =>
              \A j \in 1..Len(values) : ~(j <= Kept) => UsableIn(ir, Parent(ir), values[j])
         /\ \A i \in Seen(scopes, Len(scopes)) : Bound(ir, Parent(ir), scopes[i])
         /\ \A b \in BlocksOf(todo[1]) : UsableIn(ir, Parent(ir), BlockAt(b))
         /\ \A i \in 1..Len(returnStack) : UsableIn(ir, Parent(ir), returnStack[i])
         /\ phase = "visit" => node.kind # "Function"
         /\ returnStack # <<>> => Len(returnStack) = 1 /\ (Pops(todo[1]) \/ BlockEnd(todo[1]))
<1>1. /\ todo \in Seq(Item) /\ todo # <<>> /\ todo[1] \in Item /\ todo[1].phase = phase
      /\ node = todo[1].node /\ values \in Seq(Value) /\ Len(values) \in Nat
      /\ Need(todo[1]) \in Nat /\ Len(scopes) \in Nat
  BY First
<1>2. 1 \in 1..Len(todo) /\ Len(todo) \in Nat
  BY <1>1
<1>3. PICK h, g :
        /\ Heights(todo, Len(values), h)
        /\ Places(todo, ir, Parent(ir), g)
        /\ OwnValues(todo, h, g, ir, values)
        /\ OwnScopes(todo, g, ir, scopes)
        /\ OwnBlocks(todo, g, ir)
  BY DEF Local, Owned
<1>4. h[1] = Len(values) /\ g[1] = Parent(ir)
  BY <1>3 DEF Heights, Places
<1>5. WellMade(ir) /\ Follows(ir, ir, {}) /\ Keeps(ir, ir)
  BY FollowsSelf DEF Local
<1>6. ASSUME ~FuncEnd(todo[1]), NEW j \in 1..Len(values), ~(j <= Kept)
      PROVE  UsableIn(ir, Parent(ir), values[j])
  <2>1. h[1] - Need(todo[1]) < j /\ j <= h[1]
    BY <1>1, <1>4, <1>6 DEF Kept
  <2>2. \A r \in 1..(1 - 1) : FALSE
    OBVIOUS
  <2>3. Taken(todo, h, 1, j)
    BY <2>1, <2>2 DEF Taken
  <2>4. UsableIn(ir, g[1], values[j])
    BY <2>3, <1>2, <1>3, <1>6 DEF OwnValues
  <2> QED
    BY <2>4, <1>4
<1>7. \A i \in Seen(scopes, Len(scopes)) : Bound(ir, Parent(ir), scopes[i])
  <2>1. ScopeOf(todo, scopes, 1) = Len(scopes)
    BY <1>1, ScopeOfFirst
  <2> QED
    BY <2>1, <1>2, <1>3, <1>4 DEF OwnScopes
<1>8. \A b \in BlocksOf(todo[1]) : UsableIn(ir, Parent(ir), BlockAt(b))
  BY <1>2, <1>3, <1>4 DEF OwnBlocks
<1>9. \A i \in 1..Len(returnStack) : UsableIn(ir, Parent(ir), returnStack[i])
  BY DEF Local, OwnReturns
<1>10. phase = "visit" => node.kind # "Function"
  BY <1>1, <1>2 DEF Local, NoProgram
<1>11. returnStack # <<>> =>
         Len(returnStack) = 1 /\ (Pops(todo[1]) \/ BlockEnd(todo[1]))
  BY FirstTakes DEF Local
<1> QED
  BY <1>5, <1>6, <1>7, <1>8, <1>9, <1>10, <1>11

\* A step knows its items.
LEMMA KnownItems ==
  ASSUME NEW items, Does(items), NEW s \in Seq(Item), Continue(s)
  PROVE  items = s /\ Does(s)
<1>1. /\ items \in Seq(Item) /\ todo \in Seq(Item) /\ todo # <<>>
      /\ todo' = items \o Tail(todo) /\ todo' = s \o Tail(todo)
  BY DEF Does, Walks, Continue
<1> DEFINE t == Tail(todo)
<1>2. t \in Seq(Item)
  BY <1>1
<1> HIDE DEF t
<1>7. items \o t = s \o t
  BY <1>1 DEF t
<1>3. /\ Len(items \o t) = Len(items) + Len(t) /\ Len(s \o t) = Len(s) + Len(t)
      /\ Len(items) \in Nat /\ Len(s) \in Nat /\ Len(t) \in Nat
  BY <1>1, <1>2
<1>4. Len(items) = Len(s)
  BY <1>3, <1>7
<1>5. ASSUME NEW p \in 1..Len(s) PROVE items[p] = s[p]
  <2>1. (items \o t)[p] = items[p]
    BY <1>1, <1>2, <1>4
  <2>2. (s \o t)[p] = s[p]
    BY <1>1, <1>2
  <2> QED
    BY <2>1, <2>2, <1>7
<1>6. items = s
  <2>1. /\ items = [p \in 1..Len(items) |-> items[p]]
        /\ s = [p \in 1..Len(s) |-> s[p]]
    BY <1>1
  <2> QED
    BY <2>1, <1>4, <1>5
<1> QED
  BY <1>6

\* The variable of a name is one of the function, or none.
LEMMA VariableOwn ==
  ASSUME NEW returning, IInv, Local(returning), NEW phase, NEW kinds, At(phase, kinds),
         NEW x \in Name
  PROVE  UsableIn(ir, Parent(ir), getAllocVar(x))
<1>1. scopes \in Seq(Facts!Scope(Binding)) /\ scopes # <<>> /\ Len(scopes) \in Nat
  BY First
<1>2. \A i \in Seen(scopes, Len(scopes)) : Bound(ir, Parent(ir), scopes[i])
  BY LocalFacts
<1>3. CASE Env!contains(scopes, x)
  <2> DEFINE i == Facts!Holder(scopes, x)
  <2>1. Facts!contains(scopes, x)
    BY <1>3, SameScopes
  <2>2. i \in Facts!Visible(scopes)
    BY <1>1, <2>1, Facts!HolderFound
  <2>3. scopes[i].objects[x] # Absent
    BY <1>1, <2>1, Facts!HolderFound
  <2>4. i \in Seen(scopes, Len(scopes))
    BY <2>2, <1>1 DEF Facts!Visible, Seen
  <2>5. UsableIn(ir, Parent(ir), scopes[i].objects[x])
    BY <1>2, <2>3, <2>4 DEF Bound
  <2>6. getAllocVar(x) = scopes[i].objects[x]
    BY <1>3, SameScopes DEF getAllocVar, Facts!get
  <2> QED
    BY <2>5, <2>6
<1>4. CASE ~Env!contains(scopes, x)
  <2>1. getAllocVar(x) = NullPtr
    BY <1>4 DEF getAllocVar
  <2> QED
    BY <2>1 DEF UsableIn, NullPtr
<1> QED
  BY <1>3, <1>4

\* What belongs to no function may be used everywhere, an argument by its function.
LEMMA ConstantsUsable ==
  ASSUME NEW m, NEW f
  PROVE  /\ \A n : UsableIn(m, f, IntObj(n)) /\ UsableIn(m, f, BoolObj(n))
         /\ \A n : UsableIn(m, f, FunctionAt(n)) /\ UsableIn(m, f, Argument(f, n))
         /\ UsableIn(m, f, NullPtr) /\ UsableIn(m, f, Poison) /\ UsableIn(m, f, Format)
BY DEF UsableIn, IntObj, BoolObj, FunctionAt, Argument, NullPtr, Poison, Format

\* What is computed during the translation is a constant.
LEMMA FoldedUsable ==
  ASSUME NEW op \in Arithmetic \cup Comparisons, NEW lhs, NEW rhs, NEW m, NEW f
  PROVE  UsableIn(m, f, Folded(op, lhs, rhs))
<1>1. \/ Folded(op, lhs, rhs) = Poison
      \/ \E n : Folded(op, lhs, rhs) \in {IntObj(n), BoolObj(n)}
  BY DEF Folded, BinaryResult, Arithmetic, Comparisons
<1> QED
  BY <1>1, ConstantsUsable

-----------------------------------------------------------------------------
(***************************************************************************)
(* The parts of a step that goes on in the same function.                  *)
(***************************************************************************)

\* The values after it.
LEMMA ValuesKept ==
  ASSUME NEW returning, IInv, Local(returning), NEW phase, NEW kinds, At(phase, kinds),
         ~FuncEnd(todo[1]), Keeps(ir, ir')
  PROVE  /\ values' = values => ValuesStay
         /\ \A v : UsableIn(ir', Parent(ir), v) /\ Push(v) => ValuesStay
         /\ \A v : UsableIn(ir', Parent(ir), v) /\ Replace(Need(todo[1]), v) => ValuesStay
         /\ Need(todo[1]) = 1 /\ Pop => ValuesStay
<1>1. /\ values \in Seq(Value) /\ Len(values) \in Nat
      /\ Need(todo[1]) \in Nat /\ Need(todo[1]) <= Len(values)
  BY First
<1> DEFINE d == Need(todo[1])
           l == Len(values)
           k == l - d
<1>2. Kept = k
  BY DEF Kept
<1>3. d \in Nat /\ l \in Nat /\ k \in Nat /\ k <= l
  BY <1>1
<1>4. ASSUME NEW j \in 1..l, ~(j <= Kept) PROVE UsableIn(ir', Parent(ir), values[j])
  <2>1. UsableIn(ir, Parent(ir), values[j])
    BY <1>4, LocalFacts
  <2> QED
    BY <2>1, KeptUsable
<1>5. ASSUME values' = values PROVE ValuesStay
  BY <1>4, <1>5 DEF ValuesStay, SameBelow
<1> HIDE DEF d, k
<1>6. ASSUME NEW v, UsableIn(ir', Parent(ir), v), Push(v) PROVE ValuesStay
  <2>1. /\ Len(values') = l + 1 /\ values'[l + 1] = v
        /\ \A j \in 1..l : values'[j] = values[j]
    BY <1>1, <1>6 DEF Push
  <2>2. \A j \in 1..(l + 1) : j \in 1..l \/ j = l + 1
    BY <1>3
  <2>3. \A j \in 1..(l + 1) : j <= k => j \in 1..l
    BY <1>3
  <2> HIDE DEF l
  <2>4. SameBelow(values, values', Kept)
    BY <2>1, <2>3, <1>2 DEF SameBelow, l
  <2> QED
    BY <2>1, <2>2, <2>4, <1>4, <1>6 DEF ValuesStay, l
\* Those below come first, and then at most one.
<1>7. /\ Len(Below(values, d)) = k /\ Below(values, d) \in Seq(Value)
      /\ \A j \in 1..k : Below(values, d)[j] = values[j]
      /\ \A j \in 1..k : j \in 1..l
  <2>1. \A i \in Nat : i <= Len(values) =>
          /\ SubSeq(values, 1, i) \in Seq(Value) /\ Len(SubSeq(values, 1, i)) = i
          /\ \A j \in 1..i : SubSeq(values, 1, i)[j] = values[j]
    BY <1>1
  <2>2. Below(values, d) = SubSeq(values, 1, k)
    BY DEF Below, k
  <2> QED
    BY <2>1, <2>2, <1>3
<1>8. ASSUME NEW v, UsableIn(ir', Parent(ir), v), Replace(d, v) PROVE ValuesStay
  <2> DEFINE b == Below(values, d)
  <2>1. values' = Append(b, v)
    BY <1>8 DEF Replace
  <2> HIDE DEF b
  <2>2. /\ Len(values') = k + 1 /\ values'[k + 1] = v
        /\ \A j \in 1..k : values'[j] = b[j]
    BY <1>7, <2>1 DEF b
  <2>3. \A j \in 1..(k + 1) : j \in 1..k \/ (j = k + 1 /\ ~(j <= k))
    BY <1>3
  <2>4. \A j \in 1..k : j <= k
    BY <1>3
  <2>5. SameBelow(values, values', Kept)
    BY <2>2, <2>3, <1>2, <1>7 DEF SameBelow, b, l
  <2> QED
    BY <2>2, <2>3, <2>4, <2>5, <1>2, <1>8 DEF ValuesStay
<1>9. ASSUME d = 1, Pop PROVE ValuesStay
  <2>1. values' = Below(values, d)
    BY <1>9 DEF Pop
  <2>2. \A j \in 1..k : j <= k
    BY <1>3
  <2> QED
    BY <2>1, <2>2, <1>2, <1>7 DEF ValuesStay, SameBelow, l
<1> QED
  BY <1>5, <1>6, <1>8, <1>9 DEF d

\* The scopes after it.
LEMMA ScopesKept ==
  ASSUME NEW returning, IInv, Local(returning), NEW phase, NEW kinds, At(phase, kinds),
         Keeps(ir, ir')
  PROVE  /\ scopes' = scopes => ScopesStay
         /\ \A x \in Name, v \in Binding :
              /\ UsableIn(ir', Parent(ir), v)
              /\ scopes' = Env!Bind(scopes, Len(scopes), x, v)
              => ScopesStay
         /\ scopes' = Env!Enter(scopes, FALSE) => ScopesStay
         /\ /\ Len(scopes) > 1 /\ ~scopes[Len(scopes)].global
            /\ scopes' = Env!Leave(scopes)
            => ScopesStay
<1> DEFINE l == Len(scopes)
<1>1. scopes \in Seq(Facts!Scope(Binding)) /\ scopes # <<>> /\ l \in Nat /\ l \in 1..l
  BY First
<1>2. \A i \in Seen(scopes, l) : Bound(ir', Parent(ir), scopes[i])
  <2>1. \A i \in Seen(scopes, l) : Bound(ir, Parent(ir), scopes[i])
    BY LocalFacts
  <2> QED
    BY <2>1, KeptUsable DEF Bound
<1>3. ASSUME scopes' = scopes PROVE ScopesStay
  BY <1>2, <1>3 DEF ScopesStay, ScopesBound
<1>4. ASSUME NEW x \in Name, NEW v \in Binding, UsableIn(ir', Parent(ir), v),
             scopes' = Env!Bind(scopes, Len(scopes), x, v)
      PROVE  ScopesStay
  <2>1. scopes' = Facts!Bind(scopes, l, x, v)
    BY <1>4, SameScopes
  <2>2. Len(scopes') = l
    BY <1>1, <2>1, Facts!BindEffect
  <2>3. \A j \in 1..l :
          /\ scopes'[j].global = scopes[j].global
          /\ j # l => scopes'[j] = scopes[j]
          /\ j = l => \A y \in Name :
               scopes'[j].objects[y] = IF y = x THEN v ELSE scopes[j].objects[y]
    BY <1>1, <2>1, Facts!BindEffect
  <2> HIDE DEF l
  <2>4. l \in Seen(scopes, l)
    <3>1. \A k \in (l + 1)..l : FALSE
      BY <1>1
    <3> QED
      BY <3>1, <1>1 DEF Seen
  <2>5. Bound(ir', Parent(ir), scopes'[l])
    <3>1. Bound(ir', Parent(ir), scopes[l])
      BY <1>2, <2>4
    <3> QED
      BY <3>1, <2>3, <1>1, <1>4 DEF Bound
  <2>6. ASSUME NEW i \in Seen(scopes', l) PROVE i \in 1..l /\ i \in Seen(scopes, l)
    <3>1. i \in 1..l /\ \A k \in (i + 1)..l : ~scopes'[k].global /\ k \in 1..l
      BY <1>1 DEF Seen
    <3> QED
      BY <3>1, <2>3 DEF Seen
  <2>7. \A i \in Seen(scopes', l) : Bound(ir', Parent(ir), scopes'[i])
    BY <1>2, <2>3, <2>5, <2>6
  <2> QED
    BY <2>2, <2>3, <2>5, <2>7 DEF ScopesStay, ScopesBound, l
<1>5. ASSUME scopes' = Env!Enter(scopes, FALSE) PROVE ScopesStay
  <2> DEFINE scope == Facts!Opened(FALSE)
  <2>1. /\ scope \in Facts!Scope(Binding)
        /\ scopes' = Append(scopes, scope)
    BY <1>5, Facts!OpenedScope, SameScopes
  <2>2. \A x \in Name : scope.objects[x] = Absent
    BY DEF Facts!Opened, Facts!Empty
  <2>3. scope.global = FALSE
    BY DEF Facts!Opened
  <2> HIDE DEF scope
  <2>4. /\ Len(scopes') = l + 1 /\ scopes'[l + 1] = scope
        /\ \A j \in 1..l : scopes'[j] = scopes[j]
    BY <1>1, <2>1, Facts!EnterEffect
  <2> HIDE DEF l
  <2>5. Bound(ir', Parent(ir), scopes'[l + 1])
    BY <2>2, <2>4 DEF Bound
  <2>6. ASSUME NEW i \in Seen(scopes', l + 1)
        PROVE  i = l + 1 \/ (i \in 1..l /\ i \in Seen(scopes, l))
    <3>1. /\ i \in 1..(l + 1) /\ \A k \in (i + 1)..(l + 1) : ~scopes'[k].global
          /\ i = l + 1 \/ i \in 1..l
          /\ \A k \in (i + 1)..l : k \in (i + 1)..(l + 1) /\ k \in 1..l
      BY <1>1 DEF Seen
    <3> QED
      BY <3>1, <2>4 DEF Seen
  <2>7. \A i \in Seen(scopes', l + 1) : Bound(ir', Parent(ir), scopes'[i])
    BY <1>2, <2>4, <2>5, <2>6
  <2> QED
    BY <2>4, <2>7 DEF ScopesStay, ScopesBound, l
<1>6. ASSUME Len(scopes) > 1, ~scopes[Len(scopes)].global, scopes' = Env!Leave(scopes)
      PROVE  ScopesStay
  <2>1. /\ scopes' = Facts!Leave(scopes) /\ l > 1 /\ ~scopes[l].global
    BY <1>6, SameScopes
  <2>2. Len(scopes') = l - 1 /\ \A j \in 1..(l - 1) : scopes'[j] = scopes[j]
    BY <1>1, <2>1, Facts!LeaveEffect
  <2> HIDE DEF l
  <2>3. ASSUME NEW i \in Seen(scopes', l - 1) PROVE i \in 1..(l - 1) /\ i \in Seen(scopes, l)
    <3>1. /\ i \in 1..(l - 1) /\ \A k \in (i + 1)..(l - 1) : ~scopes'[k].global
          /\ i \in 1..l
          /\ \A k \in (i + 1)..l : k = l \/ (k \in (i + 1)..(l - 1) /\ k \in 1..(l - 1))
      BY <1>1 DEF Seen
    <3>2. \A k \in (i + 1)..l : ~scopes[k].global
      BY <3>1, <2>1, <2>2
    <3> QED
      BY <3>1, <3>2 DEF Seen
  <2>4. \A i \in Seen(scopes', l - 1) : Bound(ir', Parent(ir), scopes'[i])
    BY <1>2, <2>2, <2>3
  <2>5. \A i \in 1..l : i <= l - 1 => i \in 1..(l - 1)
    BY <1>1
  <2> QED
    BY <2>2, <2>4, <2>5 DEF ScopesStay, ScopesBound, l
<1> QED
  BY <1>3, <1>4, <1>5, <1>6

\* returnStack is not looked at, and empty.
LEMMA ReturnsKept ==
  ASSUME NEW returning, IInv, Local(returning), NEW phase, NEW kinds, At(phase, kinds),
         ~Pops(todo[1]), ~BlockEnd(todo[1]), returnStack' = returnStack,
         NEW items, Settled(returning, todo, items)
  PROVE  returnStack = <<>> /\ ReturnsStay(returning, items)
<1>1. returnStack = <<>>
  BY LocalFacts
<1>2. Len(returnStack') = 0
  BY <1>1
<1>3. LeftOver(returning, todo, items, returnStack, returnStack')
  BY <1>1 DEF LeftOver
<1>4. \A i \in 1..Len(returnStack') : FALSE
  BY <1>2
<1> QED
  BY <1>1, <1>3, <1>4 DEF ReturnsStay

\* What most items are not.
LEMMA Ordinary ==
  ASSUME IInv, NEW phase, NEW kinds, At(phase, kinds)
  PROVE  /\ phase \in {"visit", "resume", "param", "then", "else", "body"} =>
              ~FuncEnd(todo[1]) /\ ~BlockEnd(todo[1])
         /\ phase \in {"visit", "param"} \/ (phase = "resume" /\ "Scope" \notin kinds) =>
              ~Pops(todo[1])
<1>1. todo[1].phase = phase /\ todo[1].node.kind \in kinds
  BY DEF At
<1> QED
  BY <1>1 DEF FuncEnd, BlockEnd, Pops

\* No items.
LEMMA NothingStays ==
  ASSUME NEW returning
  PROVE  ItemsStay(<<>>) /\ Settled(returning, todo, <<>>)
<1>1. \A q \in 1..Len(<<>>) : FALSE
  OBVIOUS
<1> QED
  BY <1>1 DEF ItemsStay, Settled

\* A visit that ends.
LEMMA PlainStays ==
  ASSUME NEW returning, IInv, Local(returning), NEW phase, NEW kinds, At(phase, kinds),
         phase \in {"visit", "param"} \/ (phase = "resume" /\ "Scope" \notin kinds),
         returnStack' = returnStack, Follows(ir, ir', {}), ValuesStay, ScopesStay
  PROVE  Stays(returning, <<>>)
<1>1. ~FuncEnd(todo[1]) /\ ~BlockEnd(todo[1]) /\ ~Pops(todo[1])
  BY Ordinary
<1>2. ItemsStay(<<>>) /\ Settled(returning, todo, <<>>)
  BY NothingStays
<1>3. ReturnsStay(returning, <<>>)
  BY <1>1, <1>2, ReturnsKept
<1> QED
  BY <1>1, <1>2, <1>3 DEF Stays

\* One that changes no scope.
LEMMA ValueStays ==
  ASSUME NEW returning, IInv, Local(returning), NEW phase, NEW kinds, At(phase, kinds),
         phase \in {"visit", "param"} \/ (phase = "resume" /\ "Scope" \notin kinds),
         UNCHANGED environment, Follows(ir, ir', {}),
         \/ values' = values
         \/ Need(todo[1]) = 1 /\ Pop
         \/ \E v : UsableIn(ir', Parent(ir), v) /\ (Push(v) \/ Replace(Need(todo[1]), v))
  PROVE  Stays(returning, <<>>)
<1>1. ~FuncEnd(todo[1]) /\ Keeps(ir, ir')
  BY Ordinary DEF Follows
<1>2. ValuesStay
  <2>1. CASE values' = values
    BY <2>1, <1>1, ValuesKept
  <2>2. CASE Need(todo[1]) = 1 /\ Pop
    BY <2>2, <1>1, ValuesKept
  <2>3. ASSUME NEW v, UsableIn(ir', Parent(ir), v), Push(v) PROVE ValuesStay
    BY <2>3, <1>1, ValuesKept
  <2>4. ASSUME NEW v, UsableIn(ir', Parent(ir), v), Replace(Need(todo[1]), v) PROVE ValuesStay
    BY <2>4, <1>1, ValuesKept
  <2> QED
    BY <2>1, <2>2, <2>3, <2>4
<1>3. scopes' = scopes /\ returnStack' = returnStack
  BY DEF environment
<1>4. ScopesStay
  BY <1>1, <1>3, ScopesKept
<1> QED
  BY <1>2, <1>3, <1>4, PlainStays

\* The operands are of the function.
LEMMA OperandsOwn ==
  ASSUME NEW returning, IInv, Local(returning), NEW phase, NEW kinds, At(phase, kinds),
         phase # "leave"
  PROVE  /\ Need(todo[1]) >= 1 => UsableIn(ir, Parent(ir), Result) /\ Result \in Value
         /\ Need(todo[1]) >= 2 => /\ UsableIn(ir, Parent(ir), values[Len(values) - 1])
                                  /\ values[Len(values) - 1] \in Value
<1>1. /\ values \in Seq(Value) /\ Len(values) \in Nat
      /\ Need(todo[1]) \in Nat /\ Need(todo[1]) <= Len(values) /\ todo[1].phase = phase
  BY First
<1>2. ~FuncEnd(todo[1])
  BY <1>1 DEF FuncEnd
<1>3. \A j \in 1..Len(values) : ~(j <= Kept) => UsableIn(ir, Parent(ir), values[j])
  BY <1>2, LocalFacts
<1>4. Need(todo[1]) >= 1 => Len(values) \in 1..Len(values) /\ ~(Len(values) <= Kept)
  BY <1>1 DEF Kept
<1>5. Need(todo[1]) >= 2 =>
        Len(values) - 1 \in 1..Len(values) /\ ~(Len(values) - 1 <= Kept)
  BY <1>1 DEF Kept
<1> QED
  BY <1>1, <1>3, <1>4, <1>5 DEF Result

\* Lists of arguments.
LEMMA ListsUsable ==
  ASSUME NEW m, NEW f, NEW a, UsableIn(m, f, a)
  PROVE  /\ \A i \in DOMAIN <<a>> : UsableIn(m, f, <<a>>[i])
         /\ \A b : UsableIn(m, f, b) => \A i \in DOMAIN <<a, b>> : UsableIn(m, f, <<a, b>>[i])
<1>1. \A i \in DOMAIN <<a>> : UsableIn(m, f, <<a>>[i])
  <2>1. DOMAIN <<a>> = {1} /\ <<a>>[1] = a
    OBVIOUS
  <2> QED
    BY <2>1
<1>2. ASSUME NEW b, UsableIn(m, f, b)
      PROVE  \A i \in DOMAIN <<a, b>> : UsableIn(m, f, <<a, b>>[i])
  <2>1. DOMAIN <<a, b>> = {1, 2} /\ <<a, b>>[1] = a /\ <<a, b>>[2] = b
    OBVIOUS
  <2> QED
    BY <2>1, <1>2
<1> QED
  BY <1>1, <1>2

\* An instruction with arguments that the function may use.
LEMMA EmitOwn ==
  ASSUME NEW m, Follows(ir, m, {}), NEW op \in Opcodes, NEW args \in Seq(Arguments),
         \A i \in DOMAIN args : UsableIn(m, Parent(ir), args[i])
  PROVE  /\ Follows(ir, Emit(m, op, args), {})
         /\ Keeps(m, Emit(m, op, args))
         /\ \A type : UsableIn(Emit(m, op, args), Parent(ir), Latest(Emit(m, op, args), type))
<1>1. \A i \in DOMAIN args : UsableIn(m, Parent(ir), args[i]) \/ args[i] \in {}
  OBVIOUS
<1>2. Follows(ir, Emit(m, op, args), {})
  BY <1>1, EmitFollows
<1>3. Keeps(m, Emit(m, op, args))
  BY <1>1, EmitFollows
<1>4. \A type : UsableIn(Emit(m, op, args), Parent(ir), Latest(Emit(m, op, args), type))
  BY <1>1, EmitFollows
<1> QED
  BY <1>2, <1>3, <1>4

-----------------------------------------------------------------------------
(***************************************************************************)
(* Expressions and what they use.                                          *)
(***************************************************************************)

\* An assignment stores in a variable of the function.
LEMMA StoreInStays ==
  ASSUME NEW returning, IInv, Local(returning), NEW phase, NEW kinds, At(phase, kinds),
         NEW x \in Name, NEW v \in Value, UsableIn(ir, Parent(ir), v), StoreIn(x, v)
  PROVE  Follows(ir, ir', {}) /\ ScopesStay
<1>1. scopes \in Seq(Facts!Scope(Binding)) /\ Follows(ir, ir, {}) /\ "store" \in Opcodes
  BY First, LocalFacts DEF Opcodes
<1>2. CASE getAllocVar(x) # NullPtr
  <2> DEFINE slot == getAllocVar(x)
             args == <<v, slot>>
  <2>1. slot \in Value /\ UsableIn(ir, Parent(ir), slot)
    BY <1>1, <1>2, VariableType, VariableOwn, ValueTypes
  <2>2. ir' = Emit(ir, "store", args) /\ scopes' = scopes
    BY <1>2 DEF StoreIn
  <2> HIDE DEF slot
  <2>3. \A i \in DOMAIN args : UsableIn(ir, Parent(ir), args[i])
    BY <2>1, ListsUsable
  <2>4. args \in Seq(Arguments)
    BY <2>1, ArgumentLists, ValueTypes
  <2> HIDE DEF args
  <2>5. Follows(ir, ir', {})
    BY <1>1, <2>2, <2>3, <2>4, EmitOwn
  <2>6. ScopesStay
    BY <2>2, <2>5, ScopesKept DEF Follows
  <2> QED
    BY <2>5, <2>6
<1>3. CASE getAllocVar(x) = NullPtr
  <2> DEFINE m == allocVar(ir)
             slot == Slot(m.count)
             args == <<v, slot>>
  <2>1. /\ Follows(ir, m, {}) /\ Keeps(ir, m)
        /\ UsableIn(m, Parent(ir), slot)
    <3>1. Follows(ir, m, {})
      BY <1>1, AllocFollows
    <3>2. Keeps(ir, m)
      BY <1>1, AllocFollows
    <3>3. UsableIn(m, Parent(ir), slot)
      BY <1>1, AllocFollows
    <3> QED
      BY <3>1, <3>2, <3>3
  <2>2. slot \in Binding
    BY <1>1, Allocated DEF Follows
  <2>3. /\ ir' = Emit(m, "store", args)
        /\ scopes' = Env!Bind(scopes, Len(scopes), x, slot)
    BY <1>3 DEF StoreIn
  <2> HIDE DEF m, slot
  <2>4. UsableIn(m, Parent(ir), v)
    BY <2>1, KeptUsable
  <2>5. \A i \in DOMAIN args : UsableIn(m, Parent(ir), args[i])
    BY <2>1, <2>4, ListsUsable
  <2>6. args \in Seq(Arguments)
    BY <2>2, ArgumentLists, ValueTypes
  <2> HIDE DEF args
  <2>7. Follows(ir, ir', {}) /\ Keeps(m, ir')
    BY <1>1, <2>1, <2>3, <2>5, <2>6, EmitOwn
  <2>8. UsableIn(ir', Parent(ir), slot) /\ Keeps(ir, ir')
    BY <2>1, <2>7, KeptUsable DEF Follows
  <2>9. ScopesStay
    BY <2>2, <2>3, <2>8, ScopesKept
  <2> QED
    BY <2>7, <2>9
<1> QED
  BY <1>2, <1>3

\* A literal.
LEMMA LiteralStays ==
  ASSUME NEW returning, IInv, Local(returning), VisitLiteralExpr
  PROVE  Stays(returning, <<>>)
<1>1. /\ At("visit", {"Literal"}) /\ Push(IntObj(node.val)) /\ ir' = ir
      /\ UNCHANGED environment
  BY DEF VisitLiteralExpr
<1>2. Follows(ir, ir', {})
  BY <1>1, LocalFacts
<1>3. UsableIn(ir', Parent(ir), IntObj(node.val))
  BY ConstantsUsable
<1> QED
  BY <1>1, <1>2, <1>3, ValueStays

\* A variable is loaded from its slot.
LEMMA VariableStays ==
  ASSUME NEW returning, IInv, Local(returning), VisitVarExpr, ~Stop(Signalled)
  PROVE  Stays(returning, <<>>)
<1> DEFINE x == getAllocVar(node.name)
           args == <<x>>
           m == Emit(ir, "load", args)
           v == Latest(m, "i32")
<1>1. /\ At("visit", {"Var"}) /\ ir' = m /\ Push(v) /\ UNCHANGED environment
      /\ x # NullPtr
  BY DEF VisitVarExpr
<1>2. node \in Node /\ node.kind = "Var" /\ scopes \in Seq(Facts!Scope(Binding))
  BY <1>1, First
<1>3. node.name \in Name
  BY <1>2, NodeFacts
<1>4. x \in Arguments /\ UsableIn(ir, Parent(ir), x)
  BY <1>1, <1>2, <1>3, VariableType, VariableOwn, ValueTypes
<1>5. Follows(ir, ir, {})
  BY <1>1, LocalFacts
<1> HIDE DEF x
<1>6. args \in Seq(Arguments) /\ "load" \in Opcodes
  BY <1>4, ArgumentLists DEF Opcodes
<1>7. \A i \in DOMAIN args : UsableIn(ir, Parent(ir), args[i])
  BY <1>4, ListsUsable
<1> HIDE DEF args
<1>8. Follows(ir, m, {}) /\ UsableIn(m, Parent(ir), v)
  BY <1>5, <1>6, <1>7, EmitOwn
<1> HIDE DEF m, v
<1> QED
  BY <1>1, <1>8, ValueStays

\* A number is read into a slot of its own.
LEMMA InputStays ==
  ASSUME NEW returning, IInv, Local(returning), VisitInputExpr
  PROVE  Stays(returning, <<>>)
<1> DEFINE library == Library(ir, Scanf, 0)
           variable == allocVar(library)
           slot == Slot(variable.count)
           args == <<Format, slot>>
           called == CallNamed(variable, Scanf, args)
           one == <<slot>>
           m == Emit(called, "load", one)
           v == Latest(m, "i32")
<1>1. /\ At("visit", {"Input"}) /\ ir' = m /\ Push(v) /\ UNCHANGED environment
  BY DEF VisitInputExpr
<1>2. Follows(ir, ir, {}) /\ 0 \in Nat /\ Scanf \in {Printf, Scanf}
  BY <1>1, LocalFacts
<1>3. Follows(ir, library, {})
  BY <1>2, LibraryFollows
<1>4. FunctionsNamed(library, Scanf) # {}
  BY <1>2, LibraryFollows
<1> HIDE DEF library
<1>5. /\ Follows(ir, variable, {}) /\ UsableIn(variable, Parent(ir), slot)
  <2>1. Follows(ir, variable, {})
    BY <1>3, AllocFollows
  <2>2. UsableIn(variable, Parent(ir), slot)
    BY <1>3, AllocFollows
  <2> QED
    BY <2>1, <2>2
<1>6. slot \in Arguments /\ variable.funcs = library.funcs
  BY <1>3, Allocated, ValueTypes DEF Follows
<1>7. FunctionsNamed(variable, Scanf) # {}
  BY <1>4, <1>6 DEF FunctionsNamed
<1> HIDE DEF variable, slot
<1>8. args \in Seq(Arguments) /\ one \in Seq(Arguments) /\ "load" \in Opcodes
  BY <1>6, ArgumentLists, ValueTypes DEF Opcodes
<1>9. UsableIn(variable, Parent(ir), Format)
  BY ConstantsUsable
<1>10. \A i \in DOMAIN args : UsableIn(variable, Parent(ir), args[i])
  BY <1>5, <1>9, ListsUsable
<1> HIDE DEF args
<1>11. Follows(ir, called, {})
  BY <1>5, <1>7, <1>8, <1>10, CallFollows
<1>12. Keeps(variable, called)
  BY <1>5, <1>7, <1>8, <1>10, CallFollows
<1> HIDE DEF called
<1>13. UsableIn(called, Parent(ir), slot)
  BY <1>5, <1>12, KeptUsable
<1>14. \A i \in DOMAIN one : UsableIn(called, Parent(ir), one[i])
  BY <1>13, ListsUsable
<1> HIDE DEF one
<1>15. Follows(ir, m, {}) /\ UsableIn(m, Parent(ir), v)
  BY <1>8, <1>11, <1>14, EmitOwn
<1> HIDE DEF m, v
<1> QED
  BY <1>1, <1>15, ValueStays

\* A value is stored in a variable.
LEMMA AssignmentStays ==
  ASSUME NEW returning, IInv, Local(returning), ResumeAssignment
  PROVE  Stays(returning, <<>>)
<1> DEFINE v == Result
<1>1. /\ At("resume", {"Assignment"}) /\ StoreIn(node.name, v)
      /\ UNCHANGED <<values, functions, returnStack, status>>
  BY DEF ResumeAssignment
<1>2. /\ node \in Node /\ node.kind = "Assignment" /\ node = todo[1].node
      /\ todo[1].phase = "resume"
  BY <1>1, First
<1>3. node.name \in Name
  BY <1>2, NodeFacts
<1>4. Need(todo[1]) = 1
  BY <1>2 DEF Need
<1>5. v \in Value /\ UsableIn(ir, Parent(ir), v)
  BY <1>1, <1>4, OperandsOwn
<1> HIDE DEF v
<1>6. Follows(ir, ir', {}) /\ ScopesStay
  BY <1>1, <1>3, <1>5, StoreInStays
<1>7. ~FuncEnd(todo[1]) /\ Keeps(ir, ir')
  BY <1>1, <1>6, Ordinary DEF Follows
<1>8. ValuesStay
  BY <1>1, <1>7, ValuesKept
<1> QED
  BY <1>1, <1>6, <1>8, PlainStays

\* A negation.
LEMMA UnaryStays ==
  ASSUME NEW returning, IInv, Local(returning), ResumeUnary
  PROVE  Stays(returning, <<>>)
<1> DEFINE v == Result
           args == <<v>>
           m == Emit(ir, "neg", args)
           w == Latest(m, TypeOfValue(v))
           n == IntObj(Wrap(-v[2]))
<1>1. /\ At("resume", {"Unary"}) /\ UNCHANGED environment
      /\ \/ Replace(1, n) /\ ir' = ir
         \/ ir' = m /\ Replace(1, w)
  BY DEF ResumeUnary
<1>2. node.kind = "Unary" /\ node = todo[1].node /\ todo[1].phase = "resume"
  BY <1>1, First
<1>3. Need(todo[1]) = 1
  BY <1>2 DEF Need
<1>4. v \in Value /\ UsableIn(ir, Parent(ir), v) /\ Follows(ir, ir, {})
  BY <1>1, <1>3, OperandsOwn, LocalFacts
<1>5. UsableIn(ir, Parent(ir), n)
  BY ConstantsUsable
<1> HIDE DEF v, n
<1>6. args \in Seq(Arguments) /\ "neg" \in Opcodes
  BY <1>4, ArgumentLists, ValueTypes DEF Opcodes
<1>7. \A i \in DOMAIN args : UsableIn(ir, Parent(ir), args[i])
  BY <1>4, ListsUsable
<1> HIDE DEF args
<1>8. Follows(ir, m, {}) /\ UsableIn(m, Parent(ir), w)
  BY <1>4, <1>6, <1>7, EmitOwn
<1> HIDE DEF m, w
<1> QED
  BY <1>1, <1>3, <1>4, <1>5, <1>8, ValueStays

\* An operation on two values.
LEMMA BinaryStays ==
  ASSUME NEW returning, IInv, Local(returning), ResumeBinary
  PROVE  Stays(returning, <<>>)
<1> DEFINE lhs == values[Len(values) - 1]
           rhs == Result
           args == <<lhs, rhs>>
           m == Emit(ir, node.op, args)
           folded == Folded(node.op, lhs, rhs)
           v == Latest(m, ResultType(node.op))
<1>1. /\ At("resume", {"Binary"}) /\ UNCHANGED environment
      /\ \/ Replace(2, NullPtr) /\ ir' = ir
         \/ Replace(2, folded) /\ ir' = ir
         \/ Replace(2, v) /\ ir' = m
  BY DEF ResumeBinary
<1>2. node \in Node /\ node.kind = "Binary" /\ node = todo[1].node
      /\ todo[1].phase = "resume"
  BY <1>1, First
<1>3. Need(todo[1]) = 2
  BY <1>2 DEF Need
<1>4. /\ lhs \in Value /\ UsableIn(ir, Parent(ir), lhs)
      /\ rhs \in Value /\ UsableIn(ir, Parent(ir), rhs)
      /\ Follows(ir, ir, {})
  BY <1>1, <1>3, OperandsOwn, LocalFacts
<1>5. node.op \in Arithmetic \cup Comparisons /\ node.op \in Opcodes
  BY <1>2, NodeFacts DEF Operators, Arithmetic, Comparisons, Opcodes
<1> HIDE DEF lhs, rhs
<1>6. UsableIn(ir, Parent(ir), folded) /\ UsableIn(ir, Parent(ir), NullPtr)
  BY <1>5, FoldedUsable, ConstantsUsable
<1> HIDE DEF folded
<1>7. args \in Seq(Arguments)
  BY <1>4, ArgumentLists, ValueTypes
<1>8. \A i \in DOMAIN args : UsableIn(ir, Parent(ir), args[i])
  BY <1>4, ListsUsable
<1> HIDE DEF args
<1>9. Follows(ir, m, {}) /\ UsableIn(m, Parent(ir), v)
  BY <1>4, <1>5, <1>7, <1>8, EmitOwn
<1> HIDE DEF m, v
<1> QED
  BY <1>1, <1>3, <1>4, <1>6, <1>9, ValueStays

\* ++ and -- change the variable and leave the value.
LEMMA PostfixStays ==
  ASSUME NEW returning, IInv, Local(returning), ResumePostfix
  PROVE  Stays(returning, <<>>)
<1> DEFINE v == Result
           op == IF node.op = "++" THEN "+" ELSE "-"
           x == getAllocVar(node.kids[1].name)
           operands == <<v, IntObj(1)>>
           m == Emit(ir, op, operands)
           w == Latest(m, "i32")
           args == <<w, x>>
<1>1. /\ At("resume", {"Postfix"}) /\ UNCHANGED environment /\ values' = values
      /\ \/ ir' = ir
         \/ node.kids[1].kind = "Var" /\ ir' = Emit(m, "store", args)
  BY DEF ResumePostfix
<1>2. /\ node \in Node /\ node.kind = "Postfix" /\ node = todo[1].node
      /\ todo[1].phase = "resume" /\ scopes \in Seq(Facts!Scope(Binding))
  BY <1>1, First
<1>3. Need(todo[1]) = 1
  BY <1>2 DEF Need
<1>4. v \in Value /\ UsableIn(ir, Parent(ir), v) /\ Follows(ir, ir, {})
  BY <1>1, <1>3, OperandsOwn, LocalFacts
<1>5. CASE ir' = ir
  BY <1>1, <1>4, <1>5, ValueStays
<1>6. CASE node.kids[1].kind = "Var" /\ ir' = Emit(m, "store", args)
  <2>1. node.kids[1].name \in Name
    <3>1. Len(node.kids) = 1 /\ node.kids \in Seq(Node)
      BY <1>2, NodeFacts
    <3>2. node.kids[1] \in Node
      BY <3>1
    <3> QED
      BY <3>2, <1>6, NodeFacts
  <2>2. x \in Value /\ UsableIn(ir, Parent(ir), x)
    BY <2>1, <1>1, <1>2, VariableType, VariableOwn, ValueTypes
  <2>3. UsableIn(ir, Parent(ir), IntObj(1))
    BY ConstantsUsable
  <2> HIDE DEF v, x
  <2>4. \A i \in DOMAIN operands : UsableIn(ir, Parent(ir), operands[i])
    BY <1>4, <2>3, ListsUsable
  <2>5. operands \in Seq(Arguments) /\ op \in Opcodes /\ "store" \in Opcodes
    BY <1>4, ArgumentLists, ValueTypes DEF Opcodes, Arithmetic
  <2> HIDE DEF operands, op
  <2>6. Follows(ir, m, {}) /\ Keeps(ir, m) /\ UsableIn(m, Parent(ir), w)
    BY <1>4, <2>4, <2>5, EmitOwn
  <2>7. w \in Value
    BY <2>6, LatestType DEF Follows
  <2> HIDE DEF m, w
  <2>8. UsableIn(m, Parent(ir), x)
    BY <2>2, <2>6, KeptUsable
  <2>9. \A i \in DOMAIN args : UsableIn(m, Parent(ir), args[i])
    BY <2>6, <2>8, ListsUsable
  <2>10. args \in Seq(Arguments)
    BY <2>2, <2>7, ArgumentLists, ValueTypes
  <2> HIDE DEF args
  <2>11. Follows(ir, ir', {})
    BY <2>5, <2>6, <2>9, <2>10, <1>6, EmitOwn
  <2> QED
    BY <2>11, <1>1, ValueStays
<1> QED
  BY <1>1, <1>5, <1>6

\* A visit that goes on with other items.
LEMMA GoesOnStays ==
  ASSUME NEW returning, IInv, Local(returning), NEW phase, NEW kinds, At(phase, kinds),
         phase \in {"visit", "param"} \/ (phase = "resume" /\ "Scope" \notin kinds),
         returnStack' = returnStack, Follows(ir, ir', {}), ValuesStay, ScopesStay,
         NEW items, ItemsStay(items), Settled(returning, todo, items)
  PROVE  Stays(returning, items)
<1>1. ~FuncEnd(todo[1]) /\ ~BlockEnd(todo[1]) /\ ~Pops(todo[1])
  BY Ordinary
<1>2. ReturnsStay(returning, items)
  BY <1>1, ReturnsKept
<1> QED
  BY <1>1, <1>2 DEF Stays

\* A call takes the function and the arguments.
LEMMA CalledStays ==
  ASSUME NEW returning, IInv, Local(returning), ResumeCallExpr
  PROVE  Stays(returning, <<>>)
<1> DEFINE count == Len(node.kids) + 1
           args == SubSeq(values, Len(values) - count + 1, Len(values))
           m == Emit(ir, "call", args)
           v == Latest(m, "i32")
<1>1. /\ At("resume", {"Call"}) /\ UNCHANGED environment
      /\ ir' = m /\ Replace(count, v)
  BY DEF ResumeCallExpr
<1>2. /\ node \in Node /\ node.kind = "Call" /\ node = todo[1].node
      /\ todo[1].phase = "resume"
      /\ values \in Seq(Value) /\ Len(values) \in Nat
      /\ Need(todo[1]) <= Len(values)
  BY <1>1, First
<1>3. Len(node.kids) \in Nat
  BY <1>2, NodeFacts
<1>4. Need(todo[1]) = count
  BY <1>2 DEF Need
<1>5. /\ count \in Nat /\ count <= Len(values)
      /\ Len(values) - count + 1 \in 1..(Len(values) + 1)
  BY SMTT(30), <1>2, <1>3, <1>4
<1> HIDE DEF count
<1>6. args \in Seq(Value)
  BY <1>2, <1>5
<1>7. ASSUME NEW i \in DOMAIN args PROVE UsableIn(ir, Parent(ir), args[i])
  <2>1. DOMAIN args = 1..count /\ \A j \in 1..count : args[j] = values[Len(values) - count + j]
    BY <1>2, <1>5
  <2>2. /\ Len(values) - count + i \in 1..Len(values)
        /\ ~(Len(values) - count + i <= Kept)
    BY <2>1, <1>2, <1>4, <1>5 DEF Kept
  <2>3. ~FuncEnd(todo[1])
    BY <1>2 DEF FuncEnd
  <2> QED
    BY <2>1, <2>2, <2>3, <1>1, LocalFacts
<1>8. Follows(ir, ir, {})
  BY <1>1, LocalFacts
<1> HIDE DEF args
<1>9. args \in Seq(Arguments) /\ "call" \in Opcodes
  BY <1>6, ValueTypes DEF Opcodes
<1>10. Follows(ir, m, {}) /\ UsableIn(m, Parent(ir), v)
  BY <1>7, <1>8, <1>9, EmitOwn
<1> HIDE DEF m, v
<1> QED
  BY <1>1, <1>4, <1>10, ValueStays

\* A function is bound, in whatever scope that is seen.
LEMMA FunctionBound ==
  ASSUME NEW returning, IInv, Local(returning), NEW phase, NEW kinds, At(phase, kinds),
         Keeps(ir, ir'), NEW x \in Name, NEW v \in Binding, IsFunctionValue(v),
         scopes' = Env!defineOrAssign(scopes, x, v)
  PROVE  ScopesStay
<1> DEFINE l == Len(scopes)
<1>1. scopes \in Seq(Facts!Scope(Binding)) /\ scopes # <<>> /\ l \in Nat /\ l \in 1..l
  BY First
<1>2. \A i \in Seen(scopes, l) : Bound(ir, Parent(ir), scopes[i])
  BY LocalFacts
<1>3. scopes' = Facts!defineOrAssign(scopes, x, v)
  BY SameScopes
<1>4. Facts!Stored(scopes, scopes', x, v)
  BY <1>1, <1>3, Facts!DefineStores
<1>5. PICK h \in 1..l : scopes' = Facts!Bind(scopes, h, x, v)
  BY <1>1, <1>4, Facts!VisibleScopes DEF Facts!Stored
<1>6. /\ Len(scopes') = l
      /\ \A j \in 1..l :
           /\ scopes'[j].global = scopes[j].global
           /\ j # h => scopes'[j] = scopes[j]
           /\ j = h => \A y \in Name :
                scopes'[j].objects[y] = IF y = x THEN v ELSE scopes[j].objects[y]
  <2> DEFINE t == Facts!Bind(scopes, h, x, v)
  <2>1. /\ Len(t) = l
        /\ \A j \in 1..l :
             /\ t[j].global = scopes[j].global
             /\ j # h => t[j] = scopes[j]
             /\ j = h => \A y \in Name :
                  t[j].objects[y] = IF y = x THEN v ELSE scopes[j].objects[y]
    BY <1>1, Facts!BindEffect
  <2>2. scopes' = t
    BY <1>5
  <2> HIDE DEF t
  <2> QED
    BY ONLY <2>1, <2>2
<1>7. \A f : UsableIn(ir', f, v)
  BY DEF UsableIn, IsFunctionValue
<1> HIDE DEF l
<1>8. ASSUME NEW i \in 1..l, NEW f, Bound(ir, f, scopes[i])
      PROVE  Bound(ir', f, scopes'[i])
  <2>1. ASSUME NEW y \in Name, scopes'[i].objects[y] # Absent
        PROVE  UsableIn(ir', f, scopes'[i].objects[y])
    <3>1. CASE i = h /\ y = x
      BY <3>1, <1>6, <1>7
    <3>2. CASE ~(i = h /\ y = x)
      <4>1. scopes'[i].objects[y] = scopes[i].objects[y]
        BY <3>2, <1>6
      <4>2. UsableIn(ir, f, scopes[i].objects[y])
        BY <4>1, <2>1, <1>8 DEF Bound
      <4> QED
        BY <4>1, <4>2, KeptUsable
    <3> QED
      BY <3>1, <3>2
  <2> QED
    BY <2>1 DEF Bound
<1>9. \A i \in 1..l : Rebound(ir, ir', scopes[i], scopes'[i])
  BY <1>8 DEF Rebound
<1>10. ASSUME NEW i \in Seen(scopes', l) PROVE i \in 1..l /\ i \in Seen(scopes, l)
  <2>1. i \in 1..l /\ \A k \in (i + 1)..l : ~scopes'[k].global /\ k \in 1..l
    BY <1>1 DEF Seen, l
  <2> QED
    BY <2>1, <1>6 DEF Seen
<1>11. \A i \in Seen(scopes', l) : Bound(ir', Parent(ir), scopes'[i])
  BY <1>2, <1>8, <1>10
<1> QED
  BY <1>6, <1>9, <1>11 DEF ScopesStay, ScopesBound, l

\* A variable is declared.
LEMMA VarStmtStays ==
  ASSUME NEW returning, IInv, Local(returning), ResumeVarStmt
  PROVE  Stays(returning, <<>>)
<1> DEFINE v == Result
<1>1. /\ At("resume", {"VarStmt"}) /\ Pop
      /\ UNCHANGED <<functions, returnStack, status>>
      /\ \/ /\ IsFunctionValue(v) /\ ir' = ir
            /\ scopes' = Env!defineOrAssign(scopes, node.name, v)
         \/ StoreIn(node.name, v)
  BY DEF ResumeVarStmt
<1>2. /\ node \in Node /\ node.kind = "VarStmt" /\ node = todo[1].node
      /\ todo[1].phase = "resume"
  BY <1>1, First
<1>3. node.name \in Name
  BY <1>2, NodeFacts
<1>4. Need(todo[1]) = 1
  BY <1>2 DEF Need
<1>5. v \in Value /\ UsableIn(ir, Parent(ir), v)
  BY <1>1, <1>4, OperandsOwn
<1> HIDE DEF v
<1>6. Follows(ir, ir', {}) /\ ScopesStay
  <2>1. CASE /\ IsFunctionValue(v) /\ ir' = ir
             /\ scopes' = Env!defineOrAssign(scopes, node.name, v)
    <3>1. v \in Binding
      BY <2>1, <1>5, TagTypes DEF Binding
    <3>2. Follows(ir, ir', {}) /\ Keeps(ir, ir') /\ UsableIn(ir', Parent(ir), v)
      BY <2>1, <1>1, <1>5, LocalFacts
    <3>3. ScopesStay
      BY <2>1, <3>1, <3>2, <1>1, <1>3, FunctionBound
    <3> QED
      BY <3>2, <3>3
  <2>2. CASE StoreIn(node.name, v)
    BY <2>2, <1>1, <1>3, <1>5, StoreInStays
  <2> QED
    BY <2>1, <2>2, <1>1
<1>7. ~FuncEnd(todo[1]) /\ Keeps(ir, ir')
  BY <1>1, <1>6, Ordinary DEF Follows
<1>8. ValuesStay
  BY <1>1, <1>4, <1>7, ValuesKept
<1> QED
  BY <1>1, <1>6, <1>8, PlainStays

\* A call of printf.
LEMMA PrintStays ==
  ASSUME NEW returning, IInv, Local(returning), ResumePrintStmt
  PROVE  Stays(returning, <<>>)
<1> DEFINE v == Result
           args == <<Format, v>>
           library == Library(ir, Printf, 2)
           m == CallNamed(library, Printf, args)
<1>1. /\ At("resume", {"Print"}) /\ Pop /\ UNCHANGED environment /\ ir' = m
  BY DEF ResumePrintStmt
<1>2. node.kind = "Print" /\ node = todo[1].node /\ todo[1].phase = "resume"
  BY <1>1, First
<1>3. Need(todo[1]) = 1
  BY <1>2 DEF Need
<1>4. v \in Value /\ UsableIn(ir, Parent(ir), v) /\ Follows(ir, ir, {})
  BY <1>1, <1>3, OperandsOwn, LocalFacts
<1> HIDE DEF v
<1>5. args \in Seq(Arguments)
  BY <1>4, ArgumentLists, ValueTypes
<1>6. Printf \in {Printf, Scanf} /\ 2 \in Nat
  OBVIOUS
<1>7. Follows(ir, library, {})
  BY <1>4, <1>6, LibraryFollows
<1>8. Keeps(ir, library)
  BY <1>4, <1>6, LibraryFollows
<1>9. FunctionsNamed(library, Printf) # {}
  BY <1>4, <1>6, LibraryFollows
<1> HIDE DEF library
<1>10. UsableIn(library, Parent(ir), v) /\ UsableIn(library, Parent(ir), Format)
  BY <1>4, <1>8, KeptUsable, ConstantsUsable
<1>11. \A i \in DOMAIN args : UsableIn(library, Parent(ir), args[i])
  BY <1>10, ListsUsable
<1> HIDE DEF args
<1>12. Follows(ir, m, {})
  BY <1>5, <1>7, <1>9, <1>11, CallFollows
<1> HIDE DEF m
<1> QED
  BY <1>1, <1>3, <1>12, ValueStays

\* The value of an expression is dropped.
LEMMA ExprStmtStays ==
  ASSUME NEW returning, IInv, Local(returning), ResumeExprStmt
  PROVE  Stays(returning, <<>>)
<1>1. At("resume", {"ExprStmt"}) /\ Pop /\ UNCHANGED environment /\ ir' = ir
  BY DEF ResumeExprStmt
<1>2. node.kind = "ExprStmt" /\ node = todo[1].node /\ todo[1].phase = "resume"
  BY <1>1, First
<1>3. Need(todo[1]) = 1
  BY <1>2 DEF Need
<1>4. Follows(ir, ir', {})
  BY <1>1, LocalFacts
<1> QED
  BY <1>1, <1>3, <1>4, ValueStays

\* The end of main.
LEMMA ProgramEndStays ==
  ASSUME NEW returning, IInv, Local(returning), ResumeFunctionStmt
  PROVE  Stays(returning, <<>>)
<1> DEFINE args == <<IntObj(0)>>
<1>1. /\ At("resume", {"Function"}) /\ values' = values /\ UNCHANGED environment
      /\ ir' = Emit(ir, "ret", args)
  BY DEF ResumeFunctionStmt
<1>2. \A i \in DOMAIN args : UsableIn(ir, Parent(ir), args[i])
  BY ConstantsUsable, ListsUsable
<1>3. args \in Seq(Arguments) /\ "ret" \in Opcodes
  BY ArgumentLists, ValueTypes DEF Opcodes, Terminators
<1>4. Follows(ir, ir, {})
  BY <1>1, LocalFacts
<1> HIDE DEF args
<1>5. Follows(ir, ir', {})
  BY <1>1, <1>2, <1>3, <1>4, EmitOwn
<1> QED
  BY <1>1, <1>5, ValueStays

\* The value that a return leaves is of the function, and somebody takes it.
LEMMA ReturnStays ==
  ASSUME NEW returning, ReturnsEndBlocks(returning), IInv, Local(returning),
         ResumeReturnStmt
  PROVE  Stays(returning, <<>>)
<1> DEFINE v == Result
           args == <<v>>
<1>1. /\ At("resume", {"Return"}) /\ Pop /\ scopes' = scopes
      /\ returnStack' = Append(returnStack, v)
      /\ ir' = ir \/ ir' = Emit(ir, "ret", args)
  BY DEF ResumeReturnStmt
<1>2. /\ node \in Node /\ node.kind = "Return" /\ node = todo[1].node
      /\ todo[1].phase = "resume"
  BY <1>1, First
<1>3. Need(todo[1]) = 1
  BY <1>2 DEF Need
<1>4. v \in Value /\ UsableIn(ir, Parent(ir), v) /\ Follows(ir, ir, {})
  BY <1>1, <1>3, OperandsOwn, LocalFacts
<1> HIDE DEF v
<1>5. args \in Seq(Arguments) /\ "ret" \in Opcodes
  BY <1>4, ArgumentLists, ValueTypes DEF Opcodes, Terminators
<1>6. \A i \in DOMAIN args : UsableIn(ir, Parent(ir), args[i])
  BY <1>4, ListsUsable
<1> HIDE DEF args
<1>7. Follows(ir, ir', {})
  BY <1>1, <1>4, <1>5, <1>6, EmitOwn
<1>8. ~FuncEnd(todo[1]) /\ ~BlockEnd(todo[1]) /\ ~Pops(todo[1]) /\ Keeps(ir, ir')
  BY <1>1, <1>7, Ordinary DEF Follows
<1>9. ValuesStay
  BY <1>1, <1>3, <1>8, ValuesKept
<1>10. ScopesStay
  BY <1>1, <1>8, ScopesKept
<1>11. Len(returnStack') = 1 /\ returnStack'[1] = v
  <2>1. returnStack = <<>>
    BY <1>1, <1>8, LocalFacts
  <2> QED
    BY <2>1, <1>1
<1>12. \A i \in 1..Len(returnStack') : UsableIn(ir', Parent(ir), returnStack'[i])
  <2>1. UsableIn(ir', Parent(ir), v)
    BY <1>4, <1>8, KeptUsable
  <2>2. \A i \in 1..Len(returnStack') : i = 1
    BY <1>11
  <2> QED
    BY <2>1, <2>2, <1>11
<1>13. MayReturn(returning, todo[1])
  BY <1>2 DEF MayReturn, ReturnsEndBlocks
<1>14. LeftOver(returning, todo, <<>>, returnStack, returnStack')
  BY <1>11, <1>13 DEF LeftOver
<1>15. ItemsStay(<<>>) /\ Settled(returning, todo, <<>>)
  BY NothingStays
<1> QED
  BY <1>7, <1>8, <1>9, <1>10, <1>12, <1>14, <1>15 DEF Stays, ReturnsStay

-----------------------------------------------------------------------------
(***************************************************************************)
(* Ends of scopes, branches and bodies.                                    *)
(***************************************************************************)

\* Nothing is left on returnStack.
LEMMA EmptyStays ==
  ASSUME NEW returning, ~FuncEnd(todo[1]), returnStack' = <<>>,
         Follows(ir, ir', {}), ValuesStay, ScopesStay,
         NEW items, ItemsStay(items), Settled(returning, todo, items)
  PROVE  Stays(returning, items)
<1>1. LeftOver(returning, todo, items, returnStack, returnStack')
  BY DEF LeftOver
<1>2. \A i \in 1..Len(returnStack') : FALSE
  OBVIOUS
<1> QED
  BY <1>1, <1>2 DEF Stays, ReturnsStay

\* The only value is taken off.
LEMMA TakenOff ==
  ASSUME returnStack \in Seq(Value), returnStack # <<>> => Len(returnStack) = 1
  PROVE  (IF returnStack = <<>> THEN <<>> ELSE Below(returnStack, 1)) = <<>>
<1>1. \A n \in Nat : n <= Len(returnStack) =>
        SubSeq(returnStack, 1, n) \in Seq(Value) /\ Len(SubSeq(returnStack, 1, n)) = n
  OBVIOUS
<1>2. CASE Len(returnStack) = 1
  <2>1. Below(returnStack, 1) = SubSeq(returnStack, 1, 0)
    BY <1>2 DEF Below
  <2> QED
    BY <2>1, <1>1, <1>2
<1> QED
  BY <1>2

\* The value of a scope: that of the return, or none.
LEMMA ScopeEndStays ==
  ASSUME NEW returning, IInv, Local(returning), ScopeEnds
  PROVE  Stays(returning, <<>>)
<1> DEFINE v == returnStack[Len(returnStack)]
<1>1. /\ At("resume", {"Scope"}) /\ scopes' = scopes /\ ir' = ir
      /\ \/ Returned /\ Push(v) /\ returnStack' = Below(returnStack, 1)
         \/ ~Returned /\ Push(NullPtr) /\ returnStack' = returnStack
  BY DEF ScopeEnds
<1>2. todo[1].phase = "resume" /\ todo[1].node.kind = "Scope" /\ block = todo[1].index
      /\ block \in Nat /\ returnStack \in Seq(Value)
  BY <1>1, First
<1>3. ~FuncEnd(todo[1]) /\ ~BlockEnd(todo[1])
  BY <1>2 DEF FuncEnd, BlockEnd
<1>4. returnStack # <<>> => Len(returnStack) = 1 /\ Pops(todo[1])
  BY <1>1, <1>3, LocalFacts
<1>5. returnStack' = <<>>
  <2>1. CASE Returned /\ returnStack' = Below(returnStack, 1)
    BY <2>1, <1>2, <1>4, TakenOff DEF Returned
  <2>2. CASE ~Returned /\ returnStack' = returnStack
    BY <2>2, <1>2, <1>4 DEF Returned, Pops
  <2> QED
    BY <2>1, <2>2, <1>1
<1>6. Follows(ir, ir', {}) /\ Keeps(ir, ir')
  BY <1>1, LocalFacts
<1>7. Returned => UsableIn(ir, Parent(ir), v)
  <2>1. \A i \in 1..Len(returnStack) : UsableIn(ir, Parent(ir), returnStack[i])
    BY <1>1, LocalFacts
  <2> QED
    BY <2>1, <1>4 DEF Returned
<1>8. UsableIn(ir', Parent(ir), NullPtr)
  BY ConstantsUsable
<1> HIDE DEF v
<1>9. ValuesStay
  <2>1. CASE Returned /\ Push(v)
    BY <2>1, <1>1, <1>3, <1>6, <1>7, ValuesKept
  <2>2. CASE Push(NullPtr)
    BY <2>2, <1>1, <1>3, <1>6, <1>8, ValuesKept
  <2> QED
    BY <2>1, <2>2, <1>1
<1>10. ScopesStay
  BY <1>1, <1>6, ScopesKept
<1> QED
  BY <1>3, <1>5, <1>6, <1>9, <1>10, NothingStays, EmptyStays

\* The end of a scope or a block.
LEMMA LeaveStays ==
  ASSUME NEW returning, IInv, Local(returning), Leave
  PROVE  Stays(returning, <<>>)
<1>1. /\ At("leave", {"Scope", "Block"}) /\ scopes' = Env!Leave(scopes)
      /\ values' = values /\ returnStack' = returnStack /\ ir' = ir
  BY DEF Leave
<1>2. /\ todo[1].node.kind \in {"Scope", "Block"} /\ todo[1].phase = "leave"
      /\ todo \in Seq(Item) /\ todo # <<>> /\ Len(scopes) \in Nat
  BY <1>1, First
<1>3. ~FuncEnd(todo[1]) /\ ~Pops(todo[1])
  BY <1>2 DEF FuncEnd, Pops
<1>4. Len(scopes) > 1 /\ ~scopes[Len(scopes)].global
  <2>1. ScopesNested(todo, scopes, {"Func"})
    BY DEF IInv, OneScopeEach
  <2>2. ScopeOf(todo, scopes, 1) = Len(scopes) /\ 1 \in DOMAIN todo
    BY <1>2, ScopeOfFirst
  <2>3. Len(scopes) > 1
    BY <1>2, <2>1, ScopeToLeave
  <2> QED
    BY <2>1, <2>2, <2>3, <1>2 DEF ScopesNested
<1>5. Follows(ir, ir', {}) /\ Keeps(ir, ir')
  BY <1>1, LocalFacts
<1>6. ValuesStay
  BY <1>1, <1>3, <1>5, ValuesKept
<1>7. ScopesStay
  BY <1>1, <1>4, <1>5, ScopesKept
<1>8. returnStack # <<>> => Len(returnStack) = 1 /\ BlockEnd(todo[1])
  BY <1>1, <1>3, LocalFacts
<1>9. LeftOver(returning, todo, <<>>, returnStack, returnStack')
  BY <1>1, <1>8 DEF LeftOver
<1>10. \A i \in 1..Len(returnStack') : UsableIn(ir', Parent(ir), returnStack'[i])
  BY <1>1, LocalFacts
<1> QED
  BY <1>3, <1>5, <1>6, <1>7, <1>9, <1>10, NothingStays DEF Stays, ReturnsStay

\* After a branch or a body code goes on in blocks of the function.
LEMMA GoOnStays ==
  ASSUME NEW returning, IInv, Local(returning), NEW phase \in {"then", "else", "body"},
         NEW kinds, At(phase, kinds), NEW b \in BlocksOf(todo[1]),
         NEW c \in BlocksOf(todo[1]), GoOnTo(<<b, c>>), values' = values, scopes' = scopes
  PROVE  /\ Keeps(ir, ir')
         /\ \A items : ItemsStay(items) /\ Settled(returning, todo, items) =>
              Stays(returning, items)
<1> DEFINE args == <<BlockAt(b)>>
           m == Emit(ir, "br", args)
<1>1. /\ ir' = SetInsertPoint(ir, c) \/ ir' = SetInsertPoint(m, c)
      /\ returnStack' = IF returnStack = <<>> THEN <<>> ELSE Below(returnStack, 1)
  BY DEF GoOnTo
<1>2. Follows(ir, ir, {}) /\ Keeps(ir, ir)
  BY LocalFacts
<1>3. UsableIn(ir, Parent(ir), BlockAt(b)) /\ UsableIn(ir, Parent(ir), BlockAt(c))
  BY LocalFacts
<1>4. c \in DOMAIN ir.blocks /\ ir.blocks[c].func = Parent(ir)
  BY <1>3 DEF UsableIn, BlockAt
<1>5. b \in Nat
  <2>1. b \in DOMAIN ir.blocks
    BY <1>3 DEF UsableIn, BlockAt
  <2>2. DOMAIN ir.blocks = 1..Len(ir.blocks) /\ Len(ir.blocks) \in Nat
    BY <1>2, ModuleParts DEF Follows, WellMade
  <2> QED
    BY <2>1, <2>2
<1>6. args \in Seq(Arguments) /\ "br" \in Opcodes
  BY <1>5, ArgumentLists, ValueTypes DEF Opcodes, Terminators
<1>7. \A i \in DOMAIN args : UsableIn(ir, Parent(ir), args[i])
  BY <1>3, ListsUsable
<1> HIDE DEF args
<1>8. Follows(ir, m, {}) /\ Keeps(ir, m)
  BY <1>2, <1>6, <1>7, EmitOwn
<1> HIDE DEF m
<1>9. c \in DOMAIN m.blocks /\ m.blocks[c].func = Parent(ir)
  BY <1>4, <1>8 DEF Keeps
<1>10. Follows(ir, ir', {})
  <2>1. CASE ir' = SetInsertPoint(ir, c)
    BY <2>1, <1>2, <1>4, MoveFollows
  <2>2. CASE ir' = SetInsertPoint(m, c)
    BY <2>2, <1>8, <1>9, MoveFollows
  <2> QED
    BY <2>1, <2>2, <1>1
<1>11. Keeps(ir, ir')
  BY <1>10 DEF Follows
<1>12. ~FuncEnd(todo[1]) /\ ~BlockEnd(todo[1])
  BY Ordinary
<1>13. ValuesStay /\ ScopesStay
  <2>1. ValuesStay
    BY <1>11, <1>12, ValuesKept
  <2>2. ScopesStay
    BY <1>11, ScopesKept
  <2> QED
    BY <2>1, <2>2
<1>14. returnStack' = <<>>
  <2>1. returnStack # <<>> => Len(returnStack) = 1
    BY LocalFacts
  <2>2. returnStack \in Seq(Value)
    BY First
  <2> QED
    BY <2>1, <2>2, <1>1, TakenOff
<1> QED
  BY <1>10, <1>11, <1>12, <1>13, <1>14, EmptyStays

\* After the second branch of an if.
LEMMA ElseStays ==
  ASSUME NEW returning, IInv, Local(returning), AfterElse
  PROVE  Stays(returning, <<>>)
<1>1. /\ At("else", {"If"}) /\ GoOnTo(<<block + 1, block + 1>>)
      /\ values' = values /\ scopes' = scopes
  BY DEF AfterElse
<1>2. /\ node \in Node /\ node.kind = "If" /\ node = todo[1].node
      /\ todo[1].phase = "else" /\ block \in Nat /\ block = todo[1].index
  BY <1>1, First
<1>3. Len(node.kids) \in {2, 3}
  BY <1>2, NodeFacts
<1>4. block + 1 \in BlocksOf(todo[1])
  <2> DEFINE k == Len(node.kids)
  <2>1. BlocksOf(todo[1]) = block..(block + k - 1)
    BY <1>2 DEF BlocksOf
  <2>2. k \in {2, 3}
    BY <1>3
  <2> HIDE DEF k
  <2> QED
    BY <2>1, <2>2, <1>2
<1> QED
  BY <1>1, <1>4, GoOnStays, NothingStays

\* After the body of a while.
LEMMA BodyStays ==
  ASSUME NEW returning, IInv, Local(returning), AfterBody
  PROVE  Stays(returning, <<>>)
<1>1. /\ At("body", {"While"}) /\ GoOnTo(<<block, block + 2>>)
      /\ values' = values /\ scopes' = scopes
  BY DEF AfterBody
<1>2. todo[1].phase = "body" /\ block \in Nat /\ block = todo[1].index
  BY <1>1, First
<1>3. block \in BlocksOf(todo[1]) /\ block + 2 \in BlocksOf(todo[1])
  BY <1>2 DEF BlocksOf
<1> QED
  BY <1>1, <1>3, GoOnStays, NothingStays

-----------------------------------------------------------------------------
(***************************************************************************)
(* Visits that go on below.                                                *)
(***************************************************************************)

\* The action puts some items first and keeps what the others find.
Goes(returning) == \E s \in Seq(Item) : Continue(s) /\ Stays(returning, s)

\* What is not a return or a block is not among those that return.
LEMMA NotReturning ==
  ASSUME NEW returning, ReturnsEndBlocks(returning)
  PROVE  /\ \A n \in returning : n.kind \in {"Return", "Block"} /\ n \in Node
         /\ \A item : item.node.kind \notin {"Return", "Block"} =>
              ~MayReturn(returning, item)
         /\ \A n \in Node : \A i \in DOMAIN n.kids : n.kids[i].kind # "Function"
BY DEF ReturnsEndBlocks, MayReturn

\* A visit needs no blocks, and no end of a scope does.
LEMMA NoBlocks ==
  /\ \A n : BlocksOf(Visit(n)) = {} /\ BlocksOf(Leaving(n)) = {}
  /\ \A n : n.kind # "While" => BlocksOf(Resume(n)) = {}
  /\ \A n, i : BlocksOf(ItemAt("param", n, i)) = {}
  /\ \A n, i : n.kind # "While" => BlocksOf(ResumeAt(n, i)) = {}
BY DEF BlocksOf, Visit, Leaving, Resume, ItemAt, ResumeAt, AnItem

\* Visits and then the rest of the one in progress.
LEMMA VisitsStay ==
  ASSUME NEW returning, NEW nodes \in Seq(Node),
         \A i \in DOMAIN nodes : nodes[i].kind # "Function",
         NEW last \in Item, last.phase # "visit", ~FuncEnd(last), BlocksOf(last) = {},
         \A i \in DOMAIN nodes : nodes[i] \in returning =>
           i = Len(nodes) /\ BlockEnd(last) /\ MayReturn(returning, todo[1]),
         MayReturn(returning, last) => MayReturn(returning, todo[1])
  PROVE  /\ VisitAll(nodes) \o <<last>> \in Seq(Item)
         /\ ItemsStay(VisitAll(nodes) \o <<last>>)
         /\ Settled(returning, todo, VisitAll(nodes) \o <<last>>)
<1> DEFINE l == Len(nodes)
           visits == VisitAll(nodes)
           items == visits \o <<last>>
<1>1. /\ visits \in Seq(Item) /\ Len(visits) = l
      /\ \A i \in 1..l : visits[i] = Visit(nodes[i])
      /\ l \in Nat /\ DOMAIN nodes = 1..l
  BY VisitAllTypes
<1> HIDE DEF visits
<1>2. /\ items \in Seq(Item) /\ Len(items) = l + 1 /\ items[l + 1] = last
      /\ \A i \in 1..l : items[i] = visits[i]
  BY <1>1
<1> HIDE DEF items
<1>3. /\ \A q \in 1..(l + 1) : q \in 1..l \/ q = l + 1
      /\ \A q \in 1..l : items[q] = Visit(nodes[q]) /\ q \in DOMAIN nodes
  BY <1>1, <1>2
<1>4. \A n : Visit(n).phase = "visit" /\ Visit(n).node = n
  BY DEF Visit, AnItem
<1>5. ItemsStay(items)
  <2> SUFFICES ASSUME NEW q \in 1..(l + 1)
               PROVE  /\ ~FuncEnd(items[q])
                      /\ items[q].phase = "visit" => items[q].node.kind # "Function"
                      /\ BlocksOf(items[q]) = {}
    BY <1>2 DEF ItemsStay
  <2>1. CASE q \in 1..l
    BY <2>1, <1>3, <1>4, NoBlocks DEF FuncEnd
  <2>2. CASE q = l + 1
    BY <2>2, <1>2
  <2> QED
    BY <2>1, <2>2, <1>3
<1>6. Settled(returning, todo, items)
  <2> SUFFICES ASSUME NEW q \in 1..(l + 1), MayReturn(returning, items[q])
               PROVE  /\ MayReturn(returning, todo[1])
                      /\ \A r \in (q + 1)..(l + 1) : BlockEnd(items[r])
    BY <1>2 DEF Settled
  <2>1. CASE q \in 1..l
    <3>1. q = l /\ BlockEnd(last) /\ MayReturn(returning, todo[1])
      BY <2>1, <1>3, <1>4 DEF MayReturn
    <3>2. \A r \in (q + 1)..(l + 1) : r = l + 1
      BY <3>1, <1>1
    <3> QED
      BY <3>1, <3>2, <1>2
  <2>2. CASE q = l + 1
    <3>1. \A r \in (q + 1)..(l + 1) : FALSE
      BY <2>2, <1>1
    <3> QED
      BY <2>2, <3>1, <1>2
  <2> QED
    BY <2>1, <2>2, <1>3
<1> QED
  BY <1>2, <1>5, <1>6 DEF items, visits

\* The nodes that only visit what is below them.
LEMMA DescendStays ==
  ASSUME NEW returning, ReturnsEndBlocks(returning), IInv, Local(returning), Descend
  PROVE  Goes(returning)
<1> DEFINE nodes == node.kids
           items == VisitAll(nodes)
<1>1. /\ At("visit", {"Grouping", "Null"}) /\ Continue(items)
      /\ values' = values /\ UNCHANGED environment /\ ir' = ir
  BY DEF Descend
<1>2. node \in Node /\ node.kind \in {"Grouping", "Null"}
  BY <1>1, First
<1>3. nodes \in Seq(Node) /\ \A i \in DOMAIN nodes : nodes[i].kind \in ExprKind
  BY <1>2, NodeFacts, KidsOf
<1> HIDE DEF nodes
<1>4. /\ items \in Seq(Item) /\ Len(items) = Len(nodes) /\ DOMAIN nodes = 1..Len(nodes)
      /\ \A i \in 1..Len(nodes) : items[i] = Visit(nodes[i])
  BY <1>3, VisitAllTypes
<1> HIDE DEF items
<1>5. \A n : Visit(n).phase = "visit" /\ Visit(n).node = n
  BY DEF Visit, AnItem
<1>6. ItemsStay(items)
  BY <1>3, <1>4, <1>5, NoBlocks DEF ItemsStay, FuncEnd, ExprKind
<1>7. Settled(returning, todo, items)
  BY <1>3, <1>4, <1>5, NotReturning DEF Settled, ExprKind
<1>8. Follows(ir, ir', {}) /\ Keeps(ir, ir')
  BY <1>1, LocalFacts
<1>9. ~FuncEnd(todo[1])
  BY <1>1, Ordinary
<1>10. ValuesStay
  BY <1>1, <1>8, <1>9, ValuesKept
<1>11. scopes' = scopes /\ returnStack' = returnStack
  BY <1>1 DEF environment
<1>12. ScopesStay
  BY <1>1, <1>8, <1>11, ScopesKept
<1>13. Stays(returning, items)
  BY <1>1, <1>6, <1>7, <1>8, <1>10, <1>11, <1>12, GoesOnStays
<1> QED
  BY <1>1, <1>4, <1>13 DEF Goes

\* Operands first, and then the rest of the visit.
LEMMA OperandsStay ==
  ASSUME NEW returning, ReturnsEndBlocks(returning), IInv, Local(returning), VisitOperands
  PROVE  Goes(returning)
<1> DEFINE operands == IF node.kind = "If" THEN <<node.kids[1]>> ELSE node.kids
           last == Resume(node)
           items == VisitAll(operands) \o <<last>>
           kinds == {"Assignment", "Unary", "Binary", "Postfix", "VarStmt", "If",
                     "Print", "ExprStmt", "Return"}
<1>1. /\ At("visit", kinds) /\ Continue(items)
      /\ UNCHANGED environment /\ values' = values /\ ir' = ir
  BY DEF VisitOperands
<1>2. /\ node \in Node /\ node.kind \in kinds /\ node = todo[1].node
      /\ todo[1].phase = "visit"
  BY <1>1, First
<1>3. /\ operands \in Seq(Node)
      /\ \A i \in DOMAIN operands : operands[i].kind \in ExprKind
  <2>1. CASE node.kind = "If"
    <3> DEFINE kid == node.kids[1]
    <3>1. kid \in Node /\ kid.kind \in ExprKind
      BY <2>1, <1>2, KidsOf
    <3>2. operands = <<kid>>
      BY <2>1
    <3> HIDE DEF kid, operands
    <3> QED
      BY <3>1, <3>2, <2>1
  <2>2. CASE node.kind # "If"
    <3>1. operands = node.kids
      BY <2>2
    <3>2. node.kids \in Seq(Node)
      BY <1>2, NodeFacts
    <3>3. \A i \in DOMAIN node.kids : node.kids[i].kind \in ExprKind
      BY <2>2, <1>2, KidsOf
    <3> QED
      BY <3>1, <3>2, <3>3
  <2> QED
    BY <2>1, <2>2
<1>4. /\ last \in Item /\ last.phase = "resume" /\ last.node = node
      /\ BlocksOf(last) = {}
  <2>1. node \in Node /\ node.kind # "While"
    BY <1>2
  <2>2. last \in Item /\ last.phase = "resume" /\ last.node = node
    BY <2>1, ItemTypes
  <2>3. BlocksOf(last) = {}
    BY <2>1, NoBlocks
  <2> QED
    BY <2>2, <2>3
<1> HIDE DEF operands, last
<1>5. last.phase # "visit" /\ ~FuncEnd(last)
  BY <1>4 DEF FuncEnd
<1>6. MayReturn(returning, last) => MayReturn(returning, todo[1])
  BY <1>2, <1>4 DEF MayReturn
<1>7. \A i \in DOMAIN operands :
        operands[i].kind # "Function" /\ operands[i] \notin returning
  BY <1>3, NotReturning DEF ExprKind
<1>8. items \in Seq(Item) /\ ItemsStay(items) /\ Settled(returning, todo, items)
  BY <1>3, <1>4, <1>5, <1>6, <1>7, VisitsStay
<1> HIDE DEF items
<1>9. Follows(ir, ir', {}) /\ Keeps(ir, ir')
  BY <1>1, LocalFacts
<1>10. ~FuncEnd(todo[1])
  BY <1>1, Ordinary
<1>11. ValuesStay
  BY <1>1, <1>9, <1>10, ValuesKept
<1>12. scopes' = scopes /\ returnStack' = returnStack
  BY <1>1 DEF environment
<1>13. ScopesStay
  BY <1>1, <1>9, <1>12, ScopesKept
<1>14. Stays(returning, items)
  BY <1>1, <1>8, <1>9, <1>11, <1>12, <1>13, GoesOnStays
<1> QED
  BY <1>1, <1>8, <1>14 DEF Goes

\* Of the statements of a block only the last one may leave a value.
LEMMA BlockStays ==
  ASSUME NEW returning, ReturnsEndBlocks(returning), IInv, Local(returning), VisitBlock
  PROVE  Goes(returning)
<1> DEFINE loop == ResumeAt(node, 0)
           last == Leaving(node)
           items == (IF node.kind = "Scope" THEN <<loop>> ELSE VisitAll(node.kids))
                    \o <<last>>
           kinds == {"Scope", "Block"}
<1>1. /\ At("visit", kinds) /\ Continue(items) /\ scopes' = Env!Enter(scopes, FALSE)
      /\ values' = values /\ returnStack' = returnStack /\ ir' = ir
  BY DEF VisitBlock
<1>2. /\ node \in Node /\ node.kind \in kinds /\ node = todo[1].node
      /\ todo[1].phase = "visit"
  BY <1>1, First
<1>3. /\ last \in Item /\ last.phase = "leave" /\ last.node = node
      /\ BlocksOf(last) = {}
  BY <1>2, ItemTypes, NoBlocks
<1> HIDE DEF last
<1>4. last.phase # "visit" /\ ~FuncEnd(last) /\ ~MayReturn(returning, last)
  BY <1>2, <1>3 DEF FuncEnd, MayReturn
<1>5. items \in Seq(Item) /\ ItemsStay(items) /\ Settled(returning, todo, items)
  <2>1. CASE node.kind = "Scope"
    <3>1. /\ loop \in Item /\ loop.phase = "resume" /\ loop.node = node
          /\ BlocksOf(loop) = {}
      BY <2>1, <1>2, LoopTypes, NoBlocks
    <3>2. ~FuncEnd(loop) /\ ~MayReturn(returning, loop)
      BY <2>1, <3>1, NotReturning DEF FuncEnd
    <3>3. items = <<loop>> \o <<last>>
      BY <2>1
    <3> HIDE DEF loop, items
    <3>4. /\ items \in Seq(Item) /\ Len(items) = 2
          /\ items[1] = loop /\ items[2] = last
      BY <1>3, <3>1, <3>3
    <3>5. \A q \in 1..Len(items) : items[q] = loop \/ items[q] = last
      BY <3>4
    <3>6. ItemsStay(items)
      BY <3>1, <3>2, <3>5, <1>3, <1>4 DEF ItemsStay
    <3>7. Settled(returning, todo, items)
      BY <3>2, <3>5, <1>4 DEF Settled
    <3> QED
      BY <3>4, <3>6, <3>7
  <2>2. CASE node.kind = "Block"
    <3> DEFINE nodes == node.kids
    <3>1. nodes \in Seq(Node)
      BY <1>2, NodeFacts
    <3>2. BlockEnd(last)
      BY <2>2, <1>3 DEF BlockEnd
    <3>3. \A i \in DOMAIN nodes :
            /\ nodes[i].kind # "Function"
            /\ nodes[i] \in returning => i = Len(nodes) /\ node \in returning
      BY <2>2, <1>2 DEF ReturnsEndBlocks
    <3>4. \A i \in DOMAIN nodes : nodes[i] \in returning =>
            i = Len(nodes) /\ BlockEnd(last) /\ MayReturn(returning, todo[1])
      BY <3>2, <3>3, <1>2 DEF MayReturn
    <3>5. items = VisitAll(nodes) \o <<last>>
      BY <2>2
    <3> HIDE DEF nodes, items
    <3> QED
      BY <3>1, <3>3, <3>4, <3>5, <1>3, <1>4, VisitsStay
  <2> QED
    BY <2>1, <2>2, <1>2
<1> HIDE DEF items
<1>6. Follows(ir, ir', {}) /\ Keeps(ir, ir')
  BY <1>1, LocalFacts
<1>7. ~FuncEnd(todo[1])
  BY <1>1, Ordinary
<1>8. ValuesStay
  BY <1>1, <1>6, <1>7, ValuesKept
<1>9. ScopesStay
  BY <1>1, <1>6, ScopesKept
<1>10. Stays(returning, items)
  BY <1>1, <1>5, <1>6, <1>8, <1>9, GoesOnStays
<1> QED
  BY <1>1, <1>5, <1>10 DEF Goes

\* A call: the function, then its arguments.
LEMMA CallStays ==
  ASSUME NEW returning, ReturnsEndBlocks(returning), IInv, Local(returning),
         VisitCallExpr, ~Stopped
  PROVE  Goes(returning)
<1> DEFINE nodes == node.kids
           last == Resume(node)
           items == VisitAll(nodes) \o <<last>>
           callee == Callee
<1>1. /\ At("visit", {"Call"}) /\ Push(callee)
      /\ Continue(items) /\ UNCHANGED environment /\ ir' = ir
  BY DEF VisitCallExpr, Stopped, RuntimeErrors
<1>2. /\ node \in Node /\ node.kind = "Call" /\ node = todo[1].node
      /\ todo[1].phase = "visit"
      /\ functions \in [Name -> ({"func"} \X Nat) \cup {Absent}]
  BY <1>1, First
<1>3. /\ nodes \in Seq(Node) /\ node.name \in Name
      /\ \A i \in DOMAIN nodes : nodes[i].kind \in ExprKind
  <2>1. node.kids \in Seq(Node) /\ node.name \in Name
    BY <1>2, NodeFacts
  <2>2. \A i \in DOMAIN node.kids : node.kids[i].kind \in ExprKind
    BY <1>2, KidsOf
  <2> QED
    BY <2>1, <2>2
<1>4. UsableIn(ir, Parent(ir), callee)
  <2>1. CASE Known
    <3>1. callee = functions[node.name] /\ functions[node.name] # Absent
      BY <2>1 DEF Callee, Known
    <3>2. callee \in {"func"} \X Nat
      BY <3>1, <1>2, <1>3
    <3> QED
      BY <3>2 DEF UsableIn
  <2>2. CASE ~Known
    <3>1. callee = getAllocVar(node.name) \/ callee = NullPtr
      BY <2>2 DEF Callee, Variable
    <3>2. UsableIn(ir, Parent(ir), getAllocVar(node.name))
      BY <1>1, <1>3, VariableOwn
    <3>3. UsableIn(ir, Parent(ir), NullPtr)
      BY ConstantsUsable
    <3> QED
      BY <3>1, <3>2, <3>3
  <2> QED
    BY <2>1, <2>2
<1> HIDE DEF callee
<1>5. /\ last \in Item /\ last.phase = "resume" /\ last.node = node
      /\ BlocksOf(last) = {}
  BY <1>2, ItemTypes, NoBlocks
<1> HIDE DEF nodes, last
<1>6. last.phase # "visit" /\ ~FuncEnd(last) /\ ~MayReturn(returning, last)
  BY <1>2, <1>5, NotReturning DEF FuncEnd
<1>7. \A i \in DOMAIN nodes : nodes[i].kind # "Function" /\ nodes[i] \notin returning
  BY <1>3, NotReturning DEF ExprKind
<1>8. items \in Seq(Item) /\ ItemsStay(items) /\ Settled(returning, todo, items)
  BY <1>3, <1>5, <1>6, <1>7, VisitsStay
<1> HIDE DEF items
<1>9. Follows(ir, ir', {}) /\ Keeps(ir, ir') /\ UsableIn(ir', Parent(ir), callee)
  BY <1>1, <1>4, LocalFacts
<1>10. ~FuncEnd(todo[1])
  BY <1>1, Ordinary
<1>11. ValuesStay
  BY <1>1, <1>9, <1>10, ValuesKept
<1>12. scopes' = scopes /\ returnStack' = returnStack
  BY <1>1 DEF environment
<1>13. ScopesStay
  BY <1>1, <1>9, <1>12, ScopesKept
<1>14. Stays(returning, items)
  BY <1>1, <1>8, <1>9, <1>11, <1>12, <1>13, GoesOnStays
<1> QED
  BY <1>1, <1>8, <1>14 DEF Goes

\* A parameter is stored by its own function.
LEMMA ParameterStays ==
  ASSUME NEW returning, IInv, Local(returning), DefineParameter
  PROVE  Goes(returning)
<1> DEFINE i == todo[1].index
           m == allocVar(ir)
           slot == Slot(m.count)
           argument == Argument(Parent(ir), i)
           args == <<argument, slot>>
           next == ItemAt("param", node, i + 1)
           items == <<next>>
<1>1. /\ At("param", {"Func"}) /\ values' = values /\ returnStack' = returnStack
      /\ \/ Continue(<<>>) /\ scopes' = scopes /\ ir' = ir
         \/ /\ ~(i > Len(node.params))
            /\ ir' = Emit(m, "store", args)
            /\ scopes' = Env!Bind(scopes, Len(scopes), node.params[i], slot)
            /\ Continue(items)
  BY DEF DefineParameter
<1>2. /\ node \in Node /\ node.kind = "Func" /\ node = todo[1].node
      /\ todo[1].phase = "param" /\ WellMade(ir)
      /\ block \in Nat /\ block = i /\ Fit(todo[1], Len(ir.blocks))
  BY <1>1, First
<1>3. i \in Nat /\ i >= 1
  BY <1>2 DEF Fit
<1>4. ~FuncEnd(todo[1]) /\ Follows(ir, ir, {}) /\ Keeps(ir, ir)
  BY <1>1, Ordinary, LocalFacts
<1>5. CASE Continue(<<>>) /\ scopes' = scopes /\ ir' = ir
  <2>1. ValuesStay
    BY <1>1, <1>4, <1>5, ValuesKept
  <2>2. ScopesStay
    BY <1>1, <1>4, <1>5, ScopesKept
  <2>3. Stays(returning, <<>>)
    BY <2>1, <2>2, <1>1, <1>4, <1>5, PlainStays
  <2>4. <<>> \in Seq(Item)
    OBVIOUS
  <2> QED
    BY <2>3, <2>4, <1>5 DEF Goes
<1>6. CASE /\ ~(i > Len(node.params))
           /\ ir' = Emit(m, "store", args)
           /\ scopes' = Env!Bind(scopes, Len(scopes), node.params[i], slot)
           /\ Continue(items)
  <2>1. node.params[i] \in Name
    <3>1. node.params \in Seq(Name)
      BY <1>2, NodeFacts
    <3> QED
      BY <3>1, <1>3, <1>6
  <2>2. /\ Follows(ir, m, {}) /\ UsableIn(m, Parent(ir), slot)
    <3>1. Follows(ir, m, {})
      BY <1>4, AllocFollows
    <3>2. UsableIn(m, Parent(ir), slot)
      BY <1>4, AllocFollows
    <3> QED
      BY <3>1, <3>2
  <2>3. slot \in Binding
    BY <1>2, Allocated
  <2>4. argument \in Arguments /\ UsableIn(m, Parent(ir), argument)
    <3>1. Parent(ir) \in Nat
      BY <1>2, ParentType
    <3> QED
      BY <3>1, <1>3, ValueTypes, ConstantsUsable
  <2> HIDE DEF m, slot, argument
  <2>5. args \in Seq(Arguments) /\ "store" \in Opcodes
    BY <2>3, <2>4, ValueTypes, ArgumentLists DEF Opcodes
  <2>6. \A k \in DOMAIN args : UsableIn(m, Parent(ir), args[k])
    BY <2>2, <2>4, ListsUsable
  <2> HIDE DEF args
  <2>7. Follows(ir, ir', {}) /\ Keeps(m, ir')
    BY <2>2, <2>5, <2>6, <1>6, EmitOwn
  <2>8. UsableIn(ir', Parent(ir), slot) /\ Keeps(ir, ir')
    BY <2>2, <2>7, KeptUsable DEF Follows
  <2>9. ScopesStay
    BY <2>1, <2>3, <2>8, <1>1, <1>6, ScopesKept
  <2>10. ValuesStay
    BY <2>8, <1>1, <1>4, ValuesKept
  <2>11. next \in Item /\ next.phase = "param" /\ BlocksOf(next) = {}
    <3>1. i + 1 \in Nat
      BY <1>3
    <3> QED
      BY <3>1, <1>2, ItemAtTypes, NoBlocks
  <2> HIDE DEF next
  <2>12. ~FuncEnd(next) /\ ~MayReturn(returning, next)
    BY <2>11 DEF FuncEnd, MayReturn
  <2>13. items \in Seq(Item) /\ Len(items) = 1 /\ \A q \in 1..Len(items) : items[q] = next
    BY <2>11
  <2> HIDE DEF items
  <2>14. ItemsStay(items) /\ Settled(returning, todo, items)
    BY <2>11, <2>12, <2>13 DEF ItemsStay, Settled
  <2>15. Stays(returning, items)
    BY <2>7, <2>9, <2>10, <2>14, <1>1, GoesOnStays
  <2> QED
    BY <2>13, <2>15, <1>6 DEF Goes
<1> QED
  BY <1>1, <1>5, <1>6

\* One visit and the rest.
LEMMA PairStays ==
  ASSUME NEW returning, NEW k \in Node, k.kind # "Function",
         NEW last \in Item, last.phase # "visit", ~FuncEnd(last),
         \A b \in BlocksOf(last) : UsableIn(ir', Parent(ir), BlockAt(b)),
         ~MayReturn(returning, last), Pops(last) \/ k \notin returning
  PROVE  /\ <<Visit(k), last>> \in Seq(Item)
         /\ ItemsStay(<<Visit(k), last>>)
         /\ Settled(returning, todo, <<Visit(k), last>>)
<1> DEFINE first == Visit(k)
           items == <<first, last>>
<1>1. /\ first \in Item /\ first.phase = "visit" /\ first.node = k /\ BlocksOf(first) = {}
  <2>1. first.phase = "visit" /\ first.node = k
    BY DEF Visit, AnItem
  <2>2. first \in Item
    BY ItemTypes
  <2> QED
    BY <2>1, <2>2, NoBlocks
<1> HIDE DEF first
<1>2. /\ items \in Seq(Item) /\ Len(items) = 2 /\ items[1] = first /\ items[2] = last
      /\ \A q \in 1..Len(items) : q = 1 \/ q = 2
  BY <1>1
<1> HIDE DEF items
<1>3. ItemsStay(items)
  BY <1>1, <1>2 DEF ItemsStay, FuncEnd
<1>4. Settled(returning, todo, items)
  BY <1>1, <1>2 DEF Settled, MayReturn
<1> QED
  BY <1>2, <1>3, <1>4 DEF items, first

\* The next statement of a scope.
LEMMA StatementStays ==
  ASSUME NEW returning, ReturnsEndBlocks(returning), IInv, Local(returning), ScopeContinues
  PROVE  Goes(returning)
<1> DEFINE i == todo[1].index + 1
           kid == node.kids[i]
           last == ResumeAt(node, i)
           items == <<Visit(kid), last>>
<1>1. /\ At("resume", {"Scope"}) /\ ~Returned /\ ~Exhausted
      /\ Continue(items) /\ values' = values /\ UNCHANGED environment /\ ir' = ir
  BY DEF ScopeContinues
<1>2. /\ node \in Node /\ node.kind = "Scope" /\ node = todo[1].node
      /\ todo[1].phase = "resume" /\ block \in Nat /\ block = todo[1].index
      /\ Fit(todo[1], Len(ir.blocks))
  BY <1>1, First
<1>3. i \in DOMAIN node.kids /\ i \in Nat /\ i > 0
  <2>1. Len(node.kids) \in Nat /\ DOMAIN node.kids = 1..Len(node.kids)
    BY <1>2, NodeFacts
  <2>2. todo[1].index <= Len(node.kids) /\ todo[1].index # Len(node.kids)
    BY <1>1, <1>2 DEF Fit, Exhausted
  <2> QED
    BY <2>1, <2>2, <1>2
<1>4. kid \in Node /\ kid.kind # "Function"
  BY <1>2, <1>3, NodeFacts, NotReturning
<1>5. /\ last \in Item /\ last.phase = "resume" /\ last.node = node /\ last.index = i
      /\ BlocksOf(last) = {}
  BY <1>2, <1>3, LoopTypes, NoBlocks
<1> HIDE DEF last, kid
<1>6. ~FuncEnd(last) /\ ~MayReturn(returning, last) /\ Pops(last)
  BY <1>2, <1>3, <1>5, NotReturning DEF FuncEnd, Pops
<1>7. items \in Seq(Item) /\ ItemsStay(items) /\ Settled(returning, todo, items)
  BY <1>4, <1>5, <1>6, PairStays
<1> HIDE DEF items
<1>8. Follows(ir, ir', {}) /\ Keeps(ir, ir')
  BY <1>1, LocalFacts
<1>9. ~FuncEnd(todo[1]) /\ ~BlockEnd(todo[1])
  BY <1>1, Ordinary
<1>10. ValuesStay
  BY <1>1, <1>8, <1>9, ValuesKept
<1>11. scopes' = scopes /\ returnStack' = returnStack
  BY <1>1 DEF environment
<1>12. ScopesStay
  BY <1>1, <1>8, <1>11, ScopesKept
<1>13. returnStack = <<>>
  <2>1. returnStack # <<>> => Pops(todo[1])
    BY <1>1, <1>9, LocalFacts
  <2> QED
    BY <2>1, <1>1, <1>2 DEF Pops, Returned
<1>14. Stays(returning, items)
  BY <1>7, <1>8, <1>9, <1>10, <1>11, <1>12, <1>13, EmptyStays
<1> QED
  BY <1>1, <1>7, <1>14 DEF Goes

\* The comparison and the branch, to blocks that may not be there yet.
LEMMA BranchFollows ==
  ASSUME NEW coming, Follows(ir, ir, coming), NEW v \in Value, UsableIn(ir, Parent(ir), v),
         NEW then \in Nat, NEW else \in Nat,
         BlockAt(then) \in coming \/ UsableIn(ir, Parent(ir), BlockAt(then)),
         BlockAt(else) \in coming \/ UsableIn(ir, Parent(ir), BlockAt(else))
  PROVE  Follows(ir, Branch(TestOf(v), then, else), coming)
<1> DEFINE test == TestOf(v)
           m == test.ir
           val == test.val
           to == BlockAt(then)
           or == BlockAt(else)
           args == <<val, to, or>>
           f == Parent(ir)
<1>1. Follows(ir, m, coming) /\ Keeps(ir, m) /\ val \in Value /\ UsableIn(m, f, val)
  <2>1. CASE v[1] = "bool"
    <3>1. test = [ir |-> ir, val |-> v]
      BY <2>1 DEF TestOf
    <3> QED
      BY <3>1 DEF Follows
  <2>2. CASE v[1] # "bool"
    <3> DEFINE compared == <<v, BoolObj(FALSE)>>
               n == Emit(ir, "!=", compared)
               w == Latest(n, "i1")
    <3>1. test = [ir |-> n, val |-> w]
      BY <2>2 DEF TestOf
    <3>2. compared \in Seq(Arguments) /\ "!=" \in Opcodes
      BY ValueTypes, ArgumentLists DEF Opcodes, Comparisons
    <3>3. \A i \in DOMAIN compared : UsableIn(ir, f, compared[i])
      <4>1. UsableIn(ir, f, BoolObj(FALSE))
        BY ConstantsUsable
      <4> QED
        BY <4>1, ListsUsable
    <3> HIDE DEF compared
    <3>4. \A i \in DOMAIN compared : UsableIn(ir, f, compared[i]) \/ compared[i] \in coming
      BY <3>3
    <3>5. Follows(ir, n, coming)
      BY <3>2, <3>4, EmitFollows
    <3>6. Keeps(ir, n)
      BY <3>2, <3>4, EmitFollows
    <3>7. \A type : UsableIn(n, f, Latest(n, type))
      BY <3>2, <3>4, EmitFollows
    <3> HIDE DEF n
    <3>8. w \in Value
      BY <3>5, LatestType DEF Follows
    <3> QED
      BY <3>1, <3>5, <3>6, <3>7, <3>8
  <2> QED
    BY <2>1, <2>2
<1>2. Branch(test, then, else) = Emit(m, "condbr", args)
  BY DEF Branch
<1> HIDE DEF test
<1> HIDE DEF m, val
<1>3. args \in Seq(Arguments) /\ "condbr" \in Opcodes
  BY <1>1, ValueTypes, ArgumentLists DEF Opcodes, Terminators
<1>4. /\ to \in coming \/ UsableIn(m, f, to)
      /\ or \in coming \/ UsableIn(m, f, or)
  BY <1>1, KeptUsable
<1> HIDE DEF to, or
<1>5. ASSUME NEW i \in DOMAIN args
      PROVE  UsableIn(m, f, args[i]) \/ args[i] \in coming
  <2>1. DOMAIN args = {1, 2, 3} /\ args[1] = val /\ args[2] = to /\ args[3] = or
    OBVIOUS
  <2> QED
    BY <2>1, <1>1, <1>4
<1> HIDE DEF args
<1>6. Follows(ir, Emit(m, "condbr", args), coming)
  BY <1>1, <1>3, <1>5, EmitFollows
<1> QED
  BY <1>2, <1>6 DEF test

\* Two or three more blocks of the function.
LEMMA BlocksFollow ==
  ASSUME NEW m, NEW coming, Follows(ir, m, coming)
  PROVE  LET one == NewBlock(m, Parent(ir))
             two == NewBlock(one, Parent(ir))
             three == NewBlock(two, Parent(ir))
         IN  /\ Len(m.blocks) \in Nat
             /\ Follows(ir, two, coming) /\ Follows(ir, three, coming)
             /\ \A b \in (Len(m.blocks) + 1)..(Len(m.blocks) + 2) :
                  b \in DOMAIN two.blocks /\ two.blocks[b].func = Parent(ir)
             /\ \A b \in (Len(m.blocks) + 1)..(Len(m.blocks) + 3) :
                  b \in DOMAIN three.blocks /\ three.blocks[b].func = Parent(ir)
<1> DEFINE f == Parent(ir)
           size == Len(m.blocks)
           one == NewBlock(m, f)
           two == NewBlock(one, f)
           three == NewBlock(two, f)
<1>1. /\ Follows(ir, one, coming) /\ Keeps(m, one) /\ size \in Nat
      /\ Len(one.blocks) = size + 1
      /\ size + 1 \in DOMAIN one.blocks /\ one.blocks[size + 1].func = f
  <2>1. Follows(ir, one, coming)
    BY BlockFollows
  <2>2. Keeps(m, one)
    BY BlockFollows
  <2>3. size \in Nat
    BY BlockFollows
  <2>4. Len(one.blocks) = size + 1
    BY BlockFollows
  <2>5. size + 1 \in DOMAIN one.blocks
    BY BlockFollows
  <2>6. one.blocks[size + 1].func = f
    BY BlockFollows
  <2> QED
    BY <2>1, <2>2, <2>3, <2>4, <2>5, <2>6
<1> HIDE DEF one
<1>2. /\ Follows(ir, two, coming) /\ Keeps(one, two)
      /\ Len(two.blocks) = size + 1 + 1
      /\ size + 1 + 1 \in DOMAIN two.blocks /\ two.blocks[size + 1 + 1].func = f
  <2>1. Follows(ir, two, coming)
    BY <1>1, BlockFollows
  <2>2. Keeps(one, two)
    BY <1>1, BlockFollows
  <2>3. Len(two.blocks) = Len(one.blocks) + 1
    BY <1>1, BlockFollows
  <2>4. Len(one.blocks) + 1 \in DOMAIN two.blocks
    BY <1>1, BlockFollows
  <2>5. two.blocks[Len(one.blocks) + 1].func = f
    BY <1>1, BlockFollows
  <2> QED
    BY <2>1, <2>2, <2>3, <2>4, <2>5, <1>1
<1> HIDE DEF two
<1>3. /\ Follows(ir, three, coming) /\ Keeps(two, three)
      /\ size + 1 + 1 + 1 \in DOMAIN three.blocks /\ three.blocks[size + 1 + 1 + 1].func = f
  <2>1. Follows(ir, three, coming)
    BY <1>2, BlockFollows
  <2>2. Keeps(two, three)
    BY <1>2, BlockFollows
  <2>3. Len(two.blocks) + 1 \in DOMAIN three.blocks
    BY <1>2, BlockFollows
  <2>4. three.blocks[Len(two.blocks) + 1].func = f
    BY <1>2, BlockFollows
  <2> QED
    BY <2>1, <2>2, <2>3, <2>4, <1>2
<1> HIDE DEF three
<1>4. \A b \in (size + 1)..(size + 2) :
        b \in DOMAIN two.blocks /\ two.blocks[b].func = f
  <2>1. size + 1 \in DOMAIN two.blocks /\ two.blocks[size + 1].func = f
    BY <1>1, <1>2 DEF Keeps
  <2>2. \A b \in (size + 1)..(size + 2) : b = size + 1 \/ b = size + 1 + 1
    <3> HIDE DEF size
    <3> QED
      BY <1>1
  <2> QED
    BY <2>1, <2>2, <1>2
<1>5. \A b \in (size + 1)..(size + 3) :
        b \in DOMAIN three.blocks /\ three.blocks[b].func = f
  <2>1. \A b \in (size + 1)..(size + 2) :
          b \in DOMAIN three.blocks /\ three.blocks[b].func = f
    BY <1>3, <1>4 DEF Keeps
  <2>2. \A b \in (size + 1)..(size + 3) :
          b \in (size + 1)..(size + 2) \/ b = size + 1 + 1 + 1
    <3> HIDE DEF size
    <3> QED
      BY <1>1
  <2> QED
    BY <2>1, <2>2, <1>3
<1> QED
  BY <1>1, <1>2, <1>3, <1>4, <1>5 DEF one, two, three

\* An if: the blocks for its branches.
LEMMA IfStays ==
  ASSUME NEW returning, ReturnsEndBlocks(returning), IInv, Local(returning), ResumeIfStmt
  PROVE  Goes(returning)
<1> DEFINE size == Len(ir.blocks)
           then == size + 1
           k == Len(node.kids)
           f == Parent(ir)
           v == Result
           else == IF k = 3 THEN then + 2 ELSE then + 1
           coming == {BlockAt(then), BlockAt(else)}
           branched == Branch(TestOf(v), then, else)
           one == NewBlock(branched, f)
           two == NewBlock(one, f)
           three == NewBlock(two, f)
           all == IF k = 3 THEN three ELSE two
           kid == node.kids[2]
           last == ItemAt("then", node, then)
           items == <<Visit(kid), last>>
<1>1. /\ At("resume", {"If"}) /\ ir' = SetInsertPoint(all, then)
      /\ Continue(items) /\ Pop /\ UNCHANGED environment
  BY DEF ResumeIfStmt
<1>2. /\ node \in Node /\ node.kind = "If" /\ node = todo[1].node
      /\ todo[1].phase = "resume" /\ WellMade(ir)
  BY <1>1, First
<1>3. Need(todo[1]) = 1
  BY <1>2 DEF Need
<1>4. v \in Value /\ UsableIn(ir, f, v)
  BY <1>1, <1>3, OperandsOwn
<1> HIDE DEF v
<1>5. k \in {2, 3} /\ kid \in Node /\ kid.kind # "Function"
  <2>1. k \in {2, 3} /\ 2 \in DOMAIN node.kids /\ kid \in Node
    BY <1>2, NodeFacts, KidsOf
  <2> QED
    BY <2>1, <1>2, NotReturning
<1>6. size \in Nat /\ then \in Nat /\ else \in Nat
  <2>1. size \in Nat
    BY <1>2, ModuleParts DEF WellMade
  <2> HIDE DEF size
  <2> QED
    BY <2>1
<1>7. Follows(ir, ir, coming)
  BY <1>2, FollowsSelf DEF Local
<1>8. Follows(ir, branched, coming) /\ Len(branched.blocks) = size
  <2>1. BlockAt(then) \in coming /\ BlockAt(else) \in coming
    OBVIOUS
  <2> HIDE DEF then, else, coming
  <2>2. Follows(ir, branched, coming)
    BY <2>1, <1>4, <1>6, <1>7, BranchFollows
  <2>3. Len(branched.blocks) = size
    BY <1>2, <1>4, <1>6, Branched
  <2> QED
    BY <2>2, <2>3
<1> HIDE DEF branched
<1>9. /\ Follows(ir, all, coming)
      /\ \A b \in (size + 1)..(size + k) : b \in DOMAIN all.blocks /\ all.blocks[b].func = f
  <2> HIDE DEF coming
  <2>1. Follows(ir, two, coming) /\ Follows(ir, three, coming)
    BY <1>8, BlocksFollow
  <2>2. \A b \in (size + 1)..(size + 2) : b \in DOMAIN two.blocks /\ two.blocks[b].func = f
    BY <1>8, BlocksFollow
  <2>3. \A b \in (size + 1)..(size + 3) : b \in DOMAIN three.blocks /\ three.blocks[b].func = f
    BY <1>8, BlocksFollow
  <2> HIDE DEF two, three
  <2>4. CASE k = 3
    BY <2>1, <2>3, <2>4
  <2>5. CASE k = 2
    BY <2>1, <2>2, <2>5
  <2> QED
    BY <2>4, <2>5, <1>5
<1> HIDE DEF all
<1>10. /\ then \in (size + 1)..(size + k) /\ else \in (size + 1)..(size + k)
       /\ (size + 1)..(size + k) = then..(then + k - 1)
  <2> HIDE DEF size, k
  <2> QED
    BY <1>5, <1>6
<1>11. then \in DOMAIN all.blocks /\ all.blocks[then].func = f
  BY <1>9, <1>10
<1>12. Follows(ir, ir', coming) /\ Keeps(all, ir') /\ Parent(ir') = f
  <2> HIDE DEF then, coming
  <2>1. Follows(ir, ir', coming)
    BY <1>1, <1>9, <1>11, MoveFollows
  <2>2. Keeps(all, ir')
    BY <1>1, <1>9, <1>11, MoveFollows
  <2> QED
    BY <2>1, <2>2 DEF Follows
<1>13. \A b \in (size + 1)..(size + k) : UsableIn(ir', f, BlockAt(b))
  BY <1>9, <1>12 DEF Keeps, UsableIn, BlockAt
<1>14. Follows(ir, ir', {})
  <2>1. \A w \in coming : UsableIn(ir', Parent(ir'), w)
    BY <1>10, <1>12, <1>13
  <2> HIDE DEF coming
  <2> QED
    BY <2>1, <1>12, NoneComing
<1>15. Keeps(ir, ir')
  BY <1>14 DEF Follows
<1>16. /\ last \in Item /\ last.phase = "then" /\ last.node = node /\ last.index = then
  <2> HIDE DEF then
  <2> QED
    BY <1>2, <1>6, ItemAtTypes
<1> HIDE DEF last, kid
<1>17. \A b \in BlocksOf(last) : UsableIn(ir', Parent(ir), BlockAt(b))
  <2>1. BlocksOf(last) = then..(then + k - 1)
    BY <1>16 DEF BlocksOf
  <2> QED
    BY <2>1, <1>10, <1>13
<1>18. ~FuncEnd(last) /\ ~MayReturn(returning, last) /\ Pops(last)
  BY <1>16 DEF FuncEnd, MayReturn, Pops
<1>19. last.phase # "visit"
  BY <1>16
<1>20. items \in Seq(Item) /\ ItemsStay(items) /\ Settled(returning, todo, items)
  BY <1>5, <1>16, <1>17, <1>18, <1>19, PairStays
<1> HIDE DEF items
<1>21. ~FuncEnd(todo[1])
  BY <1>1, Ordinary
<1>22. ValuesStay
  BY <1>1, <1>3, <1>15, <1>21, ValuesKept
<1>23. scopes' = scopes /\ returnStack' = returnStack
  BY <1>1 DEF environment
<1>24. ScopesStay
  BY <1>1, <1>15, <1>23, ScopesKept
<1>25. Stays(returning, items)
  BY <1>1, <1>14, <1>20, <1>22, <1>23, <1>24, GoesOnStays
<1> QED
  BY <1>1, <1>20, <1>25 DEF Goes

\* After the first branch of an if.
LEMMA ThenStays ==
  ASSUME NEW returning, ReturnsEndBlocks(returning), IInv, Local(returning), AfterThen
  PROVE  Goes(returning)
<1> DEFINE k == Len(node.kids)
           kid == node.kids[3]
           last == ItemAt("else", node, block)
           items == <<Visit(kid), last>>
           next == block + 1
           after == block + 2
<1>1. /\ At("then", {"If"}) /\ values' = values /\ scopes' = scopes
      /\ \/ /\ k = 3 /\ GoOnTo(<<next, after>>)
            /\ Continue(items)
         \/ GoOnTo(<<next, next>>) /\ Continue(<<>>)
  BY DEF AfterThen
<1>2. /\ node \in Node /\ node.kind = "If" /\ node = todo[1].node
      /\ todo[1].phase = "then" /\ block \in Nat /\ block = todo[1].index
  BY <1>1, First
<1>3. k \in {2, 3}
  BY <1>2, NodeFacts
<1>4. BlocksOf(todo[1]) = block..(block + k - 1)
  BY <1>2 DEF BlocksOf
<1> HIDE DEF k
<1>5. next \in BlocksOf(todo[1]) /\ (k = 3 => after \in BlocksOf(todo[1]))
  BY <1>2, <1>3, <1>4
<1> HIDE DEF next, after
<1>6. CASE k = 3 /\ GoOnTo(<<next, after>>) /\ Continue(items)
  <2>1. /\ Keeps(ir, ir')
        /\ \A s : ItemsStay(s) /\ Settled(returning, todo, s) => Stays(returning, s)
    BY <1>1, <1>5, <1>6, GoOnStays
  <2>2. kid \in Node /\ kid.kind # "Function"
    <3>1. node.kids \in Seq(Node) /\ 3 \in DOMAIN node.kids
      BY <1>2, <1>6, NodeFacts DEF k
    <3> QED
      BY <3>1, <1>2, NotReturning
  <2>3. /\ last \in Item /\ last.phase = "else" /\ last.node = node /\ last.index = block
    BY <1>2, ItemAtTypes
  <2> HIDE DEF kid, last
  <2>4. last.phase # "visit" /\ ~FuncEnd(last) /\ ~MayReturn(returning, last) /\ Pops(last)
    BY <2>3 DEF FuncEnd, MayReturn, Pops
  <2>5. \A b \in BlocksOf(last) : UsableIn(ir', Parent(ir), BlockAt(b))
    <3>1. BlocksOf(last) = BlocksOf(todo[1])
      BY <2>3, <1>2, <1>4 DEF BlocksOf, k
    <3>2. \A b \in BlocksOf(todo[1]) : UsableIn(ir, Parent(ir), BlockAt(b))
      BY <1>1, LocalFacts
    <3> QED
      BY <3>1, <3>2, <2>1, KeptUsable
  <2>6. items \in Seq(Item) /\ ItemsStay(items) /\ Settled(returning, todo, items)
    BY <2>2, <2>3, <2>4, <2>5, PairStays
  <2> HIDE DEF items
  <2> QED
    BY <2>1, <2>6, <1>6 DEF Goes
<1>7. CASE GoOnTo(<<next, next>>) /\ Continue(<<>>)
  <2>1. Stays(returning, <<>>)
    BY <1>1, <1>5, <1>7, GoOnStays, NothingStays
  <2>2. <<>> \in Seq(Item)
    OBVIOUS
  <2> QED
    BY <2>1, <2>2, <1>7 DEF Goes
<1> QED
  BY <1>1, <1>6, <1>7

\* A while: its three blocks, and the condition.
LEMMA WhileStays ==
  ASSUME NEW returning, ReturnsEndBlocks(returning), IInv, Local(returning), VisitWhileStmt
  PROVE  Goes(returning)
<1> DEFINE size == Len(ir.blocks)
           b == size + 1
           f == Parent(ir)
           to == BlockAt(b)
           args == <<to>>
           coming == {to}
           m == Emit(ir, "br", args)
           one == NewBlock(m, f)
           two == NewBlock(one, f)
           three == NewBlock(two, f)
           kid == node.kids[1]
           last == ItemAt("resume", node, b)
           items == <<Visit(kid), last>>
<1>1. /\ At("visit", {"While"}) /\ ir' = SetInsertPoint(three, b)
      /\ Continue(items) /\ values' = values /\ UNCHANGED environment
  BY DEF VisitWhileStmt
<1>2. /\ node \in Node /\ node.kind = "While" /\ node = todo[1].node
      /\ todo[1].phase = "visit" /\ WellMade(ir)
  BY <1>1, First DEF Local
<1>3. kid \in Node /\ kid.kind \in ExprKind
  BY <1>2, KidsOf
<1>4. size \in Nat /\ b \in Nat
  <2>1. size \in Nat
    BY <1>2, ModuleParts DEF WellMade
  <2> HIDE DEF size
  <2> QED
    BY <2>1
<1>5. args \in Seq(Arguments) /\ "br" \in Opcodes
  <2> HIDE DEF b
  <2> QED
    BY <1>4, ArgumentLists, ValueTypes DEF Opcodes, Terminators
<1>6. \A i \in DOMAIN args : UsableIn(ir, f, args[i]) \/ args[i] \in coming
  <2> HIDE DEF to
  <2> QED
    OBVIOUS
<1>7. Follows(ir, ir, coming)
  BY <1>2, FollowsSelf DEF Local
<1> HIDE DEF args
<1>8. Follows(ir, m, coming) /\ Len(m.blocks) = size
  <2> HIDE DEF coming
  <2>1. Follows(ir, m, coming)
    BY <1>5, <1>6, <1>7, EmitFollows
  <2>2. Len(m.blocks) = size
    BY <1>2, <1>5, Emitted
  <2> QED
    BY <2>1, <2>2
<1> HIDE DEF m
<1>9. /\ Follows(ir, three, coming)
      /\ \A c \in (size + 1)..(size + 3) : c \in DOMAIN three.blocks /\ three.blocks[c].func = f
  <2> HIDE DEF coming
  <2>1. Follows(ir, three, coming)
    BY <1>8, BlocksFollow
  <2>2. \A c \in (size + 1)..(size + 3) : c \in DOMAIN three.blocks /\ three.blocks[c].func = f
    BY <1>8, BlocksFollow
  <2> QED
    BY <2>1, <2>2
<1> HIDE DEF three
<1>10. b \in (size + 1)..(size + 3) /\ (size + 1)..(size + 3) = b..(b + 2)
  <2> HIDE DEF size
  <2> QED
    BY <1>4
<1>11. b \in DOMAIN three.blocks /\ three.blocks[b].func = f
  BY <1>9, <1>10
<1>12. Follows(ir, ir', coming) /\ Keeps(three, ir') /\ Parent(ir') = f
  <2> HIDE DEF b, coming
  <2>1. Follows(ir, ir', coming)
    BY <1>1, <1>9, <1>11, MoveFollows
  <2>2. Keeps(three, ir')
    BY <1>1, <1>9, <1>11, MoveFollows
  <2> QED
    BY <2>1, <2>2 DEF Follows
<1>13. \A c \in (size + 1)..(size + 3) : UsableIn(ir', f, BlockAt(c))
  BY <1>9, <1>12 DEF Keeps, UsableIn, BlockAt
<1>14. Follows(ir, ir', {})
  <2>1. \A w \in coming : UsableIn(ir', Parent(ir'), w)
    BY <1>10, <1>12, <1>13
  <2> HIDE DEF coming
  <2> QED
    BY <2>1, <1>12, NoneComing
<1>15. Keeps(ir, ir')
  BY <1>14 DEF Follows
<1>16. /\ last \in Item /\ last.phase = "resume" /\ last.node = node /\ last.index = b
  <2> HIDE DEF b
  <2> QED
    BY <1>2, <1>4, ItemAtTypes
<1> HIDE DEF last, kid
<1>17. \A c \in BlocksOf(last) : UsableIn(ir', Parent(ir), BlockAt(c))
  <2>1. BlocksOf(last) = b..(b + 2)
    BY <1>2, <1>16 DEF BlocksOf
  <2> QED
    BY <2>1, <1>10, <1>13
<1>18. last.phase # "visit" /\ ~FuncEnd(last) /\ ~MayReturn(returning, last)
  BY <1>2, <1>16, NotReturning DEF FuncEnd
<1>19. kid.kind # "Function" /\ kid \notin returning
  BY <1>3, NotReturning DEF ExprKind
<1>20. items \in Seq(Item) /\ ItemsStay(items) /\ Settled(returning, todo, items)
  BY <1>3, <1>16, <1>17, <1>18, <1>19, PairStays
<1> HIDE DEF items
<1>21. ~FuncEnd(todo[1])
  BY <1>1, Ordinary
<1>22. ValuesStay
  BY <1>1, <1>15, <1>21, ValuesKept
<1>23. scopes' = scopes /\ returnStack' = returnStack
  BY <1>1 DEF environment
<1>24. ScopesStay
  BY <1>1, <1>15, <1>23, ScopesKept
<1>25. Stays(returning, items)
  BY <1>1, <1>14, <1>20, <1>22, <1>23, <1>24, GoesOnStays
<1> QED
  BY <1>1, <1>20, <1>25 DEF Goes

\* After the condition of a while.
LEMMA LoopStays ==
  ASSUME NEW returning, ReturnsEndBlocks(returning), IInv, Local(returning), ResumeWhileStmt
  PROVE  Goes(returning)
<1> DEFINE f == Parent(ir)
           v == Result
           body == block + 1
           after == block + 2
           m == Branch(TestOf(v), body, after)
           kid == node.kids[2]
           last == ItemAt("body", node, block)
           items == <<Visit(kid), last>>
<1>1. /\ At("resume", {"While"}) /\ ir' = SetInsertPoint(m, body)
      /\ Continue(items) /\ Pop /\ UNCHANGED environment
  BY DEF ResumeWhileStmt
<1>2. /\ node \in Node /\ node.kind = "While" /\ node = todo[1].node
      /\ todo[1].phase = "resume" /\ block \in Nat /\ block = todo[1].index
  BY <1>1, First
<1>3. Need(todo[1]) = 1
  BY <1>2 DEF Need
<1>4. v \in Value /\ UsableIn(ir, f, v) /\ Follows(ir, ir, {})
  BY <1>1, <1>3, OperandsOwn, LocalFacts
<1> HIDE DEF v
<1>5. kid \in Node /\ kid.kind # "Function"
  BY <1>2, KidsOf, NotReturning
<1>6. BlocksOf(todo[1]) = block..(block + 2)
  BY <1>2 DEF BlocksOf
<1>7. /\ body \in Nat /\ after \in Nat
      /\ body \in BlocksOf(todo[1]) /\ after \in BlocksOf(todo[1])
  BY <1>2, <1>6
<1>8. \A b \in BlocksOf(todo[1]) : UsableIn(ir, f, BlockAt(b))
  BY <1>1, LocalFacts
<1> HIDE DEF body, after
<1>9. Follows(ir, m, {}) /\ Keeps(ir, m)
  <2>1. Follows(ir, m, {})
    BY <1>4, <1>7, <1>8, BranchFollows
  <2> QED
    BY <2>1 DEF Follows
<1> HIDE DEF m
<1>10. body \in DOMAIN m.blocks /\ m.blocks[body].func = f
  <2>1. UsableIn(m, f, BlockAt(body))
    BY <1>7, <1>8, <1>9, KeptUsable
  <2> QED
    BY <2>1 DEF UsableIn, BlockAt
<1>11. Follows(ir, ir', {}) /\ Keeps(ir, ir')
  <2>1. Follows(ir, ir', {})
    BY <1>1, <1>9, <1>10, MoveFollows
  <2> QED
    BY <2>1 DEF Follows
<1>12. /\ last \in Item /\ last.phase = "body" /\ last.node = node /\ last.index = block
  BY <1>2, ItemAtTypes
<1> HIDE DEF last, kid
<1>13. \A b \in BlocksOf(last) : UsableIn(ir', Parent(ir), BlockAt(b))
  <2>1. BlocksOf(last) = BlocksOf(todo[1])
    BY <1>6, <1>12 DEF BlocksOf
  <2> QED
    BY <2>1, <1>8, <1>11, KeptUsable
<1>14. last.phase # "visit" /\ ~FuncEnd(last) /\ ~MayReturn(returning, last) /\ Pops(last)
  BY <1>12 DEF FuncEnd, MayReturn, Pops
<1>15. items \in Seq(Item) /\ ItemsStay(items) /\ Settled(returning, todo, items)
  BY <1>5, <1>12, <1>13, <1>14, PairStays
<1> HIDE DEF items
<1>16. ~FuncEnd(todo[1])
  BY <1>1, Ordinary
<1>17. ValuesStay
  BY <1>1, <1>3, <1>11, <1>16, ValuesKept
<1>18. scopes' = scopes /\ returnStack' = returnStack
  BY <1>1 DEF environment
<1>19. ScopesStay
  BY <1>1, <1>11, <1>18, ScopesKept
<1>20. Stays(returning, items)
  BY <1>1, <1>11, <1>15, <1>17, <1>18, <1>19, GoesOnStays
<1> QED
  BY <1>1, <1>15, <1>20 DEF Goes

-----------------------------------------------------------------------------
(***************************************************************************)
(* The steps from one function to another.                                 *)
(***************************************************************************)

\* A step whose items have the functions g.
LEMMA Crossing ==
  ASSUME NEW returning, IInv, Local(returning), NEW items, Does(items),
         WellMade(ir'), LocalCode(ir'), Keeps(ir, ir'), OwnReturns',
         \A q \in 1..Len(items) :
           items[q].phase = "visit" => items[q].node.kind # "Function",
         Settled(returning, todo, items),
         LeftOver(returning, todo, items, returnStack, returnStack'),
         NEW g, Places(items, ir', Parent(ir'), g),
         g[Len(items) + 1] = FunctionAfter(todo, ir),
         \A r \in 1..Len(items) : FuncEnd(items[r]) =>
           r = Len(items) /\ Need(todo[1]) + Gain(todo[1]) = 1,
         SameBelow(values, values', Kept), UsableAbove(items, g, ir', values', Kept),
         \A p \in 1..Len(items) :
           \A i \in Seen(scopes', Len(scopes')) : Bound(ir', g[p], scopes'[i]),
         \A i \in 1..Len(scopes) : i <= Len(scopes') => scopes'[i] = scopes[i],
         OwnBlocks(items, g, ir')
  PROVE  Local(returning)'
<1>1. /\ Walks(todo, items, todo')
      /\ InStep(todo, items, scopes, scopes')
      /\ SameBoundaries(items, scopes, scopes', {"Func"})
      /\ Balanced(items, Len(values') - Kept, Need(todo[1]) + Gain(todo[1]))
      /\ values' \in Seq(Value) /\ values \in Seq(Value)
  BY DEF Does, IInv, TypeOK
<1>2. NoProgram'
  BY <1>1, NoProgramOn DEF Local
<1>3. ReturnsFound(returning, todo', returnStack')
  BY <1>1, FoundStep DEF Local
<1>4. Owned(todo', ir', values', scopes')
  <2>1. \A i \in 1..Len(scopes) : i <= Len(scopes') => scopes'[i].global = scopes[i].global
    BY <1>1 DEF SameBoundaries
  <2>2. LeavesAlone(Kept, Len(values), todo[1])
    BY DEF Kept, LeavesAlone
  <2>3. Len(values) \in Nat /\ Len(values') \in Nat
    BY <1>1
  <2>4. Owned(todo, ir, values, scopes)
    BY DEF Local
  <2>5. ScopesBound(ir, ir', Parent(ir), scopes, scopes')
    BY DEF ScopesBound
  <2> QED
    BY <1>1, <2>1, <2>2, <2>3, <2>4, <2>5, OwnedStep
<1> QED
  BY <1>2, <1>3, <1>4 DEF Local

\* The scopes of a function end at its own, which is empty at first.
LEMMA EnteredScopes ==
  ASSUME scopes \in Seq(Facts!Scope(Binding)), scopes' = Env!Enter(scopes, TRUE)
  PROVE  /\ \A i \in 1..Len(scopes) : scopes'[i] = scopes[i]
         /\ \A m, f : \A i \in Seen(scopes', Len(scopes')) : Bound(m, f, scopes'[i])
<1> DEFINE scope == Facts!Opened(TRUE)
           l == Len(scopes)
<1>1. scopes \in Seq(Facts!Scope(Binding)) /\ l \in Nat
  OBVIOUS
<1>2. /\ scope \in Facts!Scope(Binding)
      /\ scopes' = Append(scopes, scope)
  BY Facts!OpenedScope, SameScopes
<1>3. \A x \in Name : scope.objects[x] = Absent
  BY DEF Facts!Opened, Facts!Empty
<1>4. scope.global = TRUE
  BY DEF Facts!Opened
<1> HIDE DEF scope
<1>5. /\ Len(scopes') = l + 1 /\ scopes'[l + 1] = scope
      /\ \A j \in 1..l : scopes'[j] = scopes[j]
  <2> DEFINE Scope == Facts!Scope(Binding)
             t == Append(scopes, scope)
  <2>1. scopes \in Seq(Scope) /\ scope \in Scope /\ scopes' = t
    BY <1>1, <1>2
  <2> HIDE DEF Scope
  <2>2. Len(t) = l + 1 /\ t[l + 1] = scope /\ \A j \in 1..l : t[j] = scopes[j]
    BY <2>1
  <2> HIDE DEF t
  <2> QED
    BY <2>1, <2>2
<1> HIDE DEF l
<1>6. ASSUME NEW i \in Seen(scopes', l + 1) PROVE i = l + 1
  <2>1. i \in 1..(l + 1) /\ \A k \in (i + 1)..(l + 1) : ~scopes'[k].global
    BY DEF Seen
  <2>2. i = l + 1 \/ l + 1 \in (i + 1)..(l + 1)
    BY <2>1, <1>1
  <2> QED
    BY <2>1, <2>2, <1>4, <1>5
<1>7. \A m, f : Bound(m, f, scopes'[l + 1])
  BY <1>3, <1>5 DEF Bound
<1> QED
  BY <1>5, <1>6, <1>7 DEF l

\* A function expression: code goes on in a new function.
LEMMA FunctionLocal ==
  ASSUME NEW returning, ReturnsEndBlocks(returning), IInv, Local(returning), VisitFuncExpr
  PROVE  Local(returning)'
<1> DEFINE body == node.kids[1]
           parameters == ItemAt("param", node, 1)
           loop == ResumeAt(body, 0)
           last == ItemAt("leave", node, ir.insert)
           items == <<parameters, loop, last>>
           e == Parent(ir')
           f == Parent(ir)
           g == [p \in 1..4 |-> IF p = 4 THEN f ELSE e]
<1>1. /\ At("visit", {"Func"}) /\ Continue(items) /\ scopes' = Env!Enter(scopes, TRUE)
      /\ ir' = Define(ir, node.name, Len(node.params))
      /\ values' = values /\ returnStack' = returnStack
  BY DEF VisitFuncExpr
<1>2. /\ node \in Node /\ node.kind = "Func" /\ node = todo[1].node
      /\ todo[1].phase = "visit" /\ scopes \in Seq(Facts!Scope(Binding))
      /\ values \in Seq(Value) /\ Len(values) \in Nat
  BY <1>1, First
<1>3. WellMade(ir) /\ LocalCode(ir)
  BY DEF Local
<1>4. /\ body \in Node /\ body.kind = "Scope" /\ Len(node.params) \in Nat
      /\ node.name \in Name \cup {NoName, Main, Printf, Scanf}
  <2>1. /\ node.kids \in Seq(Node) /\ Len(node.kids) = 1 /\ body.kind = "Scope"
        /\ node.params \in Seq(Name) /\ node.name \in Name \cup {NoName}
    BY <1>2, NodeFacts
  <2> QED
    BY <2>1
<1>5. /\ ir \in ModuleState /\ \A b \in DOMAIN ir.blocks : HasEntry(ir, ir.blocks[b].func)
      /\ ir.insert \in DOMAIN ir.blocks /\ ir.insert \in Nat
  BY <1>3, ModuleParts DEF WellMade
<1>6. Keeps(ir, ir') /\ LocalCode(ir') /\ WellMade(ir')
  <2>1. Keeps(ir, ir')
    BY <1>1, <1>3, <1>4, <1>5, DefineKeeps
  <2>2. LocalCode(ir')
    BY <1>1, <1>3, <1>4, <1>5, DefineKeeps
  <2>3. Grows(ir, ir')
    BY <1>1, <1>4, <1>5, Defined
  <2> QED
    BY <2>1, <2>2, <2>3 DEF Grows
<1>7. e \in Nat /\ f \in Nat
  BY <1>3, <1>6, ParentType
<1>8. /\ parameters \in Item /\ parameters.phase = "param"
      /\ loop \in Item /\ loop.phase = "resume" /\ loop.node = body
      /\ last \in Item /\ last.phase = "leave" /\ last.node = node
      /\ last.index = ir.insert
  <2> HIDE DEF body
  <2>1. parameters \in Item /\ parameters.phase = "param"
    BY <1>2, ItemAtTypes
  <2>2. loop \in Item /\ loop.phase = "resume" /\ loop.node = body
    BY <1>4, LoopTypes
  <2>3. /\ last \in Item /\ last.phase = "leave" /\ last.node = node
        /\ last.index = ir.insert
    BY <1>2, <1>5, ItemAtTypes
  <2> QED
    BY <2>1, <2>2, <2>3
<1> HIDE DEF body, parameters, loop, last, e, f
<1>9. /\ items \in Seq(Item) /\ Len(items) = 3
      /\ items[1] = parameters /\ items[2] = loop /\ items[3] = last
  BY <1>8
<1>10. /\ \A q \in 1..3 : q \in {1, 2, 3}
       /\ 1 \in 1..4 /\ 2 \in 1..4 /\ 3 \in 1..4 /\ 4 \in 1..4
       /\ 1 + 1 = 2 /\ 2 + 1 = 3 /\ 3 + 1 = 4 /\ \A p \in 1..3 : p # 4 /\ p \in 1..4
  OBVIOUS
<1>11. g \in [1..4 -> Nat] /\ g[1] = e /\ g[2] = e /\ g[3] = e /\ g[4] = f
  BY <1>7, <1>10
<1> HIDE DEF items, g
<1>12. ~FuncEnd(parameters) /\ ~FuncEnd(loop) /\ FuncEnd(last)
  BY <1>2, <1>8 DEF FuncEnd
<1>13. Does(items)
  <2>1. PICK s : Does(s)
    BY FunctionDoes
  <2> QED
    BY <2>1, <1>1, <1>9, KnownItems
<1>14. \A q \in 1..Len(items) :
         items[q].phase = "visit" => items[q].node.kind # "Function"
  BY <1>8, <1>9, <1>10
<1>15. Settled(returning, todo, items)
  <2>1. body \notin returning
    BY <1>4, NotReturning
  <2>2. ~MayReturn(returning, parameters) /\ ~MayReturn(returning, loop)
        /\ ~MayReturn(returning, last)
    BY <2>1, <1>8 DEF MayReturn
  <2> QED
    BY <2>2, <1>9, <1>10 DEF Settled
<1>16. ~Pops(todo[1]) /\ ~BlockEnd(todo[1])
  BY <1>1, Ordinary
<1>17. /\ returnStack = <<>> /\ OwnReturns'
       /\ LeftOver(returning, todo, items, returnStack, returnStack')
  <2>1. returnStack = <<>>
    BY <1>1, <1>15, <1>16, ReturnsKept
  <2>2. \A i \in 1..Len(returnStack') : FALSE
    BY <1>1, <2>1
  <2> QED
    BY <1>1, <2>1, <2>2 DEF OwnReturns, LeftOver
<1>18. Places(items, ir', Parent(ir'), g)
  <2>1. ir.insert \in DOMAIN ir'.blocks /\ ir'.blocks[ir.insert].func = f
    BY <1>5, <1>6 DEF Keeps, Parent, f
  <2>2. ASSUME NEW p \in 1..3
        PROVE  IF FuncEnd(items[p])
                 THEN /\ items[p].index \in DOMAIN ir'.blocks
                      /\ g[p + 1] = ir'.blocks[items[p].index].func
                 ELSE g[p + 1] = g[p]
    <3>1. CASE p = 1
      BY <3>1, <1>9, <1>10, <1>11, <1>12
    <3>2. CASE p = 2
      BY <3>2, <1>9, <1>10, <1>11, <1>12
    <3>3. CASE p = 3
      BY <3>3, <2>1, <1>8, <1>9, <1>10, <1>11, <1>12
    <3> QED
      BY <3>1, <3>2, <3>3, <1>10
  <2> QED
    BY <2>2, <1>9, <1>10, <1>11 DEF Places, e
<1>19. g[Len(items) + 1] = FunctionAfter(todo, ir)
  <2>1. ~FuncEnd(todo[1])
    BY <1>1, Ordinary
  <2> QED
    BY <2>1, <1>9, <1>10, <1>11 DEF FunctionAfter, f
<1>20. \A r \in 1..Len(items) : FuncEnd(items[r]) =>
         r = Len(items) /\ Need(todo[1]) + Gain(todo[1]) = 1
  <2>1. Need(todo[1]) = 0 /\ Gain(todo[1]) = 1
    BY <1>2 DEF Need, Gain, ExprKind
  <2>2. 0 + 1 = 1
    OBVIOUS
  <2> QED
    BY <2>1, <2>2, <1>9, <1>10, <1>12
<1>21. SameBelow(values, values', Kept) /\ UsableAbove(items, g, ir', values', Kept)
  <2>1. Kept = Len(values)
    <3>1. Need(todo[1]) = 0
      BY <1>2 DEF Need
    <3> QED
      BY <3>1, <1>2 DEF Kept
  <2>2. \A j \in 1..Len(values) : j <= Len(values)
    BY <1>2
  <2> QED
    BY <2>1, <2>2, <1>1 DEF SameBelow, UsableAbove
<1>22. /\ \A i \in 1..Len(scopes) : scopes'[i] = scopes[i]
       /\ \A p \in 1..Len(items) :
            \A i \in Seen(scopes', Len(scopes')) : Bound(ir', g[p], scopes'[i])
  BY <1>1, <1>2, EnteredScopes
<1>23. OwnBlocks(items, g, ir')
  <2>1. BlocksOf(parameters) = {} /\ BlocksOf(loop) = {} /\ BlocksOf(last) = {}
    BY <1>4, <1>8 DEF BlocksOf
  <2> QED
    BY <2>1, <1>9, <1>10 DEF OwnBlocks
<1> QED
  BY <1>6, <1>13, <1>14, <1>15, <1>17, <1>18, <1>19, <1>20, <1>21, <1>22, <1>23, Crossing

\* Its end: code goes on where it was, with the function as a value.
LEMMA FunctionEndLocal ==
  ASSUME NEW returning, IInv, Local(returning), LeaveFunction
  PROVE  Local(returning)'
<1> DEFINE items == <<>>
           e == ir.blocks[block].func
           g == [p \in 1..1 |-> e]
           v == FunctionAt(Parent(ir))
           l == Len(values)
           below == Below(values, 1)
<1>1. /\ At("leave", {"Func"}) /\ scopes' = Env!Leave(scopes) /\ returnStack' = returnStack
      /\ ir' = SetInsertPoint(ir, block) /\ values' = Append(below, v)
  BY DEF LeaveFunction, Replace
<1>2. /\ todo[1].node.kind = "Func" /\ todo[1].phase = "leave"
      /\ todo \in Seq(Item) /\ todo # <<>>
      /\ scopes \in Seq(Facts!Scope(Binding)) /\ Len(scopes) \in Nat
      /\ values \in Seq(Value) /\ l \in Nat /\ Need(todo[1]) <= l
      /\ block = todo[1].index /\ Fit(todo[1], Len(ir.blocks))
  BY <1>1, First
<1>3. WellMade(ir) /\ LocalCode(ir)
  BY DEF Local
<1>4. /\ Need(todo[1]) = 1 /\ FuncEnd(todo[1]) /\ ~Pops(todo[1]) /\ ~BlockEnd(todo[1])
  BY <1>2 DEF Need, FuncEnd, Pops, BlockEnd
<1>5. block \in DOMAIN ir.blocks
  <2>1. block \in 1..Len(ir.blocks)
    BY <1>2 DEF Fit
  <2> QED
    BY <2>1, <1>3, ModuleParts DEF WellMade
<1>6. WellMade(ir') /\ ir'.blocks = ir.blocks /\ ir'.insert = block
  <2>1. Grows(ir, ir')
    BY <1>1, <1>3, <1>5, Moved
  <2>2. ir'.blocks = ir.blocks
    BY <1>1, <1>3, <1>5, Moved
  <2>3. ir'.insert = block
    BY <1>1, <1>3, <1>5, Moved
  <2> QED
    BY <2>1, <2>2, <2>3 DEF Grows
<1>7. Keeps(ir, ir') /\ Parent(ir') = e
  BY <1>6 DEF Keeps, Parent
<1>8. LocalCode(ir')
  BY <1>3, <1>6, <1>7, KeptUsable DEF LocalCode
<1>9. e \in Nat
  BY <1>6, <1>7, ParentType
<1> HIDE DEF e, v
<1>10. Does(items)
  BY FunctionEnds
<1>11. Len(items) = 0 /\ \A q \in 1..Len(items) : FALSE
  OBVIOUS
<1>12. g \in [1..1 -> Nat] /\ g[1] = e /\ \A p \in 1..1 : p = 1
  BY <1>9
<1> HIDE DEF items, g
<1>13. Settled(returning, todo, items)
  BY <1>11 DEF Settled
<1>14. OwnReturns' /\ LeftOver(returning, todo, items, returnStack, returnStack')
  <2>1. returnStack = <<>>
    BY <1>1, <1>4, <1>13, ReturnsKept
  <2>2. \A i \in 1..Len(returnStack') : FALSE
    BY <1>1, <2>1
  <2> QED
    BY <1>1, <2>1, <2>2 DEF OwnReturns, LeftOver
<1>15. Places(items, ir', Parent(ir'), g)
  BY <1>7, <1>11, <1>12 DEF Places
<1>16. g[Len(items) + 1] = FunctionAfter(todo, ir)
  <2>1. Len(items) + 1 = 1
    BY <1>11
  <2> QED
    BY <2>1, <1>2, <1>4, <1>12 DEF FunctionAfter, e
<1>17. SameBelow(values, values', Kept) /\ UsableAbove(items, g, ir', values', Kept)
  <2> DEFINE k == l - 1
  <2>1. k \in Nat /\ Kept = k
    BY <1>2, <1>4 DEF Kept
  <2>2. /\ Len(below) = k /\ below \in Seq(Value)
        /\ \A j \in 1..k : below[j] = values[j]
    <3>1. \A i \in Nat : i <= Len(values) =>
            /\ SubSeq(values, 1, i) \in Seq(Value) /\ Len(SubSeq(values, 1, i)) = i
            /\ \A j \in 1..i : SubSeq(values, 1, i)[j] = values[j]
      BY <1>2
    <3>2. below = SubSeq(values, 1, k)
      BY DEF Below
    <3>3. k <= Len(values)
      BY <1>2
    <3> HIDE DEF k, below
    <3> QED
      BY <3>1, <3>2, <3>3, <2>1
  <2>3. \A j \in 1..k : j \in 1..l /\ j <= k
    BY <2>1, <1>2
  <2>4. \A j \in 1..(k + 1) : j \in 1..k \/ (j = k + 1 /\ ~(j <= k))
    BY <2>1
  <2> HIDE DEF below, k, l
  <2>5. Len(values') = k + 1 /\ values'[k + 1] = v /\ \A j \in 1..k : values'[j] = below[j]
    BY <2>1, <2>2, <1>1
  <2>6. \A p \in 1..(Len(items) + 1) : UsableIn(ir', g[p], v)
    BY ConstantsUsable DEF v
  <2>7. SameBelow(values, values', Kept)
    BY <2>1, <2>2, <2>3, <2>4, <2>5 DEF SameBelow, l
  <2>8. UsableAbove(items, g, ir', values', Kept)
    BY <2>1, <2>3, <2>4, <2>5, <2>6 DEF UsableAbove
  <2> QED
    BY <2>7, <2>8
<1>18. \A i \in 1..Len(scopes) : i <= Len(scopes') => scopes'[i] = scopes[i]
  <2>1. Len(scopes) > 1
    BY <1>2, ScopeToLeave DEF IInv, OneScopeEach
  <2>2. scopes' = Facts!Leave(scopes)
    BY <1>1, SameScopes
  <2>3. /\ Len(scopes') = Len(scopes) - 1
        /\ \A j \in 1..(Len(scopes) - 1) : scopes'[j] = scopes[j]
    BY <2>1, <2>2, <1>2, Facts!LeaveEffect
  <2>4. \A i \in 1..Len(scopes) : i <= Len(scopes) - 1 => i \in 1..(Len(scopes) - 1)
    BY <1>2
  <2> QED
    BY <2>3, <2>4
<1>19. OwnBlocks(items, g, ir')
  BY <1>11 DEF OwnBlocks
<1>20. /\ \A q \in 1..Len(items) :
            items[q].phase = "visit" => items[q].node.kind # "Function"
       /\ \A r \in 1..Len(items) : FuncEnd(items[r]) =>
            r = Len(items) /\ Need(todo[1]) + Gain(todo[1]) = 1
       /\ \A p \in 1..Len(items) :
            \A i \in Seen(scopes', Len(scopes')) : Bound(ir', g[p], scopes'[i])
  BY <1>11
<1> QED
  BY <1>6, <1>7, <1>8, <1>10, <1>13, <1>14, <1>15, <1>16, <1>17, <1>18, <1>19, <1>20, Crossing

\* The program: its statements are those of main.
LEMMA ProgramLocal ==
  ASSUME NEW returning, ReturnsEndBlocks(returning), IInv, Unbegun, VisitFunctionStmt
  PROVE  Local(returning)'
<1> DEFINE kids == node.kids
           k == Len(kids)
           visits == VisitAll(kids)
           last == Resume(node)
           items == visits \o <<last>>
           n == Len(items)
           f == Parent(ir')
           g == [p \in 1..(n + 1) |-> f]
           scope == Facts!Opened(TRUE)
<1>1. /\ At("visit", {"Function"}) /\ Continue(items) /\ ir' = Define(ir, Main, 0)
      /\ values' = values /\ scopes' = scopes /\ returnStack' = returnStack
  BY DEF VisitFunctionStmt, environment
<1>2. /\ node \in Node /\ node.kind = "Function" /\ node = todo[1].node
      /\ todo[1].phase = "visit" /\ ir \in ModuleState
  BY <1>1, First
<1>3. /\ ir = EmptyModule /\ todo = <<Visit(program)>> /\ values = <<>>
      /\ scopes = <<scope>> /\ returnStack = <<>>
  BY SameScopes DEF Unbegun
<1>4. kids \in Seq(Node) /\ \A i \in DOMAIN kids : kids[i].kind # "Function"
  BY <1>2, NodeFacts, NotReturning
<1>5. node \notin returning /\ \A i \in DOMAIN kids : kids[i] \notin returning
  BY <1>2 DEF ReturnsEndBlocks
<1>6. last \in Item /\ last.phase = "resume" /\ last.node = node
  BY <1>2, ItemTypes
<1>7. /\ visits \in Seq(Item) /\ Len(visits) = k
      /\ \A i \in 1..k : visits[i] = Visit(kids[i])
      /\ k \in Nat /\ DOMAIN kids = 1..k
  BY <1>4, VisitAllTypes
<1> HIDE DEF kids, visits, last
<1>8. /\ items \in Seq(Item) /\ Len(items) = k + 1 /\ items[k + 1] = last
      /\ \A i \in 1..k : items[i] = visits[i]
  BY <1>6, <1>7
<1>9. todo' = items
  <2> DEFINE first == Visit(program)
  <2>1. todo' = items \o Tail(todo) /\ todo = <<first>>
    BY <1>1, <1>3 DEF Continue
  <2> HIDE DEF first, items
  <2>2. Tail(todo) = <<>> /\ items \o <<>> = items
    BY <2>1, <1>8
  <2> QED
    BY <2>1, <2>2
<1> HIDE DEF items
<1>10. /\ n = k + 1 /\ n \in Nat /\ \A q \in 1..n : q \in 1..k \/ q = k + 1
  BY <1>7, <1>8
<1>11. ASSUME NEW q \in 1..n
       PROVE  /\ ~FuncEnd(items[q]) /\ ~MayReturn(returning, items[q])
              /\ items[q].phase = "visit" => items[q].node.kind # "Function"
              /\ BlocksOf(items[q]) = {} /\ items[q].phase # "leave"
  <2>1. CASE q \in 1..k
    <3>1. items[q] = Visit(kids[q]) /\ q \in DOMAIN kids
      BY <2>1, <1>7, <1>8
    <3>2. items[q].phase = "visit" /\ items[q].node = kids[q]
      BY <3>1 DEF Visit, AnItem
    <3> QED
      BY <3>1, <3>2, <1>4, <1>5 DEF FuncEnd, MayReturn, BlocksOf
  <2>2. CASE q = k + 1
    BY <2>2, <1>2, <1>5, <1>6, <1>8 DEF FuncEnd, MayReturn, BlocksOf
  <2> QED
    BY <2>1, <2>2, <1>10
<1>12. WellMade(ir') /\ LocalCode(ir')
  <2>1. ir.blocks = <<>>
    BY <1>3 DEF EmptyModule
  <2>2. DOMAIN ir.blocks = {}
    BY <2>1
  <2>3. /\ LocalCode(ir) /\ \A b \in DOMAIN ir.blocks : HasEntry(ir, ir.blocks[b].func)
        /\ Main \in Name \cup {NoName, Main, Printf, Scanf} /\ 0 \in Nat
    BY <2>2 DEF LocalCode
  <2>4. Grows(ir, ir')
    BY <2>3, <1>1, <1>2, Defined
  <2>5. LocalCode(ir')
    BY <2>3, <1>1, <1>2, DefineKeeps
  <2> QED
    BY <2>4, <2>5 DEF Grows
<1>13. f \in Nat
  BY <1>12, ParentType
<1> HIDE DEF f, n
<1>14. /\ g \in [1..(n + 1) -> Nat] /\ \A p \in 1..(n + 1) : g[p] = f
       /\ 1 \in 1..(n + 1) /\ \A p \in 1..n : p \in 1..(n + 1) /\ p + 1 \in 1..(n + 1)
  BY <1>10, <1>13
<1> HIDE DEF g
<1>15. PICK h : Heights(items, 0, h)
  <2>1. Balanced(items, Len(values') - Kept, Need(todo[1]) + Gain(todo[1]))
    <3>1. PICK s : Does(s)
      BY ProgramDoes
    <3>2. Does(items)
      BY <3>1, <1>1, <1>8, KnownItems
    <3> QED
      BY <3>2 DEF Does
  <2>2. Need(todo[1]) = 0
    BY <1>2 DEF Need
  <2>3. Len(values) = 0 /\ Len(values') = 0
    BY <1>1, <1>3
  <2>4. Len(values') - Kept = 0
    BY <2>2, <2>3 DEF Kept
  <2> QED
    BY <2>1, <2>4 DEF Balanced, Heights
<1>16. NoProgram' /\ OwnReturns' /\ ReturnsFound(returning, todo', returnStack')
  <2>1. returnStack' = <<>> /\ \A i \in 1..Len(returnStack') : FALSE
    BY <1>1, <1>3
  <2> QED
    BY <2>1, <1>9, <1>11 DEF NoProgram, OwnReturns, ReturnsFound, n
<1>17. Places(items, ir', f, g)
  BY <1>11, <1>14 DEF Places, n
<1>18. OwnValues(items, h, g, ir', values')
  <2>1. \A j \in 1..Len(values') : FALSE
    BY <1>1, <1>3
  <2> QED
    BY <2>1, <1>11 DEF OwnValues, n
<1>19. OwnScopes(items, g, ir', scopes')
  <2> SUFFICES ASSUME NEW p \in 1..n, NEW i \in Seen(scopes', ScopeOf(items, scopes', p))
               PROVE  Bound(ir', g[p], scopes'[i])
    BY DEF OwnScopes, n
  <2>1. Len(scopes') = 1 /\ scopes'[1] = scope
    BY <1>1, <1>3
  <2>2. \A x \in Name : scope.objects[x] = Absent
    BY DEF Facts!Opened, Facts!Empty
  <2> HIDE DEF scope
  <2>3. ScopeOf(items, scopes', p) = 1
    <3>1. 1 \in Int /\ p - 1 \in Int /\ \A q \in 1..(p - 1) : q \in 1..n
      BY <1>10
    <3>2. LeavesIn(items, 1, p - 1) = 0
      BY <3>1, <1>11, LeavesNone
    <3> QED
      BY <3>2, <2>1 DEF ScopeOf, LeavesBefore
  <2>4. i = 1
    BY <2>3 DEF Seen
  <2> QED
    BY <2>1, <2>2, <2>4 DEF Bound
<1>20. OwnBlocks(items, g, ir')
  BY <1>11 DEF OwnBlocks, n
<1>21. Len(values') = 0
  BY <1>1, <1>3
<1>22. Owned(todo', ir', values', scopes')
  BY <1>9, <1>15, <1>17, <1>18, <1>19, <1>20, <1>21 DEF Owned, f
<1> QED
  BY <1>12, <1>16, <1>22 DEF Local

-----------------------------------------------------------------------------
(***************************************************************************)
(* Every step.                                                             *)
(***************************************************************************)

\* A step that goes on in the same function.
LEMMA GoesSteady ==
  ASSUME NEW returning, IInv, Local(returning), Goes(returning), \E items : Does(items)
  PROVE  Local(returning)'
<1>1. PICK s \in Seq(Item) : Continue(s) /\ Stays(returning, s)
  BY DEF Goes
<1>2. PICK items : Does(items)
  OBVIOUS
<1>3. Does(s)
  BY <1>1, <1>2, KnownItems
<1> QED
  BY <1>1, <1>3, Steady

\* One step from main on.
LEMMA StepLocal ==
  ASSUME NEW returning, ReturnsEndBlocks(returning), IInv, Local(returning),
         Next, ~Stopped, ~Finish
  PROVE  Local(returning)'
<1>1. CASE VisitLiteralExpr
  BY <1>1, LiteralDoes, LiteralStays, Steady
<1>2. CASE VisitInputExpr
  BY <1>2, InputDoes, InputStays, Steady
<1>3. CASE ResumeAssignment
  BY <1>3, AssignmentDoes, AssignmentStays, Steady
<1>4. CASE ResumeUnary
  BY <1>4, UnaryDoes, UnaryStays, Steady
<1>5. CASE ResumeBinary
  BY <1>5, BinaryDoes, BinaryStays, Steady
<1>6. CASE ResumePostfix
  BY <1>6, PostfixDoes, PostfixStays, Steady
<1>7. CASE Leave
  BY <1>7, EndDoes, LeaveStays, Steady
<1>8. CASE ScopeEnds
  BY <1>8, ScopeValueDoes, ScopeEndStays, Steady
<1>9. CASE ResumeCallExpr
  BY <1>9, CalledDoes, CalledStays, Steady
<1>10. CASE ResumeVarStmt
  BY <1>10, VarStmtDoes, VarStmtStays, Steady
<1>11. CASE AfterElse
  BY <1>11, ElseDoes, ElseStays, Steady
<1>12. CASE AfterBody
  BY <1>12, BodyDoes, BodyStays, Steady
<1>13. CASE ResumePrintStmt
  BY <1>13, PrintDoes, PrintStays, Steady
<1>14. CASE ResumeExprStmt
  BY <1>14, ExprStmtDoes, ExprStmtStays, Steady
<1>15. CASE ResumeReturnStmt
  BY <1>15, ReturnDoes, ReturnStays, Steady
<1>16. CASE ResumeFunctionStmt
  BY <1>16, ProgramEnds, ProgramEndStays, Steady
<1>17. CASE VisitVarExpr
  <2>1. ~Stop(Signalled)
    BY DEF Stopped
  <2> QED
    BY <2>1, <1>17, VariableDoes, VariableStays, Steady
<1>18. CASE Descend
  BY <1>18, DescendDoes, DescendStays, GoesSteady
<1>19. CASE VisitOperands
  BY <1>19, OperandsDo, OperandsStay, GoesSteady
<1>20. CASE VisitBlock
  BY <1>20, BlockDoes, BlockStays, GoesSteady
<1>21. CASE ScopeContinues
  BY <1>21, StatementDoes, StatementStays, GoesSteady
<1>22. CASE DefineParameter
  BY <1>22, ParameterDoes, ParameterStays, GoesSteady
<1>23. CASE ResumeIfStmt
  BY <1>23, IfDoes, IfStays, GoesSteady
<1>24. CASE AfterThen
  BY <1>24, ThenDoes, ThenStays, GoesSteady
<1>25. CASE VisitWhileStmt
  BY <1>25, WhileDoes, WhileStays, GoesSteady
<1>26. CASE ResumeWhileStmt
  BY <1>26, LoopDoes, LoopStays, GoesSteady
<1>27. CASE VisitCallExpr
  <2>1. ~Stop(NotAFunction) /\ ~Stop(WrongArguments)
    BY DEF Stopped, RuntimeErrors
  <2> QED
    BY <2>1, <1>27, CallDoes, CallStays, GoesSteady
<1>28. CASE VisitFuncExpr
  BY <1>28, FunctionLocal
<1>29. CASE LeaveFunction
  BY <1>29, FunctionEndLocal
<1>30. CASE VisitFunctionStmt
  <2>1. At("visit", {"Function"})
    BY <1>30 DEF VisitFunctionStmt
  <2>2. node.kind # "Function"
    BY <2>1, LocalFacts
  <2> QED
    BY <2>1, <2>2 DEF At, node
<1> QED
  BY <1>1, <1>2, <1>3, <1>4, <1>5, <1>6, <1>7, <1>8, <1>9, <1>10, <1>11, <1>12, <1>13,
     <1>14, <1>15, <1>16, <1>17, <1>18, <1>19, <1>20, <1>21, <1>22, <1>23, <1>24, <1>25,
     <1>26, <1>27, <1>28, <1>29, <1>30 DEF Next

\* The first step visits the program.
LEMMA ProgramFirst ==
  ASSUME IInv, Unbegun, Next, ~Finish
  PROVE  VisitFunctionStmt
<1>1. ASSUME NEW phase, NEW kinds, At(phase, kinds)
      PROVE  phase = "visit" /\ "Function" \in kinds
  <2>1. todo[1] = Visit(program) /\ program.kind = "Function"
    BY CodegenAssumption DEF Unbegun, IInv, TypeOK
  <2> QED
    BY <2>1, <1>1 DEF At, Visit, AnItem
<1>2. ~VisitLiteralExpr /\ ~VisitVarExpr /\ ~VisitInputExpr /\ ~Descend
  BY <1>1 DEF VisitLiteralExpr, VisitVarExpr, VisitInputExpr, Descend
<1>3. ~VisitOperands /\ ~ResumeAssignment /\ ~ResumeUnary /\ ~ResumeBinary
  BY <1>1 DEF VisitOperands, ResumeAssignment, ResumeUnary, ResumeBinary
<1>4. ~ResumePostfix /\ ~VisitBlock /\ ~Leave /\ ~ScopeContinues
  <2>1. ~ResumePostfix
    BY <1>1 DEF ResumePostfix
  <2>2. ~VisitBlock
    <3>1. VisitBlock => At("visit", {"Scope", "Block"})
      BY DEF VisitBlock
    <3>2. "Function" \notin {"Scope", "Block"}
      OBVIOUS
    <3> QED
      BY <3>1, <3>2, <1>1
  <2>3. ~Leave
    BY <1>1 DEF Leave
  <2>4. ~ScopeContinues
    BY <1>1 DEF ScopeContinues
  <2> QED
    BY <2>1, <2>2, <2>3, <2>4
<1>5. ~ScopeEnds /\ ~VisitFuncExpr /\ ~DefineParameter /\ ~LeaveFunction
  BY <1>1 DEF ScopeEnds, VisitFuncExpr, DefineParameter, LeaveFunction
<1>6. ~VisitCallExpr /\ ~ResumeCallExpr /\ ~ResumeVarStmt /\ ~ResumeIfStmt
  BY <1>1 DEF VisitCallExpr, ResumeCallExpr, ResumeVarStmt, ResumeIfStmt
<1>7. ~AfterThen /\ ~AfterElse /\ ~VisitWhileStmt /\ ~ResumeWhileStmt
  BY <1>1 DEF AfterThen, AfterElse, VisitWhileStmt, ResumeWhileStmt
<1>8. ~AfterBody /\ ~ResumePrintStmt /\ ~ResumeExprStmt /\ ~ResumeReturnStmt
  BY <1>1 DEF AfterBody, ResumePrintStmt, ResumeExprStmt, ResumeReturnStmt
<1>9. ~ResumeFunctionStmt
  BY <1>1 DEF ResumeFunctionStmt
<1> QED
  BY <1>2, <1>3, <1>4, <1>5, <1>6, <1>7, <1>8, <1>9 DEF Next

\* It holds at first, and every step keeps it.
LEMMA LocalInductive ==
  ASSUME NEW returning, ReturnsEndBlocks(returning)
  PROVE  Spec => []LInv(returning)
<1>1. Init => LInv(returning)
  BY DEF Init, InitWith, LInv, Unbegun
<1>2. IInv /\ LInv(returning) /\ [Next]_vars => LInv(returning)'
  <2> SUFFICES ASSUME IInv, LInv(returning), [Next]_vars PROVE LInv(returning)'
    OBVIOUS
  <2>1. CASE UNCHANGED <<program, todo, values, scopes, returnStack, ir>>
    BY <2>1 DEF LInv, Unbegun, Local, NoProgram, OwnReturns
  <2>2. CASE UNCHANGED vars
    BY <2>1, <2>2 DEF vars
  <2>3. CASE Next
    <3>1. program' = program
      BY <2>3 DEF Next
    <3>2. CASE Stopped
      BY <2>1, <3>1, <3>2 DEF Stopped, Stop
    <3>3. CASE Finish
      BY <2>1, <3>1, <3>3 DEF Finish
    <3>4. CASE ~Stopped /\ ~Finish
      <4>1. CASE Unbegun
        BY <2>3, <3>4, <4>1, ProgramFirst, ProgramLocal DEF LInv
      <4>2. CASE Local(returning)
        BY <2>3, <3>4, <4>2, StepLocal DEF LInv
      <4> QED
        BY <4>1, <4>2 DEF LInv
    <3> QED
      BY <3>2, <3>3, <3>4
  <2> QED
    BY <2>2, <2>3
<1> QED
  BY <1>1, <1>2, Inductive, PTL DEF Spec

\* Whatever program is translated in which every return is the last statement of the
\* blocks around it: no instruction uses the result of an instruction, a parameter or
\* a block of another function.
THEOREM OperandsLocal ==
  ASSUME NEW returning, ReturnsEndBlocks(returning)
  PROVE  Spec => []LocalOperands
<1>1. LInv(returning) => LocalOperands
  <2> SUFFICES ASSUME LInv(returning) PROVE LocalCode(ir)
    BY DEF LocalOperands
  <2>1. CASE Unbegun
    <3>1. DOMAIN ir.blocks = {}
      <4>1. ir.blocks = <<>>
        BY <2>1 DEF Unbegun, EmptyModule
      <4> QED
        BY <4>1
    <3> QED
      BY <3>1 DEF LocalCode
  <2> QED
    BY <2>1 DEF LInv, Local
<1> QED
  BY <1>1, LocalInductive, PTL

=============================================================================
