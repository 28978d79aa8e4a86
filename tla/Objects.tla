------------------------------ MODULE Objects ------------------------------
(***************************************************************************)
(* prsl/Compiler/Interpreter/Objects: the values of the interpreter        *)
(* (std::variant<int, bool, nullptr_t, FuncObjPtr>) and the operators on   *)
(* them.  int has Width bits; the build wraps signed overflow around, the  *)
(* quotient of the least int by -1 traps on some machines.                 *)
(***************************************************************************)
EXTENDS TreeWalker

CONSTANTS Width,    \* of int, in bits
          Absent    \* marks a name that is not bound

ASSUME WidthAssumption == Width \in Nat \ {0}

MinInt == -(2^(Width - 1))
MaxInt == 2^(Width - 1) - 1
Ints == MinInt..MaxInt
Wrap(n) == ((n - MinInt) % 2^Width) + MinInt

IntObj(n) == <<"int", n>>
BoolObj(b) == <<"bool", b>>
Nil == <<"nil">>
FuncObj(declaration) == <<"func", declaration>>

FuncExpr == {n \in Node : n.kind = "Func"}
PrslObject ==
  ({"int"} \X Ints) \cup ({"bool"} \X BOOLEAN) \cup {Nil} \cup ({"func"} \X FuncExpr)

IsInt(obj) == obj[1] = "int"
IsFunc(obj) == obj[1] = "func"

\* Functions are never equal, and neither are objects of two types.
areEqual(lhs, rhs) == lhs[1] # "func" /\ lhs = rhs

isTrue(obj) ==
  \/ obj[1] = "int" /\ obj[2] # 0
  \/ obj[1] = "bool" /\ obj[2]

\* What is printed for an object: a bool prints like the int it converts to, a
\* function prints nothing.
Printable == ({"int"} \X (Ints \cup {0, 1})) \cup {Nil, <<"">>}
\* Mutant: the object itself is printed.
toObject(obj) == obj
toString(obj) ==
  CASE obj[1] = "bool" -> IntObj(IF obj[2] THEN 1 ELSE 0)
    [] obj[1] = "func" -> <<"">>
    [] OTHER -> obj

Magnitude(n) == IF n < 0 THEN -n ELSE n
\* Integer division truncates towards zero.
Quotient(a, b) ==
  LET q == Magnitude(a) \div Magnitude(b) IN
  IF (a < 0) = (b < 0) THEN q ELSE -q

\* The errors of the operators.
NoError == "no error"
NonNumeric == "Attempt to perform arithmetic operation on non-numeric literal"
DivisionByZero == "Division by zero"
IllegalOperator == "Illegal operator in expression"

BinaryError(op, lhs, rhs) ==
  IF op \in {"==", "!="} THEN NoError
  ELSE IF op = "/" /\ rhs = IntObj(0) THEN DivisionByZero
  ELSE IF IsInt(lhs) /\ IsInt(rhs) THEN NoError ELSE NonNumeric

BinaryResult(op, lhs, rhs) ==
  LET a == lhs[2]
      b == rhs[2]
  IN  CASE op = "==" -> BoolObj(areEqual(lhs, rhs))
        [] op = "!=" -> BoolObj(~areEqual(lhs, rhs))
        [] op = "+" -> IntObj(Wrap(a + b))
        [] op = "-" -> IntObj(Wrap(a - b))
        [] op = "*" -> IntObj(Wrap(a * b))
        [] op = "/" -> IntObj(Wrap(Quotient(a, b)))
        [] op = "<" -> BoolObj(a < b)
        [] op = "<=" -> BoolObj(a <= b)
        [] op = ">" -> BoolObj(a > b)
        [] op = ">=" -> BoolObj(a >= b)

Traps(op, lhs, rhs) == op = "/" /\ lhs = IntObj(MinInt) /\ rhs = IntObj(-1)

\* What ++ and -- leave in a variable that holds the int n.
Stepped(op, n) == IntObj(Wrap(IF op = "++" THEN n + 1 ELSE n - 1))

\* The scope of a function body: no parent, the parameters defined one after the
\* other.
ArgumentScope(params, args) ==
  [objects |-> [x \in Name |->
     IF \E i \in DOMAIN params : params[i] = x
       THEN args[CHOOSE i \in DOMAIN params :
                   params[i] = x /\ \A j \in (i + 1)..Len(params) : params[j] # x]
       ELSE Absent],
   global |-> TRUE]

=============================================================================
