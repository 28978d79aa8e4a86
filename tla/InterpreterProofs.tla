------------------------- MODULE InterpreterProofs -------------------------
(***************************************************************************)
(* The interpreter never misses the result of an expression that it has    *)
(* visited, and has one scope for each visit in progress, for every        *)
(* program, every width of int and every bound.                            *)
(***************************************************************************)
EXTENDS Interpreter, TreeWalkerProofs

Facts == INSTANCE ScopesProofs

\* The operators of the two instances are the same.
LEMMA SameScopes ==
  /\ \A s, x : Env!contains(s, x) = Facts!contains(s, x)
  /\ \A s, x : Env!get(s, x) = Facts!get(s, x)
  /\ \A s, x, v : Env!assign(s, x, v) = Facts!assign(s, x, v)
  /\ \A s, x, v : Env!defineOrAssign(s, x, v) = Facts!defineOrAssign(s, x, v)
  /\ \A s, g : Env!Enter(s, g) = Append(s, Facts!Opened(g))
  /\ \A s : Env!Leave(s) = Facts!Leave(s)
  /\ \A g : Env!Opened(g) = Facts!Opened(g)
  /\ \A V : Env!Scope(V) = Facts!Scope(V)
BY DEF Env!contains, Facts!contains, Env!get, Facts!get, Env!assign, Facts!assign,
       Env!defineOrAssign, Facts!defineOrAssign, Env!Enter,
       Env!Leave, Facts!Leave, Env!Holders, Facts!Holders, Env!Holder, Facts!Holder,
       Env!Visible, Facts!Visible, Env!Bind, Facts!Bind, Env!Opened, Facts!Opened,
       Env!Empty, Facts!Empty, Env!Scope, Facts!Scope, Env!Objects, Facts!Objects

-----------------------------------------------------------------------------
(***************************************************************************)
(* Objects.                                                                *)
(***************************************************************************)

\* Wrapped around, every result is an int.
LEMMA WrapType ==
  ASSUME NEW n \in Int
  PROVE  Wrap(n) \in Ints
<1> DEFINE half == 2^(Width - 1)
           full == 2^Width
<1>1. half \in Nat \ {0} /\ full = 2 * half
  BY Doubled, WidthAssumption
<1>2. /\ MinInt = -half /\ MaxInt = half - 1 /\ Wrap(n) = ((n - MinInt) % full) + MinInt
  BY DEF MinInt, MaxInt, Wrap
<1> HIDE DEF half, full
<1>3. n - MinInt \in Int /\ full \in Nat \ {0}
  BY <1>1, <1>2
<1>4. (n - MinInt) % full \in 0..(full - 1)
  BY <1>3
<1> QED
  BY <1>1, <1>2, <1>4 DEF Ints

\* They are integers, zero among them.
LEMMA ZeroInts == 0 \in Ints /\ Ints \subseteq Int
<1>1. 2^(Width - 1) \in Nat \ {0}
  BY Doubled, WidthAssumption
<1> QED
  BY <1>1 DEF Ints, MinInt, MaxInt

\* So is what a division computes before it is wrapped around.
LEMMA QuotientType ==
  ASSUME NEW a \in Int, NEW b \in Int, b # 0
  PROVE  Quotient(a, b) \in Int
<1>1. Magnitude(a) \in Int /\ Magnitude(b) \in Int /\ Magnitude(b) > 0
  BY DEF Magnitude
<1>2. Magnitude(a) \div Magnitude(b) \in Int
  BY <1>1
<1> QED
  BY <1>2 DEF Quotient

\* The objects made of a number, a truth value or a function.
LEMMA ObjectTypes ==
  /\ \A n \in Ints : IntObj(n) \in PrslObject
  /\ \A b \in BOOLEAN : BoolObj(b) \in PrslObject
  /\ \A f \in FuncExpr : FuncObj(f) \in PrslObject /\ IsFunc(FuncObj(f))
                         /\ FuncObj(f)[2] = f
  /\ Nil \in PrslObject
BY DEF IntObj, BoolObj, FuncObj, Nil, PrslObject, IsFunc

\* What the tag of an object tells.
LEMMA TagTypes ==
  ASSUME NEW obj \in PrslObject
  PROVE  /\ IsInt(obj) => obj[2] \in Ints /\ obj[2] \in Int
         /\ IsFunc(obj) => obj[2] \in FuncExpr
         /\ obj[1] = "bool" => obj[2] \in BOOLEAN
<1>1. IsInt(obj) => obj[2] \in Ints
  BY DEF PrslObject, IsInt, Nil
<1>2. IsFunc(obj) => obj[2] \in FuncExpr
  BY DEF PrslObject, IsFunc, Nil
<1>3. obj[1] = "bool" => obj[2] \in BOOLEAN
  BY DEF PrslObject, Nil
<1> QED
  BY <1>1, <1>2, <1>3, ZeroInts

\* An operator that does not fail yields an object.
LEMMA BinaryTypes ==
  ASSUME NEW op \in Operators \ {"++", "--"},
         NEW lhs \in PrslObject, NEW rhs \in PrslObject,
         BinaryError(op, lhs, rhs) = NoError
  PROVE  BinaryResult(op, lhs, rhs) \in PrslObject
<1> DEFINE a == lhs[2]
           b == rhs[2]
<1>1. CASE op = "=="
  BY <1>1, ObjectTypes DEF BinaryResult, areEqual
<1>2. CASE op = "!="
  BY <1>2, ObjectTypes DEF BinaryResult
<1>3. CASE op \notin {"==", "!="}
  <2>1. IsInt(lhs) /\ IsInt(rhs) /\ (op = "/" => rhs # IntObj(0))
    BY <1>3 DEF BinaryError, NoError, NonNumeric, DivisionByZero
  <2>2. a \in Int /\ b \in Int
    BY <2>1, TagTypes
  <2>3. CASE op \in {"<", "<=", ">", ">="}
    <3>1. BinaryResult(op, lhs, rhs) \in
            {BoolObj(a < b), BoolObj(a <= b), BoolObj(a > b), BoolObj(a >= b)}
      BY <2>3 DEF BinaryResult
    <3> HIDE DEF a, b
    <3>2. /\ (a < b) \in BOOLEAN /\ (a <= b) \in BOOLEAN
          /\ (a > b) \in BOOLEAN /\ (a >= b) \in BOOLEAN
      BY <2>2
    <3> QED
      BY <3>1, <3>2, ObjectTypes
  <2>4. CASE op \in {"+", "-", "*"}
    <3>1. BinaryResult(op, lhs, rhs) \in
            {IntObj(Wrap(a + b)), IntObj(Wrap(a - b)), IntObj(Wrap(a * b))}
      BY <2>4 DEF BinaryResult
    <3> HIDE DEF a, b
    <3>2. a + b \in Int /\ a - b \in Int /\ a * b \in Int
      BY <2>2
    <3>3. Wrap(a + b) \in Ints /\ Wrap(a - b) \in Ints /\ Wrap(a * b) \in Ints
      BY <3>2, WrapType
    <3> QED
      BY <3>1, <3>3, ObjectTypes
  <2>5. CASE op = "/"
    <3>1. BinaryResult(op, lhs, rhs) = IntObj(Wrap(Quotient(a, b)))
      BY <2>5 DEF BinaryResult
    <3>2. b # 0
      <4>1. rhs \in {"int"} \X Ints
        BY <2>1 DEF PrslObject, IsInt, Nil
      <4>2. rhs = IntObj(b)
        BY <4>1 DEF IntObj
      <4> QED
        BY <2>1, <2>5, <4>2
    <3> HIDE DEF a, b
    <3> QED
      BY <2>2, <3>1, <3>2, QuotientType, WrapType, ObjectTypes
  <2>6. op \in {"<", "<=", ">", ">=", "+", "-", "*", "/"}
    BY <1>3 DEF Operators
  <2> QED
    BY <2>3, <2>4, <2>5, <2>6
<1> QED
  BY <1>1, <1>2, <1>3

\* ++, -- and the unary minus leave an int.
LEMMA SteppedTypes ==
  ASSUME NEW n \in Int
  PROVE  /\ \A op : Stepped(op, n) \in PrslObject
         /\ IntObj(Wrap(-n)) \in PrslObject
<1>1. n + 1 \in Int /\ n - 1 \in Int /\ -n \in Int
  OBVIOUS
<1>2. Wrap(n + 1) \in Ints /\ Wrap(n - 1) \in Ints /\ Wrap(-n) \in Ints
  BY <1>1, WrapType
<1> QED
  BY <1>2, ObjectTypes DEF Stepped

\* Every object can be printed.
LEMMA PrintedTypes ==
  ASSUME NEW obj \in PrslObject
  PROVE  toString(obj) \in Printable
<1>1. CASE obj[1] = "bool"
  BY <1>1 DEF toString, Printable, IntObj
<1>2. CASE obj[1] = "func"
  BY <1>2 DEF toString, Printable
<1>3. CASE obj[1] \notin {"bool", "func"}
  <2>1. toString(obj) = obj
    BY <1>3 DEF toString
  <2>2. obj \in ({"int"} \X Ints) \cup {Nil}
    BY <1>3 DEF PrslObject, Nil
  <2> QED
    BY <2>1, <2>2 DEF Printable
<1> QED
  BY <1>1, <1>2, <1>3

\* The arguments of a call, as many as the function has parameters.
LEMMA ArgumentTypes ==
  ASSUME NEW V, NEW params \in Seq(Name), NEW args \in Seq(V),
         Len(params) = Len(args)
  PROVE  /\ ArgumentScope(params, args) \in Facts!Scope(V)
         /\ ArgumentScope(params, args).global = TRUE
<1> DEFINE Is(x) == {i \in DOMAIN params : params[i] = x}
           arg(x) == CHOOSE i \in DOMAIN params :
                       params[i] = x /\ \A j \in (i + 1)..Len(params) : params[j] # x
<1>1. Len(params) \in Nat /\ DOMAIN params = 1..Len(params) /\ DOMAIN args = DOMAIN params
  OBVIOUS
<1>2. ASSUME NEW x \in Name, \E i \in DOMAIN params : params[i] = x
      PROVE  args[arg(x)] \in V
  <2>1. Is(x) \in SUBSET (1..Len(params)) /\ Is(x) # {}
    BY <1>1, <1>2
  <2> HIDE DEF Is
  <2>2. PICK i \in Is(x) : \A j \in Is(x) : j <= i
    BY <1>1, <2>1, Facts!GreatestNumber
  <2>3. /\ i \in DOMAIN params /\ params[i] = x
        /\ \A j \in (i + 1)..Len(params) : params[j] # x
    <3>1. i \in 1..Len(params) /\ params[i] = x
      BY <1>1, <2>1, <2>2 DEF Is
    <3>2. ASSUME NEW j \in (i + 1)..Len(params), params[j] = x PROVE FALSE
      <4>1. j \in Is(x) /\ j > i
        BY <1>1, <3>1, <3>2 DEF Is
      <4> QED
        BY <4>1, <2>2, <3>1
    <3> QED
      BY <1>1, <3>1, <3>2
  <2>4. arg(x) \in DOMAIN params
    BY <2>3
  <2> HIDE DEF arg
  <2> QED
    BY <2>4, <1>1
<1>3. /\ ArgumentScope(params, args).objects =
           [x \in Name |-> IF \E i \in DOMAIN params : params[i] = x
                            THEN args[arg(x)] ELSE Absent]
      /\ ArgumentScope(params, args).global = TRUE
      /\ ArgumentScope(params, args) =
           [objects |-> ArgumentScope(params, args).objects, global |-> TRUE]
  BY DEF ArgumentScope
<1> HIDE DEF arg
<1>4. ArgumentScope(params, args).objects \in [Name -> V \cup {Absent}]
  BY <1>2, <1>3
<1> QED
  BY <1>3, <1>4 DEF Facts!Scope, Facts!Objects

-----------------------------------------------------------------------------
(***************************************************************************)
(* The inductive invariant.                                                *)
(***************************************************************************)

\* How many results the rest of a visit takes, and by how many an item that is
\* done changes their number.
Need(item) ==
  IF item.phase # "resume" THEN 0
  ELSE CASE item.node.kind \in {"Assignment", "Unary", "Postfix", "VarStmt", "If",
                                "While", "Print", "ExprStmt", "Return"} -> 1
         [] item.node.kind = "Binary" -> 2
         [] item.node.kind = "Call" -> Len(item.node.kids) + 1
         [] OTHER -> 0
Gain(item) ==
  IF item.phase = "visit" THEN IF item.node.kind \in ExprKind THEN 1 ELSE 0
  ELSE IF item.phase # "resume" THEN 0
  ELSE CASE item.node.kind \in {"VarStmt", "If", "While", "Print", "ExprStmt",
                                "Return", "Binary"} -> -1
         [] item.node.kind = "Call" -> -Len(item.node.kids)
         [] item.node.kind = "Scope" -> 1
         [] OTHER -> 0
Calling(item) == item.phase = "resume" /\ item.node.kind = "Call"

\* h[p] is the number of results when the item at p is reached: enough for it.
Heights(h, items, depth) ==
  /\ h \in [1..(Len(items) + 1) -> Nat]
  /\ h[1] = depth
  /\ \A p \in 1..Len(items) :
       h[p] >= Need(items[p]) /\ h[p + 1] = h[p] + Gain(items[p])

\* vals[k] is the function that item calls, with as many parameters as it has
\* arguments.
CallsAt(item, k, vals) ==
  /\ k \in 1..Len(vals)
  /\ IsFunc(vals[k])
  /\ Len(vals[k][2].params) = Len(item.node.kids)

\* The function of a call in progress waits below its arguments, and no item before
\* the call takes it.
CallsWait(h, items, vals) ==
  \A p \in 1..Len(items) :
    Calling(items[p]) =>
      /\ CallsAt(items[p], h[p] - Len(items[p].node.kids), vals)
      /\ \A q \in 1..(p - 1) :
           h[q] - Need(items[q]) >= h[p] - Len(items[p].node.kids)

HeightsFit(items, vals) ==
  \E h : Heights(h, items, Len(vals)) /\ CallsWait(h, items, vals)

\* Every visit in progress finds the results it waits for.
ResultsThere == HeightsFit(todo, values)

Incrementing(item) ==
  /\ item.phase = "resume"
  /\ item.node.kind = "Postfix"
  /\ item.node.kids[1].kind = "Var"

\* The variable that ++ or -- changes is read just before.
IncrementBound ==
  \A p \in DOMAIN todo :
    Incrementing(todo[p]) =>
      IF p = 1 THEN Facts!contains(scopes, todo[p].node.kids[1].name)
               ELSE todo[p - 1] = Visit(todo[p].node.kids[1])

\* evaluateScope counts the statements of its scope.
LoopsInside ==
  \A p \in DOMAIN todo : Looping(todo[p]) => todo[p].index <= Len(todo[p].node.kids)

IInv ==
  TypeOK /\ ScopesMatchVisits /\ ResultsThere /\ IncrementBound /\ LoopsInside

-----------------------------------------------------------------------------
(***************************************************************************)
(* The results.                                                            *)
(***************************************************************************)

\* The first of old is replaced by items, its results leave now of vals.
Computes(old, items, vals, now) ==
  \E g : /\ Heights(g, items, Len(now))
         /\ CallsWait(g, items, now)
         /\ Len(vals) \in Nat /\ Len(now) \in Nat
         /\ g[Len(items) + 1] = Len(vals) + Gain(old[1])
         /\ \A q \in 1..Len(items) :
              g[q] - Need(items[q]) >= Len(vals) - Need(old[1])
         /\ Len(now) >= Len(vals) - Need(old[1])
         /\ \A k \in 1..(Len(vals) - Need(old[1])) : now[k] = vals[k]

\* What items take and give are numbers.
LEMMA NeedTypes ==
  ASSUME NEW item \in Item
  PROVE  /\ Need(item) \in Nat /\ Gain(item) \in Int
         /\ Need(item) + Gain(item) >= 0
         /\ Len(item.node.kids) \in Nat
         /\ Calling(item) => Need(item) # 0
<1>1. Len(item.node.kids) \in Nat
  <2>1. item.node \in Node
    BY DEF Item
  <2> QED
    BY <2>1, NodeFacts
<1>2. Need(item) \in {0, 1, 2, Len(item.node.kids) + 1}
  BY DEF Need
<1>3. Gain(item) \in {0, 1, -1, -Len(item.node.kids)}
  BY DEF Gain
<1>4. Gain(item) = -1 => Need(item) >= 1
  <2>1. CASE item.node.kind = "Call"
    BY <2>1, <1>1 DEF Gain, Need
  <2>2. CASE item.node.kind # "Call"
    BY <2>2, <1>1 DEF Gain, Need
  <2> QED
    BY <2>1, <2>2
<1>5. Gain(item) \in {0, 1, -1} \/ Need(item) = Len(item.node.kids) + 1
  BY DEF Gain, Need
<1>6. Calling(item) => Need(item) = Len(item.node.kids) + 1
  BY DEF Calling, Need
<1> QED
  BY <1>1, <1>2, <1>3, <1>4, <1>5, <1>6

\* The items that wait still find their results after such a step.
LEMMA ComputesKeeps ==
  ASSUME NEW old, NEW items, NEW new, Walks(old, items, new),
         NEW vals, NEW now, HeightsFit(old, vals), Computes(old, items, vals, now)
  PROVE  HeightsFit(new, now)
<1>1. PICK h : Heights(h, old, Len(vals)) /\ CallsWait(h, old, vals)
  BY DEF HeightsFit
<1>2. PICK g :
         /\ Heights(g, items, Len(now))
         /\ CallsWait(g, items, now)
         /\ Len(vals) \in Nat /\ Len(now) \in Nat
         /\ g[Len(items) + 1] = Len(vals) + Gain(old[1])
         /\ \A q \in 1..Len(items) :
              g[q] - Need(items[q]) >= Len(vals) - Need(old[1])
         /\ Len(now) >= Len(vals) - Need(old[1])
         /\ \A k \in 1..(Len(vals) - Need(old[1])) : now[k] = vals[k]
  BY DEF Computes
<1> DEFINE n == Len(items)
           m == Len(old)
           f == [p \in 1..(Len(new) + 1) |-> IF p <= n THEN g[p] ELSE h[p - n + 1]]
<1>3. /\ n \in Nat /\ m \in Nat /\ m >= 1
      /\ old \in Seq(Item) /\ items \in Seq(Item)
      /\ DOMAIN new = 1..Len(new)
  <2>1. new \in Seq(Item)
    BY WalkStep
  <2> QED
    BY <2>1 DEF Walks
<1>4. /\ Len(new) = n + m - 1
      /\ \A p \in 1..n : new[p] = items[p]
      /\ \A j \in 2..m : new[n + j - 1] = old[j]
  BY WalkStep
<1>5. \A p \in DOMAIN new :
        \/ p \in 1..n /\ new[p] = items[p]
        \/ \E j \in 2..m : p = n + j - 1 /\ new[p] = old[j]
  BY WalkPlaces
<1>6. /\ h \in [1..(m + 1) -> Nat] /\ h[1] = Len(vals)
      /\ g \in [1..(n + 1) -> Nat] /\ g[1] = Len(now)
      /\ h[2] = Len(vals) + Gain(old[1])
  <2>1. 1 \in 1..Len(old) /\ 1 + 1 = 2
    BY <1>3
  <2> QED
    BY <1>1, <1>2, <2>1 DEF Heights
<1>7. Need(old[1]) \in Nat
  BY <1>3, NeedTypes
<1> HIDE DEF n, m
<1>8. /\ \A p \in 1..(n + 1) : f[p] = g[p]
      /\ \A j \in 2..(m + 1) : f[n + j - 1] = h[j]
      /\ f \in [1..(Len(new) + 1) -> Nat]
  <2>1. ASSUME NEW p \in 1..(n + 1) PROVE f[p] = g[p]
    <3>1. p \in 1..(Len(new) + 1)
      BY <1>3, <1>4
    <3>2. CASE p <= n
      BY <3>1, <3>2
    <3>3. CASE p = n + 1
      <4>1. p - n + 1 = 2 /\ ~(p <= n)
        BY <3>3, <1>3
      <4>2. g[n + 1] = h[2]
        BY <1>2, <1>6 DEF n
      <4> QED
        BY <3>1, <3>3, <4>1, <4>2
    <3>4. p <= n \/ p = n + 1
      BY <1>3
    <3> QED
      BY <3>2, <3>3, <3>4
  <2>2. ASSUME NEW j \in 2..(m + 1) PROVE f[n + j - 1] = h[j]
    <3>1. n + j - 1 \in 1..(Len(new) + 1) /\ ~(n + j - 1 <= n) /\ (n + j - 1) - n + 1 = j
      BY <1>3, <1>4
    <3> QED
      BY <3>1
  <2>3. ASSUME NEW p \in 1..(Len(new) + 1) PROVE f[p] \in Nat
    <3>1. CASE p <= n
      BY <3>1, <1>3, <1>6
    <3>2. CASE ~(p <= n)
      <4>1. p - n + 1 \in 1..(m + 1)
        BY <3>2, <1>3, <1>4
      <4> QED
        BY <3>2, <4>1, <1>6
    <3> QED
      BY <3>1, <3>2
  <2> QED
    BY <2>1, <2>2, <2>3
<1> HIDE DEF f
<1>9. Heights(f, new, Len(now))
  <2>1. f[1] = Len(now)
    BY <1>3, <1>6, <1>8
  <2>2. ASSUME NEW p \in 1..Len(new)
        PROVE  f[p] >= Need(new[p]) /\ f[p + 1] = f[p] + Gain(new[p])
    <3>1. CASE p \in 1..n /\ new[p] = items[p]
      <4>1. p \in 1..(n + 1) /\ p + 1 \in 1..(n + 1)
        BY <3>1, <1>3
      <4>2. g[p] >= Need(items[p]) /\ g[p + 1] = g[p] + Gain(items[p])
        BY <3>1, <1>2 DEF Heights, n
      <4> QED
        BY <3>1, <4>1, <4>2, <1>8
    <3>2. ASSUME NEW j \in 2..m, p = n + j - 1, new[p] = old[j]
          PROVE  f[p] >= Need(new[p]) /\ f[p + 1] = f[p] + Gain(new[p])
      <4>1. /\ j \in 1..m /\ j \in 2..(m + 1) /\ j + 1 \in 2..(m + 1)
            /\ p + 1 = n + (j + 1) - 1
        BY <3>2, <1>3
      <4>2. h[j] >= Need(old[j]) /\ h[j + 1] = h[j] + Gain(old[j])
        BY <4>1, <1>1 DEF Heights, m
      <4>3. f[p] = h[j] /\ f[p + 1] = h[j + 1]
        BY <3>2, <4>1, <1>8
      <4> QED
        BY <3>2, <4>2, <4>3
    <3> QED
      BY <3>1, <3>2, <1>3, <1>5
  <2> QED
    BY <1>8, <2>1, <2>2 DEF Heights
<1>10. CallsWait(f, new, now)
  <2> SUFFICES ASSUME NEW p \in 1..Len(new), Calling(new[p])
               PROVE  /\ CallsAt(new[p], f[p] - Len(new[p].node.kids), now)
                      /\ \A q \in 1..(p - 1) :
                           f[q] - Need(new[q]) >= f[p] - Len(new[p].node.kids)
    BY DEF CallsWait
  <2>1. CASE p \in 1..n /\ new[p] = items[p]
    <3>1. /\ CallsAt(items[p], g[p] - Len(items[p].node.kids), now)
          /\ \A q \in 1..(p - 1) :
               g[q] - Need(items[q]) >= g[p] - Len(items[p].node.kids)
      BY <2>1, <1>2 DEF CallsWait, n
    <3>2. f[p] = g[p]
      BY <2>1, <1>3, <1>8
    <3>3. ASSUME NEW q \in 1..(p - 1)
          PROVE  f[q] = g[q] /\ new[q] = items[q]
      <4>1. q \in 1..n /\ q \in 1..(n + 1)
        BY <2>1, <1>3
      <4> QED
        BY <4>1, <1>4, <1>8
    <3> QED
      BY <2>1, <3>1, <3>2, <3>3
  <2>2. ASSUME NEW j \in 2..m, p = n + j - 1, new[p] = old[j]
        PROVE  /\ CallsAt(new[p], f[p] - Len(new[p].node.kids), now)
               /\ \A q \in 1..(p - 1) :
                    f[q] - Need(new[q]) >= f[p] - Len(new[p].node.kids)
    <3> DEFINE k == h[j] - Len(old[j].node.kids)
    <3>1. /\ j \in 1..m /\ j \in 2..(m + 1)
          /\ 1 \in 1..(j - 1)
      BY <2>2, <1>3
    <3>2. f[p] = h[j]
      BY <2>2, <3>1, <1>8
    <3>3. /\ CallsAt(old[j], k, vals)
          /\ \A i \in 1..(j - 1) : h[i] - Need(old[i]) >= k
      BY <2>2, <3>1, <1>1 DEF CallsWait, m
    <3> HIDE DEF k
    <3>4. k \in Int /\ k <= Len(vals) - Need(old[1])
      <4>1. k \in 1..Len(vals)
        BY <3>3 DEF CallsAt
      <4>2. h[1] - Need(old[1]) >= k
        BY <3>1, <3>3
      <4> QED
        BY <4>1, <4>2, <1>2, <1>6, <1>7
    <3>5. CallsAt(old[j], k, now)
      <4>1. k \in 1..Len(vals) /\ k \in 1..(Len(vals) - Need(old[1])) /\ k \in 1..Len(now)
        BY <3>3, <3>4, <1>2, <1>7 DEF CallsAt
      <4>2. now[k] = vals[k]
        BY <4>1, <1>2
      <4> QED
        BY <3>3, <4>1, <4>2 DEF CallsAt
    <3>6. ASSUME NEW q \in 1..(p - 1)
          PROVE  f[q] - Need(new[q]) >= k
      <4>1. q \in DOMAIN new
        BY <1>3
      <4>2. CASE q \in 1..n /\ new[q] = items[q]
        <5>1. f[q] = g[q]
          <6>1. q \in 1..(n + 1)
            BY <4>2, <1>3
          <6> QED
            BY <6>1, <1>8
        <5>2. g[q] - Need(items[q]) >= Len(vals) - Need(old[1])
          BY <4>2, <1>2 DEF n
        <5>3. g[q] \in Nat /\ Need(items[q]) \in Nat
          <6>1. q \in 1..(n + 1) /\ q \in 1..Len(items)
            BY <4>2, <1>3 DEF n
          <6>2. g[q] \in Nat
            BY <6>1, <1>6
          <6>3. items[q] \in Item
            BY <6>1, <1>3
          <6> QED
            BY <6>2, <6>3, NeedTypes
        <5> QED
          BY <4>2, <5>1, <5>2, <5>3, <3>4, <1>2, <1>7
      <4>3. ASSUME NEW i \in 2..m, q = n + i - 1, new[q] = old[i]
            PROVE  f[q] - Need(new[q]) >= k
        <5>1. i \in 1..(j - 1) /\ i \in 2..(m + 1)
          BY SMTT(30), <4>3, <2>2, <1>3
        <5>2. f[q] = h[i]
          BY <4>3, <5>1, <1>8
        <5> QED
          BY <4>3, <5>1, <5>2, <3>3
      <4> QED
        BY <4>1, <4>2, <4>3, <1>5
    <3>7. f[p] - Len(new[p].node.kids) = k
      BY <2>2, <3>2 DEF k
    <3> QED
      BY <2>2, <3>5, <3>6, <3>7
  <2> QED
    BY <2>1, <2>2, <1>3, <1>5
<1> QED
  BY <1>9, <1>10 DEF HeightsFit

\* Of the results vals the last n are taken, and as many as gives follow: now.
Leaves(vals, now, n, gives) ==
  /\ vals \in Seq(PrslObject)
  /\ now \in Seq(PrslObject)
  /\ n \in 0..Len(vals)
  /\ gives \in Nat
  /\ Len(now) = Len(vals) - n + gives
  /\ \A k \in 1..(Len(vals) - n) : now[k] = vals[k]

\* The results of the items before the one at q, if each has one or none has.
Results(each, q) == IF each THEN q - 1 ELSE 0

\* Whatever has no rest: a visit, a registration.
Plain(item, each) == Need(item) = 0 /\ Gain(item) = IF each THEN 1 ELSE 0

\* The last item is reached with there results: it finds what it waits for above
\* floor, and leaves end.
LastFits(last, there, end, floor, now) ==
  /\ there + Gain(last) = end
  /\ there - Need(last) >= floor
  /\ Calling(last) => CallsAt(last, there - Len(last.node.kids), now)

\* The items but the last wait for nothing.
Straight(each, old, items, vals, now) ==
  /\ items \in Seq(Item)
  /\ old[1] \in Item
  /\ Need(old[1]) <= Len(vals)
  /\ \E n \in 0..Need(old[1]), gives \in Nat : Leaves(vals, now, n, gives)
  /\ \A q \in 1..(Len(items) - 1) : Plain(items[q], each)
  /\ items = <<>> => Len(now) = Len(vals) + Gain(old[1])
  /\ items # <<>> =>
       LastFits(items[Len(items)], Len(now) + Results(each, Len(items)),
                Len(vals) + Gain(old[1]), Len(vals) - Need(old[1]), now)

\* Then the results fit.
LEMMA StraightComputes ==
  ASSUME NEW each \in BOOLEAN, NEW old, NEW items, NEW vals, NEW now,
         Straight(each, old, items, vals, now)
  PROVE  Computes(old, items, vals, now)
<1> DEFINE n == Len(items)
           first == Need(old[1])
           end == Len(vals) + Gain(old[1])
           g == [q \in 1..(n + 1) |-> IF q <= n THEN Len(now) + Results(each, q)
                                                ELSE end]
<1>1. /\ items \in Seq(Item) /\ n \in Nat
      /\ first \in Nat /\ first <= Len(vals) /\ Gain(old[1]) \in Int
      /\ first + Gain(old[1]) >= 0
  BY NeedTypes DEF Straight
<1>2. PICK m \in 0..first, gives \in Nat : Leaves(vals, now, m, gives)
  BY DEF Straight
<1>3. /\ Len(vals) \in Nat /\ Len(now) \in Nat
      /\ Len(now) >= Len(vals) - first
      /\ \A k \in 1..(Len(vals) - first) : now[k] = vals[k]
  <2>1. /\ Len(vals) \in Nat /\ Len(now) \in Nat
        /\ Len(now) = Len(vals) - m + gives
        /\ \A k \in 1..(Len(vals) - m) : now[k] = vals[k]
    BY <1>2 DEF Leaves
  <2> HIDE DEF first
  <2> QED
    BY <2>1, <1>1, <1>2
<1>4. \A q \in 1..n : items[q] \in Item
  BY <1>1
<1>5. \A q \in 1..n : Need(items[q]) \in Nat /\ Gain(items[q]) \in Int
  BY <1>4, NeedTypes
<1>6. end \in Nat
  BY <1>1, <1>3
<1>7. \A q \in 1..(n + 1) : Results(each, q) \in Nat
  BY <1>1 DEF Results
<1>8. /\ \A q \in 1..n : g[q] = Len(now) + Results(each, q)
      /\ g[n + 1] = end
      /\ g \in [1..(n + 1) -> Nat]
  BY SMTT(30), <1>1, <1>3, <1>6, <1>7
<1>9. \A q \in 1..(n - 1) : Need(items[q]) = 0 /\ Gain(items[q]) = IF each THEN 1 ELSE 0
  BY DEF Straight, Plain
<1>10. n > 0 =>
         LastFits(items[n], Len(now) + Results(each, n), end, Len(vals) - first, now)
  <2>1. n > 0 => items # <<>>
    BY <1>1
  <2> QED
    BY <2>1 DEF Straight
<1>11. n = 0 => Len(now) = end
  BY <1>1 DEF Straight
<1> HIDE DEF n, first, end, g
<1>12. g[1] = Len(now)
  <2>1. CASE n = 0
    BY <2>1, <1>8, <1>11
  <2>2. CASE n > 0
    <3>1. 1 \in 1..n /\ Results(each, 1) = 0
      BY <2>2, <1>1 DEF Results
    <3> QED
      BY <3>1, <1>3, <1>8
  <2> QED
    BY <2>1, <2>2, <1>1
<1>13. ASSUME NEW q \in 1..n
       PROVE  /\ g[q] >= Need(items[q])
              /\ g[q + 1] = g[q] + Gain(items[q])
              /\ g[q] - Need(items[q]) >= Len(vals) - first
  <2>1. CASE q = n
    <3>1. g[q] = Len(now) + Results(each, q) /\ g[q + 1] = end /\ n > 0
      BY <2>1, <1>1, <1>8
    <3>2. Results(each, q) \in Nat /\ Need(items[q]) \in Nat
      BY <2>1, <1>1, <1>5, <1>7
    <3> QED
      BY <2>1, <3>1, <3>2, <1>1, <1>3, <1>10 DEF LastFits
  <2>2. CASE q # n
    <3>1. q \in 1..(n - 1) /\ q + 1 \in 1..n
      BY <2>2, <1>1
    <3>2. g[q] = Len(now) + Results(each, q) /\ g[q + 1] = Len(now) + Results(each, q + 1)
      BY <3>1, <1>8
    <3>3. Results(each, q + 1) = Results(each, q) + Gain(items[q])
      <4>1. Gain(items[q]) = IF each THEN 1 ELSE 0
        BY <3>1, <1>9
      <4> QED
        BY <4>1 DEF Results
    <3>4. Results(each, q) \in Nat /\ Gain(items[q]) \in Int /\ Need(items[q]) = 0
      <4>1. q \in 1..(n + 1)
        BY <1>1
      <4> QED
        BY <3>1, <4>1, <1>5, <1>7, <1>9
    <3> QED
      BY SMTT(30), <3>2, <3>3, <3>4, <1>1, <1>3
  <2> QED
    BY <2>1, <2>2
<1>14. Heights(g, items, Len(now))
  BY <1>8, <1>12, <1>13 DEF Heights, n
<1>15. CallsWait(g, items, now)
  <2> SUFFICES ASSUME NEW p \in 1..n, Calling(items[p])
               PROVE  /\ CallsAt(items[p], g[p] - Len(items[p].node.kids), now)
                      /\ \A q \in 1..(p - 1) :
                           g[q] - Need(items[q]) >= g[p] - Len(items[p].node.kids)
    BY DEF CallsWait, n
  <2>1. p = n
    <3>1. Need(items[p]) # 0
      BY <1>4, NeedTypes
    <3> QED
      BY <3>1, <1>1, <1>9
  <2>2. CallsAt(items[p], g[p] - Len(items[p].node.kids), now)
    <3>1. n > 0 /\ g[p] = Len(now) + Results(each, p)
      BY <2>1, <1>1, <1>8
    <3>2. LastFits(items[p], Len(now) + Results(each, p), end, Len(vals) - first, now)
      BY <2>1, <3>1, <1>10
    <3> QED
      BY <3>1, <3>2 DEF LastFits
  <2>3. g[p] - Len(items[p].node.kids) <= Len(now)
    BY <2>2, <1>3 DEF CallsAt
  <2>4. ASSUME NEW q \in 1..(p - 1)
        PROVE  g[q] - Need(items[q]) >= g[p] - Len(items[p].node.kids)
    <3>1. q \in 1..(n - 1) /\ q \in 1..n /\ q \in 1..(n + 1)
      BY <2>1, <1>1
    <3>2. g[q] = Len(now) + Results(each, q) /\ Need(items[q]) = 0 /\ Results(each, q) \in Nat
      BY <3>1, <1>7, <1>8, <1>9
    <3>3. g[p] - Len(items[p].node.kids) \in Int
      BY <2>2 DEF CallsAt
    <3> QED
      BY <3>2, <3>3, <2>3, <1>3
  <2> QED
    BY <2>2, <2>4
<1>16. \A q \in 1..Len(items) : g[q] - Need(items[q]) >= Len(vals) - Need(old[1])
  BY <1>13 DEF n, first
<1>17. /\ g[Len(items) + 1] = Len(vals) + Gain(old[1])
       /\ Len(now) >= Len(vals) - Need(old[1])
       /\ \A k \in 1..(Len(vals) - Need(old[1])) : now[k] = vals[k]
  BY <1>3, <1>8 DEF n, first, end
<1> QED
  BY <1>3, <1>14, <1>15, <1>16, <1>17 DEF Computes

\* What the visits do to the results they hold.
LEMMA TakesGives ==
  ASSUME NEW vals \in Seq(PrslObject)
  PROVE  /\ Leaves(vals, vals, 0, 0)
         /\ \A obj \in PrslObject : Leaves(vals, Append(vals, obj), 0, 1)
         /\ \A n \in 0..Len(vals) :
              /\ Leaves(vals, Below(vals, n), n, 0)
              /\ \A obj \in PrslObject : Leaves(vals, Append(Below(vals, n), obj), n, 1)
<1>1. Leaves(vals, vals, 0, 0)
  BY DEF Leaves
<1>2. \A obj \in PrslObject : Leaves(vals, Append(vals, obj), 0, 1)
  BY DEF Leaves
<1>3. ASSUME NEW n \in 0..Len(vals)
      PROVE  /\ Leaves(vals, Below(vals, n), n, 0)
             /\ \A obj \in PrslObject : Leaves(vals, Append(Below(vals, n), obj), n, 1)
  <2> DEFINE rest == Below(vals, n)
  <2>1. /\ Len(vals) \in Nat /\ n \in Nat /\ Len(vals) - n \in Nat
        /\ Len(vals) - n <= Len(vals)
    OBVIOUS
  <2>2. /\ rest \in Seq(PrslObject) /\ Len(rest) = Len(vals) - n
        /\ \A k \in 1..(Len(vals) - n) : rest[k] = vals[k]
    BY <2>1 DEF Below
  <2> HIDE DEF rest
  <2>3. Leaves(vals, rest, n, 0)
    BY <2>1, <2>2 DEF Leaves
  <2>4. ASSUME NEW obj \in PrslObject PROVE Leaves(vals, Append(rest, obj), n, 1)
    <3>1. /\ Append(rest, obj) \in Seq(PrslObject)
          /\ Len(Append(rest, obj)) = Len(rest) + 1
          /\ \A k \in 1..Len(rest) : Append(rest, obj)[k] = rest[k]
      BY <2>2
    <3> QED
      BY <2>1, <2>2, <3>1 DEF Leaves
  <2> QED
    BY <2>3, <2>4 DEF rest
<1> QED
  BY <1>1, <1>2, <1>3

-----------------------------------------------------------------------------
(***************************************************************************)
(* What a step does.                                                       *)
(***************************************************************************)

\* The variables that the walk does not depend on.
OthersOK ==
  /\ functions \in [Name -> PrslObject \cup {Absent}]
  /\ \A x \in Name : functions[x] # Absent => IsFunc(functions[x])
  /\ returnStack \in Seq(PrslObject)
  /\ printed \in Seq(Printable)
  /\ status \in {Running, Finished, Terminated, Signalled} \cup RuntimeErrors

\* What an item says of the ones before it.
Begins(items) ==
  /\ \A q \in DOMAIN items :
       Looping(items[q]) => items[q].index <= Len(items[q].node.kids)
  /\ \A q \in DOMAIN items :
       Incrementing(items[q]) =>
         q > 1 /\ items[q - 1] = Visit(items[q].node.kids[1])

Reading(item) == item.phase = "visit" /\ item.node.kind = "Var"

\* The first item is replaced by items.
Does(items) ==
  /\ Walks(todo, items, todo')
  /\ InStep(todo, items, scopes, scopes')
  /\ SameBoundaries(items, scopes, scopes', {"Call"})
  /\ Facts!Kept(scopes, scopes')
  /\ scopes' \in Seq(Env!Scope(PrslObject))
  /\ Computes(todo, items, values, values')
  /\ values' \in Seq(PrslObject)
  /\ OthersOK'
  /\ Begins(items)
  /\ Reading(todo[1]) =>
       items = <<>> /\ Facts!contains(scopes', todo[1].node.name)

\* Such a step keeps the invariant.
LEMMA DoesKeeps ==
  ASSUME IInv, program' = program, NEW items, Does(items)
  PROVE  IInv'
<1>1. /\ Walks(todo, items, todo')
      /\ InStep(todo, items, scopes, scopes')
      /\ SameBoundaries(items, scopes, scopes', {"Call"})
      /\ ScopesNested(todo, scopes, {"Call"})
  BY DEF Does, IInv, ScopesMatchVisits
<1>2. ScopesNested(todo', scopes', {"Call"})
  BY <1>1, NestedStep
<1>3. /\ todo' \in Seq(Item)
      /\ Len(todo') = Len(items) + Len(todo) - 1
      /\ \A p \in 1..Len(items) : todo'[p] = items[p]
      /\ \A j \in 2..Len(todo) : todo'[Len(items) + j - 1] = todo[j]
  BY <1>1, WalkStep
<1>4. /\ Len(items) \in Nat /\ Len(todo) \in Nat /\ Len(todo) >= 1
      /\ Len(scopes') \in Nat
      /\ DOMAIN todo = 1..Len(todo) /\ DOMAIN items = 1..Len(items)
      /\ DOMAIN todo' = 1..Len(todo')
  BY <1>1, <1>3 DEF Walks, InStep
<1>5. TypeOK'
  <2>1. scopes' # <<>>
    <3>1. \A j \in 2..(Len(todo) + 1) : ScopeOf(todo, scopes, j) \in 1..Len(scopes')
      BY <1>1, NestedStep
    <3>2. Len(scopes') >= 1
      BY <3>1, <1>4
    <3> QED
      BY <3>2
  <2> QED
    BY <2>1, <1>3 DEF TypeOK, IInv, Does, OthersOK
<1>6. ScopesMatchVisits'
  BY <1>2 DEF ScopesMatchVisits
<1>7. ResultsThere'
  <2>1. HeightsFit(todo, values) /\ Computes(todo, items, values, values')
    BY DEF IInv, ResultsThere, Does
  <2> QED
    BY <2>1, <1>1, ComputesKeeps DEF ResultsThere
<1>8. IncrementBound'
  <2> SUFFICES ASSUME NEW p \in DOMAIN todo', Incrementing(todo'[p])
               PROVE  IF p = 1 THEN Facts!contains(scopes', todo'[p].node.kids[1].name)
                               ELSE todo'[p - 1] = Visit(todo'[p].node.kids[1])
    BY DEF IncrementBound
  <2>1. CASE p \in 1..Len(items) /\ todo'[p] = items[p]
    <3>1. p > 1 /\ items[p - 1] = Visit(items[p].node.kids[1])
      BY <2>1, <1>4 DEF Does, Begins
    <3>2. p - 1 \in 1..Len(items)
      BY <2>1, <3>1, <1>4
    <3> QED
      BY <2>1, <3>1, <3>2, <1>3
  <2>2. ASSUME NEW j \in 2..Len(todo), p = Len(items) + j - 1, todo'[p] = todo[j]
        PROVE  IF p = 1 THEN Facts!contains(scopes', todo'[p].node.kids[1].name)
                        ELSE todo'[p - 1] = Visit(todo'[p].node.kids[1])
    <3> DEFINE kid == todo[j].node.kids[1]
    <3>1. j \in DOMAIN todo /\ j # 1
      BY <1>4
    <3>2. todo[j - 1] = Visit(kid) /\ kid.kind = "Var"
      BY <2>2, <3>1 DEF IInv, IncrementBound, Incrementing
    <3> HIDE DEF kid
    <3>3. CASE j = 2
      <4>1. todo[1] = Visit(kid)
        BY <3>2, <3>3
      <4>2. todo[1].phase = "visit" /\ todo[1].node = kid
        BY <4>1 DEF Visit, AnItem
      <4>3. items = <<>> /\ Facts!contains(scopes', kid.name)
        BY <4>2, <3>2 DEF Does, Reading
      <4>4. p = 1
        BY <4>3, <3>3, <2>2
      <4> QED
        BY <4>3, <4>4, <2>2 DEF kid
    <3>4. CASE j # 2
      <4>1. j - 1 \in 2..Len(todo) /\ p - 1 = Len(items) + (j - 1) - 1 /\ p # 1
        BY <3>4, <2>2, <1>4
      <4>2. todo'[p - 1] = todo[j - 1]
        BY <4>1, <1>3
      <4> QED
        BY <4>1, <4>2, <3>2, <2>2 DEF kid
    <3> QED
      BY <3>3, <3>4
  <2> QED
    BY <2>1, <2>2, <1>1, WalkPlaces
<1>9. LoopsInside'
  <2> SUFFICES ASSUME NEW p \in DOMAIN todo', Looping(todo'[p])
               PROVE  todo'[p].index <= Len(todo'[p].node.kids)
    BY DEF LoopsInside
  <2>1. CASE p \in 1..Len(items) /\ todo'[p] = items[p]
    BY <2>1, <1>4 DEF Does, Begins
  <2>2. ASSUME NEW j \in 2..Len(todo), p = Len(items) + j - 1, todo'[p] = todo[j]
        PROVE  todo'[p].index <= Len(todo'[p].node.kids)
    <3>1. j \in DOMAIN todo
      BY <1>4
    <3> QED
      BY <2>2, <3>1 DEF IInv, LoopsInside
  <2> QED
    BY <2>1, <2>2, <1>1, WalkPlaces
<1> QED
  BY <1>5, <1>6, <1>7, <1>8, <1>9 DEF IInv

-----------------------------------------------------------------------------
(***************************************************************************)
(* The parts of an action.                                                 *)
(***************************************************************************)

\* What the guard says of the first item.
LEMMA First ==
  ASSUME IInv, NEW phase, NEW kinds, At(phase, kinds)
  PROVE  /\ todo \in Seq(Item) /\ todo # <<>>
         /\ todo[1] \in Item /\ todo[1].phase = phase
         /\ node \in Node /\ node.kind \in kinds /\ node = todo[1].node
         /\ scopes \in Seq(Facts!Scope(PrslObject)) /\ scopes # <<>>
         /\ Len(scopes) \in Nat
         /\ values \in Seq(PrslObject) /\ Len(values) \in Nat
         /\ Need(todo[1]) \in Nat /\ Need(todo[1]) <= Len(values)
         /\ OthersOK
<1>1. todo \in Seq(Item) /\ todo # <<>> /\ todo[1] \in Item
  BY DEF IInv, TypeOK, At
<1>2. todo[1].node \in Node
  BY <1>1 DEF Item
<1>3. scopes \in Seq(Facts!Scope(PrslObject)) /\ scopes # <<>>
  BY SameScopes DEF IInv, TypeOK
<1>4. values \in Seq(PrslObject) /\ OthersOK
  BY DEF IInv, TypeOK, OthersOK
<1>5. Need(todo[1]) <= Len(values)
  <2>1. PICK h : Heights(h, todo, Len(values))
    BY DEF IInv, ResultsThere, HeightsFit
  <2>2. 1 \in 1..Len(todo)
    BY <1>1
  <2>3. h[1] = Len(values) /\ h[1] >= Need(todo[1])
    BY <2>1, <2>2 DEF Heights
  <2>4. Len(values) \in Nat /\ Need(todo[1]) \in Nat
    BY <1>1, <1>4, NeedTypes
  <2> QED
    BY <2>3, <2>4
<1> QED
  BY <1>1, <1>2, <1>3, <1>4, <1>5, NeedTypes DEF At, node

\* The scopes after a step that opens and leaves none.
Stores ==
  \/ scopes' = scopes
  \/ \E x \in Name, v \in PrslObject : Facts!Stored(scopes, scopes', x, v)

\* Those that stay are kept.
LEMMA StoresEffect ==
  ASSUME scopes \in Seq(Facts!Scope(PrslObject)), Stores
  PROVE  /\ scopes' \in Seq(Facts!Scope(PrslObject))
         /\ Len(scopes') = Len(scopes)
         /\ Facts!Kept(scopes, scopes')
<1>1. CASE scopes' = scopes
  BY <1>1, Facts!KeptByNothing
<1>2. CASE \E x \in Name, v \in PrslObject : Facts!Stored(scopes, scopes', x, v)
  <2>1. PICK x \in Name, v \in PrslObject : Facts!Stored(scopes, scopes', x, v)
    BY <1>2
  <2>2. Absent \notin PrslObject
    BY InterpreterAssumption
  <2> QED
    BY <2>1, <2>2, Facts!KeptByStore
<1> QED
  BY <1>1, <1>2 DEF Stores

\* What is left to show of a step once its scopes are known.
Fits(items) ==
  /\ \E each \in BOOLEAN : Straight(each, todo, items, values, values')
  /\ OthersOK'
  /\ Begins(items)

\* A step that neither opens nor leaves a scope.
LEMMA QuietDoes ==
  ASSUME IInv, NEW phase, NEW kinds, At(phase, kinds), phase # "leave",
         NEW items, Quiet(items), Continue(items), Stores, Fits(items),
         Reading(todo[1]) =>
           items = <<>> /\ Facts!contains(scopes', todo[1].node.name)
  PROVE  Does(items)
<1>1. /\ todo \in Seq(Item) /\ todo # <<>> /\ todo[1].phase = phase
      /\ scopes \in Seq(Facts!Scope(PrslObject)) /\ Len(scopes) \in Nat
  BY First
<1>2. PICK each \in BOOLEAN : Straight(each, todo, items, values, values')
  BY DEF Fits
<1>3. items \in Seq(Item) /\ Computes(todo, items, values, values')
  BY <1>2, StraightComputes DEF Straight
<1>4. values' \in Seq(PrslObject)
  BY <1>2 DEF Straight, Leaves
<1>5. OpensLast(items) /\ Opening(items) = 0 /\ Closing(todo) = 0
  BY <1>1, <1>3, QuietItems DEF Closing
<1>6. Walks(todo, items, todo')
  BY <1>1, <1>3, <1>5 DEF Walks, Continue
<1>7. /\ scopes' \in Seq(Facts!Scope(PrslObject))
      /\ Len(scopes') = Len(scopes)
      /\ Facts!Kept(scopes, scopes')
  BY <1>1, StoresEffect
<1>8. InStep(todo, items, scopes, scopes')
  BY <1>1, <1>5, <1>7 DEF InStep
<1>9. SameBoundaries(items, scopes, scopes', {"Call"})
  BY <1>5, <1>7 DEF SameBoundaries, Facts!Kept
<1>10. scopes' \in Seq(Env!Scope(PrslObject))
  BY <1>7, SameScopes
<1> QED
  BY <1>3, <1>4, <1>6, <1>7, <1>8, <1>9, <1>10 DEF Does, Fits

\* A visit that begins with a scope of its own: of a block, or of a call.
LEMMA EnterDoes ==
  ASSUME IInv, NEW phase, NEW kinds, At(phase, kinds), phase # "leave", "Var" \notin kinds,
         NEW before, NEW items, EndsWith(items, before, Leaving(node)),
         Continue(items), Fits(items),
         NEW scope \in Facts!Scope(PrslObject), scope.global <=> node.kind = "Call",
         scopes' = Append(scopes, scope)
  PROVE  Does(items)
<1>1. /\ todo \in Seq(Item) /\ todo # <<>> /\ todo[1].phase = phase
      /\ scopes \in Seq(Facts!Scope(PrslObject)) /\ Len(scopes) \in Nat
      /\ node \in Node /\ node.kind \in kinds /\ node = todo[1].node
  BY First
<1>2. PICK each \in BOOLEAN : Straight(each, todo, items, values, values')
  BY DEF Fits
<1>3. items \in Seq(Item) /\ Computes(todo, items, values, values')
  BY <1>2, StraightComputes DEF Straight
<1>4. values' \in Seq(PrslObject)
  BY <1>2 DEF Straight, Leaves
<1>5. /\ OpensLast(items) /\ Opening(items) = 1
      /\ items[Len(items)].node = node
  <2>1. /\ Leaving(node).phase = "leave" /\ Leaving(node).node = node
    BY ZenonT(30), <1>1, ItemTypes
  <2>2. /\ OpensLast(items)
        /\ Opening(items) = IF Leaving(node).phase = "leave" THEN 1 ELSE 0
        /\ items[Len(items)] = Leaving(node)
    BY QuietThen
  <2> QED
    BY <2>1, <2>2
<1>6. Closing(todo) = 0
  BY <1>1 DEF Closing
<1>7. Walks(todo, items, todo')
  BY <1>1, <1>3, <1>5 DEF Walks, Continue
<1>8. /\ scopes' \in Seq(Facts!Scope(PrslObject))
      /\ Len(scopes') = Len(scopes) + 1
      /\ \A j \in 1..Len(scopes) : scopes'[j] = scopes[j]
      /\ scopes'[Len(scopes) + 1] = scope
  BY <1>1, Facts!EnterEffect
<1>9. Facts!Kept(scopes, scopes')
  BY <1>1, Facts!KeptByEnter
<1>10. InStep(todo, items, scopes, scopes')
  BY <1>1, <1>5, <1>6, <1>8 DEF InStep
<1>11. SameBoundaries(items, scopes, scopes', {"Call"})
  BY <1>5, <1>8 DEF SameBoundaries
<1>12. scopes' \in Seq(Env!Scope(PrslObject))
  BY <1>8, SameScopes
<1>13. ~Reading(todo[1])
  BY <1>1 DEF Reading
<1> QED
  BY <1>3, <1>4, <1>7, <1>9, <1>10, <1>11, <1>12, <1>13 DEF Does, Fits

\* The end of such a visit.
LEMMA LeaveDoes ==
  ASSUME IInv, NEW kinds, At("leave", kinds), Continue(<<>>), Fits(<<>>),
         scopes' = Env!Leave(scopes)
  PROVE  Does(<<>>)
<1>1. /\ todo \in Seq(Item) /\ todo # <<>> /\ todo[1].phase = "leave"
      /\ scopes \in Seq(Facts!Scope(PrslObject)) /\ Len(scopes) \in Nat
  BY First
<1>2. PICK each \in BOOLEAN : Straight(each, todo, <<>>, values, values')
  BY DEF Fits
<1>3. Computes(todo, <<>>, values, values')
  BY <1>2, StraightComputes
<1>4. values' \in Seq(PrslObject)
  BY <1>2 DEF Straight, Leaves
<1>5. <<>> \in Seq(Item) /\ OpensLast(<<>>) /\ Opening(<<>>) = 0 /\ Closing(todo) = 1
  BY <1>1, QuietSequences, QuietItems DEF Closing
<1>6. Walks(todo, <<>>, todo')
  BY <1>1, <1>5 DEF Walks, Continue
<1>7. Len(scopes) > 1
  BY <1>1, ScopeToLeave DEF IInv, ScopesMatchVisits
<1>8. scopes' = Facts!Leave(scopes)
  BY SameScopes
<1>9. /\ scopes' \in Seq(Facts!Scope(PrslObject))
      /\ Len(scopes') = Len(scopes) - 1
      /\ Facts!Kept(scopes, scopes')
  BY <1>1, <1>7, <1>8, Facts!LeaveEffect, Facts!KeptByLeave
<1>10. InStep(todo, <<>>, scopes, scopes')
  BY <1>1, <1>5, <1>7, <1>9 DEF InStep
<1>11. SameBoundaries(<<>>, scopes, scopes', {"Call"})
  BY <1>5, <1>9 DEF SameBoundaries, Facts!Kept
<1>12. scopes' \in Seq(Env!Scope(PrslObject))
  BY <1>9, SameScopes
<1>13. ~Reading(todo[1])
  BY <1>1 DEF Reading
<1> QED
  BY <1>3, <1>4, <1>6, <1>9, <1>10, <1>11, <1>12, <1>13 DEF Does, Fits

\* Nothing is left to do of the first item.
LEMMA NothingFits ==
  ASSUME IInv, NEW phase, NEW kinds, At(phase, kinds),
         NEW n, NEW gives, Leaves(values, values', n, gives),
         n <= Need(todo[1]), gives - n = Gain(todo[1]), OthersOK'
  PROVE  Fits(<<>>)
<1>1. /\ todo[1] \in Item /\ Need(todo[1]) \in Nat /\ Need(todo[1]) <= Len(values)
      /\ <<>> \in Seq(Item) /\ Len(values) \in Nat
  BY First
<1>2. n \in 0..Need(todo[1]) /\ gives \in Nat /\ Len(values') = Len(values) - n + gives
  BY <1>1 DEF Leaves
<1>3. Len(values') = Len(values) + Gain(todo[1])
  BY <1>1, <1>2
<1>4. \A q \in 1..(Len(<<>>) - 1) : Plain(<<>>[q], TRUE)
  OBVIOUS
<1>5. Straight(TRUE, todo, <<>>, values, values')
  BY <1>1, <1>2, <1>3, <1>4 DEF Straight
<1>6. Begins(<<>>)
  BY DEF Begins
<1> QED
  BY <1>5, <1>6 DEF Fits

\* Only items that wait for nothing are left.
LEMMA PlainFits ==
  ASSUME IInv, NEW phase, NEW kinds, At(phase, kinds),
         NEW n, NEW gives, Leaves(values, values', n, gives), n <= Need(todo[1]),
         OthersOK', NEW each \in BOOLEAN,
         NEW items \in Seq(Item), Begins(items), \A q \in DOMAIN items : Plain(items[q], each),
         gives - n + Results(each, Len(items) + 1) = Gain(todo[1])
  PROVE  Fits(items)
<1>1. /\ todo[1] \in Item /\ Need(todo[1]) \in Nat /\ Need(todo[1]) <= Len(values)
      /\ Len(values) \in Nat
  BY First
<1>2. n \in 0..Need(todo[1]) /\ gives \in Nat /\ Len(values') = Len(values) - n + gives
  BY <1>1 DEF Leaves
<1>3. Len(items) \in Nat /\ DOMAIN items = 1..Len(items)
  OBVIOUS
<1>4. \A q \in 1..(Len(items) - 1) : Plain(items[q], each)
  BY <1>3
<1>5. items = <<>> => Len(values') = Len(values) + Gain(todo[1])
  <2> SUFFICES ASSUME items = <<>> PROVE Len(values') = Len(values) + Gain(todo[1])
    OBVIOUS
  <2>1. Len(items) = 0
    OBVIOUS
  <2>2. Results(each, Len(items) + 1) = 0
    BY <2>1 DEF Results
  <2> QED
    BY <2>2, <1>1, <1>2
<1>6. items # <<>> =>
        LastFits(items[Len(items)], Len(values') + Results(each, Len(items)),
                 Len(values) + Gain(todo[1]), Len(values) - Need(todo[1]), values')
  <2> SUFFICES ASSUME items # <<>>
               PROVE  LastFits(items[Len(items)], Len(values') + Results(each, Len(items)),
                               Len(values) + Gain(todo[1]), Len(values) - Need(todo[1]),
                               values')
    OBVIOUS
  <2> DEFINE last == items[Len(items)]
             done == Results(each, Len(items))
  <2>1. Len(items) \in DOMAIN items /\ last \in Item
    BY <1>3
  <2>2. Need(last) = 0 /\ Gain(last) = IF each THEN 1 ELSE 0
    BY <2>1 DEF Plain
  <2>3. ~Calling(last)
    BY <2>1, <2>2, NeedTypes
  <2>4. done \in Nat /\ Results(each, Len(items) + 1) = done + Gain(last)
    BY <2>1, <2>2, <1>3 DEF Results
  <2> HIDE DEF last, done
  <2>5. Gain(last) \in Int /\ Gain(todo[1]) \in Int
    BY <2>2, <1>1, NeedTypes
  <2>6. (Len(values') + done) + Gain(last) = Len(values) + Gain(todo[1])
    BY SMTT(30), <2>4, <2>5, <1>1, <1>2
  <2>7. (Len(values') + done) - Need(last) >= Len(values) - Need(todo[1])
    BY <2>2, <2>4, <1>1, <1>2
  <2>8. LastFits(last, Len(values') + done, Len(values) + Gain(todo[1]),
                 Len(values) - Need(todo[1]), values')
    BY <2>3, <2>6, <2>7 DEF LastFits
  <2> QED
    BY <2>8 DEF last, done
<1>7. Straight(each, todo, items, values, values')
  BY <1>1, <1>2, <1>4, <1>5, <1>6 DEF Straight
<1> QED
  BY <1>7 DEF Fits

\* One more item is left after such items.
LEMMA ThenFits ==
  ASSUME IInv, NEW phase, NEW kinds, At(phase, kinds),
         NEW n, NEW gives, Leaves(values, values', n, gives), n <= Need(todo[1]),
         OthersOK', NEW each \in BOOLEAN,
         NEW before, NEW last, NEW items, EndsWith(items, before, last),
         Begins(before), \A q \in DOMAIN before : Plain(before[q], each),
         LastFits(last, Len(values') + Results(each, Len(before) + 1),
                  Len(values) + Gain(todo[1]), Len(values) - Need(todo[1]), values'),
         Looping(last) => last.index <= Len(last.node.kids),
         Incrementing(last) => /\ before # <<>>
                               /\ before[Len(before)] = Visit(last.node.kids[1])
  PROVE  Fits(items)
<1>1. /\ todo[1] \in Item /\ Need(todo[1]) \in Nat /\ Need(todo[1]) <= Len(values)
      /\ Len(values) \in Nat
  BY First
<1>2. n \in 0..Need(todo[1]) /\ gives \in Nat
  BY <1>1 DEF Leaves
<1>3. /\ Len(before) \in Nat /\ DOMAIN before = 1..Len(before)
      /\ items \in Seq(Item) /\ Len(items) = Len(before) + 1
      /\ DOMAIN items = 1..(Len(before) + 1)
      /\ \A q \in 1..Len(before) : items[q] = before[q]
      /\ items[Len(before) + 1] = last
  BY DEF EndsWith
<1>4. \A q \in 1..(Len(items) - 1) : Plain(items[q], each)
  BY <1>3
<1>5. items # <<>> /\ Len(items) = Len(before) + 1 /\ items[Len(items)] = last
  BY <1>3
<1>6. LastFits(items[Len(items)], Len(values') + Results(each, Len(items)),
               Len(values) + Gain(todo[1]), Len(values) - Need(todo[1]), values')
  BY <1>5
<1>7. Straight(each, todo, items, values, values')
  BY <1>1, <1>2, <1>3, <1>4, <1>5, <1>6 DEF Straight
<1>8. Begins(items)
  <2>1. ASSUME NEW q \in DOMAIN items
        PROVE  \/ q = Len(before) + 1 /\ items[q] = last
               \/ q \in DOMAIN before /\ items[q] = before[q]
    BY <1>3
  <2>2. ASSUME NEW q \in DOMAIN items, Looping(items[q])
        PROVE  items[q].index <= Len(items[q].node.kids)
    BY <2>1, <2>2 DEF Begins
  <2>3. ASSUME NEW q \in DOMAIN items, Incrementing(items[q])
        PROVE  q > 1 /\ items[q - 1] = Visit(items[q].node.kids[1])
    <3>1. CASE q = Len(before) + 1 /\ items[q] = last
      <4>1. before # <<>> /\ before[Len(before)] = Visit(last.node.kids[1])
        BY <2>3, <3>1
      <4>2. Len(before) \in 1..Len(before) /\ q - 1 = Len(before) /\ q > 1
        BY <3>1, <4>1, <1>3
      <4> QED
        BY <3>1, <4>1, <4>2, <1>3
    <3>2. CASE q \in DOMAIN before /\ items[q] = before[q]
      <4>1. q > 1 /\ before[q - 1] = Visit(before[q].node.kids[1])
        BY <2>3, <3>2 DEF Begins
      <4>2. q - 1 \in 1..Len(before)
        BY <3>2, <4>1, <1>3
      <4> QED
        BY <3>2, <4>1, <4>2, <1>3
    <3> QED
      BY <2>1, <3>1, <3>2
  <2> QED
    BY <2>2, <2>3 DEF Begins
<1> QED
  BY <1>7, <1>8 DEF Fits

\* The kinds of nodes that leave a result, or none.
KindsOf(each) == IF each THEN ExprKind ELSE StmtKind

\* Visits of such nodes, and registrations.
LEMMA PlainSequences ==
  ASSUME NEW nodes \in Seq(Node)
  PROVE  /\ VisitAll(nodes) \in Seq(Item) /\ Quiet(VisitAll(nodes))
         /\ Len(VisitAll(nodes)) = Len(nodes)
         /\ Begins(VisitAll(nodes))
         /\ \A each \in BOOLEAN :
              (\A i \in DOMAIN nodes : nodes[i].kind \in KindsOf(each)) =>
                \A q \in DOMAIN VisitAll(nodes) : Plain(VisitAll(nodes)[q], each)
         /\ RegisterAll(nodes) \in Seq(Item) /\ Quiet(RegisterAll(nodes))
         /\ Begins(RegisterAll(nodes))
         /\ \A q \in DOMAIN RegisterAll(nodes) : Plain(RegisterAll(nodes)[q], FALSE)
<1> DEFINE visits == VisitAll(nodes)
           registers == RegisterAll(nodes)
<1>1. /\ visits \in Seq(Item) /\ Len(visits) = Len(nodes)
      /\ DOMAIN visits = 1..Len(nodes) /\ DOMAIN nodes = 1..Len(nodes)
      /\ \A i \in 1..Len(nodes) : visits[i] = Visit(nodes[i])
      /\ \A i \in 1..Len(nodes) : visits[i].phase = "visit"
      /\ Quiet(visits)
  BY VisitAllTypes, QuietSequences
<1>2. /\ registers \in Seq(Item) /\ Quiet(registers)
      /\ \A q \in DOMAIN registers : registers[q].phase = "register"
  BY RegisterAllTypes, QuietSequences
<1> HIDE DEF visits, registers
<1>3. \A i \in 1..Len(nodes) : visits[i].node = nodes[i]
  BY <1>1 DEF Visit, AnItem
<1>4. ASSUME NEW each \in BOOLEAN, \A i \in DOMAIN nodes : nodes[i].kind \in KindsOf(each),
             NEW q \in DOMAIN visits
      PROVE  Plain(visits[q], each)
  <2>1. visits[q].phase = "visit" /\ visits[q].node.kind \in KindsOf(each)
    BY <1>1, <1>3, <1>4
  <2>2. visits[q].node.kind \in ExprKind <=> each
    BY <2>1 DEF KindsOf, ExprKind, StmtKind
  <2> QED
    BY <2>1, <2>2 DEF Plain, Need, Gain
<1>5. \A q \in DOMAIN registers : Plain(registers[q], FALSE)
  BY <1>2 DEF Plain, Need, Gain
<1>6. Begins(visits) /\ Begins(registers)
  BY <1>1, <1>2 DEF Begins, Looping, Incrementing
<1> QED
  BY <1>1, <1>2, <1>4, <1>5, <1>6 DEF visits, registers

\* Every kid of a node leaves a result, or none does; of an if or a while those
\* after the condition.
LEMMA KidsOf ==
  ASSUME NEW n \in Node, n.kind \notin {"If", "While"}
  PROVE  \A i \in DOMAIN n.kids :
           n.kids[i].kind \in
             KindsOf(n.kind \notin {"Scope", "Function", "Block"})
BY NodeFacts DEF KidKind, KindsOf

-----------------------------------------------------------------------------
(***************************************************************************)
(* Every action does the first item, or the execution stops.               *)
(***************************************************************************)

\* The execution ends where it is.
Stopped ==
  /\ status' \in {Running, Finished, Terminated, Signalled} \cup RuntimeErrors
  /\ UNCHANGED <<todo, values, scopes, functions, returnStack, printed>>

\* An error, a signal, an exception nobody catches.
LEMMA StopStops ==
  ASSUME NEW how \in {Finished, Terminated, Signalled} \cup RuntimeErrors, Stop(how)
  PROVE  Stopped
BY DEF Stop, Stopped

\* Nothing but the walk, the results and the scopes change.
LEMMA OthersKept ==
  ASSUME OthersOK, UNCHANGED <<functions, returnStack, printed, status>>
  PROVE  OthersOK'
BY DEF OthersOK

\* The first item is done: its results are taken or given, nothing is left of it.
LEMMA NothingDoes ==
  ASSUME IInv, NEW phase, NEW kinds, At(phase, kinds), phase # "leave",
         phase = "visit" => "Var" \notin kinds, Continue(<<>>), Stores,
         NEW n, NEW gives, Leaves(values, values', n, gives),
         n <= Need(todo[1]), gives - n = Gain(todo[1]), OthersOK'
  PROVE  \E items : Does(items)
<1>1. Fits(<<>>)
  BY NothingFits
<1>2. Quiet(<<>>)
  BY QuietSequences
<1>3. ~Reading(todo[1])
  BY First DEF Reading
<1>4. Does(<<>>)
  BY <1>1, <1>2, <1>3, QuietDoes
<1> QED
  BY <1>4

\* A literal and an input.
LEMMA LeafDoes ==
  ASSUME IInv, VisitLeaf
  PROVE  \E items : Does(items)
<1>1. /\ At("visit", {"Literal", "Input"}) /\ Continue(<<>>)
      /\ UNCHANGED <<scopes, functions, returnStack, printed, status>>
  BY DEF VisitLeaf, state
<1>2. /\ values \in Seq(PrslObject) /\ node \in Node /\ OthersOK /\ node = todo[1].node
      /\ todo[1].phase = "visit" /\ node.kind \in {"Literal", "Input"}
      /\ Need(todo[1]) \in Nat
  BY <1>1, First
<1>3. \E obj \in PrslObject : Push(obj)
  BY <1>2, InterpreterAssumption, ObjectTypes DEF VisitLeaf
<1>4. Leaves(values, values', 0, 1)
  BY <1>2, <1>3, TakesGives DEF Push
<1>5. 1 - 0 = Gain(todo[1]) /\ 0 <= Need(todo[1])
  BY <1>2 DEF Gain, ExprKind
<1>6. OthersOK' /\ Stores
  BY <1>1, <1>2, OthersKept DEF Stores
<1> QED
  BY <1>1, <1>4, <1>5, <1>6, NothingDoes

\* A variable that is bound.
LEMMA VariableDoes ==
  ASSUME IInv, VisitVarExpr
  PROVE  Stopped \/ \E items : Does(items)
<1>1. At("visit", {"Var"})
  BY DEF VisitVarExpr
<1>2. /\ values \in Seq(PrslObject) /\ node \in Node /\ OthersOK /\ node = todo[1].node
      /\ todo[1].phase = "visit" /\ node.kind = "Var" /\ node.name \in Name
      /\ Need(todo[1]) \in Nat
      /\ scopes \in Seq(Facts!Scope(PrslObject))
  BY <1>1, First, NodeFacts
<1>3. CASE ~Env!contains(scopes, node.name)
  BY <1>3, StopStops DEF VisitVarExpr, RuntimeErrors
<1>4. CASE Env!contains(scopes, node.name)
  <2>1. /\ Push(Env!get(scopes, node.name)) /\ Continue(<<>>)
        /\ UNCHANGED <<scopes, functions, returnStack, printed, status>>
    BY <1>4 DEF VisitVarExpr, state
  <2>2. Facts!contains(scopes, node.name)
    BY <1>4, SameScopes
  <2>3. Facts!get(scopes, node.name) \in PrslObject
    BY <1>2, <2>2, Facts!GetType
  <2>4. Leaves(values, values', 0, 1)
    BY <1>2, <2>1, <2>3, SameScopes, TakesGives DEF Push
  <2>5. 1 - 0 = Gain(todo[1]) /\ 0 <= Need(todo[1])
    BY <1>2 DEF Gain, ExprKind
  <2>6. OthersOK' /\ Stores
    BY <1>2, <2>1, OthersKept DEF Stores
  <2>7. Fits(<<>>)
    BY <1>1, <2>4, <2>5, <2>6, NothingFits
  <2>8. Facts!contains(scopes', todo[1].node.name)
    BY <1>2, <2>1, <2>2
  <2>9. Does(<<>>)
    BY <1>1, <2>1, <2>6, <2>7, <2>8, QuietSequences, QuietDoes
  <2> QED
    BY <2>9
<1> QED
  BY <1>3, <1>4

\* An action that leaves the scopes, the results and the rest alone goes on with
\* items that wait for nothing and leave no result.
LEMMA PlainDoes ==
  ASSUME IInv, NEW phase, NEW kinds, At(phase, kinds), phase # "leave",
         phase = "visit" => "Var" \notin kinds,
         NEW items \in Seq(Item), Quiet(items), Continue(items), Begins(items),
         UNCHANGED <<values, scopes, functions, returnStack, printed, status>>,
         NEW each \in BOOLEAN, \A q \in DOMAIN items : Plain(items[q], each),
         Results(each, Len(items) + 1) = Gain(todo[1])
  PROVE  \E some : Does(some)
<1>1. /\ values \in Seq(PrslObject) /\ OthersOK /\ Need(todo[1]) \in Nat
      /\ ~Reading(todo[1])
  BY First DEF Reading
<1>2. Leaves(values, values', 0, 0)
  BY <1>1, TakesGives
<1>3. OthersOK' /\ Stores
  BY <1>1, OthersKept DEF Stores
<1>4. Results(each, Len(items) + 1) \in Int
  BY DEF Results
<1>5. /\ 0 <= Need(todo[1])
      /\ 0 - 0 + Results(each, Len(items) + 1) = Gain(todo[1])
  BY <1>1, <1>4
<1>6. Fits(items)
  BY <1>2, <1>3, <1>5, PlainFits
<1>7. Does(items)
  BY <1>1, <1>3, <1>6, QuietDoes
<1> QED
  BY <1>7

\* The nodes that only visit what is below them.
LEMMA DescendDoes ==
  ASSUME IInv, Descend
  PROVE  \E items : Does(items)
<1>1. /\ At("visit", {"Grouping", "Function", "Null"}) /\ Continue(VisitAll(node.kids))
      /\ UNCHANGED <<values, scopes, functions, returnStack, printed, status>>
  BY DEF Descend, state
<1>2. /\ node \in Node /\ node.kind \in {"Grouping", "Function", "Null"}
      /\ node = todo[1].node /\ todo[1].phase = "visit"
  BY <1>1, First
<1> DEFINE each == node.kind = "Grouping"
           items == VisitAll(node.kids)
<1>3. /\ node.kids \in Seq(Node)
      /\ node.kind = "Grouping" => Len(node.kids) = 1
      /\ node.kind = "Null" => node.kids = <<>>
  BY <1>2, NodeFacts
<1>4. \A i \in DOMAIN node.kids : node.kids[i].kind \in KindsOf(each)
  <2>1. CASE node.kind = "Null"
    BY <2>1, <1>3
  <2>2. CASE node.kind # "Null"
    <3>1. each <=> node.kind \notin {"Scope", "Function", "Block"}
      BY <2>2, <1>2
    <3> QED
      BY <3>1, <1>2, KidsOf DEF KindsOf
  <2> QED
    BY <2>1, <2>2
<1>5. each \in BOOLEAN
  OBVIOUS
<1>6. Len(node.kids) \in Nat
  BY <1>3
<1>7. /\ items \in Seq(Item) /\ Quiet(items) /\ Begins(items)
      /\ Len(items) = Len(node.kids)
      /\ \A q \in DOMAIN items : Plain(items[q], each)
  <2> HIDE DEF each
  <2> QED
    BY <1>3, <1>4, <1>5, PlainSequences
<1>8. Results(each, Len(items) + 1) = Gain(todo[1])
  <2>1. Gain(todo[1]) = IF each THEN 1 ELSE 0
    BY <1>2 DEF Gain, ExprKind
  <2>2. Results(each, Len(items) + 1) = IF each THEN Len(node.kids) ELSE 0
    BY <1>6, <1>7 DEF Results
  <2> QED
    BY <2>1, <2>2, <1>3
<1> HIDE DEF each
<1> QED
  BY <1>1, <1>5, <1>7, <1>8, PlainDoes

\* evaluateScope, a function's registration, ...: the same, with one more item.
LEMMA PlainThenDoes ==
  ASSUME IInv, NEW phase, NEW kinds, At(phase, kinds), phase # "leave",
         phase = "visit" => "Var" \notin kinds,
         NEW before, NEW last, NEW items, EndsWith(items, before, last), Begins(before),
         last.phase # "leave", Continue(items),
         NEW gives, Leaves(values, values', 0, gives),
         UNCHANGED <<scopes, functions, returnStack, printed, status>>,
         NEW each \in BOOLEAN, \A q \in DOMAIN before : Plain(before[q], each),
         LastFits(last, Len(values') + Results(each, Len(before) + 1),
                  Len(values) + Gain(todo[1]), Len(values) - Need(todo[1]), values'),
         Looping(last) => last.index <= Len(last.node.kids),
         Incrementing(last) => /\ before # <<>>
                               /\ before[Len(before)] = Visit(last.node.kids[1])
  PROVE  \E some : Does(some)
<1>1. OthersOK /\ Need(todo[1]) \in Nat /\ ~Reading(todo[1])
  BY First DEF Reading
<1>2. OthersOK' /\ Stores
  BY <1>1, OthersKept DEF Stores
<1>3. 0 <= Need(todo[1])
  BY <1>1
<1>4. Fits(items)
  BY <1>2, <1>3, ThenFits
<1>5. Quiet(items)
  <2>1. /\ items[Len(items)] = last
        /\ \A q \in DOMAIN items :
             q = Len(items) \/ (q \in DOMAIN before /\ items[q] = before[q])
    BY QuietThen
  <2>2. \A q \in DOMAIN before : before[q].phase # "leave"
    BY DEF EndsWith, Quiet
  <2> QED
    BY <2>1, <2>2 DEF Quiet
<1>6. Does(items)
  BY <1>1, <1>2, <1>4, <1>5, QuietDoes
<1> QED
  BY <1>6

\* The operands are visited, the rest waits for as many results.
LEMMA OperandsDo ==
  ASSUME IInv, VisitOperands
  PROVE  \E items : Does(items)
<1> DEFINE operands == IF node.kind \in {"If", "While"} THEN <<node.kids[1]>> ELSE node.kids
           before == VisitAll(operands)
           last == Resume(node)
           items == before \o <<last>>
           Kinds == {"Assignment", "Unary", "Binary", "Postfix", "VarStmt", "If",
                     "While", "Print", "ExprStmt", "Return"}
<1>1. /\ At("visit", Kinds) /\ Continue(items)
      /\ UNCHANGED <<values, scopes, functions, returnStack, printed, status>>
  BY DEF VisitOperands, state
<1>2. /\ node \in Node /\ node.kind \in Kinds /\ node = todo[1].node
      /\ todo[1].phase = "visit" /\ values \in Seq(PrslObject) /\ Len(values) \in Nat
  BY <1>1, First
<1>3. /\ operands \in Seq(Node)
      /\ Len(operands) = IF node.kind = "Binary" THEN 2 ELSE 1
      /\ \A i \in DOMAIN operands : operands[i].kind \in KindsOf(TRUE)
      /\ operands[1] = node.kids[1]
  <2>1. /\ node.kids \in Seq(Node)
        /\ node.kind \in {"Assignment", "Unary", "Postfix", "VarStmt", "Print",
                          "ExprStmt", "Return"} => Len(node.kids) = 1
        /\ node.kind \in {"Binary", "While"} => Len(node.kids) = 2
        /\ node.kind = "If" => Len(node.kids) \in {2, 3}
        /\ \A i \in DOMAIN node.kids :
             node.kids[i] \in Node /\ node.kids[i].kind \in KidKind(node, i)
    BY <1>2, NodeFacts
  <2>2. CASE node.kind \in {"If", "While"}
    <3> DEFINE condition == node.kids[1]
    <3>1. 1 \in DOMAIN node.kids /\ KidKind(node, 1) = ExprKind
      BY <2>1, <2>2 DEF KidKind
    <3>2. condition \in Node /\ condition.kind \in ExprKind
      BY <2>1, <3>1
    <3>3. operands = <<condition>> /\ node.kind # "Binary"
      BY <2>2
    <3> HIDE DEF condition, operands
    <3>4. /\ operands \in Seq(Node) /\ Len(operands) = 1 /\ operands[1] = condition
          /\ DOMAIN operands = {1}
      BY <3>2, <3>3
    <3> QED
      BY <3>2, <3>3, <3>4 DEF KindsOf, condition
  <2>3. CASE node.kind \notin {"If", "While"}
    <3>1. operands = node.kids
      BY <2>3
    <3>2. \A i \in DOMAIN node.kids : node.kids[i].kind \in KindsOf(TRUE)
      BY <1>2, <2>1, <2>3 DEF KidKind, KindsOf
    <3>3. Len(node.kids) = IF node.kind = "Binary" THEN 2 ELSE 1
      BY <1>2, <2>1, <2>3
    <3> HIDE DEF operands
    <3> QED
      BY <2>1, <3>1, <3>2, <3>3
  <2> QED
    BY <2>2, <2>3
<1>4. /\ last \in Item /\ last.phase = "resume" /\ last.node = node
  BY <1>2, ItemTypes
<1> HIDE DEF operands
<1>5. /\ before \in Seq(Item) /\ Quiet(before) /\ Begins(before)
      /\ Len(before) = Len(operands)
      /\ \A q \in DOMAIN before : Plain(before[q], TRUE)
  BY <1>3, PlainSequences
<1>6. EndsWith(items, before, last)
  BY <1>4, <1>5 DEF EndsWith
<1> HIDE DEF before, last, items
<1>7. Leaves(values, values', 0, 0)
  BY <1>1, <1>2, TakesGives
<1>8. LastFits(last, Len(values') + Results(TRUE, Len(before) + 1),
               Len(values) + Gain(todo[1]), Len(values) - Need(todo[1]), values')
  <2>1. /\ Need(todo[1]) = 0
        /\ Gain(todo[1]) = IF node.kind \in ExprKind THEN 1 ELSE 0
    BY <1>2 DEF Need, Gain
  <2>2. Results(TRUE, Len(before) + 1) = IF node.kind = "Binary" THEN 2 ELSE 1
    BY <1>3, <1>5 DEF Results
  <2>3. Need(last) = IF node.kind = "Binary" THEN 2 ELSE 1
    BY <1>2, <1>4 DEF Need
  <2>4. node.kind \in ExprKind <=> node.kind \in {"Assignment", "Unary", "Binary", "Postfix"}
    BY <1>2 DEF ExprKind
  <2>5. Gain(last) = IF node.kind \in {"Assignment", "Unary", "Postfix"} THEN 0 ELSE -1
    BY <1>2, <1>4 DEF Gain
  <2>6. ~Calling(last)
    BY <1>2, <1>4 DEF Calling
  <2>7. Len(values') = Len(values)
    BY <1>1
  <2> DEFINE there == Results(TRUE, Len(before) + 1)
  <2>8. /\ there = IF node.kind = "Binary" THEN 2 ELSE 1
        /\ Len(values) \in Nat
    BY <1>2, <2>2
  <2> HIDE DEF there
  <2>9. /\ (Len(values) + there) + Gain(last) = Len(values) + Gain(todo[1])
        /\ (Len(values) + there) - Need(last) >= Len(values) - Need(todo[1])
    <3>1. CASE node.kind = "Binary"
      <4>1. /\ there = 2 /\ Need(last) = 2 /\ Gain(last) = -1
            /\ Gain(todo[1]) = 1 /\ Need(todo[1]) = 0
        BY <3>1, <2>1, <2>3, <2>4, <2>5, <2>8
      <4> QED
        BY <4>1, <2>8
    <3>2. CASE node.kind \in {"Assignment", "Unary", "Postfix"}
      <4>1. /\ there = 1 /\ Need(last) = 1 /\ Gain(last) = 0
            /\ Gain(todo[1]) = 1 /\ Need(todo[1]) = 0
        BY <3>2, <2>1, <2>3, <2>4, <2>5, <2>8
      <4> QED
        BY <4>1, <2>8
    <3>3. CASE node.kind \in {"VarStmt", "If", "While", "Print", "ExprStmt", "Return"}
      <4>1. /\ there = 1 /\ Need(last) = 1 /\ Gain(last) = -1
            /\ Gain(todo[1]) = 0 /\ Need(todo[1]) = 0
        BY <3>3, <2>1, <2>3, <2>4, <2>5, <2>8
      <4> QED
        BY <4>1, <2>8
    <3> QED
      BY <1>2, <3>1, <3>2, <3>3
  <2>10. LastFits(last, Len(values') + there,
                  Len(values) + Gain(todo[1]), Len(values) - Need(todo[1]), values')
    BY <2>6, <2>7, <2>9 DEF LastFits
  <2> QED
    BY <2>10, Zenon DEF there
<1>9. ~Looping(last)
  BY <1>2, <1>4 DEF Looping
<1>10. ASSUME Incrementing(last)
       PROVE  before # <<>> /\ before[Len(before)] = Visit(last.node.kids[1])
  <2>1. node.kind = "Postfix"
    BY <1>4, <1>10 DEF Incrementing
  <2>2. Len(before) = 1 /\ Len(operands) = 1
    BY <1>3, <1>5, <2>1
  <2>3. before[1] = Visit(operands[1])
    BY <1>3, <2>2, VisitAllTypes DEF before
  <2>4. before # <<>> /\ before[Len(before)] = before[1]
    BY <2>2
  <2>5. Visit(operands[1]) = Visit(last.node.kids[1])
    BY <1>3, <1>4
  <2> QED
    BY <2>3, <2>4, <2>5
<1>11. last.phase # "leave" /\ "Var" \notin Kinds
  BY <1>4
<1> HIDE DEF Kinds
<1> QED
  BY <1>1, <1>5, <1>6, <1>7, <1>8, <1>9, <1>10, <1>11, PlainThenDoes

\* A value is stored under the name of the assignment or the definition.
LEMMA AssignmentDoes ==
  ASSUME IInv, ResumeAssignment
  PROVE  \E items : Does(items)
<1>1. /\ At("resume", {"Assignment", "VarStmt"}) /\ Continue(<<>>)
      /\ UNCHANGED <<functions, returnStack, printed, status>>
  BY DEF ResumeAssignment
<1>2. /\ values \in Seq(PrslObject) /\ node \in Node /\ OthersOK /\ node = todo[1].node
      /\ todo[1].phase = "resume" /\ node.kind \in {"Assignment", "VarStmt"}
      /\ Need(todo[1]) \in Nat /\ Need(todo[1]) <= Len(values)
      /\ scopes \in Seq(Facts!Scope(PrslObject)) /\ scopes # <<>>
      /\ node.name \in Name
  BY <1>1, First, NodeFacts
<1>3. /\ Need(todo[1]) = 1
      /\ Gain(todo[1]) = IF node.kind = "VarStmt" THEN -1 ELSE 0
  BY <1>2 DEF Need, Gain
<1>4. Len(values) \in 1..Len(values) /\ Result \in PrslObject /\ 1 \in 0..Len(values)
  BY <1>2, <1>3 DEF Result
<1>5. Facts!Stored(scopes, scopes', node.name, Result)
  BY <1>2, SameScopes, Facts!DefineStores DEF ResumeAssignment
<1>6. OthersOK' /\ Stores
  BY <1>1, <1>2, <1>4, <1>5, OthersKept DEF Stores
<1>7. CASE node.kind = "VarStmt"
  <2>1. Leaves(values, values', 1, 0)
    BY <1>2, <1>4, <1>7, TakesGives DEF ResumeAssignment, Pop
  <2>2. 0 - 1 = Gain(todo[1]) /\ 1 <= Need(todo[1])
    BY <1>3, <1>7
  <2> QED
    BY <1>1, <1>6, <2>1, <2>2, NothingDoes
<1>8. CASE node.kind # "VarStmt"
  <2>1. Leaves(values, values', 0, 0)
    BY <1>2, <1>8, TakesGives DEF ResumeAssignment
  <2>2. 0 - 0 = Gain(todo[1]) /\ 0 <= Need(todo[1])
    BY <1>3, <1>8
  <2> QED
    BY <1>1, <1>6, <2>1, <2>2, NothingDoes
<1> QED
  BY <1>7, <1>8

\* The results that an operator takes are replaced by its own.
LEMMA UnaryDoes ==
  ASSUME IInv, ResumeUnary
  PROVE  Stopped \/ \E items : Does(items)
<1>1. At("resume", {"Unary"})
  BY DEF ResumeUnary
<1>2. /\ values \in Seq(PrslObject) /\ OthersOK /\ node = todo[1].node
      /\ todo[1].phase = "resume" /\ node.kind = "Unary"
      /\ Need(todo[1]) <= Len(values)
  BY <1>1, First
<1>3. Need(todo[1]) = 1 /\ Gain(todo[1]) = 0
  BY <1>2 DEF Need, Gain
<1>4. Len(values) \in 1..Len(values) /\ Result \in PrslObject /\ 1 \in 0..Len(values)
  BY <1>2, <1>3 DEF Result
<1>5. CASE ~IsInt(Result)
  BY <1>5, StopStops DEF ResumeUnary, RuntimeErrors
<1>6. CASE IsInt(Result)
  <2> DEFINE obj == IntObj(Wrap(-Result[2]))
  <2>1. /\ values' = Append(Below(values, 1), obj) /\ Continue(<<>>)
        /\ UNCHANGED <<scopes, functions, returnStack, printed, status>>
    BY <1>6 DEF ResumeUnary, state
  <2>2. obj \in PrslObject
    BY <1>4, <1>6, TagTypes, SteppedTypes
  <2> HIDE DEF obj
  <2>3. Leaves(values, values', 1, 1)
    BY <1>2, <1>4, <2>1, <2>2, TakesGives
  <2>4. 1 - 1 = Gain(todo[1]) /\ 1 <= Need(todo[1])
    BY <1>3
  <2>5. OthersOK' /\ Stores
    BY <1>2, <2>1, OthersKept DEF Stores
  <2> QED
    BY <1>1, <2>1, <2>3, <2>4, <2>5, NothingDoes
<1> QED
  BY <1>5, <1>6

\* Of a binary operator.
LEMMA BinaryDoes ==
  ASSUME IInv, ResumeBinary
  PROVE  Stopped \/ \E items : Does(items)
<1>1. At("resume", {"Binary"})
  BY DEF ResumeBinary
<1>2. /\ values \in Seq(PrslObject) /\ OthersOK /\ node = todo[1].node /\ node \in Node
      /\ todo[1].phase = "resume" /\ node.kind = "Binary"
      /\ Need(todo[1]) <= Len(values)
      /\ node.op \in Operators \ {"++", "--"}
  BY <1>1, First, NodeFacts
<1>3. Need(todo[1]) = 2 /\ Gain(todo[1]) = -1
  BY <1>2 DEF Need, Gain
<1>4. /\ Len(values) \in 1..Len(values) /\ Len(values) - 1 \in 1..Len(values)
      /\ Lhs \in PrslObject /\ Rhs \in PrslObject /\ 2 \in 0..Len(values)
  BY <1>2, <1>3 DEF Lhs, Rhs, Result
<1>5. CASE BinaryError(node.op, Lhs, Rhs) # NoError
  <2>1. BinaryError(node.op, Lhs, Rhs) \in RuntimeErrors
    BY <1>5 DEF BinaryError, RuntimeErrors
  <2>2. Stop(BinaryError(node.op, Lhs, Rhs))
    BY <1>5 DEF ResumeBinary
  <2> QED
    BY <2>1, <2>2, StopStops
<1>6. CASE BinaryError(node.op, Lhs, Rhs) = NoError
  <2> DEFINE obj == BinaryResult(node.op, Lhs, Rhs)
  <2>1. CASE /\ values' = Append(Below(values, 2), obj) /\ Continue(<<>>)
             /\ UNCHANGED state
    <3>1. UNCHANGED <<scopes, functions, returnStack, printed, status>>
      BY <2>1 DEF state
    <3>2. obj \in PrslObject
      BY <1>2, <1>4, <1>6, BinaryTypes
    <3>3. values' = Append(Below(values, 2), obj) /\ Continue(<<>>)
      BY <2>1
    <3> HIDE DEF obj
    <3>4. Leaves(values, values', 2, 1)
      BY <1>2, <1>4, <3>2, <3>3, TakesGives
    <3>5. 1 - 2 = Gain(todo[1]) /\ 2 <= Need(todo[1])
      BY <1>3
    <3>6. OthersOK' /\ Stores
      BY <1>2, <3>1, OthersKept DEF Stores
    <3> QED
      BY <1>1, <3>3, <3>4, <3>5, <3>6, NothingDoes
  <2>2. CASE Stop(Signalled)
    BY <2>2, StopStops
  <2> QED
    BY <1>6, <2>1, <2>2 DEF ResumeBinary
<1> QED
  BY <1>5, <1>6

\* ++ and -- store in the variable that was read just before.
LEMMA PostfixDoes ==
  ASSUME IInv, ResumePostfix
  PROVE  Stopped \/ \E items : Does(items)
<1>1. At("resume", {"Postfix"})
  BY DEF ResumePostfix
<1>2. /\ values \in Seq(PrslObject) /\ OthersOK /\ node = todo[1].node /\ node \in Node
      /\ todo[1].phase = "resume" /\ node.kind = "Postfix"
      /\ Need(todo[1]) <= Len(values)
      /\ scopes \in Seq(Facts!Scope(PrslObject)) /\ todo \in Seq(Item) /\ todo # <<>>
  BY <1>1, First
<1>3. Need(todo[1]) = 1 /\ Gain(todo[1]) = 0
  BY <1>2 DEF Need, Gain
<1>4. Len(values) \in 1..Len(values) /\ Result \in PrslObject
  BY <1>2, <1>3 DEF Result
<1>5. 0 - 0 = Gain(todo[1]) /\ 0 <= Need(todo[1])
  BY <1>3
<1>6. ASSUME Continue(<<>>), UNCHANGED <<values, functions, returnStack, printed, status>>,
             Stores
      PROVE  \E items : Does(items)
  <2>1. Leaves(values, values', 0, 0)
    BY <1>2, <1>6, TakesGives
  <2>2. OthersOK'
    BY <1>2, <1>6, OthersKept
  <2> QED
    BY <1>1, <1>5, <1>6, <2>1, <2>2, NothingDoes
<1>7. CASE node.kids[1].kind # "Var"
  BY <1>6, <1>7 DEF ResumePostfix, state, Stores
<1>8. CASE node.kids[1].kind = "Var" /\ ~IsInt(Result)
  BY <1>8, StopStops DEF ResumePostfix, RuntimeErrors
<1>9. CASE node.kids[1].kind = "Var" /\ IsInt(Result)
  <2> DEFINE x == node.kids[1].name
             v == Stepped(node.op, Result[2])
  <2>1. 1 \in DOMAIN todo /\ Incrementing(todo[1])
    BY <1>2, <1>9 DEF Incrementing
  <2>2. Facts!contains(scopes, x)
    BY <1>2, <2>1 DEF IInv, IncrementBound
  <2>3. x \in Name
    <3>1. Len(node.kids) = 1 /\ node.kids \in Seq(Node)
      BY <1>2, NodeFacts
    <3>2. node.kids[1] \in Node
      BY <3>1
    <3> QED
      BY <1>9, <3>2, NodeFacts
  <2>4. v \in PrslObject
    BY <1>4, <1>9, TagTypes, SteppedTypes
  <2>5. scopes' = Facts!assign(scopes, x, v)
    BY <1>9, SameScopes DEF ResumePostfix
  <2> HIDE DEF x, v
  <2>6. Facts!Stored(scopes, scopes', x, v)
    BY <1>2, <2>2, <2>3, <2>5, Facts!AssignStores
  <2>7. Stores
    BY <2>3, <2>4, <2>6 DEF Stores
  <2> QED
    BY <1>6, <1>9, <2>7 DEF ResumePostfix
<1> QED
  BY <1>7, <1>8, <1>9

\* A single item, and one more after it.
LEMMA OneItem ==
  ASSUME NEW item \in Item, item.phase # "leave",
         Looping(item) => item.index <= Len(item.node.kids), ~Incrementing(item)
  PROVE  /\ <<item>> \in Seq(Item) /\ Quiet(<<item>>) /\ Len(<<item>>) = 1
         /\ \A q \in DOMAIN <<item>> : <<item>>[q] = item
         /\ Begins(<<item>>)
         /\ \A last \in Item : EndsWith(<<item, last>>, <<item>>, last)
<1> DEFINE one == <<item>>
<1>1. /\ one \in Seq(Item) /\ Len(one) = 1 /\ DOMAIN one = {1}
      /\ \A q \in DOMAIN one : one[q] = item
  OBVIOUS
<1>2. \A last : <<item, last>> = one \o <<last>>
  OBVIOUS
<1> HIDE DEF one
<1>3. Quiet(one) /\ Begins(one)
  BY <1>1 DEF Quiet, Begins
<1>4. \A last \in Item : EndsWith(<<item, last>>, one, last)
  BY <1>1, <1>2, <1>3 DEF EndsWith
<1> QED
  BY <1>1, <1>3, <1>4 DEF one

\* A block or a scope expression begins.
LEMMA BlockDoes ==
  ASSUME IInv, VisitBlock
  PROVE  Stopped \/ \E items : Does(items)
<1>1. At("visit", {"Scope", "Block"})
  BY DEF VisitBlock
<1>2. /\ node \in Node /\ node.kind \in {"Scope", "Block"} /\ node = todo[1].node
      /\ todo[1].phase = "visit" /\ values \in Seq(PrslObject) /\ Len(values) \in Nat
      /\ OthersOK /\ todo[1] \in Item /\ node.kids \in Seq(Node)
  BY <1>1, First, NodeFacts
<1>3. CASE Len(scopes) = MaxDepth
  BY <1>3, StopStops DEF VisitBlock
<1>4. CASE Len(scopes) # MaxDepth
  <2> DEFINE last == Leaving(node)
             first == ResumeAt(node, 0)
             before == IF node.kind = "Scope" THEN <<first>> ELSE VisitAll(node.kids)
             items == before \o <<last>>
             each == node.kind = "Scope"
  <2>1. /\ Continue(items) /\ UNCHANGED <<values, functions, returnStack, printed, status>>
        /\ scopes' = Env!Enter(scopes, FALSE)
    BY <1>4 DEF VisitBlock
  <2>2. /\ last \in Item /\ last.phase = "leave" /\ last.node = node
        /\ first \in Item /\ first.phase = "resume" /\ first.node = node
        /\ first.index = 0
    <3>1. Leaving(node) \in Item /\ Leaving(node).phase = "leave" /\ Leaving(node).node = node
      BY <1>2, ItemTypes
    <3>2. /\ ResumeAt(node, 0) \in Item /\ ResumeAt(node, 0).phase = "resume"
          /\ ResumeAt(node, 0).node = node /\ ResumeAt(node, 0).index = 0
      BY <1>2 DEF ResumeAt, AnItem, Item, Phases
    <3> QED
      BY <3>1, <3>2
  <2> HIDE DEF last, first
  <2>3. /\ before \in Seq(Item) /\ Quiet(before) /\ Begins(before)
        /\ \A q \in DOMAIN before : Plain(before[q], each)
        /\ Len(before) \in Nat
        /\ node.kind = "Scope" => Len(before) = 1
    <3>1. CASE node.kind = "Scope"
      <4>1. /\ Looping(first) => first.index <= Len(first.node.kids)
            /\ ~Incrementing(first)
        <5>1. Len(node.kids) \in Nat
          BY <1>2
        <5> QED
          BY <2>2, <3>1, <5>1 DEF Incrementing
      <4>2. Plain(first, TRUE)
        BY <2>2, <3>1 DEF Plain, Need, Gain
      <4>3. before = <<first>> /\ each = TRUE
        BY <3>1
      <4>4. /\ <<first>> \in Seq(Item) /\ Quiet(<<first>>) /\ Len(<<first>>) = 1
            /\ \A q \in DOMAIN <<first>> : <<first>>[q] = first
            /\ Begins(<<first>>)
        BY <2>2, <4>1, OneItem
      <4> HIDE DEF before, each
      <4> QED
        BY <4>2, <4>3, <4>4
    <3>2. CASE node.kind # "Scope"
      <4>1. \A i \in DOMAIN node.kids : node.kids[i].kind \in KindsOf(FALSE)
        BY <1>2, KidsOf DEF KindsOf
      <4>2. before = VisitAll(node.kids) /\ each = FALSE
        BY <3>2
      <4> HIDE DEF before, each
      <4>3. /\ before \in Seq(Item) /\ Quiet(before) /\ Begins(before)
            /\ \A q \in DOMAIN before : Plain(before[q], FALSE)
        BY <1>2, <4>1, <4>2, PlainSequences
      <4>4. \A q \in DOMAIN before : Plain(before[q], each)
        BY <4>2, <4>3, Zenon
      <4>5. Len(before) \in Nat
        BY <4>3
      <4> QED
        BY <3>2, <4>3, <4>4, <4>5
    <3> QED
      BY <3>1, <3>2
  <2> HIDE DEF before
  <2>4. EndsWith(items, before, last)
    BY <2>2, <2>3 DEF EndsWith
  <2>5. Leaves(values, values', 0, 0) /\ OthersOK' /\ 0 <= Need(todo[1])
    BY <1>2, <2>1, TakesGives, OthersKept, NeedTypes
  <2> DEFINE there == Results(each, Len(before) + 1)
  <2>6. there = Gain(todo[1]) /\ there \in Nat /\ Need(todo[1]) = 0
    <3>1. Gain(todo[1]) = IF node.kind = "Scope" THEN 1 ELSE 0
      BY <1>2 DEF Gain, ExprKind
    <3>2. there = IF node.kind = "Scope" THEN 1 ELSE 0
      BY <2>3 DEF Results
    <3>3. Need(todo[1]) = 0
      BY <1>2 DEF Need
    <3> QED
      BY <3>1, <3>2, <3>3
  <2>7. Need(last) = 0 /\ Gain(last) = 0 /\ ~Calling(last)
        /\ ~Looping(last) /\ ~Incrementing(last)
    BY <2>2 DEF Need, Gain, Calling, Looping, Incrementing
  <2>8. each \in BOOLEAN
    OBVIOUS
  <2> HIDE DEF items, there, each
  <2>9. LastFits(last, Len(values') + there,
                 Len(values) + Gain(todo[1]), Len(values) - Need(todo[1]), values')
    BY <1>2, <2>1, <2>6, <2>7 DEF LastFits
  <2>10. LastFits(last, Len(values') + Results(each, Len(before) + 1),
                  Len(values) + Gain(todo[1]), Len(values) - Need(todo[1]), values')
    BY <2>9, Zenon DEF there
  <2>11. Fits(items)
    BY <1>1, <2>3, <2>4, <2>5, <2>7, <2>8, <2>10, ThenFits
  <2>12. /\ Facts!Opened(FALSE) \in Facts!Scope(PrslObject)
         /\ Facts!Opened(FALSE).global = FALSE
         /\ scopes' = Append(scopes, Facts!Opened(FALSE))
    BY <2>1, SameScopes, Facts!OpenedScope DEF Facts!Opened
  <2>13. Facts!Opened(FALSE).global <=> node.kind = "Call"
    BY <1>2, <2>12
  <2>14. Does(items)
    BY <1>1, <2>1, <2>4, <2>11, <2>12, <2>13, EnterDoes DEF last
  <2> QED
    BY <2>14
<1> QED
  BY <1>3, <1>4

\* A block, a scope expression or a call ends.
LEMMA EndDoes ==
  ASSUME IInv, Leave
  PROVE  \E items : Does(items)
<1>1. /\ At("leave", {"Scope", "Block", "Call"}) /\ Continue(<<>>)
      /\ scopes' = Env!Leave(scopes)
      /\ UNCHANGED <<values, functions, returnStack, printed, status>>
  BY DEF Leave
<1>2. /\ todo[1].phase = "leave" /\ values \in Seq(PrslObject) /\ OthersOK
  BY <1>1, First
<1>3. Leaves(values, values', 0, 0) /\ OthersOK'
  BY <1>1, <1>2, TakesGives, OthersKept
<1>4. 0 <= Need(todo[1]) /\ 0 - 0 = Gain(todo[1])
  BY <1>2 DEF Need, Gain
<1>5. Fits(<<>>)
  BY <1>1, <1>3, <1>4, NothingFits
<1>6. Does(<<>>)
  BY <1>1, <1>5, LeaveDoes
<1> QED
  BY <1>6

\* The next statement of a scope.
LEMMA StatementDoes ==
  ASSUME IInv, ScopeContinues
  PROVE  \E items : Does(items)
<1> DEFINE i == todo[1].index + 1
           first == Visit(node.kids[i])
           last == ResumeAt(node, i)
           items == <<first, last>>
<1>1. /\ At("resume", {"Scope"}) /\ Continue(items) /\ ~Exhausted
      /\ UNCHANGED <<values, scopes, functions, returnStack, printed, status>>
  BY DEF ScopeContinues, state
<1>2. /\ node \in Node /\ node.kind = "Scope" /\ node = todo[1].node
      /\ todo[1].phase = "resume" /\ values \in Seq(PrslObject) /\ Len(values) \in Nat
      /\ todo[1] \in Item /\ node.kids \in Seq(Node) /\ Len(node.kids) \in Nat
      /\ todo \in Seq(Item) /\ todo # <<>>
  BY <1>1, First, NodeFacts
<1>3. i \in 1..Len(node.kids) /\ i \in Nat
  <2>1. 1 \in DOMAIN todo /\ Looping(todo[1])
    BY <1>2 DEF Looping
  <2>2. todo[1].index <= Len(node.kids)
    BY <1>2, <2>1 DEF IInv, LoopsInside
  <2>3. todo[1].index \in Nat /\ todo[1].index # Len(node.kids)
    BY <1>1, <1>2 DEF Item, Exhausted
  <2> QED
    BY <1>2, <2>2, <2>3
<1> HIDE DEF i
<1>4. node.kids[i] \in Node /\ node.kids[i].kind \in StmtKind
  BY <1>2, <1>3, NodeFacts DEF KidKind
<1>5. /\ first \in Item /\ first.phase = "visit" /\ first.node = node.kids[i]
      /\ last \in Item /\ last.phase = "resume" /\ last.node = node /\ last.index = i
  <2>1. first \in Item /\ first.phase = "visit" /\ first.node = node.kids[i]
    BY <1>4, ItemTypes
  <2>2. last \in Item /\ last.phase = "resume" /\ last.node = node /\ last.index = i
    BY <1>2, <1>3 DEF ResumeAt, AnItem, Item, Phases
  <2> QED
    BY <2>1, <2>2
<1> HIDE DEF first, last
<1>6. Plain(first, FALSE) /\ ~Looping(first) /\ ~Incrementing(first)
  BY <1>4, <1>5 DEF Plain, Need, Gain, Looping, Incrementing, ExprKind, StmtKind
<1>7. /\ <<first>> \in Seq(Item) /\ Len(<<first>>) = 1
      /\ \A q \in DOMAIN <<first>> : <<first>>[q] = first
      /\ Begins(<<first>>)
      /\ EndsWith(items, <<first>>, last)
  BY <1>5, <1>6, OneItem
<1> DEFINE before == <<first>>
           there == Results(FALSE, Len(before) + 1)
<1>8. /\ Leaves(values, values', 0, 0)
  BY <1>1, <1>2, TakesGives
<1>9. there = 0
  BY DEF Results
<1>10. \A q \in DOMAIN before : Plain(before[q], FALSE)
  BY <1>6, <1>7
<1> HIDE DEF before, there, items
<1>11. Need(last) = 0 /\ Gain(last) = 1 /\ Need(todo[1]) = 0 /\ Gain(todo[1]) = 1
       /\ ~Calling(last) /\ ~Incrementing(last)
  BY <1>2, <1>5 DEF Need, Gain, Calling, Incrementing
<1>12. LastFits(last, Len(values') + there,
                Len(values) + Gain(todo[1]), Len(values) - Need(todo[1]), values')
  BY <1>1, <1>2, <1>9, <1>11 DEF LastFits
<1>13. LastFits(last, Len(values') + Results(FALSE, Len(before) + 1),
                Len(values) + Gain(todo[1]), Len(values) - Need(todo[1]), values')
  BY <1>12, Zenon DEF there
<1>14. last.index <= Len(last.node.kids) /\ last.phase # "leave"
  BY <1>2, <1>3, <1>5
<1>15. Begins(before) /\ EndsWith(items, before, last)
  BY <1>7 DEF before
<1> QED
  BY <1>1, <1>8, <1>10, <1>11, <1>13, <1>14, <1>15, PlainThenDoes

\* The value of a scope.
LEMMA ScopeValueDoes ==
  ASSUME IInv, ScopeEnds
  PROVE  \E items : Does(items)
<1>1. /\ At("resume", {"Scope"}) /\ Continue(<<>>)
      /\ UNCHANGED <<scopes, functions, printed, status>>
  BY DEF ScopeEnds
<1>2. /\ node.kind = "Scope" /\ node = todo[1].node
      /\ todo[1].phase = "resume" /\ values \in Seq(PrslObject)
      /\ OthersOK /\ Need(todo[1]) \in Nat
  BY <1>1, First
<1>3. 1 - 0 = Gain(todo[1]) /\ 0 <= Need(todo[1])
  BY <1>2 DEF Gain
<1>4. returnStack \in Seq(PrslObject)
  BY <1>2 DEF OthersOK
<1>5. CASE Returned
  <2> DEFINE obj == returnStack[Len(returnStack)]
  <2>1. values' = Append(values, obj) /\ returnStack' = Below(returnStack, 1)
    BY <1>5 DEF ScopeEnds, Push
  <2>2. Len(returnStack) \in 1..Len(returnStack) /\ 1 \in 0..Len(returnStack)
    BY <1>4, <1>5 DEF Returned
  <2>3. obj \in PrslObject
    BY <1>4, <2>2
  <2>4. returnStack' \in Seq(PrslObject)
    BY <1>4, <2>1, <2>2, TakesGives DEF Leaves
  <2> HIDE DEF obj
  <2>5. Leaves(values, values', 0, 1)
    BY <1>2, <2>1, <2>3, TakesGives
  <2>6. OthersOK' /\ Stores
    BY <1>1, <1>2, <2>4 DEF OthersOK, Stores
  <2> QED
    BY <1>1, <1>3, <2>5, <2>6, NothingDoes
<1>6. CASE ~Returned
  <2>1. values' = Append(values, Nil) /\ returnStack' = returnStack
    BY <1>6 DEF ScopeEnds, Push
  <2>2. Leaves(values, values', 0, 1)
    BY <1>2, <2>1, TakesGives, ObjectTypes
  <2>3. OthersOK' /\ Stores
    BY <1>1, <1>2, <2>1 DEF OthersOK, Stores
  <2> QED
    BY <1>1, <1>3, <2>2, <2>3, NothingDoes
<1> QED
  BY <1>5, <1>6

\* A function is what its expression yields; its body is registered before it is.
LEMMA FunctionDoes ==
  ASSUME IInv, VisitFuncExpr
  PROVE  \E items : Does(items)
<1> DEFINE first == Register(node.kids[1])
           last == Resume(node)
           before == <<first>>
           items == <<first, last>>
<1>1. /\ At("visit", {"Func"}) /\ Continue(items) /\ values' = Append(values, FuncObj(node))
      /\ UNCHANGED <<scopes, functions, returnStack, printed, status>>
  BY DEF VisitFuncExpr, state, Push
<1>2. /\ node \in Node /\ node.kind = "Func" /\ node = todo[1].node
      /\ todo[1].phase = "visit" /\ values \in Seq(PrslObject) /\ Len(values) \in Nat
      /\ node.kids \in Seq(Node) /\ Len(node.kids) = 1
  BY <1>1, First, NodeFacts
<1>3. node.kids[1] \in Node
  BY <1>2
<1>4. /\ first \in Item /\ first.phase = "register"
      /\ last \in Item /\ last.phase = "resume" /\ last.node = node
  BY ZenonT(30), <1>2, <1>3, ItemTypes
<1> HIDE DEF first, last
<1>5. Plain(first, FALSE) /\ ~Looping(first) /\ ~Incrementing(first)
  BY <1>4 DEF Plain, Need, Gain, Looping, Incrementing
<1>6. /\ Len(before) = 1 /\ \A q \in DOMAIN before : before[q] = first
      /\ Begins(before) /\ EndsWith(items, before, last)
  BY <1>4, <1>5, OneItem
<1>7. \A q \in DOMAIN before : Plain(before[q], FALSE)
  BY <1>5, <1>6
<1> DEFINE there == Results(FALSE, Len(before) + 1)
<1>8. there = 0
  BY DEF Results
<1> HIDE DEF before, there, items
<1>9. /\ Need(last) = 0 /\ Gain(last) = 0 /\ Need(todo[1]) = 0 /\ Gain(todo[1]) = 1
      /\ ~Calling(last) /\ ~Incrementing(last) /\ ~Looping(last) /\ last.phase # "leave"
  BY <1>2, <1>4 DEF Need, Gain, Calling, Incrementing, Looping, ExprKind
<1>10. FuncObj(node) \in PrslObject
  BY <1>2, ObjectTypes DEF FuncExpr
<1>11. Leaves(values, values', 0, 1)
  BY <1>1, <1>2, <1>10, TakesGives
<1>12. Len(values') = Len(values) + 1
  BY <1>2, <1>11 DEF Leaves
<1>13. LastFits(last, Len(values') + there,
                Len(values) + Gain(todo[1]), Len(values) - Need(todo[1]), values')
  <2>1. /\ (Len(values') + there) + Gain(last) = Len(values) + Gain(todo[1])
        /\ (Len(values') + there) - Need(last) >= Len(values) - Need(todo[1])
    BY <1>2, <1>8, <1>9, <1>12
  <2> QED
    BY <1>9, <2>1 DEF LastFits
<1>14. LastFits(last, Len(values') + Results(FALSE, Len(before) + 1),
                Len(values) + Gain(todo[1]), Len(values) - Need(todo[1]), values')
  BY <1>13, Zenon DEF there
<1> QED
  BY <1>1, <1>6, <1>7, <1>9, <1>11, <1>14, PlainThenDoes

\* The functions after one of them is defined.
LEMMA DefinesFunction ==
  ASSUME OthersOK, node \in Node, node.kind = "Func",
         functions' = IF node.name = NoName THEN functions
                      ELSE [functions EXCEPT ![node.name] = FuncObj(node)],
         UNCHANGED <<returnStack, printed, status>>
  PROVE  OthersOK'
<1>1. FuncObj(node) \in PrslObject /\ IsFunc(FuncObj(node))
  BY ObjectTypes DEF FuncExpr
<1>2. node.name \in Name \cup {NoName}
  BY NodeFacts
<1>3. functions' \in [Name -> PrslObject \cup {Absent}]
  BY <1>1, <1>2 DEF OthersOK
<1>4. \A x \in Name : functions'[x] # Absent => IsFunc(functions'[x])
  <2> SUFFICES ASSUME NEW x \in Name, functions'[x] # Absent
               PROVE  IsFunc(functions'[x])
    OBVIOUS
  <2>1. functions'[x] = functions[x] \/ functions'[x] = FuncObj(node)
    BY <1>2 DEF OthersOK
  <2> QED
    BY <2>1, <1>1 DEF OthersOK
<1> QED
  BY <1>3, <1>4 DEF OthersOK

\* A function is defined.
LEMMA DefinedDoes ==
  ASSUME IInv, NEW phase, At(phase, {"Func"}), phase \in {"resume", "register"},
         functions' = IF node.name = NoName THEN functions
                      ELSE [functions EXCEPT ![node.name] = FuncObj(node)],
         Continue(<<>>), UNCHANGED <<values, scopes, returnStack, printed, status>>
  PROVE  \E items : Does(items)
<1>1. /\ node \in Node /\ node.kind = "Func" /\ node = todo[1].node
      /\ todo[1].phase = phase /\ values \in Seq(PrslObject)
      /\ OthersOK /\ Need(todo[1]) \in Nat
  BY First
<1>2. OthersOK' /\ Stores
  BY <1>1, DefinesFunction DEF Stores
<1>3. 0 - 0 = Gain(todo[1]) /\ 0 <= Need(todo[1])
  BY <1>1 DEF Gain
<1>4. Leaves(values, values', 0, 0)
  BY <1>1, TakesGives
<1> QED
  BY <1>2, <1>3, <1>4, NothingDoes

\* FunctionsResolver goes down a body.
LEMMA RegisterDoes ==
  ASSUME IInv, RegisterBelow
  PROVE  \E items : Does(items)
<1> DEFINE items == RegisterAll(node.kids)
           Kinds == (ExprKind \cup StmtKind) \ {"Func"}
<1>1. /\ At("register", Kinds) /\ Continue(items)
      /\ UNCHANGED <<values, scopes, functions, returnStack, printed, status>>
  BY DEF RegisterBelow, state
<1> HIDE DEF Kinds
<1>2. /\ node \in Node /\ node.kids \in Seq(Node) /\ todo[1].phase = "register"
  BY <1>1, First, NodeFacts
<1>3. /\ items \in Seq(Item) /\ Quiet(items) /\ Begins(items)
      /\ \A q \in DOMAIN items : Plain(items[q], FALSE)
  BY <1>2, PlainSequences
<1>4. Results(FALSE, Len(items) + 1) = Gain(todo[1])
  BY <1>2 DEF Results, Gain
<1> HIDE DEF items
<1> QED
  BY <1>1, <1>3, <1>4, PlainDoes

\* The function called, and its arguments above it.
LEMMA CallDoes ==
  ASSUME IInv, VisitCallExpr
  PROVE  Stopped \/ \E items : Does(items)
<1>1. At("visit", {"Call"})
  BY DEF VisitCallExpr
<1>2. /\ node \in Node /\ node.kind = "Call" /\ node = todo[1].node
      /\ todo[1].phase = "visit" /\ values \in Seq(PrslObject) /\ Len(values) \in Nat
      /\ node.kids \in Seq(Node) /\ node.name \in Name /\ OthersOK
      /\ scopes \in Seq(Facts!Scope(PrslObject))
  BY <1>1, First, NodeFacts
<1>3. CASE ~Known /\ ~Bound
  BY <1>3, StopStops DEF VisitCallExpr
<1>4. CASE (Known \/ Bound) /\ ~IsFunc(Callee)
  BY <1>4, StopStops DEF VisitCallExpr, RuntimeErrors
<1>5. CASE /\ (Known \/ Bound) /\ IsFunc(Callee)
           /\ Len(Callee[2].params) # Len(node.kids)
  BY <1>5, StopStops DEF VisitCallExpr, RuntimeErrors
<1>6. CASE /\ (Known \/ Bound) /\ IsFunc(Callee)
           /\ Len(Callee[2].params) = Len(node.kids)
  <2> DEFINE func == Callee
             before == VisitAll(node.kids)
             last == Resume(node)
             items == before \o <<last>>
             count == Len(node.kids)
             there == Results(TRUE, Len(before) + 1)
  <2>1. /\ Continue(items) /\ values' = Append(values, func)
        /\ UNCHANGED <<scopes, functions, returnStack, printed, status>>
    BY <1>6 DEF VisitCallExpr, state, Push
  <2>2. func \in PrslObject
    <3>1. CASE Known
      BY <1>2, <3>1 DEF Known, Callee, OthersOK
    <3>2. CASE ~Known
      <4>1. Facts!contains(scopes, node.name)
        BY <1>6, <3>2, SameScopes DEF Bound
      <4>2. Facts!get(scopes, node.name) \in PrslObject
        BY <1>2, <4>1, Facts!GetType
      <4> QED
        BY <3>2, <4>2, SameScopes DEF Callee
    <3> QED
      BY <3>1, <3>2
  <2>3. /\ last \in Item /\ last.phase = "resume" /\ last.node = node
    BY <1>2, ItemTypes
  <2>4. \A i \in DOMAIN node.kids : node.kids[i].kind \in KindsOf(TRUE)
    BY <1>2, KidsOf DEF KindsOf
  <2>5. /\ before \in Seq(Item) /\ Quiet(before) /\ Begins(before)
        /\ Len(before) = count
        /\ \A q \in DOMAIN before : Plain(before[q], TRUE)
    BY <1>2, <2>4, PlainSequences
  <2>6. EndsWith(items, before, last)
    BY <2>3, <2>5 DEF EndsWith
  <2>7. count \in Nat
    BY <1>2
  <2>8. there = count
    BY <2>5, <2>7 DEF Results
  <2>9. IsFunc(func) /\ Len(func[2].params) = count
    BY <1>6
  <2>10. /\ Need(last) = count + 1 /\ Gain(last) = -count
         /\ Need(todo[1]) = 0 /\ Gain(todo[1]) = 1
         /\ ~Looping(last) /\ ~Incrementing(last) /\ last.phase # "leave"
         /\ Len(last.node.kids) = count
    BY <1>2, <2>3 DEF Need, Gain, Looping, Incrementing, ExprKind
  <2> HIDE DEF func, before, last, items, count, there
  <2>11. Leaves(values, values', 0, 1)
    BY <1>2, <2>1, <2>2, TakesGives
  <2>12. /\ Len(values') = Len(values) + 1
         /\ values'[Len(values) + 1] = func
    BY <1>2, <2>1
  <2>13. CallsAt(last, Len(values) + 1, values')
    <3>1. Len(values) + 1 \in 1..Len(values')
      BY <1>2, <2>12
    <3> QED
      BY <2>9, <2>10, <2>12, <3>1 DEF CallsAt
  <2>14. LastFits(last, Len(values') + there,
                  Len(values) + Gain(todo[1]), Len(values) - Need(todo[1]), values')
    <3>1. /\ (Len(values') + there) + Gain(last) = Len(values) + Gain(todo[1])
          /\ (Len(values') + there) - Need(last) >= Len(values) - Need(todo[1])
          /\ (Len(values') + there) - Len(last.node.kids) = Len(values) + 1
      BY <1>2, <2>7, <2>8, <2>10, <2>12
    <3> QED
      BY <2>13, <3>1 DEF LastFits
  <2>15. LastFits(last, Len(values') + Results(TRUE, Len(before) + 1),
                  Len(values) + Gain(todo[1]), Len(values) - Need(todo[1]), values')
    BY <2>14, Zenon DEF there
  <2> QED
    BY <1>1, <2>1, <2>5, <2>6, <2>10, <2>11, <2>15, PlainThenDoes
<1> QED
  BY <1>3, <1>4, <1>5, <1>6

\* The function that a call has found is below the arguments.
LEMMA CallReady ==
  ASSUME IInv, At("resume", {"Call"})
  PROVE  LET count == Len(node.kids)
             func == values[Len(values) - count]
         IN  /\ Len(values) - count \in 1..Len(values)
             /\ func \in PrslObject /\ IsFunc(func) /\ func[2] \in FuncExpr
             /\ Len(func[2].params) = count
<1> DEFINE count == Len(node.kids)
           k == Len(values) - count
<1>1. /\ node.kind = "Call" /\ node = todo[1].node /\ todo[1].phase = "resume"
      /\ todo \in Seq(Item) /\ todo # <<>> /\ values \in Seq(PrslObject)
  BY First
<1>2. PICK h : Heights(h, todo, Len(values)) /\ CallsWait(h, todo, values)
  BY DEF IInv, ResultsThere, HeightsFit
<1>3. 1 \in 1..Len(todo) /\ Calling(todo[1]) /\ h[1] = Len(values)
  BY <1>1, <1>2 DEF Calling, Heights
<1>4. CallsAt(todo[1], k, values)
  BY <1>1, <1>2, <1>3 DEF CallsWait
<1> HIDE DEF k
<1>5. /\ k \in 1..Len(values) /\ IsFunc(values[k])
      /\ Len(values[k][2].params) = count
  BY <1>1, <1>4 DEF CallsAt
<1>6. values[k] \in PrslObject
  BY <1>1, <1>5
<1>7. values[k][2] \in FuncExpr
  BY <1>5, <1>6, TagTypes
<1> QED
  BY <1>5, <1>6, <1>7 DEF k

\* Its body begins, in a scope with the arguments.
LEMMA BodyDoes ==
  ASSUME IInv, ResumeCallExpr
  PROVE  Stopped \/ \E items : Does(items)
<1>1. At("resume", {"Call"})
  BY DEF ResumeCallExpr
<1> DEFINE count == Len(node.kids)
           func == values[Len(values) - count][2]
           args == SubSeq(values, Len(values) - count + 1, Len(values))
           first == ResumeAt(func.kids[1], 0)
           last == Leaving(node)
           before == <<first>>
           items == <<first, last>>
           there == Results(TRUE, Len(before) + 1)
           scope == ArgumentScope(func.params, args)
<1>2. /\ node \in Node /\ node.kind = "Call" /\ node = todo[1].node
      /\ todo[1].phase = "resume" /\ values \in Seq(PrslObject) /\ Len(values) \in Nat
      /\ node.kids \in Seq(Node) /\ OthersOK /\ count \in Nat
  BY <1>1, First, NodeFacts
<1>3. CASE Len(scopes) = MaxDepth
  BY <1>3, StopStops DEF ResumeCallExpr
<1>4. CASE Len(scopes) # MaxDepth
  <2>1. /\ scopes' = Append(scopes, scope) /\ values' = Below(values, count + 1)
        /\ Continue(items) /\ UNCHANGED <<functions, returnStack, printed, status>>
    BY <1>4 DEF ResumeCallExpr
  <2>2. /\ Len(values) - count \in 1..Len(values)
        /\ func \in FuncExpr /\ Len(func.params) = count
    BY <1>1, CallReady
  <2>3. /\ func \in Node /\ func.params \in Seq(Name)
        /\ func.kids[1] \in Node /\ func.kids[1].kind = "Scope"
        /\ Len(func.kids[1].kids) \in Nat
    <3> HIDE DEF func
    <3>1. func \in Node /\ func.kind = "Func"
      BY <2>2 DEF FuncExpr
    <3>2. /\ func.params \in Seq(Name) /\ func.kids \in Seq(Node) /\ Len(func.kids) = 1
          /\ func.kids[1].kind = "Scope"
      BY <3>1, NodeFacts
    <3>3. func.kids[1] \in Node
      BY <3>2
    <3>4. func.kids[1].kids \in Seq(Node)
      BY <3>3, NodeFacts
    <3> QED
      BY <3>1, <3>2, <3>3, <3>4
  <2> HIDE DEF func
  <2>4. args \in Seq(PrslObject) /\ Len(args) = count
    <3> HIDE DEF count
    <3>1. /\ Len(values) - count + 1 \in 1..(Len(values) + 1)
          /\ \A i \in (Len(values) - count + 1)..Len(values) : i \in 1..Len(values)
      BY <1>2, <2>2
    <3> QED
      BY <1>2, <3>1
  <2> HIDE DEF args
  <2>5. scope \in Facts!Scope(PrslObject) /\ scope.global = TRUE
    BY <2>2, <2>3, <2>4, ArgumentTypes
  <2> HIDE DEF scope
  <2>6. /\ last \in Item /\ last.phase = "leave" /\ last.node = node
        /\ first \in Item /\ first.phase = "resume" /\ first.node = func.kids[1]
        /\ first.index = 0
    <3>1. last \in Item /\ last.phase = "leave" /\ last.node = node
      BY <1>2, ItemTypes
    <3>2. /\ first \in Item /\ first.phase = "resume" /\ first.node = func.kids[1]
          /\ first.index = 0
      BY <2>3 DEF ResumeAt, AnItem, Item, Phases
    <3> QED
      BY <3>1, <3>2
  <2> HIDE DEF first, last
  <2>7. /\ Plain(first, TRUE) /\ ~Incrementing(first)
        /\ first.index <= Len(first.node.kids)
    BY <2>3, <2>6 DEF Plain, Need, Gain, Incrementing
  <2>8. /\ Len(before) = 1 /\ \A q \in DOMAIN before : before[q] = first
        /\ Begins(before) /\ EndsWith(items, before, last)
    BY <2>6, <2>7, OneItem
  <2>9. \A q \in DOMAIN before : Plain(before[q], TRUE)
    BY <2>7, <2>8
  <2>10. there = 1
    BY DEF Results
  <2> HIDE DEF before, there, items
  <2>11. /\ Need(last) = 0 /\ Gain(last) = 0
         /\ Need(todo[1]) = count + 1 /\ Gain(todo[1]) = -count
         /\ ~Calling(last) /\ ~Looping(last) /\ ~Incrementing(last)
    BY <1>2, <2>6 DEF Need, Gain, Calling, Looping, Incrementing
  <2> HIDE DEF count
  <2>12. count + 1 \in 0..Len(values) /\ count + 1 <= Need(todo[1])
    BY <1>2, <2>2, <2>11
  <2>13. Leaves(values, values', count + 1, 0)
    BY <1>2, <2>1, <2>12, TakesGives
  <2>14. Len(values') = Len(values) - (count + 1)
    BY <1>2, <2>12, <2>13 DEF Leaves
  <2>15. LastFits(last, Len(values') + there,
                  Len(values) + Gain(todo[1]), Len(values) - Need(todo[1]), values')
    <3>1. /\ (Len(values') + there) + Gain(last) = Len(values) + Gain(todo[1])
          /\ (Len(values') + there) - Need(last) >= Len(values) - Need(todo[1])
      BY <1>2, <2>10, <2>11, <2>12, <2>14
    <3> QED
      BY <2>11, <3>1 DEF LastFits
  <2>16. LastFits(last, Len(values') + Results(TRUE, Len(before) + 1),
                  Len(values) + Gain(todo[1]), Len(values) - Need(todo[1]), values')
    BY <2>15, Zenon DEF there
  <2>17. OthersOK'
    BY <1>2, <2>1, OthersKept
  <2>18. Fits(items)
    BY <1>1, <2>8, <2>9, <2>11, <2>12, <2>13, <2>16, <2>17, ThenFits
  <2>19. EndsWith(items, before, Leaving(node))
    BY <2>8 DEF last
  <2>20. scope.global <=> node.kind = "Call"
    BY <1>2, <2>5
  <2>21. Does(items)
    BY <1>1, <2>1, <2>5, <2>18, <2>19, <2>20, EnterDoes
  <2> QED
    BY <2>21
<1> QED
  BY <1>3, <1>4

\* What a condition selects: statements, or the loop again.
LEMMA ConditionDoes ==
  ASSUME IInv, ResumeCondition
  PROVE  \E items : Does(items)
<1>1. /\ At("resume", {"If", "While"}) /\ Continue(Selected)
      /\ values' = Below(values, 1)
      /\ UNCHANGED <<scopes, functions, returnStack, printed, status>>
  BY DEF ResumeCondition, state, Pop
<1>2. /\ node \in Node /\ node.kind \in {"If", "While"} /\ node = todo[1].node
      /\ todo[1].phase = "resume" /\ values \in Seq(PrslObject) /\ Len(values) \in Nat
      /\ OthersOK /\ Need(todo[1]) <= Len(values)
      /\ node.kids \in Seq(Node)
      /\ node.kind = "While" => Len(node.kids) = 2
      /\ node.kind = "If" => Len(node.kids) \in {2, 3}
  BY <1>1, First, NodeFacts
<1>3. Need(todo[1]) = 1 /\ Gain(todo[1]) = -1
  BY <1>2 DEF Need, Gain
<1>4. ASSUME NEW i \in DOMAIN node.kids, i > 1
      PROVE  node.kids[i] \in Node /\ node.kids[i].kind \in StmtKind
  <2>1. node.kids[i] \in Node /\ node.kids[i].kind \in KidKind(node, i)
    BY <1>2, NodeFacts
  <2>2. KidKind(node, i) = StmtKind
    BY <1>2, <1>4 DEF KidKind
  <2> QED
    BY <2>1, <2>2
<1> DEFINE Waits(item) == item \in Item /\ item.phase = "visit" /\ Plain(item, FALSE)
<1>5. ASSUME NEW n \in Node, n.kind \in StmtKind PROVE Waits(Visit(n))
  <2>1. Visit(n) \in Item /\ Visit(n).phase = "visit" /\ Visit(n).node = n
    BY ItemTypes
  <2> QED
    BY <1>5, <2>1 DEF Plain, Need, Gain, ExprKind, StmtKind
<1>6. /\ Selected \in Seq(Item)
      /\ \A q \in DOMAIN Selected : Waits(Selected[q])
  <2>1. ASSUME NEW a, Waits(a)
        PROVE  <<a>> \in Seq(Item) /\ \A q \in DOMAIN <<a>> : Waits(<<a>>[q])
    <3> DEFINE s == <<a>>
    <3>1. a \in Item
      BY <2>1
    <3>2. s \in Seq(Item) /\ \A q \in DOMAIN s : s[q] = a
      BY <3>1
    <3> HIDE DEF s, Waits
    <3>3. \A q \in DOMAIN s : Waits(s[q])
      BY <2>1, <3>2
    <3> QED
      BY <3>2, <3>3 DEF s
  <2>2. ASSUME NEW a, NEW b, Waits(a), Waits(b)
        PROVE  <<a, b>> \in Seq(Item) /\ \A q \in DOMAIN <<a, b>> : Waits(<<a, b>>[q])
    <3> DEFINE s == <<a, b>>
    <3>1. a \in Item /\ b \in Item
      BY <2>2
    <3>2. s \in Seq(Item) /\ \A q \in DOMAIN s : s[q] = a \/ s[q] = b
      BY <3>1
    <3> HIDE DEF s, Waits
    <3>3. \A q \in DOMAIN s : Waits(s[q])
      BY <2>2, <3>2
    <3> QED
      BY <3>2, <3>3 DEF s
  <2>3. <<>> \in Seq(Item) /\ \A q \in DOMAIN <<>> : Waits(<<>>[q])
    OBVIOUS
  <2>4. 2 \in DOMAIN node.kids /\ (Len(node.kids) = 3 => 3 \in DOMAIN node.kids)
    BY <1>2
  <2>5. /\ Waits(Visit(node.kids[2]))
        /\ Len(node.kids) = 3 => Waits(Visit(node.kids[3]))
    <3>1. node.kids[2] \in Node /\ node.kids[2].kind \in StmtKind
      BY <1>4, <2>4
    <3>2. Len(node.kids) = 3 => node.kids[3] \in Node /\ node.kids[3].kind \in StmtKind
      BY <1>4, <2>4
    <3> HIDE DEF Waits
    <3> QED
      BY <1>5, <3>1, <3>2
  <2>6. node.kind = "While" => Waits(Visit(node))
    BY <1>2, <1>5 DEF StmtKind
  <2>7. \/ Selected = <<>>
        \/ Selected = <<Visit(node.kids[2])>>
        \/ node.kind = "While" /\ Selected = <<Visit(node.kids[2]), Visit(node)>>
        \/ Len(node.kids) = 3 /\ Selected = <<Visit(node.kids[3])>>
    BY DEF Selected
  <2> HIDE DEF Waits
  <2> QED
    BY <2>1, <2>2, <2>3, <2>5, <2>6, <2>7
<1> DEFINE items == Selected
<1>7. items \in Seq(Item) /\ \A q \in DOMAIN items : Waits(items[q])
  BY <1>6
<1> HIDE DEF items
<1>8. Quiet(items) /\ Begins(items) /\ \A q \in DOMAIN items : Plain(items[q], FALSE)
  BY <1>7 DEF Quiet, Begins, Looping, Incrementing
<1>9. 1 \in 0..Len(values) /\ 1 <= Need(todo[1])
  BY <1>2, <1>3
<1>10. Leaves(values, values', 1, 0)
  BY <1>1, <1>2, <1>9, TakesGives
<1>11. OthersOK' /\ Stores
  BY <1>1, <1>2, OthersKept DEF Stores
<1>12. 0 - 1 + Results(FALSE, Len(items) + 1) = Gain(todo[1])
  BY <1>3 DEF Results
<1>13. Fits(items)
  BY <1>1, <1>7, <1>8, <1>9, <1>10, <1>11, <1>12, PlainFits
<1>14. Continue(items) /\ ~Reading(todo[1])
  BY <1>1, <1>2 DEF items, Reading
<1>15. Does(items)
  BY <1>1, <1>8, <1>11, <1>13, <1>14, QuietDoes
<1> QED
  BY <1>15

\* A statement takes the value of its expression.
LEMMA StatementEnds ==
  ASSUME IInv, NEW kind \in {"Print", "ExprStmt", "Return"}, At("resume", {kind}),
         Continue(<<>>), Pop, UNCHANGED <<scopes, functions, status>>,
         returnStack' = returnStack \/ returnStack' = Append(returnStack, Result),
         printed' = printed \/ printed' = Append(printed, toString(Result))
  PROVE  \E items : Does(items)
<1>1. /\ node = todo[1].node /\ node.kind = kind
      /\ todo[1].phase = "resume" /\ values \in Seq(PrslObject) /\ Len(values) \in Nat
      /\ OthersOK /\ Need(todo[1]) <= Len(values)
  BY First
<1>2. Need(todo[1]) = 1 /\ Gain(todo[1]) = -1
  BY <1>1 DEF Need, Gain
<1>3. Len(values) \in 1..Len(values) /\ Result \in PrslObject /\ 1 \in 0..Len(values)
  BY <1>1, <1>2 DEF Result
<1>4. toString(Result) \in Printable
  BY <1>3, PrintedTypes
<1>5. returnStack' \in Seq(PrslObject) /\ printed' \in Seq(Printable)
  <2>1. returnStack \in Seq(PrslObject) /\ printed \in Seq(Printable)
    BY <1>1 DEF OthersOK
  <2>2. returnStack' \in Seq(PrslObject)
    BY <1>3, <2>1
  <2> DEFINE line == toString(Result)
  <2>3. line \in Printable /\ (printed' = printed \/ printed' = Append(printed, line))
    BY <1>4
  <2> HIDE DEF line
  <2>4. printed' \in Seq(Printable)
    BY <2>1, <2>3
  <2> QED
    BY <2>2, <2>4
<1>6. OthersOK' /\ Stores
  BY <1>1, <1>5 DEF OthersOK, Stores
<1>7. Leaves(values, values', 1, 0)
  BY <1>1, <1>3, TakesGives DEF Pop
<1>8. 0 - 1 = Gain(todo[1]) /\ 1 <= Need(todo[1])
  BY <1>2
<1> QED
  BY <1>6, <1>7, <1>8, NothingDoes

\* One step of the interpreter.
LEMMA StepEffect ==
  ASSUME IInv, Next
  PROVE  Stopped \/ \E items : Does(items)
<1>1. CASE VisitLeaf
  BY <1>1, LeafDoes
<1>2. CASE VisitVarExpr
  BY <1>2, VariableDoes
<1>3. CASE Descend
  BY <1>3, DescendDoes
<1>4. CASE VisitOperands
  BY <1>4, OperandsDo
<1>5. CASE ResumeAssignment
  BY <1>5, AssignmentDoes
<1>6. CASE ResumeUnary
  BY <1>6, UnaryDoes
<1>7. CASE ResumeBinary
  BY <1>7, BinaryDoes
<1>8. CASE ResumePostfix
  BY <1>8, PostfixDoes
<1>9. CASE VisitBlock
  BY <1>9, BlockDoes
<1>10. CASE Leave
  BY <1>10, EndDoes
<1>11. CASE ScopeContinues
  BY <1>11, StatementDoes
<1>12. CASE ScopeEnds
  BY <1>12, ScopeValueDoes
<1>13. CASE VisitFuncExpr
  BY <1>13, FunctionDoes
<1>14. CASE ResumeFuncExpr
  BY <1>14, DefinedDoes DEF ResumeFuncExpr
<1>15. CASE RegisterBelow
  BY <1>15, RegisterDoes
<1>16. CASE RegisterFunction
  <2>1. CASE Stop(Signalled)
    BY <2>1, StopStops
  <2>2. CASE ~Stop(Signalled)
    BY <1>16, <2>2, DefinedDoes DEF RegisterFunction
  <2> QED
    BY <2>1, <2>2
<1>17. CASE VisitCallExpr
  BY <1>17, CallDoes
<1>18. CASE ResumeCallExpr
  BY <1>18, BodyDoes
<1>19. CASE ResumeCondition
  BY <1>19, ConditionDoes
<1>20. CASE ResumePrintStmt
  BY <1>20, StatementEnds DEF ResumePrintStmt
<1>21. CASE ResumeExprStmt
  BY <1>21, StatementEnds DEF ResumeExprStmt, state
<1>22. CASE ResumeReturnStmt
  <2>1. CASE Len(returnStack) = MaxReturns
    BY <1>22, <2>1, StopStops DEF ResumeReturnStmt
  <2>2. CASE Len(returnStack) # MaxReturns
    BY <1>22, <2>2, StatementEnds DEF ResumeReturnStmt
  <2> QED
    BY <2>1, <2>2
<1>23. CASE Finish
  BY <1>23 DEF Finish, Stopped
<1> QED
  BY <1>1, <1>2, <1>3, <1>4, <1>5, <1>6, <1>7, <1>8, <1>9, <1>10, <1>11, <1>12, <1>13,
     <1>14, <1>15, <1>16, <1>17, <1>18, <1>19, <1>20, <1>21, <1>22, <1>23 DEF Next

-----------------------------------------------------------------------------
(***************************************************************************)
(* Theorems.                                                               *)
(***************************************************************************)

\* Init and every step keep the invariant.
LEMMA Inductive == Spec => []IInv
<1>1. Init => IInv
  <2> SUFFICES ASSUME Init PROVE IInv
    OBVIOUS
  <2>1. PICK root \in Program : InitWith(root)
    BY DEF Init
  <2>2. /\ root \in Node /\ program = root
        /\ todo = <<Visit(root)>> /\ scopes = <<Facts!Opened(TRUE)>> /\ values = <<>>
        /\ functions = [x \in Name |-> Absent] /\ returnStack = <<>> /\ printed = <<>>
        /\ status = Running
    BY <2>1, AstAssumption, SameScopes DEF InitWith
  <2>3. Visit(root) \in Item /\ Visit(root).phase = "visit" /\ Visit(root).node = root
    BY <2>2, ItemTypes
  <2>4. Facts!Opened(TRUE) \in Facts!Scope(PrslObject) /\ Facts!Opened(TRUE).global = TRUE
    BY Facts!OpenedScope DEF Facts!Opened
  <2>5. /\ todo \in Seq(Item) /\ Len(todo) = 1 /\ DOMAIN todo = {1}
        /\ todo[1] = Visit(root)
    <3> DEFINE first == Visit(root)
    <3>1. todo = <<first>> /\ first \in Item
      BY <2>2, <2>3
    <3> HIDE DEF first
    <3>2. todo \in Seq(Item) /\ Len(todo) = 1 /\ DOMAIN todo = {1} /\ todo[1] = first
      BY <3>1
    <3> QED
      BY <3>2 DEF first
  <2>6. /\ scopes \in Seq(Facts!Scope(PrslObject)) /\ Len(scopes) = 1
        /\ scopes[1].global = TRUE
        /\ scopes # <<>>
    <3> DEFINE first == Facts!Opened(TRUE)
               Scope == Facts!Scope(PrslObject)
    <3>1. scopes = <<first>> /\ first \in Scope /\ first.global = TRUE
      BY <2>2, <2>4
    <3> HIDE DEF first, Scope
    <3>2. scopes \in Seq(Scope) /\ Len(scopes) = 1 /\ scopes[1] = first /\ scopes # <<>>
      BY <3>1
    <3> QED
      BY <3>1, <3>2 DEF Scope
  <2>7. TypeOK
    <3>1. scopes # <<>>
      BY <2>6
    <3>2. scopes \in Seq(Env!Scope(PrslObject))
      BY <2>6, SameScopes
    <3>3. functions \in [Name -> PrslObject \cup {Absent}]
      BY <2>2
    <3>4. \A x \in Name : functions[x] # Absent => IsFunc(functions[x])
      BY <2>2
    <3>5. values \in Seq(PrslObject) /\ returnStack \in Seq(PrslObject)
      BY <2>2
    <3>6. printed \in Seq(Printable)
      BY <2>2
    <3>7. program \in Program /\ todo \in Seq(Item)
      BY <2>1, <2>2, <2>5
    <3>8. status \in {Running, Finished, Terminated, Signalled} \cup RuntimeErrors
      BY <2>2
    <3> QED
      BY <3>1, <3>2, <3>3, <3>4, <3>5, <3>6, <3>7, <3>8 DEF TypeOK
  <2>8. ScopeOf(todo, scopes, Len(todo) + 1) = 1
    <3>1. LeavesIn(todo, 1, 1) = 0
      BY <2>3, <2>5, LeavesOne
    <3> QED
      BY <3>1, <2>5, <2>6 DEF ScopeOf, LeavesBefore
  <2>9. ScopesMatchVisits
    BY <2>3, <2>5, <2>6, <2>8 DEF ScopesMatchVisits, ScopesNested
  <2>10. ResultsThere
    <3> DEFINE gain == Gain(todo[1])
               h == [p \in 1..(Len(todo) + 1) |-> IF p = 1 THEN 0 ELSE gain]
    <3>1. /\ Need(todo[1]) = 0 /\ gain \in {0, 1} /\ ~Calling(todo[1])
      BY <2>3, <2>5 DEF Need, Gain, Calling
    <3> HIDE DEF gain
    <3>2. h \in [1..(Len(todo) + 1) -> Nat] /\ h[1] = 0 /\ h[2] = gain
      BY <2>5, <3>1
    <3>3. Len(values) = 0
      BY <2>2
    <3> HIDE DEF h
    <3>4. Heights(h, todo, Len(values))
      <4> SUFFICES ASSUME NEW p \in 1..Len(todo)
                   PROVE  h[p] >= Need(todo[p]) /\ h[p + 1] = h[p] + Gain(todo[p])
        BY <3>2, <3>3 DEF Heights
      <4>1. p = 1 /\ p + 1 = 2 /\ gain \in Int
        BY <2>5, <3>1
      <4> QED
        BY <4>1, <3>1, <3>2 DEF gain
    <3>5. CallsWait(h, todo, values)
      BY <2>5, <3>1 DEF CallsWait
    <3> QED
      BY <3>4, <3>5 DEF ResultsThere, HeightsFit
  <2>11. IncrementBound /\ LoopsInside
    BY <2>3, <2>5 DEF IncrementBound, LoopsInside, Incrementing, Looping
  <2> QED
    BY <2>7, <2>9, <2>10, <2>11 DEF IInv
<1>2. IInv /\ [Next]_vars => IInv'
  <2> SUFFICES ASSUME IInv, [Next]_vars PROVE IInv'
    OBVIOUS
  <2>1. CASE UNCHANGED vars
    BY <2>1 DEF vars, IInv, TypeOK, ScopesMatchVisits, ResultsThere, IncrementBound,
                LoopsInside
  <2>2. CASE Next
    <3>1. program' = program
      BY <2>2 DEF Next
    <3>2. CASE Stopped
      BY <3>1, <3>2 DEF Stopped, IInv, TypeOK, ScopesMatchVisits, ResultsThere,
                        IncrementBound, LoopsInside
    <3>3. CASE \E items : Does(items)
      BY <3>1, <3>3, DoesKeeps
    <3> QED
      BY <2>2, <3>2, <3>3, StepEffect
  <2> QED
    BY <2>1, <2>2
<1> QED
  BY <1>1, <1>2, PTL DEF Spec

\* Whatever program runs, every variable holds, every operator yields and every
\* statement prints an object: no visit misses the result of what it has visited,
\* and no call finds something else than a function below its arguments.
THEOREM TypeCorrect == Spec => []TypeOK
<1>1. IInv => TypeOK
  BY DEF IInv
<1> QED
  BY <1>1, Inductive, PTL

\* Every block, scope expression and call in progress has one scope, and those of the
\* calls hide their callers': no return, error or loop leaves one twice or not at all.
THEOREM OneScopePerVisit == Spec => []ScopesMatchVisits
<1>1. IInv => ScopesMatchVisits
  BY DEF IInv
<1> QED
  BY <1>1, Inductive, PTL

\* A function that runs changes no variable of its callers.
THEOREM Callers == Spec => CallersKept
<1>1. IInv /\ [Next]_vars =>
        [\A i \in DOMAIN scopes \cap DOMAIN scopes' :
           (\E k \in (i + 1)..Len(scopes) : scopes[k].global)
             => scopes'[i] = scopes[i]]_vars
  <2> SUFFICES ASSUME IInv, Next,
                      NEW i \in DOMAIN scopes \cap DOMAIN scopes',
                      \E k \in (i + 1)..Len(scopes) : scopes[k].global
               PROVE  scopes'[i] = scopes[i]
    OBVIOUS
  <2>1. CASE Stopped
    BY <2>1 DEF Stopped
  <2>2. CASE \E items : Does(items)
    <3>1. /\ Facts!Kept(scopes, scopes')
          /\ scopes' \in Seq(Env!Scope(PrslObject))
          /\ scopes \in Seq(Env!Scope(PrslObject))
      BY <2>2 DEF Does, IInv, TypeOK
    <3>2. i \in 1..Len(scopes) /\ i <= Len(scopes')
      BY <3>1
    <3> QED
      BY <3>1, <3>2 DEF Facts!Kept
  <2> QED
    BY <2>1, <2>2, StepEffect
<1> QED
  BY <1>1, Inductive, PTL DEF Spec, CallersKept

-----------------------------------------------------------------------------
(***************************************************************************)
(* Returns.                                                                *)
(***************************************************************************)

\* An item that may put a value on returnStack.
MayReturn(returning, item) ==
  item.phase \in {"visit", "resume"} /\ item.node \in returning

\* From i on nothing but the ends of visits comes before a scope looks at returnStack.
ScopeAt(items, i, j) ==
  /\ j \in i..Len(items)
  /\ Looping(items[j])
  /\ items[j].index > 0
  /\ \A k \in i..(j - 1) : items[k].phase = "leave"
ReachesScope(items, i) == \E j \in Int : ScopeAt(items, i, j)

\* That is so behind everything that may return, and before everything once something
\* has.
ReturnInv(returning) ==
  /\ \A i \in DOMAIN todo : MayReturn(returning, todo[i]) => ReachesScope(todo, i + 1)
  /\ returnStack # <<>> => Len(returnStack) = 1 /\ ReachesScope(todo, 1)

\* The first item is replaced by items.
Replaced(old, items, new) ==
  /\ old \in Seq(Item)
  /\ old # <<>>
  /\ items \in Seq(Item)
  /\ new = items \o Tail(old)

\* Where the items are then.
LEMMA ReplacedItems ==
  ASSUME NEW old, NEW items, NEW new, Replaced(old, items, new)
  PROVE  /\ Len(old) \in Nat /\ Len(items) \in Nat /\ Len(old) >= 1
         /\ Len(new) = Len(items) + Len(old) - 1
         /\ DOMAIN new = 1..Len(new)
         /\ \A p \in 1..Len(items) : new[p] = items[p]
         /\ \A j \in 2..Len(old) : new[Len(items) + j - 1] = old[j]
<1> DEFINE n == Len(items)
<1> USE DEF Replaced
<1>1. n \in Nat /\ Len(old) \in Nat /\ Len(old) >= 1
  OBVIOUS
<1>2. /\ Tail(old) \in Seq(Item)
      /\ Len(Tail(old)) = Len(old) - 1
      /\ \A j \in 1..(Len(old) - 1) : Tail(old)[j] = old[j + 1]
  OBVIOUS
<1>3. /\ new \in Seq(Item)
      /\ Len(new) = n + Len(old) - 1
      /\ \A p \in 1..n : new[p] = items[p]
      /\ \A j \in 1..(Len(old) - 1) : new[n + j] = Tail(old)[j]
  BY <1>1, <1>2
<1>4. \A j \in 2..Len(old) : new[n + j - 1] = old[j]
  <2> SUFFICES ASSUME NEW j \in 2..Len(old) PROVE new[n + j - 1] = old[j]
    OBVIOUS
  <2>1. j - 1 \in 1..(Len(old) - 1) /\ n + (j - 1) = n + j - 1 /\ (j - 1) + 1 = j
    BY <1>1
  <2> QED
    BY <2>1, <1>2, <1>3
<1>5. DOMAIN new = 1..Len(new)
  BY <1>3
<1> QED
  BY <1>1, <1>3, <1>4, <1>5

\* The items that wait still find their scope.
LEMMA WaitingReach ==
  ASSUME NEW old, NEW items, NEW new, Replaced(old, items, new),
         NEW j \in 2..(Len(old) + 1), ReachesScope(old, j)
  PROVE  ReachesScope(new, Len(items) + j - 1)
<1> DEFINE n == Len(items)
<1>1. /\ Len(old) \in Nat /\ n \in Nat /\ Len(new) = n + Len(old) - 1
      /\ \A l \in 2..Len(old) : new[n + l - 1] = old[l]
  BY ReplacedItems
<1>2. PICK k \in Int : ScopeAt(old, j, k)
  BY DEF ReachesScope
<1>3. k \in j..Len(old) /\ k \in 2..Len(old)
  BY <1>1, <1>2 DEF ScopeAt
<1> DEFINE there == n + k - 1
<1> HIDE DEF n
<1>4. there \in Int /\ there \in (n + j - 1)..Len(new) /\ new[there] = old[k]
  BY <1>1, <1>3
<1>5. ASSUME NEW l \in (n + j - 1)..(there - 1) PROVE new[l].phase = "leave"
  <2>1. l - n + 1 \in j..(k - 1) /\ l - n + 1 \in 2..Len(old) /\ n + (l - n + 1) - 1 = l
    BY <1>1, <1>3
  <2> DEFINE m == l - n + 1
  <2>2. m \in j..(k - 1) /\ m \in 2..Len(old) /\ n + m - 1 = l
    BY <2>1
  <2> HIDE DEF m
  <2>3. new[l] = old[m] /\ old[m].phase = "leave"
    BY <1>1, <1>2, <2>2 DEF ScopeAt
  <2> QED
    BY <2>3
<1> HIDE DEF there
<1>6. ScopeAt(new, n + j - 1, there)
  BY <1>2, <1>4, <1>5 DEF ScopeAt
<1> QED
  BY <1>4, <1>6 DEF ReachesScope, n

\* So do new items that end visits, and those that are followed by a scope.
LEMMA NewReach ==
  ASSUME NEW old, NEW items, NEW new, Replaced(old, items, new),
         NEW i \in 1..(Len(items) + 1),
         \/ ReachesScope(items, i)
         \/ ReachesScope(old, 2) /\ \A k \in i..Len(items) : items[k].phase = "leave"
  PROVE  ReachesScope(new, i)
<1> DEFINE n == Len(items)
<1>1. /\ Len(old) \in Nat /\ n \in Nat /\ Len(old) >= 1 /\ Len(new) = n + Len(old) - 1
      /\ \A p \in 1..n : new[p] = items[p]
  BY ReplacedItems
<1>2. CASE ReachesScope(items, i)
  <2>1. PICK j \in Int : ScopeAt(items, i, j)
    BY <1>2 DEF ReachesScope
  <2>2. j \in i..Len(new) /\ j \in 1..n /\ \A k \in i..(j - 1) : k \in 1..n
    BY <1>1, <2>1 DEF ScopeAt
  <2>3. new[j] = items[j] /\ \A k \in i..(j - 1) : new[k] = items[k]
    BY <1>1, <2>2
  <2>4. ScopeAt(new, i, j)
    BY <2>1, <2>2, <2>3 DEF ScopeAt
  <2> QED
    BY <2>4 DEF ReachesScope
<1>3. CASE ReachesScope(old, 2) /\ \A k \in i..n : items[k].phase = "leave"
  <2>1. 2 \in 2..(Len(old) + 1) /\ n + 2 - 1 = n + 1
    BY <1>1
  <2>2. ReachesScope(new, n + 2 - 1)
    BY <1>3, <2>1, WaitingReach
  <2>3. ReachesScope(new, n + 1)
    BY <2>1, <2>2
  <2>4. PICK j \in Int : ScopeAt(new, n + 1, j)
    BY <2>3 DEF ReachesScope
  <2>5. j \in i..Len(new)
    BY <1>1, <2>4 DEF ScopeAt
  <2>6. ASSUME NEW k \in i..(j - 1) PROVE new[k].phase = "leave"
    <3>1. CASE k \in (n + 1)..(j - 1)
      BY <2>4, <3>1 DEF ScopeAt
    <3>2. CASE k \in i..n
      <4>1. k \in 1..n
        BY <1>1, <3>2
      <4> QED
        BY <4>1, <1>1, <1>3, <3>2
    <3> QED
      BY <3>1, <3>2, <1>1
  <2>7. ScopeAt(new, i, j)
    BY <2>4, <2>5, <2>6 DEF ScopeAt
  <2> QED
    BY <2>7 DEF ReachesScope
<1> QED
  BY <1>2, <1>3 DEF n

\* What a step that returns nothing must put in the place of the first item.
EndsLists(returning, items) ==
  \A q \in DOMAIN items :
    MayReturn(returning, items[q]) =>
      \/ ReachesScope(items, q + 1)
      \/ /\ MayReturn(returning, todo[1])
         /\ \A k \in (q + 1)..Len(items) : items[k].phase = "leave"

\* Such a step keeps the invariant.
LEMMA WaitingReturns ==
  ASSUME NEW returning, ReturnInv(returning), NEW items, Replaced(todo, items, todo'),
         EndsLists(returning, items)
  PROVE  \A i \in DOMAIN todo' :
           MayReturn(returning, todo'[i]) => ReachesScope(todo', i + 1)
<1> SUFFICES ASSUME NEW i \in DOMAIN todo', MayReturn(returning, todo'[i])
             PROVE  ReachesScope(todo', i + 1)
  OBVIOUS
<1> DEFINE n == Len(items)
<1>1. /\ Len(todo) \in Nat /\ n \in Nat /\ Len(todo) >= 1
      /\ Len(todo') = n + Len(todo) - 1 /\ DOMAIN todo' = 1..Len(todo')
      /\ \A p \in 1..n : todo'[p] = items[p]
      /\ \A j \in 2..Len(todo) : todo'[n + j - 1] = todo[j]
      /\ DOMAIN todo = 1..Len(todo) /\ DOMAIN items = 1..n
  BY ReplacedItems DEF Replaced
<1>2. CASE i \in 1..n
  <2>1. MayReturn(returning, items[i])
    BY <1>1, <1>2
  <2>2. CASE ReachesScope(items, i + 1)
    <3>1. i + 1 \in 1..(Len(items) + 1)
      BY <1>1, <1>2
    <3> DEFINE next == i + 1
    <3>2. next \in 1..(Len(items) + 1) /\ ReachesScope(items, next)
      BY <2>2, <3>1
    <3> HIDE DEF next
    <3>3. ReachesScope(todo', next)
      BY <3>2, NewReach
    <3> QED
      BY <3>3 DEF next
  <2>3. CASE /\ MayReturn(returning, todo[1])
             /\ \A k \in (i + 1)..Len(items) : items[k].phase = "leave"
    <3>1. i + 1 \in 1..(Len(items) + 1) /\ 1 \in DOMAIN todo /\ 1 + 1 = 2
      BY <1>1, <1>2
    <3>2. ReachesScope(todo, 2)
      BY <2>3, <3>1 DEF ReturnInv
    <3> DEFINE next == i + 1
    <3>3. /\ next \in 1..(Len(items) + 1)
          /\ \A k \in next..Len(items) : items[k].phase = "leave"
      BY <2>3, <3>1
    <3> HIDE DEF next
    <3>4. ReachesScope(todo', next)
      BY <3>2, <3>3, NewReach
    <3> QED
      BY <3>4 DEF next
  <2> QED
    BY <1>1, <1>2, <2>1, <2>2, <2>3 DEF EndsLists
<1>3. CASE i \notin 1..n
  <2> DEFINE j == i - n + 1
  <2>1. j \in 2..Len(todo) /\ n + j - 1 = i /\ j + 1 \in 2..(Len(todo) + 1)
        /\ n + (j + 1) - 1 = i + 1 /\ j \in DOMAIN todo
    BY <1>1, <1>3
  <2> HIDE DEF j
  <2>2. todo'[i] = todo[j]
    BY <1>1, <2>1
  <2>3. ReachesScope(todo, j + 1)
    BY <2>1, <2>2 DEF ReturnInv
  <2> DEFINE next == j + 1
  <2>4. next \in 2..(Len(todo) + 1) /\ ReachesScope(todo, next) /\ n + next - 1 = i + 1
    BY <2>1, <2>3
  <2> HIDE DEF next
  <2>5. ReachesScope(todo', n + next - 1)
    BY <2>4, WaitingReach
  <2> QED
    BY <2>4, <2>5
<1> QED
  BY <1>2, <1>3

\* The first item of todo is replaced so.
Waits(returning) ==
  \E items : Replaced(todo, items, todo') /\ EndsLists(returning, items)

\* Items that cannot return, and perhaps one more behind them.
LEMMA Harmless ==
  ASSUME NEW returning, IInv, todo # <<>>,
         NEW items \in Seq(Item), \A q \in DOMAIN items : ~MayReturn(returning, items[q])
  PROVE  /\ Continue(items) => Waits(returning)
         /\ \A last \in Item :
              /\ MayReturn(returning, last) => MayReturn(returning, todo[1])
              /\ Continue(items \o <<last>>)
              => Waits(returning)
<1>1. todo \in Seq(Item)
  BY DEF IInv, TypeOK
<1>2. ASSUME Continue(items) PROVE Waits(returning)
  <2>1. Replaced(todo, items, todo')
    BY <1>1, <1>2 DEF Continue, Replaced
  <2>2. EndsLists(returning, items)
    BY DEF EndsLists
  <2> QED
    BY <2>1, <2>2 DEF Waits
<1>3. ASSUME NEW last \in Item,
             MayReturn(returning, last) => MayReturn(returning, todo[1]),
             Continue(items \o <<last>>)
      PROVE  Waits(returning)
  <2> DEFINE all == items \o <<last>>
  <2>1. /\ all \in Seq(Item) /\ Len(items) \in Nat /\ Len(all) = Len(items) + 1
        /\ \A q \in 1..Len(items) : all[q] = items[q]
        /\ all[Len(items) + 1] = last
        /\ DOMAIN all = 1..(Len(items) + 1) /\ DOMAIN items = 1..Len(items)
    BY <1>3
  <2>2. todo' = all \o Tail(todo)
    BY <1>3 DEF Continue
  <2> HIDE DEF all
  <2>3. Replaced(todo, all, todo')
    BY <1>1, <2>1, <2>2 DEF Replaced
  <2>4. ASSUME NEW q \in DOMAIN all, MayReturn(returning, all[q])
        PROVE  /\ MayReturn(returning, todo[1])
               /\ \A k \in (q + 1)..Len(all) : all[k].phase = "leave"
    <3>1. q = Len(items) + 1
      BY <2>1, <2>4
    <3>2. (q + 1)..Len(all) = {}
      BY <2>1, <3>1
    <3> QED
      BY <1>3, <2>1, <2>4, <3>1, <3>2
  <2>5. EndsLists(returning, all)
    BY <2>4 DEF EndsLists
  <2> QED
    BY <2>3, <2>5 DEF Waits
<1> QED
  BY <1>2, <1>3

\* A single item.
LEMMA HarmlessOne ==
  ASSUME NEW returning, IInv, todo # <<>>, NEW item \in Item,
         MayReturn(returning, item) => MayReturn(returning, todo[1]),
         Continue(<<item>>)
  PROVE  Waits(returning)
<1> DEFINE none == <<>>
<1>1. none \in Seq(Item) /\ \A q \in DOMAIN none : ~MayReturn(returning, none[q])
  OBVIOUS
<1>2. Continue(none \o <<item>>)
  <2>1. none \o <<item>> = <<item>>
    OBVIOUS
  <2> QED
    BY <2>1, Zenon
<1> HIDE DEF none
<1> QED
  BY <1>1, <1>2, Harmless

\* Two items, of which the last may return.
LEMMA HarmlessTwo ==
  ASSUME NEW returning, IInv, todo # <<>>, NEW item \in Item, NEW last \in Item,
         ~MayReturn(returning, item),
         MayReturn(returning, last) => MayReturn(returning, todo[1]),
         Continue(<<item, last>>)
  PROVE  Waits(returning)
<1> DEFINE one == <<item>>
<1>1. one \in Seq(Item) /\ \A q \in DOMAIN one : one[q] = item
  OBVIOUS
<1>2. \A q \in DOMAIN one : ~MayReturn(returning, one[q])
  BY <1>1
<1>3. Continue(one \o <<last>>)
  <2>1. one \o <<last>> = <<item, last>>
    BY TwoItems
  <2> QED
    BY <2>1, Zenon
<1> HIDE DEF one
<1> QED
  BY <1>1, <1>2, <1>3, Harmless

\* Visits of nodes that cannot return.
LEMMA HarmlessVisits ==
  ASSUME NEW returning, NEW nodes \in Seq(Node), \A i \in DOMAIN nodes : nodes[i] \notin returning
  PROVE  /\ VisitAll(nodes) \in Seq(Item)
         /\ \A q \in DOMAIN VisitAll(nodes) : ~MayReturn(returning, VisitAll(nodes)[q])
<1>1. /\ VisitAll(nodes) \in Seq(Item)
      /\ DOMAIN VisitAll(nodes) = 1..Len(nodes) /\ DOMAIN nodes = 1..Len(nodes)
      /\ \A i \in 1..Len(nodes) : VisitAll(nodes)[i] = Visit(nodes[i])
  BY VisitAllTypes
<1>2. \A n : Visit(n).node = n
  BY DEF Visit, AnItem
<1> QED
  BY <1>1, <1>2 DEF MayReturn

\* What may return is a return, an if or a block; what else is below a scope cannot.
LEMMA CannotReturn ==
  ASSUME NEW returning, ReturnsEndLists(returning)
  PROVE  /\ \A n \in returning : n \in Node /\ n.kind \in {"Return", "If", "Block"}
         /\ \A n \in Node, i \in Nat :
              i \in DOMAIN n.kids /\ n.kids[i] \in returning =>
                \/ n.kind = "Scope"
                \/ n \in returning /\ (n.kind = "Block" => i = Len(n.kids))
         /\ \A n \in Node : n.kind = "Return" => n \in returning
         /\ \A n \in Node : n.kind \in ExprKind => n \notin returning
<1>1. \A n \in returning : n \in Node /\ n.kind \in {"Return", "If", "Block"}
  BY DEF ReturnsEndLists
<1>2. \A n \in Node : n.kind \in ExprKind => n \notin returning
  BY <1>1 DEF ExprKind
<1>3. \A n \in Node, i \in Nat :
        i \in DOMAIN n.kids /\ n.kids[i] \in returning =>
          \/ n.kind = "Scope"
          \/ n \in returning /\ (n.kind = "Block" => i = Len(n.kids))
  BY DEF ReturnsEndLists
<1>4. \A n \in Node : n.kind = "Return" => n \in returning
  BY DEF ReturnsEndLists
<1> QED
  BY <1>1, <1>2, <1>3, <1>4

\* The actions that leave nothing of the first item.
LEMMA NothingWaits ==
  ASSUME NEW returning, IInv, todo # <<>>, Continue(<<>>)
  PROVE  Waits(returning)
<1> DEFINE none == <<>>
<1>1. none \in Seq(Item) /\ \A q \in DOMAIN none : ~MayReturn(returning, none[q])
  OBVIOUS
<1>2. Continue(none)
  OBVIOUS
<1> HIDE DEF none
<1> QED
  BY <1>1, <1>2, Harmless

\* The nodes that only visit what is below them.
LEMMA DescendWaits ==
  ASSUME NEW returning, ReturnsEndLists(returning), IInv, Descend
  PROVE  Waits(returning)
<1>1. At("visit", {"Grouping", "Function", "Null"}) /\ Continue(VisitAll(node.kids))
  BY DEF Descend
<1>2. /\ node \in Node /\ node.kind \in {"Grouping", "Function", "Null"} /\ todo # <<>>
      /\ node.kids \in Seq(Node)
  BY <1>1, First, NodeFacts
<1>3. node \notin returning
  BY <1>2, CannotReturn
<1>4. \A i \in DOMAIN node.kids : node.kids[i] \notin returning
  BY <1>2, <1>3, CannotReturn
<1> DEFINE items == VisitAll(node.kids)
<1>5. items \in Seq(Item) /\ \A q \in DOMAIN items : ~MayReturn(returning, items[q])
  BY <1>2, <1>4, HarmlessVisits
<1>6. Continue(items)
  BY <1>1
<1> HIDE DEF items
<1> QED
  BY <1>2, <1>5, <1>6, Harmless

\* A statement may return when it has visited its expression or condition.
LEMMA OperandsWait ==
  ASSUME NEW returning, ReturnsEndLists(returning), IInv, VisitOperands
  PROVE  Waits(returning)
<1> DEFINE operands == IF node.kind \in {"If", "While"} THEN <<node.kids[1]>> ELSE node.kids
           Kinds == {"Assignment", "Unary", "Binary", "Postfix", "VarStmt", "If",
                     "While", "Print", "ExprStmt", "Return"}
<1>1. At("visit", Kinds) /\ Continue(VisitAll(operands) \o <<Resume(node)>>)
  BY DEF VisitOperands
<1>2. /\ node \in Node /\ node.kind \in Kinds /\ node = todo[1].node
      /\ todo[1].phase = "visit" /\ todo # <<>>
  BY <1>1, First
<1>3. operands \in Seq(Node) /\ \A i \in DOMAIN operands : operands[i].kind \in ExprKind
  <2>1. /\ node.kids \in Seq(Node)
        /\ node.kind = "While" => Len(node.kids) = 2
        /\ node.kind = "If" => Len(node.kids) \in {2, 3}
        /\ \A i \in DOMAIN node.kids :
             node.kids[i] \in Node /\ node.kids[i].kind \in KidKind(node, i)
    BY <1>2, NodeFacts
  <2>2. CASE node.kind \in {"If", "While"}
    <3> DEFINE condition == node.kids[1]
    <3>1. condition \in Node /\ condition.kind \in ExprKind
      BY <2>1, <2>2 DEF KidKind
    <3>2. operands = <<condition>>
      BY <2>2
    <3> HIDE DEF condition, operands
    <3>3. operands \in Seq(Node) /\ \A i \in DOMAIN operands : operands[i] = condition
      BY <3>1, <3>2
    <3> QED
      BY <3>1, <3>3
  <2>3. CASE node.kind \notin {"If", "While"}
    BY <1>2, <2>1, <2>3 DEF KidKind
  <2> QED
    BY <2>2, <2>3
<1> HIDE DEF operands
<1>4. operands \in Seq(Node) /\ \A i \in DOMAIN operands : operands[i] \notin returning
  <2>1. \A i \in DOMAIN operands : operands[i] \in Node
    BY <1>3
  <2> QED
    BY <1>3, <2>1, CannotReturn
<1> DEFINE items == VisitAll(operands)
<1>5. items \in Seq(Item) /\ \A q \in DOMAIN items : ~MayReturn(returning, items[q])
  BY <1>4, HarmlessVisits
<1>6. Continue(items \o <<Resume(node)>>)
  BY <1>1
<1> HIDE DEF items
<1>7. /\ Resume(node) \in Item
      /\ MayReturn(returning, Resume(node)) => MayReturn(returning, todo[1])
  BY <1>2, ItemTypes DEF MayReturn
<1> QED
  BY <1>2, <1>5, <1>6, <1>7, Harmless

\* Only the last statement of a block may return, and its scope ends after it.
LEMMA BlockWaits ==
  ASSUME NEW returning, ReturnsEndLists(returning), IInv, VisitBlock, todo' # todo
  PROVE  Waits(returning)
<1>1. /\ At("visit", {"Scope", "Block"})
      /\ node.kind = "Scope" => Continue(<<ResumeAt(node, 0)>> \o <<Leaving(node)>>)
      /\ node.kind = "Block" => Continue(VisitAll(node.kids) \o <<Leaving(node)>>)
  BY DEF VisitBlock, Stop
<1>2. /\ node \in Node /\ node.kind \in {"Scope", "Block"} /\ node = todo[1].node
      /\ todo[1].phase = "visit" /\ todo # <<>> /\ todo \in Seq(Item)
      /\ node.kids \in Seq(Node)
  BY <1>1, First, NodeFacts
<1>3. Leaving(node) \in Item /\ Leaving(node).phase = "leave"
  BY <1>2, ItemTypes
<1>4. CASE node.kind = "Scope"
  <2> DEFINE first == ResumeAt(node, 0)
             last == Leaving(node)
  <2>1. first \in Item /\ first.node = node
    BY <1>2 DEF ResumeAt, AnItem, Item, Phases
  <2>2. ~MayReturn(returning, first) /\ ~MayReturn(returning, last)
    BY <1>2, <1>3, <1>4, <2>1, CannotReturn DEF MayReturn, ExprKind
  <2>3. last \in Item
    BY <1>3
  <2>4. Continue(<<first>> \o <<last>>)
    BY <1>1, <1>4
  <2> HIDE DEF first, last
  <2>5. <<first>> \o <<last>> = <<first, last>>
    BY <2>1, <2>3, TwoItems
  <2>6. Continue(<<first, last>>)
    BY <2>4, <2>5, Zenon
  <2> QED
    BY <1>2, <2>1, <2>2, <2>3, <2>6, HarmlessTwo
<1>5. CASE node.kind = "Block"
  <2> DEFINE visits == VisitAll(node.kids)
             last == Leaving(node)
             all == visits \o <<last>>
             n == Len(node.kids)
  <2>1. /\ visits \in Seq(Item) /\ Len(visits) = n /\ n \in Nat
        /\ \A i \in 1..n : visits[i] = Visit(node.kids[i])
    BY <1>2, VisitAllTypes
  <2>2. last \in Item /\ last.phase = "leave" /\ Continue(all)
    BY <1>1, <1>3, <1>5
  <2> HIDE DEF visits, last
  <2>3. \A i \in 1..n : visits[i].node = node.kids[i]
    <3>1. \A m : Visit(m).node = m
      BY DEF Visit, AnItem
    <3> QED
      BY <2>1, <3>1
  <2>4. /\ all \in Seq(Item) /\ Len(all) = n + 1 /\ DOMAIN all = 1..(n + 1)
        /\ \A i \in 1..n : all[i] = visits[i]
        /\ all[n + 1] = last
    BY <2>1, <2>2
  <2> HIDE DEF all
  <2>5. ASSUME NEW q \in DOMAIN all, MayReturn(returning, all[q])
        PROVE  /\ MayReturn(returning, todo[1])
               /\ \A k \in (q + 1)..Len(all) : all[k].phase = "leave"
    <3>1. q \in 1..n /\ node.kids[q] \in returning
      <4>1. q # n + 1
        BY <2>2, <2>4, <2>5 DEF MayReturn
      <4>2. q \in 1..n
        BY <2>1, <2>4, <4>1
      <4> QED
        BY <2>3, <2>4, <2>5, <4>2 DEF MayReturn
    <3>2. q \in Nat /\ q \in DOMAIN node.kids
      BY <1>2, <3>1
    <3>3. node \in returning /\ q = n
      BY <1>2, <1>5, <3>1, <3>2, CannotReturn
    <3>4. MayReturn(returning, todo[1])
      BY <1>2, <3>3 DEF MayReturn
    <3>5. \A k \in (q + 1)..Len(all) : k = n + 1
      BY <2>1, <2>4, <3>3
    <3> QED
      BY <2>2, <2>4, <3>4, <3>5
  <2>6. EndsLists(returning, all)
    BY <2>5 DEF EndsLists
  <2>7. Replaced(todo, all, todo')
    BY <1>2, <2>2, <2>4 DEF Replaced, Continue
  <2> QED
    BY <2>6, <2>7 DEF Waits
<1> QED
  BY <1>2, <1>4, <1>5

\* The scope of a statement looks at returnStack when it is done.
LEMMA StatementWaits ==
  ASSUME NEW returning, ReturnsEndLists(returning), IInv, ScopeContinues
  PROVE  Waits(returning)
<1> DEFINE i == todo[1].index + 1
           first == Visit(node.kids[i])
           last == ResumeAt(node, i)
           items == <<first, last>>
<1>1. At("resume", {"Scope"}) /\ Continue(items) /\ ~Exhausted
  BY DEF ScopeContinues
<1>2. /\ node \in Node /\ node.kind = "Scope" /\ node = todo[1].node
      /\ todo[1].phase = "resume" /\ todo[1] \in Item /\ todo \in Seq(Item) /\ todo # <<>>
      /\ node.kids \in Seq(Node) /\ Len(node.kids) \in Nat
  BY <1>1, First, NodeFacts
<1>3. i \in 1..Len(node.kids) /\ i \in Nat /\ i > 0
  <2>1. 1 \in DOMAIN todo /\ Looping(todo[1])
    BY <1>2 DEF Looping
  <2>2. todo[1].index <= Len(node.kids)
    BY <1>2, <2>1 DEF IInv, LoopsInside
  <2>3. todo[1].index \in Nat /\ todo[1].index # Len(node.kids)
    BY <1>1, <1>2 DEF Item, Exhausted
  <2> QED
    BY <1>2, <2>2, <2>3
<1> HIDE DEF i
<1>4. first \in Item
  <2>1. node.kids[i] \in Node
    BY <1>2, <1>3
  <2> QED
    BY <2>1, ItemTypes
<1>5. last \in Item /\ last.phase = "resume" /\ last.node = node /\ last.index = i
  BY <1>2, <1>3 DEF ResumeAt, AnItem, Item, Phases
<1> HIDE DEF first, last
<1>6. /\ items \in Seq(Item) /\ Len(items) = 2 /\ DOMAIN items = {1, 2} /\ items[2] = last
  BY <1>4, <1>5
<1> HIDE DEF items
<1>7. Looping(items[2]) /\ items[2].index > 0
  BY <1>2, <1>3, <1>5, <1>6 DEF Looping
<1>8. ReachesScope(items, 2)
  <2>1. ScopeAt(items, 2, 2)
    BY <1>6, <1>7 DEF ScopeAt
  <2> QED
    BY <2>1 DEF ReachesScope
<1>9. ~MayReturn(returning, items[2])
  BY <1>2, <1>5, <1>6, CannotReturn DEF MayReturn, ExprKind
<1>10. EndsLists(returning, items)
  BY <1>6, <1>8, <1>9 DEF EndsLists
<1>11. Replaced(todo, items, todo')
  BY <1>1, <1>2, <1>6 DEF Replaced, Continue
<1> QED
  BY <1>10, <1>11 DEF Waits

\* A function expression, and the registration of its body.
LEMMA FunctionWaits ==
  ASSUME NEW returning, ReturnsEndLists(returning), IInv, VisitFuncExpr
  PROVE  Waits(returning)
<1> DEFINE first == Register(node.kids[1])
           last == Resume(node)
<1>1. At("visit", {"Func"}) /\ Continue(<<first, last>>)
  BY DEF VisitFuncExpr
<1>2. node \in Node /\ node.kind = "Func" /\ todo # <<>> /\ node.kids[1] \in Node
  <2>1. node \in Node /\ node.kind = "Func" /\ todo # <<>>
    BY <1>1, First
  <2> QED
    BY <2>1, NodeFacts
<1>3. /\ first \in Item /\ first.phase = "register"
      /\ last \in Item /\ last.node = node
  BY <1>2, ItemTypes
<1> HIDE DEF first, last
<1>4. ~MayReturn(returning, first) /\ ~MayReturn(returning, last)
  BY <1>2, <1>3, CannotReturn DEF MayReturn, ExprKind
<1> QED
  BY <1>1, <1>2, <1>3, <1>4, HarmlessTwo

LEMMA RegisterWaits ==
  ASSUME NEW returning, IInv, RegisterBelow
  PROVE  Waits(returning)
<1> DEFINE items == RegisterAll(node.kids)
<1>1. At("register", (ExprKind \cup StmtKind) \ {"Func"}) /\ Continue(items)
  BY DEF RegisterBelow
<1>2. todo # <<>> /\ node.kids \in Seq(Node)
  BY <1>1, First, NodeFacts
<1>3. items \in Seq(Item) /\ \A q \in DOMAIN items : items[q].phase = "register"
  BY <1>2, RegisterAllTypes
<1> HIDE DEF items
<1>4. \A q \in DOMAIN items : ~MayReturn(returning, items[q])
  BY <1>3 DEF MayReturn
<1> QED
  BY <1>1, <1>2, <1>3, <1>4, Harmless

\* The arguments of a call, and its body.
LEMMA CallWaits ==
  ASSUME NEW returning, ReturnsEndLists(returning), IInv, VisitCallExpr, todo' # todo
  PROVE  Waits(returning)
<1> DEFINE items == VisitAll(node.kids)
<1>1. At("visit", {"Call"}) /\ Continue(items \o <<Resume(node)>>)
  BY DEF VisitCallExpr, Stop
<1>2. node \in Node /\ node.kind = "Call" /\ todo # <<>>
  BY <1>1, First
<1>3. node.kids \in Seq(Node) /\ \A i \in DOMAIN node.kids : node.kids[i] \notin returning
  <2>1. /\ node.kids \in Seq(Node)
        /\ \A i \in DOMAIN node.kids :
             node.kids[i] \in Node /\ node.kids[i].kind \in KidKind(node, i)
    BY <1>2, NodeFacts
  <2>2. \A i \in DOMAIN node.kids : node.kids[i].kind \in ExprKind
    BY <1>2, <2>1 DEF KidKind
  <2> QED
    BY <2>1, <2>2, CannotReturn
<1>4. items \in Seq(Item) /\ \A q \in DOMAIN items : ~MayReturn(returning, items[q])
  BY <1>3, HarmlessVisits
<1>5. Resume(node) \in Item /\ ~MayReturn(returning, Resume(node))
  <2>1. Resume(node) \in Item /\ Resume(node).node = node
    BY <1>2, ItemTypes
  <2> QED
    BY <1>2, <2>1, CannotReturn DEF MayReturn, ExprKind
<1> HIDE DEF items
<1> QED
  BY <1>1, <1>2, <1>4, <1>5, Harmless

LEMMA BodyWaits ==
  ASSUME NEW returning, ReturnsEndLists(returning), IInv, ResumeCallExpr, todo' # todo
  PROVE  Waits(returning)
<1> DEFINE func == values[Len(values) - Len(node.kids)][2]
           first == ResumeAt(func.kids[1], 0)
           last == Leaving(node)
<1>1. At("resume", {"Call"}) /\ Continue(<<first, last>>)
  BY DEF ResumeCallExpr, Stop
<1>2. node \in Node /\ node.kind = "Call" /\ todo # <<>> /\ func \in FuncExpr
  BY <1>1, First, CallReady
<1> HIDE DEF func
<1>3. func.kids[1] \in Node /\ func.kids[1].kind = "Scope"
  <2>1. func \in Node /\ func.kind = "Func"
    BY <1>2 DEF FuncExpr
  <2> QED
    BY <2>1, NodeFacts
<1>4. /\ first \in Item /\ first.node = func.kids[1]
  BY <1>3 DEF ResumeAt, AnItem, Item, Phases
<1>5. last \in Item /\ last.node = node
  BY <1>2, ItemTypes
<1> HIDE DEF first, last
<1>6. ~MayReturn(returning, first) /\ ~MayReturn(returning, last)
  BY <1>2, <1>3, <1>4, <1>5, CannotReturn DEF MayReturn, ExprKind
<1> QED
  BY <1>1, <1>2, <1>4, <1>5, <1>6, HarmlessTwo

\* A statement below an if may return if the if may; a loop never does.
LEMMA ConditionWaits ==
  ASSUME NEW returning, ReturnsEndLists(returning), IInv, ResumeCondition
  PROVE  Waits(returning)
<1>1. At("resume", {"If", "While"}) /\ Continue(Selected)
  BY DEF ResumeCondition
<1>2. /\ node \in Node /\ node.kind \in {"If", "While"} /\ node = todo[1].node
      /\ todo[1].phase = "resume" /\ todo # <<>>
  BY <1>1, First
<1>3. /\ node.kids \in Seq(Node)
      /\ node.kind = "While" => Len(node.kids) = 2
      /\ node.kind = "If" => Len(node.kids) \in {2, 3}
  BY <1>2, NodeFacts
<1>4. ASSUME NEW i \in {2, 3}, i \in DOMAIN node.kids
      PROVE  /\ Visit(node.kids[i]) \in Item
             /\ MayReturn(returning, Visit(node.kids[i])) =>
                  node.kind = "If" /\ MayReturn(returning, todo[1])
  <2>1. node.kids[i] \in Node /\ i \in Nat
    BY <1>3, <1>4
  <2>2. node.kids[i] \in returning => node \in returning /\ node.kind = "If"
    BY <1>2, <1>4, <2>1, CannotReturn
  <2>3. Visit(node.kids[i]) \in Item /\ Visit(node.kids[i]).node = node.kids[i]
    BY <2>1, ItemTypes
  <2> QED
    BY <1>2, <2>2, <2>3 DEF MayReturn
<1>5. node.kind = "While" => Visit(node) \in Item /\ ~MayReturn(returning, Visit(node))
  <2>1. Visit(node) \in Item /\ Visit(node).node = node
    BY <1>2, ItemTypes
  <2> QED
    BY <1>2, <2>1, CannotReturn DEF MayReturn
<1>6. 2 \in DOMAIN node.kids /\ (Len(node.kids) = 3 => 3 \in DOMAIN node.kids)
  BY <1>2, <1>3
<1>7. CASE Selected = <<>>
  BY <1>1, <1>2, <1>7, NothingWaits
<1>8. CASE Selected = <<Visit(node.kids[2])>>
  <2> DEFINE first == Visit(node.kids[2])
  <2>1. first \in Item /\ (MayReturn(returning, first) => MayReturn(returning, todo[1]))
    BY <1>4, <1>6
  <2>2. Continue(<<first>>)
    BY <1>1, <1>8
  <2> HIDE DEF first
  <2> QED
    BY <1>2, <2>1, <2>2, HarmlessOne
<1>9. CASE node.kind = "While" /\ Selected = <<Visit(node.kids[2]), Visit(node)>>
  <2> DEFINE first == Visit(node.kids[2])
             last == Visit(node)
  <2>1. first \in Item /\ ~MayReturn(returning, first)
    BY <1>4, <1>6, <1>9
  <2>2. last \in Item /\ ~MayReturn(returning, last) /\ Continue(<<first, last>>)
    BY <1>1, <1>5, <1>9
  <2> HIDE DEF first, last
  <2> QED
    BY <1>2, <2>1, <2>2, HarmlessTwo
<1>10. CASE Len(node.kids) = 3 /\ Selected = <<Visit(node.kids[3])>>
  <2> DEFINE first == Visit(node.kids[3])
  <2>1. first \in Item /\ (MayReturn(returning, first) => MayReturn(returning, todo[1]))
    BY <1>4, <1>6, <1>10
  <2>2. Continue(<<first>>)
    BY <1>1, <1>10
  <2> HIDE DEF first
  <2> QED
    BY <1>2, <2>1, <2>2, HarmlessOne
<1> QED
  BY <1>7, <1>8, <1>9, <1>10 DEF Selected

\* Every step replaces the first item so, or changes neither todo nor returnStack.
LEMMA StepWaits ==
  ASSUME NEW returning, ReturnsEndLists(returning), IInv, Next
  PROVE  UNCHANGED <<todo, returnStack>> \/ Waits(returning)
<1>1. ASSUME NEW how, Stop(how) PROVE UNCHANGED <<todo, returnStack>>
  BY <1>1 DEF Stop
<1>2. CASE todo = <<>>
  BY <1>2 DEF Next, At, VisitLeaf, VisitVarExpr, Descend, VisitOperands,
     ResumeAssignment, ResumeUnary, ResumeBinary, ResumePostfix, VisitBlock, Leave,
     ScopeContinues, ScopeEnds, VisitFuncExpr, ResumeFuncExpr, RegisterBelow,
     RegisterFunction, VisitCallExpr, ResumeCallExpr, ResumeCondition,
     ResumePrintStmt, ResumeExprStmt, ResumeReturnStmt, Finish
<1>3. CASE todo # <<>>
  <2>1. CASE VisitLeaf \/ VisitVarExpr
    BY <1>1, <1>3, <2>1, NothingWaits DEF VisitLeaf, VisitVarExpr
  <2>2. CASE Descend \/ VisitOperands
    BY <2>2, DescendWaits, OperandsWait
  <2>3. CASE ResumeAssignment \/ ResumeUnary
    BY <1>1, <1>3, <2>3, NothingWaits DEF ResumeAssignment, ResumeUnary
  <2>4. CASE ResumeBinary
    BY <1>1, <1>3, <2>4, NothingWaits DEF ResumeBinary
  <2>5. CASE ResumePostfix
    BY <1>1, <1>3, <2>5, NothingWaits DEF ResumePostfix
  <2>6. CASE VisitBlock
    <3>1. CASE todo' # todo
      BY <2>6, <3>1, BlockWaits
    <3>2. CASE todo' = todo
      BY <2>6, <3>2 DEF VisitBlock, Stop
    <3> QED
      BY <3>1, <3>2
  <2>7. CASE Leave \/ ScopeEnds
    BY <1>3, <2>7, NothingWaits DEF Leave, ScopeEnds
  <2>8. CASE ScopeContinues
    BY <2>8, StatementWaits
  <2>9. CASE VisitFuncExpr \/ RegisterBelow
    BY <2>9, FunctionWaits, RegisterWaits
  <2>10. CASE ResumeFuncExpr \/ RegisterFunction
    BY <1>1, <1>3, <2>10, NothingWaits DEF ResumeFuncExpr, RegisterFunction
  <2>11. CASE VisitCallExpr
    <3>1. CASE todo' # todo
      BY <2>11, <3>1, CallWaits
    <3>2. CASE todo' = todo
      BY <2>11, <3>2 DEF VisitCallExpr, Stop, state
    <3> QED
      BY <3>1, <3>2
  <2>12. CASE ResumeCallExpr
    <3>1. CASE todo' # todo
      BY <2>12, <3>1, BodyWaits
    <3>2. CASE todo' = todo
      BY <2>12, <3>2 DEF ResumeCallExpr, Stop
    <3> QED
      BY <3>1, <3>2
  <2>13. CASE ResumeCondition
    BY <2>13, ConditionWaits
  <2>14. CASE ResumePrintStmt \/ ResumeExprStmt
    BY <1>3, <2>14, NothingWaits DEF ResumePrintStmt, ResumeExprStmt
  <2>15. CASE ResumeReturnStmt
    BY <1>1, <1>3, <2>15, NothingWaits DEF ResumeReturnStmt
  <2>16. CASE Finish
    BY <2>16 DEF Finish
  <2> QED
    BY <2>1, <2>2, <2>3, <2>4, <2>5, <2>6, <2>7, <2>8, <2>9, <2>10, <2>11, <2>12,
       <2>13, <2>14, <2>15, <2>16 DEF Next
<1> QED
  BY <1>2, <1>3

\* What a step may do to returnStack.
LEMMA StepReturns ==
  ASSUME Next
  PROVE  \/ returnStack' = returnStack
         \/ ScopeEnds /\ Returned /\ returnStack' = Below(returnStack, 1)
         \/ /\ At("resume", {"Return"})
            /\ returnStack' = Append(returnStack, Result)
            /\ Continue(<<>>)
<1>1. CASE VisitLeaf \/ VisitVarExpr \/ Descend \/ VisitOperands \/ Finish
  BY <1>1 DEF VisitLeaf, VisitVarExpr, Descend, VisitOperands, Finish, state, Stop
<1>2. CASE ResumeAssignment \/ ResumeUnary \/ ResumeBinary \/ ResumePostfix
  BY <1>2 DEF ResumeAssignment, ResumeUnary, ResumeBinary, ResumePostfix, state, Stop
<1>3. CASE VisitBlock \/ Leave \/ ScopeContinues
  BY <1>3 DEF VisitBlock, Leave, ScopeContinues, state, Stop
<1>4. CASE ScopeEnds
  BY <1>4 DEF ScopeEnds
<1>5. CASE VisitFuncExpr \/ ResumeFuncExpr \/ RegisterBelow \/ RegisterFunction
  BY <1>5 DEF VisitFuncExpr, ResumeFuncExpr, RegisterBelow, RegisterFunction, state, Stop
<1>6. CASE VisitCallExpr \/ ResumeCallExpr
  BY <1>6 DEF VisitCallExpr, ResumeCallExpr, state, Stop
<1>7. CASE ResumeCondition \/ ResumePrintStmt \/ ResumeExprStmt
  BY <1>7 DEF ResumeCondition, ResumePrintStmt, ResumeExprStmt, state
<1>8. CASE ResumeReturnStmt
  BY <1>8 DEF ResumeReturnStmt, Stop
<1> QED
  BY <1>1, <1>2, <1>3, <1>4, <1>5, <1>6, <1>7, <1>8 DEF Next

\* While a value is on returnStack visits end, and then the scope takes it.
LEMMA OnlyEnds ==
  ASSUME Next, returnStack # <<>>, ReachesScope(todo, 1), todo \in Seq(Item)
  PROVE  /\ Leave \/ (ScopeEnds /\ Returned)
         /\ Leave => ReachesScope(todo, 2)
<1>1. PICK j \in Int : ScopeAt(todo, 1, j)
  BY DEF ReachesScope
<1>2. Len(todo) \in Nat /\ j \in 1..Len(todo) /\ todo # <<>>
  BY <1>1 DEF ScopeAt
<1>3. \/ /\ j # 1
         /\ todo[1].phase = "leave"
      \/ /\ j = 1
         /\ todo[1].phase = "resume" /\ todo[1].node.kind = "Scope" /\ todo[1].index > 0
  <2>1. j # 1 => 1 \in 1..(j - 1)
    BY <1>2
  <2> QED
    BY <1>1, <2>1 DEF ScopeAt, Looping
<1>4. ASSUME NEW phase, NEW kinds, At(phase, kinds)
      PROVE  \/ phase = "leave"
             \/ phase = "resume" /\ "Scope" \in kinds /\ Returned
  BY <1>3, <1>4 DEF At, Returned
<1>5. ~(VisitLeaf \/ VisitVarExpr \/ Descend \/ VisitOperands \/ Finish)
  BY <1>2, <1>4 DEF VisitLeaf, VisitVarExpr, Descend, VisitOperands, Finish
<1>6. ~(ResumeAssignment \/ ResumeUnary \/ ResumeBinary \/ ResumePostfix)
  BY <1>4 DEF ResumeAssignment, ResumeUnary, ResumeBinary, ResumePostfix
<1>7. ~VisitBlock /\ ~ScopeContinues
  <2>1. ~VisitBlock
    <3>1. VisitBlock => At("visit", {"Scope", "Block"})
      BY DEF VisitBlock
    <3> QED
      BY <1>4, <3>1
  <2>2. ~ScopeContinues
    BY <1>4 DEF ScopeContinues
  <2> QED
    BY <2>1, <2>2
<1>8. ~(VisitFuncExpr \/ ResumeFuncExpr \/ RegisterBelow \/ RegisterFunction)
  BY <1>4 DEF VisitFuncExpr, ResumeFuncExpr, RegisterBelow, RegisterFunction
<1>9. ~VisitCallExpr /\ ~ResumeCallExpr
  <2>1. VisitCallExpr => At("visit", {"Call"})
    BY DEF VisitCallExpr
  <2>2. ResumeCallExpr => At("resume", {"Call"})
    BY DEF ResumeCallExpr
  <2> QED
    BY <1>4, <2>1, <2>2
<1>10. ~(ResumeCondition \/ ResumePrintStmt \/ ResumeExprStmt \/ ResumeReturnStmt)
  BY <1>4 DEF ResumeCondition, ResumePrintStmt, ResumeExprStmt, ResumeReturnStmt
<1>11. ScopeEnds => Returned
  BY <1>4 DEF ScopeEnds
<1>12. Leave => ReachesScope(todo, 2)
  <2>1. Leave => j # 1
    BY <1>3 DEF Leave, At
  <2>2. j # 1 => j \in 2..Len(todo) /\ \A k \in 2..(j - 1) : k \in 1..(j - 1)
    BY <1>2
  <2>3. j # 1 => ScopeAt(todo, 2, j)
    BY <1>1, <2>2 DEF ScopeAt
  <2> QED
    BY <2>1, <2>3 DEF ReachesScope
<1>13. Leave \/ ScopeEnds
  BY <1>5, <1>6, <1>7, <1>8, <1>9, <1>10 DEF Next
<1> QED
  BY <1>11, <1>12, <1>13

\* A step keeps the invariant.
LEMMA ReturnsKept ==
  ASSUME NEW returning, ReturnsEndLists(returning), IInv, ReturnInv(returning), Next
  PROVE  ReturnInv(returning)'
<1>1. todo \in Seq(Item) /\ returnStack \in Seq(PrslObject)
  BY DEF IInv, TypeOK
<1>2. CASE UNCHANGED <<todo, returnStack>>
  BY <1>2 DEF ReturnInv
<1>3. CASE Waits(returning) /\ returnStack = <<>>
  <2>1. PICK items : Replaced(todo, items, todo') /\ EndsLists(returning, items)
    BY <1>3 DEF Waits
  <2>2. \A i \in DOMAIN todo' :
          MayReturn(returning, todo'[i]) => ReachesScope(todo', i + 1)
    BY <2>1, WaitingReturns
  <2>3. CASE returnStack' = returnStack
    BY <1>3, <2>2, <2>3 DEF ReturnInv
  <2>4. CASE /\ At("resume", {"Return"})
             /\ returnStack' = Append(returnStack, Result)
             /\ Continue(<<>>)
    <3>1. /\ todo # <<>> /\ node \in Node /\ node.kind = "Return"
          /\ node = todo[1].node /\ todo[1].phase = "resume"
      BY <2>4, First
    <3>2. MayReturn(returning, todo[1]) /\ 1 \in DOMAIN todo
      BY <1>1, <3>1, CannotReturn DEF MayReturn
    <3>3. ReachesScope(todo, 2)
      <4>1. 1 + 1 = 2
        OBVIOUS
      <4> QED
        BY <3>2, <4>1 DEF ReturnInv
    <3> DEFINE none == <<>>
    <3>4. /\ Replaced(todo, none, todo') /\ Len(none) = 0
          /\ \A k \in 1..Len(none) : none[k].phase = "leave"
          /\ 1 \in 1..(Len(none) + 1)
      BY <1>1, <2>4, <3>1 DEF Replaced, Continue
    <3> HIDE DEF none
    <3>5. ReachesScope(todo', 1)
      BY <3>3, <3>4, NewReach
    <3>6. Len(returnStack') = 1
      <4> DEFINE obj == Result
      <4>1. returnStack' = Append(<<>>, obj)
        BY <1>3, <2>4
      <4> HIDE DEF obj
      <4> QED
        BY <4>1
    <3> QED
      BY <2>2, <3>5, <3>6 DEF ReturnInv
  <2>5. ~Returned
    BY <1>3 DEF Returned
  <2> QED
    BY <2>3, <2>4, <2>5, StepReturns
<1>4. CASE Waits(returning) /\ returnStack # <<>>
  <2>1. PICK items : Replaced(todo, items, todo') /\ EndsLists(returning, items)
    BY <1>4 DEF Waits
  <2>2. \A i \in DOMAIN todo' :
          MayReturn(returning, todo'[i]) => ReachesScope(todo', i + 1)
    BY <2>1, WaitingReturns
  <2>3. Len(returnStack) = 1 /\ ReachesScope(todo, 1)
    BY <1>4 DEF ReturnInv
  <2>4. CASE Leave
    <3>1. returnStack' = returnStack /\ Continue(<<>>) /\ todo # <<>>
      BY <2>4 DEF Leave, At
    <3>2. ReachesScope(todo, 2)
      BY <1>1, <1>4, <2>3, <2>4, OnlyEnds
    <3> DEFINE none == <<>>
    <3>3. /\ Replaced(todo, none, todo') /\ Len(none) = 0
          /\ \A k \in 1..Len(none) : none[k].phase = "leave"
          /\ 1 \in 1..(Len(none) + 1)
      BY <1>1, <3>1 DEF Replaced, Continue
    <3> HIDE DEF none
    <3>4. ReachesScope(todo', 1)
      BY <3>2, <3>3, NewReach
    <3> QED
      BY <2>2, <2>3, <3>1, <3>4 DEF ReturnInv
  <2>5. CASE ScopeEnds /\ Returned
    <3>1. returnStack' = Below(returnStack, 1)
      BY <2>5 DEF ScopeEnds
    <3>2. returnStack' = <<>>
      BY <1>1, <2>3, <3>1 DEF Below
    <3> QED
      BY <2>2, <3>2 DEF ReturnInv
  <2> QED
    BY <1>1, <1>4, <2>3, <2>4, <2>5, OnlyEnds
<1> QED
  BY <1>2, <1>3, <1>4, StepWaits

\* A return ends what is around it, up to its scope expression or function body, in
\* every program whose returns end their statement lists: no statement starts while its
\* value is on returnStack, and no second value joins it.
THEOREM ReturnsEnd ==
  ASSUME NEW returning, ReturnsEndLists(returning)
  PROVE  Spec => []ReturnEndsScope
<1>1. Init => ReturnInv(returning)
  <2> SUFFICES ASSUME Init PROVE ReturnInv(returning)
    OBVIOUS
  <2>1. PICK root \in Program : InitWith(root)
    BY DEF Init
  <2> DEFINE first == Visit(root)
  <2>2. root \notin returning /\ first.node = root
    BY DEF ReturnsEndLists, Visit, AnItem
  <2>3. todo = <<first>> /\ returnStack = <<>>
    BY <2>1 DEF InitWith
  <2>4. ~MayReturn(returning, first)
    BY <2>2 DEF MayReturn
  <2> HIDE DEF first
  <2>5. \A i \in DOMAIN todo : todo[i] = first
    BY <2>3
  <2> QED
    BY <2>3, <2>4, <2>5 DEF ReturnInv
<1>2. IInv /\ ReturnInv(returning) /\ [Next]_vars => ReturnInv(returning)'
  <2>1. UNCHANGED vars /\ ReturnInv(returning) => ReturnInv(returning)'
    BY DEF vars, ReturnInv
  <2> QED
    BY <2>1, ReturnsKept
<1>3. IInv /\ ReturnInv(returning) => ReturnEndsScope
  <2> SUFFICES ASSUME IInv, ReturnInv(returning), returnStack # <<>>
               PROVE  /\ Len(returnStack) = 1
                      /\ todo # <<>>
                      /\ ~(todo[1].phase = "visit" /\ todo[1].node.kind \in StmtKind)
    BY DEF ReturnEndsScope
  <2>1. Len(returnStack) = 1 /\ todo \in Seq(Item)
    BY DEF ReturnInv, IInv, TypeOK
  <2>2. PICK j \in Int : ScopeAt(todo, 1, j)
    BY DEF ReturnInv, ReachesScope
  <2>3. j \in 1..Len(todo) /\ (j # 1 => 1 \in 1..(j - 1))
    BY <2>1, <2>2 DEF ScopeAt
  <2>4. todo[1].phase # "visit"
    BY <2>2, <2>3 DEF ScopeAt, Looping
  <2> QED
    BY <2>1, <2>3, <2>4
<1> QED
  BY <1>1, <1>2, <1>3, Inductive, PTL DEF Spec

-----------------------------------------------------------------------------
(***************************************************************************)
(* Values.                                                                 *)
(***************************************************************************)

\* The objects that expressions have in prsl.
Something == PrslObject \ {Nil}

\* Nowhere is there anything else.
NothingNil ==
  /\ values \in Seq(Something)
  /\ returnStack \in Seq(Something)
  /\ scopes \in Seq(Facts!Scope(Something))

\* The first item goes on with fresh ones; it is not a return.
LEMMA FreshGoesOn ==
  ASSUME IInv, LoopsReturn(todo, returnStack), NEW phase, NEW kinds, At(phase, kinds),
         phase \in {"visit", "resume"} => "Return" \notin kinds,
         NEW items, Fresh(items), Continue(items)
  PROVE  LoopsReturn(todo', returnStack')
<1>1. todo \in Seq(Item) /\ todo # <<>> /\ ~Returning(todo[1])
  BY First DEF Returning
<1>2. LoopsReturn(items, returnStack') /\ items \in Seq(Item)
  BY FreshLoops DEF Fresh
<1>3. ReturnsOn(todo, items, returnStack')
  BY <1>1, <1>2 DEF ReturnsOn
<1>4. todo' = items \o Tail(todo)
  BY DEF Continue
<1>5. LoopsReturn(items \o Tail(todo), returnStack')
  BY <1>3, LoopsStep
<1> QED
  BY <1>4, <1>5

\* Operands are visited, and then the node is resumed: a return also goes on so.
LEMMA OperandsGoOn ==
  ASSUME IInv, LoopsReturn(todo, returnStack), VisitOperands
  PROVE  LoopsReturn(todo', returnStack')
<1> DEFINE operands == IF node.kind \in {"If", "While"} THEN <<node.kids[1]>> ELSE node.kids
           visits == VisitAll(operands)
           last == Resume(node)
           items == visits \o <<last>>
           kinds == {"Assignment", "Unary", "Binary", "Postfix", "VarStmt", "If",
                     "While", "Print", "ExprStmt", "Return"}
<1>1. At("visit", kinds) /\ Continue(items)
  BY DEF VisitOperands
<1> HIDE DEF kinds
<1>2. /\ todo \in Seq(Item) /\ todo # <<>> /\ node \in Node /\ node = todo[1].node
  BY <1>1, First
<1>3. operands \in Seq(Node)
  <2>1. node.kids \in Seq(Node) /\ (node.kind \in {"If", "While"} => 1 \in DOMAIN node.kids)
    BY <1>2, NodeFacts, KidsOf
  <2> QED
    BY <2>1
<1> HIDE DEF operands
<1>4. last \in Item /\ last.phase = "resume" /\ last.index = 0 /\ last.node = node
  BY <1>2, ItemTypes
<1>5. Fresh(visits)
  BY <1>3, FreshVisits
<1> HIDE DEF visits, last
<1>6. Fresh(items) /\ items # <<>> /\ items[Len(items)] = last
  BY <1>4, <1>5, FreshThen
<1> HIDE DEF items
<1>7. LoopsReturn(items, returnStack') /\ items \in Seq(Item)
  BY <1>6, FreshLoops DEF Fresh
<1>8. Returning(todo[1]) => Returning(items[Len(items)])
  BY <1>2, <1>4, <1>6 DEF Returning
<1>9. ReturnsOn(todo, items, returnStack')
  BY <1>2, <1>6, <1>7, <1>8 DEF ReturnsOn
<1>10. LoopsReturn(items \o Tail(todo), returnStack')
  BY <1>9, LoopsStep
<1> QED
  BY <1>1, <1>10 DEF Continue

\* The value is on the stack when the loop goes on.
LEMMA ReturnGoesOn ==
  ASSUME IInv, LoopsReturn(todo, returnStack), ResumeReturnStmt
  PROVE  LoopsReturn(todo', returnStack')
<1>1. CASE Len(returnStack) = MaxReturns
  BY <1>1 DEF ResumeReturnStmt, Stop
<1>2. CASE Len(returnStack) # MaxReturns
  <2> DEFINE none == <<>>
             obj == Result
  <2>1. /\ At("resume", {"Return"}) /\ Continue(none)
        /\ returnStack' = Append(returnStack, obj)
    BY <1>2 DEF ResumeReturnStmt
  <2>2. todo \in Seq(Item) /\ todo # <<>> /\ returnStack \in Seq(PrslObject)
    BY DEF IInv, TypeOK, At, ResumeReturnStmt
  <2> HIDE DEF obj
  <2>3. returnStack' # <<>>
    BY <2>1, <2>2
  <2>4. Fresh(none) /\ none = <<>>
    BY FreshSequences
  <2> HIDE DEF none
  <2>5. LoopsReturn(none, returnStack') /\ none \in Seq(Item)
    BY <2>4, FreshLoops DEF Fresh
  <2>6. ReturnsOn(todo, none, returnStack')
    BY <2>2, <2>3, <2>4, <2>5 DEF ReturnsOn
  <2>7. LoopsReturn(none \o Tail(todo), returnStack')
    BY <2>6, LoopsStep
  <2> QED
    BY <2>1, <2>7 DEF Continue
<1> QED
  BY <1>1, <1>2

\* The next statement, when the one before has not returned.
LEMMA LoopGoesOn ==
  ASSUME IInv, LoopsReturn(todo, returnStack), ScopeContinues
  PROVE  LoopsReturn(todo', returnStack')
<1>1. /\ At("resume", {"Scope"}) /\ ~Returned /\ ~Exhausted
      /\ returnStack' = returnStack
      /\ Continue(<<Visit(node.kids[todo[1].index + 1]),
                    ResumeAt(node, todo[1].index + 1)>>)
  BY DEF ScopeContinues, state
<1>2. /\ todo \in Seq(Item) /\ todo # <<>> /\ node = todo[1].node
      /\ node.kind = "Scope" /\ todo[1].phase = "resume"
      /\ 1 \in DOMAIN todo
  BY <1>1, First
<1>3. LoopsReturn(<<Visit(node.kids[todo[1].index + 1]),
                    ResumeAt(node, todo[1].index + 1)>> \o Tail(todo), returnStack)
  <2>1. todo[1].index <= Len(todo[1].node.kids)
    BY <1>2 DEF IInv, LoopsInside, Looping
  <2>2. Looping(todo[1]) /\ todo[1].index # Len(todo[1].node.kids)
    BY <1>1, <1>2 DEF Looping, Exhausted
  <2>3. todo[1].index > 0 => returnStack = <<>>
    BY <1>1 DEF Returned
  <2> QED
    BY <1>2, <2>1, <2>2, <2>3, NextStatement
<1> QED
  BY <1>1, <1>3 DEF Continue

\* One step of the walk.
LEMMA StepLoops ==
  ASSUME IInv, LoopsReturn(todo, returnStack), Next
  PROVE  LoopsReturn(todo', returnStack')
<1>1. ASSUME NEW how, Stop(how) PROVE LoopsReturn(todo', returnStack')
  BY <1>1 DEF Stop
<1>2. Fresh(<<>>)
  BY FreshSequences
<1>3. CASE VisitLeaf
  BY <1>2, <1>3, FreshGoesOn DEF VisitLeaf
<1>4. CASE VisitVarExpr
  BY <1>1, <1>2, <1>4, FreshGoesOn DEF VisitVarExpr
<1>5. CASE Descend
  <2>1. At("visit", {"Grouping", "Function", "Null"}) /\ Continue(VisitAll(node.kids))
    BY <1>5 DEF Descend
  <2>2. node.kids \in Seq(Node)
    BY <2>1, First, NodeFacts
  <2>3. Fresh(VisitAll(node.kids))
    BY <2>2, FreshVisits
  <2> QED
    BY <2>1, <2>3, FreshGoesOn
<1>6. CASE VisitOperands
  BY <1>6, OperandsGoOn
<1>7. CASE ResumeAssignment
  BY <1>2, <1>7, FreshGoesOn DEF ResumeAssignment
<1>8. CASE ResumeUnary
  BY <1>1, <1>2, <1>8, FreshGoesOn DEF ResumeUnary
<1>9. CASE ResumeBinary
  BY <1>1, <1>2, <1>9, FreshGoesOn DEF ResumeBinary
<1>10. CASE ResumePostfix
  BY <1>1, <1>2, <1>10, FreshGoesOn DEF ResumePostfix
<1>11. CASE VisitBlock
  <2> DEFINE body == IF node.kind = "Scope" THEN <<ResumeAt(node, 0)>> ELSE VisitAll(node.kids)
             last == Leaving(node)
  <2>1. CASE Len(scopes) = MaxDepth
    BY <1>1, <1>11, <2>1 DEF VisitBlock
  <2>2. CASE Len(scopes) # MaxDepth
    <3>1. At("visit", {"Scope", "Block"}) /\ Continue(body \o <<last>>)
      BY <1>11, <2>2 DEF VisitBlock
    <3>2. node \in Node /\ node.kids \in Seq(Node)
      BY <3>1, First, NodeFacts
    <3>3. last \in Item /\ ~Looping(last)
      BY <3>2, ItemTypes DEF Looping
    <3>4. Fresh(body)
      <4>1. ResumeAt(node, 0) \in Item /\ ResumeAt(node, 0).index = 0
        BY <3>2 DEF ResumeAt, AnItem, Item, Phases
      <4> QED
        BY <3>2, <4>1, FreshSequences, FreshVisits
    <3> HIDE DEF body, last
    <3>5. Fresh(body \o <<last>>)
      BY <3>3, <3>4, FreshThen
    <3> QED
      BY <3>1, <3>5, FreshGoesOn
  <2> QED
    BY <2>1, <2>2
<1>12. CASE Leave
  BY <1>2, <1>12, FreshGoesOn DEF Leave
<1>13. CASE ScopeContinues
  BY <1>13, LoopGoesOn
<1>14. CASE ScopeEnds
  BY <1>2, <1>14, FreshGoesOn DEF ScopeEnds
<1>15. CASE VisitFuncExpr
  <2> DEFINE first == Register(node.kids[1])
             last == Resume(node)
  <2>1. At("visit", {"Func"}) /\ Continue(<<first, last>>)
    BY <1>15 DEF VisitFuncExpr
  <2>2. node \in Node /\ node.kind = "Func" /\ node.kids \in Seq(Node) /\ Len(node.kids) = 1
    BY <2>1, First, NodeFacts
  <2>3. node.kids[1] \in Node
    BY <2>2
  <2>4. first \in Item /\ ~Looping(first)
    BY <2>3, ItemTypes DEF Looping
  <2>5. last \in Item /\ last.index = 0
    BY <2>2, ItemTypes
  <2> HIDE DEF first, last
  <2>6. Fresh(<<first, last>>)
    BY <2>4, <2>5, FreshSequences
  <2> QED
    BY <2>1, <2>6, FreshGoesOn
<1>16. CASE ResumeFuncExpr
  BY <1>2, <1>16, FreshGoesOn DEF ResumeFuncExpr
<1>17. CASE RegisterBelow
  <2>1. /\ At("register", (ExprKind \cup StmtKind) \ {"Func"})
        /\ Continue(RegisterAll(node.kids))
    BY <1>17 DEF RegisterBelow
  <2>2. node.kids \in Seq(Node)
    BY <2>1, First, NodeFacts
  <2>3. Fresh(RegisterAll(node.kids))
    BY <2>2, FreshVisits
  <2> QED
    BY <2>1, <2>3, FreshGoesOn
<1>18. CASE RegisterFunction
  BY <1>1, <1>2, <1>18, FreshGoesOn DEF RegisterFunction
<1>19. CASE VisitCallExpr
  <2> DEFINE visits == VisitAll(node.kids)
             last == Resume(node)
  <2>1. CASE todo' = todo /\ returnStack' = returnStack
    BY <2>1
  <2>2. CASE Continue(visits \o <<last>>)
    <3>1. At("visit", {"Call"})
      BY <1>19 DEF VisitCallExpr
    <3>2. node \in Node /\ node.kids \in Seq(Node)
      BY <3>1, First, NodeFacts
    <3>3. last \in Item /\ last.index = 0
      BY <3>2, ItemTypes
    <3>4. Fresh(visits)
      BY <3>2, FreshVisits
    <3> HIDE DEF visits, last
    <3>5. Fresh(visits \o <<last>>)
      BY <3>3, <3>4, FreshThen
    <3> QED
      BY <2>2, <3>1, <3>5, FreshGoesOn
  <2> QED
    BY <1>19, <2>1, <2>2 DEF VisitCallExpr, Stop
<1>20. CASE ResumeCallExpr
  <2> DEFINE body == values[Len(values) - Len(node.kids)][2].kids[1]
             first == ResumeAt(body, 0)
             last == Leaving(node)
  <2>1. CASE Len(scopes) = MaxDepth
    BY <1>1, <1>20, <2>1 DEF ResumeCallExpr
  <2>2. CASE Len(scopes) # MaxDepth
    <3>1. At("resume", {"Call"}) /\ Continue(<<first, last>>)
      BY <1>20, <2>2 DEF ResumeCallExpr
    <3>2. node \in Node
      BY <3>1, First
    <3>3. body \in Node
      <4> DEFINE func == values[Len(values) - Len(node.kids)][2]
      <4>1. func \in FuncExpr
        BY <3>1, CallReady
      <4> HIDE DEF func
      <4>2. func \in Node /\ func.kind = "Func"
        BY <4>1 DEF FuncExpr
      <4>3. func.kids \in Seq(Node) /\ Len(func.kids) = 1
        BY <4>2, NodeFacts
      <4>4. func.kids[1] \in Node
        BY <4>3
      <4> QED
        BY <4>4 DEF func
    <3> HIDE DEF body
    <3>4. first \in Item /\ first.index = 0
      BY <3>3 DEF ResumeAt, AnItem, Item, Phases
    <3>5. last \in Item /\ ~Looping(last)
      BY <3>2, ItemTypes DEF Looping
    <3> HIDE DEF first, last
    <3>6. Fresh(<<first, last>>)
      BY <3>4, <3>5, FreshSequences
    <3> QED
      BY <3>1, <3>6, FreshGoesOn
  <2> QED
    BY <2>1, <2>2
<1>21. CASE ResumeCondition
  <2>1. At("resume", {"If", "While"}) /\ Continue(Selected)
    BY <1>21 DEF ResumeCondition
  <2>2. node \in Node
    BY <2>1, First
  <2>3. Fresh(Selected)
    <3>1. ASSUME NEW n \in Node PROVE Visit(n) \in Item /\ ~Looping(Visit(n))
      BY <3>1, ItemTypes DEF Looping
    <3>2. /\ node.kind \in {"If", "While"} /\ node.kids[2] \in Node
          /\ node.kind = "If" /\ Len(node.kids) = 3 => node.kids[3] \in Node
      <4>1. node.kind \in {"If", "While"} /\ node.kids \in Seq(Node)
        BY <2>1, First, NodeFacts
      <4>2. Len(node.kids) \in {2, 3}
        BY <2>2, <4>1, NodeFacts
      <4> DEFINE kids == node.kids
      <4>3. kids \in Seq(Node) /\ Len(kids) \in {2, 3}
        BY <4>1, <4>2
      <4> HIDE DEF kids
      <4>4. kids[2] \in Node /\ (Len(kids) = 3 => kids[3] \in Node)
        BY <4>3
      <4> QED
        BY <4>1, <4>4 DEF kids
    <3>3. Fresh(<<Visit(node.kids[2]), Visit(node)>>) /\ Fresh(<<Visit(node.kids[2])>>)
      BY <2>2, <3>1, <3>2, FreshSequences
    <3>4. node.kind = "If" /\ Len(node.kids) = 3 => Fresh(<<Visit(node.kids[3])>>)
      BY <3>1, <3>2, FreshSequences
    <3> QED
      BY <1>2, <3>2, <3>3, <3>4 DEF Selected
  <2> QED
    BY <2>1, <2>3, FreshGoesOn
<1>22. CASE ResumePrintStmt \/ ResumeExprStmt
  BY <1>2, <1>22, FreshGoesOn DEF ResumePrintStmt, ResumeExprStmt
<1>23. CASE ResumeReturnStmt
  BY <1>23, ReturnGoesOn
<1>24. CASE Finish
  BY <1>24 DEF Finish
<1> QED
  BY <1>3, <1>4, <1>5, <1>6, <1>7, <1>8, <1>9, <1>10, <1>11, <1>12, <1>13, <1>14, <1>15,
     <1>16, <1>17, <1>18, <1>19, <1>20, <1>21, <1>22, <1>23, <1>24 DEF Next

\* What the operators yield is something.
LEMMA SomeObjects ==
  /\ \A n \in Ints : IntObj(n) \in Something
  /\ \A b \in BOOLEAN : BoolObj(b) \in Something
  /\ \A obj \in PrslObject : IsFunc(obj) => obj \in Something
  /\ \A f \in FuncExpr : FuncObj(f) \in Something
  /\ Absent \notin Something
<1>1. \A n : IntObj(n) # Nil
  BY DEF IntObj, Nil
<1>2. \A b : BoolObj(b) # Nil
  BY DEF BoolObj, Nil
<1>3. ~IsFunc(Nil)
  BY DEF IsFunc, Nil
<1>4. Absent \notin PrslObject
  BY InterpreterAssumption
<1> QED
  BY <1>1, <1>2, <1>3, <1>4, ObjectTypes DEF Something

LEMMA SomeResult ==
  ASSUME NEW op \in Operators \ {"++", "--"},
         NEW lhs \in PrslObject, NEW rhs \in PrslObject,
         BinaryError(op, lhs, rhs) = NoError
  PROVE  BinaryResult(op, lhs, rhs) \in Something
<1>1. BinaryResult(op, lhs, rhs) \in PrslObject
  BY BinaryTypes
<1>2. \A n, b : IntObj(n) # Nil /\ BoolObj(b) # Nil
  BY DEF IntObj, BoolObj, Nil
<1>3. op \in {"+", "-", "*", "/", "!=", "==", "<", "<=", ">", ">="}
  BY DEF Operators
<1>4. BinaryResult(op, lhs, rhs) # Nil
  BY <1>2, <1>3 DEF BinaryResult
<1> QED
  BY <1>1, <1>4 DEF Something

\* The results that are left, and one more.
LEMMA SomeLeft ==
  ASSUME NEW vals \in Seq(Something), NEW n \in 0..Len(vals)
  PROVE  /\ Below(vals, n) \in Seq(Something)
         /\ \A obj \in Something : Append(Below(vals, n), obj) \in Seq(Something)
<1> DEFINE rest == Below(vals, n)
<1>1. /\ Len(vals) - n \in Nat
      /\ \A i \in 1..(Len(vals) - n) : i \in 1..Len(vals)
  OBVIOUS
<1>2. rest \in Seq(Something)
  BY <1>1 DEF Below
<1> HIDE DEF rest
<1>3. \A obj \in Something : Append(rest, obj) \in Seq(Something)
  BY <1>2
<1> QED
  BY <1>2, <1>3 DEF rest

\* What an action takes from the results and the scopes is something.
LEMMA SomethingThere ==
  ASSUME IInv, NothingNil, NEW phase, NEW kinds, At(phase, kinds)
  PROVE  /\ Absent \notin Something
         /\ scopes \in Seq(Facts!Scope(Something)) /\ scopes # <<>>
         /\ values \in Seq(Something) /\ returnStack \in Seq(Something)
         /\ Len(values) \in Nat
         /\ node \in Node /\ node.kind \in kinds /\ node = todo[1].node
         /\ todo[1].phase = phase
         /\ \A k \in 1..Len(values) : values[k] \in Something
         /\ Need(todo[1]) # 0 =>
              Need(todo[1]) \in 0..Len(values) /\ 1 \in 0..Len(values) /\ Result \in Something
<1>1. /\ scopes # <<>> /\ Need(todo[1]) \in Nat /\ Need(todo[1]) <= Len(values)
      /\ node \in Node /\ node.kind \in kinds /\ node = todo[1].node
      /\ todo[1].phase = phase /\ Len(values) \in Nat
  BY First
<1>2. \A k \in 1..Len(values) : values[k] \in Something
  BY DEF NothingNil
<1>3. Need(todo[1]) # 0 =>
        /\ Need(todo[1]) \in 0..Len(values) /\ 1 \in 0..Len(values)
        /\ Len(values) \in 1..Len(values)
  BY <1>1
<1> QED
  BY <1>1, <1>2, <1>3, SomeObjects DEF NothingNil, Result

\* Whoever stores an object, stores something.
LEMMA SomeStored ==
  ASSUME NEW s \in Seq(Facts!Scope(Something)), NEW t, NEW x \in Name,
         NEW v \in Something, Facts!Stored(s, t, x, v)
  PROVE  t \in Seq(Facts!Scope(Something))
BY SomeObjects, Facts!KeptByStore

\* The expressions.
LEMMA ExpressionsSome ==
  ASSUME IInv, NothingNil,
         \/ VisitLeaf \/ VisitVarExpr \/ ResumeUnary \/ ResumeBinary \/ VisitFuncExpr
  PROVE  NothingNil'
<1>1. CASE VisitLeaf
  <2>1. At("visit", {"Literal", "Input"}) /\ UNCHANGED <<returnStack, scopes>>
    BY <1>1 DEF VisitLeaf, state
  <2>2. values \in Seq(Something) /\ node \in Node
    BY <2>1, SomethingThere
  <2>3. \E obj \in Something : values' = Append(values, obj)
    BY <1>1, <2>2, SomeObjects, InterpreterAssumption DEF VisitLeaf, Push
  <2>4. values' \in Seq(Something)
    BY <2>2, <2>3
  <2> QED
    BY <2>1, <2>4 DEF NothingNil
<1>2. CASE VisitVarExpr
  <2>1. CASE Stop(UndefVariable)
    BY <2>1 DEF Stop, NothingNil
  <2>2. CASE ~Stop(UndefVariable)
    <3> DEFINE obj == Env!get(scopes, node.name)
    <3>1. /\ At("visit", {"Var"}) /\ Env!contains(scopes, node.name)
          /\ values' = Append(values, obj) /\ UNCHANGED <<returnStack, scopes>>
      BY <1>2, <2>2 DEF VisitVarExpr, state, Push
    <3>2. /\ values \in Seq(Something) /\ scopes \in Seq(Facts!Scope(Something))
          /\ node \in Node /\ node.kind = "Var"
      BY <3>1, SomethingThere
    <3>3. node.name \in Name
      BY <3>2, NodeFacts
    <3>4. obj \in Something
      BY <3>1, <3>2, <3>3, SameScopes, Facts!GetType
    <3> HIDE DEF obj
    <3>5. values' \in Seq(Something)
      BY <3>1, <3>2, <3>4
    <3> QED
      BY <3>1, <3>5 DEF NothingNil
  <2> QED
    BY <2>1, <2>2
<1>3. CASE ResumeUnary
  <2>1. CASE Stop(NonNumeric)
    BY <2>1 DEF Stop, NothingNil
  <2>2. CASE ~Stop(NonNumeric)
    <3> DEFINE obj == IntObj(Wrap(-Result[2]))
    <3>1. /\ At("resume", {"Unary"}) /\ IsInt(Result)
          /\ values' = Append(Below(values, 1), obj) /\ UNCHANGED <<returnStack, scopes>>
      BY <1>3, <2>2 DEF ResumeUnary, state
    <3>2. values \in Seq(Something) /\ 1 \in 0..Len(values) /\ Result \in Something
      <4>1. At("resume", {"Unary"})
        BY <3>1
      <4>2. node.kind = "Unary" /\ node = todo[1].node /\ todo[1].phase = "resume"
        BY <4>1, SomethingThere
      <4>3. Need(todo[1]) = 1
        BY <4>2 DEF Need
      <4> QED
        BY <4>1, <4>3, SomethingThere
    <3>3. Result[2] \in Int
      BY <3>1, <3>2, TagTypes DEF Something
    <3>4. obj \in PrslObject
      BY <3>3, SteppedTypes
    <3>5. obj \in Something
      BY <3>4 DEF Something, IntObj, Nil
    <3> HIDE DEF obj
    <3>6. values' \in Seq(Something)
      BY <3>1, <3>2, <3>5, SomeLeft
    <3> QED
      BY <3>1, <3>6 DEF NothingNil
  <2> QED
    BY <2>1, <2>2
<1>4. CASE ResumeBinary
  <2>1. CASE \E how : Stop(how)
    BY <2>1 DEF Stop, NothingNil
  <2>2. CASE ~\E how : Stop(how)
    <3> DEFINE obj == BinaryResult(node.op, Lhs, Rhs)
    <3>1. /\ At("resume", {"Binary"}) /\ BinaryError(node.op, Lhs, Rhs) = NoError
          /\ values' = Append(Below(values, 2), obj) /\ UNCHANGED <<returnStack, scopes>>
      BY <1>4, <2>2 DEF ResumeBinary, state
    <3>2. /\ values \in Seq(Something) /\ 2 \in 0..Len(values) /\ Rhs \in Something
          /\ node \in Node /\ node.kind = "Binary"
          /\ \A k \in 1..Len(values) : values[k] \in Something
          /\ Len(values) \in Nat
      <4>1. At("resume", {"Binary"})
        BY <3>1
      <4>2. node.kind = "Binary" /\ node = todo[1].node /\ todo[1].phase = "resume"
        BY <4>1, SomethingThere
      <4>3. Need(todo[1]) = 2
        BY <4>2 DEF Need
      <4> QED
        BY <4>1, <4>2, <4>3, SomethingThere DEF Rhs
    <3>3. Len(values) - 1 \in 1..Len(values)
      BY <3>2
    <3>4. Lhs \in Something
      BY <3>2, <3>3 DEF Lhs
    <3>5. node.op \in Operators \ {"++", "--"}
      BY <3>2, NodeFacts
    <3>6. obj \in Something
      BY <3>1, <3>2, <3>4, <3>5, SomeResult DEF Something
    <3> HIDE DEF obj
    <3>7. values' \in Seq(Something)
      BY <3>1, <3>2, <3>6, SomeLeft
    <3> QED
      BY <3>1, <3>7 DEF NothingNil
  <2> QED
    BY <2>1, <2>2
<1>5. CASE VisitFuncExpr
  <2> DEFINE obj == FuncObj(node)
  <2>1. /\ At("visit", {"Func"}) /\ UNCHANGED <<returnStack, scopes>>
        /\ values' = Append(values, obj)
    BY <1>5 DEF VisitFuncExpr, state, Push
  <2>2. values \in Seq(Something) /\ node \in Node /\ node.kind = "Func"
    BY <2>1, SomethingThere
  <2>3. obj \in Something
    BY <2>2, SomeObjects DEF FuncExpr
  <2> HIDE DEF obj
  <2>4. values' \in Seq(Something)
    BY <2>1, <2>2, <2>3
  <2> QED
    BY <2>1, <2>4 DEF NothingNil
<1> QED
  BY <1>1, <1>2, <1>3, <1>4, <1>5

\* What changes variables.
LEMMA StoresSome ==
  ASSUME IInv, NothingNil, ResumeAssignment \/ ResumePostfix
  PROVE  NothingNil'
<1>1. CASE ResumeAssignment
  <2>1. /\ At("resume", {"Assignment", "VarStmt"}) /\ UNCHANGED returnStack
        /\ scopes' = Env!defineOrAssign(scopes, node.name, Result)
        /\ values' = Below(values, 1) \/ values' = values
    BY <1>1 DEF ResumeAssignment, Pop
  <2>2. /\ node \in Node /\ node.kind \in {"Assignment", "VarStmt"}
        /\ values \in Seq(Something) /\ 1 \in 0..Len(values) /\ Result \in Something
        /\ scopes \in Seq(Facts!Scope(Something)) /\ scopes # <<>>
    BY <2>1, SomethingThere DEF Need
  <2>3. node.name \in Name
    BY <2>2, NodeFacts
  <2>4. Facts!Stored(scopes, scopes', node.name, Result)
    BY <2>1, <2>2, <2>3, SameScopes, Facts!DefineStores
  <2>5. scopes' \in Seq(Facts!Scope(Something))
    BY <2>2, <2>3, <2>4, SomeStored
  <2>6. values' \in Seq(Something)
    BY <2>1, <2>2, SomeLeft
  <2> QED
    BY <2>1, <2>5, <2>6 DEF NothingNil
<1>2. CASE ResumePostfix
  <2>1. CASE UNCHANGED <<values, returnStack, scopes>>
    BY <2>1 DEF NothingNil
  <2>2. CASE ~UNCHANGED <<values, returnStack, scopes>>
    <3> DEFINE x == node.kids[1].name
               v == Stepped(node.op, Result[2])
    <3>1. /\ At("resume", {"Postfix"}) /\ UNCHANGED <<values, returnStack>>
          /\ node.kids[1].kind = "Var" /\ IsInt(Result)
          /\ scopes' = Env!assign(scopes, x, v)
      BY <1>2, <2>2 DEF ResumePostfix, state, Stop
    <3>2. /\ node \in Node /\ node.kind = "Postfix" /\ Result \in Something
          /\ scopes \in Seq(Facts!Scope(Something)) /\ node = todo[1].node
          /\ todo[1].phase = "resume"
      BY <3>1, SomethingThere DEF Need
    <3>3. 1 \in DOMAIN todo /\ Incrementing(todo[1])
      <4>1. todo \in Seq(Item) /\ todo # <<>>
        BY <3>1, First
      <4> QED
        BY <3>1, <3>2, <4>1 DEF Incrementing
    <3>4. Facts!contains(scopes, x)
      BY <3>2, <3>3 DEF IInv, IncrementBound
    <3>5. x \in Name
      <4>1. Len(node.kids) = 1 /\ node.kids \in Seq(Node)
        BY <3>2, NodeFacts
      <4>2. node.kids[1] \in Node
        BY <4>1
      <4> QED
        BY <3>1, <4>2, NodeFacts
    <3>6. v \in PrslObject
      <4>1. Result[2] \in Int
        BY <3>1, <3>2, TagTypes DEF Something
      <4> QED
        BY <4>1, SteppedTypes
    <3>7. v \in Something
      BY <3>6 DEF Stepped, Something, IntObj, Nil
    <3>8. scopes' = Facts!assign(scopes, x, v)
      BY <3>1, SameScopes
    <3> HIDE DEF x, v
    <3>9. Facts!Stored(scopes, scopes', x, v)
      BY <3>2, <3>4, <3>5, <3>8, Facts!AssignStores
    <3>10. scopes' \in Seq(Facts!Scope(Something))
      BY <3>2, <3>5, <3>7, <3>9, SomeStored
    <3> QED
      BY <3>1, <3>10 DEF NothingNil
  <2> QED
    BY <2>1, <2>2
<1> QED
  BY <1>1, <1>2

\* What opens and leaves scopes.
LEMMA ScopesSome ==
  ASSUME IInv, NothingNil, VisitBlock \/ Leave \/ ResumeCallExpr
  PROVE  NothingNil'
<1>1. CASE VisitBlock
  <2>1. CASE Stop(Signalled)
    BY <2>1 DEF Stop, NothingNil
  <2>2. CASE ~Stop(Signalled)
    <3> DEFINE scope == Facts!Opened(FALSE)
    <3>1. /\ At("visit", {"Scope", "Block"}) /\ UNCHANGED <<values, returnStack>>
          /\ scopes' = Append(scopes, scope)
      BY <1>1, <2>2, SameScopes DEF VisitBlock
    <3>2. scopes \in Seq(Facts!Scope(Something))
      BY <3>1, SomethingThere
    <3>3. scope \in Facts!Scope(Something)
      BY Facts!OpenedScope
    <3> HIDE DEF scope
    <3>4. scopes' \in Seq(Facts!Scope(Something))
      BY <3>1, <3>2, <3>3, Facts!EnterEffect
    <3> QED
      BY <3>1, <3>4 DEF NothingNil
  <2> QED
    BY <2>1, <2>2
<1>2. CASE Leave
  <2>1. /\ At("leave", {"Scope", "Block", "Call"}) /\ UNCHANGED <<values, returnStack>>
        /\ scopes' = Facts!Leave(scopes)
    BY <1>2, SameScopes DEF Leave
  <2>2. /\ todo \in Seq(Item) /\ todo # <<>> /\ todo[1].phase = "leave"
        /\ Len(scopes) \in Nat
    BY <2>1, First
  <2>3. Len(scopes) > 1
    BY <2>2, ScopeToLeave DEF IInv, ScopesMatchVisits
  <2>4. scopes \in Seq(Facts!Scope(Something))
    BY <2>1, SomethingThere
  <2>5. scopes' \in Seq(Facts!Scope(Something))
    BY <2>1, <2>3, <2>4, Facts!LeaveEffect
  <2> QED
    BY <2>1, <2>5 DEF NothingNil
<1>3. CASE ResumeCallExpr
  <2>1. CASE Stop(Signalled)
    BY <2>1 DEF Stop, NothingNil
  <2>2. CASE ~Stop(Signalled)
    <3> DEFINE count == Len(node.kids)
               func == values[Len(values) - count][2]
               args == SubSeq(values, Len(values) - count + 1, Len(values))
               scope == ArgumentScope(func.params, args)
    <3>1. /\ At("resume", {"Call"}) /\ UNCHANGED returnStack
          /\ scopes' = Append(scopes, scope) /\ values' = Below(values, count + 1)
      BY <1>3, <2>2 DEF ResumeCallExpr
    <3>2. /\ Len(values) - count \in 1..Len(values)
          /\ func \in FuncExpr /\ Len(func.params) = count
      BY <3>1, CallReady
    <3> HIDE DEF func
    <3>3. func.params \in Seq(Name)
      BY <3>2, NodeFacts DEF FuncExpr
    <3>4. /\ values \in Seq(Something) /\ scopes \in Seq(Facts!Scope(Something))
          /\ Len(values) \in Nat /\ count \in Nat
      <4>1. values \in Seq(Something) /\ scopes \in Seq(Facts!Scope(Something))
            /\ Len(values) \in Nat /\ node \in Node
        BY <3>1, SomethingThere
      <4>2. node.kids \in Seq(Node)
        BY <4>1, NodeFacts
      <4> QED
        BY <4>1, <4>2
    <3> HIDE DEF count
    <3>5. args \in Seq(Something) /\ Len(args) = count
      <4>1. /\ Len(values) - count + 1 \in 1..(Len(values) + 1)
            /\ \A i \in (Len(values) - count + 1)..Len(values) : i \in 1..Len(values)
        BY <3>2, <3>4
      <4> QED
        BY <3>4, <4>1
    <3> HIDE DEF args
    <3>6. scope \in Facts!Scope(Something)
      BY <3>2, <3>3, <3>5, ArgumentTypes
    <3> HIDE DEF scope
    <3>7. scopes' \in Seq(Facts!Scope(Something))
      BY <3>1, <3>4, <3>6, Facts!EnterEffect
    <3>8. count + 1 \in 0..Len(values)
      BY <3>2, <3>4
    <3>9. values' \in Seq(Something)
      BY <3>1, <3>4, <3>8, SomeLeft
    <3> QED
      BY <3>1, <3>7, <3>9 DEF NothingNil
  <2> QED
    BY <2>1, <2>2
<1> QED
  BY <1>1, <1>2, <1>3

\* A scope that ends has returned: that is what its return is for.
LEMMA ScopeSome ==
  ASSUME IInv, NothingNil, LoopsReturn(todo, returnStack),
         \A n \in Node : EndsWithValue(n), ScopeEnds
  PROVE  NothingNil'
<1>1. At("resume", {"Scope"}) /\ UNCHANGED scopes /\ (Returned \/ Exhausted)
  BY DEF ScopeEnds
<1>2. /\ todo \in Seq(Item) /\ todo # <<>> /\ node \in Node /\ node = todo[1].node
      /\ node.kind = "Scope" /\ todo[1].phase = "resume"
  BY <1>1, First
<1>3. Returned
  <2>1. CASE Exhausted
    <3>1. Looping(todo[1]) /\ todo[1].index = Len(todo[1].node.kids)
      BY <1>2, <2>1 DEF Looping, Exhausted
    <3>2. EndsWithValue(todo[1].node)
      BY <1>2
    <3>3. todo[1].index > 0 /\ returnStack # <<>>
      BY <1>2, <3>1, <3>2, LoopReturned
    <3> QED
      BY <3>3 DEF Returned
  <2> QED
    BY <1>1, <2>1
<1> DEFINE obj == returnStack[Len(returnStack)]
<1>4. values' = Append(values, obj) /\ returnStack' = Below(returnStack, 1)
  BY <1>3 DEF ScopeEnds, Push
<1>5. /\ values \in Seq(Something) /\ returnStack \in Seq(Something)
      /\ returnStack # <<>>
  BY <1>1, <1>3, SomethingThere DEF Returned
<1>6. obj \in Something /\ 1 \in 0..Len(returnStack)
  <2>1. Len(returnStack) \in 1..Len(returnStack)
    BY <1>5
  <2> QED
    BY <1>5, <2>1
<1> HIDE DEF obj
<1>7. values' \in Seq(Something)
  BY <1>4, <1>5, <1>6
<1>8. returnStack' \in Seq(Something)
  BY <1>4, <1>5, <1>6, SomeLeft
<1> QED
  BY <1>1, <1>7, <1>8 DEF NothingNil

\* A call holds the function it calls, a statement takes the result it has waited for.
LEMMA StatementsSome ==
  ASSUME IInv, NothingNil,
         \/ VisitCallExpr \/ ResumeCondition \/ ResumePrintStmt \/ ResumeExprStmt
         \/ ResumeReturnStmt
  PROVE  NothingNil'
<1>1. CASE VisitCallExpr
  <2>1. CASE UNCHANGED <<values, returnStack, scopes>>
    BY <2>1 DEF NothingNil
  <2>2. CASE ~UNCHANGED <<values, returnStack, scopes>>
    <3>2. /\ IsFunc(Callee) /\ values' = Append(values, Callee)
          /\ UNCHANGED <<returnStack, scopes>>
      BY <1>1, <2>2 DEF VisitCallExpr, Stop, Push, state
    <3>3. /\ At("visit", {"Call"}) /\ (Known \/ Bound)
      BY <1>1, <2>2 DEF VisitCallExpr, Stop
    <3>4. /\ node \in Node /\ node.kind = "Call" /\ values \in Seq(Something)
          /\ scopes \in Seq(Facts!Scope(Something)) /\ Absent \notin Something
      BY <3>3, SomethingThere
    <3>5. node.name \in Name
      BY <3>4, NodeFacts
    <3>6. Callee \in Something
      <4>1. CASE Known
        <5>1. /\ functions[node.name] \in PrslObject \cup {Absent}
              /\ functions[node.name] # Absent
          BY <3>5, <4>1 DEF IInv, TypeOK, Known
        <5> QED
          BY <3>2, <4>1, <5>1, SomeObjects DEF Callee
      <4>2. CASE ~Known
        <5>1. Facts!contains(scopes, node.name)
          BY <3>3, <4>2, SameScopes DEF Bound
        <5>2. Facts!get(scopes, node.name) \in Something
          BY <3>4, <3>5, <5>1, Facts!GetType
        <5> QED
          BY <4>2, <5>2, SameScopes DEF Callee
      <4> QED
        BY <4>1, <4>2
    <3>7. values' \in Seq(Something)
      BY <3>2, <3>4, <3>6
    <3> QED
      BY <3>2, <3>7 DEF NothingNil
  <2> QED
    BY <2>1, <2>2
<1>2. CASE ResumeCondition \/ ResumePrintStmt \/ ResumeExprStmt
  <2>1. PICK kinds \in SUBSET {"If", "While", "Print", "ExprStmt"} :
          At("resume", kinds)
    BY <1>2 DEF ResumeCondition, ResumePrintStmt, ResumeExprStmt
  <2>2. values' = Below(values, 1) /\ UNCHANGED <<returnStack, scopes>>
    BY <1>2 DEF ResumeCondition, ResumePrintStmt, ResumeExprStmt, Pop, state
  <2>3. /\ node.kind \in {"If", "While", "Print", "ExprStmt"} /\ node = todo[1].node
        /\ todo[1].phase = "resume" /\ values \in Seq(Something)
    BY <2>1, SomethingThere
  <2>4. Need(todo[1]) = 1
    BY <2>3 DEF Need
  <2>5. 1 \in 0..Len(values)
    BY <2>1, <2>4, SomethingThere
  <2>6. values' \in Seq(Something)
    BY <2>2, <2>3, <2>5, SomeLeft
  <2> QED
    BY <2>2, <2>6 DEF NothingNil
<1>3. CASE ResumeReturnStmt
  <2>1. CASE Stop(Terminated)
    BY <2>1 DEF Stop, NothingNil
  <2>2. CASE ~Stop(Terminated)
    <3>1. /\ At("resume", {"Return"}) /\ UNCHANGED scopes
          /\ returnStack' = Append(returnStack, Result) /\ values' = Below(values, 1)
      BY <1>3, <2>2 DEF ResumeReturnStmt, Pop
    <3>2. /\ node.kind = "Return" /\ node = todo[1].node /\ todo[1].phase = "resume"
          /\ values \in Seq(Something) /\ returnStack \in Seq(Something)
      BY <3>1, SomethingThere
    <3>3. Need(todo[1]) = 1
      BY <3>2 DEF Need
    <3>4. 1 \in 0..Len(values) /\ Result \in Something
      BY <3>1, <3>3, SomethingThere
    <3>5. values' \in Seq(Something)
      BY <3>1, <3>2, <3>4, SomeLeft
    <3>6. returnStack' \in Seq(Something)
      BY <3>1, <3>2, <3>4
    <3> QED
      BY <3>1, <3>5, <3>6 DEF NothingNil
  <2> QED
    BY <2>1, <2>2
<1> QED
  BY <1>1, <1>2, <1>3

\* One step.
LEMMA StepSome ==
  ASSUME IInv, NothingNil, LoopsReturn(todo, returnStack),
         \A n \in Node : EndsWithValue(n), Next
  PROVE  NothingNil'
<1>1. CASE \/ VisitLeaf \/ VisitVarExpr \/ ResumeUnary \/ ResumeBinary \/ VisitFuncExpr
  BY <1>1, ExpressionsSome
<1>2. CASE ResumeAssignment \/ ResumePostfix
  BY <1>2, StoresSome
<1>3. CASE VisitBlock \/ Leave \/ ResumeCallExpr
  BY <1>3, ScopesSome
<1>4. CASE ScopeEnds
  BY <1>4, ScopeSome
<1>5. CASE \/ VisitCallExpr \/ ResumeCondition \/ ResumePrintStmt \/ ResumeExprStmt
           \/ ResumeReturnStmt
  BY <1>5, StatementsSome
<1>6. CASE \/ Descend \/ VisitOperands \/ ScopeContinues \/ ResumeFuncExpr
           \/ RegisterBelow \/ RegisterFunction \/ Finish
  <2>1. UNCHANGED <<values, returnStack, scopes>>
    BY <1>6 DEF Descend, VisitOperands, ScopeContinues, ResumeFuncExpr, RegisterBelow,
                RegisterFunction, Finish, Stop, state
  <2> QED
    BY <2>1 DEF NothingNil
<1> QED
  BY <1>1, <1>2, <1>3, <1>4, <1>5, <1>6 DEF Next

\* If every scope has a return among its own statements, as those the parser builds
\* have, every expression has a value: no variable, argument, result or return is the
\* nullptr that evaluateScope starts from.
THEOREM ValuesThere ==
  ASSUME \A n \in Node : EndsWithValue(n)
  PROVE  Spec => [](\A i \in DOMAIN values : values[i] # Nil)
<1> DEFINE SInv == IInv /\ NothingNil /\ LoopsReturn(todo, returnStack)
<1>1. Init /\ IInv => NothingNil /\ LoopsReturn(todo, returnStack)
  <2> SUFFICES ASSUME Init, IInv PROVE NothingNil /\ LoopsReturn(todo, returnStack)
    OBVIOUS
  <2>1. PICK root \in Program : InitWith(root)
    BY DEF Init
  <2>2. /\ todo = <<Visit(root)>> /\ values = <<>> /\ returnStack = <<>>
        /\ scopes = <<Facts!Opened(TRUE)>> /\ root \in Node
    BY <2>1, SameScopes, AstAssumption DEF InitWith
  <2>3. Visit(root) \in Item /\ ~Looping(Visit(root))
    BY <2>2, ItemTypes DEF Looping
  <2>4. LoopsReturn(todo, returnStack)
    <3>1. Fresh(todo)
      BY <2>2, <2>3, FreshSequences
    <3> QED
      BY <3>1, FreshLoops
  <2>5. scopes \in Seq(Facts!Scope(Something))
    <3> DEFINE first == Facts!Opened(TRUE)
               Scope == Facts!Scope(Something)
    <3>1. first \in Scope
      BY Facts!OpenedScope
    <3>2. scopes = <<first>>
      BY <2>2
    <3> HIDE DEF first, Scope
    <3>3. scopes \in Seq(Scope)
      BY <3>1, <3>2
    <3> QED
      BY <3>3 DEF Scope
  <2>6. values = <<>> /\ returnStack = <<>>
    BY <2>2
  <2>7. values \in Seq(Something) /\ returnStack \in Seq(Something)
    BY <2>6
  <2> QED
    BY <2>4, <2>5, <2>7 DEF NothingNil
<1>2. SInv /\ IInv /\ [Next]_vars => NothingNil' /\ LoopsReturn(todo, returnStack)'
  <2> SUFFICES ASSUME SInv, [Next]_vars
               PROVE  NothingNil' /\ LoopsReturn(todo, returnStack)'
    OBVIOUS
  <2>1. CASE UNCHANGED vars
    BY <2>1 DEF vars, NothingNil, LoopsReturn
  <2>2. CASE Next
    <3>1. NothingNil'
      BY <2>2, StepSome
    <3>2. LoopsReturn(todo', returnStack')
      BY <2>2, StepLoops
    <3> QED
      BY <3>1, <3>2 DEF LoopsReturn
  <2> QED
    BY <2>1, <2>2
<1>3. SInv => \A i \in DOMAIN values : values[i] # Nil
  BY DEF NothingNil, Something
<1> QED
  BY <1>1, <1>2, <1>3, Inductive, PTL DEF Spec

=============================================================================
