-------------------------- MODULE TreeWalkerProofs --------------------------
(***************************************************************************)
(* What one step of a walk does to the items still to do: the first one is *)
(* replaced by the items of its visit, the others wait.                    *)
(***************************************************************************)
EXTENDS TreeWalker, TLAPS, FiniteSetTheorems

-----------------------------------------------------------------------------
(***************************************************************************)
(* Nodes and items.                                                        *)
(***************************************************************************)

\* What the parser guarantees of a node.
LEMMA NodeFacts ==
  ASSUME NEW n \in Node
  PROVE  /\ n.kids \in Seq(Node)
         /\ n.kind \in ExprKind \cup StmtKind
         /\ n.name \in Name \cup {NoName}
         /\ n.params \in Seq(Name)
         /\ n.val \in Int
         /\ n.isFunction \in BOOLEAN
         /\ n.op \in Operators
         /\ n.kind \in {"Literal", "Var", "Input", "Null"} => n.kids = <<>>
         /\ n.kind \in {"Grouping", "Assignment", "Unary", "Postfix", "Func",
                        "VarStmt", "Print", "ExprStmt", "Return"}
              => Len(n.kids) = 1
         /\ n.kind \in {"Binary", "While"} => Len(n.kids) = 2
         /\ n.kind = "If" => Len(n.kids) \in {2, 3}
         /\ n.kind = "Func" => n.kids[1].kind = "Scope"
         /\ n.kind \in {"Var", "Assignment", "VarStmt", "Call"} => n.name \in Name
         /\ n.kind = "Binary" => n.op \notin {"++", "--"}
         /\ \A i \in DOMAIN n.kids : n.kids[i] \in Node /\ n.kids[i].kind \in KidKind(n, i)
<1>1. WellFormed(n, Node)
  BY AstAssumption DEF Closed
<1> QED
  BY <1>1 DEF WellFormed

\* The items the visitors make.
LEMMA ItemTypes ==
  ASSUME NEW n \in Node, NEW i \in Nat, NEW b \in BOOLEAN
  PROVE  /\ Visit(n) \in Item /\ Visit(n).phase = "visit" /\ Visit(n).node = n
         /\ Resume(n) \in Item /\ Resume(n).phase = "resume" /\ Resume(n).node = n
         /\ Resume(n).index = 0
         /\ ResumeAt(n, i) \in Item /\ ResumeAt(n, i).phase = "resume"
         /\ ResumeAt(n, i).node = n /\ ResumeAt(n, i).index = i
         /\ Leaving(n) \in Item /\ Leaving(n).phase = "leave"
         /\ Leaving(n).node = n /\ Leaving(n).saved = FALSE
         /\ LeavingWith(n, b) \in Item /\ LeavingWith(n, b).phase = "leave"
         /\ LeavingWith(n, b).node = n /\ LeavingWith(n, b).saved = b
         /\ Register(n) \in Item /\ Register(n).phase = "register"
         /\ Register(n).node = n
BY DEF Visit, Resume, ResumeAt, Leaving, LeavingWith, Register, AnItem, Item, Phases

\* A visit of each node, in order.
LEMMA VisitAllTypes ==
  ASSUME NEW nodes \in Seq(Node)
  PROVE  /\ VisitAll(nodes) \in Seq(Item)
         /\ Len(VisitAll(nodes)) = Len(nodes)
         /\ \A i \in 1..Len(nodes) : VisitAll(nodes)[i] = Visit(nodes[i])
         /\ \A i \in 1..Len(nodes) : VisitAll(nodes)[i].phase = "visit"
<1>1. /\ Len(nodes) \in Nat
      /\ VisitAll(nodes) = [i \in 1..Len(nodes) |-> Visit(nodes[i])]
      /\ \A i \in 1..Len(nodes) : nodes[i] \in Node
  BY DEF VisitAll
<1>2. \A i \in 1..Len(nodes) :
        Visit(nodes[i]) \in Item /\ Visit(nodes[i]).phase = "visit"
  BY <1>1, ItemTypes
<1>3. VisitAll(nodes) \in [1..Len(nodes) -> Item]
  BY <1>1, <1>2
<1> QED
  BY <1>1, <1>2, <1>3

\* FunctionsResolver on each node, in order.
LEMMA RegisterAllTypes ==
  ASSUME NEW nodes \in Seq(Node)
  PROVE  /\ RegisterAll(nodes) \in Seq(Item)
         /\ Len(RegisterAll(nodes)) = Len(nodes)
         /\ \A i \in 1..Len(nodes) : RegisterAll(nodes)[i] = Register(nodes[i])
         /\ \A i \in 1..Len(nodes) : RegisterAll(nodes)[i].phase = "register"
<1>1. /\ Len(nodes) \in Nat
      /\ RegisterAll(nodes) = [i \in 1..Len(nodes) |-> Register(nodes[i])]
      /\ \A i \in 1..Len(nodes) : nodes[i] \in Node
  BY DEF RegisterAll
<1>2. \A i \in 1..Len(nodes) :
        Register(nodes[i]) \in Item /\ Register(nodes[i]).phase = "register"
  BY <1>1, ItemTypes
<1>3. RegisterAll(nodes) \in [1..Len(nodes) -> Item]
  BY <1>1, <1>2
<1> QED
  BY <1>1, <1>2, <1>3

-----------------------------------------------------------------------------
(***************************************************************************)
(* Counting the visits in progress.                                        *)
(***************************************************************************)

\* The items counted.
LeavePlaces(items, a, b) == {q \in a..b : items[q].phase = "leave"}

\* There are finitely many.
LEMMA LeavesFinite ==
  ASSUME NEW items, NEW a \in Int, NEW b \in Int
  PROVE  /\ IsFiniteSet(LeavePlaces(items, a, b))
         /\ LeavesIn(items, a, b) = Cardinality(LeavePlaces(items, a, b))
         /\ LeavesIn(items, a, b) \in Nat
<1>1. IsFiniteSet(a..b)
  BY FS_Interval
<1>2. LeavePlaces(items, a, b) \in SUBSET (a..b)
  BY DEF LeavePlaces
<1>3. IsFiniteSet(LeavePlaces(items, a, b))
  BY <1>1, <1>2, FS_Subset
<1> QED
  BY <1>3, FS_CardinalityType DEF LeavesIn, LeavePlaces

\* Two adjacent stretches are counted one after the other.
LEMMA LeavesSplit ==
  ASSUME NEW items, NEW a \in Int, NEW b \in Int, NEW c \in Int,
         a <= b + 1, b <= c
  PROVE  LeavesIn(items, a, c) = LeavesIn(items, a, b) + LeavesIn(items, b + 1, c)
<1> DEFINE S == LeavePlaces(items, a, b)
           T == LeavePlaces(items, b + 1, c)
<1>1. /\ IsFiniteSet(S) /\ LeavesIn(items, a, b) = Cardinality(S)
      /\ LeavesIn(items, a, b) \in Nat
      /\ IsFiniteSet(T) /\ LeavesIn(items, b + 1, c) = Cardinality(T)
      /\ LeavesIn(items, b + 1, c) \in Nat
      /\ LeavesIn(items, a, c) = Cardinality(LeavePlaces(items, a, c))
  BY LeavesFinite
<1>2. LeavePlaces(items, a, c) = S \cup T /\ S \cap T = {}
  BY DEF LeavePlaces
<1> HIDE DEF S, T
<1>3. Cardinality(S \cup T) = Cardinality(S) + Cardinality(T) - Cardinality({})
  BY <1>1, <1>2, FS_Union
<1> QED
  BY <1>1, <1>2, <1>3, FS_EmptySet

\* A stretch without any.
LEMMA LeavesNone ==
  ASSUME NEW items, NEW a \in Int, NEW b \in Int,
         \A q \in a..b : items[q].phase # "leave"
  PROVE  LeavesIn(items, a, b) = 0
<1>1. LeavePlaces(items, a, b) = {}
  BY DEF LeavePlaces
<1> QED
  BY <1>1, LeavesFinite, FS_EmptySet

\* A single item.
LEMMA LeavesOne ==
  ASSUME NEW items, NEW a \in Int
  PROVE  LeavesIn(items, a, a) = IF items[a].phase = "leave" THEN 1 ELSE 0
<1>1. CASE items[a].phase = "leave"
  <2>1. LeavePlaces(items, a, a) = {a}
    BY <1>1 DEF LeavePlaces
  <2>2. Cardinality({a}) = 1
    BY FS_Singleton
  <2> QED
    BY <1>1, <2>1, <2>2, LeavesFinite
<1>2. CASE items[a].phase # "leave"
  BY <1>2, LeavesNone
<1> QED
  BY <1>1, <1>2

\* t has the items a to b of s, d places further.
SameItems(s, t, a, b, d) == \A q \in a..b : t[q + d].phase = s[q].phase

\* The same items are counted alike wherever they are.
LEMMA LeavesShift ==
  ASSUME NEW s, NEW t, NEW a \in Int, NEW b \in Int, NEW d \in Int,
         SameItems(s, t, a, b, d)
  PROVE  LeavesIn(t, a + d, b + d) = LeavesIn(s, a, b)
<1> DEFINE S == LeavePlaces(s, a, b)
           T == LeavePlaces(t, a + d, b + d)
           f == [q \in S |-> q + d]
<1>1. /\ IsFiniteSet(S) /\ LeavesIn(s, a, b) = Cardinality(S)
      /\ LeavesIn(t, a + d, b + d) = Cardinality(T)
  BY LeavesFinite
<1>2. \A q \in S : q \in Int /\ q + d \in T
  BY DEF LeavePlaces, SameItems
<1>3. \A r \in T : r \in Int /\ r - d \in S /\ (r - d) + d = r
  <2> SUFFICES ASSUME NEW r \in T PROVE r \in Int /\ r - d \in S /\ (r - d) + d = r
    OBVIOUS
  <2>1. r \in Int /\ r - d \in a..b /\ (r - d) + d = r /\ t[r].phase = "leave"
    BY DEF LeavePlaces
  <2> QED
    BY <2>1 DEF LeavePlaces, SameItems
<1> HIDE DEF S, T
<1>4. f \in Bijection(S, T)
  BY <1>2, <1>3 DEF Bijection, Injection, Surjection, IsInjective
<1>5. ExistsBijection(S, T)
  BY <1>4 DEF ExistsBijection
<1>6. Cardinality(T) = Cardinality(S)
  BY <1>1, <1>5, FS_Bijection
<1> QED
  BY <1>1, <1>6

\* Later items wait for more visits to end.
LEMMA LeavesMonotonic ==
  ASSUME NEW items, NEW p \in Nat, NEW q \in Nat, 1 <= p, p <= q
  PROVE  /\ LeavesBefore(items, p) \in Nat
         /\ LeavesBefore(items, q) \in Nat
         /\ LeavesBefore(items, p) <= LeavesBefore(items, q)
<1>1. /\ p - 1 \in Int /\ q - 1 \in Int /\ (p - 1) + 1 = p
      /\ 1 <= (p - 1) + 1 /\ p - 1 <= q - 1
  OBVIOUS
<1>2. LeavesIn(items, 1, q - 1) = LeavesIn(items, 1, p - 1) + LeavesIn(items, p, q - 1)
  BY <1>1, LeavesSplit
<1>3. /\ LeavesIn(items, 1, q - 1) \in Nat
      /\ LeavesIn(items, 1, p - 1) \in Nat
      /\ LeavesIn(items, p, q - 1) \in Nat
  BY <1>1, LeavesFinite
<1> QED
  BY <1>2, <1>3 DEF LeavesBefore

-----------------------------------------------------------------------------
(***************************************************************************)
(* A step of a walk.                                                       *)
(***************************************************************************)

\* The visits that the first item ends, and those that its successors will.
Closing(items) == IF items[1].phase = "leave" THEN 1 ELSE 0
Opening(items) ==
  IF items # <<>> /\ items[Len(items)].phase = "leave" THEN 1 ELSE 0
\* A visit puts the item that ends it last.
OpensLast(items) == \A q \in 1..(Len(items) - 1) : items[q].phase # "leave"

\* The walk goes from old to new by doing the first item.
Walks(old, items, new) ==
  /\ old \in Seq(Item)
  /\ old # <<>>
  /\ items \in Seq(Item)
  /\ OpensLast(items)
  /\ new = items \o Tail(old)

\* The new items come first; the others follow, and each waits for the visits it
\* waited for, less the one that ended, more the one that began.
LEMMA WalkStep ==
  ASSUME NEW old, NEW items, NEW new, Walks(old, items, new)
  PROVE  /\ new \in Seq(Item)
         /\ Len(new) = Len(items) + Len(old) - 1
         /\ \A p \in 1..Len(items) : new[p] = items[p] /\ LeavesBefore(new, p) = 0
         /\ \A j \in 2..Len(old) : new[Len(items) + j - 1] = old[j]
         /\ \A j \in 2..(Len(old) + 1) :
              LeavesBefore(new, Len(items) + j - 1) =
                LeavesBefore(old, j) + Opening(items) - Closing(old)
         /\ LeavesBefore(old, 1) = 0
         /\ \A j \in 2..(Len(old) + 1) :
              LeavesBefore(old, j) \in Nat /\ LeavesBefore(old, j) >= Closing(old)
<1> DEFINE n == Len(items)
<1> USE DEF Walks
<1>1. n \in Nat /\ Len(old) \in Nat /\ Len(old) >= 1
  OBVIOUS
<1>2. /\ Tail(old) \in Seq(Item)
      /\ Len(Tail(old)) = Len(old) - 1
      /\ \A j \in 1..(Len(old) - 1) : Tail(old)[j] = old[j + 1]
  OBVIOUS
<1>3. /\ new \in Seq(Item)
      /\ Len(new) = n + Len(old) - 1
      /\ \A p \in 1..n : new[p] = items[p]
      /\ \A j \in 1..(Len(old) - 1) : new[n + j] = Tail(old)[j]
  BY <1>1, <1>2
<1>4. \A j \in 2..Len(old) : new[n + j - 1] = old[j]
  <2> SUFFICES ASSUME NEW j \in 2..Len(old) PROVE new[n + j - 1] = old[j]
    OBVIOUS
  <2>1. j - 1 \in 1..(Len(old) - 1) /\ n + (j - 1) = n + j - 1 /\ (j - 1) + 1 = j
    BY <1>1
  <2> QED
    BY <2>1, <1>2, <1>3
<1> HIDE DEF n
<1>5. \A p \in 1..n : \A q \in 1..(p - 1) : q \in 1..(n - 1) /\ q \in 1..n
  BY <1>1
<1>6. ASSUME NEW p \in 1..n
      PROVE  LeavesBefore(new, p) = 0
  <2>1. \A q \in 1..(p - 1) : new[q].phase # "leave"
    BY <1>3, <1>5 DEF OpensLast, n
  <2>2. 1 \in Int /\ p - 1 \in Int
    BY <1>1
  <2>3. LeavesIn(new, 1, p - 1) = 0
    BY <2>1, <2>2, LeavesNone, Zenon
  <2> QED
    BY <2>3 DEF LeavesBefore
<1>7. LeavesBefore(old, 1) = 0
  BY LeavesNone DEF LeavesBefore
<1>8. LeavesIn(old, 1, 1) = Closing(old)
  BY LeavesOne DEF Closing
<1>9. LeavesIn(new, 1, n) = Opening(items)
  <2>1. CASE n = 0
    BY <2>1, <1>1, LeavesNone DEF Opening, n
  <2>2. CASE n # 0
    <3>1. /\ n \in 1..n /\ n - 1 \in Int /\ 1 <= (n - 1) + 1 /\ (n - 1) + 1 = n
          /\ n - 1 <= n
      BY <2>2, <1>1
    <3>2. LeavesIn(new, 1, n) = LeavesIn(new, 1, n - 1) + LeavesIn(new, n, n)
      BY <3>1, LeavesSplit
    <3>3. LeavesIn(new, 1, n - 1) = 0
      BY <3>1, <1>6 DEF LeavesBefore
    <3>4. LeavesIn(new, n, n) = IF items[n].phase = "leave" THEN 1 ELSE 0
      <4>1. n \in Int /\ new[n] = items[n]
        BY <3>1, <1>3
      <4>2. LeavesIn(new, n, n) = IF new[n].phase = "leave" THEN 1 ELSE 0
        BY <4>1, LeavesOne
      <4> QED
        BY <4>1, <4>2
    <3>5. items # <<>>
      BY <2>2 DEF n
    <3> QED
      BY <3>2, <3>3, <3>4, <3>5 DEF Opening, n
  <2> QED
    BY <2>1, <2>2
<1>10. ASSUME NEW j \in 2..(Len(old) + 1)
       PROVE  /\ LeavesBefore(new, n + j - 1) =
                   LeavesBefore(old, j) + Opening(items) - Closing(old)
              /\ LeavesBefore(old, j) \in Nat
              /\ LeavesBefore(old, j) >= Closing(old)
  <2>1. /\ j - 1 \in Int /\ n \in Int /\ n - 1 \in Int /\ (n + j - 1) - 1 \in Int
        /\ 1 <= n + 1 /\ n <= (n + j - 1) - 1
        /\ 1 <= 1 + 1 /\ 1 <= j - 1
        /\ n + 1 = 2 + (n - 1) /\ (n + j - 1) - 1 = (j - 1) + (n - 1)
    BY <1>1
  <2>2. LeavesIn(new, 1, (n + j - 1) - 1) =
          LeavesIn(new, 1, n) + LeavesIn(new, n + 1, (n + j - 1) - 1)
    BY <2>1, LeavesSplit
  <2>3. LeavesIn(old, 1, j - 1) = LeavesIn(old, 1, 1) + LeavesIn(old, 2, j - 1)
    <3>1. LeavesIn(old, 1, j - 1) = LeavesIn(old, 1, 1) + LeavesIn(old, 1 + 1, j - 1)
      BY <2>1, LeavesSplit
    <3> QED
      BY <3>1
  <2>4. SameItems(old, new, 2, j - 1, n - 1)
    <3> SUFFICES ASSUME NEW q \in 2..(j - 1)
                 PROVE  new[q + (n - 1)].phase = old[q].phase
      BY DEF SameItems
    <3>1. q \in 2..Len(old) /\ q + (n - 1) = n + q - 1
      BY <1>1
    <3> QED
      BY <3>1, <1>4
  <2>5. LeavesIn(new, 2 + (n - 1), (j - 1) + (n - 1)) = LeavesIn(old, 2, j - 1)
    <3>1. 2 \in Int /\ j - 1 \in Int /\ n - 1 \in Int
      BY <2>1
    <3> QED
      BY <2>4, <3>1, LeavesShift
  <2>6. LeavesIn(new, n + 1, (n + j - 1) - 1) = LeavesIn(old, 2, j - 1)
    BY <2>1, <2>5
  <2>7. LeavesIn(old, 2, j - 1) \in Nat
    BY <2>1, LeavesFinite
  <2>8. Opening(items) \in Nat /\ Closing(old) \in Nat
    BY DEF Opening, Closing
  <2>9. LeavesBefore(new, n + j - 1) = Opening(items) + LeavesIn(old, 2, j - 1)
    BY <2>2, <2>6, <1>9 DEF LeavesBefore
  <2>10. LeavesBefore(old, j) = Closing(old) + LeavesIn(old, 2, j - 1)
    BY <2>3, <1>8 DEF LeavesBefore
  <2> QED
    BY <2>7, <2>8, <2>9, <2>10
<1> QED
  BY <1>3, <1>4, <1>6, <1>7, <1>10 DEF n

-----------------------------------------------------------------------------
(***************************************************************************)
(* The scopes of the items.                                                *)
(***************************************************************************)

\* A scope is opened for the visit that begins, that of the visit that ends is left.
InStep(old, items, s, t) ==
  /\ Len(s) \in Nat
  /\ Len(t) \in Nat
  /\ Len(t) = Len(s) + Opening(items) - Closing(old)

\* An item that waits keeps its scope; the new ones are in the innermost.
LEMMA ScopesOfItems ==
  ASSUME NEW old, NEW items, NEW new, Walks(old, items, new),
         NEW s, NEW t, InStep(old, items, s, t)
  PROVE  /\ \A p \in 1..Len(items) : ScopeOf(new, t, p) = Len(t)
         /\ \A j \in 2..(Len(old) + 1) :
              ScopeOf(new, t, Len(items) + j - 1) = ScopeOf(old, s, j)
         /\ ScopeOf(old, s, 1) = Len(s)
         /\ \A j \in 2..(Len(old) + 1) :
              ScopeOf(old, s, j) <= Len(s) /\ ScopeOf(old, s, j) <= Len(t)
<1>1. Opening(items) \in Nat /\ Closing(old) \in Nat
  BY DEF Opening, Closing
<1>2. \A p \in 1..Len(items) : LeavesBefore(new, p) = 0
  BY WalkStep
<1>3. LeavesBefore(old, 1) = 0
  BY WalkStep
<1>4. \A j \in 2..(Len(old) + 1) :
        /\ LeavesBefore(new, Len(items) + j - 1) =
             LeavesBefore(old, j) + Opening(items) - Closing(old)
        /\ LeavesBefore(old, j) \in Nat
        /\ LeavesBefore(old, j) >= Closing(old)
  BY WalkStep
<1> QED
  BY <1>1, <1>2, <1>3, <1>4 DEF ScopeOf, InStep

\* The first item is in the innermost scope.
LEMMA ScopeOfFirst ==
  ASSUME NEW items, NEW s, Len(s) \in Nat
  PROVE  ScopeOf(items, s, 1) = Len(s)
<1>1. 1 \in Int /\ 0 \in Int /\ 1 - 1 = 0 /\ \A q \in 1..0 : items[q].phase # "leave"
  OBVIOUS
<1>2. LeavesIn(items, 1, 0) = 0
  BY <1>1, LeavesNone
<1> QED
  BY <1>1, <1>2 DEF ScopeOf, LeavesBefore

\* Every place of the new walk is one of the step's items or an old place.
LEMMA WalkPlaces ==
  ASSUME NEW old, NEW items, NEW new, Walks(old, items, new), NEW p \in DOMAIN new
  PROVE  \/ p \in 1..Len(items) /\ new[p] = items[p]
         \/ \E j \in 2..Len(old) : p = Len(items) + j - 1 /\ new[p] = old[j]
<1> USE DEF Walks
<1>1. Len(items) \in Nat /\ Len(old) \in Nat /\ Len(old) >= 1
  OBVIOUS
<1>2. /\ Tail(old) \in Seq(Item)
      /\ Len(Tail(old)) = Len(old) - 1
      /\ \A j \in 1..(Len(old) - 1) : Tail(old)[j] = old[j + 1]
  OBVIOUS
<1>3. /\ DOMAIN new = 1..(Len(items) + Len(old) - 1)
      /\ \A q \in 1..Len(items) : new[q] = items[q]
      /\ \A j \in 1..(Len(old) - 1) : new[Len(items) + j] = Tail(old)[j]
  BY <1>1, <1>2
<1>4. CASE p <= Len(items)
  BY <1>1, <1>3, <1>4
<1>5. CASE p > Len(items)
  <2> DEFINE j == p - Len(items) + 1
  <2>1. /\ j \in 2..Len(old) /\ p = Len(items) + j - 1
        /\ j - 1 \in 1..(Len(old) - 1) /\ (j - 1) + 1 = j
        /\ p = Len(items) + (j - 1)
    BY <1>1, <1>3, <1>5
  <2> HIDE DEF j
  <2>2. new[p] = old[j]
    BY <2>1, <1>2, <1>3
  <2> QED
    BY <2>1, <2>2
<1> QED
  BY <1>1, <1>3, <1>4, <1>5

\* The scopes that stay keep their boundaries, the one opened has the right one.
SameBoundaries(items, s, t, kinds) ==
  /\ \A i \in 1..Len(s) : i <= Len(t) => t[i].global = s[i].global
  /\ Opening(items) = 1 =>
       (t[Len(t)].global <=> items[Len(items)].node.kind \in kinds)

\* Such a step keeps one scope for each visit in progress.
LEMMA NestedStep ==
  ASSUME NEW old, NEW items, NEW new, Walks(old, items, new),
         NEW s, NEW t, InStep(old, items, s, t),
         NEW kinds, ScopesNested(old, s, kinds), SameBoundaries(items, s, t, kinds)
  PROVE  /\ ScopesNested(new, t, kinds)
         /\ \A j \in 2..(Len(old) + 1) :
              ScopeOf(old, s, j) \in 1..Len(s) /\ ScopeOf(old, s, j) \in 1..Len(t)
<1>1. /\ \A p \in 1..Len(items) : ScopeOf(new, t, p) = Len(t)
      /\ \A j \in 2..(Len(old) + 1) :
           ScopeOf(new, t, Len(items) + j - 1) = ScopeOf(old, s, j)
      /\ \A j \in 2..(Len(old) + 1) :
           ScopeOf(old, s, j) <= Len(s) /\ ScopeOf(old, s, j) <= Len(t)
  BY ScopesOfItems
<1>2. /\ Len(items) \in Nat /\ Len(old) \in Nat /\ Len(old) >= 1
      /\ Len(old) + 1 \in 2..(Len(old) + 1)
      /\ Len(items) + (Len(old) + 1) - 1 = (Len(items) + Len(old) - 1) + 1
      /\ Len(s) \in Nat /\ Len(t) \in Nat
  BY DEF Walks, InStep
<1>3. Len(new) = Len(items) + Len(old) - 1
  BY WalkStep
<1>4. ScopeOf(old, s, Len(old) + 1) = 1
  BY DEF ScopesNested
<1>5. ASSUME NEW j \in 2..(Len(old) + 1)
      PROVE  ScopeOf(old, s, j) \in 1..Len(s) /\ ScopeOf(old, s, j) \in 1..Len(t)
  <2>1. /\ LeavesBefore(old, j) \in Nat /\ LeavesBefore(old, Len(old) + 1) \in Nat
        /\ LeavesBefore(old, j) <= LeavesBefore(old, Len(old) + 1)
    BY <1>2, LeavesMonotonic
  <2>2. ScopeOf(old, s, j) \in Int /\ ScopeOf(old, s, j) >= 1
    BY <2>1, <1>4 DEF ScopeOf
  <2> QED
    BY <2>2, <1>1
<1>6. ScopeOf(new, t, Len(new) + 1) = 1
  BY <1>1, <1>2, <1>3, <1>4
<1>7. t[1].global
  <2>1. s[1].global
    BY DEF ScopesNested
  <2>2. 1 \in 1..Len(s) /\ 1 <= Len(t)
    BY <1>2, <1>4, <1>5
  <2> QED
    BY <2>1, <2>2 DEF SameBoundaries
<1>8. ASSUME NEW p \in DOMAIN new, new[p].phase = "leave"
      PROVE  t[ScopeOf(new, t, p)].global <=> new[p].node.kind \in kinds
  <2>1. CASE p \in 1..Len(items) /\ new[p] = items[p]
    <3>1. p = Len(items) /\ items # <<>> /\ items[Len(items)].phase = "leave"
      BY <2>1, <1>2, <1>8 DEF OpensLast, Walks
    <3>2. Opening(items) = 1
      BY <3>1 DEF Opening
    <3> QED
      BY <2>1, <3>1, <3>2, <1>1 DEF SameBoundaries
  <2>2. ASSUME NEW j \in 2..Len(old), p = Len(items) + j - 1, new[p] = old[j]
        PROVE  t[ScopeOf(new, t, p)].global <=> new[p].node.kind \in kinds
    <3>1. j \in 2..(Len(old) + 1) /\ j \in DOMAIN old
      BY <1>2
    <3>2. ScopeOf(new, t, p) = ScopeOf(old, s, j)
      BY <2>2, <3>1, <1>1
    <3>3. s[ScopeOf(old, s, j)].global <=> old[j].node.kind \in kinds
      BY <2>2, <3>1, <1>8 DEF ScopesNested
    <3>4. t[ScopeOf(old, s, j)].global = s[ScopeOf(old, s, j)].global
      <4>1. ScopeOf(old, s, j) \in 1..Len(s) /\ ScopeOf(old, s, j) <= Len(t)
        BY <3>1, <1>5
      <4> QED
        BY <4>1 DEF SameBoundaries
    <3> QED
      BY <2>2, <3>2, <3>3, <3>4
  <2>3. \/ p \in 1..Len(items) /\ new[p] = items[p]
        \/ \E j \in 2..Len(old) : p = Len(items) + j - 1 /\ new[p] = old[j]
    BY WalkPlaces
  <2> QED
    BY <2>1, <2>2, <2>3
<1> QED
  BY <1>5, <1>6, <1>7, <1>8 DEF ScopesNested

\* While a visit waits for its end there is a scope to leave.
LEMMA ScopeToLeave ==
  ASSUME NEW items \in Seq(Item), items # <<>>, items[1].phase = "leave",
         NEW s, Len(s) \in Nat, NEW kinds, ScopesNested(items, s, kinds)
  PROVE  Len(s) > 1
<1>1. Len(items) \in Nat /\ Len(items) >= 1 /\ 1 <= 1 + 1 /\ 1 <= Len(items)
  OBVIOUS
<1>2. LeavesIn(items, 1, Len(items)) = LeavesIn(items, 1, 1) + LeavesIn(items, 2, Len(items))
  <2>1. LeavesIn(items, 1, Len(items)) =
          LeavesIn(items, 1, 1) + LeavesIn(items, 1 + 1, Len(items))
    BY <1>1, LeavesSplit
  <2> QED
    BY <2>1
<1>3. LeavesIn(items, 1, 1) = 1
  BY LeavesOne
<1>4. LeavesIn(items, 2, Len(items)) \in Nat
  BY <1>1, LeavesFinite
<1>5. (Len(items) + 1) - 1 = Len(items)
  BY <1>1
<1>6. Len(s) - LeavesIn(items, 1, Len(items)) = 1
  BY <1>5 DEF ScopesNested, ScopeOf, LeavesBefore
<1> QED
  BY <1>2, <1>3, <1>4, <1>6

-----------------------------------------------------------------------------
(***************************************************************************)
(* The items that one step puts first.                                     *)
(***************************************************************************)

\* No visit is among them that leaves a scope.
Quiet(items) == \A q \in DOMAIN items : items[q].phase # "leave"

\* Then no scope is opened for the step.
LEMMA QuietItems ==
  ASSUME NEW items \in Seq(Item), Quiet(items)
  PROVE  OpensLast(items) /\ Opening(items) = 0
<1>1. Len(items) \in Nat /\ DOMAIN items = 1..Len(items)
  OBVIOUS
<1>2. \A q \in 1..(Len(items) - 1) : q \in 1..Len(items)
  BY <1>1
<1>3. items # <<>> => Len(items) \in 1..Len(items)
  BY <1>1
<1> QED
  BY <1>1, <1>2, <1>3 DEF Quiet, OpensLast, Opening

\* One more item after such items.
EndsWith(all, items, last) ==
  /\ items \in Seq(Item)
  /\ Quiet(items)
  /\ last \in Item
  /\ all = items \o <<last>>

\* Only that one can leave a scope.
LEMMA QuietThen ==
  ASSUME NEW all, NEW items, NEW last, EndsWith(all, items, last)
  PROVE  /\ all \in Seq(Item)
         /\ Len(all) = Len(items) + 1
         /\ OpensLast(all)
         /\ Opening(all) = IF last.phase = "leave" THEN 1 ELSE 0
         /\ all[Len(all)] = last
         /\ \A q \in DOMAIN all :
              q = Len(all) \/ (q \in DOMAIN items /\ all[q] = items[q])
<1> USE DEF EndsWith
<1>1. /\ Len(items) \in Nat
      /\ all \in Seq(Item)
      /\ Len(all) = Len(items) + 1
      /\ DOMAIN all = 1..(Len(items) + 1)
      /\ \A q \in 1..Len(items) : all[q] = items[q]
      /\ all[Len(items) + 1] = last
  OBVIOUS
<1>2. \A q \in 1..Len(items) : items[q].phase # "leave"
  BY DEF Quiet
<1>3. OpensLast(all)
  BY <1>1, <1>2 DEF OpensLast
<1>4. all # <<>>
  BY <1>1
<1>5. Opening(all) = IF last.phase = "leave" THEN 1 ELSE 0
  BY <1>1, <1>4 DEF Opening
<1> QED
  BY <1>1, <1>3, <1>5

\* The sequences the visitors use: nothing, visits, one item.
LEMMA QuietSequences ==
  /\ <<>> \in Seq(Item) /\ Quiet(<<>>)
  /\ \A nodes \in Seq(Node) :
       /\ VisitAll(nodes) \in Seq(Item) /\ Quiet(VisitAll(nodes))
       /\ RegisterAll(nodes) \in Seq(Item) /\ Quiet(RegisterAll(nodes))
  /\ \A item \in Item :
       /\ <<item>> \in Seq(Item)
       /\ item.phase # "leave" => Quiet(<<item>>)
       /\ <<item>> = <<>> \o <<item>>
<1>1. <<>> \in Seq(Item) /\ Quiet(<<>>)
  BY DEF Quiet
<1>2. ASSUME NEW nodes \in Seq(Node)
      PROVE  /\ VisitAll(nodes) \in Seq(Item) /\ Quiet(VisitAll(nodes))
             /\ RegisterAll(nodes) \in Seq(Item) /\ Quiet(RegisterAll(nodes))
  <2>1. /\ VisitAll(nodes) \in Seq(Item)
        /\ \A q \in DOMAIN VisitAll(nodes) : VisitAll(nodes)[q].phase = "visit"
    BY VisitAllTypes
  <2>2. /\ RegisterAll(nodes) \in Seq(Item)
        /\ \A q \in DOMAIN RegisterAll(nodes) : RegisterAll(nodes)[q].phase = "register"
    BY RegisterAllTypes
  <2> QED
    BY <2>1, <2>2 DEF Quiet
<1>3. ASSUME NEW item \in Item
      PROVE  /\ <<item>> \in Seq(Item)
             /\ item.phase # "leave" => Quiet(<<item>>)
             /\ <<item>> = <<>> \o <<item>>
  BY DEF Quiet
<1> QED
  BY <1>1, <1>2, <1>3

\* One item and then another.
LEMMA TwoItems ==
  ASSUME NEW a \in Item, NEW b \in Item
  PROVE  <<a>> \o <<b>> = <<a, b>>
<1> DEFINE one == <<a>>
<1>1. one \in Seq(Item) /\ Len(one) = 1 /\ DOMAIN one = {1} /\ one[1] = a
  OBVIOUS
<1>2. \A last : <<a, last>> = one \o <<last>>
  OBVIOUS
<1> QED
  BY <1>2

-----------------------------------------------------------------------------
(***************************************************************************)
(* The loops of evaluateScope, for the visitors that evaluate.             *)
(***************************************************************************)

Looping(item) == item.phase = "resume" /\ item.node.kind = "Scope"
Returning(item) == item.phase \in {"visit", "resume"} /\ item.node.kind = "Return"

\* Of the statements that a loop has begun only the latest can be a return, and that
\* one is still at work or has left its value on the stack.
LoopsReturn(items, stack) ==
  \A p \in DOMAIN items : Looping(items[p]) =>
    LET n == items[p].node
        i == items[p].index
    IN  /\ \A j \in 1..(i - 1) : n.kids[j].kind # "Return"
        /\ i > 0 /\ n.kids[i].kind = "Return" =>
             IF p = 1 THEN stack # <<>> ELSE Returning(items[p - 1])

\* What may come in the place of the first item of old.
ReturnsOn(old, items, stack) ==
  /\ old \in Seq(Item) /\ old # <<>>
  /\ items \in Seq(Item)
  /\ LoopsReturn(items, stack)
  /\ Returning(old[1]) =>
       IF items = <<>> THEN stack # <<>> ELSE Returning(items[Len(items)])

\* The loops that wait still do.
LEMMA LoopsStep ==
  ASSUME NEW old, NEW items, NEW before, NEW stack,
         LoopsReturn(old, before), ReturnsOn(old, items, stack)
  PROVE  LoopsReturn(items \o Tail(old), stack)
<1> DEFINE new == items \o Tail(old)
           n == Len(items)
<1>1. /\ n \in Nat /\ Len(old) \in Nat /\ Len(old) >= 1
      /\ DOMAIN items = 1..n /\ DOMAIN old = 1..Len(old)
      /\ items = <<>> <=> n = 0
  BY DEF ReturnsOn
<1>2. /\ Tail(old) \in Seq(Item)
      /\ Len(Tail(old)) = Len(old) - 1
      /\ \A j \in 1..(Len(old) - 1) : Tail(old)[j] = old[j + 1]
  BY DEF ReturnsOn
<1>3. /\ DOMAIN new = 1..(n + Len(old) - 1)
      /\ \A q \in 1..n : new[q] = items[q]
      /\ \A j \in 1..(Len(old) - 1) : new[n + j] = Tail(old)[j]
  BY <1>1, <1>2 DEF ReturnsOn
<1> HIDE DEF new, n
<1> SUFFICES ASSUME NEW p \in DOMAIN new, Looping(new[p])
             PROVE  /\ \A j \in 1..(new[p].index - 1) : new[p].node.kids[j].kind # "Return"
                    /\ new[p].index > 0 /\ new[p].node.kids[new[p].index].kind = "Return" =>
                         IF p = 1 THEN stack # <<>> ELSE Returning(new[p - 1])
  BY DEF LoopsReturn, new
<1>4. CASE p <= n
  <2>1. p \in DOMAIN items /\ new[p] = items[p]
    BY <1>1, <1>3, <1>4
  <2>2. p # 1 => new[p - 1] = items[p - 1]
    BY <1>1, <1>3, <1>4
  <2>3. LoopsReturn(items, stack)
    BY DEF ReturnsOn
  <2> QED
    BY <2>1, <2>2, <2>3 DEF LoopsReturn
<1>5. CASE p > n
  <2> DEFINE j == p - n + 1
  <2>1. /\ j \in 2..Len(old) /\ j \in DOMAIN old /\ p = n + (j - 1)
        /\ j - 1 \in 1..(Len(old) - 1) /\ (j - 1) + 1 = j /\ j # 1
    BY <1>1, <1>3, <1>5
  <2> HIDE DEF j
  <2>2. new[p] = old[j]
    BY <1>2, <1>3, <2>1
  <2>3. /\ \A k \in 1..(old[j].index - 1) : old[j].node.kids[k].kind # "Return"
        /\ old[j].index > 0 /\ old[j].node.kids[old[j].index].kind = "Return" =>
             Returning(old[j - 1])
    BY <2>1, <2>2 DEF LoopsReturn
  <2>4. ASSUME Returning(old[j - 1])
        PROVE  IF p = 1 THEN stack # <<>> ELSE Returning(new[p - 1])
    <3>1. CASE j = 2
      <4>1. Returning(old[1]) /\ p = n + 1
        BY <2>1, <2>4, <3>1, <1>1
      <4>2. IF n = 0 THEN stack # <<>> ELSE Returning(items[n])
        BY <4>1, <1>1 DEF ReturnsOn, n
      <4>3. n # 0 => n \in 1..n /\ p - 1 = n /\ p # 1
        BY <4>1, <1>1
      <4> QED
        BY <4>1, <4>2, <4>3, <1>3, <1>1
    <3>2. CASE j # 2
      <4> DEFINE k == j - 2
      <4>1. k \in 1..(Len(old) - 1) /\ p - 1 = n + k /\ k + 1 = j - 1 /\ p # 1
        BY <2>1, <3>2, <1>1
      <4> HIDE DEF k
      <4>2. new[p - 1] = old[j - 1]
        BY <4>1, <1>2, <1>3
      <4> QED
        BY <2>4, <4>1, <4>2
    <3> QED
      BY <3>1, <3>2
  <2> QED
    BY <2>2, <2>3, <2>4
<1> QED
  BY <1>1, <1>3, <1>4, <1>5

\* Items among which no loop has begun a statement.
Fresh(items) ==
  /\ items \in Seq(Item)
  /\ \A q \in DOMAIN items : Looping(items[q]) => items[q].index = 0

LEMMA FreshLoops ==
  ASSUME NEW items, Fresh(items), NEW stack
  PROVE  LoopsReturn(items, stack)
BY DEF Fresh, LoopsReturn

\* Nothing, one item, two of them; one after others; visits.
LEMMA FreshSequences ==
  /\ Fresh(<<>>)
  /\ \A a \in Item : (Looping(a) => a.index = 0) => Fresh(<<a>>)
  /\ \A a \in Item, b \in Item :
       (Looping(a) => a.index = 0) /\ (Looping(b) => b.index = 0) => Fresh(<<a, b>>)
BY DEF Fresh

LEMMA FreshThen ==
  ASSUME NEW items, Fresh(items), NEW last \in Item, Looping(last) => last.index = 0
  PROVE  /\ Fresh(items \o <<last>>)
         /\ items \o <<last>> # <<>>
         /\ (items \o <<last>>)[Len(items \o <<last>>)] = last
<1> DEFINE all == items \o <<last>>
           n == Len(items)
<1>1. /\ all \in Seq(Item) /\ n \in Nat /\ Len(all) = n + 1
      /\ \A q \in 1..n : all[q] = items[q]
      /\ all[n + 1] = last
      /\ DOMAIN all = 1..(n + 1) /\ DOMAIN items = 1..n
  BY DEF Fresh
<1> HIDE DEF all, n
<1>2. ASSUME NEW q \in DOMAIN all, Looping(all[q]) PROVE all[q].index = 0
  BY <1>1, <1>2 DEF Fresh
<1>3. all # <<>> /\ all[Len(all)] = last
  BY <1>1
<1> QED
  BY <1>1, <1>2, <1>3 DEF Fresh, all

LEMMA FreshVisits ==
  ASSUME NEW nodes \in Seq(Node)
  PROVE  Fresh(VisitAll(nodes)) /\ Fresh(RegisterAll(nodes))
<1> DEFINE visits == VisitAll(nodes)
           registers == RegisterAll(nodes)
<1>1. /\ visits \in Seq(Item) /\ DOMAIN visits = 1..Len(nodes)
      /\ \A q \in 1..Len(nodes) : visits[q].phase = "visit"
  BY VisitAllTypes
<1>2. /\ registers \in Seq(Item) /\ DOMAIN registers = 1..Len(nodes)
      /\ \A q \in 1..Len(nodes) : registers[q].phase = "register"
  BY RegisterAllTypes
<1> HIDE DEF visits, registers
<1>3. Fresh(visits) /\ Fresh(registers)
  BY <1>1, <1>2 DEF Fresh, Looping
<1> QED
  BY <1>3 DEF visits, registers

\* The next statement, when the one before has not returned.
LEMMA NextStatement ==
  ASSUME NEW items \in Seq(Item), items # <<>>, NEW stack, LoopsReturn(items, stack),
         Looping(items[1]), items[1].index <= Len(items[1].node.kids),
         items[1].index # Len(items[1].node.kids),
         items[1].index > 0 => stack = <<>>
  PROVE  LoopsReturn(<<Visit(items[1].node.kids[items[1].index + 1]),
                       ResumeAt(items[1].node, items[1].index + 1)>> \o Tail(items), stack)
<1> DEFINE n == items[1].node
           kids == n.kids
           i == items[1].index
           k == i + 1
           first == Visit(kids[k])
           last == ResumeAt(n, k)
           two == <<first, last>>
<1>1. items[1] \in Item /\ 1 \in DOMAIN items
  OBVIOUS
<1>2. n \in Node /\ i \in Nat
  BY <1>1 DEF Item
<1>3. kids \in Seq(Node) /\ i <= Len(kids) /\ i # Len(kids)
  BY <1>2, NodeFacts
<1>4. /\ \A j \in 1..(i - 1) : kids[j].kind # "Return"
      /\ i > 0 /\ kids[i].kind = "Return" => stack # <<>>
  BY <1>1 DEF LoopsReturn
<1>5. i > 0 => stack = <<>>
  OBVIOUS
<1>6. ~Returning(items[1])
  BY DEF Looping, Returning
<1> HIDE DEF n, kids, i
<1>7. k \in Nat /\ k > 0 /\ kids[k] \in Node
  BY <1>2, <1>3
<1>8. \A j \in 1..(k - 1) : kids[j].kind # "Return"
  <2>1. \A j \in 1..(k - 1) : j \in 1..(i - 1) \/ (j = i /\ i > 0)
    BY <1>2
  <2> QED
    BY <2>1, <1>4, <1>5
<1> HIDE DEF k
<1>9. first \in Item /\ first.phase = "visit" /\ first.node = kids[k]
  BY <1>7, ItemTypes
<1>10. last \in Item /\ last.phase = "resume" /\ last.node = n /\ last.index = k
  BY <1>2, <1>7 DEF ResumeAt, AnItem, Item, Phases
<1>11. last.node.kids = kids
  BY <1>10 DEF kids
<1> HIDE DEF first, last
<1>12. /\ two \in Seq(Item) /\ DOMAIN two = 1..2 /\ two[1] = first /\ two[2] = last
       /\ two # <<>>
  BY <1>9, <1>10
<1> HIDE DEF two
<1>13. LoopsReturn(two, stack)
  <2> SUFFICES ASSUME NEW p \in DOMAIN two, Looping(two[p])
               PROVE  /\ \A j \in 1..(two[p].index - 1) :
                           two[p].node.kids[j].kind # "Return"
                      /\ two[p].index > 0
                         /\ two[p].node.kids[two[p].index].kind = "Return" =>
                           IF p = 1 THEN stack # <<>> ELSE Returning(two[p - 1])
    BY DEF LoopsReturn
  <2>1. p = 2 /\ p - 1 = 1
    BY <1>9, <1>12 DEF Looping
  <2>2. two[p] = last /\ two[p - 1] = first
    BY <1>12, <2>1
  <2>3. last.node.kids[last.index].kind = "Return" => Returning(first)
    BY <1>9, <1>10, <1>11 DEF Returning
  <2> QED
    BY <1>8, <1>10, <1>11, <2>1, <2>2, <2>3
<1>14. ReturnsOn(items, two, stack)
  BY <1>6, <1>12, <1>13 DEF ReturnsOn
<1>15. LoopsReturn(two \o Tail(items), stack)
  BY <1>14, LoopsStep
<1> QED
  BY <1>15 DEF two, first, last, k, i, n, kids

\* Every loop that has begun all statements of its scope, one of which returns, finds
\* the value of that one.
LEMMA LoopReturned ==
  ASSUME NEW items \in Seq(Item), items # <<>>, NEW stack, LoopsReturn(items, stack),
         Looping(items[1]), items[1].index = Len(items[1].node.kids),
         EndsWithValue(items[1].node)
  PROVE  items[1].index > 0 /\ stack # <<>>
<1> DEFINE n == items[1].node
           i == items[1].index
<1>1. items[1] \in Item /\ 1 \in DOMAIN items
  OBVIOUS
<1>2. n \in Node /\ i \in Nat
  BY <1>1 DEF Item
<1>3. n.kids \in Seq(Node)
  BY <1>2, NodeFacts
<1>4. PICK j \in DOMAIN n.kids : n.kids[j].kind = "Return"
  BY DEF EndsWithValue, Looping
<1>5. /\ \A k \in 1..(i - 1) : n.kids[k].kind # "Return"
      /\ i > 0 /\ n.kids[i].kind = "Return" => stack # <<>>
  BY <1>1 DEF LoopsReturn
<1>6. i = Len(n.kids)
  OBVIOUS
<1> HIDE DEF n, i
<1>7. j \in 1..i
  BY <1>3, <1>4, <1>6
<1>8. j = i
  BY <1>2, <1>4, <1>5, <1>7
<1> QED
  BY <1>2, <1>4, <1>5, <1>7, <1>8 DEF i

-----------------------------------------------------------------------------
(***************************************************************************)
(* Numbers, for the visitors that compute.                                 *)
(***************************************************************************)

\* Each further bit doubles the number of values.
LEMMA Doubled ==
  ASSUME NEW w \in Nat \ {0}
  PROVE  2^(w - 1) \in Nat \ {0} /\ 2^w = 2 * 2^(w - 1)
<1> DEFINE S == SUBSET (1..(w - 1))
           T == {a \cup {w} : a \in S}
           f == [a \in S |-> a \cup {w}]
<1>1. /\ IsFiniteSet(1..(w - 1)) /\ Cardinality(1..(w - 1)) = w - 1
      /\ IsFiniteSet(1..w) /\ Cardinality(1..w) = w
  <2>1. 1 \in Int /\ w \in Int /\ w - 1 \in Int
    OBVIOUS
  <2> QED
    BY <2>1, FS_Interval
<1>2. IsFiniteSet(S) /\ Cardinality(S) = 2^(w - 1)
  BY <1>1, FS_SUBSET
<1>3. IsFiniteSet(SUBSET (1..w)) /\ Cardinality(SUBSET (1..w)) = 2^w
  BY <1>1, FS_SUBSET
<1>4. \A a \in S : w \notin a
  OBVIOUS
<1>5. SUBSET (1..w) = S \cup T
  <2>1. \A b \in SUBSET (1..w) : w \in b => b \ {w} \in S /\ b = (b \ {w}) \cup {w}
    OBVIOUS
  <2>2. \A b \in SUBSET (1..w) : w \notin b => b \in S
    OBVIOUS
  <2>3. \A a \in S : a \in SUBSET (1..w) /\ a \cup {w} \in SUBSET (1..w)
    OBVIOUS
  <2> HIDE DEF S
  <2>4. ASSUME NEW b \in SUBSET (1..w) PROVE b \in S \cup T
    <3>1. CASE w \in b
      <4>1. b \ {w} \in S /\ b = (b \ {w}) \cup {w}
        BY <2>1, <3>1
      <4>2. b \in T
        BY <4>1, Zenon
      <4> QED
        BY <4>2
    <3>2. CASE w \notin b
      BY <2>2, <3>2
    <3> QED
      BY <3>1, <3>2
  <2>5. ASSUME NEW b \in S \cup T PROVE b \in SUBSET (1..w)
    BY <2>3
  <2> QED
    BY <2>4, <2>5
<1>6. S \cap T = {}
  BY <1>4
<1>7. \A a, b \in S : a \cup {w} = b \cup {w} => a = b
  BY <1>4
<1>8. {} \in S
  OBVIOUS
<1> HIDE DEF S
<1>9. f \in Bijection(S, T)
  <2>1. f \in [S -> T]
    OBVIOUS
  <2>2. IsInjective(f)
    BY <1>7 DEF IsInjective
  <2>3. \A t \in T : \E a \in S : f[a] = t
    OBVIOUS
  <2> HIDE DEF T, f
  <2> QED
    BY <2>1, <2>2, <2>3 DEF Bijection, Injection, Surjection
<1> HIDE DEF T, f
<1>10. IsFiniteSet(T) /\ Cardinality(T) = Cardinality(S)
  BY <1>2, <1>9, FS_Bijection DEF ExistsBijection
<1>11. Cardinality(S \cup T) = Cardinality(S) + Cardinality(T) - Cardinality({})
  BY <1>2, <1>6, <1>10, FS_Union
<1>12. Cardinality(S) \in Nat /\ Cardinality(S) # 0
  BY <1>2, <1>8, FS_CardinalityType, FS_EmptySet
<1>13. Cardinality({}) = 0
  BY FS_EmptySet
<1>14. 2^w = Cardinality(S) + Cardinality(S)
  <2>1. 2^w = Cardinality(S \cup T)
    BY <1>3, <1>5
  <2>2. Cardinality(S \cup T) = Cardinality(S) + Cardinality(S) - 0
    BY <1>10, <1>11, <1>13
  <2>3. Cardinality(S) + Cardinality(S) - 0 = Cardinality(S) + Cardinality(S)
    BY <1>12
  <2> QED
    BY <2>1, <2>2, <2>3, Zenon
<1> HIDE DEF S, T
<1> DEFINE c == Cardinality(S)
<1>15. c \in Nat \ {0} /\ 2 * c = c + c
  BY <1>12
<1> QED
  BY <1>2, <1>14, <1>15

=============================================================================
