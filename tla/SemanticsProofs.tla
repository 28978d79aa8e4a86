-------------------------- MODULE SemanticsProofs --------------------------
(***************************************************************************)
(* The resolver has, at every moment and for every program, one scope for  *)
(* each visit in progress; the scopes it will come back to it leaves alone *)
(* or makes richer.                                                        *)
(***************************************************************************)
EXTENDS Semantics, TreeWalkerProofs

Facts == INSTANCE ScopesProofs

\* The operators of the two instances are the same.
LEMMA SameScopes ==
  /\ \A s, x : Env!contains(s, x) = Facts!contains(s, x)
  /\ \A s, x, v : Env!assign(s, x, v) = Facts!assign(s, x, v)
  /\ \A s, x, v : Env!defineOrAssign(s, x, v) = Facts!defineOrAssign(s, x, v)
  /\ \A s, g : Env!Enter(s, g) = Append(s, Facts!Opened(g))
  /\ \A s : Env!Leave(s) = Facts!Leave(s)
  /\ \A g : Env!Opened(g) = Facts!Opened(g)
  /\ \A V : Env!Scope(V) = Facts!Scope(V)
BY DEF Env!contains, Facts!contains, Env!assign, Facts!assign,
       Env!defineOrAssign, Facts!defineOrAssign, Env!Enter,
       Env!Leave, Facts!Leave, Env!Holders, Facts!Holders, Env!Holder, Facts!Holder,
       Env!Visible, Facts!Visible, Env!Bind, Facts!Bind, Env!Opened, Facts!Opened,
       Env!Empty, Facts!Empty, Env!Scope, Facts!Scope, Env!Objects, Facts!Objects

-----------------------------------------------------------------------------
(***************************************************************************)
(* The inductive invariant.                                                *)
(***************************************************************************)

FuncEnd(item) == item.phase = "leave" /\ item.node.kind = "Func"
FuncFrom(items, p) == \E q \in p..Len(items) : FuncEnd(items[q])

\* What a function visit will restore says whether it is itself inside one.
SavedInFunction ==
  \A p \in DOMAIN todo : FuncEnd(todo[p]) => (todo[p].saved <=> FuncFrom(todo, p + 1))

Defining(item) == item.phase = "resume" /\ item.node.kind \in {"Assignment", "VarStmt"}

\* The name of an initializer in progress is bound where its scope will find it.
BindingsWait ==
  \A p \in DOMAIN todo :
    Defining(todo[p]) =>
      Facts!BoundFrom(scopes, ScopeOf(todo, scopes, p), todo[p].node.name)

IInv == TypeOK /\ ScopesMatchVisits /\ SavedInFunction /\ BindingsWait

-----------------------------------------------------------------------------
(***************************************************************************)
(* What a step does.                                                       *)
(***************************************************************************)

\* The items that follow an old one end the same functions.
LEMMA FuncFromStep ==
  ASSUME NEW old, NEW items, NEW new, Walks(old, items, new),
         NEW j \in 2..(Len(old) + 1)
  PROVE  FuncFrom(new, Len(items) + j - 1) <=> FuncFrom(old, j)
<1>1. Len(items) \in Nat /\ Len(old) \in Nat /\ Len(old) >= 1
  BY DEF Walks
<1>2. /\ Len(new) = Len(items) + Len(old) - 1
      /\ \A k \in 2..Len(old) : new[Len(items) + k - 1] = old[k]
  BY WalkStep
<1>3. ASSUME FuncFrom(old, j)
      PROVE  FuncFrom(new, Len(items) + j - 1)
  <2>1. PICK q \in j..Len(old) : FuncEnd(old[q])
    BY <1>3 DEF FuncFrom
  <2>2. /\ q \in 2..Len(old)
        /\ Len(items) + q - 1 \in (Len(items) + j - 1)..Len(new)
    BY <1>1, <1>2
  <2>3. FuncEnd(new[Len(items) + q - 1])
    BY <2>1, <2>2, <1>2
  <2> QED
    BY <2>2, <2>3 DEF FuncFrom
<1>4. ASSUME FuncFrom(new, Len(items) + j - 1)
      PROVE  FuncFrom(old, j)
  <2>1. PICK r \in (Len(items) + j - 1)..Len(new) : FuncEnd(new[r])
    BY <1>4 DEF FuncFrom
  <2> DEFINE q == r - Len(items) + 1
  <2>2. /\ q \in j..Len(old)
        /\ q \in 2..Len(old)
        /\ Len(items) + q - 1 = r
    BY <1>1, <1>2
  <2> HIDE DEF q
  <2>3. FuncEnd(old[q])
    BY <2>1, <2>2, <1>2
  <2> QED
    BY <2>2, <2>3 DEF FuncFrom
<1> QED
  BY <1>3, <1>4

\* The first item is replaced by items.
Does(items) ==
  /\ Walks(todo, items, todo')
  /\ InStep(todo, items, scopes, scopes')
  /\ SameBoundaries(items, scopes, scopes', {"Func"})
  /\ Facts!Kept(scopes, scopes')
  /\ scopes' \in Seq(Env!Scope(BOOLEAN))
  /\ functions' \subseteq Name
  /\ verdict' = verdict
  /\ inFunction' \in BOOLEAN
  /\ FuncFrom(items, 1) => inFunction' = TRUE
  /\ ~FuncFrom(items, 1) /\ FuncEnd(todo[1]) => inFunction' = todo[1].saved
  /\ ~FuncFrom(items, 1) /\ ~FuncEnd(todo[1]) => inFunction' = inFunction
  /\ FuncFrom(items, 1) => ~FuncEnd(todo[1])
  /\ \A q \in DOMAIN items : FuncEnd(items[q]) => items[q].saved = inFunction
  /\ \A q \in DOMAIN items :
       Defining(items[q]) => Facts!contains(scopes', items[q].node.name)

\* Such a step keeps the invariant.
LEMMA DoesKeeps ==
  ASSUME IInv, program' = program, NEW items, Does(items)
  PROVE  IInv'
<1>1. /\ Walks(todo, items, todo')
      /\ InStep(todo, items, scopes, scopes')
      /\ SameBoundaries(items, scopes, scopes', {"Func"})
      /\ ScopesNested(todo, scopes, {"Func"})
  BY DEF Does, IInv, ScopesMatchVisits
<1>2. /\ ScopesNested(todo', scopes', {"Func"})
      /\ \A j \in 2..(Len(todo) + 1) : /\ ScopeOf(todo, scopes, j) \in 1..Len(scopes)
                                       /\ ScopeOf(todo, scopes, j) \in 1..Len(scopes')
  BY <1>1, NestedStep
<1>3. /\ \A p \in 1..Len(items) : ScopeOf(todo', scopes', p) = Len(scopes')
      /\ \A j \in 2..(Len(todo) + 1) :
           ScopeOf(todo', scopes', Len(items) + j - 1) = ScopeOf(todo, scopes, j)
  BY <1>1, ScopesOfItems
<1>4. /\ todo' \in Seq(Item)
      /\ Len(todo') = Len(items) + Len(todo) - 1
      /\ \A p \in 1..Len(items) : todo'[p] = items[p]
      /\ \A j \in 2..Len(todo) : todo'[Len(items) + j - 1] = todo[j]
  BY <1>1, WalkStep
<1>5. /\ Len(items) \in Nat /\ Len(todo) \in Nat /\ Len(todo) >= 1
      /\ Len(scopes) \in Nat /\ Len(scopes') \in Nat
      /\ DOMAIN todo = 1..Len(todo) /\ DOMAIN items = 1..Len(items)
      /\ DOMAIN todo' = 1..Len(todo')
  BY <1>1, <1>4 DEF Walks, InStep
<1>6. \A j \in 2..(Len(todo) + 1) :
        FuncFrom(todo', Len(items) + j - 1) <=> FuncFrom(todo, j)
  BY <1>1, FuncFromStep
<1>7. TypeOK'
  <2>1. 1 \in 1..Len(scopes')
    BY <1>2, <1>5 DEF IInv, ScopesMatchVisits, ScopesNested
  <2> QED
    BY <2>1, <1>4 DEF TypeOK, IInv, Does
<1>8. FuncFrom(todo, 1) <=> FuncEnd(todo[1]) \/ FuncFrom(todo, 2)
  BY <1>5 DEF FuncFrom
<1>9. FuncFrom(todo', 1) <=> FuncFrom(items, 1) \/ FuncFrom(todo, 2)
  <2>1. FuncFrom(todo', Len(items) + 1) <=> FuncFrom(todo, 2)
    <3>1. 2 \in 2..(Len(todo) + 1) /\ Len(items) + 2 - 1 = Len(items) + 1
      BY <1>5
    <3> QED
      BY <3>1, <1>6
  <2>2. FuncFrom(todo', 1) <=> \/ \E q \in 1..Len(items) : FuncEnd(todo'[q])
                               \/ FuncFrom(todo', Len(items) + 1)
    BY <1>4, <1>5 DEF FuncFrom
  <2>3. FuncFrom(items, 1) <=> \E q \in 1..Len(items) : FuncEnd(todo'[q])
    BY <1>4 DEF FuncFrom
  <2> QED
    BY <2>1, <2>2, <2>3
<1>10. inFunction \in BOOLEAN /\ (inFunction <=> FuncFrom(todo, 1))
  BY <1>5 DEF IInv, ScopesMatchVisits, TypeOK, FuncFrom, FuncEnd
<1>11. FuncEnd(todo[1]) => (todo[1].saved <=> FuncFrom(todo, 2))
  BY <1>5 DEF IInv, SavedInFunction
<1>12. inFunction' <=> FuncFrom(todo', 1)
  BY <1>8, <1>9, <1>10, <1>11 DEF Does
<1>13. ScopesMatchVisits'
  BY <1>2, <1>5, <1>12 DEF ScopesMatchVisits, FuncFrom, FuncEnd
<1>14. SavedInFunction'
  <2> SUFFICES ASSUME NEW p \in DOMAIN todo', FuncEnd(todo'[p])
               PROVE  todo'[p].saved <=> FuncFrom(todo', p + 1)
    BY DEF SavedInFunction
  <2>1. CASE p \in 1..Len(items) /\ todo'[p] = items[p]
    <3>1. p = Len(items)
      BY <2>1, <1>1, <1>5 DEF Walks, OpensLast, FuncEnd
    <3>2. FuncFrom(items, 1) /\ items[p].saved = inFunction
      BY <2>1, <1>5 DEF FuncFrom, Does
    <3>3. ~FuncEnd(todo[1])
      BY <3>2 DEF Does
    <3>4. FuncFrom(todo', p + 1) <=> FuncFrom(todo, 2)
      <4>1. 2 \in 2..(Len(todo) + 1) /\ Len(items) + 2 - 1 = p + 1
        BY <3>1, <1>5
      <4> QED
        BY <4>1, <1>6
    <3> QED
      BY <2>1, <3>2, <3>3, <3>4, <1>8, <1>10
  <2>2. ASSUME NEW j \in 2..Len(todo), p = Len(items) + j - 1, todo'[p] = todo[j]
        PROVE  todo'[p].saved <=> FuncFrom(todo', p + 1)
    <3>1. /\ j \in DOMAIN todo
          /\ j + 1 \in 2..(Len(todo) + 1) /\ Len(items) + (j + 1) - 1 = p + 1
      BY <2>2, <1>5
    <3>2. todo[j].saved <=> FuncFrom(todo, j + 1)
      BY <2>2, <3>1 DEF IInv, SavedInFunction
    <3>3. FuncFrom(todo', p + 1) <=> FuncFrom(todo, j + 1)
      BY <3>1, <1>6
    <3> QED
      BY <2>2, <3>2, <3>3
  <2> QED
    BY <2>1, <2>2, <1>1, WalkPlaces
<1>15. BindingsWait'
  <2> SUFFICES ASSUME NEW p \in DOMAIN todo', Defining(todo'[p])
               PROVE  Facts!BoundFrom(scopes', ScopeOf(todo', scopes', p),
                                      todo'[p].node.name)
    BY DEF BindingsWait
  <2>1. CASE p \in 1..Len(items) /\ todo'[p] = items[p]
    <3>1. ScopeOf(todo', scopes', p) = Len(scopes')
      BY <2>1, <1>3
    <3>2. Facts!contains(scopes', todo'[p].node.name)
      BY <2>1, <1>5 DEF Does
    <3>3. scopes' \in Seq(Facts!Scope(BOOLEAN))
      BY SameScopes DEF Does
    <3> QED
      BY <3>1, <3>2, <3>3, Facts!BoundFromTop
  <2>2. ASSUME NEW j \in 2..Len(todo), p = Len(items) + j - 1, todo'[p] = todo[j]
        PROVE  Facts!BoundFrom(scopes', ScopeOf(todo', scopes', p),
                               todo'[p].node.name)
    <3>1. j \in DOMAIN todo /\ j \in 2..(Len(todo) + 1)
      BY <1>5
    <3>2. ScopeOf(todo', scopes', p) = ScopeOf(todo, scopes, j)
      BY <2>2, <3>1, <1>3
    <3>3. Facts!BoundFrom(scopes, ScopeOf(todo, scopes, j), todo[j].node.name)
      BY <2>2, <3>1 DEF IInv, BindingsWait
    <3>4. /\ ScopeOf(todo, scopes, j) \in 1..Len(scopes)
          /\ ScopeOf(todo, scopes, j) \in 1..Len(scopes')
      BY <3>1, <1>2
    <3>5. todo[j].node.name \in Name
      <4>1. todo[j] \in Item
        BY <3>1 DEF IInv, TypeOK
      <4>2. todo[j].node \in Node
        BY <4>1 DEF Item
      <4>3. todo[j].node.kind \in {"Assignment", "VarStmt"}
        BY <2>2 DEF Defining
      <4> QED
        BY <4>2, <4>3, NodeFacts
    <3>6. Facts!Kept(scopes, scopes')
      BY DEF Does
    <3>7. Facts!BoundFrom(scopes', ScopeOf(todo, scopes, j), todo[j].node.name)
      BY <3>3, <3>4, <3>5, <3>6, <1>5, Facts!BoundStays
    <3> QED
      BY <2>2, <3>2, <3>7
  <2> QED
    BY <2>1, <2>2, <1>1, WalkPlaces
<1> QED
  BY <1>7, <1>13, <1>14, <1>15 DEF IInv

-----------------------------------------------------------------------------
(***************************************************************************)
(* Every action does the first item.                                       *)
(***************************************************************************)

\* What the guard says of the first item.
LEMMA First ==
  ASSUME IInv, NEW phase, NEW kinds, At(phase, kinds)
  PROVE  /\ todo \in Seq(Item) /\ todo # <<>>
         /\ todo[1] \in Item /\ todo[1].phase = phase
         /\ node \in Node /\ node.kind \in kinds /\ node = todo[1].node
         /\ scopes \in Seq(Facts!Scope(BOOLEAN)) /\ scopes # <<>>
         /\ Len(scopes) \in Nat
         /\ inFunction \in BOOLEAN
         /\ functions \subseteq Name
<1>1. todo \in Seq(Item) /\ todo # <<>> /\ todo[1] \in Item
  BY DEF IInv, TypeOK, At
<1>2. todo[1].node \in Node
  BY <1>1 DEF Item
<1>3. scopes \in Seq(Facts!Scope(BOOLEAN)) /\ scopes # <<>>
  BY SameScopes DEF IInv, TypeOK
<1> QED
  BY <1>1, <1>2, <1>3 DEF IInv, TypeOK, At, node

\* The scopes after a step that opens and leaves none.
Stores == scopes' = scopes \/ \E x \in Name, v \in BOOLEAN : Facts!Stored(scopes, scopes', x, v)

LEMMA StoresEffect ==
  ASSUME scopes \in Seq(Facts!Scope(BOOLEAN)), Stores
  PROVE  /\ scopes' \in Seq(Facts!Scope(BOOLEAN))
         /\ Len(scopes') = Len(scopes)
         /\ Facts!Kept(scopes, scopes')
<1>1. CASE scopes' = scopes
  BY <1>1, Facts!KeptByNothing
<1>2. CASE \E x \in Name, v \in BOOLEAN : Facts!Stored(scopes, scopes', x, v)
  <2>1. PICK x \in Name, v \in BOOLEAN : Facts!Stored(scopes, scopes', x, v)
    BY <1>2
  <2> DEFINE Value == BOOLEAN
  <2>2. /\ Absent \notin Value /\ v \in Value
        /\ scopes \in Seq(Facts!Scope(Value))
    BY AbsentNoBoolean
  <2>3. SUFFICES /\ scopes' \in Seq(Facts!Scope(Value))
                 /\ Len(scopes') = Len(scopes)
                 /\ Facts!Kept(scopes, scopes')
    OBVIOUS
  <2> HIDE DEF Value
  <2> QED
    BY <2>1, <2>2, Facts!KeptByStore
<1> QED
  BY <1>1, <1>2 DEF Stores

\* A visit that begins no scope of its own, or the rest of one.
LEMMA QuietDoes ==
  ASSUME IInv, NEW phase, NEW kinds, At(phase, kinds), phase # "leave",
         NEW items \in Seq(Item), Quiet(items), Continue(items),
         Stores, UNCHANGED <<functions, inFunction, verdict>>,
         \A q \in DOMAIN items :
           Defining(items[q]) => Facts!contains(scopes', items[q].node.name)
  PROVE  Does(items)
<1>1. /\ todo \in Seq(Item) /\ todo # <<>> /\ todo[1].phase = phase
      /\ scopes \in Seq(Facts!Scope(BOOLEAN)) /\ Len(scopes) \in Nat
      /\ inFunction \in BOOLEAN /\ functions \subseteq Name
  BY First
<1>2. OpensLast(items) /\ Opening(items) = 0 /\ Closing(todo) = 0
  BY <1>1, QuietItems DEF Closing
<1>3. Walks(todo, items, todo')
  BY <1>1, <1>2 DEF Walks, Continue
<1>4. /\ scopes' \in Seq(Facts!Scope(BOOLEAN))
      /\ Len(scopes') = Len(scopes)
      /\ Facts!Kept(scopes, scopes')
  BY <1>1, StoresEffect
<1>5. InStep(todo, items, scopes, scopes')
  BY <1>1, <1>2, <1>4 DEF InStep
<1>6. SameBoundaries(items, scopes, scopes', {"Func"})
  BY <1>2, <1>4 DEF SameBoundaries, Facts!Kept
<1>7. \A q \in DOMAIN items : ~FuncEnd(items[q])
  BY DEF Quiet, FuncEnd
<1>8. ~FuncFrom(items, 1) /\ ~FuncEnd(todo[1])
  BY <1>1, <1>7 DEF FuncFrom, FuncEnd
<1>9. scopes' \in Seq(Env!Scope(BOOLEAN))
  BY <1>4, SameScopes
<1> QED
  BY <1>1, <1>3, <1>4, <1>5, <1>6, <1>7, <1>8, <1>9 DEF Does

\* Sequences of visits define nothing.
LEMMA VisitsDefineNothing ==
  ASSUME NEW nodes \in Seq(Node)
  PROVE  \A q \in DOMAIN VisitAll(nodes) : ~Defining(VisitAll(nodes)[q])
BY VisitAllTypes DEF Defining

\* A visit that begins with a scope of its own.
LEMMA EnterDoes ==
  ASSUME IInv, NEW kinds, At("visit", kinds),
         NEW last \in Item, last.phase = "leave", last.node = node,
         FuncEnd(last) => last.saved = inFunction,
         NEW scope \in Facts!Scope(BOOLEAN), scope.global <=> node.kind = "Func",
         scopes' = Append(scopes, scope),
         Continue(VisitAll(node.kids) \o <<last>>),
         functions' \subseteq Name, verdict' = verdict,
         inFunction' = IF node.kind = "Func" THEN TRUE ELSE inFunction
  PROVE  Does(VisitAll(node.kids) \o <<last>>)
<1> DEFINE visits == VisitAll(node.kids)
           items == visits \o <<last>>
<1>1. /\ todo \in Seq(Item) /\ todo # <<>> /\ todo[1].phase = "visit"
      /\ scopes \in Seq(Facts!Scope(BOOLEAN)) /\ Len(scopes) \in Nat
      /\ inFunction \in BOOLEAN /\ node \in Node
  BY First
<1>2. node.kids \in Seq(Node)
  BY <1>1, NodeFacts
<1>3. visits \in Seq(Item) /\ Quiet(visits)
  BY <1>2, QuietSequences
<1>16. EndsWith(items, visits, last)
  BY <1>3 DEF EndsWith
<1> HIDE DEF visits, items
<1>4. /\ items \in Seq(Item)
      /\ Len(items) \in Nat /\ Len(items) >= 1
      /\ OpensLast(items)
      /\ Opening(items) = 1
      /\ items[Len(items)] = last
      /\ \A q \in DOMAIN items :
           \/ q = Len(items)
           \/ q \in DOMAIN visits /\ items[q] = visits[q]
  <2>1. Len(visits) \in Nat
    BY <1>3
  <2>2. /\ items \in Seq(Item)
        /\ Len(items) = Len(visits) + 1
        /\ OpensLast(items)
        /\ Opening(items) = IF last.phase = "leave" THEN 1 ELSE 0
        /\ items[Len(items)] = last
        /\ \A q \in DOMAIN items :
             q = Len(items) \/ (q \in DOMAIN visits /\ items[q] = visits[q])
    BY <1>16, QuietThen
  <2> QED
    BY <2>1, <2>2
<1>5. Closing(todo) = 0
  BY <1>1 DEF Closing
<1>6. Walks(todo, items, todo')
  BY <1>1, <1>4 DEF Walks, Continue, items, visits
<1>7. /\ scopes' \in Seq(Facts!Scope(BOOLEAN))
      /\ Len(scopes') = Len(scopes) + 1
      /\ \A j \in 1..Len(scopes) : scopes'[j] = scopes[j]
      /\ scopes'[Len(scopes) + 1] = scope
  BY <1>1
<1>8. Facts!Kept(scopes, scopes')
  BY <1>1, Facts!KeptByEnter
<1>9. InStep(todo, items, scopes, scopes')
  BY <1>1, <1>4, <1>5, <1>7 DEF InStep
<1>10. SameBoundaries(items, scopes, scopes', {"Func"})
  BY <1>4, <1>7 DEF SameBoundaries
<1>11. \A q \in DOMAIN items :
        /\ FuncEnd(items[q]) => items[q] = last
        /\ ~Defining(items[q])
  <2> SUFFICES ASSUME NEW q \in DOMAIN items
               PROVE  (FuncEnd(items[q]) => items[q] = last) /\ ~Defining(items[q])
    OBVIOUS
  <2>1. CASE q = Len(items)
    BY <2>1, <1>4 DEF Defining
  <2>2. CASE q \in DOMAIN visits /\ items[q] = visits[q]
    <3>1. ~FuncEnd(items[q])
      BY <2>2, <1>3 DEF Quiet, FuncEnd
    <3>2. ~Defining(items[q])
      BY <2>2, <1>2, VisitsDefineNothing DEF visits
    <3> QED
      BY <3>1, <3>2
  <2> QED
    BY <2>1, <2>2, <1>4
<1>12. FuncFrom(items, 1) <=> node.kind = "Func"
  <2>1. DOMAIN items = 1..Len(items) /\ Len(items) \in 1..Len(items)
    BY <1>4
  <2>2. FuncEnd(last) <=> node.kind = "Func"
    BY DEF FuncEnd
  <2> QED
    BY <2>1, <2>2, <1>4, <1>11 DEF FuncFrom
<1>13. ~FuncEnd(todo[1])
  BY <1>1 DEF FuncEnd
<1>14. scopes' \in Seq(Env!Scope(BOOLEAN))
  BY <1>7, SameScopes
<1>15. inFunction' \in BOOLEAN
  BY <1>1
<1> QED
  BY <1>6, <1>8, <1>9, <1>10, <1>11, <1>12, <1>13, <1>14, <1>15 DEF Does, items, visits

\* The end of such a visit.
LEMMA LeaveDoes ==
  ASSUME IInv, NEW kinds, At("leave", kinds), Continue(<<>>),
         scopes' = Env!Leave(scopes), UNCHANGED <<functions, verdict>>,
         inFunction' = IF node.kind = "Func" THEN todo[1].saved ELSE inFunction
  PROVE  Does(<<>>)
<1>1. /\ todo \in Seq(Item) /\ todo # <<>>
      /\ todo[1] \in Item /\ todo[1].phase = "leave" /\ node = todo[1].node
      /\ scopes \in Seq(Facts!Scope(BOOLEAN)) /\ Len(scopes) \in Nat
      /\ inFunction \in BOOLEAN /\ functions \subseteq Name
  BY First
<1>2. <<>> \in Seq(Item) /\ OpensLast(<<>>) /\ Opening(<<>>) = 0 /\ Closing(todo) = 1
  BY <1>1, QuietSequences, QuietItems DEF Closing
<1>3. Walks(todo, <<>>, todo')
  BY <1>1, <1>2 DEF Walks, Continue
<1>4. Len(scopes) > 1
  BY <1>1, ScopeToLeave DEF IInv, ScopesMatchVisits
<1>5. scopes' = Facts!Leave(scopes)
  BY SameScopes
<1>6. /\ scopes' \in Seq(Facts!Scope(BOOLEAN))
      /\ Len(scopes') = Len(scopes) - 1
      /\ Facts!Kept(scopes, scopes')
  BY <1>1, <1>4, <1>5, Facts!LeaveEffect, Facts!KeptByLeave
<1>7. InStep(todo, <<>>, scopes, scopes')
  BY <1>1, <1>2, <1>4, <1>6 DEF InStep
<1>8. SameBoundaries(<<>>, scopes, scopes', {"Func"})
  BY <1>2, <1>6 DEF SameBoundaries, Facts!Kept
<1>9. ~FuncFrom(<<>>, 1) /\ (FuncEnd(todo[1]) <=> node.kind = "Func")
  BY <1>1 DEF FuncFrom, FuncEnd
<1>10. todo[1].saved \in BOOLEAN
  BY <1>1 DEF Item
<1>11. scopes' \in Seq(Env!Scope(BOOLEAN))
  BY <1>6, SameScopes
<1> QED
  BY <1>1, <1>3, <1>6, <1>7, <1>8, <1>9, <1>10, <1>11 DEF Does

\* The visit of an assignment or a definition makes sure that the name is bound.
LEMMA DefinedEffect ==
  ASSUME IInv, At("visit", {"Assignment", "VarStmt"}), scopes' = Defined
  PROVE  Stores /\ Facts!contains(scopes', node.name)
<1>1. /\ scopes \in Seq(Facts!Scope(BOOLEAN)) /\ scopes # <<>>
      /\ node \in Node /\ node.kind \in {"Assignment", "VarStmt"}
  BY First
<1>2. node.name \in Name
  BY <1>1, NodeFacts
<1>3. CASE Facts!contains(scopes, node.name)
  <2>1. scopes' = scopes
    BY <1>3, SameScopes DEF Defined
  <2> QED
    BY <1>3, <2>1 DEF Stores
<1>4. CASE ~Facts!contains(scopes, node.name)
  <2>1. scopes' = Facts!defineOrAssign(scopes, node.name, FALSE)
    BY <1>4, SameScopes DEF Defined
  <2>2. Facts!Stored(scopes, scopes', node.name, FALSE)
    BY <1>1, <1>2, <2>1, Facts!DefineStores
  <2> DEFINE Value == BOOLEAN
  <2>3. Absent \notin Value /\ FALSE \in Value /\ scopes \in Seq(Facts!Scope(Value))
    BY <1>1, AbsentNoBoolean
  <2> HIDE DEF Value
  <2>4. Facts!contains(scopes', node.name)
    BY <1>2, <2>2, <2>3, Facts!KeptByStore
  <2> QED
    BY <1>2, <2>2, <2>4 DEF Stores
<1> QED
  BY <1>3, <1>4

\* The name of the initializer that ends is bound.
LEMMA StillBound == IInv => InitializerStillBound
<1> SUFFICES ASSUME IInv, At("resume", {"Assignment", "VarStmt"})
             PROVE  Env!contains(scopes, node.name)
  BY DEF InitializerStillBound
<1>1. /\ todo \in Seq(Item) /\ todo # <<>> /\ todo[1].phase = "resume"
      /\ todo[1].node.kind \in {"Assignment", "VarStmt"} /\ node = todo[1].node
      /\ scopes \in Seq(Facts!Scope(BOOLEAN)) /\ Len(scopes) \in Nat
  BY First
<1>2. 1 \in DOMAIN todo /\ Defining(todo[1])
  BY <1>1 DEF Defining
<1>3. Facts!BoundFrom(scopes, ScopeOf(todo, scopes, 1), node.name)
  BY <1>1, <1>2 DEF IInv, BindingsWait
<1>4. ScopeOf(todo, scopes, 1) = Len(scopes)
  BY <1>1, ScopeOfFirst
<1> QED
  BY <1>1, <1>3, <1>4, Facts!BoundFromTop, SameScopes

\* assign finds it and stores there.
LEMMA AssignedEffect ==
  ASSUME IInv, ResumeAssignment
  PROVE  Stores
<1>1. /\ scopes \in Seq(Facts!Scope(BOOLEAN))
      /\ node \in Node /\ node.kind \in {"Assignment", "VarStmt"}
  BY First DEF ResumeAssignment
<1>2. node.name \in Name
  BY <1>1, NodeFacts
<1>3. Facts!contains(scopes, node.name)
  BY StillBound, SameScopes DEF ResumeAssignment, InitializerStillBound
<1>4. scopes' = Facts!assign(scopes, node.name, TRUE)
  BY SameScopes DEF ResumeAssignment
<1>5. Facts!Stored(scopes, scopes', node.name, TRUE)
  BY <1>1, <1>2, <1>3, <1>4, Facts!AssignStores
<1> QED
  BY <1>2, <1>5 DEF Stores

\* Visits of the kids.
LEMMA KidsDo ==
  ASSUME IInv, NEW kinds, At("visit", kinds), Continue(VisitAll(node.kids)),
         UNCHANGED <<scopes, functions, inFunction, verdict>>
  PROVE  \E items : Does(items)
<1>1. node.kids \in Seq(Node)
  BY First, NodeFacts
<1>2. /\ VisitAll(node.kids) \in Seq(Item) /\ Quiet(VisitAll(node.kids))
      /\ \A q \in DOMAIN VisitAll(node.kids) : ~Defining(VisitAll(node.kids)[q])
  BY <1>1, QuietSequences, VisitsDefineNothing
<1>3. Stores
  BY DEF Stores
<1>4. Does(VisitAll(node.kids))
  BY <1>2, <1>3, QuietDoes
<1> QED
  BY <1>4

\* Nothing to add.
LEMMA NothingDoes ==
  ASSUME IInv, NEW phase, NEW kinds, At(phase, kinds), phase # "leave",
         Continue(<<>>), Stores, UNCHANGED <<functions, inFunction, verdict>>
  PROVE  \E items : Does(items)
<1>1. /\ <<>> \in Seq(Item) /\ Quiet(<<>>)
      /\ \A q \in DOMAIN <<>> : ~Defining(<<>>[q])
  BY QuietSequences
<1>2. Does(<<>>)
  BY <1>1, QuietDoes
<1> QED
  BY <1>2

\* Visiting twice visits the same.
LEMMA ConcatOf ==
  ASSUME NEW items \in Seq(Item)
  PROVE  /\ items \o items \in Seq(Item)
         /\ \A q \in DOMAIN (items \o items) :
              \E r \in DOMAIN items : (items \o items)[q] = items[r]
<1>1. /\ Len(items) \in Nat /\ items \o items \in Seq(Item)
      /\ DOMAIN (items \o items) = 1..(Len(items) + Len(items))
      /\ DOMAIN items = 1..Len(items)
      /\ \A q \in 1..(Len(items) + Len(items)) :
           (items \o items)[q] = IF q <= Len(items) THEN items[q]
                                                   ELSE items[q - Len(items)]
  OBVIOUS
<1>2. ASSUME NEW q \in 1..(Len(items) + Len(items))
      PROVE  \E r \in 1..Len(items) : (items \o items)[q] = items[r]
  <2>1. CASE q <= Len(items)
    BY <2>1, <1>1
  <2>2. CASE q > Len(items)
    <3>1. q - Len(items) \in 1..Len(items) /\ ~(q <= Len(items))
      BY <2>2, <1>1
    <3> QED
      BY <3>1, <1>1
  <2> QED
    BY <2>1, <2>2, <1>1
<1> QED
  BY <1>1, <1>2

\* The walk ends where it is.
Stopped ==
  /\ verdict' \in {Accepted} \cup Errors
  /\ UNCHANGED <<todo, scopes, functions, inFunction>>

LEMMA RejectStops ==
  ASSUME NEW error \in Errors, Reject(error)
  PROVE  Stopped
BY DEF Reject, Stopped

\* One step of the resolver.
LEMMA StepEffect ==
  ASSUME IInv, Next
  PROVE  Stopped \/ \E items : Does(items)
<1>1. CASE Descend
  BY <1>1, KidsDo DEF Descend
<1>2. CASE VisitVarExpr
  <2>1. CASE VarError # Running
    <3>1. VarError \in Errors /\ Reject(VarError)
      BY <1>2, <2>1 DEF VisitVarExpr, VarError, Errors
    <3> QED
      BY <3>1, RejectStops
  <2>2. CASE VarError = Running
    BY <1>2, <2>2, NothingDoes DEF VisitVarExpr, Stores
  <2> QED
    BY <2>1, <2>2
<1>3. CASE VisitAssignment
  <2> DEFINE visits == VisitAll(node.kids)
             items == visits \o <<Resume(node)>>
  <2>1. At("visit", {"Assignment", "VarStmt"}) /\ Continue(items)
    BY <1>3 DEF VisitAssignment
  <2>2. Stores /\ Facts!contains(scopes', node.name)
    BY <1>3, <2>1, DefinedEffect DEF VisitAssignment
  <2>3. node \in Node /\ node.kids \in Seq(Node)
    BY <2>1, First, NodeFacts
  <2>4. /\ Resume(node) \in Item /\ Resume(node).phase = "resume"
        /\ Resume(node).node = node
    BY <2>3, ItemTypes
  <2>5. EndsWith(items, visits, Resume(node))
    BY <2>3, <2>4, QuietSequences DEF EndsWith
  <2>6. \A q \in DOMAIN visits : ~Defining(visits[q]) /\ visits[q].phase # "leave"
    BY <2>3, VisitsDefineNothing, QuietSequences DEF Quiet
  <2> HIDE DEF visits, items
  <2>7. /\ items \in Seq(Item)
        /\ items[Len(items)] = Resume(node)
        /\ \A q \in DOMAIN items :
             q = Len(items) \/ (q \in DOMAIN visits /\ items[q] = visits[q])
    BY <2>5, QuietThen
  <2>8. Quiet(items)
    BY <2>4, <2>6, <2>7 DEF Quiet
  <2>9. \A q \in DOMAIN items :
          Defining(items[q]) => Facts!contains(scopes', items[q].node.name)
    BY <2>2, <2>4, <2>6, <2>7
  <2>10. UNCHANGED <<functions, inFunction, verdict>>
    BY <1>3 DEF VisitAssignment
  <2> QED
    BY <2>1, <2>2, <2>7, <2>8, <2>9, <2>10, QuietDoes
<1>4. CASE ResumeAssignment
  BY <1>4, AssignedEffect, NothingDoes DEF ResumeAssignment
<1>5. CASE VisitPostfixExpr
  <2>1. CASE node.kids[1].kind \notin {"Var", "Assignment"}
    BY <1>5, <2>1, RejectStops DEF VisitPostfixExpr, Errors
  <2>2. CASE node.kids[1].kind \in {"Var", "Assignment"}
    BY <1>5, <2>2, KidsDo DEF VisitPostfixExpr
  <2> QED
    BY <2>1, <2>2
<1>6. CASE VisitBlock
  <2>1. /\ node \in Node /\ node.kind \in {"Scope", "Block"}
        /\ functions \subseteq Name
    BY <1>6, First DEF VisitBlock
  <2>2. /\ Leaving(node) \in Item /\ Leaving(node).phase = "leave"
        /\ Leaving(node).node = node
    BY <2>1, ItemTypes
  <2>3. ~FuncEnd(Leaving(node))
    BY <2>1, <2>2 DEF FuncEnd
  <2>4. /\ Facts!Opened(FALSE) \in Facts!Scope(BOOLEAN)
        /\ Facts!Opened(FALSE).global = FALSE
        /\ scopes' = Append(scopes, Facts!Opened(FALSE))
    BY <1>6, SameScopes, Facts!OpenedScope DEF VisitBlock, Facts!Opened
  <2>5. /\ functions' \subseteq Name /\ verdict' = verdict
        /\ inFunction' = IF node.kind = "Func" THEN TRUE ELSE inFunction
        /\ Continue(VisitAll(node.kids) \o <<Leaving(node)>>)
        /\ At("visit", {"Scope", "Block"})
    BY <1>6, <2>1 DEF VisitBlock
  <2>6. Facts!Opened(FALSE).global <=> node.kind = "Func"
    BY <2>1, <2>4
  <2> QED
    BY <2>2, <2>3, <2>4, <2>5, <2>6, EnterDoes
<1>7. CASE LeaveBlock
  <2>1. /\ At("leave", {"Scope", "Block"}) /\ Continue(<<>>)
        /\ scopes' = Env!Leave(scopes) /\ UNCHANGED <<functions, verdict>>
        /\ inFunction' = inFunction
    BY <1>7 DEF LeaveBlock
  <2>2. node.kind # "Func"
    BY <2>1, First
  <2> QED
    BY <2>1, <2>2, LeaveDoes
<1>8. CASE VisitFuncExpr
  <2>1. /\ node \in Node /\ node.kind = "Func"
        /\ functions \subseteq Name /\ inFunction \in BOOLEAN
    BY <1>8, First DEF VisitFuncExpr
  <2> DEFINE last == LeavingWith(node, inFunction)
  <2>2. /\ last \in Item /\ last.phase = "leave" /\ last.node = node
        /\ last.saved = inFunction
    BY <2>1 DEF LeavingWith, AnItem, Item, Phases
  <2>3. /\ FunctionScope \in Facts!Scope(BOOLEAN)
        /\ FunctionScope.global = TRUE
    BY DEF FunctionScope, Bound, Facts!Scope, Facts!Objects
  <2>4. Declared \subseteq Name
    BY <2>1, NodeFacts DEF Declared
  <2>5. /\ functions' \subseteq Name /\ verdict' = verdict
        /\ inFunction' = IF node.kind = "Func" THEN TRUE ELSE inFunction
        /\ Continue(VisitAll(node.kids) \o <<last>>)
        /\ At("visit", {"Func"})
        /\ scopes' = Append(scopes, FunctionScope)
    BY <1>8, <2>1, <2>4 DEF VisitFuncExpr
  <2> HIDE DEF last
  <2>6. FunctionScope.global <=> node.kind = "Func"
    BY <2>1, <2>3
  <2> QED
    BY <2>2, <2>3, <2>5, <2>6, EnterDoes
<1>9. CASE LeaveFuncExpr
  <2>1. /\ At("leave", {"Func"}) /\ Continue(<<>>)
        /\ scopes' = Env!Leave(scopes) /\ UNCHANGED <<functions, verdict>>
        /\ inFunction' = todo[1].saved
    BY <1>9 DEF LeaveFuncExpr
  <2>2. node.kind = "Func"
    BY <2>1, First
  <2> QED
    BY <2>1, <2>2, LeaveDoes
<1>10. CASE VisitCallExpr
  <2>1. CASE node.name \notin functions /\ ~Env!contains(scopes, node.name)
    BY <1>10, <2>1, RejectStops DEF VisitCallExpr, Errors
  <2>2. CASE ~(node.name \notin functions /\ ~Env!contains(scopes, node.name))
    BY <1>10, <2>2, KidsDo DEF VisitCallExpr
  <2> QED
    BY <2>1, <2>2
<1>11. CASE VisitReturnStmt
  <2>1. CASE ~inFunction /\ node.isFunction
    BY <1>11, <2>1, RejectStops DEF VisitReturnStmt, Errors
  <2>2. CASE ~(~inFunction /\ node.isFunction)
    <3> DEFINE visits == VisitAll(node.kids)
    <3>1. /\ At("visit", {"Return"}) /\ Continue(visits \o visits)
          /\ UNCHANGED <<scopes, functions, inFunction, verdict>>
      BY <1>11, <2>2 DEF VisitReturnStmt
    <3>2. node.kids \in Seq(Node)
      BY <3>1, First, NodeFacts
    <3>3. /\ visits \in Seq(Item)
          /\ \A q \in DOMAIN visits : ~Defining(visits[q]) /\ visits[q].phase # "leave"
      BY <3>2, VisitsDefineNothing, QuietSequences DEF Quiet
    <3> HIDE DEF visits
    <3>4. /\ visits \o visits \in Seq(Item)
          /\ \A q \in DOMAIN (visits \o visits) :
               \E r \in DOMAIN visits : (visits \o visits)[q] = visits[r]
      BY <3>3, ConcatOf
    <3>5. /\ Quiet(visits \o visits)
          /\ \A q \in DOMAIN (visits \o visits) : ~Defining((visits \o visits)[q])
      BY <3>3, <3>4 DEF Quiet
    <3> QED
      BY <3>1, <3>4, <3>5, QuietDoes DEF Stores
  <2> QED
    BY <2>1, <2>2
<1>12. CASE Finish
  BY <1>12 DEF Finish, Stopped
<1> QED
  BY <1>1, <1>2, <1>3, <1>4, <1>5, <1>6, <1>7, <1>8, <1>9, <1>10, <1>11, <1>12 DEF Next

-----------------------------------------------------------------------------
(***************************************************************************)
(* Theorems.                                                               *)
(***************************************************************************)

\* Init and every step keep the invariant.
LEMMA Inductive == Spec => []IInv
<1>1. Init => IInv
  <2> SUFFICES ASSUME Init PROVE IInv
    OBVIOUS
  <2>1. PICK root \in Program : InitWith(root)
    BY DEF Init
  <2>2. /\ root \in Node /\ program = root
        /\ todo = <<Visit(root)>> /\ scopes = <<Facts!Opened(TRUE)>>
        /\ functions = {} /\ inFunction = FALSE /\ verdict = Running
    BY <2>1, AstAssumption, SameScopes DEF InitWith
  <2>3. Visit(root) \in Item /\ Visit(root).phase = "visit"
    BY <2>2, ItemTypes
  <2>4. Facts!Opened(TRUE) \in Facts!Scope(BOOLEAN) /\ Facts!Opened(TRUE).global = TRUE
    BY Facts!OpenedScope DEF Facts!Opened
  <2>5. /\ todo \in Seq(Item) /\ Len(todo) = 1 /\ DOMAIN todo = {1}
        /\ todo[1].phase = "visit"
    BY <2>2, <2>3
  <2>6. /\ scopes \in Seq(Facts!Scope(BOOLEAN)) /\ Len(scopes) = 1
        /\ scopes[1].global = TRUE
    <3> DEFINE first == Facts!Opened(TRUE)
               Scope == Facts!Scope(BOOLEAN)
    <3>1. scopes = <<first>> /\ first \in Scope /\ first.global = TRUE
      BY <2>2, <2>4
    <3> HIDE DEF first, Scope
    <3>2. scopes \in Seq(Scope) /\ Len(scopes) = 1 /\ scopes[1] = first
      BY <3>1
    <3> QED
      BY <3>1, <3>2 DEF Scope
  <2>7. TypeOK
    BY <2>1, <2>2, <2>5, <2>6, SameScopes DEF TypeOK
  <2>8. ScopeOf(todo, scopes, Len(todo) + 1) = 1
    <3>1. LeavesIn(todo, 1, 1) = 0
      BY <2>5, LeavesOne
    <3> QED
      BY <3>1, <2>5, <2>6 DEF ScopeOf, LeavesBefore
  <2>9. ScopesMatchVisits
    BY <2>2, <2>5, <2>6, <2>8 DEF ScopesMatchVisits, ScopesNested
  <2>10. SavedInFunction /\ BindingsWait
    BY <2>5 DEF SavedInFunction, BindingsWait, FuncEnd, Defining
  <2> QED
    BY <2>7, <2>9, <2>10 DEF IInv
<1>2. IInv /\ [Next]_vars => IInv'
  <2> SUFFICES ASSUME IInv, [Next]_vars PROVE IInv'
    OBVIOUS
  <2>1. CASE UNCHANGED vars
    BY <2>1 DEF vars, IInv, TypeOK, ScopesMatchVisits, SavedInFunction, BindingsWait
  <2>2. CASE Next
    <3>1. program' = program
      BY <2>2 DEF Next
    <3>2. CASE Stopped
      BY <3>1, <3>2 DEF Stopped, IInv, TypeOK, ScopesMatchVisits, SavedInFunction,
                        BindingsWait
    <3>3. CASE \E items : Does(items)
      BY <3>1, <3>3, DoesKeeps
    <3> QED
      BY <2>2, <3>2, <3>3, StepEffect
  <2> QED
    BY <2>1, <2>2
<1> QED
  BY <1>1, <1>2, PTL DEF Spec

\* The variables have their types, for every program.
THEOREM TypeCorrect == Spec => []TypeOK
<1>1. IInv => TypeOK
  BY DEF IInv
<1> QED
  BY <1>1, Inductive, PTL

\* At every moment of the resolution of any program the scopes are those of the
\* visits in progress, one for each, and inFunction says whether one of them is
\* a function's: no path through nested visits leaves a scope twice or not at all.
THEOREM OneScopePerVisit == Spec => []ScopesMatchVisits
<1>1. IInv => ScopesMatchVisits
  BY DEF IInv
<1> QED
  BY <1>1, Inductive, PTL

\* The assign at the end of an initializer finds the name, whatever the
\* initializer did.
THEOREM InitializersBound == Spec => []InitializerStillBound
BY Inductive, StillBound, PTL

\* Resolving a function body leaves the scopes around it alone.
THEOREM OuterStates == Spec => OuterStateKept
<1>1. IInv /\ [Next]_vars =>
        [\A i \in DOMAIN scopes \cap DOMAIN scopes' :
           (\E k \in (i + 1)..Len(scopes) : scopes[k].global)
             => scopes'[i] = scopes[i]]_vars
  <2> SUFFICES ASSUME IInv, Next,
                      NEW i \in DOMAIN scopes \cap DOMAIN scopes',
                      \E k \in (i + 1)..Len(scopes) : scopes[k].global
               PROVE  scopes'[i] = scopes[i]
    OBVIOUS
  <2>1. CASE Stopped
    BY <2>1 DEF Stopped
  <2>2. CASE \E items : Does(items)
    <3>1. /\ Facts!Kept(scopes, scopes')
          /\ scopes' \in Seq(Env!Scope(BOOLEAN)) /\ scopes \in Seq(Env!Scope(BOOLEAN))
      BY <2>2 DEF Does, IInv, TypeOK
    <3>2. i \in 1..Len(scopes) /\ i <= Len(scopes')
      BY <3>1
    <3> QED
      BY <3>1, <3>2 DEF Facts!Kept
  <2> QED
    BY <2>1, <2>2, StepEffect
<1> QED
  BY <1>1, Inductive, PTL DEF Spec, OuterStateKept

=============================================================================
