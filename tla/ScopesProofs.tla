---------------------------- MODULE ScopesProofs ----------------------------
(***************************************************************************)
(* What the operations on scopes find, keep and change, for any set of     *)
(* names, any values and any number of scopes.                             *)
(***************************************************************************)
EXTENDS Scopes, TLAPS, WellFoundedInduction

\* A set of numbers has a least element.  (The library states well-foundedness
\* without an operator parameter here, which the provers can use.)
LEMMA LeastNumber ==
  ASSUME NEW T \in SUBSET Nat, T # {}
  PROVE  \E m \in T : \A k \in T : m <= k
<1> DEFINE Less == {pair \in Nat \X Nat : pair[1] < pair[2]}
<1>1. IsWellFoundedOn(Less, Nat)
  BY NatLessThanWellFounded DEF OpToRel
<1>2. \A m, k \in Nat : k < m => <<k, m>> \in Less
  OBVIOUS
<1> HIDE DEF Less
<1>3. PICK m \in T : \A k \in T : <<k, m>> \notin Less
  BY <1>1, WFMin
<1>4. \A k \in T : m \in Nat /\ k \in Nat /\ ~(k < m)
  BY <1>2, <1>3
<1> QED
  BY <1>4

\* A bounded one has a greatest.
LEMMA GreatestNumber ==
  ASSUME NEW n \in Nat, NEW T \in SUBSET (1..n), T # {}
  PROVE  \E m \in T : \A k \in T : k <= m
<1> DEFINE Under == {j \in Nat : n - j \in T}
<1>1. \A k \in T : n - k \in Nat /\ n - (n - k) = k
  OBVIOUS
<1>2. Under \in SUBSET Nat /\ Under # {}
  BY <1>1
<1>3. PICK j \in Under : \A i \in Under : j <= i
  BY <1>2, LeastNumber
<1>4. n - j \in T /\ \A k \in T : k <= n - j
  BY <1>1, <1>3
<1> QED
  BY <1>4

-----------------------------------------------------------------------------
\* A scope has an object for every name, or none.
LEMMA ScopeAt ==
  ASSUME NEW V, NEW s \in Seq(Scope(V)), NEW i \in DOMAIN s
  PROVE  /\ s[i] \in Scope(V)
         /\ s[i].objects \in Objects(V)
         /\ s[i].global \in BOOLEAN
         /\ \A x \in Name : s[i].objects[x] \in V \cup {Absent}
<1>1. s[i] \in Scope(V)
  OBVIOUS
<1>2. s[i].objects \in Objects(V) /\ s[i].global \in BOOLEAN
  BY <1>1 DEF Scope
<1> QED
  BY <1>1, <1>2 DEF Objects

\* A new scope binds nothing.
LEMMA OpenedScope ==
  ASSUME NEW V, NEW isGlobal \in BOOLEAN
  PROVE  Opened(isGlobal) \in Scope(V)
BY DEF Opened, Empty, Scope, Objects

\* A lookup sees scopes that are there, the innermost always.
LEMMA VisibleScopes ==
  ASSUME NEW V, NEW s \in Seq(Scope(V))
  PROVE  /\ Visible(s) \in SUBSET (1..Len(s))
         /\ \A x : Holders(s, x) \in SUBSET (1..Len(s))
         /\ s # <<>> => Len(s) \in Visible(s)
BY DEF Visible, Holders

\* A name that is bound is found in the innermost scope that binds it.
LEMMA HolderFound ==
  ASSUME NEW V, NEW s \in Seq(Scope(V)), NEW x, contains(s, x)
  PROVE  /\ Holder(s, x) \in Holders(s, x)
         /\ Holder(s, x) \in Visible(s)
         /\ Holder(s, x) \in 1..Len(s)
         /\ s[Holder(s, x)].objects[x] # Absent
         /\ \A j \in Holders(s, x) : j <= Holder(s, x)
<1>1. Holders(s, x) # {} /\ Holders(s, x) \in SUBSET (1..Len(s))
  BY VisibleScopes DEF contains
<1>2. \E i \in Holders(s, x) : \A j \in Holders(s, x) : j <= i
  BY <1>1, GreatestNumber, Len(s) \in Nat
<1>3. /\ Holder(s, x) \in Holders(s, x)
      /\ \A j \in Holders(s, x) : j <= Holder(s, x)
  BY <1>2 DEF Holder
<1> QED
  BY <1>1, <1>3 DEF Holders

\* Whatever a walk from the innermost scope stops at is the Holder.
LEMMA HolderIs ==
  ASSUME NEW V, NEW s \in Seq(Scope(V)), NEW x,
         NEW i \in Holders(s, x), \A j \in Holders(s, x) : j <= i
  PROVE  contains(s, x) /\ Holder(s, x) = i
<1>1. contains(s, x)
  BY DEF contains
<1>2. Holder(s, x) \in Holders(s, x) /\ i <= Holder(s, x) /\ Holder(s, x) <= i
  BY <1>1, HolderFound
<1> QED
  BY <1>1, <1>2, VisibleScopes

\* What is found is an object.
LEMMA GetType ==
  ASSUME NEW V, NEW s \in Seq(Scope(V)), NEW x \in Name, contains(s, x)
  PROVE  get(s, x) \in V
BY HolderFound, ScopeAt DEF get

\* One binding changes and nothing else.
LEMMA BindEffect ==
  ASSUME NEW V, NEW s \in Seq(Scope(V)), NEW i \in 1..Len(s),
         NEW x \in Name, NEW v \in V
  PROVE  /\ Bind(s, i, x, v) \in Seq(Scope(V))
         /\ Len(Bind(s, i, x, v)) = Len(s)
         /\ \A j \in 1..Len(s) :
              /\ Bind(s, i, x, v)[j].global = s[j].global
              /\ j # i => Bind(s, i, x, v)[j] = s[j]
              /\ j = i => \A y \in Name :
                   Bind(s, i, x, v)[j].objects[y] =
                     IF y = x THEN v ELSE s[j].objects[y]
<1> DEFINE t == Bind(s, i, x, v)
<1>1. /\ DOMAIN t = DOMAIN s
      /\ \A j \in DOMAIN s : j # i => t[j] = s[j]
      /\ \A j \in DOMAIN s : j = i => t[j] = [s[j] EXCEPT !.objects[x] = v]
  BY DEF Bind
<1>2. ASSUME NEW j \in DOMAIN s
      PROVE  /\ t[j] \in Scope(V)
             /\ t[j].global = s[j].global
             /\ j = i => \A y \in Name :
                  t[j].objects[y] = IF y = x THEN v ELSE s[j].objects[y]
  <2>1. s[j] \in Scope(V) /\ s[j].objects \in Objects(V)
    BY ScopeAt
  <2>2. [s[j].objects EXCEPT ![x] = v] \in Objects(V)
    BY <2>1 DEF Objects
  <2>3. CASE j # i
    BY <2>1, <2>3, <1>1
  <2>4. CASE j = i
    <3>1. t[j] = [objects |-> [s[j].objects EXCEPT ![x] = v], global |-> s[j].global]
      BY <2>1, <2>4, <1>1 DEF Scope
    <3> QED
      BY <2>1, <2>2, <3>1 DEF Scope, Objects
  <2> QED
    BY <2>3, <2>4
<1>3. Len(s) \in Nat /\ DOMAIN s = 1..Len(s)
  OBVIOUS
<1>4. t = [j \in 1..Len(s) |-> t[j]]
  BY <1>1, <1>3 DEF Bind
<1>5. t \in [1..Len(s) -> Scope(V)]
  BY <1>2, <1>3, <1>4
<1>6. t \in Seq(Scope(V)) /\ Len(t) = Len(s)
  BY <1>3, <1>5
<1> QED
  BY <1>1, <1>2, <1>3, <1>6

-----------------------------------------------------------------------------
\* t is s after one binding of a name in a scope that a lookup can reach: what
\* assign and defineOrAssign may do.
Stored(s, t, x, v) == \E i \in Visible(s) : t = Bind(s, i, x, v)

\* assign stores where the name is found.
LEMMA AssignStores ==
  ASSUME NEW V, NEW s \in Seq(Scope(V)), NEW x \in Name, NEW v, contains(s, x)
  PROVE  Stored(s, assign(s, x, v), x, v)
BY HolderFound DEF Stored, assign

\* defineOrAssign stores there or in the innermost scope.
LEMMA DefineStores ==
  ASSUME NEW V, NEW s \in Seq(Scope(V)), s # <<>>, NEW x \in Name, NEW v
  PROVE  Stored(s, defineOrAssign(s, x, v), x, v)
BY AssignStores, VisibleScopes DEF Stored, defineOrAssign

\* The scopes stay, with their boundaries; what cannot be reached keeps its
\* objects, and every name that was bound stays bound.
LEMMA StoredEffect ==
  ASSUME NEW V, Absent \notin V, NEW s \in Seq(Scope(V)), NEW t,
         NEW x \in Name, NEW v \in V, Stored(s, t, x, v)
  PROVE  /\ t \in Seq(Scope(V))
         /\ Len(t) = Len(s)
         /\ \A j \in 1..Len(s) : t[j].global = s[j].global
         /\ \A j \in 1..Len(s) : j \notin Visible(s) => t[j] = s[j]
         /\ \A j \in 1..Len(s) : \A y \in Name :
              s[j].objects[y] # Absent => t[j].objects[y] # Absent
         /\ contains(t, x)
<1>1. PICK i \in Visible(s) : t = Bind(s, i, x, v)
  BY DEF Stored
<1>2. i \in 1..Len(s) /\ DOMAIN s = 1..Len(s) /\ Len(s) \in Nat
  BY VisibleScopes
<1>3. /\ t \in Seq(Scope(V))
      /\ Len(t) = Len(s)
      /\ \A j \in 1..Len(s) :
           /\ t[j].global = s[j].global
           /\ j # i => t[j] = s[j]
           /\ j = i => \A y \in Name :
                t[j].objects[y] = IF y = x THEN v ELSE s[j].objects[y]
  <2>1. /\ Bind(s, i, x, v) \in Seq(Scope(V))
        /\ Len(Bind(s, i, x, v)) = Len(s)
        /\ \A j \in 1..Len(s) :
             /\ Bind(s, i, x, v)[j].global = s[j].global
             /\ j # i => Bind(s, i, x, v)[j] = s[j]
             /\ j = i => \A y \in Name :
                  Bind(s, i, x, v)[j].objects[y] =
                    IF y = x THEN v ELSE s[j].objects[y]
    BY <1>2, BindEffect, SMTT(30)
  <2> QED
    BY <1>1, <2>1
<1>4. \A y \in Name : t[i].objects[y] = IF y = x THEN v ELSE s[i].objects[y]
  BY <1>2, <1>3
<1>5. ASSUME NEW j \in 1..Len(s), NEW y \in Name, s[j].objects[y] # Absent
      PROVE  t[j].objects[y] # Absent
  <2>1. CASE j = i
    BY <2>1, <1>4, <1>5
  <2>2. CASE j # i
    BY <2>2, <1>3, <1>5
  <2> QED
    BY <2>1, <2>2
<1>6. i \in Visible(t)
  <2>1. \A k \in (i + 1)..Len(s) : ~s[k].global /\ k \in 1..Len(s)
    BY <1>2 DEF Visible
  <2>2. DOMAIN t = 1..Len(s)
    BY <1>3
  <2> QED
    BY <2>1, <2>2, <1>2, <1>3 DEF Visible
<1>7. contains(t, x)
  BY <1>4, <1>6 DEF contains, Holders
<1> QED
  BY <1>1, <1>3, <1>5, <1>7

\* A scope is opened on top of the others.
LEMMA EnterEffect ==
  ASSUME NEW V, NEW s \in Seq(Scope(V)), NEW scope \in Scope(V)
  PROVE  /\ Append(s, scope) \in Seq(Scope(V))
         /\ Append(s, scope) # <<>>
         /\ Len(Append(s, scope)) = Len(s) + 1
         /\ \A j \in 1..Len(s) : Append(s, scope)[j] = s[j]
         /\ Append(s, scope)[Len(s) + 1] = scope
OBVIOUS

\* The last one opened is left, the others stay as they are.
LEMMA LeaveEffect ==
  ASSUME NEW V, NEW s \in Seq(Scope(V)), Len(s) > 1
  PROVE  /\ Leave(s) \in Seq(Scope(V))
         /\ Leave(s) # <<>>
         /\ Len(Leave(s)) = Len(s) - 1
         /\ \A j \in 1..(Len(s) - 1) : Leave(s)[j] = s[j]
<1>1. Len(s) \in Nat /\ Len(s) - 1 \in 1..Len(s)
  OBVIOUS
<1>2. /\ Leave(s) \in Seq(Scope(V))
      /\ Len(Leave(s)) = Len(s) - 1
      /\ \A j \in 1..(Len(s) - 1) : Leave(s)[j] = s[j]
  BY <1>1 DEF Leave
<1> QED
  BY <1>1, <1>2

\* x is bound where a lookup that starts in scope n finds it.
BoundFrom(s, n, x) ==
  \E i \in 1..n : s[i].objects[x] # Absent /\ \A k \in (i + 1)..n : ~s[k].global

\* Looking from the innermost scope is what contains does.
LEMMA BoundFromTop ==
  ASSUME NEW V, NEW s \in Seq(Scope(V)), NEW x
  PROVE  contains(s, x) <=> BoundFrom(s, Len(s), x)
BY DEF contains, Holders, Visible, BoundFrom

-----------------------------------------------------------------------------
\* What no operation does to the scopes that stay: a boundary does not move, a
\* name does not lose its object, what a boundary hides does not change.
Kept(s, t) ==
  \A i \in 1..Len(s) : i <= Len(t) =>
    /\ t[i].global = s[i].global
    /\ \A y \in Name : s[i].objects[y] # Absent => t[i].objects[y] # Absent
    /\ (\E k \in (i + 1)..Len(s) : s[k].global) => t[i] = s[i]

\* An operation that only reads.
LEMMA KeptByNothing ==
  ASSUME NEW s
  PROVE  Kept(s, s)
BY DEF Kept

\* An operation that stores.
LEMMA KeptByStore ==
  ASSUME NEW V, Absent \notin V, NEW s \in Seq(Scope(V)), NEW t,
         NEW x \in Name, NEW v \in V, Stored(s, t, x, v)
  PROVE  /\ t \in Seq(Scope(V))
         /\ Len(t) = Len(s)
         /\ contains(t, x)
         /\ Kept(s, t)
<1>1. /\ t \in Seq(Scope(V))
      /\ Len(t) = Len(s)
      /\ \A j \in 1..Len(s) : t[j].global = s[j].global
      /\ \A j \in 1..Len(s) : j \notin Visible(s) => t[j] = s[j]
      /\ \A j \in 1..Len(s) : \A y \in Name :
           s[j].objects[y] # Absent => t[j].objects[y] # Absent
      /\ contains(t, x)
  BY StoredEffect
<1>2. \A i \in 1..Len(s) : (\E k \in (i + 1)..Len(s) : s[k].global) => i \notin Visible(s)
  BY DEF Visible
<1> QED
  BY <1>1, <1>2 DEF Kept

\* Opening a scope.
LEMMA KeptByEnter ==
  ASSUME NEW V, NEW s \in Seq(Scope(V)), NEW scope \in Scope(V)
  PROVE  Kept(s, Append(s, scope))
BY EnterEffect DEF Kept

\* Leaving one.
LEMMA KeptByLeave ==
  ASSUME NEW V, NEW s \in Seq(Scope(V)), Len(s) > 1
  PROVE  Kept(s, Leave(s))
<1>1. Len(Leave(s)) = Len(s) - 1 /\ \A j \in 1..(Len(s) - 1) : Leave(s)[j] = s[j]
  BY LeaveEffect
<1>2. \A i \in 1..Len(s) : i <= Len(s) - 1 => i \in 1..(Len(s) - 1)
  OBVIOUS
<1> QED
  BY <1>1, <1>2 DEF Kept

\* A name stays bound where it is.
LEMMA BoundStays ==
  ASSUME NEW s, NEW t, Len(s) \in Nat, Len(t) \in Nat, Kept(s, t), NEW x \in Name,
         NEW n \in 1..Len(s), n \in 1..Len(t), BoundFrom(s, n, x)
  PROVE  BoundFrom(t, n, x)
<1>1. n \in Nat /\ \A k \in 1..n : k \in 1..Len(s) /\ k <= Len(t)
  OBVIOUS
<1>2. ASSUME NEW k \in 1..n
      PROVE  /\ t[k].global = s[k].global
             /\ s[k].objects[x] # Absent => t[k].objects[x] # Absent
  <2>1. k \in 1..Len(s) /\ k <= Len(t)
    BY <1>1
  <2> QED
    BY <2>1 DEF Kept
<1>3. PICK i \in 1..n : s[i].objects[x] # Absent /\ \A k \in (i + 1)..n : ~s[k].global
  BY DEF BoundFrom
<1>4. \A k \in (i + 1)..n : k \in 1..n
  BY <1>1
<1>5. t[i].objects[x] # Absent
  BY <1>2, <1>3
<1>6. ASSUME NEW k \in (i + 1)..n
      PROVE  ~t[k].global
  <2>1. k \in 1..n /\ ~s[k].global
    BY <1>3, <1>4
  <2>2. t[k].global = s[k].global
    BY <2>1, <1>2
  <2> QED
    BY <2>1, <2>2
<1> QED
  BY <1>5, <1>6 DEF BoundFrom

=============================================================================
