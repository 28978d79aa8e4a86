---------------------- MODULE EnvironmentManagerProofs ----------------------
(***************************************************************************)
(* Proofs about EnvironmentManager, for any set of addresses, names and    *)
(* values and any nesting of blocks and functions.                         *)
(***************************************************************************)
EXTENDS EnvironmentManager, ScopesProofs

-----------------------------------------------------------------------------
(***************************************************************************)
(* Type correctness.                                                       *)
(***************************************************************************)

\* A saved environment is an address: what Top yields while withNewEnviron calls
\* are in progress.
LEMMA TopType ==
  ASSUME TypeOK, Saving > 0
  PROVE  Top \in Saved
BY DEF TypeOK, Saving, Top

\* What an operation leaves in call and result has the types of both.
LEMMA CallTypes ==
  /\ NoCall \in Loops
  /\ NoCall.op \notin Storing
  /\ \A op \in {"discard", "thrown"} :
       Loop(op) \in Loops /\ Loop(op).op \notin Storing
  /\ Done \in Results
  /\ Undef \in Results
BY DEF NoCall, Loop, Loops, Lookup, Done, Undef, Results, Storing

\* A lookup keeps the operation and the object it was begun with.
LEMMA LookupTypes ==
  ASSUME NEW op \in LookupOps, NEW x \in Name, NEW v \in Value \cup {Null},
         NEW e \in EnvId
  PROVE  /\ Lookup(op, x, v, e) \in Lookups
         /\ Lookup(op, x, v, e).op = op
         /\ Lookup(op, x, v, e).object = v
BY DEF Lookup, Lookups

\* A call with the name of a lookup is one.
LEMMA InLookup ==
  ASSUME TypeOK, Walking
  PROVE  call \in Lookups
BY DEF TypeOK, Walking, Loops, Loop, Lookup, LookupOps

\* The manager starts well typed.
LEMMA TypeInit == Init => TypeOK
BY CallTypes DEF Init, TypeOK, Objects, Empty, Saved

\* Every step of an operation keeps the types.
LEMMA TypeNext == TypeOK /\ [Next]_vars => TypeOK'
<1> SUFFICES ASSUME TypeOK, [Next]_vars PROVE TypeOK'
  OBVIOUS
<1> USE CallTypes, LookupTypes
<1>1. ASSUME NEW op \in LookupOps, NEW x \in Name, NEW v \in Value \cup {Null},
             op \in Storing => v \in Value, Begin(op, x, v)
      PROVE  TypeOK'
  BY <1>1 DEF Begin, heap, TypeOK, Lookups
<1>2. ASSUME NEW by \in Overload, NEW parent \in EnvId \cup {Null},
             EnterEnv(by, parent)
      PROVE  TypeOK'
  <2>1. PICK e \in EnvId \ live : Allocate(e, parent) /\ curEnv' = e
    BY <1>2 DEF EnterEnv
  <2>2. environToRestore' \in Seq(Saved)
    BY <1>2 DEF EnterEnv, Save, TypeOK, Saved
  <2> QED
    BY <1>2, <2>1, <2>2 DEF EnterEnv, Allocate, TypeOK, Objects, Empty
<1>3. CASE LeaveBlock
  BY <1>3 DEF LeaveBlock, heap, TypeOK, NoCall, Storing
<1>4. CASE LeaveFunction
  <2>1. Top \in Saved
    BY <1>4, TopType DEF LeaveFunction
  <2>2. environToRestore' \in Seq(Saved)
    BY <1>4 DEF LeaveFunction, Pop, Saving, TypeOK
  <2> QED
    BY <1>4, <2>1, <2>2 DEF LeaveFunction, Destroy, TypeOK, Saved, Objects, Empty
<1>5. CASE WalkUp
  <2>1. call \in Lookups
    BY <1>5, InLookup DEF WalkUp
  <2>2. parentEnv[call.at] \in EnvId
    BY <1>5, <2>1 DEF WalkUp, AtRoot, TypeOK, Lookups
  <2> QED
    BY <1>5, <2>1, <2>2 DEF WalkUp, heap, TypeOK, Lookups
<1>6. CASE ReturnGet
  <2>1. objects[call.at][call.token] \in Value
    BY <1>6, InLookup
    DEF ReturnGet, Hit, Walking, LookupOps, TypeOK, Lookups, Objects
  <2> QED
    BY <1>6, <2>1 DEF ReturnGet, Return, TypeOK, Results
<1>7. CASE ReturnContains
  BY <1>7 DEF ReturnContains, Return, Hit, TypeOK, Results
<1>8. CASE StoreAssign
  BY <1>8, InLookup DEF StoreAssign, Store, Return, Walking, LookupOps, TypeOK,
                       Lookups, Objects, Storing
<1>9. CASE Throw
  BY <1>9 DEF Throw, heap, TypeOK, NoCall, Storing
<1>10. CASE DefineFound
  BY <1>10, InLookup
  DEF DefineFound, heap, Walking, LookupOps, TypeOK, Lookups, Storing
<1>11. CASE DefineFresh
  BY <1>11, InLookup DEF DefineFresh, Store, Return, Walking, LookupOps, TypeOK,
                        Lookups, Objects, Storing
<1>12. CASE DiscardOne
  BY <1>12 DEF DiscardOne, Discarding, Destroy, TypeOK, Objects, Empty
<1>13. CASE DiscardEnd
  <2>1. environToRestore' \in Seq(Saved)
    BY <1>13 DEF DiscardEnd, Pop, Saving, TypeOK
  <2> QED
    BY <1>13, <2>1 DEF DiscardEnd, heap, TypeOK
<1>14. CASE UNCHANGED vars
  BY <1>14 DEF vars, TypeOK
<1>15. CASE Operations
  <2>1. \A x \in Name, op \in {"get", "contains"} : Begin(op, x, Null) => TypeOK'
    BY <1>1 DEF LookupOps, Storing
  <2>2. \A x \in Name, v \in Value, op \in {"assign", "define"} :
          Begin(op, x, v) => TypeOK'
    BY <1>1 DEF LookupOps
  <2>3. EnterBlock \/ EnterFunction => TypeOK'
    BY <1>2 DEF EnterBlock, EnterFunction, Overload, TypeOK
  <2> QED
    BY <1>15, <2>1, <2>2, <2>3, <1>3, <1>4 DEF Operations
<1> QED
  BY <1>5, <1>6, <1>7, <1>8, <1>9, <1>10, <1>11, <1>12, <1>13, <1>14, <1>15
  DEF Next, Steps

\* The type invariant holds of every run of the manager.
THEOREM TypeCorrect == Spec => []TypeOK
<1>1. Init => TypeOK
  BY TypeInit
<1>2. TypeOK /\ [Next]_vars => TypeOK'
  BY TypeNext
<1> QED
  BY <1>1, <1>2, PTL DEF Spec

-----------------------------------------------------------------------------
(***************************************************************************)
(* The nesting of the environments.  IInv is inductive: the lookups need   *)
(* to know that the names they passed stay unbound, the loop of            *)
(* discardEnvsTill that the environment it walks to is one parent away.    *)
(***************************************************************************)

IInv == TypeOK /\ NestingInv /\ NoLeak /\ LookupInFrame /\ ReassignFinds

\* OpenEnvs, entry by entry.
Depth == IF Left THEN Saving ELSE Saving + 1
Env(i) == IF i <= Saving THEN environToRestore[i].env ELSE curEnv

\* The sequence OpenEnvs, entry by entry.
LEMMA OpenEnvsEntries ==
  ASSUME TypeOK
  PROVE  /\ OpenEnvs \in Seq(EnvId)
         /\ Len(OpenEnvs) = Depth
         /\ DOMAIN OpenEnvs = 1..Depth
         /\ \A i \in 1..Depth : OpenEnvs[i] = Env(i)
         /\ Saving \in Nat
         /\ \A i \in 1..Saving : environToRestore[i] \in Saved
         /\ Depth \in Nat
<1>1. /\ environToRestore \in Seq(Saved)
      /\ Saving \in Nat
      /\ \A i \in 1..Saving : environToRestore[i] \in Saved
      /\ DOMAIN environToRestore = 1..Saving
  BY DEF TypeOK, Saving
<1>2. /\ SavedEnvs \in Seq(EnvId)
      /\ Len(SavedEnvs) = Saving
      /\ \A i \in 1..Saving : SavedEnvs[i] = environToRestore[i].env
  BY <1>1 DEF SavedEnvs, Saved
<1>3. /\ Append(SavedEnvs, curEnv) \in Seq(EnvId)
      /\ Len(Append(SavedEnvs, curEnv)) = Saving + 1
      /\ \A i \in 1..Saving : Append(SavedEnvs, curEnv)[i] = SavedEnvs[i]
      /\ Append(SavedEnvs, curEnv)[Saving + 1] = curEnv
  BY <1>2, <1>1 DEF TypeOK
<1>4. CASE Left
  BY <1>1, <1>2, <1>4 DEF OpenEnvs, Depth, Env
<1>5. CASE ~Left
  BY <1>1, <1>2, <1>3, <1>5 DEF OpenEnvs, Depth, Env
<1> QED
  BY <1>4, <1>5

\* The parts of IInv over those entries.
NestView ==
  /\ parentEnv[Env(1)] = Null
  /\ \A i \in 2..Depth :
       parentEnv[Env(i)] =
         IF environToRestore[i - 1].by = "newEnv" THEN Env(i - 1) ELSE Null
  /\ \A i, j \in 1..Depth : Env(i) = Env(j) => i = j
  /\ call.op = "discard" => Saving > 0 /\ Top.by = "newEnv"
  /\ \A e : e \in live <=> \E i \in 1..Depth : e = Env(i)

LookupView ==
  /\ Walking =>
       \E i \in 1..Depth :
         /\ call.at = Env(i)
         /\ SameFrame(i)
         /\ \A k \in (i + 1)..Depth : objects[Env(k)][call.token] = Absent
  /\ call.op = "reassign" =>
       \E i \in 1..Depth :
         /\ SameFrame(i)
         /\ objects[Env(i)][call.token] # Absent

\* A scope is open at any time: the one the manager was constructed with.
LEMMA DepthPositive ==
  ASSUME TypeOK, call.op = "discard" => Saving > 0
  PROVE  Depth \in Nat /\ Depth >= 1
BY OpenEnvsEntries DEF Depth, Left

\* The invariants speak of OpenEnvs, the proofs of Env and Depth; they say the
\* same.
LEMMA Views ==
  TypeOK => /\ NestingInv /\ NoLeak <=> NestView
            /\ LookupInFrame /\ ReassignFinds <=> LookupView
<1> SUFFICES ASSUME TypeOK
             PROVE  /\ NestingInv /\ NoLeak <=> NestView
                    /\ LookupInFrame /\ ReassignFinds <=> LookupView
  OBVIOUS
<1> USE OpenEnvsEntries
<1>1. ASSUME NestingInv \/ NestView
      PROVE  Depth \in Nat /\ Depth >= 1
  BY <1>1, DepthPositive DEF NestingInv, NestView
<1>2. NestingInv /\ NoLeak <=> NestView
  <2> SUFFICES ASSUME Depth >= 1 PROVE NestingInv /\ NoLeak <=> NestView
    BY <1>1
  <2>1. /\ OpenEnvs[1] = Env(1)
        /\ \A i \in 2..Depth : OpenEnvs[i] = Env(i) /\ OpenEnvs[i - 1] = Env(i - 1)
    OBVIOUS
  <2>2. NoLeak <=> \A e : e \in live <=> \E i \in 1..Depth : e = Env(i)
    BY DEF NoLeak
  <2>3. (\A i, j \in DOMAIN OpenEnvs : OpenEnvs[i] = OpenEnvs[j] => i = j)
        <=> \A i, j \in 1..Depth : Env(i) = Env(j) => i = j
    OBVIOUS
  <2> QED
    BY <2>1, <2>2, <2>3 DEF NestingInv, NestView
<1>3. LookupInFrame /\ ReassignFinds <=> LookupView
  BY DEF LookupInFrame, ReassignFinds, LookupView
<1> QED
  BY <1>2, <1>3

\* A lookup opens and leaves nothing.
LEMMA StillOpen ==
  ASSUME TypeOK,
         environToRestore' = environToRestore, curEnv' = curEnv,
         call.op # "discard", call'.op # "discard"
  PROVE  /\ Saving' = Saving
         /\ Depth' = Depth
         /\ Depth = Saving + 1
         /\ \A i : Env(i)' = Env(i)
         /\ \A i : SameFrame(i)' <=> SameFrame(i)
BY DEF Saving, Depth, Env, Left, SameFrame

\* The lookups, which change at most the member objects of an environment.
LookupStep ==
  \/ \E op \in LookupOps \ {"reassign"}, x \in Name, v \in Value \cup {Null} :
       Begin(op, x, v)
  \/ WalkUp \/ ReturnGet \/ ReturnContains \/ StoreAssign \/ Throw
  \/ DefineFound \/ DefineFresh

\* The operations that open or leave an environment.
NestingStep ==
  \/ EnterBlock \/ EnterFunction \/ LeaveBlock \/ LeaveFunction
  \/ DiscardOne \/ DiscardEnd

\* A step belongs to a lookup, or it enters or leaves a scope.
LEMMA TwoKindsOfStep == Next => LookupStep \/ NestingStep
BY DEF Next, Operations, Steps, LookupStep, NestingStep, LookupOps

\* get, contains, assign and define leave the environments where they are.
LEMMA LookupStepFrame ==
  ASSUME LookupStep
  PROVE  /\ UNCHANGED <<live, parentEnv, curEnv, environToRestore>>
         /\ call.op # "discard"
         /\ call'.op # "discard"
BY DEF LookupStep, LookupOps, Begin, Idle, WalkUp, Walking, ReturnGet,
       ReturnContains, StoreAssign, Throw, DefineFound, DefineFresh, Return,
       heap, Lookup, Loop, NoCall

\* Leaving or entering happens between lookups.
LEMMA NestingStepFrame ==
  ASSUME NestingStep
  PROVE  ~Walking /\ ~Walking'
BY DEF NestingStep, EnterBlock, EnterFunction, EnterEnv, LeaveBlock,
       LeaveFunction, DiscardOne, DiscardEnd, Idle, Walking, LookupOps, Lookup,
       Loop, NoCall

\* What the end of withNewEnviron takes off.
LEMMA Popped ==
  ASSUME TypeOK, Saving > 0, Pop
  PROVE  /\ Saving' = Saving - 1
         /\ \A i \in 1..(Saving - 1) : environToRestore'[i] = environToRestore[i]
<1>1. environToRestore \in Seq(Saved) /\ Len(environToRestore) = Saving
  BY DEF TypeOK, Saving
<1>2. Saving - 1 \in 0..Len(environToRestore)
  BY <1>1
<1>3. environToRestore' = SubSeq(environToRestore, 1, Saving - 1)
  BY DEF Pop
<1>4. Len(environToRestore') = Saving - 1
  BY <1>1, <1>2, <1>3
<1> QED
  BY <1>1, <1>2, <1>3, <1>4 DEF Saving

\* The depths a step of NestingStep starts from.
LEMMA DepthFacts ==
  ASSUME TypeOK, NestView
  PROVE  /\ Depth \in Nat
         /\ Depth >= 1
         /\ Saving \in Nat
         /\ environToRestore \in Seq(Saved)
         /\ Saving = Len(environToRestore)
BY OpenEnvsEntries, DepthPositive DEF NestView, TypeOK, Saving

\* Entering puts a new environment on top of the open ones.
LEMMA Entered ==
  ASSUME TypeOK, NestView, NEW by \in Overload, NEW parent, EnterEnv(by, parent)
  PROVE  /\ ~Left /\ ~Left' /\ call.op # "discard" /\ call'.op # "discard"
         /\ Depth = Saving + 1
         /\ Env(Depth) = curEnv
         /\ Saving' = Saving + 1
         /\ \A i \in 1..Saving : environToRestore'[i] = environToRestore[i]
         /\ environToRestore'[Depth] = [env |-> curEnv, by |-> by]
         /\ Depth' = Depth + 1
         /\ \A i \in 1..Depth : Env(i)' = Env(i)
         /\ \E e \in EnvId \ live :
              Allocate(e, parent) /\ \A i : i = Depth + 1 => Env(i)' = e
<1> USE DepthFacts
<1>1. PICK e \in EnvId \ live : Allocate(e, parent) /\ curEnv' = e
  BY DEF EnterEnv
<1>2. /\ ~Left
      /\ ~Left'
      /\ call.op # "discard"
      /\ call'.op # "discard"
      /\ Depth = Saving + 1
      /\ Env(Depth) = curEnv
  BY DEF EnterEnv, Idle, NoCall, Loop, Lookup, Left, Depth, Env
<1>3. /\ Saving' = Saving + 1
      /\ \A i \in 1..Saving : environToRestore'[i] = environToRestore[i]
      /\ environToRestore'[Depth] = [env |-> curEnv, by |-> by]
  BY <1>2 DEF EnterEnv, Save, Saving, Saved
<1>4. /\ Depth' = Depth + 1
      /\ \A i \in 1..Depth : Env(i)' = Env(i)
      /\ \A i : i = Depth + 1 => Env(i)' = e
  BY <1>1, <1>2, <1>3 DEF Depth, Env
<1> QED
  BY <1>1, <1>2, <1>3, <1>4

\* The loop of discardEnvsTill starts with the block's environment on top.
LEMMA BlockLeft ==
  ASSUME TypeOK, NestView, LeaveBlock
  PROVE  /\ ~Left /\ ~Left'
         /\ Depth' = Depth
         /\ Saving' = Saving
         /\ \A i : Env(i)' = Env(i)
<1> USE DepthFacts
<1>1. ~Left /\ Depth = Saving + 1 /\ Env(Depth) = curEnv
  BY DEF LeaveBlock, Idle, NoCall, Loop, Lookup, Left, Depth, Env
<1>2. curEnv # Top.env
  <2>1. Env(Saving) = Top.env /\ Saving \in 1..Depth /\ Saving # Depth
    BY <1>1 DEF LeaveBlock, Env, Top
  <2> QED
    BY <2>1, <1>1 DEF NestView
<1> QED
  BY <1>1, <1>2 DEF LeaveBlock, heap, Left, Depth, Env, Saving, Top

\* Leaving a function takes its environment off.
LEMMA FunctionLeft ==
  ASSUME TypeOK, NestView, LeaveFunction
  PROVE  /\ ~Left /\ ~Left' /\ call'.op # "discard"
         /\ Depth = Saving + 1
         /\ Saving >= 1
         /\ Env(Depth) = curEnv
         /\ Saving' = Saving - 1
         /\ \A i \in 1..(Saving - 1) : environToRestore'[i] = environToRestore[i]
         /\ Depth' = Saving
         /\ \A i \in 1..Saving : Env(i)' = Env(i)
<1> USE DepthFacts
<1>1. /\ ~Left
      /\ call'.op # "discard"
      /\ ~Left'
      /\ Depth = Saving + 1
      /\ Env(Depth) = curEnv
      /\ Env(Saving) = Top.env
  BY DEF LeaveFunction, Idle, NoCall, Loop, Lookup, Left, Depth, Env, Top
<1>2. /\ Saving' = Saving - 1
      /\ \A i \in 1..(Saving - 1) : environToRestore'[i] = environToRestore[i]
  BY Popped DEF LeaveFunction
<1>3. Depth' = Saving /\ \A i \in 1..Saving : Env(i)' = Env(i)
  BY <1>1, <1>2 DEF LeaveFunction, Depth, Env, Top
<1> QED
  BY <1>1, <1>2, <1>3 DEF LeaveFunction

\* The loop takes the environment of the block off.
LEMMA OneDiscarded ==
  ASSUME TypeOK, NestView, DiscardOne
  PROVE  /\ ~Left /\ Left'
         /\ Saving > 0 /\ Top.by = "newEnv"
         /\ Depth = Saving + 1
         /\ Env(Depth) = curEnv
         /\ Saving' = Saving
         /\ Depth' = Saving
         /\ \A i \in 1..Saving : Env(i)' = Env(i)
<1> USE DepthFacts
<1>1. /\ call.op = "discard"
      /\ Saving > 0
      /\ Top.by = "newEnv"
      /\ ~Left
      /\ Depth = Saving + 1
      /\ Env(Depth) = curEnv
  BY DEF DiscardOne, Discarding, Left, NestView, Depth, Env
<1>2. Env(Saving) = Top.env /\ parentEnv[curEnv] = Top.env
  <2>1. Depth \in 2..Depth /\ Depth - 1 = Saving
    BY <1>1
  <2>2. Env(Saving) = Top.env /\ Top = environToRestore[Saving]
    BY <1>1 DEF Env, Top
  <2> QED
    BY <2>1, <2>2, <1>1 DEF NestView
<1>3. /\ Left'
      /\ Saving' = Saving
      /\ Depth' = Saving
      /\ \A i \in 1..Saving : Env(i)' = Env(i)
  BY <1>1, <1>2 DEF DiscardOne, Left, Top, Saving, Depth, Env
<1> QED
  BY <1>1, <1>3

\* The loop ends at the environment that was saved, which is curEnv then.
LEMMA LoopEnded ==
  ASSUME TypeOK, NestView, DiscardEnd
  PROVE  /\ Left /\ ~Left' /\ call'.op # "discard"
         /\ Saving > 0
         /\ Saving' = Saving - 1
         /\ \A i \in 1..(Saving - 1) : environToRestore'[i] = environToRestore[i]
         /\ Depth = Saving
         /\ Depth' = Depth
         /\ \A i \in 1..Depth : Env(i)' = Env(i)
<1> USE DepthFacts
<1>1. /\ call.op = "discard"
      /\ Saving > 0
      /\ Top.by = "newEnv"
      /\ Top = environToRestore[Saving]
  BY DEF DiscardEnd, NestView, Top
<1>2. Left
  <2>1. SUFFICES ASSUME ~Left PROVE FALSE
    OBVIOUS
  <2>2. Depth = Saving + 1 /\ Env(Depth) = curEnv /\ Env(Saving) = Top.env
    BY <1>1, <2>1 DEF Depth, Env
  <2>3. Depth \in 2..Depth /\ Depth - 1 = Saving
    BY <1>1, <2>2
  <2>4. parentEnv[curEnv] = Top.env
    BY <1>1, <2>2, <2>3 DEF NestView
  <2>5. Top.env # Null /\ curEnv # Top.env
    BY <1>1, <2>1, TopType, NullAssumption DEF Left, Saved
  <2> QED
    BY <2>4, <2>5 DEF DiscardEnd, Discarding
<1>3. /\ Saving' = Saving - 1
      /\ \A i \in 1..(Saving - 1) : environToRestore'[i] = environToRestore[i]
  BY <1>1, Popped DEF DiscardEnd
<1>4. call'.op # "discard" /\ ~Left' /\ Depth = Saving
  BY <1>2 DEF DiscardEnd, NoCall, Loop, Lookup, Left, Depth
<1>5. Depth' = Depth /\ \A i \in 1..Depth : Env(i)' = Env(i)
  BY <1>1, <1>2, <1>3, <1>4 DEF DiscardEnd, Left, Depth, Env
<1> QED
  BY <1>1, <1>2, <1>3, <1>4, <1>5

\* withNewEnviron and the loop of discardEnvsTill keep the links, the saved
\* environments and the allocated ones in step: the heart of the argument.
LEMMA NestingByNesting ==
  ASSUME TypeOK, NestView, NestingStep
  PROVE  NestView'
<1>0. /\ Depth \in Nat
      /\ Depth >= 1
      /\ Saving \in Nat
  BY DepthFacts
<1>1. ASSUME NEW by \in Overload, NEW parent, EnterEnv(by, parent),
             parent = IF by = "newEnv" THEN curEnv ELSE Null
      PROVE  NestView'
  <2>1. PICK e \in EnvId \ live :
          Allocate(e, parent) /\ \A i : i = Depth + 1 => Env(i)' = e
    BY <1>1, Entered
  <2>2. /\ call'.op # "discard"
        /\ Depth = Saving + 1
        /\ Env(Depth) = curEnv
    BY <1>1, Entered
  <2>3. /\ Saving' = Saving + 1
        /\ \A i \in 1..Saving : environToRestore'[i] = environToRestore[i]
        /\ environToRestore'[Depth] = [env |-> curEnv, by |-> by]
    BY <1>1, Entered
  <2>4. /\ Depth' = Depth + 1
        /\ \A i \in 1..Depth : Env(i)' = Env(i)
        /\ \A i : i = Depth + 1 => Env(i)' = e
    BY <1>1, <2>1, Entered
  <2>5. /\ live' = live \cup {e}
        /\ \A d \in live : parentEnv'[d] = parentEnv[d]
        /\ parentEnv'[e] = parent
    BY <2>1 DEF Allocate, TypeOK
  <2>6. \A i \in 1..Depth : Env(i) \in live /\ Env(i) # e
    BY <2>1 DEF NestView
  <2>7. parentEnv'[Env(1)'] = Null
    BY <2>4, <2>5, <2>6, <1>0 DEF NestView
  <2>8. ASSUME NEW i \in 2..Depth'
        PROVE  parentEnv'[Env(i)'] =
                 IF environToRestore'[i - 1].by = "newEnv"
                   THEN Env(i - 1)' ELSE Null
    <3>1. CASE i = Depth + 1
      BY <3>1, <2>2, <2>3, <2>4, <2>5, <1>0, <1>1
    <3>2. CASE i # Depth + 1
      <4>1. i \in 2..Depth /\ i - 1 \in 1..Saving
        BY <3>2, <2>4, <2>2, <1>0
      <4> QED
        BY <4>1, <2>3, <2>4, <2>5, <2>6, <1>0 DEF NestView
    <3> QED
      BY <3>1, <3>2
  <2>9. \A i, j \in 1..Depth' : Env(i)' = Env(j)' => i = j
    <3>1. 1..Depth' = (1..Depth) \cup {Depth + 1}
      BY <2>4, <1>0
    <3> QED
      BY <3>1, <2>4, <2>6 DEF NestView
  <2>10. \A d : d \in live' <=> \E i \in 1..Depth' : d = Env(i)'
    <3>1. 1..Depth' = (1..Depth) \cup {Depth + 1}
      BY <2>4, <1>0
    <3> QED
      BY <3>1, <2>4, <2>5 DEF NestView
  <2> QED
    BY <2>2, <2>7, <2>8, <2>9, <2>10 DEF NestView
<1>2. CASE EnterBlock
  BY <1>2, <1>1 DEF EnterBlock, Overload
<1>3. CASE EnterFunction
  BY <1>3, <1>1 DEF EnterFunction, Overload
<1>4. CASE LeaveBlock
  <2>1. Depth' = Depth /\ Saving' = Saving /\ \A i : Env(i)' = Env(i)
    BY <1>4, BlockLeft
  <2> QED
    BY <1>4, <2>1 DEF LeaveBlock, heap, NestView, Top
<1>5. CASE LeaveFunction
  <2>1. /\ call'.op # "discard"
        /\ Depth = Saving + 1
        /\ Saving >= 1
        /\ Env(Depth) = curEnv
    BY <1>5, FunctionLeft
  <2>2. /\ Saving' = Saving - 1
        /\ \A i \in 1..(Saving - 1) : environToRestore'[i] = environToRestore[i]
    BY <1>5, FunctionLeft
  <2>3. Depth' = Saving /\ \A i \in 1..Saving : Env(i)' = Env(i)
    BY <1>5, FunctionLeft
  <2>4. live' = live \ {curEnv} /\ \A d : d # curEnv /\ d \in live => parentEnv'[d] = parentEnv[d]
    BY <1>5 DEF LeaveFunction, Destroy, TypeOK
  <2>5. /\ 1..Depth = (1..Saving) \cup {Depth}
        /\ \A i \in 1..Saving : i # Depth
    BY <2>1, <1>0
  <2>6. \A i \in 1..Saving : Env(i) # curEnv /\ Env(i) \in live
    BY <2>1, <2>5, <1>0 DEF NestView
  <2>8. parentEnv'[Env(1)'] = Null
    BY <2>1, <2>3, <2>4, <2>6, <1>0 DEF NestView
  <2>9. ASSUME NEW i \in 2..Depth'
        PROVE  parentEnv'[Env(i)'] =
                 IF environToRestore'[i - 1].by = "newEnv"
                   THEN Env(i - 1)' ELSE Null
    <3>1. /\ i \in 2..Depth
          /\ i \in 1..Saving
          /\ i - 1 \in 1..(Saving - 1)
          /\ i - 1 \in 1..Saving
      BY <2>3, <2>1, <1>0
    <3> QED
      BY <3>1, <2>2, <2>3, <2>4, <2>6 DEF NestView
  <2>10. \A i, j \in 1..Depth' : Env(i)' = Env(j)' => i = j
    BY <2>3, <2>5 DEF NestView
  <2>11. \A d : d \in live' <=> \E i \in 1..Depth' : d = Env(i)'
    BY <2>1, <2>3, <2>4, <2>5, <2>6 DEF NestView
  <2> QED
    BY <2>1, <2>8, <2>9, <2>10, <2>11 DEF NestView
<1>6. CASE DiscardOne
  <2>1. /\ Saving > 0
        /\ Top.by = "newEnv"
        /\ Depth = Saving + 1
        /\ Env(Depth) = curEnv
    BY <1>6, OneDiscarded
  <2>3. /\ Saving' = Saving
        /\ Depth' = Saving
        /\ \A i \in 1..Saving : Env(i)' = Env(i)
    BY <1>6, OneDiscarded
  <2>4. /\ live' = live \ {curEnv}
        /\ \A d : d # curEnv /\ d \in live => parentEnv'[d] = parentEnv[d]
    BY <1>6 DEF DiscardOne, Destroy, TypeOK
  <2>5. /\ 1..Depth = (1..Saving) \cup {Depth}
        /\ \A i \in 1..Saving : i # Depth
    BY <2>1, <1>0
  <2>6. \A i \in 1..Saving : Env(i) # curEnv /\ Env(i) \in live
    BY <2>1, <2>5, <1>0 DEF NestView
  <2>7. parentEnv'[Env(1)'] = Null
    BY <2>1, <2>3, <2>4, <2>6, <1>0 DEF NestView
  <2>8. ASSUME NEW i \in 2..Depth'
        PROVE  parentEnv'[Env(i)'] =
                 IF environToRestore'[i - 1].by = "newEnv"
                   THEN Env(i - 1)' ELSE Null
    <3>1. i \in 2..Depth /\ i \in 1..Saving /\ i - 1 \in 1..Saving
      BY <2>3, <2>1, <1>0
    <3> QED
      BY <1>6, <3>1, <2>3, <2>4, <2>6 DEF DiscardOne, NestView
  <2>9. \A i, j \in 1..Depth' : Env(i)' = Env(j)' => i = j
    BY <2>3, <2>5 DEF NestView
  <2>10. \A d : d \in live' <=> \E i \in 1..Depth' : d = Env(i)'
    <3>1. \A d : d \in live <=> d = curEnv \/ \E i \in 1..Saving : d = Env(i)
      BY <2>1, <2>5 DEF NestView
    <3>2. \A d : d \in live' <=> \E i \in 1..Saving : d = Env(i)
      BY <3>1, <2>4, <2>6
    <3> QED
      BY <3>2, <2>3
  <2>11. Saving' > 0 /\ Top'.by = "newEnv"
    BY <1>6, <2>1 DEF DiscardOne, Saving, Top
  <2> QED
    BY <2>7, <2>8, <2>9, <2>10, <2>11 DEF NestView
<1>7. CASE DiscardEnd
  <2>3. /\ Saving' = Saving - 1
        /\ Saving > 0
        /\ \A i \in 1..(Saving - 1) : environToRestore'[i] = environToRestore[i]
    BY <1>7, LoopEnded
  <2>4. call'.op # "discard" /\ Depth = Saving
    BY <1>7, LoopEnded
  <2>5. Depth' = Depth /\ \A i \in 1..Depth : Env(i)' = Env(i)
    BY <1>7, LoopEnded
  <2>6. \A i \in 2..Depth :
          i \in 1..Depth /\ i - 1 \in 1..Depth /\ i - 1 \in 1..(Saving - 1)
    BY <2>4, <1>0
  <2>7. live' = live /\ parentEnv' = parentEnv
    BY <1>7 DEF DiscardEnd, heap
  <2>8. parentEnv'[Env(1)'] = Null
    BY <2>5, <2>7, <1>0 DEF NestView
  <2>9. ASSUME NEW i \in 2..Depth'
        PROVE  parentEnv'[Env(i)'] =
                 IF environToRestore'[i - 1].by = "newEnv"
                   THEN Env(i - 1)' ELSE Null
    <3>1. i \in 2..Depth /\ i \in 1..Depth /\ i - 1 \in 1..Depth
      BY <2>5, <2>6
    <3>2. Env(i)' = Env(i) /\ Env(i - 1)' = Env(i - 1)
      BY <2>5, <3>1
    <3>3. environToRestore'[i - 1] = environToRestore[i - 1]
      BY <2>3, <2>6, <3>1
    <3> QED
      BY <3>1, <3>2, <3>3, <2>7 DEF NestView
  <2>10. /\ \A i, j \in 1..Depth' : Env(i)' = Env(j)' => i = j
         /\ \A d : d \in live' <=> \E i \in 1..Depth' : d = Env(i)'
    BY <2>5, <2>7 DEF NestView
  <2> QED
    BY <2>4, <2>8, <2>9, <2>10 DEF NestView
<1> QED
  BY <1>2, <1>3, <1>4, <1>5, <1>6, <1>7 DEF NestingStep

\* NestView mentions nothing a lookup changes.
LEMMA NestingByLookup ==
  ASSUME TypeOK, NestView, LookupStep
  PROVE  NestView'
<1>1. /\ UNCHANGED <<live, parentEnv, curEnv, environToRestore>>
      /\ call.op # "discard"
      /\ call'.op # "discard"
  BY LookupStepFrame
<1>2. Depth' = Depth /\ \A i : Env(i)' = Env(i)
  BY <1>1, StillOpen
<1> QED
  BY <1>1, <1>2 DEF NestView

\* A lookup starts at the innermost environment and follows the links of one
\* function.
LEMMA LookupByLookup ==
  ASSUME TypeOK, NestView, LookupView, LookupStep
  PROVE  LookupView'
<1>1. /\ UNCHANGED <<live, parentEnv, curEnv, environToRestore>>
      /\ call.op # "discard"
      /\ call'.op # "discard"
  BY LookupStepFrame
<1>2. /\ Depth' = Depth
      /\ Depth = Saving + 1
      /\ \A i : Env(i)' = Env(i)
      /\ \A i : SameFrame(i)' <=> SameFrame(i)
      /\ Saving \in Nat
  BY <1>1, StillOpen, OpenEnvsEntries
<1>3. Depth \in 1..Depth /\ Env(Depth) = curEnv /\ SameFrame(Depth)
  BY <1>2 DEF Env, SameFrame
<1>4. ASSUME NEW op \in LookupOps \ {"reassign"}, NEW x \in Name,
             NEW v \in Value \cup {Null}, Begin(op, x, v)
      PROVE  LookupView'
  <2>1. call' = Lookup(op, x, v, curEnv) /\ objects' = objects
    BY <1>4 DEF Begin, heap
  <2> QED
    BY <2>1, <1>2, <1>3 DEF LookupView, Lookup
<1>5. CASE WalkUp
  <2>1. PICK i \in 1..Depth :
          /\ call.at = Env(i)
          /\ SameFrame(i)
          /\ \A k \in (i + 1)..Depth : objects[Env(k)][call.token] = Absent
    BY <1>5 DEF WalkUp, LookupView
  <2>2. /\ call' = Lookup(call.op, call.token, call.object, parentEnv[Env(i)])
        /\ objects' = objects
        /\ parentEnv[Env(i)] # Null
        /\ objects[Env(i)][call.token] = Absent
    BY <1>5, <2>1 DEF WalkUp, AtRoot, Hit, heap
  <2>3. i \in 2..Depth /\ i - 1 \in 1..Depth /\ i - 1 \in 1..Saving
    BY <2>1, <2>2, <1>2 DEF NestView
  <2>4. environToRestore[i - 1].by = "newEnv" /\ parentEnv[Env(i)] = Env(i - 1)
    BY <2>2, <2>3 DEF NestView
  <2>5. SameFrame(i - 1)
    BY <2>1, <2>3, <2>4, <1>2 DEF SameFrame
  <2>6. \A k \in ((i - 1) + 1)..Depth : objects[Env(k)][call.token] = Absent
    BY <2>1, <2>2, <2>3, <1>2
  <2> QED
    BY <2>2, <2>3, <2>4, <2>5, <2>6, <1>2 DEF LookupView, Lookup
<1>6. CASE DefineFound
  <2>1. PICK i \in 1..Depth :
          /\ call.at = Env(i)
          /\ SameFrame(i)
    BY <1>6 DEF DefineFound, LookupView, Walking, LookupOps
  <2>2. /\ call' = Lookup("reassign", call.token, call.object, curEnv)
        /\ objects' = objects
        /\ objects[Env(i)][call.token] # Absent
    BY <1>6, <2>1 DEF DefineFound, Hit, heap
  <2> QED
    BY <2>1, <2>2, <1>2, <1>3 DEF LookupView, Lookup
<1>7. ASSUME ~Walking'
      PROVE  LookupView'
  BY <1>7 DEF LookupView, Walking, LookupOps
<1>8. CASE ReturnGet \/ ReturnContains \/ StoreAssign \/ Throw \/ DefineFresh
  BY <1>8, <1>7 DEF ReturnGet, ReturnContains, StoreAssign, Throw, DefineFresh,
                   Return, NoCall, Loop, Lookup, Walking, LookupOps
<1> QED
  BY <1>4, <1>5, <1>6, <1>8 DEF LookupStep

\* The invariant holds of a new manager.
LEMMA InductiveInit == Init => IInv
<1> SUFFICES ASSUME Init PROVE IInv
  OBVIOUS
<1>1. TypeOK
  BY TypeInit
<1>2. Saving = 0 /\ Depth = 1 /\ \A i \in 1..1 : Env(i) = curEnv
  BY DEF Init, Saving, Depth, Env, Left, NoCall, Loop, Lookup
<1>3. call.op = "none"
  BY DEF Init, NoCall, Loop, Lookup
<1>4. NestView
  BY <1>2, <1>3, <1>1 DEF Init, NestView, TypeOK
<1>5. LookupView
  BY <1>3 DEF LookupView, Walking, LookupOps
<1> QED
  BY <1>1, <1>4, <1>5, Views DEF IInv

\* Every step of an operation keeps the invariant.
LEMMA InductiveNext == IInv /\ [Next]_vars => IInv'
<1> SUFFICES ASSUME IInv, [Next]_vars PROVE IInv'
  OBVIOUS
<1>1. TypeOK /\ NestView /\ LookupView
  BY Views DEF IInv
<1>2. TypeOK'
  BY TypeNext DEF IInv
<1>3. ASSUME LookupStep PROVE NestView' /\ LookupView'
  BY <1>1, <1>3, NestingByLookup, LookupByLookup
<1>4. ASSUME NestingStep PROVE NestView' /\ LookupView'
  <2>1. NestView'
    BY <1>1, <1>4, NestingByNesting
  <2>2. ~Walking'
    BY <1>4, NestingStepFrame
  <2>3. LookupView'
    BY <2>2 DEF LookupView, Walking, LookupOps
  <2> QED
    BY <2>1, <2>3
<1>5. ASSUME UNCHANGED vars PROVE NestView' /\ LookupView'
  BY <1>1, <1>5 DEF vars, NestView, LookupView, Depth, Env, Left, Saving, Top,
                    SameFrame, Walking
<1>6. NestView' /\ LookupView'
  BY <1>3, <1>4, <1>5, TwoKindsOfStep
<1>7. (TypeOK => /\ NestingInv /\ NoLeak <=> NestView
                 /\ LookupInFrame /\ ReassignFinds <=> LookupView)'
  BY Views, PTL
<1> QED
  BY <1>2, <1>6, <1>7 DEF IInv

\* The invariant holds in every run: types, nesting, allocation, the position of a
\* lookup and what the second walk of defineOrAssign relies on.
THEOREM Inductive == Spec => []IInv
<1>1. Init => IInv
  BY InductiveInit
<1>2. IInv /\ [Next]_vars => IInv'
  BY InductiveNext
<1> QED
  BY <1>1, <1>2, PTL DEF Spec

\* The locals of withNewEnviron and the parentEnv links describe one nesting, in
\* every run.
THEOREM NestingCorrect == Spec => []NestingInv
BY Inductive, PTL DEF IInv

\* Exactly the environments of the open scopes are allocated, in every run: none
\* leaks and none is used after its destruction.
THEOREM AllocationCorrect == Spec => []NoLeak
BY Inductive, PTL DEF IInv

\* A lookup stays in the running function and passes no binding of its name.
THEOREM LookupCorrect == Spec => []LookupInFrame
BY Inductive, PTL DEF IInv

\* No single step takes a define to the throw of UndefVarAccess.
LEMMA DefineStep ==
  IInv /\ [Next]_vars =>
    [call.op \in {"define", "reassign"} => call'.op # "thrown"]_vars
<1> SUFFICES ASSUME IInv, Next, call.op \in {"define", "reassign"},
                    call'.op = "thrown"
             PROVE  FALSE
  BY DEF vars
<1>1. TypeOK /\ NestView /\ LookupView
  BY Views DEF IInv
<1>2. Throw
  BY DEF Next, Operations, Steps, Begin, EnterBlock, EnterFunction, EnterEnv,
         LeaveBlock, LeaveFunction, Idle, WalkUp, ReturnGet, ReturnContains,
         StoreAssign, DefineFound, DefineFresh, DiscardOne, DiscardEnd, Return,
         NoCall, Loop, Lookup
<1>3. call.op = "reassign" /\ ~Hit /\ AtRoot
  BY <1>2 DEF Throw, Missed
<1>4. PICK i \in 1..Depth :
        /\ call.at = Env(i)
        /\ \A k \in (i + 1)..Depth : objects[Env(k)][call.token] = Absent
  BY <1>1, <1>3 DEF LookupView, Walking, LookupOps
<1>5. PICK j \in 1..Depth :
        SameFrame(j) /\ objects[Env(j)][call.token] # Absent
  BY <1>1, <1>3 DEF LookupView
<1>6. Depth \in Nat /\ Saving \in Nat /\ Depth <= Saving + 1
  BY <1>1, OpenEnvsEntries DEF Depth
<1>7. j < i
  BY <1>3, <1>4, <1>5, <1>6 DEF Hit
<1>8. i \in 2..Depth /\ i - 1 \in j..Saving /\ i - 1 \in 1..Depth
  BY <1>6, <1>7
<1>9. parentEnv[Env(i)] = Env(i - 1)
  BY <1>1, <1>5, <1>8 DEF NestView, SameFrame
<1>10. Env(i - 1) \in EnvId
  BY <1>1, <1>8 DEF NestView, TypeOK
<1> QED
  BY <1>3, <1>4, <1>9, <1>10, NullAssumption DEF AtRoot

\* defineOrAssign never lets UndefVarAccess out, whatever was defined before.
THEOREM DefineCorrect == Spec => DefineNeverThrows
<1>1. IInv /\ [Next]_vars =>
        [call.op \in {"define", "reassign"} => call'.op # "thrown"]_vars
  BY DefineStep
<1> QED
  BY <1>1, Inductive, PTL DEF Spec, DefineNeverThrows

-----------------------------------------------------------------------------
(***************************************************************************)
(* The pointers implement the block structure of LexicalScopes.  A         *)
(* visitor's operation is one step there: the step that answers it here;   *)
(* the steps along parentEnv before it, and the end of the loop of         *)
(* discardEnvsTill, change nothing there.                                  *)
(***************************************************************************)

\* The refinement needs one fact more: after UndefVarAccess nothing happens.
Over == result = Undef => call = Loop("thrown")
RefineInv == IInv /\ Over

\* An operation that answers does not answer with the exception.
LEMMA Answers ==
  /\ Done # Undef
  /\ \A v : <<"value", v>> # Undef /\ <<"bool", v>> # Undef
BY DEF Done, Undef

\* Nothing runs once the exception is thrown, and only Throw throws it.
LEMMA OverNext ==
  ASSUME Over, Next
  PROVE  Over' /\ result # Undef
<1> USE Answers
<1>1. \A op, x, v : Begin(op, x, v) => Over' /\ result # Undef
  BY DEF Begin, Idle, NoCall, Loop, Lookup, Over
<1>2. EnterBlock \/ EnterFunction \/ LeaveFunction => Over' /\ result # Undef
  BY DEF EnterBlock, EnterFunction, EnterEnv, LeaveFunction, Idle, NoCall,
         Loop, Lookup, Over
<1>3. LeaveBlock \/ WalkUp \/ DefineFound \/ DiscardOne \/ DiscardEnd
        => Over' /\ result # Undef
  BY DEF LeaveBlock, WalkUp, Walking, LookupOps, DefineFound, DiscardOne,
         DiscardEnd, Idle, NoCall, Loop, Lookup, Over
<1>4. ReturnGet \/ ReturnContains \/ StoreAssign \/ Throw \/ DefineFresh
        => Over' /\ result # Undef
  BY DEF ReturnGet, ReturnContains, StoreAssign, Throw, DefineFresh, Return,
         NoCall, Loop, Lookup, Over
<1> QED
  BY <1>1, <1>2, <1>3, <1>4 DEF Next, Operations, Steps

\* The inductive invariant of the refinement.
LEMMA RefineInductive == Spec => []RefineInv
<1>1. Init => Over
  BY Answers DEF Init, Over
<1>2. Over /\ [Next]_vars => Over'
  BY OverNext DEF vars, Over
<1> QED
  BY <1>1, <1>2, Inductive, PTL DEF Spec, RefineInv

-----------------------------------------------------------------------------
\* The abstract scopes, entry by entry.
IsGlobal(i) == i = 1 \/ environToRestore[i - 1].by = "givenEnv"
ScopeOf(i) == [objects |-> objects[Env(i)], global |-> IsGlobal(i)]

LEMMA OpenScopesEntries ==
  TypeOK => /\ OpenScopes \in Seq(Scope(Value))
            /\ Len(OpenScopes) = Depth
            /\ Depth \in Nat
            /\ OpenScopes = [i \in 1..Depth |-> ScopeOf(i)]
            /\ \A i \in 1..Depth : OpenScopes[i] = ScopeOf(i) /\ Env(i) \in EnvId
<1> SUFFICES ASSUME TypeOK
             PROVE  /\ OpenScopes \in Seq(Scope(Value))
                    /\ Len(OpenScopes) = Depth
                    /\ Depth \in Nat
                    /\ OpenScopes = [i \in 1..Depth |-> ScopeOf(i)]
                    /\ \A i \in 1..Depth :
                         OpenScopes[i] = ScopeOf(i) /\ Env(i) \in EnvId
  OBVIOUS
<1>1. /\ DOMAIN OpenEnvs = 1..Depth
      /\ Depth \in Nat
      /\ OpenEnvs \in Seq(EnvId)
      /\ \A i \in 1..Depth : OpenEnvs[i] = Env(i)
  BY OpenEnvsEntries
<1>2. \A i \in 1..Depth : Env(i) \in EnvId
  BY <1>1
<1>3. /\ OpenScopes = [i \in 1..Depth |-> ScopeOf(i)]
      /\ \A i \in 1..Depth : OpenScopes[i] = ScopeOf(i)
  BY <1>1 DEF OpenScopes, ScopeOf, IsGlobal
<1>4. \A i \in 1..Depth : ScopeOf(i) \in Scope(Value)
  BY <1>2 DEF ScopeOf, IsGlobal, Scope, TypeOK
<1>5. OpenScopes \in [1..Depth -> Scope(Value)]
  BY <1>3, <1>4
<1> QED
  BY <1>1, <1>2, <1>3, <1>5

\* The operators of the instance are those of Scopes.
LEMMA SameScopes ==
  /\ \A s, x : Lexical!contains(s, x) = contains(s, x)
  /\ \A s, x : Lexical!get(s, x) = get(s, x)
  /\ \A s, x, v : Lexical!assign(s, x, v) = assign(s, x, v)
  /\ \A s, x, v : Lexical!defineOrAssign(s, x, v) = defineOrAssign(s, x, v)
  /\ \A s, g : Lexical!Enter(s, g) = Enter(s, g)
  /\ \A s : Lexical!Leave(s) = Leave(s)
  /\ Lexical!Done = Done
  /\ Lexical!Undef = Undef
BY DEF Lexical!contains, contains, Lexical!get, get, Lexical!assign, assign,
       Lexical!defineOrAssign, defineOrAssign, Lexical!Enter, Enter,
       Lexical!Leave, Leave, Lexical!Holders, Holders, Lexical!Holder, Holder,
       Lexical!Visible, Visible, Lexical!Bind, Bind, Lexical!Opened, Opened,
       Lexical!Empty, Empty, Lexical!Done, Done, Lexical!Undef, Undef

-----------------------------------------------------------------------------
(***************************************************************************)
(* The lookups: what a walk has found is what the abstract scopes hold.    *)
(***************************************************************************)

\* A lookup sees the scopes of the running function.
LEMMA VisibleIsFrame ==
  ASSUME TypeOK, ~Left
  PROVE  /\ Depth = Saving + 1
         /\ \A i \in 1..Depth : i \in Visible(OpenScopes) <=> SameFrame(i)
<1>1. Depth = Saving + 1 /\ Saving \in Nat
  BY OpenEnvsEntries DEF Depth
<1>2. \A k \in 1..Saving : environToRestore[k].by \in Overload
  BY OpenEnvsEntries DEF Saved
<1>3. \A k \in 2..Depth : OpenScopes[k].global <=> environToRestore[k - 1].by # "newEnv"
  <2> SUFFICES ASSUME NEW k \in 2..Depth
               PROVE  OpenScopes[k].global <=> environToRestore[k - 1].by # "newEnv"
    OBVIOUS
  <2>1. k - 1 \in 1..Saving /\ k # 1 /\ k \in 1..Depth
    BY <1>1
  <2>2. OpenScopes[k].global <=> environToRestore[k - 1].by = "givenEnv"
    <3>1. OpenScopes[k] = ScopeOf(k)
      BY <2>1, OpenScopesEntries
    <3>2. IsGlobal(k) = (environToRestore[k - 1].by = "givenEnv")
      BY <2>1 DEF IsGlobal
    <3>3. OpenScopes[k].global = IsGlobal(k)
      BY <3>1 DEF ScopeOf
    <3> QED
      BY <3>2, <3>3
  <2> QED
    BY <2>1, <2>2, <1>2 DEF Overload
<1>4. ASSUME NEW i \in 1..Depth
      PROVE  i \in Visible(OpenScopes) <=> SameFrame(i)
  <2>1. i \in Visible(OpenScopes) <=> \A k \in (i + 1)..Depth : ~OpenScopes[k].global
    BY OpenScopesEntries DEF Visible
  <2>2. \A k \in (i + 1)..Depth :
          OpenScopes[k].global <=> environToRestore[k - 1].by # "newEnv"
    <3>1. \A k \in (i + 1)..Depth : k \in 2..Depth
      BY <1>1
    <3> QED
      BY <1>3, <3>1
  <2>3. (\A k \in (i + 1)..Depth : environToRestore[k - 1].by = "newEnv")
        <=> SameFrame(i)
    <3>1. ASSUME \A k \in (i + 1)..Depth : environToRestore[k - 1].by = "newEnv",
                 NEW j \in i..Saving
          PROVE  environToRestore[j].by = "newEnv"
      <4>1. j + 1 \in (i + 1)..Depth /\ (j + 1) - 1 = j
        BY <1>1
      <4> QED
        BY <3>1, <4>1
    <3>2. ASSUME SameFrame(i), NEW k \in (i + 1)..Depth
          PROVE  environToRestore[k - 1].by = "newEnv"
      BY <3>2, <1>1 DEF SameFrame
    <3> QED
      BY <3>1, <3>2 DEF SameFrame
  <2> QED
    BY <2>1, <2>2, <2>3
<1> QED
  BY <1>1, <1>4

\* The environment a lookup is at, and what it passed.
LEMMA WhereLookupIs ==
  ASSUME IInv, Walking
  PROVE  /\ ~Left
         /\ call.token \in Name
         /\ \E i \in Visible(OpenScopes) :
              /\ i \in 1..Depth
              /\ call.at = Env(i)
              /\ OpenScopes[i].objects = objects[call.at]
              /\ \A k \in (i + 1)..Depth :
                   OpenScopes[k].objects[call.token] = Absent
<1>1. TypeOK /\ NestView /\ LookupView
  BY Views DEF IInv
<1>2. ~Left /\ call.token \in Name
  BY <1>1, InLookup DEF Left, Walking, LookupOps, Lookups
<1>3. PICK i \in 1..Depth :
        /\ call.at = Env(i)
        /\ SameFrame(i)
        /\ \A k \in (i + 1)..Depth : objects[Env(k)][call.token] = Absent
  BY <1>1 DEF LookupView
<1>4. i \in Visible(OpenScopes)
  BY <1>1, <1>2, <1>3, VisibleIsFrame
<1>5. \A k \in (i + 1)..Depth : k \in 1..Depth
  BY <1>1, OpenScopesEntries
<1> QED
  BY <1>1, <1>2, <1>3, <1>4, <1>5, OpenScopesEntries DEF ScopeOf

\* A walk that finds the name is at the innermost binding of it.
LEMMA HitFinds ==
  ASSUME IInv, Walking, Hit
  PROVE  /\ contains(OpenScopes, call.token)
         /\ get(OpenScopes, call.token) = objects[call.at][call.token]
         /\ Holder(OpenScopes, call.token) \in 1..Depth
         /\ Env(Holder(OpenScopes, call.token)) = call.at
<1>1. PICK i \in Visible(OpenScopes) :
        /\ i \in 1..Depth
        /\ call.at = Env(i)
        /\ OpenScopes[i].objects = objects[call.at]
        /\ \A k \in (i + 1)..Depth : OpenScopes[k].objects[call.token] = Absent
  BY WhereLookupIs
<1>2. OpenScopes \in Seq(Scope(Value)) /\ Len(OpenScopes) = Depth /\ Depth \in Nat
  BY OpenScopesEntries DEF IInv
<1>3. i \in Holders(OpenScopes, call.token)
  BY <1>1 DEF Hit, Holders
<1>4. \A j \in Holders(OpenScopes, call.token) : j <= i
  BY <1>1, <1>2, VisibleScopes DEF Holders
<1>5. contains(OpenScopes, call.token) /\ Holder(OpenScopes, call.token) = i
  BY <1>2, <1>3, <1>4, HolderIs
<1> QED
  BY <1>1, <1>5 DEF get

\* A walk that ends without the name has seen all the scopes a lookup may see.
LEMMA MissFindsNothing ==
  ASSUME IInv, Walking, Missed
  PROVE  ~contains(OpenScopes, call.token)
<1>1. PICK i \in Visible(OpenScopes) :
        /\ i \in 1..Depth
        /\ call.at = Env(i)
        /\ OpenScopes[i].objects = objects[call.at]
        /\ \A k \in (i + 1)..Depth : OpenScopes[k].objects[call.token] = Absent
  BY WhereLookupIs
<1>2. /\ TypeOK
      /\ NestView
      /\ ~Left
      /\ OpenScopes \in Seq(Scope(Value))
      /\ Len(OpenScopes) = Depth
      /\ Depth \in Nat
      /\ Saving \in Nat
      /\ Depth = Saving + 1
  BY OpenScopesEntries, OpenEnvsEntries, WhereLookupIs, VisibleIsFrame, Views
  DEF IInv
<1>3. OpenScopes[i].objects[call.token] = Absent
  BY <1>1 DEF Missed, Hit
<1>4. ASSUME NEW j \in Visible(OpenScopes), j < i
      PROVE  FALSE
  <2>1. j \in 1..Depth /\ SameFrame(j)
    BY <1>2, VisibleScopes, VisibleIsFrame
  <2>2. i \in 2..Depth /\ i - 1 \in j..Saving /\ i - 1 \in 1..Depth
    BY <1>1, <1>2, <1>4, <2>1
  <2>3. parentEnv[Env(i)] = Env(i - 1)
    BY <1>2, <2>1, <2>2 DEF NestView, SameFrame
  <2>4. Env(i - 1) \in EnvId
    BY <1>2, <2>2, OpenScopesEntries
  <2> QED
    BY <1>1, <2>3, <2>4, NullAssumption DEF Missed, AtRoot
<1>5. \A j \in Visible(OpenScopes) : j \in 1..Depth
  BY <1>2, VisibleScopes
<1>6. ASSUME NEW j \in Visible(OpenScopes)
      PROVE  OpenScopes[j].objects[call.token] = Absent
  <2>1. j = i \/ j \in (i + 1)..Depth
    BY <1>1, <1>2, <1>4, <1>5
  <2> QED
    BY <1>1, <1>3, <2>1
<1> QED
  BY <1>6 DEF contains, Holders

-----------------------------------------------------------------------------
(***************************************************************************)
(* The steps.                                                              *)
(***************************************************************************)

\* The abstract scopes after a step, entry by entry.
LEMMA OpenScopesAfter ==
  ASSUME TypeOK'
  PROVE  OpenScopes' = [i \in 1..Depth' |-> ScopeOf(i)']
<1>1. (TypeOK => OpenScopes = [i \in 1..Depth |-> ScopeOf(i)])'
  BY OpenScopesEntries, PTL
<1> QED
  BY <1>1

\* Where no environment comes or goes and no object changes, the scopes stay.
LEMMA ScopesStay ==
  ASSUME TypeOK, TypeOK', Depth' = Depth,
         \A i \in 1..Depth : Env(i)' = Env(i),
         \A i \in 1..(Depth - 1) : environToRestore'[i] = environToRestore[i],
         objects' = objects
  PROVE  OpenScopes' = OpenScopes
<1>1. \A i \in 1..Depth : ScopeOf(i)' = ScopeOf(i)
  <2> SUFFICES ASSUME NEW i \in 1..Depth PROVE ScopeOf(i)' = ScopeOf(i)
    OBVIOUS
  <2>1. i = 1 \/ i - 1 \in 1..(Depth - 1)
    BY OpenScopesEntries
  <2> QED
    BY <2>1 DEF ScopeOf, IsGlobal
<1> QED
  BY <1>1, OpenScopesEntries, OpenScopesAfter

\* An object stored in an open environment is stored in its scope.
LEMMA ScopesStore ==
  ASSUME TypeOK, TypeOK', NestView, Depth' = Depth,
         \A i : Env(i)' = Env(i), environToRestore' = environToRestore,
         NEW h \in 1..Depth, NEW x \in Name, NEW v \in Value,
         objects' = [objects EXCEPT ![Env(h)][x] = v]
  PROVE  OpenScopes' = Bind(OpenScopes, h, x, v)
<1>1. \A i \in 1..Depth : i # h => Env(i) # Env(h)
  BY DEF NestView
<1>2. \A i \in 1..Depth : Env(i) \in EnvId
  BY OpenScopesEntries
<1>3. ASSUME NEW i \in 1..Depth
      PROVE  ScopeOf(i)' = IF i = h THEN [ScopeOf(i) EXCEPT !.objects[x] = v]
                                    ELSE ScopeOf(i)
  <2>1. objects'[Env(i)] = IF i = h THEN [objects[Env(i)] EXCEPT ![x] = v]
                                    ELSE objects[Env(i)]
    BY <1>1, <1>2 DEF TypeOK
  <2>2. IsGlobal(i)' = IsGlobal(i)
    BY DEF IsGlobal
  <2>3. ScopeOf(i)' = [objects |-> objects'[Env(i)], global |-> IsGlobal(i)]
    BY <2>2 DEF ScopeOf
  <2> QED
    BY <2>1, <2>3 DEF ScopeOf
<1>4. OpenScopes' = [i \in 1..Depth |-> ScopeOf(i)']
  BY OpenScopesAfter
<1>5. Bind(OpenScopes, h, x, v) =
        [i \in 1..Depth |-> IF i = h THEN [ScopeOf(i) EXCEPT !.objects[x] = v]
                                     ELSE ScopeOf(i)]
  BY OpenScopesEntries DEF Bind
<1> QED
  BY <1>3, <1>4, <1>5

\* What a lookup does to the environments, and what it may rely on.
LEMMA LookupFrame ==
  ASSUME RefineInv, LookupStep
  PROVE  /\ TypeOK /\ NestView /\ ~Left
         /\ environToRestore' = environToRestore
         /\ Depth' = Depth
         /\ Depth = Saving + 1
         /\ \A i : Env(i)' = Env(i)
         /\ Depth \in 1..Depth
         /\ Env(Depth) = curEnv
         /\ Len(OpenScopes) = Depth
<1>1. TypeOK /\ NestView
  BY Views DEF RefineInv, IInv
<1>2. /\ UNCHANGED <<live, parentEnv, curEnv, environToRestore>>
      /\ call.op # "discard"
      /\ call'.op # "discard"
  BY LookupStepFrame
<1>3. /\ Depth' = Depth
      /\ Depth = Saving + 1
      /\ \A i : Env(i)' = Env(i)
  BY <1>1, <1>2, StillOpen
<1> QED
  BY <1>1, <1>2, <1>3, OpenEnvsEntries, OpenScopesEntries DEF Left, Env

\* The begin of a lookup, its way along the parents and the answer of the first
\* walk of defineOrAssign show nowhere.
LEMMA LookupStutters ==
  ASSUME RefineInv, TypeOK',
         WalkUp \/ DefineFound \/
           \E op \in LookupOps \ {"reassign"}, x \in Name, v \in Value \cup {Null} :
             Begin(op, x, v)
  PROVE  UNCHANGED Lexical!vars
<1>1. LookupStep
  BY DEF LookupStep
<1>2. objects' = objects /\ result' = result
  BY DEF WalkUp, DefineFound, Begin, heap
<1>3. OpenScopes' = OpenScopes
  BY <1>1, <1>2, LookupFrame, ScopesStay
<1> QED
  BY <1>2, <1>3 DEF Lexical!vars

\* A lookup that answers without storing is Get or Contains; the throw of an
\* assign leaves what the throw of a get does.
LEMMA ReadRefines ==
  ASSUME RefineInv, TypeOK', Next, ReturnGet \/ ReturnContains \/ Throw
  PROVE  Lexical!Next
<1> USE SameScopes
<1>1. LookupStep
  BY DEF LookupStep
<1>2. objects' = objects /\ Walking /\ call.token \in Name
  BY InLookup DEF ReturnGet, ReturnContains, Throw, heap, Walking, LookupOps,
                  RefineInv, IInv, Lookups
<1>3. OpenScopes' = OpenScopes
  BY <1>1, <1>2, LookupFrame, ScopesStay
<1>4. Lexical!Alive
  BY OverNext DEF RefineInv, Lexical!Alive
<1>5. CASE ReturnGet
  <2>1. Lexical!Get(call.token)
    BY <1>2, <1>3, <1>5, HitFinds DEF ReturnGet, Return, RefineInv, Lexical!Get
  <2> QED
    BY <1>2, <1>4, <2>1 DEF Lexical!Next
<1>6. CASE ReturnContains
  <2>1. contains(OpenScopes, call.token) = Hit
    BY <1>2, <1>6, HitFinds, MissFindsNothing
    DEF ReturnContains, Missed, RefineInv, contains, Hit
  <2>2. Lexical!Contains(call.token)
    BY <1>2, <1>3, <1>6, <2>1 DEF ReturnContains, Return, Lexical!Contains
  <2> QED
    BY <1>2, <1>4, <2>2 DEF Lexical!Next
<1>7. CASE Throw
  <2>1. ~contains(OpenScopes, call.token)
    BY <1>2, <1>7, MissFindsNothing DEF Throw, RefineInv
  <2>2. Lexical!Get(call.token)
    BY <1>2, <1>3, <1>7, <2>1 DEF Throw, Lexical!Get
  <2> QED
    BY <1>2, <1>4, <2>2 DEF Lexical!Next
<1> QED
  BY <1>5, <1>6, <1>7

\* A lookup that stores is Assign or Define, whatever walk took it there.
LEMMA StoreRefines ==
  ASSUME RefineInv, TypeOK', Next, StoreAssign \/ DefineFresh
  PROVE  Lexical!Next
<1> USE SameScopes
<1>1. LookupStep
  BY DEF LookupStep
<1>2. /\ Walking
      /\ call.token \in Name
      /\ call.object \in Value
      /\ result' = Done
  BY InLookup DEF StoreAssign, DefineFresh, Return, Walking, LookupOps, Storing,
                  RefineInv, IInv, TypeOK, Lookups
<1>3. Lexical!Alive
  BY OverNext DEF RefineInv, Lexical!Alive
<1>4. CASE StoreAssign
  <2> DEFINE h == Holder(OpenScopes, call.token)
  <2>1. contains(OpenScopes, call.token) /\ h \in 1..Depth /\ Env(h) = call.at
    BY <1>2, <1>4, HitFinds DEF StoreAssign, RefineInv
  <2>2. objects' = [objects EXCEPT ![Env(h)][call.token] = call.object]
    BY <1>4, <2>1 DEF StoreAssign, Store
  <2> HIDE DEF h
  <2>3. OpenScopes' = Bind(OpenScopes, h, call.token, call.object)
    BY <1>1, <1>2, <2>1, <2>2, LookupFrame, ScopesStore
  <2>4. OpenScopes' = assign(OpenScopes, call.token, call.object)
    BY <2>3 DEF assign, h
  <2>5. Lexical!Assign(call.token, call.object)
    BY <1>2, <2>1, <2>4 DEF Lexical!Assign
  <2> QED
    BY <1>2, <1>3, <2>5 DEF Lexical!Next
<1>5. CASE DefineFresh
  <2>1. ~contains(OpenScopes, call.token)
    BY <1>2, <1>5, MissFindsNothing DEF DefineFresh, RefineInv
  <2>2. objects' = [objects EXCEPT ![Env(Depth)][call.token] = call.object]
    BY <1>1, <1>5, LookupFrame DEF DefineFresh, Store
  <2>3. OpenScopes' = Bind(OpenScopes, Depth, call.token, call.object)
    BY <1>1, <1>2, <2>2, LookupFrame, ScopesStore
  <2>4. OpenScopes' = defineOrAssign(OpenScopes, call.token, call.object)
    BY <1>1, <2>1, <2>3, LookupFrame DEF defineOrAssign
  <2>5. Lexical!Define(call.token, call.object)
    BY <1>2, <2>4 DEF Lexical!Define
  <2> QED
    BY <1>2, <1>3, <2>5 DEF Lexical!Next
<1> QED
  BY <1>4, <1>5

\* Entering opens a scope: of a block a child, of a function one of its own.
LEMMA EnterRefines ==
  ASSUME RefineInv, TypeOK', Next, EnterBlock \/ EnterFunction
  PROVE  Lexical!Next
<1> USE SameScopes
<1>1. TypeOK /\ NestView /\ Lexical!Alive
  BY OverNext, Views DEF RefineInv, IInv, Lexical!Alive
<1>2. PICK by \in Overload, parent \in {curEnv, Null} : EnterEnv(by, parent)
  BY DEF EnterBlock, EnterFunction, Overload
<1>3. PICK e \in EnvId \ live :
        Allocate(e, parent) /\ \A i : i = Depth + 1 => Env(i)' = e
  BY <1>1, <1>2, Entered
<1>4. /\ Depth = Saving + 1
      /\ \A i \in 1..Saving : environToRestore'[i] = environToRestore[i]
      /\ environToRestore'[Depth] = [env |-> curEnv, by |-> by]
      /\ Depth' = Depth + 1
      /\ \A i \in 1..Depth : Env(i)' = Env(i)
  BY <1>1, <1>2, Entered
<1>5. Depth \in Nat /\ Depth >= 1 /\ Saving \in Nat
  BY <1>1, DepthFacts
<1>6. ASSUME NEW i \in 1..Depth
      PROVE  ScopeOf(i)' = ScopeOf(i)
  <2>1. Env(i) \in live /\ Env(i) # e
    BY <1>1, <1>3 DEF NestView
  <2>2. objects'[Env(i)] = objects[Env(i)]
    BY <1>1, <1>3, <2>1 DEF Allocate, TypeOK
  <2>3. i = 1 \/ i - 1 \in 1..Saving
    BY <1>4, <1>5
  <2>4. IsGlobal(i)' = IsGlobal(i)
    BY <1>4, <2>3 DEF IsGlobal
  <2> QED
    BY <1>4, <2>2, <2>4 DEF ScopeOf
<1>7. ASSUME NEW i, i = Depth + 1
      PROVE  ScopeOf(i)' = Opened(by = "givenEnv")
  <2>1. objects'[Env(i)'] = Empty
    BY <1>1, <1>3, <1>7 DEF Allocate, TypeOK
  <2>2. i # 1 /\ i - 1 = Depth
    BY <1>5, <1>7
  <2>3. IsGlobal(i)' = (by = "givenEnv")
    BY <1>4, <2>2 DEF IsGlobal
  <2> QED
    BY <2>1, <2>3 DEF ScopeOf, Opened
<1>8. OpenScopes' = [i \in 1..(Depth + 1) |->
                       IF i = Depth + 1 THEN Opened(by = "givenEnv") ELSE ScopeOf(i)]
  <2>1. \A i \in 1..(Depth + 1) : i # Depth + 1 => i \in 1..Depth
    BY <1>5
  <2> QED
    BY <1>4, <1>6, <1>7, <2>1, OpenScopesAfter
<1>9. Enter(OpenScopes, by = "givenEnv") =
        [i \in 1..(Depth + 1) |->
           IF i = Depth + 1 THEN Opened(by = "givenEnv") ELSE ScopeOf(i)]
  BY <1>1, <1>5, OpenScopesEntries DEF Enter
<1>10. result' = Done
  BY <1>2 DEF EnterEnv
<1>11. Lexical!EnterScope(by = "givenEnv")
  BY <1>8, <1>9, <1>10 DEF Lexical!EnterScope
<1> QED
  BY <1>1, <1>11 DEF Lexical!Next

\* Taking the innermost environment off leaves the scope it implements.
LEMMA LeaveRefines ==
  ASSUME RefineInv, TypeOK', Next, LeaveFunction \/ DiscardOne
  PROVE  Lexical!Next
<1> USE SameScopes
<1>1. TypeOK /\ NestView /\ Lexical!Alive
  BY OverNext, Views DEF RefineInv, IInv, Lexical!Alive
<1>2. /\ Depth = Saving + 1
      /\ Saving >= 1
      /\ Env(Depth) = curEnv
      /\ Depth' = Saving
      /\ \A i \in 1..(Saving - 1) : environToRestore'[i] = environToRestore[i]
      /\ \A i \in 1..Saving : Env(i)' = Env(i)
  <2>1. CASE LeaveFunction
    BY <1>1, <2>1, FunctionLeft
  <2>2. CASE DiscardOne
    BY <1>1, <2>2, OneDiscarded, DepthFacts DEF DiscardOne
  <2> QED
    BY <2>1, <2>2
<1>3. Destroy(curEnv) /\ result' = Done
  BY DEF LeaveFunction, DiscardOne
<1>4. Depth \in Nat /\ Saving \in Nat
  BY <1>1, DepthFacts
<1>5. ASSUME NEW i \in 1..Saving
      PROVE  ScopeOf(i)' = ScopeOf(i)
  <2>1. i \in 1..Depth /\ i # Depth
    BY <1>2, <1>4
  <2>2. Env(i) # curEnv
    BY <1>1, <1>2, <1>4, <2>1 DEF NestView
  <2>3. objects'[Env(i)] = objects[Env(i)]
    BY <1>1, <1>3, <2>1, <2>2, OpenScopesEntries DEF Destroy, TypeOK
  <2>4. i = 1 \/ i - 1 \in 1..(Saving - 1)
    BY <1>4
  <2>5. IsGlobal(i)' = IsGlobal(i)
    BY <1>2, <2>4 DEF IsGlobal
  <2> QED
    BY <1>2, <2>3, <2>5 DEF ScopeOf
<1>6. OpenScopes' = [i \in 1..Saving |-> ScopeOf(i)]
  BY <1>2, <1>5, OpenScopesAfter
<1>7. Leave(OpenScopes) = [i \in 1..Saving |-> ScopeOf(i)]
  <2>1. /\ OpenScopes \in Seq(Scope(Value))
        /\ Len(OpenScopes) > 1
        /\ Len(OpenScopes) - 1 = Saving
        /\ \A i \in 1..Saving : OpenScopes[i] = ScopeOf(i)
    BY <1>1, <1>2, <1>4, OpenScopesEntries
  <2>2. /\ Leave(OpenScopes) \in Seq(Scope(Value))
        /\ Len(Leave(OpenScopes)) = Saving
        /\ \A i \in 1..Saving : Leave(OpenScopes)[i] = ScopeOf(i)
    BY <2>1, LeaveEffect
  <2> QED
    BY <2>2
<1>8. Lexical!LeaveScope
  BY <1>1, <1>2, <1>3, <1>4, <1>6, <1>7, OpenScopesEntries DEF Lexical!LeaveScope
<1> QED
  BY <1>1, <1>8 DEF Lexical!Next

\* Where the loop of discardEnvsTill begins and where it ends nothing is taken off.
LEMMA LoopStutters ==
  ASSUME RefineInv, TypeOK', LeaveBlock \/ DiscardEnd
  PROVE  UNCHANGED Lexical!vars
<1>1. TypeOK /\ NestView
  BY Views DEF RefineInv, IInv
<1>2. objects' = objects /\ result' = result
  BY DEF LeaveBlock, DiscardEnd, heap
<1>3. CASE LeaveBlock
  <2>1. Depth' = Depth /\ \A i : Env(i)' = Env(i)
    BY <1>1, <1>3, BlockLeft
  <2>2. OpenScopes' = OpenScopes
    BY <1>1, <1>2, <1>3, <2>1, ScopesStay DEF LeaveBlock
  <2> QED
    BY <1>2, <2>2 DEF Lexical!vars
<1>4. CASE DiscardEnd
  <2>1. /\ Depth' = Depth
        /\ \A i \in 1..Depth : Env(i)' = Env(i)
        /\ \A i \in 1..(Depth - 1) : environToRestore'[i] = environToRestore[i]
    BY <1>1, <1>4, LoopEnded
  <2>2. OpenScopes' = OpenScopes
    BY <1>1, <1>2, <2>1, ScopesStay
  <2> QED
    BY <1>2, <2>2 DEF Lexical!vars
<1> QED
  BY <1>3, <1>4

\* Every step is a step of the block structure or shows nowhere in it.
LEMMA StepRefines == RefineInv /\ [Next]_vars => [Lexical!Next]_(Lexical!vars)
<1> SUFFICES ASSUME RefineInv, [Next]_vars
             PROVE  Lexical!Next \/ UNCHANGED Lexical!vars
  OBVIOUS
<1>1. TypeOK'
  BY TypeNext DEF RefineInv, IInv
<1>2. CASE UNCHANGED vars
  <2>1. OpenScopes' = OpenScopes
    BY <1>2 DEF vars, OpenScopes, OpenEnvs, SavedEnvs, Left, Top, Saving
  <2> QED
    BY <1>2, <2>1 DEF vars, Lexical!vars
<1>3. CASE Next
  <2>1. CASE LookupStep
    BY <1>1, <1>3, <2>1, LookupStutters, ReadRefines, StoreRefines DEF LookupStep
  <2>2. CASE NestingStep
    BY <1>1, <1>3, <2>2, EnterRefines, LeaveRefines, LoopStutters DEF NestingStep
  <2> QED
    BY <1>3, <2>1, <2>2, TwoKindsOfStep
<1> QED
  BY <1>2, <1>3

\* A manager without open blocks is the abstract one with its outermost scope.
LEMMA InitRefines == Init => Lexical!Init
<1> SUFFICES ASSUME Init PROVE Lexical!Init
  OBVIOUS
<1>1. TypeOK
  BY TypeInit
<1>2. Saving = 0 /\ Depth = 1 /\ Env(1) = curEnv
  BY DEF Init, Saving, Depth, Env, Left, NoCall, Loop, Lookup
<1>3. ScopeOf(1) = Lexical!Opened(TRUE)
  BY <1>1, <1>2 DEF Init, ScopeOf, IsGlobal, TypeOK, Lexical!Opened, Empty,
                    Lexical!Empty
<1>4. OpenScopes = <<Lexical!Opened(TRUE)>>
  <2>1. /\ OpenScopes \in Seq(Scope(Value))
        /\ Len(OpenScopes) = 1
        /\ OpenScopes[1] = ScopeOf(1)
    BY <1>1, <1>2, OpenScopesEntries
  <2>2. OpenScopes = <<OpenScopes[1]>>
    BY <2>1
  <2> QED
    BY <1>3, <2>1, <2>2
<1> QED
  BY <1>4 DEF Lexical!Init, Init, Done, Lexical!Done

\* The pointers, the saved environments and the walks along them implement block
\* structure with lexical lookup, for any program that uses them.
THEOREM Refinement == Spec => LexicalSpec
<1>1. Init => Lexical!Init
  BY InitRefines
<1>2. RefineInv /\ [Next]_vars => [Lexical!Next]_(Lexical!vars)
  BY StepRefines
<1> QED
  BY <1>1, <1>2, RefineInductive, PTL DEF Spec, LexicalSpec, Lexical!Spec

=============================================================================
