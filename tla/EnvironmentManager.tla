------------------------- MODULE EnvironmentManager -------------------------
(***************************************************************************)
(* prsl/Compiler/Common/Environment.hpp: Environment objects linked by     *)
(* parentEnv, and the manager that points at the current one.  A lookup is *)
(* a recursion along the parents, leaving a block is a loop along them;    *)
(* one step of the recursion or of the loop is one action here.            *)
(*                                                                         *)
(* The visitor that owns the manager issues any operation at any moment:   *)
(* the model covers every program, hence the resolver (bool), the          *)
(* interpreter (PrslObject) and the code generator (llvm::Value * ).       *)
(***************************************************************************)
EXTENDS Scopes

CONSTANTS Value,    \* what a variable is bound to (the parameter VarValue)
          EnvId,    \* addresses an Environment can be allocated at
          Null      \* nullptr

ASSUME AbsentAssumption == Absent \notin Value
ASSUME NullAssumption == Null \notin EnvId \cup Name \cup Value

VARIABLES
  live,               \* the allocated Environment objects
  objects,            \* their member objects
  parentEnv,          \* their member parentEnv
  curEnv,             \* the member curEnv of the manager
  environToRestore,   \* the locals of the withNewEnviron calls in progress
  call,               \* the member function of Environment in progress
  result              \* what the last operation returned

vars == <<live, objects, parentEnv, curEnv, environToRestore, call, result>>
heap == <<live, objects, parentEnv>>

Done == <<"done">>
Undef == <<"undef">>
Results ==
  {Done, Undef} \cup ({"value"} \X Value) \cup ({"bool"} \X BOOLEAN)

\* The overload of withNewEnviron that saved the environment.
Overload == {"newEnv", "givenEnv"}
Saved == [env : EnvId, by : Overload]

\* "define" and "reassign" are the two walks of defineOrAssign.
LookupOps == {"get", "contains", "assign", "define", "reassign"}
Storing == {"assign", "define", "reassign"}
Lookup(op, x, v, e) == [op |-> op, token |-> x, object |-> v, at |-> e]
Loop(op) == Lookup(op, Null, Null, Null)
NoCall == Loop("none")
Lookups ==
  [op : LookupOps, token : Name, object : Value \cup {Null}, at : EnvId]
Loops == {Loop("none"), Loop("discard"), Loop("thrown")}

TypeOK ==
  /\ live \subseteq EnvId
  /\ objects \in [EnvId -> Objects(Value)]
  /\ parentEnv \in [EnvId -> EnvId \cup {Null}]
  /\ curEnv \in EnvId
  /\ environToRestore \in Seq(Saved)
  /\ call \in Lookups \cup Loops
  /\ call.op \in Storing => call.object \in Value
  /\ result \in Results

Init ==
  /\ \E e \in EnvId : curEnv = e /\ live = {e}
  /\ objects = [e \in EnvId |-> Empty]
  /\ parentEnv = [e \in EnvId |-> Null]
  /\ environToRestore = <<>>
  /\ call = NoCall
  /\ result = Done

Idle == call = NoCall
Saving == Len(environToRestore)
Top == environToRestore[Saving]

-----------------------------------------------------------------------------
\* Allocation and destruction (std::make_shared, the last shared_ptr gone).

Allocate(e, parent) ==
  /\ live' = live \cup {e}
  /\ objects' = [objects EXCEPT ![e] = Empty]
  /\ parentEnv' = [parentEnv EXCEPT ![e] = parent]

\* Mutant: somebody keeps the last pointer.
DestroyLater(e) == UNCHANGED heap
Destroy(e) ==
  /\ live' = live \ {e}
  /\ objects' = [objects EXCEPT ![e] = Empty]
  /\ parentEnv' = [parentEnv EXCEPT ![e] = Null]

-----------------------------------------------------------------------------
\* get, contains, assign and defineOrAssign start at curEnv.

Begin(op, x, v) ==
  /\ Idle
  /\ call' = Lookup(op, x, v, curEnv)
  /\ UNCHANGED <<heap, curEnv, environToRestore, result>>

Walking == call.op \in LookupOps
Hit == objects[call.at][call.token] # Absent
AtRoot == parentEnv[call.at] = Null
Missed == ~Hit /\ AtRoot

Return(r) ==
  /\ call' = NoCall
  /\ result' = r
  /\ UNCHANGED <<live, parentEnv, curEnv, environToRestore>>

\* return parentEnv->f(token).  Mutant: return f(token).
WalkUpInPlace ==
  /\ Walking
  /\ ~Hit
  /\ ~AtRoot
  /\ UNCHANGED vars
WalkUp ==
  /\ Walking
  /\ ~Hit
  /\ ~AtRoot
  /\ call' = Lookup(call.op, call.token, call.object, parentEnv[call.at])
  /\ UNCHANGED <<heap, curEnv, environToRestore, result>>

ReturnGet ==
  /\ call.op = "get"
  /\ Hit
  /\ Return(<<"value", objects[call.at][call.token]>>)
  /\ UNCHANGED objects

ReturnContains ==
  /\ call.op = "contains"
  /\ Hit \/ AtRoot
  /\ Return(<<"bool", Hit>>)
  /\ UNCHANGED objects

Store(e) == objects' = [objects EXCEPT ![e][call.token] = call.object]

StoreAssign ==
  /\ call.op \in {"assign", "reassign"}
  /\ Hit
  /\ Store(call.at)
  /\ Return(Done)

\* throw UndefVarAccess{}: the manager reports it and throws RuntimeError,
\* which only Compiler::run catches, after the visitor stopped.
Throw ==
  /\ call.op \in {"get", "assign", "reassign"}
  /\ Missed
  /\ call' = Loop("thrown")
  /\ result' = Undef
  /\ UNCHANGED <<heap, curEnv, environToRestore>>

\* defineOrAssign: contains(token) answered, then a second walk or a local
\* insertion.  Mutants: the first walk has moved the object away; its answer is
\* not looked at.
DefineFoundMoved ==
  /\ call.op = "define"
  /\ Hit
  /\ call' = Lookup("reassign", call.token, Null, curEnv)
  /\ UNCHANGED <<heap, curEnv, environToRestore, result>>
DefineFoundAnyway ==
  /\ call.op = "define"
  /\ Hit \/ AtRoot
  /\ call' = Lookup("reassign", call.token, call.object, curEnv)
  /\ UNCHANGED <<heap, curEnv, environToRestore, result>>
DefineFound ==
  /\ call.op = "define"
  /\ Hit
  /\ call' = Lookup("reassign", call.token, call.object, curEnv)
  /\ UNCHANGED <<heap, curEnv, environToRestore, result>>

\* Mutant: it inserts where the walk ended.
DefineFreshOutermost ==
  /\ call.op = "define"
  /\ Missed
  /\ Store(call.at)
  /\ Return(Done)
DefineFresh ==
  /\ call.op = "define"
  /\ Missed
  /\ Store(curEnv)
  /\ Return(Done)

-----------------------------------------------------------------------------
\* withNewEnviron: the part before action() and the part after it.

Save(overload) ==
  environToRestore' = Append(environToRestore, [env |-> curEnv, by |-> overload])
Pop == environToRestore' = SubSeq(environToRestore, 1, Saving - 1)

\* The environment of a block is a child of the current one; the one a
\* function body runs in is made by its visitor, without a parent.
EnterEnv(overload, parent) ==
  /\ Idle
  /\ Save(overload)
  /\ \E e \in EnvId \ live : Allocate(e, parent) /\ curEnv' = e
  /\ result' = Done
  /\ UNCHANGED call

EnterBlock == EnterEnv("newEnv", curEnv)
\* Mutant: the function's environment is a child of its caller's.
EnterFunctionDynamic == EnterEnv("givenEnv", curEnv)
EnterFunction == EnterEnv("givenEnv", Null)

LeaveBlock ==
  /\ Idle
  /\ Saving > 0
  /\ Top.by = "newEnv"
  /\ call' = Loop("discard")
  /\ UNCHANGED <<heap, curEnv, environToRestore, result>>

\* discardEnvsTill(environToRestore).  Mutant: it does not stop there.
DiscardingAll == parentEnv[curEnv] # Null
Discarding == parentEnv[curEnv] # Null /\ curEnv # Top.env

DiscardOne ==
  /\ call.op = "discard"
  /\ Discarding
  /\ Destroy(curEnv)
  /\ curEnv' = parentEnv[curEnv]
  /\ result' = Done
  /\ UNCHANGED <<environToRestore, call>>

DiscardEnd ==
  /\ call.op = "discard"
  /\ ~Discarding
  /\ Pop
  /\ call' = NoCall
  /\ UNCHANGED <<heap, curEnv, result>>

LeaveFunction ==
  /\ Idle
  /\ Saving > 0
  /\ Top.by = "givenEnv"
  /\ Destroy(curEnv)
  /\ curEnv' = Top.env
  /\ Pop
  /\ result' = Done
  /\ UNCHANGED call

-----------------------------------------------------------------------------
Operations ==
  \/ \E x \in Name : Begin("get", x, Null) \/ Begin("contains", x, Null)
  \/ \E x \in Name, v \in Value : Begin("assign", x, v) \/ Begin("define", x, v)
  \/ EnterBlock \/ EnterFunction \/ LeaveBlock \/ LeaveFunction

Steps ==
  \/ WalkUp \/ ReturnGet \/ ReturnContains \/ StoreAssign \/ Throw
  \/ DefineFound \/ DefineFresh
  \/ DiscardOne \/ DiscardEnd

Next == Operations \/ Steps

Spec == Init /\ [][Next]_vars

\* The recursions and the loop run to their end without giving up control.
FairSpec == Spec /\ WF_vars(Steps)

-----------------------------------------------------------------------------
(***************************************************************************)
(* Properties.                                                             *)
(***************************************************************************)

\* The environments of the open scopes, innermost last; while the loop of
\* discardEnvsTill is past its last step the top entry is curEnv already.
SavedEnvs == [i \in DOMAIN environToRestore |-> environToRestore[i].env]
Left == call.op = "discard" /\ curEnv = Top.env
OpenEnvs == IF Left THEN SavedEnvs ELSE Append(SavedEnvs, curEnv)

\* environToRestore (a local of each withNewEnviron call) and the parentEnv
\* links describe the same nesting: a block's environment is the child of the
\* environment that will be restored when the block ends, a function's has no
\* parent, no environment occurs twice, and the loop of discardEnvsTill runs for
\* a block only.
NestingInv ==
  /\ parentEnv[OpenEnvs[1]] = Null
  /\ \A i \in 2..Len(OpenEnvs) :
       parentEnv[OpenEnvs[i]] =
         IF environToRestore[i - 1].by = "newEnv" THEN OpenEnvs[i - 1] ELSE Null
  /\ \A i, j \in DOMAIN OpenEnvs : OpenEnvs[i] = OpenEnvs[j] => i = j
  /\ call.op = "discard" => Saving > 0 /\ Top.by = "newEnv"

\* An environment is destroyed when its scope ends, neither later (a leak
\* through parentEnv or a saved pointer) nor earlier (a pointer in use to a
\* destroyed one): exactly the open scopes are allocated.
NoLeak == live = {OpenEnvs[i] : i \in DOMAIN OpenEnvs}

\* The environments a lookup may still visit when it is at OpenEnvs[i]: those of
\* the running function from OpenEnvs[i] outwards.
SameFrame(i) == \A k \in i..Saving : environToRestore[k].by = "newEnv"

\* A lookup in progress is at an environment of the running function, never at
\* one of a caller or of the top-level code, and every environment nearer to
\* the program misses the name: what it finds is the innermost binding.
LookupInFrame ==
  Walking =>
    \E i \in DOMAIN OpenEnvs :
      /\ call.at = OpenEnvs[i]
      /\ SameFrame(i)
      /\ \A k \in (i + 1)..Len(OpenEnvs) :
           objects[OpenEnvs[k]][call.token] = Absent

\* The second walk of defineOrAssign relies on what the first one saw: the name
\* is still bound where the walk has not been yet.
ReassignFinds ==
  call.op = "reassign" =>
    \E i \in DOMAIN OpenEnvs :
      /\ SameFrame(i)
      /\ objects[OpenEnvs[i]][call.token] # Absent

\* Hence a definition never raises UndefVarAccess (which define, unlike assign
\* and get of the manager, would let escape: nothing would catch it).
DefineNeverThrows ==
  [][call.op \in {"define", "reassign"} => call'.op # "thrown"]_vars

\* Every operation the visitor issues comes back or throws: the walk along
\* parentEnv and the loop of discardEnvsTill terminate.
OperationsEnd == call.op \in LookupOps \cup {"discard"} ~> call.op \in {"none", "thrown"}

\* The pointers implement block structure with lexical lookup.
OpenScopes ==
  [i \in DOMAIN OpenEnvs |->
     [objects |-> objects[OpenEnvs[i]],
      global |-> i = 1 \/ environToRestore[i - 1].by = "givenEnv"]]
Lexical == INSTANCE LexicalScopes WITH scopes <- OpenScopes
LexicalSpec == Lexical!Spec

=============================================================================
