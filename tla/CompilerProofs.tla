--------------------------- MODULE CompilerProofs ---------------------------
(***************************************************************************)
(* What run() starts and reports, for every set of sources, whatever their *)
(* trees, and every command line; and that each of its parts, when run()   *)
(* works with it, goes on as it does on its own.                           *)
(***************************************************************************)
EXTENDS Compiler, TLAPS

-----------------------------------------------------------------------------
(***************************************************************************)
(* The parts.                                                              *)
(***************************************************************************)

\* A step of the resolver is one of a walk in progress; it goes on, is done or throws.
LEMMA ResolverStep ==
  ASSUME R!Next
  PROVE  /\ tree' = tree
         /\ rVerdict' \in {R!Running, R!Accepted} \cup R!Errors
BY DEF R!Next, R!Descend, R!VisitVarExpr, R!VisitAssignment, R!ResumeAssignment,
       R!VisitPostfixExpr, R!VisitBlock, R!LeaveBlock, R!VisitFuncExpr, R!LeaveFuncExpr,
       R!VisitCallExpr, R!VisitReturnStmt, R!Finish, R!At, R!Reject, R!VarError, R!Errors

\* So it is with the interpreter, which can also be ended from outside.
LEMMA InterpreterStep ==
  ASSUME I!Next
  PROVE  /\ tree' = tree
         /\ status' \in {I!Running, I!Finished, I!Terminated, I!Signalled}
                        \cup I!RuntimeErrors
<1>1. ASSUME NEW op, NEW lhs, NEW rhs, I!BinaryError(op, lhs, rhs) # I!NoError
      PROVE  I!BinaryError(op, lhs, rhs) \in I!RuntimeErrors
  BY <1>1 DEF I!BinaryError, I!RuntimeErrors
<1>2. tree' = tree
  BY DEF I!Next
<1>3. CASE I!ResumeBinary
  BY <1>1, <1>2, <1>3 DEF I!ResumeBinary, I!Stop, I!At, I!state
<1>4. CASE ~I!ResumeBinary
  BY <1>2, <1>4
     DEF I!Next, I!VisitLeaf, I!VisitVarExpr, I!Descend, I!VisitOperands,
         I!ResumeAssignment, I!ResumeUnary, I!ResumePostfix, I!VisitBlock, I!Leave,
         I!ScopeContinues, I!ScopeEnds, I!VisitFuncExpr, I!ResumeFuncExpr,
         I!RegisterBelow, I!RegisterFunction, I!VisitCallExpr, I!ResumeCallExpr,
         I!ResumeCondition, I!ResumePrintStmt, I!ResumeExprStmt, I!ResumeReturnStmt,
         I!Finish, I!At, I!Stop, I!state, I!RuntimeErrors
<1> QED
  BY <1>3, <1>4

\* And with the code generator.
LEMMA CodegenStep ==
  ASSUME G!Next
  PROVE  /\ tree' = tree
         /\ status' \in {G!Running, G!Finished, G!Signalled} \cup G!RuntimeErrors
BY DEF G!Next, G!VisitLiteralExpr, G!VisitVarExpr, G!VisitInputExpr, G!Descend,
       G!VisitOperands, G!ResumeAssignment, G!ResumeUnary, G!ResumeBinary,
       G!ResumePostfix, G!VisitBlock, G!Leave, G!ScopeContinues, G!ScopeEnds,
       G!VisitFuncExpr, G!DefineParameter, G!LeaveFunction, G!VisitCallExpr,
       G!ResumeCallExpr, G!ResumeVarStmt, G!ResumeIfStmt, G!AfterThen, G!AfterElse,
       G!VisitWhileStmt, G!ResumeWhileStmt, G!AfterBody, G!ResumePrintStmt,
       G!ResumeExprStmt, G!ResumeReturnStmt, G!VisitFunctionStmt,
       G!ResumeFunctionStmt, G!Finish, G!At, G!Stop, G!environment, G!RuntimeErrors

-----------------------------------------------------------------------------
(***************************************************************************)
(* The inductive invariant.                                                *)
(***************************************************************************)

Working == {"create", "parse", "resolve", "execute", "dump"}

\* Whatever comes next, nothing has gone wrong and nothing is written so far.
NothingWrong == stage \notin Ends => errors = 0 /\ written = Nothing

\* What the stage says of the parts: which have not begun, and how those that are
\* done have ended.
PartsFollowStage ==
  /\ stage \in Working => Outcome(vm) = "run"
  /\ stage \in {"options", "create", "parse", "resolve"} =>
       todo = <<Visit(tree)>> /\ status = I!Running /\ rVerdict = R!Running
  /\ stage \in {"resolve", "execute", "dump"} => Parsed[source].errors = 0
  /\ stage \in {"execute", "dump"} =>
       rVerdict = R!Accepted /\ mode \in {"INTERPRET", "COMPILE"}
  /\ stage = "execute" => status = I!Running
  /\ stage = "dump" => status = I!Finished

IInv ==
  /\ source \in DOMAIN Parsed
  /\ stage \in {"options"} \cup Working \cup Ends
  /\ NothingWrong
  /\ PartsFollowStage
  /\ OnlyCheckedRuns
  /\ OutputIsWhole
  /\ OneDiagnosis

\* What the options are that run() is given.
LEMMA OptionsRun ==
  ASSUME Outcome(vm) = "run"
  PROVE  /\ ~Conflicting(vm)
         /\ flags.type \in FileTypes
         /\ mode \in {"PARSE", "INTERPRET", "COMPILE"}
BY DEF Outcome, BadValue, flags, FlagsOf, mode, ExecutionMode

\* The three that may be counted or written are different things.
LEMMA Different ==
  /\ Nothing # Cut /\ Nothing \notin FileTypes /\ Cut \notin FileTypes
  /\ R!Running \notin R!Errors /\ R!Accepted \notin R!Errors /\ R!Running # R!Accepted
  /\ I!Finished \notin I!RuntimeErrors /\ I!Running \notin I!RuntimeErrors
  /\ I!Finished # I!Running /\ G!Running = I!Running /\ G!Finished = I!Finished
  /\ G!Signalled = I!Signalled /\ G!RuntimeErrors \subseteq I!RuntimeErrors
<1>1. Nothing # Cut /\ Nothing \notin FileTypes /\ Cut \notin FileTypes
  BY DEF Nothing, Cut, FileTypes
<1>2. R!Running \notin R!Errors /\ R!Accepted \notin R!Errors /\ R!Running # R!Accepted
  BY DEF R!Running, R!Accepted, R!Errors, R!UndefVariable,
         R!OwnInitializer, R!IllegalPostfix, R!UndefFunction, R!TopLevelReturn
<1>3. I!Finished \notin I!RuntimeErrors /\ I!Running \notin I!RuntimeErrors
  BY DEF I!Finished, I!Running, I!RuntimeErrors, I!UndefVariable, I!NonNumeric,
         I!DivisionByZero, I!IllegalOperator, I!NotAFunction, I!WrongArguments
<1>4. /\ I!Finished # I!Running /\ G!Running = I!Running /\ G!Finished = I!Finished
      /\ G!Signalled = I!Signalled
  BY DEF I!Finished, I!Running, G!Running, G!Finished, G!Signalled, I!Signalled
<1>5. G!RuntimeErrors \subseteq I!RuntimeErrors
  BY DEF G!RuntimeErrors, I!RuntimeErrors, G!NotAFunction, I!NotAFunction,
         G!WrongArguments, I!WrongArguments
<1> QED
  BY <1>1, <1>2, <1>3, <1>4, <1>5

-----------------------------------------------------------------------------
(***************************************************************************)
(* The steps.                                                              *)
(***************************************************************************)

\* What the resolver and the executor begin with.
LEMMA PartsBegin ==
  ASSUME Init
  PROVE  /\ source \in DOMAIN Parsed /\ tree = Parsed[source].val /\ tree \in Program
         /\ R!Init /\ I!Init /\ G!Init
         /\ todo = <<Visit(tree)>> /\ status = I!Running /\ rVerdict = R!Running
<1>1. source \in DOMAIN Parsed /\ R!InitWith(Parsed[source].val)
      /\ I!InitWith(Parsed[source].val) /\ ir = G!EmptyModule
  BY DEF Init
<1>2. Parsed[source].val \in Program
  BY <1>1, ParsedAssumption
<1>3. R!Init /\ I!Init
  BY <1>1, <1>2 DEF R!Init, I!Init
<1>4. I!Visit(tree) = Visit(tree) /\ G!Visit(tree) = Visit(tree)
  BY DEF I!Visit, G!Visit, Visit, G!AnItem, AnItem, I!AnItem
<1>5. G!InitWith(Parsed[source].val)
  BY <1>1, <1>4, Different
     DEF G!InitWith, I!InitWith, I!Env!Opened, G!Env!Opened, I!Env!Empty, G!Env!Empty
<1>6. G!Init
  BY <1>2, <1>5 DEF G!Init
<1> QED
  BY <1>1, <1>2, <1>3, <1>4, <1>6 DEF R!InitWith, I!InitWith

\* Nothing that was done is undone when only the stage goes on.
LEMMA OptionsKeep == IInv /\ ReadOptions => IInv'
<1> SUFFICES ASSUME IInv, ReadOptions PROVE IInv'
  OBVIOUS
<1>1. /\ stage = "options" /\ errors = 0 /\ written = Nothing
      /\ todo = <<Visit(tree)>> /\ status = I!Running /\ rVerdict = R!Running
      /\ source \in DOMAIN Parsed
      /\ UNCHANGED <<vm, source, written, tree, todo, status, rVerdict>>
  BY DEF ReadOptions, IInv, NothingWrong, PartsFollowStage, Ends, resolver, executor
<1>2. Outcome(vm) \in {"failure", "success", "abort", "run"}
  BY DEF Outcome
<1>3. /\ stage' \in {"refused", "returned", "died", "create"}
      /\ stage' = "refused" <=> Outcome(vm) = "failure"
      /\ stage' = "returned" <=> Outcome(vm) = "success"
      /\ stage' = "create" <=> Outcome(vm) = "run"
      /\ errors' = IF stage' = "refused" THEN 1 ELSE 0
  BY <1>1, <1>2 DEF ReadOptions
<1>4. stage' = "returned" => Given(vm, {"help", "version"})
  BY <1>3 DEF Outcome
<1>5. OnlyCheckedRuns' /\ OutputIsWhole'
  BY <1>1 DEF OnlyCheckedRuns, OutputIsWhole, Visit, AnItem
<1>6. OneDiagnosis'
  BY <1>1, <1>3, <1>4 DEF OneDiagnosis
<1>7. NothingWrong' /\ PartsFollowStage'
  BY <1>1, <1>3 DEF NothingWrong, PartsFollowStage, Working, Ends
<1> QED
  BY <1>1, <1>3, <1>5, <1>6, <1>7 DEF IInv, Working, Ends

\* The executor is there, or main is left with the error that it is not.
LEMMA CreateKeep == IInv /\ CreateExecutor => IInv'
<1> SUFFICES ASSUME IInv, CreateExecutor PROVE IInv'
  OBVIOUS
<1>1. /\ stage = "create" /\ errors = 0 /\ written = Nothing /\ Outcome(vm) = "run"
      /\ todo = <<Visit(tree)>> /\ status = I!Running /\ rVerdict = R!Running
      /\ source \in DOMAIN Parsed
      /\ UNCHANGED <<vm, source, written, tree, todo, status, rVerdict>>
  BY DEF CreateExecutor, IInv, NothingWrong, PartsFollowStage, Ends, Working, resolver,
         executor
<1>2. stage' \in {"died", "parse"} /\ errors' = IF stage' = "died" THEN 1 ELSE 0
  BY <1>1 DEF CreateExecutor
<1>3. OnlyCheckedRuns' /\ OutputIsWhole'
  BY <1>1 DEF OnlyCheckedRuns, OutputIsWhole, Visit, AnItem
<1>4. OneDiagnosis'
  BY <1>2 DEF OneDiagnosis
<1>5. NothingWrong' /\ PartsFollowStage'
  BY <1>1, <1>2 DEF NothingWrong, PartsFollowStage, Working, Ends
<1> QED
  BY <1>1, <1>2, <1>3, <1>4, <1>5 DEF IInv, Working, Ends

\* A source with an error is not resolved.
LEMMA ParseKeeps == IInv /\ Parse => IInv'
<1> SUFFICES ASSUME IInv, Parse PROVE IInv'
  OBVIOUS
<1>1. /\ stage = "parse" /\ errors = 0 /\ written = Nothing /\ Outcome(vm) = "run"
      /\ todo = <<Visit(tree)>> /\ status = I!Running /\ rVerdict = R!Running
      /\ source \in DOMAIN Parsed
      /\ UNCHANGED <<vm, source, written, tree, todo, status, rVerdict>>
  BY DEF Parse, IInv, NothingWrong, PartsFollowStage, Ends, Working, resolver,
         executor
<1>2. Parsed[source].errors \in {0, 1}
  BY <1>1, ParsedAssumption
<1>3. /\ stage' = IF errors' = 1 THEN "returned" ELSE "resolve"
      /\ errors' = Parsed[source].errors
  BY <1>1, <1>2 DEF Parse
<1>4. OnlyCheckedRuns' /\ OutputIsWhole'
  BY <1>1 DEF OnlyCheckedRuns, OutputIsWhole, Visit, AnItem
<1>5. OneDiagnosis'
  BY <1>1, <1>2, <1>3, Different DEF OneDiagnosis
<1>6. NothingWrong' /\ PartsFollowStage'
  BY <1>1, <1>2, <1>3 DEF NothingWrong, PartsFollowStage, Working, Ends
<1> QED
  BY <1>1, <1>2, <1>3, <1>4, <1>5, <1>6 DEF IInv, Working, Ends

\* What the resolver throws, the executor does not see.
LEMMA ResolveKeeps == IInv /\ Resolve => IInv'
<1> SUFFICES ASSUME IInv, Resolve PROVE IInv'
  OBVIOUS
<1>1. /\ stage = "resolve" /\ errors = 0 /\ written = Nothing /\ Outcome(vm) = "run"
      /\ todo = <<Visit(tree)>> /\ status = I!Running /\ rVerdict = R!Running
      /\ source \in DOMAIN Parsed /\ Parsed[source].errors = 0
      /\ UNCHANGED <<vm, source, written, todo, status>>
  BY DEF Resolve, IInv, NothingWrong, PartsFollowStage, Ends, Working, executor
<1>2. tree' = tree /\ rVerdict' \in {R!Running, R!Accepted} \cup R!Errors
  BY ResolverStep DEF Resolve
<1>3. errors' = IF rVerdict' \in R!Errors THEN 1 ELSE 0
  BY <1>1 DEF Resolve
<1>4. \/ rVerdict' = R!Running /\ stage' = "resolve" /\ errors' = 0
      \/ rVerdict' \in R!Errors /\ stage' = "returned" /\ errors' = 1
      \/ rVerdict' = R!Accepted /\ mode = "PARSE" /\ stage' = "returned" /\ errors' = 0
      \/ rVerdict' = R!Accepted /\ mode # "PARSE" /\ stage' = "execute" /\ errors' = 0
  BY <1>2, <1>3, Different DEF Resolve, AfterResolve
<1>5. mode \in {"PARSE", "INTERPRET", "COMPILE"} /\ mode' = mode
  BY <1>1, OptionsRun DEF mode, flags
<1>6. OnlyCheckedRuns' /\ OutputIsWhole'
  BY <1>1, <1>2 DEF OnlyCheckedRuns, OutputIsWhole, Visit, AnItem
<1>7. OneDiagnosis'
  BY <1>1, <1>4, <1>5, Different DEF OneDiagnosis
<1>8. NothingWrong' /\ PartsFollowStage'
  BY <1>1, <1>2, <1>4, <1>5, Different DEF NothingWrong, PartsFollowStage, Working, Ends
<1> QED
  BY <1>1, <1>4, <1>6, <1>7, <1>8 DEF IInv, Working, Ends

\* An error of the visit passes over dump.
LEMMA ExecuteKeeps == IInv /\ Execute => IInv'
<1> SUFFICES ASSUME IInv, Execute PROVE IInv'
  OBVIOUS
<1>1. /\ stage = "execute" /\ errors = 0 /\ written = Nothing /\ Outcome(vm) = "run"
      /\ status = I!Running /\ rVerdict = R!Accepted /\ mode \in {"INTERPRET", "COMPILE"}
      /\ source \in DOMAIN Parsed /\ Parsed[source].errors = 0
      /\ UNCHANGED <<vm, source, written, rVerdict>>
  BY DEF Execute, IInv, NothingWrong, PartsFollowStage, Ends, Working, resolver
<1>2. status' \in {I!Running, I!Finished, I!Terminated, I!Signalled} \cup I!RuntimeErrors
  BY InterpreterStep, CodegenStep, Different DEF Execute
<1>3. errors' = IF status' \in I!RuntimeErrors THEN 1 ELSE 0
  BY <1>1 DEF Execute
<1>4. \/ status' = I!Running /\ stage' = "execute" /\ errors' = 0
      \/ status' = I!Finished /\ stage' = "dump" /\ errors' = 0
      \/ stage' = "died" /\ errors' \in {0, 1}
      \/ status' \in I!RuntimeErrors /\ stage' = "returned" /\ errors' = 1
  BY <1>2, <1>3, Different DEF Execute, AfterExecute, I!Finished, I!Terminated, I!Signalled
<1>5. mode' = mode /\ ~Conflicting(vm)
  BY <1>1, OptionsRun DEF mode, flags
<1>6. OnlyCheckedRuns' /\ OutputIsWhole'
  BY <1>1, <1>5 DEF OnlyCheckedRuns, OutputIsWhole
<1>7. OneDiagnosis'
  BY <1>1, <1>4, <1>5, Different DEF OneDiagnosis
<1>8. NothingWrong' /\ PartsFollowStage'
  BY <1>1, <1>4, <1>5 DEF NothingWrong, PartsFollowStage, Working, Ends
<1> QED
  BY <1>1, <1>4, <1>6, <1>7, <1>8 DEF IInv, Working, Ends

\* What is left in the file belongs to a translation that is done.
LEMMA DumpKeeps == IInv /\ Dump => IInv'
<1> SUFFICES ASSUME IInv, Dump PROVE IInv'
  OBVIOUS
<1>1. /\ stage = "dump" /\ errors = 0 /\ written = Nothing /\ Outcome(vm) = "run"
      /\ status = I!Finished /\ rVerdict = R!Accepted /\ mode \in {"INTERPRET", "COMPILE"}
      /\ source \in DOMAIN Parsed /\ Parsed[source].errors = 0 /\ stage' = "returned"
      /\ UNCHANGED <<vm, source, rVerdict, status, todo, tree>>
  BY DEF Dump, IInv, NothingWrong, PartsFollowStage, Ends, Working, resolver, executor
<1>2. mode' = mode /\ flags' = flags /\ flags.type \in FileTypes /\ ~Conflicting(vm)
  BY <1>1, OptionsRun DEF mode, flags
<1>3. \/ mode = "INTERPRET" /\ errors' = 0 /\ written' = Nothing
      \/ mode = "COMPILE" /\ errors' = 1 /\ written' \in {Nothing, Cut}
      \/ mode = "COMPILE" /\ errors' = 0 /\ written' = flags.type
  BY <1>1 DEF Dump
<1>4. OnlyCheckedRuns'
  BY <1>1, <1>2 DEF OnlyCheckedRuns
<1>5. OutputIsWhole'
  BY <1>1, <1>2, <1>3, Different DEF OutputIsWhole
<1>6. OneDiagnosis'
  BY <1>1, <1>2, <1>3, Different DEF OneDiagnosis
<1>7. NothingWrong' /\ PartsFollowStage'
  BY <1>1 DEF NothingWrong, PartsFollowStage, Working, Ends
<1> QED
  BY <1>1, <1>4, <1>5, <1>6, <1>7 DEF IInv, Working, Ends

-----------------------------------------------------------------------------
(***************************************************************************)
(* Theorems.                                                               *)
(***************************************************************************)

\* Every run of main begins, and goes on, with the invariant.
LEMMA Inductive == Spec => []IInv
<1>1. Init => IInv
  <2> SUFFICES ASSUME Init PROVE IInv
    OBVIOUS
  <2>1. /\ stage = "options" /\ errors = 0 /\ written = Nothing /\ source \in DOMAIN Parsed
        /\ todo = <<Visit(tree)>> /\ status = I!Running /\ rVerdict = R!Running
    BY PartsBegin DEF Init
  <2> QED
    BY <2>1 DEF IInv, NothingWrong, PartsFollowStage, OnlyCheckedRuns, OutputIsWhole,
                OneDiagnosis, Working, Ends
<1>2. IInv /\ [Next]_vars => IInv'
  <2> SUFFICES ASSUME IInv, [Next]_vars PROVE IInv'
    OBVIOUS
  <2>1. CASE UNCHANGED vars
    BY <2>1 DEF vars, run, resolver, executor, IInv, NothingWrong, PartsFollowStage,
                OnlyCheckedRuns, OutputIsWhole, OneDiagnosis, mode, flags
  <2>2. CASE Next
    BY <2>2, OptionsKeep, CreateKeep, ParseKeeps, ResolveKeeps, ExecuteKeeps, DumpKeeps
       DEF Next
  <2> QED
    BY <2>1, <2>2
<1> QED
  BY <1>1, <1>2, PTL DEF Spec

\* Whatever the parser makes of a source, the executor's visitor takes no step on it
\* that the options, the parser's errors or the resolver forbid.
THEOREM ChecksComeFirst == Spec => []OnlyCheckedRuns
<1>1. IInv => OnlyCheckedRuns
  BY DEF IInv
<1> QED
  BY <1>1, Inductive, PTL

\* An output file has a whole, accepted program in it or its lack was reported.
THEOREM FilesAreWhole == Spec => []OutputIsWhole
<1>1. IInv => OutputIsWhole
  BY DEF IInv
<1> QED
  BY <1>1, Inductive, PTL

\* At most one error is counted, and exactly one when the run stops early.
THEOREM ErrorsCount == Spec => []OneDiagnosis
<1>1. IInv => OneDiagnosis
  BY DEF IInv
<1> QED
  BY <1>1, Inductive, PTL

\* A run of main is a run of each part: the stages only choose when a part goes on.
\* What is proved of the resolver, the interpreter or the code generator is true of it
\* inside run().
THEOREM PartsRun ==
  /\ Spec => R!Spec
  /\ Spec => (mode = "INTERPRET" => I!Spec)
  /\ Spec => (mode = "COMPILE" => G!Spec)
<1>1. Init => R!Init /\ I!Init /\ G!Init
  BY PartsBegin
<1>2. [Next]_vars => [R!Next]_R!vars
  <2>1. Resolve => R!Next
    BY DEF Resolve
  <2>2. I!Next \/ G!Next => tree' = tree
    BY InterpreterStep, CodegenStep
  <2>3. ReadOptions \/ CreateExecutor \/ Parse \/ Execute \/ Dump => UNCHANGED R!vars
    BY <2>2 DEF ReadOptions, CreateExecutor, Parse, Execute, Dump, resolver, R!vars
  <2>4. UNCHANGED vars => UNCHANGED R!vars
    BY DEF vars, run, resolver, R!vars
  <2> QED
    BY <2>1, <2>3, <2>4 DEF Next
<1>3. ASSUME [Next]_vars PROVE mode' = mode
  BY <1>3 DEF Next, ReadOptions, CreateExecutor, Parse, Resolve, Execute, Dump, vars, run,
              mode, flags
<1>4. Resolve => UNCHANGED <<tree, executor>>
  BY ResolverStep DEF Resolve
<1>5. [Next]_vars /\ mode = "INTERPRET" => [I!Next]_I!vars
  BY <1>4 DEF Next, ReadOptions, CreateExecutor, Parse, Execute, Dump, vars, run, executor,
              I!vars
<1>6. [Next]_vars /\ mode = "COMPILE" => [G!Next]_G!vars
  BY <1>4 DEF Next, ReadOptions, CreateExecutor, Parse, Execute, Dump, vars, run, executor,
              G!vars
<1>7. Spec => R!Spec
  BY <1>1, <1>2, PTL DEF Spec, R!Spec
<1>8. Spec => (mode = "INTERPRET" => I!Spec)
  <2>1. mode = "INTERPRET" /\ [Next]_vars => (mode = "INTERPRET")'
    BY <1>3
  <2> QED
    BY <1>1, <1>5, <2>1, PTL DEF Spec, I!Spec
<1>9. Spec => (mode = "COMPILE" => G!Spec)
  <2>1. mode = "COMPILE" /\ [Next]_vars => (mode = "COMPILE")'
    BY <1>3
  <2> QED
    BY <1>1, <1>6, <2>1, PTL DEF Spec, G!Spec
<1> QED
  BY <1>7, <1>8, <1>9

-----------------------------------------------------------------------------
(***************************************************************************)
(* What is proved of the executors, inside run().                          *)
(***************************************************************************)

IP == INSTANCE InterpreterProofs WITH program <- tree
GP == INSTANCE CodegenProofs WITH program <- tree

\* Each instance has definitions of its own; expanded, they are the same interpreter.
LEMMA SameInterpreter == (I!Init <=> IP!Init) /\ (I!Next <=> IP!Next)
<1>1. I!Init = IP!Init
  BY DEF I!Init, IP!Init, I!InitWith, IP!InitWith, I!Visit, IP!Visit, I!Env!Opened,
         IP!Env!Opened, I!Running, IP!Running, I!AnItem, IP!AnItem, I!Env!Empty,
         IP!Env!Empty
<1>2. I!Next = IP!Next
  BY DEF I!Next, IP!Next, I!VisitLeaf, IP!VisitLeaf, I!VisitVarExpr, IP!VisitVarExpr,
         I!Descend, IP!Descend, I!VisitOperands, IP!VisitOperands, I!ResumeAssignment,
         IP!ResumeAssignment, I!ResumeUnary, IP!ResumeUnary, I!ResumeBinary,
         IP!ResumeBinary, I!ResumePostfix, IP!ResumePostfix, I!VisitBlock, IP!VisitBlock,
         I!Leave, IP!Leave, I!ScopeContinues, IP!ScopeContinues, I!ScopeEnds,
         IP!ScopeEnds, I!VisitFuncExpr, IP!VisitFuncExpr, I!ResumeFuncExpr,
         IP!ResumeFuncExpr, I!RegisterBelow, IP!RegisterBelow, I!RegisterFunction,
         IP!RegisterFunction, I!VisitCallExpr, IP!VisitCallExpr, I!ResumeCallExpr,
         IP!ResumeCallExpr, I!ResumeCondition, IP!ResumeCondition, I!ResumePrintStmt,
         IP!ResumePrintStmt, I!ResumeExprStmt, IP!ResumeExprStmt, I!ResumeReturnStmt,
         IP!ResumeReturnStmt, I!Finish, IP!Finish, I!At, IP!At, I!node, IP!node, I!Push,
         IP!Push, I!IntObj, IP!IntObj, I!Ints, IP!Ints, I!Continue, IP!Continue, I!state,
         IP!state, I!Env!contains, IP!Env!contains, I!Stop, IP!Stop, I!UndefVariable,
         IP!UndefVariable, I!Env!get, IP!Env!get, I!VisitAll, IP!VisitAll, I!Resume,
         IP!Resume, I!Env!defineOrAssign, IP!Env!defineOrAssign, I!Result, IP!Result,
         I!Pop, IP!Pop, I!IsInt, IP!IsInt, I!NonNumeric, IP!NonNumeric, I!Below, IP!Below,
         I!Wrap, IP!Wrap, I!BinaryError, IP!BinaryError, I!Lhs, IP!Lhs, I!Rhs, IP!Rhs,
         I!NoError, IP!NoError, I!BinaryResult, IP!BinaryResult, I!Traps, IP!Traps,
         I!Signalled, IP!Signalled, I!IllegalOperator, IP!IllegalOperator, I!Env!assign,
         IP!Env!assign, I!Stepped, IP!Stepped, I!Env!Enter, IP!Env!Enter, I!ResumeAt,
         IP!ResumeAt, I!Leaving, IP!Leaving, I!Env!Leave, IP!Env!Leave, I!Returned,
         IP!Returned, I!Exhausted, IP!Exhausted, I!Visit, IP!Visit, I!Nil, IP!Nil,
         I!FuncObj, IP!FuncObj, I!Register, IP!Register, I!ExprKind, IP!ExprKind,
         I!StmtKind, IP!StmtKind, I!RegisterAll, IP!RegisterAll, I!Known, IP!Known,
         I!Bound, IP!Bound, I!Terminated, IP!Terminated, I!IsFunc, IP!IsFunc, I!Callee,
         IP!Callee, I!NotAFunction, IP!NotAFunction, I!WrongArguments, IP!WrongArguments,
         I!ArgumentScope, IP!ArgumentScope, I!Selected, IP!Selected, I!toString,
         IP!toString, I!Running, IP!Running, I!Finished, IP!Finished, I!MinInt, IP!MinInt,
         I!MaxInt, IP!MaxInt, I!Env!Holders, IP!Env!Holders, I!Env!Holder, IP!Env!Holder,
         I!AnItem, IP!AnItem, I!Env!Bind, IP!Env!Bind, I!DivisionByZero,
         IP!DivisionByZero, I!BoolObj, IP!BoolObj, I!areEqual, IP!areEqual, I!Quotient,
         IP!Quotient, I!Env!Opened, IP!Env!Opened, I!isTrue, IP!isTrue, I!Env!Visible,
         IP!Env!Visible, I!Magnitude, IP!Magnitude, I!Env!Empty, IP!Env!Empty
<1> QED
  BY <1>1, <1>2

\* And the same code generator.
LEMMA SameCodegen == (G!Init <=> GP!Init) /\ (G!Next <=> GP!Next)
<1>1. G!Init = GP!Init
  BY DEF G!Init, GP!Init, G!InitWith, GP!InitWith, G!Visit, GP!Visit, G!Env!Opened,
         GP!Env!Opened, G!EmptyModule, GP!EmptyModule, G!Running, GP!Running, G!AnItem,
         GP!AnItem, G!Env!Empty, GP!Env!Empty
<1>2. /\ G!VisitLiteralExpr = GP!VisitLiteralExpr /\ G!VisitVarExpr = GP!VisitVarExpr
      /\ G!ResumeAssignment = GP!ResumeAssignment /\ G!ResumeUnary = GP!ResumeUnary
      /\ G!ResumeBinary = GP!ResumeBinary /\ G!ResumePostfix = GP!ResumePostfix
      /\ G!VisitCallExpr = GP!VisitCallExpr /\ G!ResumeCallExpr = GP!ResumeCallExpr
  BY DEF G!VisitLiteralExpr, GP!VisitLiteralExpr, G!VisitVarExpr, GP!VisitVarExpr,
         G!ResumeAssignment, GP!ResumeAssignment, G!ResumeUnary, GP!ResumeUnary,
         G!ResumeBinary, GP!ResumeBinary, G!ResumePostfix, GP!ResumePostfix,
         G!VisitCallExpr, GP!VisitCallExpr, G!ResumeCallExpr, GP!ResumeCallExpr, G!At,
         GP!At, G!Push, GP!Push, G!IntObj, GP!IntObj, G!node, GP!node, G!Continue,
         GP!Continue, G!environment, GP!environment, G!getAllocVar, GP!getAllocVar,
         G!NullPtr, GP!NullPtr, G!Stop, GP!Stop, G!Signalled, GP!Signalled, G!Emit,
         GP!Emit, G!Latest, GP!Latest, G!StoreIn, GP!StoreIn, G!Result, GP!Result,
         G!Replace, GP!Replace, G!Wrap, GP!Wrap, G!TypeOfValue, GP!TypeOfValue, G!Folds,
         GP!Folds, G!Folded, GP!Folded, G!ResultType, GP!ResultType, G!Callee, GP!Callee,
         G!NotAFunction, GP!NotAFunction, G!WrongArguments, GP!WrongArguments, G!VisitAll,
         GP!VisitAll, G!Resume, GP!Resume, G!Running, GP!Running, G!Env!contains,
         GP!Env!contains, G!Env!get, GP!Env!get, G!Instruction, GP!Instruction,
         G!RegisterOf, GP!RegisterOf, G!allocVar, GP!allocVar, G!Slot, GP!Slot,
         G!Env!Bind, GP!Env!Bind, G!Below, GP!Below, G!MinInt, GP!MinInt, G!Traps,
         GP!Traps, G!Poison, GP!Poison, G!BinaryResult, GP!BinaryResult, G!Comparisons,
         GP!Comparisons, G!Known, GP!Known, G!IsFunctionValue, GP!IsFunctionValue,
         G!Variable, GP!Variable, G!Visit, GP!Visit, G!AnItem, GP!AnItem, G!Env!Holders,
         GP!Env!Holders, G!Env!Holder, GP!Env!Holder, G!EmitFirst, GP!EmitFirst, G!Parent,
         GP!Parent, G!BoolObj, GP!BoolObj, G!areEqual, GP!areEqual, G!Quotient,
         GP!Quotient, G!Env!Visible, GP!Env!Visible, G!Magnitude, GP!Magnitude
<1>3. /\ G!Descend = GP!Descend /\ G!VisitOperands = GP!VisitOperands
      /\ G!VisitBlock = GP!VisitBlock /\ G!Leave = GP!Leave
      /\ G!ScopeContinues = GP!ScopeContinues /\ G!ScopeEnds = GP!ScopeEnds
      /\ G!VisitFuncExpr = GP!VisitFuncExpr /\ G!DefineParameter = GP!DefineParameter
      /\ G!LeaveFunction = GP!LeaveFunction /\ G!Finish = GP!Finish
  BY DEF G!Descend, GP!Descend, G!VisitOperands, GP!VisitOperands, G!VisitBlock,
         GP!VisitBlock, G!Leave, GP!Leave, G!ScopeContinues, GP!ScopeContinues,
         G!ScopeEnds, GP!ScopeEnds, G!VisitFuncExpr, GP!VisitFuncExpr, G!DefineParameter,
         GP!DefineParameter, G!LeaveFunction, GP!LeaveFunction, G!Finish, GP!Finish, G!At,
         GP!At, G!Continue, GP!Continue, G!VisitAll, GP!VisitAll, G!node, GP!node,
         G!environment, GP!environment, G!Resume, GP!Resume, G!Env!Enter, GP!Env!Enter,
         G!ResumeAt, GP!ResumeAt, G!Leaving, GP!Leaving, G!Env!Leave, GP!Env!Leave,
         G!Returned, GP!Returned, G!Exhausted, GP!Exhausted, G!Visit, GP!Visit, G!Push,
         GP!Push, G!Below, GP!Below, G!NullPtr, GP!NullPtr, G!Define, GP!Define,
         G!FunctionAt, GP!FunctionAt, G!ItemAt, GP!ItemAt, G!allocVar, GP!allocVar,
         G!Emit, GP!Emit, G!Argument, GP!Argument, G!Parent, GP!Parent, G!Slot, GP!Slot,
         G!Env!Bind, GP!Env!Bind, G!SetInsertPoint, GP!SetInsertPoint, G!block, GP!block,
         G!Replace, GP!Replace, G!Running, GP!Running, G!Finished, GP!Finished, G!AnItem,
         GP!AnItem, G!Env!Opened, GP!Env!Opened, G!NewBlock, GP!NewBlock, G!Declare,
         GP!Declare, G!EmitFirst, GP!EmitFirst, G!Instruction, GP!Instruction,
         G!Env!Empty, GP!Env!Empty, G!FunctionsNamed, GP!FunctionsNamed
<1>4. /\ G!ResumeVarStmt = GP!ResumeVarStmt /\ G!ResumeIfStmt = GP!ResumeIfStmt
      /\ G!AfterThen = GP!AfterThen /\ G!AfterElse = GP!AfterElse
      /\ G!VisitWhileStmt = GP!VisitWhileStmt /\ G!ResumeWhileStmt = GP!ResumeWhileStmt
      /\ G!AfterBody = GP!AfterBody /\ G!ResumeExprStmt = GP!ResumeExprStmt
      /\ G!ResumeReturnStmt = GP!ResumeReturnStmt
      /\ G!ResumeFunctionStmt = GP!ResumeFunctionStmt
  BY DEF G!ResumeVarStmt, GP!ResumeVarStmt, G!ResumeIfStmt, GP!ResumeIfStmt, G!AfterThen,
         GP!AfterThen, G!AfterElse, GP!AfterElse, G!VisitWhileStmt, GP!VisitWhileStmt,
         G!ResumeWhileStmt, GP!ResumeWhileStmt, G!AfterBody, GP!AfterBody,
         G!ResumeExprStmt, GP!ResumeExprStmt, G!ResumeReturnStmt, GP!ResumeReturnStmt,
         G!ResumeFunctionStmt, GP!ResumeFunctionStmt, G!At, GP!At, G!IsFunctionValue,
         GP!IsFunctionValue, G!Result, GP!Result, G!Env!Bind, GP!Env!Bind,
         G!Env!assign, GP!Env!assign, G!Env!defineOrAssign, GP!Env!defineOrAssign, G!node,
         GP!node, G!StoreIn, GP!StoreIn, G!Pop, GP!Pop, G!Continue, GP!Continue, G!Parent,
         GP!Parent, G!Branch, GP!Branch, G!TestOf, GP!TestOf, G!NewBlock, GP!NewBlock,
         G!SetInsertPoint, GP!SetInsertPoint, G!Visit, GP!Visit, G!ItemAt, GP!ItemAt,
         G!environment, GP!environment, G!GoOnTo, GP!GoOnTo, G!block, GP!block, G!Emit,
         GP!Emit, G!BlockAt, GP!BlockAt, G!IntObj, GP!IntObj, G!Running, GP!Running,
         G!getAllocVar, GP!getAllocVar, G!NullPtr, GP!NullPtr, G!allocVar, GP!allocVar,
         G!Slot, GP!Slot, G!Below, GP!Below, G!BoolObj, GP!BoolObj, G!Latest, GP!Latest,
         G!AnItem, GP!AnItem, G!Instruction, GP!Instruction, G!Env!contains,
         GP!Env!contains, G!Env!get, GP!Env!get, G!EmitFirst, GP!EmitFirst, G!RegisterOf,
         GP!RegisterOf, G!Env!Holders, GP!Env!Holders, G!Env!Holder, GP!Env!Holder,
         G!Env!Visible, GP!Env!Visible
<1>5. /\ G!VisitInputExpr = GP!VisitInputExpr /\ G!ResumePrintStmt = GP!ResumePrintStmt
      /\ G!VisitFunctionStmt = GP!VisitFunctionStmt
  <2>1. /\ \A m, op, args : G!Emit(m, op, args) = GP!Emit(m, op, args)
        /\ \A m : G!allocVar(m) = GP!allocVar(m)
        /\ \A m, name, params : G!Library(m, name, params) = GP!Library(m, name, params)
        /\ \A m, name, args : G!CallNamed(m, name, args) = GP!CallNamed(m, name, args)
    BY DEF G!Emit, GP!Emit, G!EmitFirst, GP!EmitFirst, G!allocVar, GP!allocVar, G!Library,
           GP!Library, G!CallNamed, GP!CallNamed, G!Instruction, GP!Instruction, G!Parent,
           GP!Parent, G!FunctionsNamed, GP!FunctionsNamed, G!Declare, GP!Declare,
           G!FunctionAt, GP!FunctionAt
  <2> QED
    BY <2>1 DEF G!VisitInputExpr, GP!VisitInputExpr, G!ResumePrintStmt,
           GP!ResumePrintStmt, G!VisitFunctionStmt, GP!VisitFunctionStmt, G!At, GP!At,
           G!Scanf, GP!Scanf, G!Format, GP!Format, G!Slot, GP!Slot, G!Push, GP!Push,
           G!Latest, GP!Latest, G!Continue, GP!Continue, G!environment, GP!environment,
           G!Printf, GP!Printf, G!Result, GP!Result, G!Pop, GP!Pop, G!Define, GP!Define,
           G!Main, GP!Main, G!VisitAll, GP!VisitAll, G!node, GP!node, G!Resume, GP!Resume,
           G!Running, GP!Running, G!RegisterOf, GP!RegisterOf, G!Below, GP!Below,
           G!SetInsertPoint, GP!SetInsertPoint, G!NewBlock, GP!NewBlock, G!Declare,
           GP!Declare, G!Visit, GP!Visit, G!AnItem, GP!AnItem, G!FunctionsNamed,
           GP!FunctionsNamed
<1>6. G!Next = GP!Next
  BY <1>2, <1>3, <1>4, <1>5 DEF G!Next, GP!Next, G!vars, GP!vars
<1> QED
  BY <1>1, <1>6

\* The assumptions of the parts are those of Compiler.
LEMMA SameAssumptions ==
  /\ NoName \notin Name /\ Width \in Nat \ {0}
  /\ {MaxDepth, MaxReturns, MaxPrinted} \subseteq Nat \ {0}
  /\ Program \subseteq Node /\ IP!Closed(Node) /\ GP!Closed(Node)
  /\ Absent \notin IP!PrslObject /\ Absent \notin GP!Binding
  /\ \A n \in Node : n.val \in IP!Ints
  /\ \A n \in Node : n.val \in GP!Ints
  /\ \A root \in Program : root.kind = "Function"
  /\ 1 \in GP!Ints
<1>1. IP!Closed(Node) /\ GP!Closed(Node)
  BY AstAssumption
     DEF Closed, IP!Closed, GP!Closed, WellFormed, IP!WellFormed, GP!WellFormed,
         ExprKind, IP!ExprKind, GP!ExprKind, StmtKind, IP!StmtKind, GP!StmtKind,
         Operators, IP!Operators, GP!Operators, KidKind, IP!KidKind, GP!KidKind
<1>2. Ints = IP!Ints /\ Ints = GP!Ints
  BY DEF Ints, IP!Ints, GP!Ints, MinInt, IP!MinInt, GP!MinInt, MaxInt, IP!MaxInt,
         GP!MaxInt
<1>3. PrslObject = IP!PrslObject
  BY <1>2 DEF PrslObject, IP!PrslObject, Nil, IP!Nil, FuncExpr, IP!FuncExpr
<1>4. G!Binding = GP!Binding
  BY DEF G!Binding, GP!Binding
<1> QED
  BY <1>1, <1>2, <1>3, <1>4, NoNameAssumption, WidthAssumption, AstAssumption,
     ExecutorAssumption

\* An expression that was interpreted has a value.
LEMMA InterpretedValues ==
  ASSUME \A n \in Node : EndsWithValue(n)
  PROVE  I!Spec => []AlwaysAValue
<1>1. \A n \in Node : IP!EndsWithValue(n)
  BY DEF EndsWithValue, IP!EndsWithValue
<1>2. NoName \notin Name
  BY SameAssumptions
<1>3. Program \subseteq Node /\ IP!Closed(Node)
  BY SameAssumptions
<1>4. Width \in Nat \ {0}
  BY SameAssumptions
<1>5. /\ Absent \notin IP!PrslObject
      /\ {MaxDepth, MaxReturns, MaxPrinted} \subseteq Nat \ {0}
      /\ \A n \in Node : n.val \in IP!Ints
  BY SameAssumptions
<1>6. I!Spec => IP!Spec
  <2>1. [I!Next]_I!vars => [IP!Next]_IP!vars
    BY SameInterpreter DEF I!vars, IP!vars
  <2> QED
    BY <2>1, SameInterpreter, PTL DEF I!Spec, IP!Spec
<1>7. IP!Spec => []IP!TypeOK
  BY IP!TypeCorrect, <1>2, <1>3, <1>4, <1>5, PTL
<1>8. IP!Spec => [](\A i \in DOMAIN values : values[i] # IP!Nil)
  BY IP!ValuesThere, <1>1, <1>2, <1>3, <1>4, <1>5, PTL
<1>9. ASSUME IP!TypeOK, \A i \in DOMAIN values : values[i] # IP!Nil
      PROVE  AlwaysAValue
  <2>1. G!NullPtr \notin IP!PrslObject
    BY DEF G!NullPtr, IP!PrslObject, IP!Nil
  <2>2. \A i \in DOMAIN values : values[i] \in IP!PrslObject
    BY <1>9 DEF IP!TypeOK
  <2>3. Nil = IP!Nil
    BY DEF Nil, IP!Nil
  <2> QED
    BY <1>9, <2>1, <2>2, <2>3 DEF AlwaysAValue
<1> QED
  BY <1>6, <1>7, <1>8, <1>9, PTL

\* One that was translated has one.
LEMMA TranslatedValues ==
  ASSUME \A n \in Node : EndsWithValue(n)
  PROVE  G!Spec => []AlwaysAValue
<1>1. \A n \in Node : GP!EndsWithValue(n)
  BY DEF EndsWithValue, GP!EndsWithValue
<1>2. NoName \notin Name
  BY SameAssumptions
<1>3. Program \subseteq Node /\ GP!Closed(Node)
  BY SameAssumptions
<1>4. Width \in Nat \ {0}
  BY SameAssumptions
<1>5. /\ Absent \notin GP!Binding
      /\ \A n \in Node : n.val \in GP!Ints
      /\ \A root \in Program : root.kind = "Function"
      /\ 1 \in GP!Ints
  BY SameAssumptions
<1>6. G!Spec => GP!Spec
  <2>1. [G!Next]_G!vars => [GP!Next]_GP!vars
    BY SameCodegen DEF G!vars, GP!vars
  <2> QED
    BY <2>1, SameCodegen, PTL DEF G!Spec, GP!Spec
<1>7. GP!Spec => []GP!TypeOK
  BY GP!TypeCorrect, <1>2, <1>3, <1>4, <1>5, PTL
<1>8. GP!Spec => [](\A i \in DOMAIN values : values[i] # GP!NullPtr)
  BY GP!ValuesThere, <1>1, <1>2, <1>3, <1>4, <1>5, PTL
<1>9. ASSUME GP!TypeOK, \A i \in DOMAIN values : values[i] # GP!NullPtr
      PROVE  AlwaysAValue
  <2>1. Nil \notin GP!Value
    BY DEF Nil, GP!Value, GP!Binding, GP!NullPtr, GP!Poison, GP!Format
  <2>2. \A i \in DOMAIN values : values[i] \in GP!Value
    BY <1>9 DEF GP!TypeOK
  <2>3. G!NullPtr = GP!NullPtr
    BY DEF G!NullPtr, GP!NullPtr
  <2> QED
    BY <1>9, <2>1, <2>2, <2>3 DEF AlwaysAValue
<1> QED
  BY <1>6, <1>7, <1>8, <1>9, PTL

\* Expressions always have a value, in the interpreter and in the code generator, if
\* every scope has a return among its own statements, as those have that the parser
\* builds.
THEOREM ValuesAlways ==
  ASSUME \A n \in Node : EndsWithValue(n)
  PROVE  Spec => []AlwaysAValue
<1> DEFINE idle == mode \notin {"INTERPRET", "COMPILE"} /\ values = <<>>
<1>1. Init /\ mode \notin {"INTERPRET", "COMPILE"} => idle
  BY DEF Init, I!InitWith
<1>2. IInv /\ idle /\ [Next]_vars => idle'
  <2>1. IInv /\ idle => ~Execute
    BY DEF IInv, PartsFollowStage, Execute
  <2> QED
    BY <2>1
       DEF Next, ReadOptions, CreateExecutor, Parse, Resolve, Dump, vars, run, executor,
           mode, flags
<1>3. idle => AlwaysAValue
  BY DEF AlwaysAValue
<1>4. Spec /\ mode \notin {"INTERPRET", "COMPILE"} => []AlwaysAValue
  <2> HIDE DEF idle
  <2> QED
    BY <1>1, <1>2, <1>3, Inductive, PTL DEF Spec
<1>5. Spec /\ mode = "INTERPRET" => []AlwaysAValue
  BY PartsRun, InterpretedValues, PTL
<1>6. Spec /\ mode = "COMPILE" => []AlwaysAValue
  BY PartsRun, TranslatedValues, PTL
<1>7. mode = "INTERPRET" \/ mode = "COMPILE" \/ mode \notin {"INTERPRET", "COMPILE"}
  OBVIOUS
<1> QED
  BY <1>4, <1>5, <1>6, <1>7, PTL

=============================================================================
