------------------------------ MODULE Compiler ------------------------------
(***************************************************************************)
(* prsl/Compiler/Compiler with main: run() takes a source through the      *)
(* parser, the resolver and an executor, the interpreter or the code       *)
(* generator.  They share the logger, whose error count decides whether    *)
(* the next one is started, and the tree.                                  *)
(*                                                                         *)
(* The visitors are Semantics, Interpreter and Codegen, with the variables *)
(* of the resolver named r...; Executor hides which of the other two there *)
(* is, they share their variables.  A step of run() is a step of the one   *)
(* that is at work.                                                        *)
(***************************************************************************)
EXTENDS Objects, CommandLine

CONSTANTS MaxDepth, MaxReturns, MaxPrinted,     \* as in Interpreter
          Parsed,   \* the sources considered, each with what parse makes of it:
                    \* a tree in any case, and the count of its errors
          CommandLines  \* the options considered

\* The parser stops at its first error.
ASSUME ParsedAssumption ==
  \A s \in DOMAIN Parsed : Parsed[s].val \in Program /\ Parsed[s].errors \in {0, 1}

VARIABLES
  vm,           \* the options
  source,       \* the tokens of the file; a file that cannot be read has none
  stage,        \* how far main and run() have got
  errors,       \* logger.getErrorCount()
  written,      \* what dump has left in the output file
  tree,         \* stmt
  rTodo, rScopes, rFunctions, rInFunction, rVerdict,
  todo, values, scopes, functions, returnStack, printed, ir, status

run == <<vm, source, stage, errors, written, tree>>
resolver == <<rTodo, rScopes, rFunctions, rInFunction, rVerdict>>
executor == <<todo, values, scopes, functions, returnStack, printed, ir, status>>
vars == <<run, resolver, executor>>

R == INSTANCE Semantics WITH
  program <- tree, todo <- rTodo, scopes <- rScopes, functions <- rFunctions,
  inFunction <- rInFunction, verdict <- rVerdict
I == INSTANCE Interpreter WITH program <- tree
G == INSTANCE Codegen WITH program <- tree

\* What the interpreter and the code generator assume of the constants they share.
ASSUME ExecutorAssumption ==
  /\ Absent \notin PrslObject \cup G!Binding
  /\ {MaxDepth, MaxReturns, MaxPrinted} \subseteq Nat \ {0}
  /\ \A n \in Node : n.val \in Ints
  /\ \A root \in Program : root.kind = "Function"
  /\ 1 \in Ints

flags == FlagsOf(vm)
mode == flags.mode
Nothing == "nothing"    \* no file
Cut == "cut"            \* a file that was opened and not filled
\* The stages after which the process is gone: with EXIT_FAILURE, with 0, by abort or
\* a signal.
Ends == {"refused", "returned", "died"}

\* A new visitor starts the same whichever it is.
Init ==
  /\ vm \in CommandLines
  /\ source \in DOMAIN Parsed
  /\ stage = "options"
  /\ errors = 0
  /\ written = Nothing
  /\ R!InitWith(Parsed[source].val)
  /\ I!InitWith(Parsed[source].val)
  /\ ir = G!EmptyModule

\* main, up to run() or its return.
ReadOptions ==
  /\ stage = "options"
  /\ stage' = CASE Outcome(vm) = "failure" -> "refused"
                [] Outcome(vm) = "success" -> "returned"
                [] Outcome(vm) = "abort" -> "died"
                [] Outcome(vm) = "run" -> "create"
  /\ errors' = IF Outcome(vm) = "failure" THEN errors + 1 ELSE errors
  /\ UNCHANGED <<vm, source, written, tree, resolver, executor>>

\* Executor::Create: Codegen looks its target up, and throws in front of the try.
UnknownTarget == mode = "COMPILE" /\ flags.target = "unknown"
CreateExecutor ==
  /\ stage = "create"
  /\ stage' = IF UnknownTarget THEN "died" ELSE "parse"
  /\ errors' = IF UnknownTarget THEN errors + 1 ELSE errors
  /\ UNCHANGED <<vm, source, written, tree, resolver, executor>>

\* auto stmt = parse(...), and the check of the error count.
\* Mutant: the check is forgotten.
ParseOn ==
  /\ stage = "parse"
  /\ errors' = errors + Parsed[source].errors
  /\ stage' = "resolve"
  /\ UNCHANGED <<vm, source, written, tree, resolver, executor>>
Parse ==
  /\ stage = "parse"
  /\ errors' = errors + Parsed[source].errors
  /\ stage' = IF errors' > 0 THEN "returned" ELSE "resolve"
  /\ UNCHANGED <<vm, source, written, tree, resolver, executor>>

\* What run() does when resolve() is done and so many errors are counted.
\* Mutant: the count is not looked at.
AfterResolveAnyCount(count) == IF mode = "PARSE" THEN "returned" ELSE "execute"
AfterResolve(count) == IF count > 0 \/ mode = "PARSE" THEN "returned" ELSE "execute"

\* A step of resolve(stmt, logger).  Its errors are thrown to the catch at the
\* end of run().
Resolve ==
  /\ stage = "resolve"
  /\ R!Next
  /\ errors' = errors + (IF rVerdict' \in R!Errors THEN 1 ELSE 0)
  /\ stage' = IF rVerdict' = R!Running THEN "resolve" ELSE AfterResolve(errors')
  /\ UNCHANGED <<vm, source, written, executor>>

\* What comes after a visit that ended so: a RuntimeError is caught behind dump, what
\* else is thrown is not caught.  Mutant: the catch is in front of dump.
AfterExecuteDump(how) ==
  IF how \in {I!Terminated, I!Signalled} THEN "died" ELSE "dump"
AfterExecute(how) ==
  IF how \in {I!Terminated, I!Signalled} THEN "died"
  ELSE IF how \in I!RuntimeErrors THEN "returned" ELSE "dump"

\* A step of executor->visitStmt(stmt), of the interpreter or of the code generator.
Execute ==
  /\ stage = "execute"
  /\ \/ mode = "INTERPRET" /\ I!Next /\ UNCHANGED ir
     \/ mode = "COMPILE" /\ G!Next /\ UNCHANGED printed
  /\ errors' = errors + (IF status' \in I!RuntimeErrors THEN 1 ELSE 0)
  /\ stage' = IF status' = I!Running THEN "execute" ELSE AfterExecute(status')
  /\ UNCHANGED <<vm, source, written, resolver>>

\* executor->dump(outputPath); what it returns is not looked at.  A file that cannot
\* be opened, or has been and cannot be filled by the target machine, is an error.
\* The interpreter's does nothing.
Dump ==
  /\ stage = "dump"
  /\ stage' = "returned"
  /\ IF mode = "INTERPRET" THEN UNCHANGED <<errors, written>>
     ELSE \/ errors' = errors + 1 /\ UNCHANGED written
          \/ flags.type \in {"asm", "obj"} /\ errors' = errors + 1 /\ written' = Cut
          \/ written' = flags.type /\ UNCHANGED errors
  /\ UNCHANGED <<vm, source, tree, resolver, executor>>

Next == ReadOptions \/ CreateExecutor \/ Parse \/ Resolve \/ Execute \/ Dump

Spec == Init /\ [][Next]_vars

-----------------------------------------------------------------------------
(***************************************************************************)
(* Properties.                                                             *)
(***************************************************************************)

\* Nothing of a program runs or is translated that has an error the parser or the
\* resolver can find, that was only to be checked, or that the options say two
\* things about: the parser returns a tree also after an error, the resolver throws
\* in the middle of its walk, and both leave it to the error count and the catch to
\* stop what comes next.
OnlyCheckedRuns ==
  todo # <<Visit(tree)>> =>
    /\ mode \in {"INTERPRET", "COMPILE"}
    /\ ~Conflicting(vm)
    /\ Parsed[source].errors = 0
    /\ rVerdict = R!Accepted

\* An output file holds the translation of a whole program that was accepted, or
\* is cut and that was reported: the errors of the visitors pass over dump.
OutputIsWhole ==
  written # Nothing =>
    /\ mode = "COMPILE"
    /\ status = G!Finished
    /\ written = Cut <=> errors > 0

\* A run reports at most one error, and reports one when it stops early.
OneDiagnosis ==
  /\ errors <= 1
  /\ stage = "refused" => errors = 1
  /\ stage = "returned" /\ "inputs" \in DOMAIN vm /\ ~Given(vm, {"help", "version"}) =>
       (errors = 0 <=> /\ rVerdict = R!Accepted
                       /\ status = IF mode = "PARSE" THEN I!Running ELSE I!Finished
                       /\ mode = "COMPILE" => written = flags.type)

\* Expressions always have a value.  evaluateScope yields nullptr when no
\* statement of the scope returned; the parser ends every scope such that one
\* does.
AlwaysAValue == \A i \in DOMAIN values : values[i] \notin {Nil, G!NullPtr}

=============================================================================
