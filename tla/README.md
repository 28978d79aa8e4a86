# A verification of prsl

prsl is a small expression language: a scanner and a recursive-descent parser
build a tree, a resolver checks it, and either a tree-walking interpreter runs
it or a code generator hands it to LLVM. One thread does all of this, and all it
leaves behind is an output file. What is hard here is not concurrency but *state kept across nested
visits*: chained environments, scopes entered and left by hand, flags saved and
restored around function bodies, a return stack that one loop looks at and
others do not, two tables of functions, errors that travel partly as exceptions
and partly as a counter.

The project models that state in TLA+, one action per visit of a node (or per
step of a pointer walk), checks it with TLC on small sets of programs, and
proves with TLAPS, for programs of any size and shape, that resolver and
interpreter keep their scopes, flags, results and callers' variables in order;
that no function that the code generator makes uses what belongs to another;
for any number of addresses and any nesting, that the linked environments
implement lexical scopes; for texts of any length, that the scanner implements
the lexical rules; and for any sources and options, that only checked programs
run and only whole outputs are written.

## 1. Inventory

| Component (under `src/`) | State | Operations | Talks to | What makes it correct |
|---|---|---|---|---|
| `Environment`, `EnvironmentManager` (`prsl/Compiler/Common/Environment.hpp`) | heap of environments (`objects`, `parentEnv`), `curEnv`, the locals of `withNewEnviron` | `get`, `contains`, `assign`, `define`, both `withNewEnviron`, `discardEnvsTill` | called by resolver, interpreter and code generator | lexical lookup, no look beyond a function, no environment freed early or late, `define` never throws |
| `FunctionsManager` (same directory) | name to function | `set`, `get`, `contains` | resolver, interpreter and code generator, one each | functions by name win over variables |
| Resolver (`prsl/Semantics`) | `EnvironmentManager<bool>`, `FunctionsManager<bool>`, `inFunction` | one visit per node kind; throws | tree, logger | accepts exactly the well-scoped programs |
| Interpreter (`prsl/Compiler/Interpreter`) | `EnvironmentManager<PrslObject>`, functions, `returnStack`, output | one visit per node kind; throws | tree, logger, stdin, stdout | prints what the program means, leaves callers' variables alone |
| Objects (same directory) | none | equality, truth, printing | interpreter | int of fixed width; checked types |
| Parser (`prsl/Parser/Parser.cpp`) | iterator, `isFunction`, exceptions | one method per grammar rule, `synchronize` | tokens, logger, tree | the tree spells the text, precedence, whole trees even after an error |
| Scanner (`prsl/Parser/Scanner.cpp`) | cursor, start of the token, line, column | `tokenize`, `tokenizeOne`, the loops over blanks, words, comments | called by `parse()` | the tokens the lexical rules give, an end after all others, the right line, the cursor never past the text |
| AST, `TreeWalkerVisitor` (`prsl/AST`) | the nodes | dispatch, walk | all visitors | order of the walk |
| `Compiler`, `Executor` (`prsl/Compiler`) | error count, mode, output file | `run()`, `dump()` | everything | nothing runs, and no file is written, that was not parsed and resolved; one error per run |
| Code generator (`prsl/Compiler/Codegen`) | module, insert point, `EnvironmentManager<Value *>`, functions, `returnStack` | one visit per node kind, `evaluateScope`, `allocVar` | LLVM | the same meaning as the interpreter, well-formed blocks, no operand of another function |
| Logger, errors (`prsl/Debug`) | error count | `log`, `error` | all | counts every error once |
| Command line (`prsl/main.cpp`, `CompilerFlags`) | flags | options to mode | `Compiler` | conflicting options refused |

Hard behaviours, with the properties that look at them, are listed one by one
under `hazards` in `PROJECT.json`. They come in seven groups: walks over linked
environments; scopes, flags and the insert point of the builder that have to be
restored on every path; resolver and executors disagreeing on *when* a name
exists; returns that only end some of the statements around them; a return
translated into a terminator in the middle of a block; errors after which a
half-built tree or a cut file is left; look-ahead of the scanner at the end of
the text and inside comments.

## 2. Modules and how they correspond to the code

```
Scopes ── LexicalScopes                 (abstract: scopes as one sequence)
   ├──── EnvironmentManager
   │            │ refines LexicalScopes  (mapping OpenScopes)
   └──── ScopesProofs ── EnvironmentManagerProofs (of EnvironmentManager)
Tokens ── Scanner ── ScannerProofs
             │ refines LexicalRules   (mapping Pieces, Position)
AST ── Parser          checked against Grammar
AST ── TreeWalker ─┬─ Semantics     checked against ScopingRules
                   └─ Objects ─┬─ Interpreter   checked against Meaning
                               └─ IR ─┬─ Codegen
                                      └─ Machine    Codegen, then Machine: against Meaning
CommandLine, Semantics, Interpreter, Codegen ── Compiler ── CompilerProofs
Parser ── MCCompiler                    (gives Compiler the results of parse())
TreeWalkerProofs, ScopesProofs ── SemanticsProofs (of Semantics)
                             ├─── InterpreterProofs (of Interpreter)
                             └─── CodegenProofs (of Codegen)
```

**Scopes** gives the view of the environments that a visitor has: a sequence of
scopes, innermost last, a function's scope being `global` (no parent). prsl has
no closures (`FuncObj` keeps the declaration only), so the reachable
environments always form one stack. `contains`, `get`, `assign`,
`defineOrAssign` are the member functions of the same names.

**EnvironmentManager** is `Environment.hpp` with its pointers. `live`, `objects`,
`parentEnv` are the heap, `curEnv` the member, `environToRestore` the locals of
the nested `withNewEnviron` calls, `call` the member function in progress. One
step of a recursive lookup (`WalkUp`, `ReturnGet`, `StoreAssign`, `Throw`, ...)
and one turn of the loop of `discardEnvsTill` (`DiscardOne`) is one action;
`defineOrAssign` keeps its two walks (`DefineFound`, then `reassign`). The owner
may issue any operation when none is in progress, so the model covers every
program and all three owners. Reference counts are not modelled: `Destroy` stands where
the last reference to an environment goes (the local of `withNewEnviron`, a turn of
`discardEnvsTill`), so `NoLeak` says that this happens once for every scope and never to
one that an open scope links to, not that the counts get there.

**LexicalScopes** is what the manager promises, each operation one step.
`EnvironmentManager` implements it under the mapping `OpenScopes`
(property `LexicalSpec`).

**AST** and **TreeWalker**: a node is one record for all kinds, with the fields
that visitors read; the recursion of a visitor is the sequence `todo` of nodes to
visit and rests of visits to run. What a visit keeps in a local variable
(`inFunction` saved around a body, the index of a loop) is kept in the item.

**Semantics** is the resolver: one action per visit method or rest of one.
**ScopingRules** says when a program is well scoped by quantifying over positions
of the text, without a walk that keeps state.

**Objects** and **Interpreter** are the executor; `values` holds the local
results of expressions in progress. Undefined behaviour is a choice: reading the
name of an unnamed function in `FunctionsResolver` does nothing or faults
(`RegisterFunction`), the least int divided by -1 wraps or traps (`Traps`).
Signed overflow wraps (the build is plain gcc/clang without `-ftrapv`).
**Meaning** evaluates a program node by node as a function from state to state.

**Parser** is the parser as operators: a method takes the parser at its call and
gives the parser at its return. A throw is a flag that every method passes on.
**Grammar** says which token sequences spell a tree and what precedence asks.
These two, ScopingRules and Meaning are recursive and used by TLC only.

**Tokens** has the characters, symbols and keywords. **Scanner** is `Scanner.cpp`
with its pointers as places in the text, the terminating zero included (a text
ends before the first zero in the file, like the buffer that is scanned): one
action is one turn of a loop (`ScanWord`, `ScanLineComment`, `ScanBlockComment`,
`SkipWhitespace`) or one choice of `tokenizeOne`; `at` says in which of them it
is. A token keeps its type, the piece of the text it is a view of, line and
column. **LexicalRules** is what a scanner promises, with no loop and no
look-ahead: skip a blank or a comment, take the longest lexeme, refuse one
character, end. Scanner implements it (`FollowsRules`), the place between two
tokens being `Position`.

**IR** is as much of LLVM as the code generator uses: a module with functions,
blocks and instructions, the insert point of the builder, and the folding of
operations on constants. **Codegen** is the visitor, one action per visit or rest
of one as in Interpreter; what its visits hold are operands, not values. The
blocks of an `if` and a `while` are made in the order of the code, `allocVar`
puts its instruction first in the entry block, and a function's translation
returns to the block saved before it. **Machine** runs a module, one instruction a
step. What LLVM leaves undefined, and modules its tools refuse, are one outcome,
`Undefined`: fall off a block's end, an ill-typed operand, a slot of another
function, a load before a store, a division by zero. IR and Machine describe
LLVM and are external; that a comparison is printed as 0 or 1 (an `i1` given to
`printf` in the place of an `int`) is what `src/test/pass/pass_10.prsl` expects.

**CommandLine** is `main` up to the compiler as a function of the options given.
**Compiler** composes it with the results of `parse()`, Semantics and the two
executors into `main` and `run()`: a step of `run()` is a step of the part at
work. What `parse()` makes of a source is the constant `Parsed`; MCCompiler gives
it the values of Parser, which is recursive and would shut Compiler off from
proofs. `Executor` hides
which visitor there is; the two share their variables. `Dump` is
`Codegen::dump`: the file cannot be opened, or is opened and not filled
(`Cut`), or is written.

The line ranges of every definition are in `PROJECT.json` under `map`.
Definitions whose comment begins with "Mutant:" are variants with a plausible
mistake; they are used by no specification. With one of them in the place of the
definition it sits in front of, TLC finds the property violated that
`PROJECT.json` names with it under `mutants`.

## 3. Runs

| Run | Question | Bounds |
|---|---|---|
| `environment` | Do the linked environments implement lexical scopes, free each environment when its scope ends, stay inside the running function, and does every walk end? | 4 addresses, 1 name, 2 values |
| `scanner` | Does the cursor cut a text as the lexical rules do, with one end after all tokens and the right lines? | every text of up to 3 of 13 characters, comments of up to 6, numbers of up to 5 |
| `parser` | Is the tree the one the text spells, is it whole after an error? | all texts of 2 tokens, all spellings of a set of trees, each with one of its first 3 tokens left out, and all their beginnings; scopes inside, around and after functions |
| `resolver` | Is the resolver's verdict the one of the scoping rules; are scopes and `inFunction` restored; does it always answer? | programs of 2 statements |
| `interpreter` | Does a program print, and end, as it means; are callers' variables kept? | 4-bit ints, 3 to 4 statements, `MaxDepth` 6 |
| `codegen` | Is the module well formed, does no function use another's values, does running it print what the program means? | 2256 programs of 4 statements, 4-bit ints, `MaxFrames` 5 |
| `pipeline` | Does only run what was checked; is the output whole; is one error reported; has every expression a value? | 130 programs, damaged texts, an unreadable file, 15 command lines, 3-bit ints |
| `return_in_block` | Does a return end the statements around it? (violated) | |
| `call_of_unevaluated_function` | Is a function that the resolver accepted found? (violated) | |
| `parameter_tokens` | Are parameters names? (violated) | |
| `numbers` | Is a number read whatever follows it? (violated) | |
| `scope_in_function` | Does a compiled scope inside a function work like an interpreted one? (violated) | |

**Why the bounds are enough.** Four addresses make a function in a block in a
function: a lookup can pass a scope without the name, find a shadowing binding,
and be stopped at the edge of a function with the caller's binding beyond it;
deeper nesting repeats these (and section 5 proves it for any). A second name
never meets the first in `Environment`: every operation has one. In the
resolver the first statement builds something (a scope, function, branch, nested
function) and the second uses what may or may not be left of it. Four bits give
ints with overflow, a least int and a product out of range; `MaxDepth` 6 lets a
recursive function recurse and still return. `MaxPrinted` is above what a
program without a loop prints; `MaxReturns` stands for the memory a
returnStack can take and is not reached in programs whose returns end their
list. `MaxLiteral` is the largest int, a greater literal is a parse error.
The scanner looks at two characters at most, so three over all kinds put each
pair of them behind and in front of any other; six are needed for a comment with
a newline, a star that does not end it, its end and a character after it. In
`codegen` the first two statements set a variable and bind a function (named,
unnamed, with none, one and two parameters of one name) or a scope, the third
calls, branches or loops, or binds the function's name again in a block or a branch and
calls it then; `MaxFrames` 5 is reached by the functions that call
themselves without an end and not by the others. More than 1000 of these
programs are run to their end and compared. `CommandLines` has each mode, each
pair of modes, and one line for every way in which `main` returns early.

**The programs of `codegen`.** `Verifies` and `CompiledMeansSame` speak of the
programs for which the code generator is made (`Simple`): conditions are
comparisons, comparisons are used as conditions, printed or compared; a variable
that holds a function is only called; a function name is given once; no function
stands in a branch or a loop. The last is because the code generator decides while it
translates what a name is bound to: after `if (c) f = func() {2;};` every call of `f`
is one of that function, whichever branch runs. In a block there is nothing to decide,
and a function bound there to a name of an outer scope is the callee after the block
too (`ResumeVarStmt`), as in the interpreter. What
happens to others is listed under `hazards`; `TypeOK`, `LocalOperands`,
`AcceptedTranslates` and `Terminates` hold for all of the run. No program of the
passing run has a scope inside a function, because that does not work
(`scope_in_function`). A return is in all of them the last statement of the blocks
it is in: TLC evaluates it (`Structured` in MCCodegen), and theorem `OperandsLocal` has
it as its hypothesis, `ReturnsEndBlocks`.

**The programs of `interpreter`.** A return stands in them where it ends the
statement list it is in, because a return anywhere else does not work (see
`return_in_block`); every program that runs has been accepted by ScopingRules.
`ReturnsEndLists` says this of a set of programs, TLC evaluates it on those of the
run (`Structured` in MCInterpreter), and theorem `ReturnsEnd` has it as its
hypothesis.

**Deadlock.** Not checked, because every one of these systems really stops: the
manager's owner never calls again after `Throw`, a visitor has returned or
thrown, `run()` has returned, the text is written. That nothing stops *before*
that is what `OperationsEnd` and `Terminates` say.

**Fairness.** Weak fairness of `Steps` (the recursion and the loop in the
manager) or of `Next` (the scanner, a visitor, and the module it made when that
is run): they are sequential code that does not wait for anybody, so a step that
can be taken is taken. In EnvironmentManager nothing obliges the owner to call:
`Operations` is not fair. The pipeline states no fairness and no liveness: its
parts end or not as they do on their own.

**Liveness.** `OperationsEnd`; `Terminates` of the scanner for every text, closed
comments or not; of the resolver for every program (a return visits its value
twice, so 2^n visits below n nested returns, but it ends); of the interpreter for
programs without a loop or call; of the code generator and the module it made for
the programs of its run, whose loops count.

## 4. Where the code and what is said of it differ

1. **A return in a block or loop does not end it.** `visitBlockStmt`,
   `visitWhileStmt` do not look at `returnStack`; only `evaluateScope` does
   (`Interpreter.cpp:133`). `{ return x; print 1; }` prints; `while (x) return x;`
   never ends. Run `return_in_block`.
2. **A function that was resolved and not evaluated.** After
   `if (0) func(x) : f {...};` the call `f(2)` passes the resolver and finds `f`
   in neither table; `std::get` throws `bad_variant_access`, which `run()` does not
   catch (`Interpreter.cpp:178-189`). Run `call_of_unevaluated_function`.
3. **Any token is a parameter after a comma** (`Parser.cpp:406`), where the README's
   grammar has `<ident>`. Run `parameter_tokens`.

4. **A zero before another character and a digit is refused.** `peekNext()` is
   asked when the zero has been taken (`Scanner.cpp:96`): `f(0,1)` has an error
   token, `01` is a number; the README's grammar says the opposite of both. Run
   `numbers`.
5. **A compiled scope ends the function around it.** The parser marks the implicit
   return of every scope inside a function `isFunction`, and `visitReturnStmt`
   (`Codegen.cpp:488`) emits a `ret` for it: `f = func(x) { x = {3;}; x + x; };`
   returns 3 compiled and 6 interpreted. Run `scope_in_function`. (The block
   with two `ret` is ill formed; `verifyFunction` says so at line 334 and is not
   listened to.)

Known and not shown by a run: the README's `--output-file` is registered as `-o`
only (`main.cpp:37`; the pipeline has that line, it is refused); the README's
grammar allows one binary operator per level where the parser loops; a `return`
of a function is accepted when spelled with the keyword, which
`test/fail/fail_14.prsl` refuses without it; `x = { x = 3; x; } + x;` passes the test
for reading a variable in its own initializer; columns of tokens are counted from
-1 in the first line and from 1 in the others, and a block comment of several
lines does not start them anew, so `PointsToToken` allows for both; `main` returns 0 after errors that `run()`
reported; a file that cannot be read is an empty program (`Compiler.cpp:35-38`).

## 5. Proofs

Every theorem holds for all values of the constants that satisfy the named
assumptions; each is proved by an inductive invariant, one lemma per action (or per
group of actions that do the same to the variables), and the same last step:
initial states satisfy it, steps keep it, it implies the property.

| Module | Theorem | Statement |
|---|---|---|
| `EnvironmentManagerProofs` | `TypeCorrect`, `Inductive` | `Spec => []TypeOK`, `Spec => []IInv` |
| | `NestingCorrect`, `AllocationCorrect`, `LookupCorrect` | `Spec => []NestingInv`, `[]NoLeak`, `[]LookupInFrame` |
| | `DefineCorrect` | `Spec => DefineNeverThrows` |
| | `Refinement` | `Spec => LexicalSpec` |
| `SemanticsProofs` | `TypeCorrect`, `OneScopePerVisit` | `Spec => []TypeOK`, `[]ScopesMatchVisits` |
| | `InitializersBound` | `Spec => []InitializerStillBound` |
| | `OuterStates` | `Spec => OuterStateKept` |
| `InterpreterProofs` | `TypeCorrect`, `OneScopePerVisit` | `Spec => []TypeOK`, `[]ScopesMatchVisits` |
| | `Callers` | `Spec => CallersKept` |
| | `ReturnsEnd` | `ReturnsEndLists(returning)` implies `Spec => []ReturnEndsScope` |
| | `ValuesThere` | every scope `EndsWithValue` implies: no element of `values` is ever `Nil` |
| `CodegenProofs` | `TypeCorrect`, `Placed`, `NothingLeftOver` | `Spec => []TypeOK`, `[]BuilderPlaced`, `[]CleanEnd` |
| | `ValuesThere` | every scope `EndsWithValue` implies: no element of `values` is ever `NullPtr` |
| | `OperandsLocal` | `ReturnsEndBlocks(returning)` implies `Spec => []LocalOperands` |
| `CompilerProofs` | `ChecksComeFirst`, `FilesAreWhole`, `ErrorsCount` | `Spec => []OnlyCheckedRuns`, `[]OutputIsWhole`, `[]OneDiagnosis` |
| | `PartsRun` | `Spec` implies the `Spec` of the resolver, and of the executor of its mode |
| | `ValuesAlways` | every scope `EndsWithValue` implies `Spec => []AlwaysAValue` |
| `ScannerProofs` | `TypeCorrect`, `EndCorrect` | `Spec => []TypeOK`, `[]EndsWithEof` |
| | `Refinement` | `Spec => FollowsRules` |
| | `DiagnosticsPoint` | `Spec => []PointsToToken` |

**Assumptions.** `NullAssumption`, `AbsentAssumption`, `AbsentNoBoolean`,
`NoNameAssumption`: the marks for "no address", "no binding" and "no name" are none
of the values they stand beside. `AstAssumption`: the nodes have the shape the
parser gives them (`WellFormed`: how many sub-nodes of which kind), and programs
are such nodes; their number and depth is not bounded. `WidthAssumption`: an int
has at least one bit. `InterpreterAssumption`: the bounds of the model are positive
and a literal is an int of that width (another is a parse error).
`CodegenAssumption`: so for the code generator; 1 is an int, since `++` adds one, so
that an int has at least two bits; and a program is a `FunctionStmt`, as `parse()`
makes it.
`ExecutorAssumption`: in the pipeline, what the two executors assume of the
constants they share. `ParsedAssumption`: `parse()` gives a tree and counts no error or one.
`TextAssumption`: a text is a sequence of characters without the terminating zero.
`CharacterAssumption`: a letter is no digit, a letter or digit is no blank, no
symbol and not the zero, and no keyword's second character is a digit. TLC
evaluates all of them on the constants of the runs.

### The environments

`IInv` is `TypeOK /\ NestingInv /\ NoLeak /\ LookupInFrame /\ ReassignFinds`. None
of the parts is inductive alone. Destroying `curEnv` keeps `NoLeak` only if no
other open scope has the same address, which is in `NestingInv`; `NestingInv`
after an entry needs a fresh address, which is `NoLeak`; a `WalkUp` stays in the
running function only because `parentEnv` is the enclosing scope
(`NestingInv`). `DefineNeverThrows` needs `ReassignFinds`: the second walk of
`defineOrAssign` still has the binding ahead of it that the first one saw.

The steps are split in two (`TwoKindsOfStep`): those of a lookup change no
pointer, those of entering and leaving change no binding of a scope that stays
open. `NestingInv` and `NoLeak` are stated over the sequence `OpenEnvs`, whose
value depends on the loop of `discardEnvsTill`; the lemma `Views` restates them
over `environToRestore` and `curEnv`, and `NestingByNesting` treats each
operation there.

For the refinement, a scope of `LexicalScopes` is the `objects` of an open
environment and whether it was given no parent (`ScopeOf`). A step of a walk is a
stutter; the step that answers is the abstract operation, because
`LookupInFrame` makes the environment the walk has got to the nearest one with
the name, which is what `Holder` chooses. Destroying the last environment of a
scope is the abstract `Leave`. One fact has to be added to `IInv`: after
`UndefVarAccess` nothing happens (`Over`).

### The visitors

A visitor is a sequence of items still to do, so every invariant of the recursion
is a statement about sequences: what holds at an item depends on the items
before it. The lemmas of `TreeWalkerProofs` say what replacing the first item
by others does to the number of visits that end before each of the rest
(`LeavesIn`), and those of `ScopesProofs` what entering, leaving and binding do
to lookups; both visitors use them.

*Resolver.* `IInv` is `TypeOK /\ ScopesMatchVisits /\ SavedInFunction /\
BindingsWait`. `scopes # <<>>` is not inductive without the count of visits that
will end (`ScopesMatchVisits`). `inFunction` inside a body is restored from what
the end of each function visit has saved, so every saved value, not only the next
one, has to be right (`SavedInFunction`). `InitializerStillBound` speaks of the
item reached, `BindingsWait` of every initializer in progress: its name is bound
where *its* scope will find it, whatever is opened, bound and left in between. `OuterStateKept`
follows from `ScopesMatchVisits`: what a function hides is neither bound nor
the scope left.

*Interpreter.* `TypeOK` says that the results a visit takes are there, for it says
that `values` stays a sequence of objects when `Below` removes them and that a call finds
a function below its arguments. `IInv` is `TypeOK /\ ScopesMatchVisits /\
ResultsThere /\ IncrementBound /\ LoopsInside`. `ResultsThere` is the balance of
the recursion: there are heights `h`, one for every item and the end, such that
the item at `p` finds `h[p]` results, at least as many as it takes (`Need`), and
changes their number by `Gain`; and under the arguments of a call in progress
lies its callee, with as many parameters as the call has arguments, where no item
before the call reaches (`CallsWait`). The heights are a function whose
existence is claimed, not computed by a recursion, so a step only has to show how
the old ones are shifted. `IncrementBound`: the variable of `x++` has just been
read. `LoopsInside`: `evaluateScope` counts no further than its statements.

`ReturnsEnd` has a hypothesis because the property is false for programs with
a return elsewhere (run `return_in_block`). `ReturnsEndLists(returning)` says that
the set `returning` of statements contains every return, and each of its members
is last in its block or branch, and that again in `returning`, or directly in a
scope expression. That is the shape of
the programs that work; MCInterpreter has TLC evaluate it on the programs of the run. The invariant `ReturnInv` says
that from anything that may return, and from everything once something has,
nothing but ends of visits comes before an `evaluateScope` looks at
`returnStack`. Directly in a scope a return
may stand anywhere: `evaluateScope` looks after each statement.

`ValuesThere` has the hypothesis that every scope has a return among its own
statements (`EndsWithValue`); the parser appends one where there is none (`EndScope`).
Without it the result of an empty scope is the nullptr that `evaluateScope` starts
from. TLC evaluates it on the programs of the runs `interpreter` and `codegen`
(`ScopesReturn`) and on every tree of the run `parser` (`TreeIsWhole`). A scope runs its
statements one after the other, so its return is reached unless another value came first.
The invariant says it of the loops in progress (`LoopsReturn` of `TreeWalkerProofs`):
of the statements a loop has begun only the latest can be a return, and that is
still at work or its value is on `returnStack`. Hence a loop that has been through
all its statements finds a value, wherever other returns stand; so the theorem needs no
`ReturnsEndLists`. `Nil` can come from nowhere else: what variables, results and waiting
returns hold is in `Something` (`NothingNil`), where every operator of `Objects` stays.

*Code generator.* That every operand is there and that there is a place to put code
is what `TypeOK` rests on: an `Emit` into a block that does not exist would leave the
set of modules. `IInv` of `CodegenProofs` is `TypeOK /\ OneScopeEach /\ OperandsThere
/\ NumbersFit /\ Begun`. `OperandsThere` claims heights as `ResultsThere` does, stated
so that it can be composed (`Balanced(items, a, b)`: with `a` values the items find
what they take and leave `b`; `ThenBalanced` puts two such lists together), and ends
at 0. `Begun` is that of the builder: every block is in a function with an entry block of
its own (`WellMade`), from `visitFunctionStmt` on. `NumbersFit` is what keeps it so
across visits: the block a function definition comes back to, and the two or three
blocks that an if or a while has made and will fill later, are blocks of the module.
An operation on the module only adds to it (`Grows`), so a block or function that is
waited for never goes away; of each operation of the builder one lemma says so. Since it holds of every
program, it holds also where a return in a block makes the module wrong for LLVM:
the code generator itself never loses its place.

`ValuesThere` of the code generator is proved like the interpreter's, with the same lemmas
on the walk. There an if or a while, too, takes the value of a return inside it from
`returnStack` when it ends; it is then the latest statement of the loop around it, which
is no return, so that loop was not promised the value.

`OperandsLocal` says that functions translated in the middle of one another share
nothing but functions. Code is added to the function of the insert point only, so an
operand has to be usable there (`UsableIn`) when it is *used*, while values, slots
and blocks were made before, perhaps with a whole function in between. A function is the
exception: it may be called from everywhere, so that one bound anew, in whichever of the
scopes seen has the name (`Rebound`), disturbs nothing (`ScopesBound`). `Owned`, the
heart of `LInv`, therefore claims of every item still to do the function it will be
in (`g`, next to the heights `h` of `OperandsThere`): the values that it takes, the
slots that its names are bound to as far as it sees them, and the blocks that it
goes on with are of that function. Nothing between the end of a function body and
the body's start takes a value from before it (`OwnValues`), no name from around a
function is seen in it, as its scope is `global` (`Seen`), and the insert point kept
for `LeaveFunction` is in the function of what follows. One lemma on sequences
(`OwnedStep`) says how `h` and `g` are put together when a step replaces the first
item by others; every action but those that cross into and out of a function has
only to show that what it puts there stays (`Stays`).

`returnStack` is the exception. It is one for the whole translation, and a
value on it would be used by whichever function looks first. `ReturnsFound` says that
what a return leaves is taken by the next scope, if or while before anything else is
translated. That is where the hypothesis is needed: of a block with two
returns in a function body only one value is taken, the other, a register of that
function, becomes the value of the next scope that looks, for instance of
`{ x = 1; x; }` in a statement of the program, and LLVM's verifier would refuse the
instruction that uses it. The run `codegen` has no such program. The hypothesis is
weaker than `ReturnsEndLists`: a return in a branch or loop may be followed by anything.

### The pipeline

`IInv` of `CompilerProofs` adds to the three properties what each stage knows of
the parts: before its stage a part is in its initial state, after it has ended as
the next stage requires (`PartsFollowStage`), and as long as `run()` works nothing
is counted or written (`NothingWrong`). `PartsRun` says that a run of `main` is,
in the variables of a part, a behaviour of the part's own specification: what is
shown of a part holds in the pipeline. `ValuesAlways` is the use of it: the theorems
`TypeCorrect` and `ValuesThere` of the two executors, taken over by `INSTANCE` with the
variables of `run()`; in a mode without an executor no value is ever pushed.
(`SameInterpreter` and `SameCodegen` only say that the instances of one module, the one
in Compiler and the one with the proofs, are the same.)

### The scanner

`TypeOK` needs `CursorInv` with it. `line` and `col` stay in their bounds because
neither is ever ahead of `current`; the choice of a token starts on a character
of the text, so it can advance over one, and it advances over two only when
the second is part of a symbol or opens or closes a comment, hence not the
terminating zero (`SymbolType`, `AdvanceType`). `EndsWithEof` needs `EofInv`: an EOF
token made inside `tokenizeOne` leaves the cursor at the end, where `tokenize` can
only append its own; no other token has that type, whatever the tables hold
(`EntryType`).

The refinement needs what the loops have read: between `start` and `current` are
characters of a word (`WordRead`), the opening of a comment (`CommentRead`) and
not its end (`NotYetOver`), and the tokens made so far lie before what is being
read (`Begun`). A turn of a loop is a stutter. The step that makes a token
is the rule for the longest lexeme, since the loop has stopped exactly where no
longer one exists; a comment is skipped as one blank would be. `PointsToToken`
adds that lines are counted everywhere (`LineInv`) and columns wherever the
cursor is not inside a comment of several lines (`ColumnInv`); counting lines is
the cardinality of a set of newlines.

### What is not proved

* Liveness under fairness (`OperationsEnd`, the `Terminates`), which needs
  `ENABLED`.
* Statements by induction over trees: that the recursive Parser inverts Grammar
  (`TextKept`, `PrecedenceKept`, `TreeIsWhole`, `ParsedBack`), that the resolver
  agrees with ScopingRules (`VerdictFollowsRules`), interpreter and compiled module
  with Meaning (`AgreesWithMeaning`, `CompiledMeansSame`), and what an accepted program
  finds when it runs (`AcceptedFindsVariables`, `AcceptedTranslates`). They speak of
  RECURSIVE operators, and the induction is over data.
* `Verifies` of the code generator: types of operands, and that every block has one
  terminator, at its end. `LocalOperands` is the part of what LLVM's verifier asks that
  is proved.

## 6. Not modelled

* LLVM: what IR and Machine say of it is external; optimization passes
  (`initOpt`), target machines, the tables of levels and relocation models, the
  writing of IR. A table maps an option's value to an LLVM constant, no state of
  the program depends on it.
* Functions of a program named `printf`, `scanf` or `main`: the module would find
  them where it looks for the library's.
* Text: of errors, of diagnostics, of numbers, their colours and levels. The
  logger's error count is modelled; its other counts have no reader.
* `FuncExpr::retExpr`, `FunctionStmt::params`: no visitor reads them.
* What boost does with `argv`: the model starts from its `variables_map`. Reading
  files; build files; the harness of the regression tests (its programs are read
  as statements about the language).

## 7. Plan

Done: (1) Scopes, LexicalScopes, EnvironmentManager and its proofs, because all
three visitors stand on it; (2) AST, TreeWalker, Semantics, ScopingRules; (3)
Objects, Interpreter, Meaning; (4) Parser, Grammar; (5) Tokens, Scanner,
LexicalRules; (6) IR, Codegen, Machine; (7) CommandLine, Compiler with all modes.

Also done: the refinement proofs of EnvironmentManager and Scanner, the invariants
of Semantics, Interpreter, Codegen and Compiler for all programs (section 5), last of
them `LocalOperands`.

Left: `Verifies` for all programs without scopes in functions, from the invariant of
`OperandsLocal` and the places of terminators.
