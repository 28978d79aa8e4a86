----------------------------- MODULE CommandLine -----------------------------
(***************************************************************************)
(* prsl/main and prsl/Compiler/CompilerFlags: what main makes of the       *)
(* options before it runs the compiler.  vm is the variables_map of boost: *)
(* a function from the options given to their values.  An option that is   *)
(* not known, or with a value of the wrong kind, is one outside Options.   *)
(***************************************************************************)
EXTENDS Naturals

Modes == {"parse", "interpret", "codegen"}
Options ==
  Modes \cup {"help", "version", "-O", "filetype", "reloc", "target",
              "no-diagnostics-color", "-o", "inputs"}

Given(vm, options) == DOMAIN vm \cap options # {}
ValueOf(vm, option, default) == IF option \in DOMAIN vm THEN vm[option] ELSE default

conflicting_options(vm, opt1, opt2) == {opt1, opt2} \subseteq DOMAIN vm
Conflicting(vm) ==
  \E opt1, opt2 \in Modes : opt1 # opt2 /\ conflicting_options(vm, opt1, opt2)

\* The values that are looked up in a table.  (Of reloc any value will do.)
FileTypes == {"asm", "bc", "ll", "obj"}
BadValue(vm) ==
  \/ ValueOf(vm, "-O", 0) \notin 0..3
  \/ ValueOf(vm, "filetype", "ll") \notin FileTypes

\* What main does: abort (nobody catches the logic_error), return EXIT_FAILURE with
\* an error logged, return EXIT_SUCCESS, or run the compiler.
Outcome(vm) ==
  IF ~(DOMAIN vm \subseteq Options) THEN "failure"
  ELSE IF Conflicting(vm) THEN "abort"
  ELSE IF Given(vm, {"help", "version"}) THEN "success"
  ELSE IF "inputs" \notin DOMAIN vm \/ BadValue(vm) THEN "failure"
  ELSE "run"

\* CompilerFlags, as far as it decides what happens.
ExecutionMode(vm) ==
  IF "parse" \in DOMAIN vm THEN "PARSE"
  ELSE IF "codegen" \in DOMAIN vm THEN "COMPILE" ELSE "INTERPRET"
FlagsOf(vm) ==
  [mode |-> ExecutionMode(vm), type |-> ValueOf(vm, "filetype", "ll"),
   target |-> ValueOf(vm, "target", "")]
=============================================================================
