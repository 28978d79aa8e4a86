----------------------------- MODULE TreeWalker -----------------------------
(***************************************************************************)
(* prsl/AST/ASTVisitor and TreeWalkerVisitor: a walk over the nodes.  The  *)
(* call stack of the recursion is modelled as the sequence of what is      *)
(* still to do, next item first: an item is a node to visit, or the rest   *)
(* of a visit that waits for the items before it.                          *)
(***************************************************************************)
EXTENDS AST, FiniteSets

CONSTANTS Node,     \* the nodes of the programs considered
          Program   \* their roots

Closed(nodes) == \A n \in nodes : WellFormed(n, nodes)

ASSUME AstAssumption ==
  /\ Program \subseteq Node
  /\ Closed(Node)

\* The items of a walk.  A visit has one rest or, in the code generator, several.
Phases ==
  {"visit", "resume", "leave", "register", "param", "then", "else", "body"}
\* saved is what a local variable of the visit keeps until its rest is run, index where
\* a loop over the kids has got to, or another number.
Item == [phase : Phases, node : Node, index : Nat, saved : BOOLEAN]

AnItem(phase, n) == [phase |-> phase, node |-> n, index |-> 0, saved |-> FALSE]
Visit(n) == AnItem("visit", n)
Resume(n) == AnItem("resume", n)
\* Mutant: the loop forgets where it is.
ResumeAtStart(n, i) == Resume(n)
ResumeAt(n, i) == [AnItem("resume", n) EXCEPT !.index = i]
Leaving(n) == AnItem("leave", n)
LeavingWith(n, saved) == [AnItem("leave", n) EXCEPT !.saved = saved]
Register(n) == AnItem("register", n)

VisitAll(nodes) == [i \in DOMAIN nodes |-> Visit(nodes[i])]
RegisterAll(nodes) == [i \in DOMAIN nodes |-> Register(nodes[i])]

\* How many visits in progress end before the item at p is reached.
LeavesIn(items, a, b) == Cardinality({q \in a..b : items[q].phase = "leave"})
LeavesBefore(items, p) == LeavesIn(items, 1, p - 1)

\* The scope that is the innermost when the item at p is reached, if every visit
\* in progress leaves one scope.
ScopeOf(items, s, p) == Len(s) - LeavesBefore(items, p)

\* Every visit in progress has exactly one of the scopes s: the outermost one is
\* left when all of them end, and of the others those hide what is outside that
\* were opened for a node of one of the kinds.
ScopesNested(items, s, kinds) ==
  /\ ScopeOf(items, s, Len(items) + 1) = 1
  /\ s[1].global
  /\ \A p \in DOMAIN items : items[p].phase = "leave" =>
       (s[ScopeOf(items, s, p)].global <=> items[p].node.kind \in kinds)

=============================================================================
