---------------------------- MODULE SyntaxSolver ----------------------------
(***************************************************************************)
(* One source after the other (syntax_solver.c): the state keeps the       *)
(* stack of frames and the pool of tokens, and resets both behind a source *)
(* that was parsed.  What was in them is still there, and the builders     *)
(* look at the slot above the stack.  A source that is not parsed is       *)
(* logged as an error, which ends the process.                             *)
(***************************************************************************)
EXTENDS SyntaxParser

CONSTANT MaxSolved  \* bound: sources that are solved

ASSUME SolverAssumption == Followers \subseteq STRING /\ MaxSolved \in Nat

VARIABLE solved  \* how many sources were solved

solverVars == <<vars, solved>>

SolverInit == Init /\ solved = 0

\* ketl_syntax_solver_solve, if the source before did not end the process.
Solve(text) ==
  /\ Restart(text)
  /\ SyntaxTree # Stopped
  /\ solved < MaxSolved /\ solved' = solved + 1

ParseOn == Next /\ UNCHANGED solved

SolverNext == ParseOn \/ \E text \in Followers : Solve(text)

Spec == SolverInit /\ [][SolverNext]_solverVars /\ WF_solverVars(ParseOn)

(***************************************************************************)
(* Parsing ends, for every source and whatever was parsed before it.       *)
(***************************************************************************)
ParsingEnds == pc # "done" ~> pc = "done"

=============================================================================
