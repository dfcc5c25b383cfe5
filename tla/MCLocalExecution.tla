-------------------------- MODULE MCLocalExecution --------------------------
(***************************************************************************)
(* Small instances of LocalExecution.                                      *)
(***************************************************************************)
EXTENDS LocalExecution, TLC

CONSTANTS a, b, c, o1, o2, chart1, chart2

\* A timed close and an immediate mutation of two Telegram lines.
TwoLines == (a :> o1) @@ (b :> o2)
TwoTasks == (a :> 1) @@ (b :> 1)

\* One Telegram line, created again each time its state file is lost.  The
\* line resolves to the same task the second time and, the account's SL/TP
\* defaults having changed, to another the third.
OneLine  == (a :> o1) @@ (b :> o1) @@ (c :> o1)
NewTask  == (a :> 1) @@ (b :> 1) @@ (c :> 2)

Charts == Permutations({chart1, chart2})
=============================================================================
