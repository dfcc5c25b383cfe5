----------------------------- MODULE MCUiEntry -----------------------------
(***************************************************************************)
(* Small instances of UiEntry.                                             *)
(***************************************************************************)
EXTENDS UiEntry, TLC

CONSTANTS a, b, c, o1, gold

\* One line, and the same line processed again after a lost state file: with the
\* same task, and edited.
OneLine    == [i \in Intents |-> o1]
SameAndNew == [i \in Intents |-> IF i = c THEN 2 ELSE 1]
OneSymbol  == [i \in Intents |-> gold]
=============================================================================
