---------------------------- MODULE MCEaManager ----------------------------
(* Instances of EaManager for TLC. *)
EXTENDS EaManager

Setting(levels, pcts, closeAt, beAt, beOff) ==
    [levels |-> levels, pcts |-> pcts, closeAt |-> closeAt, beAt |-> beAt,
     beOff |-> beOff, attach |-> TRUE, defSL |-> 2, defTP |-> 6]

\* One percentage of the current volume; percentages of the original volume with a
\* placeholder.
MCInputs == {Setting(<<1, 2>>, <<50>>, 0, 1, 0),
             Setting(<<1, 1, 2>>, <<0, 25, 50>>, 2, 2, 1)}
MCRules  == {[mode |-> "profit", reach |-> 6, vol |-> 2]}
MCStops  == {-2, 3}
MCLowest == -2
=============================================================================
