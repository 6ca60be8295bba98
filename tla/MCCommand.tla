------------------------------ MODULE MCCommand ------------------------------
(***************************************************************************)
(* Two commands of a .load file, or the first of them given as flags.       *)
(***************************************************************************)
EXTENDS Command

MCCommands ==
    <<[set |-> 1, before |-> 2, after |-> 1],
      [set |-> 0, before |-> 0, after |-> 2]>>
=============================================================================
