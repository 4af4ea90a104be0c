-------------------------- MODULE MCCommandExecutor --------------------------
(* Two commands, every setup, one program run or several.              *)
EXTENDS CommandExecutor

CONSTANTS c1, c2

TwoCommands == {c1, c2}
==============================================================================
