---------------------------- MODULE MCQueueStore ----------------------------
(* QueueStore on a small instance: the tables and the clock are bounded by   *)
(* filtering the steps that would leave the bounds.                          *)
EXTENDS QueueStore, TLC

CONSTANTS MaxRuns,       \* rows of table runs
          MaxCommands,   \* rows of table command_executions
          MaxTime        \* largest clock value

MCNext == /\ StoreNext
          /\ Len(runs') <= MaxRuns
          /\ Len(commands') <= MaxCommands
          /\ now' <= MaxTime

MCSpec == StoreInit /\ [][MCNext]_storeVars

KeySymmetry == Permutations(Keys)

=============================================================================
