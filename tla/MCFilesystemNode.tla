-------------------------- MODULE MCFilesystemNode --------------------------
(* A small instance of FilesystemNode: two messages for one channel and one *)
(* for the base directory, and a call that adds the channel.                *)
EXTENDS FilesystemNode, TLC

CONSTANTS small, large, plain, add, base, chan, t1, t2

MCMsgs == {small, large, plain}
MCAdds == {add}
MCDir == [x \in {small, large, add} |-> chan] @@ [x \in {plain} |-> base]
MCSize == [m \in MCMsgs |-> IF m = large THEN 2 ELSE 1]
MCTasks == {t1, t2}
MCTotals == {0, 2}
=============================================================================
