--------------------------- MODULE MCTaskManager ---------------------------
(* Model-checking instance of TaskManager. *)
EXTENDS TaskManager, SequencesExt

\* Every run queue of distinct tasks, as Erase meets them.
DistinctSeqs == {q \in SeqOf(TaskId, MaxTasks) : IsInjective(q)}

\* Closing the gap of a task's only occurrence is what Erase does with
\* std::remove, which drops all occurrences.
ASSUME EraseRemovesAll ==
    \A q \in DistinctSeqs, t \in TaskId : Erase(q, t) = Remove(q, t)
=============================================================================
