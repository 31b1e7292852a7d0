-------------------------- MODULE MCTaskArtifacts ---------------------------
(* Instances of TaskArtifacts for TLC.                                     *)
EXTENDS TaskArtifacts, TLC

CONSTANTS p1, p2, p3, t1, t2, video, frame

\* All polls ask about one task, or one poll about another task.
SameTask == [p \in Polls |-> t1]
TwoTasks == [p \in Polls |-> IF p = p3 THEN t2 ELSE t1]

\* Polls of one task are interchangeable.
PollSymmetry == Permutations(Polls)
=============================================================================
