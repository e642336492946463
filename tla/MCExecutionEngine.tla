------------------------- MODULE MCExecutionEngine -------------------------
(* Small instances of ExecutionEngine: the requests of its executions. *)
EXTENDS ExecutionEngine, TLC

CONSTANTS e1, e2, e3, s1, s2, f1, f2

Task(rollback) == [approved |-> TRUE, rollback |-> rollback]
Unapproved == [approved |-> FALSE, rollback |-> "available"]
Request(s, real, queued, tasks) ==
    [store |-> s, real |-> real, queued |-> queued, tasks |-> tasks]

\* Two executions write to one store and a third previews on it.
Contenders ==
    e1 :> Request(s1, TRUE, FALSE, <<Task("available")>>) @@
    e2 :> Request(s1, TRUE, TRUE, <<Task("derived")>>) @@
    e3 :> Request(s1, FALSE, FALSE, <<Task("derived")>>)
\* One execution with a plan of every kind, which has to be approved.
EveryPlan ==
    e1 :> Request(s1, TRUE, FALSE,
                  <<Task("available"), Task("derived"), Task("unavailable"), Unapproved>>)
\* Two actions of a caller.
Actions == e1 :> Request(s1, TRUE, FALSE, <<Task("derived"), Task("derived")>>)
=============================================================================
