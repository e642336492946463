--------------------------- MODULE MCJobScheduler ---------------------------
(* Small instances of JobScheduler: the values its constants take. *)
EXTENDS JobScheduler, TLC

CONSTANTS i1, i2, f1, f2, f3, c1

\* One flow per instance; two calls of one instance; two of one and one of another.
OnePerInstance == f1 :> i1 @@ f2 :> i2
SameInstance == f1 :> i1 @@ f2 :> i1
Overlapping == f1 :> i1 @@ f2 :> i1 @@ f3 :> i2
Alone == f1 :> i1

Input(cron, at, retries) ==
    [cron |-> cron, runsAt |-> at, priority |-> IF cron = {} THEN 1 ELSE 0,
     maxRetries |-> retries, backoff |-> 1, timed |-> FALSE]
OneShot == {Input({}, 0, 1)}
RecurringTimed == {[Input({0, 1, 2, 3}, 0, 0) EXCEPT !.timed = TRUE]}
OneShotLater == {Input({}, 9, 1)}
OneShotTimed == {[Input({}, 0, 1) EXCEPT !.timed = TRUE]}
Recurring == {Input({1, 2}, 0, 0)}
Mixed == OneShot \cup Recurring
MixedTimed == OneShotTimed \cup Recurring

NoPatch == [priority |-> Keep, maxRetries |-> Keep, backoff |-> Keep,
            timed |-> Keep, enabled |-> Keep, cron |-> Keep, runsAt |-> Keep]
\* Raise a priority; re-enable and fire at once; become recurring; lose the cron.
ManyPatches == {[NoPatch EXCEPT !.priority = 2],
                [NoPatch EXCEPT !.enabled = TRUE, !.runsAt = 0],
                [NoPatch EXCEPT !.cron = {2}, !.timed = TRUE],
                [NoPatch EXCEPT !.cron = {}]}
OnePatch == {[NoPatch EXCEPT !.priority = 2]}
NoPatches == {}
=============================================================================
