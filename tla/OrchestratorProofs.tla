-------------------------- MODULE OrchestratorProofs --------------------------
(***************************************************************************)
(* Proofs about ai-orchestrator.  What a workflow promises of its steps,   *)
(* for every tree of steps, every width and any number of runs, cancelled, *)
(* timed out and recovered; and no wake-up of the agent scheduler is lost, *)
(* for every number of items, drains and callers, whatever the priorities. *)
(***************************************************************************)
EXTENDS WorkflowEngine, AgentScheduler, WellFoundedInduction, TLAPS

Working == {"waiting", "attempt", "inside"}
Busy == Working \cup {"saving"}

-----------------------------------------------------------------------------
(* The frames and the steps in them *)

\* A call of runSteps for c: what is done, in hand and queued of its list.
FrameOK(c, f) ==
    /\ f.steps \in Bodies(c)
    /\ f.done \subseteq ToSet(f.steps) /\ f.remaining = ToSet(f.steps) \ f.done
    /\ f.chunk \subseteq f.remaining /\ f.queue \subseteq f.remaining \ f.chunk
    /\ \A s \in f.queue : DependsOn[s] \subseteq f.done

\* The step that holds a list waits for it; no list is worked on when its run is not.
FrameInv ==
    \A r \in Runs, c \in Lists : frame[r][c].open =>
        /\ FrameOK(c, frame[r][c]) /\ phase[r] = "running"
        /\ c # Root => act[r][c] = "inside"

\* A step in progress belongs to the chunk of a list.
ParentInv ==
    \A r \in Runs, s \in Steps : act[r][s] \in Busy =>
        \E c \in Lists : frame[r][c].open /\ s \in frame[r][c].chunk

\* What counts as done was completed once.
SuccessInv ==
    /\ \A s \in Steps : stepStatus[s] = "COMPLETED" => successes[s] > 0
    /\ \A r \in Runs, s \in Steps : act[r][s] \in {"saving", "ok"} => successes[s] > 0
    /\ \A r \in Runs, c \in Lists : frame[r][c].open =>
           \A s \in frame[r][c].done : s \in Steps => successes[s] > 0

\* Who is recorded as RUNNING is being worked on.
RunningInv == \A s \in Steps : stepStatus[s] = "RUNNING" => \E r \in Runs : act[r][s] \in Working

StructInv == WorkflowTypeOK /\ FrameInv /\ ParentInv /\ SuccessInv /\ RunningInv /\ DependenciesFirst

LEMMA ListsAreSteps ==
    ASSUME NEW c \in Lists, NEW l \in Bodies(c)
    PROVE  l \in Seq(Steps) /\ ToSet(l) \subseteq Steps
    BY WorkflowAssumption DEF Bodies, Lists, ToSet

LEMMA OpenedType ==
    ASSUME NEW l \in Seq(Steps)
    PROVE  /\ Opened(l) \in FrameRec /\ Opened(l).open /\ Opened(l).steps = l
           /\ Opened(l).remaining = ToSet(l)
           /\ Opened(l).done = {} /\ Opened(l).chunk = {} /\ Opened(l).queue = {}
<1>1. ToSet(l) \in SUBSET Steps
    BY DEF ToSet
<1> QED
    BY <1>1 DEF Opened, Closed, FrameRec

LEMMA ClosedType == Closed \in FrameRec /\ ~Closed.open
    BY DEF Closed, FrameRec

LEMMA OpenedOK ==
    ASSUME NEW c \in Lists, NEW l \in Bodies(c)
    PROVE  Opened(l) \in FrameRec /\ FrameOK(c, Opened(l))
    BY ListsAreSteps, OpenedType DEF FrameOK

-----------------------------------------------------------------------------
(* What the actions on lists do *)

\* The ready steps a list goes on with, and the slice of them that runs next.
ReadyNow(r, c) == IF frame[r][c].queue # {} THEN frame[r][c].queue ELSE Ready(r, c)
SliceNow(r, c) == Slice(c, frame[r][c].steps, ReadyNow(r, c))

LEMMA Frames ==
    ASSUME WorkflowTypeOK, NEW r \in Runs, NEW c \in Lists
    PROVE  frame[r][c] \in FrameRec /\ DOMAIN frame = Runs /\ DOMAIN frame[r] = Lists
    BY DEF WorkflowTypeOK

LEMMA ReadyOK ==
    ASSUME StructInv, NEW r \in Runs, NEW c \in Lists, Turn(r, c)
    PROVE  /\ FrameOK(c, frame[r][c]) /\ frame[r][c].open /\ frame[r][c].chunk = {} /\ phase[r] = "running"
           /\ ReadyNow(r, c) \subseteq frame[r][c].remaining /\ SliceNow(r, c) \subseteq ReadyNow(r, c)
           /\ frame[r][c].remaining \subseteq Steps
           /\ \A s \in ReadyNow(r, c) : DependsOn[s] \subseteq frame[r][c].done
<1>1. /\ FrameOK(c, frame[r][c]) /\ frame[r][c].open /\ frame[r][c].chunk = {} /\ phase[r] = "running"
    BY DEF StructInv, FrameInv, Turn
<1>2. frame[r][c].remaining \subseteq Steps
    BY <1>1, ListsAreSteps DEF FrameOK
<1>3. SliceNow(r, c) \subseteq ReadyNow(r, c)
    BY DEF SliceNow, Slice
<1>4. ReadyNow(r, c) \subseteq frame[r][c].remaining
    BY <1>1 DEF ReadyNow, Ready, FrameOK
<1>5. \A s \in ReadyNow(r, c) : DependsOn[s] \subseteq frame[r][c].done
    BY <1>1 DEF ReadyNow, Ready, FrameOK
<1> QED
    BY <1>1, <1>2, <1>3, <1>4, <1>5

\* StartChunk, frame by frame.
LEMMA StartsChunk ==
    ASSUME StructInv, NEW r \in Runs, NEW c \in Lists, StartChunk(r, c)
    PROVE  /\ Turn(r, c)
           /\ UNCHANGED <<wfStatus, saved, phase, abort, successes, overlapped, runFaults>>
           /\ frame' = [frame EXCEPT ![r] = frame'[r]] /\ frame'[r] \in [Lists -> FrameRec]
           /\ frame'[r][c] = [frame[r][c] EXCEPT !.chunk = SliceNow(r, c), !.queue = ReadyNow(r, c) \ SliceNow(r, c)]
           /\ \A l \in Lists \ {c} :
                \/ /\ l \in Steps /\ l \in Begun(SliceNow(r, c)) /\ Kind[l] # "agent"
                   /\ \E body \in Bodies(l) : frame'[r][l] = Opened(body)
                \/ frame'[r][l] = frame[r][l]
           /\ stepStatus' = [s \in Steps |-> IF s \in Begun(SliceNow(r, c)) THEN "RUNNING" ELSE stepStatus[s]]
           /\ act' = [act EXCEPT ![r] = act'[r]]
           /\ act'[r] = [s \in Steps |->
                  IF s \notin SliceNow(r, c) THEN act[r][s]
                  ELSE IF s \notin Begun(SliceNow(r, c)) THEN "ok"
                  ELSE IF Kind[s] = "agent" THEN "waiting" ELSE "inside"]
           /\ tries' \in [Runs -> [Steps -> Nat]]
<1> DEFINE chunk == SliceNow(r, c)
           begun == Begun(chunk)
           rest == ReadyNow(r, c) \ chunk
<1>1. Turn(r, c) /\ UNCHANGED <<wfStatus, saved, phase, abort, successes, overlapped, runFaults>>
    BY DEF StartChunk
<1>2. /\ \E branch \in [begun -> BOOLEAN] :
           frame' = [frame EXCEPT ![r] = [l \in Lists |->
                IF l = c THEN [frame[r][c] EXCEPT !.chunk = chunk, !.queue = rest]
                ELSE IF l \in begun /\ Kind[l] # "agent"
                  THEN Opened(IF branch[l] THEN Body[l] ELSE WhenFalse[l])
                  ELSE frame[r][l]]]
      /\ stepStatus' = [s \in Steps |-> IF s \in begun THEN "RUNNING" ELSE stepStatus[s]]
      /\ act' = [act EXCEPT ![r] = [s \in Steps |->
             IF s \notin chunk THEN act[r][s]
             ELSE IF s \notin begun THEN "ok"
             ELSE IF Kind[s] = "agent" THEN "waiting" ELSE "inside"]]
      /\ tries' = [tries EXCEPT ![r] = [s \in Steps |-> IF s \in begun THEN 0 ELSE tries[r][s]]]
    BY DEF StartChunk, SliceNow, ReadyNow, StructInv, WorkflowTypeOK
<1>3. chunk \subseteq Steps /\ begun \subseteq Steps /\ rest \subseteq Steps
    BY <1>1, ReadyOK DEF Begun
<1>4. frame \in [Runs -> [Lists -> FrameRec]] /\ act \in [Runs -> [Steps -> Acts]] /\ tries \in [Runs -> [Steps -> Nat]]
    BY DEF StructInv, WorkflowTypeOK
<1>5. frame[r][c] \in FrameRec
    BY <1>4
<1>6. [frame[r][c] EXCEPT !.chunk = chunk, !.queue = rest] \in FrameRec
    BY <1>3, <1>5 DEF FrameRec
<1> HIDE DEF chunk, begun, rest
<1>7. PICK branch \in [begun -> BOOLEAN] :
           frame' = [frame EXCEPT ![r] = [l \in Lists |->
                IF l = c THEN [frame[r][c] EXCEPT !.chunk = chunk, !.queue = rest]
                ELSE IF l \in begun /\ Kind[l] # "agent"
                  THEN Opened(IF branch[l] THEN Body[l] ELSE WhenFalse[l])
                  ELSE frame[r][l]]]
    BY <1>2
<1>8. \A l \in begun : (IF branch[l] THEN Body[l] ELSE WhenFalse[l]) \in Bodies(l)
    BY <1>3, WorkflowAssumption DEF Bodies
<1>9. \A l \in begun : l \in Lists
    BY <1>3 DEF Lists
<1>10. \A l \in begun : Opened(IF branch[l] THEN Body[l] ELSE WhenFalse[l]) \in FrameRec
    BY <1>8, <1>9, OpenedOK
<1>11. frame'[r] = [l \in Lists |->
                IF l = c THEN [frame[r][c] EXCEPT !.chunk = chunk, !.queue = rest]
                ELSE IF l \in begun /\ Kind[l] # "agent"
                  THEN Opened(IF branch[l] THEN Body[l] ELSE WhenFalse[l])
                  ELSE frame[r][l]]
    BY <1>4, <1>7
<1>12. frame'[r] \in [Lists -> FrameRec]
    BY <1>4, <1>6, <1>10, <1>11
<1>13. frame' = [frame EXCEPT ![r] = frame'[r]]
    BY <1>7, <1>11
<1>14. frame'[r][c] = [frame[r][c] EXCEPT !.chunk = chunk, !.queue = rest]
    BY <1>11
<1>15. \A l \in Lists \ {c} :
                \/ /\ l \in Steps /\ l \in begun /\ Kind[l] # "agent"
                   /\ \E body \in Bodies(l) : frame'[r][l] = Opened(body)
                \/ frame'[r][l] = frame[r][l]
    BY <1>3, <1>8, <1>11
<1>16. act'[r] = [s \in Steps |->
             IF s \notin chunk THEN act[r][s]
             ELSE IF s \notin begun THEN "ok"
             ELSE IF Kind[s] = "agent" THEN "waiting" ELSE "inside"]
    BY <1>2, <1>4
<1>17. act' = [act EXCEPT ![r] = act'[r]]
    BY <1>2, <1>16
<1>18. tries' \in [Runs -> [Steps -> Nat]]
    BY <1>2, <1>4
<1> QED
    BY <1>1, <1>2, <1>12, <1>13, <1>14, <1>15, <1>16, <1>17, <1>18 DEF chunk, begun, rest

\* The call of runSteps for c returns or throws.
ClosesList(r, c, ok) ==
    /\ phase[r] = "running" /\ frame[r][c].open
    /\ \A s \in frame[r][c].chunk : act[r][s] \in {"ok", "failed"}
    /\ ok => frame[r][c].remaining = {}
    /\ frame' = [frame EXCEPT ![r][c] = Closed]
    /\ EndList(r, c, ok)
    /\ stepStatus' \in [Steps -> StepStatuses]
    /\ \A s \in Steps : IF s = c THEN stepStatus'[s] = OwnStatus(ok)
                        ELSE \/ stepStatus'[s] = stepStatus[s]
                             \/ /\ stepStatus'[s] = "SKIPPED" /\ ~ok
                                /\ s \in frame[r][c].remaining \ frame[r][c].chunk
                                /\ \E t \in frame[r][c].chunk : act[r][t] = "failed"
    /\ UNCHANGED <<saved, abort, tries, overlapped, runFaults>>

\* It goes on after a chunk.
GoesOn(r, c) ==
    /\ phase[r] = "running" /\ frame[r][c].open /\ frame[r][c].chunk # {}
    /\ \A s \in frame[r][c].chunk : act[r][s] = "ok"
    /\ frame' = [frame EXCEPT ![r][c] =
                    [frame[r][c] EXCEPT !.chunk = {}, !.remaining = frame[r][c].remaining \ frame[r][c].chunk,
                                        !.done = frame[r][c].done \cup frame[r][c].chunk]]
    /\ UNCHANGED <<wfStatus, phase, act, successes, stepStatus, saved, abort, tries, overlapped, runFaults>>

LEMMA ListEndsCloses ==
    ASSUME StructInv, NEW r \in Runs, NEW c \in Lists, ListEnds(r, c)
    PROVE  ClosesList(r, c, frame[r][c].remaining = {})
<1> DEFINE ok == frame[r][c].remaining = {}
<1>1. phase[r] = "running" /\ frame[r][c].open /\ frame[r][c].chunk = {}
    BY DEF ListEnds, Turn
<1>2. stepStatus' = [s \in Steps |-> IF s = c THEN OwnStatus(ok) ELSE stepStatus[s]] /\ EndList(r, c, ok)
    BY DEF ListEnds
<1>3. OwnStatus(ok) \in StepStatuses
    BY DEF OwnStatus, StepStatuses
<1>4. stepStatus \in [Steps -> StepStatuses]
    BY DEF StructInv, WorkflowTypeOK
<1> HIDE DEF ok
<1>5. stepStatus' \in [Steps -> StepStatuses]
    BY <1>2, <1>3, <1>4
<1>6. ok => frame[r][c].remaining = {}
    BY DEF ok
<1>7. frame' = [frame EXCEPT ![r][c] = Closed] /\ UNCHANGED <<saved, abort, tries, overlapped, runFaults>>
    BY DEF ListEnds
<1>8. ClosesList(r, c, ok)
    BY <1>1, <1>2, <1>5, <1>6, <1>7 DEF ClosesList
<1> QED
    BY <1>8 DEF ok

LEMMA SettleChunkCloses ==
    ASSUME StructInv, NEW r \in Runs, NEW c \in Lists, SettleChunk(r, c)
    PROVE  ClosesList(r, c, FALSE) \/ GoesOn(r, c)
<1> DEFINE chunk == frame[r][c].chunk
           left == frame[r][c].remaining \ chunk
           failed == {s \in chunk : act[r][s] = "failed"}
<1>1. /\ phase[r] = "running" /\ frame[r][c].open /\ chunk # {}
      /\ \A s \in chunk : act[r][s] \in {"ok", "failed"}
      /\ UNCHANGED <<saved, abort, tries, overlapped, runFaults>>
    BY DEF SettleChunk
<1>2. CASE failed = {}
    <2>1. /\ frame' = [frame EXCEPT ![r][c] =
                 [frame[r][c] EXCEPT !.chunk = {}, !.remaining = left, !.done = frame[r][c].done \cup chunk]]
          /\ UNCHANGED <<wfStatus, phase, act, successes, stepStatus>>
        BY <1>2 DEF SettleChunk
    <2>2. \A s \in chunk : act[r][s] = "ok"
        BY <1>1, <1>2
    <2> QED
        BY <1>1, <2>1, <2>2 DEF GoesOn
<1>3. CASE failed # {}
    <2>1. /\ frame' = [frame EXCEPT ![r][c] = Closed] /\ EndList(r, c, FALSE)
          /\ stepStatus' = [s \in Steps |-> IF s = c THEN OwnStatus(FALSE)
                                             ELSE IF s \in left THEN "SKIPPED" ELSE stepStatus[s]]
        BY <1>3 DEF SettleChunk
    <2>2. OwnStatus(FALSE) \in StepStatuses /\ stepStatus \in [Steps -> StepStatuses] /\ "SKIPPED" \in StepStatuses
        BY DEF OwnStatus, StepStatuses, StructInv, WorkflowTypeOK
    <2>3. stepStatus' \in [Steps -> StepStatuses]
        BY <2>1, <2>2
    <2>4. \E t \in chunk : act[r][t] = "failed"
        BY <1>3
    <2> QED
        BY <1>1, <2>1, <2>3, <2>4 DEF ClosesList
<1> QED
    BY <1>2, <1>3

-----------------------------------------------------------------------------
(* What the actions on steps do *)

\* What happens to step s when its call in r goes on.
Stays(r, s) == act'[r][s] = act[r][s] /\ stepStatus'[s] = stepStatus[s] /\ successes'[s] = successes[s]
Retries(r, s) ==
    /\ act[r][s] \in {"waiting", "attempt"} /\ act'[r][s] \in {"waiting", "attempt"}
    /\ stepStatus'[s] = stepStatus[s] /\ successes'[s] = successes[s]
Fails(r, s) ==
    /\ act[r][s] \in {"waiting", "attempt"} /\ act'[r][s] = "failed"
    /\ stepStatus'[s] = "FAILED" /\ successes'[s] = successes[s]
Succeeds(r, s) ==
    /\ act[r][s] = "attempt" /\ act'[r][s] = "saving"
    /\ stepStatus'[s] = "COMPLETED" /\ successes'[s] = successes[s] + 1
Saves(r, s) ==
    /\ act[r][s] = "saving" /\ act'[r][s] \in {"ok", "failed"}
    /\ stepStatus'[s] = stepStatus[s] /\ successes'[s] = successes[s]

StepsMove(r) ==
    /\ UNCHANGED <<wfStatus, phase, frame, overlapped>>
    /\ act' = [act EXCEPT ![r] = act'[r]]
    /\ \A s \in Steps : Stays(r, s) \/ Retries(r, s) \/ Fails(r, s) \/ Succeeds(r, s) \/ Saves(r, s)

LEMMA AbortRunMoves ==
    ASSUME WorkflowTypeOK, NEW r \in Runs, NEW reason \in {"cancel", "timeout"}, AbortRun(r, reason)
    PROVE  WorkflowTypeOK' /\ StepsMove(r)
<1> DEFINE cut == {s \in Steps : act[r][s] = "attempt"}
<1>1. /\ act' = [act EXCEPT ![r] = [s \in Steps |-> IF s \in cut THEN "failed" ELSE act[r][s]]]
      /\ stepStatus' = [s \in Steps |-> IF s \in cut THEN "FAILED" ELSE stepStatus[s]]
      /\ abort' = [abort EXCEPT ![r] = reason] /\ runFaults' = runFaults + 1
      /\ UNCHANGED <<wfStatus, saved, phase, frame, tries, successes, overlapped>>
    BY DEF AbortRun, RunFault, WorkflowTypeOK
<1>2. act'[r] = [s \in Steps |-> IF s \in cut THEN "failed" ELSE act[r][s]]
    BY <1>1 DEF WorkflowTypeOK
<1>3. act' \in [Runs -> [Steps -> Acts]] /\ stepStatus' \in [Steps -> StepStatuses]
    BY <1>1 DEF WorkflowTypeOK, Acts, StepStatuses
<1>4. abort' \in [Runs -> {"no", "cancel", "timeout"}] /\ runFaults' \in Nat
    BY <1>1 DEF WorkflowTypeOK
<1>5. WorkflowTypeOK'
    BY <1>1, <1>3, <1>4 DEF WorkflowTypeOK
<1>6. act' = [act EXCEPT ![r] = act'[r]]
    BY <1>1, <1>2
<1>7. ASSUME NEW s \in Steps
      PROVE  Stays(r, s) \/ Fails(r, s)
    BY <1>1, <1>2 DEF Stays, Fails
<1> QED
    BY <1>1, <1>5, <1>6, <1>7 DEF StepsMove

LEMMA StepActionMoves ==
    ASSUME WorkflowTypeOK, NEW r \in Runs, NEW s \in Steps, NEW retryable \in BOOLEAN,
           BeginAttempt(r, s) \/ AgentSucceeds(r, s) \/ Checkpoint(r, s) \/ AgentFails(r, s, retryable)
    PROVE  WorkflowTypeOK' /\ StepsMove(r)
<1>1. /\ act \in [Runs -> [Steps -> Acts]] /\ stepStatus \in [Steps -> StepStatuses]
      /\ tries \in [Runs -> [Steps -> Nat]] /\ successes \in [Steps -> Nat] /\ runFaults \in Nat
    BY DEF WorkflowTypeOK
<1>2. CASE BeginAttempt(r, s)
    <2>1. \/ act' = [act EXCEPT ![r][s] = "failed"] /\ stepStatus' = [stepStatus EXCEPT ![s] = "FAILED"] /\ tries' = tries
          \/ act' = [act EXCEPT ![r][s] = "attempt"] /\ UNCHANGED stepStatus /\ tries' = [tries EXCEPT ![r][s] = @ + 1]
        BY <1>2 DEF BeginAttempt, Fail
    <2>2. act[r][s] = "waiting" /\ UNCHANGED <<wfStatus, saved, phase, abort, frame, successes, overlapped, runFaults>>
        BY <1>2 DEF BeginAttempt
    <2>3. WorkflowTypeOK'
        <3>4. PICK to \in {"failed", "attempt"} : act' = [act EXCEPT ![r][s] = to]
            BY <2>1
        <3>1. act' \in [Runs -> [Steps -> Acts]]
            BY <1>1, <3>4 DEF Acts
        <3>2. stepStatus' \in [Steps -> StepStatuses]
            BY <1>1, <2>1 DEF StepStatuses
        <3>5. tries[r][s] + 1 \in Nat
            BY <1>1
        <3>6. tries' = tries \/ tries' = [tries EXCEPT ![r][s] = tries[r][s] + 1]
            BY <2>1
        <3>3. tries' \in [Runs -> [Steps -> Nat]]
            <4>1. CASE tries' = [tries EXCEPT ![r][s] = tries[r][s] + 1]
                BY <1>1, <3>5, <4>1
            <4> QED
                BY <1>1, <3>6, <4>1
        <3> QED
            BY <2>2, <3>1, <3>2, <3>3 DEF WorkflowTypeOK
    <2>4. act' = [act EXCEPT ![r] = act'[r]]
        BY <1>1, <2>1
    <2>5. \A t \in Steps : Stays(r, t) \/ Retries(r, t) \/ Fails(r, t)
        BY <1>1, <2>1, <2>2 DEF Stays, Retries, Fails
    <2> QED
        BY <2>2, <2>3, <2>4, <2>5 DEF StepsMove
<1>3. CASE AgentSucceeds(r, s)
    <2>1. /\ act[r][s] = "attempt" /\ act' = [act EXCEPT ![r][s] = "saving"]
          /\ stepStatus' = [stepStatus EXCEPT ![s] = "COMPLETED"] /\ successes' = [successes EXCEPT ![s] = @ + 1]
          /\ UNCHANGED <<wfStatus, saved, phase, abort, frame, tries, overlapped, runFaults>>
        BY <1>3 DEF AgentSucceeds
    <2>2. WorkflowTypeOK'
        BY <1>1, <2>1 DEF WorkflowTypeOK, Acts, StepStatuses
    <2>3. act' = [act EXCEPT ![r] = act'[r]]
        BY <1>1, <2>1
    <2>4. \A t \in Steps : Stays(r, t) \/ Succeeds(r, t)
        BY <1>1, <2>1 DEF Stays, Succeeds
    <2> QED
        BY <2>1, <2>2, <2>3, <2>4 DEF StepsMove
<1>4. CASE Checkpoint(r, s)
    <2>1. /\ act[r][s] = "saving"
          /\ \/ saved' = TRUE /\ act' = [act EXCEPT ![r][s] = "ok"] /\ UNCHANGED runFaults
             \/ runFaults' = runFaults + 1 /\ act' = [act EXCEPT ![r][s] = "failed"] /\ UNCHANGED saved
          /\ UNCHANGED <<wfStatus, stepStatus, phase, abort, frame, tries, successes, overlapped>>
        BY <1>4 DEF Checkpoint, RunFault
    <2>2. WorkflowTypeOK'
        <3>4. PICK to \in {"ok", "failed"} : act' = [act EXCEPT ![r][s] = to]
            BY <2>1
        <3>1. act' \in [Runs -> [Steps -> Acts]]
            BY <1>1, <3>4 DEF Acts
        <3>2. runFaults' \in Nat
            BY <1>1, <2>1
        <3>3. saved' \in BOOLEAN
            BY <2>1, Zenon DEF WorkflowTypeOK
        <3> QED
            BY <2>1, <3>1, <3>2, <3>3 DEF WorkflowTypeOK
    <2>3. act' = [act EXCEPT ![r] = act'[r]]
        BY <1>1, <2>1
    <2>4. \A t \in Steps : Stays(r, t) \/ Saves(r, t)
        BY <1>1, <2>1 DEF Stays, Saves
    <2> QED
        BY <2>1, <2>2, <2>3, <2>4 DEF StepsMove
<1>5. CASE AgentFails(r, s, retryable)
    <2>1. /\ act[r][s] = "attempt"
          /\ \/ act' = [act EXCEPT ![r][s] = "waiting"] /\ UNCHANGED stepStatus
             \/ act' = [act EXCEPT ![r][s] = "failed"] /\ stepStatus' = [stepStatus EXCEPT ![s] = "FAILED"]
          /\ UNCHANGED <<wfStatus, saved, phase, abort, frame, tries, successes, overlapped, runFaults>>
        BY <1>5 DEF AgentFails, Fail
    <2>2. WorkflowTypeOK'
        <3>4. PICK to \in {"waiting", "failed"} : act' = [act EXCEPT ![r][s] = to]
            BY <2>1
        <3>1. act' \in [Runs -> [Steps -> Acts]]
            BY <1>1, <3>4 DEF Acts
        <3>2. stepStatus' \in [Steps -> StepStatuses]
            BY <1>1, <2>1 DEF StepStatuses
        <3> QED
            BY <2>1, <3>1, <3>2 DEF WorkflowTypeOK
    <2>3. act' = [act EXCEPT ![r] = act'[r]]
        BY <1>1, <2>1
    <2>4. \A t \in Steps : Stays(r, t) \/ Retries(r, t) \/ Fails(r, t)
        BY <1>1, <2>1 DEF Stays, Retries, Fails
    <2> QED
        BY <2>1, <2>2, <2>3, <2>4 DEF StepsMove
<1> QED
    BY <1>2, <1>3, <1>4, <1>5

-----------------------------------------------------------------------------
(* Types *)

LEMMA BeginRunTypes ==
    ASSUME WorkflowTypeOK, NEW r \in Runs, BeginRun(r)
    PROVE  WorkflowTypeOK'
<1>1. Body[Root] \in Seq(Steps)
    BY WorkflowAssumption DEF Lists
<1>2. Opened(Body[Root]) \in FrameRec
    BY <1>1, OpenedType
<1>3. frame' \in [Runs -> [Lists -> FrameRec]]
    BY <1>2 DEF BeginRun, WorkflowTypeOK, Lists
<1>4. overlapped' \in BOOLEAN
    BY Zenon DEF BeginRun, WorkflowTypeOK
<1>5. phase' \in [Runs -> {"idle", "running", "closing", "over"}] /\ wfStatus' \in WorkflowStatuses
    BY DEF BeginRun, WorkflowTypeOK, WorkflowStatuses
<1> QED
    BY <1>3, <1>4, <1>5 DEF BeginRun, WorkflowTypeOK

LEMMA ClosesTypes ==
    ASSUME WorkflowTypeOK, NEW r \in Runs, NEW c \in Lists, NEW ok \in BOOLEAN, ClosesList(r, c, ok)
    PROVE  WorkflowTypeOK'
<1>1. frame' \in [Runs -> [Lists -> FrameRec]]
    BY ClosedType DEF ClosesList, WorkflowTypeOK
<1>2. stepStatus' \in [Steps -> StepStatuses] /\ UNCHANGED <<saved, abort, tries, overlapped, runFaults>>
    BY DEF ClosesList
<1>3. CASE c = Root
    <2>1. /\ wfStatus' = CASE ok -> "COMPLETED"
                            [] ~ok /\ abort[r] = "timeout" -> "TIMED_OUT"
                            [] ~ok /\ abort[r] = "cancel" -> "CANCELLED"
                            [] OTHER -> "FAILED"
          /\ phase' = [phase EXCEPT ![r] = "closing"]
          /\ UNCHANGED <<act, successes>>
        BY <1>3 DEF ClosesList, EndList
    <2>2. wfStatus' \in WorkflowStatuses
        BY <2>1 DEF WorkflowStatuses
    <2>3. phase' \in [Runs -> {"idle", "running", "closing", "over"}]
        BY <2>1 DEF WorkflowTypeOK
    <2> QED
        BY <1>1, <1>2, <2>1, <2>2, <2>3 DEF WorkflowTypeOK
<1>4. CASE c # Root
    <2>1. c \in Steps
        BY <1>4 DEF Lists
    <2>2. /\ \E to \in {"saving", "failed"} : act' = [act EXCEPT ![r][c] = to]
          /\ successes' = [successes EXCEPT ![c] = @ + 1] \/ successes' = successes
          /\ UNCHANGED <<wfStatus, phase>>
        BY <1>4 DEF ClosesList, EndList
    <2>3. act' \in [Runs -> [Steps -> Acts]]
        BY <2>1, <2>2 DEF WorkflowTypeOK, Acts
    <2>4. successes' \in [Steps -> Nat]
        BY <2>1, <2>2 DEF WorkflowTypeOK
    <2> QED
        BY <1>1, <1>2, <2>2, <2>3, <2>4 DEF WorkflowTypeOK
<1> QED
    BY <1>3, <1>4

LEMMA GoesOnTypes ==
    ASSUME WorkflowTypeOK, NEW r \in Runs, NEW c \in Lists, GoesOn(r, c)
    PROVE  WorkflowTypeOK'
<1> DEFINE next == [frame[r][c] EXCEPT !.chunk = {}, !.remaining = frame[r][c].remaining \ frame[r][c].chunk,
                                       !.done = frame[r][c].done \cup frame[r][c].chunk]
<1>1. next \in FrameRec
    BY Frames DEF FrameRec
<1>2. frame' = [frame EXCEPT ![r][c] = next]
    BY DEF GoesOn
<1> HIDE DEF next
<1>3. frame' \in [Runs -> [Lists -> FrameRec]]
    BY <1>1, <1>2 DEF WorkflowTypeOK
<1> QED
    BY <1>3 DEF GoesOn, WorkflowTypeOK

LEMMA StartChunkTypes ==
    ASSUME StructInv, NEW r \in Runs, NEW c \in Lists, StartChunk(r, c)
    PROVE  WorkflowTypeOK'
<1>1. WorkflowTypeOK
    BY DEF StructInv
<1>2. frame' \in [Runs -> [Lists -> FrameRec]]
    <2>1. frame' = [frame EXCEPT ![r] = frame'[r]] /\ frame'[r] \in [Lists -> FrameRec]
        BY StartsChunk
    <2> QED
        BY <1>1, <2>1 DEF WorkflowTypeOK
<1>3. stepStatus' \in [Steps -> StepStatuses]
    <2>1. stepStatus' = [s \in Steps |-> IF s \in Begun(SliceNow(r, c)) THEN "RUNNING" ELSE stepStatus[s]]
        BY StartsChunk
    <2> QED
        BY <1>1, <2>1 DEF WorkflowTypeOK, StepStatuses
<1>4. act' \in [Runs -> [Steps -> Acts]]
    <2>1. /\ act' = [act EXCEPT ![r] = act'[r]]
          /\ act'[r] = [s \in Steps |->
                  IF s \notin SliceNow(r, c) THEN act[r][s]
                  ELSE IF s \notin Begun(SliceNow(r, c)) THEN "ok"
                  ELSE IF Kind[s] = "agent" THEN "waiting" ELSE "inside"]
        BY StartsChunk
    <2>2. act'[r] \in [Steps -> Acts]
        BY <1>1, <2>1 DEF WorkflowTypeOK, Acts
    <2> QED
        BY <1>1, <2>1, <2>2 DEF WorkflowTypeOK
<1>5. tries' \in [Runs -> [Steps -> Nat]] /\ UNCHANGED <<wfStatus, saved, phase, abort, successes, overlapped, runFaults>>
    BY StartsChunk
<1> QED
    BY <1>1, <1>2, <1>3, <1>4, <1>5 DEF WorkflowTypeOK

\* EndRun, which is only reached when nothing of the run is in progress.
LEMMA EndRunTypes ==
    ASSUME WorkflowTypeOK, NEW r \in Runs, EndRun(r)
    PROVE  WorkflowTypeOK'
<1>1. saved' \in BOOLEAN
    BY Zenon DEF EndRun, WorkflowTypeOK
<1>2. runFaults' \in Nat
    BY DEF EndRun, RunFault, WorkflowTypeOK
<1>3. act' \in [Runs -> [Steps -> Acts]] /\ tries' \in [Runs -> [Steps -> Nat]]
    BY DEF EndRun, WorkflowTypeOK, Acts
<1>4. phase' \in [Runs -> {"idle", "running", "closing", "over"}]
    BY DEF EndRun, WorkflowTypeOK
<1> QED
    BY <1>1, <1>2, <1>3, <1>4 DEF EndRun, WorkflowTypeOK

\* Every step of the specification is one of these.
LEMMA StepCases ==
    ASSUME StructInv, [WorkflowNext]_wfVars
    PROVE  /\ WorkflowTypeOK'
           /\ \/ UNCHANGED wfVars
              \/ \E r \in Runs : BeginRun(r) \/ StepsMove(r) \/ EndRun(r)
              \/ \E r \in Runs, c \in Lists :
                   StartChunk(r, c) \/ GoesOn(r, c) \/ \E ok \in BOOLEAN : ClosesList(r, c, ok)
<1> USE DEF StructInv
<1>1. CASE UNCHANGED wfVars
    BY <1>1 DEF wfVars, WorkflowTypeOK
<1>2. CASE StartWorkflow
    BY <1>2, BeginRunTypes, WorkflowAssumption DEF StartWorkflow
<1>3. CASE CancelWorkflow
    BY <1>3, AbortRunMoves, WorkflowAssumption DEF CancelWorkflow
<1>4. ASSUME NEW r \in Runs, RecoverWorkflow(r)
      PROVE  WorkflowTypeOK' /\ BeginRun(r)
    BY <1>4, BeginRunTypes DEF RecoverWorkflow
<1>5. ASSUME NEW r \in Runs, TimeOut(r)
      PROVE  WorkflowTypeOK' /\ StepsMove(r)
    BY <1>5, AbortRunMoves DEF TimeOut
<1>6. ASSUME NEW r \in Runs, NEW c \in Lists, ListEnds(r, c)
      PROVE  WorkflowTypeOK' /\ \E ok \in BOOLEAN : ClosesList(r, c, ok)
    <2>1. PICK ok \in BOOLEAN : ClosesList(r, c, ok)
        BY <1>6, ListEndsCloses, Zenon
    <2> QED
        BY <2>1, ClosesTypes
<1>7. ASSUME NEW r \in Runs, NEW c \in Lists, SettleChunk(r, c)
      PROVE  WorkflowTypeOK' /\ (GoesOn(r, c) \/ \E ok \in BOOLEAN : ClosesList(r, c, ok))
    BY <1>7, SettleChunkCloses, GoesOnTypes, ClosesTypes
<1>8. ASSUME NEW r \in Runs, NEW c \in Lists, StartChunk(r, c)
      PROVE  WorkflowTypeOK'
    BY <1>8, StartChunkTypes
<1>9. ASSUME NEW r \in Runs, NEW s \in Steps, NEW retryable \in BOOLEAN,
             BeginAttempt(r, s) \/ AgentSucceeds(r, s) \/ Checkpoint(r, s) \/ AgentFails(r, s, retryable)
      PROVE  WorkflowTypeOK' /\ StepsMove(r)
    BY <1>9, StepActionMoves
<1>10. ASSUME NEW r \in Runs, EndRun(r)
       PROVE  WorkflowTypeOK'
    BY <1>10, EndRunTypes
<1>11. ASSUME NEW r \in Runs, Progress(r)
       PROVE  /\ WorkflowTypeOK'
              /\ \/ StepsMove(r) \/ EndRun(r)
                 \/ \E c \in Lists : StartChunk(r, c) \/ GoesOn(r, c) \/ \E ok \in BOOLEAN : ClosesList(r, c, ok)
    BY <1>6, <1>7, <1>8, <1>9, <1>10, <1>11 DEF Progress
<1> QED
    BY <1>1, <1>2, <1>3, <1>4, <1>5, <1>11, WorkflowAssumption DEF WorkflowNext, StartWorkflow, CancelWorkflow

-----------------------------------------------------------------------------
(* The tree *)

LEMMA LeastIndex ==
    ASSUME NEW T \in SUBSET Nat, T # {}
    PROVE  \E least \in T : \A other \in T : least <= other
<1>1. \A x, y \in Nat : <<x, y>> \in OpToRel(<, Nat) <=> x < y
    BY DEF OpToRel
<1>2. PICK Less : IsWellFoundedOn(Less, Nat) /\ \A x, y \in Nat : <<x, y>> \in Less <=> x < y
    BY <1>1, NatLessThanWellFounded, Zenon
<1>3. \A R, S, U : IsWellFoundedOn(R, S) /\ U \subseteq S /\ U # {} =>
                       \E x \in U : \A y \in U : ~ (<<y, x>> \in R)
    BY WFMin, Zenon
<1>4. PICK x \in T : \A y \in T : ~ (<<y, x>> \in Less)
    <2>1. IsWellFoundedOn(Less, Nat) /\ T \subseteq Nat /\ T # {}
        BY <1>2
    <2> QED
        BY <1>3, <2>1, Zenon
<1>5. ASSUME NEW y \in T
      PROVE  x <= y
    <2>1. x \in Nat /\ y \in Nat /\ ~ (y < x)
        BY <1>2, <1>4
    <2> QED
        BY <2>1
<1> QED
    BY <1>5

\* A step is in one list only, and not in its own.
LEMMA OneList ==
    ASSUME NEW c \in Lists, NEW d \in Lists, NEW l \in Bodies(c), NEW m \in Bodies(d),
           NEW s \in ToSet(l), s \in ToSet(m)
    PROVE  c = d /\ l = m /\ s # c /\ s \in Steps
<1>1. s \in Steps
    BY ListsAreSteps
<1>2. c = d /\ l = m
    BY <1>1, DefinitionAssumption
<1>3. s # c
    <2>1. PICK depth \in [Lists -> 0..Cardinality(Steps)] :
              \A x \in Lists : \A y \in Bodies(x) : \A z \in ToSet(y) : depth[x] < depth[z]
        BY DefinitionAssumption
    <2>2. depth[c] < depth[s] /\ depth[c] \in Int
        BY <2>1
    <2> QED
        BY <2>2
<1> QED
    BY <1>1, <1>2, <1>3

LEMMA OtherList ==
    \A c, d \in Lists : \A l \in Bodies(c), m \in Bodies(d) : c # d => \A s \in ToSet(m) : s \notin ToSet(l)
<1>1. SUFFICES ASSUME NEW c \in Lists, NEW d \in Lists, NEW l \in Bodies(c), NEW m \in Bodies(d), c # d,
                      NEW s \in ToSet(m), s \in ToSet(l)
               PROVE  FALSE
    OBVIOUS
<1> QED
    BY <1>1, OneList

\* When no step of the top level is in progress, none is.
LEMMA RootIsLast ==
    ASSUME FrameInv, ParentInv, NEW r \in Runs, \A s \in frame[r][Root].chunk : act[r][s] \notin Busy
    PROVE  /\ \A s \in Steps : act[r][s] \notin Busy
           /\ \A c \in Steps : ~frame[r][c].open
<1>1. PICK depth \in [Lists -> 0..Cardinality(Steps)] :
          \A x \in Lists : \A y \in Bodies(x) : \A z \in ToSet(y) : depth[x] < depth[z]
    BY DefinitionAssumption
<1> DEFINE busy == {s \in Steps : act[r][s] \in Busy}
           T == {depth[s] : s \in busy}
<1>2. \A x \in Lists : depth[x] \in Nat
    BY <1>1
<1>3. ASSUME busy # {}
      PROVE  FALSE
    <2>1. T \in SUBSET Nat /\ T # {}
        BY <1>2, <1>3 DEF Lists
    <2>2. PICK least \in T : \A other \in T : least <= other
        BY <2>1, LeastIndex
    <2>3. PICK s \in busy : depth[s] = least
        BY <2>2
    <2>4. PICK c \in Lists : frame[r][c].open /\ s \in frame[r][c].chunk
        BY <2>3 DEF ParentInv
    <2>5. frame[r][c].steps \in Bodies(c) /\ s \in ToSet(frame[r][c].steps)
        BY <2>4 DEF FrameInv, FrameOK
    <2>6. depth[c] < depth[s]
        BY <1>1, <2>5
    <2>7. c # Root
        BY <2>3, <2>4
    <2>8. c \in busy
        BY <2>4, <2>7 DEF FrameInv, Lists, Busy, Working
    <2>9. depth[c] \in T
        BY <2>8
    <2>10. least <= depth[c] /\ least \in Nat /\ depth[c] \in Nat
        BY <1>2, <2>1, <2>2, <2>9
    <2> QED
        BY <2>3, <2>6, <2>10
<1>4. \A s \in Steps : act[r][s] \notin Busy
    BY <1>3
<1>5. \A c \in Steps : c \in Lists /\ c # Root
    BY WorkflowAssumption DEF Lists
<1> QED
    BY <1>4, <1>5 DEF FrameInv, Busy, Working

\* Nobody works yet on the steps of the next slice.
LEMMA SliceIsFresh ==
    ASSUME StructInv, NEW r \in Runs, NEW c \in Lists, Turn(r, c), NEW s \in SliceNow(r, c)
    PROVE  s \in Steps /\ s \in Lists /\ s # Root /\ act[r][s] \notin Busy /\ ~frame[r][s].open /\ s # c
<1>1. s \in Steps /\ s \in ToSet(frame[r][c].steps) /\ frame[r][c].steps \in Bodies(c) /\ frame[r][c].chunk = {}
    BY ReadyOK DEF FrameOK
<1>2. s \in Lists /\ s # Root /\ s # c
    <2>1. s \in Lists /\ s # Root
        BY <1>1, WorkflowAssumption DEF Lists
    <2>2. s # c
        BY <1>1, OneList
    <2> QED
        BY <2>1, <2>2
<1>3. act[r][s] \notin Busy
    <2>1. SUFFICES ASSUME act[r][s] \in Busy PROVE FALSE
        OBVIOUS
    <2>2. PICK d \in Lists : frame[r][d].open /\ s \in frame[r][d].chunk
        BY <1>1, <2>1 DEF StructInv, ParentInv
    <2>3. frame[r][d].steps \in Bodies(d) /\ s \in ToSet(frame[r][d].steps)
        BY <2>2 DEF StructInv, FrameInv, FrameOK
    <2>4. d = c
        BY <1>1, <2>3, OneList
    <2> QED
        BY <1>1, <2>2, <2>4
<1>4. ~frame[r][s].open
    BY <1>2, <1>3 DEF StructInv, FrameInv, Busy, Working
<1> QED
    BY <1>1, <1>2, <1>3, <1>4

-----------------------------------------------------------------------------
(* Every step keeps the frames and the steps in them *)

LEMMA BeginRunKeeps ==
    ASSUME StructInv, NEW r \in Runs, BeginRun(r)
    PROVE  FrameInv' /\ ParentInv' /\ SuccessInv' /\ RunningInv' /\ DependenciesFirst'
<1> DEFINE opened == Opened(Body[Root])
<1>1. /\ phase[r] = "idle" /\ phase' = [phase EXCEPT ![r] = "running"]
      /\ frame' = [frame EXCEPT ![r][Root] = opened]
      /\ UNCHANGED <<stepStatus, act, successes>>
    BY DEF BeginRun
<1>2. Root \in Lists /\ Body[Root] \in Bodies(Root)
    BY DEF Lists, Bodies
<1>3. FrameOK(Root, opened) /\ opened.done = {}
    BY <1>2, OpenedOK, OpenedType, ListsAreSteps
<1> HIDE DEF opened
<1>4. /\ frame'[r][Root] = opened
      /\ \A q \in Runs, c \in Lists : q # r \/ c # Root => frame'[q][c] = frame[q][c]
    BY <1>1, <1>2 DEF StructInv, WorkflowTypeOK
<1>5. \A c \in Lists : ~frame[r][c].open
    BY <1>1 DEF StructInv, FrameInv
<1>6. \A s \in Steps : act[r][s] \notin Busy
    BY <1>5 DEF StructInv, ParentInv
<1>7. \A q \in Runs : phase'[q] = IF q = r THEN "running" ELSE phase[q]
    BY <1>1 DEF StructInv, WorkflowTypeOK
<1>8. FrameInv'
    BY <1>1, <1>3, <1>4, <1>5, <1>7 DEF StructInv, FrameInv
<1>9. ParentInv'
    BY <1>1, <1>4, <1>5, <1>6 DEF StructInv, ParentInv
<1>10. SuccessInv'
    BY <1>1, <1>3, <1>4 DEF StructInv, SuccessInv
<1>11. RunningInv' /\ DependenciesFirst'
    BY <1>1 DEF StructInv, RunningInv, DependenciesFirst
<1> QED
    BY <1>8, <1>9, <1>10, <1>11

LEMMA EndRunKeeps ==
    ASSUME StructInv, NEW r \in Runs, EndRun(r)
    PROVE  FrameInv' /\ ParentInv' /\ SuccessInv' /\ RunningInv' /\ DependenciesFirst'
<1>1. /\ phase[r] = "closing" /\ phase' = [phase EXCEPT ![r] = "over"]
      /\ act' = [act EXCEPT ![r] = [s \in Steps |-> "idle"]]
      /\ UNCHANGED <<stepStatus, frame, successes>>
    BY DEF EndRun
<1>2. \A c \in Lists : ~frame[r][c].open
    BY <1>1 DEF StructInv, FrameInv
<1>3. \A s \in Steps : act[r][s] \notin Busy
    BY <1>2 DEF StructInv, ParentInv
<1>4. \A q \in Runs, s \in Steps : act'[q][s] = IF q = r THEN "idle" ELSE act[q][s]
    BY <1>1 DEF StructInv, WorkflowTypeOK
<1>5. \A q \in Runs : q # r => act'[q] = act[q] /\ phase'[q] = phase[q]
    BY <1>1 DEF StructInv, WorkflowTypeOK
<1>6. FrameInv'
    BY <1>1, <1>2, <1>5 DEF StructInv, FrameInv
<1>7. ParentInv'
    BY <1>1, <1>4 DEF StructInv, ParentInv, Busy, Working
<1>8. SuccessInv'
    BY <1>1, <1>4 DEF StructInv, SuccessInv
<1>9. RunningInv'
    BY <1>1, <1>3, <1>4 DEF StructInv, RunningInv, Busy
<1>10. DependenciesFirst'
    BY <1>1, <1>4 DEF StructInv, DependenciesFirst
<1> QED
    BY <1>6, <1>7, <1>8, <1>9, <1>10

LEMMA StepsMoveKeeps ==
    ASSUME StructInv, WorkflowTypeOK', NEW r \in Runs, StepsMove(r)
    PROVE  FrameInv' /\ ParentInv' /\ SuccessInv' /\ RunningInv' /\ DependenciesFirst'
<1>1. UNCHANGED <<wfStatus, phase, frame, overlapped>> /\ \A q \in Runs : q # r => act'[q] = act[q]
    BY DEF StepsMove, StructInv, WorkflowTypeOK
<1>2. \A s \in Steps : Stays(r, s) \/ Retries(r, s) \/ Fails(r, s) \/ Succeeds(r, s) \/ Saves(r, s)
    BY DEF StepsMove
<1>3. \A s \in Steps : successes[s] \in Nat
    BY DEF StructInv, WorkflowTypeOK
<1> USE DEF Stays, Retries, Fails, Succeeds, Saves, Busy, Working
<1>4. \A s \in Steps : act[r][s] = "inside" => act'[r][s] = "inside"
    BY <1>2
<1>5. \A s \in Steps : act'[r][s] \in Busy => act[r][s] \in Busy
    BY <1>2
<1>6. \A s \in Steps : successes'[s] \in Nat /\ (successes[s] > 0 => successes'[s] > 0)
    BY <1>2, <1>3
<1>7. FrameInv'
    BY <1>1, <1>4 DEF StructInv, FrameInv, Lists
<1>8. ParentInv'
    BY <1>1, <1>5 DEF StructInv, ParentInv
<1>9. SuccessInv'
    <2>1. ASSUME NEW s \in Steps
          PROVE  /\ stepStatus'[s] = "COMPLETED" => successes'[s] > 0
                 /\ act'[r][s] \in {"saving", "ok"} => successes'[s] > 0
        BY <1>2, <1>3 DEF StructInv, SuccessInv
    <2> QED
        BY <1>1, <1>6, <2>1 DEF StructInv, SuccessInv
<1>10. RunningInv'
    <2>1. ASSUME NEW s \in Steps, stepStatus'[s] = "RUNNING"
          PROVE  \E q \in Runs : act'[q][s] \in Working
        <3>1. stepStatus[s] = "RUNNING" /\ (act[r][s] \in Working => act'[r][s] \in Working)
            BY <1>2, <2>1
        <3>2. PICK q \in Runs : act[q][s] \in Working
            BY <3>1 DEF StructInv, RunningInv
        <3> QED
            BY <1>1, <3>1, <3>2
    <2> QED
        BY <2>1 DEF RunningInv
<1>11. DependenciesFirst'
    <2>1. \A s \in Steps : act'[r][s] \in Working => act[r][s] \in Working
        BY <1>2
    <2>2. \A s \in Steps : DependsOn[s] \subseteq Steps
        BY WorkflowAssumption
    <2> QED
        BY <1>1, <1>6, <2>1, <2>2 DEF StructInv, DependenciesFirst
<1> QED
    BY <1>7, <1>8, <1>9, <1>10, <1>11

LEMMA GoesOnKeeps ==
    ASSUME StructInv, NEW r \in Runs, NEW c \in Lists, GoesOn(r, c)
    PROVE  FrameInv' /\ ParentInv' /\ SuccessInv' /\ RunningInv' /\ DependenciesFirst'
<1> DEFINE f == frame[r][c]
           next == [f EXCEPT !.chunk = {}, !.remaining = f.remaining \ f.chunk, !.done = f.done \cup f.chunk]
<1>1. /\ f.open /\ f.chunk # {} /\ \A s \in f.chunk : act[r][s] = "ok"
      /\ frame' = [frame EXCEPT ![r][c] = next]
      /\ UNCHANGED <<phase, act, successes, stepStatus>>
    BY DEF GoesOn
<1>2. f \in FrameRec
    BY Frames DEF StructInv
<1>3. /\ next.open = f.open /\ next.steps = f.steps /\ next.queue = f.queue /\ next.chunk = {}
      /\ next.remaining = f.remaining \ f.chunk /\ next.done = f.done \cup f.chunk
    BY <1>2 DEF FrameRec
<1>4. FrameOK(c, f)
    BY <1>1 DEF StructInv, FrameInv
<1>5. FrameOK(c, next)
    BY <1>3, <1>4 DEF FrameOK
<1> HIDE DEF next
<1>6. /\ frame'[r][c] = next
      /\ \A q \in Runs, d \in Lists : q # r \/ d # c => frame'[q][d] = frame[q][d]
    BY <1>1 DEF StructInv, WorkflowTypeOK
<1>7. FrameInv'
    BY <1>1, <1>3, <1>5, <1>6 DEF StructInv, FrameInv
<1>8. ParentInv'
    <2>1. ASSUME NEW q \in Runs, NEW s \in Steps, act[q][s] \in Busy
          PROVE  \E d \in Lists : frame'[q][d].open /\ s \in frame'[q][d].chunk
        <3>1. PICK d \in Lists : frame[q][d].open /\ s \in frame[q][d].chunk
            BY <2>1 DEF StructInv, ParentInv
        <3>2. q # r \/ d # c
            BY <1>1, <2>1, <3>1 DEF Busy, Working
        <3> QED
            BY <1>6, <3>1, <3>2
    <2> QED
        BY <1>1, <2>1 DEF ParentInv
<1>9. SuccessInv'
    <2>1. \A s \in f.done \cup f.chunk : s \in Steps => successes[s] > 0
        BY <1>1 DEF StructInv, SuccessInv
    <2>2. \A q \in Runs, d \in Lists : frame'[q][d].open =>
              \A s \in frame'[q][d].done : s \in Steps => successes[s] > 0
        BY <1>3, <1>6, <2>1 DEF StructInv, SuccessInv
    <2> QED
        BY <1>1, <2>2 DEF StructInv, SuccessInv
<1>10. RunningInv' /\ DependenciesFirst'
    BY <1>1 DEF StructInv, RunningInv, DependenciesFirst
<1> QED
    BY <1>7, <1>8, <1>9, <1>10

LEMMA StartChunkKeeps ==
    ASSUME StructInv, NEW r \in Runs, NEW c \in Lists, StartChunk(r, c)
    PROVE  FrameInv' /\ ParentInv' /\ SuccessInv' /\ RunningInv' /\ DependenciesFirst'
<1> DEFINE f == frame[r][c]
           chunk == SliceNow(r, c)
           begun == Begun(chunk)
           next == [f EXCEPT !.chunk = chunk, !.queue = ReadyNow(r, c) \ chunk]
<1>1. Turn(r, c) /\ UNCHANGED <<phase, successes>>
    BY StartsChunk
<1>2. /\ FrameOK(c, f) /\ f.open /\ f.chunk = {} /\ phase[r] = "running"
      /\ ReadyNow(r, c) \subseteq f.remaining /\ chunk \subseteq ReadyNow(r, c)
      /\ \A s \in ReadyNow(r, c) : DependsOn[s] \subseteq f.done
    BY <1>1, ReadyOK
<1>3. \A s \in chunk : s \in Steps /\ s \in Lists /\ s # Root /\ act[r][s] \notin Busy /\ ~frame[r][s].open /\ s # c
    BY <1>1, SliceIsFresh
<1>4. f \in FrameRec
    BY Frames DEF StructInv
<1>5. begun \subseteq chunk /\ (\A s \in chunk : s \notin begun => stepStatus[s] = "COMPLETED")
    BY DEF Begun
<1>6. /\ frame'[r][c] = next
      /\ \A l \in Lists \ {c} :
           \/ /\ l \in Steps /\ l \in begun /\ Kind[l] # "agent"
              /\ \E body \in Bodies(l) : frame'[r][l] = Opened(body)
           \/ frame'[r][l] = frame[r][l]
    BY StartsChunk, Zenon
<1>7. \A q \in Runs : q # r => frame'[q] = frame[q] /\ act'[q] = act[q]
    <2>1. frame' = [frame EXCEPT ![r] = frame'[r]] /\ act' = [act EXCEPT ![r] = act'[r]]
        BY StartsChunk
    <2> QED
        BY <2>1 DEF StructInv, WorkflowTypeOK
<1>8. stepStatus' = [s \in Steps |-> IF s \in begun THEN "RUNNING" ELSE stepStatus[s]]
    BY StartsChunk
<1>9. act'[r] = [s \in Steps |->
                  IF s \notin chunk THEN act[r][s]
                  ELSE IF s \notin begun THEN "ok"
                  ELSE IF Kind[s] = "agent" THEN "waiting" ELSE "inside"]
    BY StartsChunk
<1> HIDE DEF chunk, begun
<1>10. /\ next.open /\ next.steps = f.steps /\ next.queue = ReadyNow(r, c) \ chunk /\ next.chunk = chunk
       /\ next.remaining = f.remaining /\ next.done = f.done
    BY <1>2, <1>4 DEF FrameRec
<1>11. FrameOK(c, next)
    BY <1>2, <1>10 DEF FrameOK
<1> HIDE DEF next
<1>12. FrameInv'
    <2>1. ASSUME NEW d \in Lists, frame'[r][d].open
          PROVE  FrameOK(d, frame'[r][d]) /\ (d # Root => act'[r][d] = "inside")
        <3>1. CASE d = c
            <4>1. c # Root => act[r][c] = "inside" /\ c \in Steps /\ c \notin chunk
                BY <1>2, <1>3 DEF StructInv, FrameInv, Lists
            <4> QED
                BY <1>6, <1>9, <1>11, <3>1, <4>1
        <3>2. CASE d # c /\ frame'[r][d] = frame[r][d]
            <4>1. FrameOK(d, frame[r][d]) /\ (d # Root => act[r][d] = "inside" /\ d \in Steps /\ d \notin chunk)
                BY <1>3, <2>1, <3>2 DEF StructInv, FrameInv, Lists
            <4> QED
                BY <1>9, <3>2, <4>1
        <3>3. CASE d # c /\ d \in begun /\ Kind[d] # "agent" /\ \E body \in Bodies(d) : frame'[r][d] = Opened(body)
            <4>1. FrameOK(d, frame'[r][d])
                BY <3>3, OpenedOK
            <4>2. act'[r][d] = "inside"
                BY <1>3, <1>5, <1>9, <3>3
            <4> QED
                BY <4>1, <4>2
        <3> QED
            BY <1>6, <3>1, <3>2, <3>3
    <2> QED
        BY <1>1, <1>2, <1>7, <2>1 DEF StructInv, FrameInv
<1>13. ParentInv'
    <2>1. ASSUME NEW s \in Steps, act'[r][s] \in Busy
          PROVE  \E d \in Lists : frame'[r][d].open /\ s \in frame'[r][d].chunk
        <3>1. CASE s \in chunk
            BY <1>6, <1>10, <3>1
        <3>2. CASE s \notin chunk
            <4>1. PICK d \in Lists : frame[r][d].open /\ s \in frame[r][d].chunk
                BY <1>9, <2>1, <3>2 DEF StructInv, ParentInv
            <4>2. d # c /\ d \notin begun
                BY <1>2, <1>3, <1>5, <4>1
            <4> QED
                BY <1>6, <4>1, <4>2
        <3> QED
            BY <3>1, <3>2
    <2> QED
        BY <1>7, <2>1 DEF StructInv, ParentInv
<1>14. SuccessInv'
    <2>1. \A s \in Steps : stepStatus'[s] = "COMPLETED" => stepStatus[s] = "COMPLETED"
        BY <1>8
    <2>2. \A s \in Steps : act'[r][s] \in {"saving", "ok"} =>
              act[r][s] \in {"saving", "ok"} \/ stepStatus[s] = "COMPLETED"
        BY <1>5, <1>9
    <2>3. \A d \in Lists : frame'[r][d].open =>
              \/ frame[r][d].open /\ frame'[r][d].done = frame[r][d].done
              \/ frame'[r][d].done = {}
        <3>1. \A d \in Lists : \A body \in Bodies(d) : Opened(body).done = {}
            BY ListsAreSteps, OpenedType
        <3> QED
            BY <1>2, <1>6, <1>10, <3>1
    <2>4. \A q \in Runs, d \in Lists : frame'[q][d].open =>
              \A s \in frame'[q][d].done : s \in Steps => successes[s] > 0
        BY <1>7, <2>3 DEF StructInv, SuccessInv
    <2>5. \A q \in Runs, s \in Steps : act'[q][s] \in {"saving", "ok"} => successes[s] > 0
        BY <1>7, <2>2 DEF StructInv, SuccessInv
    <2> QED
        BY <1>1, <2>1, <2>4, <2>5 DEF StructInv, SuccessInv
<1>15. RunningInv'
    <2>1. ASSUME NEW s \in Steps, stepStatus'[s] = "RUNNING"
          PROVE  \E q \in Runs : act'[q][s] \in Working
        <3>1. CASE s \in begun
            <4>1. act'[r][s] \in {"waiting", "inside"}
                BY <1>5, <1>9, <3>1
            <4> QED
                BY <4>1 DEF Working
        <3>2. CASE s \notin begun
            <4>1. stepStatus[s] = "RUNNING" /\ s \notin chunk
                BY <1>5, <1>8, <2>1, <3>2
            <4>2. PICK q \in Runs : act[q][s] \in Working
                BY <4>1 DEF StructInv, RunningInv
            <4> QED
                BY <1>7, <1>9, <4>1, <4>2
        <3> QED
            BY <3>1, <3>2
    <2> QED
        BY <2>1 DEF RunningInv
<1>16. DependenciesFirst'
    <2>1. ASSUME NEW s \in Steps, act'[r][s] \in Working
          PROVE  \A d \in DependsOn[s] : successes[d] > 0
        <3>1. CASE s \in chunk
            <4>1. DependsOn[s] \subseteq f.done /\ DependsOn[s] \subseteq Steps
                BY <1>2, <3>1, WorkflowAssumption
            <4> QED
                BY <1>2, <4>1 DEF StructInv, SuccessInv
        <3>2. CASE s \notin chunk
            BY <1>9, <2>1, <3>2 DEF StructInv, DependenciesFirst, Working
        <3> QED
            BY <3>1, <3>2
    <2> QED
        BY <1>1, <1>7, <2>1 DEF StructInv, DependenciesFirst, Working
<1> QED
    BY <1>12, <1>13, <1>14, <1>15, <1>16

LEMMA ClosesKeeps ==
    ASSUME StructInv, NEW r \in Runs, NEW c \in Lists, NEW ok \in BOOLEAN, ClosesList(r, c, ok)
    PROVE  FrameInv' /\ ParentInv' /\ SuccessInv' /\ RunningInv' /\ DependenciesFirst'
<1>1. /\ phase[r] = "running" /\ frame[r][c].open
      /\ \A s \in frame[r][c].chunk : act[r][s] \notin Busy
      /\ frame' = [frame EXCEPT ![r][c] = Closed] /\ EndList(r, c, ok)
    BY DEF ClosesList, Busy, Working
<1>2. /\ ~frame'[r][c].open
      /\ \A q \in Runs, d \in Lists : q # r \/ d # c => frame'[q][d] = frame[q][d]
    BY <1>1, ClosedType DEF StructInv, WorkflowTypeOK
<1>3. \A s \in Steps : IF s = c THEN stepStatus'[s] = OwnStatus(ok)
                                 ELSE stepStatus'[s] \in {stepStatus[s], "SKIPPED"}
    BY DEF ClosesList
<1>4. CASE c = Root
    <2>1. phase' = [phase EXCEPT ![r] = "closing"] /\ UNCHANGED <<act, successes>>
        BY <1>1, <1>4 DEF EndList
    <2>2. /\ \A s \in Steps : act[r][s] \notin Busy
          /\ \A d \in Steps : ~frame[r][d].open
        BY <1>1, <1>4, RootIsLast DEF StructInv
    <2>3. \A d \in Lists : ~frame'[r][d].open
        BY <1>2, <1>4, <2>2 DEF Lists
    <2>4. \A q \in Runs : q # r => phase'[q] = phase[q]
        BY <2>1 DEF StructInv, WorkflowTypeOK
    <2>5. \A s \in Steps : stepStatus'[s] \in {stepStatus[s], "SKIPPED"}
        BY <1>3, <1>4, WorkflowAssumption
    <2>6. FrameInv'
        BY <1>2, <2>1, <2>3, <2>4 DEF StructInv, FrameInv
    <2>7. ParentInv'
        BY <1>2, <2>1, <2>2 DEF StructInv, ParentInv
    <2>8. SuccessInv'
        BY <1>2, <2>1, <2>3, <2>5 DEF StructInv, SuccessInv
    <2>9. RunningInv' /\ DependenciesFirst'
        BY <2>1, <2>5 DEF StructInv, RunningInv, DependenciesFirst
    <2> QED
        BY <2>6, <2>7, <2>8, <2>9
<1>5. CASE c # Root
    <2>1. /\ act' = [act EXCEPT ![r][c] = IF ok THEN "saving" ELSE "failed"]
          /\ successes' = IF ok THEN [successes EXCEPT ![c] = @ + 1] ELSE successes
          /\ UNCHANGED <<wfStatus, phase>>
        BY <1>1, <1>5 DEF EndList
    <2>2. c \in Steps /\ act[r][c] = "inside"
        BY <1>1, <1>5 DEF StructInv, FrameInv, Lists
    <2>3. \A q \in Runs, s \in Steps :
              act'[q][s] = IF q = r /\ s = c THEN (IF ok THEN "saving" ELSE "failed") ELSE act[q][s]
        BY <2>1, <2>2 DEF StructInv, WorkflowTypeOK
    <2>4. \A s \in Steps : successes[s] \in Nat /\ successes'[s] = IF ok /\ s = c THEN successes[s] + 1 ELSE successes[s]
        BY <2>1, <2>2 DEF StructInv, WorkflowTypeOK
    <2>5. \A s \in Steps : successes[s] > 0 => successes'[s] > 0
        BY <2>4
    <2>6. FrameInv'
        BY <1>2, <2>1, <2>2, <2>3 DEF StructInv, FrameInv, Lists
    <2>7. ParentInv'
        <3>1. ASSUME NEW q \in Runs, NEW s \in Steps, act'[q][s] \in Busy
              PROVE  \E d \in Lists : frame'[q][d].open /\ s \in frame'[q][d].chunk
            <4>1. act[q][s] \in Busy
                BY <2>2, <2>3, <3>1 DEF Busy, Working
            <4>2. PICK d \in Lists : frame[q][d].open /\ s \in frame[q][d].chunk
                BY <4>1 DEF StructInv, ParentInv
            <4>3. q # r \/ d # c
                BY <1>1, <4>1, <4>2
            <4> QED
                BY <1>2, <4>2, <4>3
        <3> QED
            BY <3>1 DEF ParentInv
    <2>8. SuccessInv'
        <3>1. \A s \in Steps : stepStatus'[s] = "COMPLETED" => successes'[s] > 0
            BY <1>3, <2>4, <2>5 DEF StructInv, SuccessInv, OwnStatus
        <3>2. \A q \in Runs, s \in Steps : act'[q][s] \in {"saving", "ok"} => successes'[s] > 0
            BY <2>3, <2>4, <2>5 DEF StructInv, SuccessInv
        <3>3. \A q \in Runs, d \in Lists : frame'[q][d].open =>
                  \A s \in frame'[q][d].done : s \in Steps => successes'[s] > 0
            BY <1>2, <2>5 DEF StructInv, SuccessInv
        <3> QED
            BY <3>1, <3>2, <3>3 DEF SuccessInv
    <2>9. RunningInv'
        <3>1. \A s \in Steps : stepStatus'[s] = "RUNNING" => s # c /\ stepStatus[s] = "RUNNING"
            BY <1>3 DEF OwnStatus
        <3> QED
            BY <2>3, <3>1 DEF StructInv, RunningInv
    <2>10. DependenciesFirst'
        <3>1. \A s \in Steps : DependsOn[s] \subseteq Steps
            BY WorkflowAssumption
        <3> QED
            BY <2>3, <2>5, <3>1 DEF StructInv, DependenciesFirst
    <2> QED
        BY <2>6, <2>7, <2>8, <2>9, <2>10
<1> QED
    BY <1>4, <1>5

LEMMA StructStep ==
    ASSUME StructInv, [WorkflowNext]_wfVars
    PROVE  StructInv'
<1>1. WorkflowTypeOK'
    BY StepCases
<1>2. CASE UNCHANGED wfVars
    BY <1>1, <1>2 DEF wfVars, StructInv, FrameInv, ParentInv, SuccessInv, RunningInv, DependenciesFirst
<1>3. ASSUME NEW r \in Runs, BeginRun(r) \/ StepsMove(r) \/ EndRun(r)
      PROVE  StructInv'
    BY <1>1, <1>3, BeginRunKeeps, StepsMoveKeeps, EndRunKeeps DEF StructInv
<1>4. ASSUME NEW r \in Runs, NEW c \in Lists, StartChunk(r, c) \/ GoesOn(r, c) \/ \E ok \in BOOLEAN : ClosesList(r, c, ok)
      PROVE  StructInv'
    BY <1>1, <1>4, StartChunkKeeps, GoesOnKeeps, ClosesKeeps DEF StructInv
<1> QED
    BY <1>2, <1>3, <1>4, StepCases

LEMMA StructInit == WorkflowInit => StructInv
<1> SUFFICES ASSUME WorkflowInit PROVE StructInv
    OBVIOUS
<1>1. WorkflowTypeOK
    BY ClosedType DEF WorkflowInit, WorkflowTypeOK, WorkflowStatuses, StepStatuses, Acts
<1>2. \A r \in Runs, c \in Lists : ~frame[r][c].open
    BY ClosedType DEF WorkflowInit
<1>3. \A r \in Runs, s \in Steps : act[r][s] = "idle"
    BY DEF WorkflowInit
<1>4. \A s \in Steps : stepStatus[s] = "none"
    BY DEF WorkflowInit
<1> QED
    BY <1>1, <1>2, <1>3, <1>4
       DEF StructInv, FrameInv, ParentInv, SuccessInv, RunningInv, DependenciesFirst, Busy, Working

LEMMA Structure == WorkflowSpec => []StructInv
    BY StructInit, StructStep, PTL DEF WorkflowSpec

\* "a step starts once every id in its dependsOn has completed" (workflow-engine.ts:253): for every tree, every
\* width and any number of runs that overlap, no step is under way whose dependencies never completed.
THEOREM DependenciesComeFirst == WorkflowSpec => []DependenciesFirst
    BY Structure, PTL DEF StructInv

-----------------------------------------------------------------------------
(* The places a list goes through *)

\* Where a call of runSteps for list l of c is between two chunks: after the n-th of them.
Place == [n : Nat, done : SUBSET Steps, queue : SUBSET Steps]
ReadyAt(l, p) == IF p.queue # {} THEN p.queue ELSE {s \in ToSet(l) \ p.done : DependsOn[s] \subseteq p.done}
SliceAt(c, l, p) == Slice(c, l, ReadyAt(l, p))
After(c, l, p) == [n |-> p.n + 1, done |-> p.done \cup SliceAt(c, l, p),
                   queue |-> ReadyAt(l, p) \ SliceAt(c, l, p)]
Start == [n |-> 0, done |-> {}, queue |-> {}]
GoesThrough(c, l, X) == Start \in X /\ \A p \in X : After(c, l, p) \in X
Places(c, l) == {p \in Place : \A X \in SUBSET Place : GoesThrough(c, l, X) => p \in X}

LEMMA AfterType ==
    ASSUME NEW c \in Lists, NEW l \in Bodies(c), NEW p \in Place
    PROVE  /\ After(c, l, p) \in Place /\ After(c, l, p).n = p.n + 1
           /\ After(c, l, p).done = p.done \cup SliceAt(c, l, p)
           /\ After(c, l, p).queue = ReadyAt(l, p) \ SliceAt(c, l, p)
<1>1. ReadyAt(l, p) \subseteq Steps
    BY ListsAreSteps DEF ReadyAt, Place
<1>2. SliceAt(c, l, p) \subseteq ReadyAt(l, p)
    BY DEF SliceAt, Slice
<1>3. p.n \in Nat /\ p.done \subseteq Steps
    BY DEF Place
<1> QED
    BY <1>1, <1>2, <1>3 DEF After, Place

LEMMA PlacesGoThrough ==
    ASSUME NEW c \in Lists, NEW l \in Bodies(c)
    PROVE  Places(c, l) \subseteq Place /\ GoesThrough(c, l, Places(c, l))
<1>1. Start \in Place
    BY DEF Start, Place
<1>2. Start \in Places(c, l)
    BY <1>1 DEF Places, GoesThrough
<1>3. ASSUME NEW p \in Places(c, l)
      PROVE  After(c, l, p) \in Places(c, l)
    <2>1. p \in Place /\ After(c, l, p) \in Place
        BY AfterType DEF Places
    <2>2. ASSUME NEW X \in SUBSET Place, GoesThrough(c, l, X)
          PROVE  After(c, l, p) \in X
        BY <2>2 DEF Places, GoesThrough
    <2> QED
        BY <2>1, <2>2 DEF Places
<1>4. Places(c, l) \subseteq Place
    BY DEF Places
<1> QED
    BY <1>2, <1>3, <1>4 DEF GoesThrough

LEMMA PlacesAreLeast ==
    ASSUME NEW c \in Lists, NEW l \in Bodies(c), NEW X \in SUBSET Place, GoesThrough(c, l, X)
    PROVE  Places(c, l) \subseteq X
    BY DEF Places

\* A place is the first one or comes after one.
LEMMA PlaceBefore ==
    ASSUME NEW c \in Lists, NEW l \in Bodies(c)
    PROVE  \A p \in Places(c, l) : p = Start \/ \E q \in Places(c, l) : p = After(c, l, q)
<1> DEFINE X == {p \in Places(c, l) : p = Start \/ \E q \in Places(c, l) : p = After(c, l, q)}
<1>1. Places(c, l) \subseteq Place /\ GoesThrough(c, l, Places(c, l))
    BY PlacesGoThrough
<1>2. GoesThrough(c, l, X)
    BY <1>1 DEF GoesThrough
<1>3. X \in SUBSET Place
    BY <1>1
<1> HIDE DEF X
<1>4. Places(c, l) \subseteq X
    BY <1>2, <1>3, PlacesAreLeast
<1> QED
    BY <1>4 DEF X

\* There is one place after n chunks.
LEMMA PlaceByNumber ==
    ASSUME NEW c \in Lists, NEW l \in Bodies(c)
    PROVE  \A p, q \in Places(c, l) : q.n = p.n => q = p
<1> DEFINE X == {p \in Places(c, l) : \A q \in Places(c, l) : q.n = p.n => q = p}
<1>1. Places(c, l) \subseteq Place /\ GoesThrough(c, l, Places(c, l))
    BY PlacesGoThrough
<1>2. \A p \in Places(c, l) : p \in Place /\ p.n \in Nat /\ After(c, l, p).n = p.n + 1
    <2>1. \A p \in Places(c, l) : After(c, l, p).n = p.n + 1
        BY <1>1, AfterType
    <2> QED
        BY <1>1, <2>1 DEF Place
<1>3. Start.n = 0
    BY DEF Start
<1>4. Start \in X
    <2>1. ASSUME NEW q \in Places(c, l), q.n = 0
          PROVE  q = Start
        <3>1. CASE \E o \in Places(c, l) : q = After(c, l, o)
            BY <1>2, <2>1, <3>1
        <3> QED
            BY <3>1, PlaceBefore
    <2> QED
        BY <1>1, <1>3, <2>1 DEF GoesThrough
<1>5. ASSUME NEW p \in X
      PROVE  After(c, l, p) \in X
    <2>1. p \in Places(c, l) /\ After(c, l, p) \in Places(c, l)
        BY <1>1 DEF GoesThrough
    <2>2. ASSUME NEW q \in Places(c, l), q.n = After(c, l, p).n
          PROVE  q = After(c, l, p)
        <3>1. q.n = p.n + 1 /\ p.n \in Nat
            BY <1>2, <2>1, <2>2
        <3>2. PICK o \in Places(c, l) : q = After(c, l, o)
            BY <1>3, <3>1, PlaceBefore
        <3>3. o.n = p.n
            BY <1>2, <3>1, <3>2
        <3> QED
            BY <3>2, <3>3
    <2> QED
        BY <2>1, <2>2
<1>6. X \in SUBSET Place /\ GoesThrough(c, l, X)
    BY <1>1, <1>4, <1>5 DEF GoesThrough
<1> HIDE DEF X
<1>7. Places(c, l) \subseteq X
    BY <1>6, PlacesAreLeast
<1> QED
    BY <1>7 DEF X

\* What a chunk holds is done at every later place.
LEMMA PlacesGrow ==
    ASSUME NEW c \in Lists, NEW l \in Bodies(c)
    PROVE  \A p, q \in Places(c, l) : p.n < q.n => SliceAt(c, l, p) \subseteq q.done
<1> DEFINE X == {q \in Places(c, l) : \A p \in Places(c, l) : p.n < q.n => SliceAt(c, l, p) \subseteq q.done}
<1>1. Places(c, l) \subseteq Place /\ GoesThrough(c, l, Places(c, l))
    BY PlacesGoThrough
<1>2. \A p \in Places(c, l) : p.n \in Nat
    BY <1>1 DEF Place
<1>3. Start \in X
    BY <1>1, <1>2 DEF GoesThrough, Start
<1>4. ASSUME NEW q \in X
      PROVE  After(c, l, q) \in X
    <2>1. q \in Places(c, l) /\ After(c, l, q) \in Places(c, l) /\ q \in Place
        BY <1>1 DEF GoesThrough
    <2>2. After(c, l, q).n = q.n + 1 /\ After(c, l, q).done = q.done \cup SliceAt(c, l, q)
        BY <2>1, AfterType
    <2>3. ASSUME NEW p \in Places(c, l), p.n < After(c, l, q).n
          PROVE  SliceAt(c, l, p) \subseteq After(c, l, q).done
        <3>1. p.n < q.n \/ p.n = q.n
            BY <1>2, <2>1, <2>2, <2>3
        <3>2. CASE p.n < q.n
            BY <2>2, <3>2
        <3>3. CASE p.n = q.n
            <4>1. p = q
                BY <2>1, <3>3, PlaceByNumber
            <4> QED
                BY <2>2, <4>1
        <3> QED
            BY <3>1, <3>2, <3>3
    <2> QED
        BY <2>1, <2>3
<1>5. X \in SUBSET Place /\ GoesThrough(c, l, X)
    BY <1>1, <1>3, <1>4 DEF GoesThrough
<1> HIDE DEF X
<1>6. Places(c, l) \subseteq X
    BY <1>5, PlacesAreLeast
<1> QED
    BY <1>6 DEF X

\* Of the steps of two chunks, those of one are done before those of the other.
LEMMA InOrder ==
    ASSUME NEW c \in Lists, NEW l \in Bodies(c), NEW p \in Places(c, l), NEW q \in Places(c, l),
           NEW s \in SliceAt(c, l, p), NEW t \in SliceAt(c, l, q),
           t \notin p.done, t \notin SliceAt(c, l, p)
    PROVE  s \in q.done
<1>1. p.n \in Nat /\ q.n \in Nat
    BY PlacesGoThrough DEF Place
<1>2. CASE q.n < p.n
    BY <1>2, PlacesGrow
<1>3. CASE q.n = p.n
    <2>1. q = p
        BY <1>3, PlaceByNumber
    <2> QED
        BY <2>1
<1>4. CASE p.n < q.n
    BY <1>4, PlacesGrow
<1> QED
    BY <1>1, <1>2, <1>3, <1>4

-----------------------------------------------------------------------------
(* Runs that do not overlap *)

OneRun == \A q, r \in Runs : InProgress(q) /\ InProgress(r) => q = r

\* The record of a step says where it stands.
StatusInv ==
    \A r \in Runs, c \in Lists : frame[r][c].open =>
        /\ \A s \in frame[r][c].done : stepStatus[s] = "COMPLETED"
        /\ \A s \in frame[r][c].chunk :
             /\ act[r][s] \in Working => stepStatus[s] = "RUNNING"
             /\ act[r][s] \in {"saving", "ok"} => stepStatus[s] = "COMPLETED"

DoneInv == wfStatus = "COMPLETED" =>
    /\ \A s \in ToSet(Body[Root]) : stepStatus[s] = "COMPLETED"
    /\ \A r \in Runs : phase[r] # "running"

OnceInv == \A s \in Steps : Kind[s] = "agent" =>
    successes[s] <= 1 /\ (successes[s] = 1 => stepStatus[s] = "COMPLETED")

Touched(s) == stepStatus[s] \in {"RUNNING", "COMPLETED", "FAILED"}

\* While a chunk is in hand that somebody had still to work on, nothing behind it has been touched.
AheadInv ==
    \A r \in Runs, c \in Lists : frame[r][c].open =>
        \A s \in frame[r][c].chunk : act[r][s] # "ok" =>
            \A t \in ToSet(frame[r][c].steps) \ (frame[r][c].done \cup frame[r][c].chunk) : ~Touched(t)

\* A list is at one of the places it goes through, or works on the chunk that follows it.
StandsAt(c, f, p) ==
    /\ f.done = p.done
    /\ f.chunk = {} => f.queue = p.queue
    /\ f.chunk # {} => f.chunk = SliceAt(c, f.steps, p) /\ f.queue = ReadyAt(f.steps, p) \ SliceAt(c, f.steps, p)

PlaceInv ==
    \A r \in Runs, c \in Lists : frame[r][c].open =>
        \E p \in Places(c, frame[r][c].steps) : StandsAt(c, frame[r][c], p)

\* Whoever was touched is in the chunk of a place before which everything is completed: the chunks of a list are the
\* same in every run.
TouchedInv ==
    \A c \in Lists : \A l \in Bodies(c) : \A s \in ToSet(l) : Touched(s) =>
        \E p \in Places(c, l) : s \in SliceAt(c, l, p) /\ \A d \in p.done : stepStatus[d] = "COMPLETED"

\* No agent has a list.
CompositeInv == \A r \in Runs, c \in Lists : frame[r][c].open /\ c # Root => Kind[c] # "agent"

Alone == OneRun /\ StatusInv /\ DoneInv /\ OnceInv /\ AheadInv /\ PlaceInv /\ TouchedInv
AloneInv == CompositeInv /\ (~overlapped => Alone)

\* The conjuncts that only stepStatus can disturb are kept when nobody is touched anew and nothing completed is undone.
StatusKept ==
    /\ \A s \in Steps : stepStatus[s] = "COMPLETED" => stepStatus'[s] = "COMPLETED"
    /\ \A s \in Steps : Touched(s)' => Touched(s)

LEMMA TouchedKept ==
    ASSUME TouchedInv, StatusKept
    PROVE  TouchedInv'
<1>1. ASSUME NEW c \in Lists, NEW l \in Bodies(c), NEW s \in ToSet(l), Touched(s)'
      PROVE  \E p \in Places(c, l) : s \in SliceAt(c, l, p) /\ \A d \in p.done : stepStatus'[d] = "COMPLETED"
    <2>1. s \in Steps
        BY ListsAreSteps
    <2>2. Touched(s)
        BY <1>1, <2>1 DEF StatusKept
    <2>3. PICK p \in Places(c, l) : s \in SliceAt(c, l, p) /\ \A d \in p.done : stepStatus[d] = "COMPLETED"
        BY <2>2 DEF TouchedInv
    <2>4. p.done \subseteq Steps
        BY PlacesGoThrough DEF Place
    <2> QED
        BY <2>3, <2>4 DEF StatusKept
<1> QED
    BY <1>1 DEF TouchedInv

\* Who is in progress is recorded as such.
LEMMA StatusOfBusy ==
    ASSUME StructInv, StatusInv, NEW r \in Runs, NEW s \in Steps
    PROVE  /\ act[r][s] \in Working => stepStatus[s] = "RUNNING"
           /\ act[r][s] = "saving" => stepStatus[s] = "COMPLETED"
           /\ act[r][s] \in Busy => phase[r] = "running"
    BY DEF StructInv, ParentInv, FrameInv, StatusInv, Busy

LEMMA StepsMoveAlone ==
    ASSUME StructInv, WorkflowTypeOK', AloneInv, NEW r \in Runs, StepsMove(r)
    PROVE  AloneInv'
<1>1. UNCHANGED <<wfStatus, phase, frame, overlapped>> /\ \A q \in Runs : q # r => act'[q] = act[q]
    BY DEF StepsMove, StructInv, WorkflowTypeOK
<1>2. \A s \in Steps : Stays(r, s) \/ Retries(r, s) \/ Fails(r, s) \/ Succeeds(r, s) \/ Saves(r, s)
    BY DEF StepsMove
<1>3. CompositeInv'
    BY <1>1 DEF AloneInv, CompositeInv
<1>4. ASSUME ~overlapped
      PROVE  Alone'
    <2>1. Alone
        BY <1>4 DEF AloneInv
    <2>2. \A s \in Steps : /\ act[r][s] \in Working => stepStatus[s] = "RUNNING"
                           /\ act[r][s] = "saving" => stepStatus[s] = "COMPLETED"
                           /\ act[r][s] \in Busy => phase[r] = "running"
        BY <2>1, StatusOfBusy DEF Alone
    <2>3. StatusKept
        BY <1>2, <2>2 DEF StatusKept, Touched, Stays, Retries, Fails, Succeeds, Saves, Working
    <2>4. OneRun'
        BY <1>1, <2>1 DEF Alone, OneRun, InProgress
    <2>5. ASSUME NEW q \in Runs, NEW c \in Lists, frame[q][c].open, q # r
          PROVE  \A s \in Steps : Stays(r, s)
        <3>1. phase[q] = "running" /\ phase[r] # "running"
            BY <2>1, <2>5 DEF StructInv, FrameInv, Alone, OneRun, InProgress
        <3> QED
            BY <1>2, <2>2, <3>1 DEF Retries, Fails, Succeeds, Saves, Busy, Working
    <2>6. ASSUME NEW q \in Runs, NEW c \in Lists, frame[q][c].open
          PROVE  /\ frame[q][c].done \subseteq Steps /\ frame[q][c].chunk \subseteq Steps
                 /\ ToSet(frame[q][c].steps) \subseteq Steps
        <3>1. FrameOK(c, frame[q][c])
            BY <2>6 DEF StructInv, FrameInv
        <3> QED
            BY <3>1, ListsAreSteps DEF FrameOK
    <2>7. ASSUME NEW s \in Steps, NEW q \in Runs, NEW c \in Lists, frame[q][c].open, s \in frame[q][c].chunk
          PROVE  /\ act'[q][s] \in Working => stepStatus'[s] = "RUNNING"
                 /\ act'[q][s] \in {"saving", "ok"} => stepStatus'[s] = "COMPLETED"
                 /\ act[q][s] = "ok" => act'[q][s] = "ok"
        <3>1. /\ act[q][s] \in Working => stepStatus[s] = "RUNNING"
              /\ act[q][s] \in {"saving", "ok"} => stepStatus[s] = "COMPLETED"
            BY <2>1, <2>7 DEF Alone, StatusInv
        <3>2. CASE q # r
            BY <1>1, <2>5, <2>7, <3>1, <3>2 DEF Stays
        <3>3. CASE q = r
            BY <1>2, <3>1, <3>3 DEF Stays, Retries, Fails, Succeeds, Saves, Working
        <3> QED
            BY <3>2, <3>3
    <2>8. StatusInv'
        <3>1. \A q \in Runs, c \in Lists : frame[q][c].open =>
                  \A s \in frame[q][c].done : stepStatus'[s] = "COMPLETED"
            BY <2>1, <2>3, <2>6 DEF Alone, StatusInv, StatusKept
        <3> QED
            BY <1>1, <2>6, <2>7, <3>1 DEF StatusInv
    <2>9. DoneInv'
        <3>1. ToSet(Body[Root]) \subseteq Steps
            BY ListsAreSteps DEF Bodies, Lists
        <3> QED
            BY <1>1, <2>1, <2>3, <3>1 DEF Alone, DoneInv, StatusKept
    <2>10. OnceInv'
        <3>1. ASSUME NEW s \in Steps, Kind[s] = "agent"
              PROVE  successes'[s] <= 1 /\ (successes'[s] = 1 => stepStatus'[s] = "COMPLETED")
            <4>1. successes[s] \in Nat /\ successes[s] <= 1 /\ (successes[s] = 1 => stepStatus[s] = "COMPLETED")
                BY <2>1, <3>1 DEF Alone, OnceInv, StructInv, WorkflowTypeOK
            <4>2. CASE Succeeds(r, s)
                <5>1. successes[s] = 0
                    BY <2>2, <4>1, <4>2 DEF Succeeds, Working
                <5> QED
                    BY <4>2, <5>1 DEF Succeeds
            <4>3. CASE ~Succeeds(r, s)
                <5>1. successes'[s] = successes[s]
                    BY <1>2, <4>3 DEF Stays, Retries, Fails, Saves
                <5> QED
                    BY <2>3, <4>1, <5>1 DEF StatusKept
            <4> QED
                BY <4>2, <4>3
        <3> QED
            BY <3>1 DEF OnceInv
    <2>11. AheadInv'
        <3>1. ASSUME NEW q \in Runs, NEW c \in Lists, frame[q][c].open,
                     NEW s \in frame[q][c].chunk, act'[q][s] # "ok",
                     NEW u \in ToSet(frame[q][c].steps) \ (frame[q][c].done \cup frame[q][c].chunk)
              PROVE  ~Touched(u)'
            <4>1. act[q][s] # "ok" /\ u \in Steps
                BY <2>6, <2>7, <3>1
            <4>2. ~Touched(u)
                BY <2>1, <3>1, <4>1 DEF Alone, AheadInv
            <4> QED
                BY <2>3, <4>1, <4>2 DEF StatusKept
        <3> QED
            BY <1>1, <3>1 DEF AheadInv
    <2>12. PlaceInv'
        BY <1>1, <2>1 DEF Alone, PlaceInv
    <2>13. TouchedInv'
        BY <2>1, <2>3, TouchedKept DEF Alone
    <2> QED
        BY <2>4, <2>8, <2>9, <2>10, <2>11, <2>12, <2>13 DEF Alone
<1> QED
    BY <1>1, <1>3, <1>4 DEF AloneInv

LEMMA EndRunAlone ==
    ASSUME StructInv, AloneInv, NEW r \in Runs, EndRun(r)
    PROVE  AloneInv'
<1>1. /\ phase[r] = "closing" /\ phase' = [phase EXCEPT ![r] = "over"]
      /\ act' = [act EXCEPT ![r] = [s \in Steps |-> "idle"]]
      /\ UNCHANGED <<wfStatus, stepStatus, frame, successes, overlapped>>
    BY DEF EndRun
<1>2. \A c \in Lists : ~frame[r][c].open
    BY <1>1 DEF StructInv, FrameInv
<1>3. \A q \in Runs : q # r => act'[q] = act[q]
    BY <1>1 DEF StructInv, WorkflowTypeOK
<1>4. \A q \in Runs : phase'[q] = IF q = r THEN "over" ELSE phase[q]
    BY <1>1 DEF StructInv, WorkflowTypeOK
<1>5. CompositeInv'
    BY <1>1 DEF AloneInv, CompositeInv
<1>6. ASSUME Alone
      PROVE  Alone'
    <2>1. OneRun'
        BY <1>4, <1>6 DEF Alone, OneRun, InProgress
    <2>2. StatusInv'
        BY <1>1, <1>2, <1>3, <1>6 DEF Alone, StatusInv
    <2>3. DoneInv'
        BY <1>1, <1>4, <1>6 DEF Alone, DoneInv
    <2>4. AheadInv'
        BY <1>1, <1>2, <1>3, <1>6 DEF Alone, AheadInv, Touched
    <2>5. OnceInv' /\ PlaceInv' /\ TouchedInv'
        BY <1>1, <1>6 DEF Alone, OnceInv, PlaceInv, TouchedInv, Touched
    <2> QED
        BY <2>1, <2>2, <2>3, <2>4, <2>5 DEF Alone
<1> QED
    BY <1>1, <1>5, <1>6 DEF AloneInv

LEMMA BeginRunAlone ==
    ASSUME StructInv, AloneInv, NEW r \in Runs, BeginRun(r)
    PROVE  AloneInv'
<1> DEFINE opened == Opened(Body[Root])
<1>1. /\ phase[r] = "idle" /\ phase' = [phase EXCEPT ![r] = "running"] /\ wfStatus' = "RUNNING"
      /\ frame' = [frame EXCEPT ![r][Root] = opened]
      /\ UNCHANGED <<stepStatus, act, successes>>
    BY DEF BeginRun
<1>2. overlapped' = (overlapped \/ \E other \in Runs : InProgress(other))
    BY DEF BeginRun
<1>3. Root \in Lists /\ Body[Root] \in Bodies(Root) /\ Body[Root] \in Seq(Steps)
    BY WorkflowAssumption DEF Lists, Bodies
<1>4. /\ opened.open /\ opened.steps = Body[Root] /\ opened.done = {} /\ opened.chunk = {} /\ opened.queue = {}
    BY <1>3, OpenedType
<1> HIDE DEF opened
<1>5. /\ frame'[r][Root] = opened
      /\ \A q \in Runs, c \in Lists : q # r \/ c # Root => frame'[q][c] = frame[q][c]
    BY <1>1, <1>3 DEF StructInv, WorkflowTypeOK
<1>6. CompositeInv'
    BY <1>5 DEF AloneInv, CompositeInv
<1>7. ASSUME ~overlapped'
      PROVE  Alone'
    <2>1. ~overlapped /\ \A q \in Runs : ~InProgress(q)
        BY <1>2, <1>7, Zenon
    <2>2. Alone
        BY <2>1 DEF AloneInv
    <2>3. \A q \in Runs, c \in Lists : ~frame[q][c].open
        BY <2>1 DEF StructInv, FrameInv, InProgress
    <2>4. \A q \in Runs, c \in Lists : frame'[q][c].open => q = r /\ c = Root /\ frame'[q][c] = opened
        BY <1>5, <2>3
    <2>5. \A q \in Runs : q # r => phase'[q] = phase[q]
        BY <1>1 DEF StructInv, WorkflowTypeOK
    <2>6. OneRun'
        BY <2>1, <2>5 DEF OneRun, InProgress
    <2>7. StatusInv' /\ AheadInv'
        BY <1>4, <2>4 DEF StatusInv, AheadInv
    <2>8. DoneInv'
        BY <1>1 DEF DoneInv
    <2>9. OnceInv' /\ TouchedInv'
        BY <1>1, <2>2 DEF Alone, OnceInv, TouchedInv, Touched
    <2>10. PlaceInv'
        <3>1. Start \in Places(Root, Body[Root])
            BY <1>3, PlacesGoThrough DEF GoesThrough
        <3>2. StandsAt(Root, opened, Start)
            BY <1>4 DEF StandsAt, Start
        <3> QED
            BY <1>4, <2>4, <3>1, <3>2 DEF PlaceInv
    <2> QED
        BY <2>6, <2>7, <2>8, <2>9, <2>10 DEF Alone
<1> QED
    BY <1>6, <1>7 DEF AloneInv

LEMMA GoesOnAlone ==
    ASSUME StructInv, AloneInv, NEW r \in Runs, NEW c \in Lists, GoesOn(r, c)
    PROVE  AloneInv'
<1> DEFINE f == frame[r][c]
           next == [f EXCEPT !.chunk = {}, !.remaining = f.remaining \ f.chunk, !.done = f.done \cup f.chunk]
<1>1. /\ f.open /\ f.chunk # {} /\ \A s \in f.chunk : act[r][s] = "ok"
      /\ frame' = [frame EXCEPT ![r][c] = next]
      /\ UNCHANGED <<wfStatus, phase, act, successes, stepStatus, overlapped>>
    BY DEF GoesOn
<1>2. f \in FrameRec
    BY Frames DEF StructInv
<1>3. /\ next.open = f.open /\ next.steps = f.steps /\ next.queue = f.queue /\ next.chunk = {}
      /\ next.done = f.done \cup f.chunk
    BY <1>2 DEF FrameRec
<1> HIDE DEF next
<1>4. /\ frame'[r][c] = next
      /\ \A q \in Runs, d \in Lists : q # r \/ d # c => frame'[q][d] = frame[q][d]
    BY <1>1 DEF StructInv, WorkflowTypeOK
<1>5. CompositeInv'
    BY <1>3, <1>4 DEF AloneInv, CompositeInv
<1>6. ASSUME Alone
      PROVE  Alone'
    <2>1. OneRun' /\ DoneInv' /\ OnceInv' /\ TouchedInv'
        BY <1>1, <1>6 DEF Alone, OneRun, InProgress, DoneInv, OnceInv, TouchedInv, Touched
    <2>2. StatusInv'
        <3>1. \A s \in next.done : stepStatus[s] = "COMPLETED"
            BY <1>1, <1>3, <1>6 DEF Alone, StatusInv
        <3> QED
            BY <1>1, <1>3, <1>4, <1>6, <3>1 DEF Alone, StatusInv
    <2>3. AheadInv'
        BY <1>1, <1>3, <1>4, <1>6 DEF Alone, AheadInv, Touched
    <2>4. PlaceInv'
        <3>1. f.steps \in Bodies(c)
            BY <1>1 DEF StructInv, FrameInv, FrameOK
        <3>2. PICK p \in Places(c, f.steps) : StandsAt(c, f, p)
            BY <1>1, <1>6 DEF Alone, PlaceInv
        <3>3. After(c, f.steps, p) \in Places(c, f.steps) /\ p \in Place
            BY <3>1, PlacesGoThrough DEF GoesThrough
        <3>4. /\ After(c, f.steps, p).done = p.done \cup SliceAt(c, f.steps, p)
              /\ After(c, f.steps, p).queue = ReadyAt(f.steps, p) \ SliceAt(c, f.steps, p)
            BY <3>1, <3>3, AfterType
        <3>5. StandsAt(c, next, After(c, f.steps, p))
            BY <1>1, <1>3, <3>2, <3>4 DEF StandsAt
        <3> QED
            BY <1>3, <1>4, <1>6, <3>3, <3>5 DEF Alone, PlaceInv
    <2> QED
        BY <2>1, <2>2, <2>3, <2>4 DEF Alone
<1> QED
    BY <1>1, <1>5, <1>6 DEF AloneInv

LEMMA ClosesAlone ==
    ASSUME StructInv, AloneInv, NEW r \in Runs, NEW c \in Lists, NEW ok \in BOOLEAN, ClosesList(r, c, ok)
    PROVE  AloneInv'
<1>1. /\ phase[r] = "running" /\ frame[r][c].open /\ EndList(r, c, ok) /\ UNCHANGED overlapped
      /\ frame' = [frame EXCEPT ![r][c] = Closed] /\ (ok => frame[r][c].remaining = {})
    BY DEF ClosesList
<1>2. \A s \in Steps : IF s = c THEN stepStatus'[s] = OwnStatus(ok)
                        ELSE \/ stepStatus'[s] = stepStatus[s]
                             \/ /\ stepStatus'[s] = "SKIPPED"
                                /\ s \in frame[r][c].remaining \ frame[r][c].chunk
                                /\ \E u \in frame[r][c].chunk : act[r][u] = "failed"
    BY DEF ClosesList
<1>3. /\ ~frame'[r][c].open
      /\ \A q \in Runs, d \in Lists : q # r \/ d # c => frame'[q][d] = frame[q][d]
    BY <1>1, ClosedType DEF StructInv, WorkflowTypeOK
<1>4. FrameOK(c, frame[r][c])
    BY <1>1 DEF StructInv, FrameInv
<1>5. CompositeInv'
    BY <1>3 DEF AloneInv, CompositeInv
<1>6. ASSUME Alone
      PROVE  Alone'
    <2>1. c # Root => c \in Steps /\ act[r][c] = "inside" /\ stepStatus[c] = "RUNNING"
        <3>1. c # Root => c \in Steps /\ act[r][c] = "inside"
            BY <1>1 DEF StructInv, FrameInv, Lists
        <3> QED
            BY <1>6, <3>1, StatusOfBusy DEF Alone, Working
    <2>2. c \in Steps => c # Root
        BY WorkflowAssumption
    <2>3. \A s \in Steps : s # c => \/ stepStatus'[s] = stepStatus[s]
                                    \/ /\ stepStatus'[s] = "SKIPPED" /\ ~Touched(s)
                                       /\ s \in ToSet(frame[r][c].steps)
        <3>1. ASSUME NEW s \in Steps, s \in frame[r][c].remaining \ frame[r][c].chunk,
                     NEW u \in frame[r][c].chunk, act[r][u] = "failed"
              PROVE  ~Touched(s) /\ s \in ToSet(frame[r][c].steps)
            BY <1>1, <1>4, <1>6, <3>1 DEF Alone, AheadInv, FrameOK
        <3> QED
            BY <1>2, <3>1
    <2>4. StatusKept
        BY <1>2, <2>1, <2>2, <2>3 DEF StatusKept, Touched, OwnStatus
    <2>5. \A q \in Runs : q # r => ~InProgress(q)
        BY <1>1, <1>6 DEF Alone, OneRun, InProgress
    <2>6. \A q \in Runs, d \in Lists : frame[q][d].open => q = r
        BY <2>5 DEF StructInv, FrameInv, InProgress
    <2>7. ASSUME NEW d \in Lists, frame[r][d].open
          PROVE  /\ FrameOK(d, frame[r][d]) /\ frame[r][d].steps \in Bodies(d)
                 /\ frame[r][d].done \subseteq Steps /\ frame[r][d].chunk \subseteq Steps
                 /\ ToSet(frame[r][d].steps) \subseteq Steps
        <3>1. FrameOK(d, frame[r][d])
            BY <2>7 DEF StructInv, FrameInv
        <3> QED
            BY <3>1, ListsAreSteps DEF FrameOK
    <2>8. /\ \A s \in Steps : s # c => act'[r][s] = act[r][s]
          /\ c # Root => act'[r][c] = IF ok THEN "saving" ELSE "failed"
        <3>1. CASE c = Root
            BY <1>1, <3>1 DEF EndList
        <3>2. CASE c # Root
            <4>1. act' = [act EXCEPT ![r][c] = IF ok THEN "saving" ELSE "failed"]
                BY <1>1, <3>2 DEF EndList
            <4> QED
                BY <2>1, <3>2, <4>1 DEF StructInv, WorkflowTypeOK
        <3> QED
            BY <3>1, <3>2
    <2>9. OneRun'
        <3>1. phase' = phase \/ phase' = [phase EXCEPT ![r] = "closing"]
            BY <1>1 DEF EndList
        <3>2. \A q \in Runs : q # r => phase'[q] = phase[q]
            BY <3>1 DEF StructInv, WorkflowTypeOK
        <3> QED
            BY <2>5, <3>2 DEF OneRun, InProgress
    <2>10. StatusInv'
        <3>1. ASSUME NEW d \in Lists, frame[r][d].open, d # c
              PROVE  /\ \A s \in frame[r][d].done : stepStatus'[s] = "COMPLETED"
                     /\ \A s \in frame[r][d].chunk :
                          /\ act'[r][s] \in Working => stepStatus'[s] = "RUNNING"
                          /\ act'[r][s] \in {"saving", "ok"} => stepStatus'[s] = "COMPLETED"
            <4>1. \A s \in frame[r][d].done : stepStatus'[s] = "COMPLETED"
                BY <1>6, <2>4, <2>7, <3>1 DEF Alone, StatusInv, StatusKept
            <4>2. ASSUME NEW s \in frame[r][d].chunk
                  PROVE  /\ act'[r][s] \in Working => stepStatus'[s] = "RUNNING"
                         /\ act'[r][s] \in {"saving", "ok"} => stepStatus'[s] = "COMPLETED"
                <5>1. s \in Steps /\ s \in ToSet(frame[r][d].steps)
                    BY <2>7, <3>1 DEF FrameOK
                <5>2. CASE s = c
                    <6>1. act'[r][c] = IF ok THEN "saving" ELSE "failed"
                        BY <2>2, <2>8, <5>1, <5>2
                    <6>2. stepStatus'[c] = OwnStatus(ok)
                        BY <1>2, <5>1, <5>2
                    <6> QED
                        BY <5>2, <6>1, <6>2 DEF OwnStatus, Working
                <5>3. CASE s # c
                    <6>1. s \notin ToSet(frame[r][c].steps)
                        <7>1. frame[r][c].steps \in Bodies(c) /\ frame[r][d].steps \in Bodies(d)
                            BY <1>1, <2>7, <3>1
                        <7> QED
                            BY <3>1, <5>1, <7>1, OtherList
                    <6>2. stepStatus'[s] = stepStatus[s] /\ act'[r][s] = act[r][s]
                        BY <2>3, <2>8, <5>1, <5>3, <6>1
                    <6> QED
                        BY <1>6, <3>1, <6>2 DEF Alone, StatusInv
                <5> QED
                    BY <5>2, <5>3
            <4> QED
                BY <4>1, <4>2
        <3>2. \A q \in Runs, d \in Lists : frame'[q][d].open => q = r /\ d # c /\ frame[r][d].open /\ frame'[q][d] = frame[r][d]
            BY <1>3, <2>6
        <3> QED
            BY <3>1, <3>2 DEF StatusInv
    <2>11. DoneInv'
        <3>1. CASE c = Root
            <4>1. wfStatus' = "COMPLETED" => ok
                BY <1>1, <3>1 DEF EndList
            <4>2. ok => \A s \in ToSet(Body[Root]) : stepStatus'[s] = "COMPLETED"
                <5>1. SUFFICES ASSUME ok PROVE \A s \in ToSet(Body[Root]) : stepStatus'[s] = "COMPLETED"
                    OBVIOUS
                <5>2. frame[r][Root].steps = Body[Root] /\ frame[r][Root].done = ToSet(Body[Root])
                    BY <1>1, <1>4, <3>1, <5>1 DEF FrameOK, Bodies
                <5> QED
                    BY <1>1, <1>6, <2>4, <2>7, <3>1, <5>2 DEF Alone, StatusInv, StatusKept
            <4>3. phase' = [phase EXCEPT ![r] = "closing"]
                BY <1>1, <3>1 DEF EndList
            <4>4. \A q \in Runs : phase'[q] # "running"
                BY <2>5, <4>3 DEF StructInv, WorkflowTypeOK, InProgress
            <4> QED
                BY <4>1, <4>2, <4>4 DEF DoneInv
        <3>2. CASE c # Root
            <4>1. wfStatus' = wfStatus
                BY <1>1, <3>2 DEF EndList
            <4> QED
                BY <1>1, <1>6, <4>1 DEF Alone, DoneInv
        <3> QED
            BY <3>1, <3>2
    <2>12. OnceInv'
        <3>1. ASSUME NEW s \in Steps, Kind[s] = "agent"
              PROVE  successes'[s] = successes[s]
            <4>1. CASE c = Root
                BY <1>1, <4>1 DEF EndList
            <4>2. CASE c # Root
                <5>1. s # c
                    BY <1>1, <3>1, <4>2 DEF AloneInv, CompositeInv
                <5>2. successes' = IF ok THEN [successes EXCEPT ![c] = @ + 1] ELSE successes
                    BY <1>1, <4>2 DEF EndList
                <5> QED
                    BY <5>1, <5>2 DEF StructInv, WorkflowTypeOK
            <4> QED
                BY <4>1, <4>2
        <3> QED
            BY <1>6, <2>4, <3>1 DEF Alone, OnceInv, StatusKept
    <2>13. AheadInv'
        <3>1. ASSUME NEW d \in Lists, frame[r][d].open, d # c,
                     NEW s \in frame[r][d].chunk, act'[r][s] # "ok",
                     NEW u \in ToSet(frame[r][d].steps) \ (frame[r][d].done \cup frame[r][d].chunk)
              PROVE  ~Touched(u)'
            <4>1. s \in Steps /\ u \in Steps
                BY <2>7, <3>1
            <4>2. act[r][s] # "ok"
                BY <2>1, <2>2, <2>8, <3>1, <4>1
            <4>3. ~Touched(u)
                BY <1>6, <3>1, <4>2 DEF Alone, AheadInv
            <4> QED
                BY <2>4, <4>1, <4>3 DEF StatusKept
        <3>2. \A q \in Runs, d \in Lists : frame'[q][d].open => q = r /\ d # c /\ frame[r][d].open /\ frame'[q][d] = frame[r][d]
            BY <1>3, <2>6
        <3> QED
            BY <3>1, <3>2 DEF AheadInv
    <2>14. PlaceInv'
        BY <1>3, <1>6 DEF Alone, PlaceInv
    <2>15. TouchedInv'
        BY <1>6, <2>4, TouchedKept DEF Alone
    <2> QED
        BY <2>9, <2>10, <2>11, <2>12, <2>13, <2>14, <2>15 DEF Alone
<1> QED
    BY <1>1, <1>5, <1>6 DEF AloneInv

LEMMA StartChunkAlone ==
    ASSUME StructInv, AloneInv, NEW r \in Runs, NEW c \in Lists, StartChunk(r, c)
    PROVE  AloneInv'
<1> DEFINE f == frame[r][c]
           chunk == SliceNow(r, c)
           begun == Begun(chunk)
           next == [f EXCEPT !.chunk = chunk, !.queue = ReadyNow(r, c) \ chunk]
<1>1. Turn(r, c) /\ UNCHANGED <<wfStatus, phase, successes, overlapped>>
    BY StartsChunk
<1>2. /\ FrameOK(c, f) /\ f.steps \in Bodies(c) /\ f.open /\ f.chunk = {} /\ phase[r] = "running"
      /\ chunk \subseteq ToSet(f.steps)
    BY <1>1, ReadyOK DEF FrameOK
<1>3. \A s \in chunk : s \in Steps /\ s \in Lists /\ ~frame[r][s].open
    BY <1>1, SliceIsFresh
<1>4. begun = {s \in chunk : stepStatus[s] # "COMPLETED"}
    BY DEF Begun
<1>5. f \in FrameRec
    BY Frames DEF StructInv
<1>6. /\ frame'[r][c] = next
      /\ \A l \in Lists \ {c} :
           \/ /\ l \in Steps /\ l \in begun /\ Kind[l] # "agent"
              /\ \E body \in Bodies(l) : frame'[r][l] = Opened(body)
           \/ frame'[r][l] = frame[r][l]
    BY StartsChunk, Zenon
<1>7. \A q \in Runs : q # r => frame'[q] = frame[q]
    <2>1. frame' = [frame EXCEPT ![r] = frame'[r]]
        BY StartsChunk
    <2> QED
        BY <2>1 DEF StructInv, WorkflowTypeOK
<1>8. stepStatus' = [s \in Steps |-> IF s \in begun THEN "RUNNING" ELSE stepStatus[s]]
    BY StartsChunk
<1>9. act'[r] = [s \in Steps |->
                  IF s \notin chunk THEN act[r][s]
                  ELSE IF s \notin begun THEN "ok"
                  ELSE IF Kind[s] = "agent" THEN "waiting" ELSE "inside"]
    BY StartsChunk
<1>10. /\ next.open /\ next.steps = f.steps /\ next.queue = ReadyNow(r, c) \ chunk /\ next.chunk = chunk
       /\ next.done = f.done
    BY <1>2, <1>5 DEF FrameRec
<1> HIDE DEF chunk, begun, next
<1>11. \A d \in Lists : \A body \in Bodies(d) :
           Opened(body).steps = body /\ Opened(body).done = {} /\ Opened(body).chunk = {} /\ Opened(body).queue = {}
    BY ListsAreSteps, OpenedType
<1>12. CompositeInv'
    BY <1>2, <1>6, <1>7 DEF AloneInv, CompositeInv
<1>13. ASSUME Alone
       PROVE  Alone'
    <2>1. PICK p \in Places(c, f.steps) : StandsAt(c, f, p)
        BY <1>2, <1>13 DEF Alone, PlaceInv
    <2>2. f.done = p.done /\ f.queue = p.queue /\ f.remaining = ToSet(f.steps) \ f.done
        BY <1>2, <2>1 DEF StandsAt, FrameOK
    <2>3. ReadyNow(r, c) = ReadyAt(f.steps, p) /\ chunk = SliceAt(c, f.steps, p)
        BY <2>2 DEF ReadyNow, Ready, ReadyAt, SliceNow, SliceAt, chunk
    <2>4. \A s \in Steps : stepStatus[s] = "COMPLETED" => stepStatus'[s] = "COMPLETED"
        BY <1>4, <1>8
    <2>5. \A s \in Steps : s \notin chunk => stepStatus'[s] = stepStatus[s] /\ act'[r][s] = act[r][s]
        BY <1>4, <1>8, <1>9
    <2>6. \A q \in Runs : q # r => ~InProgress(q)
        BY <1>2, <1>13 DEF Alone, OneRun, InProgress
    <2>7. \A q \in Runs, d \in Lists : frame[q][d].open => q = r
        BY <2>6 DEF StructInv, FrameInv, InProgress
    <2>8. ASSUME NEW d \in Lists, frame[r][d].open
          PROVE  /\ frame[r][d].steps \in Bodies(d) /\ frame[r][d].chunk \subseteq ToSet(frame[r][d].steps)
                 /\ frame[r][d].done \subseteq Steps /\ ToSet(frame[r][d].steps) \subseteq Steps
        <3>1. FrameOK(d, frame[r][d])
            BY <2>8 DEF StructInv, FrameInv
        <3> QED
            BY <3>1, ListsAreSteps DEF FrameOK
    \* Another list that is worked on has no step in the chunk.
    <2>9. ASSUME NEW d \in Lists, frame[r][d].open, d # c, NEW s \in ToSet(frame[r][d].steps)
          PROVE  s \in Steps /\ s \notin chunk
        <3>1. frame[r][d].steps \in Bodies(d) /\ s \in Steps
            BY <2>8, <2>9
        <3>2. s \notin ToSet(f.steps)
            BY <1>2, <2>9, <3>1, OtherList
        <3> QED
            BY <1>2, <3>1, <3>2
    <2>10. ASSUME NEW q \in Runs, NEW d \in Lists, frame'[q][d].open
           PROVE  /\ q = r
                  /\ \/ d = c
                     \/ d # c /\ \E body \in Bodies(d) : frame'[r][d] = Opened(body)
                     \/ d # c /\ frame[r][d].open /\ frame'[r][d] = frame[r][d]
        <3>1. q = r
            BY <1>7, <2>7, <2>10
        <3> QED
            BY <1>6, <2>10, <3>1
    <2>11. OneRun'
        BY <1>1, <1>13 DEF Alone, OneRun, InProgress
    <2>12. StatusInv'
        <3>1. \A s \in f.done : stepStatus'[s] = "COMPLETED"
            BY <1>2, <1>13, <2>4, <2>8 DEF Alone, StatusInv
        <3>2. \A s \in chunk : /\ act'[r][s] \in Working => stepStatus'[s] = "RUNNING"
                               /\ act'[r][s] \in {"saving", "ok"} => stepStatus'[s] = "COMPLETED"
            BY <1>3, <1>4, <1>8, <1>9 DEF Working
        <3>3. ASSUME NEW d \in Lists, d # c, frame[r][d].open
              PROVE  /\ \A s \in frame[r][d].done : stepStatus'[s] = "COMPLETED"
                     /\ \A s \in frame[r][d].chunk :
                          /\ act'[r][s] \in Working => stepStatus'[s] = "RUNNING"
                          /\ act'[r][s] \in {"saving", "ok"} => stepStatus'[s] = "COMPLETED"
            <4>1. \A s \in frame[r][d].done : stepStatus'[s] = "COMPLETED"
                BY <1>13, <2>4, <2>8, <3>3 DEF Alone, StatusInv
            <4>2. \A s \in frame[r][d].chunk : stepStatus'[s] = stepStatus[s] /\ act'[r][s] = act[r][s]
                BY <2>5, <2>8, <2>9, <3>3
            <4> QED
                BY <1>13, <3>3, <4>1, <4>2 DEF Alone, StatusInv
        <3>4. ASSUME NEW d \in Lists, frame'[r][d].open
              PROVE  /\ \A s \in frame'[r][d].done : stepStatus'[s] = "COMPLETED"
                     /\ \A s \in frame'[r][d].chunk :
                          /\ act'[r][s] \in Working => stepStatus'[s] = "RUNNING"
                          /\ act'[r][s] \in {"saving", "ok"} => stepStatus'[s] = "COMPLETED"
            <4>1. CASE d = c
                BY <1>6, <1>10, <3>1, <3>2, <4>1
            <4>2. CASE \E body \in Bodies(d) : frame'[r][d] = Opened(body)
                BY <1>11, <4>2
            <4>3. CASE d # c /\ frame[r][d].open /\ frame'[r][d] = frame[r][d]
                BY <3>3, <4>3
            <4> QED
                BY <2>10, <3>4, <4>1, <4>2, <4>3
        <3> QED
            BY <2>10, <3>4 DEF StatusInv
    <2>13. DoneInv'
        BY <1>1, <1>2, <1>13 DEF Alone, DoneInv
    <2>14. OnceInv'
        BY <1>1, <1>13, <2>4 DEF Alone, OnceInv
    <2>15. AheadInv'
        <3>1. ASSUME NEW s \in chunk, act'[r][s] # "ok", NEW t \in ToSet(f.steps) \ (f.done \cup chunk)
              PROVE  ~Touched(t)'
            <4>1. s \in begun /\ t \in Steps
                BY <1>2, <1>3, <1>9, <2>8, <3>1
            <4>2. ~Touched(t)
                <5>1. SUFFICES ASSUME Touched(t) PROVE FALSE
                    OBVIOUS
                <5>2. PICK q \in Places(c, f.steps) :
                          t \in SliceAt(c, f.steps, q) /\ \A d \in q.done : stepStatus[d] = "COMPLETED"
                    BY <1>2, <1>13, <3>1, <5>1 DEF Alone, TouchedInv
                <5>3. s \in q.done
                    BY <1>2, <2>2, <2>3, <3>1, <5>2, InOrder
                <5> QED
                    BY <1>4, <4>1, <5>2, <5>3
            <4> QED
                BY <2>5, <3>1, <4>1, <4>2 DEF Touched
        <3>2. ASSUME NEW d \in Lists, d # c, frame[r][d].open,
                     NEW s \in frame[r][d].chunk, act'[r][s] # "ok",
                     NEW t \in ToSet(frame[r][d].steps) \ (frame[r][d].done \cup frame[r][d].chunk)
              PROVE  ~Touched(t)'
            <4>1. act[r][s] # "ok" /\ t \in Steps /\ stepStatus'[t] = stepStatus[t]
                BY <2>5, <2>8, <2>9, <3>2
            <4>2. ~Touched(t)
                BY <1>13, <3>2, <4>1 DEF Alone, AheadInv
            <4> QED
                BY <4>1, <4>2 DEF Touched
        <3>3. ASSUME NEW d \in Lists, frame'[r][d].open, NEW s \in frame'[r][d].chunk, act'[r][s] # "ok",
                     NEW t \in ToSet(frame'[r][d].steps) \ (frame'[r][d].done \cup frame'[r][d].chunk)
              PROVE  ~Touched(t)'
            <4>1. CASE d = c
                BY <1>6, <1>10, <3>1, <3>3, <4>1
            <4>2. CASE \E body \in Bodies(d) : frame'[r][d] = Opened(body)
                BY <1>11, <3>3, <4>2
            <4>3. CASE d # c /\ frame[r][d].open /\ frame'[r][d] = frame[r][d]
                BY <3>2, <3>3, <4>3
            <4> QED
                BY <2>10, <3>3, <4>1, <4>2, <4>3
        <3> QED
            BY <2>10, <3>3 DEF AheadInv
    <2>16. PlaceInv'
        <3>1. ASSUME NEW d \in Lists, frame'[r][d].open
              PROVE  \E q \in Places(d, frame'[r][d].steps) : StandsAt(d, frame'[r][d], q)
            <4>1. CASE d = c /\ chunk # {}
                <5>1. StandsAt(c, next, p)
                    BY <1>10, <2>2, <2>3, <4>1 DEF StandsAt
                <5> QED
                    BY <1>6, <1>10, <4>1, <5>1
            <4>2. CASE d = c /\ chunk = {}
                <5>1. After(c, f.steps, p) \in Places(c, f.steps) /\ p \in Place
                    BY <1>2, PlacesGoThrough DEF GoesThrough
                <5>2. /\ After(c, f.steps, p).done = p.done \cup SliceAt(c, f.steps, p)
                      /\ After(c, f.steps, p).queue = ReadyAt(f.steps, p) \ SliceAt(c, f.steps, p)
                    BY <1>2, <5>1, AfterType
                <5>3. StandsAt(c, next, After(c, f.steps, p))
                    BY <1>10, <2>2, <2>3, <4>2, <5>2 DEF StandsAt
                <5> QED
                    BY <1>6, <1>10, <4>2, <5>1, <5>3
            <4>3. CASE \E body \in Bodies(d) : frame'[r][d] = Opened(body)
                <5>1. PICK body \in Bodies(d) : frame'[r][d] = Opened(body)
                    BY <4>3
                <5>2. Start \in Places(d, body)
                    BY PlacesGoThrough DEF GoesThrough
                <5>3. StandsAt(d, Opened(body), Start)
                    BY <1>11 DEF StandsAt, Start
                <5> QED
                    BY <1>11, <5>1, <5>2, <5>3
            <4>4. CASE d # c /\ frame[r][d].open /\ frame'[r][d] = frame[r][d]
                BY <1>13, <4>4 DEF Alone, PlaceInv
            <4> QED
                BY <2>10, <3>1, <4>1, <4>2, <4>3, <4>4
        <3> QED
            BY <2>10, <3>1 DEF PlaceInv
    <2>17. TouchedInv'
        <3>1. ASSUME NEW d \in Lists, NEW l \in Bodies(d), NEW s \in ToSet(l), Touched(s)'
              PROVE  \E q \in Places(d, l) : s \in SliceAt(d, l, q) /\ \A t \in q.done : stepStatus'[t] = "COMPLETED"
            <4>1. s \in Steps
                BY ListsAreSteps
            <4>2. CASE s \in chunk
                <5>1. d = c /\ l = f.steps
                    BY <1>2, <4>2, OneList
                <5>2. \A t \in p.done : stepStatus'[t] = "COMPLETED"
                    BY <1>2, <1>13, <2>2, <2>4, <2>8 DEF Alone, StatusInv
                <5> QED
                    BY <2>3, <4>2, <5>1, <5>2
            <4>3. CASE s \notin chunk
                <5>1. Touched(s)
                    BY <2>5, <3>1, <4>1, <4>3 DEF Touched
                <5>2. PICK q \in Places(d, l) : s \in SliceAt(d, l, q) /\ \A t \in q.done : stepStatus[t] = "COMPLETED"
                    BY <1>13, <5>1 DEF Alone, TouchedInv
                <5>3. q.done \subseteq Steps
                    BY PlacesGoThrough DEF Place
                <5> QED
                    BY <2>4, <5>2, <5>3
            <4> QED
                BY <4>2, <4>3
        <3> QED
            BY <3>1 DEF TouchedInv
    <2> QED
        BY <2>11, <2>12, <2>13, <2>14, <2>15, <2>16, <2>17 DEF Alone
<1> QED
    BY <1>1, <1>12, <1>13 DEF AloneInv

LEMMA AloneStep ==
    ASSUME StructInv, AloneInv, [WorkflowNext]_wfVars
    PROVE  AloneInv'
<1>1. CASE UNCHANGED wfVars
    BY <1>1 DEF wfVars, AloneInv, CompositeInv, Alone, OneRun, InProgress, StatusInv, DoneInv, OnceInv, AheadInv,
                Touched, PlaceInv, TouchedInv
<1>2. ASSUME NEW r \in Runs, BeginRun(r) \/ StepsMove(r) \/ EndRun(r)
      PROVE  AloneInv'
    BY <1>2, StepCases, BeginRunAlone, StepsMoveAlone, EndRunAlone
<1>3. ASSUME NEW r \in Runs, NEW c \in Lists, StartChunk(r, c) \/ GoesOn(r, c) \/ \E ok \in BOOLEAN : ClosesList(r, c, ok)
      PROVE  AloneInv'
    BY <1>3, StartChunkAlone, GoesOnAlone, ClosesAlone
<1> QED
    BY <1>1, <1>2, <1>3, StepCases

LEMMA AloneInit == WorkflowInit => AloneInv
<1> SUFFICES ASSUME WorkflowInit PROVE AloneInv
    OBVIOUS
<1>1. \A r \in Runs, c \in Lists : ~frame[r][c].open
    BY ClosedType DEF WorkflowInit
<1>2. \A r \in Runs : ~InProgress(r)
    BY DEF WorkflowInit, InProgress
<1>3. \A s \in Steps : stepStatus[s] = "none" /\ successes[s] = 0
    BY DEF WorkflowInit
<1>4. wfStatus = "PENDING"
    BY DEF WorkflowInit
<1>5. TouchedInv
    <2>1. \A s \in Steps : ~Touched(s)
        BY <1>3 DEF Touched
    <2> QED
        BY <2>1, ListsAreSteps DEF TouchedInv
<1> QED
    BY <1>1, <1>2, <1>3, <1>4, <1>5
       DEF AloneInv, CompositeInv, Alone, OneRun, StatusInv, DoneInv, OnceInv, AheadInv, PlaceInv

-----------------------------------------------------------------------------
(* What the steps of a workflow can count on *)

\* The recorded outcome follows: whoever is RUNNING is being worked on, which needs a run in progress.
LEMMA HonouredFollows ==
    ASSUME StructInv, AloneInv
    PROVE  StepsAreHonoured
<1>1. DependenciesFirst
    BY DEF StructInv
<1>2. CompletedOnce
    BY DEF CompletedOnce, AloneInv, Alone, OnceInv
<1>3. EndedIsSettled
    <2>1. ASSUME \A r \in Runs : ~InProgress(r), NEW s \in Steps
          PROVE  stepStatus[s] # "RUNNING"
        <3>1. \A r \in Runs, d \in Lists : ~frame[r][d].open
            BY <2>1 DEF StructInv, FrameInv, InProgress
        <3>2. \A r \in Runs : act[r][s] \notin Working
            BY <3>1 DEF StructInv, ParentInv, Busy
        <3> QED
            BY <3>2 DEF StructInv, RunningInv
    <2>2. ~overlapped /\ wfStatus = "COMPLETED" => \A s \in ToSet(Body[Root]) : stepStatus[s] = "COMPLETED"
        BY DEF AloneInv, Alone, DoneInv
    <2> QED
        BY <2>1, <2>2 DEF EndedIsSettled
<1> QED
    BY <1>1, <1>2, <1>3 DEF StepsAreHonoured

\* "Resumes a checkpointed workflow, skipping already-completed steps" (orchestrator.ts:307), with what surrounds it:
\* no step starts before its dependencies, no agent's work is done twice unless two runs overlap, whatever fails, is
\* aborted or recovered, and once no run is in progress nothing is left RUNNING and COMPLETED means completed.
THEOREM StepsHonoured == WorkflowSpec => []StepsAreHonoured
<1>1. WorkflowInit => StructInv /\ AloneInv
    BY StructInit, AloneInit
<1>2. StructInv /\ AloneInv /\ [WorkflowNext]_wfVars => (StructInv /\ AloneInv)'
    BY StructStep, AloneStep
<1>3. StructInv /\ AloneInv => StepsAreHonoured
    BY HonouredFollows
<1> QED
    BY <1>1, <1>2, <1>3, PTL DEF WorkflowSpec

-----------------------------------------------------------------------------
(* The agent scheduler *)

\* The strengthening: a queue with something in it has a drain.  Without it a
\* caller of idle could begin to wait for a drain there is not.
ServedInv ==
    /\ DOMAIN slot = DrainSlots /\ DOMAIN idleCaller = IdleCallers
    /\ itemQueue # {} => RunningDrains # {}
    /\ NothingStranded

\* What a drain does once its item is dealt with, or there was none: the items
\* that are left are served and so are the callers of idle.
LEMMA ContinueServes ==
    ASSUME ServedInv, NEW d \in DrainSlots, d \in RunningDrains,
           NEW queue, Continue(d, queue)
    PROVE  /\ DOMAIN slot' = DrainSlots /\ DOMAIN idleCaller' = IdleCallers
           /\ \A other \in DrainSlots \ {d} : slot'[other] = slot[other]
           /\ queue # {} => d \in RunningDrains'
           /\ (\E c \in IdleCallers : idleCaller'[c] = "waiting") => RunningDrains' # {}
  <1>1. DOMAIN slot' = DrainSlots /\ DOMAIN idleCaller' = IdleCallers
    BY DEF Continue, ServedInv
  <1>2. \A other \in DrainSlots \ {d} : slot'[other] = slot[other]
    BY DEF Continue, ServedInv
  <1>3. CASE queue # {}
    <2>1. slot'[d].pc = "acquire"
      BY <1>3 DEF Continue, ServedInv, Acquiring
    <2>. QED  BY <1>1, <1>2, <2>1 DEF RunningDrains
  <1>4. CASE queue = {}
    <2>1. ASSUME NEW c \in IdleCallers, idleCaller'[c] = "waiting"
          PROVE  RunningDrains # {d}
      BY <1>4, <2>1 DEF Continue
    <2>2. RunningDrains # {d} => RunningDrains' # {}
      <3>1. SUFFICES ASSUME RunningDrains # {d} PROVE RunningDrains' # {}
        OBVIOUS
      <3>2. PICK other \in RunningDrains : other # d
        BY <3>1
      <3>. QED  BY <1>2, <3>2 DEF RunningDrains
    <2>. QED  BY <1>1, <1>2, <1>4, <2>1, <2>2
  <1>. QED  BY <1>3, <1>4

LEMMA StepServes ==
    ASSUME DrainSlots # {}, ServedInv, [AgentNext]_agentVars
    PROVE  ServedInv'
  <1>1. CASE UNCHANGED agentVars
    BY <1>1 DEF agentVars, ServedInv, NothingStranded, RunningDrains
  <1>2. ASSUME NEW i \in Items, EnqueueItem(i) PROVE ServedInv'
    <2>1. /\ DOMAIN slot' = DrainSlots /\ RunningDrains' # {}
          /\ \A d \in RunningDrains : slot'[d] = slot[d]
      <3>1. CASE RunningDrains = DrainSlots
        BY <1>2, <3>1 DEF EnqueueItem, ServedInv, RunningDrains
      <3>2. CASE RunningDrains # DrainSlots
        BY <1>2, <3>2 DEF EnqueueItem, ServedInv, RunningDrains, Acquiring
      <3>. QED  BY <3>1, <3>2
    <2>2. \A d \in DrainSlots : slot[d].pc = "work" => slot'[d] = slot[d]
      BY <2>1 DEF RunningDrains
    <2>. QED  BY <1>2, <2>1, <2>2 DEF EnqueueItem, ServedInv, NothingStranded
  <1>3. ASSUME NEW i \in Items, AbortItem(i) PROVE ServedInv'
    BY <1>3 DEF AbortItem, ServedInv, NothingStranded, RunningDrains
  <1>4. ASSUME NEW d \in DrainSlots, Pop(d) PROVE ServedInv'
    <2>1. d \in RunningDrains /\ slot[d].pc # "work" /\ sequence' = sequence
      BY <1>4 DEF Pop, RunningDrains
    <2>2. CASE itemQueue = {} /\ Continue(d, {}) /\ UNCHANGED <<itemQueue, settled>>
      BY <2>1, <2>2, ContinueServes DEF ServedInv, NothingStranded
    <2>3. CASE /\ itemQueue' = itemQueue \ {First}
               /\ slot' = [slot EXCEPT ![d] = [pc |-> "work", item |-> First]]
               /\ UNCHANGED <<settled, idleCaller>>
      <3>1. /\ DOMAIN slot' = DrainSlots /\ slot'[d] = [pc |-> "work", item |-> First]
            /\ \A other \in DrainSlots \ {d} : slot'[other] = slot[other]
        BY <2>3 DEF ServedInv
      <3>2. RunningDrains' # {}
        BY <3>1 DEF RunningDrains
      <3>. QED  BY <2>1, <2>3, <3>1, <3>2 DEF ServedInv, NothingStranded
    <2>4. CASE /\ itemQueue' = itemQueue \ {First} /\ settled' = settled \cup {First}
               /\ Continue(d, itemQueue \ {First})
      BY <2>1, <2>4, ContinueServes DEF ServedInv, NothingStranded
    <2>. QED  BY <1>4, <2>2, <2>3, <2>4 DEF Pop
  <1>5. ASSUME NEW d \in DrainSlots, WorkEnds(d) PROVE ServedInv'
    <2>1. d \in RunningDrains
      BY <1>5 DEF WorkEnds, RunningDrains
    <2>. QED  BY <1>5, <2>1, ContinueServes DEF WorkEnds, ServedInv, NothingStranded
  <1>6. ASSUME NEW c \in IdleCallers, CallIdle(c) PROVE ServedInv'
    <2>1. RunningDrains' = RunningDrains
      BY <1>6 DEF CallIdle, RunningDrains
    <2>2. (\E a \in IdleCallers : idleCaller'[a] = "waiting") => RunningDrains # {}
      BY <1>6 DEF CallIdle, ServedInv, NothingStranded
    <2>. QED  BY <1>6, <2>1, <2>2 DEF CallIdle, ServedInv, NothingStranded
  <1>. QED  BY <1>1, <1>2, <1>3, <1>4, <1>5, <1>6 DEF AgentNext

\* An item that was enqueued is settled, in a drain's hands, or queued while a
\* drain runs, and whoever waits in idle has a drain left that will wake it
\* (scheduler.ts 48-77, 140-164), provided that there may be a drain at all.
THEOREM NoWakeUpIsLost ==
    ASSUME DrainSlots # {}
    PROVE  AgentSpec => []NothingStranded
  <1>1. AgentInit => ServedInv
    BY DEF AgentInit, ServedInv, NothingStranded, RunningDrains, Off
  <1>2. ServedInv /\ [AgentNext]_agentVars => ServedInv'
    BY StepServes
  <1>3. ServedInv => NothingStranded
    BY DEF ServedInv
  <1>. QED  BY <1>1, <1>2, <1>3, PTL DEF AgentSpec
=============================================================================
