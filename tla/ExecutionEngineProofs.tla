------------------------ MODULE ExecutionEngineProofs ------------------------
(***************************************************************************)
(* Theorems about ExecutionEngine for every set of executions, stores,     *)
(* requests and calls, whatever fails.                                     *)
(***************************************************************************)
EXTENDS ExecutionEngine, SequenceTheorems, TLAPS

-----------------------------------------------------------------------------
(* The strengthening: what was begun was not cancelled. *)

StepPoints == {"read", "publish", "respond", "diff"}

\* A step that a run has begun, and that CancelRest therefore lets be.
Begun(e, i) ==
    /\ Exists(e)
    /\ i \in DOMAIN execs[e].steps
    /\ execs[e].steps[i].status \notin {"PENDING", "CANCELLED"}

\* A flow's execution exists; the step it is at, the steps it has done and
\* those whose write has reached or may reach the shop were begun.
BegunInv ==
    /\ \A f \in Flows : pc[f] # "idle" => Exists(on[f]) /\ on[f] \in Execs
    /\ \A f \in Flows : pc[f] \in StepPoints => Begun(on[f], at[f])
    /\ \A f \in Flows : pc[f] # "idle" =>
           \A k \in DOMAIN done[f] : Begun(on[f], done[f][k])
    /\ \A e \in Execs, i \in Nat : <<e, i>> \in written \cup late => Begun(e, i)

TypeInv == TypeOK /\ BegunInv

\* How an action may change a record: it keeps its store, its mode and its
\* number of steps; what was begun stays begun, what was cancelled cancelled
\* and what was approved approved.
Grows(r, q) ==
    /\ q.store = r.store /\ q.real = r.real
    /\ DOMAIN q.steps = DOMAIN r.steps
    /\ \A i \in DOMAIN r.steps :
          /\ r.steps[i].status \notin {"PENDING", "CANCELLED"} =>
                 q.steps[i].status \notin {"PENDING", "CANCELLED"}
          /\ r.steps[i].status = "CANCELLED" => q.steps[i].status = "CANCELLED"
          /\ r.steps[i].approved => q.steps[i].approved

Evolves(e) ==
    \/ execs'[e] = execs[e]
    \/ ~Exists(e) /\ execs'[e] \in ExecRec
    \/ Exists(e) /\ execs'[e] \in ExecRec /\ Grows(execs[e], execs'[e])

-----------------------------------------------------------------------------
(* The operators that build records. *)

LEMMA RecFields ==
    ASSUME NEW r \in ExecRec
    PROVE  /\ r.store \in Stores /\ r.real \in BOOLEAN /\ r.status \in Statuses
           /\ r.steps \in Seq(StepRec)
           /\ \A i \in DOMAIN r.steps : r.steps[i] \in StepRec
           /\ r # NoExec
  BY NullAssumption, ElementOfSeq DEF ExecRec

LEMMA SeqExcept ==
    ASSUME NEW S, NEW s \in Seq(S), NEW i \in DOMAIN s, NEW v \in S
    PROVE  /\ [s EXCEPT ![i] = v] \in Seq(S)
           /\ DOMAIN [s EXCEPT ![i] = v] = DOMAIN s
  OBVIOUS

\* A record with a new status is one that grew.
LEMMA NewStatus ==
    ASSUME NEW r \in ExecRec, NEW st \in Statuses
    PROVE  /\ [r EXCEPT !.status = st] \in ExecRec
           /\ Grows(r, [r EXCEPT !.status = st])
           /\ [r EXCEPT !.status = st].steps = r.steps
  BY DEF ExecRec, Grows

LEMMA NewStep ==
    ASSUME NEW r \in ExecRec, NEW i \in DOMAIN r.steps, NEW s \in StepRec
    PROVE  /\ WithStep(r, i, s) \in ExecRec
           /\ WithStep(r, i, s).store = r.store /\ WithStep(r, i, s).real = r.real
           /\ DOMAIN WithStep(r, i, s).steps = DOMAIN r.steps
           /\ WithStep(r, i, s).steps[i] = s
           /\ \A j \in DOMAIN r.steps : j # i => WithStep(r, i, s).steps[j] = r.steps[j]
  <1> DEFINE t == [r.steps EXCEPT ![i] = s]
  <1>1. r.steps \in Seq(StepRec)
    BY RecFields
  <1>2. t \in Seq(StepRec) /\ DOMAIN t = DOMAIN r.steps
    BY <1>1, SeqExcept
  <1>3. t[i] = s /\ \A j \in DOMAIN r.steps : j # i => t[j] = r.steps[j]
    BY <1>1
  <1> HIDE DEF t
  <1>4. [r EXCEPT !.steps = t] \in ExecRec
    BY <1>2 DEF ExecRec
  <1>5. WithStep(r, i, s) = [r EXCEPT !.steps = t]
    BY DEF WithStep, t
  <1> QED
    BY <1>2, <1>3, <1>4, <1>5 DEF ExecRec

\* A step that keeps its status, or that is given one of a step begun, grows
\* the record unless it was cancelled.
LEMMA NewStepGrows ==
    ASSUME NEW r \in ExecRec, NEW i \in DOMAIN r.steps, NEW s \in StepRec,
           r.steps[i].approved => s.approved,
           \/ s.status = r.steps[i].status
           \/ /\ r.steps[i].status # "CANCELLED"
              /\ s.status \notin {"PENDING", "CANCELLED"}
    PROVE  WithStep(r, i, s) \in ExecRec /\ Grows(r, WithStep(r, i, s))
  BY NewStep DEF Grows

LEMMA NewStepStatus ==
    ASSUME NEW r \in ExecRec, NEW i \in DOMAIN r.steps,
           NEW st \in StepStatuses \ {"PENDING", "CANCELLED"},
           r.steps[i].status # "CANCELLED"
    PROVE  /\ WithStatus(r, i, st) \in ExecRec
           /\ Grows(r, WithStatus(r, i, st))
           /\ WithStatus(r, i, st).steps[i].status \notin {"PENDING", "CANCELLED"}
  <1> DEFINE s == [r.steps[i] EXCEPT !.status = st]
  <1>1. r.steps[i] \in StepRec
    BY RecFields
  <1>2. s \in StepRec /\ s.status = st /\ s.approved = r.steps[i].approved
    BY <1>1 DEF StepRec
  <1> HIDE DEF s
  <1>3. WithStatus(r, i, st) = WithStep(r, i, s)
    BY DEF WithStatus, s
  <1> QED
    BY <1>2, <1>3, NewStep, NewStepGrows

LEMMA CancelGrows ==
    ASSUME NEW r \in ExecRec
    PROVE  CancelRest(r) \in ExecRec /\ Grows(r, CancelRest(r))
  <1> DEFINE C(i) == IF r.steps[i].status = "PENDING"
                     THEN [r.steps[i] EXCEPT !.status = "CANCELLED"] ELSE r.steps[i]
             t == [i \in DOMAIN r.steps |-> C(i)]
  <1>1. r.steps \in Seq(StepRec) /\ \A i \in DOMAIN r.steps : r.steps[i] \in StepRec
    BY RecFields
  <1>2. \A i \in DOMAIN r.steps :
            /\ C(i) \in StepRec /\ C(i).approved = r.steps[i].approved
            /\ r.steps[i].status # "PENDING" => C(i) = r.steps[i]
    BY <1>1 DEF StepRec, StepStatuses
  <1>3. CancelRest(r) = [r EXCEPT !.steps = t]
    BY DEF CancelRest
  <1> HIDE DEF C
  <1>4. t \in Seq(StepRec) /\ DOMAIN t = DOMAIN r.steps
    <2>1. \A n \in Nat : t \in [1..n -> StepRec] => t \in Seq(StepRec)
      OBVIOUS
    <2>2. DOMAIN r.steps = 1..Len(r.steps) /\ Len(r.steps) \in Nat
      BY <1>1
    <2> QED
      BY <1>2, <2>1, <2>2
  <1>5. \A i \in DOMAIN r.steps : t[i] = C(i)
    OBVIOUS
  <1> HIDE DEF t
  <1>6. [r EXCEPT !.steps = t] \in ExecRec
    BY <1>4 DEF ExecRec
  <1> QED
    BY <1>2, <1>3, <1>4, <1>5, <1>6 DEF Grows, ExecRec

LEMMA GrowsTwice ==
    ASSUME NEW r, NEW q, NEW p, Grows(r, q), Grows(q, p)
    PROVE  Grows(r, p)
  BY DEF Grows

LEMMA PlanType ==
    ASSUME NEW b \in Rollbacks
    PROVE  PlanOf(b) \in Plans
  BY DEF PlanOf, Rollbacks, Plans

LEMMA PlannedType ==
    ASSUME NEW e \in Execs
    PROVE  Planned(Requests[e]) \in ExecRec
  <1> DEFINE q == Requests[e]
             S(i) == [status |-> "PENDING", approved |-> q.tasks[i].approved,
                      plan |-> PlanOf(q.tasks[i].rollback), before |-> "none",
                      attempts |-> 0]
             t == [i \in DOMAIN q.tasks |-> S(i)]
  <1>1. q \in RequestRec
    BY RequestsAssumption
  <1>2. /\ q.store \in Stores /\ q.real \in BOOLEAN /\ q.tasks \in Seq(TaskRec)
        /\ \A i \in DOMAIN q.tasks : q.tasks[i] \in TaskRec
    BY <1>1, ElementOfSeq DEF RequestRec
  <1>3. Planned(q) = [store |-> q.store, real |-> q.real, status |-> "PENDING", steps |-> t]
    BY DEF Planned
  <1>4. \A i \in DOMAIN q.tasks : S(i) \in StepRec
    BY <1>2, PlanType DEF TaskRec, StepRec, StepStatuses
  <1> HIDE DEF S, q
  <1>5. t \in Seq(StepRec)
    <2>1. \A n \in Nat : t \in [1..n -> StepRec] => t \in Seq(StepRec)
      OBVIOUS
    <2>2. DOMAIN q.tasks = 1..Len(q.tasks) /\ Len(q.tasks) \in Nat
      BY <1>2
    <2> QED
      BY <1>4, <2>1, <2>2
  <1> HIDE DEF t
  <1> QED
    BY <1>2, <1>3, <1>5 DEF ExecRec, Statuses, q

-----------------------------------------------------------------------------
(* What every action does to the records. *)

LEMMA Saved ==
    ASSUME NEW e \in Execs, NEW r \in ExecRec, TypeOK, Save(e, r),
           ~Exists(e) \/ Grows(execs[e], r)
    PROVE  \A x \in Execs : Evolves(x)
  BY DEF TypeOK, Save, Evolves, Exists

LEMMA Stored ==
    ASSUME NEW e \in Execs, TypeOK, Exists(e)
    PROVE  execs[e] \in ExecRec
  BY DEF TypeOK, Exists

\* The flow of an action has an execution, and at a step point a step of it
\* that was begun.
LEMMA AtStep ==
    ASSUME NEW f \in Flows, TypeInv, pc[f] # "idle"
    PROVE  /\ on[f] \in Execs /\ Exists(on[f]) /\ execs[on[f]] \in ExecRec
           /\ pc[f] \in StepPoints =>
                 /\ at[f] \in DOMAIN execs[on[f]].steps
                 /\ execs[on[f]].steps[at[f]] \in StepRec
                 /\ execs[on[f]].steps[at[f]].status \notin {"PENDING", "CANCELLED"}
  <1>1. on[f] \in Execs /\ Exists(on[f])
    BY DEF TypeInv, BegunInv
  <1>2. execs[on[f]] \in ExecRec
    BY <1>1, Stored DEF TypeInv
  <1> QED
    BY <1>1, <1>2, RecFields DEF TypeInv, BegunInv, Begun

\* The last step a rollback has left to restore.
LEMMA LastDone ==
    ASSUME NEW f \in Flows, TypeInv, pc[f] # "idle", done[f] # <<>>
    PROVE  LET i == done[f][Len(done[f])]
           IN  /\ i \in DOMAIN execs[on[f]].steps
               /\ execs[on[f]].steps[i] \in StepRec
               /\ execs[on[f]].steps[i].status \notin {"PENDING", "CANCELLED"}
  <1>1. done[f] \in Seq(Nat)
    BY DEF TypeInv, TypeOK
  <1>2. Len(done[f]) \in DOMAIN done[f]
    BY <1>1
  <1>3. Begun(on[f], done[f][Len(done[f])])
    BY <1>2 DEF TypeInv, BegunInv
  <1> QED
    BY <1>3, AtStep, RecFields DEF Begun

LEMMA ApprovedStep ==
    ASSUME NEW s \in StepRec
    PROVE  /\ [s EXCEPT !.approved = TRUE] \in StepRec
           /\ [s EXCEPT !.approved = TRUE].status = s.status
           /\ [s EXCEPT !.approved = TRUE].approved
           /\ [s EXCEPT !.approved = TRUE].plan = s.plan
           /\ [s EXCEPT !.approved = TRUE].before = s.before
           /\ [s EXCEPT !.approved = TRUE].attempts = s.attempts
  <1> DEFINE t == [s EXCEPT !.approved = TRUE]
  <1>1. /\ DOMAIN t = DOMAIN s /\ t = [x \in DOMAIN s |-> t[x]]
        /\ t.status = s.status /\ t.plan = s.plan /\ t.before = s.before
        /\ t.attempts = s.attempts /\ t.approved = TRUE
    BY Zenon DEF StepRec
  <1> QED
    BY <1>1 DEF StepRec

LEMMA StartedStep ==
    ASSUME NEW s \in StepRec
    PROVE  LET t == [s EXCEPT !.status = "EXECUTING", !.attempts = @ + 1]
           IN  /\ t \in StepRec /\ t.status = "EXECUTING" /\ t.approved = s.approved
               /\ t.plan = s.plan /\ t.before = s.before /\ t.attempts = s.attempts + 1
  <1> DEFINE t == [s EXCEPT !.status = "EXECUTING", !.attempts = @ + 1]
  <1>1. s.attempts + 1 \in Nat
    BY DEF StepRec
  <1>2. /\ DOMAIN t = DOMAIN s /\ t = [x \in DOMAIN s |-> t[x]]
        /\ t.approved = s.approved /\ t.plan = s.plan /\ t.before = s.before
        /\ t.attempts = s.attempts + 1 /\ t.status = "EXECUTING"
    BY Zenon DEF StepRec
  <1> HIDE DEF t
  <1>3. t \in StepRec
    BY <1>1, <1>2 DEF StepRec, StepStatuses
  <1> QED
    BY <1>2, <1>3 DEF t

LEMMA ExecuteEvolves ==
    ASSUME TypeInv, NEW e \in Execs, NEW f \in Flows, Execute(e, f)
    PROVE  \A x \in Execs : Evolves(x)
  <1>1. Planned(Requests[e]) \in ExecRec
    BY PlannedType
  <1>2. [Planned(Requests[e]) EXCEPT !.status = "QUEUED"] \in ExecRec
    BY <1>1, NewStatus DEF Statuses
  <1>3. PICK r \in ExecRec : Save(e, r)
    BY <1>1, <1>2 DEF Execute
  <1> QED
    BY <1>3, Saved DEF Execute, TypeInv

LEMMA CallerEvolves ==
    ASSUME TypeInv, NEW e \in Execs,
           Cancel(e) \/ \E i \in DOMAIN Requests[e].tasks : Approve(e, i)
    PROVE  \A x \in Execs : Evolves(x)
  <1>1. Exists(e) /\ execs[e] \in ExecRec
    BY Stored DEF Cancel, Approve, TypeInv
  <1>2. CASE Cancel(e)
    <2>1. [CancelRest(execs[e]) EXCEPT !.status = "CANCELLED"] \in ExecRec
      BY <1>1, CancelGrows, NewStatus DEF Statuses
    <2>2. Grows(execs[e], [CancelRest(execs[e]) EXCEPT !.status = "CANCELLED"])
      BY <1>1, CancelGrows, NewStatus, GrowsTwice DEF Statuses
    <2> QED
      BY <1>2, <2>1, <2>2, Saved DEF Cancel, TypeInv
  <1>3. ASSUME NEW i, Approve(e, i)
        PROVE  \A x \in Execs : Evolves(x)
    <2> DEFINE s == [execs[e].steps[i] EXCEPT !.approved = TRUE]
    <2>1. i \in DOMAIN execs[e].steps /\ Save(e, WithStep(execs[e], i, s))
      BY <1>3 DEF Approve
    <2>2. s \in StepRec /\ s.status = execs[e].steps[i].status /\ s.approved
      BY <1>1, <2>1, RecFields, ApprovedStep
    <2> HIDE DEF s
    <2>3. WithStep(execs[e], i, s) \in ExecRec /\ Grows(execs[e], WithStep(execs[e], i, s))
      BY <1>1, <2>1, <2>2, NewStepGrows
    <2> QED
      BY <2>1, <2>3, Saved DEF TypeInv
  <1> QED
    BY <1>2, <1>3

\* A flow that gives its execution another status and leaves its steps alone.
LEMMA StatusEvolves ==
    ASSUME TypeInv, NEW f \in Flows, pc[f] # "idle", NEW st \in Statuses,
           Save(on[f], [execs[on[f]] EXCEPT !.status = st])
    PROVE  \A x \in Execs : Evolves(x)
  BY AtStep, NewStatus, Saved DEF TypeInv

\* A flow that gives a step it has begun another status, a step of a run.
LEMMA StepStatusEvolves ==
    ASSUME TypeInv, NEW f \in Flows, pc[f] # "idle",
           NEW i \in DOMAIN execs[on[f]].steps,
           execs[on[f]].steps[i].status # "CANCELLED",
           NEW st \in {"FAILED", "ROLLED_BACK"},
           NEW q,
           LET r == WithStatus(execs[on[f]], i, st)
           IN  q \in {r, [r EXCEPT !.status = "FAILED"],
                      [CancelRest(r) EXCEPT !.status = "FAILED"]},
           Save(on[f], q)
    PROVE  \A x \in Execs : Evolves(x)
  <1> DEFINE e == on[f]
             r == WithStatus(execs[e], i, st)
  <1>1. e \in Execs /\ execs[e] \in ExecRec
    BY AtStep
  <1>2. r \in ExecRec /\ Grows(execs[e], r)
    BY <1>1, NewStepStatus DEF StepStatuses
  <1> HIDE DEF r, e
  <1>3. /\ [r EXCEPT !.status = "FAILED"] \in ExecRec
        /\ Grows(r, [r EXCEPT !.status = "FAILED"])
    BY <1>2, NewStatus DEF Statuses
  <1>4. CancelRest(r) \in ExecRec /\ Grows(r, CancelRest(r))
    BY <1>2, CancelGrows
  <1>5. /\ [CancelRest(r) EXCEPT !.status = "FAILED"] \in ExecRec
        /\ Grows(CancelRest(r), [CancelRest(r) EXCEPT !.status = "FAILED"])
    BY <1>4, NewStatus DEF Statuses
  <1>6. q \in ExecRec /\ Grows(execs[e], q)
    <2>1. q \in {r, [r EXCEPT !.status = "FAILED"],
                  [CancelRest(r) EXCEPT !.status = "FAILED"]}
      BY DEF r, e
    <2> QED
      BY <2>1, <1>2, <1>3, <1>4, <1>5, GrowsTwice
  <1> QED
    BY <1>1, <1>6, Saved DEF TypeInv, e

LEMMA RunEvolves ==
    ASSUME TypeInv, NEW f \in Flows, Advance(f)
    PROVE  \A x \in Execs : Evolves(x)
<1> DEFINE e == on[f]
           r == execs[e]
<1>1. CASE UNCHANGED execs
    BY <1>1 DEF Evolves
<1>2. CASE StoreLocked(f) \/ Started(f) \/ Read(f) \/ Publish(f) \/ StepDone(f)
           \/ RollbackStarts(f) \/ Finalize(f) \/ Release(f)
    BY <1>2, <1>1 DEF StoreLocked, Started, Read, Publish, StepDone,
       RollbackStarts, Finalize, Release
<1>3. CASE Reject(f) \/ Admit(f) \/ Abort(f)
    <2>1. /\ pc[f] # "idle"
          /\ \E st \in Statuses : Save(on[f], [execs[on[f]] EXCEPT !.status = st])
        BY <1>3 DEF Reject, Admit, Abort, Statuses
    <2> QED
        BY <2>1, StatusEvolves
<1>4. CASE BeginStep(f)
    <2>1. PICK i \in ToRun(r, at[f]) :
              Save(e, WithStep(r, i, [r.steps[i] EXCEPT
                  !.status = "EXECUTING", !.attempts = @ + 1]))
        BY <1>4 DEF BeginStep
    <2>2. r \in ExecRec /\ e \in Execs /\ r.steps \in Seq(StepRec)
        BY <1>4, AtStep, RecFields DEF BeginStep
    <2>3. i \in DOMAIN r.steps /\ r.steps[i].status # "CANCELLED"
        BY <2>1 DEF ToRun
    <2> DEFINE s == [r.steps[i] EXCEPT !.status = "EXECUTING", !.attempts = @ + 1]
    <2>4. r.steps[i] \in StepRec
        BY <2>2, <2>3, RecFields
    <2>5. s \in StepRec /\ s.status = "EXECUTING" /\ s.approved = r.steps[i].approved
        BY <2>4, StartedStep
    <2> HIDE DEF s, r, e
    <2>6. WithStep(r, i, s) \in ExecRec /\ Grows(r, WithStep(r, i, s))
        BY <2>2, <2>3, <2>5, NewStepGrows
    <2> QED
        BY <2>1, <2>2, <2>6, Saved DEF TypeInv, s, r, e
<1>5. CASE Respond(f)
    <2> DEFINE s == [r.steps[at[f]] EXCEPT
                        !.before = IF state[f] # "none" THEN state[f] ELSE @,
                        !.status = IF r.real THEN "COMPLETED" ELSE "SIMULATED"]
    <2>1. Save(e, WithStep(r, at[f], s))
        BY <1>5 DEF Respond
    <2>2. /\ r \in ExecRec /\ e \in Execs /\ at[f] \in DOMAIN r.steps
          /\ r.steps[at[f]] \in StepRec
          /\ r.steps[at[f]].status \notin {"PENDING", "CANCELLED"}
        BY <1>5, AtStep DEF Respond, StepPoints
    <2>3. state[f] \in Values \cup {"none"}
        BY DEF TypeInv, TypeOK
    <2>4. /\ s \in StepRec /\ s.status \notin {"PENDING", "CANCELLED"}
          /\ s.approved = r.steps[at[f]].approved
        BY <2>2, <2>3 DEF StepRec, StepStatuses
    <2> HIDE DEF s, r, e
    <2>5. WithStep(r, at[f], s) \in ExecRec /\ Grows(r, WithStep(r, at[f], s))
        BY <2>2, <2>4, NewStepGrows
    <2> QED
        BY <2>1, <2>2, <2>5, Saved DEF TypeInv, r, e
<1>6. CASE StepFails(f) \/ TimesOut(f) \/ RefusalUnreported(f)
    <2>1. pc[f] # "idle" /\ pc[f] \in StepPoints
        BY <1>6 DEF StepFails, TimesOut, RefusalUnreported, StepPoints
    <2>2. /\ at[f] \in DOMAIN execs[on[f]].steps
          /\ execs[on[f]].steps[at[f]].status # "CANCELLED"
        BY <2>1, AtStep
    <2>3. PICK q : /\ LET w == WithStatus(execs[on[f]], at[f], "FAILED")
                       IN  q \in {w, [w EXCEPT !.status = "FAILED"],
                                  [CancelRest(w) EXCEPT !.status = "FAILED"]}
                   /\ Save(on[f], q)
        BY <1>6 DEF StepFails, TimesOut, RefusalUnreported, FailStep
    <2> QED
        BY <2>1, <2>2, <2>3, StepStatusEvolves
<1>7. CASE Restore(f) \/ RestoreFails(f)
    <2> DEFINE i == done[f][Len(done[f])]
    <2>1. pc[f] # "idle" /\ done[f] # <<>>
        BY <1>7 DEF Restore, RestoreFails
    <2>2. i \in DOMAIN execs[on[f]].steps /\ execs[on[f]].steps[i].status # "CANCELLED"
        BY <2>1, LastDone
    <2>3. PICK st \in {"FAILED", "ROLLED_BACK"} : \E q :
                   /\ LET w == WithStatus(execs[on[f]], i, st)
                      IN  q \in {w, [w EXCEPT !.status = "FAILED"],
                                  [CancelRest(w) EXCEPT !.status = "FAILED"]}
                   /\ Save(on[f], q)
        BY <1>7 DEF Restore, RestoreFails
    <2> HIDE DEF i
    <2>4. PICK q :
                   /\ LET w == WithStatus(execs[on[f]], i, st)
                      IN  q \in {w, [w EXCEPT !.status = "FAILED"],
                                  [CancelRest(w) EXCEPT !.status = "FAILED"]}
                   /\ Save(on[f], q)
        BY <2>3
    <2> QED
        BY <2>1, <2>2, <2>4, StepStatusEvolves
<1>8. CASE RolledBack(f)
    <2>1. r \in ExecRec /\ e \in Execs
        BY <1>8, AtStep DEF RolledBack
    <2>2. /\ [CancelRest(r) EXCEPT !.status = "ROLLED_BACK"] \in ExecRec
          /\ Grows(r, [CancelRest(r) EXCEPT !.status = "ROLLED_BACK"])
        BY <2>1, CancelGrows, NewStatus, GrowsTwice DEF Statuses
    <2> QED
        BY <1>8, <2>1, <2>2, Saved DEF RolledBack, TypeInv
<1>9. CASE Finish(f)
    <2>1. pc[f] # "idle" /\ \E st \in Statuses :
              \/ Save(on[f], [execs[on[f]] EXCEPT !.status = st])
              \/ UNCHANGED execs
        <3>1. r \in ExecRec /\ e \in Execs /\ execs \in [Execs -> ExecRec \cup {NoExec}]
            BY <1>9, AtStep DEF Finish, TypeInv, TypeOK
        <3>2. [execs EXCEPT ![e] = r] = execs
            BY <3>1
        <3> QED
            BY <1>9, <3>2 DEF Finish, Save, Statuses
    <2> QED
        BY <1>1, <2>1, StatusEvolves
<1> QED
    BY <1>2, <1>3, <1>4, <1>5, <1>6, <1>7, <1>8, <1>9 DEF Advance

LEMMA NextEvolves ==
    ASSUME TypeInv, [Next]_vars
    PROVE  \A x \in Execs : Evolves(x)
<1>1. CASE UNCHANGED execs
    BY <1>1 DEF Evolves
<1>2. ASSUME NEW e \in Execs, NEW f \in Flows, Execute(e, f)
      PROVE  \A x \in Execs : Evolves(x)
    BY <1>2, ExecuteEvolves
<1>3. ASSUME NEW e \in Execs,
             Cancel(e) \/ \E i \in DOMAIN Requests[e].tasks : Approve(e, i)
      PROVE  \A x \in Execs : Evolves(x)
    BY <1>3, CallerEvolves
<1>4. CASE Call
    BY <1>1, <1>2, <1>3, <1>4 DEF Call, Resume, EmergencyStop, ResumeFromStop
<1>5. CASE \E w \in late : LateWrite(w)
    BY <1>1, <1>5 DEF LateWrite
<1>6. CASE \E f \in Flows : Advance(f)
    BY <1>6, RunEvolves
<1> QED
    BY <1>1, <1>4, <1>5, <1>6 DEF Next, vars

\* What was begun stays begun.
LEMMA BegunStays ==
    ASSUME TypeInv, [Next]_vars, NEW e \in Execs, NEW i, Begun(e, i)
    PROVE  Begun(e, i)'
<1>1. Evolves(e) /\ Exists(e)
    BY NextEvolves DEF Begun
<1>2. CASE execs'[e] = execs[e]
    BY <1>2 DEF Begun, Exists
<1>3. CASE execs'[e] \in ExecRec /\ Grows(execs[e], execs'[e])
    BY <1>3, RecFields DEF Begun, Exists, Grows
<1> QED
    BY <1>1, <1>2, <1>3 DEF Evolves

LEMMA ExistsStays ==
    ASSUME TypeInv, [Next]_vars, NEW e \in Execs, Exists(e)
    PROVE  Exists(e)' /\ Grows(execs[e], execs'[e])
<1>1. Evolves(e)
    BY NextEvolves
<1> QED
    BY <1>1, RecFields DEF Evolves, Exists, Grows

-----------------------------------------------------------------------------
(* Type correctness. *)

FlowsTyped ==
    /\ pc \in [Flows -> Points]
    /\ on \in [Flows -> Execs \cup {NoOwner}]
    /\ seen \in [Flows -> SUBSET Execs]
    /\ at \in [Flows -> Nat]
    /\ state \in [Flows -> Values \cup {"none"}]
    /\ done \in [Flows -> Seq(Nat)]

LEMMA LeaveTyped ==
    ASSUME FlowsTyped, NEW f \in Flows, Leave(f)
    PROVE  FlowsTyped'
  BY DEF FlowsTyped, Leave, Go, Points

LEMMA BeginTyped ==
    ASSUME FlowsTyped, NEW f \in Flows, NEW e \in Execs, BeginRun(f, e)
    PROVE  FlowsTyped'
<1>1. {x \in Execs \ {e} : IsActive(x) /\ execs[x].store = Requests[e].store} \in SUBSET Execs
    OBVIOUS
<1> QED
    BY <1>1 DEF FlowsTyped, BeginRun, Go, Points

LEMMA GoTyped ==
    ASSUME FlowsTyped, NEW f \in Flows, NEW p \in Points, Go(f, p), UNCHANGED locals
    PROVE  FlowsTyped'
  BY DEF FlowsTyped, Go, locals

LEMMA AdvanceTyped ==
    ASSUME TypeInv, NEW f \in Flows, Advance(f)
    PROVE  FlowsTyped'
<1> FlowsTyped
    BY DEF FlowsTyped, TypeInv, TypeOK
<1>1. CASE Reject(f) \/ StoreLocked(f) \/ Release(f)
    BY <1>1, LeaveTyped DEF Reject, StoreLocked, Release
<1>2. CASE Started(f)
    BY <1>2, LeaveTyped, GoTyped DEF Started, Points
<1>3. CASE Publish(f) \/ Respond(f) \/ StepFails(f) \/ RefusalUnreported(f)
           \/ TimesOut(f) \/ RollbackStarts(f) \/ RolledBack(f) \/ Finish(f)
           \/ Finalize(f) \/ Abort(f)
    <2>1. UNCHANGED locals /\ \E p \in Points : Go(f, p)
        BY <1>3 DEF Publish, Respond, StepFails, RefusalUnreported, TimesOut, FailStep,
           RollbackStarts, RolledBack, Finish, Finalize, Abort, Points
    <2> QED
        BY <2>1, GoTyped
<1>4. CASE Admit(f)
    BY <1>4 DEF Admit, FlowsTyped, Go, Points
<1>5. CASE BeginStep(f)
    <2>1. \E i \in Nat : at' = [at EXCEPT ![f] = i]
        <3>1. pc[f] # "idle"
            BY <1>5 DEF BeginStep
        <3>2. execs[on[f]].steps \in Seq(StepRec)
            BY <3>1, AtStep, RecFields
        <3>3. DOMAIN execs[on[f]].steps \subseteq Nat
            BY <3>2
        <3> QED
            BY <1>5, <3>3 DEF BeginStep, ToRun
    <2> QED
        BY <1>5, <2>1 DEF BeginStep, FlowsTyped, Go, Points
<1>6. CASE Read(f)
    BY <1>6 DEF Read, FlowsTyped, Go, Points, Values
<1>7. CASE StepDone(f)
    <2>1. done[f] \in Seq(Nat) /\ at[f] \in Nat
        BY DEF FlowsTyped
    <2>2. Append(done[f], at[f]) \in Seq(Nat) /\ at[f] + 1 \in Nat
        BY <2>1
    <2> QED
        BY <1>7, <2>2 DEF StepDone, FlowsTyped, Go, Points
<1>8. CASE Restore(f) \/ RestoreFails(f)
    <2>1. done[f] \in Seq(Nat) /\ done[f] # <<>>
        BY <1>8 DEF FlowsTyped, Restore, RestoreFails
    <2>2. RestLast(done[f]) \in Seq(Nat)
        BY <2>1 DEF RestLast
    <2> QED
        BY <1>8, <2>2 DEF Restore, RestoreFails, FlowsTyped, Go, Points
<1> QED
    BY <1>1, <1>2, <1>3, <1>4, <1>5, <1>6, <1>7, <1>8 DEF Advance

LEMMA FlowsStayTyped ==
    ASSUME TypeInv, [Next]_vars
    PROVE  FlowsTyped'
<1> FlowsTyped
    BY DEF FlowsTyped, TypeInv, TypeOK
<1>1. ASSUME NEW e \in Execs, NEW f \in Flows, Execute(e, f) \/ Resume(e, f)
      PROVE  FlowsTyped'
    <2>1. BeginRun(f, e) \/ UNCHANGED <<pc, locals>>
        BY <1>1 DEF Execute, Resume
    <2> QED
        BY <2>1, BeginTyped DEF FlowsTyped, locals
<1>2. CASE UNCHANGED <<pc, locals>>
    BY <1>2 DEF FlowsTyped, locals
<1>3. CASE Call
    BY <1>1, <1>2, <1>3 DEF Call, Cancel, Approve, EmergencyStop, ResumeFromStop
<1>4. CASE \E f \in Flows : Advance(f)
    BY <1>4, AdvanceTyped
<1>5. CASE \E w \in late : LateWrite(w)
    BY <1>2, <1>5 DEF LateWrite
<1>6. CASE UNCHANGED vars
    BY <1>2, <1>6 DEF vars, locals
<1> QED
    BY <1>3, <1>4, <1>5, <1>6 DEF Next

\* The store is a function whatever is saved.
LEMMA StoreStays ==
    ASSUME TypeInv, [Next]_vars
    PROVE  execs' \in [Execs -> ExecRec \cup {NoExec}]
<1>1. execs \in [Execs -> ExecRec \cup {NoExec}]
    BY DEF TypeInv, TypeOK
<1>2. UNCHANGED execs \/ \E e, r : Save(e, r)
    <2>1. ASSUME NEW f, Advance(f)
          PROVE  UNCHANGED execs \/ \E e, r : Save(e, r)
        <3>1. CASE \/ Reject(f) \/ StoreLocked(f) \/ Admit(f) \/ Started(f) \/ BeginStep(f)
                   \/ Read(f) \/ Publish(f) \/ Respond(f) \/ StepDone(f)
            BY <3>1 DEF Reject, StoreLocked, Admit, Started, BeginStep, Read, Publish,
               Respond, StepDone
        <3>2. CASE \/ StepFails(f) \/ RefusalUnreported(f) \/ TimesOut(f) \/ RollbackStarts(f)
                   \/ Restore(f) \/ RestoreFails(f)
            BY <3>2 DEF StepFails, RefusalUnreported, TimesOut, FailStep, RollbackStarts,
               Restore, RestoreFails
        <3>3. CASE RolledBack(f) \/ Finish(f) \/ Finalize(f) \/ Abort(f) \/ Release(f)
            BY <3>3 DEF RolledBack, Finish, Finalize, Abort, Release
        <3> QED
            BY <2>1, <3>1, <3>2, <3>3 DEF Advance
    <2>2. CASE Call
        BY <2>2 DEF Call, Execute, Resume, Approve, Cancel, EmergencyStop, ResumeFromStop
    <2> QED
        BY <2>1, <2>2 DEF Next, LateWrite, vars
<1>3. execs' = [x \in Execs |-> execs'[x]]
    BY <1>1, <1>2 DEF Save
<1>4. \A x \in Execs : execs'[x] \in ExecRec \cup {NoExec}
    BY <1>1, NextEvolves DEF Evolves
<1> QED
    BY <1>3, <1>4

EnvTyped ==
    /\ lock \in [Stores -> Execs \cup {NoOwner}]
    /\ stopped \subseteq Stores \cup {Everywhere}
    /\ written \subseteq Execs \X Nat /\ late \subseteq Execs \X Nat
    /\ resumes \in 0..MaxResumes /\ stops \in 0..MaxStops /\ joined \in BOOLEAN

LEMMA EnvStaysTyped ==
    ASSUME TypeInv, [Next]_vars
    PROVE  EnvTyped'
<1> EnvTyped
    BY DEF EnvTyped, TypeInv, TypeOK
<1>1. CASE UNCHANGED <<lock, stopped, shop, bounds>>
    BY <1>1 DEF EnvTyped, shop, bounds
<1>2. CASE Call
    <2>1. ASSUME NEW e \in Execs, NEW f \in Flows, Execute(e, f) \/ Resume(e, f)
          PROVE  EnvTyped'
        <3>1. CASE Execute(e, f)
            BY <1>1, <3>1 DEF Execute
        <3>2. CASE Resume(e, f)
            <4>1. joined' \in BOOLEAN
                BY <3>2, Zenon DEF Resume
            <4> QED
                BY <3>2, <4>1, ConfigAssumption DEF Resume, EnvTyped, shop
        <3> QED
            BY <2>1, <3>1, <3>2
    <2>2. ASSUME NEW where \in Stores \cup {Everywhere},
                 EmergencyStop(where) \/ ResumeFromStop(where)
          PROVE  EnvTyped'
        BY <2>2, ConfigAssumption DEF EmergencyStop, ResumeFromStop, EnvTyped, shop, bounds
    <2> QED
        BY <1>1, <1>2, <2>1, <2>2 DEF Call, Cancel, Approve
<1>3. CASE \E w \in late : LateWrite(w)
    BY <1>3 DEF LateWrite, EnvTyped, bounds
<1>4. ASSUME NEW f \in Flows, Advance(f)
      PROVE  EnvTyped'
    <2>1. CASE \/ Reject(f) \/ StoreLocked(f) \/ Started(f) \/ BeginStep(f) \/ Read(f)
               \/ Respond(f) \/ StepDone(f) \/ StepFails(f) \/ RefusalUnreported(f)
               \/ RollbackStarts(f) \/ RolledBack(f) \/ Finish(f) \/ Finalize(f) \/ Abort(f)
        BY <1>1, <2>1 DEF Reject, StoreLocked, Started, BeginStep, Read, Respond, StepDone,
           StepFails, RefusalUnreported, FailStep, RollbackStarts, RolledBack, Finish,
           Finalize, Abort
    <2>2. CASE Admit(f) \/ Release(f)
        <3>1. on[f] \in Execs
            BY <2>2, AtStep DEF Admit, Release
        <3> QED
            BY <2>2, <3>1 DEF Admit, Release, EnvTyped, shop, bounds
    <2>3. CASE Publish(f) \/ TimesOut(f)
        <3>1. on[f] \in Execs /\ at[f] \in Nat
            BY <2>3, AtStep DEF Publish, TimesOut, TypeInv, TypeOK
        <3> QED
            BY <2>3, <3>1 DEF Publish, TimesOut, FailStep, Shop, EnvTyped, bounds
    <2>4. CASE Restore(f) \/ RestoreFails(f)
        <3>1. on[f] \in Execs /\ done[f] \in Seq(Nat) /\ done[f] # <<>>
            BY <2>4, AtStep DEF Restore, RestoreFails, TypeInv, TypeOK
        <3>2. done[f][Len(done[f])] \in Nat
            BY <3>1
        <3> QED
            BY <2>4, <3>1, <3>2 DEF Restore, RestoreFails, Shop, EnvTyped, bounds
    <2> QED
        BY <1>4, <2>1, <2>2, <2>3, <2>4 DEF Advance
<1> QED
    BY <1>1, <1>2, <1>3, <1>4 DEF Next, vars, shop, bounds

LEMMA TypeStays ==
    ASSUME TypeInv, [Next]_vars
    PROVE  TypeOK'
  BY StoreStays, FlowsStayTyped, EnvStaysTyped DEF TypeOK, FlowsTyped, EnvTyped

-----------------------------------------------------------------------------
(* Begun stays an invariant. *)

FlowBegun(f) ==
    pc[f] # "idle" =>
        /\ on[f] \in Execs /\ Exists(on[f])
        /\ pc[f] \in StepPoints => Begun(on[f], at[f])
        /\ \A k \in DOMAIN done[f] : Begun(on[f], done[f][k])

LEMMA FlowBegunStays ==
    ASSUME TypeInv, [Next]_vars, NEW f \in Flows,
           pc[f] # "idle", on'[f] = on[f],
           pc'[f] \in StepPoints => at'[f] = at[f] /\ pc[f] \in StepPoints,
           done'[f] = done[f]
    PROVE  FlowBegun(f)'
<1>1. /\ on[f] \in Execs /\ Exists(on[f])
      /\ pc[f] \in StepPoints => Begun(on[f], at[f])
      /\ \A k \in DOMAIN done[f] : Begun(on[f], done[f][k])
    BY DEF TypeInv, BegunInv
<1>2. Exists(on[f])'
    BY <1>1, ExistsStays DEF Exists
<1>3. \A i : Begun(on[f], i) => execs'[on[f]] # NoExec /\ i \in DOMAIN execs'[on[f]].steps
                 /\ execs'[on[f]].steps[i].status \notin {"PENDING", "CANCELLED"}
    BY <1>1, BegunStays DEF Begun, Exists
<1> QED
    BY <1>1, <1>2, <1>3 DEF FlowBegun, Begun, Exists

LEMMA AdvanceBegun ==
    ASSUME TypeInv, [Next]_vars, NEW f \in Flows, Advance(f)
    PROVE  FlowBegun(f)'
<1>1. /\ pc \in [Flows -> Points] /\ on \in [Flows -> Execs \cup {NoOwner}]
      /\ at \in [Flows -> Nat] /\ done \in [Flows -> Seq(Nat)]
    BY DEF TypeInv, TypeOK
<1>2. CASE pc'[f] = "idle"
    BY <1>2 DEF FlowBegun
<1>3. CASE Leave(f)
    BY <1>1, <1>2, <1>3 DEF Leave, Go
<1>4. CASE Admit(f) \/ RollbackStarts(f) \/ RolledBack(f) \/ Finish(f) \/ Finalize(f)
           \/ Abort(f) \/ (Started(f) /\ ~Leave(f))
    <2>1. pc[f] # "idle" /\ on'[f] = on[f] /\ done'[f] = done[f] /\ pc'[f] \notin StepPoints
        BY <1>1, <1>4 DEF Admit, RollbackStarts, RolledBack, Finish, Finalize, Abort, Started,
           Go, StepPoints, locals
    <2> QED
        BY <2>1, FlowBegunStays
<1>5. CASE Read(f) \/ Publish(f) \/ Respond(f) \/ StepFails(f) \/ RefusalUnreported(f)
           \/ TimesOut(f)
    <2>1. pc[f] \in StepPoints /\ on'[f] = on[f] /\ done'[f] = done[f] /\ at'[f] = at[f]
        BY <1>1, <1>5 DEF Read, Publish, Respond, StepFails, RefusalUnreported, TimesOut,
           FailStep, Go, StepPoints, locals
    <2>2. pc[f] # "idle"
        BY <2>1 DEF StepPoints
    <2> QED
        BY <2>1, <2>2, FlowBegunStays
<1>6. CASE BeginStep(f)
    <2> DEFINE e == on[f]
               r == execs[e]
    <2>1. PICK i \in ToRun(r, at[f]) :
              /\ at' = [at EXCEPT ![f] = i]
              /\ Save(e, WithStep(r, i, [r.steps[i] EXCEPT
                     !.status = "EXECUTING", !.attempts = @ + 1]))
        BY <1>6 DEF BeginStep
    <2>2. /\ pc[f] # "idle" /\ on'[f] = e /\ done'[f] = done[f] /\ pc' = [pc EXCEPT ![f] = "read"]
        BY <1>6 DEF BeginStep, Go
    <2>3. /\ e \in Execs /\ Exists(e) /\ r \in ExecRec
          /\ \A k \in DOMAIN done[f] : Begun(e, done[f][k])
        BY <2>2, AtStep DEF TypeInv, BegunInv
    <2>4. i \in DOMAIN r.steps /\ r.steps[i] \in StepRec
        BY <2>1, <2>3, RecFields DEF ToRun
    <2> DEFINE s == [r.steps[i] EXCEPT !.status = "EXECUTING", !.attempts = @ + 1]
    <2>5. s \in StepRec /\ s.status = "EXECUTING"
        BY <2>4, StartedStep
    <2> HIDE DEF s
    <2>6. /\ WithStep(r, i, s) \in ExecRec /\ i \in DOMAIN WithStep(r, i, s).steps
          /\ WithStep(r, i, s).steps[i].status = "EXECUTING"
        BY <2>3, <2>4, <2>5, NewStep
    <2>7. execs'[e] = WithStep(r, i, s)
        BY <2>1, <2>3 DEF Save, TypeInv, TypeOK, s
    <2>8. execs'[e] # NoExec /\ at'[f] = i
        BY <1>1, <2>1, <2>6, <2>7, RecFields
    <2>9. \A k \in DOMAIN done[f] :
              /\ done[f][k] \in DOMAIN execs'[e].steps
              /\ execs'[e].steps[done[f][k]].status \notin {"PENDING", "CANCELLED"}
        BY <2>3, BegunStays DEF Begun
    <2> HIDE DEF e, r
    <2> QED
        BY <2>2, <2>3, <2>6, <2>7, <2>8, <2>9 DEF FlowBegun, Begun, Exists
<1>7. CASE StepDone(f)
    <2>1. /\ pc[f] = "diff" /\ on' = on /\ done' = [done EXCEPT ![f] = Append(@, at[f])]
          /\ pc' = [pc EXCEPT ![f] = "next"] /\ execs' = execs
        BY <1>7 DEF StepDone, Go
    <2>2. /\ on[f] \in Execs /\ Exists(on[f]) /\ Begun(on[f], at[f])
          /\ \A k \in DOMAIN done[f] : Begun(on[f], done[f][k])
        BY <2>1 DEF TypeInv, BegunInv, StepPoints
    <2>3. done'[f] = Append(done[f], at[f]) /\ done[f] \in Seq(Nat) /\ at[f] \in Nat
        BY <1>1, <2>1
    <2>4. \A k \in DOMAIN done'[f] : done'[f][k] = at[f] \/ (k \in DOMAIN done[f] /\ done'[f][k] = done[f][k])
        BY <2>3
    <2>5. \A k \in DOMAIN done'[f] : Begun(on[f], done'[f][k])
        BY <2>2, <2>4
    <2> QED
        BY <1>1, <2>1, <2>2, <2>5 DEF FlowBegun, Begun, Exists, StepPoints
<1>8. CASE Restore(f) \/ RestoreFails(f)
    <2>1. /\ pc[f] = "restore" /\ on' = on /\ done' = [done EXCEPT ![f] = RestLast(done[f])]
          /\ pc' = pc \/ pc' = [pc EXCEPT ![f] = "release"]
          /\ done[f] # <<>>
        BY <1>8 DEF Restore, RestoreFails, Go
    <2>2. /\ on[f] \in Execs /\ Exists(on[f])
          /\ \A k \in DOMAIN done[f] : Begun(on[f], done[f][k])
        BY <2>1 DEF TypeInv, BegunInv
    <2>3. done'[f] = RestLast(done[f]) /\ done[f] \in Seq(Nat)
        BY <1>1, <2>1
    <2>4. \A k \in DOMAIN done'[f] : k \in DOMAIN done[f] /\ done'[f][k] = done[f][k]
        BY <2>1, <2>3 DEF RestLast
    <2>5. PICK e \in Execs : e = on[f]
        BY <2>2
    <2>6. Exists(e)'
        BY <2>2, <2>5, ExistsStays
    <2>7. \A k \in DOMAIN done'[f] :
              /\ done'[f][k] \in DOMAIN execs'[e].steps
              /\ execs'[e].steps[done'[f][k]].status \notin {"PENDING", "CANCELLED"}
        BY <2>2, <2>4, <2>5, BegunStays DEF Begun
    <2>8. pc'[f] \notin StepPoints /\ on'[f] = e
        BY <1>1, <2>1, <2>5 DEF StepPoints
    <2> QED
        BY <2>6, <2>7, <2>8 DEF FlowBegun, Begun, Exists
<1> QED
    BY <1>3, <1>4, <1>5, <1>6, <1>7, <1>8 DEF Advance, Reject, StoreLocked, Release

\* A call that begins finds its execution stored, and has done nothing yet.
LEMMA BeginBegun ==
    ASSUME TypeInv, NEW f \in Flows, NEW e \in Execs, BeginRun(f, e), Exists(e)'
    PROVE  FlowBegun(f)'
<1>1. /\ pc \in [Flows -> Points] /\ on \in [Flows -> Execs \cup {NoOwner}]
      /\ done \in [Flows -> Seq(Nat)]
    BY DEF TypeInv, TypeOK
<1>2. pc'[f] = "admit" /\ on'[f] = e /\ done'[f] = <<>>
    BY <1>1 DEF BeginRun, Go
<1> QED
    BY <1>2 DEF FlowBegun, Exists, StepPoints

\* The flows that are not the one that acts.
LEMMA OthersStay ==
    ASSUME TypeOK, NEW f \in Flows, NEW g \in Flows \ {f},
           Advance(f) \/ \E e \in Execs : BeginRun(f, e)
    PROVE  /\ pc'[g] = pc[g] /\ on'[g] = on[g] /\ at'[g] = at[g] /\ done'[g] = done[g]
           /\ seen'[g] = seen[g] /\ state'[g] = state[g]
<1>1. /\ pc \in [Flows -> Points] /\ on \in [Flows -> Execs \cup {NoOwner}]
      /\ at \in [Flows -> Nat] /\ done \in [Flows -> Seq(Nat)]
      /\ seen \in [Flows -> SUBSET Execs] /\ state \in [Flows -> Values \cup {"none"}]
    BY DEF TypeOK
<1>2. CASE Leave(f) \/ \E e \in Execs : BeginRun(f, e)
    BY <1>1, <1>2 DEF Leave, BeginRun, Go
<1>3. CASE \/ Admit(f) \/ (Started(f) /\ ~Leave(f)) \/ BeginStep(f) \/ Read(f) \/ Publish(f)
           \/ Respond(f) \/ StepDone(f)
    BY <1>1, <1>3 DEF Admit, Started, BeginStep, Read, Publish, Respond, StepDone, Go, locals
<1>4. CASE \/ StepFails(f) \/ RefusalUnreported(f) \/ TimesOut(f) \/ RollbackStarts(f)
           \/ RolledBack(f) \/ Finish(f) \/ Finalize(f) \/ Abort(f)
    BY <1>1, <1>4 DEF StepFails, RefusalUnreported, TimesOut, FailStep, RollbackStarts,
       RolledBack, Finish, Finalize, Abort, Go, locals
<1>5. CASE Restore(f) \/ RestoreFails(f)
    BY <1>1, <1>5 DEF Restore, RestoreFails, Go
<1> QED
    BY <1>2, <1>3, <1>4, <1>5 DEF Advance, Reject, StoreLocked, Release

LEMMA FlowsStayBegun ==
    ASSUME TypeInv, [Next]_vars, NEW g \in Flows
    PROVE  FlowBegun(g)'
<1>1. CASE pc'[g] = pc[g] /\ on'[g] = on[g] /\ at'[g] = at[g] /\ done'[g] = done[g]
    <2>1. CASE pc[g] = "idle"
        BY <1>1, <2>1 DEF FlowBegun
    <2> QED
        BY <1>1, <2>1, FlowBegunStays
<1>2. CASE UNCHANGED <<pc, locals>>
    BY <1>1, <1>2 DEF locals
<1>3. ASSUME NEW f \in Flows, Advance(f)
      PROVE  FlowBegun(g)'
    BY <1>1, <1>3, AdvanceBegun, OthersStay DEF TypeInv
<1>4. ASSUME NEW e \in Execs, NEW f \in Flows, Execute(e, f) \/ Resume(e, f)
      PROVE  FlowBegun(g)'
    <2>1. CASE BeginRun(f, e)
        <3>1. Exists(e)'
            <4>1. CASE Exists(e)
                BY <4>1, ExistsStays
            <4>2. CASE Execute(e, f) /\ ~Exists(e)
                <5>1. Planned(Requests[e]) \in ExecRec
                    BY PlannedType
                <5>2. [Planned(Requests[e]) EXCEPT !.status = "QUEUED"] \in ExecRec
                    BY <5>1, NewStatus DEF Statuses
                <5>3. PICK r \in ExecRec : Save(e, r)
                    BY <5>1, <5>2, <4>2 DEF Execute
                <5> QED
                    BY <5>3, RecFields DEF Save, Exists, TypeInv, TypeOK
            <4> QED
                BY <1>4, <4>1, <4>2 DEF Resume
        <3> QED
            BY <1>1, <2>1, <3>1, BeginBegun, OthersStay DEF TypeInv
    <2> QED
        BY <1>2, <1>4, <2>1 DEF Execute, Resume
<1>5. CASE Call
    BY <1>2, <1>4, <1>5 DEF Call, Cancel, Approve, EmergencyStop, ResumeFromStop
<1>6. CASE UNCHANGED vars \/ \E w \in late : LateWrite(w)
    BY <1>2, <1>6 DEF vars, locals, LateWrite
<1> QED
    BY <1>3, <1>5, <1>6 DEF Next

\* What reaches the shop, or may still do, is a step that was begun.
LEMMA WritesOfBegun ==
    ASSUME TypeInv, [Next]_vars, NEW e \in Execs, NEW i \in Nat,
           <<e, i>> \in written' \cup late'
    PROVE  Begun(e, i)
<1>1. CASE <<e, i>> \in written \cup late
    BY <1>1 DEF TypeInv, BegunInv
<1>2. CASE UNCHANGED shop
    BY <1>1, <1>2 DEF shop
<1>3. CASE Call
    BY <1>2, <1>3 DEF Call, Execute, Resume, Cancel, Approve, EmergencyStop, ResumeFromStop
<1>4. CASE \E w \in late : LateWrite(w)
    BY <1>1, <1>4 DEF LateWrite
<1>5. ASSUME NEW f \in Flows, Advance(f)
      PROVE  Begun(e, i)
    <2>1. CASE Publish(f) \/ TimesOut(f)
        <3>1. Begun(on[f], at[f])
            BY <2>1 DEF Publish, TimesOut, StepPoints, TypeInv, BegunInv
        <3> QED
            BY <1>1, <2>1, <3>1 DEF Publish, TimesOut, Shop
    <2>2. CASE Restore(f) \/ RestoreFails(f)
        <3>1. done[f] \in Seq(Nat) /\ done[f] # <<>> /\ pc[f] # "idle"
            BY <2>2 DEF TypeInv, TypeOK, Restore, RestoreFails
        <3>2. Begun(on[f], done[f][Len(done[f])])
            <4>1. Len(done[f]) \in DOMAIN done[f]
                BY <3>1
            <4> QED
                BY <3>1, <4>1 DEF TypeInv, BegunInv
        <3> QED
            BY <1>1, <2>2, <3>2 DEF Restore, RestoreFails, Shop
    <2>3. CASE \/ Reject(f) \/ StoreLocked(f) \/ Admit(f) \/ Started(f) \/ BeginStep(f)
               \/ Read(f) \/ Respond(f) \/ StepDone(f) \/ StepFails(f) \/ RefusalUnreported(f)
        BY <1>2, <2>3 DEF Reject, StoreLocked, Admit, Started, BeginStep, Read, Respond,
           StepDone, StepFails, RefusalUnreported
    <2>4. CASE \/ RollbackStarts(f) \/ RolledBack(f) \/ Finish(f) \/ Finalize(f) \/ Abort(f)
               \/ Release(f)
        BY <1>2, <2>4 DEF RollbackStarts, RolledBack, Finish, Finalize, Abort, Release
    <2> QED
        BY <1>5, <2>1, <2>2, <2>3, <2>4 DEF Advance
<1> QED
    BY <1>2, <1>3, <1>4, <1>5 DEF Next, vars, shop

LEMMA TypeInvInit ==
    ASSUME Init
    PROVE  TypeInv
<1>1. joined \in BOOLEAN
    BY Zenon DEF Init
<1> QED
    BY <1>1, ConfigAssumption DEF Init, TypeInv, TypeOK, BegunInv, Points, Values, StepPoints

LEMMA TypeInvStays ==
    ASSUME TypeInv, [Next]_vars
    PROVE  TypeInv'
<1>1. TypeOK'
    BY TypeStays
<1>2. \A f \in Flows : FlowBegun(f)'
    BY FlowsStayBegun
<1>3. \A e \in Execs, i \in Nat : <<e, i>> \in written' \cup late' => Begun(e, i)'
    BY WritesOfBegun, BegunStays
<1>4. BegunInv'
    BY <1>2, <1>3 DEF FlowBegun, BegunInv, StepPoints
<1> QED
    BY <1>1, <1>4 DEF TypeInv

LEMMA TypeInvHolds == Spec => []TypeInv
<1> QED
    BY TypeInvInit, TypeInvStays, PTL DEF Spec

\* The engine is type correct: a step a run is at, a step it has to restore
\* and a step whose write is in flight are steps of a stored execution.
THEOREM TypeCorrect == Spec => []TypeOK
<1>1. TypeInv => TypeOK
    BY DEF TypeInv
<1> QED
    BY <1>1, TypeInvHolds, PTL

-----------------------------------------------------------------------------
\* A cancelled step is never run nor written, whatever calls and failures
\* come together: CancelRest spares the steps that were begun, no run begins
\* a cancelled one, and only a step that was begun is written.
THEOREM CancelledStepsStayUnwritten == Spec => CancelledNeverWritten
<1>1. ASSUME TypeInv, [Next]_vars, NEW e \in Execs, Exists(e),
             NEW i \in DOMAIN execs[e].steps, execs[e].steps[i].status = "CANCELLED"
      PROVE  /\ execs'[e].steps[i].status = "CANCELLED"
             /\ <<e, i>> \notin written' \cup late'
    <2>1. execs'[e].steps[i].status = "CANCELLED"
        BY <1>1, ExistsStays DEF Grows
    <2>2. i \in Nat
        <3>1. execs[e].steps \in Seq(StepRec)
            BY <1>1, Stored, RecFields DEF TypeInv
        <3> QED
            BY <3>1
    <2>3. ~Begun(e, i)
        BY <1>1 DEF Begun
    <2> QED
        BY <1>1, <2>1, <2>2, <2>3, WritesOfBegun
<1>2. ASSUME TypeInv, [Next]_vars
      PROVE  [\A e \in Execs : Exists(e) =>
                 \A i \in DOMAIN execs[e].steps :
                     execs[e].steps[i].status = "CANCELLED" =>
                         /\ execs'[e].steps[i].status = "CANCELLED"
                         /\ <<e, i>> \notin written' \cup late']_vars
    BY <1>1, <1>2
<1> QED
    BY <1>2, TypeInvHolds, PTL DEF Spec, CancelledNeverWritten

-----------------------------------------------------------------------------
(* Locks. *)

\* StoreExclusion alone is not inductive: it says nothing of the lock a third
\* flow consults.  A run in a real mode holds the lock of its store.
LockInv ==
    /\ \A f \in Flows :
           pc[f] \in InRun /\ execs[on[f]].real => lock[execs[on[f]].store] = on[f]
    /\ StoreExclusion

\* The converse: the owner of a lock is in a run in a real mode.
HeldInv ==
    \A s \in Stores : lock[s] # NoOwner =>
        /\ Exists(lock[s]) /\ execs[lock[s]].store = s /\ execs[lock[s]].real
        /\ InFlight(lock[s])

\* Store and mode of what is stored never change.
LEMMA SameStore ==
    ASSUME TypeInv, [Next]_vars, NEW e \in Execs, Exists(e)
    PROVE  /\ execs'[e] # NoExec /\ execs'[e].store = execs[e].store
           /\ execs'[e].real = execs[e].real
           /\ execs[e].store \in Stores
  BY ExistsStays, Stored, RecFields DEF Grows, Exists, TypeInv

\* An action that neither admits a run nor ends one.
Quiet ==
    /\ lock' = lock
    /\ \A f \in Flows : (pc'[f] \in InRun) <=> (pc[f] \in InRun)
    /\ \A f \in Flows : pc[f] \in InRun => on'[f] = on[f]

\* An action that admits nobody.
Calm ==
    /\ lock' = lock
    /\ \A f \in Flows : pc'[f] \in InRun => pc[f] \in InRun /\ on'[f] = on[f]

LEMMA QuietSteps ==
    ASSUME TypeInv, [Next]_vars,
           ~\E f \in Flows : Admit(f) \/ Release(f) \/ (Started(f) /\ Leave(f))
    PROVE  Quiet
<1>1. pc \in [Flows -> Points] /\ on \in [Flows -> Execs \cup {NoOwner}]
    BY DEF TypeInv, TypeOK
<1>2. CASE UNCHANGED <<pc, locals, lock>>
    BY <1>2 DEF Quiet, locals
<1>3. ASSUME NEW e \in Execs, NEW f \in Flows, Execute(e, f) \/ Resume(e, f)
      PROVE  Quiet
    <2>1. CASE BeginRun(f, e)
        <3>1. pc[f] = "idle" /\ pc' = [pc EXCEPT ![f] = "admit"] /\ on' = [on EXCEPT ![f] = e]
            BY <2>1 DEF BeginRun, Go
        <3> QED
            BY <1>1, <1>3, <3>1 DEF Execute, Resume, Quiet, InRun
    <2> QED
        BY <1>2, <1>3, <2>1 DEF Execute, Resume
<1>4. CASE Call
    BY <1>2, <1>3, <1>4 DEF Call, Cancel, Approve, EmergencyStop, ResumeFromStop
<1>5. ASSUME NEW f \in Flows, Advance(f)
      PROVE  Quiet
    <2>1. CASE Reject(f) \/ StoreLocked(f)
        <3>1. pc[f] = "admit" /\ pc' = [pc EXCEPT ![f] = "idle"] /\ lock' = lock
              /\ \A g \in Flows \ {f} : on'[g] = on[g]
            BY <1>1, <2>1 DEF Reject, StoreLocked, Leave, Go
        <3> QED
            BY <1>1, <3>1 DEF Quiet, InRun
    <2>2. CASE \/ Started(f) /\ ~Leave(f)
               \/ BeginStep(f) \/ Read(f) \/ Publish(f) \/ Respond(f) \/ StepDone(f)
               \/ StepFails(f) \/ RefusalUnreported(f) \/ TimesOut(f) \/ RollbackStarts(f)
               \/ Restore(f) \/ RestoreFails(f) \/ RolledBack(f) \/ Finish(f)
               \/ Finalize(f) \/ Abort(f)
        <3>1. /\ pc[f] \in InRun /\ lock' = lock /\ on' = on
              /\ pc' = pc \/ \E p \in InRun : pc' = [pc EXCEPT ![f] = p]
            <4>1. CASE \/ Started(f) /\ ~Leave(f)
                       \/ BeginStep(f) \/ Read(f) \/ Publish(f) \/ Respond(f) \/ StepDone(f)
                BY <4>1 DEF Started, BeginStep, Read, Publish, Respond, StepDone,
                   locals, Go, InRun, Points
            <4>2. CASE \/ StepFails(f) \/ RefusalUnreported(f) \/ TimesOut(f) \/ RollbackStarts(f)
                BY <4>2 DEF StepFails, RefusalUnreported, TimesOut, FailStep, RollbackStarts,
                   locals, Go, InRun, Points
            <4>3. CASE \/ Restore(f) \/ RestoreFails(f) \/ RolledBack(f) \/ Finish(f)
                       \/ Finalize(f) \/ Abort(f)
                BY <4>3 DEF Restore, RestoreFails, RolledBack, Finish, Finalize, Abort,
                   locals, Go, InRun, Points
            <4> QED
                BY <2>2, <4>1, <4>2, <4>3
        <3> QED
            BY <1>1, <3>1 DEF Quiet
    <2> QED
        BY <1>5, <2>1, <2>2 DEF Advance
<1>6. CASE UNCHANGED vars \/ \E w \in late : LateWrite(w)
    BY <1>2, <1>6 DEF vars, locals, LateWrite
<1> QED
    BY <1>4, <1>5, <1>6 DEF Next

\* In a run the execution of a flow is stored, and so is its record's store.
LEMMA InRunStored ==
    ASSUME TypeInv, NEW f \in Flows, pc[f] \in InRun
    PROVE  on[f] \in Execs /\ Exists(on[f]) /\ execs[on[f]] \in ExecRec
           /\ execs[on[f]].store \in Stores /\ on[f] # NoOwner
<1>1. pc[f] # "idle"
    BY DEF InRun
<1> QED
    BY <1>1, AtStep, RecFields, NullAssumption

LEMMA CalmKeepsLocks ==
    ASSUME TypeInv, LockInv, [Next]_vars, Calm
    PROVE  LockInv'
<1>1. ASSUME NEW f \in Flows, pc'[f] \in InRun
      PROVE  /\ pc[f] \in InRun /\ on'[f] = on[f]
             /\ execs'[on'[f]].store = execs[on[f]].store
             /\ execs'[on'[f]].real = execs[on[f]].real
    BY <1>1, InRunStored, SameStore DEF Calm
<1> QED
    BY <1>1 DEF LockInv, StoreExclusion, Calm

LEMMA AdmitKeepsLocks ==
    ASSUME TypeInv, LockInv, [Next]_vars, NEW f \in Flows, Admit(f)
    PROVE  LockInv'
<1> DEFINE e == on[f]
           s == execs[on[f]].store
<1>1. /\ pc \in [Flows -> Points] /\ lock \in [Stores -> Execs \cup {NoOwner}]
    BY DEF TypeInv, TypeOK
<1>2. /\ e \in Execs /\ Exists(e) /\ s \in Stores /\ e # NoOwner
    BY AtStep, RecFields, NullAssumption DEF Admit
<1>3. /\ on' = on /\ pc' = [pc EXCEPT ![f] = "started"]
      /\ execs[e].real => lock[s] = NoOwner /\ lock' = [lock EXCEPT ![s] = e]
      /\ ~execs[e].real => lock' = lock
    BY DEF Admit, Go
<1>4. ASSUME NEW g \in Flows, g # f, pc'[g] \in InRun, execs'[on[g]].real
      PROVE  /\ pc[g] \in InRun /\ on[g] \in Execs /\ on[g] # NoOwner
             /\ execs'[on[g]].store = execs[on[g]].store /\ execs[on[g]].store \in Stores
             /\ lock[execs[on[g]].store] = on[g]
    <2>1. pc[g] \in InRun
        BY <1>1, <1>3, <1>4
    <2>2. on[g] \in Execs /\ Exists(on[g]) /\ execs[on[g]].store \in Stores /\ on[g] # NoOwner
        BY <2>1, InRunStored
    <2>3. execs'[on[g]].store = execs[on[g]].store /\ execs'[on[g]].real = execs[on[g]].real
        BY <2>2, SameStore
    <2> QED
        BY <1>4, <2>1, <2>2, <2>3 DEF LockInv
<1>5. execs'[e].store = s /\ execs'[e].real = execs[e].real
    BY <1>2, SameStore
<1>6. \A g \in Flows : pc'[g] \in InRun /\ execs'[on'[g]].real
                       => lock'[execs'[on'[g]].store] = on'[g]
    <2> SUFFICES ASSUME NEW g \in Flows, pc'[g] \in InRun, execs'[on'[g]].real
                 PROVE  lock'[execs'[on'[g]].store] = on'[g]
        OBVIOUS
    <2>1. CASE g = f
        BY <1>1, <1>2, <1>3, <1>5, <2>1
    <2>2. CASE g # f
        BY <1>1, <1>3, <1>4, <2>2
    <2> QED
        BY <2>1, <2>2
<1>7. \A g, h \in Flows :
          g # h /\ pc'[g] \in InRun /\ pc'[h] \in InRun
              /\ execs'[on'[g]].real /\ execs'[on'[h]].real
          => execs'[on'[g]].store # execs'[on'[h]].store
    <2> SUFFICES ASSUME NEW g \in Flows, NEW h \in Flows, g # h,
                        pc'[g] \in InRun, pc'[h] \in InRun,
                        execs'[on[g]].real, execs'[on[h]].real
                 PROVE  execs'[on[g]].store # execs'[on[h]].store
        BY <1>3
    <2>1. CASE g # f /\ h # f
        <3>1. /\ pc[g] \in InRun /\ pc[h] \in InRun
              /\ on[g] \in Execs /\ on[h] \in Execs
            BY <1>4, <2>1
        <3>2. execs[on[g]].real /\ execs[on[h]].real
            BY <3>1, InRunStored, SameStore
        <3> QED
            BY <1>4, <2>1, <3>1, <3>2 DEF LockInv, StoreExclusion
    <2>2. CASE g = f /\ h # f
        BY <1>3, <1>4, <1>5, <2>2
    <2>3. CASE h = f /\ g # f
        BY <1>3, <1>4, <1>5, <2>3
    <2> QED
        BY <2>1, <2>2, <2>3
<1> QED
    BY <1>6, <1>7 DEF LockInv, StoreExclusion

LEMMA ReleaseKeepsLocks ==
    ASSUME TypeInv, LockInv, [Next]_vars, NEW f \in Flows, Release(f)
    PROVE  LockInv'
<1> DEFINE s == execs[on[f]].store
<1>1. /\ pc \in [Flows -> Points] /\ lock \in [Stores -> Execs \cup {NoOwner}]
      /\ on \in [Flows -> Execs \cup {NoOwner}]
    BY DEF TypeInv, TypeOK
<1>2. pc[f] \in InRun
    BY DEF Release, InRun, Points
<1>3. /\ execs' = execs /\ pc' = [pc EXCEPT ![f] = "idle"]
      /\ on' = [on EXCEPT ![f] = NoOwner]
      /\ lock' = lock \/ (execs[on[f]].real /\ lock' = [lock EXCEPT ![s] = NoOwner])
    BY DEF Release, Leave, Go
<1>4. ASSUME NEW g \in Flows, pc'[g] \in InRun
      PROVE  g # f /\ pc[g] \in InRun /\ on'[g] = on[g]
    BY <1>1, <1>3, <1>4 DEF InRun
<1>5. \A g \in Flows : pc'[g] \in InRun /\ execs[on[g]].real
                       => lock'[execs[on[g]].store] = lock[execs[on[g]].store]
    BY <1>1, <1>2, <1>3, <1>4, InRunStored DEF LockInv, StoreExclusion
<1> QED
    BY <1>3, <1>4, <1>5 DEF LockInv, StoreExclusion

LEMMA LockInvHolds == Spec => []LockInv
<1>1. Init => LockInv
    BY DEF Init, LockInv, StoreExclusion, InRun
<1>2. ASSUME TypeInv, LockInv, [Next]_vars
      PROVE  LockInv'
    <2>1. ASSUME NEW f \in Flows, Started(f), Leave(f)
          PROVE  LockInv'
        <3>1. /\ pc \in [Flows -> Points] /\ on \in [Flows -> Execs \cup {NoOwner}]
              /\ pc' = [pc EXCEPT ![f] = "idle"] /\ on' = [on EXCEPT ![f] = NoOwner]
              /\ lock' = lock
            BY <1>2, <2>1 DEF Started, Leave, Go, TypeInv, TypeOK
        <3>2. ASSUME NEW g \in Flows, pc'[g] \in InRun
              PROVE  pc[g] \in InRun /\ on'[g] = on[g]
            BY <3>1, <3>2 DEF InRun
        <3>3. Calm
            BY <3>1, <3>2 DEF Calm
        <3> QED
            BY <1>2, <3>3, CalmKeepsLocks
    <2>2. CASE ~\E f \in Flows : Admit(f) \/ Release(f) \/ (Started(f) /\ Leave(f))
        <3>1. Calm
            BY <1>2, <2>2, QuietSteps DEF Quiet, Calm
        <3> QED
            BY <1>2, <3>1, CalmKeepsLocks
    <2> QED
        BY <1>2, <2>1, <2>2, AdmitKeepsLocks, ReleaseKeepsLocks
<1> QED
    BY <1>1, <1>2, TypeInvHolds, PTL DEF Spec

\* One writer per store: two runs in a real mode never alternate on a store,
\* whatever calls of execute and resume overlap, for any number of them.
THEOREM StoresExclude == Spec => []StoreExclusion
<1>1. LockInv => StoreExclusion
    BY DEF LockInv
<1> QED
    BY <1>1, LockInvHolds, PTL

LEMMA QuietKeepsHeld ==
    ASSUME TypeInv, HeldInv, [Next]_vars, Quiet
    PROVE  HeldInv'
<1> SUFFICES ASSUME NEW s \in Stores, lock'[s] # NoOwner
             PROVE  /\ Exists(lock[s])' /\ execs'[lock'[s]].store = s /\ execs'[lock'[s]].real
                    /\ InFlight(lock[s])'
    BY DEF HeldInv, Exists, InFlight, Running
<1>1. PICK e \in Execs : e = lock[s] /\ lock'[s] = e
    BY DEF Quiet, TypeInv, TypeOK
<1>2. Exists(e) /\ execs[e].store = s /\ execs[e].real /\ InFlight(e)
    BY <1>1 DEF HeldInv, Quiet
<1>3. PICK g \in Flows : pc'[g] \in InRun /\ on'[g] = e
    BY <1>2 DEF InFlight, Running, Quiet
<1> QED
    BY <1>1, <1>2, <1>3, SameStore DEF InFlight, Running, Exists

LEMMA AdmitKeepsHeld ==
    ASSUME TypeInv, HeldInv, [Next]_vars, NEW f \in Flows, Admit(f)
    PROVE  HeldInv'
<1>1. /\ pc \in [Flows -> Points] /\ lock \in [Stores -> Execs \cup {NoOwner}]
    BY DEF TypeInv, TypeOK
<1>2. /\ on[f] \in Execs /\ Exists(on[f])
      /\ execs'[on[f]] # NoExec /\ execs'[on[f]].store = execs[on[f]].store
      /\ execs'[on[f]].real = execs[on[f]].real
    BY AtStep, SameStore DEF Admit
<1>3. /\ pc[f] = "admit" /\ on' = on /\ pc' = [pc EXCEPT ![f] = "started"]
      /\ execs[on[f]].real => lock' = [lock EXCEPT ![execs[on[f]].store] = on[f]]
      /\ ~execs[on[f]].real => lock' = lock
    BY DEF Admit, Go
<1> SUFFICES ASSUME NEW s \in Stores, lock'[s] # NoOwner
             PROVE  /\ execs'[lock'[s]] # NoExec /\ execs'[lock'[s]].store = s
                    /\ execs'[lock'[s]].real
                    /\ \E g \in Flows : pc'[g] \in InRun /\ on'[g] = lock'[s]
    BY DEF HeldInv, Exists, InFlight, Running
<1>4. CASE execs[on[f]].real /\ s = execs[on[f]].store
    <2>1. lock'[s] = on[f]
        BY <1>1, <1>3, <1>4
    <2>2. pc'[f] \in InRun /\ on'[f] = on[f]
        BY <1>1, <1>3 DEF InRun, Points
    <2> QED
        BY <1>2, <1>4, <2>1, <2>2
<1>5. CASE ~(execs[on[f]].real /\ s = execs[on[f]].store)
    <2>1. PICK e \in Execs : e = lock[s] /\ lock'[s] = e
        BY <1>1, <1>3, <1>5
    <2>2. Exists(e) /\ execs[e].store = s /\ execs[e].real /\ InFlight(e)
        BY <2>1 DEF HeldInv
    <2>3. PICK g \in Flows : pc[g] \in InRun /\ on[g] = e
        BY <2>2 DEF InFlight, Running
    <2>4. pc'[g] \in InRun /\ on'[g] = e
        BY <1>1, <1>3, <2>3 DEF InRun
    <2> QED
        BY <2>1, <2>2, <2>4, SameStore
<1> QED
    BY <1>4, <1>5

LEMMA ReleaseKeepsHeld ==
    ASSUME TypeInv, HeldInv, [Next]_vars, NEW f \in Flows, Release(f)
    PROVE  HeldInv'
<1>1. /\ pc \in [Flows -> Points] /\ lock \in [Stores -> Execs \cup {NoOwner}]
      /\ on \in [Flows -> Execs \cup {NoOwner}]
    BY DEF TypeInv, TypeOK
<1>2. /\ on[f] \in Execs /\ execs[on[f]].store \in Stores
    BY AtStep, RecFields DEF Release
<1>3. /\ execs' = execs /\ pc' = [pc EXCEPT ![f] = "idle"]
      /\ on' = [on EXCEPT ![f] = NoOwner]
      /\ lock' = IF execs[on[f]].real /\ lock[execs[on[f]].store] = on[f]
                 THEN [lock EXCEPT ![execs[on[f]].store] = NoOwner] ELSE lock
    BY DEF Release, Leave, Go
<1> SUFFICES ASSUME NEW s \in Stores, lock'[s] # NoOwner
             PROVE  /\ execs'[lock'[s]] # NoExec /\ execs'[lock'[s]].store = s
                    /\ execs'[lock'[s]].real
                    /\ \E g \in Flows : pc'[g] \in InRun /\ on'[g] = lock'[s]
    BY DEF HeldInv, Exists, InFlight, Running
<1>4. lock'[s] = lock[s] /\ ~(execs[on[f]].real /\ s = execs[on[f]].store /\ lock[s] = on[f])
    BY <1>1, <1>2, <1>3
<1>5. /\ Exists(lock[s]) /\ execs[lock[s]].store = s /\ execs[lock[s]].real
      /\ InFlight(lock[s])
    BY <1>4 DEF HeldInv
<1>6. PICK g \in Flows : pc[g] \in InRun /\ on[g] = lock[s]
    BY <1>5 DEF InFlight, Running
<1>7. g # f
    BY <1>4, <1>5, <1>6
<1> QED
    BY <1>1, <1>3, <1>4, <1>5, <1>6, <1>7 DEF Exists

\* A store is locked only while its owner runs, if the sink does not reject
\* execution.started, which is emitted after the lock is taken and before the
\* try whose finally releases it.
THEOREM LocksHeldByRuns ==
    ASSUME "started" \notin Faults
    PROVE  Spec => []LockHeldByRun
<1>1. Init => HeldInv
    BY DEF Init, HeldInv
<1>2. ASSUME TypeInv, HeldInv, [Next]_vars
      PROVE  HeldInv'
    <2>1. \A f \in Flows : Started(f) => ~Leave(f)
        BY <1>2 DEF Started, Leave, Go, Points, TypeInv, TypeOK
    <2>2. CASE ~\E f \in Flows : Admit(f) \/ Release(f)
        BY <1>2, <2>1, <2>2, QuietSteps, QuietKeepsHeld
    <2> QED
        BY <1>2, <2>2, AdmitKeepsHeld, ReleaseKeepsHeld
<1>3. HeldInv => LockHeldByRun
    BY DEF HeldInv, LockHeldByRun
<1> QED
    BY <1>1, <1>2, <1>3, TypeInvHolds, PTL DEF Spec

-----------------------------------------------------------------------------
(* Whose turn it is. *)

\* The executions of a store, and what is asked of them: approved from the
\* start, and no stop called.
OfStore(s) == {e \in Execs : Exists(e) /\ execs[e].store = s}
Unhindered(s) ==
    /\ OfStore(s) # {} /\ stops = 0
    /\ \A e \in OfStore(s) : ~NeedsApproval(Planned(Requests[e]))

\* NotAllRejected is not inductive: it must hold of a store that is locked too,
\* where what answers for the others is the owner of the lock, which is in a
\* run and therefore, alone with its execution, not REJECTED.
TurnInv ==
    /\ \A f \in Flows : pc[f] = "idle" => on[f] = NoOwner
    /\ \A e \in Execs : Exists(e) =>
           /\ execs[e].store = Requests[e].store
           /\ ~NeedsApproval(Planned(Requests[e])) => ~NeedsApproval(execs[e])
    /\ stops = 0 => stopped = {}
    /\ \A f \in Flows : pc[f] = "admit" =>
           /\ on[f] \notin seen[f]
           /\ \A x \in seen[f] : Exists(x) /\ execs[x].store = execs[on[f]].store
    /\ ~joined =>
           /\ \A f, g \in Flows : f # g /\ on[f] = on[g] => on[f] = NoOwner
           /\ \A f \in Flows : pc[f] \in InRun => execs[on[f]].status # "REJECTED"
           /\ \A s \in Stores : Unhindered(s) /\ lock[s] = NoOwner =>
                  \E e \in OfStore(s) : execs[e].status # "REJECTED"

LEMMA StatusKept ==
    ASSUME NEW r \in ExecRec
    PROVE  /\ CancelRest(r).status = r.status /\ CancelRest(r).store = r.store
           /\ CancelRest(r).real = r.real
           /\ \A i, s : /\ WithStep(r, i, s).status = r.status
                        /\ WithStep(r, i, s).store = r.store
                        /\ WithStep(r, i, s).real = r.real
  BY DEF ExecRec, CancelRest, WithStep

\* No action but Reject makes an execution REJECTED.
LEMMA RejectedByReject ==
    ASSUME TypeInv, [Next]_vars, NEW e \in Execs, Exists(e)',
           execs'[e].status = "REJECTED", ~\E f \in Flows : Reject(f) /\ on[f] = e
    PROVE  Exists(e) /\ execs[e].status = "REJECTED"
<1> DEFINE Kept == Exists(e) /\ execs[e].status = "REJECTED"
<1>1. execs \in [Execs -> ExecRec \cup {NoExec}]
    BY DEF TypeInv, TypeOK
<1>2. CASE execs'[e] = execs[e]
    BY <1>2 DEF Exists
\* An action that saves a record whose status is new, or kept, or not REJECTED.
<1>3. ASSUME NEW x \in Execs, NEW q, Save(x, q),
             \/ q.status # "REJECTED"
             \/ Exists(x) /\ q.status = execs[x].status
      PROVE  Kept
    BY <1>1, <1>2, <1>3 DEF Save, Exists
<1>4. ASSUME NEW x \in Execs, NEW f \in Flows, Execute(x, f)
      PROVE  Kept
    <2>1. Planned(Requests[x]) \in ExecRec
        BY PlannedType
    <2>2. Planned(Requests[x]).status = "PENDING"
        BY DEF Planned
    <2>3. [Planned(Requests[x]) EXCEPT !.status = "QUEUED"].status = "QUEUED"
        BY <2>1 DEF ExecRec
    <2>4. \E q : Save(x, q) /\ q.status # "REJECTED"
        BY <1>4, <2>2, <2>3 DEF Execute
    <2> QED
        BY <1>3, <2>4
<1>5. ASSUME NEW x \in Execs,
             Cancel(x) \/ \E i \in DOMAIN Requests[x].tasks : Approve(x, i)
      PROVE  Kept
    <2>1. Exists(x) /\ execs[x] \in ExecRec
        BY <1>5, Stored DEF Cancel, Approve, TypeInv
    <2>2. [CancelRest(execs[x]) EXCEPT !.status = "CANCELLED"].status = "CANCELLED"
        BY <2>1, CancelGrows DEF ExecRec
    <2>3. \E q : Save(x, q) /\ (q.status # "REJECTED" \/ q.status = execs[x].status)
        <3>1. CASE Cancel(x)
            BY <2>2, <3>1 DEF Cancel
        <3>2. ASSUME NEW i, Approve(x, i)
              PROVE  \E s : Save(x, WithStep(execs[x], i, s))
            BY <3>2 DEF Approve
        <3> QED
            BY <1>5, <2>1, <3>1, <3>2, StatusKept
    <2> HIDE DEF Kept
    <2> QED
        BY <1>3, <2>1, <2>3
<1>6. CASE Call
    BY <1>2, <1>4, <1>5, <1>6 DEF Call, Resume, EmergencyStop, ResumeFromStop
<1>7. CASE UNCHANGED vars \/ \E w \in late : LateWrite(w)
    BY <1>2, <1>7 DEF vars, LateWrite
<1>8. ASSUME NEW f \in Flows, Advance(f)
      PROVE  Kept
    <2>1. CASE Reject(f)
        <3>1. on[f] # e /\ on[f] \in Execs
            BY <2>1, AtStep DEF Reject
        <3> QED
            BY <1>1, <1>2, <2>1, <3>1 DEF Reject, Save
    <2>2. CASE \/ StoreLocked(f) \/ Started(f) \/ Read(f) \/ Publish(f) \/ StepDone(f)
               \/ RollbackStarts(f) \/ Finalize(f) \/ Release(f)
        BY <1>2, <2>2 DEF StoreLocked, Started, Read, Publish, StepDone, RollbackStarts,
           Finalize, Release
    <2>3. ASSUME pc[f] # "idle",
                 \/ \E r, i, s : r = execs[on[f]] /\ Save(on[f], WithStep(r, i, s))
                 \/ \E q, st : q \in ExecRec /\ st # "REJECTED"
                               /\ Save(on[f], [q EXCEPT !.status = st])
                 \/ UNCHANGED execs
          PROVE  Kept
        <3>1. on[f] \in Execs /\ Exists(on[f]) /\ execs[on[f]] \in ExecRec
            BY <2>3, AtStep
        <3>2. CASE UNCHANGED execs
            BY <1>2, <3>2
        <3>3. ASSUME NEW i, NEW s, Save(on[f], WithStep(execs[on[f]], i, s))
              PROVE  Kept
            <4>1. WithStep(execs[on[f]], i, s).status = execs[on[f]].status
                BY <3>1, StatusKept
            <4> QED
                BY <1>3, <3>1, <3>3, <4>1
        <3>4. ASSUME NEW q \in ExecRec, NEW st, st # "REJECTED",
                     Save(on[f], [q EXCEPT !.status = st])
              PROVE  Kept
            <4>1. [q EXCEPT !.status = st].status = st
                BY DEF ExecRec
            <4> HIDE DEF Kept
            <4> QED
                BY <1>3, <3>1, <3>4, <4>1
        <3> QED
            BY <2>3, <3>2, <3>3, <3>4
    <2>4. CASE Admit(f) \/ Abort(f) \/ BeginStep(f) \/ Respond(f)
        <3>1. pc[f] # "idle" /\ execs[on[f]] \in ExecRec
            BY <2>4, AtStep DEF Admit, Abort, BeginStep, Respond
        <3> QED
            BY <2>3, <2>4, <3>1 DEF Admit, Abort, BeginStep, Respond
    <2>5. CASE StepFails(f) \/ TimesOut(f) \/ RefusalUnreported(f)
        <3>1. pc[f] # "idle" /\ pc[f] \in StepPoints
            BY <2>5 DEF StepFails, TimesOut, RefusalUnreported, StepPoints
        <3>2. execs[on[f]] \in ExecRec /\ at[f] \in DOMAIN execs[on[f]].steps
              /\ execs[on[f]].steps[at[f]].status # "CANCELLED"
            BY <3>1, AtStep
        <3>3. WithStatus(execs[on[f]], at[f], "FAILED") \in ExecRec
            BY <3>2, NewStepStatus DEF StepStatuses
        <3>4. CancelRest(WithStatus(execs[on[f]], at[f], "FAILED")) \in ExecRec
            BY <3>3, CancelGrows
        <3>5. \/ \E i, s : Save(on[f], WithStep(execs[on[f]], i, s))
              \/ \E q \in ExecRec : Save(on[f], [q EXCEPT !.status = "FAILED"])
            <4>1. WithStatus(execs[on[f]], at[f], "FAILED")
                  = WithStep(execs[on[f]], at[f], [execs[on[f]].steps[at[f]] EXCEPT !.status = "FAILED"])
                BY DEF WithStatus
            <4> QED
                BY <2>5, <3>3, <3>4, <4>1 DEF StepFails, TimesOut, RefusalUnreported, FailStep
        <3> QED
            BY <2>3, <3>1, <3>5
    <2>6. CASE Restore(f) \/ RestoreFails(f)
        <3> DEFINE i == done[f][Len(done[f])]
        <3>1. pc[f] # "idle" /\ done[f] # <<>>
            BY <2>6 DEF Restore, RestoreFails
        <3>2. execs[on[f]] \in ExecRec /\ i \in DOMAIN execs[on[f]].steps
              /\ execs[on[f]].steps[i].status # "CANCELLED"
            BY <3>1, AtStep, LastDone
        <3>3. WithStatus(execs[on[f]], i, "FAILED") \in ExecRec
            BY <3>2, NewStepStatus DEF StepStatuses
        <3>4. \E st : \/ Save(on[f], WithStatus(execs[on[f]], i, st))
                      \/ Save(on[f], [WithStatus(execs[on[f]], i, "FAILED")
                                         EXCEPT !.status = "FAILED"])
            BY <2>6 DEF Restore, RestoreFails
        <3> HIDE DEF i
        <3>5. \/ \E j, s : Save(on[f], WithStep(execs[on[f]], j, s))
              \/ \E q \in ExecRec : Save(on[f], [q EXCEPT !.status = "FAILED"])
            BY <3>3, <3>4 DEF WithStatus
        <3> QED
            BY <2>3, <3>1, <3>5
    <2>7. CASE RolledBack(f) \/ Finish(f)
        <3>1. pc[f] # "idle" /\ on[f] \in Execs /\ execs[on[f]] \in ExecRec /\ CancelRest(execs[on[f]]) \in ExecRec
            BY <2>7, AtStep, CancelGrows DEF RolledBack, Finish
        <3>2. [execs EXCEPT ![on[f]] = execs[on[f]]] = execs
            BY <1>1
        <3> QED
            BY <2>3, <2>7, <3>1, <3>2 DEF RolledBack, Finish, Save
    <2> QED
        BY <1>8, <2>1, <2>2, <2>4, <2>5, <2>6, <2>7 DEF Advance
<1> QED
    BY <1>6, <1>7, <1>8 DEF Next

\* A lock becomes free by the Release of its owner.
LEMMA FreedByRelease ==
    ASSUME TypeInv, [Next]_vars, NEW s \in Stores, lock[s] # NoOwner, lock'[s] = NoOwner
    PROVE  \E f \in Flows : Release(f) /\ lock[s] = on[f] /\ execs[on[f]].store = s
<1>1. lock \in [Stores -> Execs \cup {NoOwner}]
    BY DEF TypeInv, TypeOK
<1>2. PICK f \in Flows : Admit(f) \/ Release(f) \/ (Started(f) /\ Leave(f))
    BY QuietSteps DEF Quiet
<1>3. ~(Started(f) /\ Leave(f))
    BY DEF Started
<1>4. ASSUME Admit(f)
      PROVE  FALSE
    <2>1. on[f] \in Execs /\ on[f] # NoOwner
        BY <1>4, AtStep, NullAssumption DEF Admit
    <2> QED
        BY <1>1, <1>4, <2>1 DEF Admit
<1>5. Release(f)
    BY <1>2, <1>3, <1>4
<1> QED
    BY <1>1, <1>5 DEF Release

\* A bound is never taken back, and only emergencyStop stops a store.
LEMMA NoStopNoJoin ==
    ASSUME TypeInv, [Next]_vars
    PROVE  /\ joined => joined'
           /\ stops' = 0 => stops = 0 /\ (stopped = {} => stopped' = {})
<1>1. CASE UNCHANGED <<stopped, bounds>>
    BY <1>1 DEF bounds
<1>2. CASE Call
    <2>1. ASSUME NEW e \in Execs, NEW f \in Flows, Resume(e, f)
          PROVE  (joined => joined') /\ stops' = stops /\ stopped' = stopped
        BY <2>1, Zenon DEF Resume
    <2>2. ASSUME NEW where \in Stores \cup {Everywhere}, EmergencyStop(where)
          PROVE  joined' = joined /\ stops' # 0
        BY <2>2, ConfigAssumption DEF EmergencyStop, TypeInv, TypeOK
    <2>3. ASSUME NEW where \in Stores \cup {Everywhere}, ResumeFromStop(where)
          PROVE  joined' = joined /\ stops' = stops /\ (stopped = {} => stopped' = {})
        BY <2>3 DEF ResumeFromStop, bounds
    <2> QED
        BY <1>1, <1>2, <2>1, <2>2, <2>3 DEF Call, Execute, Cancel, Approve
<1>3. ASSUME NEW f \in Flows, Advance(f)
      PROVE  UNCHANGED <<stopped, bounds>>
    <2>1. CASE \/ Reject(f) \/ StoreLocked(f) \/ Admit(f) \/ Started(f) \/ BeginStep(f)
               \/ Read(f) \/ Publish(f) \/ Respond(f) \/ StepDone(f)
        BY <2>1 DEF Reject, StoreLocked, Admit, Started, BeginStep, Read, Publish,
           Respond, StepDone
    <2>2. CASE \/ StepFails(f) \/ RefusalUnreported(f) \/ TimesOut(f) \/ RollbackStarts(f)
               \/ Restore(f) \/ RestoreFails(f)
        BY <2>2 DEF StepFails, RefusalUnreported, TimesOut, FailStep, RollbackStarts,
           Restore, RestoreFails
    <2>3. CASE RolledBack(f) \/ Finish(f) \/ Finalize(f) \/ Abort(f) \/ Release(f)
        BY <2>3 DEF RolledBack, Finish, Finalize, Abort, Release
    <2> QED
        BY <1>3, <2>1, <2>2, <2>3 DEF Advance
<1> QED
    BY <1>1, <1>2, <1>3 DEF Next, LateWrite, vars

\* An execution is stored by execute, as it was planned.
LEMMA CreatedByExecute ==
    ASSUME TypeInv, [Next]_vars, NEW e \in Execs, ~Exists(e), Exists(e)'
    PROVE  \/ execs'[e] = Planned(Requests[e])
           \/ execs'[e] = [Planned(Requests[e]) EXCEPT !.status = "QUEUED"]
<1>1. execs \in [Execs -> ExecRec \cup {NoExec}]
    BY DEF TypeInv, TypeOK
<1>2. execs'[e] # execs[e]
    BY DEF Exists
<1>3. ASSUME NEW x \in Execs, Exists(x), NEW q, Save(x, q)
      PROVE  FALSE
    BY <1>1, <1>2, <1>3 DEF Save, Exists
<1>4. ~UNCHANGED execs
    BY <1>2
<1>5. ~\E f \in Flows : Advance(f)
    <2> SUFFICES ASSUME NEW f \in Flows, Advance(f)
                 PROVE  FALSE
        OBVIOUS
    <2>1. pc[f] # "idle" /\ (UNCHANGED execs \/ \E q : Save(on[f], q))
        <3>1. CASE \/ Reject(f) \/ StoreLocked(f) \/ Admit(f) \/ Started(f) \/ BeginStep(f)
                   \/ Read(f) \/ Publish(f) \/ Respond(f) \/ StepDone(f)
            BY <3>1 DEF Reject, StoreLocked, Admit, Started, BeginStep, Read, Publish,
               Respond, StepDone
        <3>2. CASE \/ StepFails(f) \/ RefusalUnreported(f) \/ TimesOut(f) \/ RollbackStarts(f)
                   \/ Restore(f) \/ RestoreFails(f)
            BY <3>2 DEF StepFails, RefusalUnreported, TimesOut, FailStep, RollbackStarts,
               Restore, RestoreFails
        <3>3. CASE RolledBack(f) \/ Finish(f) \/ Finalize(f) \/ Abort(f) \/ Release(f)
            BY <3>3 DEF RolledBack, Finish, Finalize, Abort, Release
        <3> QED
            BY <3>1, <3>2, <3>3 DEF Advance
    <2>2. on[f] \in Execs /\ Exists(on[f])
        BY <2>1, AtStep
    <2> QED
        BY <1>3, <1>4, <2>1, <2>2
<1>6. Call
    BY <1>4, <1>5 DEF Next, LateWrite, vars
<1>7. \E x \in Execs, f \in Flows : Execute(x, f)
    BY <1>3, <1>4, <1>6 DEF Call, Cancel, Approve, Resume, EmergencyStop, ResumeFromStop
<1> QED
    BY <1>1, <1>2, <1>7 DEF Execute, Save

\* What is stored of an execution, as long as it is stored.
LEMMA StoredTurns ==
    ASSUME TypeInv, TurnInv, [Next]_vars, NEW e \in Execs, Exists(e)'
    PROVE  /\ execs'[e].store = Requests[e].store
           /\ ~NeedsApproval(Planned(Requests[e])) => ~NeedsApproval(execs'[e])
<1>1. CASE Exists(e)
    <2>1. Grows(execs[e], execs'[e])
        BY <1>1, ExistsStays
    <2>2. /\ execs[e].store = Requests[e].store
          /\ ~NeedsApproval(Planned(Requests[e])) => ~NeedsApproval(execs[e])
        BY <1>1 DEF TurnInv
    <2>3. ~NeedsApproval(execs[e]) => ~NeedsApproval(execs'[e])
        BY <2>1 DEF Grows, NeedsApproval
    <2> QED
        BY <2>1, <2>2, <2>3 DEF Grows
<1>2. CASE ~Exists(e)
    <2> DEFINE r == Planned(Requests[e])
    <2>1. r \in ExecRec /\ r.store = Requests[e].store
        BY PlannedType DEF Planned
    <2> HIDE DEF r
    <2>2. /\ [r EXCEPT !.status = "QUEUED"].store = r.store
          /\ [r EXCEPT !.status = "QUEUED"].steps = r.steps
        BY <2>1 DEF ExecRec
    <2>3. execs'[e] = r \/ execs'[e] = [r EXCEPT !.status = "QUEUED"]
        BY <1>2, CreatedByExecute DEF r
    <2> QED
        BY <2>1, <2>2, <2>3 DEF NeedsApproval, r
<1> QED
    BY <1>1, <1>2

\* The actions, by what they do to the calls in progress.
LEMMA StepKinds ==
    ASSUME [Next]_vars
    PROVE  \/ UNCHANGED <<pc, locals>>
           \/ \E f \in Flows : Advance(f)
           \/ \E f \in Flows, e \in Execs : BeginRun(f, e) /\ (Execute(e, f) \/ Resume(e, f))
<1>1. CASE Call
    BY <1>1 DEF Call, Execute, Resume, Cancel, Approve, EmergencyStop, ResumeFromStop
<1> QED
    BY <1>1 DEF Next, LateWrite, vars, locals

\* A flow that acts leaves, is admitted, or goes on with its run.
LEMMA AdvanceKinds ==
    ASSUME TypeInv, NEW f \in Flows, Advance(f)
    PROVE  /\ pc[f] # "idle"
           /\ \/ pc'[f] = "idle" /\ on'[f] = NoOwner /\ seen'[f] = {}
              \/ pc[f] = "admit" /\ pc'[f] = "started" /\ on'[f] = on[f] /\ Admit(f)
              \/ pc[f] \in InRun /\ pc'[f] \in InRun /\ on'[f] = on[f]
<1>1. /\ pc \in [Flows -> Points] /\ on \in [Flows -> Execs \cup {NoOwner}]
      /\ seen \in [Flows -> SUBSET Execs]
    BY DEF TypeInv, TypeOK
<1>2. CASE Reject(f) \/ StoreLocked(f) \/ Release(f) \/ (Started(f) /\ Leave(f))
    <2>1. pc[f] # "idle" /\ Leave(f)
        BY <1>2 DEF Reject, StoreLocked, Release, Started
    <2> QED
        BY <1>1, <2>1 DEF Leave, Go
<1>3. CASE Admit(f)
    BY <1>1, <1>3 DEF Admit, Go
<1>4. CASE \/ Started(f) /\ ~Leave(f)
           \/ BeginStep(f) \/ Read(f) \/ Publish(f) \/ Respond(f) \/ StepDone(f)
    BY <1>1, <1>4 DEF Started, BeginStep, Read, Publish, Respond, StepDone, locals, Go,
       InRun, Points
<1>5. CASE StepFails(f) \/ RefusalUnreported(f) \/ TimesOut(f) \/ RollbackStarts(f)
    BY <1>1, <1>5 DEF StepFails, RefusalUnreported, TimesOut, FailStep, RollbackStarts,
       locals, Go, InRun, Points
<1>6. CASE Restore(f) \/ RestoreFails(f) \/ RolledBack(f) \/ Finish(f) \/ Finalize(f) \/ Abort(f)
    BY <1>1, <1>6 DEF Restore, RestoreFails, RolledBack, Finish, Finalize, Abort,
       locals, Go, InRun, Points
<1> QED
    BY <1>2, <1>3, <1>4, <1>5, <1>6 DEF Advance

\* What a call lists when it begins.
LEMMA BeginKinds ==
    ASSUME TypeInv, NEW f \in Flows, NEW e \in Execs, BeginRun(f, e)
    PROVE  /\ pc[f] = "idle" /\ pc'[f] = "admit" /\ on'[f] = e
           /\ seen'[f] = {x \in Execs \ {e} : IsActive(x) /\ execs[x].store = Requests[e].store}
  BY DEF BeginRun, Go, TypeInv, TypeOK

LEMMA IdleKept ==
    ASSUME TypeInv, TurnInv, [Next]_vars, NEW g \in Flows, pc'[g] = "idle"
    PROVE  on'[g] = NoOwner
<1>1. pc[g] = "idle" => on[g] = NoOwner
    BY DEF TurnInv
<1>2. CASE UNCHANGED <<pc, locals>>
    BY <1>1, <1>2 DEF locals
<1>3. ASSUME NEW f \in Flows, Advance(f)
      PROVE  on'[g] = NoOwner
    BY <1>1, <1>3, AdvanceKinds, OthersStay DEF TypeInv, InRun
<1>4. ASSUME NEW f \in Flows, NEW e \in Execs, BeginRun(f, e)
      PROVE  on'[g] = NoOwner
    BY <1>1, <1>4, BeginKinds, OthersStay DEF TypeInv
<1> QED
    BY <1>2, <1>3, <1>4, StepKinds

LEMMA SeenKept ==
    ASSUME TypeInv, TurnInv, [Next]_vars, NEW g \in Flows, pc'[g] = "admit"
    PROVE  /\ on'[g] \notin seen'[g]
           /\ \A x \in seen'[g] : Exists(x)' /\ execs'[x].store = execs'[on'[g]].store
<1>1. CASE pc'[g] = pc[g] /\ on'[g] = on[g] /\ seen'[g] = seen[g]
    <2>1. /\ on[g] \in Execs /\ Exists(on[g]) /\ seen[g] \subseteq Execs
        BY <1>1, AtStep DEF TypeInv, TypeOK
    <2>2. on[g] \notin seen[g] /\ \A x \in seen[g] : Exists(x) /\ execs[x].store = execs[on[g]].store
        BY <1>1 DEF TurnInv
    <2>3. \A x \in seen[g] : Exists(x)' /\ execs'[x].store = execs[x].store
        BY <2>1, <2>2, SameStore DEF Exists
    <2>4. execs'[on[g]].store = execs[on[g]].store
        BY <2>1, SameStore
    <2> QED
        BY <1>1, <2>2, <2>3, <2>4
<1>2. CASE UNCHANGED <<pc, locals>>
    BY <1>1, <1>2 DEF locals
<1>3. ASSUME NEW f \in Flows, Advance(f)
      PROVE  pc'[g] = pc[g] /\ on'[g] = on[g] /\ seen'[g] = seen[g]
    BY <1>3, AdvanceKinds, OthersStay DEF TypeInv, InRun
<1>4. ASSUME NEW f \in Flows, NEW e \in Execs, BeginRun(f, e), Execute(e, f) \/ Resume(e, f), g # f
      PROVE  pc'[g] = pc[g] /\ on'[g] = on[g] /\ seen'[g] = seen[g]
    BY <1>4, OthersStay DEF TypeInv
<1>5. ASSUME NEW e \in Execs, BeginRun(g, e), Execute(e, g) \/ Resume(e, g)
      PROVE  /\ on'[g] \notin seen'[g]
             /\ \A x \in seen'[g] : Exists(x)' /\ execs'[x].store = execs'[on'[g]].store
    <2>1. /\ on'[g] = e
          /\ seen'[g] = {x \in Execs \ {e} : IsActive(x) /\ execs[x].store = Requests[e].store}
        BY <1>5, BeginKinds
    <2>2. Exists(e)'
        <3>1. CASE Exists(e)
            BY <3>1, ExistsStays
        <3>2. CASE Execute(e, g)
            <4>1. FlowBegun(g)'
                BY FlowsStayBegun
            <4> QED
                BY <2>1, <4>1 DEF FlowBegun, Exists
        <3> QED
            BY <1>5, <3>1, <3>2 DEF Resume
    <2>3. execs'[e].store = Requests[e].store
        BY <2>2, StoredTurns
    <2>4. \A x \in seen'[g] : Exists(x)' /\ execs'[x].store = Requests[e].store
        BY <2>1, SameStore DEF IsActive, Exists
    <2> QED
        BY <2>1, <2>3, <2>4
<1> QED
    BY <1>1, <1>2, <1>3, <1>4, <1>5, StepKinds

\* No call of resume joined another, so every execution has one call at most.
LEMMA AloneKept ==
    ASSUME TypeInv, TurnInv, [Next]_vars, ~joined', NEW g \in Flows, NEW h \in Flows,
           g # h, on'[g] = on'[h]
    PROVE  on'[g] = NoOwner
<1>1. \A a, b \in Flows : a # b /\ on[a] = on[b] => on[a] = NoOwner
    BY NoStopNoJoin DEF TurnInv
<1>2. CASE UNCHANGED <<pc, locals>>
    BY <1>1, <1>2 DEF locals
<1>3. ASSUME NEW f \in Flows, Advance(f)
      PROVE  on'[g] = NoOwner
    <2>1. \A a \in Flows : on'[a] \in {on[a], NoOwner}
        BY <1>3, AdvanceKinds, OthersStay DEF TypeInv
    <2> QED
        BY <1>1, <2>1
<1>4. ASSUME NEW f \in Flows, NEW e \in Execs, BeginRun(f, e), Execute(e, f) \/ Resume(e, f)
      PROVE  on'[g] = NoOwner
    <2>1. on'[f] = e /\ \A a \in Flows \ {f} : on'[a] = on[a]
        BY <1>4, BeginKinds, OthersStay DEF TypeInv
    <2>2. \A a \in Flows : on[a] # e
        <3>1. CASE Resume(e, f)
            BY <3>1, Zenon DEF Resume
        <3>2. CASE Execute(e, f)
            <4>1. ~Exists(e)
                BY <3>2 DEF Execute
            <4>2. ASSUME NEW a \in Flows
                  PROVE  on[a] # e
                <5>1. CASE pc[a] = "idle"
                    BY <5>1, NullAssumption DEF TurnInv
                <5> QED
                    BY <4>1, <5>1, AtStep
            <4> QED
                BY <4>2
        <3> QED
            BY <1>4, <3>1, <3>2
    <2> QED
        BY <1>1, <2>1, <2>2
<1> QED
    BY <1>2, <1>3, <1>4, StepKinds

LEMMA RunnerNotRejected ==
    ASSUME TypeInv, TurnInv, [Next]_vars, ~joined', NEW g \in Flows, pc'[g] \in InRun
    PROVE  execs'[on'[g]].status # "REJECTED"
<1>1. /\ \A a, b \in Flows : a # b /\ on[a] = on[b] => on[a] = NoOwner
      /\ \A a \in Flows : pc[a] \in InRun => execs[on[a]].status # "REJECTED"
    BY NoStopNoJoin DEF TurnInv
<1>2. CASE pc[g] \in InRun /\ on'[g] = on[g]
    <2>1. on[g] \in Execs /\ Exists(on[g]) /\ on[g] # NoOwner
        BY <1>2, InRunStored
    <2>3. \A f \in Flows : ~(Reject(f) /\ on[f] = on[g])
        BY <1>1, <1>2, <2>1 DEF Reject, InRun
    <2>4. PICK e \in Execs : e = on[g]
        BY <2>1
    <2>5. Exists(e)' /\ execs[e].status # "REJECTED"
        BY <1>1, <1>2, <2>1, <2>4, ExistsStays
    <2>6. execs'[e].status # "REJECTED"
        BY <2>3, <2>4, <2>5, RejectedByReject
    <2> QED
        BY <1>2, <2>4, <2>6
<1>3. CASE UNCHANGED <<pc, locals>>
    BY <1>2, <1>3 DEF locals
<1>4. ASSUME NEW f \in Flows, Advance(f)
      PROVE  execs'[on'[g]].status # "REJECTED"
    <2>1. CASE Admit(g)
        <3>1. on[g] \in Execs /\ execs[on[g]] \in ExecRec
            BY <2>1, AtStep DEF Admit
        <3>2. execs \in [Execs -> ExecRec \cup {NoExec}]
            BY DEF TypeInv, TypeOK
        <3>3. on'[g] = on[g] /\ execs'[on[g]] = [execs[on[g]] EXCEPT !.status = "EXECUTING"]
            BY <2>1, <3>1, <3>2 DEF Admit, Save
        <3> QED
            BY <3>1, <3>3 DEF ExecRec
    <2> QED
        BY <1>2, <1>4, <2>1, AdvanceKinds, OthersStay DEF TypeInv, InRun
<1>5. ASSUME NEW f \in Flows, NEW e \in Execs, BeginRun(f, e)
      PROVE  pc[g] \in InRun /\ on'[g] = on[g]
    BY <1>5, BeginKinds, OthersStay DEF TypeInv, InRun
<1> QED
    BY <1>2, <1>3, <1>4, <1>5, StepKinds

\* The executions of a store do not all become REJECTED: the one that is
\* rejected last listed another that is still active, and a lock that becomes
\* free had an owner that is not REJECTED.
LEMMA OneIsLeft ==
    ASSUME TypeInv, TurnInv, [Next]_vars, ~joined', NEW s \in Stores,
           Unhindered(s)', lock'[s] = NoOwner
    PROVE  \E e \in Execs : Exists(e)' /\ execs'[e].store = s /\ execs'[e].status # "REJECTED"
<1> SUFFICES ASSUME \A e \in Execs : Exists(e)' /\ execs'[e].store = s
                                     => execs'[e].status = "REJECTED"
             PROVE  FALSE
    OBVIOUS
<1>1. ~joined /\ stops = 0 /\ stopped = {}
    BY NoStopNoJoin DEF TurnInv, Unhindered
<1>2. \A e \in Execs : Exists(e)' /\ execs'[e].store = s
                        => ~NeedsApproval(Planned(Requests[e]))
    BY DEF Unhindered, OfStore
<1>3. PICK x \in Execs : Exists(x)' /\ execs'[x].store = s
    BY DEF Unhindered, OfStore
<1>4. \A e \in Execs : Exists(e) => Exists(e)' /\ execs'[e].store = execs[e].store
    BY SameStore DEF Exists
<1>5. CASE \E f \in Flows : Reject(f) /\ execs[on[f]].store = s
    <2>1. PICK f \in Flows : Reject(f) /\ execs[on[f]].store = s
        BY <1>5
    <2>2. /\ pc[f] = "admit" /\ Refused(on[f], seen[f]) /\ lock' = lock
          /\ on[f] \in Execs /\ Exists(on[f])
        BY <2>1, AtStep DEF Reject
    <2>3. ~NeedsApproval(execs[on[f]])
        BY <1>2, <1>4, <2>1, <2>2 DEF TurnInv
    <2>4. PICK y \in seen[f] : IsActive(y)
        BY <1>1, <2>1, <2>2, <2>3 DEF Refused
    <2>5. y \in Execs /\ y # on[f] /\ Exists(y) /\ execs[y].store = s
        BY <2>1, <2>2, <2>4 DEF TurnInv, TypeInv, TypeOK
    <2>6. execs'[y] = execs[y]
        BY <2>1, <2>2, <2>5 DEF Reject, Save, TypeInv, TypeOK
    <2> QED
        BY <1>4, <2>4, <2>5, <2>6 DEF IsActive, ActiveStatuses
<1>6. CASE ~\E f \in Flows : Reject(f) /\ execs[on[f]].store = s
    <2>1. ASSUME NEW e \in Execs, Exists(e)', execs'[e].store = s
          PROVE  Exists(e) /\ execs[e].store = s /\ execs[e].status = "REJECTED"
        <3>1. CASE Exists(e)
            <4>1. execs[e].store = s
                BY <1>4, <2>1, <3>1
            <4> QED
                BY <1>6, <2>1, <3>1, <4>1, RejectedByReject
        <3>2. CASE ~Exists(e)
            <4>1. ~\E f \in Flows : Reject(f) /\ on[f] = e
                BY <3>2, AtStep DEF Reject
            <4> QED
                BY <2>1, <3>2, <4>1, RejectedByReject
        <3> QED
            BY <3>1, <3>2
    <2>2. Unhindered(s) /\ \A e \in OfStore(s) : execs[e].status = "REJECTED"
        BY <1>1, <1>2, <1>3, <1>4, <2>1 DEF Unhindered, OfStore
    <2>3. lock[s] # NoOwner
        BY <1>1, <2>2 DEF TurnInv
    <2>4. PICK f \in Flows : Release(f) /\ lock[s] = on[f] /\ execs[on[f]].store = s
        BY <2>3, FreedByRelease
    <2>5. pc[f] \in InRun
        BY <2>4 DEF Release, InRun, Points
    <2>6. on[f] \in OfStore(s)
        BY <2>4, <2>5, InRunStored DEF OfStore
    <2> QED
        BY <1>1, <2>2, <2>5, <2>6 DEF TurnInv
<1> QED
    BY <1>5, <1>6

\* Executions that need no approval never all lose to each other, however many
\* calls of execute and resume contend for a store, as long as no call joins
\* another call for the same execution and nobody stops the engine.
THEOREM SomebodysTurn == Spec => []NotAllRejected
<1>1. Init => TurnInv
    BY DEF Init, TurnInv, Unhindered, OfStore, Exists, InRun
<1>2. ASSUME TypeInv, TurnInv, [Next]_vars
      PROVE  TurnInv'
    <2>1. /\ \A f \in Flows : pc'[f] = "idle" => on'[f] = NoOwner
          /\ \A f \in Flows : pc'[f] = "admit" =>
                /\ on'[f] \notin seen'[f]
                /\ \A x \in seen'[f] : Exists(x)' /\ execs'[x].store = execs'[on'[f]].store
        BY <1>2, IdleKept, SeenKept
    <2>2. \A e \in Execs : Exists(e)' =>
              /\ execs'[e].store = Requests[e].store
              /\ ~NeedsApproval(Planned(Requests[e])) => ~NeedsApproval(execs'[e])
        BY <1>2, StoredTurns
    <2>3. stops' = 0 => stopped' = {}
        BY <1>2, NoStopNoJoin DEF TurnInv
    <2>4. ASSUME ~joined'
          PROVE  /\ \A f, g \in Flows : f # g /\ on'[f] = on'[g] => on'[f] = NoOwner
                 /\ \A f \in Flows : pc'[f] \in InRun => execs'[on'[f]].status # "REJECTED"
                 /\ \A s \in Stores : Unhindered(s)' /\ lock'[s] = NoOwner =>
                        \E e \in OfStore(s)' : execs'[e].status # "REJECTED"
        BY <1>2, <2>4, AloneKept, RunnerNotRejected, OneIsLeft DEF OfStore
    <2> QED
        BY <2>1, <2>2, <2>3, <2>4 DEF TurnInv, NeedsApproval, Exists
<1>3. TurnInv => NotAllRejected
    BY DEF TurnInv, NotAllRejected, Unhindered, OfStore
<1> QED
    BY <1>1, <1>2, <1>3, TypeInvHolds, PTL DEF Spec

-----------------------------------------------------------------------------
(* What a run leaves behind.  The invariant relates the record of an       *)
(* execution to the writes of it that are in the shop or in flight, and to *)
(* the point, the step and the steps done of each call that runs it.  What *)
(* an action does to one record and one run is proved first, of values and *)
(* without the state.                                                      *)

Unbegun(s) == s.status \in {"PENDING", "CANCELLED"}
AllAre(r, status) == \A i \in DOMAIN r.steps : r.steps[i].status = status
\* A step that counts as done is in the shop.
DoneOrCancelled(r, W, i) ==
    \/ r.steps[i].status = "COMPLETED" /\ i \in W
    \/ r.steps[i].status = "CANCELLED"

\* Of an execution: W and L are the steps of it whose write is in the shop, and
\* in flight.  Attempts are counted, steps are begun in order and cancelled
\* together, and its status tells what became of them.
Counted(r) == \A i \in DOMAIN r.steps : r.steps[i].attempts = 0 <=> Unbegun(r.steps[i])
InOrder(r) ==
    \A i, j \in DOMAIN r.steps :
        j < i /\ r.steps[j].status = "PENDING" => Unbegun(r.steps[i])
Uniform(r) ==
    (\A i \in DOMAIN r.steps : Unbegun(r.steps[i]))
    => AllAre(r, "PENDING") \/ AllAre(r, "CANCELLED")
Outcome(r, W) ==
    /\ r.status \in {"PENDING", "QUEUED"} => AllAre(r, "PENDING")
    /\ r.status = "COMPLETED" => \A i \in DOMAIN r.steps : DoneOrCancelled(r, W, i)
Once(r, W, L) ==
    /\ \A i \in DOMAIN r.steps :
           /\ r.steps[i].before # "new"
           /\ i \in L => r.steps[i].status = "FAILED"
           /\ r.steps[i].status = "ROLLED_BACK" /\ r.steps[i].plan = "steps" => i \notin W
    /\ r.status = "ROLLED_BACK" => \A i \in DOMAIN r.steps :
           r.steps[i].status \in {"ROLLED_BACK", "FAILED", "CANCELLED"}
    /\ r.status = "COMPLETED" => AllAre(r, "CANCELLED") \/ AllAre(r, "COMPLETED")
RecordInv(r, W, L) ==
    /\ ~r.real => r.status # "ROLLED_BACK"
    /\ r.real => /\ Counted(r) /\ InOrder(r) /\ Uniform(r) /\ Outcome(r, W)
                 /\ RunOnce(r) => Once(r, W, L)

\* Of a run at point p, step a, with the state v read and the steps d done, of
\* an execution in a real mode: it is the only one, and has not been decided.
Runs(p, r, W, a) ==
    /\ r.status \notin {"PENDING", "QUEUED"}
    /\ p \notin {"finalize", "release"} => r.status \in {"EXECUTING", "REJECTED"}
    /\ p \in {"started", "next"} \cup StepPoints =>
           \A j \in DOMAIN r.steps : j < a => DoneOrCancelled(r, W, j)
    /\ p \in {"read", "publish", "respond"} => r.steps[a].status = "EXECUTING"
    /\ p = "diff" => r.steps[a].status = "COMPLETED"
    /\ p \in {"respond", "diff"} => a \in W
    /\ p \in {"undo", "restore"} => a \in DOMAIN r.steps /\ ~Unbegun(r.steps[a])

\* The steps d are the first ones, and are done.
Tidy(r, d) ==
    /\ \A k \in DOMAIN d : d[k] = k
    /\ \A i \in DOMAIN r.steps : i <= Len(d) => r.steps[i].status = "COMPLETED"
\* A run that has nothing to do but what another run began: to go on is to run
\* the execution a second time.
Stale(r, a, d) == a = 1 /\ d = <<>> /\ \E i \in DOMAIN r.steps : ~Unbegun(r.steps[i])
AllCancelled(r, a, d) == a = 1 /\ d = <<>> /\ AllAre(r, "CANCELLED")
Ahead(r, a, d) ==
    /\ a = Len(d) + 1 /\ Tidy(r, d)
    /\ \A i \in DOMAIN r.steps : i > Len(d) => r.steps[i].status = "PENDING"
InStep(r, a, d) ==
    /\ a = Len(d) + 1 /\ Tidy(r, d)
    /\ \A i \in DOMAIN r.steps : i > a => r.steps[i].status = "PENDING"
Undoing(r, d) ==
    /\ Tidy(r, d)
    /\ \A i \in DOMAIN r.steps : i > Len(d) =>
           r.steps[i].status \in {"ROLLED_BACK", "FAILED", "PENDING"}
RunsOnce(p, r, W, a, v, d) ==
    /\ p \in {"started", "next"} => Stale(r, a, d) \/ AllCancelled(r, a, d) \/ Ahead(r, a, d)
    /\ p \in StepPoints \cup {"undo"} => InStep(r, a, d)
    /\ p \in {"read", "publish"} => a \notin W
    /\ p \in {"publish", "respond"} => v # "new"
    /\ p = "undo" => r.steps[a].status = "FAILED"
    /\ p = "restore" => Undoing(r, d)
RunInv(p, r, W, a, v, d) ==
    /\ p \in {"undo", "restore"} => r.real
    /\ p \in {"admit", "started"} => a = 1 /\ d = <<>>
    /\ r.real /\ p \in InRun =>
           /\ Runs(p, r, W, a)
           /\ RunOnce(r) => RunsOnce(p, r, W, a, v, d)

WrittenOf(e) == {i \in Nat : <<e, i>> \in written}
LateOf(e) == {i \in Nat : <<e, i>> \in late}
FlowInv(f) ==
    pc[f] # "idle" =>
        RunInv(pc[f], execs[on[f]], WrittenOf(on[f]), at[f], state[f], done[f])
OutcomeInv ==
    /\ \A e \in Execs : Exists(e) => RecordInv(execs[e], WrittenOf(e), LateOf(e))
    /\ \A f \in Flows : FlowInv(f)

-----------------------------------------------------------------------------
(* What the actions do to one execution and one run. *)

\* q is r with another status of its step i; its plan is kept.
Restep(r, q, i, st) ==
    /\ q.real = r.real /\ q.status = r.status
    /\ DOMAIN q.steps = DOMAIN r.steps
    /\ \A j \in DOMAIN r.steps : j # i => q.steps[j] = r.steps[j]
    /\ q.steps[i].status = st /\ q.steps[i].plan = r.steps[i].plan

Frame(r, W, L) == \A i \in W \cup L : i \in DOMAIN r.steps /\ ~Unbegun(r.steps[i])

LEMMA Positive ==
    ASSUME NEW r \in ExecRec
    PROVE  /\ r.real \in BOOLEAN
           /\ \A i \in DOMAIN r.steps : i \in Nat /\ i >= 1 /\ r.steps[i] \in StepRec
                                        /\ r.steps[i].attempts \in Nat
           /\ \E n \in Nat : DOMAIN r.steps = 1..n
<1>1. /\ r.steps \in Seq(StepRec) /\ r.real \in BOOLEAN
      /\ \A i \in DOMAIN r.steps : r.steps[i] \in StepRec
    BY RecFields
<1>2. DOMAIN r.steps = 1..Len(r.steps) /\ Len(r.steps) \in Nat
    BY <1>1
<1> QED
    BY <1>1, <1>2 DEF StepRec

LEMMA StatusRestep ==
    ASSUME NEW r \in ExecRec, NEW i \in DOMAIN r.steps, NEW st \in StepStatuses
    PROVE  /\ WithStatus(r, i, st) \in ExecRec
           /\ Restep(r, WithStatus(r, i, st), i, st)
           /\ WithStatus(r, i, st).steps[i].before = r.steps[i].before
           /\ WithStatus(r, i, st).steps[i].attempts = r.steps[i].attempts
<1> DEFINE s == [r.steps[i] EXCEPT !.status = st]
<1>1. r.steps[i] \in StepRec
    BY RecFields
<1>2. /\ s \in StepRec /\ s.status = st /\ s.plan = r.steps[i].plan
      /\ s.before = r.steps[i].before /\ s.attempts = r.steps[i].attempts
    BY <1>1 DEF StepRec
<1> HIDE DEF s
<1>3. WithStatus(r, i, st) = WithStep(r, i, s)
    BY DEF WithStatus, s
<1> QED
    BY <1>2, <1>3, NewStep, StatusKept DEF Restep

\* q is r with its steps that were not begun cancelled, and the status st.
Recancel(r, q, st) ==
    /\ q.real = r.real /\ q.status = st
    /\ DOMAIN q.steps = DOMAIN r.steps
    /\ \A i \in DOMAIN r.steps :
          /\ q.steps[i].plan = r.steps[i].plan /\ q.steps[i].before = r.steps[i].before
          /\ q.steps[i].attempts = r.steps[i].attempts
          /\ q.steps[i].status = IF r.steps[i].status = "PENDING" THEN "CANCELLED"
                                 ELSE r.steps[i].status

LEMMA CancelRecancels ==
    ASSUME NEW r \in ExecRec, NEW st \in Statuses
    PROVE  /\ [CancelRest(r) EXCEPT !.status = st] \in ExecRec
           /\ Recancel(r, [CancelRest(r) EXCEPT !.status = st], st)
<1>1. CancelRest(r) \in ExecRec /\ Grows(r, CancelRest(r))
    BY CancelGrows
<1>2. /\ [CancelRest(r) EXCEPT !.status = st] \in ExecRec
      /\ [CancelRest(r) EXCEPT !.status = st].steps = CancelRest(r).steps
      /\ [CancelRest(r) EXCEPT !.status = st].real = CancelRest(r).real
      /\ [CancelRest(r) EXCEPT !.status = st].status = st
    BY <1>1, NewStatus DEF ExecRec
<1> DEFINE C(i) == IF r.steps[i].status = "PENDING"
                   THEN [r.steps[i] EXCEPT !.status = "CANCELLED"] ELSE r.steps[i]
<1>3. CancelRest(r).steps = [i \in DOMAIN r.steps |-> C(i)]
    BY DEF CancelRest, ExecRec
<1>4. \A i \in DOMAIN r.steps : r.steps[i] \in StepRec
    BY RecFields
<1>5. \A i \in DOMAIN r.steps :
          /\ C(i).plan = r.steps[i].plan /\ C(i).before = r.steps[i].before
          /\ C(i).attempts = r.steps[i].attempts
          /\ C(i).status = IF r.steps[i].status = "PENDING" THEN "CANCELLED"
                           ELSE r.steps[i].status
    BY <1>4 DEF StepRec
<1> HIDE DEF C
<1>6. \A i \in DOMAIN r.steps : CancelRest(r).steps[i] = C(i)
    BY <1>3
<1> QED
    BY <1>1, <1>2, <1>5, <1>6 DEF Recancel, Grows

\* A record whose steps are those of r, and whose status says nothing of them.
LEMMA PlainStatus ==
    ASSUME NEW r, NEW q, NEW W, NEW L, RecordInv(r, W, L),
           q.real = r.real, q.steps = r.steps,
           q.status \notin {"PENDING", "QUEUED", "COMPLETED", "ROLLED_BACK"}
    PROVE  RecordInv(q, W, L)
  BY DEF RecordInv, Counted, InOrder, Uniform, AllAre, Outcome, RunOnce, Once
LEMMA AdmitOutcome ==
    ASSUME NEW r \in ExecRec, NEW q, NEW W, NEW L, NEW a, NEW v, NEW d,
           RecordInv(r, W, L), RunInv("admit", r, W, a, v, d),
           q.real = r.real, q.steps = r.steps, q.status = "EXECUTING"
    PROVE  RecordInv(q, W, L) /\ RunInv("started", q, W, a, v, d)
<1>1. RecordInv(q, W, L)
    BY PlainStatus
<1>2. a = 1 /\ d = <<>>
    BY DEF RunInv
<1>3. ASSUME r.real
      PROVE  Stale(q, a, d) \/ AllCancelled(q, a, d) \/ Ahead(q, a, d)
    <2>1. Uniform(r)
        BY <1>3 DEF RecordInv
    <2>2. CASE \E i \in DOMAIN r.steps : ~Unbegun(r.steps[i])
        BY <1>2, <2>2 DEF Stale
    <2>3. CASE AllAre(r, "CANCELLED")
        BY <1>2, <2>3 DEF AllCancelled, AllAre
    <2>4. CASE AllAre(r, "PENDING")
        <3>1. \A i \in DOMAIN r.steps : i \in Nat /\ i >= 1
            BY Positive
        <3>2. Len(d) = 0 /\ DOMAIN d = {}
            BY <1>2
        <3> QED
            BY <1>2, <2>4, <3>1, <3>2 DEF Ahead, Tidy, AllAre
    <2> QED
        BY <2>1, <2>2, <2>3, <2>4 DEF Uniform
<1>4. \A j \in DOMAIN r.steps : ~(j < 1)
    BY Positive
<1> QED
    BY <1>1, <1>2, <1>3, <1>4 DEF RunInv, Runs, RunsOnce, StepPoints, InRun, Points

LEMMA StartedOutcome ==
    ASSUME NEW r, NEW W, NEW a, NEW v, NEW d, RunInv("started", r, W, a, v, d)
    PROVE  RunInv("next", r, W, a, v, d)
  BY DEF RunInv, Runs, RunsOnce, StepPoints, InRun, Points

LEMMA RunOnceShrinks ==
    ASSUME NEW r \in ExecRec, NEW q, DOMAIN q.steps = DOMAIN r.steps, RunOnce(q),
           \A i \in DOMAIN r.steps : r.steps[i].attempts <= q.steps[i].attempts
                                     /\ q.steps[i].attempts \in Nat
    PROVE  RunOnce(r)
  BY Positive DEF RunOnce

LEMMA BeginOutcome ==
    ASSUME NEW r \in ExecRec, NEW q \in ExecRec, NEW W, NEW L, NEW a \in Nat, NEW v,
           NEW d \in Seq(Nat), NEW i \in ToRun(r, a),
           RecordInv(r, W, L), RunInv("next", r, W, a, v, d), Frame(r, W, L),
           \A j \in ToRun(r, a) : i <= j,
           Restep(r, q, i, "EXECUTING"), q.steps[i].before = r.steps[i].before,
           q.steps[i].attempts = r.steps[i].attempts + 1
    PROVE  RecordInv(q, W, L) /\ RunInv("read", q, W, i, v, d)
<1>1. /\ i \in DOMAIN r.steps /\ i >= a /\ r.steps[i].status # "CANCELLED" /\ i \in Nat
      /\ \A j \in DOMAIN r.steps : j < i /\ j >= a => r.steps[j].status = "CANCELLED"
    BY Positive DEF ToRun
<1>2. CASE ~r.real
    BY <1>2 DEF RecordInv, RunInv, Restep
<1>3. CASE r.real
    <2>1. /\ Counted(r) /\ InOrder(r) /\ Uniform(r) /\ Outcome(r, W)
          /\ RunOnce(r) => Once(r, W, L)
          /\ Runs("next", r, W, a) /\ (RunOnce(r) => RunsOnce("next", r, W, a, v, d))
        BY <1>3 DEF RecordInv, RunInv, InRun, Points
    <2>2. \A j \in DOMAIN r.steps : j < i => DoneOrCancelled(r, W, j)
        BY <1>1, <2>1, Positive DEF Runs, DoneOrCancelled
    <2>3. Counted(q)
        BY <1>1, <2>1, Positive DEF Counted, Restep, Unbegun
    <2>4. InOrder(q)
        <3> SUFFICES ASSUME NEW k \in DOMAIN r.steps, NEW j \in DOMAIN r.steps,
                            j < k, q.steps[j].status = "PENDING"
                     PROVE  Unbegun(q.steps[k])
            BY DEF InOrder, Restep
        <3>1. j # i /\ r.steps[j].status = "PENDING"
            BY DEF Restep
        <3>2. Unbegun(r.steps[k])
            BY <2>1, <3>1 DEF InOrder
        <3>3. k # i
            BY <2>2, <3>1 DEF DoneOrCancelled
        <3> QED
            BY <3>2, <3>3 DEF Restep
    <2>5. Uniform(q)
        BY <1>1 DEF Uniform, Restep, Unbegun
    <2>6. q.status \in {"EXECUTING", "REJECTED"} /\ Outcome(q, W)
        BY <2>1 DEF Runs, Outcome, Restep
    <2>7. Runs("read", q, W, i)
        <3>1. \A j \in DOMAIN q.steps : j < i => DoneOrCancelled(q, W, j)
            BY <1>1, <2>2, Positive DEF DoneOrCancelled, Restep
        <3> QED
            BY <2>6, <3>1 DEF Runs, Restep
    <2>8. ASSUME RunOnce(q)
          PROVE  Once(q, W, L) /\ RunsOnce("read", q, W, i, v, d)
        <3>1. r.steps[i].attempts = 0
            BY <1>1, <2>8, Positive DEF RunOnce, Restep
        <3>2. RunOnce(r)
            <4>1. \A j \in DOMAIN r.steps :
                      /\ r.steps[j].attempts \in Nat
                      /\ j # i => q.steps[j].attempts = r.steps[j].attempts
                BY Positive DEF Restep
            <4>2. DOMAIN q.steps = DOMAIN r.steps
                BY DEF Restep
            <4> SUFFICES ASSUME NEW j \in DOMAIN r.steps
                         PROVE  r.steps[j].attempts <= 1
                BY DEF RunOnce
            <4>3. q.steps[j].attempts <= 1
                BY <2>8, <4>2 DEF RunOnce
            <4>4. CASE j = i
                BY <3>1, <4>4
            <4>5. CASE j # i
                BY <4>1, <4>3, <4>5
            <4> QED
                BY <4>4, <4>5
        <3>3. r.steps[i].status = "PENDING"
            BY <1>1, <2>1, <3>1 DEF Counted, Unbegun
        <3>4. Ahead(r, a, d)
            <4>1. ~AllCancelled(r, a, d)
                BY <1>1, <3>3 DEF AllCancelled, AllAre
            <4>2. ~Stale(r, a, d)
                <5> SUFFICES ASSUME a = 1, NEW k \in DOMAIN r.steps, ~Unbegun(r.steps[k])
                             PROVE  FALSE
                    BY DEF Stale
                <5>1. k # i /\ k \in ToRun(r, a)
                    BY <3>3, Positive DEF ToRun, Unbegun
                <5>2. i < k
                    BY <1>1, <5>1, Positive
                <5> QED
                    BY <1>1, <2>1, <3>3, <5>2 DEF InOrder
            <4> QED
                BY <2>1, <3>2, <4>1, <4>2 DEF RunsOnce
        <3>5. i = a
            <4>1. \E n \in Nat : DOMAIN r.steps = 1..n
                BY Positive
            <4>2. a \in DOMAIN r.steps /\ a > Len(d) /\ Len(d) \in Nat
                BY <1>1, <3>4, <4>1 DEF Ahead
            <4>3. a \in ToRun(r, a)
                BY <3>4, <4>2 DEF Ahead, ToRun
            <4> QED
                BY <1>1, <4>3
        <3>6. i \notin W \cup L
            BY <3>3 DEF Frame, Unbegun
        <3>7. Once(q, W, L)
            BY <2>1, <2>6, <3>2, <3>6 DEF Once, Restep
        <3>8. InStep(q, i, d)
            <4>1. Len(d) \in Nat /\ i = Len(d) + 1
                BY <3>4, <3>5 DEF Ahead
            <4>2. Tidy(q, d)
                BY <3>4, <4>1, Positive DEF Ahead, Tidy, Restep
            <4>3. \A j \in DOMAIN q.steps : j > i => q.steps[j].status = "PENDING"
                BY <3>4, <4>1, Positive DEF Ahead, Restep
            <4> QED
                BY <4>1, <4>2, <4>3 DEF InStep
        <3> QED
            BY <3>6, <3>7, <3>8 DEF RunsOnce, StepPoints
    <2> QED
        BY <1>3, <2>3, <2>4, <2>5, <2>6, <2>7, <2>8 DEF RecordInv, RunInv, Restep
<1> QED
    BY <1>2, <1>3, Positive

LEMMA ReadOutcome ==
    ASSUME NEW r, NEW W, NEW a, NEW v, NEW u, NEW d, RunInv("read", r, W, a, v, d),
           u = "new" => a \in W
    PROVE  RunInv("publish", r, W, a, u, d)
  BY DEF RunInv, Runs, RunsOnce, StepPoints, InRun, Points

LEMMA PublishOutcome ==
    ASSUME NEW r \in ExecRec, NEW W, NEW X, NEW L, NEW a, NEW v, NEW d,
           RecordInv(r, W, L), RunInv("publish", r, W, a, v, d),
           r.real => X = W \cup {a}
    PROVE  RecordInv(r, X, L) /\ RunInv("respond", r, X, a, v, d)
<1>1. CASE ~r.real
    BY <1>1 DEF RecordInv, RunInv
<1>2. CASE r.real
    <2>1. /\ Counted(r) /\ InOrder(r) /\ Uniform(r) /\ Outcome(r, W)
          /\ RunOnce(r) => Once(r, W, L)
          /\ Runs("publish", r, W, a) /\ (RunOnce(r) => RunsOnce("publish", r, W, a, v, d))
        BY <1>2 DEF RecordInv, RunInv, InRun, Points
    <2>2. r.status \in {"EXECUTING", "REJECTED"} /\ r.steps[a].status = "EXECUTING"
        BY <2>1 DEF Runs
    <2>3. Outcome(r, X) /\ (RunOnce(r) => Once(r, X, L))
        BY <1>2, <2>1, <2>2 DEF Outcome, Once
    <2>4. Runs("respond", r, X, a)
        BY <1>2, <2>1 DEF Runs, DoneOrCancelled, StepPoints
    <2>5. RunOnce(r) => RunsOnce("respond", r, X, a, v, d)
        BY <2>1 DEF RunsOnce, StepPoints
    <2> QED
        BY <1>2, <2>1, <2>3, <2>4, <2>5 DEF RecordInv, RunInv
<1> QED
    BY <1>1, <1>2, Positive

LEMMA RespondOutcome ==
    ASSUME NEW r \in ExecRec, NEW q \in ExecRec, NEW W, NEW L, NEW a \in DOMAIN r.steps, NEW v, NEW d,
           RecordInv(r, W, L), RunInv("respond", r, W, a, v, d),
           Restep(r, q, a, IF r.real THEN "COMPLETED" ELSE "SIMULATED"),
           q.steps[a].before \in {v, r.steps[a].before},
           q.steps[a].attempts = r.steps[a].attempts
    PROVE  RecordInv(q, W, L) /\ RunInv("diff", q, W, a, v, d)
<1>1. CASE ~r.real
    BY <1>1 DEF RecordInv, RunInv, Restep
<1>2. CASE r.real
    <2>1. /\ Counted(r) /\ InOrder(r) /\ Uniform(r) /\ Outcome(r, W)
          /\ RunOnce(r) => Once(r, W, L)
          /\ Runs("respond", r, W, a) /\ (RunOnce(r) => RunsOnce("respond", r, W, a, v, d))
        BY <1>2 DEF RecordInv, RunInv, InRun, Points
    <2>2. /\ r.steps[a].status = "EXECUTING" /\ q.steps[a].status = "COMPLETED" /\ a \in W
          /\ \A j \in DOMAIN r.steps : Unbegun(q.steps[j]) <=> Unbegun(r.steps[j])
        BY <1>2, <2>1 DEF Runs, Restep, Unbegun
    <2>3. Counted(q)
        BY <2>1, <2>2 DEF Counted, Restep
    <2>4. InOrder(q)
        BY <2>1, <2>2 DEF InOrder, Restep
    <2>5. Uniform(q)
        BY <2>2 DEF Uniform, Restep, Unbegun
    <2>6. q.status \in {"EXECUTING", "REJECTED"} /\ Outcome(q, W)
        BY <2>1 DEF Runs, Outcome, Restep
    <2>7. Runs("diff", q, W, a)
        BY <2>1, <2>2, <2>6 DEF Runs, DoneOrCancelled, Restep, StepPoints
    <2>8. ASSUME RunOnce(q)
          PROVE  Once(q, W, L) /\ RunsOnce("diff", q, W, a, v, d)
        <3>1. RunOnce(r)
            BY <2>8, RunOnceShrinks, Positive DEF Restep
        <3>2. InStep(r, a, d) /\ v # "new" /\ Once(r, W, L)
            BY <2>1, <3>1 DEF RunsOnce, StepPoints
        <3>3. Once(q, W, L)
            BY <2>2, <2>6, <3>2 DEF Once, Restep
        <3>4. InStep(q, a, d)
            BY <2>2, <3>2, Positive DEF InStep, Tidy, Restep
        <3> QED
            BY <3>3, <3>4 DEF RunsOnce, StepPoints
    <2> QED
        BY <1>2, <2>3, <2>4, <2>5, <2>6, <2>7, <2>8 DEF RecordInv, RunInv, Restep
<1> QED
    BY <1>1, <1>2, Positive

LEMMA DoneOutcome ==
    ASSUME NEW r \in ExecRec, NEW W, NEW a \in DOMAIN r.steps, NEW v, NEW d \in Seq(Nat),
           RunInv("diff", r, W, a, v, d)
    PROVE  RunInv("next", r, W, a + 1, "none", Append(d, a))
<1>1. CASE ~r.real
    BY <1>1 DEF RunInv
<1>2. CASE r.real
    <2>1. Runs("diff", r, W, a) /\ (RunOnce(r) => RunsOnce("diff", r, W, a, v, d))
        BY <1>2 DEF RunInv, InRun, Points
    <2>2. r.steps[a].status = "COMPLETED" /\ a \in W /\ a \in Nat
        BY <2>1, Positive DEF Runs
    <2>3. \A j \in DOMAIN r.steps : j < a + 1 => DoneOrCancelled(r, W, j)
        <3>1. \A j \in DOMAIN r.steps : j < a + 1 => j = a \/ j < a
            BY <2>2, Positive
        <3> QED
            BY <2>1, <2>2, <3>1 DEF Runs, DoneOrCancelled, StepPoints
    <2>4. Runs("next", r, W, a + 1)
        BY <2>1, <2>3 DEF Runs, StepPoints
    <2>5. ASSUME RunOnce(r)
          PROVE  Ahead(r, a + 1, Append(d, a))
        <3>1. InStep(r, a, d)
            BY <2>1, <2>5 DEF RunsOnce, StepPoints
        <3>2. a = Len(d) + 1 /\ Len(Append(d, a)) = a /\ Len(d) \in Nat
            BY <3>1 DEF InStep
        <3>3. \A k \in DOMAIN Append(d, a) : Append(d, a)[k] = k
            <4> SUFFICES ASSUME NEW k \in DOMAIN Append(d, a)
                         PROVE  Append(d, a)[k] = k
                OBVIOUS
            <4>1. k = a \/ (k \in DOMAIN d /\ Append(d, a)[k] = d[k])
                BY <2>2, <3>2
            <4>2. Append(d, a)[a] = a
                BY <2>2, <3>2
            <4> QED
                BY <3>1, <4>1, <4>2 DEF InStep, Tidy
        <3>4. \A i \in DOMAIN r.steps : i <= a => r.steps[i].status = "COMPLETED"
            BY <2>2, <3>1, <3>2, Positive DEF InStep, Tidy
        <3> QED
            BY <3>1, <3>2, <3>3, <3>4 DEF InStep, Ahead, Tidy
    <2> QED
        BY <1>2, <2>4, <2>5 DEF RunInv, RunsOnce, StepPoints
<1> QED
    BY <1>1, <1>2, Positive
\* A run that is over: its outcome is decided.
LEMMA EndOutcome ==
    ASSUME NEW q, NEW W, NEW a, NEW v, NEW d, NEW p \in {"finalize", "release"},
           q.real => q.status \notin {"PENDING", "QUEUED"}
    PROVE  RunInv(p, q, W, a, v, d)
  BY DEF RunInv, Runs, RunsOnce, StepPoints

LEMMA SameAttempts ==
    ASSUME NEW r \in ExecRec, NEW q \in ExecRec, DOMAIN q.steps = DOMAIN r.steps,
           \A i \in DOMAIN r.steps : q.steps[i].attempts = r.steps[i].attempts
    PROVE  RunOnce(q) <=> RunOnce(r)
  BY DEF RunOnce

\* A step fails: its write may still be in flight.
LEMMA FailOutcome ==
    ASSUME NEW r \in ExecRec, NEW q \in ExecRec, NEW W, NEW L, NEW M, NEW p \in StepPoints,
           NEW a \in DOMAIN r.steps, NEW v, NEW d,
           RecordInv(r, W, L), RunInv(p, r, W, a, v, d), M \in {L, L \cup {a}},
           Restep(r, q, a, "FAILED"), q.steps[a].before = r.steps[a].before,
           q.steps[a].attempts = r.steps[a].attempts, ~Unbegun(r.steps[a])
    PROVE  RecordInv(q, W, M) /\ (r.real => RunInv("undo", q, W, a, v, d))
<1>1. CASE ~r.real
    BY <1>1 DEF RecordInv, Restep
<1>2. CASE r.real
    <2>1. p \in InRun
        BY DEF StepPoints, InRun, Points
    <2>2. /\ Counted(r) /\ InOrder(r) /\ Uniform(r) /\ Outcome(r, W)
          /\ RunOnce(r) => Once(r, W, L)
          /\ Runs(p, r, W, a) /\ (RunOnce(r) => RunsOnce(p, r, W, a, v, d))
        BY <1>2, <2>1 DEF RecordInv, RunInv
    <2>3. /\ \A j \in DOMAIN r.steps : Unbegun(q.steps[j]) <=> Unbegun(r.steps[j])
          /\ \A j \in DOMAIN r.steps : q.steps[j].attempts = r.steps[j].attempts
          /\ \A j \in DOMAIN r.steps : q.steps[j].status = "PENDING" => r.steps[j].status = "PENDING"
        BY DEF Restep, Unbegun
    <2>4. Counted(q) /\ InOrder(q) /\ Uniform(q)
        BY <2>2, <2>3 DEF Counted, InOrder, Uniform, Restep
    <2>5. q.status \in {"EXECUTING", "REJECTED"}
        BY <2>2 DEF Runs, Restep, StepPoints
    <2>6. Outcome(q, W) /\ Runs("undo", q, W, a)
        BY <2>3, <2>5 DEF Outcome, Runs, StepPoints, Restep
    <2>7. ASSUME RunOnce(q)
          PROVE  Once(q, W, M) /\ RunsOnce("undo", q, W, a, v, d)
        <3>1. RunOnce(r)
            BY <2>3, <2>7, SameAttempts DEF Restep
        <3>2. InStep(r, a, d) /\ Once(r, W, L)
            BY <2>2, <3>1 DEF RunsOnce
        <3>3. Once(q, W, M)
            BY <2>5, <3>2 DEF Once, Restep
        <3>4. InStep(q, a, d)
            BY <3>2, Positive DEF InStep, Tidy, Restep
        <3> QED
            BY <3>3, <3>4 DEF RunsOnce, StepPoints, Restep
    <2> QED
        BY <1>2, <2>4, <2>6, <2>7 DEF RecordInv, RunInv, Restep
<1> QED
    BY <1>1, <1>2, Positive

\* The steps that were not begun are cancelled.
LEMMA CancelOutcome ==
    ASSUME NEW r \in ExecRec, NEW q \in ExecRec, NEW W, NEW L,
           NEW st \in {"FAILED", "CANCELLED", "ROLLED_BACK"},
           RecordInv(r, W, L), Recancel(r, q, st),
           r.real => \/ AllAre(r, "PENDING")
                     \/ \E i \in DOMAIN r.steps : ~Unbegun(r.steps[i]),
           st = "ROLLED_BACK" =>
               /\ r.real
               /\ RunOnce(r) => \A i \in DOMAIN r.steps :
                      r.steps[i].status \in {"ROLLED_BACK", "FAILED", "CANCELLED", "PENDING"}
    PROVE  RecordInv(q, W, L)
<1>1. CASE ~r.real
    BY <1>1 DEF RecordInv, Recancel
<1>2. CASE r.real
    <2>1. /\ Counted(r) /\ Outcome(r, W) /\ (RunOnce(r) => Once(r, W, L))
        BY <1>2 DEF RecordInv
    <2>2. /\ \A i \in DOMAIN r.steps : Unbegun(q.steps[i]) <=> Unbegun(r.steps[i])
          /\ \A i \in DOMAIN r.steps : q.steps[i].status # "PENDING"
          /\ DOMAIN q.steps = DOMAIN r.steps /\ q.status = st /\ q.real = r.real
        BY DEF Recancel, Unbegun
    <2>3. Counted(q) /\ InOrder(q)
        BY <2>1, <2>2 DEF Counted, InOrder, Recancel
    <2>4. Uniform(q)
        BY <1>2, <2>2 DEF Uniform, AllAre, Recancel
    <2>5. Outcome(q, W)
        BY <2>2 DEF Outcome
    <2>6. ASSUME RunOnce(q)
          PROVE  Once(q, W, L)
        <3>1. RunOnce(r)
            BY <2>6, SameAttempts DEF Recancel
        <3> QED
            BY <2>1, <2>2, <3>1 DEF Once, Recancel
    <2> QED
        BY <1>2, <2>2, <2>3, <2>4, <2>5, <2>6 DEF RecordInv
<1> QED
    BY <1>1, <1>2, Positive

LEMMA UndoOutcome ==
    ASSUME NEW r \in ExecRec, NEW W, NEW a, NEW v, NEW d \in Seq(Nat),
           RunInv("undo", r, W, a, v, d)
    PROVE  RunInv("restore", r, W, a, v, d)
<1>1. /\ r.real /\ Runs("undo", r, W, a)
      /\ RunOnce(r) => RunsOnce("undo", r, W, a, v, d)
    BY DEF RunInv, InRun, Points
<1>2. Runs("restore", r, W, a)
    BY <1>1 DEF Runs, StepPoints
<1>3. ASSUME RunOnce(r)
      PROVE  Undoing(r, d)
    <2>1. InStep(r, a, d) /\ r.steps[a].status = "FAILED"
        BY <1>1, <1>3 DEF RunsOnce
    <2>2. ASSUME NEW i \in DOMAIN r.steps, i > Len(d), ~(i > a)
          PROVE  i = a
        <3>1. a = Len(d) + 1 /\ Len(d) \in Nat
            BY <2>1 DEF InStep
        <3> QED
            BY <2>2, <3>1, Positive
    <2> QED
        BY <2>1, <2>2 DEF InStep, Undoing
<1> QED
    BY <1>1, <1>2, <1>3 DEF RunInv, RunsOnce, StepPoints

\* The last step that is left is restored, or is not.
LEMMA RestoreOutcome ==
    ASSUME NEW r \in ExecRec, NEW q \in ExecRec, NEW W, NEW X, NEW L, NEW a, NEW v,
           NEW d \in Seq(Nat), NEW i \in DOMAIN r.steps, NEW st \in {"ROLLED_BACK", "FAILED"},
           RecordInv(r, W, L), RunInv("restore", r, W, a, v, d), d # <<>>, i = d[Len(d)],
           ~Unbegun(r.steps[i]),
           Restep(r, q, i, st), q.steps[i].before = r.steps[i].before,
           q.steps[i].attempts = r.steps[i].attempts,
           X \ {i} = W \ {i},
           st = "ROLLED_BACK" /\ r.steps[i].plan = "steps" /\ r.steps[i].before # "new" => i \notin X
    PROVE  RecordInv(q, X, L) /\ RunInv("restore", q, X, a, v, RestLast(d))
<1>1. /\ r.real /\ Counted(r) /\ InOrder(r) /\ Uniform(r) /\ Outcome(r, W)
      /\ RunOnce(r) => Once(r, W, L)
      /\ Runs("restore", r, W, a) /\ (RunOnce(r) => RunsOnce("restore", r, W, a, v, d))
    BY DEF RecordInv, RunInv, InRun, Points
<1>2. /\ \A j \in DOMAIN r.steps : Unbegun(q.steps[j]) <=> Unbegun(r.steps[j])
      /\ \A j \in DOMAIN r.steps : q.steps[j].attempts = r.steps[j].attempts
      /\ \A j \in DOMAIN r.steps : q.steps[j].status = "PENDING" => r.steps[j].status = "PENDING"
      /\ DOMAIN q.steps = DOMAIN r.steps
    BY DEF Restep, Unbegun
<1>3. Counted(q) /\ InOrder(q) /\ Uniform(q)
    BY <1>1, <1>2 DEF Counted, InOrder, Uniform, Restep
<1>4. q.status \in {"EXECUTING", "REJECTED"}
    BY <1>1 DEF Runs, Restep
<1>5. Outcome(q, X) /\ Runs("restore", q, X, a)
    BY <1>1, <1>2, <1>4 DEF Outcome, Runs, StepPoints
<1>6. ASSUME RunOnce(q)
      PROVE  Once(q, X, L) /\ Undoing(q, RestLast(d))
    <2>1. RunOnce(r)
        BY <1>2, <1>6, SameAttempts
    <2>2. Once(r, W, L) /\ Undoing(r, d)
        BY <1>1, <2>1 DEF RunsOnce
    <2>3. Len(d) \in Nat /\ Len(d) >= 1 /\ Len(d) \in DOMAIN d
        <3>1. Len(d) # 0 /\ Len(d) \in Nat
            OBVIOUS
        <3> QED
            BY <3>1
    <2>4. i = Len(d) /\ r.steps[i].status = "COMPLETED"
        BY <2>2, <2>3 DEF Undoing, Tidy
    <2>5. i \notin L
        BY <2>2, <2>4 DEF Once
    <2>6. \A j \in DOMAIN r.steps : j # i => (j \in X <=> j \in W)
        OBVIOUS
    <2>7. Once(q, X, L)
        BY <1>4, <2>2, <2>5, <2>6 DEF Once, Restep
    <2>8. Len(RestLast(d)) = Len(d) - 1 /\ \A k \in DOMAIN RestLast(d) :
              k \in DOMAIN d /\ RestLast(d)[k] = d[k]
        <3>1. \A n \in 0..Len(d) :
                  /\ SubSeq(d, 1, n) \in Seq(Nat) /\ Len(SubSeq(d, 1, n)) = n
                  /\ \A k \in 1..n : SubSeq(d, 1, n)[k] = d[k]
            OBVIOUS
        <3>2. Len(d) - 1 \in 0..Len(d)
            BY <2>3
        <3>3. /\ RestLast(d) \in Seq(Nat) /\ Len(RestLast(d)) = Len(d) - 1
              /\ \A k \in 1..(Len(d) - 1) : RestLast(d)[k] = d[k]
            BY <3>1, <3>2 DEF RestLast
        <3> QED
            BY <2>3, <3>3
    <2>9. \A j \in DOMAIN r.steps : j > Len(d) - 1 => j = i \/ j > Len(d)
        BY <2>3, <2>4, Positive
    <2>10. \A j \in DOMAIN r.steps : j <= Len(d) - 1 => j # i /\ j <= Len(d)
        BY <2>3, <2>4, Positive
    <2>11. Undoing(q, RestLast(d))
        BY <2>2, <2>8, <2>9, <2>10 DEF Undoing, Tidy, Restep
    <2> QED
        BY <2>7, <2>11
<1>7. q.real
    BY <1>1 DEF Restep
<1> QED
    BY <1>3, <1>5, <1>6, <1>7 DEF RecordInv, RunInv, RunsOnce, StepPoints

LEMMA RolledBackOutcome ==
    ASSUME NEW r \in ExecRec, NEW q \in ExecRec, NEW W, NEW L, NEW a, NEW v, NEW d,
           RecordInv(r, W, L), RunInv("restore", r, W, a, v, d), d = <<>>,
           Recancel(r, q, "ROLLED_BACK")
    PROVE  RecordInv(q, W, L) /\ RunInv("finalize", q, W, a, v, d)
<1>1. /\ r.real /\ Runs("restore", r, W, a)
      /\ RunOnce(r) => RunsOnce("restore", r, W, a, v, d)
    BY DEF RunInv, InRun, Points
<1>2. a \in DOMAIN r.steps /\ ~Unbegun(r.steps[a])
    BY <1>1 DEF Runs
<1>3. ASSUME RunOnce(r), NEW i \in DOMAIN r.steps
      PROVE  r.steps[i].status \in {"ROLLED_BACK", "FAILED", "CANCELLED", "PENDING"}
    <2>1. i > Len(d)
        BY Positive
    <2> QED
        BY <1>1, <1>3, <2>1 DEF RunsOnce, Undoing
<1>4. RecordInv(q, W, L)
    BY <1>1, <1>2, <1>3, CancelOutcome
<1> QED
    BY <1>4, EndOutcome DEF Recancel

\* No step is left: the status of the execution is decided.
LEMMA FinishOutcome ==
    ASSUME NEW r \in ExecRec, NEW q, NEW W, NEW L, NEW a \in Nat, NEW v, NEW d \in Seq(Nat),
           RecordInv(r, W, L), RunInv("next", r, W, a, v, d), ToRun(r, a) = {},
           q.real = r.real, q.steps = r.steps,
           q.status \in {"FAILED", "COMPLETED"} \/ (q = r /\ r.status \in {"ROLLED_BACK", "FAILED"})
    PROVE  RecordInv(q, W, L) /\ RunInv("finalize", q, W, a, v, d)
<1>1. CASE ~r.real
    BY <1>1, EndOutcome DEF RecordInv
<1>2. CASE r.real
    <2>1. /\ Counted(r) /\ InOrder(r) /\ Uniform(r)
          /\ RunOnce(r) => Once(r, W, L)
          /\ Runs("next", r, W, a) /\ (RunOnce(r) => RunsOnce("next", r, W, a, v, d))
        BY <1>2 DEF RecordInv, RunInv, InRun, Points
    <2>2. q.status \in {"FAILED", "COMPLETED"}
        BY <2>1 DEF Runs
    <2>3. \A i \in DOMAIN r.steps : i >= a => r.steps[i].status = "CANCELLED"
        BY DEF ToRun
    <2>4. \A i \in DOMAIN r.steps : DoneOrCancelled(r, W, i)
        <3>1. \A i \in DOMAIN r.steps : i < a \/ i >= a
            BY Positive
        <3> QED
            BY <2>1, <2>3, <3>1 DEF Runs, DoneOrCancelled
    <2>5. ASSUME RunOnce(r)
          PROVE  AllAre(r, "CANCELLED") \/ AllAre(r, "COMPLETED")
        <3>1. ~Stale(r, a, d)
            BY <2>3, Positive DEF Stale, Unbegun
        <3>2. CASE AllCancelled(r, a, d)
            BY <3>2 DEF AllCancelled
        <3>3. CASE Ahead(r, a, d)
            <4>1. a = Len(d) + 1 /\ Len(d) \in Nat
                BY <3>3 DEF Ahead
            <4>2. \A i \in DOMAIN r.steps : i <= Len(d)
                <5> SUFFICES ASSUME NEW i \in DOMAIN r.steps, i > Len(d)
                             PROVE  FALSE
                    BY <4>1, Positive
                <5>1. i >= a
                    BY <4>1, Positive
                <5> QED
                    BY <2>3, <3>3, <5>1 DEF Ahead
            <4> QED
                BY <3>3, <4>2 DEF Ahead, Tidy, AllAre
        <3> QED
            BY <2>1, <2>5, <3>1, <3>2, <3>3 DEF RunsOnce
    <2>6. Outcome(q, W)
        BY <2>2, <2>4 DEF Outcome, DoneOrCancelled
    <2>7. RunOnce(q) => Once(q, W, L)
        BY <2>1, <2>2, <2>5 DEF RunOnce, Once, AllAre
    <2>8. Counted(q) /\ InOrder(q) /\ Uniform(q)
        BY <2>1 DEF Counted, InOrder, Uniform, AllAre
    <2> QED
        BY <1>2, <2>2, <2>6, <2>7, <2>8, EndOutcome DEF RecordInv
<1> QED
    BY <1>1, <1>2, Positive

\* A write that outlived its step reaches the shop, or never does.
LEMMA LateOutcome ==
    ASSUME NEW r \in ExecRec, NEW W, NEW X, NEW L, NEW i \in DOMAIN r.steps, i \in L, X \in {W, W \cup {i}},
           RecordInv(r, W, L)
    PROVE  /\ RecordInv(r, X, L \ {i})
           /\ \A p, a, v, d : RunInv(p, r, W, a, v, d) => RunInv(p, r, X, a, v, d)
<1>1. RecordInv(r, X, L \ {i})
    BY DEF RecordInv, Outcome, Once, DoneOrCancelled
<1>2. ASSUME NEW p, NEW a, NEW v, NEW d, RunInv(p, r, W, a, v, d), r.real, p \in InRun
      PROVE  Runs(p, r, X, a) /\ (RunOnce(r) => RunsOnce(p, r, X, a, v, d))
    <2>1. Runs(p, r, W, a) /\ (RunOnce(r) => RunsOnce(p, r, W, a, v, d))
        BY <1>2 DEF RunInv
    <2>2. Runs(p, r, X, a)
        BY <2>1 DEF Runs, DoneOrCancelled
    <2>3. ASSUME RunOnce(r), p \in {"read", "publish"}, a = i
          PROVE  FALSE
        BY <1>2, <2>1, <2>3 DEF RecordInv, Once, Runs
    <2>4. RunOnce(r) => RunsOnce(p, r, X, a, v, d)
        BY <2>1, <2>3 DEF RunsOnce
    <2> QED
        BY <2>2, <2>4
<1> QED
    BY <1>1, <1>2 DEF RunInv

\* Another status, none that a run gives, is nothing to the steps; nor is an
\* approval.
LEMMA RejectOutcome ==
    ASSUME NEW r, NEW q, NEW W, NEW a, NEW v, NEW d, NEW p, RunInv(p, r, W, a, v, d),
           q.real = r.real, q.steps = r.steps, q.status = "REJECTED"
    PROVE  RunInv(p, q, W, a, v, d)
  BY DEF RunInv, Runs, RunsOnce, DoneOrCancelled, RunOnce, Stale, AllCancelled, AllAre, Ahead,
     InStep, Tidy, Undoing

LEMMA ApproveOutcome ==
    ASSUME NEW r \in ExecRec, NEW q \in ExecRec, NEW W, NEW L,
           q.real = r.real, q.status = r.status, DOMAIN q.steps = DOMAIN r.steps,
           \A i \in DOMAIN r.steps :
               /\ q.steps[i].status = r.steps[i].status /\ q.steps[i].plan = r.steps[i].plan
               /\ q.steps[i].before = r.steps[i].before
               /\ q.steps[i].attempts = r.steps[i].attempts,
           RecordInv(r, W, L)
    PROVE  /\ RecordInv(q, W, L)
           /\ \A p, a, v, d : (p \in StepPoints \cup {"undo"} => a \in DOMAIN r.steps)
                             /\ RunInv(p, r, W, a, v, d) => RunInv(p, q, W, a, v, d)
<1>1. RunOnce(q) <=> RunOnce(r)
    BY SameAttempts
<1>2. RecordInv(q, W, L)
    BY <1>1 DEF RecordInv, Counted, InOrder, Uniform, AllAre, Unbegun, Outcome, DoneOrCancelled, Once
<1>3. ASSUME NEW p, NEW a, NEW v, NEW d, RunInv(p, r, W, a, v, d),
             p \in StepPoints \cup {"undo"} => a \in DOMAIN r.steps
      PROVE  RunInv(p, q, W, a, v, d)
    <2>1. Runs(p, r, W, a) => Runs(p, q, W, a)
        BY <1>3 DEF Runs, DoneOrCancelled, Unbegun, StepPoints
    <2>2. RunsOnce(p, r, W, a, v, d) => RunsOnce(p, q, W, a, v, d)
        BY <1>3 DEF RunsOnce, Stale, AllCancelled, AllAre, Ahead, InStep, Tidy, Undoing, Unbegun
    <2> QED
        BY <1>1, <1>3, <2>1, <2>2 DEF RunInv
<1> QED
    BY <1>2, <1>3
-----------------------------------------------------------------------------
(* OutcomeInv is an invariant. *)

LEMMA Framed ==
    ASSUME TypeInv, NEW e \in Execs
    PROVE  /\ Frame(execs[e], WrittenOf(e), LateOf(e))
           /\ ~Exists(e) => WrittenOf(e) = {} /\ LateOf(e) = {}
  BY DEF TypeInv, BegunInv, Begun, Frame, WrittenOf, LateOf, Unbegun

\* The flow that acts, and its execution.
LEMMA Actor ==
    ASSUME TypeInv, OutcomeInv, NEW f \in Flows, pc[f] # "idle", NEW e, e = on[f]
    PROVE  /\ e \in Execs /\ Exists(e) /\ execs[e] \in ExecRec
           /\ RecordInv(execs[e], WrittenOf(e), LateOf(e))
           /\ RunInv(pc[f], execs[e], WrittenOf(e), at[f], state[f], done[f])
           /\ Frame(execs[e], WrittenOf(e), LateOf(e))
           /\ at[f] \in Nat /\ done[f] \in Seq(Nat)
           /\ pc[f] \in StepPoints =>
                  at[f] \in DOMAIN execs[e].steps /\ ~Unbegun(execs[e].steps[at[f]])
<1>1. e \in Execs /\ Exists(e) /\ execs[e] \in ExecRec
    BY AtStep
<1>2. RunInv(pc[f], execs[e], WrittenOf(e), at[f], state[f], done[f])
    BY DEF OutcomeInv, FlowInv
<1> QED
    BY <1>1, <1>2, AtStep, Framed DEF OutcomeInv, TypeInv, TypeOK, Unbegun

\* What an action leaves in place of the record and the run of its flow.
OwnInv(f, e) ==
    /\ RecordInv(execs'[e], {i \in Nat : <<e, i>> \in written'}, {i \in Nat : <<e, i>> \in late'})
    /\ pc'[f] # "idle" =>
           RunInv(pc'[f], execs'[e], {i \in Nat : <<e, i>> \in written'},
                  at'[f], state'[f], done'[f])

LEMMA LeaveOwn ==
    ASSUME TypeInv, OutcomeInv, NEW f \in Flows, NEW e \in Execs, e = on[f],
           Reject(f) \/ StoreLocked(f) \/ Release(f) \/ (Started(f) /\ Leave(f))
    PROVE  OwnInv(f, e)
<1>1. pc[f] # "idle" /\ Leave(f) /\ UNCHANGED shop
    BY DEF Reject, StoreLocked, Release, Started
<1>2. RecordInv(execs[e], WrittenOf(e), LateOf(e)) /\ execs[e] \in ExecRec
    BY <1>1, Actor
<1>3. RecordInv(execs'[e], WrittenOf(e), LateOf(e))
    <2>1. CASE UNCHANGED execs
        BY <1>2, <2>1
    <2>2. CASE Reject(f)
        <3>1. execs'[e] = [execs[e] EXCEPT !.status = "REJECTED"]
            BY <2>2 DEF Reject, Save, TypeInv, TypeOK
        <3>2. /\ execs'[e].status = "REJECTED" /\ execs'[e].real = execs[e].real
              /\ execs'[e].steps = execs[e].steps
            BY <1>2, <3>1 DEF ExecRec
        <3> QED
            BY <1>2, <3>2, PlainStatus
    <2> QED
        BY <2>1, <2>2 DEF StoreLocked, Release, Started
<1>4. pc'[f] = "idle"
    BY <1>1 DEF Leave, Go, TypeInv, TypeOK
<1> QED
    BY <1>1, <1>3, <1>4 DEF OwnInv, WrittenOf, LateOf, shop

LEMMA AdmitOwn ==
    ASSUME TypeInv, OutcomeInv, NEW f \in Flows, NEW e \in Execs, e = on[f], Admit(f)
    PROVE  OwnInv(f, e)
<1>1. /\ pc[f] = "admit" /\ pc'[f] = "started" /\ UNCHANGED <<shop, at, state, done>>
      /\ execs'[e] = [execs[e] EXCEPT !.status = "EXECUTING"]
    BY DEF Admit, Go, Save, TypeInv, TypeOK
<1>2. /\ execs[e] \in ExecRec /\ RecordInv(execs[e], WrittenOf(e), LateOf(e))
      /\ RunInv("admit", execs[e], WrittenOf(e), at[f], state[f], done[f])
    BY <1>1, Actor
<1>3. /\ execs'[e].status = "EXECUTING" /\ execs'[e].real = execs[e].real
      /\ execs'[e].steps = execs[e].steps
    BY <1>1, <1>2 DEF ExecRec
<1>4. /\ RecordInv(execs'[e], WrittenOf(e), LateOf(e))
      /\ RunInv("started", execs'[e], WrittenOf(e), at[f], state[f], done[f])
    BY <1>2, <1>3, AdmitOutcome
<1> QED
    BY <1>1, <1>4 DEF OwnInv, WrittenOf, LateOf, shop

\* An action that changes neither the execution nor the shop.
LEMMA QuietOwn ==
    ASSUME TypeInv, OutcomeInv, NEW f \in Flows, NEW e \in Execs, e = on[f], pc[f] # "idle",
           UNCHANGED <<execs, shop>>,
           RunInv(pc[f], execs[e], WrittenOf(e), at[f], state[f], done[f])
           => RunInv(pc'[f], execs[e], WrittenOf(e), at'[f], state'[f], done'[f])
    PROVE  OwnInv(f, e)
<1>1. /\ RecordInv(execs[e], WrittenOf(e), LateOf(e))
      /\ RunInv(pc[f], execs[e], WrittenOf(e), at[f], state[f], done[f])
    BY Actor
<1> QED
    BY <1>1 DEF OwnInv, WrittenOf, LateOf, shop

LEMMA MoveOwn ==
    ASSUME TypeInv, OutcomeInv, NEW f \in Flows, NEW e \in Execs, e = on[f],
           (Started(f) /\ ~Leave(f)) \/ Read(f) \/ StepDone(f) \/ RollbackStarts(f) \/ Finalize(f)
    PROVE  OwnInv(f, e)
<1> DEFINE r == execs[e]
           W == WrittenOf(e)
<1>1. pc[f] # "idle" /\ UNCHANGED <<execs, shop>>
    BY DEF Started, Read, StepDone, RollbackStarts, Finalize
<1>2. r \in ExecRec /\ done[f] \in Seq(Nat) /\ (pc[f] = "diff" => at[f] \in DOMAIN r.steps)
    BY <1>1, Actor DEF StepPoints
<1>3. pc \in [Flows -> Points] /\ at \in [Flows -> Nat] /\ done \in [Flows -> Seq(Nat)]
      /\ state \in [Flows -> Values \cup {"none"}]
    BY DEF TypeInv, TypeOK
<1> SUFFICES ASSUME RunInv(pc[f], r, W, at[f], state[f], done[f])
             PROVE  RunInv(pc'[f], r, W, at'[f], state'[f], done'[f])
    BY <1>1, QuietOwn
<1> HIDE DEF r, W
<1>4. CASE Started(f) /\ ~Leave(f)
    <2>1. pc[f] = "started" /\ pc'[f] = "next" /\ UNCHANGED <<at, state, done>>
        BY <1>3, <1>4 DEF Started, Go, locals
    <2> QED
        BY <2>1, StartedOutcome
<1>5. CASE Read(f)
    <2>1. /\ pc[f] = "read" /\ pc'[f] = "publish" /\ UNCHANGED <<at, done>>
          /\ state'[f] = "new" => <<e, at[f]>> \in written
        BY <1>3, <1>5 DEF Read, Go
    <2>2. state'[f] = "new" => at[f] \in W
        BY <1>3, <2>1 DEF W, WrittenOf
    <2> QED
        BY <2>1, <2>2, ReadOutcome
<1>6. CASE StepDone(f)
    <2>1. /\ pc[f] = "diff" /\ pc'[f] = "next" /\ at'[f] = at[f] + 1 /\ state'[f] = "none"
          /\ done'[f] = Append(done[f], at[f])
        BY <1>3, <1>6 DEF StepDone, Go
    <2> QED
        BY <1>2, <2>1, DoneOutcome
<1>7. CASE RollbackStarts(f)
    <2>1. pc[f] = "undo" /\ pc'[f] = "restore" /\ UNCHANGED <<at, state, done>>
        BY <1>3, <1>7 DEF RollbackStarts, Go, locals
    <2> QED
        BY <1>2, <2>1, UndoOutcome
<1>8. CASE Finalize(f)
    <2>1. pc[f] = "finalize" /\ pc'[f] = "release" /\ UNCHANGED <<at, state, done>>
        BY <1>3, <1>8 DEF Finalize, Go, locals
    <2>2. r.real => r.status \notin {"PENDING", "QUEUED"}
        BY <2>1 DEF RunInv, Runs, InRun, Points
    <2> QED
        BY <2>1, <2>2, EndOutcome
<1> QED
    BY <1>4, <1>5, <1>6, <1>7, <1>8

LEMMA BeginOwn ==
    ASSUME TypeInv, OutcomeInv, NEW f \in Flows, NEW e \in Execs, e = on[f], BeginStep(f)
    PROVE  OwnInv(f, e)
<1> DEFINE r == execs[e]
           W == WrittenOf(e)
           L == LateOf(e)
<1>1. pc[f] = "next" /\ pc'[f] = "read" /\ UNCHANGED <<shop, state, done>>
    BY DEF BeginStep, Go, TypeInv, TypeOK
<1>2. PICK i \in ToRun(r, at[f]) :
          /\ \A j \in ToRun(r, at[f]) : i <= j
          /\ at' = [at EXCEPT ![f] = i]
          /\ Save(e, WithStep(r, i, [r.steps[i] EXCEPT
                 !.status = "EXECUTING", !.attempts = @ + 1]))
    BY DEF BeginStep
<1>3. /\ r \in ExecRec /\ RecordInv(r, W, L) /\ Frame(r, W, L)
      /\ RunInv("next", r, W, at[f], state[f], done[f])
      /\ at[f] \in Nat /\ done[f] \in Seq(Nat)
    BY <1>1, Actor
<1> DEFINE s == [r.steps[i] EXCEPT !.status = "EXECUTING", !.attempts = @ + 1]
<1>4. execs'[e] = WithStep(r, i, s) /\ at'[f] = i
    BY <1>2 DEF Save, TypeInv, TypeOK
<1>5. i \in DOMAIN r.steps /\ r.steps[i] \in StepRec
    BY <1>3, RecFields DEF ToRun
<1>6. /\ s \in StepRec /\ s.status = "EXECUTING" /\ s.plan = r.steps[i].plan
      /\ s.before = r.steps[i].before /\ s.attempts = r.steps[i].attempts + 1
    BY <1>5, StartedStep
<1> HIDE DEF s, r, W, L
<1>7. /\ WithStep(r, i, s) \in ExecRec /\ Restep(r, WithStep(r, i, s), i, "EXECUTING")
      /\ WithStep(r, i, s).steps[i].before = r.steps[i].before
      /\ WithStep(r, i, s).steps[i].attempts = r.steps[i].attempts + 1
    BY <1>3, <1>5, <1>6, NewStep, StatusKept DEF Restep
<1>8. /\ RecordInv(WithStep(r, i, s), W, L)
      /\ RunInv("read", WithStep(r, i, s), W, i, state[f], done[f])
    BY <1>2, <1>3, <1>7, BeginOutcome
<1> QED
    BY <1>1, <1>4, <1>8 DEF OwnInv, W, L, WrittenOf, LateOf, shop

LEMMA PublishOwn ==
    ASSUME TypeInv, OutcomeInv, NEW f \in Flows, NEW e \in Execs, e = on[f], Publish(f)
    PROVE  OwnInv(f, e)
<1> DEFINE X == {i \in Nat : <<e, i>> \in written'}
<1>1. /\ pc[f] = "publish" /\ pc'[f] = "respond" /\ UNCHANGED <<execs, late, locals>>
    BY DEF Publish, Go, TypeInv, TypeOK
<1>2. /\ execs[e] \in ExecRec /\ RecordInv(execs[e], WrittenOf(e), LateOf(e))
      /\ RunInv("publish", execs[e], WrittenOf(e), at[f], state[f], done[f])
      /\ at[f] \in Nat
    BY <1>1, Actor
<1>3. execs[e].real => X = WrittenOf(e) \cup {at[f]}
    <2>1. execs[e].real => written' = written \cup {<<e, at[f]>>}
        BY DEF Publish, Shop
    <2> QED
        BY <1>2, <2>1 DEF WrittenOf
<1> HIDE DEF X
<1>4. RecordInv(execs[e], X, LateOf(e)) /\ RunInv("respond", execs[e], X, at[f], state[f], done[f])
    BY <1>2, <1>3, PublishOutcome
<1> QED
    BY <1>1, <1>4 DEF OwnInv, X, LateOf, locals

LEMMA RespondOwn ==
    ASSUME TypeInv, OutcomeInv, NEW f \in Flows, NEW e \in Execs, e = on[f], Respond(f)
    PROVE  OwnInv(f, e)
<1> DEFINE r == execs[e]
           W == WrittenOf(e)
           L == LateOf(e)
           i == at[f]
           s == [r.steps[i] EXCEPT
                    !.before = IF state[f] # "none" THEN state[f] ELSE @,
                    !.status = IF r.real THEN "COMPLETED" ELSE "SIMULATED"]
           q == WithStep(r, i, s)
<1>1. /\ pc[f] = "respond" /\ pc'[f] = "diff" /\ UNCHANGED <<shop, locals>>
      /\ execs'[e] = q
    BY DEF Respond, Go, Save, TypeInv, TypeOK
<1>2. /\ r \in ExecRec /\ RecordInv(r, W, L) /\ i \in DOMAIN r.steps
      /\ RunInv("respond", r, W, i, state[f], done[f])
    BY <1>1, Actor DEF StepPoints
<1>3. r.steps[i] \in StepRec /\ state[f] \in Values \cup {"none"}
    BY <1>2, RecFields DEF TypeInv, TypeOK
<1>4. /\ s \in StepRec /\ s.status = IF r.real THEN "COMPLETED" ELSE "SIMULATED"
      /\ s.plan = r.steps[i].plan /\ s.before \in {state[f], r.steps[i].before}
      /\ s.attempts = r.steps[i].attempts
    BY <1>3 DEF StepRec, StepStatuses
<1> HIDE DEF s, r, W, L, i
<1>5. /\ q \in ExecRec /\ Restep(r, q, i, IF r.real THEN "COMPLETED" ELSE "SIMULATED")
      /\ q.steps[i].before \in {state[f], r.steps[i].before}
      /\ q.steps[i].attempts = r.steps[i].attempts
    BY <1>2, <1>4, NewStep, StatusKept DEF Restep
<1> HIDE DEF q
<1>6. RecordInv(q, W, L) /\ RunInv("diff", q, W, i, state[f], done[f])
    BY <1>2, <1>5, RespondOutcome
<1> QED
    BY <1>1, <1>6 DEF OwnInv, W, L, i, WrittenOf, LateOf, shop, locals

LEMMA FailOwn ==
    ASSUME TypeInv, OutcomeInv, NEW f \in Flows, NEW e \in Execs, e = on[f],
           StepFails(f) \/ TimesOut(f) \/ RefusalUnreported(f)
    PROVE  OwnInv(f, e)
<1> DEFINE r == execs[e]
           W == WrittenOf(e)
           L == LateOf(e)
           M == {i \in Nat : <<e, i>> \in late'}
           w == WithStatus(r, at[f], "FAILED")
<1>1. pc[f] \in StepPoints /\ pc[f] # "idle" /\ written' = written /\ UNCHANGED locals
    BY DEF StepFails, TimesOut, RefusalUnreported, FailStep, shop, StepPoints
<1>2. /\ r \in ExecRec /\ RecordInv(r, W, L) /\ at[f] \in DOMAIN r.steps /\ at[f] \in Nat
      /\ RunInv(pc[f], r, W, at[f], state[f], done[f]) /\ ~Unbegun(r.steps[at[f]])
    BY <1>1, Actor
<1>3. M \in {L, L \cup {at[f]}}
    <2>1. late' \in {late, late \cup {<<e, at[f]>>}}
        BY DEF StepFails, TimesOut, RefusalUnreported, shop
    <2> QED
        BY <1>2, <2>1 DEF LateOf
<1>10. w.real = r.real
    BY <1>2, StatusRestep DEF StepStatuses, Restep
<1>4. \/ execs'[e] = w /\ pc'[f] = "undo" /\ r.real
      \/ execs'[e] = [w EXCEPT !.status = "FAILED"] /\ pc'[f] = "release"
      \/ execs'[e] = [CancelRest(w) EXCEPT !.status = "FAILED"] /\ pc'[f] = "finalize"
    <2>1. execs \in [Execs -> ExecRec \cup {NoExec}] /\ pc \in [Flows -> Points]
        BY DEF TypeInv, TypeOK
    <2>2. CASE RefusalUnreported(f)
        BY <2>1, <2>2 DEF RefusalUnreported, Save, Go
    <2>3. CASE FailStep(f)
        BY <1>10, <2>1, <2>3 DEF FailStep, Save, Go
    <2> QED
        BY <2>2, <2>3 DEF StepFails, TimesOut
<1> HIDE DEF r, W, L, M
<1>5. /\ w \in ExecRec /\ Restep(r, w, at[f], "FAILED")
      /\ w.steps[at[f]].before = r.steps[at[f]].before
      /\ w.steps[at[f]].attempts = r.steps[at[f]].attempts
    BY <1>2, StatusRestep DEF StepStatuses
<1> HIDE DEF w
<1>6. RecordInv(w, W, M) /\ (r.real => RunInv("undo", w, W, at[f], state[f], done[f]))
    BY <1>1, <1>2, <1>3, <1>5, FailOutcome
<1>7. CASE execs'[e] = [w EXCEPT !.status = "FAILED"] /\ pc'[f] = "release"
    <2>1. /\ execs'[e].status = "FAILED" /\ execs'[e].real = w.real
          /\ execs'[e].steps = w.steps
        BY <1>5, <1>7 DEF ExecRec
    <2>2. RecordInv(execs'[e], W, M) /\ RunInv("release", execs'[e], W, at[f], state[f], done[f])
        BY <1>6, <2>1, PlainStatus, EndOutcome
    <2> QED
        BY <1>1, <1>7, <2>2 DEF OwnInv, W, M, WrittenOf, locals
<1>8. CASE execs'[e] = [CancelRest(w) EXCEPT !.status = "FAILED"] /\ pc'[f] = "finalize"
    <2>1. execs'[e] \in ExecRec /\ Recancel(w, execs'[e], "FAILED")
        BY <1>5, <1>8, CancelRecancels DEF Statuses
    <2>2. at[f] \in DOMAIN w.steps /\ ~Unbegun(w.steps[at[f]])
        BY <1>2, <1>5 DEF Restep, Unbegun
    <2>3. RecordInv(execs'[e], W, M)
        BY <1>5, <1>6, <2>1, <2>2, CancelOutcome
    <2>4. RunInv("finalize", execs'[e], W, at[f], state[f], done[f])
        BY <2>1, EndOutcome DEF Recancel
    <2> QED
        BY <1>1, <1>8, <2>3, <2>4 DEF OwnInv, W, M, WrittenOf, locals
<1>9. CASE execs'[e] = w /\ pc'[f] = "undo" /\ r.real
    BY <1>1, <1>6, <1>9 DEF OwnInv, W, M, WrittenOf, locals
<1> QED
    BY <1>4, <1>7, <1>8, <1>9

LEMMA RestoreOwn ==
    ASSUME TypeInv, OutcomeInv, NEW f \in Flows, NEW e \in Execs, e = on[f],
           Restore(f) \/ RestoreFails(f)
    PROVE  OwnInv(f, e)
<1> DEFINE r == execs[e]
           W == WrittenOf(e)
           L == LateOf(e)
           X == {j \in Nat : <<e, j>> \in written'}
           d == done[f]
           i == d[Len(d)]
           w(st) == WithStatus(r, i, st)
<1>1. /\ pc[f] = "restore" /\ d # <<>> /\ late' = late /\ UNCHANGED <<at, state>>
      /\ done'[f] = RestLast(d)
    BY DEF Restore, RestoreFails, TypeInv, TypeOK
<1>2. /\ r \in ExecRec /\ RecordInv(r, W, L) /\ d \in Seq(Nat)
      /\ RunInv("restore", r, W, at[f], state[f], d)
    BY <1>1, Actor
<1>3. i \in DOMAIN r.steps /\ i \in Nat /\ ~Unbegun(r.steps[i])
    BY <1>1, <1>2, LastDone, Positive DEF Unbegun
<1>4. PICK st \in {"ROLLED_BACK", "FAILED"} :
          /\ \/ execs'[e] = w(st) /\ pc'[f] = "restore"
             \/ st = "FAILED" /\ execs'[e] = [w("FAILED") EXCEPT !.status = "FAILED"]
                /\ pc'[f] = "release"
          /\ written' \in {written, written \cup {<<e, i>>}, written \ {<<e, i>>}}
          /\ st = "ROLLED_BACK" /\ r.steps[i].plan = "steps" /\ r.steps[i].before # "new"
             => written' = written \ {<<e, i>>}
    <2>1. CASE Restore(f)
        <3>1. execs'[e] = w("ROLLED_BACK") /\ pc'[f] = "restore"
            BY <1>1, <2>1 DEF Restore, Save, TypeInv, TypeOK
        <3>2. written' = IF r.steps[i].plan = "steps" THEN Shop(e, i, r.steps[i].before) ELSE written
            BY <2>1 DEF Restore
        <3> QED
            BY <3>1, <3>2 DEF Shop
    <2>2. CASE RestoreFails(f)
        <3>1. \/ execs'[e] = w("FAILED") /\ pc'[f] = "restore"
              \/ execs'[e] = [w("FAILED") EXCEPT !.status = "FAILED"] /\ pc'[f] = "release"
            BY <1>1, <2>2 DEF RestoreFails, Save, Go, TypeInv, TypeOK
        <3>2. written' \in {written, Shop(e, i, r.steps[i].before)}
            BY <2>2 DEF RestoreFails
        <3> QED
            BY <3>1, <3>2 DEF Shop
    <2> QED
        BY <2>1, <2>2
<1>5. /\ X \ {i} = W \ {i}
      /\ st = "ROLLED_BACK" /\ r.steps[i].plan = "steps" /\ r.steps[i].before # "new" => i \notin X
    BY <1>4 DEF WrittenOf
<1> HIDE DEF r, W, L, X, d, i
<1>6. /\ w(st) \in ExecRec /\ Restep(r, w(st), i, st)
      /\ w(st).steps[i].before = r.steps[i].before
      /\ w(st).steps[i].attempts = r.steps[i].attempts
    BY <1>2, <1>3, StatusRestep DEF StepStatuses
<1> HIDE DEF w
<1>7. RecordInv(w(st), X, L) /\ RunInv("restore", w(st), X, at[f], state[f], RestLast(d))
    BY <1>1, <1>2, <1>3, <1>5, <1>6, RestoreOutcome DEF i
<1>8. CASE execs'[e] = w(st) /\ pc'[f] = "restore"
    BY <1>1, <1>7, <1>8 DEF OwnInv, X, L, LateOf
<1>9. CASE st = "FAILED" /\ execs'[e] = [w("FAILED") EXCEPT !.status = "FAILED"] /\ pc'[f] = "release"
    <2>1. /\ execs'[e].status = "FAILED" /\ execs'[e].real = w("FAILED").real
          /\ execs'[e].steps = w("FAILED").steps
        BY <1>6, <1>9 DEF ExecRec
    <2>2. /\ RecordInv(execs'[e], X, L)
          /\ RunInv("release", execs'[e], X, at[f], state[f], RestLast(d))
        BY <1>7, <1>9, <2>1, PlainStatus, EndOutcome
    <2> QED
        BY <1>1, <1>9, <2>2 DEF OwnInv, X, L, LateOf
<1> QED
    BY <1>4, <1>8, <1>9

LEMMA DecideOwn ==
    ASSUME TypeInv, OutcomeInv, NEW f \in Flows, NEW e \in Execs, e = on[f],
           RolledBack(f) \/ Finish(f) \/ Abort(f)
    PROVE  OwnInv(f, e)
<1> DEFINE r == execs[e]
           W == WrittenOf(e)
           L == LateOf(e)
           q == execs'[e]
<1>1. pc[f] \in {"restore", "next", "undo", "finalize"} /\ UNCHANGED <<shop, locals>>
    BY DEF RolledBack, Finish, Abort
<1>2. /\ r \in ExecRec /\ RecordInv(r, W, L) /\ at[f] \in Nat /\ done[f] \in Seq(Nat)
      /\ RunInv(pc[f], r, W, at[f], state[f], done[f])
    BY <1>1, Actor
<1>3. execs \in [Execs -> ExecRec \cup {NoExec}] /\ pc \in [Flows -> Points]
    BY DEF TypeInv, TypeOK
<1> SUFFICES RecordInv(q, W, L) /\ RunInv(pc'[f], q, W, at[f], state[f], done[f])
    BY <1>1 DEF OwnInv, WrittenOf, LateOf, shop, locals
<1>4. CASE RolledBack(f)
    <2>1. /\ pc[f] = "restore" /\ pc'[f] = "finalize" /\ done[f] = <<>>
          /\ q = [CancelRest(r) EXCEPT !.status = "ROLLED_BACK"]
        BY <1>3, <1>4 DEF RolledBack, Save, Go
    <2>2. q \in ExecRec /\ Recancel(r, q, "ROLLED_BACK")
        BY <1>2, <2>1, CancelRecancels DEF Statuses
    <2> HIDE DEF r, W, L, q
    <2> QED
        BY <1>2, <2>1, <2>2, RolledBackOutcome
<1>5. CASE Finish(f)
    <2>1. /\ pc[f] = "next" /\ pc'[f] = "finalize" /\ ToRun(r, at[f]) = {}
          /\ \/ q = r /\ r.status \in {"ROLLED_BACK", "FAILED"}
             \/ \E st \in {"FAILED", "COMPLETED"} : q = [r EXCEPT !.status = st]
        BY <1>3, <1>5 DEF Finish, Save, Go
    <2>2. /\ q.real = r.real /\ q.steps = r.steps
          /\ \/ q.status \in {"FAILED", "COMPLETED"}
             \/ q = r /\ r.status \in {"ROLLED_BACK", "FAILED"}
        BY <1>2, <2>1 DEF ExecRec
    <2> HIDE DEF r, W, L, q
    <2>3. RunInv("next", r, W, at[f], state[f], done[f])
        BY <1>2, <2>1
    <2>4. RecordInv(q, W, L) /\ RunInv("finalize", q, W, at[f], state[f], done[f])
        BY <1>2, <2>1, <2>2, <2>3, FinishOutcome
    <2> QED
        BY <2>1, <2>4
<1>6. CASE Abort(f)
    <2>1. pc'[f] = "release" /\ q = [r EXCEPT !.status = "FAILED"]
        BY <1>3, <1>6 DEF Abort, Save, Go
    <2>2. q.real = r.real /\ q.steps = r.steps /\ q.status = "FAILED"
        BY <1>2, <2>1 DEF ExecRec
    <2> HIDE DEF r, W, L, q
    <2> QED
        BY <1>2, <2>1, <2>2, PlainStatus, EndOutcome
<1> QED
    BY <1>4, <1>5, <1>6

LEMMA AdvanceOwn ==
    ASSUME TypeInv, OutcomeInv, NEW f \in Flows, NEW e \in Execs, e = on[f], Advance(f)
    PROVE  OwnInv(f, e)
  BY LeaveOwn, AdmitOwn, MoveOwn, BeginOwn, PublishOwn, RespondOwn, FailOwn, RestoreOwn, DecideOwn
     DEF Advance

\* An action of a flow writes its own execution and that one's steps only.
LEMMA OthersUntouched ==
    ASSUME TypeInv, NEW f \in Flows, NEW e \in Execs, e = on[f], Advance(f),
           NEW x \in Execs \ {e}
    PROVE  /\ execs'[x] = execs[x]
           /\ \A i \in Nat : /\ <<x, i>> \in written' <=> <<x, i>> \in written
                             /\ <<x, i>> \in late' <=> <<x, i>> \in late
<1>1. execs \in [Execs -> ExecRec \cup {NoExec}]
    BY DEF TypeInv, TypeOK
<1>2. UNCHANGED execs \/ \E q : Save(e, q)
    BY DEF Advance, Reject, StoreLocked, Admit, Started, BeginStep, Read, Publish, Respond,
       StepDone, StepFails, RefusalUnreported, TimesOut, FailStep, RollbackStarts, Restore,
       RestoreFails, RolledBack, Finish, Finalize, Abort, Release
<1>3. execs'[x] = execs[x]
    BY <1>1, <1>2 DEF Save
<1>4. UNCHANGED written \/ \E i, v : written' = Shop(e, i, v)
    BY DEF Advance, Reject, StoreLocked, Admit, Started, BeginStep, Read, Publish, Respond,
       StepDone, StepFails, RefusalUnreported, TimesOut, FailStep, RollbackStarts, Restore,
       RestoreFails, RolledBack, Finish, Finalize, Abort, Release, shop
<1>5. UNCHANGED late \/ late' = late \cup {<<e, at[f]>>}
    BY DEF Advance, Reject, StoreLocked, Admit, Started, BeginStep, Read, Publish, Respond,
       StepDone, StepFails, RefusalUnreported, TimesOut, FailStep, RollbackStarts, Restore,
       RestoreFails, RolledBack, Finish, Finalize, Abort, Release, shop
<1> QED
    BY <1>3, <1>4, <1>5 DEF Shop

\* What an execution's flows need of it when another of them acts: a run in a
\* real mode is the only one.
LEMMA OtherFlow ==
    ASSUME TypeInv, LockInv, OutcomeInv, [Next]_vars, NEW f \in Flows, Advance(f),
           NEW g \in Flows \ {f}
    PROVE  FlowInv(g)'
<1>1. /\ pc'[g] = pc[g] /\ on'[g] = on[g] /\ at'[g] = at[g] /\ done'[g] = done[g]
      /\ state'[g] = state[g]
    BY OthersStay DEF TypeInv
<1>2. pc[f] # "idle"
    BY AdvanceKinds
<1> SUFFICES ASSUME pc[g] # "idle"
             PROVE  RunInv(pc[g], execs'[on[g]], {i \in Nat : <<on[g], i>> \in written'},
                           at[g], state[g], done[g])
    BY <1>1 DEF FlowInv, WrittenOf
<1> DEFINE x == on[g]
           e == on[f]
           X == {i \in Nat : <<x, i>> \in written'}
<1>3. /\ x \in Execs /\ Exists(x) /\ execs[x] \in ExecRec
      /\ RunInv(pc[g], execs[x], WrittenOf(x), at[g], state[g], done[g])
    BY Actor
<1>4. e \in Execs /\ execs[e] \in ExecRec
    BY <1>2, Actor
<1>5. CASE x # e
    <2>1. execs'[x] = execs[x] /\ X = WrittenOf(x)
        BY <1>3, <1>4, <1>5, OthersUntouched DEF WrittenOf
    <2> QED
        BY <1>3, <2>1
<1>6. CASE x = e /\ ~(execs[x].real /\ pc[g] \in InRun)
    <2>1. execs'[x].real = execs[x].real
        BY <1>3, SameStore
    <2> HIDE DEF x, X
    <2>2. RunInv(pc[g], execs'[x], X, at[g], state[g], done[g])
        BY <1>3, <1>6, <2>1 DEF RunInv
    <2> QED
        BY <2>2 DEF x, X
<1>7. CASE x = e /\ execs[x].real /\ pc[g] \in InRun
    <2>1. pc[f] \notin InRun
        BY <1>7 DEF LockInv, StoreExclusion
    <2>2. lock[execs[x].store] = x /\ x # NoOwner
        BY <1>3, <1>7, NullAssumption DEF LockInv
    <2>3. ~Admit(f)
        BY <1>7, <2>2 DEF Admit
    <2>4. Reject(f) \/ StoreLocked(f)
        <3>1. pc[f] = "admit"
            BY <1>2, <2>1 DEF InRun, TypeInv, TypeOK
        <3> QED
            BY <2>3, <3>1 DEF Advance, Started, BeginStep, Read, Publish, Respond,
               StepDone, StepFails, RefusalUnreported, TimesOut, FailStep, RollbackStarts, Restore,
               RestoreFails, RolledBack, Finish, Finalize, Abort, Release
    <2>5. X = WrittenOf(x)
        BY <2>4 DEF Reject, StoreLocked, shop, WrittenOf
    <2>6. CASE StoreLocked(f)
        BY <1>3, <2>5, <2>6 DEF StoreLocked
    <2>7. CASE Reject(f)
        <3>1. execs'[x] = [execs[x] EXCEPT !.status = "REJECTED"]
            BY <1>3, <1>7, <2>7 DEF Reject, Save, TypeInv, TypeOK
        <3>2. /\ execs'[x].status = "REJECTED" /\ execs'[x].real = execs[x].real
              /\ execs'[x].steps = execs[x].steps
            BY <1>3, <3>1 DEF ExecRec
        <3>3. RunInv(pc[g], execs'[x], WrittenOf(x), at[g], state[g], done[g])
            BY <1>3, <3>2, RejectOutcome
        <3> QED
            BY <2>5, <3>3
    <2> QED
        BY <2>4, <2>6, <2>7
<1> QED
    BY <1>5, <1>6, <1>7

LEMMA AdvanceOutcome ==
    ASSUME TypeInv, LockInv, OutcomeInv, [Next]_vars, NEW f \in Flows, Advance(f)
    PROVE  OutcomeInv'
<1>1. pc[f] # "idle" /\ (pc'[f] # "idle" => on'[f] = on[f])
    BY AdvanceKinds
<1>2. PICK e \in Execs : e = on[f] /\ Exists(e)
    BY <1>1, Actor
<1>3. OwnInv(f, e)
    BY <1>2, AdvanceOwn
<1>4. ASSUME NEW x \in Execs, Exists(x)'
      PROVE  RecordInv(execs[x], WrittenOf(x), LateOf(x))'
    <2>1. CASE x = e
        BY <1>3, <2>1 DEF OwnInv, WrittenOf, LateOf
    <2>2. CASE x # e
        <3>1. execs'[x] = execs[x] /\ WrittenOf(x)' = WrittenOf(x) /\ LateOf(x)' = LateOf(x)
            BY <1>2, <2>2, OthersUntouched DEF WrittenOf, LateOf
        <3>2. Exists(x)
            BY <1>4, <3>1 DEF Exists
        <3> QED
            BY <3>1, <3>2 DEF OutcomeInv
    <2> QED
        BY <2>1, <2>2
<1>5. FlowInv(f)'
    BY <1>1, <1>2, <1>3 DEF FlowInv, OwnInv, WrittenOf
<1> QED
    BY <1>4, <1>5, OtherFlow DEF OutcomeInv

\* An action that changes no record and no write.
LEMMA BeginOutcomeInv ==
    ASSUME TypeInv, OutcomeInv, NEW f \in Flows, NEW e \in Execs, BeginRun(f, e)
    PROVE  /\ \A g \in Flows \ {f} : /\ pc'[g] = pc[g] /\ on'[g] = on[g] /\ at'[g] = at[g]
                                     /\ done'[g] = done[g] /\ state'[g] = state[g]
           /\ FlowInv(f)'
<1>1. /\ pc'[f] = "admit" /\ at'[f] = 1 /\ done'[f] = <<>>
    BY DEF BeginRun, Go, TypeInv, TypeOK
<1> QED
    BY <1>1, OthersStay DEF FlowInv, RunInv, InRun, TypeInv

LEMMA PlannedOutcome ==
    ASSUME NEW q \in RequestRec, NEW r, r.real = Planned(q).real, r.steps = Planned(q).steps,
           r.status \in {"PENDING", "QUEUED"}
    PROVE  RecordInv(r, {}, {})
<1>1. \A i \in DOMAIN r.steps : /\ r.steps[i].status = "PENDING" /\ r.steps[i].attempts = 0
                                /\ r.steps[i].before = "none"
    BY DEF Planned
<1> QED
    BY <1>1 DEF RecordInv, Counted, InOrder, Uniform, Outcome, Once, AllAre, Unbegun

LEMMA ExecuteOutcome ==
    ASSUME TypeInv, OutcomeInv, [Next]_vars, NEW e \in Execs, NEW f \in Flows, Execute(e, f)
    PROVE  OutcomeInv'
<1> DEFINE r == Planned(Requests[e])
<1>1. UNCHANGED shop /\ ~Exists(e) /\ \E q \in {r, [r EXCEPT !.status = "QUEUED"]} : Save(e, q)
    BY DEF Execute
<1>2. PICK q \in {r, [r EXCEPT !.status = "QUEUED"]} : Save(e, q)
    BY <1>1
<1>3. execs'[e] = q /\ \A x \in Execs \ {e} : execs'[x] = execs[x]
    BY <1>2 DEF Save, TypeInv, TypeOK
<1>4. q.real = r.real /\ q.steps = r.steps /\ q.status \in {"PENDING", "QUEUED"}
    <2>1. r \in ExecRec /\ r.status = "PENDING"
        BY PlannedType DEF Planned
    <2> HIDE DEF r
    <2> QED
        BY <1>2, <2>1 DEF ExecRec
<1>5. WrittenOf(e) = {} /\ LateOf(e) = {} /\ Requests[e] \in RequestRec
    BY <1>1, Framed, RequestsAssumption
<1>6. \A x : WrittenOf(x)' = WrittenOf(x) /\ LateOf(x)' = LateOf(x)
    BY <1>1 DEF shop, WrittenOf, LateOf
<1>7. ASSUME NEW x \in Execs, Exists(x)'
      PROVE  RecordInv(execs[x], WrittenOf(x), LateOf(x))'
    <2>1. CASE x = e
        BY <1>3, <1>4, <1>5, <1>6, <2>1, PlannedOutcome
    <2>2. CASE x # e
        BY <1>3, <1>6, <1>7, <2>2 DEF OutcomeInv, Exists
    <2> QED
        BY <2>1, <2>2
<1>8. ASSUME NEW g \in Flows, pc'[g] = pc[g], on'[g] = on[g], at'[g] = at[g],
             done'[g] = done[g], state'[g] = state[g]
      PROVE  FlowInv(g)'
    <2>1. pc[g] # "idle" => on[g] \in Execs \ {e}
        BY <1>1 DEF TypeInv, BegunInv
    <2> QED
        BY <1>3, <1>6, <1>8, <2>1 DEF OutcomeInv, FlowInv
<1>9. ASSUME NEW g \in Flows
      PROVE  FlowInv(g)'
    <2>1. CASE BeginRun(f, e)
        BY <1>8, <2>1, BeginOutcomeInv
    <2>2. CASE UNCHANGED <<pc, locals>>
        BY <1>8, <2>2 DEF locals
    <2> QED
        BY <2>1, <2>2 DEF Execute
<1> QED
    BY <1>7, <1>9 DEF OutcomeInv

\* An action of a caller on a record: no write changes, and no run moves.
LEMMA CallerOutcome ==
    ASSUME TypeInv, OutcomeInv, NEW e \in Execs, Exists(e), NEW q,
           Save(e, q), UNCHANGED <<shop, pc, locals>>,
           RecordInv(q, WrittenOf(e), LateOf(e)),
           \A f \in Flows : pc[f] # "idle" /\ on[f] = e
               => RunInv(pc[f], q, WrittenOf(e), at[f], state[f], done[f])
    PROVE  OutcomeInv'
<1>1. execs'[e] = q /\ \A x \in Execs \ {e} : execs'[x] = execs[x]
    BY DEF Save, TypeInv, TypeOK
<1>2. \A x : WrittenOf(x)' = WrittenOf(x) /\ LateOf(x)' = LateOf(x)
    BY DEF shop, WrittenOf, LateOf
<1>3. ASSUME NEW x \in Execs, Exists(x)'
      PROVE  RecordInv(execs[x], WrittenOf(x), LateOf(x))'
    BY <1>1, <1>2, <1>3 DEF OutcomeInv, Exists
<1>4. ASSUME NEW g \in Flows
      PROVE  FlowInv(g)'
    <2>1. pc[g] # "idle" => on[g] \in Execs
        BY DEF TypeInv, BegunInv
    <2> QED
        BY <1>1, <1>2, <2>1 DEF OutcomeInv, FlowInv, locals
<1> QED
    BY <1>3, <1>4 DEF OutcomeInv

LEMMA CancelledOutcome ==
    ASSUME TypeInv, OutcomeInv, NEW e \in Execs, Cancel(e)
    PROVE  OutcomeInv'
<1> DEFINE r == execs[e]
           q == [CancelRest(r) EXCEPT !.status = "CANCELLED"]
<1>1. /\ Exists(e) /\ r.status \in {"PENDING", "QUEUED"} /\ Save(e, q)
      /\ UNCHANGED <<shop, pc, locals>>
    BY DEF Cancel
<1>2. r \in ExecRec /\ RecordInv(r, WrittenOf(e), LateOf(e))
    BY <1>1, Stored DEF OutcomeInv, TypeInv
<1>3. q \in ExecRec /\ Recancel(r, q, "CANCELLED")
    BY <1>2, CancelRecancels DEF Statuses
<1>4. r.real => AllAre(r, "PENDING")
    BY <1>1, <1>2 DEF RecordInv, Outcome
<1> HIDE DEF q
<1>5. RecordInv(q, WrittenOf(e), LateOf(e))
    BY <1>2, <1>3, <1>4, CancelOutcome
<1>6. ASSUME NEW f \in Flows, pc[f] # "idle", on[f] = e
      PROVE  RunInv(pc[f], q, WrittenOf(e), at[f], state[f], done[f])
    <2>1. RunInv(pc[f], r, WrittenOf(e), at[f], state[f], done[f])
        BY <1>6 DEF OutcomeInv, FlowInv
    <2>2. ~(r.real /\ pc[f] \in InRun)
        BY <1>1, <2>1 DEF RunInv, Runs
    <2>3. q.real = r.real
        BY <1>3 DEF Recancel
    <2> QED
        BY <2>1, <2>2, <2>3 DEF RunInv
<1> QED
    BY <1>1, <1>5, <1>6, CallerOutcome

LEMMA ApprovedOutcome ==
    ASSUME TypeInv, OutcomeInv, NEW e \in Execs, NEW i, Approve(e, i)
    PROVE  OutcomeInv'
<1> DEFINE r == execs[e]
           s == [r.steps[i] EXCEPT !.approved = TRUE]
           q == WithStep(r, i, s)
<1>1. /\ Exists(e) /\ i \in DOMAIN r.steps /\ Save(e, q)
      /\ UNCHANGED <<shop, pc, locals>>
    BY DEF Approve
<1>2. r \in ExecRec /\ r.steps[i] \in StepRec /\ RecordInv(r, WrittenOf(e), LateOf(e))
    BY <1>1, Stored, RecFields DEF OutcomeInv, TypeInv
<1>3. /\ s \in StepRec /\ s.status = r.steps[i].status /\ s.plan = r.steps[i].plan
      /\ s.before = r.steps[i].before /\ s.attempts = r.steps[i].attempts
    BY <1>2, ApprovedStep
<1> HIDE DEF s
<1>4. /\ q \in ExecRec /\ q.real = r.real /\ q.status = r.status /\ DOMAIN q.steps = DOMAIN r.steps
      /\ \A j \in DOMAIN r.steps :
             /\ q.steps[j].status = r.steps[j].status /\ q.steps[j].plan = r.steps[j].plan
             /\ q.steps[j].before = r.steps[j].before
             /\ q.steps[j].attempts = r.steps[j].attempts
    BY <1>1, <1>2, <1>3, NewStep, StatusKept
<1> HIDE DEF q
<1>5. /\ RecordInv(q, WrittenOf(e), LateOf(e))
      /\ \A p, a, v, d : (p \in StepPoints \cup {"undo"} => a \in DOMAIN r.steps)
              /\ RunInv(p, r, WrittenOf(e), a, v, d) => RunInv(p, q, WrittenOf(e), a, v, d)
    BY <1>2, <1>4, ApproveOutcome
<1>6. ASSUME NEW f \in Flows, pc[f] # "idle", on[f] = e
      PROVE  RunInv(pc[f], q, WrittenOf(e), at[f], state[f], done[f])
    <2>1. RunInv(pc[f], r, WrittenOf(e), at[f], state[f], done[f])
        BY <1>6 DEF OutcomeInv, FlowInv
    <2>2. pc[f] \in StepPoints => at[f] \in DOMAIN r.steps
        BY <1>6, Actor
    <2>3. pc[f] = "undo" => at[f] \in DOMAIN r.steps
        BY <2>1 DEF RunInv, Runs, InRun, Points
    <2> QED
        BY <1>5, <2>1, <2>2, <2>3
<1> QED
    BY <1>1, <1>5, <1>6, CallerOutcome

LEMMA LateWriteOutcome ==
    ASSUME TypeInv, OutcomeInv, NEW w \in late, LateWrite(w)
    PROVE  OutcomeInv'
<1>1. PICK e \in Execs, i \in Nat : w = <<e, i>>
    BY DEF TypeInv, TypeOK
<1> DEFINE r == execs[e]
           W == WrittenOf(e)
           L == LateOf(e)
           X == {j \in Nat : <<e, j>> \in written'}
<1>2. /\ late' = late \ {<<e, i>>} /\ written' \in {written, written \cup {<<e, i>>}}
      /\ UNCHANGED <<execs, pc, locals>>
    BY <1>1 DEF LateWrite
<1>3. Exists(e) /\ i \in DOMAIN r.steps /\ i \in L
    BY <1>1 DEF TypeInv, BegunInv, Begun, LateOf
<1>4. r \in ExecRec /\ RecordInv(r, W, L)
    BY <1>3, Stored DEF OutcomeInv, TypeInv
<1>5. X \in {W, W \cup {i}}
    BY <1>2 DEF WrittenOf
<1> HIDE DEF X
<1>6. /\ RecordInv(r, X, L \ {i})
      /\ \A p, a, v, d : RunInv(p, r, W, a, v, d) => RunInv(p, r, X, a, v, d)
    BY <1>3, <1>4, <1>5, LateOutcome
<1>7. WrittenOf(e)' = X /\ LateOf(e)' = L \ {i}
    BY <1>2 DEF X, WrittenOf, LateOf
<1>8. \A x \in Execs \ {e} : WrittenOf(x)' = WrittenOf(x) /\ LateOf(x)' = LateOf(x)
    BY <1>2 DEF WrittenOf, LateOf
<1>9. ASSUME NEW x \in Execs, Exists(x)'
      PROVE  RecordInv(execs[x], WrittenOf(x), LateOf(x))'
    <2>1. Exists(x) /\ execs'[x] = execs[x]
        BY <1>2, <1>9 DEF Exists
    <2> QED
        BY <1>6, <1>7, <1>8, <2>1 DEF OutcomeInv
<1>10. ASSUME NEW f \in Flows
       PROVE  FlowInv(f)'
    <2>1. pc[f] # "idle" => on[f] \in Execs
        BY DEF TypeInv, BegunInv
    <2>2. /\ pc' = pc /\ on' = on /\ at' = at /\ state' = state /\ done' = done /\ execs' = execs
        BY <1>2 DEF locals
    <2>3. FlowInv(f)
        BY DEF OutcomeInv
    <2>4. CASE on[f] = e
        BY <1>6, <1>7, <2>2, <2>3, <2>4 DEF FlowInv
    <2>5. CASE on[f] # e
        BY <1>8, <2>1, <2>2, <2>3, <2>5 DEF FlowInv
    <2> QED
        BY <2>4, <2>5
<1> QED
    BY <1>9, <1>10 DEF OutcomeInv

LEMMA OutcomeStays ==
    ASSUME TypeInv, LockInv, OutcomeInv, [Next]_vars
    PROVE  OutcomeInv'
<1>1. CASE UNCHANGED <<execs, shop, pc, locals>>
    BY <1>1 DEF OutcomeInv, FlowInv, WrittenOf, LateOf, Exists, shop, locals
<1>2. ASSUME NEW e \in Execs, NEW f \in Flows, Resume(e, f)
      PROVE  OutcomeInv'
    <2>1. BeginRun(f, e) /\ UNCHANGED <<execs, shop>>
        BY <1>2 DEF Resume
    <2>2. \A x : WrittenOf(x)' = WrittenOf(x) /\ LateOf(x)' = LateOf(x) /\ execs'[x] = execs[x]
        BY <2>1 DEF shop, WrittenOf, LateOf
    <2>3. \A g \in Flows : FlowInv(g)'
        BY <2>1, <2>2, BeginOutcomeInv DEF OutcomeInv, FlowInv
    <2> QED
        BY <2>2, <2>3 DEF OutcomeInv, Exists
<1>3. CASE Call
    BY <1>1, <1>2, <1>3, ExecuteOutcome, CancelledOutcome, ApprovedOutcome
       DEF Call, EmergencyStop, ResumeFromStop
<1> QED
    BY <1>1, <1>3, AdvanceOutcome, LateWriteOutcome DEF Next, vars, shop, locals

LEMMA OutcomeInvHolds == Spec => []OutcomeInv
<1>1. Init => OutcomeInv
    BY DEF Init, OutcomeInv, FlowInv, Exists
<1>2. TypeInv /\ LockInv /\ OutcomeInv /\ [Next]_vars => OutcomeInv'
    BY OutcomeStays
<1> QED
    BY <1>1, <1>2, TypeInvHolds, LockInvHolds, PTL DEF Spec

\* An execution that was run once and is ROLLED_BACK left nothing half done
\* (runSteps, rollbackSteps), whatever was refused, lost or late.
THEOREM RollbackUndoes == Spec => []RolledBackMeansUndone
<1>1. TypeInv /\ OutcomeInv => RolledBackMeansUndone
    <2> SUFFICES ASSUME TypeInv, OutcomeInv, NEW e \in Execs, Exists(e),
                        execs[e].status = "ROLLED_BACK", RunOnce(execs[e]),
                        NEW i \in DOMAIN execs[e].steps
                 PROVE  LET s == execs[e].steps[i]
                        IN  /\ s.status \in {"ROLLED_BACK", "FAILED", "CANCELLED"}
                            /\ s.status = "ROLLED_BACK" /\ s.plan = "steps" => <<e, i>> \notin written
                            /\ s.status = "CANCELLED" => <<e, i>> \notin written \cup late
        BY DEF RolledBackMeansUndone
    <2>1. execs[e] \in ExecRec /\ i \in Nat
        BY Stored, Positive DEF TypeInv
    <2>2. Once(execs[e], WrittenOf(e), LateOf(e))
        BY <2>1, Positive DEF OutcomeInv, RecordInv
    <2>3. execs[e].steps[i].status = "CANCELLED" => <<e, i>> \notin written \cup late
        BY <2>1 DEF TypeInv, BegunInv, Begun
    <2> QED
        BY <2>1, <2>2, <2>3 DEF Once, WrittenOf
<1> QED
    BY <1>1, TypeInvHolds, OutcomeInvHolds, PTL

\* An execution in a real mode that is COMPLETED has its steps in the shop
\* (runSteps, StepRunner.run), however often it was resumed.
THEOREM CompletionWrites == Spec => []CompletedMeansWritten
<1>1. TypeInv /\ OutcomeInv => CompletedMeansWritten
    <2> SUFFICES ASSUME TypeInv, OutcomeInv, NEW e \in Execs, Exists(e),
                        execs[e].status = "COMPLETED", execs[e].real
                 PROVE  LET r == execs[e]
                            W == {i \in DOMAIN r.steps : <<e, i>> \in written}
                        IN  /\ \A i \in DOMAIN r.steps :
                                   \/ r.steps[i].status = "COMPLETED" /\ i \in W
                                   \/ r.steps[i].status = "CANCELLED"
                            /\ RunOnce(r) => W \in {{}, DOMAIN r.steps}
        BY DEF CompletedMeansWritten
    <2> DEFINE r == execs[e]
               W == {i \in DOMAIN r.steps : <<e, i>> \in written}
    <2>1. r \in ExecRec
        BY Stored DEF TypeInv
    <2>2. \A i \in DOMAIN r.steps : i \in Nat
        BY <2>1, Positive
    <2>3. RecordInv(r, WrittenOf(e), LateOf(e))
        BY DEF OutcomeInv
    <2>4. \A i \in DOMAIN r.steps : \/ r.steps[i].status = "COMPLETED" /\ i \in W
                                    \/ r.steps[i].status = "CANCELLED"
        BY <2>2, <2>3 DEF RecordInv, Outcome, DoneOrCancelled, WrittenOf
    <2>5. RunOnce(r) => AllAre(r, "CANCELLED") \/ AllAre(r, "COMPLETED")
        BY <2>3 DEF RecordInv, Once
    <2>6. AllAre(r, "COMPLETED") => W = DOMAIN r.steps
        BY <2>4 DEF AllAre
    <2>7. AllAre(r, "CANCELLED") => W = {}
        BY <2>2 DEF AllAre, TypeInv, BegunInv, Begun
    <2> QED
        BY <2>4, <2>5, <2>6, <2>7
<1> QED
    BY <1>1, TypeInvHolds, OutcomeInvHolds, PTL
=============================================================================
