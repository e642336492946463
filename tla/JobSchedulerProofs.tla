------------------------- MODULE JobSchedulerProofs -------------------------
(***************************************************************************)
(* Theorems about JobScheduler for every set of jobs, instances and calls. *)
(***************************************************************************)
EXTENDS JobScheduler, FiniteSetTheorems, SequenceTheorems, TLAPS

-----------------------------------------------------------------------------
(* The operators that build records return records. *)

\* The record of a job that is being attempted is a job record with its id.
LEMMA RunningType ==
    ASSUME NEW job \in JobRec
    PROVE  Running(job) \in JobRec /\ Running(job).id = job.id
<1>1. "running" \in Statuses /\ job.attempts + 1 \in Nat
    BY DEF JobRec, Statuses
<1> QED BY <1>1 DEF Running, JobRec

\* So is every record an attempt leaves behind.
LEMMA FinalizedType ==
    ASSUME NEW job \in JobRec, NEW at \in Nat, NEW outcome \in {"succeeded", "failed"},
           NEW new \in Finalized(job, at, outcome)
    PROVE  new \in JobRec /\ new.id = job.id
<1>1. \A t \in NextFires(job.cron, at) : t \in Nat
    BY DEF NextFires, JobRec, Cron
<1>2. "pending" \in Statuses /\ outcome \in Statuses
    BY DEF Statuses
<1>3. CASE NextFires(job.cron, at) # {}
    <2>1. PICK t \in NextFires(job.cron, at) :
              new = [Running(job) EXCEPT !.status = "pending", !.nextRunAt = t]
        BY <1>3 DEF Finalized
    <2>2. t \in Nat BY <1>1
    <2> QED BY <1>2, <2>1, <2>2, RunningType DEF JobRec
<1>4. CASE NextFires(job.cron, at) = {}
    <2>1. new = [Running(job) EXCEPT !.status = outcome, !.nextRunAt = Never]
        BY <1>4 DEF Finalized
    <2> QED BY <1>2, <2>1, RunningType DEF JobRec
<1> QED BY <1>3, <1>4

\* So is the record of a job that waits for a retry.
LEMMA RetriedType ==
    ASSUME NEW job \in JobRec, NEW at \in Nat, NEW delay \in Nat
    PROVE  Retried(job, at, delay) \in JobRec /\ Retried(job, at, delay).id = job.id
<1>1. "pending" \in Statuses /\ job.attempts + 1 \in Nat /\ at + delay \in Nat
    BY DEF JobRec, Statuses
<1> QED BY <1>1 DEF Retried, JobRec

\* Making a job pending again keeps it a job record with its id.
LEMMA RependType ==
    ASSUME NEW job \in JobRec
    PROVE  Repend(job) \in JobRec /\ Repend(job).id = job.id
<1>1. "pending" \in Statuses
    BY DEF Statuses
<1> QED BY <1>1 DEF Repend, JobRec

\* The settings of a patch keep a job record a job record with its id.
LEMMA PlainType ==
    ASSUME NEW job \in JobRec, NEW p \in PatchRec
    PROVE  Settings(job, p) \in JobRec /\ Settings(job, p).id = job.id
<1>1. /\ Given(p.priority, job.priority) \in Nat
      /\ Given(p.maxRetries, job.maxRetries) \in Nat
      /\ Given(p.backoff, job.backoff) \in Nat
    BY DEF JobRec, PatchRec, Given
<1>2. Given(p.timed, job.timed) \in BOOLEAN /\ Given(p.enabled, job.enabled) \in BOOLEAN
    BY DEF JobRec, PatchRec, Given
<1> QED BY <1>1, <1>2 DEF Settings, JobRec

\* A patch turns a job record into job records with its id.
LEMMA PatchedType ==
    ASSUME NEW job \in JobRec, NEW p \in PatchRec, NEW new \in Patched(job, p), clock \in Nat
    PROVE  new \in JobRec /\ new.id = job.id
<1>1. Moved(job, p) \in JobRec /\ Moved(job, p).id = job.id
    <2>1. CASE p.runsAt = Keep
        BY <2>1, PlainType DEF Moved
    <2>2. CASE p.runsAt # Keep
        <3> DEFINE r == [Settings(job, p) EXCEPT !.cron = {}, !.nextRunAt = p.runsAt]
        <3>1. {} \in Cron /\ p.runsAt \in Nat \cup {Never}
            BY <2>2 DEF PatchRec, Cron
        <3>2. r \in JobRec /\ r.id = job.id
            BY <3>1, PlainType DEF JobRec
        <3>3. Moved(job, p) = Repend(r)
            BY <2>2 DEF Moved
        <3> HIDE DEF r
        <3> QED BY <3>2, <3>3, RependType
    <2> QED BY <2>1, <2>2
<1>2. CASE p.cron = Keep
    BY <1>1, <1>2 DEF Patched
<1>3. CASE p.cron # Keep /\ p.cron = {}
    <2>1. new = [Moved(job, p) EXCEPT !.cron = {}, !.nextRunAt = Never]
        BY <1>3 DEF Patched
    <2>2. {} \in Cron
        BY DEF Cron
    <2> QED BY <1>1, <2>1, <2>2 DEF JobRec
<1>4. CASE p.cron # Keep /\ p.cron # {}
    <2> DEFINE base == IF Moved(job, p).nextRunAt = Never THEN clock
                       ELSE Moved(job, p).nextRunAt
               r(t) == [Moved(job, p) EXCEPT !.cron = p.cron, !.nextRunAt = t]
    <2>1. PICK t \in NextFires(p.cron, base) : new = Repend(r(t))
        BY <1>4 DEF Patched
    <2>2. p.cron \in Cron
        BY <1>4 DEF PatchRec
    <2>3. t \in Nat
        BY <2>2 DEF NextFires, Cron
    <2>4. r(t) \in JobRec /\ r(t).id = job.id
        BY <1>1, <2>2, <2>3 DEF JobRec
    <2> HIDE DEF r
    <2> QED BY <2>1, <2>4, RependType
<1> QED BY <1>2, <1>3, <1>4

-----------------------------------------------------------------------------
(* Type correctness. *)

\* Storing the status of a run keeps the runs a sequence of runs, as long as before.
LEMMA SetRunType ==
    ASSUME TypeOK, NEW f \in Flows, InFlight(f),
           NEW status \in {"running", "succeeded", "failed"}, SetRun(f, status)
    PROVE  runs' \in Seq(RunRec) /\ DOMAIN runs' = DOMAIN runs
<1>1. runs \in Seq(RunRec) /\ att[f].run \in 1..Len(runs)
    BY DEF TypeOK
<1>2. runs[att[f].run] \in RunRec
    BY <1>1, ElementOfSeq
<1>3. [runs[att[f].run] EXCEPT !.status = status] \in RunRec
    BY <1>2 DEF RunRec
<1>4. runs' = [runs EXCEPT ![att[f].run] = [runs[att[f].run] EXCEPT !.status = status]]
    BY DEF SetRun
<1> QED BY <1>1, <1>3, <1>4, ExceptSeq

\* Storing a record with the id of the attempted job keeps the repository typed.
LEMMA WriteType ==
    ASSUME TypeOK, NEW f \in Flows, InFlight(f), NEW job \in JobRec,
           job.id = att[f].job.id, Write(f, job)
    PROVE  jobs' \in [Jobs -> JobRec \cup {NoJob}]
BY DEF TypeOK, Write, JobRec

\* Noting an error, a finishing time or an exception leaves the attempt what it is.
LEMMA AttemptType ==
    ASSUME NEW a \in AttRec
    PROVE  /\ \A e \in {"none", "retryable", "fatal"} :
                 LET b == [a EXCEPT !.error = e]
                 IN  b \in AttRec /\ b.job = a.job /\ b.run = a.run /\ b.lease = a.lease
           /\ \A t \in Nat :
                 LET b == [a EXCEPT !.finishedAt = t]
                 IN  b \in AttRec /\ b.job = a.job /\ b.run = a.run /\ b.lease = a.lease
           /\ LET b == [a EXCEPT !.thrown = TRUE]
              IN  b \in AttRec /\ b.job = a.job /\ b.run = a.run /\ b.lease = a.lease
BY DEF AttRec

LEMMA InitType == Init => TypeOK
<1> SUFFICES ASSUME Init PROVE TypeOK
    OBVIOUS
<1> USE DEF Init
<1>1. NoAttempt \in AttRec
    BY DEF NoAttempt, AttRec
<1>2. NoLock \in [owner : Instances \cup {NoOwner}, expiresAt : Nat]
    BY DEF NoLock
<1>3. \A f \in Flows : ~InFlight(f)
    BY DEF InFlight, InAttempt, Points
<1>4. runs \in Seq(RunRec)
    BY EmptySeq
<1> QED BY <1>1, <1>2, <1>3, <1>4 DEF TypeOK, Points

\* Every step of the scheduler, its callers and its failures keeps the types.
LEMMA StepType == TypeOK /\ [Next]_vars => TypeOK'
<1> SUFFICES ASSUME TypeOK, [Next]_vars PROVE TypeOK'
    OBVIOUS
<1> USE SetsAssumption, BoundsAssumption
<1>a. NoAttempt \in AttRec
    BY DEF NoAttempt, AttRec
<1>b. DOMAIN runs = 1..Len(runs) /\ Len(runs) \in Nat
    BY LenProperties DEF TypeOK
<1>1. CASE Tick
    BY <1>1 DEF Tick, TypeOK, InFlight, store, flowVars
<1>2. ASSUME NEW f \in Flows, BeginTick(f) PROVE TypeOK'
    <2>1. FirstOf(DueJobs, QueueLimit) \subseteq JobRec
        BY DEF FirstOf, DueJobs, IsDue, TypeOK
    <2> QED BY <1>2, <2>1 DEF BeginTick, TypeOK, InFlight, InAttempt, Points, store
<1>3. ASSUME NEW f \in Flows, NEW j \in Jobs, RunNow(f, j) PROVE TypeOK'
    BY <1>3 DEF RunNow, TypeOK, InFlight, InAttempt, Points, store
<1>4. ASSUME NEW f \in Flows, Acquire(f) PROVE TypeOK'
    <2> DEFINE rest(job) == queue[f] \ {job}
               run(job) == [job |-> job.id, attempt |-> job.attempts + 1,
                            owner |-> Owner[f], status |-> "unsaved"]
               attempt(job) == [NoAttempt EXCEPT !.job = job, !.run = Len(runs) + 1,
                                                 !.lease = clock + LockTtl]
               entry == [owner |-> Owner[f], expiresAt |-> clock + LockTtl]
    <2>1. PICK job \in Pop(queue[f]) :
              /\ queue' = [queue EXCEPT ![f] = rest(job)]
              /\ \/ /\ pc' = [pc EXCEPT ![f] = Onward(rest(job))]
                    /\ UNCHANGED <<lock, runs, att>>
                 \/ /\ lock' = [lock EXCEPT ![job.id] = entry]
                    /\ runs' = Append(runs, run(job))
                    /\ att' = [att EXCEPT ![f] = attempt(job)]
                    /\ pc' = [pc EXCEPT ![f] = "save"]
        BY <1>4 DEF Acquire
    <2>2. job \in JobRec /\ clock \in Nat /\ clock + LockTtl \in Nat
        BY DEF Pop, TypeOK
    <2>3. queue' \in [Flows -> SUBSET JobRec]
        BY <2>1 DEF TypeOK
    <2>4. UNCHANGED <<clock, fresh, jobs, orphans, client, faults, ops>>
        BY <1>4 DEF Acquire
    <2>5. CASE pc' = [pc EXCEPT ![f] = Onward(rest(job))] /\ UNCHANGED <<lock, runs, att>>
        BY <2>3, <2>4, <2>5 DEF TypeOK, InFlight, InAttempt, Points, Onward
    <2>6. CASE /\ lock' = [lock EXCEPT ![job.id] = entry]
               /\ runs' = Append(runs, run(job))
               /\ att' = [att EXCEPT ![f] = attempt(job)]
               /\ pc' = [pc EXCEPT ![f] = "save"]
        <3>1. run(job) \in RunRec /\ entry \in [owner : Instances \cup {NoOwner}, expiresAt : Nat]
            BY <2>2 DEF RunRec, JobRec
        <3>2. attempt(job) \in AttRec /\ attempt(job).job = job
              /\ attempt(job).run = Len(runs) + 1
            <4>1. Len(runs) + 1 \in Nat /\ job \in JobRec \cup {NoJob}
                BY <1>b, <2>2
            <4> QED BY <1>a, <2>2, <4>1 DEF AttRec
        <3>3. runs' \in Seq(RunRec) /\ DOMAIN runs' = 1..(Len(runs) + 1)
            <4>1. runs' \in Seq(RunRec) /\ Len(runs') = Len(runs) + 1
                BY <2>6, <3>1, AppendProperties DEF TypeOK
            <4> QED BY <4>1, LenProperties
        <3>4. lock' \in [Jobs -> [owner : Instances \cup {NoOwner}, expiresAt : Nat]]
            BY <2>6, <3>1 DEF TypeOK
        <3> HIDE DEF attempt, run, entry
        <3>5. att' \in [Flows -> AttRec]
            BY <2>6, <3>2 DEF TypeOK
        <3>6. pc' \in [Flows -> Points]
            BY <2>6 DEF TypeOK, Points
        <3>7. \A g \in Flows : InFlight(g)' => att'[g].job \in JobRec /\ att'[g].run \in DOMAIN runs'
            BY <1>b, <2>2, <2>6, <3>2, <3>3 DEF TypeOK, InFlight, InAttempt
        <3> QED BY <2>3, <2>4, <3>3, <3>4, <3>5, <3>6, <3>7 DEF TypeOK
    <2> HIDE DEF rest, run, attempt, entry
    <2> QED BY <2>1, <2>5, <2>6
<1>5. ASSUME NEW f \in Flows, SaveRun(f) PROVE TypeOK'
    <2>1. runs' \in Seq(RunRec) /\ DOMAIN runs' = DOMAIN runs
        BY <1>5, SetRunType DEF SaveRun, InFlight, InAttempt, Points
    <2> QED BY <1>5, <2>1 DEF SaveRun, TypeOK, InFlight, InAttempt, Points
<1>6. ASSUME NEW f \in Flows, MarkRunning(f) PROVE TypeOK'
    <2>1. InFlight(f) /\ att[f].job \in JobRec
        BY <1>6 DEF MarkRunning, TypeOK, InFlight, InAttempt, Points
    <2>2. jobs' \in [Jobs -> JobRec \cup {NoJob}]
        BY <1>6, <2>1, RunningType, WriteType DEF MarkRunning
    <2> QED BY <1>6, <2>1, <2>2 DEF MarkRunning, TypeOK, InFlight, InAttempt, Points
<1>7. ASSUME NEW f \in Flows, HandlerSucceeds(f) PROVE TypeOK'
    <2>1. runs' \in Seq(RunRec) /\ DOMAIN runs' = DOMAIN runs
        BY <1>7, SetRunType DEF HandlerSucceeds, InFlight, InAttempt, Points
    <2>2. /\ att' \in [Flows -> AttRec]
          /\ \A g \in Flows : att'[g].job = att[g].job /\ att'[g].run = att[g].run
        <3>1. att[f] \in AttRec /\ clock \in Nat
            BY DEF TypeOK
        <3>2. att' = [att EXCEPT ![f] = [att[f] EXCEPT !.finishedAt = clock]]
            BY <1>7 DEF HandlerSucceeds
        <3>3. LET b == [att[f] EXCEPT !.finishedAt = clock]
              IN  b \in AttRec /\ b.job = att[f].job /\ b.run = att[f].run
            BY <3>1, AttemptType
        <3> QED BY <3>2, <3>3 DEF TypeOK
    <2> QED BY <1>7, <2>1, <2>2 DEF HandlerSucceeds, TypeOK, InFlight, InAttempt, Points
<1>8. ASSUME NEW f \in Flows, NEW error \in {"retryable", "fatal"}, HandlerFails(f, error)
      PROVE  TypeOK'
    <2>1. /\ att' \in [Flows -> AttRec]
          /\ \A g \in Flows : att'[g].job = att[g].job /\ att'[g].run = att[g].run
        <3>1. att[f] \in AttRec /\ clock \in Nat
            BY DEF TypeOK
        <3>2. att' = [att EXCEPT ![f] = [att[f] EXCEPT !.error = error]]
            BY <1>8 DEF HandlerFails
        <3>3. LET b == [att[f] EXCEPT !.error = error]
              IN  b \in AttRec /\ b.job = att[f].job /\ b.run = att[f].run
            BY <3>1, AttemptType
        <3> QED BY <3>2, <3>3 DEF TypeOK
    <2> QED BY <1>8, <2>1 DEF HandlerFails, TypeOK, InFlight, InAttempt, Points, store
<1>9. ASSUME NEW f \in Flows, HandlerTimesOut(f) PROVE TypeOK'
    <2>1. /\ att' \in [Flows -> AttRec]
          /\ \A g \in Flows : att'[g].job = att[g].job /\ att'[g].run = att[g].run
        <3>1. att[f] \in AttRec /\ clock \in Nat
            BY DEF TypeOK
        <3>2. att' = [att EXCEPT ![f] = [att[f] EXCEPT !.error = "fatal"]]
            BY <1>9 DEF HandlerTimesOut
        <3>3. LET b == [att[f] EXCEPT !.error = "fatal"]
              IN  b \in AttRec /\ b.job = att[f].job /\ b.run = att[f].run
            BY <3>1, AttemptType
        <3> QED BY <3>2, <3>3 DEF TypeOK
    <2>2. att[f].run \in Nat
        BY DEF TypeOK, AttRec
    <2> QED BY <1>9, <2>1, <2>2 DEF HandlerTimesOut, TypeOK, InFlight, InAttempt, Points, store
<1>10. ASSUME NEW f \in Flows, FailRun(f) PROVE TypeOK'
    <2>1. runs' \in Seq(RunRec) /\ DOMAIN runs' = DOMAIN runs
        BY <1>10, SetRunType DEF FailRun, InFlight, InAttempt, Points
    <2>2. /\ att' \in [Flows -> AttRec]
          /\ \A g \in Flows : att'[g].job = att[g].job /\ att'[g].run = att[g].run
        <3>1. att[f] \in AttRec /\ clock \in Nat
            BY DEF TypeOK
        <3>2. att' = [att EXCEPT ![f] = [att[f] EXCEPT !.finishedAt = clock]]
            BY <1>10 DEF FailRun
        <3>3. LET b == [att[f] EXCEPT !.finishedAt = clock]
              IN  b \in AttRec /\ b.job = att[f].job /\ b.run = att[f].run
            BY <3>1, AttemptType
        <3> QED BY <3>2, <3>3 DEF TypeOK
    <2> QED BY <1>10, <2>1, <2>2 DEF FailRun, TypeOK, InFlight, InAttempt, Points
<1>11. ASSUME NEW f \in Flows, Finalize(f) PROVE TypeOK'
    <2>1. InFlight(f) /\ att[f].job \in JobRec /\ att[f].finishedAt \in Nat
        BY <1>11 DEF Finalize, TypeOK, InFlight, InAttempt, Points, AttRec
    <2>2. PICK job \in Finalized(att[f].job, att[f].finishedAt, "succeeded") : Write(f, job)
        BY <1>11 DEF Finalize
    <2>3. jobs' \in [Jobs -> JobRec \cup {NoJob}]
        BY <2>1, <2>2, FinalizedType, WriteType
    <2> QED BY <1>11, <2>3 DEF Finalize, TypeOK, InFlight, InAttempt, Points
<1>12. ASSUME NEW f \in Flows, Settle(f) PROVE TypeOK'
    <2>1. InFlight(f) /\ att[f].job \in JobRec /\ att[f].finishedAt \in Nat
        BY <1>12 DEF Settle, TypeOK, InFlight, InAttempt, Points, AttRec
    <2>2. \E job \in JobRec : job.id = att[f].job.id /\ Write(f, job)
        <3>1. CASE \E delay \in 0..MaxBackoff :
                      Write(f, Retried(att[f].job, att[f].finishedAt, delay))
            <4>1. PICK delay \in 0..MaxBackoff :
                      Write(f, Retried(att[f].job, att[f].finishedAt, delay))
                BY <3>1
            <4>2. delay \in Nat
                OBVIOUS
            <4> QED BY <2>1, <4>1, <4>2, RetriedType
        <3>2. CASE \E job \in Finalized(att[f].job, att[f].finishedAt, "failed") : Write(f, job)
            BY <2>1, <3>2, FinalizedType
        <3> QED BY <1>12, <3>1, <3>2 DEF Settle
    <2>3. jobs' \in [Jobs -> JobRec \cup {NoJob}]
        BY <2>1, <2>2, WriteType
    <2> QED BY <1>12, <2>3 DEF Settle, TypeOK, InFlight, InAttempt, Points
<1>13. ASSUME NEW f \in Flows, Release(f) PROVE TypeOK'
    <2>1. att[f].job.id \in Jobs
        BY <1>13 DEF Release, TypeOK, InFlight, InAttempt, Points, JobRec
    <2>2. lock' \in [Jobs -> [owner : Instances \cup {NoOwner}, expiresAt : Nat]]
        BY <1>13, <2>1 DEF Release, TypeOK, NoLock
    <2> QED BY <1>13, <1>a, <2>1, <2>2 DEF Release, TypeOK, InFlight, InAttempt, Points, Onward
<1>14. ASSUME NEW f \in Flows, TryFault(f) PROVE TypeOK'
    <2>1. /\ att' \in [Flows -> AttRec]
          /\ \A g \in Flows : att'[g].job = att[g].job /\ att'[g].run = att[g].run
        <3>1. att[f] \in AttRec /\ clock \in Nat
            BY DEF TypeOK
        <3>2. att' = [att EXCEPT ![f] = [att[f] EXCEPT !.error = "retryable"]]
            BY <1>14 DEF TryFault
        <3>3. LET b == [att[f] EXCEPT !.error = "retryable"]
              IN  b \in AttRec /\ b.job = att[f].job /\ b.run = att[f].run
            BY <3>1, AttemptType
        <3> QED BY <3>2, <3>3 DEF TypeOK
    <2> QED BY <1>14, <2>1 DEF TryFault, TypeOK, InFlight, InAttempt, Points, store
<1>15. ASSUME NEW f \in Flows, CatchFault(f) PROVE TypeOK'
    <2>1. /\ att' \in [Flows -> AttRec]
          /\ \A g \in Flows : att'[g].job = att[g].job /\ att'[g].run = att[g].run
        <3>1. att[f] \in AttRec /\ clock \in Nat
            BY DEF TypeOK
        <3>2. att' = [att EXCEPT ![f] = [att[f] EXCEPT !.thrown = TRUE]]
            BY <1>15 DEF CatchFault
        <3>3. LET b == [att[f] EXCEPT !.thrown = TRUE]
              IN  b \in AttRec /\ b.job = att[f].job /\ b.run = att[f].run
            BY <3>1, AttemptType
        <3> QED BY <3>2, <3>3 DEF TypeOK
    <2> QED BY <1>15, <2>1 DEF CatchFault, TypeOK, InFlight, InAttempt, Points, store
<1>16. ASSUME NEW f \in Flows, LockFault(f) PROVE TypeOK'
    BY <1>16, <1>a DEF LockFault, TypeOK, InFlight, InAttempt, Points, store
<1>17. ASSUME NEW i \in Instances, Crash(i) PROVE TypeOK'
    <2>1. att' \in [Flows -> AttRec] /\ queue' \in [Flows -> SUBSET JobRec]
        BY <1>17, <1>a DEF Crash, TypeOK
    <2>2. pc' \in [Flows -> Points]
        BY <1>17 DEF Crash, TypeOK, Points
    <2>3. \A f \in Flows : InFlight(f)' => InFlight(f) /\ att'[f] = att[f]
        BY <1>17 DEF Crash, TypeOK, InFlight, InAttempt
    <2>4. orphans' \subseteq Nat
        BY <1>17 DEF Crash, TypeOK
    <2> QED BY <1>17, <2>1, <2>2, <2>3, <2>4 DEF Crash, TypeOK, store
<1>18. ASSUME NEW r \in orphans, OrphanEnds(r) PROVE TypeOK'
    BY <1>18 DEF OrphanEnds, TypeOK, InFlight, store, flowVars
<1>19. ASSUME NEW j \in Jobs, NEW in \in Inputs, Schedule(j, in) PROVE TypeOK'
    <2>1. in \in InputRec
        OBVIOUS
    <2>2. \A t \in IF in.cron = {} THEN {in.runsAt} ELSE NextFires(in.cron, clock) : t \in Nat
        BY <2>1 DEF InputRec, NextFires, Cron
    <2> DEFINE new(t) == [id |-> j, cron |-> in.cron, priority |-> in.priority,
                          maxRetries |-> in.maxRetries, backoff |-> in.backoff,
                          timed |-> in.timed, enabled |-> TRUE, status |-> "pending",
                          attempts |-> 0, nextRunAt |-> t]
    <2>3. PICK t \in IF in.cron = {} THEN {in.runsAt} ELSE NextFires(in.cron, clock) :
              jobs' = [jobs EXCEPT ![j] = new(t)]
        BY <1>19 DEF Schedule
    <2>4. new(t) \in JobRec
        BY <2>1, <2>2 DEF InputRec, JobRec, Statuses
    <2>5. jobs' \in [Jobs -> JobRec \cup {NoJob}]
        <3> HIDE DEF new
        <3> QED BY <2>3, <2>4 DEF TypeOK
    <2> QED BY <1>19, <2>5 DEF Schedule, Call, TypeOK, InFlight, flowVars
<1>20. ASSUME NEW c \in Clients, NEW j \in Jobs, NEW op \in {"update", "cancel", "delete"},
              NEW patch, Require(c, op, j, patch),
              patch \in IF op = "update" THEN Patches ELSE {Keep}
       PROVE  TypeOK'
    <2>1. jobs[j] \in JobRec
        BY <1>20 DEF Require, TypeOK
    <2> QED BY <1>20, <2>1 DEF Require, Call, TypeOK, InFlight, store, flowVars
<1>21. ASSUME NEW c \in Clients, Update(c) PROVE TypeOK'
    <2>1. client[c].job \in JobRec /\ client[c].patch \in PatchRec
        BY <1>21 DEF Update, TypeOK, NoCall
    <2>2. jobs' \in [Jobs -> JobRec \cup {NoJob}]
        <3>1. CASE UNCHANGED jobs
            BY <3>1 DEF TypeOK
        <3>2. CASE \E job \in Patched(client[c].job, client[c].patch) :
                      jobs' = [jobs EXCEPT ![client[c].job.id] = job]
            <4>1. PICK job \in Patched(client[c].job, client[c].patch) :
                      jobs' = [jobs EXCEPT ![client[c].job.id] = job]
                BY <3>2
            <4>2. clock \in Nat
                BY DEF TypeOK
            <4>3. job \in JobRec
                BY <2>1, <4>2, PatchedType
            <4> QED BY <4>1, <4>3 DEF TypeOK
        <3> QED BY <1>21, <3>1, <3>2 DEF Update
    <2> QED BY <1>21, <2>2 DEF Update, TypeOK, InFlight, flowVars
<1>22. ASSUME NEW c \in Clients, Cancel(c) PROVE TypeOK'
    <2>1. client[c].job \in JobRec
        BY <1>22 DEF Cancel, TypeOK, NoCall
    <2>2. [client[c].job EXCEPT !.status = "cancelled", !.enabled = FALSE, !.nextRunAt = Never]
            \in JobRec
        BY <2>1 DEF JobRec, Statuses
    <2> QED BY <1>22, <2>2 DEF Cancel, TypeOK, InFlight, flowVars
<1>23. ASSUME NEW c \in Clients, Delete(c) PROVE TypeOK'
    BY <1>23 DEF Delete, TypeOK, InFlight, flowVars
<1>24. CASE UNCHANGED vars
    BY <1>24 DEF vars, TypeOK, InFlight
<1> QED
    BY <1>1, <1>2, <1>3, <1>4, <1>5, <1>6, <1>7, <1>8, <1>9, <1>10, <1>11, <1>12, <1>13,
       <1>14, <1>15, <1>16, <1>17, <1>18, <1>19, <1>20, <1>21, <1>22, <1>23, <1>24
    DEF Next, Step, Fault, ClientStep

\* Every variable keeps its type in every behaviour.
THEOREM TypeCorrect == Spec => []TypeOK
BY InitType, StepType, PTL DEF Spec

-----------------------------------------------------------------------------
(* Exclusion.  The attempts with live leases are exactly backed by entries of  *)
(* the lock store, so two of them on one job would share an owner.             *)

\* An instance has one call in progress at a time: start() does not ensure it,
\* and without it the same owner acquires its own lock again.
OneCallEach == \A f, g \in Flows : Owner[f] = Owner[g] => f = g

\* The strengthening: a live attempt owns the entry of its job and its lease.
LiveOwnsEntry ==
    \A f \in Flows :
        Live(f) => lock[att[f].job.id] = [owner |-> Owner[f], expiresAt |-> att[f].lease]

\* With one call per instance, owning the entries is exclusion.
LEMMA OwnershipExcludes ==
    ASSUME OneCallEach, TypeOK, LiveOwnsEntry
    PROVE  LeaseExclusion
<1> SUFFICES ASSUME NEW f \in Flows, NEW g \in Flows, f # g, Live(f), Live(g),
                    att[f].job.id = att[g].job.id
             PROVE  FALSE
    BY DEF LeaseExclusion
<1>1. lock[att[f].job.id] = [owner |-> Owner[f], expiresAt |-> att[f].lease]
    BY Zenon DEF LiveOwnsEntry
<1>2. lock[att[g].job.id] = [owner |-> Owner[g], expiresAt |-> att[g].lease]
    BY Zenon DEF LiveOwnsEntry
<1>3. Owner[f] = Owner[g]
    BY <1>1, <1>2
<1> QED BY <1>3, Zenon DEF OneCallEach

\* An attempt keeps its job, its run and its lease from the acquisition on.
LEMMA AttemptKept ==
    ASSUME TypeOK, [Next]_vars, NEW g \in Flows, InFlight(g)', ~Acquire(g)
    PROVE  /\ InFlight(g)
           /\ att'[g].job = att[g].job /\ att'[g].run = att[g].run
           /\ att'[g].lease = att[g].lease
<1> DEFINE Kept == /\ InFlight(g)
                   /\ att'[g].job = att[g].job /\ att'[g].run = att[g].run
                   /\ att'[g].lease = att[g].lease
<1>a. \A f \in Flows : att[f] \in AttRec
    BY DEF TypeOK
<1>1. CASE UNCHANGED <<pc, att>>
    BY <1>1 DEF InFlight
<1>2. ASSUME NEW f \in Flows,
             \/ BeginTick(f) \/ \E j \in Jobs : RunNow(f, j)
             \/ SaveRun(f) \/ MarkRunning(f) \/ Finalize(f) \/ Settle(f)
      PROVE  Kept
    <2>1. f # g \/ pc[f] \in InAttempt
        BY <1>2 DEF BeginTick, RunNow, SaveRun, MarkRunning, Finalize, Settle,
                    InFlight, InAttempt, Points, TypeOK
    <2>2. att' = att /\ (g # f => pc'[g] = pc[g])
        BY <1>2 DEF BeginTick, RunNow, SaveRun, MarkRunning, Finalize, Settle, TypeOK
    <2> QED BY <2>1, <2>2 DEF InFlight
<1>3. ASSUME NEW f \in Flows, Acquire(f) PROVE Kept
    BY <1>3 DEF Acquire, TypeOK, InFlight
<1>4. ASSUME NEW f \in Flows,
             \/ HandlerSucceeds(f) \/ HandlerTimesOut(f) \/ FailRun(f)
             \/ \E error \in {"retryable", "fatal"} : HandlerFails(f, error)
             \/ TryFault(f) \/ CatchFault(f)
      PROVE  Kept
    <2>1. pc[f] \in InAttempt /\ (g # f => pc'[g] = pc[g])
        BY <1>4 DEF HandlerSucceeds, HandlerTimesOut, FailRun, HandlerFails, TryFault,
                    CatchFault, InAttempt, Points, TypeOK
    <2>2. \/ \E t \in Nat : att' = [att EXCEPT ![f] = [att[f] EXCEPT !.finishedAt = t]]
          \/ \E e \in {"none", "retryable", "fatal"} :
                 att' = [att EXCEPT ![f] = [att[f] EXCEPT !.error = e]]
          \/ att' = [att EXCEPT ![f] = [att[f] EXCEPT !.thrown = TRUE]]
        BY <1>4 DEF HandlerSucceeds, HandlerTimesOut, FailRun, HandlerFails, TryFault,
                    CatchFault, TypeOK
    <2>3. att'[g].job = att[g].job /\ att'[g].run = att[g].run /\ att'[g].lease = att[g].lease
        <3>1. CASE g # f
            BY <2>2, <3>1 DEF TypeOK
        <3>2. CASE g = f
            <4>1. att'[f] = [att[f] EXCEPT !.thrown = TRUE]
                  \/ (\E t \in Nat : att'[f] = [att[f] EXCEPT !.finishedAt = t])
                  \/ (\E e \in {"none", "retryable", "fatal"} : att'[f] = [att[f] EXCEPT !.error = e])
                BY <2>2 DEF TypeOK
            <4>2. CASE att'[f] = [att[f] EXCEPT !.thrown = TRUE]
                BY <1>a, <3>2, <4>2 DEF AttRec
            <4>3. CASE \E t \in Nat : att'[f] = [att[f] EXCEPT !.finishedAt = t]
                BY <1>a, <3>2, <4>3 DEF AttRec
            <4>4. CASE \E e \in {"none", "retryable", "fatal"} :
                           att'[f] = [att[f] EXCEPT !.error = e]
                BY <1>a, <3>2, <4>4 DEF AttRec
            <4> QED BY <4>1, <4>2, <4>3, <4>4
        <3> QED BY <3>1, <3>2
    <2> QED BY <2>1, <2>3 DEF InFlight
<1>5. ASSUME NEW f \in Flows, Release(f) \/ LockFault(f) PROVE Kept
    <2>1. pc'[f] \in {"idle", "next"}
        BY <1>5 DEF Release, LockFault, Onward, TypeOK
    <2>2. f # g
        BY <2>1 DEF InFlight, InAttempt
    <2> QED BY <1>5, <2>2 DEF Release, LockFault, InFlight, TypeOK
<1>6. ASSUME NEW i \in Instances, Crash(i) PROVE Kept
    BY <1>6 DEF Crash, InFlight, InAttempt, TypeOK
<1> QED
    <2>1. CASE Tick \/ (\E r \in orphans : OrphanEnds(r))
               \/ (\E j \in Jobs, in \in Inputs : Schedule(j, in))
               \/ (\E c \in Clients : ClientStep(c)) \/ UNCHANGED vars
        BY <1>1, <2>1 DEF Tick, OrphanEnds, Schedule, ClientStep, Require, Update, Cancel,
                          Delete, flowVars, vars
    <2> QED BY <1>2, <1>3, <1>4, <1>5, <1>6, <2>1 DEF Next, Step, Fault

\* Only an acquisition or a release writes the lock store.
LEMMA LockKept ==
    ASSUME [Next]_vars, ~UNCHANGED lock
    PROVE  \E f \in Flows : Acquire(f) \/ Release(f)
BY DEF Next, vars, Tick, BeginTick, RunNow, Step, SaveRun, MarkRunning, HandlerSucceeds,
       HandlerFails, HandlerTimesOut, FailRun, Finalize, Settle, Fault, TryFault, CatchFault,
       LockFault, OrphanEnds, Crash, Schedule, ClientStep, Require, Update, Cancel, Delete,
       store

\* Time only goes on, and an acquisition or a release takes none.
LEMMA ClockKept ==
    ASSUME TypeOK, [Next]_vars
    PROVE  /\ clock' \in Nat /\ clock <= clock'
           /\ \A f \in Flows : Acquire(f) \/ Release(f) => clock' = clock
<1>1. clock' = clock \/ clock' = clock + 1
    BY DEF Next, vars, Tick, BeginTick, RunNow, Step, Acquire, SaveRun, MarkRunning,
           HandlerSucceeds, HandlerFails, HandlerTimesOut, FailRun, Finalize, Settle,
           Release, Fault, TryFault, CatchFault, LockFault, OrphanEnds, Crash, Schedule,
           ClientStep, Require, Update, Cancel, Delete
<1>2. clock \in Nat
    BY DEF TypeOK
<1>3. \A f \in Flows : Acquire(f) \/ Release(f) => clock' = clock
    BY DEF Acquire, Release
<1> QED BY <1>1, <1>2, <1>3

\* What leaves the attempts and the entries alone, time aside, keeps the
\* strengthening.
LEMMA OwnershipFrame ==
    ASSUME LiveOwnsEntry, UNCHANGED lock, clock \in Nat, clock' \in Nat, clock <= clock',
           \A f \in Flows : att[f].lease \in Nat,
           \A f \in Flows : InFlight(f)' =>
               InFlight(f) /\ att'[f].job = att[f].job /\ att'[f].lease = att[f].lease
    PROVE  LiveOwnsEntry'
BY DEF LiveOwnsEntry, Live

\* An acquisition makes its attempt the owner of an entry no live attempt owns.
LEMMA AcquireOwns ==
    ASSUME TypeOK, OneCallEach, LiveOwnsEntry, NEW f \in Flows, Acquire(f)
    PROVE  LiveOwnsEntry'
<1> USE BoundsAssumption
<1> SUFFICES ASSUME NEW g \in Flows, Live(g)'
             PROVE  (lock[att[g].job.id] = [owner |-> Owner[g], expiresAt |-> att[g].lease])'
    BY DEF LiveOwnsEntry
<1>1. clock' = clock /\ clock \in Nat
    BY DEF Acquire, TypeOK
<1>2. PICK job \in Pop(queue[f]) :
          \/ /\ pc' = [pc EXCEPT ![f] = Onward(queue[f] \ {job})]
             /\ UNCHANGED <<lock, att>>
          \/ /\ CanAcquire(job.id, Owner[f])
             /\ lock' = [lock EXCEPT ![job.id] =
                           [owner |-> Owner[f], expiresAt |-> clock + LockTtl]]
             /\ att' = [att EXCEPT ![f] =
                          [NoAttempt EXCEPT !.job = job, !.run = Len(runs) + 1,
                                            !.lease = clock + LockTtl]]
             /\ pc' = [pc EXCEPT ![f] = "save"]
    BY DEF Acquire
<1>3. CASE /\ pc' = [pc EXCEPT ![f] = Onward(queue[f] \ {job})]
           /\ UNCHANGED <<lock, att>>
    <2>1. Live(g)
        BY <1>1, <1>3 DEF Live, InFlight, InAttempt, Onward, TypeOK
    <2> QED BY <1>3, <2>1 DEF LiveOwnsEntry
<1>4. CASE /\ CanAcquire(job.id, Owner[f])
           /\ lock' = [lock EXCEPT ![job.id] =
                         [owner |-> Owner[f], expiresAt |-> clock + LockTtl]]
           /\ att' = [att EXCEPT ![f] =
                        [NoAttempt EXCEPT !.job = job, !.run = Len(runs) + 1,
                                          !.lease = clock + LockTtl]]
           /\ pc' = [pc EXCEPT ![f] = "save"]
    <2>1. job \in JobRec /\ job.id \in Jobs
        BY DEF Pop, TypeOK, JobRec
    <2>2. CASE g = f
        <3>1. att'[g].job = job /\ att'[g].lease = clock + LockTtl
            BY <1>4, <2>2 DEF TypeOK, NoAttempt
        <3>2. lock'[job.id] = [owner |-> Owner[f], expiresAt |-> clock + LockTtl]
            BY <1>4, <2>1 DEF TypeOK
        <3> QED BY <2>2, <3>1, <3>2
    <2>3. CASE g # f
        <3>1. att'[g] = att[g] /\ Live(g)
            BY <1>1, <1>4, <2>3 DEF Live, InFlight, TypeOK
        <3>2. lock[att[g].job.id] = [owner |-> Owner[g], expiresAt |-> att[g].lease]
            BY <3>1 DEF LiveOwnsEntry
        <3>3. att[g].job.id # job.id
            <4> SUFFICES ASSUME att[g].job.id = job.id PROVE FALSE
                OBVIOUS
            <4>1. lock[job.id].owner = Owner[g] /\ lock[job.id].expiresAt = att[g].lease
                BY <3>2
            <4>2. clock < att[g].lease /\ att[g].lease \in Nat
                BY <3>1 DEF Live, TypeOK, AttRec
            <4>3. Owner[g] # Owner[f] /\ Owner[g] # NoOwner
                BY <2>3, SetsAssumption, NullAssumption DEF OneCallEach
            <4> QED BY <1>1, <1>4, <4>1, <4>2, <4>3 DEF CanAcquire
        <3>4. att[g].job.id \in Jobs
            BY <3>1 DEF Live, TypeOK, JobRec
        <3>5. lock'[att[g].job.id] = lock[att[g].job.id]
            BY <1>4, <3>3, <3>4 DEF TypeOK
        <3> QED BY <3>1, <3>2, <3>5
    <2> QED BY <2>2, <2>3
<1> QED BY <1>2, <1>3, <1>4

\* A release deletes no entry a live attempt of another instance owns.
LEMMA ReleaseOwns ==
    ASSUME TypeOK, OneCallEach, LiveOwnsEntry, NEW f \in Flows, Release(f)
    PROVE  LiveOwnsEntry'
<1> SUFFICES ASSUME NEW g \in Flows, Live(g)'
             PROVE  (lock[att[g].job.id] = [owner |-> Owner[g], expiresAt |-> att[g].lease])'
    BY DEF LiveOwnsEntry
<1>1. g # f
    BY DEF Release, Live, InFlight, InAttempt, Onward, TypeOK
<1>2. att'[g] = att[g] /\ Live(g)
    BY <1>1 DEF Release, Live, InFlight, TypeOK
<1>3. lock[att[g].job.id] = [owner |-> Owner[g], expiresAt |-> att[g].lease]
    BY <1>2 DEF LiveOwnsEntry
<1>4. Owner[g] # Owner[f]
    BY <1>1 DEF OneCallEach
<1>5. lock' = [lock EXCEPT ![att[f].job.id] =
                 IF lock[att[f].job.id].owner = Owner[f] THEN NoLock ELSE lock[att[f].job.id]]
    BY DEF Release
<1>6. lock'[att[g].job.id] = lock[att[g].job.id]
    <2>1. CASE att[g].job.id = att[f].job.id
        <3>1. lock[att[f].job.id].owner = Owner[g]
            BY <1>3, <2>1
        <3> QED BY <1>4, <1>5, <2>1, <3>1 DEF TypeOK
    <2>2. CASE att[g].job.id # att[f].job.id
        BY <1>5, <2>2 DEF TypeOK
    <2> QED BY <2>1, <2>2
<1> QED BY <1>2, <1>3, <1>6

LEMMA StepOwns ==
    ASSUME TypeOK, OneCallEach, LiveOwnsEntry, [Next]_vars
    PROVE  LiveOwnsEntry'
<1>1. CASE \E f \in Flows : Acquire(f) \/ Release(f)
    BY <1>1, AcquireOwns, ReleaseOwns
<1>2. CASE ~\E f \in Flows : Acquire(f) \/ Release(f)
    <2>1. UNCHANGED lock
        BY <1>2, LockKept
    <2>2. \A f \in Flows : InFlight(f)' =>
              InFlight(f) /\ att'[f].job = att[f].job /\ att'[f].lease = att[f].lease
        BY <1>2, AttemptKept
    <2>3. clock \in Nat /\ clock' \in Nat /\ clock <= clock'
        BY ClockKept DEF TypeOK
    <2>4. \A f \in Flows : att[f].lease \in Nat
        BY DEF TypeOK, AttRec
    <2> QED BY <2>1, <2>2, <2>3, <2>4, OwnershipFrame
<1> QED BY <1>1, <1>2

\* With one call per instance, no two attempts on one job ever hold live leases
\* together, whatever callers do, whichever repository calls are rejected and
\* whichever instances crash.
THEOREM LeasesExclude == ASSUME OneCallEach PROVE Spec => []LeaseExclusion
<1>1. Init => LiveOwnsEntry
    BY DEF Init, LiveOwnsEntry, Live, InFlight, InAttempt
<1>2. TypeOK /\ LiveOwnsEntry /\ [Next]_vars => LiveOwnsEntry'
    BY StepOwns
<1>3. TypeOK /\ LiveOwnsEntry => LeaseExclusion
    BY OwnershipExcludes
<1> QED BY <1>1, <1>2, <1>3, TypeCorrect, PTL DEF Spec

-----------------------------------------------------------------------------
(* Refinement: the scheduler implements LeasedMutex. *)

\* A live attempt that did not begin in this step was live on the same job before.
LEMMA LiveKept ==
    ASSUME TypeOK, [Next]_vars, NEW g \in Flows, Live(g)', ~Acquire(g)
    PROVE  Live(g) /\ att'[g].job = att[g].job
<1>1. InFlight(g) /\ att'[g].job = att[g].job /\ att'[g].lease = att[g].lease
    BY AttemptKept DEF Live
<1>2. clock \in Nat /\ clock' \in Nat /\ clock <= clock' /\ att[g].lease \in Nat
    BY ClockKept DEF TypeOK, AttRec
<1> QED BY <1>1, <1>2 DEF Live

\* An acquisition that makes its flow live enters the key; any other step leaves
\* some keys, or none.
LEMMA StepRefines ==
    ASSUME TypeOK, TypeOK', LeaseExclusion', [Next]_vars
    PROVE  [Mutex!Next]_inside
<1> DEFINE Inside(g) == IF Live(g) THEN att[g].job.id ELSE NoJob
<1>a. inside = [g \in Flows |-> Inside(g)] /\ inside' = [g \in Flows |-> Inside(g)']
    BY DEF inside
<1>1. CASE \E f \in Flows : Acquire(f) /\ Live(f)'
    <2>1. PICK f \in Flows : Acquire(f) /\ Live(f)'
        BY <1>1
    <2>2. ~Live(f)
        BY <2>1 DEF Acquire, Live, InFlight, InAttempt
    <2>3. \A g \in Flows \ {f} : Inside(g)' = Inside(g)
        BY <2>1 DEF Acquire, Live, InFlight, TypeOK
    <2>4. att'[f].job.id \in Jobs
        BY <2>1 DEF TypeOK, Live, JobRec
    <2>5. \A g \in Flows : Inside(g) # att'[f].job.id
        <3>1. \A g \in Flows \ {f} : Inside(g)' # att'[f].job.id
            BY <2>1, <2>4, NullAssumption DEF LeaseExclusion
        <3> QED BY <2>2, <2>3, <2>4, <3>1, NullAssumption
    <2>6. inside' = [inside EXCEPT ![f] = att'[f].job.id]
        BY <1>a, <2>1, <2>3
    <2>7. Mutex!Enter(f, att'[f].job.id)
        <3> HIDE DEF Inside
        <3>1. inside[f] = NoJob
            BY <1>a, <2>2 DEF Inside
        <3> QED BY <1>a, <2>5, <2>6, <3>1 DEF Mutex!Enter
    <2> QED BY <2>4, <2>7 DEF Mutex!Next
<1>2. CASE ~\E f \in Flows : Acquire(f) /\ Live(f)'
    <2> DEFINE W == {g \in Flows : ~Live(g)'}
    <2>1. \A g \in Flows : Live(g)' => Inside(g)' = Inside(g)
        BY <1>2, LiveKept
    <2>2. inside' = [g \in Flows |-> IF g \in W THEN NoJob ELSE inside[g]]
        BY <1>a, <2>1
    <2>3. Mutex!Leave(W)
        BY <2>2 DEF Mutex!Leave
    <2> QED BY <2>3 DEF Mutex!Next
<1> QED BY <1>1, <1>2

\* With one call per instance, the lock store, its expiring leases and the attempts
\* implement the mutual exclusion that DistributedLock promises.
THEOREM ImplementsMutex == ASSUME OneCallEach PROVE Spec => MutexSpec
<1>1. Init => Mutex!Init
    BY DEF Init, Mutex!Init, inside, Live, InFlight, InAttempt
<1>2. TypeOK /\ TypeOK' /\ LeaseExclusion' /\ [Next]_vars => [Mutex!Next]_inside
    BY StepRefines
<1> QED BY <1>1, <1>2, TypeCorrect, LeasesExclude, PTL DEF Spec, MutexSpec, Mutex!Spec

-----------------------------------------------------------------------------
(* The attempt budget.                                                         *)

\* The promise is about ticks: runNow and update may start a job beyond it.
TicksOnly == Operations \cap {"update", "runNow"} = {}

\* A one-shot job within its budget of maxRetries + 1 attempts.
Within(job) == Oneshot(job) => job.attempts <= job.maxRetries

\* The strengthening: whatever may still be attempted is within its budget, the
\* stored pending jobs, the snapshots of the queues and those of the attempts.
BudgetInv ==
    /\ \A j \in Jobs : jobs[j] # NoJob /\ jobs[j].status = "pending" => Within(jobs[j])
    /\ \A f \in Flows : \A job \in queue[f] : Within(job)
    /\ \A f \in Flows : InFlight(f) => Within(att[f].job)
    /\ \A c \in Clients : client[c].op # "update"

\* Callers that do not use update carry no patch.
NoUpdates == "update" \notin Operations
LEMMA NoPatchKept ==
    ASSUME TypeOK, NoUpdates, [Next]_vars, \A c \in Clients : client[c].op # "update"
    PROVE  \A c \in Clients : client'[c].op # "update"
<1>1. ASSUME NEW c \in Clients, NEW j \in Jobs, NEW patch, Require(c, "update", j, patch)
      PROVE  FALSE
    BY <1>1 DEF Require, Call, NoUpdates
<1>2. ASSUME NEW c \in Clients, NEW j \in Jobs, NEW op \in {"cancel", "delete"},
             Require(c, op, j, Keep)
      PROVE  \A d \in Clients : client'[d].op # "update"
    <2>1. client' = [client EXCEPT ![c] = [op |-> op, job |-> jobs[j], patch |-> Keep]]
        BY <1>2 DEF Require
    <2>2. \A d \in Clients : d # c => client'[d] = client[d]
        BY <2>1 DEF TypeOK
    <2>3. client'[c].op = op
        BY <2>1 DEF TypeOK
    <2> QED BY <2>2, <2>3
<1>3. ASSUME NEW c \in Clients, Update(c) \/ Cancel(c) \/ Delete(c)
      PROVE  \A d \in Clients : client'[d].op # "update"
    <2>1. client' = [client EXCEPT ![c] = NoCall]
        BY <1>3 DEF Update, Cancel, Delete
    <2>2. NoCall.op # "update"
        BY DEF NoCall
    <2> QED BY <2>1, <2>2 DEF TypeOK
<1>4. CASE UNCHANGED client
    BY <1>4
<1>5. UNCHANGED client \/ \E c \in Clients : ClientStep(c)
    BY DEF Next, vars, Tick, BeginTick, RunNow, Step, Acquire, SaveRun, MarkRunning,
           HandlerSucceeds, HandlerFails, HandlerTimesOut, FailRun, Finalize, Settle,
           Release, Fault, TryFault, CatchFault, LockFault, OrphanEnds, Crash, Schedule
<1> QED BY <1>1, <1>2, <1>3, <1>4, <1>5 DEF ClientStep

\* Nothing is taken into a queue but jobs that are stored as pending.
LEMMA QueueSource ==
    ASSUME TypeOK, TicksOnly, [Next]_vars, NEW f \in Flows, NEW job \in queue'[f]
    PROVE  job \in queue[f] \/ (\E j \in Jobs : job = jobs[j] /\ jobs[j] # NoJob
                                                /\ jobs[j].status = "pending")
<1>1. CASE BeginTick(f)
    BY <1>1 DEF BeginTick, FirstOf, DueJobs, IsDue, TypeOK
<1>2. CASE Acquire(f)
    BY <1>2 DEF Acquire, TypeOK
<1>3. CASE Release(f)
    BY <1>3 DEF Release, TypeOK
<1>4. CASE LockFault(f)
    BY <1>4 DEF LockFault, TypeOK
<1>5. CASE \E i \in Instances : Crash(i)
    BY <1>5 DEF Crash, TypeOK
<1>6. CASE queue'[f] = queue[f]
    BY <1>6
<1>7. ASSUME NEW g \in Flows, g # f, BeginTick(g) \/ Acquire(g) \/ Release(g) \/ LockFault(g)
      PROVE  queue'[f] = queue[f]
    BY <1>7 DEF BeginTick, Acquire, Release, LockFault, TypeOK
<1>8. ASSUME NEW g \in Flows, NEW j \in Jobs, RunNow(g, j) PROVE FALSE
    BY <1>8 DEF RunNow, TicksOnly
<1> QED
    <2>1. \/ UNCHANGED queue
          \/ \E g \in Flows : BeginTick(g) \/ Acquire(g) \/ Release(g) \/ LockFault(g)
          \/ \E g \in Flows, j \in Jobs : RunNow(g, j)
          \/ \E i \in Instances : Crash(i)
        BY DEF Next, vars, Tick, Step, SaveRun, MarkRunning, HandlerSucceeds, HandlerFails,
               HandlerTimesOut, FailRun, Finalize, Settle, Fault, TryFault, CatchFault,
               OrphanEnds, Schedule, ClientStep, Require, Update, Cancel, Delete, flowVars
    <2> QED BY <1>1, <1>2, <1>3, <1>4, <1>5, <1>6, <1>7, <1>8, <2>1

\* What an attempt within its budget stores as pending is within its budget.
LEMMA OutcomeWithin ==
    ASSUME NEW job \in JobRec, Within(job), NEW at \in Nat
    PROVE  /\ \A outcome \in {"succeeded", "failed"} : \A new \in Finalized(job, at, outcome) :
                  new.status = "pending" => Within(new)
           /\ \A delay \in Nat, error \in {"none", "retryable", "fatal"} :
                  ShouldRetry(job, error) => Within(Retried(job, at, delay))
<1>1. \A outcome \in {"succeeded", "failed"} : \A new \in Finalized(job, at, outcome) :
          new.status = "pending" => Within(new)
    <2> SUFFICES ASSUME NEW outcome \in {"succeeded", "failed"},
                        NEW new \in Finalized(job, at, outcome), new.status = "pending"
                 PROVE  new.cron # {}
        BY DEF Within, Oneshot
    <2>1. Running(job) \in JobRec /\ Running(job).cron = job.cron
        BY RunningType DEF Running, JobRec
    <2>2. CASE NextFires(job.cron, at) = {}
        BY <2>1, <2>2 DEF Finalized, JobRec
    <2>3. CASE NextFires(job.cron, at) # {}
        <3>1. job.cron # {}
            BY <2>3 DEF NextFires
        <3>2. PICK t \in NextFires(job.cron, at) :
                  new = [Running(job) EXCEPT !.status = "pending", !.nextRunAt = t]
            BY <2>3 DEF Finalized
        <3>3. new.cron = Running(job).cron
            BY <2>1, <3>2 DEF JobRec
        <3> QED BY <2>1, <3>1, <3>3
    <2> QED BY <2>2, <2>3
<1>2. ASSUME NEW delay \in Nat, NEW error \in {"none", "retryable", "fatal"},
             ShouldRetry(job, error)
      PROVE  Within(Retried(job, at, delay))
    BY <1>2 DEF Within, Oneshot, ShouldRetry, Retried, JobRec
<1> QED BY <1>1, <1>2

\* Every record a step stores as pending is within its budget.
LEMMA StoredWithin ==
    ASSUME TypeOK, TicksOnly, BudgetInv, [Next]_vars, NEW j \in Jobs,
           jobs'[j] # NoJob, jobs'[j].status = "pending"
    PROVE  Within(jobs'[j])
<1> USE SetsAssumption, BoundsAssumption
<1>1. CASE jobs'[j] = jobs[j]
    BY <1>1 DEF BudgetInv
<1>2. ASSUME NEW f \in Flows, MarkRunning(f) PROVE Within(jobs'[j])
    <2>1. att[f].job \in JobRec
        BY <1>2 DEF MarkRunning, TypeOK, InFlight, InAttempt, Points
    <2>2. Running(att[f].job).status = "running"
        BY <2>1 DEF Running, JobRec
    <2> QED BY <1>1, <1>2, <2>2 DEF MarkRunning, Write, TypeOK
<1>3. ASSUME NEW f \in Flows, Finalize(f) PROVE Within(jobs'[j])
    <2>1. InFlight(f) /\ att[f].job \in JobRec /\ Within(att[f].job) /\ att[f].finishedAt \in Nat
        BY <1>3 DEF Finalize, TypeOK, InFlight, InAttempt, Points, BudgetInv, AttRec
    <2>2. PICK new \in Finalized(att[f].job, att[f].finishedAt, "succeeded") : Write(f, new)
        BY <1>3 DEF Finalize
    <2>3. new.status = "pending" => Within(new)
        BY <2>1, OutcomeWithin
    <2> QED BY <1>1, <2>2, <2>3 DEF Write, TypeOK
<1>4. ASSUME NEW f \in Flows, Settle(f) PROVE Within(jobs'[j])
    <2>1. /\ InFlight(f) /\ att[f].job \in JobRec /\ Within(att[f].job)
          /\ att[f].finishedAt \in Nat /\ att[f].error \in {"none", "retryable", "fatal"}
        BY <1>4 DEF Settle, TypeOK, InFlight, InAttempt, Points, BudgetInv, AttRec
    <2>2. \E new : Write(f, new) /\ (new.status = "pending" => Within(new))
        <3>1. CASE /\ ShouldRetry(att[f].job, att[f].error)
                   /\ \E delay \in 0..MaxBackoff :
                         Write(f, Retried(att[f].job, att[f].finishedAt, delay))
            <4>1. PICK delay \in 0..MaxBackoff :
                      Write(f, Retried(att[f].job, att[f].finishedAt, delay))
                BY <3>1
            <4>2. delay \in Nat
                OBVIOUS
            <4>3. Within(Retried(att[f].job, att[f].finishedAt, delay))
                BY <2>1, <3>1, <4>2, OutcomeWithin
            <4> QED BY <4>1, <4>3
        <3>2. CASE \E new \in Finalized(att[f].job, att[f].finishedAt, "failed") : Write(f, new)
            BY <2>1, <3>2, OutcomeWithin
        <3> QED BY <1>4, <3>1, <3>2 DEF Settle
    <2> QED BY <1>1, <2>2 DEF Write, TypeOK
<1>5. ASSUME NEW i \in Jobs, NEW in \in Inputs, Schedule(i, in) PROVE Within(jobs'[j])
    <2> DEFINE new(t) == [id |-> i, cron |-> in.cron, priority |-> in.priority,
                          maxRetries |-> in.maxRetries, backoff |-> in.backoff,
                          timed |-> in.timed, enabled |-> TRUE, status |-> "pending",
                          attempts |-> 0, nextRunAt |-> t]
    <2>1. PICK t : jobs' = [jobs EXCEPT ![i] = new(t)]
        BY <1>5 DEF Schedule
    <2>2. in.maxRetries \in Nat
        BY DEF InputRec
    <2>3. Within(new(t))
        BY <2>2 DEF Within
    <2> HIDE DEF new
    <2> QED BY <1>1, <2>1, <2>3 DEF TypeOK
<1>6. ASSUME NEW c \in Clients, Cancel(c) PROVE Within(jobs'[j])
    <2>1. client[c].job \in JobRec
        BY <1>6 DEF Cancel, TypeOK, NoCall
    <2>2. [client[c].job EXCEPT !.status = "cancelled", !.enabled = FALSE,
                                !.nextRunAt = Never].status = "cancelled"
        BY <2>1 DEF JobRec
    <2> QED BY <1>1, <1>6, <2>2 DEF Cancel, TypeOK
<1>7. ASSUME NEW c \in Clients, Delete(c) PROVE Within(jobs'[j])
    BY <1>1, <1>7 DEF Delete, TypeOK
<1>8. ASSUME NEW c \in Clients, Update(c) PROVE Within(jobs'[j])
    BY <1>8 DEF Update, BudgetInv
<1> QED
    <2>1. \/ UNCHANGED jobs
          \/ \E f \in Flows : MarkRunning(f) \/ Finalize(f) \/ Settle(f)
          \/ \E i \in Jobs, in \in Inputs : Schedule(i, in)
          \/ \E c \in Clients : Cancel(c) \/ Delete(c) \/ Update(c)
        BY DEF Next, vars, Tick, BeginTick, RunNow, Step, Acquire, SaveRun, HandlerSucceeds,
               HandlerFails, HandlerTimesOut, FailRun, Release, Fault, TryFault, CatchFault,
               LockFault, OrphanEnds, Crash, ClientStep, Require, store
    <2> QED BY <1>1, <1>2, <1>3, <1>4, <1>5, <1>6, <1>7, <1>8, <2>1

LEMMA StepBudget ==
    ASSUME TypeOK, TicksOnly, BudgetInv, [Next]_vars
    PROVE  BudgetInv'
<1>1. \A j \in Jobs : jobs'[j] # NoJob /\ jobs'[j].status = "pending" => Within(jobs'[j])
    BY StoredWithin
<1>2. ASSUME NEW f \in Flows, NEW job \in queue'[f] PROVE Within(job)
    BY <1>2, QueueSource DEF BudgetInv
<1>3. ASSUME NEW f \in Flows, InFlight(f)' PROVE Within(att'[f].job)
    <2>1. CASE Acquire(f)
        <3>1. PICK job \in Pop(queue[f]) :
                  \/ pc' = [pc EXCEPT ![f] = Onward(queue[f] \ {job})]
                  \/ att' = [att EXCEPT ![f] =
                               [NoAttempt EXCEPT !.job = job, !.run = Len(runs) + 1,
                                                 !.lease = clock + LockTtl]]
            BY <2>1 DEF Acquire
        <3>2. CASE pc' = [pc EXCEPT ![f] = Onward(queue[f] \ {job})]
            BY <1>3, <3>2 DEF TypeOK, InFlight, InAttempt, Onward
        <3>3. CASE att' = [att EXCEPT ![f] =
                             [NoAttempt EXCEPT !.job = job, !.run = Len(runs) + 1,
                                               !.lease = clock + LockTtl]]
            <4>1. att'[f].job = job
                BY <3>3 DEF TypeOK, NoAttempt
            <4> QED BY <4>1 DEF Pop, BudgetInv
        <3> QED BY <3>1, <3>2, <3>3
    <2>2. CASE ~Acquire(f)
        BY <1>3, <2>2, AttemptKept DEF BudgetInv
    <2> QED BY <2>1, <2>2
<1>4. \A c \in Clients : client'[c].op # "update"
    BY NoPatchKept DEF BudgetInv, TicksOnly, NoUpdates
<1> QED BY <1>1, <1>2, <1>3, <1>4, Zenon DEF BudgetInv

\* Without runNow and update, no stored record and no snapshot of a one-shot job has a
\* counter beyond its maxRetries, though stale snapshots of it are written back over each
\* other, whatever is cancelled, deleted, rejected, and whoever crashes. Of how often the
\* job is attempted this says nothing: that is OneShotWorkBounded, for one call at a time.
THEOREM BudgetHolds == ASSUME TicksOnly PROVE Spec => []AttemptBudget
<1>1. Init => BudgetInv
    BY DEF Init, BudgetInv, InFlight, InAttempt, NoCall
<1>2. TypeOK /\ BudgetInv /\ [Next]_vars => BudgetInv'
    BY StepBudget
<1>3. BudgetInv => AttemptBudget
    BY DEF BudgetInv, AttemptBudget, Within
<1> QED BY <1>1, <1>2, <1>3, TypeCorrect, PTL DEF Spec

-----------------------------------------------------------------------------
(* Jobs stored as running, as long as nothing is rejected.                     *)

\* A flow that will still write the outcome of its attempt.
Owes(f) == pc[f] \in {"exec", "fail", "finalize", "settle"}

\* A step after which nothing was rejected yet is not a rejection or a crash.
LEMMA NoFault ==
    ASSUME TypeOK, [Next]_vars, faults' = 0
    PROVE  /\ \A f \in Flows : ~Fault(f)
           /\ \A i \in Instances : ~Crash(i)
           /\ faults = 0
<1>1. \A f \in Flows : ~Fault(f)
    BY DEF Fault, TryFault, CatchFault, LockFault, TypeOK
<1>2. \A i \in Instances : ~Crash(i)
    BY DEF Crash, TypeOK
<1>3. faults' = faults
    BY <1>1, <1>2 DEF Next, vars, Tick, BeginTick, RunNow, Step, Acquire, SaveRun, MarkRunning,
           HandlerSucceeds, HandlerFails, HandlerTimesOut, FailRun, Finalize, Settle, Release,
           OrphanEnds, Schedule, ClientStep, Require, Update, Cancel, Delete
<1> QED BY <1>1, <1>2, <1>3

\* The strengthening: no caller carries a patch, so nothing but MarkRunning stores
\* a job as running.
RunningInv == RunningMeansInFlight /\ \A c \in Clients : client[c].op # "update"

\* The outcome of an attempt is never that its job is running.
LEMMA OutcomeNotRunning ==
    ASSUME TypeOK, NEW f \in Flows, Finalize(f) \/ Settle(f)
    PROVE  \E new \in JobRec : new.status # "running" /\ Write(f, new)
<1>a. /\ att[f].job \in JobRec /\ att[f].finishedAt \in Nat
    BY DEF Finalize, Settle, TypeOK, InFlight, InAttempt, Points, AttRec
<1>b. \A outcome \in {"succeeded", "failed"} :
          \A new \in Finalized(att[f].job, att[f].finishedAt, outcome) : new.status # "running"
    <2> SUFFICES ASSUME NEW outcome \in {"succeeded", "failed"},
                        NEW new \in Finalized(att[f].job, att[f].finishedAt, outcome)
                 PROVE  new.status # "running"
        OBVIOUS
    <2> DEFINE next == NextFires(att[f].job.cron, att[f].finishedAt)
    <2>1. Running(att[f].job) \in JobRec
        BY <1>a, RunningType
    <2>2. CASE next = {}
        BY <2>1, <2>2 DEF Finalized, JobRec
    <2>3. CASE next # {}
        <3>1. PICK t \in next :
                  new = [Running(att[f].job) EXCEPT !.status = "pending", !.nextRunAt = t]
            BY <2>3 DEF Finalized
        <3> QED BY <2>1, <3>1 DEF JobRec
    <2> QED BY <2>2, <2>3
<1>1. CASE \E new \in Finalized(att[f].job, att[f].finishedAt, "succeeded") : Write(f, new)
    BY <1>a, <1>b, <1>1, FinalizedType
<1>2. CASE \E new \in Finalized(att[f].job, att[f].finishedAt, "failed") : Write(f, new)
    BY <1>a, <1>b, <1>2, FinalizedType
<1>3. CASE \E delay \in 0..MaxBackoff :
               Write(f, Retried(att[f].job, att[f].finishedAt, delay))
    <2>1. PICK delay \in 0..MaxBackoff :
              Write(f, Retried(att[f].job, att[f].finishedAt, delay))
        BY <1>3
    <2>2. delay \in Nat
        BY BoundsAssumption
    <2>3. Retried(att[f].job, att[f].finishedAt, delay).status # "running"
        BY <1>a DEF Retried, JobRec
    <2> QED BY <1>a, <2>1, <2>2, <2>3, RetriedType
<1> QED BY <1>1, <1>2, <1>3 DEF Finalize, Settle

\* Only MarkRunning stores a job as running.
LEMMA RunningWrite ==
    ASSUME TypeOK, [Next]_vars, \A c \in Clients : client[c].op # "update",
           NEW j \in Jobs, jobs'[j] # NoJob, jobs'[j].status = "running"
    PROVE  jobs'[j] = jobs[j] \/ \E f \in Flows : MarkRunning(f) /\ att[f].job.id = j
<1> SUFFICES ASSUME jobs'[j] # jobs[j]
             PROVE  \E f \in Flows : MarkRunning(f) /\ att[f].job.id = j
    OBVIOUS
<1>1. ASSUME NEW f \in Flows, MarkRunning(f) PROVE att[f].job.id = j
    BY <1>1 DEF MarkRunning, Write, TypeOK
<1>2. ASSUME NEW f \in Flows, Finalize(f) \/ Settle(f) PROVE FALSE
    BY <1>2, OutcomeNotRunning DEF Write, TypeOK
<1>3. ASSUME NEW i \in Jobs, NEW in \in Inputs, Schedule(i, in) PROVE FALSE
    <2> DEFINE new(t) == [id |-> i, cron |-> in.cron, priority |-> in.priority,
                          maxRetries |-> in.maxRetries, backoff |-> in.backoff,
                          timed |-> in.timed, enabled |-> TRUE, status |-> "pending",
                          attempts |-> 0, nextRunAt |-> t]
    <2>1. PICK t : jobs' = [jobs EXCEPT ![i] = new(t)]
        BY <1>3 DEF Schedule
    <2>2. new(t).status = "pending"
        OBVIOUS
    <2> HIDE DEF new
    <2> QED BY <2>1, <2>2 DEF TypeOK
<1>4. ASSUME NEW c \in Clients, Cancel(c) PROVE FALSE
    <2>1. client[c].job \in JobRec
        BY <1>4 DEF Cancel, TypeOK, NoCall
    <2>2. [client[c].job EXCEPT !.status = "cancelled", !.enabled = FALSE,
                                !.nextRunAt = Never].status = "cancelled"
        BY <2>1 DEF JobRec
    <2> QED BY <1>4, <2>2 DEF Cancel, TypeOK
<1>5. ASSUME NEW c \in Clients, Delete(c) PROVE FALSE
    BY <1>5 DEF Delete, TypeOK
<1> QED
    <2>1. \/ UNCHANGED jobs
          \/ \E f \in Flows : MarkRunning(f) \/ Finalize(f) \/ Settle(f)
          \/ \E i \in Jobs, in \in Inputs : Schedule(i, in)
          \/ \E c \in Clients : Cancel(c) \/ Delete(c) \/ Update(c)
        BY DEF Next, vars, Tick, BeginTick, RunNow, Step, Acquire, SaveRun, HandlerSucceeds,
               HandlerFails, HandlerTimesOut, FailRun, Release, Fault, TryFault, CatchFault,
               LockFault, OrphanEnds, Crash, ClientStep, Require, store
    <2>2. \A c \in Clients : ~Update(c)
        BY DEF Update
    <2> QED BY <1>1, <1>2, <1>3, <1>4, <1>5, <2>1, <2>2

\* A flow stops owing an outcome only by storing it.
LEMMA OwesKept ==
    ASSUME TypeOK, [Next]_vars, faults' = 0, NEW f \in Flows, Owes(f),
           ~Finalize(f), ~Settle(f)
    PROVE  Owes(f)' /\ att'[f].job = att[f].job
<1>1. Owes(f)'
    <2>1. CASE UNCHANGED pc
        BY <2>1 DEF Owes
    <2>2. CASE \E g \in Flows : g # f /\ (BeginTick(g) \/ Step(g) \/ HandlerTimesOut(g)
                                           \/ \E j \in Jobs : RunNow(g, j))
        <3>1. PICK g \in Flows : g # f /\ (BeginTick(g) \/ Step(g) \/ HandlerTimesOut(g)
                                            \/ \E j \in Jobs : RunNow(g, j))
            BY <2>2
        <3>2. \E p : pc' = [pc EXCEPT ![g] = p]
            BY <3>1 DEF BeginTick, RunNow, Step, Acquire, SaveRun, MarkRunning,
                   HandlerSucceeds, HandlerFails, HandlerTimesOut, FailRun, Finalize,
                   Settle, Release
        <3>3. pc'[f] = pc[f]
            BY <3>1, <3>2 DEF TypeOK
        <3> QED BY <3>3 DEF Owes
    <2>3. CASE BeginTick(f) \/ Step(f) \/ HandlerTimesOut(f) \/ \E j \in Jobs : RunNow(f, j)
        BY <2>3 DEF Owes, BeginTick, RunNow, Step, Acquire, SaveRun, MarkRunning,
               HandlerSucceeds, HandlerFails, HandlerTimesOut, FailRun, Release, TypeOK
    <2>4. \/ UNCHANGED pc
          \/ \E g \in Flows : \/ BeginTick(g) \/ Step(g) \/ HandlerTimesOut(g)
                              \/ \E j \in Jobs : RunNow(g, j)
        BY NoFault DEF Next, vars, Tick, OrphanEnds, Schedule, ClientStep, Require, Update,
               Cancel, Delete, flowVars
    <2> QED BY <2>1, <2>2, <2>3, <2>4
<1>2. InFlight(f)' /\ ~Acquire(f)
    BY <1>1 DEF Owes, InFlight, InAttempt, Points, Acquire
<1> QED BY <1>1, <1>2, AttemptKept

LEMMA StepRunning ==
    ASSUME TypeOK, NoUpdates, RunningInv, [Next]_vars
    PROVE  RunningInv'
<1>1. \A c \in Clients : client'[c].op # "update"
    BY NoPatchKept DEF RunningInv
<1>2. ASSUME faults' = 0, NEW j \in Jobs, jobs'[j] # NoJob, jobs'[j].status = "running"
      PROVE  \E f \in Flows : Owes(f)' /\ att'[f].job.id = j
    <2>1. CASE \E f \in Flows : MarkRunning(f) /\ att[f].job.id = j
        BY <2>1 DEF MarkRunning, Owes, TypeOK
    <2>2. CASE jobs'[j] = jobs[j]
        <3>1. PICK f \in Flows : Owes(f) /\ att[f].job.id = j
            BY <1>2, <2>2, NoFault DEF RunningInv, RunningMeansInFlight, Owes
        <3>2. ~Finalize(f) /\ ~Settle(f)
            <4> SUFFICES ASSUME Finalize(f) \/ Settle(f) PROVE FALSE
                OBVIOUS
            <4>1. PICK new \in JobRec : new.status # "running" /\ Write(f, new)
                BY OutcomeNotRunning
            <4> QED BY <1>2, <3>1, <4>1 DEF Write, TypeOK
        <3> QED BY <1>2, <3>1, <3>2, OwesKept
    <2> QED BY <1>2, <2>1, <2>2, RunningWrite DEF RunningInv
<1> QED BY <1>1, <1>2 DEF RunningInv, RunningMeansInFlight, Owes

\* When nobody calls update and until a call is rejected or an instance crashes, a
\* job is stored as running only while an attempt is in flight that will store its
\* outcome: no interleaving of ticks, runNow, cancel and delete strands a job.
THEOREM NoStrandedJob ==
    ASSUME NoUpdates PROVE Spec => []RunningMeansInFlight
<1>1. Init => RunningInv
    BY DEF Init, RunningInv, RunningMeansInFlight, NoCall
<1>2. TypeOK /\ RunningInv /\ [Next]_vars => RunningInv'
    BY StepRunning
<1>3. RunningInv => RunningMeansInFlight
    BY DEF RunningInv
<1> QED BY <1>1, <1>2, <1>3, TypeCorrect, PTL DEF Spec
-----------------------------------------------------------------------------
(* The run records, as long as nothing is rejected.                            *)

Terminal(run) == run.status \in {"succeeded", "failed"}

\* The strengthening: attempts in flight have runs of their own, and an attempt that
\* has still to store an outcome has a run without one.
RunsInv ==
    /\ \A f, g \in Flows : f # g /\ InFlight(f) /\ InFlight(g) => att[f].run # att[g].run
    /\ faults = 0 =>
         \A f \in Flows :
             pc[f] \in {"save", "mark", "exec", "fail"} => ~Terminal(runs[att[f].run])

\* An acquisition that begins an attempt appends its run, and is the only one.
LEMMA AcquireRun ==
    ASSUME TypeOK, NEW f \in Flows, Acquire(f), InFlight(f)'
    PROVE  /\ att'[f].run = Len(runs) + 1
           /\ \E run \in RunRec : run.status = "unsaved" /\ runs' = Append(runs, run)
           /\ \A g \in Flows \ {f} : ~Acquire(g)
<1>1. pc[f] = "next" /\ pc'[f] # "next"
    BY DEF Acquire, InFlight, InAttempt
<1>2. PICK job \in Pop(queue[f]) :
          /\ CanAcquire(job.id, Owner[f])
          /\ runs' = Append(runs, [job |-> job.id, attempt |-> job.attempts + 1,
                                   owner |-> Owner[f], status |-> "unsaved"])
          /\ att' = [att EXCEPT ![f] =
                       [NoAttempt EXCEPT !.job = job, !.run = Len(runs) + 1,
                                         !.lease = clock + LockTtl]]
    BY DEF Acquire, Onward, InFlight, InAttempt, TypeOK
<1>3. job \in JobRec
    BY <1>2 DEF Pop, TypeOK
<1>4. [job |-> job.id, attempt |-> job.attempts + 1,
       owner |-> Owner[f], status |-> "unsaved"] \in RunRec
    BY <1>3, SetsAssumption DEF JobRec, RunRec
<1>5. att'[f].run = Len(runs) + 1
    BY <1>2 DEF NoAttempt, TypeOK
<1>6. \A g \in Flows \ {f} : ~Acquire(g)
    BY <1>1 DEF Acquire, TypeOK
<1> QED BY <1>2, <1>4, <1>5, <1>6

\* A run is changed by its own attempt and by nothing else.
LEMMA RunsKept ==
    ASSUME TypeOK, [Next]_vars, NEW r \in DOMAIN runs
    PROVE  \/ runs'[r] = runs[r]
           \/ \E f \in Flows : /\ SaveRun(f) \/ HandlerSucceeds(f) \/ FailRun(f)
                               /\ att[f].run = r
<1>1. ASSUME NEW f \in Flows, SaveRun(f) \/ HandlerSucceeds(f) \/ FailRun(f), att[f].run # r
      PROVE  runs'[r] = runs[r]
    <2>1. PICK s : SetRun(f, s)
        BY <1>1 DEF SaveRun, HandlerSucceeds, FailRun
    <2> QED BY <1>1, <2>1 DEF SetRun, TypeOK
<1>2. ASSUME NEW f \in Flows, Acquire(f) PROVE runs'[r] = runs[r]
    <2>1. CASE UNCHANGED runs
        BY <2>1
    <2>2. CASE ~UNCHANGED runs
        <3>1. InFlight(f)'
            BY <1>2, <2>2 DEF Acquire, InFlight, InAttempt, Points, TypeOK
        <3>2. PICK run \in RunRec : runs' = Append(runs, run)
            BY <1>2, <3>1, AcquireRun
        <3> QED BY <3>2 DEF TypeOK
    <2> QED BY <2>1, <2>2
<1>3. \/ UNCHANGED runs
      \/ \E f \in Flows : SaveRun(f) \/ HandlerSucceeds(f) \/ FailRun(f) \/ Acquire(f)
    BY DEF Next, vars, Tick, BeginTick, RunNow, Step, MarkRunning, HandlerFails,
           HandlerTimesOut, Finalize, Settle, Release, Fault, TryFault, CatchFault, LockFault,
           OrphanEnds, Crash, Schedule, ClientStep, Require, Update, Cancel, Delete, store
<1> QED BY <1>1, <1>2, <1>3

\* Only an attempt whose run has no outcome yet stores one.
LEMMA DecidedKept ==
    ASSUME TypeOK, RunsInv, [Next]_vars, faults' = 0, NEW r \in DOMAIN runs, Terminal(runs[r])
    PROVE  runs'[r] = runs[r]
<1> SUFFICES ASSUME NEW f \in Flows, SaveRun(f) \/ HandlerSucceeds(f) \/ FailRun(f),
                    att[f].run = r
             PROVE  FALSE
    BY RunsKept
<1>1. pc[f] \in {"save", "mark", "exec", "fail"}
    BY DEF SaveRun, HandlerSucceeds, FailRun
<1> QED BY <1>1, NoFault DEF RunsInv

\* Attempts in flight keep runs of their own.
LEMMA RunsApart ==
    ASSUME TypeOK, RunsInv, [Next]_vars, NEW f \in Flows, NEW g \in Flows,
           f # g, InFlight(f)', InFlight(g)'
    PROVE  att'[f].run # att'[g].run
<1>1. ASSUME NEW a \in Flows, NEW b \in Flows, a # b, InFlight(a)', InFlight(b)', Acquire(a)
      PROVE  att'[a].run # att'[b].run
    <2>1. att'[a].run = Len(runs) + 1 /\ ~Acquire(b)
        BY <1>1, AcquireRun
    <2>2. att'[b].run \in DOMAIN runs
        BY <1>1, <2>1, AttemptKept DEF TypeOK
    <2>3. att'[b].run <= Len(runs) /\ Len(runs) \in Nat /\ att'[b].run \in Nat
        BY <2>2 DEF TypeOK
    <2> QED BY <2>1, <2>3
<1>2. CASE ~Acquire(f) /\ ~Acquire(g)
    BY <1>2, AttemptKept DEF RunsInv
<1> QED BY <1>1, <1>2

\* An attempt that has still to store an outcome was in that situation before the
\* step, or begins with it.
LEMMA UndecidedKept ==
    ASSUME TypeOK, [Next]_vars, faults' = 0, NEW f \in Flows, ~Acquire(f),
           pc'[f] \in {"save", "mark", "exec", "fail"}
    PROVE  /\ pc[f] \in {"save", "mark", "exec", "fail"}
           /\ ~HandlerSucceeds(f) /\ ~FailRun(f)
<1>1. ASSUME UNCHANGED pc PROVE pc'[f] = pc[f]
    BY <1>1
<1>2. ASSUME NEW g \in Flows, g # f,
             \/ BeginTick(g) \/ Step(g) \/ HandlerTimesOut(g) \/ \E j \in Jobs : RunNow(g, j)
      PROVE  pc'[f] = pc[f]
    <2>1. \E p : pc' = [pc EXCEPT ![g] = p]
        BY <1>2 DEF BeginTick, RunNow, Step, Acquire, SaveRun, MarkRunning,
               HandlerSucceeds, HandlerFails, HandlerTimesOut, FailRun, Finalize,
               Settle, Release
    <2> QED BY <1>2, <2>1 DEF TypeOK
<1>3. ASSUME \/ BeginTick(f) \/ Step(f) \/ HandlerTimesOut(f) \/ \E j \in Jobs : RunNow(f, j)
      PROVE  pc[f] \in {"save", "mark", "exec", "fail"} /\ ~HandlerSucceeds(f) /\ ~FailRun(f)
    BY <1>3 DEF BeginTick, RunNow, Step, SaveRun, MarkRunning, HandlerSucceeds, HandlerFails,
           HandlerTimesOut, FailRun, Finalize, Settle, Release, Onward, TypeOK
<1>4. ASSUME pc'[f] = pc[f] PROVE ~HandlerSucceeds(f) /\ ~FailRun(f)
    <2>1. \A p : pc' = [pc EXCEPT ![f] = p] => p = pc[f]
        BY <1>4 DEF TypeOK
    <2> QED BY <2>1 DEF HandlerSucceeds, FailRun
<1>5. \/ UNCHANGED pc
      \/ \E g \in Flows : \/ BeginTick(g) \/ Step(g) \/ HandlerTimesOut(g)
                          \/ \E j \in Jobs : RunNow(g, j)
    BY NoFault DEF Next, vars, Tick, OrphanEnds, Schedule, ClientStep, Require, Update,
           Cancel, Delete, flowVars
<1> QED BY <1>1, <1>2, <1>3, <1>4, <1>5

LEMMA StepRuns ==
    ASSUME TypeOK, RunsInv, [Next]_vars
    PROVE  RunsInv'
<1>1. \A f, g \in Flows : f # g /\ InFlight(f)' /\ InFlight(g)' => att'[f].run # att'[g].run
    BY RunsApart
<1>2. ASSUME faults' = 0, NEW f \in Flows, pc'[f] \in {"save", "mark", "exec", "fail"}
      PROVE  ~Terminal(runs'[att'[f].run])
    <2>1. InFlight(f)'
        BY <1>2 DEF InFlight, InAttempt, Points
    <2>2. CASE Acquire(f)
        <3>1. PICK run \in RunRec : run.status = "unsaved" /\ runs' = Append(runs, run)
            BY <2>1, <2>2, AcquireRun
        <3>2. runs'[att'[f].run] = run
            BY <2>1, <2>2, <3>1, AcquireRun DEF TypeOK
        <3> QED BY <3>1, <3>2 DEF Terminal
    <2>3. CASE ~Acquire(f)
        <3> DEFINE r == att[f].run
        <3>1. InFlight(f) /\ att'[f].run = r /\ r \in DOMAIN runs
            BY <2>1, <2>3, AttemptKept DEF TypeOK
        <3>2. pc[f] \in {"save", "mark", "exec", "fail"} /\ ~HandlerSucceeds(f) /\ ~FailRun(f)
            BY <1>2, <2>3, UndecidedKept
        <3>3. ~Terminal(runs[r])
            BY <1>2, <3>2, NoFault DEF RunsInv
        <3>4. ASSUME runs'[r] = runs[r] PROVE ~Terminal(runs'[r])
            BY <3>3, <3>4 DEF Terminal
        <3>5. ASSUME SaveRun(f) PROVE ~Terminal(runs'[r])
            <4>1. runs' = [runs EXCEPT ![r] = [runs[r] EXCEPT !.status = "running"]]
                BY <3>5 DEF SaveRun, SetRun
            <4>2. runs[r] \in RunRec
                BY <3>1 DEF TypeOK
            <4>3. runs'[r].status = "running"
                BY <3>1, <4>1, <4>2 DEF RunRec
            <4> QED BY <4>3 DEF Terminal
        <3>6. ASSUME NEW g \in Flows, g # f, SaveRun(g) \/ HandlerSucceeds(g) \/ FailRun(g)
              PROVE  att[g].run # r
            <4>1. InFlight(g)
                BY <3>6 DEF SaveRun, HandlerSucceeds, FailRun, InFlight, InAttempt, Points
            <4> QED BY <3>1, <3>6, <4>1 DEF RunsInv
        <3>7. \/ runs'[r] = runs[r]
              \/ \E g \in Flows : /\ SaveRun(g) \/ HandlerSucceeds(g) \/ FailRun(g)
                                  /\ att[g].run = r
            BY <3>1, RunsKept
        <3>8. runs'[r] = runs[r] \/ SaveRun(f)
            BY <3>2, <3>6, <3>7
        <3> HIDE DEF r
        <3> QED BY <3>1, <3>4, <3>5, <3>8
    <2> QED BY <2>2, <2>3
<1> QED BY <1>1, <1>2 DEF RunsInv

\* Until a call is rejected, what a run record says of its attempt is final, however
\* many instances, ticks and runNow calls work on the job.
THEOREM RunsAreFinal == Spec => TerminalRunsImmutable
<1>1. Init => RunsInv
    BY DEF Init, RunsInv, InFlight, InAttempt
<1>2. TypeOK /\ RunsInv /\ [Next]_vars => RunsInv'
    BY StepRuns
<1>3. TypeOK /\ RunsInv /\ [Next]_vars =>
        [faults' = 0 =>
           \A r \in DOMAIN runs :
               runs[r].status \in {"succeeded", "failed"} => runs'[r] = runs[r]]_vars
    BY DecidedKept DEF Terminal
<1> QED BY <1>1, <1>2, <1>3, TypeCorrect, PTL DEF Spec, TerminalRunsImmutable

-----------------------------------------------------------------------------
(* The records of a job: the stored one and the snapshots taken of it. *)

\* Every record somebody may still write back, run or take a snapshot of.
Stored == {jobs[j] : j \in Jobs} \ {NoJob}
Queued == UNION {queue[f] : f \in Flows}
Attempted == {att[f].job : f \in {g \in Flows : InFlight(g)}}
Called == {client[c].job : c \in {d \in Clients : client[d].op # "none"}}
Held == Stored \cup Queued \cup Attempted \cup Called

\* Records are stored under their ids, and nobody holds one of an id that was
\* not handed out yet.
IdsInv ==
    /\ \A j \in Jobs : jobs[j] # NoJob => jobs[j].id = j
    /\ \A a \in Held : a.id \notin fresh

NobodyUpdates == \A c \in Clients : client[c].op # "update"
\* A new record of the same job, of the same kind unless it was updated.
SameKind(a, b) == a.cron = b.cron /\ a.maxRetries = b.maxRetries
SameJob(a, b) == a.id = b.id /\ (NobodyUpdates => SameKind(a, b))

LEMMA HeldType ==
    ASSUME TypeOK
    PROVE  /\ Held \subseteq JobRec
           /\ \A c \in Clients : client[c].op # "none" =>
                  client[c].job \in JobRec
                  /\ (client[c].op = "update" => client[c].patch \in PatchRec)
<1>1. \A c \in Clients : client[c].op # "none" =>
          client[c].job \in JobRec /\ (client[c].op = "update" => client[c].patch \in PatchRec)
    <2> SUFFICES ASSUME NEW c \in Clients, client[c].op # "none"
                 PROVE  client[c].job \in JobRec
                        /\ (client[c].op = "update" => client[c].patch \in PatchRec)
        OBVIOUS
    <2>1. client[c] # NoCall
        BY DEF NoCall
    <2>2. \/ client[c] \in [op : {"update"}, job : JobRec, patch : PatchRec]
          \/ client[c] \in [op : {"cancel", "delete"}, job : JobRec, patch : {Keep}]
        BY <2>1 DEF TypeOK
    <2> QED
        BY <2>2
<1> QED
    BY <1>1 DEF TypeOK, Held, Stored, Queued, Attempted, Called

\* What an attempt writes back is a record of its job, of the same kind.
LEMMA OutcomeKind ==
    ASSUME NEW job \in JobRec, NEW at \in Nat
    PROVE  /\ SameKind(Running(job), job)
           /\ \A outcome \in {"succeeded", "failed"} : \A new \in Finalized(job, at, outcome) : SameKind(new, job)
           /\ \A delay \in Nat : SameKind(Retried(job, at, delay), job)
<1>1. Running(job) \in JobRec /\ SameKind(Running(job), job)
    BY RunningType DEF Running, JobRec, SameKind
<1>2. ASSUME NEW outcome \in {"succeeded", "failed"}, NEW new \in Finalized(job, at, outcome)
      PROVE  SameKind(new, job)
    BY <1>1 DEF Finalized, JobRec, SameKind
<1>3. \A delay \in Nat : SameKind(Retried(job, at, delay), job)
    BY DEF Retried, JobRec, SameKind
<1> QED
    BY <1>1, <1>2, <1>3

\* Who writes the record of a job.
LEMMA JobWriters ==
    ASSUME TypeOK, [Next]_vars, NEW j \in Jobs, jobs'[j] # jobs[j]
    PROVE  \/ \E f \in Flows : MarkRunning(f) \/ Finalize(f) \/ Settle(f)
           \/ \E in \in Inputs : Schedule(j, in)
           \/ \E c \in Clients : Update(c) \/ Cancel(c) \/ Delete(c)
<1>1. \/ UNCHANGED jobs
      \/ \E f \in Flows : MarkRunning(f) \/ Finalize(f) \/ Settle(f)
      \/ \E k \in Jobs, in \in Inputs : Schedule(k, in)
      \/ \E c \in Clients : Update(c) \/ Cancel(c) \/ Delete(c)
    BY DEF Next, vars, Tick, BeginTick, RunNow, Step, Acquire, SaveRun,
           HandlerSucceeds, HandlerFails, HandlerTimesOut, FailRun,
           Release, Fault, TryFault, CatchFault, LockFault, OrphanEnds, Crash,
           ClientStep, Require, store
<1>2. ASSUME NEW k \in Jobs, NEW in \in Inputs, Schedule(k, in)
      PROVE  k = j
    BY <1>2 DEF Schedule, TypeOK
<1> QED
    BY <1>1, <1>2

LEMMA AttemptWrites ==
    ASSUME TypeOK, NEW f \in Flows, MarkRunning(f) \/ Finalize(f) \/ Settle(f)
    PROVE  /\ InFlight(f) /\ att[f].job \in JobRec
           /\ \A j \in Jobs : j # att[f].job.id => jobs'[j] = jobs[j]
           /\ \E new \in JobRec : /\ jobs'[att[f].job.id] = new
                                  /\ new.id = att[f].job.id /\ SameKind(new, att[f].job)
<1>1. InFlight(f)
    BY DEF MarkRunning, Finalize, Settle, InFlight, InAttempt, Points
<1>2. att[f].job \in JobRec /\ att[f].finishedAt \in Nat
    BY <1>1 DEF TypeOK, AttRec
<1>3. PICK new \in JobRec : /\ Write(f, new)
                            /\ new.id = att[f].job.id /\ SameKind(new, att[f].job)
    <2>1. CASE MarkRunning(f)
        BY <1>2, <2>1, RunningType, OutcomeKind DEF MarkRunning
    <2>2. CASE Finalize(f)
        <3>1. PICK new \in Finalized(att[f].job, att[f].finishedAt, "succeeded") : Write(f, new)
            BY <2>2 DEF Finalize
        <3> QED
            BY <1>2, <3>1, FinalizedType, OutcomeKind
    <2>3. CASE Settle(f)
        <3>1. CASE \E delay \in 0..MaxBackoff : Write(f, Retried(att[f].job, att[f].finishedAt, delay))
            <4>1. PICK delay \in Nat : Write(f, Retried(att[f].job, att[f].finishedAt, delay))
                BY <3>1
            <4> QED
                BY <1>2, <4>1, RetriedType, OutcomeKind
        <3>2. CASE \E new \in Finalized(att[f].job, att[f].finishedAt, "failed") : Write(f, new)
            <4>1. PICK new \in Finalized(att[f].job, att[f].finishedAt, "failed") : Write(f, new)
                BY <3>2
            <4> QED
                BY <1>2, <4>1, FinalizedType, OutcomeKind
        <3> QED
            BY <2>3, <3>1, <3>2 DEF Settle
    <2> QED
        BY <2>1, <2>2, <2>3
<1>4. att[f].job.id \in Jobs
    BY <1>2 DEF JobRec
<1> QED
    BY <1>1, <1>2, <1>3, <1>4 DEF Write, TypeOK

LEMMA ScheduleWrites ==
    ASSUME TypeOK, NEW j \in Jobs, NEW in \in Inputs, Schedule(j, in)
    PROVE  /\ j \in fresh /\ fresh' = fresh \ {j}
           /\ \A k \in Jobs : k # j => jobs'[k] = jobs[k]
           /\ jobs'[j] \in JobRec /\ jobs'[j].id = j /\ jobs'[j].status = "pending"
           /\ UNCHANGED <<runs, lock, flowVars, client>>
<1>1. PICK t \in IF in.cron = {} THEN {in.runsAt} ELSE NextFires(in.cron, clock) :
          jobs' = [jobs EXCEPT ![j] =
                    [id |-> j, cron |-> in.cron, priority |-> in.priority,
                     maxRetries |-> in.maxRetries, backoff |-> in.backoff,
                     timed |-> in.timed, enabled |-> TRUE, status |-> "pending",
                     attempts |-> 0, nextRunAt |-> t]]
    BY DEF Schedule
<1>2. in \in InputRec
    BY SetsAssumption
<1>3. t \in Nat
    BY <1>1, <1>2 DEF NextFires, InputRec, Cron
<1>4. [id |-> j, cron |-> in.cron, priority |-> in.priority,
       maxRetries |-> in.maxRetries, backoff |-> in.backoff,
       timed |-> in.timed, enabled |-> TRUE, status |-> "pending",
       attempts |-> 0, nextRunAt |-> t] \in JobRec
    BY <1>2, <1>3 DEF JobRec, InputRec, Statuses
<1> QED
    BY <1>1, <1>4 DEF Schedule, TypeOK

LEMMA CallWrites ==
    ASSUME TypeOK, NEW c \in Clients, Update(c) \/ Cancel(c) \/ Delete(c)
    PROVE  /\ client[c].op # "none" /\ client[c].job \in JobRec
           /\ \A j \in Jobs : j # client[c].job.id => jobs'[j] = jobs[j]
           /\ \/ jobs'[client[c].job.id] \in {NoJob, jobs[client[c].job.id]}
              \/ \E new \in JobRec :
                     /\ jobs'[client[c].job.id] = new /\ new.id = client[c].job.id
                     /\ client[c].op # "update" => SameKind(new, client[c].job)
                     /\ Cancelled(client[c].job) => Cancelled(new)
<1>1. client[c].op # "none" /\ client[c].job \in JobRec
    BY HeldType DEF Update, Cancel, Delete
<1> DEFINE seen == client[c].job
<1>2. seen.id \in Jobs /\ clock \in Nat
    BY <1>1 DEF JobRec, TypeOK
<1>3. CASE Update(c)
    <2>1. client[c].op = "update" /\ client[c].patch \in PatchRec
        BY <1>3, HeldType DEF Update
    <2>2. CASE UNCHANGED jobs
        BY <1>1, <1>2, <2>2
    <2>3. CASE \E job \in Patched(seen, client[c].patch) : jobs' = [jobs EXCEPT ![seen.id] = job]
        <3>1. PICK job \in Patched(seen, client[c].patch) : jobs' = [jobs EXCEPT ![seen.id] = job]
            BY <2>3
        <3>2. job \in JobRec /\ job.id = seen.id
            BY <1>1, <1>2, <2>1, <3>1, PatchedType
        <3>3. Cancelled(seen) => Cancelled(job)
            <4> SUFFICES ASSUME seen.status = "cancelled"
                         PROVE  job.status = "cancelled"
                BY <1>1, <3>2, NullAssumption DEF Cancelled
            <4>1. Settings(seen, client[c].patch) \in JobRec
                BY <1>1, <2>1, PlainType
            <4>2. Settings(seen, client[c].patch).status = "cancelled"
                BY <1>1 DEF Settings, JobRec
            <4>3. Moved(seen, client[c].patch).status = "cancelled"
                BY <4>1, <4>2 DEF Moved, Repend, JobRec
            <4> QED
                BY <3>1, <4>1, <4>2, <4>3 DEF Patched, Moved, Repend, JobRec
        <3> QED
            BY <1>1, <1>2, <2>1, <3>1, <3>2, <3>3 DEF TypeOK
    <2> QED
        BY <1>3, <2>2, <2>3 DEF Update
<1>4. CASE Cancel(c)
    <2> DEFINE new == [seen EXCEPT !.status = "cancelled", !.enabled = FALSE, !.nextRunAt = Never]
    <2>1. new \in JobRec /\ new.id = seen.id /\ SameKind(new, seen) /\ new.status = "cancelled"
        BY <1>1 DEF JobRec, Statuses, SameKind
    <2>2. jobs' = [jobs EXCEPT ![seen.id] = new]
        BY <1>4 DEF Cancel
    <2> HIDE DEF new
    <2>3. Cancelled(new)
        BY <2>1, NullAssumption DEF Cancelled
    <2> QED
        BY <1>1, <1>2, <2>1, <2>2, <2>3 DEF TypeOK
<1>5. CASE Delete(c)
    BY <1>1, <1>2, <1>5 DEF Delete, TypeOK
<1> QED
    BY <1>3, <1>4, <1>5

\* Where the records of a queue, of the attempts and of the calls come from.
LEMMA QueuedFrom ==
    ASSUME TypeOK, [Next]_vars, NEW f \in Flows, NEW job \in queue'[f]
    PROVE  \/ job \in queue[f]
           \/ BeginTick(f) /\ \E j \in Jobs : job = jobs[j] /\ IsDue(job)
           \/ \E j \in Jobs : RunNow(f, j) /\ job = jobs[j] /\ jobs[j] # NoJob
<1>1. \/ UNCHANGED queue
      \/ \E g \in Flows : BeginTick(g) \/ Acquire(g) \/ Release(g) \/ LockFault(g)
      \/ \E g \in Flows, j \in Jobs : RunNow(g, j)
      \/ \E i \in Instances : Crash(i)
    BY DEF Next, vars, Tick, Step, SaveRun, MarkRunning, HandlerSucceeds, HandlerFails,
           HandlerTimesOut, FailRun, Finalize, Settle, Fault, TryFault, CatchFault,
           OrphanEnds, Schedule, ClientStep, Require, Update, Cancel, Delete, flowVars
<1>2. CASE BeginTick(f)
    BY <1>2 DEF BeginTick, FirstOf, DueJobs, TypeOK
<1>3. ASSUME NEW j \in Jobs, RunNow(f, j)
      PROVE  job = jobs[j] /\ jobs[j] # NoJob
    BY <1>3 DEF RunNow, TypeOK
<1>4. CASE Acquire(f)
    BY <1>4 DEF Acquire, TypeOK
<1>6. CASE Release(f)
    BY <1>6 DEF Release, TypeOK
<1>7. CASE LockFault(f)
    BY <1>7 DEF LockFault, TypeOK
<1>8. CASE \E i \in Instances : Crash(i)
    BY <1>8 DEF Crash, TypeOK
<1>5. ASSUME NEW g \in Flows \ {f}, BeginTick(g) \/ Acquire(g) \/ Release(g) \/ LockFault(g)
             \/ \E j \in Jobs : RunNow(g, j)
      PROVE  queue'[f] = queue[f]
    BY <1>5 DEF BeginTick, Acquire, Release, LockFault, RunNow, TypeOK
<1> QED
    BY <1>1, <1>2, <1>3, <1>4, <1>5, <1>6, <1>7, <1>8

LEMMA AttemptedFrom ==
    ASSUME TypeOK, [Next]_vars, NEW f \in Flows, InFlight(f)'
    PROVE  \/ ~Acquire(f) /\ InFlight(f) /\ att'[f].job = att[f].job
           \/ Acquire(f) /\ att'[f].job \in queue[f]
<1>1. CASE Acquire(f)
    <2>1. PICK job \in Pop(queue[f]) :
              \/ pc' = [pc EXCEPT ![f] = Onward(queue[f] \ {job})]
              \/ att' = [att EXCEPT ![f] = [NoAttempt EXCEPT !.job = job, !.run = Len(runs) + 1,
                                                             !.lease = clock + LockTtl]]
        BY <1>1 DEF Acquire
    <2>2. pc' # [pc EXCEPT ![f] = Onward(queue[f] \ {job})]
        BY DEF InFlight, InAttempt, Onward, TypeOK
    <2>3. att'[f].job = job
        BY <2>1, <2>2 DEF TypeOK, NoAttempt
    <2> QED
        BY <1>1, <2>1, <2>3 DEF Pop
<1> QED
    BY <1>1, AttemptKept

LEMMA CalledFrom ==
    ASSUME TypeOK, [Next]_vars, NEW c \in Clients, client'[c].op # "none"
    PROVE  \/ client'[c] = client[c]
           \/ \E j \in Jobs : client'[c].job = jobs[j] /\ jobs[j] # NoJob
<1>1. UNCHANGED client \/ \E d \in Clients : ClientStep(d)
    BY DEF Next, vars, Tick, BeginTick, RunNow, Step, Acquire, SaveRun, MarkRunning,
           HandlerSucceeds, HandlerFails, HandlerTimesOut, FailRun, Finalize, Settle,
           Release, Fault, TryFault, CatchFault, LockFault, OrphanEnds, Crash, Schedule
<1>2. ASSUME NEW d \in Clients, ClientStep(d), d # c
      PROVE  client'[c] = client[c]
    BY <1>2 DEF ClientStep, Require, Update, Cancel, Delete, TypeOK
<1>3. ASSUME NEW op, NEW j \in Jobs, NEW patch, Require(c, op, j, patch)
      PROVE  client'[c].job = jobs[j] /\ jobs[j] # NoJob
    BY <1>3 DEF Require, TypeOK
<1>4. CASE Update(c) \/ Cancel(c) \/ Delete(c)
    BY <1>4 DEF Update, Cancel, Delete, TypeOK, NoCall
<1> QED
    BY <1>1, <1>2, <1>3, <1>4 DEF ClientStep

\* Every record is one of a job known before, or the first of a new job.
LEMMA HeldFrom ==
    ASSUME TypeOK, IdsInv, [Next]_vars, NEW a \in Held'
    PROVE  \/ \E b \in Held : SameJob(a, b)
           \/ \E j \in Jobs, in \in Inputs : Schedule(j, in) /\ a = jobs'[j] /\ a.id = j
<1>1. ASSUME NEW j \in Jobs, jobs[j] # NoJob
      PROVE  jobs[j] \in Held
    BY <1>1 DEF Held, Stored
<1>2. CASE a \in Stored'
    <2>1. PICK j \in Jobs : a = jobs'[j] /\ jobs'[j] # NoJob
        BY <1>2 DEF Stored
    <2>2. CASE jobs'[j] = jobs[j]
        BY <1>1, <2>1, <2>2 DEF SameJob, SameKind
    <2>3. ASSUME NEW f \in Flows, MarkRunning(f) \/ Finalize(f) \/ Settle(f), jobs'[j] # jobs[j]
          PROVE  \E b \in Held : SameJob(a, b)
        BY <2>1, <2>3, AttemptWrites DEF Held, Attempted, SameJob, SameKind
    <2>4. ASSUME NEW in \in Inputs, Schedule(j, in)
          PROVE  a.id = j
        BY <2>1, <2>4, ScheduleWrites
    <2>5. ASSUME NEW c \in Clients, Update(c) \/ Cancel(c) \/ Delete(c), jobs'[j] # jobs[j]
          PROVE  \E b \in Held : SameJob(a, b)
        BY <2>1, <2>5, CallWrites DEF Held, Called, SameJob, NobodyUpdates
    <2> QED
        BY <2>1, <2>2, <2>3, <2>4, <2>5, JobWriters
<1>3. CASE a \in Queued'
    <2>1. PICK f \in Flows : a \in queue'[f]
        BY <1>3 DEF Queued
    <2>2. a \in Held
        BY <1>1, <2>1, QueuedFrom DEF Held, Queued, IsDue
    <2> QED
        BY <2>2 DEF SameJob, SameKind
<1>4. CASE a \in Attempted'
    <2>1. PICK f \in Flows : InFlight(f)' /\ a = att'[f].job
        BY <1>4 DEF Attempted, InFlight
    <2>2. a \in Held
        BY <2>1, AttemptedFrom DEF Held, Queued, Attempted
    <2> QED
        BY <2>2 DEF SameJob, SameKind
<1>5. CASE a \in Called'
    <2>1. PICK c \in Clients : client'[c].op # "none" /\ a = client'[c].job
        BY <1>5 DEF Called
    <2>2. a \in Held
        BY <1>1, <2>1, CalledFrom DEF Held, Called
    <2> QED
        BY <2>2 DEF SameJob, SameKind
<1> QED
    BY <1>2, <1>3, <1>4, <1>5 DEF Held

LEMMA FreshShrinks ==
    ASSUME [Next]_vars
    PROVE  fresh' \subseteq fresh
  BY DEF Next, vars, Tick, BeginTick, RunNow, Step, Acquire, SaveRun, MarkRunning,
         HandlerSucceeds, HandlerFails, HandlerTimesOut, FailRun, Finalize, Settle,
         Release, Fault, TryFault, CatchFault, LockFault, OrphanEnds, Crash, Schedule,
         ClientStep, Require, Update, Cancel, Delete

LEMMA StepIds ==
    ASSUME TypeOK, IdsInv, [Next]_vars
    PROVE  IdsInv'
<1>1. ASSUME NEW j \in Jobs, jobs'[j] # NoJob
      PROVE  jobs'[j].id = j
    BY <1>1, JobWriters, AttemptWrites, ScheduleWrites, CallWrites DEF IdsInv
<1>2. ASSUME NEW a \in Held'
      PROVE  a.id \notin fresh'
    BY HeldFrom, ScheduleWrites, FreshShrinks DEF IdsInv, SameJob
<1> QED
    BY <1>1, <1>2 DEF IdsInv

LEMMA IdsInvHolds == Spec => []IdsInv
<1>1. Init => IdsInv
    BY DEF Init, IdsInv, Held, Stored, Queued, Attempted, Called, InFlight, InAttempt, NoCall
<1>2. TypeOK /\ IdsInv /\ [Next]_vars => IdsInv'
    BY StepIds
<1> QED
    BY <1>1, <1>2, TypeCorrect, PTL DEF Spec

\* A cancelled job that nobody holds a snapshot of stays cancelled and is taken
\* by no tick (nextDue, update, cancel), whatever is updated, rejected or crashes.
LEMMA CancelledKept ==
    ASSUME TypeOK, IdsInv, [Next]_vars, NEW j \in Jobs,
           Cancelled(jobs[j]), ~HeldByFlow(j), ~StaleCaller(j),
           ~\E f \in Flows : RunNow(f, j)
    PROVE  \/ jobs'[j] = NoJob
           \/ Cancelled(jobs'[j]) /\ ~HeldByFlow(j)'
<1>1. jobs'[j] = NoJob \/ Cancelled(jobs'[j])
    <2>1. ASSUME NEW f \in Flows, MarkRunning(f) \/ Finalize(f) \/ Settle(f)
          PROVE  jobs'[j] = jobs[j]
        BY <2>1, AttemptWrites DEF HeldByFlow
    <2>2. ASSUME NEW in \in Inputs, Schedule(j, in)
          PROVE  FALSE
        BY <2>2, ScheduleWrites DEF IdsInv, Held, Stored, Cancelled
    <2>3. ASSUME NEW c \in Clients, Update(c) \/ Cancel(c) \/ Delete(c)
          PROVE  jobs'[j] = NoJob \/ Cancelled(jobs'[j])
        BY <2>3, CallWrites DEF StaleCaller
    <2> QED
        BY <2>1, <2>2, <2>3, JobWriters
<1>2. ASSUME NEW f \in Flows, NEW job \in queue'[f]
      PROVE  job.id # j
    BY <1>2, QueuedFrom DEF HeldByFlow, IdsInv, IsDue, Cancelled
<1>3. ASSUME NEW f \in Flows, InFlight(f)'
      PROVE  att'[f].job.id # j
    BY <1>3, AttemptedFrom DEF HeldByFlow
<1> QED
    BY <1>1, <1>2, <1>3 DEF HeldByFlow, InFlight

\* A cancelled job that no call has in hand stays cancelled, or is deleted, through
\* every step of every call and caller but a runNow of it: stale snapshots, the
\* rejected calls and the crashes included.
THEOREM CancelIsKept == Spec => CancelHolds
<1>1. TypeOK /\ IdsInv /\ [Next]_vars =>
        [\A j \in Jobs :
           Cancelled(jobs[j]) /\ ~HeldByFlow(j) /\ ~StaleCaller(j) =>
              \/ jobs'[j] = NoJob
              \/ Cancelled(jobs'[j]) /\ ~HeldByFlow(j)'
              \/ \E f \in Flows : RunNow(f, j)]_vars
    BY CancelledKept
<1> QED
    BY <1>1, TypeCorrect, IdsInvHolds, PTL DEF Spec, CancelHolds

-----------------------------------------------------------------------------
(* One-shot jobs, when calls do not overlap. *)

\* One call is in progress at a time, on one instance: a second one could hold
\* a snapshot of a job that the first one has finished.
OneCall == \A f, g \in Flows : f = g

Succeeded(j) == {r \in DOMAIN runs : runs[r].job = j /\ runs[r].status = "succeeded"}

\* All records of a job are of one kind, and no run is of a job to come.
KindInv ==
    /\ NobodyUpdates
    /\ \A a, b \in Held : a.id = b.id => SameKind(a, b)
    /\ \A r \in DOMAIN runs : runs[r].job \notin fresh

\* A queue holds one snapshot of a job, and none of the job being attempted.
\* What may still be run has not succeeded; an attempt that has is the only one.
AttemptInv(f) ==
    LET job == att[f].job
    IN  /\ \A a \in queue[f] : a.id # job.id
        /\ runs[att[f].run].job = job.id
        /\ Oneshot(job) =>
              /\ pc[f] \in {"save", "mark", "exec", "settle"} => Succeeded(job.id) = {}
              /\ Succeeded(job.id) \subseteq {att[f].run}
        /\ pc[f] \in {"exec", "finalize"} /\ jobs[job.id] # NoJob =>
               jobs[job.id].status # "pending"
OnceInv ==
    /\ \A a \in Held : Oneshot(a) => \A q, r \in Succeeded(a.id) : q = r
    /\ \A j \in Jobs : Oneshot(jobs[j]) /\ jobs[j].status = "pending" => Succeeded(j) = {}
    /\ \A f \in Flows :
           /\ \A a, b \in queue[f] : a.id = b.id => a = b
           /\ \A a \in queue[f] : Oneshot(a) => Succeeded(a.id) = {}
           /\ InFlight(f) => AttemptInv(f)

OneShotInv == IdsInv /\ KindInv /\ OnceInv

\* An acquisition begins the run of a snapshot that leaves the queue.
LEMMA AcquireTakes ==
    ASSUME TypeOK, NEW f \in Flows, Acquire(f), InFlight(f)'
    PROVE  \E job \in queue[f] :
               /\ queue' = [queue EXCEPT ![f] = queue[f] \ {job}]
               /\ att'[f].job = job /\ att'[f].run = Len(runs) + 1 /\ pc'[f] = "save"
               /\ \E run \in RunRec : /\ run.job = job.id /\ run.status = "unsaved"
                                      /\ runs' = Append(runs, run)
               /\ UNCHANGED <<jobs, fresh, client>>
<1>1. PICK job \in Pop(queue[f]) :
          /\ queue' = [queue EXCEPT ![f] = queue[f] \ {job}]
          /\ runs' = Append(runs, [job |-> job.id, attempt |-> job.attempts + 1,
                                   owner |-> Owner[f], status |-> "unsaved"])
          /\ att' = [att EXCEPT ![f] =
                       [NoAttempt EXCEPT !.job = job, !.run = Len(runs) + 1,
                                         !.lease = clock + LockTtl]]
          /\ pc'[f] = "save"
    BY DEF Acquire, Onward, InFlight, InAttempt, TypeOK
<1>2. job \in queue[f] /\ job \in JobRec
    BY <1>1 DEF Pop, TypeOK
<1> DEFINE run == [job |-> job.id, attempt |-> job.attempts + 1,
                   owner |-> Owner[f], status |-> "unsaved"]
<1>3. run \in RunRec /\ run.job = job.id /\ run.status = "unsaved"
    BY <1>2, SetsAssumption DEF JobRec, RunRec
<1>4. att'[f].job = job /\ att'[f].run = Len(runs) + 1
    BY <1>1 DEF NoAttempt, TypeOK
<1>5. UNCHANGED <<jobs, fresh, client>>
    BY DEF Acquire
<1> HIDE DEF run
<1> QED
    BY <1>1, <1>2, <1>3, <1>4, <1>5 DEF run

\* Runs keep their jobs; the jobs of new ones are known.
LEMMA RunJobs ==
    ASSUME TypeOK, IdsInv, [Next]_vars, NEW r \in DOMAIN runs'
    PROVE  \/ r \in DOMAIN runs /\ runs'[r].job = runs[r].job
           \/ /\ r \notin DOMAIN runs /\ runs'[r].status = "unsaved"
              /\ runs'[r].job \notin fresh'
<1>1. runs \in Seq(RunRec) /\ DOMAIN runs = 1..Len(runs) /\ Len(runs) \in Nat
    BY DEF TypeOK
<1>2. CASE r \in DOMAIN runs
    <2>1. CASE runs'[r] = runs[r]
        BY <1>2, <2>1
    <2>2. ASSUME NEW f \in Flows, SaveRun(f) \/ HandlerSucceeds(f) \/ FailRun(f),
                 att[f].run = r
          PROVE  runs'[r].job = runs[r].job
        <3>1. PICK s : SetRun(f, s)
            BY <2>2 DEF SaveRun, HandlerSucceeds, FailRun
        <3>2. runs'[r] = [runs[r] EXCEPT !.status = s] /\ runs[r] \in RunRec
            BY <1>1, <1>2, <2>2, <3>1 DEF SetRun
        <3> QED
            BY <3>2 DEF RunRec
    <2> QED
        BY <1>2, <2>1, <2>2, RunsKept
<1>3. CASE r \notin DOMAIN runs
    <2>1. DOMAIN runs' # DOMAIN runs
        BY <1>3
    <2>2. \/ UNCHANGED runs
          \/ \E f \in Flows : \E s : SetRun(f, s)
          \/ \E f \in Flows : Acquire(f)
        BY DEF Next, vars, Tick, BeginTick, RunNow, Step, MarkRunning, HandlerFails,
               HandlerTimesOut, Finalize, Settle, Release, Fault, TryFault, CatchFault, LockFault,
               OrphanEnds, Crash, Schedule, ClientStep, Require, Update, Cancel, Delete, store,
               SaveRun, HandlerSucceeds, FailRun
    <2>3. PICK f \in Flows : Acquire(f)
        BY <2>1, <2>2 DEF SetRun
    <2>4. InFlight(f)'
        BY <2>1, <2>3 DEF Acquire, InFlight, InAttempt, Points, TypeOK
    <2>5. PICK job \in queue[f], run \in RunRec :
              /\ run.job = job.id /\ run.status = "unsaved" /\ runs' = Append(runs, run)
              /\ UNCHANGED fresh
        BY <2>3, <2>4, AcquireTakes
    <2>6. runs'[r] = run
        BY <1>1, <1>3, <2>5
    <2>7. job.id \notin fresh
        BY DEF IdsInv, Held, Queued
    <2> QED
        BY <1>3, <2>5, <2>6, <2>7
<1> QED
    BY <1>2, <1>3

\* The successes of a job grow by a handler that returns, and by nothing else.
LEMMA SucceededFrom ==
    ASSUME TypeOK, IdsInv, [Next]_vars, NEW j, NEW r \in Succeeded(j)'
    PROVE  \/ r \in Succeeded(j)
           \/ \E f \in Flows : HandlerSucceeds(f) /\ r = att[f].run /\ runs[r].job = j
<1>1. r \in DOMAIN runs' /\ runs'[r].job = j /\ runs'[r].status = "succeeded"
    BY DEF Succeeded
<1>2. r \in DOMAIN runs /\ runs[r].job = j
    BY <1>1, RunJobs
<1>3. CASE runs'[r] = runs[r]
    BY <1>1, <1>2, <1>3 DEF Succeeded
<1>4. ASSUME NEW f \in Flows, SaveRun(f) \/ FailRun(f), att[f].run = r
      PROVE  FALSE
    <2>1. PICK s \in {"running", "failed"} : SetRun(f, s)
        BY <1>4 DEF SaveRun, FailRun
    <2>2. runs'[r] = [runs[r] EXCEPT !.status = s] /\ runs[r] \in RunRec
        BY <1>2, <1>4, <2>1 DEF SetRun, TypeOK
    <2> QED
        BY <1>1, <2>2 DEF RunRec
<1> QED
    BY <1>2, <1>3, <1>4, RunsKept

LEMMA StepKind ==
    ASSUME TypeOK, TicksOnly, IdsInv, KindInv, [Next]_vars
    PROVE  KindInv'
<1>1. NobodyUpdates'
    BY NoPatchKept DEF KindInv, NobodyUpdates, TicksOnly, NoUpdates
<1>2. ASSUME NEW a \in Held', NEW b \in Held', a.id = b.id
      PROVE  SameKind(a, b)
    <2>1. ASSUME NEW c \in Held', ~\E h \in Held : SameJob(c, h)
          PROVE  c.id \in fresh /\ c = jobs'[c.id]
        BY <2>1, HeldFrom, ScheduleWrites
    <2>2. ASSUME NEW c \in Held', NEW h \in Held, SameJob(c, h)
          PROVE  c.id \notin fresh
        BY <2>2 DEF SameJob, IdsInv
    <2>3. CASE a.id \in fresh
        BY <1>2, <2>1, <2>2, <2>3 DEF SameKind
    <2>4. CASE a.id \notin fresh
        <3>1. PICK g \in Held : SameJob(a, g)
            BY <2>1, <2>4
        <3>2. PICK h \in Held : SameJob(b, h)
            BY <1>2, <2>1, <2>4
        <3> QED
            BY <1>2, <3>1, <3>2 DEF KindInv, SameJob, SameKind
    <2> QED
        BY <2>3, <2>4
<1>3. \A r \in DOMAIN runs' : runs'[r].job \notin fresh'
    BY RunJobs, FreshShrinks DEF KindInv
<1> QED
    BY <1>1, <1>2, <1>3 DEF KindInv

\* A success of a one-shot job is its first.
LEMMA FirstSuccess ==
    ASSUME TypeOK, OneShotInv, [Next]_vars, NEW a \in Held, Oneshot(a)
    PROVE  \/ Succeeded(a.id)' \subseteq Succeeded(a.id)
           \/ \E f \in Flows : /\ HandlerSucceeds(f) /\ att[f].job.id = a.id
                               /\ Succeeded(a.id) = {} /\ Succeeded(a.id)' \subseteq {att[f].run}
<1>1. CASE \E f \in Flows : HandlerSucceeds(f) /\ runs[att[f].run].job = a.id
    <2>1. PICK f \in Flows : HandlerSucceeds(f) /\ runs[att[f].run].job = a.id
        BY <1>1
    <2>2. pc[f] = "exec" /\ InFlight(f)
        BY <2>1 DEF HandlerSucceeds, InFlight, InAttempt, Points
    <2>3. att[f].job.id = a.id /\ att[f].job \in Held /\ att[f].job \in JobRec
        BY <2>1, <2>2 DEF OneShotInv, OnceInv, AttemptInv, Held, Attempted, TypeOK
    <2>4. Oneshot(att[f].job)
        BY <2>3, NullAssumption DEF OneShotInv, KindInv, SameKind, Oneshot
    <2>5. Succeeded(a.id) = {}
        BY <2>2, <2>3, <2>4 DEF OneShotInv, OnceInv, AttemptInv
    <2>6. ASSUME NEW r \in Succeeded(a.id)'
          PROVE  r = att[f].run
        <3>1. PICK g \in Flows : HandlerSucceeds(g) /\ r = att[g].run
            BY <2>5, <2>6, SucceededFrom DEF OneShotInv
        <3>2. g = f
            <4>1. pc'[g] = "finalize" /\ pc[g] = "exec" /\ pc' = [pc EXCEPT ![f] = "finalize"]
                BY <2>1, <3>1 DEF HandlerSucceeds, TypeOK
            <4> QED
                BY <4>1 DEF TypeOK
        <3> QED
            BY <3>1, <3>2
    <2> QED
        BY <2>1, <2>3, <2>5, <2>6
<1>2. CASE ~\E f \in Flows : HandlerSucceeds(f) /\ runs[att[f].run].job = a.id
    BY <1>2, SucceededFrom DEF OneShotInv
<1> QED
    BY <1>1, <1>2

LEMMA StepSuccesses ==
    ASSUME TypeOK, OneShotInv, [Next]_vars, NEW a \in Held', Oneshot(a)
    PROVE  \A q, r \in Succeeded(a.id)' : q = r
<1>1. ASSUME NEW b \in Held, SameJob(a, b)
      PROVE  \A q, r \in Succeeded(a.id)' : q = r
    <2>1. Oneshot(b) /\ b.id = a.id
        BY <1>1, HeldType, NullAssumption DEF SameJob, SameKind, Oneshot, OneShotInv, KindInv
    <2> QED
        BY <2>1, FirstSuccess DEF OneShotInv, OnceInv, Succeeded
<1>2. ASSUME NEW j \in Jobs, NEW in \in Inputs, Schedule(j, in), a.id = j
      PROVE  Succeeded(a.id)' = {}
    BY <1>2, ScheduleWrites DEF Succeeded, OneShotInv, KindInv
<1> QED
    BY <1>1, <1>2, HeldFrom DEF OneShotInv

LEMMA StepPending ==
    ASSUME TypeOK, OneShotInv, [Next]_vars, NEW j \in Jobs,
           Oneshot(jobs'[j]), jobs'[j].status = "pending"
    PROVE  Succeeded(j)' = {}
<1>1. CASE jobs'[j] = jobs[j]
    <2>1. jobs[j] \in Held /\ jobs[j].id = j /\ Oneshot(jobs[j]) /\ Succeeded(j) = {}
        BY <1>1 DEF OneShotInv, OnceInv, IdsInv, Held, Stored, Oneshot
    <2>2. ASSUME NEW f \in Flows, HandlerSucceeds(f), att[f].job.id = j
          PROVE  FALSE
        <3>1. pc[f] = "exec" /\ InFlight(f)
            BY <2>2 DEF HandlerSucceeds, InFlight, InAttempt, Points
        <3> QED
            BY <1>1, <2>1, <2>2, <3>1 DEF OneShotInv, OnceInv, AttemptInv, Oneshot
    <2> QED
        BY <2>1, <2>2, FirstSuccess
<1>2. ASSUME NEW f \in Flows, MarkRunning(f) \/ Finalize(f) \/ Settle(f), jobs'[j] # jobs[j]
      PROVE  Succeeded(j)' = {}
    <2> DEFINE job == att[f].job
    <2>1. InFlight(f) /\ job \in JobRec /\ job.id = j /\ jobs'[j].cron = job.cron
        BY <1>2, AttemptWrites DEF SameKind
    <2>2. Oneshot(job) /\ NextFires(job.cron, att[f].finishedAt) = {}
        BY <2>1, NullAssumption DEF Oneshot, NextFires
    <2>3. Running(job).status = "running" /\ Running(job) \in JobRec
        BY <2>1, RunningType DEF Running, JobRec
    <2>4. ~MarkRunning(f)
        BY <2>1, <2>3 DEF MarkRunning, Write, TypeOK
    <2>5. \A outcome \in {"succeeded", "failed"} : \A new \in Finalized(job, att[f].finishedAt, outcome) :
              new.status # "pending"
        BY <2>2, <2>3 DEF Finalized, JobRec
    <2>6. ~Finalize(f)
        BY <2>1, <2>5 DEF Finalize, Write, TypeOK
    <2>7. pc[f] = "settle" /\ UNCHANGED runs
        BY <1>2, <2>4, <2>6 DEF Settle
    <2> QED
        BY <2>1, <2>2, <2>7 DEF OneShotInv, OnceInv, AttemptInv, Succeeded
<1>3. ASSUME NEW in \in Inputs, Schedule(j, in)
      PROVE  Succeeded(j)' = {}
    BY <1>3, ScheduleWrites DEF Succeeded, OneShotInv, KindInv
<1>4. ASSUME NEW c \in Clients, Update(c) \/ Cancel(c) \/ Delete(c), jobs'[j] # jobs[j]
      PROVE  FALSE
    <2>1. client[c].op # "update" /\ client[c].job.id = j
        BY <1>4, CallWrites DEF OneShotInv, KindInv, NobodyUpdates
    <2>2. client[c].job \in JobRec
        BY <1>4, CallWrites
    <2>3. CASE Cancel(c)
        <3>1. jobs'[j] = [client[c].job EXCEPT !.status = "cancelled", !.enabled = FALSE,
                                               !.nextRunAt = Never]
            BY <2>1, <2>3 DEF Cancel, TypeOK
        <3> QED
            BY <2>2, <3>1 DEF JobRec
    <2>4. CASE Delete(c)
        BY <2>1, <2>4 DEF Delete, Oneshot, TypeOK
    <2> QED
        BY <1>4, <2>1, <2>3, <2>4 DEF Update
<1> QED
    BY <1>1, <1>2, <1>3, <1>4, JobWriters

\* A tick takes one snapshot of each job it finds.
LEMMA StepQueue ==
    ASSUME TypeOK, TicksOnly, OneCall, OneShotInv, [Next]_vars, NEW f \in Flows
    PROVE  /\ \A a, b \in queue'[f] : a.id = b.id => a = b
           /\ \A a \in queue'[f] : Oneshot(a) => Succeeded(a.id)' = {}
<1>1. ASSUME NEW j \in Jobs
      PROVE  ~RunNow(f, j)
    BY DEF RunNow, TicksOnly
<1>2. CASE BeginTick(f)
    <2>1. \A a \in queue'[f] : \E j \in Jobs : a = jobs[j] /\ IsDue(a)
        BY <1>2 DEF BeginTick, FirstOf, DueJobs, TypeOK
    <2>2. UNCHANGED <<jobs, runs>>
        BY <1>2 DEF BeginTick, store
    <2> QED
        BY <2>1, <2>2 DEF OneShotInv, OnceInv, IdsInv, IsDue, Succeeded
<1>3. CASE ~BeginTick(f)
    <2>1. queue'[f] \subseteq queue[f]
        BY <1>1, <1>3, QueuedFrom
    <2>2. ASSUME NEW a \in queue[f], Oneshot(a)
          PROVE  Succeeded(a.id)' = {}
        <3>1. a \in Held /\ Succeeded(a.id) = {}
            BY <2>2 DEF Held, Queued, OneShotInv, OnceInv
        <3>2. ASSUME NEW g \in Flows, HandlerSucceeds(g), att[g].job.id = a.id
              PROVE  FALSE
            <4>1. InFlight(g) /\ g = f
                BY <3>2 DEF HandlerSucceeds, InFlight, InAttempt, Points, OneCall
            <4> QED
                BY <3>2, <4>1 DEF OneShotInv, OnceInv, AttemptInv
        <3> QED
            BY <2>2, <3>1, <3>2, FirstSuccess
    <2> QED
        BY <2>1, <2>2 DEF OneShotInv, OnceInv
<1> QED
    BY <1>2, <1>3

\* How an attempt goes on.
LEMMA AttemptMoves ==
    ASSUME TypeOK, OneCall, [Next]_vars, NEW f \in Flows, InFlight(f)', ~Acquire(f)
    PROVE  \/ pc'[f] = pc[f]
           \/ SaveRun(f) \/ MarkRunning(f) \/ HandlerSucceeds(f) \/ FailRun(f)
           \/ pc'[f] \in {"fail", "release"}
<1>1. \A g \in Flows : g = f
    BY DEF OneCall
<1>2. \/ UNCHANGED pc
      \/ BeginTick(f) \/ Step(f) \/ HandlerTimesOut(f) \/ Fault(f)
      \/ \E j \in Jobs : RunNow(f, j)
      \/ \E i \in Instances : Crash(i)
    BY <1>1 DEF Next, vars, Tick, OrphanEnds, Schedule, ClientStep, Require, Update, Cancel,
           Delete, flowVars
<1>3. ~BeginTick(f) /\ ~Release(f) /\ ~LockFault(f) /\ (\A j \in Jobs : ~RunNow(f, j))
    BY DEF BeginTick, Release, LockFault, RunNow, InFlight, InAttempt, Onward, TypeOK
<1>4. ASSUME NEW i \in Instances, Crash(i)
      PROVE  pc'[f] = pc[f]
    BY <1>4 DEF Crash, InFlight, InAttempt, TypeOK
<1>5. CASE HandlerTimesOut(f) \/ (\E e \in {"retryable", "fatal"} : HandlerFails(f, e))
           \/ TryFault(f) \/ CatchFault(f) \/ Finalize(f) \/ Settle(f)
    BY <1>5 DEF HandlerTimesOut, HandlerFails, TryFault, CatchFault, Finalize, Settle, TypeOK
<1> QED
    BY <1>2, <1>3, <1>4, <1>5 DEF Step, Fault

LEMMA StepAttempt ==
    ASSUME TypeOK, TypeOK', TicksOnly, OneCall, OneShotInv, [Next]_vars, NEW f \in Flows, InFlight(f)'
    PROVE  AttemptInv(f)'
<1>1. CASE Acquire(f)
    <2>1. PICK job \in queue[f] :
               /\ queue'[f] = queue[f] \ {job}
               /\ att'[f].job = job /\ att'[f].run = Len(runs) + 1 /\ pc'[f] = "save"
               /\ \E run \in RunRec : /\ run.job = job.id /\ run.status = "unsaved"
                                      /\ runs' = Append(runs, run)
        BY <1>1, AcquireTakes DEF TypeOK
    <2>2. \A a \in queue'[f] : a.id # job.id
        BY <2>1 DEF OneShotInv, OnceInv
    <2>3. runs'[Len(runs) + 1].job = job.id
        BY <2>1 DEF TypeOK
    <2>4. Oneshot(job) => Succeeded(job.id)' = {}
        <3>1. ASSUME Oneshot(job)
              PROVE  Succeeded(job.id) = {} /\ job \in Held
            BY <3>1 DEF OneShotInv, OnceInv, Held, Queued
        <3>2. \A g \in Flows : ~HandlerSucceeds(g)
            BY <1>1 DEF Acquire, HandlerSucceeds, OneCall
        <3> QED
            BY <3>1, <3>2, FirstSuccess
    <2> QED
        BY <2>1, <2>2, <2>3, <2>4 DEF AttemptInv
<1>2. CASE ~Acquire(f)
    <2> DEFINE job == att[f].job
               run == att[f].run
    <2>1. /\ InFlight(f) /\ att'[f].job = job /\ att'[f].run = run
          /\ job \in JobRec /\ run \in DOMAIN runs /\ job \in Held
        BY <1>2, AttemptKept DEF TypeOK, Held, Attempted
    <2>2. AttemptInv(f)
        BY <2>1 DEF OneShotInv, OnceInv
    <2>3. \A g \in Flows : g = f
        BY DEF OneCall
    <2>4. \A a \in queue'[f] : a.id # job.id
        <3>1. ~BeginTick(f) /\ \A j \in Jobs : ~RunNow(f, j)
            BY DEF BeginTick, RunNow, InFlight, InAttempt, TypeOK
        <3> QED
            BY <2>2, <3>1, QueuedFrom DEF AttemptInv
    <2>5. runs'[run].job = job.id
        <3>1. run \in DOMAIN runs'
            BY <2>1 DEF TypeOK
        <3> QED
            BY <2>1, <2>2, <3>1, RunJobs DEF AttemptInv, OneShotInv
    <2>6. ASSUME Oneshot(job)
          PROVE  /\ pc'[f] \in {"save", "mark", "exec", "settle"} => Succeeded(job.id)' = {}
                 /\ Succeeded(job.id)' \subseteq {run}
        <3>1. CASE HandlerSucceeds(f)
            <4>1. pc'[f] = "finalize" /\ pc[f] = "exec"
                BY <3>1 DEF HandlerSucceeds, TypeOK
            <4>2. Succeeded(job.id) = {}
                BY <2>2, <2>6, <4>1 DEF AttemptInv
            <4> QED
                BY <2>1, <2>3, <2>6, <4>1, <4>2, FirstSuccess
        <3>2. CASE ~HandlerSucceeds(f)
            <4>1. Succeeded(job.id)' \subseteq Succeeded(job.id)
                BY <2>1, <2>3, <2>6, <3>2, FirstSuccess
            <4>2. Succeeded(job.id)' \subseteq {run}
                BY <2>2, <2>6, <4>1 DEF AttemptInv
            <4>3. CASE FailRun(f)
                <5>1. runs'[run] = [runs[run] EXCEPT !.status = "failed"] /\ runs[run] \in RunRec
                    BY <2>1, <4>3 DEF FailRun, SetRun, TypeOK
                <5>2. runs'[run].status = "failed"
                    BY <5>1 DEF RunRec
                <5> QED
                    BY <4>2, <5>2 DEF Succeeded
            <4>4. CASE pc'[f] = pc[f] \/ SaveRun(f) \/ MarkRunning(f)
                <5>1. pc'[f] \in {"save", "mark", "exec", "settle"}
                      => pc[f] \in {"save", "mark", "exec", "settle"}
                    BY <4>4 DEF SaveRun, MarkRunning
                <5> QED
                    BY <2>2, <2>6, <4>1, <4>2, <5>1 DEF AttemptInv
            <4> QED
                BY <1>2, <3>2, <4>2, <4>3, <4>4, AttemptMoves
        <3> QED
            BY <3>1, <3>2
    <2>7. ASSUME pc'[f] \in {"exec", "finalize"}, jobs'[job.id] # NoJob
          PROVE  jobs'[job.id].status # "pending"
        <3>1. job.id \in Jobs
            BY <2>1 DEF JobRec
        <3>2. CASE MarkRunning(f)
            <4>1. jobs'[job.id] = Running(job) /\ Running(job).status = "running"
                BY <2>1, <3>1, <3>2 DEF MarkRunning, Write, Running, JobRec, TypeOK
            <4> QED
                BY <4>1
        <3>3. CASE ~MarkRunning(f)
            <4>1. pc[f] \in {"exec", "finalize"}
                BY <1>2, <2>7, <3>3, AttemptMoves DEF SaveRun, HandlerSucceeds, FailRun, TypeOK
            <4>2. CASE jobs'[job.id] = jobs[job.id]
                BY <2>2, <2>7, <4>1, <4>2 DEF AttemptInv
            <4>3. ~Finalize(f) /\ ~Settle(f)
                BY <2>7 DEF Finalize, Settle, TypeOK
            <4>4. \A in \in Inputs : ~Schedule(job.id, in)
                BY <2>1, <3>1, ScheduleWrites DEF OneShotInv, IdsInv
            <4>5. ASSUME NEW c \in Clients, Update(c) \/ Cancel(c) \/ Delete(c),
                         jobs'[job.id] # jobs[job.id]
                  PROVE  jobs'[job.id].status # "pending"
                <5>1. client[c].op # "update" /\ client[c].job.id = job.id /\ client[c].job \in JobRec
                    BY <3>1, <4>5, CallWrites DEF OneShotInv, KindInv, NobodyUpdates
                <5>2. CASE Cancel(c)
                    <6>1. jobs'[job.id] = [client[c].job EXCEPT !.status = "cancelled", !.enabled = FALSE,
                                                                !.nextRunAt = Never]
                        BY <3>1, <5>1, <5>2 DEF Cancel, TypeOK
                    <6> QED
                        BY <5>1, <6>1 DEF JobRec
                <5>3. CASE Delete(c)
                    BY <2>7, <3>1, <5>1, <5>3 DEF Delete, TypeOK
                <5> QED
                    BY <4>5, <5>1, <5>2, <5>3 DEF Update
            <4> QED
                BY <2>3, <3>1, <3>3, <4>2, <4>3, <4>4, <4>5, JobWriters
        <3> QED
            BY <3>2, <3>3
    <2> QED
        BY <2>1, <2>4, <2>5, <2>6, <2>7 DEF AttemptInv
<1> QED
    BY <1>1, <1>2

LEMMA StepOnce ==
    ASSUME TypeOK, TypeOK', TicksOnly, OneCall, OneShotInv, [Next]_vars
    PROVE  OneShotInv'
<1>1. IdsInv' /\ KindInv'
    BY StepIds, StepKind DEF OneShotInv
<1>2. OnceInv'
    BY StepSuccesses, StepPending, StepQueue, StepAttempt DEF OnceInv, InFlight
<1> QED
    BY <1>1, <1>2 DEF OneShotInv

-----------------------------------------------------------------------------
(* How often a one-shot job is attempted.                                      *)

RunsAt(j) == {r \in DOMAIN runs : runs[r].job = j}

\* An attempt whose outcome is not stored yet.
Unsettled(f) == pc[f] \in InAttempt \ {"release"}
Waits(j) == Oneshot(jobs[j]) /\ jobs[j].status = "pending"
Counted(j, attempts) == AttemptsAt(j) <= attempts + faults

\* The counter of what may be attempted next is short of the attempts made by no more than what was rejected;
\* while an attempt is under way, by that one too.
CountInv ==
    /\ \A j \in Jobs : Waits(j) =>
           \/ Counted(j, jobs[j].attempts)
           \/ \E f \in Flows : Unsettled(f) /\ att[f].job.id = j /\ Counted(j, jobs[j].attempts + 1)
    /\ \A f \in Flows : \A a \in queue[f] : Oneshot(a) => Counted(a.id, a.attempts)
    /\ \A f \in Flows : Unsettled(f) /\ Oneshot(att[f].job) => Counted(att[f].job.id, att[f].job.attempts + 1)
    /\ \A a \in Held : Oneshot(a) => Counted(a.id, a.maxRetries + 1)

LEMMA CountType ==
    ASSUME TypeOK, NEW j
    PROVE  IsFiniteSet(RunsAt(j)) /\ AttemptsAt(j) \in Nat /\ AttemptsAt(j) = Cardinality(RunsAt(j)) /\ faults \in Nat
<1>1. PICK n \in Nat : DOMAIN runs = 1 .. n
    BY DEF TypeOK
<1>2. IsFiniteSet(1 .. n)
    <2>1. PICK first \in Int : first = 1
        OBVIOUS
    <2> QED
        BY <2>1, FS_Interval
<1>3. IsFiniteSet(RunsAt(j))
    BY <1>1, <1>2, FS_Subset DEF RunsAt
<1> QED
    BY <1>3, FS_CardinalityType DEF AttemptsAt, RunsAt, TypeOK

\* One attempt more is an acquisition; nothing else changes the number.
LEMMA CountMoves ==
    ASSUME TypeOK, TypeOK', IdsInv, [Next]_vars, NEW j
    PROVE  \/ AttemptsAt(j)' = AttemptsAt(j)
           \/ \E f \in Flows : /\ Acquire(f) /\ InFlight(f)' /\ att'[f].job.id = j
                               /\ AttemptsAt(j)' = AttemptsAt(j) + 1
<1>1. \/ UNCHANGED runs
      \/ \E f \in Flows : \E s : SetRun(f, s)
      \/ \E f \in Flows : Acquire(f)
    BY DEF Next, vars, Tick, BeginTick, RunNow, Step, MarkRunning, HandlerFails,
           HandlerTimesOut, Finalize, Settle, Release, Fault, TryFault, CatchFault, LockFault,
           OrphanEnds, Crash, Schedule, ClientStep, Require, Update, Cancel, Delete, store,
           SaveRun, HandlerSucceeds, FailRun
<1>2. PICK n \in Nat : n = Len(runs) /\ DOMAIN runs = 1 .. n
    BY DEF TypeOK
<1>3. CASE DOMAIN runs' = DOMAIN runs
    <2>1. RunsAt(j)' = RunsAt(j)
        BY <1>3, RunJobs DEF RunsAt
    <2> QED
        BY <2>1 DEF AttemptsAt, RunsAt
<1>4. CASE DOMAIN runs' # DOMAIN runs
    <2>1. PICK f \in Flows : Acquire(f)
        BY <1>1, <1>4 DEF SetRun
    <2>2. InFlight(f)'
        BY <1>4, <2>1 DEF Acquire, InFlight, InAttempt, Points, TypeOK
    <2>3. PICK job \in queue[f], run \in RunRec :
              att'[f].job = job /\ run.job = job.id /\ runs' = Append(runs, run)
        BY <2>1, <2>2, AcquireTakes
    <2>4. DOMAIN runs' = 1 .. n + 1 /\ runs'[n + 1] = run /\ \A r \in 1 .. n : runs'[r] = runs[r]
        BY <1>2, <2>3 DEF TypeOK
    <2>5. IsFiniteSet(RunsAt(j)) /\ AttemptsAt(j) = Cardinality(RunsAt(j)) /\ AttemptsAt(j)' = Cardinality(RunsAt(j)')
        BY CountType DEF AttemptsAt, RunsAt
    <2>6. CASE job.id = j
        <3>1. RunsAt(j)' = RunsAt(j) \cup {n + 1} /\ n + 1 \notin RunsAt(j)
            BY <1>2, <2>3, <2>4, <2>6 DEF RunsAt
        <3>2. AttemptsAt(j)' = AttemptsAt(j) + 1
            BY <2>5, <3>1, FS_AddElement
        <3> QED
            BY <2>1, <2>2, <2>3, <2>6, <3>2
    <2>7. CASE job.id # j
        <3>1. RunsAt(j)' = RunsAt(j)
            BY <1>2, <2>3, <2>4, <2>7 DEF RunsAt
        <3> QED
            BY <2>5, <3>1
    <2> QED
        BY <2>6, <2>7
<1> QED
    BY <1>3, <1>4

LEMMA FaultsMove ==
    ASSUME TypeOK, [Next]_vars
    PROVE  \/ faults' = faults
           \/ faults' = faults + 1 /\ UNCHANGED <<jobs, client>>
                /\ ((\E f \in Flows : TryFault(f) \/ CatchFault(f) \/ LockFault(f)) \/ \E i \in Instances : Crash(i))
<1>1. \/ faults' = faults
      \/ \E f \in Flows : TryFault(f) \/ CatchFault(f) \/ LockFault(f)
      \/ \E i \in Instances : Crash(i)
    BY DEF Next, vars, Tick, BeginTick, RunNow, Step, Acquire, SaveRun, MarkRunning, HandlerSucceeds, HandlerFails,
           HandlerTimesOut, FailRun, Finalize, Settle, Release, Fault, OrphanEnds, Schedule, ClientStep, Require,
           Update, Cancel, Delete
<1>2. ASSUME (\E f \in Flows : TryFault(f) \/ CatchFault(f) \/ LockFault(f)) \/ \E i \in Instances : Crash(i)
      PROVE  faults' = faults + 1 /\ UNCHANGED <<jobs, client>>
    BY <1>2 DEF TryFault, CatchFault, LockFault, Crash, store
<1> QED
    BY <1>1, <1>2

\* Nothing but an acquisition brings the attempts beyond what a counter accounts for, and then by one.
LEMMA CountedKept ==
    ASSUME TypeOK, TypeOK', IdsInv, [Next]_vars, NEW j, NEW n \in Nat, Counted(j, n)
    PROVE  \/ Counted(j, n)'
           \/ \E f \in Flows : Acquire(f) /\ InFlight(f)' /\ att'[f].job.id = j /\ Counted(j, n + 1)'
<1>1. faults \in Nat /\ faults' \in Nat /\ faults <= faults'
    BY FaultsMove DEF TypeOK
<1>2. AttemptsAt(j) \in Nat
    BY CountType
<1> QED
    BY <1>1, <1>2, CountMoves DEF Counted

\* A rejected call makes up for an attempt that is not counted.
LEMMA CountedFault ==
    ASSUME TypeOK, TypeOK', IdsInv, [Next]_vars, NEW j, NEW n \in Nat, Counted(j, n + 1), faults' = faults + 1,
           \A f \in Flows : ~Acquire(f)
    PROVE  Counted(j, n)'
<1>1. faults \in Nat /\ AttemptsAt(j) \in Nat /\ AttemptsAt(j)' = AttemptsAt(j)
    BY CountType, CountMoves
<1> QED
    BY <1>1 DEF Counted

LEMMA NewIsUncounted ==
    ASSUME TypeOK, TypeOK', OneShotInv, NEW j \in Jobs, NEW in \in Inputs, Schedule(j, in), NEW n \in Nat
    PROVE  Counted(j, n)'
<1>1. RunsAt(j)' = {}
    BY ScheduleWrites DEF RunsAt, OneShotInv, KindInv
<1>2. AttemptsAt(j)' = 0 /\ faults' \in Nat
    BY <1>1, FS_EmptySet DEF AttemptsAt, RunsAt, TypeOK
<1>3. PICK made, rejected \in Nat : made = AttemptsAt(j)' /\ rejected = faults' /\ made <= n + rejected
    BY <1>2
<1> QED
    BY <1>3 DEF Counted

\* What a step does with an attempt whose outcome it does not store.
LEMMA UnsettledMoves ==
    ASSUME TypeOK, OneCall, [Next]_vars, NEW f \in Flows, Unsettled(f), ~Finalize(f), ~Settle(f)
    PROVE  \/ Unsettled(f)' /\ att'[f].job = att[f].job
           \/ faults' = faults + 1
<1>1. InFlight(f) /\ pc[f] \notin {"idle", "next", "release"}
    BY DEF Unsettled, InFlight, InAttempt
<1>2. ~Acquire(f) /\ ~BeginTick(f) /\ ~Release(f) /\ (\A j \in Jobs : ~RunNow(f, j))
    BY <1>1 DEF Acquire, BeginTick, Release, RunNow
<1>3. \/ UNCHANGED pc
      \/ BeginTick(f) \/ Step(f) \/ HandlerTimesOut(f) \/ Fault(f)
      \/ \E j \in Jobs : RunNow(f, j)
      \/ \E i \in Instances : Crash(i)
    BY DEF OneCall, Next, vars, Tick, OrphanEnds, Schedule, ClientStep, Require, Update, Cancel, Delete, flowVars
<1>4. CASE UNCHANGED pc
    BY <1>1, <1>2, <1>4, AttemptKept DEF Unsettled, InFlight
<1>5. CASE \/ SaveRun(f) \/ MarkRunning(f) \/ HandlerSucceeds(f) \/ HandlerTimesOut(f) \/ FailRun(f)
           \/ \E e \in {"retryable", "fatal"} : HandlerFails(f, e)
    <2>1. pc'[f] \in {"mark", "exec", "finalize", "fail", "settle"}
        BY <1>5 DEF SaveRun, MarkRunning, HandlerSucceeds, HandlerTimesOut, FailRun, HandlerFails, TypeOK
    <2>2. Unsettled(f)' /\ InFlight(f)'
        BY <2>1 DEF Unsettled, InFlight, InAttempt, Points
    <2> QED
        BY <1>2, <2>2, AttemptKept
<1>6. CASE Fault(f) \/ \E i \in Instances : Crash(i)
    BY <1>6 DEF Fault, TryFault, CatchFault, LockFault, Crash
<1> QED
    BY <1>2, <1>3, <1>4, <1>5, <1>6 DEF Step

LEMMA ReleaseStays ==
    ASSUME TypeOK, OneCall, [Next]_vars, NEW f \in Flows, pc[f] = "release"
    PROVE  ~Unsettled(f)'
<1>1. \/ UNCHANGED pc
      \/ BeginTick(f) \/ Step(f) \/ HandlerTimesOut(f) \/ Fault(f)
      \/ \E j \in Jobs : RunNow(f, j)
      \/ \E i \in Instances : Crash(i)
    BY DEF OneCall, Next, vars, Tick, OrphanEnds, Schedule, ClientStep, Require, Update, Cancel, Delete, flowVars
<1>2. CASE UNCHANGED pc
    BY <1>2 DEF Unsettled
<1>3. CASE Release(f) \/ LockFault(f) \/ \E i \in Instances : Crash(i)
    <2>1. pc'[f] \in {"idle", "next", "release"}
        BY <1>3 DEF Release, LockFault, Crash, Onward, TypeOK
    <2> QED
        BY <2>1 DEF Unsettled, InAttempt
<1> QED
    BY <1>1, <1>2, <1>3 DEF BeginTick, Step, Acquire, SaveRun, MarkRunning, HandlerSucceeds, HandlerFails,
       HandlerTimesOut, FailRun, Finalize, Settle, Fault, TryFault, CatchFault, RunNow

\* Where a record that waits comes from.
LEMMA PendingFrom ==
    ASSUME TypeOK, OneShotInv, [Next]_vars, NEW j \in Jobs, Waits(j)'
    PROVE  \/ jobs'[j] = jobs[j] /\ \A f \in Flows : Finalize(f) \/ Settle(f) => att[f].job.id # j
           \/ \E f \in Flows : /\ Settle(f) /\ att[f].job.id = j /\ Oneshot(att[f].job)
                               /\ jobs'[j].attempts = att[f].job.attempts + 1
           \/ \E in \in Inputs : Schedule(j, in)
<1>1. ASSUME NEW f \in Flows, MarkRunning(f) \/ Finalize(f) \/ Settle(f), att[f].job.id = j
      PROVE  Settle(f) /\ Oneshot(att[f].job) /\ jobs'[j].attempts = att[f].job.attempts + 1
    <2> DEFINE job == att[f].job
    <2>1. InFlight(f) /\ job \in JobRec /\ att[f].finishedAt \in Nat /\ jobs'[j].cron = job.cron
        BY <1>1, AttemptWrites DEF SameKind, TypeOK, AttRec
    <2>2. Oneshot(job) /\ NextFires(job.cron, att[f].finishedAt) = {}
        BY <2>1, NullAssumption DEF Waits, Oneshot, NextFires
    <2>3. Running(job).status = "running" /\ Running(job) \in JobRec
        BY <2>1, RunningType DEF Running, JobRec
    <2>4. ~MarkRunning(f)
        BY <1>1, <2>1, <2>3 DEF MarkRunning, Write, TypeOK, Waits
    <2>5. \A outcome \in {"succeeded", "failed"} : \A new \in Finalized(job, att[f].finishedAt, outcome) :
              new.status # "pending"
        BY <2>2, <2>3 DEF Finalized, JobRec
    <2>6. ~Finalize(f)
        BY <1>1, <2>1, <2>5 DEF Finalize, Write, TypeOK, Waits
    <2>7. \E delay \in 0..MaxBackoff : Write(f, Retried(job, att[f].finishedAt, delay))
        BY <1>1, <2>1, <2>4, <2>5, <2>6 DEF Settle, Write, TypeOK, Waits
    <2>8. jobs'[j].attempts = job.attempts + 1
        BY <1>1, <2>1, <2>7 DEF Write, Retried, JobRec, TypeOK
    <2> QED
        BY <1>1, <2>2, <2>4, <2>6, <2>8
<1>2. ASSUME NEW f \in Flows, MarkRunning(f) \/ Finalize(f) \/ Settle(f), jobs'[j] # jobs[j]
      PROVE  att[f].job.id = j
    BY <1>2, AttemptWrites
<1>3. ASSUME NEW c \in Clients, Update(c) \/ Cancel(c) \/ Delete(c), jobs'[j] # jobs[j]
      PROVE  FALSE
    <2>1. client[c].op # "update" /\ client[c].job.id = j
        BY <1>3, CallWrites DEF OneShotInv, KindInv, NobodyUpdates
    <2>2. client[c].job \in JobRec
        BY <1>3, CallWrites
    <2>3. CASE Cancel(c)
        <3>1. jobs'[j] = [client[c].job EXCEPT !.status = "cancelled", !.enabled = FALSE, !.nextRunAt = Never]
            BY <2>1, <2>3 DEF Cancel, TypeOK
        <3> QED
            BY <2>2, <3>1 DEF JobRec, Waits
    <2>4. CASE Delete(c)
        BY <2>1, <2>4 DEF Delete, Oneshot, Waits, TypeOK
    <2> QED
        BY <1>3, <2>1, <2>3, <2>4 DEF Update
<1> QED
    BY <1>1, <1>2, <1>3, JobWriters

LEMMA StepWaits ==
    ASSUME TypeOK, TypeOK', OneCall, OneShotInv, CountInv, [Next]_vars, NEW j \in Jobs, Waits(j)'
    PROVE  \/ Counted(j, jobs[j].attempts)'
           \/ \E f \in Flows : Unsettled(f)' /\ att'[f].job.id = j /\ Counted(j, jobs[j].attempts + 1)'
<1>1. PICK n \in Nat : n = jobs'[j].attempts
    BY DEF TypeOK, Waits, Oneshot, JobRec
<1>2. IdsInv
    BY DEF OneShotInv
<1>3. SUFFICES \/ Counted(j, n)'
               \/ \E f \in Flows : Unsettled(f)' /\ att'[f].job.id = j /\ Counted(j, n + 1)'
    BY <1>1 DEF Counted, AttemptsAt
<1>4. CASE jobs'[j] = jobs[j] /\ \A f \in Flows : Finalize(f) \/ Settle(f) => att[f].job.id # j
    <2>1. Waits(j) /\ n = jobs[j].attempts
        BY <1>1, <1>4 DEF Waits
    <2>2. CASE Counted(j, n)
        <3>1. ASSUME NEW f \in Flows, Acquire(f), InFlight(f)'
              PROVE  Unsettled(f)'
            BY <3>1, AcquireTakes DEF Unsettled, InAttempt, Points
        <3> QED
            BY <1>2, <2>2, <3>1, CountedKept
    <2>3. ASSUME NEW f \in Flows, Unsettled(f), att[f].job.id = j, Counted(j, n + 1)
          PROVE  \/ Counted(j, n)'
                 \/ Unsettled(f)' /\ att'[f].job.id = j /\ Counted(j, n + 1)'
        <3>1. \A g \in Flows : ~Acquire(g)
            BY <2>3 DEF Acquire, OneCall, Unsettled, InAttempt
        <3>2. (Unsettled(f)' /\ att'[f].job = att[f].job) \/ faults' = faults + 1
            BY <1>4, <2>3, UnsettledMoves
        <3>3. CASE faults' = faults + 1
            BY <1>2, <2>3, <3>1, <3>3, CountedFault
        <3>4. Counted(j, n + 1)'
            <4>1. PICK m \in Nat : m = n + 1
                OBVIOUS
            <4> QED
                BY <1>2, <2>3, <3>1, <4>1, CountedKept
        <3> QED
            BY <2>3, <3>2, <3>3, <3>4
    <2> QED
        BY <2>1, <2>2, <2>3 DEF CountInv
<1>5. ASSUME NEW f \in Flows, Settle(f), att[f].job.id = j, Oneshot(att[f].job), n = att[f].job.attempts + 1
      PROVE  Counted(j, n)'
    <2>1. Unsettled(f) /\ \A g \in Flows : ~Acquire(g)
        BY <1>5 DEF Settle, Unsettled, InAttempt, Points, Acquire, OneCall
    <2>2. Counted(j, n)
        BY <1>5, <2>1 DEF CountInv
    <2> QED
        BY <1>2, <2>1, <2>2, CountedKept
<1>6. ASSUME NEW in \in Inputs, Schedule(j, in)
      PROVE  Counted(j, n)'
    BY <1>6, NewIsUncounted
<1> QED
    BY <1>1, <1>4, <1>5, <1>6, PendingFrom

LEMMA StepSnapshots ==
    ASSUME TypeOK, TypeOK', TicksOnly, OneCall, OneShotInv, CountInv, [Next]_vars,
           NEW f \in Flows, NEW a \in queue'[f], Oneshot(a)
    PROVE  Counted(a.id, a.attempts)'
<1>1. a \in JobRec /\ IdsInv
    BY DEF TypeOK, OneShotInv
<1>2. PICK j, n \in Nat : j = a.id /\ n = a.attempts
    BY <1>1, SetsAssumption DEF JobRec
<1>3. \A k \in Jobs : ~RunNow(f, k)
    BY DEF RunNow, TicksOnly
<1>4. CASE a \in queue[f]
    <2>1. Counted(j, n)
        BY <1>2, <1>4 DEF CountInv
    <2>2. ASSUME NEW g \in Flows, Acquire(g), InFlight(g)', att'[g].job.id = j
          PROVE  FALSE
        <3>1. g = f
            BY DEF OneCall
        <3>2. PICK job \in queue[f] : queue' = [queue EXCEPT ![f] = queue[f] \ {job}] /\ att'[f].job = job
            BY <2>2, <3>1, AcquireTakes
        <3>3. job # a
            BY <3>2 DEF TypeOK
        <3> QED
            BY <1>2, <1>4, <2>2, <3>1, <3>2, <3>3 DEF OneShotInv, OnceInv
    <2> QED
        BY <1>1, <1>2, <2>1, <2>2, CountedKept
<1>5. ASSUME BeginTick(f), NEW k \in Jobs, a = jobs[k], IsDue(jobs[k])
      PROVE  Counted(j, n)'
    <2>1. k = j /\ Waits(k)
        BY <1>2, <1>5 DEF IsDue, Waits, OneShotInv, IdsInv
    <2>2. \A g \in Flows : ~Unsettled(g) /\ ~Acquire(g)
        BY <1>5 DEF BeginTick, Unsettled, InAttempt, Acquire, OneCall
    <2>3. Counted(j, n)
        BY <1>2, <1>5, <2>1, <2>2 DEF CountInv
    <2> QED
        BY <1>1, <2>2, <2>3, CountedKept
<1>6. \/ a \in queue[f]
      \/ BeginTick(f) /\ \E k \in Jobs : a = jobs[k] /\ IsDue(jobs[k])
    BY <1>3, QueuedFrom
<1> QED
    BY <1>2, <1>4, <1>5, <1>6

LEMMA StepUnsettled ==
    ASSUME TypeOK, TypeOK', OneCall, OneShotInv, CountInv, [Next]_vars,
           NEW f \in Flows, Unsettled(f)', Oneshot(att'[f].job)
    PROVE  Counted(att[f].job.id, att[f].job.attempts + 1)'
<1>1. InFlight(f)' /\ IdsInv
    BY DEF Unsettled, InFlight, OneShotInv
<1>2. att'[f].job \in JobRec
    BY <1>1 DEF TypeOK, InFlight
<1>3. PICK job \in JobRec : job = att'[f].job
    BY <1>2
<1>4. PICK j, n \in Nat : j = job.id /\ n = job.attempts
    BY SetsAssumption DEF JobRec
<1>5. Counted(j, n + 1)'
    <2>1. CASE Acquire(f) /\ job \in queue[f]
        <3>1. Counted(j, n) /\ faults' \in Nat /\ AttemptsAt(j)' \in Nat
            <4>1. Counted(j, n)
                BY <1>3, <1>4, <2>1 DEF CountInv
            <4>2. faults' \in Nat
                BY DEF TypeOK
            <4>3. AttemptsAt(j)' \in Nat
                BY CountMoves, CountType, <1>1
            <4> QED
                BY <4>1, <4>2, <4>3
        <3>2. Counted(j, n)' \/ Counted(j, n + 1)'
            BY <1>1, <3>1, CountedKept
        <3> QED
            BY <3>1, <3>2 DEF Counted
    <2>2. CASE ~Acquire(f) /\ InFlight(f) /\ job = att[f].job
        <3>1. Unsettled(f)
            BY <2>2, ReleaseStays DEF Unsettled, InFlight
        <3>2. PICK m \in Nat : m = n + 1
            OBVIOUS
        <3>3. Counted(j, m)
            BY <1>3, <1>4, <2>2, <3>1, <3>2 DEF CountInv
        <3>4. \A g \in Flows : ~Acquire(g)
            BY <2>2 DEF OneCall
        <3> QED
            BY <1>1, <3>2, <3>3, <3>4, CountedKept
    <2> QED
        BY <1>1, <1>3, <2>1, <2>2, AttemptedFrom
<1>6. PICK m : m = n + 1
    OBVIOUS
<1> QED
    BY <1>3, <1>4, <1>5

\* An attempt beyond maxRetries would begin from a snapshot whose counter is beyond it.
LEMMA StepAttempts ==
    ASSUME TypeOK, TypeOK', OneCall, OneShotInv, BudgetInv, CountInv, [Next]_vars, NEW a \in Held', Oneshot(a)
    PROVE  Counted(a.id, a.maxRetries + 1)'
<1>1. a \in JobRec /\ IdsInv /\ NobodyUpdates
    <2>1. (Held \subseteq JobRec)'
        <3>1. \A c \in Clients : client'[c].op # "none" => client'[c].job \in JobRec
            <4> SUFFICES ASSUME NEW c \in Clients, client'[c].op # "none"
                         PROVE  client'[c].job \in JobRec
                OBVIOUS
            <4>1. client'[c] # NoCall
                BY DEF NoCall
            <4> QED
                BY <4>1 DEF TypeOK
        <3> QED
            BY <3>1 DEF TypeOK, Held, Stored, Queued, Attempted, Called, InFlight
    <2> QED
        BY <2>1 DEF OneShotInv, KindInv
<1>2. PICK j, n \in Nat : j = a.id /\ n = a.maxRetries
    BY <1>1, SetsAssumption DEF JobRec
<1>3. ASSUME NEW b \in Held, SameJob(a, b)
      PROVE  Counted(j, n + 1)'
    <2>1. b.id = j /\ b.maxRetries = n /\ Oneshot(b)
        BY <1>1, <1>2, <1>3, HeldType, NullAssumption DEF SameJob, SameKind, Oneshot
    <2>2. PICK m \in Nat : m = n + 1
        OBVIOUS
    <2>3. Counted(j, m)
        BY <2>1, <2>2 DEF CountInv
    <2>4. ASSUME NEW f \in Flows, Acquire(f), InFlight(f)', att'[f].job.id = j
          PROVE  Counted(j, m)'
        <3>1. PICK s \in queue[f] : s = att'[f].job
            BY <2>4, AcquireTakes
        <3>2. s \in Held /\ s \in JobRec /\ Oneshot(s) /\ s.id = j /\ s.maxRetries = n
            BY <2>1, <2>4, <3>1, HeldType, NullAssumption DEF Held, Queued, OneShotInv, KindInv, SameKind, Oneshot
        <3>3. Counted(j, s.attempts) /\ s.attempts <= n /\ s.attempts \in Nat
            BY <3>2 DEF CountInv, BudgetInv, Within, JobRec
        <3>4. PICK k \in Nat : k = s.attempts
            BY <3>3
        <3>5. Counted(j, k)' \/ Counted(j, k + 1)'
            BY <1>1, <3>3, <3>4, CountedKept
        <3>6. faults' \in Nat /\ AttemptsAt(j)' \in Nat
            <4>1. AttemptsAt(j)' \in Nat
                BY CountMoves, CountType, <1>1
            <4> QED
                BY <4>1 DEF TypeOK
        <3> QED
            BY <2>2, <3>3, <3>4, <3>5, <3>6 DEF Counted
    <2>5. Counted(j, m)'
        BY <1>1, <2>3, <2>4, CountedKept
    <2> QED
        BY <2>2, <2>5
<1>4. ASSUME NEW k \in Jobs, NEW in \in Inputs, Schedule(k, in), a.id = k
      PROVE  Counted(j, n + 1)'
    <2>1. PICK m \in Nat : m = n + 1
        OBVIOUS
    <2> QED
        BY <1>2, <1>4, <2>1, NewIsUncounted
<1>5. Counted(j, n + 1)'
    BY <1>1, <1>3, <1>4, HeldFrom
<1> QED
    BY <1>2, <1>5

LEMMA StepCount ==
    ASSUME TypeOK, TypeOK', TicksOnly, OneCall, OneShotInv, BudgetInv, CountInv, [Next]_vars
    PROVE  CountInv'
<1>1. \A j \in Jobs : Waits(j)' =>
           \/ Counted(j, jobs[j].attempts)'
           \/ \E f \in Flows : Unsettled(f)' /\ att'[f].job.id = j /\ Counted(j, jobs[j].attempts + 1)'
    BY StepWaits
<1>2. \A f \in Flows : \A a \in queue'[f] : Oneshot(a) => Counted(a.id, a.attempts)'
    BY StepSnapshots
<1>3. \A f \in Flows : Unsettled(f)' /\ Oneshot(att'[f].job) => Counted(att[f].job.id, att[f].job.attempts + 1)'
    BY StepUnsettled
<1>4. \A a \in Held' : Oneshot(a) => Counted(a.id, a.maxRetries + 1)'
    BY StepAttempts
<1> QED
    BY <1>1, <1>2, <1>3, <1>4 DEF CountInv, Counted

\* Where one call at a time does the work and nobody updates a job or runs it by
\* hand, no one-shot job succeeds twice: not after a rejected save, a handler that
\* outlived its timeout, a crash, a cancellation or a deletion in mid-attempt.  And
\* it is attempted no more than maxRetries + 1 times, and once more for each
\* rejected call or crash.
THEOREM OneShotWorkBounded ==
    ASSUME OneCall, TicksOnly PROVE Spec => []OneShotWorkIsBounded
<1>1. Init => OneShotInv
    BY DEF Init, OneShotInv, IdsInv, KindInv, NobodyUpdates, OnceInv, Held, Stored, Queued,
           Attempted, Called, InFlight, InAttempt, NoCall, Oneshot
<1>2. TypeOK /\ TypeOK' /\ OneShotInv /\ [Next]_vars => OneShotInv'
    BY StepOnce
<1>3. OneShotInv => OneShotRunsOnce
    <2> SUFFICES ASSUME OneShotInv, NEW j \in Jobs, Oneshot(jobs[j])
                 PROVE  Cardinality(Succeeded(j)) <= 1
        BY DEF OneShotRunsOnce, Succeeded
    <2>1. jobs[j] \in Held /\ jobs[j].id = j
        BY DEF Held, Stored, Oneshot, OneShotInv, IdsInv
    <2>2. \A q, r \in Succeeded(j) : q = r
        BY <2>1 DEF OneShotInv, OnceInv
    <2>3. CASE Succeeded(j) = {}
        BY <2>3, FS_EmptySet
    <2>4. CASE Succeeded(j) # {}
        <3>1. PICK r \in Succeeded(j) : TRUE
            BY <2>4
        <3>2. Succeeded(j) = {r}
            BY <2>2, <3>1
        <3>3. Cardinality({r}) = 1
            BY FS_Singleton
        <3> QED
            BY <3>2, <3>3
    <2> QED
        BY <2>3, <2>4
<1>4. Init => BudgetInv /\ CountInv
    BY DEF Init, BudgetInv, CountInv, Waits, Held, Stored, Queued, Attempted, Called, InFlight, InAttempt, Unsettled,
           NoCall, Oneshot
<1>5. TypeOK /\ BudgetInv /\ [Next]_vars => BudgetInv'
    BY StepBudget
<1>6. TypeOK /\ TypeOK' /\ OneShotInv /\ BudgetInv /\ CountInv /\ [Next]_vars => CountInv'
    BY StepCount
<1>7. TypeOK /\ OneShotInv /\ CountInv => OneShotWorkIsBounded
    <2> SUFFICES ASSUME TypeOK, OneShotInv, CountInv, NEW j \in Jobs, Oneshot(jobs[j])
                 PROVE  AttemptsAt(j) <= jobs[j].maxRetries + 1 + faults
        BY <1>3 DEF OneShotWorkIsBounded
    <2>1. jobs[j] \in Held /\ jobs[j].id = j /\ jobs[j] \in JobRec
        BY DEF Held, Stored, Oneshot, OneShotInv, IdsInv, TypeOK
    <2> QED
        BY <2>1 DEF CountInv, Counted
<1> QED
    BY <1>1, <1>2, <1>3, <1>4, <1>5, <1>6, <1>7, TypeCorrect, PTL DEF Spec
=============================================================================
